------------------------------ MODULE AskedCache ------------------------------
(***************************************************************************)
(* What scan_markets relies on when it calls fetch_mech_requests_for_market *)
(* for a market: the requests ever recorded for it, the ones from before   *)
(* the migration included, are one set that only grows, and a read returns *)
(* all of it or fails.                                                     *)
(***************************************************************************)
CONSTANTS
    Keys,         \* the ids of the market's requests
    Unreadable,   \* the result None of a read that failed
    NotRead       \* no read since the last request

VARIABLES
    recorded,   \* the requests recorded so far
    reply       \* what the last read returned

cacheVars == <<recorded, reply>>

CacheInit == recorded \subseteq Keys /\ reply = NotRead

Read ==
    /\ reply' \in {Unreadable, recorded}
    /\ UNCHANGED recorded

\* A request or its delivery is recorded; a write that is lost leaves it out.
Record ==
    /\ recorded \subseteq recorded' /\ recorded' \subseteq Keys
    /\ reply' \in {NotRead, reply}

CacheNext == Read \/ Record

CacheSpec == CacheInit /\ [][CacheNext]_cacheVars

=============================================================================
