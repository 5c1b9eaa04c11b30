---------------------------- MODULE MC_Resolution ----------------------------
(* Small instances of MarketResolution for TLC. *)
EXTENDS ResolutionProperties

CONSTANTS yes, no

\* No request from before the migration.
NoHistory == [m \in Markets |-> [asks |-> 0, answers |-> {}]]

\* One request from before the migration, without a usable answer.
AskedBefore == [m \in Markets |-> [asks |-> 1, answers |-> {}]]

=============================================================================
