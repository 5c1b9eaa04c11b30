----------------------------- MODULE SafeLedger ------------------------------
(***************************************************************************)
(* What the operator of the Safe may rely on, and all it needs to know of  *)
(* the agent: for what it pays, on what it stakes and how much.  There are *)
(* no rounds, entries, scans or restarts here; MarketResolution is shown   *)
(* to move only as this module allows.                                     *)
(***************************************************************************)
EXTENDS Integers

CONSTANTS
    Markets, Answers,
    MaxRetries,    \* max_mech_retries
    InitialBond,   \* initial_answer_bond
    MaxBond,       \* max_challenge_bond
    History        \* History[m]: requests and answers from before the migration

VARIABLES
    sent,     \* sent[m]: the Mech requests paid for
    lost,     \* lost[m]: the requests whose row was given up
    cached,   \* cached[m]: the answers on record in the kv_store
    staked,   \* staked[m]: the xDAI the Safe put up
    best      \* best[m]: the question's best answer and its bond

ledgerVars == <<sent, lost, cached, staked, best>>

OnRecord(m) == cached[m] \cup History[m].answers

\* An evaluation of m was paid for, now or before the migration.
Evaluated(m) == sent[m] > 0 \/ History[m].answers # {}

LedgerInit ==
    /\ sent = [m \in Markets |-> 0]
    /\ lost = [m \in Markets |-> 0]
    /\ cached = [m \in Markets |-> {}]
    /\ staked = [m \in Markets |-> 0]
    /\ \A m \in Markets : best[m].bond = 0

\* A request is paid for only without an answer on record, and within the
\* limit, old requests included; a row that was given up is one more.
Pay(m) ==
    /\ OnRecord(m) = {}
    /\ sent[m] + 1 + History[m].asks <= MaxRetries + lost[m]
    /\ sent' = [sent EXCEPT ![m] = @ + 1]
    /\ UNCHANGED <<lost, cached, staked, best>>

GiveUpRow(m) ==
    /\ lost' = [lost EXCEPT ![m] = @ + 1]
    /\ UNCHANGED <<sent, cached, staked, best>>

\* The one answer of a market goes on record, and it was paid for.
Store(m, answer) ==
    /\ OnRecord(m) = {} /\ sent[m] > 0
    /\ cached' = [cached EXCEPT ![m] = {answer}]
    /\ UNCHANGED <<sent, lost, staked, best>>

\* The Safe stakes on an evaluation, the recorded one if there is one, within
\* the cap, and no more than Realitio asks: the opening bond or twice the one
\* in place.
Stake(m, answer) ==
    /\ Evaluated(m)
    /\ OnRecord(m) # {} => answer \in OnRecord(m)
    /\ \E bond \in {InitialBond, 2 * best[m].bond} :
          /\ bond >= 2 * best[m].bond /\ bond <= MaxBond
          /\ staked' = [staked EXCEPT ![m] = @ + bond]
          /\ best' = [best EXCEPT ![m] = [answer |-> answer, bond |-> bond]]
    /\ UNCHANGED <<sent, lost, cached>>

\* Somebody else answers, with at least twice the bond in place.
Outbid(m) ==
    /\ best'[m].bond \in Nat \ {0} /\ best'[m].bond >= 2 * best[m].bond
    /\ best' = [best EXCEPT ![m] = best'[m]]
    /\ UNCHANGED <<sent, lost, cached, staked>>

LedgerNext ==
    \E m \in Markets :
        \/ Pay(m) \/ GiveUpRow(m) \/ Outbid(m)
        \/ \E answer \in Answers : Store(m, answer) \/ Stake(m, answer)

LedgerSpec == LedgerInit /\ [][LedgerNext]_ledgerVars

=============================================================================
