----------------------------- MODULE MarketEntry -----------------------------
(***************************************************************************)
(* An entry of questions_db and the decisions scan_markets.py and          *)
(* build_answer_tx.py take on it: classification (step 6), the gates of    *)
(* the actionable selection (step 7), the sort key, and the cooldowns.     *)
(* status is recomputed from the entry by every scan before it is read,    *)
(* so it is an operator here and not a field.                              *)
(***************************************************************************)
EXTENDS Realitio

CONSTANTS
    Undet,              \* a parsed evaluation whose answer is null (case B)
    MaxRetries,         \* max_mech_retries
    InitialBond,        \* initial_answer_bond
    MaxBond,            \* max_challenge_bond
    RetryCooldown,      \* mech_retry_cooldown
    NoAnswerCooldown,   \* 86400: undeterminable and nothing on chain
    ChallengeCooldown,  \* realitio_timeout * challenge_cooldown_fraction
    UrgencyBuffer       \* challenge_urgency_buffer

ASSUME EntryAssumption ==
    /\ Undet \notin Answers \cup {None}
    /\ MaxRetries \in Nat
    /\ InitialBond \in Nat \ {0}
    /\ MaxBond \in Nat
    /\ RetryCooldown \in Nat
    /\ NoAnswerCooldown \in Nat
    /\ ChallengeCooldown \in Nat
    /\ UrgencyBuffer \in Nat

Trusted == {"us", "trusted"}

Entry == [answer : Answers \cup {None}, bond : Nat,
          answerer : Answerers \cup {"nobody"}, ts : Nat,
          evaluation : Answers \cup {None, Undet},
          retries : Nat, nonce : Nat, retryAfter : Int,
          pending : BOOLEAN, txTime : Nat]

\* Mutation: a fresh entry whose retry_after is null.
NewEntryNull ==
    [answer |-> None, bond |-> 0, answerer |-> "nobody", ts |-> 0,
     evaluation |-> None, retries |-> 0, nonce |-> 0, retryAfter |-> None,
     pending |-> FALSE, txTime |-> 0]

\* _new_entry: nonce 0 is pending_nonce None; pending, that there is a
\* pending_tx (its escalation_count, at least 1, is only compared with 0).
NewEntry ==
    [answer |-> None, bond |-> 0, answerer |-> "nobody", ts |-> 0,
     evaluation |-> None, retries |-> 0, nonce |-> 0, retryAfter |-> 0,
     pending |-> FALSE, txTime |-> 0]

\* Step 4: the on-chain half of an entry is overwritten by the subgraph row,
\* the rest of it survives.
Upserted(e, row, answerer) ==
    [e EXCEPT !.answer = row.answer, !.bond = row.bond,
              !.answerer = answerer, !.ts = row.ts]

\* Mutation: the count does not converge to the cached rows.
RetriesLocal(retries, rows) == retries

\* Step 5: mech_retries converges to the number of cached rows and never
\* falls below the local count.
RetriesSeen(retries, rows) == IF rows > retries THEN rows ELSE retries

\* Mutation: the evaluation in the cached rows is not used.
RefreshedBlind(e, found, rows) ==
    [e EXCEPT !.evaluation = IF e.evaluation = Undet THEN None ELSE e.evaluation,
              !.retries = RetriesSeen(e.retries, rows)]

\* Mutation: an undeterminable evaluation is kept.
RefreshedSticky(e, found, rows) ==
    [e EXCEPT !.evaluation = IF e.evaluation = None THEN found ELSE e.evaluation,
              !.retries = RetriesSeen(e.retries, rows)]

\* Steps 5 and 6: an evaluation is taken from the cache only when the entry
\* has none; an undeterminable one is then dropped.
Refreshed(e, found, rows) ==
    LET evaluation == IF e.evaluation = None THEN found ELSE e.evaluation
    IN  [e EXCEPT !.evaluation = IF evaluation = Undet THEN None ELSE evaluation,
                  !.retries = RetriesSeen(e.retries, rows)]

\* Step 6 without a cache read.
UndetDropped(e) ==
    [e EXCEPT !.evaluation = IF e.evaluation = Undet THEN None ELSE e.evaluation]

Status(e) ==
    CASE e.answer = None                        -> "NEEDS_ANSWER"
      [] e.answer # None /\ e.answerer \in Trusted -> "TRUSTED_ANSWER"
      [] e.answer # None /\ e.answerer \notin Trusted
         /\ e.evaluation = e.answer             -> "VERIFIED"
      [] e.answer # None /\ e.answerer \notin Trusted
         /\ e.evaluation \notin {None, Undet, e.answer} -> "TRANSACTION_PENDING"
      [] OTHER                                  -> "NEEDS_VERIFICATION"

\* Mutation: nothing special about a first answer.
RequiredBondDoubled(bond) == 2 * bond

\* Mutation: the bond is raised by the first one and not doubled.
RequiredBondRaised(bond) == bond + InitialBond

RequiredBond(bond) == IF bond > 0 THEN 2 * bond ELSE InitialBond

\* Mutation: the cap is compared with the bond in place, not the next one.
WithinCapOfNext(bond) == bond <= 2 * MaxBond

WithinCap(bond) == bond <= MaxBond

\* submitAnswer's max_previous: 0 (unchecked) for a first answer.
MaxPrevious(bond) == bond

\* Mutation: retry_after is not looked at.
RetryGateCountOnly(e, now) == e.retries < MaxRetries

\* fresh Mech requests wait for retry_after and stop at the retry limit
RetryGate(e, now) == now >= e.retryAfter /\ e.retries < MaxRetries

Deadline(e) == e.ts + AnswerTimeout

IsUrgent(e, now) == now >= Deadline(e) - UrgencyBuffer

\* Mutation: a repeated challenge waits for the cooldown, urgent or not.
ChallengeGatePatient(e, now) ==
    /\ now < Deadline(e)
    /\ e.pending => now >= e.txTime + ChallengeCooldown

\* a repeated challenge waits for the cooldown unless it is urgent
ChallengeGate(e, now) ==
    /\ now < Deadline(e)
    /\ e.pending => IsUrgent(e, now) \/ now >= e.txTime + ChallengeCooldown

Actionable(e, now, balance) ==
    /\ Status(e) \notin {"TRUSTED_ANSWER", "VERIFIED"}
    /\ WithinCap(RequiredBond(e.bond))
    /\ RequiredBond(e.bond) <= balance
    /\ Status(e) \in {"NEEDS_ANSWER", "NEEDS_VERIFICATION"} => RetryGate(e, now)
    /\ Status(e) = "TRANSACTION_PENDING" => ChallengeGate(e, now)

\* _actionable_sort_key: answered before unanswered, then the soonest
\* deadline (no timestamp counts as infinity), then the fewest retries.
Before(e, f) ==
    \/ e.answer # None /\ f.answer = None
    \/ /\ (e.answer = None) <=> (f.answer = None)
       /\ \/ e.ts > 0 /\ (f.ts = 0 \/ e.ts < f.ts)
          \/ e.ts = f.ts /\ e.retries < f.retries

\* retry_after once an evaluation turned out undeterminable
AfterUndetermined(e, now) ==
    IF e.bond > 0 /\ e.ts > 0
    THEN LET nearEnd == Deadline(e) - ChallengeCooldown
         IN  IF nearEnd > now + RetryCooldown THEN nearEnd ELSE now + RetryCooldown
    ELSE now + NoAnswerCooldown

\* _read_onchain_answer_and_bond: zero answer and zero bond is "unanswered".
Decoded(answer, bond, zero) == IF answer = zero /\ bond = 0 THEN None ELSE answer

\* Mutation: the answer preflight found is not compared.
NeverAgrees(onChain, evaluation) == FALSE

\* an unanswered question agrees with nothing
Agrees(onChain, evaluation) == onChain # None /\ onChain = evaluation

=============================================================================
