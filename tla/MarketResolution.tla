--------------------------- MODULE MarketResolution ---------------------------
(***************************************************************************)
(* One agent of the market resolver running its resolution cycle:          *)
(* ScanMarkets -> EvaluateAnswers -> (MechInteract) -> BuildAnswerTx ->    *)
(* (TxSettlement) -> ResetAndPause.  Each action is the code of one        *)
(* behaviour between two awaits; in between, other parties answer on       *)
(* Realitio, the subgraphs lag, kv_store and subgraph requests fail,       *)
(* rounds time out and the agent restarts.                                 *)
(*                                                                         *)
(* questions_db (tracked, entry) is memory of the process.  scan_markets   *)
(* works on a shallow copy: work is the copy's key set, while the entries  *)
(* are shared, so what it writes into an entry survives a scan that never  *)
(* reaches _send_payload, and what it adds or purges does not.             *)
(***************************************************************************)
EXTENDS MarketEntry, FiniteSets

CONSTANTS
    Garbage,     \* a Mech result parse_mech_response rejects
    ZeroAnswer,  \* the answer encoded as 32 zero bytes
    Untitled,    \* the markets the subgraph gives no title for
    History,     \* History[m]: requests and answers from before the migration
    Balances,    \* what the Safe may hold when its balance is read
    MaxNonce,    \* bound: the nonces evaluate_answers draws
    MaxFaults    \* bound: failures, timeouts and restarts in one behaviour

ASSUME ResolutionAssumption ==
    /\ Garbage \notin Answers \cup {None, Undet}
    /\ ZeroAnswer \in Answers
    /\ History \in [Markets -> [asks : Nat, answers : SUBSET Answers]]
    /\ Balances \subseteq Nat
    /\ MaxFaults \in Nat

VARIABLES
    pc,        \* the await the agent is at
    tracked,   \* the keys of shared_state.questions_db
    work,      \* the keys of the scan's copy of it
    skipped,   \* skipped_seed_markets
    entry,     \* the entries either dict refers to
    selected,  \* selected_market_id of the synchronized data
    response,  \* mech_responses: the last delivery
    fresh,     \* the best answer preflight has read, and the bond it had
    torn,      \* ghost: the pair preflight read belongs to no chain state
    tx,        \* the submitAnswer transaction handed to TxSettlement
    asked,     \* asked[m]: the nonces with a row in the kv_store
    cached,    \* cached[m]: the answers in the delivered rows
    issued,    \* the nonces drawn so far
    sent,      \* ghost: sent[m] Mech requests were paid
    lost,      \* ghost: lost[m] fire-time writes were given up
    late,      \* ghost: the markets the Mech answered after its round ended
    staked,    \* ghost: the xDAI the Safe put up on m
    faults     \* the faults so far

consensusVars == <<selected, response, tx>>
kvVars == <<asked, cached>>
ghostVars == <<sent, lost, late, staked>>
memoryVars == <<tracked, work, skipped, entry>>
readVars == <<fresh, torn>>
vars == <<clock, chain, indexed, pc, tracked, work, skipped, entry, selected,
          response, fresh, torn, tx, asked, cached, issued, sent, lost, late,
          staked, faults>>

NoResponse == [nonce |-> 0, result |-> Garbage]
NoTx == [market |-> None, answer |-> ZeroAnswer, bond |-> 0, maxPrevious |-> 0]
NoRead == [answer |-> ZeroAnswer, bond |-> 0]

Steps == {"scan", "select", "evaluate", "fired", "request", "await", "build",
          "judge", "readBond", "decide", "settle", "reset"}

Init ==
    /\ RealitioInit
    /\ pc = "scan"
    /\ tracked = {} /\ work = {} /\ skipped = {}
    /\ entry = [m \in Markets |-> NewEntry]
    /\ selected = None
    /\ response = NoResponse
    /\ fresh = NoRead /\ torn = FALSE
    /\ tx = NoTx
    /\ asked = [m \in Markets |-> {}]
    /\ cached = [m \in Markets |-> {}]
    /\ issued = 0
    /\ sent = [m \in Markets |-> 0]
    /\ lost = [m \in Markets |-> 0]
    /\ late = {}
    /\ staked = [m \in Markets |-> 0]
    /\ faults = 0

Charge(n) == faults + n <= MaxFaults /\ faults' = faults + n

\* An entry no dict refers to is gone.
Kept(markets) == [m \in Markets |-> IF m \in markets THEN entry[m] ELSE NewEntry]

WithEntry(e) == entry' = [entry EXCEPT ![selected] = e]

RowsOf(m) == Cardinality(asked[m]) + History[m].asks

\* Mutation: no answer in the rows reads as the zero answer.
CachedEvaluationsZero(m) ==
    LET answers == cached[m] \cup History[m].answers
    IN  IF answers = {} THEN {ZeroAnswer} ELSE answers

\* Rows are listed by key and keys are random nonces: of several valid
\* answers any may come first.
CachedEvaluations(m) ==
    LET answers == cached[m] \cup History[m].answers
    IN  IF answers = {} THEN {None} ELSE answers

-----------------------------------------------------------------------------
(* ScanMarkets *)

\* Two queries, pending and finalizing; a query that fails counts as empty.
Fetched(pendingOk, finalizingOk) ==
    {m \in Markets :
        IF indexed[m].bond = 0 THEN pendingOk
        ELSE finalizingOk /\ clock < indexed[m].ts + AnswerTimeout}

\* Realitio's subgraph has an index of its own; a failed batch leaves "".
AnswererSeen(m, silent, ahead) ==
    IF indexed[m].answer = None \/ m \in silent THEN "nobody"
    ELSE IF m \in ahead THEN chain[m].answerer ELSE indexed[m].answerer

\* Steps 4 to 6 on one market; an unread one keeps what the cache feeds.
SyncedEntry(m, answerer, unread, found) ==
    LET e == Upserted(entry[m], indexed[m], answerer)
    IN  IF unread THEN UndetDropped(e) ELSE Refreshed(e, found, RowsOf(m))

\* Steps 1 to 6.  Unread markets are held out of the selection.
ScanSyncs(fetched, cost, silent, ahead, unread, pick) ==
    /\ \A m \in Markets : pick[m] \in CachedEvaluations(m)
    /\ Charge(IF silent = {} /\ unread = {} THEN cost ELSE 1)
    /\ work' = fetched
    /\ skipped' = unread
    /\ entry' = [m \in Markets |->
          IF m \in fetched
          THEN SyncedEntry(m, AnswererSeen(m, silent, ahead), m \in unread, pick[m])
          ELSE entry[m]]

ScanSync ==
    /\ pc = "scan"
    /\ \E pendingOk \in BOOLEAN, finalizingOk \in BOOLEAN :
         LET fetched == Fetched(pendingOk, finalizingOk)
             cost == IF pendingOk /\ finalizingOk THEN 0 ELSE 1
         IN  \E silent \in SUBSET fetched, ahead \in SUBSET fetched,
                unread \in SUBSET fetched,
                pick \in [Markets -> Answers \cup {None}] :
                   ScanSyncs(fetched, cost, silent, ahead, unread, pick)
    /\ pc' = "select"
    /\ UNCHANGED <<realitioVars, tracked, consensusVars, readVars, kvVars,
                   issued, ghostVars>>

\* The round ends before the payload: the copy is dropped, the scan restarts.
ScanTimeout ==
    /\ pc = "select"
    /\ Charge(1)
    /\ work' = {} /\ skipped' = {}
    /\ entry' = Kept(tracked)
    /\ pc' = "scan"
    /\ UNCHANGED <<realitioVars, tracked, consensusVars, readVars, kvVars,
                   issued, ghostVars>>

\* What the sort can put first: the order of equals is that of the copy.
First(actionable) == {m \in actionable : \A n \in actionable : ~ Before(entry[n], entry[m])}

\* Step 7 and _send_payload, which makes the copy the questions_db.
ScanSelect ==
    /\ pc = "select"
    /\ \E balance \in Balances :
         LET actionable == {m \in work \ skipped : Actionable(entry[m], clock, balance)}
         IN  \/ /\ actionable = {}
                /\ pc' = "reset"
                /\ UNCHANGED selected
             \/ /\ selected' \in First(actionable)
                /\ pc' = "evaluate"
    /\ tracked' = work /\ work' = {} /\ skipped' = {}
    /\ entry' = Kept(work)
    /\ UNCHANGED <<realitioVars, response, tx, readVars, kvVars, issued,
                   ghostVars, faults>>

-----------------------------------------------------------------------------
(* EvaluateAnswers *)

CannotAsk(m) ==
    \/ m \notin tracked
    \/ entry[m].evaluation = None /\ (entry[m].retries >= MaxRetries \/ m \in Untitled)

Evaluate ==
    /\ pc = "evaluate"
    /\ pc' = IF CannotAsk(selected) THEN "reset" ELSE "build"
    /\ CannotAsk(selected) \/ entry[selected].evaluation # None
    /\ UNCHANGED <<realitioVars, memoryVars, consensusVars, readVars, kvVars,
                   issued, ghostVars, faults>>

\* The retry is counted and the nonce stored before anything is written.
EvaluateFire ==
    /\ pc = "evaluate"
    /\ ~ CannotAsk(selected) /\ entry[selected].evaluation = None
    /\ issued < MaxNonce
    /\ issued' = issued + 1
    /\ WithEntry([entry[selected] EXCEPT !.retries = @ + 1, !.nonce = issued + 1])
    /\ pc' = "fired"
    /\ UNCHANGED <<realitioVars, tracked, work, skipped, consensusVars, readVars,
                   kvVars, ghostVars, faults>>

\* _buffer_mech_request_fired: three attempts, then on regardless.  landed is
\* whether the row was applied, whatever the replies said.
FireWrite(landed) ==
    /\ pc = "fired"
    /\ Charge(IF landed THEN 0 ELSE 1)
    /\ asked' = IF landed
                THEN [asked EXCEPT ![selected] = @ \cup {entry[selected].nonce}]
                ELSE asked
    /\ lost' = IF landed THEN lost ELSE [lost EXCEPT ![selected] = @ + 1]
    /\ pc' = "request"
    /\ UNCHANGED <<realitioVars, memoryVars, consensusVars, readVars, cached,
                   issued, sent, late, staked>>

\* The round ends while the write is under way, and nothing is sent.
EvaluateTimeout ==
    /\ pc = "fired"
    /\ Charge(1)
    /\ asked' \in {asked, [asked EXCEPT ![selected] = @ \cup {entry[selected].nonce}]}
    /\ pc' = "reset"
    /\ UNCHANGED <<realitioVars, memoryVars, consensusVars, readVars, cached,
                   issued, ghostVars>>

-----------------------------------------------------------------------------
(* MechInteract *)

MechPaid ==
    /\ pc = "request"
    /\ sent' = [sent EXCEPT ![selected] = @ + 1]
    /\ pc' = "await"
    /\ UNCHANGED <<realitioVars, memoryVars, consensusVars, readVars, kvVars,
                   issued, lost, late, staked, faults>>

\* FinishedMechRequestSkip, FailedOffchainMechRequest, TxSettlement Failed.
MechNotSent ==
    /\ pc = "request"
    /\ Charge(1)
    /\ pc' = "reset"
    /\ UNCHANGED <<realitioVars, memoryVars, consensusVars, readVars, kvVars,
                   issued, ghostVars>>

MechDelivers ==
    /\ pc = "await"
    /\ \E result \in Answers \cup {Undet, Garbage} :
          response' = [nonce |-> issued, result |-> result]
    /\ pc' = "build"
    /\ UNCHANGED <<realitioVars, memoryVars, selected, tx, readVars, kvVars,
                   issued, ghostVars, faults>>

\* MechResponse ROUND_TIMEOUT; the Mech may still answer, unseen.
MechTimeout ==
    /\ pc = "await"
    /\ Charge(1)
    /\ late' \in {late, late \cup {selected}}
    /\ pc' = "reset"
    /\ UNCHANGED <<realitioVars, memoryVars, consensusVars, readVars, kvVars,
                   issued, sent, lost, staked>>

-----------------------------------------------------------------------------
(* BuildAnswerTx *)

Matched ==
    /\ selected \in tracked
    /\ entry[selected].evaluation = None
    /\ entry[selected].nonce # 0
    /\ response.nonce = entry[selected].nonce

\* The evaluation goes into the entry, then the delivered row is written.
BuildMatched(landed) ==
    /\ pc = "build"
    /\ Matched
    /\ Charge(IF landed THEN 0 ELSE 1)
    /\ WithEntry([entry[selected] EXCEPT
            !.evaluation = IF response.result = Garbage THEN @ ELSE response.result])
    /\ asked' = IF landed THEN [asked EXCEPT ![selected] = @ \cup {response.nonce}]
                ELSE asked
    /\ cached' = IF landed THEN [cached EXCEPT ![selected] = @ \cup
                                    ({response.result} \cap Answers)]
                 ELSE cached
    /\ pc' = "judge"
    /\ UNCHANGED <<realitioVars, tracked, work, skipped, consensusVars, readVars,
                   issued, ghostVars>>

BuildUnmatched ==
    /\ pc = "build"
    /\ ~ Matched
    /\ pc' = IF selected \in tracked THEN "judge" ELSE "reset"
    /\ UNCHANGED <<realitioVars, memoryVars, consensusVars, readVars, kvVars,
                   issued, ghostVars, faults>>

\* No usable evaluation: garbage, or undeterminable.
BuildCooldown ==
    /\ pc = "judge"
    /\ LET e == entry[selected] IN
         \/ /\ e.evaluation = None
            /\ WithEntry([e EXCEPT !.retryAfter =
                             IF e.nonce # 0 THEN clock + RetryCooldown ELSE @])
         \/ /\ e.evaluation = Undet
            /\ WithEntry([e EXCEPT !.retryAfter = AfterUndetermined(e, clock)])
    /\ pc' = "reset"
    /\ UNCHANGED <<realitioVars, tracked, work, skipped, consensusVars, readVars,
                   kvVars, issued, ghostVars, faults>>

\* Preflight: get_best_answer and get_bond are two requests.
PreflightAnswer ==
    /\ pc = "judge"
    /\ entry[selected].evaluation \in Answers
    /\ torn' = FALSE
    /\ \/ /\ fresh' = [answer |-> IF chain[selected].answer = None THEN ZeroAnswer
                                  ELSE chain[selected].answer,
                       bond |-> chain[selected].bond]
          /\ pc' = "readBond"
          /\ Charge(0)
       \/ /\ Charge(1)
          /\ pc' = "decide"
          /\ UNCHANGED fresh
    /\ UNCHANGED <<realitioVars, memoryVars, consensusVars, kvVars, issued, ghostVars>>

PreflightBond ==
    /\ pc = "readBond"
    /\ \/ /\ Charge(0)
          /\ torn' = (chain[selected].bond # fresh.bond)
          /\ WithEntry([entry[selected] EXCEPT
                  !.answer = Decoded(fresh.answer, chain[selected].bond, ZeroAnswer),
                  !.bond = chain[selected].bond])
       \/ Charge(1) /\ UNCHANGED <<entry, torn>>
    /\ pc' = "decide"
    /\ UNCHANGED <<realitioVars, tracked, work, skipped, consensusVars, fresh,
                   kvVars, issued, ghostVars>>

\* VERIFIED, over the cap, not affordable, or the tx could not be built.
BuildNothing ==
    /\ pc = "decide"
    /\ LET e == entry[selected] IN
         \/ Charge(0) /\ Agrees(e.answer, e.evaluation)
         \/ Charge(0) /\ ~ WithinCap(RequiredBond(e.bond))
         \/ Charge(0) /\ \E balance \in Balances : RequiredBond(e.bond) > balance
         \/ Charge(1)
    /\ pc' = "reset"
    /\ UNCHANGED <<realitioVars, memoryVars, consensusVars, readVars, kvVars,
                   issued, ghostVars>>

BuildTx ==
    /\ pc = "decide"
    /\ LET e == entry[selected] IN
         /\ ~ Agrees(e.answer, e.evaluation)
         /\ WithinCap(RequiredBond(e.bond))
         /\ \E balance \in Balances : RequiredBond(e.bond) <= balance
         /\ tx' = [market |-> selected, answer |-> e.evaluation,
                   bond |-> RequiredBond(e.bond), maxPrevious |-> MaxPrevious(e.bond)]
         /\ WithEntry([e EXCEPT !.pending = TRUE, !.txTime = clock])
    /\ pc' = "settle"
    /\ UNCHANGED <<realitioVars, tracked, work, skipped, selected, response, readVars,
                   kvVars, issued, ghostVars, faults>>

\* The round ends at any await of the behaviour.
BuildTimeout ==
    /\ pc \in {"judge", "readBond", "decide"}
    /\ Charge(1)
    /\ pc' = "reset"
    /\ UNCHANGED <<realitioVars, memoryVars, consensusVars, readVars, kvVars,
                   issued, ghostVars>>

-----------------------------------------------------------------------------
(* TxSettlement, ResetAndPause, time and restarts *)

SettleLands ==
    /\ pc = "settle"
    /\ Accepts(chain[tx.market], clock, tx.bond, tx.maxPrevious)
    /\ chain' = [chain EXCEPT ![tx.market] = Answered(tx.answer, tx.bond, "us", clock)]
    /\ staked' = [staked EXCEPT ![tx.market] = @ + tx.bond]
    /\ pc' = "reset"
    /\ UNCHANGED <<clock, indexed, memoryVars, consensusVars, readVars, kvVars,
                   issued, sent, lost, late, faults>>

\* Realitio reverts it, or the settlement fails.
SettleFails ==
    /\ pc = "settle"
    /\ \/ Charge(0) /\ ~ Accepts(chain[tx.market], clock, tx.bond, tx.maxPrevious)
       \/ Charge(1)
    /\ pc' = "reset"
    /\ UNCHANGED <<realitioVars, memoryVars, consensusVars, readVars, kvVars,
                   issued, ghostVars>>

\* A new period starts with none of the skill's keys: no
\* cross_period_persisted_keys.
Reset ==
    /\ pc = "reset"
    /\ clock' = Later(clock)
    /\ pc' = "scan"
    /\ selected' = None /\ response' = NoResponse /\ tx' = NoTx
    /\ fresh' = NoRead /\ torn' = FALSE
    /\ UNCHANGED <<chain, indexed, memoryVars, kvVars, issued, ghostVars, faults>>

\* The two waits on the chain and on the Mech take long; a round does not.
Wait ==
    /\ pc \in {"await", "settle"}
    /\ clock < MaxTime
    /\ clock' = Later(clock)
    /\ UNCHANGED <<chain, indexed, pc, memoryVars, consensusVars, readVars, kvVars,
                   issued, ghostVars, faults>>

\* The round consensus replays the restarted agent into.
Replayed ==
    CASE pc = "select" -> "scan"
      [] pc = "fired" -> "evaluate"
      [] pc \in {"judge", "readBond", "decide"} -> "build"
      [] OTHER -> pc

\* A restart loses the memory; the kv_store and the chain are kept.  The
\* agent replays the round it was in or, registering anew, starts a period.
Restart ==
    /\ Charge(1)
    /\ pc' \in {"reset", Replayed}
    /\ tracked' = {} /\ work' = {} /\ skipped' = {}
    /\ entry' = [m \in Markets |-> NewEntry]
    /\ UNCHANGED <<realitioVars, consensusVars, readVars, kvVars, issued, ghostVars>>

-----------------------------------------------------------------------------
Scan == ScanSync \/ ScanTimeout \/ ScanSelect

EvaluateAnswers ==
    Evaluate \/ EvaluateFire \/ (\E landed \in BOOLEAN : FireWrite(landed))
    \/ EvaluateTimeout

MechInteract == MechPaid \/ MechNotSent \/ MechDelivers \/ MechTimeout

BuildAnswerTx ==
    (\E landed \in BOOLEAN : BuildMatched(landed)) \/ BuildUnmatched
    \/ BuildCooldown \/ PreflightAnswer \/ PreflightBond \/ BuildNothing
    \/ BuildTx \/ BuildTimeout

Agent ==
    Scan \/ EvaluateAnswers \/ MechInteract \/ BuildAnswerTx
    \/ SettleLands \/ SettleFails \/ Reset

Others ==
    /\ \E m \in Markets : OtherAnswers(m) \/ SubgraphIndexes(m)
    /\ UNCHANGED <<pc, memoryVars, consensusVars, readVars, kvVars, issued,
                   ghostVars, faults>>

Next == Agent \/ Others \/ Wait \/ Restart

Spec == Init /\ [][Next]_vars

\* The agent's scheduler keeps running its behaviours, and the indexer of
\* the subgraph does not stall for ever.
Fairness ==
    /\ WF_vars(Agent)
    /\ \A m \in Markets : WF_vars(SubgraphIndexes(m) /\ Others)

FairSpec == Spec /\ Fairness

=============================================================================
