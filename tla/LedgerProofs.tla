---------------------------- MODULE LedgerProofs ----------------------------
(***************************************************************************)
(* MarketResolution implements SafeLedger for every value of the           *)
(* constants.  Whether a payment, a stored answer or a stake is allowed is *)
(* decided when it happens; the agent decided on it rounds earlier, from   *)
(* an entry that a restart, a timeout or a lagging subgraph may have left  *)
(* behind.  The invariants below say what of that still holds: whatever an *)
(* entry or a transaction carries was paid for, agrees with the record and *)
(* rests on a bond no larger than the one in place.  From that follow also *)
(* when a transaction reverts and that no dispute is missed.               *)
(***************************************************************************)
EXTENDS BudgetProofs, AnswerProofs, BondProofs

\* An answer the Safe may stake on: the market's evaluation was paid for and,
\* if there is an answer on record, is that one.
Backed(m, answer) ==
    /\ Ledger!Evaluated(m)
    /\ Ledger!OnRecord(m) # {} => answer \in Ledger!OnRecord(m)

\* A delivery belongs to a request that was paid for in the same period, and
\* so does every row with an answer.
RequestsPaid ==
    /\ pc \in {"scan", "select"} => response.nonce = 0
    /\ response.nonce # 0 => selected \in Markets /\ sent[selected] > 0
    /\ pc = "await" => sent[selected] > 0
    /\ \A m \in Markets : cached[m] # {} => sent[m] > 0

\* What an entry holds as its evaluation may be staked on, and so may what a
\* transaction carries.
EvaluationsBacked ==
    /\ \A m \in Markets :
          entry[m].evaluation \in Answers => Backed(m, entry[m].evaluation)
    /\ pc = "settle" => Backed(tx.market, tx.answer)

\* Bonds only grow, so those seen earlier are no larger than the one in place.
BondsSeen ==
    /\ \A m \in Markets :
          indexed[m].bond <= chain[m].bond /\ entry[m].bond <= chain[m].bond
    /\ pc = "settle" => /\ tx.maxPrevious <= chain[tx.market].bond
                        /\ tx.bond = RequiredBond(tx.maxPrevious)

\* The inductive invariant behind KeepsLedger, beside those of the budget, the
\* answers and the bonds.
LedgerInv == RequestsPaid /\ EvaluationsBacked /\ BondsSeen

-----------------------------------------------------------------------------
\* The amounts and the store have their types.
LEMMA LedgerTypes ==
    ASSUME TypeOK
    PROVE  /\ sent \in [Markets -> Nat] /\ lost \in [Markets -> Nat]
           /\ staked \in [Markets -> Nat]
           /\ cached \in [Markets -> SUBSET Answers]
           /\ \A m \in Markets : /\ chain[m].bond \in Nat /\ indexed[m].bond \in Nat
                                 /\ entry[m].bond \in Nat
           /\ tx.maxPrevious \in Nat /\ tx.bond \in Nat
<1>1. tx.bond \in Nat
  BY DEF TypeOK, ConsensusTypeOK
<1> QED
  BY <1>1, ShownTypes DEF TypeOK, GhostTypeOK, StoreTypeOK, ConsensusTypeOK

\* The initial state satisfies the invariant and is one of the ledger's.
LEMMA LedgerStart == Init => LedgerInv /\ Ledger!LedgerInit
<1> SUFFICES ASSUME Init PROVE LedgerInv /\ Ledger!LedgerInit
  OBVIOUS
<1>1. \A m \in Markets : /\ chain[m].bond = 0 /\ indexed[m].bond = 0
                         /\ entry[m].bond = 0 /\ entry[m].evaluation = None
                         /\ cached[m] = {}
  BY DEF Init, RealitioInit, Unanswered, NewEntry
<1>2. pc = "scan" /\ response.nonce = 0
  BY DEF Init, NoResponse
<1>3. LedgerInv
  BY <1>1, <1>2, RealitioAssumption
  DEF LedgerInv, RequestsPaid, EvaluationsBacked, BondsSeen
<1>4. Ledger!LedgerInit
  BY <1>1 DEF Init, Ledger!LedgerInit
<1> QED
  BY <1>3, <1>4

\* Five kinds of steps move money, answers or bonds.
LEMMA MoneyMoves ==
    ASSUME [Next]_vars
    PROVE  \/ UNCHANGED <<sent, lost, cached, staked, chain>>
           \/ MechPaid
           \/ \E landed \in BOOLEAN : FireWrite(landed)
           \/ \E landed \in BOOLEAN : BuildMatched(landed)
           \/ SettleLands
           \/ Others
BY DEF Next, vars, Agent, Scan, ScanSync, ScanTimeout, ScanSelect, EvaluateAnswers,
       Evaluate, EvaluateFire, EvaluateTimeout, MechInteract, MechNotSent,
       MechDelivers, MechTimeout, BuildAnswerTx, BuildUnmatched, BuildCooldown,
       PreflightAnswer, PreflightBond, BuildNothing, BuildTx, BuildTimeout,
       SettleFails, Reset, Wait, Restart, ghostVars, kvVars, realitioVars

\* No request is forgotten, and only a delivery adds an answer.
LEMMA SentGrows ==
    ASSUME TypeOK, [Next]_vars
    PROVE  /\ \A m \in Markets : sent'[m] >= sent[m]
           /\ (\A landed \in BOOLEAN : ~ BuildMatched(landed)) => cached' = cached
<1> USE LedgerTypes
<1>1. CASE UNCHANGED <<sent, lost, cached, staked, chain>>
  BY <1>1
<1>2. CASE MechPaid
  BY <1>2 DEF MechPaid, kvVars, TypeOK, StepTypeOK
<1>3. CASE \/ \E landed \in BOOLEAN : FireWrite(landed)
           \/ \E landed \in BOOLEAN : BuildMatched(landed)
           \/ SettleLands \/ Others
  <2>1. sent' = sent
    BY <1>3 DEF FireWrite, BuildMatched, SettleLands, Others, ghostVars
  <2>2. (\A landed \in BOOLEAN : ~ BuildMatched(landed)) => cached' = cached
    BY <1>3 DEF FireWrite, SettleLands, Others, kvVars
  <2> QED
    BY <2>1, <2>2
<1> QED
  BY <1>1, <1>2, <1>3, MoneyMoves

\* What a synced entry evaluates to: what it did before, what its cache holds,
\* or nothing.
LEMMA SyncedEvaluation ==
    ASSUME TypeOK, NEW m \in Markets, NEW answerer \in Answerers \cup {"nobody"},
           NEW unread \in BOOLEAN, NEW found \in CachedEvaluations(m),
           found \in Answers \cup {None}
    PROVE  SyncedEntry(m, answerer, unread, found).evaluation
              \in {None, entry[m].evaluation} \cup Ledger!OnRecord(m)
<1> DEFINE u == Upserted(entry[m], indexed[m], answerer)
<1>1. u \in Entry /\ u.evaluation = entry[m].evaluation
  <2>1. u \in Entry
    BY UpsertedType DEF TypeOK, MemoryTypeOK, RealitioTypeOK
  <2>2. u.evaluation = entry[m].evaluation
    BY DEF Upserted, TypeOK, MemoryTypeOK, Entry
  <2> QED
    BY <2>1, <2>2
<1>2. found \in {None} \cup Ledger!OnRecord(m)
  BY DEF CachedEvaluations, Ledger!OnRecord
<1> HIDE DEF u
<1>3. UndetDropped(u).evaluation \in {None, u.evaluation}
  BY <1>1 DEF UndetDropped, Entry
<1>4. Refreshed(u, found, RowsOf(m)).evaluation \in {None, u.evaluation, found}
  BY <1>1 DEF Refreshed, Entry
<1>5. SyncedEntry(m, answerer, unread, found) =
        IF unread THEN UndetDropped(u) ELSE Refreshed(u, found, RowsOf(m))
  BY DEF SyncedEntry, u
<1>6. CASE unread
  BY <1>1, <1>3, <1>5, <1>6
<1>7. CASE ~ unread
  BY <1>1, <1>2, <1>4, <1>5, <1>7
<1> QED
  BY <1>6, <1>7

\* Where an entry's evaluation and bond come from.
EntryFrom(m) ==
    /\ entry'[m].bond \in {0, entry[m].bond, indexed[m].bond, chain[m].bond}
    /\ \/ entry'[m].evaluation \in {None, entry[m].evaluation} \cup Ledger!OnRecord(m)
       \/ m = selected /\ \E landed \in BOOLEAN : BuildMatched(landed)

\* The scan syncs entries, keeps them or drops them.
LEMMA EntryScan ==
    ASSUME TypeOK, Scan, NEW m \in Markets
    PROVE  EntryFrom(m)
<1>1. CASE ScanSync
  <2>1. PICK fetched \in SUBSET Markets, cost \in {0, 1} :
          \E silent \in SUBSET fetched, ahead \in SUBSET fetched,
             unread \in SUBSET fetched, pick \in [Markets -> Answers \cup {None}] :
                ScanSyncs(fetched, cost, silent, ahead, unread, pick)
    BY <1>1, ScanSyncInputs
  <2>2. PICK silent \in SUBSET fetched, ahead \in SUBSET fetched,
             unread \in SUBSET fetched, pick \in [Markets -> Answers \cup {None}] :
                ScanSyncs(fetched, cost, silent, ahead, unread, pick)
    BY <2>1
  <2>3. /\ pick[m] \in CachedEvaluations(m)
        /\ entry' = [n \in Markets |->
              IF n \in fetched
              THEN SyncedEntry(n, AnswererSeen(n, silent, ahead), n \in unread, pick[n])
              ELSE entry[n]]
    BY <2>2 DEF ScanSyncs
  <2>4. AnswererSeen(m, silent, ahead) \in Answerers \cup {"nobody"}
    BY AnswererType
  <2> DEFINE answerer == AnswererSeen(m, silent, ahead)
             skip == m \in unread
  <2>5. skip \in BOOLEAN /\ pick[m] \in Answers \cup {None}
    OBVIOUS
  <2>6. entry'[m] = IF m \in fetched THEN SyncedEntry(m, answerer, skip, pick[m])
                    ELSE entry[m]
    BY <2>3
  <2> HIDE DEF answerer, skip
  <2>7. /\ SyncedEntry(m, answerer, skip, pick[m]).bond = indexed[m].bond
        /\ SyncedEntry(m, answerer, skip, pick[m]).evaluation
              \in {None, entry[m].evaluation} \cup Ledger!OnRecord(m)
    BY <2>3, <2>4, <2>5, SyncedShows, SyncedEvaluation DEF answerer
  <2> QED
    BY <2>6, <2>7 DEF EntryFrom
<1>2. CASE ScanTimeout \/ ScanSelect
  <2>1. entry'[m] \in {entry[m], NewEntry}
    BY <1>2 DEF ScanTimeout, ScanSelect, Kept
  <2> QED
    BY <2>1 DEF EntryFrom, NewEntry
<1> QED
  BY <1>1, <1>2 DEF Scan

\* Of the other steps only BuildMatched changes an evaluation, and only
\* preflight a bond.
LEMMA EntryMoves ==
    ASSUME TypeOK, [Next]_vars, NEW m \in Markets
    PROVE  EntryFrom(m)
<1>1. CASE Scan
  BY <1>1, EntryScan
<1>2. CASE EvaluateFire \/ BuildCooldown \/ BuildTx
  <2>1. m # selected => entry'[m] = entry[m]
    BY <1>2 DEF EvaluateFire, BuildCooldown, BuildTx, WithEntry, TypeOK, MemoryTypeOK
  <2>2. CASE m = selected
    <3>1. entry[m] \in Entry /\ entry \in [Markets -> Entry]
      BY DEF TypeOK, MemoryTypeOK
    <3>2. /\ entry'[m].bond = entry[m].bond
          /\ entry'[m].evaluation = entry[m].evaluation
      <4>1. CASE EvaluateFire
        BY <2>2, <3>1, <4>1 DEF EvaluateFire, WithEntry, Entry
      <4>2. CASE BuildCooldown
        BY <2>2, <3>1, <4>2 DEF BuildCooldown, WithEntry, Entry
      <4>3. CASE BuildTx
        BY <2>2, <3>1, <4>3 DEF BuildTx, WithEntry, Entry
      <4> QED
        BY <1>2, <4>1, <4>2, <4>3
    <3> QED
      BY <3>2 DEF EntryFrom
  <2> QED
    BY <2>1, <2>2 DEF EntryFrom
<1>3. CASE PreflightBond
  <2>1. /\ entry'[m].bond \in {entry[m].bond, chain[m].bond}
        /\ entry'[m].evaluation = entry[m].evaluation
    <3>1. entry[m] \in Entry /\ entry \in [Markets -> Entry]
      BY DEF TypeOK, MemoryTypeOK
    <3>2. CASE m = selected
      BY <1>3, <3>1, <3>2 DEF PreflightBond, WithEntry, Entry
    <3>3. CASE m # selected
      BY <1>3, <3>1, <3>3 DEF PreflightBond, WithEntry
    <3> QED
      BY <3>2, <3>3
  <2> QED
    BY <2>1 DEF EntryFrom
<1>4. CASE \E landed \in BOOLEAN : BuildMatched(landed)
  <2>1. /\ entry'[m].bond = entry[m].bond
        /\ m # selected => entry'[m].evaluation = entry[m].evaluation
    BY <1>4 DEF BuildMatched, WithEntry, TypeOK, MemoryTypeOK, Entry
  <2> QED
    BY <1>4, <2>1 DEF EntryFrom
<1>5. CASE Restart
  <2>1. entry'[m] = NewEntry
    BY <1>5 DEF Restart
  <2> QED
    BY <2>1 DEF EntryFrom, NewEntry
<1>6. CASE UNCHANGED entry
  BY <1>6 DEF EntryFrom
<1> QED
  BY <1>1, <1>2, <1>3, <1>4, <1>5, <1>6
  DEF Next, vars, Agent, EvaluateAnswers, Evaluate, FireWrite, EvaluateTimeout,
      MechInteract, MechPaid, MechNotSent, MechDelivers, MechTimeout, BuildAnswerTx,
      BuildUnmatched, PreflightAnswer, BuildNothing, BuildTimeout, SettleLands,
      SettleFails, Reset, Others, Wait, memoryVars

\* Steps that neither select, pay nor receive a delivery.
LEMMA RequestsFrame ==
    ASSUME TypeOK, TypeOK', RequestsPaid, UNCHANGED <<response, selected, cached>>,
           \A m \in Markets : sent'[m] >= sent[m],
           pc' \in {"scan", "select"} => pc \in {"scan", "select"},
           pc' = "await" => pc = "await"
    PROVE  RequestsPaid'
<1>1. \A m \in Markets : sent[m] \in Nat /\ sent'[m] \in Nat /\ sent'[m] >= sent[m]
  BY DEF TypeOK, GhostTypeOK
<1>2. pc = "await" => selected \in Markets
  BY DEF TypeOK, StepTypeOK
<1>3. \A m \in Markets : sent[m] > 0 => sent'[m] > 0
  <2> TAKE m \in Markets
  <2> QED
    BY <1>1, SMT
<1> QED
  BY <1>2, <1>3 DEF RequestsPaid

\* Every delivery and every row with an answer was paid for.
LEMMA RequestsNext ==
    ASSUME TypeOK, TypeOK', RequestsPaid, [Next]_vars
    PROVE  RequestsPaid'
<1>1. CASE \E landed \in BOOLEAN : BuildMatched(landed)
  <2>1. /\ pc = "build" /\ pc' = "judge" /\ UNCHANGED <<response, selected, sent>>
        /\ Matched
    BY <1>1 DEF BuildMatched, consensusVars, ghostVars
  <2>2. selected \in Markets /\ response.nonce # 0
    BY <2>1 DEF Matched, TypeOK, StepTypeOK
  <2>3. sent[selected] > 0
    BY <2>2 DEF RequestsPaid
  <2>4. \A m \in Markets \ {selected} : cached'[m] = cached[m]
    BY <1>1, LedgerTypes DEF BuildMatched
  <2> QED
    BY <2>1, <2>3, <2>4 DEF RequestsPaid
<1>2. CASE ScanSelect
  <2>1. /\ pc = "select" /\ pc' \in {"reset", "evaluate"}
        /\ UNCHANGED <<response, cached, sent>>
    BY <1>2 DEF ScanSelect, kvVars, ghostVars
  <2> QED
    BY <2>1 DEF RequestsPaid
<1>3. CASE MechPaid
  <2>1. /\ pc = "request" /\ pc' = "await" /\ UNCHANGED <<response, selected, cached>>
        /\ sent' = [sent EXCEPT ![selected] = @ + 1]
    BY <1>3 DEF MechPaid, consensusVars, kvVars
  <2>2. selected \in Markets /\ sent[selected] \in Nat /\ sent \in [Markets -> Nat]
    BY <2>1, LedgerTypes DEF TypeOK, StepTypeOK
  <2>3. sent'[selected] > 0 /\ \A m \in Markets \ {selected} : sent'[m] = sent[m]
    BY <2>1, <2>2
  <2> QED
    BY <2>1, <2>2, <2>3 DEF RequestsPaid
<1>4. CASE MechDelivers
  <2>1. /\ pc = "await" /\ pc' = "build" /\ UNCHANGED <<selected, cached, sent>>
    BY <1>4 DEF MechDelivers, kvVars, ghostVars
  <2> QED
    BY <2>1 DEF RequestsPaid, TypeOK, StepTypeOK
<1>5. CASE Reset
  <2>1. response'.nonce = 0 /\ pc' = "scan" /\ UNCHANGED <<cached, sent>>
    BY <1>5 DEF Reset, NoResponse, kvVars, ghostVars
  <2> QED
    BY <2>1 DEF RequestsPaid
<1>6. CASE /\ \A landed \in BOOLEAN : ~ BuildMatched(landed)
           /\ ~ ScanSelect /\ ~ MechPaid /\ ~ MechDelivers /\ ~ Reset
  <2>1. /\ \A m \in Markets : sent'[m] >= sent[m]
        /\ cached' = cached
    BY <1>6, SentGrows
  <2>2. CASE Restart
    <3>1. pc' \in {"reset", Replayed} /\ UNCHANGED <<response, selected>>
      BY <2>2 DEF Restart, consensusVars
    <3>2. /\ Replayed \in {"scan", "select"} => pc \in {"scan", "select"}
          /\ Replayed = "await" => pc = "await"
      BY DEF Replayed
    <3> QED
      BY <2>1, <3>1, <3>2, RequestsFrame
  <2>3. CASE ~ Restart
    <3>1. UNCHANGED <<response, selected>>
      BY <1>6, <2>3
      DEF Next, vars, Agent, Scan, ScanSync, ScanTimeout, EvaluateAnswers, Evaluate,
          EvaluateFire, FireWrite, EvaluateTimeout, MechInteract, MechNotSent,
          MechTimeout, BuildAnswerTx, BuildUnmatched, BuildCooldown, PreflightAnswer,
          PreflightBond, BuildNothing, BuildTx, BuildTimeout, SettleLands, SettleFails,
          Others, Wait, consensusVars
    <3>2. /\ pc' \in {"scan", "select"} => pc \in {"scan", "select"}
          /\ pc' = "await" => pc = "await"
      BY <1>6, <2>3
      DEF Next, vars, Agent, Scan, ScanSync, ScanTimeout, EvaluateAnswers, Evaluate,
          EvaluateFire, FireWrite, EvaluateTimeout, MechInteract, MechNotSent,
          MechTimeout, BuildAnswerTx, BuildUnmatched, BuildCooldown, PreflightAnswer,
          PreflightBond, BuildNothing, BuildTx, BuildTimeout, SettleLands, SettleFails,
          Others, Wait
    <3> QED
      BY <2>1, <3>1, <3>2, RequestsFrame
  <2> QED
    BY <2>2, <2>3
<1> QED
  BY <1>1, <1>2, <1>3, <1>4, <1>5, <1>6

\* What was backed stays backed while no answer goes on record.
LEMMA BackedStays ==
    ASSUME TypeOK, TypeOK', cached' = cached,
           \A m \in Markets : sent'[m] >= sent[m],
           NEW m \in Markets, NEW answer, Backed(m, answer)
    PROVE  Backed(m, answer)'
<1>1. sent[m] \in Nat /\ sent'[m] \in Nat /\ sent'[m] >= sent[m]
  BY DEF TypeOK, GhostTypeOK
<1>2. sent[m] > 0 => sent'[m] > 0
  BY <1>1
<1> QED
  BY <1>2 DEF Backed, Ledger!Evaluated, Ledger!OnRecord

\* An answer on record is backed.
LEMMA RecordedBacked ==
    ASSUME RequestsPaid, NEW m \in Markets, NEW answer \in Ledger!OnRecord(m)
    PROVE  Backed(m, answer)
BY DEF RequestsPaid, Backed, Ledger!Evaluated, Ledger!OnRecord

\* The delivery becomes the entry's evaluation and, if the row is written,
\* the only answer on record.
LEMMA MatchedBacked ==
    ASSUME TypeOK, TypeOK', AnswerInv, LedgerInv,
           NEW landed \in BOOLEAN, BuildMatched(landed)
    PROVE  EvaluationsBacked'
<1> DEFINE r == response.result
<1>1. /\ pc = "build" /\ pc' = "judge" /\ sent' = sent /\ Matched
      /\ WithEntry([entry[selected] EXCEPT !.evaluation = IF r = Garbage THEN @ ELSE r])
      /\ cached' \in {cached, [cached EXCEPT ![selected] = @ \cup ({r} \cap Answers)]}
  BY DEF BuildMatched, ghostVars
<1>2. /\ selected \in Markets /\ entry[selected].evaluation = None
      /\ NoAnswers(selected)
      /\ response.nonce # 0 /\ sent[selected] > 0
  BY <1>1 DEF Matched, TypeOK, StepTypeOK, AnswerInv, AskedForNeed, LedgerInv, RequestsPaid
<1>3. /\ entry'[selected].evaluation = IF r = Garbage THEN None ELSE r
      /\ \A m \in Markets \ {selected} : entry'[m] = entry[m]
  BY <1>1, <1>2 DEF WithEntry, Entry, TypeOK, MemoryTypeOK
<1>4. /\ cached'[selected] \in {{}, {r} \cap Answers}
      /\ \A m \in Markets \ {selected} : cached'[m] = cached[m]
  BY <1>1, <1>2, LedgerTypes DEF NoAnswers
<1>5. ASSUME NEW m \in Markets, entry'[m].evaluation \in Answers
      PROVE  Backed(m, entry[m].evaluation)'
  <2>1. CASE m = selected
    <3>1. entry'[m].evaluation = r /\ History[m].answers = {}
      BY <1>2, <1>3, <1>5, <2>1, RealitioAssumption DEF NoAnswers
    <3> QED
      BY <1>1, <1>2, <1>4, <2>1, <3>1 DEF Backed, Ledger!Evaluated, Ledger!OnRecord
  <2>2. CASE m # selected
    <3>1. Backed(m, entry[m].evaluation)
      BY <1>3, <1>5, <2>2 DEF LedgerInv, EvaluationsBacked
    <3> QED
      BY <1>1, <1>3, <1>4, <2>2, <3>1 DEF Backed, Ledger!Evaluated, Ledger!OnRecord
  <2> QED
    BY <2>1, <2>2
<1> QED
  BY <1>1, <1>5 DEF EvaluationsBacked

\* Whatever an entry or a transaction says may be staked on.
LEMMA BackedNext ==
    ASSUME TypeOK, TypeOK', AnswerInv, LedgerInv, [Next]_vars
    PROVE  EvaluationsBacked'
<1>1. CASE \E landed \in BOOLEAN : BuildMatched(landed)
  BY <1>1, MatchedBacked
<1>2. CASE \A landed \in BOOLEAN : ~ BuildMatched(landed)
  <2>1. cached' = cached /\ \A m \in Markets : sent'[m] >= sent[m]
    BY <1>2, SentGrows
  <2>2. ASSUME NEW m \in Markets, NEW answer, Backed(m, answer)
        PROVE  Backed(m, answer)'
    BY <2>1, <2>2, BackedStays
  <2>3. ASSUME NEW m \in Markets, NEW answer \in Answers, entry'[m].evaluation = answer
        PROVE  Backed(m, answer)'
    <3>1. answer \in {entry[m].evaluation} \cup Ledger!OnRecord(m)
      BY <1>2, <2>3, EntryMoves, RealitioAssumption DEF EntryFrom
    <3>2. Backed(m, answer)
      BY <2>3, <3>1, RecordedBacked DEF LedgerInv, EvaluationsBacked
    <3> QED
      BY <2>2, <3>2
  <2>4. ASSUME pc' = "settle" PROVE Backed(tx.market, tx.answer)'
    <3>1. CASE BuildTx
      <4>1. /\ pc = "decide" /\ tx'.market = selected
            /\ tx'.answer = entry[selected].evaluation
        BY <3>1 DEF BuildTx
      <4>2. selected \in Markets /\ entry[selected].evaluation \in Answers
        BY <4>1 DEF TypeOK, StepTypeOK
      <4>3. PICK m \in Markets, answer \in Answers :
               m = selected /\ answer = entry[selected].evaluation
        BY <4>2
      <4>4. Backed(m, answer)'
        BY <2>2, <4>3 DEF LedgerInv, EvaluationsBacked
      <4>5. tx'.market = m /\ tx'.answer = answer
        BY <4>1, <4>3
      <4> QED
        BY <4>4, <4>5 DEF Backed
    <3>2. CASE ~ BuildTx
      <4>1. pc = "settle" /\ tx' = tx
        BY <1>2, <2>4, <3>2
        DEF Next, vars, Agent, Scan, ScanSync, ScanTimeout, ScanSelect, EvaluateAnswers,
            Evaluate, EvaluateFire, FireWrite, EvaluateTimeout, MechInteract, MechPaid,
            MechNotSent, MechDelivers, MechTimeout, BuildAnswerTx, BuildUnmatched,
            BuildCooldown, PreflightAnswer, PreflightBond, BuildNothing, BuildTimeout,
            SettleLands, SettleFails, Reset, Others, Wait, Restart, Replayed,
            consensusVars
      <4>2. tx.market \in Markets /\ Backed(tx.market, tx.answer)
        BY <4>1 DEF TypeOK, StepTypeOK, LedgerInv, EvaluationsBacked
      <4>3. PICK m \in Markets : m = tx.market
        BY <4>2
      <4>4. PICK answer : answer = tx.answer
        OBVIOUS
      <4>5. Backed(m, answer)'
        BY <2>2, <4>2, <4>3, <4>4
      <4> QED
        BY <4>1, <4>3, <4>4, <4>5 DEF Backed
    <3> QED
      BY <3>1, <3>2
  <2>5. ASSUME NEW m \in Markets, entry'[m].evaluation \in Answers
        PROVE  Backed(m, entry[m].evaluation)'
    <3>1. PICK answer \in Answers : entry'[m].evaluation = answer
      BY <2>5
    <3>2. Backed(m, answer)'
      BY <2>3, <3>1
    <3> QED
      BY <3>1, <3>2 DEF Backed
  <2> QED
    BY <2>4, <2>5 DEF EvaluationsBacked
<1> QED
  BY <1>1, <1>2

\* No bond the agent or the subgraph has seen exceeds the one in place.
LEMMA SeenNext ==
    ASSUME TypeOK, TypeOK', BondsSeen, [Next]_vars
    PROVE  BondsSeen'
<1>1. ASSUME NEW m \in Markets
      PROVE  indexed'[m].bond <= chain'[m].bond /\ entry'[m].bond <= chain'[m].bond
  <2>1. /\ chain'[m] = chain[m] \/ chain'[m].bond > chain[m].bond
        /\ indexed'[m] = indexed[m] \/ indexed'[m] = chain'[m]
    BY ChainSteps DEF ChainGrows
  <2>2. /\ chain[m].bond \in Nat /\ indexed[m].bond \in Nat /\ entry[m].bond \in Nat
        /\ chain'[m].bond \in Nat
    BY LedgerTypes DEF TypeOK, RealitioTypeOK, Question
  <2>3. chain'[m].bond >= chain[m].bond
    BY <2>1, <2>2
  <2>4. indexed[m].bond <= chain[m].bond /\ entry[m].bond <= chain[m].bond
    BY DEF BondsSeen
  <2>5. indexed'[m].bond <= chain'[m].bond
    <3>1. CASE indexed'[m] = indexed[m]
      BY <2>2, <2>3, <2>4, <3>1
    <3>2. CASE indexed'[m] = chain'[m]
      BY <2>2, <3>2
    <3> QED
      BY <2>1, <3>1, <3>2
  <2>6. entry'[m].bond \in {0, entry[m].bond, indexed[m].bond, chain[m].bond}
    BY EntryMoves DEF EntryFrom
  <2> QED
    BY <2>2, <2>3, <2>4, <2>5, <2>6
<1>2. ASSUME pc' = "settle"
      PROVE  /\ tx'.maxPrevious <= chain'[tx'.market].bond
             /\ tx'.bond = RequiredBond(tx'.maxPrevious)
  <2>1. CASE BuildTx
    <3>1. /\ pc = "decide" /\ chain' = chain /\ tx'.market = selected
          /\ tx'.bond = RequiredBond(entry[selected].bond)
          /\ tx'.maxPrevious = entry[selected].bond
      BY <2>1 DEF BuildTx, MaxPrevious, realitioVars
    <3>2. selected \in Markets
      BY <3>1 DEF TypeOK, StepTypeOK
    <3> QED
      BY <3>1, <3>2 DEF BondsSeen
  <2>2. CASE ~ BuildTx
    <3>1. pc = "settle" /\ tx' = tx
      BY <1>2, <2>2
      DEF Next, vars, Agent, Scan, ScanSync, ScanTimeout, ScanSelect, EvaluateAnswers,
          Evaluate, EvaluateFire, FireWrite, EvaluateTimeout, MechInteract, MechPaid,
          MechNotSent, MechDelivers, MechTimeout, BuildAnswerTx, BuildMatched,
          BuildUnmatched, BuildCooldown, PreflightAnswer, PreflightBond, BuildNothing,
          BuildTimeout, SettleLands, SettleFails, Reset, Others, Wait, Restart,
          Replayed, consensusVars
    <3>2. tx.market \in Markets
      BY <3>1 DEF TypeOK, StepTypeOK
    <3>3. chain'[tx.market] = chain[tx.market]
             \/ chain'[tx.market].bond > chain[tx.market].bond
      BY <3>2, ChainSteps DEF ChainGrows
    <3>4. /\ tx.maxPrevious \in Nat /\ chain[tx.market].bond \in Nat
          /\ chain'[tx.market].bond \in Nat
      BY <3>2, LedgerTypes DEF TypeOK, RealitioTypeOK, Question
    <3>5. /\ tx.maxPrevious <= chain[tx.market].bond
          /\ tx.bond = RequiredBond(tx.maxPrevious)
      BY <3>1 DEF BondsSeen
    <3>6. tx.maxPrevious <= chain'[tx.market].bond
      BY <3>3, <3>4, <3>5
    <3> QED
      BY <3>1, <3>5, <3>6
  <2> QED
    BY <2>1, <2>2
<1> QED
  BY <1>1, <1>2 DEF BondsSeen

\* The invariants of the budget, the answers, the bonds and the ledger.
AllInv == BudgetInv /\ AnswerInv /\ BondInv /\ LedgerInv

LEMMA AllNext == TypeOK /\ AllInv /\ [Next]_vars => TypeOK' /\ AllInv'
<1> SUFFICES ASSUME TypeOK, AllInv, [Next]_vars PROVE TypeOK' /\ AllInv'
  OBVIOUS
<1>1. TypeOK'
  BY NextType
<1>2. BudgetInv' /\ AnswerInv' /\ BondInv'
  BY BudgetNext, AnswerNext, BondNext DEF AllInv
<1>3. LedgerInv'
  BY <1>1, RequestsNext, BackedNext, SeenNext DEF AllInv, LedgerInv
<1> QED
  BY <1>1, <1>2, <1>3 DEF AllInv

-----------------------------------------------------------------------------
\* The best answers and bonds the ledger sees.
Best == [m \in Markets |-> [answer |-> chain[m].answer, bond |-> chain[m].bond]]

\* A payment is one the ledger allows.
LEMMA PaymentAllowed ==
    ASSUME TypeOK, TypeOK', AllInv, BudgetInv', MechPaid
    PROVE  selected \in Markets /\ Ledger!Pay(selected)
<1>1. /\ pc = "request" /\ sent' = [sent EXCEPT ![selected] = @ + 1]
      /\ UNCHANGED <<lost, cached, staked, chain>>
  BY DEF MechPaid, kvVars, realitioVars
<1>2. selected \in Markets /\ sent[selected] \in Nat
  BY <1>1, LedgerTypes DEF TypeOK, StepTypeOK
<1>3. Ledger!OnRecord(selected) = {}
  BY <1>1 DEF AllInv, AnswerInv, AskedForNeed, NoAnswers, Ledger!OnRecord
<1>4. sent'[selected] = sent[selected] + 1
  BY <1>1, <1>2, LedgerTypes
<1>5. sent[selected] + 1 + History[selected].asks <= MaxRetries + lost[selected]
  BY <1>1, <1>2, <1>4 DEF RetryBudget, BudgetInv
<1> QED
  BY <1>1, <1>2, <1>3, <1>5 DEF Ledger!Pay

\* So is a stake: it is backed, within the cap, and the least Realitio takes.
LEMMA StakeAllowed ==
    ASSUME TypeOK, AllInv, SettleLands
    PROVE  Ledger!LedgerNext
<1> DEFINE q == tx.market
<1>1. /\ pc = "settle" /\ Accepts(chain[q], clock, tx.bond, tx.maxPrevious)
      /\ chain' = [chain EXCEPT ![q] = Answered(tx.answer, tx.bond, "us", clock)]
      /\ staked' = [staked EXCEPT ![q] = @ + tx.bond]
      /\ UNCHANGED <<sent, lost, cached>>
  BY DEF SettleLands, kvVars
<1>2. q \in Markets /\ tx.answer \in Answers
  BY <1>1 DEF TypeOK, StepTypeOK, ConsensusTypeOK
<1>3. chain[q].bond \in Nat /\ tx.maxPrevious \in Nat /\ tx.bond \in Nat
  BY <1>2, LedgerTypes
<1>4. /\ tx.maxPrevious <= chain[q].bond /\ tx.bond = RequiredBond(tx.maxPrevious)
      /\ tx.bond <= MaxBond /\ Backed(q, tx.answer)
  BY <1>1 DEF AllInv, LedgerInv, BondsSeen, EvaluationsBacked, BondInv, TxWithinCap
<1>5. tx.bond >= 2 * chain[q].bond /\ (tx.maxPrevious > 0 => chain[q].bond <= tx.maxPrevious)
  BY <1>1 DEF Accepts
<1>6. tx.bond \in {InitialBond, 2 * chain[q].bond}
  BY <1>3, <1>4, <1>5 DEF RequiredBond
<1>7. Best[q].bond = chain[q].bond
  BY <1>2 DEF Best
<1>8. Best' = [Best EXCEPT ![q] = [answer |-> tx.answer, bond |-> tx.bond]]
  <2>1. /\ chain'[q].answer = tx.answer /\ chain'[q].bond = tx.bond
        /\ \A m \in Markets \ {q} : chain'[m] = chain[m]
    BY <1>1, <1>2 DEF TypeOK, RealitioTypeOK, Answered
  <2> QED
    BY <1>2, <2>1 DEF Best
<1>9. \E bond \in {InitialBond, 2 * Best[q].bond} :
          /\ bond >= 2 * Best[q].bond /\ bond <= MaxBond
          /\ staked' = [staked EXCEPT ![q] = @ + bond]
          /\ Best' = [Best EXCEPT ![q] = [answer |-> tx.answer, bond |-> bond]]
  BY <1>1, <1>4, <1>5, <1>6, <1>7, <1>8
<1>10. \E m \in Markets, answer \in Answers : Ledger!Stake(m, answer)
  BY <1>1, <1>2, <1>4, <1>9 DEF Backed, Ledger!Stake, Best
<1> QED
  BY <1>10 DEF Ledger!LedgerNext

\* Every step of the agent and of the others is one of the ledger's.
LEMMA LedgerStep ==
    TypeOK /\ AllInv /\ [Next]_vars => [Ledger!LedgerNext]_(Ledger!ledgerVars)
<1> SUFFICES ASSUME TypeOK, AllInv, [Next]_vars
             PROVE  [Ledger!LedgerNext]_(Ledger!ledgerVars)
  OBVIOUS
<1>a. TypeOK' /\ AllInv'
  BY AllNext
<1>1. CASE UNCHANGED <<sent, lost, cached, staked, chain>>
  BY <1>1 DEF Ledger!ledgerVars
<1>2. CASE MechPaid
  BY <1>a, <1>2, PaymentAllowed DEF AllInv, Ledger!LedgerNext
<1>3. CASE \E landed \in BOOLEAN : FireWrite(landed)
  <2>1. /\ lost' \in {lost, [lost EXCEPT ![selected] = @ + 1]}
        /\ UNCHANGED <<sent, cached, staked, chain>> /\ selected \in Markets
    BY <1>3 DEF FireWrite, realitioVars, TypeOK, StepTypeOK
  <2>2. CASE lost' = lost
    BY <2>1, <2>2 DEF Ledger!ledgerVars
  <2>3. CASE lost' = [lost EXCEPT ![selected] = @ + 1]
    BY <2>1, <2>3 DEF Ledger!GiveUpRow, Ledger!LedgerNext
  <2> QED
    BY <2>1, <2>2, <2>3
<1>4. CASE \E landed \in BOOLEAN : BuildMatched(landed)
  <2>1. /\ pc = "build" /\ Matched /\ UNCHANGED <<sent, lost, staked, chain>>
        /\ cached' \in {cached, [cached EXCEPT ![selected] =
                                    @ \cup ({response.result} \cap Answers)]}
    BY <1>4 DEF BuildMatched, ghostVars, realitioVars
  <2>2. /\ selected \in Markets /\ Ledger!OnRecord(selected) = {}
        /\ sent[selected] > 0
    BY <2>1 DEF Matched, TypeOK, StepTypeOK, AllInv, AnswerInv, AskedForNeed, NoAnswers,
                LedgerInv, RequestsPaid, Ledger!OnRecord
  <2>3. CASE cached' = cached
    BY <2>1, <2>3 DEF Ledger!ledgerVars
  <2>4. CASE cached' # cached
    <3>1. cached[selected] = {} /\ cached \in [Markets -> SUBSET Answers]
      BY <2>2, LedgerTypes DEF Ledger!OnRecord
    <3>2. response.result \in Answers
      BY <2>1, <2>2, <2>4, <3>1
    <3>3. cached' = [cached EXCEPT ![selected] = {response.result}]
      BY <2>1, <2>2, <2>4, <3>1, <3>2
    <3> QED
      BY <2>1, <2>2, <3>2, <3>3 DEF Ledger!Store, Ledger!LedgerNext
  <2> QED
    BY <2>3, <2>4
<1>5. CASE SettleLands
  BY <1>5, StakeAllowed
<1>6. CASE Others
  <2>1. PICK q \in Markets : OtherAnswers(q) \/ SubgraphIndexes(q)
    BY <1>6 DEF Others
  <2>2. UNCHANGED <<sent, lost, cached, staked>>
    BY <1>6 DEF Others, ghostVars, kvVars
  <2>3. CASE SubgraphIndexes(q)
    BY <2>2, <2>3 DEF SubgraphIndexes, Ledger!ledgerVars
  <2>4. CASE OtherAnswers(q)
    <3>1. PICK answer \in Answers, bond \in Bonds, who \in Answerers \ {"us"} :
            /\ Accepts(chain[q], clock, bond, 0)
            /\ chain' = [chain EXCEPT ![q] = Answered(answer, bond, who, clock)]
      BY <2>4 DEF OtherAnswers
    <3>2. /\ chain'[q].bond = bond
          /\ \A m \in Markets \ {q} : chain'[m] = chain[m]
      BY <3>1 DEF TypeOK, RealitioTypeOK, Answered
    <3>3. bond \in Nat \ {0} /\ bond >= 2 * chain[q].bond
      BY <3>1, RealitioAssumption DEF Accepts
    <3>4. /\ Best[q].bond = chain[q].bond /\ Best'[q].bond = bond
          /\ Best' = [Best EXCEPT ![q] = Best'[q]]
      BY <3>2 DEF Best
    <3>5. Ledger!Outbid(q)
      BY <2>2, <3>3, <3>4 DEF Ledger!Outbid, Best
    <3> QED
      BY <3>5 DEF Ledger!LedgerNext
  <2> QED
    BY <2>1, <2>3, <2>4
<1> QED
  BY <1>1, <1>2, <1>3, <1>4, <1>5, <1>6, MoneyMoves

\* README.md:60-62 and build_answer_tx.py:237-360: for any markets, limits,
\* histories and failures, the agent makes only the moves of SafeLedger.
THEOREM ImplementsLedger == Spec => KeepsLedger
<1>1. Init => AllInv /\ Ledger!LedgerInit
  BY BudgetInit, AnswerInit, BondInit, LedgerStart DEF AllInv
<1>2. Spec => [](TypeOK /\ AllInv)
  BY <1>1, AllNext, TypeCorrect, PTL DEF Spec
<1> QED
  BY <1>1, <1>2, LedgerStep, PTL DEF Spec, KeepsLedger, Ledger!LedgerSpec

\* A transaction made for the bond in place passes the bond check.
LEMMA RevertStep ==
    ASSUME TypeOK, AllInv, [Next]_vars, pc = "settle", pc' = "reset",
           staked' = staked, faults' = faults
    PROVE  \/ chain[tx.market].bond > tx.maxPrevious
           \/ ~ IsOpen(chain[tx.market], clock)
<1>1. /\ tx.market \in Markets /\ staked[tx.market] \in Nat
      /\ tx.maxPrevious \in Nat /\ tx.bond \in Nat /\ chain[tx.market].bond \in Nat
      /\ faults \in Nat /\ tx.bond = RequiredBond(tx.maxPrevious)
  <2>1. tx.market \in Markets
    BY DEF TypeOK, StepTypeOK
  <2>2. faults \in Nat
    BY DEF TypeOK, GhostTypeOK
  <2> QED
    BY <2>1, <2>2, LedgerTypes DEF AllInv, LedgerInv, BondsSeen
<1>2. ~ Accepts(chain[tx.market], clock, tx.bond, tx.maxPrevious)
  <2>1. CASE SettleFails
    BY <1>1, <2>1 DEF SettleFails, Charge
  <2>2. CASE SettleLands
    <3>1. tx.bond > 0 /\ staked' = [staked EXCEPT ![tx.market] = @ + tx.bond]
      BY <2>2 DEF SettleLands, Accepts
    <3>2. staked'[tx.market] = staked[tx.market] + tx.bond
      BY <1>1, <3>1 DEF TypeOK, GhostTypeOK
    <3> QED
      BY <1>1, <3>1, <3>2
  <2>3. CASE Restart
    BY <1>1, <2>3 DEF Restart, Charge
  <2> QED
    BY <2>1, <2>2, <2>3
    DEF Next, vars, Agent, Scan, ScanSync, ScanTimeout, ScanSelect, EvaluateAnswers,
        Evaluate, EvaluateFire, FireWrite, EvaluateTimeout, MechInteract, MechPaid,
        MechNotSent, MechDelivers, MechTimeout, BuildAnswerTx, BuildMatched,
        BuildUnmatched, BuildCooldown, PreflightAnswer, PreflightBond, BuildNothing,
        BuildTx, BuildTimeout, Reset, Others, Wait
<1>3. CASE tx.maxPrevious = 0
  BY <1>1, <1>2, <1>3, EntryAssumption DEF Accepts, RequiredBond
<1>4. CASE tx.maxPrevious > 0
  BY <1>1, <1>2, <1>4 DEF Accepts, RequiredBond
<1> QED
  BY <1>1, <1>3, <1>4

\* build_answer_tx.py:230-233: whatever was stale, delayed or replayed, a transaction
\* reverts only because somebody answered in between or the question closed.
THEOREM RevertsOvertaken == Spec => RevertsOnlyOvertaken
<1>1. Init => AllInv
  BY BudgetInit, AnswerInit, BondInit, LedgerStart DEF AllInv
<1>2. Spec => [](TypeOK /\ AllInv)
  BY <1>1, AllNext, TypeCorrect, PTL DEF Spec
<1>3. TypeOK /\ AllInv /\ [Next]_vars
          => [pc = "settle" /\ pc' = "reset" /\ staked' = staked /\ faults' = faults
                 => \/ chain[tx.market].bond > tx.maxPrevious
                    \/ ~ IsOpen(chain[tx.market], clock)]_vars
  BY RevertStep
<1> QED
  BY <1>2, <1>3, PTL DEF Spec, RevertsOnlyOvertaken

-----------------------------------------------------------------------------
(* Disputes *)

\* The subgraph names the answerer of the answer it serves.
IndexNamed ==
    \A m \in Markets :
        indexed[m].bond = chain[m].bond => indexed[m].answerer = chain[m].answerer

\* What holds from the start of a scan until the next fault: the scan held no
\* market out and took nobody for trusted who is not; the market it selected
\* stays tracked, and a transaction is made for the bond its entry shows.
RaisedSoFar ==
    /\ pc = "select" =>
          /\ skipped = {}
          /\ \A m \in work :
                entry[m].bond = chain[m].bond /\ entry[m].answerer \in Trusted
                    => chain[m].answerer \in Trusted
    /\ pc \notin {"scan", "select", "reset"} => selected \in tracked
    /\ pc = "settle" => tx.market = selected /\ tx.maxPrevious = entry[selected].bond
    /\ \A m \in Markets : ~ Missed(m)

\* What a step may rely on.
DisputeInv == TypeOK /\ AllInv /\ ShownInv /\ IndexNamed

\* Nothing is charged in a step without a fault.
LEMMA NotCharged ==
    ASSUME TypeOK, faults' = faults, NEW n \in Nat, Charge(n)
    PROVE  n = 0
BY DEF TypeOK, GhostTypeOK, Charge

\* Bonds only grow, so a bond that is the one in place still was before.
LEMMA InPlace ==
    ASSUME DisputeInv, TypeOK', [Next]_vars, NEW m \in Markets, NEW b \in Nat,
           b <= chain[m].bond, b = chain'[m].bond
    PROVE  chain'[m] = chain[m]
<1>1. chain[m].bond \in Nat /\ chain'[m].bond \in Nat
  BY ShownTypes DEF DisputeInv, TypeOK, RealitioTypeOK, Question
<1>2. chain'[m] = chain[m] \/ chain'[m].bond > chain[m].bond
  BY ChainSteps DEF DisputeInv, ChainGrows
<1> QED
  BY <1>1, <1>2

LEMMA IndexNamedNext == DisputeInv /\ TypeOK' /\ [Next]_vars => IndexNamed'
<1> SUFFICES ASSUME DisputeInv, TypeOK', [Next]_vars, NEW m \in Markets,
                    indexed'[m].bond = chain'[m].bond
             PROVE  indexed'[m].answerer = chain'[m].answerer
  BY DEF IndexNamed
<1>1. indexed'[m] = indexed[m] \/ indexed'[m] = chain'[m]
  BY ChainSteps DEF DisputeInv
<1>2. CASE indexed'[m] = indexed[m]
  <2>1. indexed[m].bond \in Nat /\ indexed[m].bond <= chain[m].bond
    BY ShownTypes DEF DisputeInv, AllInv, LedgerInv, BondsSeen
  <2>2. chain'[m] = chain[m]
    BY <1>2, <2>1, InPlace
  <2> QED
    BY <1>2, <2>2 DEF DisputeInv, IndexNamed
<1> QED
  BY <1>1, <1>2

\* A disputed answer that can still be challenged is never passed over.
LEMMA DisputedActionable ==
    ASSUME DisputeInv, UrgencyBuffer >= 1, NEW m \in Markets, NEW balance \in Balances,
           Disputed(m), clock + 1 = Deadline(chain[m]), entry[m].answerer \notin Trusted
    PROVE  Actionable(entry[m], clock, balance)
<1>1. /\ clock \in Nat /\ chain[m].ts \in Nat /\ chain[m].bond \in Nat
      /\ AnswerTimeout \in Nat /\ UrgencyBuffer \in Nat
  BY RealitioAssumption, EntryAssumption DEF DisputeInv, TypeOK, RealitioTypeOK, Question
<1>2. /\ entry[m].answer = chain[m].answer /\ entry[m].bond = chain[m].bond
      /\ entry[m].ts = chain[m].ts /\ chain[m].bond > 0
      /\ entry[m].evaluation \in Answers /\ entry[m].evaluation # entry[m].answer
  BY DEF Disputed
<1>3. entry[m].answer # None
  BY <1>1, <1>2 DEF DisputeInv, ShownInv
<1>4. entry[m].evaluation \notin {None, Undet, entry[m].answer}
  BY <1>2, RealitioAssumption, EntryAssumption
<1>5. Status(entry[m]) = "TRANSACTION_PENDING"
  BY <1>3, <1>4 DEF Status
<1>6. Deadline(entry[m]) = clock + 1
  BY <1>2 DEF Deadline
<1>7. ChallengeGate(entry[m], clock)
  BY <1>1, <1>6 DEF ChallengeGate, IsUrgent
<1>8. WithinCap(RequiredBond(entry[m].bond)) /\ RequiredBond(entry[m].bond) <= balance
  BY <1>2 DEF Disputed
<1> QED
  BY <1>5, <1>7, <1>8 DEF Actionable

\* The scan takes an answer for that of the answerer it saw.
LEMMA SyncedNames ==
    ASSUME TypeOK, NEW m \in Markets, NEW answerer \in Answerers \cup {"nobody"},
           NEW unread \in BOOLEAN, NEW found \in Answers \cup {None}
    PROVE  SyncedEntry(m, answerer, unread, found).answerer = answerer
<1> DEFINE u == Upserted(entry[m], indexed[m], answerer)
<1>1. u \in Entry
  BY UpsertedType DEF TypeOK, MemoryTypeOK, RealitioTypeOK
<1>2. u.answerer = answerer
  BY DEF Upserted, TypeOK, MemoryTypeOK, Entry
<1> HIDE DEF u
<1>3. /\ UndetDropped(u).answerer = u.answerer
      /\ Refreshed(u, found, RowsOf(m)).answerer = u.answerer
  BY <1>1 DEF UndetDropped, Refreshed, Entry
<1> QED
  BY <1>2, <1>3 DEF SyncedEntry, u

\* A whole scan takes nobody for trusted who is not.
LEMMA RaisedSync ==
    ASSUME DisputeInv, ScanSync, faults' = faults
    PROVE  RaisedSoFar'
<1>1. PICK fetched \in SUBSET Markets, cost \in {0, 1} :
        \E silent \in SUBSET fetched, ahead \in SUBSET fetched,
           unread \in SUBSET fetched, pick \in [Markets -> Answers \cup {None}] :
              ScanSyncs(fetched, cost, silent, ahead, unread, pick)
  BY ScanSyncInputs DEF DisputeInv
<1>2. PICK silent \in SUBSET fetched, ahead \in SUBSET fetched,
           unread \in SUBSET fetched, pick \in [Markets -> Answers \cup {None}] :
              ScanSyncs(fetched, cost, silent, ahead, unread, pick)
  BY <1>1
<1>3. /\ work' = fetched /\ skipped' = unread
      /\ Charge(IF silent = {} /\ unread = {} THEN cost ELSE 1)
      /\ entry' = [n \in Markets |->
            IF n \in fetched
            THEN SyncedEntry(n, AnswererSeen(n, silent, ahead), n \in unread, pick[n])
            ELSE entry[n]]
  BY <1>2 DEF ScanSyncs
<1>4. silent = {} /\ unread = {}
  BY <1>3, NotCharged DEF DisputeInv
<1>5. pc' = "select" /\ chain' = chain
  BY DEF ScanSync, realitioVars
<1>6. ASSUME NEW m \in fetched, entry'[m].bond = chain[m].bond,
             entry'[m].answerer \in Trusted
      PROVE  chain[m].answerer \in Trusted
  <2> DEFINE answerer == AnswererSeen(m, silent, ahead)
             skip == m \in unread
  <2>1. answerer \in Answerers \cup {"nobody"}
    BY AnswererType DEF DisputeInv
  <2>2. skip \in BOOLEAN /\ pick[m] \in Answers \cup {None}
    OBVIOUS
  <2>3. entry'[m] = SyncedEntry(m, answerer, skip, pick[m])
    BY <1>3
  <2>4. answerer \in {"nobody", indexed[m].answerer, chain[m].answerer}
    BY DEF AnswererSeen
  <2> HIDE DEF answerer, skip
  <2>5. entry'[m].bond = indexed[m].bond /\ entry'[m].answerer = answerer
    BY <2>1, <2>2, <2>3, SyncedShows, SyncedNames DEF DisputeInv
  <2>6. indexed[m].answerer = chain[m].answerer
    BY <1>6, <2>5 DEF DisputeInv, IndexNamed
  <2> QED
    BY <1>6, <2>4, <2>5, <2>6 DEF Trusted
<1> QED
  BY <1>3, <1>4, <1>5, <1>6 DEF RaisedSoFar, Missed

\* The selection leaves no dispute behind that it could have taken up.
LEMMA RaisedSelect ==
    ASSUME DisputeInv, UrgencyBuffer >= 1, RaisedSoFar, ScanSelect
    PROVE  RaisedSoFar'
<1>1. /\ pc = "select" /\ skipped = {} /\ tracked' = work /\ entry' = Kept(work)
      /\ UNCHANGED <<clock, chain>>
  BY DEF ScanSelect, RaisedSoFar, realitioVars
<1>2. PICK balance \in Balances :
        LET actionable == {m \in work \ skipped : Actionable(entry[m], clock, balance)}
        IN  \/ actionable = {} /\ pc' = "reset"
            \/ selected' \in First(actionable) /\ pc' = "evaluate"
  BY DEF ScanSelect
<1>3. pc' = "evaluate" => selected' \in tracked'
  BY <1>1, <1>2 DEF First
<1>4. ASSUME NEW m \in Markets, Missed(m)' PROVE FALSE
  <2>1. /\ pc' = "reset" /\ clock + 1 = Deadline(chain[m])
        /\ entry'[m].evaluation \in Answers /\ Disputed(m)'
    BY <1>1, <1>4 DEF Missed, Disputed
  <2>2. m \in work
    BY <1>1, <2>1, RealitioAssumption DEF Kept, NewEntry
  <2>3. entry'[m] = entry[m]
    BY <1>1, <2>2 DEF Kept
  <2>4. Disputed(m)
    BY <1>1, <2>1, <2>3 DEF Disputed
  <2>5. entry[m].answerer \notin Trusted
    BY <1>1, <2>2, <2>4 DEF RaisedSoFar, Disputed
  <2> QED
    BY <1>1, <1>2, <2>1, <2>2, <2>4, <2>5, DisputedActionable
<1> QED
  BY <1>1, <1>2, <1>3, <1>4 DEF RaisedSoFar

\* Steps inside a cycle that neither build a transaction nor end it.
LEMMA RaisedInside ==
    ASSUME RaisedSoFar, pc \notin {"scan", "select", "reset"},
           pc' \notin {"select", "settle", "reset"}, UNCHANGED <<tracked, selected>>
    PROVE  RaisedSoFar'
BY DEF RaisedSoFar, Missed

\* Steps that end a cycle without a dispute over the market it worked on.
LEMMA RaisedEnd ==
    ASSUME DisputeInv, RaisedSoFar, pc \notin {"scan", "select", "reset"},
           pc' = "reset", selected' = selected, ~ Missed(selected)'
    PROVE  RaisedSoFar'
<1>1. selected \in tracked /\ tracked \subseteq Markets
  BY DEF RaisedSoFar, DisputeInv, TypeOK, MemoryTypeOK
<1>2. selected # None
  BY <1>1, RealitioAssumption
<1> QED
  BY <1>1, <1>2 DEF RaisedSoFar, Missed

\* A market is passed over before its transaction only without an evaluation.
LEMMA RaisedAsking ==
    ASSUME DisputeInv, RaisedSoFar, faults' = faults,
           EvaluateAnswers \/ MechInteract
    PROVE  RaisedSoFar'
<1>1. CASE Evaluate
  <2>1. /\ pc = "evaluate" /\ UNCHANGED <<chain, entry, tracked, selected>>
        /\ pc' = IF CannotAsk(selected) THEN "reset" ELSE "build"
    BY <1>1 DEF Evaluate, realitioVars, memoryVars, consensusVars
  <2>2. CASE ~ CannotAsk(selected)
    BY <2>1, <2>2, RaisedInside
  <2>3. CASE CannotAsk(selected)
    <3>1. entry'[selected].evaluation = None
      BY <2>1, <2>3 DEF CannotAsk, RaisedSoFar
    <3>2. ~ Missed(selected)'
      BY <2>1, <3>1, RealitioAssumption DEF Missed, Disputed
    <3> QED
      BY <2>1, <2>3, <3>2, RaisedEnd
  <2> QED
    BY <2>2, <2>3
<1>2. CASE EvaluateFire \/ MechPaid \/ MechDelivers
  BY <1>2, RaisedInside
  DEF EvaluateFire, MechPaid, MechDelivers, memoryVars, consensusVars
<1>3. CASE \E landed \in BOOLEAN : FireWrite(landed)
  BY <1>3, RaisedInside DEF FireWrite, memoryVars, consensusVars
<1>4. CASE EvaluateTimeout \/ MechNotSent \/ MechTimeout
  BY <1>4, NotCharged DEF DisputeInv, EvaluateTimeout, MechNotSent, MechTimeout
<1> QED
  BY <1>1, <1>2, <1>3, <1>4 DEF EvaluateAnswers, MechInteract

\* BuildAnswerTx makes a transaction of every dispute.
LEMMA RaisedBuild ==
    ASSUME DisputeInv, RaisedSoFar, faults' = faults, BuildAnswerTx
    PROVE  RaisedSoFar'
<1>0. selected \in tracked /\ selected \in Markets /\ entry \in [Markets -> Entry]
  BY DEF BuildAnswerTx, BuildMatched, BuildUnmatched, BuildCooldown, PreflightAnswer,
         PreflightBond, BuildNothing, BuildTx, BuildTimeout, RaisedSoFar, DisputeInv,
         TypeOK, MemoryTypeOK
<1>1. CASE \E landed \in BOOLEAN : BuildMatched(landed)
  BY <1>1, RaisedInside DEF BuildMatched, consensusVars
<1>2. CASE BuildUnmatched
  BY <1>0, <1>2, RaisedInside DEF BuildUnmatched, memoryVars, consensusVars
<1>3. CASE BuildCooldown
  <2>1. pc = "judge" /\ pc' = "reset" /\ selected' = selected
    BY <1>3 DEF BuildCooldown, consensusVars
  <2>2. entry'[selected].evaluation \in {None, Undet}
    BY <1>0, <1>3 DEF BuildCooldown, WithEntry, Entry
  <2>3. ~ Missed(selected)'
    BY <2>1, <2>2, RealitioAssumption, EntryAssumption DEF Missed, Disputed
  <2> QED
    BY <2>1, <2>3, RaisedEnd
<1>4. CASE PreflightAnswer \/ PreflightBond
  BY <1>4, RaisedInside DEF PreflightAnswer, PreflightBond, memoryVars, consensusVars
<1>5. CASE BuildNothing
  <2>1. /\ pc = "decide" /\ pc' = "reset"
        /\ UNCHANGED <<clock, chain, entry, selected>>
    BY <1>5 DEF BuildNothing, realitioVars, memoryVars, consensusVars
  <2>2. \/ Agrees(entry[selected].answer, entry[selected].evaluation)
        \/ ~ WithinCap(RequiredBond(entry[selected].bond))
        \/ \E balance \in Balances : RequiredBond(entry[selected].bond) > balance
    BY <1>5, NotCharged DEF DisputeInv, BuildNothing
  <2>3. ~ Disputed(selected)
    <3>1. \A balance \in Balances : balance \in Nat
      BY ResolutionAssumption
    <3>2. RequiredBond(entry[selected].bond) \in Nat
      BY <1>0, BondType DEF Entry
    <3>3. CASE Agrees(entry[selected].answer, entry[selected].evaluation)
      BY <3>3 DEF Agrees, Disputed
    <3>4. CASE ~ WithinCap(RequiredBond(entry[selected].bond))
      BY <3>4 DEF Disputed
    <3>5. CASE \E balance \in Balances : RequiredBond(entry[selected].bond) > balance
      BY <3>1, <3>2, <3>5 DEF Disputed
    <3> QED
      BY <2>2, <3>3, <3>4, <3>5
  <2>4. ~ Missed(selected)'
    BY <2>1, <2>3 DEF Missed, Disputed
  <2> QED
    BY <2>1, <2>4, RaisedEnd
<1>6. CASE BuildTx
  <2>1. /\ pc = "decide" /\ pc' = "settle" /\ UNCHANGED <<tracked, selected>>
        /\ tx'.market = selected /\ tx'.maxPrevious = entry[selected].bond
    BY <1>6 DEF BuildTx, MaxPrevious
  <2>2. entry'[selected].bond = entry[selected].bond
    BY <1>0, <1>6 DEF BuildTx, WithEntry, Entry
  <2> QED
    BY <1>0, <2>1, <2>2 DEF RaisedSoFar, Missed
<1>7. CASE BuildTimeout
  BY <1>7, NotCharged DEF DisputeInv, BuildTimeout
<1> QED
  BY <1>1, <1>2, <1>3, <1>4, <1>5, <1>6, <1>7 DEF BuildAnswerTx

\* A transaction made for the bond in place is not refused while the question
\* is open, and one that lands ends the dispute.
LEMMA RaisedSettles ==
    ASSUME DisputeInv, RaisedSoFar, faults' = faults, SettleLands \/ SettleFails
    PROVE  RaisedSoFar'
<1> DEFINE q == selected
<1>1. /\ pc = "settle" /\ pc' = "reset" /\ UNCHANGED <<clock, entry, selected>>
      /\ tx.market = q /\ tx.maxPrevious = entry[q].bond /\ q \in Markets
  BY DEF SettleLands, SettleFails, realitioVars, memoryVars, consensusVars, RaisedSoFar,
         DisputeInv, TypeOK, StepTypeOK
<1>2. CASE SettleLands
  <2>1. chain'[q].answerer = "us"
    BY <1>1, <1>2 DEF SettleLands, Answered, DisputeInv, TypeOK, RealitioTypeOK
  <2>2. ~ Missed(q)'
    BY <1>1, <2>1 DEF Missed, Disputed, Trusted
  <2> QED
    BY <1>1, <2>2, RaisedEnd
<1>3. CASE SettleFails
  <2>1. /\ chain' = chain
        /\ ~ Accepts(chain[q], clock, tx.bond, tx.maxPrevious)
    BY <1>1, <1>3, NotCharged DEF DisputeInv, SettleFails, realitioVars
  <2>2. ASSUME Missed(q)' PROVE FALSE
    <3>1. /\ clock + 1 = Deadline(chain[q]) /\ chain[q].bond > 0
          /\ entry[q].bond = chain[q].bond
      BY <1>1, <2>1, <2>2 DEF Missed, Disputed
    <3>2. /\ clock \in Nat /\ chain[q].ts \in Nat /\ chain[q].bond \in Nat
          /\ AnswerTimeout \in Nat
      BY <1>1, RealitioAssumption DEF DisputeInv, TypeOK, RealitioTypeOK, Question
    <3>3. tx.maxPrevious = chain[q].bond /\ tx.bond = 2 * chain[q].bond
      BY <1>1, <3>1 DEF DisputeInv, AllInv, LedgerInv, BondsSeen, RequiredBond
    <3>4. IsOpen(chain[q], clock)
      BY <3>1, <3>2 DEF IsOpen, Deadline
    <3>5. Accepts(chain[q], clock, tx.bond, tx.maxPrevious)
      BY <3>1, <3>2, <3>3, <3>4 DEF Accepts
    <3> QED
      BY <2>1, <3>5
  <2> QED
    BY <1>1, <2>2, RaisedEnd
<1> QED
  BY <1>2, <1>3

\* An answer the agent has seen as it stands has not been given since.
LEMMA RaisedOthers ==
    ASSUME DisputeInv, TypeOK', RaisedSoFar, Others
    PROVE  RaisedSoFar'
<1>1. UNCHANGED <<pc, tracked, work, skipped, entry, selected, tx>>
  BY DEF Others, memoryVars, consensusVars
<1>2. clock' = clock
  BY DEF Others, OtherAnswers, SubgraphIndexes
<1>3. ASSUME NEW m \in Markets, entry[m].bond = chain'[m].bond
      PROVE  chain'[m] = chain[m]
  <2>1. entry[m].bond \in Nat /\ entry[m].bond <= chain[m].bond
    BY ShownTypes DEF DisputeInv, AllInv, LedgerInv, BondsSeen
  <2>2. [Next]_vars
    BY DEF Next
  <2> QED
    BY <1>3, <2>1, <2>2, InPlace
<1>4. ASSUME NEW m \in Markets, Missed(m)' PROVE FALSE
  <2>1. chain'[m] = chain[m]
    BY <1>1, <1>3, <1>4 DEF Missed, Disputed
  <2>2. Missed(m)
    BY <1>1, <1>2, <1>4, <2>1 DEF Missed, Disputed
  <2> QED
    BY <2>2 DEF RaisedSoFar
<1>5. work \subseteq Markets
  BY DEF DisputeInv, TypeOK, MemoryTypeOK
<1> QED
  BY <1>1, <1>3, <1>4, <1>5 DEF RaisedSoFar

\* Every step without a fault preserves it.
LEMMA RaisedNext ==
    ASSUME DisputeInv, TypeOK', UrgencyBuffer >= 1, RaisedSoFar, [Next]_vars,
           faults' = faults
    PROVE  RaisedSoFar'
<1>1. CASE ScanSync \/ ScanSelect
  BY <1>1, RaisedSync, RaisedSelect
<1>2. CASE ScanTimeout \/ Restart
  BY <1>2, NotCharged DEF DisputeInv, ScanTimeout, Restart
<1>3. CASE EvaluateAnswers \/ MechInteract \/ BuildAnswerTx
  BY <1>3, RaisedAsking, RaisedBuild
<1>4. CASE SettleLands \/ SettleFails \/ Others
  BY <1>4, RaisedSettles, RaisedOthers
<1>5. CASE Reset
  BY <1>5 DEF Reset, RaisedSoFar, Missed
<1>6. CASE Wait
  <2>1. /\ pc \in {"await", "settle"}
        /\ UNCHANGED <<pc, tracked, work, skipped, entry, selected, tx>>
    BY <1>6 DEF Wait, memoryVars, consensusVars
  <2> QED
    BY <2>1 DEF RaisedSoFar, Missed
<1>7. CASE UNCHANGED vars
  BY <1>7 DEF vars, RaisedSoFar, Missed, Disputed
<1> QED
  BY <1>1, <1>2, <1>3, <1>4, <1>5, <1>6, <1>7 DEF Next, Agent, Scan

\* Faults are only ever added.
LEMMA FaultsGrow ==
    ASSUME TypeOK, [Next]_vars
    PROVE  faults' >= faults
<1>1. ASSUME NEW n \in Nat, Charge(n) PROVE faults' >= faults
  BY <1>1 DEF Charge, TypeOK, GhostTypeOK
<1>2. faults \in Nat
  BY DEF TypeOK, GhostTypeOK
<1>3. CASE ScanSync
  <2>1. PICK fetched \in SUBSET Markets, cost \in {0, 1} :
          \E silent \in SUBSET fetched, ahead \in SUBSET fetched,
             unread \in SUBSET fetched, pick \in [Markets -> Answers \cup {None}] :
                ScanSyncs(fetched, cost, silent, ahead, unread, pick)
    BY <1>3, ScanSyncInputs
  <2>2. PICK silent \in SUBSET fetched, unread \in SUBSET fetched :
          Charge(IF silent = {} /\ unread = {} THEN cost ELSE 1)
    BY <2>1 DEF ScanSyncs
  <2> QED
    BY <1>1, <2>2
<1>4. CASE ~ ScanSync
  BY <1>1, <1>2, <1>4
  DEF Next, vars, Agent, Scan, ScanTimeout, ScanSelect, EvaluateAnswers, Evaluate,
      EvaluateFire, FireWrite, EvaluateTimeout, MechInteract, MechPaid, MechNotSent,
      MechDelivers, MechTimeout, BuildAnswerTx, BuildMatched, BuildUnmatched,
      BuildCooldown, PreflightAnswer, PreflightBond, BuildNothing, BuildTx,
      BuildTimeout, SettleLands, SettleFails, Reset, Others, Wait, Restart, ghostVars
<1> QED
  BY <1>3, <1>4

LEMMA DisputeInvariant == Spec => [](TypeOK /\ DisputeInv)
<1>1. Init => AllInv /\ IndexNamed
  <2>1. Init => IndexNamed
    BY DEF Init, RealitioInit, IndexNamed
  <2> QED
    BY <2>1, BudgetInit, AnswerInit, BondInit, LedgerStart DEF AllInv
<1>2. TypeOK /\ DisputeInv /\ [Next]_vars => DisputeInv'
  BY NextType, AllNext, ShownNext, IndexNamedNext DEF DisputeInv
<1>3. Init => TypeOK /\ DisputeInv
  BY <1>1, InitType, ShownInit DEF DisputeInv
<1> QED
  BY <1>2, <1>3, TypeCorrect, PTL DEF Spec

\* scan_markets.py:303-319: with an urgency buffer that covers a cycle, the
\* cooldown after an earlier transaction, whatever came of it, forfeits no
\* challenge.
THEOREM DisputesTakenUp == ASSUME UrgencyBuffer >= 1 PROVE Spec => DisputesRaised
<1>1. ASSUME NEW k \in 0 .. MaxFaults
      PROVE  Spec => [](pc = "scan" /\ faults = k
                          => [](faults = k => \A m \in Markets : ~ Missed(m)))
  <2> DEFINE Hold == faults >= k /\ (faults = k => RaisedSoFar)
  <2>1. DisputeInv /\ pc = "scan" /\ faults = k => Hold
    <3>1. pc = "scan" => RaisedSoFar
      BY DEF RaisedSoFar, Missed
    <3> QED
      BY <3>1
  <2>2. DisputeInv /\ [Next]_vars /\ Hold => Hold'
    <3> SUFFICES ASSUME DisputeInv, [Next]_vars, Hold PROVE Hold'
      OBVIOUS
    <3>1. faults \in Nat /\ faults' >= faults /\ TypeOK'
      BY FaultsGrow, NextType DEF DisputeInv, TypeOK, GhostTypeOK
    <3>2. faults' \in Nat
      BY <3>1 DEF TypeOK, GhostTypeOK
    <3>3. faults' = k => faults' = faults
      BY <3>1, <3>2
    <3>4. faults' = k => RaisedSoFar'
      BY <3>1, <3>3, RaisedNext
    <3> QED
      BY <3>1, <3>2, <3>4
  <2>3. Hold => (faults = k => \A m \in Markets : ~ Missed(m))
    BY Zenon DEF RaisedSoFar
  <2> HIDE DEF Hold
  <2> QED
    BY <2>1, <2>2, <2>3, DisputeInvariant, PTL DEF Spec
<1> QED
  BY <1>1 DEF DisputesRaised

-----------------------------------------------------------------------------
(* What the ledger promises *)

\* The amounts of a ledger whose steps are all allowed: payments are within the
\* limit, and the stake within twice the bond in place and twice the cap.
LedgerHolds ==
    /\ sent \in [Markets -> Nat] /\ lost \in [Markets -> Nat]
    /\ staked \in [Markets -> Nat]
    /\ \A m \in Markets : Best[m].bond \in Nat /\ staked[m] <= 2 * Best[m].bond
    /\ RetryBudget
    /\ StakeBounded

\* They hold at the start.
LEMMA LedgerHoldsFirst == Ledger!LedgerInit => LedgerHolds
<1> SUFFICES ASSUME Ledger!LedgerInit PROVE LedgerHolds
  OBVIOUS
<1>1. /\ sent = [m \in Markets |-> 0] /\ lost = [m \in Markets |-> 0]
      /\ staked = [m \in Markets |-> 0]
      /\ \A m \in Markets : Best[m].bond = 0
  BY DEF Ledger!LedgerInit, Best
<1> QED
  BY <1>1, EntryAssumption DEF LedgerHolds, RetryBudget, StakeBounded

\* A stake at least doubles the bond in place, so all of them together stay
\* below twice the last.
LEMMA LedgerStakes ==
    ASSUME LedgerHolds, NEW m \in Markets, NEW answer \in Answers,
           Ledger!Stake(m, answer)
    PROVE  LedgerHolds'
<1>1. PICK bond \in {InitialBond, 2 * Best[m].bond} :
          /\ bond >= 2 * Best[m].bond /\ bond <= MaxBond
          /\ staked' = [staked EXCEPT ![m] = @ + bond]
          /\ Best' = [Best EXCEPT ![m] = [answer |-> answer, bond |-> bond]]
  BY DEF Ledger!Stake, Best
<1>2. UNCHANGED <<sent, lost>>
  BY DEF Ledger!Stake
<1>3. bond \in Nat /\ MaxBond \in Nat /\ Best[m].bond \in Nat /\ staked[m] \in Nat
      /\ staked[m] <= 2 * Best[m].bond
  BY EntryAssumption DEF LedgerHolds
<1>4. /\ Best'[m].bond = bond
      /\ \A q \in Markets \ {m} : Best'[q] = Best[q]
  BY <1>1 DEF Best
<1>5. /\ staked'[m] = staked[m] + bond
      /\ \A q \in Markets \ {m} : staked'[q] = staked[q]
      /\ staked' \in [Markets -> Nat]
  BY <1>1, <1>3 DEF LedgerHolds
<1>6. staked'[m] <= 2 * bond /\ staked'[m] <= 2 * MaxBond
  BY <1>1, <1>3, <1>5
<1>7. \A q \in Markets : Best'[q].bond \in Nat /\ staked'[q] <= 2 * Best'[q].bond
  BY <1>3, <1>4, <1>5, <1>6 DEF LedgerHolds
<1>8. StakeBounded'
  BY <1>5, <1>6 DEF LedgerHolds, StakeBounded
<1>9. RetryBudget'
  BY <1>2 DEF LedgerHolds, RetryBudget
<1> QED
  BY <1>2, <1>5, <1>7, <1>8, <1>9 DEF LedgerHolds

\* Every step the ledger allows keeps them.
LEMMA LedgerHoldsNext ==
    LedgerHolds /\ [Ledger!LedgerNext]_(Ledger!ledgerVars) => LedgerHolds'
<1> SUFFICES ASSUME LedgerHolds, [Ledger!LedgerNext]_(Ledger!ledgerVars)
             PROVE  LedgerHolds'
  OBVIOUS
<1>0. \A m \in Markets : History[m].asks \in Nat /\ MaxRetries \in Nat
  BY EntryAssumption, ResolutionAssumption
<1>1. ASSUME UNCHANGED <<sent, lost, cached, staked, Best>> PROVE LedgerHolds'
  BY <1>1 DEF LedgerHolds, RetryBudget, StakeBounded
<1>2. ASSUME NEW m \in Markets, Ledger!Pay(m) PROVE LedgerHolds'
  <2>1. /\ sent[m] + 1 + History[m].asks <= MaxRetries + lost[m]
        /\ sent' = [sent EXCEPT ![m] = @ + 1]
        /\ UNCHANGED <<lost, staked, Best>>
    BY <1>2 DEF Ledger!Pay, Best
  <2>2. /\ sent'[m] = sent[m] + 1 /\ \A q \in Markets \ {m} : sent'[q] = sent[q]
        /\ sent' \in [Markets -> Nat]
    BY <2>1 DEF LedgerHolds
  <2>3. RetryBudget'
    BY <1>0, <2>1, <2>2 DEF LedgerHolds, RetryBudget
  <2> QED
    BY <2>1, <2>2, <2>3 DEF LedgerHolds, StakeBounded
<1>3. ASSUME NEW m \in Markets, Ledger!GiveUpRow(m) PROVE LedgerHolds'
  <2>1. lost' = [lost EXCEPT ![m] = @ + 1] /\ UNCHANGED <<sent, staked, Best>>
    BY <1>3 DEF Ledger!GiveUpRow, Best
  <2>2. lost' \in [Markets -> Nat] /\ \A q \in Markets : lost'[q] >= lost[q]
    BY <2>1 DEF LedgerHolds
  <2>3. RetryBudget'
    BY <1>0, <2>1, <2>2 DEF LedgerHolds, RetryBudget
  <2> QED
    BY <2>1, <2>2, <2>3 DEF LedgerHolds, StakeBounded
<1>4. ASSUME NEW m \in Markets, NEW answer \in Answers, Ledger!Store(m, answer)
      PROVE  LedgerHolds'
  BY <1>4 DEF Ledger!Store, LedgerHolds, RetryBudget, StakeBounded, Best
<1>5. ASSUME NEW m \in Markets, Ledger!Outbid(m) PROVE LedgerHolds'
  <2>1. /\ Best'[m].bond \in Nat /\ Best'[m].bond >= 2 * Best[m].bond
        /\ Best' = [Best EXCEPT ![m] = Best'[m]]
        /\ UNCHANGED <<sent, lost, staked>>
    BY <1>5 DEF Ledger!Outbid, Best
  <2>2. \A q \in Markets \ {m} : Best'[q] = Best[q]
    BY <2>1 DEF Best
  <2>3. \A q \in Markets : Best'[q].bond \in Nat /\ staked'[q] <= 2 * Best'[q].bond
    BY <2>1, <2>2 DEF LedgerHolds
  <2> QED
    BY <2>1, <2>3 DEF LedgerHolds, RetryBudget, StakeBounded
<1>6. CASE UNCHANGED Ledger!ledgerVars
  BY <1>1, <1>6 DEF Ledger!ledgerVars, Best
<1> QED
  BY <1>2, <1>3, <1>4, <1>5, <1>6, LedgerStakes DEF Ledger!LedgerNext

\* SafeLedger says enough: whoever keeps to it pays within the limit, never for
\* what is on record, and stakes no more than twice the cap on one market.
THEOREM LedgerSuffices ==
    KeepsLedger => []RetryBudget /\ []StakeBounded /\ NoPaidRepeat
<1>1. LedgerHolds => RetryBudget /\ StakeBounded
  BY DEF LedgerHolds
<1>2. LedgerHolds /\ [Ledger!LedgerNext]_(Ledger!ledgerVars)
          => [\A m \in Markets :
                 sent'[m] > sent[m] => cached[m] \cup History[m].answers = {}]_vars
  <2> SUFFICES ASSUME LedgerHolds, [Ledger!LedgerNext]_(Ledger!ledgerVars),
                      NEW m \in Markets, sent'[m] > sent[m]
               PROVE  cached[m] \cup History[m].answers = {}
    OBVIOUS
  <2>1. sent' # sent /\ sent \in [Markets -> Nat]
    BY DEF LedgerHolds
  <2>2. PICK q \in Markets : Ledger!Pay(q)
    BY <2>1
    DEF Ledger!LedgerNext, Ledger!ledgerVars, Ledger!GiveUpRow, Ledger!Store,
        Ledger!Stake, Ledger!Outbid
  <2>3. q = m
    BY <2>1, <2>2 DEF Ledger!Pay
  <2> QED
    BY <2>2, <2>3 DEF Ledger!Pay, Ledger!OnRecord
<1> QED
  BY <1>1, <1>2, LedgerHoldsFirst, LedgerHoldsNext, PTL
  DEF KeepsLedger, Ledger!LedgerSpec, NoPaidRepeat

=============================================================================
