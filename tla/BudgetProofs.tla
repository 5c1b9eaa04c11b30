---------------------------- MODULE BudgetProofs ----------------------------
(***************************************************************************)
(* RetryBudget for every value of the constants.  mech_retries can be lost *)
(* with the process, so the argument rests on the kv_store: every request  *)
(* that is paid for has a row of its own, or one that was given up, and a  *)
(* scan lets a market through only after it has counted those rows.        *)
(***************************************************************************)
EXTENDS MarketResolutionProofs

\* A nonce with a row was drawn, and so was the one that was delivered.
NoncesIssued ==
    /\ response.nonce <= issued
    /\ \A m \in Markets : \A n \in asked[m] : n <= issued

\* Every request paid for has a row, or was one whose row was given up.
PaidHaveRows == \A m \in Markets : sent[m] <= Cardinality(asked[m]) + lost[m]

\* The same where a payment is near: a market on its way to one has counted
\* its rows, then has a fresh nonce, then a row (or a loss) to spare.
RowsCounted ==
    /\ pc = "select" => \A m \in work \ skipped : RowsOf(m) <= entry[m].retries
    /\ pc = "evaluate" /\ selected \in tracked
          => RowsOf(selected) <= entry[selected].retries
    /\ pc = "fired" => /\ entry[selected].nonce = issued
                       /\ issued \notin asked[selected]
                       /\ RowsOf(selected) < MaxRetries
    /\ pc = "request" =>
          /\ sent[selected] < Cardinality(asked[selected]) + lost[selected]
          /\ sent[selected] + History[selected].asks < MaxRetries + lost[selected]

\* The inductive invariant behind RetryBudget.
BudgetInv == NoncesIssued /\ PaidHaveRows /\ RowsCounted /\ RetryBudget

-----------------------------------------------------------------------------
\* The initial state satisfies it.
LEMMA BudgetInit == Init => BudgetInv
<1> SUFFICES ASSUME Init PROVE BudgetInv
  OBVIOUS
<1>1. NoncesIssued
  BY DEF Init, NoncesIssued, NoResponse
<1>2. PaidHaveRows
  <2>1. Cardinality({}) = 0
    BY FS_EmptySet
  <2>2. \A m \in Markets : sent[m] = 0 /\ asked[m] = {} /\ lost[m] = 0
    BY DEF Init
  <2>3. \A m \in Markets : Cardinality(asked[m]) = 0
    BY <2>1, <2>2, Zenon
  <2>4. \A m \in Markets : sent[m] <= Cardinality(asked[m]) + lost[m]
    <3> TAKE m \in Markets
    <3>1. sent[m] = 0 /\ lost[m] = 0 /\ Cardinality(asked[m]) = 0
      BY <2>2, <2>3
    <3> QED
      BY <3>1
  <2> QED
    BY <2>4 DEF PaidHaveRows
<1>3. RowsCounted
  BY DEF Init, RowsCounted
<1>4. RetryBudget
  BY DEF Init, RetryBudget
<1> QED
  BY <1>1, <1>2, <1>3, <1>4 DEF BudgetInv

\* A row more in asked: the set stays a finite set of drawn nonces and does
\* not shrink; one row is added if the nonce had none.
LEMMA RowAdded ==
    ASSUME TypeOK, NEW n \in Nat, selected \in Markets,
           asked' = [asked EXCEPT ![selected] = @ \cup {n}]
    PROVE  /\ \A m \in Markets : Cardinality(asked'[m]) >= Cardinality(asked[m])
           /\ \A m \in Markets : Cardinality(asked'[m]) \in Nat
           /\ \A m \in Markets : Cardinality(asked[m]) \in Nat
           /\ n \notin asked[selected] =>
                 Cardinality(asked'[selected]) = Cardinality(asked[selected]) + 1
<1>1. \A m \in Markets : IsFiniteSet(asked[m])
  BY DEF TypeOK, StoreTypeOK
<1>2. asked \in [Markets -> SUBSET Nat]
  BY DEF TypeOK, StoreTypeOK
<1>3. \A m \in Markets : Cardinality(asked[m]) \in Nat
  BY <1>1, FS_CardinalityType
<1>4. Cardinality(asked[selected] \cup {n}) =
        IF n \in asked[selected] THEN Cardinality(asked[selected])
        ELSE Cardinality(asked[selected]) + 1
  BY <1>1, FS_AddElement
<1>5. /\ asked'[selected] = asked[selected] \cup {n}
      /\ \A m \in Markets \ {selected} : asked'[m] = asked[m]
  BY <1>2
<1>6. \A m \in Markets \ {selected} : Cardinality(asked'[m]) = Cardinality(asked[m])
  BY <1>5
<1>7. /\ Cardinality(asked'[selected]) \in
            {Cardinality(asked[selected]), Cardinality(asked[selected]) + 1}
      /\ n \notin asked[selected] =>
            Cardinality(asked'[selected]) = Cardinality(asked[selected]) + 1
  BY <1>4, <1>5
<1>8. ASSUME NEW m \in Markets
      PROVE  /\ Cardinality(asked'[m]) >= Cardinality(asked[m])
             /\ Cardinality(asked'[m]) \in Nat
  <2>1. Cardinality(asked[m]) \in Nat
    BY <1>3
  <2>2. CASE m = selected
    BY <1>7, <2>1, <2>2
  <2>3. CASE m # selected
    BY <1>6, <2>1, <2>3
  <2> QED
    BY <2>2, <2>3
<1> QED
  BY <1>3, <1>7, <1>8

\* What is counted, as numbers.
LEMMA BudgetTypes ==
    ASSUME TypeOK, NEW m \in Markets
    PROVE  /\ Cardinality(asked[m]) \in Nat
           /\ sent[m] \in Nat /\ lost[m] \in Nat /\ History[m].asks \in Nat
           /\ entry[m].retries \in Nat /\ entry[m].nonce \in Nat
           /\ MaxRetries \in Nat /\ issued \in Nat /\ response.nonce \in Nat
<1>1. Cardinality(asked[m]) \in Nat
  BY FS_CardinalityType DEF TypeOK, StoreTypeOK
<1>2. sent[m] \in Nat /\ lost[m] \in Nat /\ issued \in Nat
  BY DEF TypeOK, GhostTypeOK, StoreTypeOK
<1>3. response.nonce \in Nat
  BY DEF TypeOK, ConsensusTypeOK
<1>4. entry[m].retries \in Nat /\ entry[m].nonce \in Nat
  BY DEF TypeOK, MemoryTypeOK, Entry
<1> QED
  BY <1>1, <1>2, <1>3, <1>4, EntryAssumption, ResolutionAssumption

\* A step that leaves the counts alone leaves these three alone.
LEMMA BudgetFrame ==
    ASSUME BudgetInv, UNCHANGED <<asked, sent, lost, issued>>,
           response' = response \/ (response'.nonce = 0 /\ issued \in Nat)
    PROVE  NoncesIssued' /\ PaidHaveRows' /\ RetryBudget'
<1>1. NoncesIssued'
  BY DEF BudgetInv, NoncesIssued
<1>2. PaidHaveRows'
  BY DEF BudgetInv, PaidHaveRows
<1>3. RetryBudget'
  BY DEF BudgetInv, RetryBudget
<1> QED
  BY <1>1, <1>2, <1>3

\* More rows and more losses keep every payment covered.
LEMMA PaidCovered ==
    ASSUME TypeOK, BudgetInv, sent' = sent,
           \A m \in Markets : /\ Cardinality(asked'[m]) \in Nat
                             /\ Cardinality(asked'[m]) >= Cardinality(asked[m]),
           \A m \in Markets : lost'[m] \in Nat /\ lost'[m] >= lost[m]
    PROVE  PaidHaveRows'
<1>1. ASSUME NEW m \in Markets
      PROVE  sent'[m] <= Cardinality(asked'[m]) + lost'[m]
  <2>1. sent[m] <= Cardinality(asked[m]) + lost[m]
    BY DEF BudgetInv, PaidHaveRows
  <2> QED
    BY <2>1, BudgetTypes
<1> QED
  BY <1>1 DEF PaidHaveRows

\* Steps that end where no payment is near.
LEMMA BudgetAway ==
    ASSUME pc' \notin {"select", "evaluate", "fired", "request"}
    PROVE  RowsCounted'
BY DEF RowsCounted

\* The scan counts the rows of what it lets through.
LEMMA BudgetScan ==
    ASSUME TypeOK, BudgetInv, Scan
    PROVE  BudgetInv'
<1>1. CASE ScanSync
  <2>1. PICK fetched \in SUBSET Markets, cost \in {0, 1} :
          \E silent \in SUBSET fetched, ahead \in SUBSET fetched,
             unread \in SUBSET fetched, pick \in [Markets -> Answers \cup {None}] :
                ScanSyncs(fetched, cost, silent, ahead, unread, pick)
    BY <1>1, ScanSyncInputs
  <2>2. PICK silent \in SUBSET fetched, ahead \in SUBSET fetched,
             unread \in SUBSET fetched, pick \in [Markets -> Answers \cup {None}] :
                ScanSyncs(fetched, cost, silent, ahead, unread, pick)
    BY <2>1
  <2>3. \A m \in fetched : m \notin unread => entry'[m].retries >= RowsOf(m)
    BY <2>2, ScanSyncEntries
  <2>4. /\ work' = fetched /\ skipped' = unread /\ pc' = "select"
        /\ asked' = asked /\ sent' = sent /\ lost' = lost /\ issued' = issued
        /\ response' = response
    BY <1>1, <2>2 DEF ScanSync, ScanSyncs, kvVars, ghostVars, consensusVars
  <2>5. \A m \in fetched : RowsOf(m)' = RowsOf(m) /\ RowsOf(m) \in Nat
    BY <2>4, RowsType DEF RowsOf
  <2>6. \A m \in fetched : entry'[m].retries \in Nat
    BY <2>2, ScanSyncEntries DEF Entry
  <2>7. RowsCounted'
    BY <2>3, <2>4, <2>5, <2>6 DEF RowsCounted
  <2> QED
    BY <2>4, <2>7, BudgetFrame DEF BudgetInv
<1>2. CASE ScanTimeout
  <2>1. /\ pc' = "scan" /\ UNCHANGED <<asked, sent, lost, issued, response>>
    BY <1>2 DEF ScanTimeout, kvVars, ghostVars, consensusVars
  <2> QED
    BY <2>1, BudgetFrame, BudgetAway DEF BudgetInv
<1>3. CASE ScanSelect
  <2>1. UNCHANGED <<asked, sent, lost, issued, response>>
    BY <1>3 DEF ScanSelect, kvVars, ghostVars
  <2>2. CASE pc' = "reset"
    BY <2>1, <2>2, BudgetFrame, BudgetAway DEF BudgetInv
  <2>3. CASE pc' = "evaluate"
    <3>1. /\ selected' \in work \ skipped /\ tracked' = work /\ entry' = Kept(work)
          /\ pc = "select"
      BY <1>3, <2>3 DEF ScanSelect, First
    <3>2. selected' \in Markets
      BY <3>1 DEF TypeOK, MemoryTypeOK
    <3>3. entry'[selected'] = entry[selected']
      BY <3>1, <3>2, KeptType
    <3>4. RowsOf(selected') <= entry[selected'].retries
      BY <3>1 DEF BudgetInv, RowsCounted
    <3>5. RowsCounted'
      BY <2>1, <2>3, <3>3, <3>4 DEF RowsCounted, RowsOf
    <3> QED
      BY <2>1, <3>5, BudgetFrame DEF BudgetInv
  <2> QED
    BY <1>3, <2>2, <2>3 DEF ScanSelect
<1> QED
  BY <1>1, <1>2, <1>3 DEF Scan

\* EvaluateAnswers: a fresh nonce, then its row.
LEMMA BudgetEvaluate ==
    ASSUME TypeOK, BudgetInv, EvaluateAnswers
    PROVE  BudgetInv'
<1>1. CASE Evaluate
  <2>1. pc' \in {"reset", "build"} /\ UNCHANGED <<asked, sent, lost, issued, response>>
    BY <1>1 DEF Evaluate, kvVars, ghostVars, consensusVars
  <2> QED
    BY <2>1, BudgetFrame, BudgetAway DEF BudgetInv
<1>2. CASE EvaluateFire
  <2>1. /\ pc = "evaluate" /\ pc' = "fired" /\ selected \in tracked
        /\ entry[selected].retries < MaxRetries
        /\ UNCHANGED <<asked, sent, lost, response, selected>> /\ issued' = issued + 1
    <3>1. selected \in Markets
      BY <1>2 DEF EvaluateFire, TypeOK, StepTypeOK
    <3>2. entry[selected].retries \in Nat
      BY <3>1, BudgetTypes
    <3> QED
      BY <1>2, <3>2, EntryAssumption
      DEF EvaluateFire, CannotAsk, kvVars, ghostVars, consensusVars
  <2>2. selected \in Markets
    BY <2>1 DEF TypeOK, StepTypeOK
  <2>3. entry'[selected].nonce = issued + 1
    <3>1. entry[selected] \in Entry
      BY <2>2 DEF TypeOK, MemoryTypeOK
    <3>2. entry[selected].retries + 1 \in Nat /\ issued + 1 \in Nat
      BY <2>2, BudgetTypes
    <3>3. entry' = [entry EXCEPT ![selected] =
                      [entry[selected] EXCEPT !.retries = @ + 1, !.nonce = issued + 1]]
      BY <1>2 DEF EvaluateFire, WithEntry
    <3> QED
      BY <2>2, <3>1, <3>3 DEF TypeOK, MemoryTypeOK, Entry
  <2>4. NoncesIssued'
    BY <2>1, <2>2, BudgetTypes DEF BudgetInv, NoncesIssued, TypeOK, StoreTypeOK
  <2>5. PaidHaveRows' /\ RetryBudget'
    BY <2>1 DEF BudgetInv, PaidHaveRows, RetryBudget
  <2>6. issued + 1 \notin asked[selected]
    BY <2>2, BudgetTypes DEF BudgetInv, NoncesIssued
  <2>7. RowsOf(selected) < MaxRetries
    <3>1. RowsOf(selected) <= entry[selected].retries
      BY <2>1 DEF BudgetInv, RowsCounted
    <3> QED
      BY <2>1, <2>2, <3>1, BudgetTypes, RowsType
  <2>8. RowsCounted'
    BY <2>1, <2>3, <2>6, <2>7 DEF RowsCounted, RowsOf
  <2> QED
    BY <2>4, <2>5, <2>8 DEF BudgetInv
<1>3. ASSUME NEW landed \in BOOLEAN, FireWrite(landed)
      PROVE  BudgetInv'
  <2>1. /\ selected \in Markets /\ pc = "fired" /\ pc' = "request"
        /\ UNCHANGED <<sent, issued, response, selected>>
        /\ entry[selected].nonce = issued
        /\ issued \notin asked[selected]
        /\ RowsOf(selected) < MaxRetries
    BY <1>3 DEF FireWrite, TypeOK, StepTypeOK, BudgetInv, RowsCounted, consensusVars
  <2>2. /\ sent[selected] <= Cardinality(asked[selected]) + lost[selected]
        /\ Cardinality(asked[selected]) + History[selected].asks < MaxRetries
    BY <2>1 DEF BudgetInv, PaidHaveRows, RowsOf
  <2>3. CASE landed
    <3>1. asked' = [asked EXCEPT ![selected] = @ \cup {issued}] /\ lost' = lost
      BY <1>3, <2>1, <2>3 DEF FireWrite
    <3>2. /\ \A m \in Markets : Cardinality(asked'[m]) >= Cardinality(asked[m])
          /\ \A m \in Markets : Cardinality(asked'[m]) \in Nat
          /\ Cardinality(asked'[selected]) = Cardinality(asked[selected]) + 1
      BY <2>1, <3>1, BudgetTypes, RowAdded
    <3>3. NoncesIssued'
      BY <2>1, <3>1, BudgetTypes DEF BudgetInv, NoncesIssued, TypeOK, StoreTypeOK
    <3>4. PaidHaveRows'
      <4>1. \A m \in Markets : lost'[m] \in Nat /\ lost'[m] >= lost[m]
        BY <3>1 DEF TypeOK, GhostTypeOK
      <4> QED
        BY <2>1, <3>2, <4>1, PaidCovered
    <3>5. RetryBudget'
      BY <2>1, <3>1 DEF BudgetInv, RetryBudget
    <3>6. RowsCounted'
      BY <2>1, <2>2, <3>1, <3>2, BudgetTypes DEF RowsCounted
    <3> QED
      BY <3>3, <3>4, <3>5, <3>6 DEF BudgetInv
  <2>4. CASE ~ landed
    <3>1. asked' = asked /\ lost' = [lost EXCEPT ![selected] = @ + 1]
      BY <1>3, <2>4 DEF FireWrite
    <3>2. /\ lost'[selected] = lost[selected] + 1
          /\ \A m \in Markets : lost'[m] \in Nat /\ lost'[m] >= lost[m]
      BY <2>1, <3>1 DEF TypeOK, GhostTypeOK
    <3>3. NoncesIssued'
      BY <2>1, <3>1 DEF BudgetInv, NoncesIssued
    <3>4. PaidHaveRows'
      BY <2>1, <3>1, <3>2, BudgetTypes DEF BudgetInv, PaidHaveRows
    <3>5. RetryBudget'
      BY <2>1, <3>2, BudgetTypes DEF BudgetInv, RetryBudget
    <3>6. RowsCounted'
      BY <2>1, <2>2, <3>1, <3>2, BudgetTypes DEF RowsCounted
    <3> QED
      BY <3>3, <3>4, <3>5, <3>6 DEF BudgetInv
  <2> QED
    BY <2>3, <2>4
<1>4. CASE EvaluateTimeout
  <2>1. /\ selected \in Markets /\ pc' = "reset"
        /\ UNCHANGED <<sent, lost, issued, response, selected>>
        /\ entry[selected].nonce = issued /\ issued \in Nat
        /\ asked' \in {asked, [asked EXCEPT ![selected] = @ \cup {issued}]}
    BY <1>4, BudgetTypes
    DEF EvaluateTimeout, TypeOK, StepTypeOK, BudgetInv, RowsCounted, consensusVars,
        ghostVars
  <2>2. \A m \in Markets : Cardinality(asked'[m]) >= Cardinality(asked[m])
                           /\ Cardinality(asked'[m]) \in Nat
    BY <2>1, BudgetTypes, RowAdded
  <2>3. NoncesIssued'
    BY <2>1, BudgetTypes DEF BudgetInv, NoncesIssued, TypeOK, StoreTypeOK
  <2>4. PaidHaveRows'
    BY <2>1, <2>2, BudgetTypes DEF BudgetInv, PaidHaveRows
  <2>5. RetryBudget'
    BY <2>1 DEF BudgetInv, RetryBudget
  <2> QED
    BY <2>1, <2>3, <2>4, <2>5, BudgetAway DEF BudgetInv
<1> QED
  BY <1>1, <1>2, <1>3, <1>4 DEF EvaluateAnswers

\* MechInteract: the payment the row was for.
LEMMA BudgetMech ==
    ASSUME TypeOK, BudgetInv, MechInteract
    PROVE  BudgetInv'
<1>1. CASE MechPaid
  <2>1. /\ selected \in Markets /\ pc' = "await"
        /\ UNCHANGED <<asked, lost, issued, response>>
        /\ sent' = [sent EXCEPT ![selected] = @ + 1]
        /\ sent[selected] < Cardinality(asked[selected]) + lost[selected]
        /\ sent[selected] + History[selected].asks < MaxRetries + lost[selected]
    BY <1>1
    DEF MechPaid, TypeOK, StepTypeOK, BudgetInv, RowsCounted, kvVars, consensusVars
  <2>2. ASSUME NEW m \in Markets
        PROVE  /\ sent'[m] <= Cardinality(asked[m]) + lost[m]
               /\ sent'[m] > 0 => sent'[m] + History[m].asks <= MaxRetries + lost[m]
    <3>1. CASE m = selected
      <4>1. sent'[m] = sent[m] + 1
        BY <2>1, <3>1 DEF TypeOK, GhostTypeOK
      <4> QED
        BY <2>1, <3>1, <4>1, BudgetTypes
    <3>2. CASE m # selected
      <4>1. sent'[m] = sent[m]
        BY <2>1, <3>2 DEF TypeOK, GhostTypeOK
      <4> QED
        BY <4>1 DEF BudgetInv, PaidHaveRows, RetryBudget
    <3> QED
      BY <3>1, <3>2
  <2>3. PaidHaveRows' /\ RetryBudget'
    BY <2>1, <2>2 DEF PaidHaveRows, RetryBudget
  <2>4. NoncesIssued'
    BY <2>1 DEF BudgetInv, NoncesIssued
  <2> QED
    BY <2>1, <2>3, <2>4, BudgetAway DEF BudgetInv
<1>2. CASE MechNotSent
  <2>1. pc' = "reset" /\ UNCHANGED <<asked, sent, lost, issued, response>>
    BY <1>2 DEF MechNotSent, kvVars, ghostVars, consensusVars
  <2> QED
    BY <2>1, BudgetFrame, BudgetAway DEF BudgetInv
<1>3. CASE MechDelivers
  <2>1. /\ pc' = "build" /\ UNCHANGED <<asked, sent, lost, issued>>
        /\ response'.nonce = issued
    BY <1>3 DEF MechDelivers, kvVars, ghostVars
  <2>2. NoncesIssued'
    BY <2>1 DEF BudgetInv, NoncesIssued, TypeOK, StoreTypeOK
  <2>3. PaidHaveRows' /\ RetryBudget'
    BY <2>1 DEF BudgetInv, PaidHaveRows, RetryBudget
  <2> QED
    BY <2>1, <2>2, <2>3, BudgetAway DEF BudgetInv
<1>4. CASE MechTimeout
  <2>1. pc' = "reset" /\ UNCHANGED <<asked, sent, lost, issued, response>>
    BY <1>4 DEF MechTimeout, kvVars, consensusVars
  <2> QED
    BY <2>1, BudgetFrame, BudgetAway DEF BudgetInv
<1> QED
  BY <1>1, <1>2, <1>3, <1>4 DEF MechInteract

\* BuildAnswerTx may write a row again, and pays the Mech nothing.
LEMMA BudgetBuild ==
    ASSUME TypeOK, BudgetInv, BuildAnswerTx
    PROVE  BudgetInv'
<1>1. ASSUME NEW landed \in BOOLEAN, BuildMatched(landed)
      PROVE  BudgetInv'
  <2>1. /\ selected \in Markets /\ pc' = "judge"
        /\ UNCHANGED <<sent, lost, issued, response>>
        /\ asked' \in {asked, [asked EXCEPT ![selected] = @ \cup {response.nonce}]}
    BY <1>1 DEF BuildMatched, TypeOK, StepTypeOK, consensusVars, ghostVars
  <2>2. response.nonce \in Nat /\ issued \in Nat /\ response.nonce <= issued
    BY <2>1, BudgetTypes DEF BudgetInv, NoncesIssued
  <2>3. \A m \in Markets : Cardinality(asked'[m]) >= Cardinality(asked[m])
                           /\ Cardinality(asked'[m]) \in Nat
    BY <2>1, <2>2, BudgetTypes, RowAdded
  <2>4. NoncesIssued'
    BY <2>1, <2>2 DEF BudgetInv, NoncesIssued, TypeOK, StoreTypeOK
  <2>5. PaidHaveRows'
    BY <2>1, <2>3, BudgetTypes, PaidCovered
  <2>6. RetryBudget'
    BY <2>1 DEF BudgetInv, RetryBudget
  <2> QED
    BY <2>1, <2>4, <2>5, <2>6, BudgetAway DEF BudgetInv
<1>2. ASSUME \/ BuildUnmatched \/ BuildCooldown \/ PreflightAnswer \/ PreflightBond
             \/ BuildNothing \/ BuildTx \/ BuildTimeout
      PROVE  BudgetInv'
  <2>1. /\ pc' \notin {"select", "evaluate", "fired", "request"}
        /\ UNCHANGED <<asked, sent, lost, issued, response>>
    BY <1>2
    DEF BuildUnmatched, BuildCooldown, PreflightAnswer, PreflightBond, BuildNothing,
        BuildTx, BuildTimeout, kvVars, ghostVars, consensusVars
  <2> QED
    BY <2>1, BudgetFrame, BudgetAway DEF BudgetInv
<1> QED
  BY <1>1, <1>2 DEF BuildAnswerTx

\* Settlement, reset, time, other parties; a restart forgets the counts, and
\* is replayed into a step that does not rest on them or forgets the market.
LEMMA BudgetOther ==
    ASSUME TypeOK, BudgetInv,
           \/ SettleLands \/ SettleFails \/ Reset \/ Others \/ Wait \/ Restart
    PROVE  BudgetInv'
<1>1. CASE SettleLands \/ SettleFails \/ Reset
  <2>1. /\ pc' \in {"reset", "scan"} /\ UNCHANGED <<asked, sent, lost, issued>>
        /\ response' = response \/ response'.nonce = 0
    BY <1>1 DEF SettleLands, SettleFails, Reset, kvVars, ghostVars, consensusVars,
                NoResponse
  <2>2. issued \in Nat
    BY DEF TypeOK, StoreTypeOK
  <2> QED
    BY <2>1, <2>2, BudgetFrame, BudgetAway DEF BudgetInv
<1>2. CASE Others \/ Wait
  <2>1. UNCHANGED <<pc, tracked, work, skipped, entry, selected, asked, sent, lost,
                    issued, response>>
    BY <1>2 DEF Others, Wait, memoryVars, kvVars, ghostVars, consensusVars
  <2>2. RowsCounted'
    BY <2>1 DEF BudgetInv, RowsCounted, RowsOf
  <2> QED
    BY <2>1, <2>2, BudgetFrame DEF BudgetInv
<1>3. CASE Restart
  <2>1. /\ pc' \in {"reset", Replayed} /\ tracked' = {}
        /\ UNCHANGED <<selected, asked, sent, lost, issued, response>>
    BY <1>3 DEF Restart, kvVars, ghostVars, consensusVars
  <2>2. Replayed \notin {"select", "fired"} /\ (Replayed = "request" => pc = "request")
    BY DEF Replayed
  <2>3. RowsCounted'
    BY <2>1, <2>2 DEF BudgetInv, RowsCounted
  <2> QED
    BY <2>1, <2>3, BudgetFrame DEF BudgetInv
<1> QED
  BY <1>1, <1>2, <1>3

\* Every step preserves the invariant.
LEMMA BudgetNext == TypeOK /\ BudgetInv /\ [Next]_vars => BudgetInv'
<1> SUFFICES ASSUME TypeOK, BudgetInv, [Next]_vars PROVE BudgetInv'
  OBVIOUS
<1>1. CASE Next
  BY <1>1, BudgetScan, BudgetEvaluate, BudgetMech, BudgetBuild, BudgetOther
  DEF Next, Agent
<1>2. CASE UNCHANGED vars
  BY <1>2 DEF vars, BudgetInv, NoncesIssued, PaidHaveRows, RowsCounted, RetryBudget,
              RowsOf
<1> QED
  BY <1>1, <1>2

\* No market is paid for more often than max_mech_retries allows, requests
\* from before the migration included, plus once per fire-time write that was
\* given up: whatever is forgotten, times out, fails or is restarted.
THEOREM BudgetKept == Spec => []RetryBudget
<1>1. BudgetInv => RetryBudget
  BY DEF BudgetInv
<1> QED
  BY <1>1, BudgetInit, BudgetNext, TypeCorrect, PTL DEF Spec

=============================================================================
