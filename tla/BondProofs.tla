----------------------------- MODULE BondProofs -----------------------------
(***************************************************************************)
(* StakeBounded for every value of the constants.  What the Safe has lost  *)
(* on a market is bounded by its own last bond there, because each bond is *)
(* at least twice the one before; and no transaction exceeds the cap.      *)
(*                                                                         *)
(* ChallengeDisplaces likewise.  Bonds only grow, so a bond names one      *)
(* state of the question: a pair of answer and bond that was once true is  *)
(* either overtaken, and Realitio refuses the transaction, or still true.  *)
(***************************************************************************)
EXTENDS MarketResolutionProofs

\* All the Safe put up on a market is less than twice the bond in place.
StakeBehindBond == \A m \in Markets : staked[m] <= 2 * chain[m].bond

\* A transaction on its way is within the cap.
TxWithinCap == pc = "settle" => tx.bond <= MaxBond

\* The inductive invariant behind StakeBounded.
BondInv == StakeBehindBond /\ TxWithinCap /\ StakeBounded

\* The amounts are numbers.
LEMMA BondTypes ==
    ASSUME TypeOK, NEW m \in Markets
    PROVE  /\ staked[m] \in Nat /\ chain[m].bond \in Nat /\ chain[m] \in Question
           /\ tx.bond \in Nat /\ MaxBond \in Nat
<1>1. staked[m] \in Nat
  BY DEF TypeOK, GhostTypeOK
<1>2. chain[m] \in Question /\ chain[m].bond \in Nat
  BY DEF TypeOK, RealitioTypeOK, Question
<1>3. tx.bond \in Nat
  BY DEF TypeOK, ConsensusTypeOK
<1> QED
  BY <1>1, <1>2, <1>3, EntryAssumption

\* The initial state satisfies it.
LEMMA BondInit == Init => BondInv
<1> SUFFICES ASSUME Init PROVE BondInv
  OBVIOUS
<1>1. \A m \in Markets : staked[m] = 0 /\ chain[m].bond = 0
  BY DEF Init, RealitioInit, Unanswered
<1> QED
  BY <1>1, EntryAssumption
  DEF BondInv, StakeBehindBond, TxWithinCap, StakeBounded, Init

\* Steps that neither answer nor build keep it.
LEMMA BondFrame ==
    ASSUME BondInv, UNCHANGED <<chain, staked>>,
           pc' = "settle" => pc = "settle" /\ tx' = tx
    PROVE  BondInv'
BY DEF BondInv, StakeBehindBond, TxWithinCap, StakeBounded

\* Somebody else's bond is at least twice the one before, too.
LEMMA BondOthers ==
    ASSUME TypeOK, BondInv, Others
    PROVE  BondInv'
<1>1. PICK q \in Markets : OtherAnswers(q) \/ SubgraphIndexes(q)
  BY DEF Others
<1>2. UNCHANGED <<pc, tx, staked>>
  BY DEF Others, consensusVars, ghostVars
<1>3. CASE SubgraphIndexes(q)
  BY <1>2, <1>3, BondFrame DEF SubgraphIndexes
<1>4. CASE OtherAnswers(q)
  <2>1. PICK answer \in Answers, bond \in Bonds, who \in Answerers \ {"us"} :
          /\ Accepts(chain[q], clock, bond, 0)
          /\ chain' = [chain EXCEPT ![q] = Answered(answer, bond, who, clock)]
    BY <1>4 DEF OtherAnswers
  <2>2. bond \in Nat /\ bond >= 2 * chain[q].bond
    BY <2>1, RealitioAssumption DEF Accepts
  <2>3. /\ chain'[q].bond = bond
        /\ \A m \in Markets \ {q} : chain'[m] = chain[m]
    BY <2>1 DEF TypeOK, RealitioTypeOK, Answered
  <2>4. ASSUME NEW m \in Markets
        PROVE  staked'[m] <= 2 * chain'[m].bond
    <3>1. staked[m] <= 2 * chain[m].bond /\ staked' = staked
      BY <1>2 DEF BondInv, StakeBehindBond
    <3>2. CASE m = q
      BY <2>2, <2>3, <3>1, <3>2, BondTypes
    <3>3. CASE m # q
      BY <2>3, <3>1, <3>3
    <3> QED
      BY <3>2, <3>3
  <2> QED
    BY <1>2, <2>4 DEF BondInv, StakeBehindBond, TxWithinCap, StakeBounded
<1> QED
  BY <1>1, <1>3, <1>4

\* The agent's own transaction, which was built within the cap.
LEMMA BondSettles ==
    ASSUME TypeOK, BondInv, SettleLands
    PROVE  BondInv'
<1> DEFINE q == tx.market
<1>1. /\ q \in Markets /\ tx.bond <= MaxBond /\ tx.bond >= 2 * chain[q].bond
      /\ pc' = "reset"
  BY DEF SettleLands, TypeOK, StepTypeOK, BondInv, TxWithinCap, Accepts
<1>2. /\ chain'[q].bond = tx.bond
      /\ \A m \in Markets \ {q} : chain'[m] = chain[m]
  BY <1>1 DEF SettleLands, TypeOK, RealitioTypeOK, Answered
<1>3. /\ staked'[q] = staked[q] + tx.bond
      /\ \A m \in Markets \ {q} : staked'[m] = staked[m]
  BY <1>1 DEF SettleLands, TypeOK, GhostTypeOK
<1>4. ASSUME NEW m \in Markets
      PROVE  staked'[m] <= 2 * chain'[m].bond /\ staked'[m] <= 2 * MaxBond
  <2>1. staked[m] <= 2 * chain[m].bond /\ staked[m] <= 2 * MaxBond
    BY DEF BondInv, StakeBehindBond, StakeBounded
  <2>2. CASE m = q
    BY <1>1, <1>2, <1>3, <2>1, <2>2, BondTypes
  <2>3. CASE m # q
    BY <1>2, <1>3, <2>1, <2>3
  <2> QED
    BY <2>2, <2>3
<1> QED
  BY <1>1, <1>4 DEF BondInv, StakeBehindBond, TxWithinCap, StakeBounded

\* Every step preserves the invariant.
LEMMA BondNext == TypeOK /\ BondInv /\ [Next]_vars => BondInv'
<1> SUFFICES ASSUME TypeOK, BondInv, [Next]_vars PROVE BondInv'
  OBVIOUS
<1>1. CASE Scan
  BY <1>1, BondFrame
  DEF Scan, ScanSync, ScanTimeout, ScanSelect, realitioVars, ghostVars
<1>2. CASE EvaluateAnswers
  <2>1. pc' # "settle" /\ UNCHANGED <<chain, staked>>
    BY <1>2 DEF EvaluateAnswers, Evaluate, EvaluateFire, FireWrite, EvaluateTimeout,
                realitioVars, ghostVars
  <2> QED
    BY <2>1, BondFrame
<1>3. CASE MechInteract
  BY <1>3, BondFrame
  DEF MechInteract, MechPaid, MechNotSent, MechDelivers, MechTimeout, realitioVars,
      ghostVars
<1>4. CASE BuildTx
  <2>1. /\ tx'.bond = RequiredBond(entry[selected].bond)
        /\ WithinCap(RequiredBond(entry[selected].bond))
        /\ UNCHANGED <<chain, staked>>
    BY <1>4 DEF BuildTx, realitioVars, ghostVars
  <2> QED
    BY <2>1 DEF BondInv, StakeBehindBond, TxWithinCap, StakeBounded, WithinCap
<1>5. CASE BuildAnswerTx /\ ~ BuildTx
  <2>1. pc' # "settle" /\ UNCHANGED <<chain, staked>>
    BY <1>5 DEF BuildAnswerTx, BuildMatched, BuildUnmatched, BuildCooldown,
                PreflightAnswer, PreflightBond, BuildNothing, BuildTimeout,
                realitioVars, ghostVars
  <2> QED
    BY <2>1, BondFrame
<1>6. CASE SettleLands
  BY <1>6, BondSettles
<1>7. CASE SettleFails \/ Reset
  BY <1>7, BondFrame DEF SettleFails, Reset, realitioVars, ghostVars
<1>8. CASE Others
  BY <1>8, BondOthers
<1>9. CASE Wait
  BY <1>9, BondFrame DEF Wait, ghostVars, consensusVars
<1>10. CASE Restart
  <2>1. pc' = "settle" => pc = "settle"
    BY <1>10 DEF Restart, Replayed
  <2> QED
    BY <1>10, <2>1, BondFrame DEF Restart, realitioVars, ghostVars, consensusVars
<1>11. CASE UNCHANGED vars
  BY <1>11, BondFrame DEF vars
<1> QED
  BY <1>1, <1>2, <1>3, <1>4, <1>5, <1>6, <1>7, <1>8, <1>9, <1>10, <1>11
  DEF Next, Agent

\* Whatever anybody answers, the Safe never puts up more than twice
\* max_challenge_bond on one market.
THEOREM StakeKept == Spec => []StakeBounded
<1>1. BondInv => StakeBounded
  BY DEF BondInv
<1> QED
  BY <1>1, BondInit, BondNext, TypeCorrect, PTL DEF Spec

-----------------------------------------------------------------------------
(* ChallengeDisplaces *)

\* The answer and the bond belong together: the question has shown them.
Shown(answer, bond, m) ==
    /\ bond <= chain[m].bond
    /\ bond = chain[m].bond => answer = chain[m].answer

\* The steps at which the selected entry still holds what the scan put there.
AfterScan == {"evaluate", "fired", "request", "await", "build", "judge", "readBond"}

\* The inductive invariant: where answer and bond come from, until they are in
\* a transaction that is refused once the question has moved on.
ShownInv ==
    /\ \A m \in Markets : /\ chain[m].answer = None <=> chain[m].bond = 0
                          /\ Shown(indexed[m].answer, indexed[m].bond, m)
    /\ pc = "select" =>
          \A m \in work : Shown(entry[m].answer, entry[m].bond, m)
    /\ pc \in AfterScan \/ (pc = "decide" /\ ~ torn) =>
          Shown(entry[selected].answer, entry[selected].bond, selected)
    /\ pc = "readBond" =>
          /\ fresh.bond <= chain[selected].bond
          /\ fresh.bond = chain[selected].bond =>
                fresh.answer = IF chain[selected].answer = None THEN ZeroAnswer
                               ELSE chain[selected].answer
    /\ pc = "settle" /\ tx.maxPrevious > 0 /\ ~ torn =>
          /\ tx.maxPrevious <= chain[tx.market].bond
          /\ tx.maxPrevious = chain[tx.market].bond =>
                chain[tx.market].answer # tx.answer

\* The question of each market stays as it is, or gets a higher bond.
ChainGrows ==
    \A m \in Markets :
        \/ chain'[m] = chain[m]
        \/ chain'[m].bond > chain[m].bond /\ chain'[m].answer # None

\* The bonds are numbers.
LEMMA ShownTypes ==
    ASSUME TypeOK, NEW m \in Markets
    PROVE  /\ chain[m].bond \in Nat /\ indexed[m].bond \in Nat /\ entry[m].bond \in Nat
           /\ fresh.bond \in Nat /\ tx.maxPrevious \in Nat /\ entry[m] \in Entry
<1>1. chain[m] \in Question /\ indexed[m] \in Question
  BY DEF TypeOK, RealitioTypeOK
<1>2. entry[m] \in Entry
  BY DEF TypeOK, MemoryTypeOK
<1>3. fresh.bond \in Nat /\ tx.maxPrevious \in Nat
  BY DEF TypeOK, ConsensusTypeOK
<1> QED
  BY <1>1, <1>2, <1>3 DEF Question, Entry

\* No step lowers a bond or replaces an answer without raising it, and the
\* subgraph only serves what the chain has or had.
LEMMA ChainSteps ==
    ASSUME TypeOK, [Next]_vars
    PROVE  /\ ChainGrows
           /\ \A m \in Markets : indexed'[m] = indexed[m] \/ indexed'[m] = chain'[m]
<1>1. CASE SettleLands
  <2>1. /\ tx.market \in Markets /\ indexed' = indexed
        /\ tx.answer \in Answers /\ tx.bond \in Nat /\ tx.bond > 0
        /\ tx.bond >= 2 * chain[tx.market].bond
        /\ chain' = [chain EXCEPT ![tx.market] =
                       Answered(tx.answer, tx.bond, "us", clock)]
    BY <1>1 DEF SettleLands, TypeOK, StepTypeOK, ConsensusTypeOK, Accepts
  <2>2. /\ chain'[tx.market].bond = tx.bond /\ chain'[tx.market].answer = tx.answer
        /\ \A m \in Markets \ {tx.market} : chain'[m] = chain[m]
    BY <2>1 DEF TypeOK, RealitioTypeOK, Answered
  <2>3. chain[tx.market].bond \in Nat
    BY <2>1, ShownTypes
  <2>4. tx.bond > chain[tx.market].bond
    BY <2>1, <2>3
  <2> QED
    BY <2>1, <2>2, <2>4, RealitioAssumption DEF ChainGrows
<1>2. CASE Others
  <2> PICK q \in Markets : OtherAnswers(q) \/ SubgraphIndexes(q)
    BY <1>2 DEF Others
  <2>1. CASE SubgraphIndexes(q)
    BY <2>1 DEF SubgraphIndexes, ChainGrows, TypeOK, RealitioTypeOK
  <2>2. CASE OtherAnswers(q)
    <3>1. PICK answer \in Answers, bond \in Bonds, who \in Answerers \ {"us"} :
            /\ Accepts(chain[q], clock, bond, 0)
            /\ chain' = [chain EXCEPT ![q] = Answered(answer, bond, who, clock)]
      BY <2>2 DEF OtherAnswers
    <3>2. /\ chain'[q].bond = bond /\ chain'[q].answer = answer
          /\ \A m \in Markets \ {q} : chain'[m] = chain[m]
      BY <3>1 DEF TypeOK, RealitioTypeOK, Answered
    <3>3. bond \in Nat /\ bond > 0 /\ bond >= 2 * chain[q].bond /\ chain[q].bond \in Nat
      BY <3>1, RealitioAssumption, ShownTypes DEF Accepts
    <3>4. bond > chain[q].bond /\ answer # None
      BY <3>3, RealitioAssumption
    <3> QED
      BY <2>2, <3>2, <3>4 DEF ChainGrows, OtherAnswers
  <2> QED
    BY <2>1, <2>2
<1>3. CASE ~ SettleLands /\ ~ Others
  <2>1. UNCHANGED <<chain, indexed>>
    BY <1>3
    DEF Next, vars, Agent, Scan, ScanSync, ScanTimeout, ScanSelect, EvaluateAnswers,
        Evaluate, EvaluateFire, FireWrite, EvaluateTimeout, MechInteract, MechPaid,
        MechNotSent, MechDelivers, MechTimeout, BuildAnswerTx, BuildMatched,
        BuildUnmatched, BuildCooldown, PreflightAnswer, PreflightBond, BuildNothing,
        BuildTx, BuildTimeout, SettleFails, Reset, Wait, Restart, realitioVars
  <2> QED
    BY <2>1 DEF ChainGrows
<1> QED
  BY <1>1, <1>2, <1>3

\* What was shown stays shown.
LEMMA ShownStays ==
    ASSUME TypeOK, TypeOK', ChainGrows, NEW m \in Markets, NEW a, NEW b \in Nat,
           Shown(a, b, m)
    PROVE  Shown(a, b, m)'
<1>1. chain[m].bond \in Nat /\ chain'[m].bond \in Nat
  BY ShownTypes DEF TypeOK, RealitioTypeOK, Question
<1> QED
  BY <1>1 DEF Shown, ChainGrows

\* So does the first part of the invariant, whatever is answered.
LEMMA ChainShown ==
    ASSUME TypeOK, TypeOK', ShownInv, ChainGrows,
           \A m \in Markets : indexed'[m] = indexed[m] \/ indexed'[m] = chain'[m]
    PROVE  \A m \in Markets : /\ chain'[m].answer = None <=> chain'[m].bond = 0
                              /\ Shown(indexed[m].answer, indexed[m].bond, m)'
<1> TAKE m \in Markets
<1>1. chain[m].bond \in Nat /\ chain'[m].bond \in Nat /\ indexed[m].bond \in Nat
  BY ShownTypes DEF TypeOK, RealitioTypeOK, Question
<1>a. /\ chain[m].answer = None <=> chain[m].bond = 0
      /\ Shown(indexed[m].answer, indexed[m].bond, m)
  BY DEF ShownInv
<1>b. chain'[m] = chain[m] \/ (chain'[m].bond > chain[m].bond /\ chain'[m].answer # None)
  BY DEF ChainGrows
<1>2. chain'[m].answer = None <=> chain'[m].bond = 0
  <2>1. CASE chain'[m] = chain[m]
    BY <1>a, <2>1
  <2>2. CASE chain'[m].bond > chain[m].bond /\ chain'[m].answer # None
    BY <1>1, <2>2
  <2> QED
    BY <1>b, <2>1, <2>2
<1>3. CASE indexed'[m] = indexed[m]
  BY <1>1, <1>a, <1>b, <1>3 DEF Shown
<1>4. CASE indexed'[m] = chain'[m]
  BY <1>1, <1>2, <1>4 DEF Shown
<1> QED
  BY <1>2, <1>3, <1>4

\* A fresh entry has seen an unanswered question.
LEMMA NewEntryShown ==
    ASSUME TypeOK, ShownInv, NEW m \in Markets
    PROVE  Shown(NewEntry.answer, NewEntry.bond, m)
BY ShownTypes DEF ShownInv, Shown, NewEntry

\* What the scan writes into an entry is what the subgraph has indexed.
LEMMA SyncedShows ==
    ASSUME TypeOK, NEW m \in Markets, NEW answerer \in Answerers \cup {"nobody"},
           NEW unread \in BOOLEAN, NEW found \in Answers \cup {None}
    PROVE  /\ SyncedEntry(m, answerer, unread, found).answer = indexed[m].answer
           /\ SyncedEntry(m, answerer, unread, found).bond = indexed[m].bond
<1> DEFINE u == Upserted(entry[m], indexed[m], answerer)
<1>1. u \in Entry
  BY UpsertedType DEF TypeOK, MemoryTypeOK, RealitioTypeOK
<1>2. u.answer = indexed[m].answer /\ u.bond = indexed[m].bond
  BY DEF Upserted, TypeOK, MemoryTypeOK, Entry
<1> HIDE DEF u
<1>3. /\ UndetDropped(u).answer = u.answer /\ UndetDropped(u).bond = u.bond
      /\ Refreshed(u, found, RowsOf(m)).answer = u.answer
      /\ Refreshed(u, found, RowsOf(m)).bond = u.bond
  BY <1>1 DEF UndetDropped, Refreshed, Entry
<1> QED
  BY <1>2, <1>3 DEF SyncedEntry, u

\* The initial state satisfies it.
LEMMA ShownInit == Init => ShownInv
<1> SUFFICES ASSUME Init PROVE ShownInv
  OBVIOUS
<1>1. \A m \in Markets : /\ chain[m].answer = None /\ chain[m].bond = 0
                         /\ indexed[m].answer = None /\ indexed[m].bond = 0
  BY DEF Init, RealitioInit, Unanswered
<1>2. pc = "scan"
  BY DEF Init
<1> QED
  BY <1>1, <1>2 DEF ShownInv, Shown, AfterScan

\* Steps after which the entries do not matter.
LEMMA ShownAway ==
    ASSUME ShownInv, UNCHANGED <<chain, indexed>>, pc' \in {"scan", "reset"}
    PROVE  ShownInv'
BY DEF ShownInv, Shown, AfterScan

\* Steps that leave the on-chain half of the selected entry alone.
LEMMA ShownOn ==
    ASSUME ShownInv, UNCHANGED <<chain, indexed, selected>>,
           pc \in AfterScan, pc' \in AfterScan \ {"readBond"},
           /\ entry'[selected].answer = entry[selected].answer
           /\ entry'[selected].bond = entry[selected].bond
    PROVE  ShownInv'
BY DEF ShownInv, Shown, AfterScan

\* The scan.
LEMMA ShownScan ==
    ASSUME TypeOK, ShownInv, Scan
    PROVE  ShownInv'
<1>a. UNCHANGED <<chain, indexed>>
  BY DEF Scan, ScanSync, ScanTimeout, ScanSelect, realitioVars
<1>1. CASE ScanSync
  <2>1. PICK fetched \in SUBSET Markets, cost \in {0, 1} :
          \E silent \in SUBSET fetched, ahead \in SUBSET fetched,
             unread \in SUBSET fetched, pick \in [Markets -> Answers \cup {None}] :
                ScanSyncs(fetched, cost, silent, ahead, unread, pick)
    BY <1>1, ScanSyncInputs
  <2>2. PICK silent \in SUBSET fetched, ahead \in SUBSET fetched,
             unread \in SUBSET fetched, pick \in [Markets -> Answers \cup {None}] :
                ScanSyncs(fetched, cost, silent, ahead, unread, pick)
    BY <2>1
  <2>3. /\ work' = fetched /\ pc' = "select"
        /\ entry' = [m \in Markets |->
              IF m \in fetched
              THEN SyncedEntry(m, AnswererSeen(m, silent, ahead), m \in unread, pick[m])
              ELSE entry[m]]
    BY <1>1, <2>2 DEF ScanSync, ScanSyncs
  <2>4. ASSUME NEW m \in fetched
        PROVE  Shown(entry[m].answer, entry[m].bond, m)'
    <3>1. m \in Markets /\ (m \in unread) \in BOOLEAN /\ pick[m] \in Answers \cup {None}
      OBVIOUS
    <3>2. entry'[m] = SyncedEntry(m, AnswererSeen(m, silent, ahead), m \in unread, pick[m])
      BY <2>3, <3>1
    <3>3. entry'[m].answer = indexed[m].answer /\ entry'[m].bond = indexed[m].bond
      <4>1. AnswererSeen(m, silent, ahead) \in Answerers \cup {"nobody"}
        BY <3>1, AnswererType
      <4>2. /\ SyncedEntry(m, AnswererSeen(m, silent, ahead), m \in unread, pick[m]).answer
                 = indexed[m].answer
            /\ SyncedEntry(m, AnswererSeen(m, silent, ahead), m \in unread, pick[m]).bond
                 = indexed[m].bond
        <5> DEFINE who == AnswererSeen(m, silent, ahead)
                   u == m \in unread
        <5>1. who \in Answerers \cup {"nobody"} /\ u \in BOOLEAN
          BY <4>1
        <5> HIDE DEF who, u
        <5>2. /\ SyncedEntry(m, who, u, pick[m]).answer = indexed[m].answer
              /\ SyncedEntry(m, who, u, pick[m]).bond = indexed[m].bond
          BY <3>1, <5>1, SyncedShows
        <5> QED
          BY <5>2 DEF who, u
      <4> QED
        BY <3>2, <4>2
    <3> QED
      BY <1>a, <3>1, <3>3 DEF ShownInv, Shown
  <2> QED
    BY <1>a, <2>3, <2>4 DEF ShownInv, Shown, AfterScan
<1>2. CASE ScanTimeout
  <2>1. pc' = "scan"
    BY <1>2 DEF ScanTimeout
  <2> QED
    BY <1>a, <2>1, ShownAway
<1>3. CASE ScanSelect
  <2>1. CASE pc' = "reset"
    BY <1>a, <2>1, ShownAway
  <2>2. CASE pc' = "evaluate"
    <3>1. selected' \in work /\ entry' = Kept(work) /\ pc = "select"
      BY <1>3, <2>2 DEF ScanSelect, First
    <3>2. selected' \in Markets
      BY <3>1 DEF TypeOK, MemoryTypeOK
    <3>3. entry'[selected'] = entry[selected']
      BY <3>1, <3>2, KeptType
    <3> QED
      BY <1>a, <2>2, <3>1, <3>3 DEF ShownInv, Shown, AfterScan
  <2> QED
    BY <1>3, <2>1, <2>2 DEF ScanSelect
<1> QED
  BY <1>1, <1>2, <1>3 DEF Scan

\* EvaluateAnswers and MechInteract.
LEMMA ShownAsking ==
    ASSUME TypeOK, ShownInv, EvaluateAnswers \/ MechInteract
    PROVE  ShownInv'
<1>a. UNCHANGED <<chain, indexed, selected>> /\ pc \in AfterScan \ {"readBond"}
  BY DEF EvaluateAnswers, Evaluate, EvaluateFire, FireWrite, EvaluateTimeout,
         MechInteract, MechPaid, MechNotSent, MechDelivers, MechTimeout, realitioVars,
         consensusVars, AfterScan
<1>b. selected \in Markets /\ entry[selected] \in Entry /\ entry \in [Markets -> Entry]
  BY <1>a DEF AfterScan, TypeOK, StepTypeOK, MemoryTypeOK
<1>1. CASE EvaluateFire
  <2>1. /\ pc' = "fired"
        /\ entry' = [entry EXCEPT ![selected] =
                       [entry[selected] EXCEPT !.retries = @ + 1, !.nonce = issued + 1]]
    BY <1>1 DEF EvaluateFire, WithEntry
  <2>2. /\ entry'[selected].answer = entry[selected].answer
        /\ entry'[selected].bond = entry[selected].bond
    BY <1>b, <2>1 DEF Entry
  <2> QED
    BY <1>a, <2>1, <2>2, ShownOn DEF AfterScan
<1>2. CASE ~ EvaluateFire
  <2>1. entry' = entry
    BY <1>2 DEF EvaluateAnswers, Evaluate, FireWrite, EvaluateTimeout, MechInteract,
                MechPaid, MechNotSent, MechDelivers, MechTimeout, memoryVars
  <2>2. pc' \in (AfterScan \ {"readBond"}) \cup {"reset"}
    BY DEF EvaluateAnswers, Evaluate, EvaluateFire, FireWrite, EvaluateTimeout,
           MechInteract, MechPaid, MechNotSent, MechDelivers, MechTimeout, AfterScan
  <2> QED
    BY <1>a, <2>1, <2>2, ShownOn, ShownAway
<1> QED
  BY <1>1, <1>2

\* BuildAnswerTx reads the question, and builds the transaction.
LEMMA ShownBuild ==
    ASSUME TypeOK, ShownInv, BuildAnswerTx
    PROVE  ShownInv'
<1>a. UNCHANGED <<chain, indexed, selected>>
      /\ pc \in {"build", "judge", "readBond", "decide"}
  BY DEF BuildAnswerTx, BuildMatched, BuildUnmatched, BuildCooldown, PreflightAnswer,
         PreflightBond, BuildNothing, BuildTx, BuildTimeout, realitioVars, consensusVars
<1>b. selected \in Markets /\ entry[selected] \in Entry /\ entry \in [Markets -> Entry]
  BY <1>a DEF TypeOK, StepTypeOK, MemoryTypeOK
<1>c. chain[selected].bond \in Nat /\ fresh.bond \in Nat /\ entry[selected].bond \in Nat
  BY <1>b, ShownTypes
<1>1. ASSUME NEW landed \in BOOLEAN, BuildMatched(landed)
      PROVE  ShownInv'
  <2>1. pc = "build" /\ pc' = "judge"
    BY <1>1 DEF BuildMatched
  <2>2. PICK v : entry' = [entry EXCEPT ![selected] =
                             [entry[selected] EXCEPT !.evaluation = v]]
    BY <1>1 DEF BuildMatched, WithEntry
  <2>3. /\ entry'[selected].answer = entry[selected].answer
        /\ entry'[selected].bond = entry[selected].bond
    BY <1>b, <2>2 DEF Entry
  <2> QED
    BY <1>a, <2>1, <2>3, ShownOn DEF AfterScan
<1>2. CASE BuildUnmatched \/ BuildCooldown \/ BuildNothing \/ BuildTimeout
  <2>1. CASE pc' = "reset"
    BY <1>a, <2>1, ShownAway
  <2>2. CASE pc' # "reset"
    <3>1. pc = "build" /\ pc' = "judge" /\ entry' = entry
      BY <1>2, <2>2 DEF BuildUnmatched, BuildCooldown, BuildNothing, BuildTimeout,
                        memoryVars
    <3> QED
      BY <1>a, <3>1, ShownOn DEF AfterScan
  <2> QED
    BY <2>1, <2>2
<1>3. CASE PreflightAnswer
  <2>1. /\ pc = "judge" /\ entry' = entry
        /\ \/ /\ pc' = "readBond"
              /\ fresh'.bond = chain[selected].bond
              /\ fresh'.answer = IF chain[selected].answer = None THEN ZeroAnswer
                                 ELSE chain[selected].answer
           \/ pc' = "decide"
    BY <1>3 DEF PreflightAnswer, memoryVars
  <2> QED
    BY <1>a, <1>c, <2>1 DEF ShownInv, Shown, AfterScan
<1>4. CASE PreflightBond
  <2>1. pc = "readBond" /\ pc' = "decide"
    BY <1>4 DEF PreflightBond
  <2>2. CASE entry' = entry
    BY <1>a, <2>1, <2>2 DEF ShownInv, Shown, AfterScan
  <2>3. CASE entry' # entry
    <3>1. /\ torn' = (chain[selected].bond # fresh.bond)
          /\ entry' = [entry EXCEPT ![selected] =
               [entry[selected] EXCEPT
                  !.answer = Decoded(fresh.answer, chain[selected].bond, ZeroAnswer),
                  !.bond = chain[selected].bond]]
      BY <1>4, <2>3 DEF PreflightBond, WithEntry
    <3>2. /\ entry'[selected].answer =
                Decoded(fresh.answer, chain[selected].bond, ZeroAnswer)
          /\ entry'[selected].bond = chain[selected].bond
      BY <1>b, <3>1 DEF Entry
    <3>3. /\ chain[selected].answer = None <=> chain[selected].bond = 0
          /\ fresh.bond = chain[selected].bond =>
                fresh.answer = IF chain[selected].answer = None THEN ZeroAnswer
                               ELSE chain[selected].answer
      BY <1>b, <2>1 DEF ShownInv
    <3>4. ~ torn' => entry'[selected].answer = chain[selected].answer
      BY <3>1, <3>2, <3>3 DEF Decoded
    <3>5. ~ torn' => Shown(entry[selected].answer, entry[selected].bond, selected)'
      BY <1>a, <1>c, <3>2, <3>4 DEF Shown
    <3> QED
      BY <1>a, <2>1, <3>5 DEF ShownInv, Shown, AfterScan
  <2> QED
    BY <2>2, <2>3
<1>5. CASE BuildTx
  <2>1. /\ pc = "decide" /\ pc' = "settle" /\ torn' = torn
        /\ tx'.market = selected /\ tx'.answer = entry[selected].evaluation
        /\ tx'.maxPrevious = entry[selected].bond
        /\ ~ Agrees(entry[selected].answer, entry[selected].evaluation)
    BY <1>5 DEF BuildTx, MaxPrevious, readVars
  <2>2. entry[selected].evaluation \in Answers
    BY <2>1 DEF TypeOK, StepTypeOK
  <2>3. entry[selected].answer # entry[selected].evaluation
    BY <2>1, <2>2, RealitioAssumption DEF Agrees
  <2>4. ~ torn => Shown(entry[selected].answer, entry[selected].bond, selected)
    BY <2>1 DEF ShownInv
  <2>5. ~ torn => /\ tx'.maxPrevious <= chain[tx'.market].bond
                  /\ tx'.maxPrevious = chain[tx'.market].bond =>
                        chain[tx'.market].answer # tx'.answer
    BY <2>1, <2>3, <2>4 DEF Shown
  <2> QED
    BY <1>a, <2>1, <2>5 DEF ShownInv, Shown, AfterScan
<1> QED
  BY <1>1, <1>2, <1>3, <1>4, <1>5 DEF BuildAnswerTx

\* The agent's own transaction lands.
LEMMA ShownSettles ==
    ASSUME TypeOK, TypeOK', ShownInv, SettleLands
    PROVE  ShownInv'
<1>1. /\ tx.market \in Markets /\ pc' = "reset" /\ indexed' = indexed
  BY DEF SettleLands, TypeOK, StepTypeOK
<1>2. ChainGrows
  BY ChainSteps DEF Next, Agent
<1>3. \A m \in Markets : /\ chain'[m].answer = None <=> chain'[m].bond = 0
                         /\ Shown(indexed[m].answer, indexed[m].bond, m)'
  BY <1>1, <1>2, ChainShown
<1> QED
  BY <1>1, <1>3 DEF ShownInv, AfterScan

\* Somebody else answers, or the subgraph catches up.
LEMMA ShownOthers ==
    ASSUME TypeOK, TypeOK', ShownInv, Others
    PROVE  ShownInv'
<1>1. PICK q \in Markets : OtherAnswers(q) \/ SubgraphIndexes(q)
  BY DEF Others
<1>2. UNCHANGED <<pc, work, entry, selected, tx, fresh, torn>>
  BY DEF Others, memoryVars, consensusVars, readVars
<1>3. ChainGrows /\ \A m \in Markets : indexed'[m] = indexed[m] \/ indexed'[m] = chain'[m]
  BY ChainSteps DEF Next
<1>4. \A m \in Markets : /\ chain'[m].answer = None <=> chain'[m].bond = 0
                         /\ Shown(indexed[m].answer, indexed[m].bond, m)'
  BY <1>3, ChainShown
<1>5. ASSUME NEW m \in Markets, Shown(entry[m].answer, entry[m].bond, m)
      PROVE  Shown(entry[m].answer, entry[m].bond, m)'
  <2>1. entry[m].bond \in Nat
    BY ShownTypes
  <2>2. Shown(entry[m].answer, entry[m].bond, m) /\ chain[m].bond \in Nat
        /\ chain'[m].bond \in Nat
    BY <1>5, ShownTypes DEF TypeOK, RealitioTypeOK, Question
  <2>3. chain'[m] = chain[m] \/ chain'[m].bond > chain[m].bond
    BY <1>3 DEF ChainGrows
  <2> QED
    BY <1>2, <2>1, <2>2, <2>3 DEF Shown
<1>6. pc' = "select" =>
          \A m \in work' : Shown(entry[m].answer, entry[m].bond, m)'
  BY <1>2, <1>5 DEF ShownInv, TypeOK, MemoryTypeOK
<1>7. pc' \in AfterScan \/ (pc' = "decide" /\ ~ torn') =>
          Shown(entry[selected].answer, entry[selected].bond, selected)'
  <2>1. pc \in AfterScan \cup {"decide"} => selected \in Markets
    BY DEF AfterScan, TypeOK, StepTypeOK
  <2> QED
    BY <1>2, <1>5, <2>1 DEF ShownInv
<1>8. pc' = "readBond" =>
        /\ fresh'.bond <= chain'[selected'].bond
        /\ fresh'.bond = chain'[selected'].bond =>
              fresh'.answer = IF chain'[selected'].answer = None THEN ZeroAnswer
                              ELSE chain'[selected'].answer
  <2> SUFFICES ASSUME pc = "readBond" PROVE
        /\ fresh.bond <= chain'[selected].bond
        /\ fresh.bond = chain'[selected].bond =>
              fresh.answer = IF chain'[selected].answer = None THEN ZeroAnswer
                             ELSE chain'[selected].answer
    BY <1>2
  <2>1. selected \in Markets
    BY DEF TypeOK, StepTypeOK
  <2>2. fresh.bond \in Nat /\ chain[selected].bond \in Nat /\ chain'[selected].bond \in Nat
    BY <2>1, ShownTypes DEF TypeOK, RealitioTypeOK, Question
  <2>3. chain'[selected] = chain[selected] \/ chain'[selected].bond > chain[selected].bond
    BY <1>3, <2>1 DEF ChainGrows
  <2> QED
    BY <2>2, <2>3 DEF ShownInv
<1>9. pc' = "settle" /\ tx'.maxPrevious > 0 /\ ~ torn' =>
        /\ tx'.maxPrevious <= chain'[tx'.market].bond
        /\ tx'.maxPrevious = chain'[tx'.market].bond =>
              chain'[tx'.market].answer # tx'.answer
  <2> SUFFICES ASSUME pc = "settle", tx.maxPrevious > 0, ~ torn PROVE
        /\ tx.maxPrevious <= chain'[tx.market].bond
        /\ tx.maxPrevious = chain'[tx.market].bond =>
              chain'[tx.market].answer # tx.answer
    BY <1>2
  <2>1. tx.market \in Markets
    BY DEF TypeOK, StepTypeOK
  <2>2. tx.maxPrevious \in Nat /\ chain[tx.market].bond \in Nat
        /\ chain'[tx.market].bond \in Nat
    BY <2>1, ShownTypes DEF TypeOK, RealitioTypeOK, Question
  <2>3. \/ chain'[tx.market] = chain[tx.market]
        \/ chain'[tx.market].bond > chain[tx.market].bond
    BY <1>3, <2>1 DEF ChainGrows
  <2> QED
    BY <2>2, <2>3 DEF ShownInv
<1> QED
  BY <1>4, <1>6, <1>7, <1>8, <1>9 DEF ShownInv

\* A restart forgets the entries; a transaction under way is settled.
LEMMA ShownRestart ==
    ASSUME TypeOK, ShownInv, Restart
    PROVE  ShownInv'
<1>1. /\ pc' \in {"reset", Replayed} /\ entry' = [m \in Markets |-> NewEntry]
      /\ UNCHANGED <<chain, indexed, selected, tx, fresh, torn>>
  BY DEF Restart, realitioVars, consensusVars, readVars
<1>2. /\ Replayed \notin {"select", "readBond", "decide"}
      /\ Replayed = "settle" => pc = "settle"
      /\ Replayed \in AfterScan => pc \notin {"scan", "select", "reset"}
  BY DEF Replayed, AfterScan
<1>3. pc' \in AfterScan => selected \in Markets
  BY <1>1, <1>2 DEF TypeOK, StepTypeOK, AfterScan
<1>4. pc' \in AfterScan => Shown(entry[selected].answer, entry[selected].bond, selected)'
  BY <1>1, <1>3, NewEntryShown DEF Shown
<1> QED
  BY <1>1, <1>2, <1>4 DEF ShownInv, Shown, AfterScan

\* Every step preserves the invariant.
LEMMA ShownNext == TypeOK /\ ShownInv /\ [Next]_vars => ShownInv'
<1> SUFFICES ASSUME TypeOK, ShownInv, [Next]_vars PROVE ShownInv'
  OBVIOUS
<1>a. TypeOK'
  BY NextType
<1>1. CASE Scan \/ EvaluateAnswers \/ MechInteract \/ BuildAnswerTx
  BY <1>1, ShownScan, ShownAsking, ShownBuild
<1>2. CASE SettleLands \/ Others \/ Restart
  BY <1>a, <1>2, ShownSettles, ShownOthers, ShownRestart
<1>3. CASE SettleFails \/ Reset
  BY <1>3, ShownAway DEF SettleFails, Reset, realitioVars
<1>4. CASE Wait \/ UNCHANGED vars
  <2>1. UNCHANGED <<chain, indexed, pc, work, entry, selected, tx, fresh, torn>>
    BY <1>4 DEF Wait, vars, memoryVars, consensusVars, readVars
  <2> QED
    BY <2>1 DEF ShownInv, Shown
<1> QED
  BY <1>1, <1>2, <1>3, <1>4 DEF Next, Agent

\* Only SettleLands raises a bond of the Safe, and Realitio accepts it only
\* while the bond is the one the transaction was built for.
LEMMA ChallengeStep ==
    TypeOK /\ ShownInv /\ [Next]_vars =>
        \A m \in Markets :
            staked'[m] > staked[m] /\ tx.maxPrevious > 0 /\ ~ torn
                => chain[m].answer # tx.answer
<1> SUFFICES ASSUME TypeOK, ShownInv, [Next]_vars, NEW m \in Markets,
                    staked'[m] > staked[m], tx.maxPrevious > 0, ~ torn
             PROVE  chain[m].answer # tx.answer
  OBVIOUS
<1>1. staked[m] \in Nat /\ staked \in [Markets -> Nat]
  BY DEF TypeOK, GhostTypeOK
<1>2. staked' # staked
  BY <1>1
<1>3. SettleLands
  BY <1>2
  DEF Next, vars, Agent, Scan, ScanSync, ScanTimeout, ScanSelect, EvaluateAnswers,
      Evaluate, EvaluateFire, FireWrite, EvaluateTimeout, MechInteract, MechPaid,
      MechNotSent, MechDelivers, MechTimeout, BuildAnswerTx, BuildMatched,
      BuildUnmatched, BuildCooldown, PreflightAnswer, PreflightBond, BuildNothing,
      BuildTx, BuildTimeout, SettleFails, Reset, Others, Wait, Restart, ghostVars
<1>4. m = tx.market
  BY <1>1, <1>3 DEF SettleLands
<1>5. tx.maxPrevious <= chain[m].bond /\ chain[m].bond <= tx.maxPrevious
  BY <1>3, <1>4 DEF SettleLands, Accepts, ShownInv
<1>6. tx.maxPrevious = chain[m].bond
  BY <1>5, ShownTypes
<1> QED
  BY <1>3, <1>4, <1>6 DEF SettleLands, ShownInv

\* The invariant holds in every state.
LEMMA ShownInvariant == Spec => [](TypeOK /\ ShownInv)
<1> QED
  BY ShownInit, ShownNext, TypeCorrect, PTL DEF Spec

\* build_answer_tx.py:227-234: whenever it has read one state of the chain, a
\* challenge of the Safe displaces another answer than its own.
THEOREM ChallengesDisplace == Spec => ChallengeDisplaces
<1> QED
  BY ChallengeStep, ShownInvariant, PTL DEF Spec, ChallengeDisplaces

=============================================================================
