----------------------- MODULE MarketResolutionProofs -----------------------
(***************************************************************************)
(* Theorems about MarketResolution for every value of its constants.       *)
(***************************************************************************)
EXTENDS ResolutionProperties, FiniteSetTheorems, WellFoundedInduction, TLAPS

-----------------------------------------------------------------------------
(* The operators on entries keep an entry an entry. *)

\* A fresh entry is an entry.
LEMMA NewEntryType == NewEntry \in Entry
BY DEF NewEntry, Entry

\* Step 4 of the scan keeps the type.
LEMMA UpsertedType ==
    ASSUME NEW e \in Entry, NEW row \in Question,
           NEW answerer \in Answerers \cup {"nobody"}
    PROVE  Upserted(e, row, answerer) \in Entry
BY DEF Upserted, Entry, Question

\* Steps 5 and 6 of the scan keep the type and leave no undeterminable
\* evaluation; the count is at least the number of rows, and an entry left
\* without an evaluation found none in the cache.
LEMMA RefreshedType ==
    ASSUME NEW e \in Entry, NEW found \in Answers \cup {None}, NEW rows \in Nat
    PROVE  /\ Refreshed(e, found, rows) \in Entry
           /\ Refreshed(e, found, rows).evaluation \in Answers \cup {None}
           /\ Refreshed(e, found, rows).retries >= rows
           /\ e.evaluation # Undet /\ Refreshed(e, found, rows).evaluation = None
                  => found = None
<1> DEFINE v == IF e.evaluation = None THEN found ELSE e.evaluation
           w == IF v = Undet THEN None ELSE v
           n == RetriesSeen(e.retries, rows)
<1>1. n \in Nat /\ n >= rows
  BY DEF RetriesSeen, Entry
<1>2. w \in Answers \cup {None}
  BY DEF Entry
<1>3. e.evaluation # Undet /\ w = None => found = None
  BY EntryAssumption
<1>4. Refreshed(e, found, rows) = [e EXCEPT !.evaluation = w, !.retries = n]
  BY DEF Refreshed
<1> HIDE DEF v, w, n
<1>5. [e EXCEPT !.evaluation = w, !.retries = n] \in Entry
  BY <1>1, <1>2 DEF Entry
<1>6. /\ [e EXCEPT !.evaluation = w, !.retries = n].evaluation = w
      /\ [e EXCEPT !.evaluation = w, !.retries = n].retries = n
  BY DEF Entry
<1> QED
  BY <1>1, <1>2, <1>3, <1>4, <1>5, <1>6

\* Step 6 alone does the same without the cache.
LEMMA UndetDroppedType ==
    ASSUME NEW e \in Entry
    PROVE  /\ UndetDropped(e) \in Entry
           /\ UndetDropped(e).evaluation \in Answers \cup {None}
BY EntryAssumption DEF UndetDropped, Entry

\* The bonds the skill computes are bonds.
LEMMA BondType ==
    ASSUME NEW bond \in Nat
    PROVE  RequiredBond(bond) \in Nat /\ RequiredBond(bond) > 0
           /\ MaxPrevious(bond) \in Nat /\ RequiredBond(bond) >= 2 * bond
BY EntryAssumption DEF RequiredBond, MaxPrevious

\* retry_after is a time.
LEMMA CooldownType ==
    ASSUME NEW e \in Entry, NEW now \in Nat
    PROVE  AfterUndetermined(e, now) \in Int
BY EntryAssumption, RealitioAssumption DEF AfterUndetermined, Deadline, Entry

\* The updates of an entry the skill makes keep it an entry.
LEMMA FiredEntry ==
    ASSUME NEW e \in Entry, NEW k \in Nat, NEW n \in Nat
    PROVE  /\ [e EXCEPT !.retries = k, !.nonce = n] \in Entry
           /\ [e EXCEPT !.retries = k, !.nonce = n].nonce = n
           /\ [e EXCEPT !.retries = k, !.nonce = n].retries = k
           /\ [e EXCEPT !.retries = k, !.nonce = n].evaluation = e.evaluation
BY DEF Entry

LEMMA EvaluatedEntry ==
    ASSUME NEW e \in Entry, NEW v \in Answers \cup {None, Undet}
    PROVE  /\ [e EXCEPT !.evaluation = v] \in Entry
           /\ [e EXCEPT !.evaluation = v].evaluation = v
BY DEF Entry

LEMMA DelayedEntry ==
    ASSUME NEW e \in Entry, NEW t \in Int
    PROVE  [e EXCEPT !.retryAfter = t] \in Entry
BY DEF Entry

LEMMA PendingEntry ==
    ASSUME NEW e \in Entry, NEW t \in Nat
    PROVE  [e EXCEPT !.pending = TRUE, !.txTime = t] \in Entry
BY DEF Entry

-----------------------------------------------------------------------------
(* Type correctness *)

\* Writing one entry, and dropping the entries no dict refers to.
LEMMA WithEntryType ==
    ASSUME TypeOK, selected \in Markets, NEW e \in Entry, WithEntry(e)
    PROVE  entry' \in [Markets -> Entry] /\ entry'[selected] = e
BY DEF TypeOK, MemoryTypeOK, WithEntry

LEMMA KeptType ==
    ASSUME TypeOK, NEW S
    PROVE  /\ Kept(S) \in [Markets -> Entry]
           /\ \A m \in Markets : m \in S => Kept(S)[m] = entry[m]
BY NewEntryType DEF TypeOK, MemoryTypeOK, Kept

\* A fault is counted up to its bound.
LEMMA ChargeType ==
    ASSUME TypeOK, NEW n \in Nat, Charge(n)
    PROVE  faults' \in 0 .. MaxFaults
BY ResolutionAssumption DEF TypeOK, GhostTypeOK, Charge

\* The environment's steps keep the type of the chain and of the index.
LEMMA RealitioType ==
    ASSUME RealitioTypeOK,
           \/ UNCHANGED realitioVars
           \/ \E m \in Markets : OtherAnswers(m) \/ SubgraphIndexes(m)
    PROVE  RealitioTypeOK'
<1>1. CASE UNCHANGED realitioVars
  BY <1>1 DEF RealitioTypeOK, realitioVars
<1>2. ASSUME NEW m \in Markets, OtherAnswers(m)
      PROVE  RealitioTypeOK'
  BY <1>2, RealitioAssumption DEF RealitioTypeOK, OtherAnswers, Question, Answered
<1>3. ASSUME NEW m \in Markets, SubgraphIndexes(m)
      PROVE  RealitioTypeOK'
  BY <1>3 DEF RealitioTypeOK, SubgraphIndexes
<1> QED
  BY <1>1, <1>2, <1>3

\* The initial state is well typed.
LEMMA InitType == Init => TypeOK
<1> SUFFICES ASSUME Init PROVE TypeOK
  OBVIOUS
<1>1. RealitioTypeOK
  BY RealitioAssumption DEF Init, RealitioInit, RealitioTypeOK, Question, Unanswered
<1>2. MemoryTypeOK
  BY NewEntryType DEF Init, MemoryTypeOK
<1>3. ConsensusTypeOK
  BY ResolutionAssumption
  DEF Init, ConsensusTypeOK, NoResponse, NoRead, NoTx
<1>4. StoreTypeOK
  BY FS_EmptySet DEF Init, StoreTypeOK
<1>5. GhostTypeOK
  BY ResolutionAssumption DEF Init, GhostTypeOK
<1>6. StepTypeOK
  BY DEF Init, StepTypeOK, Steps
<1> QED
  BY <1>1, <1>2, <1>3, <1>4, <1>5, <1>6 DEF TypeOK

\* What a step leaves alone keeps its type.
LEMMA TypeFrame ==
    ASSUME TypeOK
    PROVE  /\ UNCHANGED realitioVars => RealitioTypeOK'
           /\ UNCHANGED memoryVars => MemoryTypeOK'
           /\ UNCHANGED <<tracked, work, skipped>> /\ entry' \in [Markets -> Entry]
                 => MemoryTypeOK'
           /\ UNCHANGED <<consensusVars, readVars>> => ConsensusTypeOK'
           /\ UNCHANGED <<kvVars, issued>> => StoreTypeOK'
           /\ UNCHANGED ghostVars /\ faults' \in 0 .. MaxFaults => GhostTypeOK'
           /\ faults \in 0 .. MaxFaults
<1>1. UNCHANGED realitioVars => RealitioTypeOK'
  BY DEF TypeOK, RealitioTypeOK, realitioVars
<1>2. UNCHANGED memoryVars => MemoryTypeOK'
  BY DEF TypeOK, MemoryTypeOK, memoryVars
<1>3. UNCHANGED <<tracked, work, skipped>> /\ entry' \in [Markets -> Entry]
         => MemoryTypeOK'
  BY DEF TypeOK, MemoryTypeOK
<1>4. UNCHANGED <<consensusVars, readVars>> => ConsensusTypeOK'
  BY DEF TypeOK, ConsensusTypeOK, consensusVars, readVars
<1>5. UNCHANGED <<kvVars, issued>> => StoreTypeOK'
  BY DEF TypeOK, StoreTypeOK, kvVars
<1>6. UNCHANGED ghostVars /\ faults' \in 0 .. MaxFaults => GhostTypeOK'
  BY DEF TypeOK, GhostTypeOK, ghostVars
<1>7. faults \in 0 .. MaxFaults
  BY DEF TypeOK, GhostTypeOK
<1> QED
  BY <1>1, <1>2, <1>3, <1>4, <1>5, <1>6, <1>7

\* Rows are counted.
LEMMA RowsType ==
    ASSUME TypeOK, NEW m \in Markets
    PROVE  RowsOf(m) \in Nat
<1>1. Cardinality(asked[m]) \in Nat
  BY FS_CardinalityType DEF TypeOK, StoreTypeOK
<1> QED
  BY <1>1, ResolutionAssumption DEF RowsOf

\* What one market's entry looks like after a scan has synced it: it is an
\* entry, without an undeterminable evaluation; if its cache was read it
\* counts every cached row, and has an evaluation if the cache has one.
LEMMA SyncedEntryType ==
    ASSUME TypeOK, NEW m \in Markets, NEW answerer \in Answerers \cup {"nobody"},
           NEW unread \in BOOLEAN, NEW found \in Answers \cup {None}
    PROVE  LET e == SyncedEntry(m, answerer, unread, found) IN
           /\ e \in Entry
           /\ e.evaluation # Undet
           /\ ~ unread => e.retries >= RowsOf(m)
<1> DEFINE u == Upserted(entry[m], indexed[m], answerer)
<1>1. u \in Entry
  BY UpsertedType DEF TypeOK, MemoryTypeOK, RealitioTypeOK
<1>2. RowsOf(m) \in Nat
  BY RowsType
<1> HIDE DEF u
<1>3. /\ UndetDropped(u) \in Entry
      /\ UndetDropped(u).evaluation # Undet
  BY <1>1, UndetDroppedType, EntryAssumption
<1>4. /\ Refreshed(u, found, RowsOf(m)) \in Entry
      /\ Refreshed(u, found, RowsOf(m)).evaluation # Undet
      /\ Refreshed(u, found, RowsOf(m)).retries >= RowsOf(m)
  BY <1>1, <1>2, RefreshedType, EntryAssumption
<1>5. SyncedEntry(m, answerer, unread, found) =
        IF unread THEN UndetDropped(u) ELSE Refreshed(u, found, RowsOf(m))
  BY DEF SyncedEntry, u
<1> QED
  BY <1>3, <1>4, <1>5

\* The inputs of ScanSync, named.
LEMMA ScanSyncInputs ==
    ASSUME TypeOK, ScanSync
    PROVE  \E fetched \in SUBSET Markets, cost \in {0, 1} :
             \E silent \in SUBSET fetched, ahead \in SUBSET fetched,
                unread \in SUBSET fetched,
                pick \in [Markets -> Answers \cup {None}] :
                   ScanSyncs(fetched, cost, silent, ahead, unread, pick)
<1>1. PICK pendingOk \in BOOLEAN, finalizingOk \in BOOLEAN :
        LET fetched == Fetched(pendingOk, finalizingOk)
            cost == IF pendingOk /\ finalizingOk THEN 0 ELSE 1
        IN  \E silent \in SUBSET fetched, ahead \in SUBSET fetched,
               unread \in SUBSET fetched,
               pick \in [Markets -> Answers \cup {None}] :
                  ScanSyncs(fetched, cost, silent, ahead, unread, pick)
  BY DEF ScanSync
<1>2. Fetched(pendingOk, finalizingOk) \in SUBSET Markets
  BY DEF Fetched
<1>3. (IF pendingOk /\ finalizingOk THEN 0 ELSE 1) \in {0, 1}
  OBVIOUS
<1> HIDE DEF Fetched
<1> QED
  BY <1>1, <1>2, <1>3

\* The answerer a scan records is one.
LEMMA AnswererType ==
    ASSUME TypeOK, NEW m \in Markets, NEW silent, NEW ahead
    PROVE  AnswererSeen(m, silent, ahead) \in Answerers \cup {"nobody"}
BY DEF TypeOK, RealitioTypeOK, Question, AnswererSeen

\* After ScanSync every entry has its type, and the entries worked on have
\* no undeterminable evaluation.
LEMMA ScanSyncEntries ==
    ASSUME TypeOK, NEW fetched \in SUBSET Markets, NEW cost \in {0, 1},
           NEW silent \in SUBSET fetched, NEW ahead \in SUBSET fetched,
           NEW unread \in SUBSET fetched, NEW pick \in [Markets -> Answers \cup {None}],
           ScanSyncs(fetched, cost, silent, ahead, unread, pick)
    PROVE  /\ entry' \in [Markets -> Entry]
           /\ faults' \in 0 .. MaxFaults
           /\ \A m \in fetched :
                 /\ entry'[m].evaluation # Undet
                 /\ m \notin unread => entry'[m].retries >= RowsOf(m)
<1>1. faults' \in 0 .. MaxFaults
  BY ChargeType DEF ScanSyncs
<1>2. ASSUME NEW m \in fetched
      PROVE  LET e == SyncedEntry(m, AnswererSeen(m, silent, ahead), m \in unread, pick[m])
             IN  /\ e \in Entry
                 /\ e.evaluation # Undet
                 /\ m \notin unread => e.retries >= RowsOf(m)
  <2>1. m \in Markets /\ (m \in unread) \in BOOLEAN /\ pick[m] \in Answers \cup {None}
    OBVIOUS
  <2>2. AnswererSeen(m, silent, ahead) \in Answerers \cup {"nobody"}
    BY <2>1, AnswererType
  <2> QED
    BY <2>1, <2>2, SyncedEntryType
<1>3. entry' = [m \in Markets |->
          IF m \in fetched
          THEN SyncedEntry(m, AnswererSeen(m, silent, ahead), m \in unread, pick[m])
          ELSE entry[m]]
  BY DEF ScanSyncs
<1>4. entry \in [Markets -> Entry]
  BY DEF TypeOK, MemoryTypeOK
<1> QED
  BY <1>1, <1>2, <1>3, <1>4

\* The scan's steps keep the types.
LEMMA ScanType ==
    ASSUME TypeOK, Scan
    PROVE  TypeOK'
<1>1. CASE ScanSync
  <2>1. PICK fetched \in SUBSET Markets, cost \in {0, 1} :
          \E silent \in SUBSET fetched, ahead \in SUBSET fetched,
             unread \in SUBSET fetched, pick \in [Markets -> Answers \cup {None}] :
                ScanSyncs(fetched, cost, silent, ahead, unread, pick)
    BY <1>1, ScanSyncInputs
  <2>2. PICK silent \in SUBSET fetched, ahead \in SUBSET fetched,
             unread \in SUBSET fetched, pick \in [Markets -> Answers \cup {None}] :
                ScanSyncs(fetched, cost, silent, ahead, unread, pick)
    BY <2>1
  <2>3. entry' \in [Markets -> Entry] /\ faults' \in 0 .. MaxFaults
    BY <2>2, ScanSyncEntries
  <2>4. /\ work' = fetched /\ skipped' = unread /\ tracked' = tracked
        /\ pc' = "select"
        /\ UNCHANGED <<realitioVars, consensusVars, readVars, kvVars, issued, ghostVars>>
    BY <1>1, <2>2 DEF ScanSync, ScanSyncs
  <2>5. MemoryTypeOK'
    BY <2>3, <2>4 DEF MemoryTypeOK, TypeOK
  <2>6. StepTypeOK'
    BY <2>4 DEF StepTypeOK, Steps
  <2> QED
    BY <2>3, <2>4, <2>5, <2>6, TypeFrame DEF TypeOK
<1>2. CASE ScanTimeout
  <2>1. faults' \in 0 .. MaxFaults
    BY <1>2, ChargeType DEF ScanTimeout
  <2>2. MemoryTypeOK'
    BY <1>2, KeptType DEF ScanTimeout, MemoryTypeOK, TypeOK
  <2>3. StepTypeOK'
    BY <1>2 DEF ScanTimeout, StepTypeOK, Steps
  <2>4. UNCHANGED <<realitioVars, consensusVars, readVars, kvVars, issued, ghostVars>>
    BY <1>2 DEF ScanTimeout
  <2> QED
    BY <2>1, <2>2, <2>3, <2>4, TypeFrame DEF TypeOK
<1>3. CASE ScanSelect
  <2>1. MemoryTypeOK'
    BY <1>3, KeptType DEF ScanSelect, MemoryTypeOK, TypeOK
  <2>2. selected' \in Markets \cup {None}
    BY <1>3 DEF ScanSelect, First, TypeOK, MemoryTypeOK, ConsensusTypeOK
  <2>3. ConsensusTypeOK'
    BY <1>3, <2>2 DEF ScanSelect, TypeOK, ConsensusTypeOK, readVars
  <2>4. StepTypeOK'
    BY <1>3 DEF ScanSelect, First, StepTypeOK, Steps, TypeOK, MemoryTypeOK
  <2>5. UNCHANGED <<realitioVars, kvVars, issued, ghostVars, faults>>
    BY <1>3 DEF ScanSelect
  <2> QED
    BY <2>1, <2>3, <2>4, <2>5, TypeFrame DEF TypeOK
<1> QED
  BY <1>1, <1>2, <1>3 DEF Scan

\* EvaluateAnswers keeps the types.
LEMMA EvaluateType ==
    ASSUME TypeOK, EvaluateAnswers
    PROVE  TypeOK'
<1>1. CASE Evaluate
  <2>1. StepTypeOK'
    BY <1>1 DEF Evaluate, TypeOK, StepTypeOK, Steps, consensusVars
  <2> QED
    BY <1>1, <2>1, TypeFrame DEF Evaluate, TypeOK
<1>2. CASE EvaluateFire
  <2>1. selected \in Markets /\ issued \in Nat /\ entry \in [Markets -> Entry]
    BY <1>2 DEF EvaluateFire, TypeOK, StepTypeOK, StoreTypeOK, MemoryTypeOK
  <2>2. [entry[selected] EXCEPT !.retries = @ + 1, !.nonce = issued + 1] \in Entry
    <3>1. entry[selected].retries + 1 \in Nat /\ issued + 1 \in Nat
      BY <2>1 DEF Entry
    <3>2. entry[selected] \in Entry
      BY <2>1
    <3>3. \A k, n \in Nat :
             [entry[selected] EXCEPT !.retries = k, !.nonce = n] \in Entry
      BY <3>2, FiredEntry
    <3> QED
      BY <3>1, <3>3
  <2>3. entry' \in [Markets -> Entry]
    BY <1>2, <2>1, <2>2, WithEntryType DEF EvaluateFire
  <2>4. StoreTypeOK'
    BY <1>2 DEF EvaluateFire, TypeOK, StoreTypeOK, kvVars
  <2>5. StepTypeOK'
    BY <1>2, <2>1 DEF EvaluateFire, StepTypeOK, Steps, consensusVars
  <2>6. UNCHANGED <<realitioVars, tracked, work, skipped, consensusVars, readVars,
                    ghostVars, faults>>
    BY <1>2 DEF EvaluateFire
  <2> QED
    BY <2>3, <2>4, <2>5, <2>6, TypeFrame DEF TypeOK
<1>3. ASSUME NEW landed \in BOOLEAN, FireWrite(landed)
      PROVE  TypeOK'
  <2>1. selected \in Markets /\ entry[selected].nonce \in Nat
    BY <1>3 DEF FireWrite, TypeOK, StepTypeOK, MemoryTypeOK, Entry
  <2>2. faults' \in 0 .. MaxFaults
    BY <1>3, ChargeType DEF FireWrite
  <2>3. \A m \in Markets : IsFiniteSet(asked[m]) /\ asked[m] \in SUBSET Nat
    BY DEF TypeOK, StoreTypeOK
  <2>4. IsFiniteSet(asked[selected] \cup {entry[selected].nonce})
    BY <2>1, <2>3, FS_AddElement
  <2>5. StoreTypeOK'
    BY <1>3, <2>1, <2>3, <2>4 DEF FireWrite, TypeOK, StoreTypeOK
  <2>6. GhostTypeOK'
    BY <1>3, <2>1, <2>2 DEF FireWrite, TypeOK, GhostTypeOK
  <2>7. StepTypeOK'
    BY <1>3, <2>1 DEF FireWrite, StepTypeOK, Steps, consensusVars
  <2>8. UNCHANGED <<realitioVars, memoryVars, consensusVars, readVars>>
    BY <1>3 DEF FireWrite
  <2> QED
    BY <2>5, <2>6, <2>7, <2>8, TypeFrame DEF TypeOK
<1>4. CASE EvaluateTimeout
  <2>1. selected \in Markets /\ entry[selected].nonce \in Nat
    BY <1>4 DEF EvaluateTimeout, TypeOK, StepTypeOK, MemoryTypeOK, Entry
  <2>2. faults' \in 0 .. MaxFaults
    BY <1>4, ChargeType DEF EvaluateTimeout
  <2>3. \A m \in Markets : IsFiniteSet(asked[m]) /\ asked[m] \in SUBSET Nat
    BY DEF TypeOK, StoreTypeOK
  <2>4. IsFiniteSet(asked[selected] \cup {entry[selected].nonce})
    BY <2>1, <2>3, FS_AddElement
  <2>5. StoreTypeOK'
    BY <1>4, <2>1, <2>3, <2>4 DEF EvaluateTimeout, TypeOK, StoreTypeOK
  <2>6. StepTypeOK'
    BY <1>4 DEF EvaluateTimeout, StepTypeOK, Steps
  <2>7. UNCHANGED <<realitioVars, memoryVars, consensusVars, readVars, ghostVars>>
    BY <1>4 DEF EvaluateTimeout
  <2> QED
    BY <2>2, <2>5, <2>6, <2>7, TypeFrame DEF TypeOK
<1> QED
  BY <1>1, <1>2, <1>3, <1>4 DEF EvaluateAnswers

\* MechInteract keeps the types.
LEMMA MechType ==
    ASSUME TypeOK, MechInteract
    PROVE  TypeOK'
<1>1. CASE MechPaid
  <2>1. selected \in Markets
    BY <1>1 DEF MechPaid, TypeOK, StepTypeOK
  <2>2. GhostTypeOK'
    BY <1>1, <2>1 DEF MechPaid, TypeOK, GhostTypeOK
  <2>3. StepTypeOK'
    BY <1>1, <2>1 DEF MechPaid, StepTypeOK, Steps, consensusVars
  <2> QED
    BY <1>1, <2>2, <2>3, TypeFrame DEF MechPaid, TypeOK
<1>2. CASE MechNotSent
  <2>1. faults' \in 0 .. MaxFaults
    BY <1>2, ChargeType DEF MechNotSent
  <2>2. StepTypeOK'
    BY <1>2 DEF MechNotSent, StepTypeOK, Steps
  <2> QED
    BY <1>2, <2>1, <2>2, TypeFrame DEF MechNotSent, TypeOK
<1>3. CASE MechDelivers
  <2>1. ConsensusTypeOK'
    BY <1>3 DEF MechDelivers, TypeOK, ConsensusTypeOK, StoreTypeOK, readVars
  <2>2. StepTypeOK'
    BY <1>3 DEF MechDelivers, TypeOK, StepTypeOK, Steps
  <2> QED
    BY <1>3, <2>1, <2>2, TypeFrame DEF MechDelivers, TypeOK
<1>4. CASE MechTimeout
  <2>1. faults' \in 0 .. MaxFaults /\ selected \in Markets
    BY <1>4, ChargeType DEF MechTimeout, TypeOK, StepTypeOK
  <2>2. GhostTypeOK'
    BY <1>4, <2>1 DEF MechTimeout, TypeOK, GhostTypeOK
  <2>3. StepTypeOK'
    BY <1>4 DEF MechTimeout, StepTypeOK, Steps
  <2> QED
    BY <1>4, <2>2, <2>3, TypeFrame DEF MechTimeout, TypeOK
<1> QED
  BY <1>1, <1>2, <1>3, <1>4 DEF MechInteract

\* BuildAnswerTx keeps the types.
LEMMA BuildType ==
    ASSUME TypeOK, BuildAnswerTx
    PROVE  TypeOK'
<1> DEFINE e == entry[selected]
<1>a. pc \in {"build", "judge", "readBond", "decide"}
  BY DEF BuildAnswerTx, BuildMatched, BuildUnmatched, BuildCooldown, PreflightAnswer,
         PreflightBond, BuildNothing, BuildTx, BuildTimeout
<1>b. selected \in Markets /\ e \in Entry /\ chain[selected] \in Question /\ clock \in Nat
  BY <1>a DEF TypeOK, StepTypeOK, MemoryTypeOK, RealitioTypeOK
<1>1. ASSUME NEW landed \in BOOLEAN, BuildMatched(landed)
      PROVE  TypeOK'
  <2>1. response.nonce \in Nat /\ response.result \in Answers \cup {Undet, Garbage}
    BY DEF TypeOK, ConsensusTypeOK
  <2> DEFINE v == IF response.result = Garbage THEN e.evaluation ELSE response.result
  <2>2. v \in Answers \cup {None, Undet}
    BY <1>b, <2>1 DEF Entry
  <2>3. WithEntry([e EXCEPT !.evaluation = v])
    BY <1>1 DEF BuildMatched
  <2> HIDE DEF v
  <2>4. [e EXCEPT !.evaluation = v] \in Entry
    BY <1>b, <2>2, EvaluatedEntry
  <2>5. entry' \in [Markets -> Entry]
    BY <1>b, <2>3, <2>4, WithEntryType
  <2>6. faults' \in 0 .. MaxFaults
    BY <1>1, ChargeType DEF BuildMatched
  <2>7. \A m \in Markets : IsFiniteSet(asked[m]) /\ asked[m] \in SUBSET Nat
    BY DEF TypeOK, StoreTypeOK
  <2>8. IsFiniteSet(asked[selected] \cup {response.nonce})
    BY <1>b, <2>7, FS_AddElement
  <2>9. StoreTypeOK'
    BY <1>1, <1>b, <2>1, <2>7, <2>8 DEF BuildMatched, TypeOK, StoreTypeOK
  <2>10. StepTypeOK'
    BY <1>1, <1>b DEF BuildMatched, StepTypeOK, Steps, consensusVars
  <2>11. UNCHANGED <<realitioVars, tracked, work, skipped, consensusVars, readVars,
                     ghostVars>>
    BY <1>1 DEF BuildMatched
  <2> QED
    BY <2>5, <2>6, <2>9, <2>10, <2>11, TypeFrame DEF TypeOK
<1>2. CASE BuildUnmatched
  <2>1. StepTypeOK'
    BY <1>2, <1>b DEF BuildUnmatched, StepTypeOK, Steps, consensusVars
  <2> QED
    BY <1>2, <2>1, TypeFrame DEF BuildUnmatched, TypeOK
<1>3. CASE BuildCooldown
  <2>1. AfterUndetermined(e, clock) \in Int
    BY <1>b, CooldownType
  <2>2. (IF e.nonce # 0 THEN clock + RetryCooldown ELSE e.retryAfter) \in Int
    BY <1>b, EntryAssumption DEF Entry
  <2>3. PICK t \in Int : WithEntry([e EXCEPT !.retryAfter = t])
    BY <1>3, <2>1, <2>2 DEF BuildCooldown
  <2>4. [e EXCEPT !.retryAfter = t] \in Entry
    BY <1>b, <2>3, DelayedEntry
  <2>5. entry' \in [Markets -> Entry]
    BY <1>b, <2>3, <2>4, WithEntryType
  <2>6. StepTypeOK'
    BY <1>3 DEF BuildCooldown, StepTypeOK, Steps
  <2>7. UNCHANGED <<realitioVars, tracked, work, skipped, consensusVars, readVars,
                    kvVars, issued, ghostVars, faults>>
    BY <1>3 DEF BuildCooldown
  <2> QED
    BY <2>5, <2>6, <2>7, TypeFrame DEF TypeOK
<1>4. CASE PreflightAnswer
  <2>1. faults' \in 0 .. MaxFaults
    BY <1>4, ChargeType DEF PreflightAnswer
  <2>2. fresh' \in [answer : Answers, bond : Nat]
    BY <1>4, <1>b, ResolutionAssumption
    DEF PreflightAnswer, TypeOK, ConsensusTypeOK, Question
  <2>3. ConsensusTypeOK'
    BY <1>4, <2>2 DEF PreflightAnswer, TypeOK, ConsensusTypeOK, consensusVars
  <2>4. StepTypeOK'
    BY <1>4, <1>b DEF PreflightAnswer, StepTypeOK, Steps, consensusVars, memoryVars
  <2> QED
    BY <1>4, <2>1, <2>3, <2>4, TypeFrame DEF PreflightAnswer, TypeOK
<1>5. CASE PreflightBond
  <2>1. faults' \in 0 .. MaxFaults
    BY <1>5, ChargeType DEF PreflightBond
  <2>2. Decoded(fresh.answer, chain[selected].bond, ZeroAnswer) \in Answers \cup {None}
    BY DEF Decoded, TypeOK, ConsensusTypeOK
  <2>3. chain[selected].bond \in Nat
    BY <1>b DEF Question
  <2>4. e.evaluation \in Answers
    BY <1>5 DEF PreflightBond, TypeOK, StepTypeOK
  <2>6. \A a \in Answers \cup {None}, b \in Nat :
           /\ [e EXCEPT !.answer = a, !.bond = b] \in Entry
           /\ [e EXCEPT !.answer = a, !.bond = b].evaluation = e.evaluation
    <3> DEFINE g == e
    <3>1. g \in Entry
      BY <1>b
    <3> HIDE DEF g
    <3>2. \A a \in Answers \cup {None}, b \in Nat :
             /\ [g EXCEPT !.answer = a, !.bond = b] \in Entry
             /\ [g EXCEPT !.answer = a, !.bond = b].evaluation = g.evaluation
      BY <3>1 DEF Entry
    <3> QED
      BY <3>2 DEF g
  <2>7. entry' \in [Markets -> Entry] /\ entry'[selected].evaluation \in Answers
    <3>1. UNCHANGED entry
          \/ \E a \in Answers \cup {None}, b \in Nat :
                WithEntry([e EXCEPT !.answer = a, !.bond = b])
      BY <1>5, <2>2, <2>3 DEF PreflightBond
    <3>2. CASE UNCHANGED entry
      BY <3>2, <2>4 DEF TypeOK, MemoryTypeOK
    <3>3. ASSUME NEW a \in Answers \cup {None}, NEW b \in Nat,
                 WithEntry([e EXCEPT !.answer = a, !.bond = b])
          PROVE  entry' \in [Markets -> Entry] /\ entry'[selected].evaluation \in Answers
      <4> DEFINE f == [e EXCEPT !.answer = a, !.bond = b]
      <4>2. f \in Entry /\ f.evaluation \in Answers /\ WithEntry(f)
        BY <2>4, <2>6, <3>3
      <4> HIDE DEF f
      <4> QED
        BY <1>b, <4>2, WithEntryType
    <3> QED
      BY <3>1, <3>2, <3>3
  <2>8. ConsensusTypeOK'
    BY <1>5 DEF PreflightBond, TypeOK, ConsensusTypeOK, consensusVars
  <2>9. StepTypeOK'
    BY <1>5, <1>b, <2>7 DEF PreflightBond, StepTypeOK, Steps, consensusVars
  <2> QED
    BY <1>5, <2>1, <2>7, <2>8, <2>9, TypeFrame DEF PreflightBond, TypeOK
<1>6. CASE BuildNothing
  <2>1. faults' \in 0 .. MaxFaults
    BY <1>6, ChargeType DEF BuildNothing
  <2>2. StepTypeOK'
    BY <1>6 DEF BuildNothing, StepTypeOK, Steps
  <2> QED
    BY <1>6, <2>1, <2>2, TypeFrame DEF BuildNothing, TypeOK
<1>7. CASE BuildTx
  <2>1. e.bond \in Nat /\ e.evaluation \in Answers
    BY <1>7, <1>b DEF BuildTx, TypeOK, StepTypeOK, Entry
  <2>2. RequiredBond(e.bond) \in Nat /\ MaxPrevious(e.bond) \in Nat
    BY <2>1, BondType
  <2>3. tx' = [market |-> selected, answer |-> e.evaluation,
               bond |-> RequiredBond(e.bond), maxPrevious |-> MaxPrevious(e.bond)]
    BY <1>7 DEF BuildTx
  <2>4. [e EXCEPT !.pending = TRUE, !.txTime = clock] \in Entry
    BY <1>b, PendingEntry
  <2>5. entry' \in [Markets -> Entry]
    BY <1>7, <1>b, <2>4, WithEntryType DEF BuildTx
  <2>6. ConsensusTypeOK'
    BY <1>7, <1>b, <2>1, <2>2, <2>3 DEF BuildTx, TypeOK, ConsensusTypeOK, readVars
  <2>7. StepTypeOK'
    BY <1>7, <1>b, <2>3 DEF BuildTx, StepTypeOK, Steps
  <2> QED
    BY <1>7, <2>5, <2>6, <2>7, TypeFrame DEF BuildTx, TypeOK
<1>8. CASE BuildTimeout
  <2>1. faults' \in 0 .. MaxFaults
    BY <1>8, ChargeType DEF BuildTimeout
  <2>2. StepTypeOK'
    BY <1>8 DEF BuildTimeout, StepTypeOK, Steps
  <2> QED
    BY <1>8, <2>1, <2>2, TypeFrame DEF BuildTimeout, TypeOK
<1> QED
  BY <1>1, <1>2, <1>3, <1>4, <1>5, <1>6, <1>7, <1>8 DEF BuildAnswerTx

\* Settlement, reset, time, other parties and restarts keep the types.
LEMMA OtherType ==
    ASSUME TypeOK, \/ SettleLands \/ SettleFails \/ Reset \/ Others \/ Wait \/ Restart
    PROVE  TypeOK'
<1>1. CASE SettleLands
  <2>1. /\ tx.market \in Markets /\ tx.answer \in Answers /\ tx.bond \in Nat
        /\ clock \in Nat
    BY <1>1 DEF SettleLands, TypeOK, StepTypeOK, ConsensusTypeOK, RealitioTypeOK
  <2>2. RealitioTypeOK'
    BY <1>1, <2>1 DEF SettleLands, TypeOK, RealitioTypeOK, Question, Answered, Answerers
  <2>3. GhostTypeOK'
    BY <1>1, <2>1 DEF SettleLands, TypeOK, GhostTypeOK
  <2>4. StepTypeOK'
    BY <1>1 DEF SettleLands, StepTypeOK, Steps
  <2> QED
    BY <1>1, <2>2, <2>3, <2>4, TypeFrame DEF SettleLands, TypeOK
<1>2. CASE SettleFails
  <2>1. faults' \in 0 .. MaxFaults
    BY <1>2, ChargeType DEF SettleFails
  <2>2. StepTypeOK'
    BY <1>2 DEF SettleFails, StepTypeOK, Steps
  <2> QED
    BY <1>2, <2>1, <2>2, TypeFrame DEF SettleFails, TypeOK
<1>3. CASE Reset
  <2>1. RealitioTypeOK'
    BY <1>3, RealitioAssumption DEF Reset, TypeOK, RealitioTypeOK, Later
  <2>2. ConsensusTypeOK'
    BY <1>3, ResolutionAssumption
    DEF Reset, ConsensusTypeOK, NoResponse, NoTx, NoRead
  <2>3. StepTypeOK'
    BY <1>3 DEF Reset, StepTypeOK, Steps
  <2> QED
    BY <1>3, <2>1, <2>2, <2>3, TypeFrame DEF Reset, TypeOK
<1>4. CASE Others
  <2>1. RealitioTypeOK'
    BY <1>4, RealitioType DEF Others, TypeOK
  <2>2. StepTypeOK'
    BY <1>4 DEF Others, TypeOK, StepTypeOK, consensusVars, memoryVars
  <2> QED
    BY <1>4, <2>1, <2>2, TypeFrame DEF Others, TypeOK
<1>5. CASE Wait
  <2>1. RealitioTypeOK'
    BY <1>5, RealitioAssumption DEF Wait, TypeOK, RealitioTypeOK, Later
  <2>2. StepTypeOK'
    BY <1>5 DEF Wait, TypeOK, StepTypeOK, consensusVars, memoryVars
  <2> QED
    BY <1>5, <2>1, <2>2, TypeFrame DEF Wait, TypeOK
<1>6. CASE Restart
  <2>1. faults' \in 0 .. MaxFaults
    BY <1>6, ChargeType DEF Restart
  <2>2. MemoryTypeOK'
    BY <1>6, NewEntryType DEF Restart, MemoryTypeOK
  <2>3. Replayed \in Steps \ {"select", "fired", "judge", "readBond", "decide"}
    BY DEF Replayed, Steps, TypeOK, StepTypeOK
  <2>4. /\ Replayed \notin {"scan", "select", "reset"} => selected \in Markets
        /\ Replayed = "settle" => tx.market \in Markets
    BY DEF Replayed, TypeOK, StepTypeOK, Steps
  <2>5. StepTypeOK'
    BY <1>6, <2>3, <2>4 DEF Restart, StepTypeOK, Steps, consensusVars
  <2> QED
    BY <1>6, <2>1, <2>2, <2>5, TypeFrame DEF Restart, TypeOK
<1> QED
  BY <1>1, <1>2, <1>3, <1>4, <1>5, <1>6

\* Every step keeps the types.
LEMMA NextType == TypeOK /\ [Next]_vars => TypeOK'
<1> SUFFICES ASSUME TypeOK, [Next]_vars PROVE TypeOK'
  OBVIOUS
<1>1. CASE Next
  BY <1>1, ScanType, EvaluateType, MechType, BuildType, OtherType DEF Next, Agent
<1>2. CASE UNCHANGED vars
  BY <1>2 DEF vars, TypeOK, RealitioTypeOK, MemoryTypeOK, ConsensusTypeOK,
              StoreTypeOK, GhostTypeOK, StepTypeOK
<1> QED
  BY <1>1, <1>2

\* The state is always well typed.
THEOREM TypeCorrect == Spec => []TypeOK
<1> QED
  BY InitType, NextType, PTL DEF Spec

-----------------------------------------------------------------------------
(* The choice of a market *)

\* The sort key puts entries in order: none comes before itself, and what
\* comes before an earlier one comes before a later one.
LEMMA BeforeStrict ==
    ASSUME NEW d \in Entry, NEW e \in Entry, NEW f \in Entry
    PROVE  ~ Before(e, e) /\ (Before(d, e) /\ Before(e, f) => Before(d, f))
<1>1. /\ d.ts \in Nat /\ e.ts \in Nat /\ f.ts \in Nat
      /\ d.retries \in Nat /\ e.retries \in Nat /\ f.retries \in Nat
  BY DEF Entry
<1> QED
  BY <1>1 DEF Before

\* Something has the least number.
LEMMA LeastNumber ==
    ASSUME NEW S, S # {}, NEW number \in [S -> Nat]
    PROVE  \E m \in S : \A n \in S : number[m] <= number[n]
<1> DEFINE R == {ss \in Nat \X Nat : ss[1] < ss[2]}
           T == {number[m] : m \in S}
<1>1. IsWellFoundedOn(R, Nat)
  BY NatLessThanWellFounded DEF OpToRel
<1>2. T \in SUBSET Nat /\ T # {}
  OBVIOUS
<1> HIDE DEF R, T
<1>3. PICK least \in T : \A k \in T : ~ (<<k, least>> \in R)
  BY <1>1, <1>2, WFMin
<1>4. \A k \in Nat : <<k, least>> \notin R => least <= k
  BY <1>2, <1>3 DEF R
<1>5. \A k \in T : least <= k
  BY <1>2, <1>3, <1>4
<1> QED
  BY <1>5 DEF T

\* Some market always comes first, and it is as the key's comment says: an
\* answered one if there is any, of those the one whose deadline is soonest,
\* and of equals the one with the fewest retries.
LEMMA SomeFirst ==
    ASSUME TypeOK, NEW S \in SUBSET Markets, S # {}
    PROVE  First(S) # {}
<1>0. entry \in [Markets -> Entry]
  BY DEF TypeOK, MemoryTypeOK
<1> DEFINE HaveAnswer == {m \in S : entry[m].answer # None}
           T == IF HaveAnswer = {} THEN S ELSE HaveAnswer
           Dated == {m \in T : entry[m].ts > 0}
<1>1. /\ T # {} /\ T \subseteq S /\ Dated \subseteq T
      /\ \A m \in S : entry[m].ts \in Nat /\ entry[m].retries \in Nat
      /\ \A m \in T, n \in S : entry[n].answer # None => entry[m].answer # None
      /\ \A m \in T, n \in S : n \notin T => entry[m].answer # None /\ entry[n].answer = None
      /\ \A m, n \in T : (entry[m].answer = None) <=> (entry[n].answer = None)
  <2>1. \A m \in S : entry[m].ts \in Nat /\ entry[m].retries \in Nat
    BY <1>0 DEF Entry
  <2> QED
    BY <2>1
<1> HIDE DEF T
<1>2. PICK ts \in Nat :
        /\ \E m \in T : entry[m].ts = ts
        /\ \A n \in T : entry[n].ts > 0 => ts > 0 /\ ts <= entry[n].ts
  <2>1. CASE Dated = {}
    <3>1. \A n \in T : entry[n].ts = 0
      BY <1>1, <2>1
    <3> QED
      BY <1>1, <3>1
  <2>2. CASE Dated # {}
    <3> DEFINE date == [m \in Dated |-> entry[m].ts]
    <3>1. date \in [Dated -> Nat]
      BY <1>1
    <3>2. PICK m \in Dated : \A n \in Dated : date[m] <= date[n]
      BY <2>2, <3>1, LeastNumber
    <3> QED
      BY <1>1, <3>2
  <2> QED
    BY <2>1, <2>2
<1> DEFINE Soonest == {m \in T : entry[m].ts = ts}
           count == [m \in Soonest |-> entry[m].retries]
<1>3. Soonest # {} /\ count \in [Soonest -> Nat]
  BY <1>1, <1>2
<1>4. PICK m \in Soonest : \A n \in Soonest : count[m] <= count[n]
  BY <1>3, LeastNumber
<1>5. m \in S /\ m \in T /\ entry[m].ts = ts
  BY <1>1
<1>6. ASSUME NEW n \in S
      PROVE  ~ Before(entry[n], entry[m])
  <2>1. CASE n \notin T
    BY <1>1, <1>5, <2>1 DEF Before
  <2>2. CASE n \in T
    <3>1. entry[n].ts = ts => entry[m].retries <= entry[n].retries
      BY <1>4, <2>2
    <3>2. ~ (entry[n].ts > 0 /\ (entry[m].ts = 0 \/ entry[n].ts < entry[m].ts))
      BY <1>1, <1>2, <1>5, <2>2
    <3>3. ~ (entry[n].ts = entry[m].ts /\ entry[n].retries < entry[m].retries)
      BY <1>1, <1>5, <2>2, <3>1
    <3> QED
      BY <1>1, <1>5, <2>2, <3>2, <3>3 DEF Before
  <2> QED
    BY <2>1, <2>2
<1> QED
  BY <1>5, <1>6 DEF First

\* Two markets the key puts in the same class: both answered, or neither.
Alike(m, n) == (entry[m].answer = None) <=> (entry[n].answer = None)

\* What the key's comment says of the market that comes first: no unanswered
\* one before an answered one, then none before a sooner deadline, then none
\* retried more often than its equal.
Due(m, n) ==
    /\ entry[m].answer = None => entry[n].answer = None
    /\ Alike(m, n) =>
          /\ entry[n].ts > 0 => entry[m].ts > 0 /\ entry[m].ts <= entry[n].ts
          /\ entry[m].ts = entry[n].ts => entry[m].retries <= entry[n].retries

\* Who comes first is due no later than the rest.
LEMMA FirstIsDue ==
    ASSUME TypeOK, NEW S \in SUBSET Markets, NEW m \in First(S), NEW n \in S
    PROVE  Due(m, n)
<1>1. /\ entry[m].ts \in Nat /\ entry[n].ts \in Nat
      /\ entry[m].retries \in Nat /\ entry[n].retries \in Nat
  BY DEF TypeOK, MemoryTypeOK, Entry, First
<1>2. ~ Before(entry[n], entry[m])
  BY DEF First
<1> QED
  BY <1>1, <1>2 DEF Before, Alike, Due

\* scan_markets.py:323-336, :472-508: a scan that finds anything to do chooses,
\* whatever is actionable, and what it chooses is due no later than the rest:
\* no market is passed over for one that was asked about more often.
THEOREM ScanChooses ==
    Spec => [](\A S \in SUBSET Markets :
                  /\ S # {} => First(S) # {}
                  /\ \A m \in First(S), n \in S : Due(m, n))
<1>1. TypeOK => \A S \in SUBSET Markets :
                   /\ S # {} => First(S) # {}
                   /\ \A m \in First(S), n \in S : Due(m, n)
  BY SomeFirst, FirstIsDue
<1> QED
  BY <1>1, TypeCorrect, PTL

=============================================================================
