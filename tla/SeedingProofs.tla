----------------------------- MODULE SeedingProofs -----------------------------
(***************************************************************************)
(* The seeding of the kv_store, for any history and any failures: the      *)
(* marker comes last, reads are complete or fail, no answer is bought      *)
(* twice, and MechSeeding implements AskedCache.                           *)
(***************************************************************************)
EXTENDS MechSeeding, FiniteSetTheorems, WellFoundedInduction, TLAPS

\* What the rows of the history hold while they are written and after.
RowsHold(done) == \A h \in done : rows[h] = batch[h]

\* The types the proofs need.
SeedTypes ==
    /\ kind \in [Ids -> RowKinds]
    /\ deliveries \in [Ids -> Seq(Delivery)]
    /\ rows \in [Keys -> Cells]
    /\ marker \in BOOLEAN
    /\ pc \in Steps
    /\ todo \subseteq Ids
    /\ batch \in [Ids -> Answers \cup {NoAnswer}]
    /\ fired \subseteq Nonces

\* How far the seeding has come.
SeedProgress ==
    /\ pc = "rows" => RowsHold(Convertible \ todo)
    /\ pc \in {"query", "rows"} => ~ marker
    /\ pc = "mark" => RowsHold(Convertible)
    /\ pc = "list" => marker
    /\ marker => RowsHold(Convertible)

\* A usable answer the subgraph served is in the batch.
ServedInBatch ==
    served # {} => \E h \in Ids : kind[h] = "ours" /\ batch[h] \in Answers

\* A read that found no evaluation saw every answer there was.
FoundNothing ==
    reply \notin {NotRead, Unreadable} =>
        /\ pc = "idle" /\ marker
        /\ found = NoAnswer => \A k \in Listed : rows[k] \notin Answers

SeedInv == SeedTypes /\ SeedProgress /\ ServedInBatch /\ FoundNothing

-----------------------------------------------------------------------------
(* The choice of a delivery *)

\* A set of numbers has a least one.
LEMMA LeastOf ==
    ASSUME NEW T \in SUBSET Nat, T # {}
    PROVE  \E m \in T : \A n \in T : m <= n
<1> DEFINE R == {ss \in Nat \X Nat : ss[1] < ss[2]}
<1>1. IsWellFoundedOn(R, Nat)
  BY NatLessThanWellFounded DEF OpToRel
<1> HIDE DEF R
<1>2. PICK m \in T : \A n \in T : ~ (<<n, m>> \in R)
  BY <1>1, WFMin
<1>3. \A n \in T : <<n, m>> \notin R => m <= n
  BY DEF R
<1> QED
  BY <1>2, <1>3

\* The delivery that is kept has an answer exactly if some delivery has a
\* usable one, and the answer is then the earliest usable one.
LEMMA SeededKeepsEarliest ==
    ASSUME NEW ds \in Seq(Delivery)
    PROVE  /\ Usable(ds) = {} => Seeded(ds) = NoAnswer
           /\ Usable(ds) # {} =>
                 \E i \in Usable(ds) : /\ \A j \in Usable(ds) : i <= j
                                       /\ Seeded(ds) = ds[i].verdict
                                       /\ Seeded(ds) \in Answers
<1>1. Usable(ds) = {} => Seeded(ds) = NoAnswer
  BY DEF Seeded
<1>2. ASSUME Usable(ds) # {}
      PROVE  \E i \in Usable(ds) : /\ \A j \in Usable(ds) : i <= j
                                   /\ Seeded(ds) = ds[i].verdict
                                   /\ Seeded(ds) \in Answers
  <2>1. Usable(ds) \in SUBSET Nat
    BY DEF Usable
  <2>2. \E i \in Usable(ds) : \A j \in Usable(ds) : i <= j
    BY <2>1, <1>2, LeastOf
  <2> DEFINE i == CHOOSE i \in Usable(ds) : \A j \in Usable(ds) : i <= j
  <2>3. i \in Usable(ds) /\ \A j \in Usable(ds) : i <= j
    BY <2>2
  <2>4. Seeded(ds) = ds[i].verdict
    BY <1>2 DEF Seeded
  <2> HIDE DEF i
  <2>5. ds[i].verdict \in Answers
    BY <2>3 DEF Usable
  <2> QED
    BY <2>3, <2>4, <2>5
<1> QED
  BY <1>1, <1>2

\* What is stored of an old request is an answer or none.
COROLLARY SeededType ==
    ASSUME NEW ds \in Seq(Delivery)
    PROVE  Seeded(ds) \in Answers \cup {NoAnswer}
BY SeededKeepsEarliest

-----------------------------------------------------------------------------
(* The inductive invariant *)

\* The initial state satisfies the invariant.
LEMMA SeedInitial == Init => SeedInv
<1> SUFFICES ASSUME Init PROVE SeedInv
  OBVIOUS
<1>1. <<>> \in Seq(Delivery)
  OBVIOUS
<1>2. SeedTypes
  BY <1>1 DEF Init, SeedTypes, Cells, Keys, Steps
<1>3. SeedProgress /\ ServedInBatch /\ FoundNothing
  BY DEF Init, SeedProgress, ServedInBatch, FoundNothing
<1> QED
  BY <1>2, <1>3 DEF SeedInv

\* Every step keeps the types.
LEMMA TypesKept == SeedInv /\ [Next]_vars => SeedTypes'
<1> SUFFICES ASSUME SeedInv, [Next]_vars PROVE SeedTypes'
  OBVIOUS
<1> USE DEF SeedInv
<1>1. CASE StartRead
  BY <1>1 DEF SeedTypes, StartRead, subgraphVars, storeVars, seedVars, Steps
<1>2. CASE ReadMarker
  BY <1>2 DEF SeedTypes, ReadMarker, Fails, subgraphVars, storeVars, seedVars, Steps
<1>3. CASE QuerySubgraph
  <2>1. \A h \in Ids : Seeded(deliveries[h]) \in Answers \cup {NoAnswer}
    BY SeededType DEF SeedTypes
  <2> QED
    BY <1>3, <2>1 DEF SeedTypes, QuerySubgraph, Fails, Convertible, subgraphVars,
       storeVars, seedVars, Steps
<1>4. ASSUME NEW h \in Ids, NEW ok \in BOOLEAN, WriteRow(h, ok) PROVE SeedTypes'
  BY <1>4 DEF SeedTypes, WriteRow, AfterRow, Fails, Cells, Keys, subgraphVars, Steps
<1>5. CASE WriteMarker
  BY <1>5 DEF SeedTypes, WriteMarker, Fails, subgraphVars, seedVars, Steps
<1>6. CASE List
  BY <1>6 DEF SeedTypes, List, Fails, subgraphVars, storeVars, seedVars, Steps
<1>7. CASE RoundEnds
  BY <1>7 DEF SeedTypes, RoundEnds, Cells, Keys, subgraphVars, seedVars, Steps
<1>8. ASSUME NEW n \in Nonces, Fire(n) PROVE SeedTypes'
  BY <1>8 DEF SeedTypes, Fire, Cells, Keys, subgraphVars, seedVars
<1>9. ASSUME NEW n \in Nonces, Delivered(n) PROVE SeedTypes'
  BY <1>9 DEF SeedTypes, Delivered, Cells, Keys, subgraphVars, seedVars
<1>10. ASSUME NEW h \in Ids, SubgraphDelivers(h) PROVE SeedTypes'
  BY <1>10 DEF SeedTypes, SubgraphDelivers, storeVars, seedVars
<1>11. CASE UNCHANGED vars
  BY <1>11 DEF SeedTypes, vars
<1> QED
  BY <1>1, <1>2, <1>3, <1>4, <1>5, <1>6, <1>7, <1>8, <1>9, <1>10, <1>11 DEF Next, Reads

\* Every step keeps the account of how far the seeding has come.
LEMMA ProgressKept == SeedInv /\ [Next]_vars => SeedProgress'
<1> SUFFICES ASSUME SeedInv, [Next]_vars PROVE SeedProgress'
  OBVIOUS
<1> USE SeedingAssumption DEF SeedInv, SeedProgress, RowsHold, Convertible
<1>1. CASE StartRead
  BY <1>1 DEF StartRead, subgraphVars, storeVars, seedVars
<1>2. CASE ReadMarker
  BY <1>2 DEF ReadMarker, Fails, subgraphVars, storeVars, seedVars
<1>3. CASE QuerySubgraph
  BY <1>3 DEF QuerySubgraph, Fails, subgraphVars, storeVars, seedVars
<1>4. ASSUME NEW h \in Ids, NEW ok \in BOOLEAN, WriteRow(h, ok) PROVE SeedProgress'
  BY <1>4 DEF SeedTypes, WriteRow, AfterRow, Fails, Keys, subgraphVars
<1>5. CASE WriteMarker
  BY <1>5 DEF SeedTypes, WriteMarker, Fails, subgraphVars, seedVars
<1>6. CASE List
  BY <1>6 DEF List, Fails, subgraphVars, storeVars, seedVars
<1>7. CASE RoundEnds
  BY <1>7 DEF SeedTypes, RoundEnds, Keys, subgraphVars, seedVars
<1>8. ASSUME NEW n \in Nonces, Fire(n) PROVE SeedProgress'
  BY <1>8 DEF SeedTypes, Fire, Keys, subgraphVars, seedVars
<1>9. ASSUME NEW n \in Nonces, Delivered(n) PROVE SeedProgress'
  BY <1>9 DEF SeedTypes, Delivered, Keys, subgraphVars, seedVars
<1>10. ASSUME NEW h \in Ids, SubgraphDelivers(h) PROVE SeedProgress'
  BY <1>10 DEF SubgraphDelivers, storeVars, seedVars
<1>11. CASE UNCHANGED vars
  BY <1>11 DEF vars
<1> QED
  BY <1>1, <1>2, <1>3, <1>4, <1>5, <1>6, <1>7, <1>8, <1>9, <1>10, <1>11 DEF Next, Reads

\* Only the query writes the batch and served.
LEMMA ServedKept == SeedInv /\ [Next]_vars => ServedInBatch'
<1> SUFFICES ASSUME SeedInv, [Next]_vars PROVE ServedInBatch'
  OBVIOUS
<1> USE DEF SeedInv, ServedInBatch
<1>1. CASE QuerySubgraph /\ served' # served
  <2>1. PICK h \in Ids : \/ kind[h] = "ours" /\ Usable(deliveries[h]) # {}
                         \/ served' = {}
    BY <1>1 DEF QuerySubgraph, seedVars
  <2>2. CASE served' = {}
    BY <2>2
  <2>3. CASE kind[h] = "ours" /\ Usable(deliveries[h]) # {}
    <3>1. Seeded(deliveries[h]) \in Answers
      BY <2>3, SeededKeepsEarliest DEF SeedTypes
    <3> QED
      BY <1>1, <2>3, <3>1 DEF QuerySubgraph, seedVars, subgraphVars
  <2> QED
    BY <2>1, <2>2, <2>3
<1>2. CASE QuerySubgraph /\ served' = served
  <2>1. CASE UNCHANGED <<seedVars, kind>>
    BY <2>1 DEF seedVars
  <2>2. CASE served = {}
    BY <1>2, <2>2
  <2>3. CASE served # {} /\ ~ UNCHANGED seedVars
    <3>1. PICK h \in Ids : kind[h] = "ours" /\ Usable(deliveries[h]) # {}
      BY <1>2, <2>3 DEF QuerySubgraph
    <3>2. Seeded(deliveries[h]) \in Answers
      BY <3>1, SeededKeepsEarliest DEF SeedTypes
    <3> QED
      BY <1>2, <2>3, <3>1, <3>2 DEF QuerySubgraph, subgraphVars
  <2> QED
    BY <1>2, <2>1, <2>2, <2>3 DEF QuerySubgraph, subgraphVars
<1>3. CASE UNCHANGED <<kind, batch, served>>
  BY <1>3
<1> QED
  BY <1>1, <1>2, <1>3
  DEF Next, Reads, vars, StartRead, ReadMarker, WriteRow, WriteMarker, List, RoundEnds,
      Fire, Delivered, SubgraphDelivers, subgraphVars, seedVars

\* Every step keeps what is known of a market without an answer.
LEMMA FoundKept == SeedInv /\ [Next]_vars => FoundNothing'
<1> SUFFICES ASSUME SeedInv, [Next]_vars PROVE FoundNothing'
  OBVIOUS
<1> USE DEF SeedInv, FoundNothing
<1>1. CASE StartRead
  BY <1>1 DEF StartRead
<1>2. CASE ReadMarker
  BY <1>2 DEF ReadMarker, Fails, readVars
<1>3. CASE QuerySubgraph
  BY <1>3 DEF QuerySubgraph, Fails, readVars
<1>4. ASSUME NEW h \in Ids, NEW ok \in BOOLEAN, WriteRow(h, ok) PROVE FoundNothing'
  BY <1>4 DEF WriteRow, AfterRow, Fails, readVars
<1>5. CASE WriteMarker
  BY <1>5 DEF WriteMarker, Fails, readVars
<1>6. CASE List
  BY <1>6, SeedingAssumption
  DEF List, Fails, SeedProgress, Evaluations, Listed, subgraphVars, storeVars
<1>7. CASE RoundEnds
  BY <1>7 DEF RoundEnds, readVars
<1>8. ASSUME NEW n \in Nonces, Fire(n) PROVE FoundNothing'
  BY <1>8 DEF Fire
<1>9. ASSUME NEW n \in Nonces, Delivered(n) PROVE FoundNothing'
  BY <1>9 DEF Delivered, readVars
<1>10. ASSUME NEW h \in Ids, SubgraphDelivers(h) PROVE FoundNothing'
  BY <1>10 DEF SubgraphDelivers, Listed, storeVars, readVars
<1>11. CASE UNCHANGED vars
  BY <1>11 DEF vars, Listed
<1> QED
  BY <1>1, <1>2, <1>3, <1>4, <1>5, <1>6, <1>7, <1>8, <1>9, <1>10, <1>11 DEF Next, Reads

\* The inductive invariant holds of every reachable state.
THEOREM SeedInvariant == Spec => []SeedInv
<1>1. SeedInv /\ [Next]_vars => SeedInv'
  BY TypesKept, ProgressKept, ServedKept, FoundKept DEF SeedInv
<1> QED
  BY SeedInitial, <1>1, PTL DEF Spec

-----------------------------------------------------------------------------
(* What follows from it *)

\* What a read returned, and the bound on the faults.
ReadTypes ==
    /\ reply \in (SUBSET Keys) \cup {NotRead, Unreadable}
    /\ found \in Answers \cup {NoAnswer}
    /\ served \subseteq Answers
    /\ faults \in 0 .. MaxFaults

\* A read returns keys of the store, and an answer or none.
LEMMA ListedTypes ==
    ASSUME SeedTypes
    PROVE  Listed \subseteq Keys /\ Evaluations \subseteq Answers \cup {NoAnswer}
BY DEF Listed, Evaluations

\* A step that leaves what was read, or fails to read, keeps its type.
LEMMA ReadFrame ==
    ASSUME ReadTypes, served' = served,
           \/ UNCHANGED readVars
           \/ Fails
           \/ reply' = NotRead /\ found' = NoAnswer,
           faults' = faults \/ \E n \in {0, 1} : Charge(n)
    PROVE  ReadTypes'
<1>1. faults' \in 0 .. MaxFaults
  <2>1. faults \in 0 .. MaxFaults /\ MaxFaults \in Nat
    BY SeedingAssumption DEF ReadTypes
  <2>2. ASSUME NEW n \in {0, 1}, Charge(n)
        PROVE  faults' \in 0 .. MaxFaults
    BY <2>1, <2>2 DEF Charge
  <2> QED
    BY <2>1, <2>2
<1>2. /\ reply' \in (SUBSET Keys) \cup {NotRead, Unreadable}
      /\ found' \in Answers \cup {NoAnswer}
  <2>1. \/ reply' = reply /\ found' = found
        \/ reply' \in {NotRead, Unreadable} /\ found' = NoAnswer
    BY DEF Fails, readVars
  <2> QED
    BY <2>1 DEF ReadTypes
<1>3. served' \subseteq Answers
  BY DEF ReadTypes
<1> QED
  BY <1>1, <1>2, <1>3 DEF ReadTypes

\* Every step keeps the types of what is read.
LEMMA ReadTypesKept == SeedInv /\ ReadTypes /\ [Next]_vars => ReadTypes'
<1> SUFFICES ASSUME SeedInv, ReadTypes, [Next]_vars PROVE ReadTypes'
  OBVIOUS
<1>1. CASE StartRead
  BY <1>1, ReadFrame DEF StartRead, seedVars
<1>2. CASE ReadMarker
  BY <1>2, ReadFrame DEF ReadMarker, seedVars
<1>3. CASE QuerySubgraph
  <2>1. CASE served' = served
    BY <1>3, <2>1, ReadFrame DEF QuerySubgraph
  <2>2. CASE served' # served
    <3>1. /\ served' = UNION {{deliveries[h][i].verdict : i \in Usable(deliveries[h])} :
                                 h \in {g \in Ids : kind[g] = "ours"}}
          /\ Charge(0) /\ UNCHANGED readVars
      BY <1>3, <2>2 DEF QuerySubgraph, seedVars
    <3>2. \A h \in Ids : \A i \in Usable(deliveries[h]) :
             deliveries[h][i].verdict \in Answers
      BY DEF Usable
    <3>3. served' \subseteq Answers
      BY <3>1, <3>2
    <3>4. faults' \in 0 .. MaxFaults
      BY <3>1, SeedingAssumption DEF ReadTypes, Charge
    <3> QED
      BY <3>1, <3>3, <3>4 DEF ReadTypes, readVars
  <2> QED
    BY <2>1, <2>2
<1>4. ASSUME NEW h \in Ids, NEW ok \in BOOLEAN, WriteRow(h, ok) PROVE ReadTypes'
  BY <1>4, ReadFrame DEF WriteRow, AfterRow
<1>5. CASE WriteMarker
  BY <1>5, ReadFrame DEF WriteMarker, seedVars
<1>6. CASE List
  <2>1. CASE Fails /\ Charge(1)
    BY <1>6, <2>1, ReadFrame DEF List, seedVars
  <2>2. CASE Charge(0) /\ reply' = Listed /\ found' \in Evaluations
    <3>1. faults' \in 0 .. MaxFaults
      BY <2>2, SeedingAssumption DEF ReadTypes, Charge
    <3>2. Listed \subseteq Keys /\ Evaluations \subseteq Answers \cup {NoAnswer}
      BY ListedTypes DEF SeedInv
    <3> QED
      BY <1>6, <2>2, <3>1, <3>2 DEF List, ReadTypes, seedVars
  <2> QED
    BY <1>6, <2>1, <2>2 DEF List
<1>7. CASE RoundEnds
  BY <1>7, ReadFrame DEF RoundEnds, seedVars
<1>8. ASSUME NEW n \in Nonces, Fire(n) PROVE ReadTypes'
  BY <1>8, ReadFrame DEF Fire, seedVars
<1>9. ASSUME NEW n \in Nonces, Delivered(n) PROVE ReadTypes'
  BY <1>9, ReadFrame DEF Delivered, seedVars
<1>10. ASSUME NEW h \in Ids, SubgraphDelivers(h) PROVE ReadTypes'
  BY <1>10, ReadFrame DEF SubgraphDelivers, seedVars
<1>11. CASE UNCHANGED vars
  BY <1>11 DEF ReadTypes, vars
<1> QED
  BY <1>1, <1>2, <1>3, <1>4, <1>5, <1>6, <1>7, <1>8, <1>9, <1>10, <1>11 DEF Next, Reads

\* Types of the seeding, for any history and any limits.
THEOREM SeedingTypes == Spec => []TypeOK
<1>1. Init => ReadTypes
  <2> SUFFICES ASSUME Init PROVE ReadTypes
    OBVIOUS
  <2>1. faults \in 0 .. MaxFaults
    BY SeedingAssumption DEF Init
  <2>2. reply = NotRead /\ found = NoAnswer /\ served = {}
    BY DEF Init
  <2> QED
    BY <2>1, <2>2 DEF ReadTypes
<1>2. SeedInv /\ ReadTypes => TypeOK
  BY DEF SeedInv, SeedTypes, ReadTypes, TypeOK
<1> QED
  BY <1>1, <1>2, ReadTypesKept, SeedInvariant, PTL DEF Spec

\* The marker is stored only once every row of the history is.
THEOREM MarkerComesLast == Spec => []MarkerLast
<1>1. SeedInv => MarkerLast
  BY SeedingAssumption
  DEF SeedInv, SeedTypes, SeedProgress, RowsHold, MarkerLast, Convertible
<1> QED
  BY <1>1, SeedInvariant, PTL

\* A request is paid only if no definitive answer was there to be had.
THEOREM NoAnswerRebought == Spec => AnswersNotRebought
<1> DEFINE A == fired' # fired =>
                  served = {} /\ \A n \in Nonces : rows[n] \notin Answers
<1>1. SeedInv /\ [Next]_vars => A
  <2> SUFFICES ASSUME SeedInv, [Next]_vars, fired' # fired
               PROVE  served = {} /\ \A n \in Nonces : rows[n] \notin Answers
    OBVIOUS
  <2>1. \E n \in Nonces : Fire(n)
    BY DEF Next, Reads, vars, StartRead, ReadMarker, QuerySubgraph, WriteRow,
       WriteMarker, List, RoundEnds, Delivered, SubgraphDelivers
  <2>2. marker /\ \A k \in Listed : rows[k] \notin Answers
    BY <2>1 DEF Fire, SeedInv, FoundNothing
  <2>3. \A n \in Nonces : rows[n] \notin Answers
    BY <2>2, SeedingAssumption DEF Listed, Keys
  <2>4. \A h \in Ids : kind[h] = "ours" => batch[h] \notin Answers
    BY <2>2, SeedingAssumption
    DEF SeedInv, SeedTypes, SeedProgress, RowsHold, Convertible, Listed, Keys
  <2>5. served = {}
    BY <2>4 DEF SeedInv, ServedInBatch
  <2> QED
    BY <2>3, <2>5
<1>2. SeedInv /\ [Next]_vars => [A]_vars
  BY <1>1
<1> QED
  BY <1>2, SeedInvariant, PTL DEF Spec, AnswersNotRebought

\* The empty store and the history start the abstract cache.
LEMMA CacheInitially == Init => Cache!CacheInit
BY DEF Init, Cache!CacheInit, Recorded, Keys

\* Every step is a step of the abstract cache, or none.
LEMMA CacheStep == SeedInv /\ [Next]_vars => [Cache!CacheNext]_Cache!cacheVars
<1> SUFFICES ASSUME SeedInv, [Next]_vars PROVE [Cache!CacheNext]_Cache!cacheVars
  OBVIOUS
<1> USE DEF Cache!CacheNext, Cache!Read, Cache!Record, Cache!cacheVars, SeedInv
<1>0. Recorded \subseteq Keys /\ Recorded' \subseteq Keys
  BY DEF Recorded, Keys
<1>1. CASE StartRead
  BY <1>0, <1>1 DEF StartRead, Recorded, subgraphVars, storeVars
<1>2. CASE ReadMarker
  BY <1>2 DEF ReadMarker, Fails, Recorded, subgraphVars, storeVars, readVars
<1>3. CASE QuerySubgraph
  BY <1>3 DEF QuerySubgraph, Fails, Recorded, subgraphVars, storeVars, readVars
<1>4. ASSUME NEW h \in Ids, NEW ok \in BOOLEAN, WriteRow(h, ok)
      PROVE  [Cache!CacheNext]_Cache!cacheVars
  <2>1. UNCHANGED Recorded
    BY <1>4, SeedingAssumption DEF WriteRow, SeedTypes, Keys, Recorded, subgraphVars
  <2> QED
    BY <1>4, <2>1 DEF WriteRow, AfterRow, Fails, readVars
<1>5. CASE WriteMarker
  BY <1>5 DEF WriteMarker, Fails, Recorded, subgraphVars, readVars
<1>6. CASE List
  <2>1. pc = "list" => Listed = Recorded
    BY SeedingAssumption
    DEF SeedTypes, SeedProgress, RowsHold, Convertible, Listed, Recorded, Keys
  <2>2. UNCHANGED Recorded
    BY <1>6 DEF List, Recorded, subgraphVars, storeVars
  <2> QED
    BY <1>6, <2>1, <2>2 DEF List, Fails
<1>7. CASE RoundEnds
  <2>1. UNCHANGED Recorded
    BY <1>7, SeedingAssumption DEF RoundEnds, SeedTypes, Keys, Recorded, subgraphVars
  <2> QED
    BY <1>7, <2>1 DEF RoundEnds, readVars
<1>8. ASSUME NEW n \in Nonces, Fire(n) PROVE [Cache!CacheNext]_Cache!cacheVars
  <2>1. Recorded \subseteq Recorded'
    BY <1>8, SeedingAssumption DEF Fire, SeedTypes, Keys, Recorded, subgraphVars
  <2> QED
    BY <1>0, <1>8, <2>1 DEF Fire
<1>9. ASSUME NEW n \in Nonces, Delivered(n) PROVE [Cache!CacheNext]_Cache!cacheVars
  <2>1. Recorded \subseteq Recorded'
    BY <1>9, SeedingAssumption DEF Delivered, SeedTypes, Keys, Recorded, subgraphVars
  <2> QED
    BY <1>0, <1>9, <2>1 DEF Delivered, readVars
<1>10. ASSUME NEW h \in Ids, SubgraphDelivers(h) PROVE [Cache!CacheNext]_Cache!cacheVars
  BY <1>10 DEF SubgraphDelivers, Recorded, storeVars, readVars
<1>11. CASE UNCHANGED vars
  BY <1>11 DEF vars, Recorded
<1> QED
  BY <1>1, <1>2, <1>3, <1>4, <1>5, <1>6, <1>7, <1>8, <1>9, <1>10, <1>11 DEF Next, Reads

\* MechSeeding implements AskedCache: a read returns every request recorded,
\* those before the migration included, or fails.
THEOREM ImplementsCache == Spec => ActsAsCache
BY CacheInitially, CacheStep, SeedInvariant, PTL DEF Spec, ActsAsCache, Cache!CacheSpec

-----------------------------------------------------------------------------
(* The end of a read *)

\* The sizes the steps left are counted by.
LEMMA ReadSizes ==
    ASSUME NEW T \in SUBSET Ids
    PROVE  /\ Cardinality(T) \in Nat /\ Cardinality(Ids) \in Nat
           /\ Cardinality(T) <= Cardinality(Ids)
           /\ \A h \in T : Cardinality(T \ {h}) = Cardinality(T) - 1
<1>1. IsFiniteSet(Ids)
  BY SeedingAssumption
<1>2. IsFiniteSet(T) /\ Cardinality(T) <= Cardinality(Ids)
  BY <1>1, FS_Subset
<1> QED
  BY <1>1, <1>2, FS_CardinalityType, FS_RemoveElement

\* What ReadsAdvance asks of a step.
Advances ==
    /\ StepsLeft' <= StepsLeft
    /\ Reads \/ RoundEnds => StepsLeft' < StepsLeft
    /\ pc' = "idle" /\ reply' # Listed => faults' = faults + 1 \/ AllMalformed

\* A reply that came without a usable row was all malformed.
LEMMA LossMeans == SeedTypes /\ Loss => AllMalformed
<1> SUFFICES ASSUME SeedTypes, Loss PROVE AllMalformed
  OBVIOUS
<1>1. PICK h \in Ids : kind[h] # "missing"
  BY DEF Loss, History
<1>2. \A g \in Ids : kind[g] \in {"missing", "malformed"}
  BY DEF Loss, Convertible, SeedTypes, RowKinds
<1> QED
  BY <1>1, <1>2 DEF AllMalformed

\* A step that ends the read is one of these: it listed the rows, it cost a
\* fault, or there was nothing usable.
LEMMA ReadEnds ==
    ASSUME SeedTypes, pc # "idle", pc' = "idle",
           reply' = Listed \/ Charge(1) \/ AllMalformed
    PROVE  Advances
<1>1. StepsLeft' = 0
  BY DEF StepsLeft
<1>2. Cardinality(Ids) \in Nat /\ Cardinality(todo) \in Nat
  BY ReadSizes DEF SeedTypes
<1>3. StepsLeft \in Nat /\ StepsLeft > 0
  BY <1>2 DEF StepsLeft, SeedTypes, Steps
<1> QED
  BY <1>1, <1>3 DEF Advances, Charge

\* Every step within a read advances it.
LEMMA ReadStep ==
    ASSUME SeedTypes, Next, pc # "idle"
    PROVE  Advances
<1>0. /\ Cardinality(Ids) \in Nat /\ Cardinality(todo) \in Nat
      /\ \A h \in todo : Cardinality(todo \ {h}) = Cardinality(todo) - 1
  BY ReadSizes DEF SeedTypes
<1>1. ASSUME ReadMarker PROVE Advances
  <2>1. CASE Fails /\ Charge(1)
    BY <2>1, ReadEnds DEF Fails
  <2>2. CASE pc = "marker" /\ pc' \in {"list", "query"}
    BY <1>0, <2>2 DEF Advances, StepsLeft
  <2> QED
    BY <1>1, <2>1, <2>2 DEF ReadMarker
<1>2. ASSUME QuerySubgraph PROVE Advances
  <2>1. CASE Fails /\ (Charge(1) \/ Loss)
    BY <2>1, LossMeans, ReadEnds DEF Fails
  <2>2. CASE pc' \in {"mark", "rows"} /\ todo' = Convertible
    <3>1. Cardinality(Convertible) \in Nat /\ Cardinality(Convertible) <= Cardinality(Ids)
      BY ReadSizes DEF Convertible
    <3>2. pc = "query" /\ Cardinality(todo') = Cardinality(Convertible)
      BY <1>2, <2>2 DEF QuerySubgraph
    <3>3. StepsLeft = Cardinality(Ids) + 3
      BY <3>2 DEF StepsLeft
    <3>4. StepsLeft' = 2 \/ StepsLeft' = Cardinality(Convertible) + 2
      BY <2>2, <3>2 DEF StepsLeft
    <3> QED
      BY <1>0, <2>2, <3>1, <3>3, <3>4 DEF Advances
  <2> QED
    BY <1>2, <2>1, <2>2 DEF QuerySubgraph
<1>3. ASSUME NEW h \in Ids, NEW ok \in BOOLEAN, WriteRow(h, ok) PROVE Advances
  <2>1. CASE ~ ok /\ Fails
    BY <1>3, <2>1, ReadEnds DEF WriteRow, Fails
  <2>2. CASE pc' = (IF todo = {h} THEN "mark" ELSE "rows")
    <3>1. pc = "rows" /\ h \in todo /\ todo' = todo \ {h}
      BY <1>3 DEF WriteRow
    <3>2. Cardinality(todo') = Cardinality(todo) - 1 /\ Cardinality(todo') \in Nat
      BY <1>0, <3>1, ReadSizes DEF SeedTypes
    <3>3. StepsLeft = Cardinality(todo) + 2
      BY <3>1 DEF StepsLeft
    <3>4. StepsLeft' = 2 \/ StepsLeft' = Cardinality(todo') + 2
      BY <2>2 DEF StepsLeft
    <3>5. pc' # "idle"
      BY <2>2
    <3> QED
      BY <1>0, <3>2, <3>3, <3>4, <3>5 DEF Advances
  <2> QED
    BY <1>3, <2>1, <2>2 DEF WriteRow, AfterRow
<1>4. ASSUME WriteMarker PROVE Advances
  <2>1. CASE Fails /\ Charge(1)
    BY <2>1, ReadEnds DEF Fails
  <2>2. CASE pc = "mark" /\ pc' = "list"
    BY <2>2 DEF Advances, StepsLeft
  <2> QED
    BY <1>4, <2>1, <2>2 DEF WriteMarker
<1>5. ASSUME List PROVE Advances
  BY <1>5, ReadEnds DEF List, Fails
<1>6. ASSUME RoundEnds PROVE Advances
  BY <1>6, ReadEnds DEF RoundEnds
<1>7. ASSUME NEW h \in Ids, SubgraphDelivers(h), ~ Reads, ~ RoundEnds PROVE Advances
  <2>1. pc' = pc /\ todo' = todo
    BY <1>7 DEF SubgraphDelivers, seedVars
  <2>2. StepsLeft' = StepsLeft /\ StepsLeft \in Nat
    BY <1>0, <2>1 DEF StepsLeft, SeedTypes, Steps
  <2> QED
    BY <1>7, <2>1, <2>2 DEF Advances
<1> QED
  BY <1>1, <1>2, <1>3, <1>4, <1>5, <1>6, <1>7 DEF Next, Reads, StartRead, Fire, Delivered

\* base.py:643-737: a read ends after no more requests than the history has
\* rows and four, and fails only for a reason.
THEOREM ReadsEnd == Spec => ReadsAdvance
<1>1. SeedInv /\ [Next]_vars
          => [pc # "idle" =>
                 /\ StepsLeft' <= StepsLeft
                 /\ (Reads \/ RoundEnds) => StepsLeft' < StepsLeft
                 /\ pc' = "idle" /\ reply' # Listed
                        => faults' = faults + 1 \/ AllMalformed]_vars
  BY ReadStep DEF SeedInv, Advances
<1> QED
  BY <1>1, SeedInvariant, PTL DEF Spec, ReadsAdvance

=============================================================================
