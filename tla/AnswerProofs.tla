----------------------------- MODULE AnswerProofs -----------------------------
(***************************************************************************)
(* What the agent knows of the answers of a market, for every value of the *)
(* constants: UndetReasked, CooldownRespected, NoPaidRepeat, AnswersAgree. *)
(* The entries are lost with the process and the kv_store is not, so the   *)
(* argument follows the store: wherever the agent is about to ask, to pay  *)
(* or to use what it paid for, the market's rows hold no answer.           *)
(***************************************************************************)
EXTENDS MarketResolutionProofs

\* No row of the market holds a definitive answer.
NoAnswers(m) == cached[m] \cup History[m].answers = {}

\* The scan leaves no undeterminable evaluation to evaluate_answers.
ScanDropsUndet ==
    /\ pc = "select" => \A m \in work : entry[m].evaluation # Undet
    /\ UndetReasked

\* A market on its way to a request has waited for its retry_after.
HasWaited ==
    /\ pc = "evaluate" /\ selected \in tracked /\ entry[selected].evaluation = None
          => entry[selected].retryAfter <= clock
    /\ CooldownRespected

\* What follows a request, from the scan that finds it due to the delivery,
\* concerns a market without an answer; so does an undeterminable evaluation.
AskedForNeed ==
    /\ \A m \in Markets : entry[m].evaluation = Undet => NoAnswers(m)
    /\ pc = "select" =>
          \A m \in work \ skipped : entry[m].evaluation = None => NoAnswers(m)
    /\ pc = "evaluate" /\ selected \in tracked /\ entry[selected].evaluation = None
          => NoAnswers(selected)
    /\ pc \in {"fired", "request", "await"} => NoAnswers(selected)
    /\ pc = "build" /\ Matched => NoAnswers(selected)

\* The inductive invariant.
AnswerInv == ScanDropsUndet /\ HasWaited /\ AskedForNeed /\ AnswersAgree

-----------------------------------------------------------------------------
\* The initial state satisfies it.
LEMMA AnswerInit == Init => AnswerInv
<1> SUFFICES ASSUME Init PROVE AnswerInv
  OBVIOUS
<1>1. \A m \in Markets : entry[m].evaluation # Undet /\ cached[m] = {}
  BY EntryAssumption DEF Init, NewEntry
<1>2. pc = "scan"
  BY DEF Init
<1> QED
  BY <1>1, <1>2
  DEF AnswerInv, ScanDropsUndet, UndetReasked, HasWaited, CooldownRespected,
      AskedForNeed, AnswersAgree

\* Steps after which no request is near, and which neither store an answer
\* nor find an evaluation undeterminable.
LEMMA AnswerAway ==
    ASSUME AnswerInv, cached' = cached,
           pc' \notin {"select", "evaluate", "fired", "request", "await", "build"},
           \A m \in Markets :
              entry'[m].evaluation = Undet => entry[m].evaluation = Undet
    PROVE  AnswerInv'
BY DEF AnswerInv, ScanDropsUndet, UndetReasked, HasWaited, CooldownRespected,
       AskedForNeed, AnswersAgree, NoAnswers

\* An entry dropped from questions_db has no evaluation.
LEMMA KeptEvaluation ==
    ASSUME NEW S, NEW m \in Markets, Kept(S)[m].evaluation = Undet
    PROVE  entry[m].evaluation = Undet
BY EntryAssumption DEF Kept, NewEntry

\* A market the scan found due without an evaluation has waited.
LEMMA DueHasWaited ==
    ASSUME NEW e \in Entry, e.evaluation = None, NEW now, NEW balance,
           Actionable(e, now, balance)
    PROVE  now >= e.retryAfter
<1>1. Status(e) \in {"NEEDS_ANSWER", "NEEDS_VERIFICATION"}
  BY EntryAssumption DEF Actionable, Status, Entry
<1> QED
  BY <1>1 DEF Actionable, RetryGate

\* A cache without a valid evaluation to offer has no answer.
LEMMA NothingFound ==
    ASSUME NEW m \in Markets, None \in CachedEvaluations(m), TypeOK
    PROVE  NoAnswers(m)
<1>1. cached[m] \cup History[m].answers \subseteq Answers
  BY ResolutionAssumption DEF TypeOK, StoreTypeOK
<1>2. None \notin Answers
  BY RealitioAssumption
<1> QED
  BY <1>1, <1>2 DEF CachedEvaluations, NoAnswers

\* A market the scan has read and left without an evaluation has no answer.
LEMMA SyncFinds ==
    ASSUME TypeOK, AnswerInv, NEW m \in Markets,
           NEW answerer \in Answerers \cup {"nobody"}, NEW found \in CachedEvaluations(m),
           found \in Answers \cup {None},
           SyncedEntry(m, answerer, FALSE, found).evaluation = None
    PROVE  NoAnswers(m)
<1> DEFINE u == Upserted(entry[m], indexed[m], answerer)
<1>1. u \in Entry
  BY UpsertedType DEF TypeOK, MemoryTypeOK, RealitioTypeOK
<1>2. u.evaluation = entry[m].evaluation
  BY DEF Upserted, TypeOK, MemoryTypeOK, Entry
<1>3. RowsOf(m) \in Nat
  BY RowsType
<1>4. Refreshed(u, found, RowsOf(m)).evaluation = None
  BY DEF SyncedEntry
<1> HIDE DEF u
<1>5. CASE u.evaluation = Undet
  BY <1>2, <1>5 DEF AnswerInv, AskedForNeed
<1>6. CASE u.evaluation # Undet
  <2>1. found = None
    BY <1>1, <1>3, <1>4, <1>6, RefreshedType
  <2> QED
    BY <2>1, NothingFound
<1> QED
  BY <1>5, <1>6

\* The scan.
LEMMA AnswerScan ==
    ASSUME TypeOK, AnswerInv, Scan
    PROVE  AnswerInv'
<1>1. CASE ScanSync
  <2>1. PICK fetched \in SUBSET Markets, cost \in {0, 1} :
          \E silent \in SUBSET fetched, ahead \in SUBSET fetched,
             unread \in SUBSET fetched, pick \in [Markets -> Answers \cup {None}] :
                ScanSyncs(fetched, cost, silent, ahead, unread, pick)
    BY <1>1, ScanSyncInputs
  <2>2. PICK silent \in SUBSET fetched, ahead \in SUBSET fetched,
             unread \in SUBSET fetched, pick \in [Markets -> Answers \cup {None}] :
                ScanSyncs(fetched, cost, silent, ahead, unread, pick)
    BY <2>1
  <2>3. /\ work' = fetched /\ skipped' = unread /\ pc' = "select" /\ cached' = cached
        /\ \A m \in Markets : pick[m] \in CachedEvaluations(m)
        /\ entry' = [m \in Markets |->
              IF m \in fetched
              THEN SyncedEntry(m, AnswererSeen(m, silent, ahead), m \in unread, pick[m])
              ELSE entry[m]]
    BY <1>1, <2>2 DEF ScanSync, ScanSyncs, kvVars
  <2>4. \A m \in fetched : entry'[m].evaluation # Undet
    BY <2>2, ScanSyncEntries
  <2>5. ASSUME NEW m \in Markets, entry'[m].evaluation = Undet
        PROVE  NoAnswers(m)'
    <3>1. entry'[m] = entry[m]
      BY <2>3, <2>4, <2>5
    <3> QED
      BY <2>3, <2>5, <3>1 DEF AnswerInv, AskedForNeed, NoAnswers
  <2>6. ASSUME NEW m \in fetched \ unread, entry'[m].evaluation = None
        PROVE  NoAnswers(m)'
    <3>1. m \in Markets /\ (m \in unread) = FALSE
      BY <2>6
    <3>2. entry'[m] = SyncedEntry(m, AnswererSeen(m, silent, ahead), m \in unread, pick[m])
      BY <2>3, <3>1
    <3>3. SyncedEntry(m, AnswererSeen(m, silent, ahead), FALSE, pick[m]).evaluation = None
      BY <2>6, <3>1, <3>2
    <3>4. NoAnswers(m)
      BY <2>3, <3>1, <3>3, AnswererType, SyncFinds
    <3> QED
      BY <2>3, <3>4 DEF NoAnswers
  <2> QED
    BY <2>3, <2>4, <2>5, <2>6
    DEF AnswerInv, ScanDropsUndet, UndetReasked, HasWaited, CooldownRespected,
        AskedForNeed, AnswersAgree
<1>2. CASE ScanTimeout
  <2>1. pc' = "scan" /\ cached' = cached /\ entry' = Kept(tracked)
    BY <1>2 DEF ScanTimeout, kvVars
  <2> QED
    BY <2>1, KeptEvaluation, AnswerAway
<1>3. CASE ScanSelect
  <2>1. cached' = cached /\ entry' = Kept(work) /\ tracked' = work /\ clock' = clock
        /\ pc = "select"
    BY <1>3 DEF ScanSelect, kvVars, realitioVars
  <2>2. CASE pc' = "reset"
    BY <2>1, <2>2, KeptEvaluation, AnswerAway
  <2>3. CASE pc' = "evaluate"
    <3>1. PICK balance \in Balances :
            selected' \in {m \in work \ skipped : Actionable(entry[m], clock, balance)}
      BY <1>3, <2>3 DEF ScanSelect, First
    <3>2. selected' \in Markets /\ entry[selected'] \in Entry
      BY <3>1 DEF TypeOK, MemoryTypeOK
    <3>3. entry'[selected'] = entry[selected']
      BY <2>1, <3>1, <3>2, KeptType
    <3>4. entry[selected'].evaluation # Undet
      BY <2>1, <3>1 DEF AnswerInv, ScanDropsUndet
    <3>5. entry[selected'].evaluation = None =>
             entry[selected'].retryAfter <= clock /\ NoAnswers(selected')
      <4>1. entry[selected'].evaluation = None => clock >= entry[selected'].retryAfter
        BY <3>1, <3>2, DueHasWaited
      <4>2. entry[selected'].evaluation = None => NoAnswers(selected')
        BY <2>1, <3>1 DEF AnswerInv, AskedForNeed
      <4>3. clock \in Int /\ entry[selected'].retryAfter \in Int
        BY <3>2 DEF TypeOK, RealitioTypeOK, Entry
      <4> QED
        BY <4>1, <4>2, <4>3
    <3>6. \A m \in Markets : entry'[m].evaluation = Undet => NoAnswers(m)
      BY <2>1, KeptEvaluation DEF AnswerInv, AskedForNeed
    <3> QED
      BY <2>1, <2>3, <3>3, <3>4, <3>5, <3>6
      DEF AnswerInv, ScanDropsUndet, UndetReasked, HasWaited, CooldownRespected,
          AskedForNeed, AnswersAgree, NoAnswers
  <2> QED
    BY <1>3, <2>2, <2>3 DEF ScanSelect
<1> QED
  BY <1>1, <1>2, <1>3 DEF Scan

\* EvaluateAnswers asks about the market the scan found due.
LEMMA AnswerEvaluate ==
    ASSUME TypeOK, AnswerInv, EvaluateAnswers
    PROVE  AnswerInv'
<1>1. CASE Evaluate
  <2>1. /\ pc = "evaluate" /\ pc' \in {"reset", "build"}
        /\ UNCHANGED <<cached, entry, selected, tracked, response>>
        /\ pc' = "build" => selected \in tracked /\ entry[selected].evaluation # None
    BY <1>1 DEF Evaluate, CannotAsk, kvVars, memoryVars, consensusVars
  <2> QED
    BY <2>1
    DEF AnswerInv, ScanDropsUndet, UndetReasked, HasWaited, CooldownRespected,
        AskedForNeed, AnswersAgree, NoAnswers, Matched
<1>2. CASE EvaluateFire
  <2>1. /\ pc = "evaluate" /\ pc' = "fired" /\ selected \in tracked
        /\ entry[selected].evaluation = None
        /\ UNCHANGED <<cached, selected, tracked, clock>>
        /\ WithEntry([entry[selected] EXCEPT !.retries = @ + 1, !.nonce = issued + 1])
    BY <1>2 DEF EvaluateFire, CannotAsk, kvVars, consensusVars, realitioVars
  <2>2. selected \in Markets /\ entry[selected] \in Entry
    BY <2>1 DEF TypeOK, StepTypeOK, MemoryTypeOK
  <2>3. /\ entry'[selected].evaluation = entry[selected].evaluation
        /\ entry'[selected].retryAfter = entry[selected].retryAfter
        /\ \A m \in Markets \ {selected} : entry'[m] = entry[m]
    BY <2>1, <2>2 DEF WithEntry, Entry, TypeOK, MemoryTypeOK
  <2>4. entry[selected].retryAfter <= clock /\ NoAnswers(selected)
    BY <2>1 DEF AnswerInv, HasWaited, AskedForNeed
  <2>5. \A m \in Markets : entry'[m].evaluation = entry[m].evaluation
    BY <2>3
  <2> QED
    BY <2>1, <2>3, <2>4, <2>5
    DEF AnswerInv, ScanDropsUndet, UndetReasked, HasWaited, CooldownRespected,
        AskedForNeed, AnswersAgree, NoAnswers
<1>3. ASSUME NEW landed \in BOOLEAN, FireWrite(landed)
      PROVE  AnswerInv'
  <2>1. /\ pc = "fired" /\ pc' = "request"
        /\ UNCHANGED <<cached, entry, selected, tracked, clock>>
    BY <1>3 DEF FireWrite, memoryVars, consensusVars, realitioVars
  <2> QED
    BY <2>1
    DEF AnswerInv, ScanDropsUndet, UndetReasked, HasWaited, CooldownRespected,
        AskedForNeed, AnswersAgree, NoAnswers
<1>4. CASE EvaluateTimeout
  <2>1. pc' = "reset" /\ UNCHANGED <<cached, entry>>
    BY <1>4 DEF EvaluateTimeout, memoryVars
  <2> QED
    BY <2>1, AnswerAway
<1> QED
  BY <1>1, <1>2, <1>3, <1>4 DEF EvaluateAnswers

\* MechInteract leaves the entries and the store alone.
LEMMA AnswerMech ==
    ASSUME TypeOK, AnswerInv, MechInteract
    PROVE  AnswerInv'
<1>1. UNCHANGED <<cached, entry, tracked, selected>>
  BY DEF MechInteract, MechPaid, MechNotSent, MechDelivers, MechTimeout, kvVars,
         memoryVars, consensusVars
<1>2. \/ pc' = "reset"
      \/ pc' \in {"await", "build"} /\ pc \in {"request", "await"}
  BY DEF MechInteract, MechPaid, MechNotSent, MechDelivers, MechTimeout
<1> QED
  BY <1>1, <1>2
  DEF AnswerInv, ScanDropsUndet, UndetReasked, HasWaited, CooldownRespected,
      AskedForNeed, AnswersAgree, NoAnswers

\* The one answer of a market is stored.
LEMMA AnswerMatched ==
    ASSUME TypeOK, AnswerInv, NEW landed \in BOOLEAN, BuildMatched(landed)
    PROVE  AnswerInv'
<1> DEFINE r == response.result
<1>1. /\ selected \in Markets /\ pc = "build" /\ pc' = "judge"
      /\ entry[selected] \in Entry /\ entry[selected].evaluation = None
      /\ NoAnswers(selected)
      /\ cached \in [Markets -> SUBSET Answers]
      /\ r \in Answers \cup {Undet, Garbage}
  BY DEF BuildMatched, Matched, TypeOK, StepTypeOK, MemoryTypeOK, StoreTypeOK,
         ConsensusTypeOK, AnswerInv, AskedForNeed
<1>2. /\ cached' \in {cached, [cached EXCEPT ![selected] = @ \cup ({r} \cap Answers)]}
      /\ WithEntry([entry[selected] EXCEPT !.evaluation = IF r = Garbage THEN @ ELSE r])
  BY DEF BuildMatched
<1>3. /\ entry'[selected].evaluation = IF r = Garbage THEN None ELSE r
      /\ \A m \in Markets \ {selected} : entry'[m] = entry[m]
  BY <1>1, <1>2 DEF WithEntry, Entry, TypeOK, MemoryTypeOK
<1>4. /\ cached'[selected] \in {{}, {r} \cap Answers}
      /\ \A m \in Markets \ {selected} : cached'[m] = cached[m]
  BY <1>1, <1>2 DEF NoAnswers
<1>5. History[selected].answers = {}
  BY <1>1 DEF NoAnswers
<1>6. ASSUME NEW m \in Markets, entry'[m].evaluation = Undet
      PROVE  NoAnswers(m)'
  <2>1. CASE m = selected
    <3>1. r \notin Answers
      BY <1>3, <1>6, <2>1, EntryAssumption
    <3> QED
      BY <1>4, <1>5, <2>1, <3>1 DEF NoAnswers
  <2>2. CASE m # selected
    <3>1. NoAnswers(m)
      BY <1>3, <1>6, <2>2 DEF AnswerInv, AskedForNeed
    <3> QED
      BY <1>4, <2>2, <3>1 DEF NoAnswers
  <2> QED
    BY <2>1, <2>2
<1>7. ASSUME NEW m \in Markets, cached'[m] # {}
      PROVE  History[m].answers = {} /\ Cardinality(cached'[m]) = 1
  <2>1. CASE m = selected
    <3>1. cached'[m] = {r}
      BY <1>4, <1>7, <2>1
    <3> QED
      BY <1>5, <2>1, <3>1, FS_Singleton
  <2>2. CASE m # selected
    BY <1>4, <1>7, <2>2 DEF AnswerInv, AnswersAgree
  <2> QED
    BY <2>1, <2>2
<1> QED
  BY <1>1, <1>6, <1>7
  DEF AnswerInv, ScanDropsUndet, UndetReasked, HasWaited, CooldownRespected,
      AskedForNeed, AnswersAgree

\* The rest of BuildAnswerTx changes no evaluation.
LEMMA AnswerBuild ==
    ASSUME TypeOK, AnswerInv, BuildAnswerTx
    PROVE  AnswerInv'
<1>1. ASSUME NEW landed \in BOOLEAN, BuildMatched(landed)
      PROVE  AnswerInv'
  BY <1>1, AnswerMatched
<1>2. CASE BuildUnmatched \/ PreflightAnswer \/ BuildNothing \/ BuildTimeout
  <2>1. /\ pc' \in {"judge", "readBond", "decide", "reset"}
        /\ UNCHANGED <<cached, entry>>
    BY <1>2 DEF BuildUnmatched, PreflightAnswer, BuildNothing, BuildTimeout, kvVars,
                memoryVars
  <2> QED
    BY <2>1, AnswerAway
<1>3. CASE BuildCooldown \/ PreflightBond \/ BuildTx
  <2>1. /\ pc \in {"judge", "readBond", "decide"} /\ pc' \in {"decide", "settle", "reset"}
        /\ cached' = cached
    BY <1>3 DEF BuildCooldown, PreflightBond, BuildTx, kvVars
  <2>2. selected \in Markets /\ entry[selected] \in Entry /\ entry \in [Markets -> Entry]
    BY <2>1 DEF TypeOK, StepTypeOK, MemoryTypeOK
  <2>3. \A m \in Markets : entry'[m].evaluation = entry[m].evaluation
    <3>1. ASSUME NEW e, entry' = [entry EXCEPT ![selected] = e],
                 e.evaluation = entry[selected].evaluation
          PROVE  \A m \in Markets : entry'[m].evaluation = entry[m].evaluation
      BY <2>2, <3>1
    <3>2. CASE BuildCooldown
      <4>1. PICK t :
              entry' = [entry EXCEPT ![selected] = [entry[selected] EXCEPT !.retryAfter = t]]
        BY <3>2 DEF BuildCooldown, WithEntry
      <4>2. [entry[selected] EXCEPT !.retryAfter = t].evaluation = entry[selected].evaluation
        BY <2>2 DEF Entry
      <4> QED
        BY <4>1, <4>2, <3>1
    <3>3. CASE PreflightBond
      <4>1. CASE entry' = entry
        BY <4>1
      <4>2. CASE entry' # entry
        <5>1. PICK a, b :
                entry' = [entry EXCEPT ![selected] =
                            [entry[selected] EXCEPT !.answer = a, !.bond = b]]
          BY <3>3, <4>2 DEF PreflightBond, WithEntry
        <5>2. [entry[selected] EXCEPT !.answer = a, !.bond = b].evaluation
                = entry[selected].evaluation
          BY <2>2 DEF Entry
        <5> QED
          BY <5>1, <5>2, <3>1
      <4> QED
        BY <4>1, <4>2
    <3>4. CASE BuildTx
      <4>1. entry' = [entry EXCEPT ![selected] =
                          [entry[selected] EXCEPT !.pending = TRUE, !.txTime = clock]]
        BY <3>4 DEF BuildTx, WithEntry
      <4>2. [entry[selected] EXCEPT !.pending = TRUE, !.txTime = clock].evaluation
              = entry[selected].evaluation
        BY <2>2 DEF Entry
      <4> QED
        BY <4>1, <4>2, <3>1
    <3> QED
      BY <1>3, <3>2, <3>3, <3>4
  <2> QED
    BY <2>1, <2>3, AnswerAway
<1> QED
  BY <1>1, <1>2, <1>3 DEF BuildAnswerTx

\* A restart forgets the entries, not the rows.
LEMMA AnswerOther ==
    ASSUME TypeOK, AnswerInv,
           \/ SettleLands \/ SettleFails \/ Reset \/ Others \/ Wait \/ Restart
    PROVE  AnswerInv'
<1>1. CASE SettleLands \/ SettleFails \/ Reset
  <2>1. pc' \in {"reset", "scan"} /\ UNCHANGED <<cached, entry>>
    BY <1>1 DEF SettleLands, SettleFails, Reset, kvVars, memoryVars
  <2> QED
    BY <2>1, AnswerAway
<1>2. CASE Others \/ Wait
  <2>1. /\ UNCHANGED <<pc, tracked, work, skipped, entry, selected, response, cached>>
        /\ pc \in {"await", "settle"} \/ clock' = clock
    BY <1>2 DEF Others, Wait, OtherAnswers, SubgraphIndexes, memoryVars, kvVars,
                consensusVars
  <2> QED
    BY <2>1
    DEF AnswerInv, ScanDropsUndet, UndetReasked, HasWaited, CooldownRespected,
        AskedForNeed, AnswersAgree, NoAnswers, Matched
<1>3. CASE Restart
  <2>1. /\ pc' \in {"reset", Replayed} /\ tracked' = {} /\ selected' = selected
        /\ cached' = cached /\ entry' = [m \in Markets |-> NewEntry]
    BY <1>3 DEF Restart, kvVars, consensusVars
  <2>2. /\ Replayed \notin {"select", "fired"}
        /\ Replayed \in {"request", "await"} => pc = Replayed
        /\ Replayed = "evaluate" => pc \in {"fired", "evaluate"}
    BY DEF Replayed
  <2>3. \A m \in Markets : entry'[m].evaluation # Undet
    BY <2>1, EntryAssumption DEF NewEntry
  <2>4. UndetReasked'
    <3>1. pc' = "evaluate" => selected \in Markets
      BY <2>1, <2>2 DEF TypeOK, StepTypeOK
    <3> QED
      BY <2>1, <2>3, <3>1 DEF UndetReasked
  <2>5. ScanDropsUndet' /\ HasWaited'
    BY <2>1, <2>2, <2>4 DEF ScanDropsUndet, HasWaited, CooldownRespected
  <2>6. pc' \in {"fired", "request", "await"} => NoAnswers(selected)'
    BY <2>1, <2>2 DEF AnswerInv, AskedForNeed, NoAnswers
  <2>7. AskedForNeed'
    BY <2>1, <2>2, <2>3, <2>6 DEF AskedForNeed, Matched
  <2>8. AnswersAgree'
    BY <2>1 DEF AnswerInv, AnswersAgree
  <2> QED
    BY <2>5, <2>7, <2>8 DEF AnswerInv
<1> QED
  BY <1>1, <1>2, <1>3

\* Every step preserves the invariant.
LEMMA AnswerNext == TypeOK /\ AnswerInv /\ [Next]_vars => AnswerInv'
<1> SUFFICES ASSUME TypeOK, AnswerInv, [Next]_vars PROVE AnswerInv'
  OBVIOUS
<1>1. CASE Next
  BY <1>1, AnswerScan, AnswerEvaluate, AnswerMech, AnswerBuild, AnswerOther
  DEF Next, Agent
<1>2. CASE UNCHANGED vars
  BY <1>2 DEF vars, AnswerInv, ScanDropsUndet, UndetReasked, HasWaited,
              CooldownRespected, AskedForNeed, AnswersAgree, NoAnswers, Matched
<1> QED
  BY <1>1, <1>2

\* Only MechPaid pays, and only while the market has no answer.
LEMMA PaidWithoutAnswer ==
    TypeOK /\ AnswerInv /\ [Next]_vars =>
        \A m \in Markets :
            sent'[m] > sent[m] => cached[m] \cup History[m].answers = {}
<1> SUFFICES ASSUME TypeOK, AnswerInv, [Next]_vars, NEW m \in Markets, sent'[m] > sent[m]
             PROVE  NoAnswers(m)
  BY DEF NoAnswers
<1>1. sent[m] \in Nat /\ sent \in [Markets -> Nat]
  BY DEF TypeOK, GhostTypeOK
<1>2. sent' # sent
  BY <1>1
<1>3. MechPaid
  BY <1>2
  DEF Next, vars, Agent, Scan, ScanSync, ScanTimeout, ScanSelect, EvaluateAnswers,
      Evaluate, EvaluateFire, FireWrite, EvaluateTimeout, MechInteract, MechNotSent,
      MechDelivers, MechTimeout, BuildAnswerTx, BuildMatched, BuildUnmatched,
      BuildCooldown, PreflightAnswer, PreflightBond, BuildNothing, BuildTx,
      BuildTimeout, SettleLands, SettleFails, Reset, Others, Wait, Restart, ghostVars
<1>4. m = selected
  BY <1>1, <1>3 DEF MechPaid
<1> QED
  BY <1>3, <1>4 DEF MechPaid, AnswerInv, AskedForNeed

\* The invariant holds in every state.
LEMMA AnswerInvariant == Spec => [](TypeOK /\ AnswerInv)
<1> QED
  BY AnswerInit, AnswerNext, TypeCorrect, PTL DEF Spec

-----------------------------------------------------------------------------
\* scan_markets.py:241-248: an undeterminable evaluation never reaches
\* evaluate_answers, which would reuse it for ever.
THEOREM UndetNotReused == Spec => []UndetReasked
<1>1. AnswerInv => UndetReasked
  BY DEF AnswerInv, ScanDropsUndet
<1> QED
  BY <1>1, AnswerInvariant, PTL

\* scan_markets.py:297-301: no market is asked about before its retry_after.
THEOREM CooldownKept == Spec => []CooldownRespected
<1>1. AnswerInv => CooldownRespected
  BY DEF AnswerInv, HasWaited
<1> QED
  BY <1>1, AnswerInvariant, PTL

\* scan_markets.py:426-443: the valid evaluations of a market never differ, so
\* the order of its rows does not matter.
THEOREM OneAnswer == Spec => []AnswersAgree
<1>1. AnswerInv => AnswersAgree
  BY DEF AnswerInv
<1> QED
  BY <1>1, AnswerInvariant, PTL

\* README.md:62: no request is paid for an answer the kv_store holds.
THEOREM NoAnswerPaidTwice == Spec => NoPaidRepeat
<1> QED
  BY PaidWithoutAnswer, AnswerInvariant, PTL DEF Spec, NoPaidRepeat

=============================================================================
