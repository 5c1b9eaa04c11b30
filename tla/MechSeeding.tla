----------------------------- MODULE MechSeeding ------------------------------
(***************************************************************************)
(* The rows of one (safe, market) pair in the kv_store: how the requests   *)
(* from before the migration get there (behaviours/base.py,                *)
(* _ensure_market_seeded), how each scan reads them, and how requests and  *)
(* deliveries are added (evaluate_answers.py, build_answer_tx.py).  Each   *)
(* kv_store or subgraph request is a step; it may fail, and the round may  *)
(* end while it is under way.                                              *)
(*                                                                         *)
(* A row is its nonce and its delivery.  Of the delivery only what         *)
(* parse_mech_response and is_cached_evaluation_valid make of it counts:   *)
(* a definitive answer, or no usable evaluation.                           *)
(***************************************************************************)
EXTENDS Naturals, FiniteSets, Sequences

CONSTANTS
    Ids,            \* subgraph ids of the requests before the migration
    Nonces,         \* nonces of the requests since
    Answers,        \* definitive answers
    NoAnswer,       \* a delivery that is garbage, null or undeterminable
    Absent,         \* no such row
    NotRead, Unreadable,
    MaxDeliveries,  \* bound: deliveries of one request before the migration
    MaxFaults       \* bound: failed requests and rounds that end in one

ASSUME SeedingAssumption ==
    /\ IsFiniteSet(Ids) /\ Ids \cap Nonces = {}
    /\ NoAnswer \notin Answers /\ Absent \notin Answers \cup {NoAnswer}
    /\ MaxDeliveries \in Nat /\ MaxFaults \in Nat

VARIABLES
    kind,        \* kind[h]: whether request h exists and what it is
    deliveries,  \* deliveries[h]: what the subgraph lists, oldest first
    rows,        \* rows[k]: the row's delivery, or Absent
    marker,      \* the seed marker is stored
    pc,          \* the await fetch_mech_requests_for_market is at
    todo,        \* the rows of the subgraph's reply still to be written
    batch,       \* batch[h]: the delivery chosen for row h
    reply,       \* the nonces the last read returned
    found,       \* its evaluation
    fired,       \* the nonces paid for
    served,      \* ghost: usable answers the subgraph's last reply held
    faults

subgraphVars == <<kind, deliveries>>
storeVars == <<rows, marker>>
seedVars == <<todo, batch, served>>
readVars == <<reply, found>>
vars == <<kind, deliveries, rows, marker, pc, todo, batch, reply,
          found, fired, served, faults>>

\* malformed: no id or no timestamp.  otherTool: not mech_tool_resolve_market.
RowKinds == {"missing", "malformed", "otherTool", "ours"}
Keys == Ids \cup Nonces
Delivery == [dated : BOOLEAN, verdict : Answers \cup {NoAnswer}]
Cells == Answers \cup {NoAnswer, Absent}
Steps == {"idle", "marker", "query", "rows", "mark", "list"}

Charge(n) == faults + n <= MaxFaults /\ faults' = faults + n

Init ==
    /\ kind \in [Ids -> RowKinds]
    /\ deliveries = [h \in Ids |-> <<>>]
    /\ rows = [k \in Keys |-> Absent]
    /\ marker = FALSE
    /\ pc = "idle"
    /\ todo = {} /\ batch = [h \in Ids |-> NoAnswer]
    /\ reply = NotRead /\ found = NoAnswer
    /\ fired = {} /\ served = {}
    /\ faults = 0

-----------------------------------------------------------------------------
(* Reading *)

History == {h \in Ids : kind[h] # "missing"}
Convertible == {h \in Ids : kind[h] \in {"otherTool", "ours"}}

Usable(ds) == {i \in DOMAIN ds : ds[i].dated /\ ds[i].verdict \in Answers}

\* Mutation: a request without a usable delivery gets no row.
SeededNothing(ds) ==
    IF Usable(ds) = {} THEN Absent
    ELSE ds[CHOOSE i \in Usable(ds) : \A j \in Usable(ds) : i <= j].verdict

\* Mutation: the earliest dated delivery, whatever it says.
SeededEarliest(ds) ==
    LET dated == {i \in DOMAIN ds : ds[i].dated}
    IN  IF dated = {} THEN NoAnswer
        ELSE ds[CHOOSE i \in dated : \A j \in dated : i <= j].verdict

\* pick_earliest_usable_seed_delivery: the first delivery with a definitive
\* answer and a timestamp.  Its two fallbacks both give a row without an answer.
Seeded(ds) ==
    IF Usable(ds) = {} THEN NoAnswer
    ELSE ds[CHOOSE i \in Usable(ds) : \A j \in Usable(ds) : i <= j].verdict

\* Mutation: rows of another tool count as requests of ours.
ListedAll == {k \in Keys : rows[k] # Absent}

\* Rows of another tool are stored and filtered when read.
Listed == {k \in Keys : rows[k] # Absent /\ (k \in Ids => kind[k] = "ours")}

\* _earliest_valid_evaluation; rows are listed by key, so any may come first.
Evaluations ==
    LET definitive == {rows[k] : k \in Listed} \cap Answers
    IN  IF definitive = {} THEN {NoAnswer} ELSE definitive

\* A read that fails returns None: the scan holds the market out.
Fails ==
    /\ reply' = Unreadable /\ found' = NoAnswer
    /\ pc' = "idle"

StartRead ==
    /\ pc = "idle"
    /\ pc' = "marker"
    /\ reply' = NotRead /\ found' = NoAnswer
    /\ UNCHANGED <<subgraphVars, storeVars, seedVars, fired, faults>>

ReadMarker ==
    /\ pc = "marker"
    /\ \/ pc' = (IF marker THEN "list" ELSE "query") /\ Charge(0) /\ UNCHANGED readVars
       \/ Fails /\ Charge(1)
    /\ UNCHANGED <<subgraphVars, storeVars, seedVars, fired>>

\* Mutation: one malformed row fails the seeding.
LossStrict == History # Convertible

\* Mutation: a market without a history counts as one that lost it.
LossFresh == Convertible = {}

\* Rows came and none is usable: no marker, or it would hide the history.
Loss == History # {} /\ Convertible = {}

\* The reply is converted row by row; an error or a non-list is a failure.
QuerySubgraph ==
    /\ pc = "query"
    /\ \/ Fails /\ Charge(1) /\ UNCHANGED seedVars
       \/ Fails /\ Charge(0) /\ Loss /\ UNCHANGED seedVars
       \/ /\ ~ Loss /\ Charge(0)
          /\ todo' = Convertible
          /\ batch' = [h \in Ids |-> Seeded(deliveries[h])]
          /\ served' = UNION {{deliveries[h][i].verdict : i \in Usable(deliveries[h])} :
                                 h \in {g \in Ids : kind[g] = "ours"}}
          /\ pc' = IF Convertible = {} THEN "mark" ELSE "rows"
          /\ UNCHANGED readVars
    /\ UNCHANGED <<subgraphVars, storeVars, fired>>

\* Mutation: a row that could not be written is passed over.
AfterRowOn(h, ok) ==
    /\ pc' = IF todo = {h} THEN "mark" ELSE "rows"
    /\ UNCHANGED readVars

\* A failed write ends the seeding; the next scan starts it over.
AfterRow(h, ok) ==
    \/ ~ ok /\ Fails
    \/ ok /\ pc' = (IF todo = {h} THEN "mark" ELSE "rows") /\ UNCHANGED readVars

\* One upsert.  One that reports a failure may have been applied.
WriteRow(h, ok) ==
    /\ pc = "rows" /\ h \in todo
    /\ Charge(IF ok THEN 0 ELSE 1)
    /\ todo' = todo \ {h}
    /\ \/ rows' = [rows EXCEPT ![h] = batch[h]]
       \/ ~ ok /\ UNCHANGED rows
    /\ AfterRow(h, ok)
    /\ UNCHANGED <<subgraphVars, marker, batch, served, fired>>

WriteMarker ==
    /\ pc = "mark"
    /\ \/ Charge(0) /\ marker' = TRUE /\ pc' = "list" /\ UNCHANGED readVars
       \/ Charge(1) /\ marker' \in {marker, TRUE} /\ Fails
    /\ UNCHANGED <<subgraphVars, rows, seedVars, fired>>

List ==
    /\ pc = "list"
    /\ \/ Charge(0) /\ reply' = Listed /\ found' \in Evaluations /\ pc' = "idle"
       \/ Fails /\ Charge(1)
    /\ UNCHANGED <<subgraphVars, storeVars, seedVars, fired>>

\* The generator is dropped; a write under way may still be applied.
RoundEnds ==
    /\ pc # "idle"
    /\ Charge(1)
    /\ rows' \in {rows} \cup {[rows EXCEPT ![h] = batch[h]] :
                                 h \in IF pc = "rows" THEN todo ELSE {}}
    /\ marker' \in {marker, marker \/ pc = "mark"}
    /\ pc' = "idle"
    /\ UNCHANGED <<subgraphVars, seedVars, readVars, fired>>

-----------------------------------------------------------------------------
(* Adding requests and deliveries *)

\* The scan selected the market and evaluate_answers pays for a request; the
\* fire-time row may be lost.
Fire(n) ==
    /\ pc = "idle" /\ n \notin fired
    /\ reply \notin {NotRead, Unreadable} /\ found = NoAnswer
    /\ fired' = fired \cup {n}
    /\ \/ Charge(0) /\ rows' = [rows EXCEPT ![n] = NoAnswer]
       \/ Charge(1) /\ UNCHANGED rows
    /\ reply' = NotRead /\ found' = NoAnswer
    /\ UNCHANGED <<subgraphVars, marker, pc, seedVars>>

\* build_answer_tx writes the whole row, with the delivery.
Delivered(n) ==
    /\ pc = "idle" /\ reply = NotRead
    /\ n \in fired /\ rows[n] \notin Answers
    /\ \E verdict \in Answers \cup {NoAnswer} : rows' = [rows EXCEPT ![n] = verdict]
    /\ UNCHANGED <<subgraphVars, marker, pc, seedVars, readVars, fired, faults>>

\* The Mech answers an old request on chain.
SubgraphDelivers(h) ==
    /\ kind[h] # "missing" /\ Len(deliveries[h]) < MaxDeliveries
    /\ \E d \in Delivery : deliveries' = [deliveries EXCEPT ![h] = Append(@, d)]
    /\ UNCHANGED <<kind, storeVars, pc, seedVars, readVars, fired, faults>>

Reads ==
    \/ StartRead \/ ReadMarker \/ QuerySubgraph
    \/ \E h \in Ids, ok \in BOOLEAN : WriteRow(h, ok)
    \/ WriteMarker \/ List

Next ==
    \/ Reads \/ RoundEnds
    \/ \E n \in Nonces : Fire(n) \/ Delivered(n)
    \/ \E h \in Ids : SubgraphDelivers(h)

Spec == Init /\ [][Next]_vars

\* Scans keep coming and their requests return.
FairSpec == Spec /\ WF_vars(Reads)

-----------------------------------------------------------------------------
(* Properties *)

TypeOK ==
    /\ kind \in [Ids -> RowKinds] /\ deliveries \in [Ids -> Seq(Delivery)]
    /\ rows \in [Keys -> Cells] /\ marker \in BOOLEAN
    /\ pc \in Steps
    /\ todo \subseteq Ids
    /\ batch \in [Ids -> Answers \cup {NoAnswer}]
    /\ reply \in (SUBSET Keys) \cup {NotRead, Unreadable}
    /\ found \in Answers \cup {NoAnswer}
    /\ fired \subseteq Nonces /\ served \subseteq Answers
    /\ faults \in 0 .. MaxFaults

\* base.py:643-646: the marker is stored only once every row of the history
\* is, whichever writes failed, were applied unseen or were cut short.
MarkerLast == marker => \A h \in Convertible : rows[h] # Absent

\* mech_cache.py:36-44: to its reader the store behaves as if the history had
\* always been in it: a read returns every request recorded, the old ones
\* included, or it fails.
Recorded == {h \in Ids : kind[h] = "ours"} \cup {n \in Nonces : rows[n] # Absent}

Cache == INSTANCE AskedCache WITH recorded <- Recorded

ActsAsCache == Cache!CacheSpec

\* base.py:222-239: no request is paid for a market when the subgraph served a
\* definitive answer for it while it was seeded, nor when one was delivered
\* and stored since.
AnswersNotRebought ==
    [][fired' # fired =>
          served = {} /\ \A n \in Nonces : rows[n] \notin Answers]_vars

\* The history came and not one row of it can be converted.
AllMalformed ==
    /\ \E h \in Ids : kind[h] = "malformed"
    /\ \A h \in Ids : kind[h] \in {"missing", "malformed"}

\* base.py:728-736: unless all of its history is malformed, a market does not
\* stay unreadable.
EventuallyReadable == AllMalformed \/ <>[](reply # Unreadable)

\* The requests a read makes yet, at most.
StepsLeft ==
    CASE pc = "idle"   -> 0
      [] pc = "marker" -> Cardinality(Ids) + 4
      [] pc = "query"  -> Cardinality(Ids) + 3
      [] pc = "rows"   -> Cardinality(todo) + 2
      [] pc = "mark"   -> 2
      [] pc = "list"   -> 1

\* base.py:643-737: a read ends, seeding included, whatever the history and
\* whenever the subgraph adds to it, and it holds the market out only if a
\* request failed, the round ended or the whole history is malformed: one bad
\* row among good ones, or a history of another tool, does not.
ReadsAdvance ==
    [][pc # "idle" =>
          /\ StepsLeft' <= StepsLeft
          /\ (Reads \/ RoundEnds) => StepsLeft' < StepsLeft
          /\ pc' = "idle" /\ reply' # Listed => faults' = faults + 1 \/ AllMalformed]_vars

=============================================================================
