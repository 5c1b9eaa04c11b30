# Market resolver: TLA+ models, checks and proofs

The market resolver is an Open Autonomy service that answers and challenges Realitio questions of
Omen prediction markets. It asks an oracle (a Mech) for an evaluation, pays for each request, and
puts up bonds from a Safe. What can go wrong is slow and expensive: a request paid for twice, a
bond on the wrong side, a market that is never looked at again. The models here follow the code in
`src/packages/valory/skills`; *RM* is `market_resolution_manager_abci`, *MR* is
`market_resolver_abci`.

## 1. The system

### Components

| Component | State | Operations | Correct when |
|---|---|---|---|
| **Resolution core** (RM `behaviours/scan_markets.py`, `evaluate_answers.py`, `build_answer_tx.py`) | `questions_db` on the shared state (memory of the process), `selected_market_id`, `mech_requests`, `mech_responses`, `tx_hash` in consensus | scan: fetch, purge, upsert, cache refresh, classify, select; evaluate: reuse, retry limit, fire-time row, request; build: match the response, cooldowns, preflight, bond, transaction | a market is paid for a bounded number of times and never when its answer is known; the Safe's stake is bounded; no bond goes to an answer the agent agrees with; no challenge it could make is forfeited; every market gets its turn |
| **kv_store call path** (RM `behaviours/base.py`, `handlers.py`, `models.py`) | `in_flight_req`, `req_to_callback` | send, poll, watchdog, retry, LIST walk, handle a reply | one call behaves as one operation; no reply ends another call's wait; each call ends |
| **Mech cache** (RM `mech_cache.py`, `_ensure_market_seeded`) | kv_store rows, the seed marker of a (safe, market) pair | seed from the Mech subgraph once, read, record a request, record a delivery | a read returns the whole history or fails; a known answer is not bought again |
| **Composed FSM** (MR `composition.py`, RM `rounds.py`, `post_transaction.py`) | current round, `tx_submitter` | recovery chain, core, MechInteract, TxSettlement, PostTransaction multiplexer, reset | the chain runs in order; a settled transaction resumes the flow it was made for; a period ends |
| **Realitio and subgraphs** (external) | best answer, bond, answerer, time; indexed copies | answers of others, our answers, indexing | assumed: the accept rule of `submitAnswer` |
| **Votes** (RM `rounds.py`, `payloads.py`, framework) | the payloads of a round, one per agent; the nonce each agent waits for | send a payload, threshold, no majority, timeout | the votes, in whatever order, lead nowhere the composed FSM does not; a request that is paid for carries a nonce that the agents wait for, unless they restarted |
| **Health check** (MR `handlers.py`, `models.py`) | time of the last transition, blocks, timeouts of the rounds | `GET /healthcheck` | no legal wait is called stuck; a frozen FSM is not called healthy; a healthy one ends its periods |
| Dialogue and package wiring, recovery skills' inner steps | – | – | not modelled (section 8) |

### How they interact

```
Registration -> IdentifyServiceOwner -> FundsForwarder -> FpmmRemoveLiquidity
   -> CtRedeemTokens -> RealitioWithdrawBonds -> ScanMarkets -> EvaluateAnswers
   -> [MechInteract] -> BuildAnswerTx -> ResetAndPause -> IdentifyServiceOwner ...
every transaction:  round -> TxSettlement -> PostTransaction -> (by tx_submitter) next round
```

Behaviours are generators that the agent's loop resumes; each `yield from` is a point where anything
else may happen. The three durable or shared things are the kv_store (rows survive restarts and
period resets), the chain (others write to it as well) and `questions_db` (lost with the process).
`scan_markets` works on a shallow copy of `questions_db`: added and purged keys take effect at
`_send_payload`, writes into existing entries at once. The kv_store is reached through one boolean
flag and a dictionary of callbacks; a round that ends drops the waiting generator and cleans up
neither.

### What is hard

* **Awaits as interleaving points.** The chain moves between scan, preflight and settlement; the
  preflight itself is two requests.
* **Partial failure.** Either Omen query, the answerer query, any row read or write, either
  preflight read may fail alone, and the code goes on with what it has.
* **Restarts and timeouts.** Rounds time out at any await; a restart forgets retry counts,
  cooldowns and nonces. Only rows written so far limit what is paid for next.
* **Late, lost and repeated replies** of the kv_store behind one flag; writes reported failed that
  were applied.
* **Two sources of history.** The subgraph (requests from before the migration) and the rows, with
  a one-time seeding that can be cut anywhere.
* **One market per cycle.** Any market that cannot progress can starve the others.
* **A multiplexer keyed by a string.** Six flows come back through `PostTransaction`.
* **Agents that differ.** Each agent has a `questions_db` and draws a nonce of its own; what they
  agree on is a payload, in any order of votes, while each may restart.
* **A verdict from the outside.** The health check sees only when the last transition was.

`PROJECT.json` lists every hazard with the line where it bites.

## 2. Modules

| Module | Models | Uses |
|---|---|---|
| `Realitio` | the bond game, the Omen index that lags behind it, the clock | – |
| `MarketEntry` | a `questions_db` entry; status, gates, sort key, bonds, cooldowns as operators | `Realitio` |
| `MarketResolution` | the agent's cycle, action by action between awaits, with faults and restarts | `MarketEntry` |
| `SafeLedger` | abstract: what the operator of the Safe may rely on – payments, answers on record, stakes – with no rounds, entries or restarts | – |
| `ResolutionProperties` | what the cycle promises, and the claims it does not keep; the mapping to `SafeLedger` | `MarketResolution`, `SafeLedger` |
| `MC_Resolution` | small instances for TLC | `ResolutionProperties` |
| `KvOperation` | abstract: a kv_store call is one operation | – |
| `KvGate` | the flag, the callbacks, the watchdog, retries and LIST pages; implements `KvOperation` | `KvOperation` |
| `AskedCache` | abstract: the requests of a market as a set that grows, read whole or not at all | – |
| `MechSeeding` | the rows of one market, seeding, reading, firing, delivering; implements `AskedCache` | `AskedCache` |
| `ResolverFSM` | the composed rounds and the multiplexer, each round as decided | – |
| `RoundVotes` | the skill's four rounds as votes of several agents, with restarts; implements `ResolverFSM` | `ResolverFSM` |
| `HealthCheck` | time, blocks and timeouts around `RoundVotes`, and the verdict on them | `RoundVotes` |
| `MC_Service` | one agent or four, for TLC | `HealthCheck` |
| `MarketResolutionProofs`, `BudgetProofs`, `AnswerProofs`, `BondProofs`, `LedgerProofs` | theorems about the cycle, and that it implements `SafeLedger` | `ResolutionProperties` |
| `SeedingProofs`, `GateProofs` | theorems about the seeding and the kv_store path | `MechSeeding`, `KvGate` |
| `ServiceProofs` | theorems about the composed rounds, the votes and the health check | `HealthCheck` |

The layers fit together as an assumption and its discharge. `MarketResolution` treats a kv_store
write as landed or lost and a read of a market as whole or failed; `KvGate` shows the first from the
wire up, `MechSeeding` the second from single requests up. `MarketResolution` treats the rounds
around the core as steps that succeed or end the cycle; `ResolverFSM` shows where they lead, and
`RoundVotes` that several agents, voting, can take them nowhere else. `MarketResolution` follows one
agent: `RoundVotes` has what agents may disagree on.

### State and actions of `MarketResolution`

`pc` is the await the agent is at. `tracked`/`work` are the key sets of `questions_db` and of the
scan's copy, `entry` the entries both refer to; `selected`, `response`, `tx` are consensus data;
`asked`/`cached` are the rows: nonces, and usable answers. `sent`, `lost`, `late`, `staked` and
`torn` are ghosts that only properties read.

| Actions | Code |
|---|---|
| `ScanSync`, `ScanSelect`, `ScanTimeout` | `scan_markets.py` `async_act`: steps 1–6 up to the balance read, step 7 with `_send_payload`, and a round that ends before that |
| `Evaluate`, `EvaluateFire`, `FireWrite`, `EvaluateTimeout` | `evaluate_answers.py`: early returns and reuse; retry count and nonce; the fire-time row |
| `MechPaid`, `MechNotSent`, `MechDelivers`, `MechTimeout` | external, by the composition's mappings |
| `BuildMatched`, `BuildUnmatched`, `BuildCooldown`, `PreflightAnswer`, `PreflightBond`, `BuildNothing`, `BuildTx`, `BuildTimeout` | `build_answer_tx.py`, one action per await |
| `SettleLands`, `SettleFails`, `Wait`, `Reset`, `Restart` | settlement and pause (external), a process restart |

Abstractions: markets, answers and nonces are model values or numbers; prompts, JSON, GraphQL, urls
and logs are left out; `status` is recomputed by each scan before it is read, so it is an operator;
`escalation_count` is only compared with 0, so `pending` stands for it. The clock is
`last_synced_timestamp`; it advances with each cycle and may advance while the agent waits for the
Mech or for settlement.

### The others

* `KvGate`: `caller` is the generator that polls, `requests`/`replies` the wire. `Watchdog` is the
  timeout branch of `_wait_for_kv_reply`; `Handle` is `KvStoreHandler.handle`; `RoundEnds` drops
  the caller and leaves `callbacks` and `inFlight` as they are, as the code does.
* `MechSeeding`: one (safe, market) pair. `ReadMarker`, `QuerySubgraph`, `WriteRow`, `WriteMarker`,
  `List` are the awaits of `fetch_mech_requests_for_market`; each may fail. The initial state
  chooses any kind of old request: missing, malformed, of another tool, ours. `SubgraphDelivers`
  lets late on-chain deliveries appear at any time.
* `ResolverFSM`: a degenerate round and its mapping are one step. `owner` is a ghost: the flow whose
  transaction is being settled, to compare with what `tx_submitter` makes of it.
* `RoundVotes`: `votes` is the collection of the current round, `holds` what each agent's entry held
  when it evaluated (its own nonce, an evaluation, nothing), `requested` the nonce in
  `mech_requests`. A nonce is the agent that drew it, so no two agents can send the same request and
  with more than one agent a request needs a threshold that one agent meets. That is how the code
  is: with the service's one agent each request is agreed, with four none is, the round ends without
  a majority, and only answers that the kv_stores already hold are used. `Decide`, `NoMajority` and
  `TimesOut` are the three ends of a round; `Transitions` is the skill's table with the composition's
  mapping of its final rounds. `Restart` empties the `questions_db` of one agent.
* `HealthCheck`: `elapsed` and `quiet` count ticks since the last transition and the last block,
  `TimeoutOf` is what `SharedState.setup` configures. A voting round is decided before its deadline
  and timed out by the first block after it; rounds of other skills end at any time.

## 3. Runs

Properties that hold:

| Run | Asks | Bounds and why they suffice |
|---|---|---|
| `budget` | `TypeOK`, `RetryBudget`, `CooldownRespected`, `UndetReasked`, `AnswersAgree`, `NoPaidRepeat`, `KeepsLedger` | one market (the properties are per market; the selection is `progress`'s subject); `max_mech_retries` 3 with one request from before the migration, so both counts matter; two faults anywhere: a lost row and a restart, or two timeouts; an affordable and an unaffordable balance; cooldowns shorter than the run; one of the others' bonds, so that a challenge exists |
| `bonds` | `StakeBounded`, `ChallengeDisplaces`, `RevertsOnlyOvertaken`, `DisputesRaised` | bonds 1, 2, 4 with a cap of 4, the ratio of the defaults 0.01 and 0.04 xDAI: the full escalation 1–2–4 and one bond beyond; a balance that covers them all, so that only the cap holds the agent back; one fault: preflight falls back to scan values, a settlement fails; a challenge cooldown of 2 ticks of the answer timeout of 3, so that it outlasts the time that is left, and an urgency buffer of one tick, which is one cycle (the default is 3600 s) |
| `progress` | `EventuallyResolved` | two markets, the least at which one can starve the other; no other answerers (they would resolve a market) and so one answer, the one preflight can mistake for none; two requests each, since after a transaction that reverts the second one must come; cooldowns 0, since the clock stops at its bound and a cooldown past it would never elapse; one fault |
| `gate` | `TypeOK`, `WaitsForItsReply`, `CallsAdvance`, `OperationSpec` | three nonces, so that a reused nonce can meet an old reply; three attempts as in the code; two pages, one more than a walk needs to be partial; one lost reply; one round end |
| `seeding` | `TypeOK`, `MarkerLast`, `ActsAsCache`, `AnswersNotRebought`, `ReadsAdvance`, `EventuallyReadable` | two old and two new requests, two deliveries each: first unusable, then usable, in any order; one fault at any await |
| `fsm` | `ServiceTypeOK`, `PaidAnswerUsable`, `StuckOnlyInLongRounds`, `FollowsFsm`, `ChainInOrder`, `ResumesOwner`, `PeriodsEnd`, `FrozenNoticed`, `HealthyCompletesPeriods` | all rounds; one agent, as in `service.yaml`, or four, the fewest of which a part can decide; three faults in each period, the number of steps of the recovery chain; deposits are charged too; the times of `service.yaml` in ticks of 150 s, rounded up: the pause 2, its margin 1, the Mech 8, the settlement 9, and a round 2, one more than its 60 s take, for time to pass in it before its timeout; time is counted to 9 ticks, beyond the stall limit of 6 |

Claims of the repository that the code does not keep, each a counterexample TLC finds:

| Run | Claim | What happens |
|---|---|---|
| `overspent` | `evaluate_answers.py:136-138`: a re-fire is "bounded by max_mech_retries" | a fire-time write is given up, the entry is lost, the request is not counted; `RetryBudget` states the bound that does hold, one more per lost write |
| `late` | `scan_markets.py:186-190`: late deliveries "are still picked up" | no code writes a delivery after the response round has timed out |
| `purged` | `scan_markets.py:354`: the fetch returns `None` on a subgraph error | it returns `[]`; the scan purges every market of the query with its cooldown |
| `trusted` | `README.md:54`, `:108`: an answer by a trusted address is authoritative | a failed answerer batch hides who answered |
| `starved` | `scan_markets.py:477-484`: the retry count rotates the selection | an untitled market is refused before its count grows and wins for ever |
| `defends` | `build_answer_tx.py:227-234`: preflight avoids "defending an already-correct answer" | an answer between preflight's two reads; `ChallengeDisplaces` states what holds otherwise |

Every property of the passing runs has a mutant in `PROJECT.json`: a plausible bug in the code's
place (a dropped guard, a wrong comparison, a missed clean-up) under which TLC finds it violated.

Some of the results deserve a word.

`DisputesRaised` is about the cooldown in `scan_markets.py:303-319`. It reads `pending_tx`, which is
set before the settlement, kept when that fails, and not tied to the answer it was made against; so
a challenge of a newer answer may be put off for the sake of an older transaction. The property says
that this never costs the challenge: from the start of a scan on, as long as no fault occurs, no
cycle that worked on no other market ends one tick before the deadline of an answer that the agent
has seen as it stands, evaluates differently and can afford to challenge. What carries it is the
urgency buffer, and only if a cycle fits into it. A market that loses its turn to another one is
excepted, and so is an answer that the subgraph does not serve yet.

`EventuallyResolved` lets a market end unanswered only with its retries used up and no answer in its
entry. The exception is a behaviour with a fault: the retry limit of `scan_markets.py:296-302` also
gates entries that hold an answer, so one that came with the last request and was not posted in that
cycle (preflight, settlement or the round failed) is kept back by the counter.

`PaidAnswerUsable` counts an agent that restarted after its vote among those that hold the nonce. The
restarted agent's own request comes to nothing; `RetryBudget` bounds what is paid for that. With four
agents the property says little: no two send the same nonce, so nothing is requested at all.

`ChainInOrder` lets a failed settlement end the period in the middle of the recovery chain, as
`composition.py:102` does; what may not happen is that the core runs in a period whose chain is not
complete. `PeriodsEnd` and `HealthyCompletesPeriods` charge an off-chain deposit like a fault:
nothing in the composition bounds how often a request may ask for another one.

`StuckOnlyInLongRounds` makes an exception for rounds whose own
timeout is longer than the stall limit, and with the service's values that exception is used: the
stall limit is 3 * 300 s, while the Mech's rounds may wait for 1200 s and the settlement's for
1205 s, so a service that waits for a slow Mech as it should is reported `stuck-no-transition`.
`HealthyCompletesPeriods` is about behaviours in which finitely many rounds of a period fail. A
scan that takes longer than `round_timeout_seconds` each time starts again for ever, and each timeout
is a transition that keeps the verdict green; the docstring of `_handle_get_health` leaves such a
stall to a later version.

## 4. Fairness

* `MarketResolution`: `WF(Agent)` – the agent's loop keeps resuming the current behaviour, and each
  round ends by its payload or its timeout. `WF(SubgraphIndexes(m))` – the indexer does not stall for
  ever. Nothing is assumed of other answerers, of `Restart` or of `Wait`.
* `KvGate`: `WF(Behaviour)` – polling goes on, so the watchdog fires. `WF(Wire)` – the connection's
  loop and the handler run; replies may be lost all the same.
* `MechSeeding`: `WF(Reads)` – scans come back and their requests return, with a result or a failure.
* `HealthCheck`: `WF(Tick)` – time passes, with or without blocks. Nothing is assumed of the rounds,
  the agents or the blocks: whether transitions come is what the verdict is about. Faults and
  deposits are bounded in each period; a behaviour at the bound that has nothing else to do appears
  as one whose transitions have stopped.

Each bound is a constant named in its module (`MaxTime`, `MaxNonce`, `MaxFaults`, `MaxLosses`,
`MaxRoundEnds`, `MaxDeliveries`, `MaxElapsed`). `MaxTime` stops the clock and no longer the agent. Deadlock is
checked in every run.

## 5. Proofs

TLAPS checks these for every value of the constants that satisfies the `ASSUME`s
(`RealitioAssumption`, `EntryAssumption`, `ResolutionAssumption`, `SeedingAssumption`,
`KvGateAssumption`, `FsmAssumption`, `VotesAssumption`, `HealthAssumption`): any set of markets, any
bonds, any limits, any finite committee, any configured times, any number of faults.

| Theorem | Says |
|---|---|
| `MarketResolutionProofs!TypeCorrect` | `Spec => []TypeOK` |
| `MarketResolutionProofs!ScanChooses` | `Spec => []`: whatever is actionable, some market comes first, and by the key's comment: answered, soonest deadline, fewest retries |
| `BudgetProofs!BudgetKept` | `Spec => []RetryBudget` |
| `AnswerProofs!UndetNotReused` | `Spec => []UndetReasked` |
| `AnswerProofs!CooldownKept` | `Spec => []CooldownRespected` |
| `AnswerProofs!OneAnswer` | `Spec => []AnswersAgree` |
| `AnswerProofs!NoAnswerPaidTwice` | `Spec => NoPaidRepeat` |
| `BondProofs!StakeKept` | `Spec => []StakeBounded` |
| `BondProofs!ChallengesDisplace` | `Spec => ChallengeDisplaces` |
| `LedgerProofs!ImplementsLedger` | `Spec => KeepsLedger`: `MarketResolution` implements `SafeLedger` |
| `LedgerProofs!RevertsOvertaken` | `Spec => RevertsOnlyOvertaken` |
| `LedgerProofs!DisputesTakenUp` | `UrgencyBuffer >= 1` implies `Spec => DisputesRaised` |
| `LedgerProofs!LedgerSuffices` | `KeepsLedger => []RetryBudget /\ []StakeBounded /\ NoPaidRepeat`: the abstract ledger says enough |
| `GateProofs!GateTypes` | `Spec => []TypeOK` of `KvGate` |
| `GateProofs!OwnReplyOnly` | `Spec => WaitsForItsReply` |
| `GateProofs!CallIsOperation` | the safety part of `Spec => OperationSpec`: each step of `KvGate` is a step of `KvOperation` or a stutter |
| `GateProofs!CallsEnd` | `Spec => CallsAdvance` |
| `SeedingProofs!SeedingTypes` | `Spec => []TypeOK` of `MechSeeding` |
| `SeedingProofs!MarkerComesLast` | `Spec => []MarkerLast` |
| `SeedingProofs!NoAnswerRebought` | `Spec => AnswersNotRebought` |
| `SeedingProofs!ReadsEnd` | `Spec => ReadsAdvance` |
| `SeedingProofs!ImplementsCache` | `Spec => ActsAsCache`: `MechSeeding` implements `AskedCache` |
| `ServiceProofs!FsmTypes` | `Spec => []TypeOK` of `ResolverFSM` |
| `ServiceProofs!RecoveryInOrder` | `Spec => ChainInOrder` |
| `ServiceProofs!OwnerResumed` | `Spec => ResumesOwner` |
| `ServiceProofs!PeriodEnds` | `Spec => PeriodsEnd` |
| `ServiceProofs!RequestUsable` | `ServiceSpec => []PaidAnswerUsable` |
| `ServiceProofs!ImplementsFsm` | `ServiceSpec => FollowsFsm`: the voting service implements `ResolverFSM` |
| `ServiceProofs!ServiceResumes` | `ServiceSpec => ChainInOrder /\ ResumesOwner /\ PeriodsEnd`, from the refinement |
| `ServiceProofs!ServiceTypes` | `ServiceSpec => []ServiceTypeOK` |
| `ServiceProofs!StuckIsLong` | `ServiceSpec => []StuckOnlyInLongRounds` |

**Types.** `TypeOK` is inductive with one strengthening inside it, `StepTypeOK`: a step that works on
a market has one, and preflight runs only with a definitive evaluation in the entry. Without it the
bond and the transaction could be built from a null evaluation.

**Retry budget.** `mech_retries` dies with the process and with a purge, so it cannot carry the
argument. `BudgetInv` moves it to the kv_store. `PaidHaveRows`: a payment has a row or a lost write
behind it. `RowsCounted`: between the scan and the payment, the market has counted its rows, then
holds a nonce that has no row yet, then has a row (or a loss) to spare. `NoncesIssued`: rows and
deliveries carry nonces that were drawn, hence a fresh nonce adds a row to the set instead of
overwriting one. Dropping `PaidHaveRows` loses the link from rows to payments; dropping
`RowsCounted` loses the guard by the time the payment is made.

**Stake.** `StakeBounded` alone is not inductive: nothing would keep the next bond small. `BondInv`
adds `StakeBehindBond` (all the Safe has put up on a market is at most twice the bond in place, since
each accepted bond at least doubles the one before, whoever posted it) and `TxWithinCap`.

**Answers.** `AnswerInv` follows a market from the scan to the payment. `ScanDropsUndet`: what a scan
works on holds no undeterminable evaluation. `HasWaited`: once selected without an evaluation, its
`retry_after` has passed (the clock does not move in between). `AskedForNeed`: such a market has no
answer in the rows, and neither has one that was just found undeterminable, since the scan would
have taken the answer. From this follow all four theorems: a delivery is stored only for a market
without an answer, so no market gets two.

**Challenges.** `ShownInv` rests on bonds that only grow. `Shown(answer, bond, m)` says of a pair that
the question has been in that state: it is overtaken or still true. The index, the entry from the
scan to the decision, the first read of the preflight and, for `max_previous`, the transaction keep
it through other parties' answers; `Realitio` refuses a transaction that is overtaken. A preflight
whose reads fall into two states (`torn`) breaks the link, which is the `defends` run.

**The ledger.** `SafeLedger` decides whether a payment or a stake is allowed when it happens; the agent
decided on it rounds earlier, from an entry that a restart, a timeout or a lagging subgraph may have
left behind. `LedgerInv` says what of that decision still holds, beside the invariants of the budget,
the answers and the bonds. `RequestsPaid`: a delivery, and each answer in the rows, was paid for.
`EvaluationsBacked`: what an entry holds as its evaluation, and what a transaction carries, was paid
for and agrees with the record. `BondsSeen`: bonds seen earlier are no larger than the one in place,
hence a transaction that Realitio accepts posts the opening bond or exactly twice the bond in place,
and one that it refuses was overtaken or came too late (`RevertsOnlyOvertaken`).
Each step of the cycle is then a `Pay`, `GiveUpRow`, `Store`, `Stake`, `Outbid` or a stutter. The
mapping is the identity on four of the five variables and shows of the question its answer and bond.
`LedgerSuffices` closes the circle: its hypothesis is `KeepsLedger` alone, its invariant
`LedgerHolds` only speaks of the ledger, so `SafeLedger` is not an empty promise.

**Disputes.** `DisputesTakenUp` needs the invariants of the ledger and the challenges, `IndexNamed` (the
subgraph names the answerer of the answer it serves) and, from the start of a scan to the next fault,
`RaisedSoFar`: the scan held no market out and took nobody for trusted who is not, the selected
market stays tracked, and a transaction is made for the bond its entry shows. Each way a cycle can
end then contradicts a missed dispute: the selection finds it urgent (`DisputedActionable`), the
evaluation is there, the decision finds it affordable, and a settlement that fails was refused by
Realitio, which takes a bond twice the one in place while the question is open. The theorem is of the
form "from a scan without faults", so the proof carries `faults >= k /\ (faults = k => RaisedSoFar)`
and uses that faults only grow. The hypothesis is the assumption the buffer exists for; without
a buffer the conclusion is false: with 0 in `bonds.cfg`, TLC finds a missed dispute.

**The selection.** `Before` is a strict order of the entries (`BeforeStrict`); the well-ordering of the
naturals gives every non-empty set a first market (`SomeFirst`), which is what `actionable[0]` relies
on. No theorem says that each market gets its turn: `starved` is the counterexample.

**The kv_store path.** `OwnTraffic`: what is on the wire under a nonce of the call that waits is a
request of its kind or a reply that is true of its operation. `OneCallback`: until a round ends in a
call, only the call that waits has a callback, and a lowered flag means it has its reply. With both,
each step maps to one of `KvOperation`. `TurnInLimit`: the turn is one the call may take, and a write
that sleeps has one left. With it `StepsToEnd`, two for each turn that is left and one or two for the
present one, falls with each step of the behaviour and never rises (`CallsAdvance`): whatever the
connection does, a call makes at most two steps for each of its turns.

**Seeding.** `SeedInv` is `SeedTypes`, `SeedProgress` (outside the rows step, whatever was to be
written is written; `marker` implies all of it), `ServedInBatch` (a usable answer the subgraph served
is in the batch, and in the row once written) and `FoundNothing` (a read that found no answer was
made of rows that hold none). `SeededKeepsEarliest` shows from the well-ordering of the
naturals that `pick_earliest_usable_seed_delivery` finds a usable delivery whenever there is one.
The refinement maps `recorded` to the old requests of ours together with the rows of the new ones:
seeding is a stutter of the abstract cache, because to a reader the history was always there.
`ReadsAdvance` rests on the finite number of old requests (the subgraph's page): the rows still to be
written are a subset of them, so `StepsLeft` falls with every request of a read, at most four more
than there are rows, and a read that fails had a fault or an unusable history behind it.

**Rounds.** `FsmInv` is the types, `SubmitterOwns` (`tx_submitter` names the flow whose transaction is
being settled) and `WalkedSoFar`: the recovery rounds each round has behind it. TxSettlement and
PostTransaction belong to every flow, so for them `WalkedSoFar` goes by the owner; without that the
order of the chain is lost at the first transaction. `ChainInOrder` speaks of each step into a
recovery round and of each into a round of `Core`, which must have the whole chain behind it. The theorems hold for any number of faults in a
period. `PeriodsEnd` needs no more than the types: `RoundsLeft` is the number of rounds to the
pause if nothing fails, a round that does not fail lowers it, and one that does adds at most two
(`WayStep`), so `LongestWay` falls with every round. An untroubled period is 26 rounds at
most, with all its transactions; an off-chain deposit is charged like a fault.

**Votes.** `VotesInv` is `FsmInv`, the types, `PayloadsFit` (the votes of a round are payloads
of that round, and an `EvaluateAnswers` vote is what the agent holds), `RequestSoFar` (where a request
has been agreed; the shared rounds go by `tx_submitter`, as in `FsmInv`) and `RequestHeld` (enough
agents hold the nonce, or lost it in a restart). The refinement is the identity on the rounds; its
work is in showing that the quorum's payload leads where `ResolverFSM` allows.

**Time.** `TimeInv` is the clocks' types and one fact: while blocks come, the time in a round does not
exceed its timeout.

**Only model-checked.** Liveness: `EventuallyResolved`, `EventuallyReadable`, `FrozenNoticed`,
`HealthyCompletesPeriods` and the fairness part of `OperationSpec` (that every call returns). The
prover handles neither `ENABLED` nor liveness under fairness. The part that is no matter of fairness
is proved for three of them: `ReadsAdvance`, `PeriodsEnd` and `CallsAdvance` bound the steps, and what
TLC adds is that the steps are taken. `FrozenNoticed` is about time alone; `EventuallyResolved` would
need a variant over a market's whole life. The prover cannot do induction over data or `RECURSIVE`
definitions either; none is used here.

## 6. Assumptions about code outside the repository

`submitAnswer` accepts an answer if the question is open, the bond at least doubles the one in place
and, when `max_previous` is not 0, the bond in place does not exceed it. The Omen subgraph serves
some earlier state of a question and catches up; Realitio's subgraph, which names the answerer, may
be ahead of it. MechInteract delivers for the nonce that was requested, times out, or reports that
nothing was sent. TxSettlement validates a transaction or fails. The kv_store applies an upsert
atomically, and keeps it. The framework drops the generator of a behaviour whose round has ended,
and no key of the skill survives `ResetAndPause`.
The framework's `consensus_threshold` is two thirds of the participants rounded down, plus one (no
other value is configured); a majority is possible while the missing votes could complete one
payload. A block delivers a round's timeout, and the end of a block records the time of a transition.

## 7. Plan

1. *(done)* The resolution cycle: `MarketEntry`, `MarketResolution`; types, budget and stake proved.
2. *(done)* The kv_store path: `KvGate` implements `KvOperation`.
3. *(done)* Seeding: `MechSeeding` implements `AskedCache`, proved.
4. *(done)* The composed FSM: `ResolverFSM`, its safety proved.
5. *(done)* `RoundVotes`: agents, payloads and thresholds; implements `ResolverFSM`, proved.
6. *(done)* `HealthCheck`: the verdict against time, blocks and the rounds' timeouts.
7. *(done)* Theorems about answers, challenges and the kv_store path.
8. *(done)* `SafeLedger`: the promise to the operator in one page, implemented and sufficient, proved.
9. *(done)* Variants: how long a period, a read with its seeding and a kv_store call can be, proved.
10. A variant for one market through the cycles, the part of `EventuallyResolved` that is not a
    matter of fairness.

What is left would need other specifications than these: `MarketResolution` with several agents that
hold different `questions_db`s (its state space is the product of theirs; `RoundVotes` keeps of it
what a payload depends on), and the inner rounds of TxSettlement and MechInteract, whose code is
elsewhere.

## 8. Not modelled

* TxSettlement's rounds one by one: it is one round here, with the longest of its timeouts.
* In the health handler: the routing of HTTP messages, which keeps no state; `readiness` and
  `progress`, which are constants; `is_transitioning_fast` and the other figures that are reported
  and enter no verdict.
* Dialogues, contract wrappers, packages: wiring without behaviour of their own. In
  `MarketResolution` timeouts appear as rounds that may end at any await, in `HealthCheck` with their
  configured length.
* The recovery skills' inner steps, the framework, MechInteract, TxSettlement and the kv_store
  connection are not in the repository; only what `src/` sees of them is modelled, marked external.
* Replies of an unknown performative, wording of prompts, JSON layout, GraphQL paging, HTTP retries,
  the age filter of markets.
* Termination of the service by its background app.
