------------------------ MODULE ResolutionProperties ------------------------
(***************************************************************************)
(* What MarketResolution promises, and what the repository's comments say  *)
(* of it that it does not keep.                                            *)
(***************************************************************************)
EXTENDS MarketResolution

\* The parts of the type invariant: the process's memory, the consensus
\* database with what BuildAnswerTx has read, the kv_store, the ghosts.
MemoryTypeOK ==
    /\ tracked \subseteq Markets /\ work \subseteq Markets /\ skipped \subseteq Markets
    /\ entry \in [Markets -> Entry]

ConsensusTypeOK ==
    /\ selected \in Markets \cup {None}
    /\ response \in [nonce : Nat, result : Answers \cup {Undet, Garbage}]
    /\ tx \in [market : Markets \cup {None}, answer : Answers, bond : Nat,
               maxPrevious : Nat]
    /\ fresh \in [answer : Answers, bond : Nat]
    /\ torn \in BOOLEAN

StoreTypeOK ==
    /\ asked \in [Markets -> SUBSET Nat]
    /\ \A m \in Markets : IsFiniteSet(asked[m])
    /\ cached \in [Markets -> SUBSET Answers]
    /\ issued \in Nat

GhostTypeOK ==
    /\ sent \in [Markets -> Nat]
    /\ lost \in [Markets -> Nat]
    /\ late \subseteq Markets
    /\ staked \in [Markets -> Nat]
    /\ faults \in 0 .. MaxFaults

\* A step that works on a market has one, and build_answer_tx.py:237-360
\* runs on a definitive evaluation.
StepTypeOK ==
    /\ pc \in Steps
    /\ pc \notin {"scan", "select", "reset"} => selected \in Markets
    /\ pc \in {"readBond", "decide"} => entry[selected].evaluation \in Answers
    /\ pc = "settle" => tx.market \in Markets

\* Types of the whole state.
TypeOK ==
    /\ RealitioTypeOK
    /\ MemoryTypeOK
    /\ ConsensusTypeOK
    /\ StoreTypeOK
    /\ GhostTypeOK
    /\ StepTypeOK

\* The promise of evaluate_answers.py:138 and :163 with the one exception the
\* code can make: across restarts, timeouts and purged entries, a market is
\* paid for at most max_mech_retries times, requests from before the
\* migration included, plus once per fire-time write that was given up.
RetryBudget ==
    \A m \in Markets :
        sent[m] > 0 => sent[m] + History[m].asks <= MaxRetries + lost[m]

\* README.md:62 "Mech reuse": no request is paid for a market whose answer
\* the kv_store already holds, whatever was forgotten in between.
NoPaidRepeat ==
    [][\A m \in Markets :
          sent'[m] > sent[m] => cached[m] \cup History[m].answers = {}]_vars

\* scan_markets.py:426-443 takes the first valid evaluation in the order of
\* the row keys, which is arbitrary.  It does not matter: a market never has
\* two answers to choose from, whatever was asked, lost or forgotten.
AnswersAgree ==
    \A m \in Markets :
        cached[m] # {} => History[m].answers = {} /\ Cardinality(cached[m]) = 1

\* build_answer_tx.py:175-225 against scan_markets.py:297-301: as long as the
\* entry lives, a market whose last result was garbage or undeterminable is
\* not asked about again before its retry_after.
CooldownRespected ==
    pc \in {"fired", "request"} /\ selected \in tracked
        => entry[selected].retryAfter <= clock

\* scan_markets.py:241-248: an undeterminable evaluation never outlives the
\* scan that follows it, whichever way that scan ends; evaluate_answers would
\* reuse it for ever and never ask again.
UndetReasked == pc = "evaluate" => entry[selected].evaluation # Undet

\* max_challenge_bond (README.md:61) bounds what the Safe can lose on one
\* market over any escalation: bonds double, so all of them together stay
\* below twice the cap.
StakeBounded == \A m \in Markets : staked[m] <= 2 * MaxBond

\* build_answer_tx.py:227-234: unless preflight mixed two chain states, a
\* challenge that lands displaces another answer; the Safe never raises the
\* bond on the answer it agrees with.
ChallengeDisplaces ==
    [][\A m \in Markets :
          staked'[m] > staked[m] /\ tx.maxPrevious > 0 /\ ~ torn
              => chain[m].answer # tx.answer]_vars

\* build_answer_tx.py:230-233: no transaction is wasted on Realitio's bond check
\* that could have been known to fail.  Though it may wait, be replayed after a
\* restart or rest on scan values, one reverts only if somebody answered since
\* the bond it was made for, or the question has closed.
RevertsOnlyOvertaken ==
    [][pc = "settle" /\ pc' = "reset" /\ staked' = staked /\ faults' = faults
          => \/ chain[tx.market].bond > tx.maxPrevious
             \/ ~ IsOpen(chain[tx.market], clock)]_vars

\* An answer that nobody trusted gave, which the agent has seen as it stands,
\* holds another evaluation against and can afford to challenge.
Disputed(m) ==
    /\ chain[m].bond > 0 /\ chain[m].answerer \notin Trusted
    /\ entry[m].answer = chain[m].answer
    /\ entry[m].bond = chain[m].bond
    /\ entry[m].ts = chain[m].ts
    /\ entry[m].evaluation \in Answers \ {chain[m].answer}
    /\ WithinCap(RequiredBond(chain[m].bond))
    /\ \A balance \in Balances : RequiredBond(chain[m].bond) <= balance

\* It still stands at the end of a cycle that worked on no other market, and the
\* next cycle comes too late.
Missed(m) ==
    /\ pc = "reset" /\ selected \in {None, m}
    /\ clock + 1 = Deadline(chain[m])
    /\ Disputed(m)

\* scan_markets.py:303-319: the cooldown after an earlier transaction, failed,
\* reverted or made against an older answer, delays a challenge but never
\* forfeits it: no dispute is missed in a cycle that had no fault, whatever
\* the cycles before it left in pending_tx.
DisputesRaised ==
    \A k \in 0 .. MaxFaults :
        [](pc = "scan" /\ faults = k
              => [](faults = k => \A m \in Markets : ~ Missed(m)))

\* The agent as the operator of the Safe sees it: README.md:60-62 together.
Ledger == INSTANCE SafeLedger WITH
    best <- [m \in Markets |-> [answer |-> chain[m].answer, bond |-> chain[m].bond]]

\* Whatever is stale, lost, raced or restarted, the agent only makes the moves
\* of SafeLedger: it pays for what is not on record, stakes on what it paid
\* for or has on record (evaluate_answers.py:150-204, build_answer_tx.py:
\* 237-360), and posts the least bond Realitio takes.
KeepsLedger == Ledger!LedgerSpec

\* README.md:60 "processes the highest-priority market each cycle": no market
\* waits for ever behind another.  Each ends up answered, or with its retries
\* used up and no answer to show for them: the retry limit that the scan applies
\* to an entry with an answer as well (scan_markets.py:296-302) withholds none,
\* not even that of the last request, unless a fault kept it from being posted
\* in its own cycle.
EventuallyResolved ==
    \A m \in Markets :
        <>[]( \/ chain[m].bond > 0
              \/ /\ entry[m].retries >= MaxRetries
                 /\ entry[m].evaluation \in Answers => faults > 0 )

-----------------------------------------------------------------------------
(* Claims of the repository that the code does not keep *)

\* evaluate_answers.py:136-138: "the next cycle may re-fire this market,
\* bounded by max_mech_retries".
SentWithinRetries == \A m \in Markets : sent[m] <= MaxRetries

\* scan_markets.py:186-190: late deliveries "are still picked up".
LateDeliveryUsed ==
    pc = "select" =>
        \A m \in (work \cap late) \ skipped : entry[m].evaluation # None

\* scan_markets.py:354 and :143-147: a subgraph error yields None and the
\* scan leaves the DB alone, so a market still pending keeps its entry.
PendingNeverPurged ==
    [][pc = "select" => \A m \in tracked \ tracked' : indexed[m].bond > 0]_vars

\* README.md:54 and :108: an answer by a trusted address is authoritative; a
\* scan that has seen it does not act on the market.
TrustedNotSelected ==
    [][pc = "select" /\ pc' = "evaluate" =>
          LET e == entry[selected'] IN
          ~ /\ chain[selected'].answerer = "trusted"
            /\ e.answer # None
            /\ e.bond = chain[selected'].bond]_vars

\* scan_markets.py:477-484: the mech_retries tiebreaker keeps one market from
\* winning every cycle, so one that can be asked about gets its turn.
EveryTitledMarketServed ==
    \A m \in Markets \ Untitled :
        <>[](chain[m].bond > 0 \/ entry[m].retries >= MaxRetries)

\* build_answer_tx.py:227-234 without the exception: preflight keeps the
\* agent from "defending an already-correct answer".
NeverDefends ==
    [][\A m \in Markets :
          staked'[m] > staked[m] /\ tx.maxPrevious > 0
              => chain[m].answer # tx.answer]_vars

=============================================================================
