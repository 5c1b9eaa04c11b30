----------------------------- MODULE HealthCheck -----------------------------
(***************************************************************************)
(* Time, the rounds' timeouts, and the verdict of GET /healthcheck on the  *)
(* service of RoundVotes.  Time is counted in ticks; the configured times  *)
(* are rounded up to whole ticks.                                          *)
(***************************************************************************)
EXTENDS RoundVotes

CONSTANTS
    RoundTime,       \* round_timeout_seconds
    PauseTime,       \* reset_pause_duration
    Margin,          \* MARGIN
    MechTime,        \* mech_interact_round_timeout_seconds
    SettleTime,      \* the longer of validate_timeout and history_check_timeout
    StallTolerance,  \* blocks_stall_tolerance
    MaxElapsed       \* bound: where time stops being counted

ASSUME HealthAssumption ==
    /\ {RoundTime, PauseTime, Margin, MechTime, SettleTime, StallTolerance} \subseteq Nat
    /\ MaxElapsed \in Nat /\ MaxElapsed > 3 * PauseTime

VARIABLES
    elapsed,  \* ticks since the last transition
    quiet,    \* ticks since the last block
    started   \* a round transition has been recorded

timeVars == <<elapsed, quiet, started>>

serviceVars == <<votingVars, timeVars>>

\* event_to_timeout of the composed app.  Registration has no timeout, and
\* TxSettlement stands for its longest round.
TimeoutOf(r) ==
    CASE r = "Registration" -> MaxElapsed + 1
      [] r = "ResetAndPause" -> PauseTime + Margin
      [] r = "TxSettlement" -> SettleTime
      [] r \in MechSteps -> MechTime
      [] OTHER -> RoundTime

\* Mutation: the factor is left out.
StallLimitOnce == PauseTime

\* LIVENESS_STALL_FACTOR times the expected pause.
StallLimit == 3 * PauseTime

IsTmUnhealthy == quiet > StallTolerance

\* Mutation: the clock of the blocks is asked, not that of the transitions.
LivenessOfBlocks == started /\ ~ IsTmUnhealthy

LivenessOk == started /\ ~ IsTmUnhealthy /\ elapsed <= StallLimit

\* is_healthy and the reason reported with it.
IsHealthy == LivenessOk

LiveReason ==
    IF ~ started THEN "no-fsm-data"
    ELSE IF LivenessOk THEN "ok"
    ELSE IF IsTmUnhealthy THEN "tm-unhealthy"
    ELSE "stuck-no-transition"

ServiceInit == VotesInit /\ elapsed = 0 /\ quiet = 0 /\ started = FALSE

\* A tick passes with blocks or without one.  The first block after a round's
\* deadline ends the round.
Blocks(r) == elapsed < TimeoutOf(r)

Tick ==
    /\ elapsed' = IF elapsed < MaxElapsed THEN elapsed + 1 ELSE elapsed
    /\ \/ Blocks(round) /\ quiet' = 0
       \/ quiet' = IF quiet <= StallTolerance THEN quiet + 1 ELSE quiet
    /\ UNCHANGED <<votingVars, started>>

\* A payload arrives in a block.
VoteInBlock ==
    /\ Blocks(round)
    /\ \E a \in Agents : Vote(a)
    /\ quiet' = 0 /\ UNCHANGED <<elapsed, started>>

\* A transition is made in a block.  Votes decide a voting round before its
\* deadline, its timeout ends it after.
TransitionInBlock ==
    /\ \/ Blocks(round) /\ (Decide \/ NoMajority)
       \/ ~ Blocks(round) /\ TimesOut
       \/ Elsewhere
       \/ NextPeriod
    /\ elapsed' = 0 /\ quiet' = 0 /\ started' = TRUE

AgentRestarts ==
    (\E a \in Agents : Restart(a)) /\ UNCHANGED timeVars

ServiceNext == AgentRestarts \/ Tick \/ VoteInBlock \/ TransitionInBlock

\* Time passes; nothing is assumed of the rounds.
ServiceSpec == ServiceInit /\ [][ServiceNext]_serviceVars /\ WF_serviceVars(Tick)

-----------------------------------------------------------------------------
\* Types of the whole service.
ServiceTypeOK ==
    /\ VotesTypeOK
    /\ elapsed \in 0 .. MaxElapsed
    /\ quiet \in 0 .. StallTolerance + 1
    /\ started \in BOOLEAN

\* handlers.py:93, :346-355 and event_to_timeout: an FSM that waits within the
\* timeout of a round is not called stuck, unless that timeout itself is
\* longer than the stall limit or the blocks have stopped.
StuckOnlyInLongRounds ==
    LiveReason = "stuck-no-transition" => TimeoutOf(round) > 3 * PauseTime \/ quiet > 0

\* handlers.py:291-294: a frozen FSM cannot read as healthy.  If transitions
\* stop, for whatever reason, the verdict turns unhealthy for good.
FrozenNoticed == []<>(elapsed = 0) \/ <>[]~ IsHealthy

\* The converse, as far as finitely many rounds of a period fail: an agent
\* that stays healthy completes one period after another.  No legal outcome of
\* the rounds leads round in circles without passing the pause, which would
\* keep the verdict green for good (composition.py:79-108).
HealthyCompletesPeriods == <>[]IsHealthy => []<>(round = "ResetAndPause")

=============================================================================
