----------------------------- MODULE RoundVotes -----------------------------
(***************************************************************************)
(* The four rounds of market_resolution_manager_abci as votes.  Each agent *)
(* works on a questions_db of its own and sends one payload; end_block     *)
(* looks for a payload that enough agents sent.  The rest of the service   *)
(* moves as in ResolverFSM.                                                *)
(*                                                                         *)
(* A payload is kept as far as agents differ in it: a nonce is the agent   *)
(* that drew it; agents that select a market, or build a transaction,      *)
(* select or build the same one.                                           *)
(***************************************************************************)
EXTENDS ResolverFSM, FiniteSets

CONSTANTS
    Committees,   \* the sets of agents the service may run with
    None          \* no payload, no request

Agents == UNION Committees

\* Payloads and entries without a nonce.
Words ==
    {"market", "none", "evaluation", "skip", "nothing", "tx"}
        \cup {Content(who) : who \in Submitters}

ASSUME VotesAssumption ==
    /\ \A C \in Committees : IsFiniteSet(C) /\ C # {}
    /\ None \notin Agents
    /\ (Agents \cup {None}) \cap Words = {}

VARIABLES
    participants,  \* the agents of this service
    votes,         \* the payload of each agent in the current round
    holds,         \* what an agent's entry held when it evaluated
    requested      \* mech_requests: the nonce in the consensus database

voteVars == <<participants, votes, holds, requested>>

votingVars == <<vars, voteVars>>

NoVotes == [a \in Agents |-> None]

\* consensus_threshold of n agents.
Threshold(n) == (2 * n) \div 3 + 1

Needed == Threshold(Cardinality(participants))

Voters(v) == {a \in participants : votes[a] = v}

Votes == {votes[a] : a \in participants} \ {None}

\* Mutation: requests are counted whatever their nonce.
QuorumOfRequests(v) ==
    Cardinality({a \in participants : votes[a] = v \/ {votes[a], v} \subseteq Agents})
        >= Needed

\* threshold_reached with the most voted payload v.
Quorum(v) == Cardinality(Voters(v)) >= Needed

\* is_majority_possible: some payload can still reach the threshold.
MajorityPossible ==
    \/ Votes = {}
    \/ \E v \in Votes : Cardinality(Voters(v)) + Cardinality(Voters(None)) >= Needed

\* transition_function, with the composition's mapping of the final rounds.
Transitions ==
    [ScanMarkets |->
        [DONE |-> "EvaluateAnswers", NONE |-> "ResetAndPause",
         NO_MAJORITY |-> "ScanMarkets", ROUND_TIMEOUT |-> "ScanMarkets"],
     EvaluateAnswers |->
        [DONE |-> "MechVersionDetection", NONE |-> "BuildAnswerTx",
         NO_MAJORITY |-> "ResetAndPause", SKIP |-> "ResetAndPause",
         ROUND_TIMEOUT |-> "ResetAndPause"],
     BuildAnswerTx |->
        [DONE |-> "TxSettlement", NONE |-> "ResetAndPause",
         NO_MAJORITY |-> "ResetAndPause", ROUND_TIMEOUT |-> "ResetAndPause"],
     PostTransaction |->
        [MECH_REQUEST_DONE |-> "MechResponse", ANSWER_TX_DONE |-> "ResetAndPause",
         FUNDS_FORWARDER_TX_DONE |-> "FpmmRemoveLiquidity",
         FPMM_REMOVE_LIQUIDITY_TX_DONE |-> "CtRedeemTokens",
         CT_REDEEM_TOKENS_TX_DONE |-> "RealitioWithdrawBonds",
         REALITIO_WITHDRAW_BONDS_TX_DONE |-> "ScanMarkets",
         OFFCHAIN_DEPOSIT_DONE |-> "MechRequest",
         DONE |-> "ResetAndPause", NONE |-> "ResetAndPause",
         NO_MAJORITY |-> "ResetAndPause", ROUND_TIMEOUT |-> "ResetAndPause"]]

\* Mutation: a redeem sends the chain on past the withdrawal.
AfterSkips(event) ==
    IF event = "CT_REDEEM_TOKENS_TX_DONE" THEN "ScanMarkets" ELSE Transitions[round][event]

\* Mutation: a settled deposit is taken for a settled request.
AfterPolls(event) ==
    IF event = "OFFCHAIN_DEPOSIT_DONE" THEN "MechResponse" ELSE Transitions[round][event]

\* Mutation: nothing to evaluate sends the agents back to the scan.
AfterRescans(event) ==
    IF event = "SKIP" THEN "ScanMarkets" ELSE Transitions[round][event]

\* Mutation: a scan without a majority goes on as one that selected.
AfterGoesOn(event) ==
    IF round = "ScanMarkets" /\ event = "NO_MAJORITY" THEN "EvaluateAnswers"
    ELSE Transitions[round][event]

\* Mutation: a final round is missing from the composition's mapping.
AfterUnmapped(event) ==
    IF event = "MECH_REQUEST_DONE" THEN "FinishedWithMechPoll" ELSE Transitions[round][event]

After(event) == Transitions[round][event]

VotingRounds == DOMAIN Transitions

\* BuildAnswerTx needs an evaluation: one the entry held, or the answer to
\* the agent's own nonce.  An agent that had not evaluated may have either.
BuildPayloads(a) ==
    IF holds[a] \in {"skip", "nothing"} \/ (holds[a] = a /\ requested # a) THEN {"none"}
    ELSE {"none", "tx"}

PostPayloads(a) == {Content(submitter)}

\* The payloads an agent may send.
PayloadsOf(a) ==
    CASE round = "ScanMarkets" -> {"none", "market"}
      [] round = "EvaluateAnswers" -> {a, "evaluation", "skip"}
      [] round = "BuildAnswerTx" -> BuildPayloads(a)
      [] round = "PostTransaction" -> PostPayloads(a)

\* end_block of each round on the most voted payload.
EventOf(v) ==
    CASE round = "EvaluateAnswers" ->
            IF v \in Agents THEN "DONE" ELSE IF v = "evaluation" THEN "NONE" ELSE "SKIP"
      [] round = "PostTransaction" -> v
      [] OTHER -> IF v = "none" THEN "NONE" ELSE "DONE"

VotesInit ==
    /\ Init
    /\ participants \in Committees
    /\ votes = NoVotes /\ holds = NoVotes /\ requested = None

\* An agent's payload is in a block.  When the bound on faults is reached, no
\* vote makes a majority impossible in a round where that is charged.
Vote(a) ==
    /\ round \in VotingRounds
    /\ a \in participants /\ votes[a] = None
    /\ \E v \in PayloadsOf(a) :
          /\ votes' = [votes EXCEPT ![a] = v]
          /\ holds' = IF round = "EvaluateAnswers" THEN [holds EXCEPT ![a] = v] ELSE holds
    /\ UNCHANGED <<vars, participants, requested>>
    /\ faults = MaxFaults /\ round = "ScanMarkets" => MajorityPossible'

\* The process of an agent that awaits an answer restarts, with an empty
\* questions_db.  Elsewhere a restart shows in no payload: any may be "none".
Restart(a) ==
    /\ a \in participants /\ requested # None /\ holds[a] = requested
    /\ holds' = [holds EXCEPT ![a] = "nothing"]
    /\ UNCHANGED <<vars, participants, votes, requested>>

\* The round ends with the event; the next one starts without votes.
Ends(event) ==
    /\ IF round = "BuildAnswerTx" /\ event = "DONE" THEN Submits(round)
       ELSE Goes(After(event))
    /\ votes' = NoVotes
    /\ UNCHANGED <<walked, participants, holds>>

Decide ==
    /\ round \in VotingRounds
    /\ \E v \in Votes :
          /\ Quorum(v)
          /\ Ends(EventOf(v))
          /\ requested' = IF v \in Agents THEN v ELSE requested
    /\ Charge(0)

\* A failure is charged as in ResolverFSM: not where a decision could have
\* ended the period as well.
Cost == IF round \in {"ScanMarkets", "PostTransaction"} THEN 1 ELSE 0

NoMajority ==
    /\ round \in VotingRounds
    /\ ~ \E v \in Votes : Quorum(v)
    /\ ~ MajorityPossible
    /\ Ends("NO_MAJORITY")
    /\ Charge(Cost) /\ UNCHANGED requested

TimesOut ==
    /\ round \in VotingRounds
    /\ Ends("ROUND_TIMEOUT")
    /\ Charge(Cost) /\ UNCHANGED requested

\* The rounds of the other skills.
Elsewhere ==
    /\ \/ Register \/ IdentifyOwner \/ ForwardFunds \/ Mech \/ Settle
       \/ \E step \in Recovery : Recover(step)
    /\ UNCHANGED voteVars

\* The next period starts without the consensus data of this one.
NextPeriod ==
    /\ Reset
    /\ holds' = NoVotes /\ requested' = None
    /\ UNCHANGED <<participants, votes>>

\* A round ends.
Transition == Decide \/ NoMajority \/ TimesOut \/ Elsewhere \/ NextPeriod

VotesNext == Transition \/ \E a \in Agents : Vote(a) \/ Restart(a)

VotesSpec == VotesInit /\ [][VotesNext]_votingVars

-----------------------------------------------------------------------------
\* Types of the votes and of the rounds under them.
VotesTypeOK ==
    /\ TypeOK
    /\ participants \in Committees
    /\ votes \in [Agents -> Agents \cup Words \cup {None}]
    /\ holds \in [Agents -> Agents \cup {"evaluation", "skip", "nothing", None}]
    /\ requested \in Agents \cup {None}

\* evaluate_answers.py:99-147 against build_answer_tx.py:112-121: the nonce a
\* request is paid for is the pending_nonce of enough agents to build the
\* transaction from its answer.  Agents that restarted since are counted with
\* them, though the answer is lost to these.  With four agents no nonce finds a
\* quorum and nothing is requested.
PaidAnswerUsable ==
    /\ round \in MechSteps => requested # None
    /\ requested # None =>
          Cardinality({a \in participants : holds[a] \in {requested, "nothing"}}) >= Needed

\* Whatever the agents vote, the service moves as ResolverFSM.
FollowsFsm == Spec

=============================================================================
