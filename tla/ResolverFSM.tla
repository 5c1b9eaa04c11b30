----------------------------- MODULE ResolverFSM -----------------------------
(***************************************************************************)
(* The composed round machine of market_resolver_abci: registration, the   *)
(* recovery chain, the resolution core, MechInteract, and the one          *)
(* TxSettlement they share.  TxSettlement does not know whom it works for: *)
(* the way back is PostTransactionRound reading tx_submitter.              *)
(*                                                                         *)
(* An action is a round with the events it can end with; a degenerate      *)
(* round and the mapping that leaves it are one step with the event.       *)
(* NO_MAJORITY and ROUND_TIMEOUT are faults.                               *)
(***************************************************************************)
EXTENDS Naturals

CONSTANT MaxFaults   \* bound: faults and deposits in one period

ASSUME FsmAssumption == MaxFaults \in Nat

VARIABLES
    round,      \* the current round
    submitter,  \* tx_submitter
    owner,      \* ghost: whose transaction is being settled
    walked,     \* ghost: the recovery rounds of this period
    faults      \* the faults of this period

vars == <<round, submitter, owner, walked, faults>>

Recovery == {"FpmmRemoveLiquidity", "CtRedeemTokens", "RealitioWithdrawBonds"}

MechSteps == {"MechVersionDetection", "MechInformation", "MechRequest",
              "MechPurchaseSubscription", "MechResponse"}

Rounds == {"Registration", "IdentifyServiceOwner", "FundsForwarder", "ScanMarkets",
           "EvaluateAnswers", "BuildAnswerTx", "TxSettlement", "PostTransaction",
           "ResetAndPause"} \cup Recovery \cup MechSteps

Submitters == {"FundsForwarder", "MechRequest", "OffchainDeposit",
               "MechPurchaseSubscription", "BuildAnswerTx", "none"} \cup Recovery

Init ==
    /\ round = "Registration"
    /\ submitter = "none" /\ owner = "none"
    /\ walked = {} /\ faults = 0

Charge(n) == faults + n <= MaxFaults /\ faults' = faults + n

\* The round after a recovery round, with or without a transaction.
NextStep(step) ==
    CASE step = "FpmmRemoveLiquidity" -> "CtRedeemTokens"
      [] step = "CtRedeemTokens" -> "RealitioWithdrawBonds"
      [] step = "RealitioWithdrawBonds" -> "ScanMarkets"

Goes(to) == round' = to /\ UNCHANGED <<submitter, owner>>

\* The payload carries the transaction and its submitter together.
Submits(who) == round' = "TxSettlement" /\ submitter' = who /\ owner' = who

Register ==
    /\ round = "Registration"
    /\ Goes("IdentifyServiceOwner") /\ Charge(0) /\ UNCHANGED walked

IdentifyOwner ==
    /\ round = "IdentifyServiceOwner"
    /\ \/ Goes("FundsForwarder") /\ Charge(0)
       \/ Goes("FpmmRemoveLiquidity") /\ Charge(0)
       \/ Goes(round) /\ Charge(1)
    /\ UNCHANGED walked

ForwardFunds ==
    /\ round = "FundsForwarder"
    /\ \/ Submits(round) /\ Charge(0)
       \/ Goes("FpmmRemoveLiquidity") /\ Charge(0)
       \/ Goes(round) /\ Charge(1)
    /\ UNCHANGED walked

\* A recovery round that fails counts as one with nothing to do.
Recover(step) ==
    /\ round = step
    /\ \/ Submits(step) /\ Charge(0)
       \/ Goes(NextStep(step)) /\ \E n \in {0, 1} : Charge(n)
    /\ walked' = walked \cup {step}

Scan ==
    /\ round = "ScanMarkets"
    /\ \/ Goes("EvaluateAnswers") /\ Charge(0)
       \/ Goes("ResetAndPause") /\ Charge(0)
       \/ Goes(round) /\ Charge(1)
    /\ UNCHANGED walked

\* EvaluateAnswersRound.end_block: which field of the payload is set.
EvaluateEnds(mechRequests, evaluationResult) ==
    IF mechRequests THEN "MechVersionDetection"
    ELSE IF evaluationResult THEN "BuildAnswerTx" ELSE "ResetAndPause"

Evaluate ==
    /\ round = "EvaluateAnswers"
    /\ \/ /\ \E mechRequests \in BOOLEAN, evaluationResult \in BOOLEAN :
                Goes(EvaluateEnds(mechRequests, evaluationResult))
          /\ Charge(0)
       \/ Goes("ResetAndPause") /\ Charge(1)
    /\ UNCHANGED walked

Build ==
    /\ round = "BuildAnswerTx"
    /\ \/ Submits(round) /\ Charge(0)
       \/ Goes("ResetAndPause") /\ \E n \in {0, 1} : Charge(n)
    /\ UNCHANGED walked

\* MechInteract.  A deposit is asked for when an off-chain request gets a 402.
Mech ==
    /\ \/ /\ round = "MechVersionDetection"
          /\ \/ \E to \in {"MechRequest", "MechInformation"} : Goes(to) /\ Charge(0)
             \/ Goes(round) /\ Charge(1)
       \/ /\ round = "MechInformation"
          /\ \/ Goes("MechRequest") /\ Charge(0)
             \/ Goes("MechVersionDetection") /\ Charge(1)
             \/ Goes(round) /\ Charge(1)
       \/ /\ round = "MechRequest"
          /\ \/ Submits(round) /\ Charge(0)
             \/ Submits("OffchainDeposit") /\ Charge(1)
             \/ \E to \in {"MechPurchaseSubscription", "MechResponse", "ResetAndPause"} :
                   Goes(to) /\ Charge(0)
             \/ Goes(round) /\ Charge(1)
       \/ /\ round = "MechPurchaseSubscription"
          /\ \/ Submits(round) /\ Charge(0)
             \/ Goes(round) /\ Charge(1)
       \/ /\ round = "MechResponse"
          /\ \/ Goes("BuildAnswerTx") /\ Charge(0)
             \/ Goes("ResetAndPause") /\ Charge(1)
             \/ Goes(round) /\ Charge(1)
    /\ UNCHANGED walked

\* TxSettlement as a whole: it validates the transaction or it fails.
Settle ==
    /\ round = "TxSettlement"
    /\ \/ Goes("PostTransaction") /\ Charge(0)
       \/ Goes("ResetAndPause") /\ Charge(1)
    /\ UNCHANGED walked

\* PostTransactionBehaviour: the content it reports for a tx_submitter.
Content(who) ==
    CASE who = "OffchainDeposit" -> "OFFCHAIN_DEPOSIT_DONE"
      [] who = "MechRequest" -> "MECH_REQUEST_DONE"
      [] who = "BuildAnswerTx" -> "ANSWER_TX_DONE"
      [] who = "FundsForwarder" -> "FUNDS_FORWARDER_TX_DONE"
      [] who = "FpmmRemoveLiquidity" -> "FPMM_REMOVE_LIQUIDITY_TX_DONE"
      [] who = "CtRedeemTokens" -> "CT_REDEEM_TOKENS_TX_DONE"
      [] who = "RealitioWithdrawBonds" -> "REALITIO_WITHDRAW_BONDS_TX_DONE"
      [] OTHER -> "ANSWER_TX_DONE"

\* PostTransactionRound's transitions and the mapping's fan-out.
AfterTx(event) ==
    CASE event = "FUNDS_FORWARDER_TX_DONE" -> "FpmmRemoveLiquidity"
      [] event = "FPMM_REMOVE_LIQUIDITY_TX_DONE" -> "CtRedeemTokens"
      [] event = "CT_REDEEM_TOKENS_TX_DONE" -> "RealitioWithdrawBonds"
      [] event = "REALITIO_WITHDRAW_BONDS_TX_DONE" -> "ScanMarkets"
      [] event = "MECH_REQUEST_DONE" -> "MechResponse"
      [] event = "OFFCHAIN_DEPOSIT_DONE" -> "MechRequest"
      [] OTHER -> "ResetAndPause"

PostTransaction ==
    /\ round = "PostTransaction"
    /\ \/ Goes(AfterTx(Content(submitter))) /\ Charge(0)
       \/ Goes("ResetAndPause") /\ Charge(1)
    /\ UNCHANGED walked

\* No key of the skill is persisted across periods.
Reset ==
    /\ round = "ResetAndPause"
    /\ round' \in {"IdentifyServiceOwner", "Registration"}
    /\ submitter' = "none" /\ owner' = "none"
    /\ walked' = {} /\ faults' = 0

Next ==
    \/ Register \/ IdentifyOwner \/ ForwardFunds
    \/ \E step \in Recovery : Recover(step)
    \/ Scan \/ Evaluate \/ Build \/ Mech \/ Settle \/ PostTransaction \/ Reset

Spec == Init /\ [][Next]_vars

-----------------------------------------------------------------------------
TypeOK ==
    /\ round \in Rounds
    /\ submitter \in Submitters /\ owner \in Submitters
    /\ walked \subseteq Recovery
    /\ faults \in 0 .. MaxFaults

\* The rounds that resolve a market.
Core == {"ScanMarkets", "EvaluateAnswers", "BuildAnswerTx"} \cup MechSteps

\* composition.py:66-68: the recovery rounds come in order, each once in a
\* period, whether or not they sent a transaction, and all before the core.  A
\* settlement that fails ends the period (102): then the core is not reached
\* in it, and the next period starts with the first recovery round.
ChainInOrder ==
    [][round' # round =>
          /\ round' = "FpmmRemoveLiquidity" => walked' = {}
          /\ round' = "CtRedeemTokens" => walked' = {"FpmmRemoveLiquidity"}
          /\ round' = "RealitioWithdrawBonds"
                => walked' = {"FpmmRemoveLiquidity", "CtRedeemTokens"}
          /\ round' \in Core => walked' = Recovery]_vars

\* What must follow a settled transaction: the step after the owner's, and
\* for a paid request its poll, for a deposit the request it was made for.
Continuation(who) ==
    CASE who = "FundsForwarder" -> "FpmmRemoveLiquidity"
      [] who \in Recovery -> NextStep(who)
      [] who = "MechRequest" -> "MechResponse"
      [] who = "OffchainDeposit" -> "MechRequest"
      [] who = "BuildAnswerTx" -> "ResetAndPause"

\* rounds.py:182-236: PostTransactionRound resumes the flow whose transaction
\* was settled, and no other, unless its own consensus fails.
ResumesOwner ==
    [][round = "PostTransaction" /\ faults' = faults
           /\ owner \notin {"none", "MechPurchaseSubscription"}
          => round' = Continuation(owner)]_vars

\* The longest way from a round to the pause when nothing fails.  After a
\* transaction it is that of the flow it resumes.
RoundsFrom(r) ==
    CASE r = "Registration" -> 26
      [] r = "IdentifyServiceOwner" -> 25
      [] r = "FundsForwarder" -> 24
      [] r = "FpmmRemoveLiquidity" -> 21
      [] r = "CtRedeemTokens" -> 18
      [] r = "RealitioWithdrawBonds" -> 15
      [] r = "ScanMarkets" -> 12
      [] r = "EvaluateAnswers" -> 11
      [] r = "MechVersionDetection" -> 10
      [] r = "MechInformation" -> 9
      [] r = "MechRequest" -> 8
      [] r = "MechPurchaseSubscription" -> 7
      [] r = "MechResponse" -> 4
      [] r = "BuildAnswerTx" -> 3
      [] r = "ResetAndPause" -> 0

RoundsBack == RoundsFrom(AfterTx(Content(submitter)))

RoundsLeft ==
    CASE round = "TxSettlement" -> 2 + RoundsBack
      [] round = "PostTransaction" -> 1 + RoundsBack
      [] OTHER -> RoundsFrom(round)

\* The longest way with the faults the period may still have: one costs at
\* most two rounds made again, and the round it is met in.
LongestWay == 3 * (MaxFaults - faults) + RoundsLeft

\* composition.py:79-108: every round brings the pause nearer.  There is no
\* way round in circles through the chained skills that no fault pays for, so
\* a period ends after 26 rounds and three more for each fault.
PeriodsEnd ==
    [][round # "ResetAndPause" => LongestWay' >= 0 /\ LongestWay' < LongestWay]_vars

=============================================================================
