---------------------------- MODULE ServiceProofs ----------------------------
(***************************************************************************)
(* The rounds, the votes and the health check, for any agents, any         *)
(* configured times and any number of faults in a period: the order of the *)
(* recovery chain, the flow a transaction resumes and the end of a period; *)
(* a paid request is one its agents waited for, the votes move the service *)
(* as ResolverFSM, and the verdict calls no FSM stuck that waits within    *)
(* the timeout of a round and three pauses.                                *)
(***************************************************************************)
EXTENDS HealthCheck, FiniteSetTheorems, TLAPS

-----------------------------------------------------------------------------
(* The composed rounds *)

\* TxSettlement and PostTransaction work for the flow tx_submitter names.
SubmitterOwns == submitter = owner

\* The recovery rounds a round has behind it; the two shared rounds have
\* those of the flow whose transaction they carry.
WalkedSoFar ==
    /\ round \in {"Registration", "IdentifyServiceOwner", "FundsForwarder",
                  "FpmmRemoveLiquidity"} => walked = {}
    /\ round = "CtRedeemTokens" => walked = {"FpmmRemoveLiquidity"}
    /\ round = "RealitioWithdrawBonds"
          => walked = {"FpmmRemoveLiquidity", "CtRedeemTokens"}
    /\ round \in {"ScanMarkets", "EvaluateAnswers", "BuildAnswerTx"} \cup MechSteps
          => walked = Recovery
    /\ round \in {"TxSettlement", "PostTransaction"} =>
          /\ owner = "FundsForwarder" => walked = {}
          /\ owner = "FpmmRemoveLiquidity" => walked = {"FpmmRemoveLiquidity"}
          /\ owner = "CtRedeemTokens"
                => walked = {"FpmmRemoveLiquidity", "CtRedeemTokens"}
          /\ owner \in {"RealitioWithdrawBonds", "BuildAnswerTx"} \cup MechSteps
                       \cup {"OffchainDeposit"} => walked = Recovery

\* The inductive invariant.
FsmInv == TypeOK /\ SubmitterOwns /\ WalkedSoFar

-----------------------------------------------------------------------------
\* A charge keeps the count of faults within its bound.
LEMMA ChargeKept ==
    ASSUME TypeOK, NEW n \in Nat, Charge(n)
    PROVE  faults' \in 0 .. MaxFaults
BY FsmAssumption DEF TypeOK, Charge

\* The initial state satisfies the invariant.
LEMMA FsmInit == Init => FsmInv
BY FsmAssumption
   DEF Init, FsmInv, TypeOK, SubmitterOwns, WalkedSoFar, Rounds, Submitters, Recovery,
       MechSteps

\* So does every step.  Goes leaves submitter and owner alone; Submits sets
\* them together.
LEMMA FsmStep == FsmInv /\ [Next]_vars => FsmInv'
<1> SUFFICES ASSUME FsmInv, [Next]_vars PROVE FsmInv'
  OBVIOUS
<1> USE DEF Goes, Submits
<1>1. ASSUME Register \/ IdentifyOwner PROVE FsmInv'
  <2>1. faults' \in 0 .. MaxFaults
    BY <1>1, ChargeKept DEF FsmInv, Register, IdentifyOwner
  <2> QED
    BY <1>1, <2>1 DEF FsmInv, TypeOK, SubmitterOwns, WalkedSoFar, Rounds, Submitters,
       Recovery, MechSteps, Register, IdentifyOwner
<1>2. ASSUME ForwardFunds PROVE FsmInv'
  <2>1. faults' \in 0 .. MaxFaults
    BY <1>2, ChargeKept DEF FsmInv, ForwardFunds
  <2> QED
    BY <1>2, <2>1 DEF FsmInv, TypeOK, SubmitterOwns, WalkedSoFar, Rounds, Submitters,
       Recovery, MechSteps, ForwardFunds
<1>3. ASSUME NEW step \in Recovery, Recover(step) PROVE FsmInv'
  <2>1. faults' \in 0 .. MaxFaults
    BY <1>3, ChargeKept DEF FsmInv, Recover
  <2>2. CASE step = "FpmmRemoveLiquidity"
    BY <1>3, <2>1, <2>2 DEF FsmInv, TypeOK, SubmitterOwns, WalkedSoFar, Rounds,
       Submitters, Recovery, MechSteps, Recover, NextStep
  <2>3. CASE step = "CtRedeemTokens"
    BY <1>3, <2>1, <2>3 DEF FsmInv, TypeOK, SubmitterOwns, WalkedSoFar, Rounds,
       Submitters, Recovery, MechSteps, Recover, NextStep
  <2>4. CASE step = "RealitioWithdrawBonds"
    BY <1>3, <2>1, <2>4 DEF FsmInv, TypeOK, SubmitterOwns, WalkedSoFar, Rounds,
       Submitters, Recovery, MechSteps, Recover, NextStep
  <2> QED
    BY <2>2, <2>3, <2>4 DEF Recovery
<1>4. ASSUME Scan \/ Evaluate \/ Build PROVE FsmInv'
  <2>1. faults' \in 0 .. MaxFaults
    BY <1>4, ChargeKept DEF FsmInv, Scan, Evaluate, Build
  <2> QED
    BY <1>4, <2>1 DEF FsmInv, TypeOK, SubmitterOwns, WalkedSoFar, Rounds, Submitters,
       Recovery, MechSteps, Scan, Evaluate, EvaluateEnds, Build
<1>5. ASSUME Mech PROVE FsmInv'
  <2>1. faults' \in 0 .. MaxFaults
    BY <1>5, ChargeKept DEF FsmInv, Mech
  <2>2. /\ walked = Recovery /\ walked' = walked
        /\ \/ round' \in MechSteps \cup {"BuildAnswerTx", "ResetAndPause"}
                 /\ UNCHANGED <<submitter, owner>>
           \/ /\ round' = "TxSettlement" /\ submitter' = owner'
              /\ owner' \in {"MechRequest", "OffchainDeposit", "MechPurchaseSubscription"}
    BY <1>5 DEF FsmInv, WalkedSoFar, MechSteps, Mech
  <2> QED
    BY <2>1, <2>2 DEF FsmInv, TypeOK, SubmitterOwns, WalkedSoFar, Rounds, Submitters,
       Recovery, MechSteps
<1>6. ASSUME Settle PROVE FsmInv'
  <2>1. faults' \in 0 .. MaxFaults
    BY <1>6, ChargeKept DEF FsmInv, Settle
  <2> QED
    BY <1>6, <2>1 DEF FsmInv, TypeOK, SubmitterOwns, WalkedSoFar, Rounds, Submitters,
       Recovery, MechSteps, Settle
<1>7. ASSUME PostTransaction PROVE FsmInv'
  <2>1. faults' \in 0 .. MaxFaults
    BY <1>7, ChargeKept DEF FsmInv, PostTransaction
  <2>2. /\ round = "PostTransaction" /\ UNCHANGED <<submitter, owner, walked>>
        /\ round' \in {AfterTx(Content(owner)), "ResetAndPause"}
    BY <1>7 DEF PostTransaction, FsmInv, SubmitterOwns
  <2>3. CASE round' = "ResetAndPause"
    BY <2>1, <2>2, <2>3 DEF FsmInv, TypeOK, SubmitterOwns, WalkedSoFar, Rounds,
       Submitters, Recovery, MechSteps
  <2>4. CASE round' = AfterTx(Content(owner)) /\ owner \in {"FundsForwarder"} \cup Recovery
    BY <2>1, <2>2, <2>4 DEF FsmInv, TypeOK, SubmitterOwns, WalkedSoFar, Rounds,
       Submitters, Recovery, MechSteps, AfterTx, Content
  <2>5. CASE /\ round' = AfterTx(Content(owner))
             /\ owner \notin {"FundsForwarder"} \cup Recovery
    BY <2>1, <2>2, <2>5 DEF FsmInv, TypeOK, SubmitterOwns, WalkedSoFar, Rounds,
       Submitters, Recovery, MechSteps, AfterTx, Content
  <2> QED
    BY <2>2, <2>3, <2>4, <2>5
<1>8. ASSUME Reset PROVE FsmInv'
  BY <1>8, FsmAssumption DEF FsmInv, TypeOK, SubmitterOwns, WalkedSoFar, Rounds,
     Submitters, Recovery, MechSteps, Reset
<1>9. ASSUME UNCHANGED vars PROVE FsmInv'
  BY <1>9 DEF FsmInv, TypeOK, SubmitterOwns, WalkedSoFar, vars
<1> QED
  BY <1>1, <1>2, <1>3, <1>4, <1>5, <1>6, <1>7, <1>8, <1>9 DEF Next

\* The invariant holds in every reachable state.
LEMMA FsmInvariant == Spec => []FsmInv
BY FsmInit, FsmStep, PTL DEF Spec

-----------------------------------------------------------------------------
\* Types of the composed machine.
THEOREM FsmTypes == Spec => []TypeOK
<1>1. FsmInv => TypeOK
  BY DEF FsmInv
<1> QED
  BY <1>1, FsmInvariant, PTL

\* composition.py:66-68: the recovery rounds come in order and before the
\* core, whatever fails and however many transactions they send.
THEOREM RecoveryInOrder == Spec => ChainInOrder
<1>1. FsmInv' => [round' # round =>
          /\ round' = "FpmmRemoveLiquidity" => walked' = {}
          /\ round' = "CtRedeemTokens" => walked' = {"FpmmRemoveLiquidity"}
          /\ round' = "RealitioWithdrawBonds"
                => walked' = {"FpmmRemoveLiquidity", "CtRedeemTokens"}
          /\ round' \in Core => walked' = Recovery]_vars
  BY DEF FsmInv, WalkedSoFar, Core
<1> QED
  BY <1>1, FsmInvariant, PTL DEF ChainInOrder

\* rounds.py:182-236: a settled transaction resumes the flow it was made for.
THEOREM OwnerResumed == Spec => ResumesOwner
<1>1. ASSUME FsmInv, Next, round = "PostTransaction", faults' = faults,
             owner \notin {"none", "MechPurchaseSubscription"}
      PROVE  round' = Continuation(owner)
  <2>1. PostTransaction
    BY <1>1 DEF Next, Register, IdentifyOwner, ForwardFunds, Recover, Recovery, Scan,
       Evaluate, Build, Mech, Settle, Reset
  <2>2. round' = AfterTx(Content(owner))
    BY <1>1, <2>1 DEF PostTransaction, Goes, Charge, FsmInv, TypeOK, SubmitterOwns
  <2>3. owner \in {"FundsForwarder", "MechRequest", "OffchainDeposit", "BuildAnswerTx"}
                    \cup Recovery
    BY <1>1 DEF FsmInv, TypeOK, Submitters
  <2> QED
    BY <2>2, <2>3 DEF AfterTx, Content, Continuation, NextStep, Recovery
<1>2. FsmInv /\ [Next]_vars => [round = "PostTransaction" /\ faults' = faults
           /\ owner \notin {"none", "MechPurchaseSubscription"}
          => round' = Continuation(owner)]_vars
  BY <1>1
<1> QED
  BY <1>2, FsmInvariant, PTL DEF Spec, ResumesOwner


-----------------------------------------------------------------------------
\* What is left of a period after the transaction of each flow.
BackBySubmitter ==
    [FundsForwarder |-> 21, FpmmRemoveLiquidity |-> 18, CtRedeemTokens |-> 15,
     RealitioWithdrawBonds |-> 12, OffchainDeposit |-> 8, MechRequest |-> 4,
     BuildAnswerTx |-> 0, MechPurchaseSubscription |-> 0, none |-> 0]

\* RoundsBack follows it.
LEMMA WayBack ==
    submitter \in Submitters => RoundsBack = BackBySubmitter[submitter]
<1> SUFFICES ASSUME submitter \in Submitters
             PROVE  RoundsBack = BackBySubmitter[submitter]
  OBVIOUS
<1>2. CASE submitter = "FundsForwarder"
  <2>1. AfterTx(Content(submitter)) = "FpmmRemoveLiquidity"
    BY <1>2 DEF Content, AfterTx
  <2> QED
    BY <1>2, <2>1 DEF RoundsBack, RoundsFrom, BackBySubmitter
<1>3. CASE submitter = "FpmmRemoveLiquidity"
  <2>1. AfterTx(Content(submitter)) = "CtRedeemTokens"
    BY <1>3 DEF Content, AfterTx
  <2> QED
    BY <1>3, <2>1 DEF RoundsBack, RoundsFrom, BackBySubmitter
<1>4. CASE submitter = "CtRedeemTokens"
  <2>1. AfterTx(Content(submitter)) = "RealitioWithdrawBonds"
    BY <1>4 DEF Content, AfterTx
  <2> QED
    BY <1>4, <2>1 DEF RoundsBack, RoundsFrom, BackBySubmitter
<1>5. CASE submitter = "RealitioWithdrawBonds"
  <2>1. AfterTx(Content(submitter)) = "ScanMarkets"
    BY <1>5 DEF Content, AfterTx
  <2> QED
    BY <1>5, <2>1 DEF RoundsBack, RoundsFrom, BackBySubmitter
<1>6. CASE submitter = "OffchainDeposit"
  <2>1. AfterTx(Content(submitter)) = "MechRequest"
    BY <1>6 DEF Content, AfterTx
  <2> QED
    BY <1>6, <2>1 DEF RoundsBack, RoundsFrom, BackBySubmitter
<1>7. CASE submitter = "MechRequest"
  <2>1. AfterTx(Content(submitter)) = "MechResponse"
    BY <1>7 DEF Content, AfterTx
  <2> QED
    BY <1>7, <2>1 DEF RoundsBack, RoundsFrom, BackBySubmitter
<1>8. CASE submitter \in {"BuildAnswerTx", "MechPurchaseSubscription", "none"}
  <2>1. AfterTx(Content(submitter)) = "ResetAndPause"
    BY <1>8 DEF Content, AfterTx
  <2> QED
    BY <1>8, <2>1 DEF RoundsBack, RoundsFrom, BackBySubmitter
<1> QED
  BY <1>2, <1>3, <1>4, <1>5, <1>6, <1>7, <1>8 DEF Submitters, Recovery

\* The way to the pause is a number, and so is the longest one.
LEMMA WayTypes ==
    TypeOK => /\ RoundsBack \in Nat /\ RoundsLeft \in Nat /\ LongestWay \in Nat
              /\ faults \in Nat /\ MaxFaults \in Nat /\ faults <= MaxFaults
<1> SUFFICES ASSUME TypeOK
             PROVE  /\ RoundsBack \in Nat /\ RoundsLeft \in Nat /\ LongestWay \in Nat
                    /\ faults \in Nat /\ MaxFaults \in Nat /\ faults <= MaxFaults
  OBVIOUS
<1>1. faults \in Nat /\ MaxFaults \in Nat /\ faults <= MaxFaults
  BY FsmAssumption DEF TypeOK
<1>2. RoundsBack \in Nat
  BY WayBack DEF TypeOK, Submitters, Recovery, BackBySubmitter
<1>3. RoundsLeft \in Nat
  BY <1>2 DEF TypeOK, Rounds, Recovery, MechSteps, RoundsLeft, RoundsFrom
<1> QED
  BY <1>1, <1>2, <1>3 DEF LongestWay

\* Both after a step.
LEMMA WayBackNext ==
    (submitter \in Submitters => RoundsBack = BackBySubmitter[submitter])'
BY WayBack, PTL

\* See WayTypes.
LEMMA WayTypesNext == (TypeOK => RoundsLeft \in Nat /\ LongestWay \in Nat)'
BY WayTypes, PTL

\* A round ends nearer to the pause, or by a fault that costs two rounds or less.
Nearer ==
    \/ faults' = faults /\ RoundsLeft' < RoundsLeft
    \/ faults' = faults + 1 /\ RoundsLeft' < RoundsLeft + 3

\* Every step but the pause does so.
LEMMA WayStep ==
    ASSUME TypeOK, TypeOK', Next, round # "ResetAndPause"
    PROVE  Nearer
<1> USE DEF Goes, Submits, Charge, RoundsLeft, RoundsFrom, Nearer
<1>1. faults \in Nat /\ RoundsBack \in Nat
  BY WayTypes
<1>9. submitter' = submitter => RoundsBack' = RoundsBack
  BY DEF RoundsBack
<1>2. ASSUME Register \/ IdentifyOwner PROVE Nearer
  BY <1>1, <1>2 DEF Register, IdentifyOwner
<1>3. ASSUME ForwardFunds PROVE Nearer
  BY <1>1, <1>3, WayBackNext DEF ForwardFunds, BackBySubmitter, Submitters
<1>4. ASSUME NEW step \in Recovery, Recover(step) PROVE Nearer
  BY <1>1, <1>4, WayBackNext DEF Recovery, Recover, NextStep, BackBySubmitter, Submitters
<1>5. ASSUME Scan \/ Evaluate \/ Build PROVE Nearer
  BY <1>1, <1>5, WayBackNext DEF Scan, Evaluate, EvaluateEnds, Build, BackBySubmitter, Submitters
<1>6. ASSUME Mech PROVE Nearer
  BY <1>1, <1>6, WayBackNext DEF Mech, BackBySubmitter, Submitters
<1>7. ASSUME Settle PROVE Nearer
  BY <1>1, <1>7, <1>9 DEF Settle
<1>8. ASSUME PostTransaction PROVE Nearer
  <2>1. AfterTx(Content(submitter))
            \in {"FpmmRemoveLiquidity", "CtRedeemTokens", "RealitioWithdrawBonds",
                "ScanMarkets", "MechResponse", "MechRequest", "ResetAndPause"}
    BY DEF AfterTx
  <2>2. CASE Goes(AfterTx(Content(submitter))) /\ Charge(0)
    <3> HIDE DEF RoundsFrom
    <3>1. RoundsLeft' = RoundsFrom(round')
      BY <2>1, <2>2
    <3>2. RoundsLeft' = RoundsBack
      BY <2>2, <3>1 DEF RoundsBack
    <3> QED
      BY <1>1, <1>8, <2>2, <3>2 DEF PostTransaction
  <2>3. CASE Goes("ResetAndPause") /\ Charge(1)
    BY <1>1, <1>8, <2>3 DEF PostTransaction
  <2> QED
    BY <1>8, <2>2, <2>3 DEF PostTransaction
<1> QED
  BY <1>2, <1>3, <1>4, <1>5, <1>6, <1>7, <1>8 DEF Next, Reset

\* composition.py:79-108: a period ends, whatever its rounds decide: each brings
\* the pause nearer, so there are at most 26 and three more for each fault.
THEOREM PeriodEnds == Spec => PeriodsEnd
<1>1. ASSUME TypeOK, TypeOK', Next, round # "ResetAndPause"
      PROVE  LongestWay' >= 0 /\ LongestWay' < LongestWay
  <2>1. Nearer
    BY <1>1, WayStep
  <2>2. /\ RoundsLeft \in Nat /\ faults \in Nat /\ MaxFaults \in Nat
        /\ RoundsLeft' \in Nat /\ LongestWay' \in Nat
    BY <1>1, WayTypes, WayTypesNext
  <2> QED
    BY <2>1, <2>2 DEF Nearer, LongestWay
<1>2. FsmInv /\ FsmInv' /\ [Next]_vars
          => [round # "ResetAndPause"
                  => LongestWay' >= 0 /\ LongestWay' < LongestWay]_vars
  BY <1>1 DEF FsmInv
<1> QED
  BY <1>2, FsmInvariant, PTL DEF Spec, PeriodsEnd

-----------------------------------------------------------------------------
(* The votes *)

\* A threshold is a number of agents.
LEMMA ThresholdType == \A n \in Nat : Threshold(n) \in Nat
BY DEF Threshold

\* The agents of a service are finitely many, and some.
LEMMA SomeParticipants ==
    ASSUME participants \in Committees
    PROVE  /\ IsFiniteSet(participants)
           /\ Cardinality(participants) \in Nat
           /\ Cardinality(participants) > 0
           /\ participants \subseteq Agents
<1>1. IsFiniteSet(participants) /\ participants # {}
  BY VotesAssumption
<1>2. Cardinality(participants) \in Nat /\ Cardinality(participants) # 0
  BY <1>1, FS_CardinalityType, FS_EmptySet
<1>3. participants \subseteq Agents
  BY DEF Agents
<1> QED
  BY <1>1, <1>2, <1>3

-----------------------------------------------------------------------------
(* The inductive invariant of the votes *)

\* The votes of a round are payloads of that round; what an agent voted in
\* EvaluateAnswers is what it holds.
PayloadsFit ==
    /\ round \notin VotingRounds => votes = NoVotes
    /\ round = "ScanMarkets" => votes \in [Agents -> {"none", "market", None}]
    /\ round = "EvaluateAnswers" =>
          \A a \in Agents : /\ votes[a] \in {a, "evaluation", "skip", None}
                            /\ votes[a] # None => holds[a] = votes[a]
    /\ round = "BuildAnswerTx" => votes \in [Agents -> {"none", "tx", None}]
    /\ round = "PostTransaction" => votes \in [Agents -> {Content(submitter), None}]

\* Where a request has been agreed; the shared rounds go by tx_submitter.
RequestSoFar ==
    /\ round \in {"Registration", "IdentifyServiceOwner", "FundsForwarder",
                  "ScanMarkets", "EvaluateAnswers"} \cup Recovery => requested = None
    /\ round \in MechSteps => requested # None
    /\ round \in {"TxSettlement", "PostTransaction"} =>
          /\ submitter \in {"FundsForwarder"} \cup Recovery => requested = None
          /\ submitter \in {"MechRequest", "OffchainDeposit", "MechPurchaseSubscription"}
                => requested # None

Holders == {a \in participants : holds[a] \in {requested, "nothing"}}

RequestHeld == requested # None => Cardinality(Holders) >= Needed

VotesData ==
    /\ participants \in Committees
    /\ votes \in [Agents -> Agents \cup Words \cup {None}]
    /\ holds \in [Agents -> Agents \cup {"evaluation", "skip", "nothing", None}]
    /\ requested \in Agents \cup {None}

VotesInv == FsmInv /\ VotesData /\ PayloadsFit /\ RequestSoFar /\ RequestHeld

\* The rounds that are voted on.
LEMMA FourRounds ==
    VotingRounds = {"ScanMarkets", "EvaluateAnswers", "BuildAnswerTx", "PostTransaction"}
BY DEF VotingRounds, Transitions

\* Where the events of the first three rounds lead.
LEMMA CoreLeads ==
    /\ round = "ScanMarkets" =>
          /\ After("DONE") = "EvaluateAnswers" /\ After("NONE") = "ResetAndPause"
          /\ After("NO_MAJORITY") = "ScanMarkets" /\ After("ROUND_TIMEOUT") = "ScanMarkets"
    /\ round = "EvaluateAnswers" =>
          /\ After("DONE") = "MechVersionDetection" /\ After("NONE") = "BuildAnswerTx"
          /\ After("SKIP") = "ResetAndPause" /\ After("NO_MAJORITY") = "ResetAndPause"
          /\ After("ROUND_TIMEOUT") = "ResetAndPause"
    /\ round = "BuildAnswerTx" =>
          /\ After("NONE") = "ResetAndPause" /\ After("NO_MAJORITY") = "ResetAndPause"
          /\ After("ROUND_TIMEOUT") = "ResetAndPause"
    /\ round = "PostTransaction" =>
          /\ After("NO_MAJORITY") = "ResetAndPause"
          /\ After("ROUND_TIMEOUT") = "ResetAndPause"
BY DEF After, Transitions

\* PostTransaction's table and AfterTx agree on what the behaviour reports.
LEMMA PostLeads ==
    ASSUME round = "PostTransaction"
    PROVE  After(Content(submitter)) = AfterTx(Content(submitter))
BY DEF After, Transitions, AfterTx, Content

\* Votes are payloads sent.
LEMMA VotesSent ==
    ASSUME NEW v \in Votes, VotesData
    PROVE  v # None /\ \E a \in participants : a \in Agents /\ votes[a] = v
BY SomeParticipants DEF Votes, VotesData

-----------------------------------------------------------------------------
(* The votes follow ResolverFSM *)

\* What a decision does: each round by the payload it decides on.
LEMMA DecisionsFit ==
    ASSUME VotesInv, Decide
    PROVE  /\ votes' = NoVotes /\ UNCHANGED <<walked, participants, holds>> /\ Charge(0)
           /\ \/ /\ round = "ScanMarkets" /\ requested' = requested
                 /\ Goes("EvaluateAnswers") \/ Goes("ResetAndPause")
              \/ /\ round = "EvaluateAnswers"
                 /\ \/ /\ \E v \in Votes \cap Agents : Quorum(v) /\ requested' = v
                       /\ Goes("MechVersionDetection")
                    \/ /\ requested' = requested
                       /\ Goes("BuildAnswerTx") \/ Goes("ResetAndPause")
              \/ /\ round = "BuildAnswerTx" /\ requested' = requested
                 /\ Submits(round) \/ Goes("ResetAndPause")
              \/ /\ round = "PostTransaction" /\ requested' = requested
                 /\ Goes(AfterTx(Content(submitter)))
<1>1. PICK v \in Votes :
         /\ Quorum(v) /\ Ends(EventOf(v))
         /\ requested' = IF v \in Agents THEN v ELSE requested
  BY DEF Decide
<1>2. v # None /\ \E a \in participants : a \in Agents /\ votes[a] = v
  BY VotesSent DEF VotesInv
<1>3. votes' = NoVotes /\ UNCHANGED <<walked, participants, holds>> /\ Charge(0)
  BY <1>1 DEF Decide, Ends
<1>4. Agents \cap Words = {}
  BY VotesAssumption
<1>5. CASE round = "ScanMarkets"
  <2>1. v \in {"none", "market"} /\ v \notin Agents
    BY <1>2, <1>4, <1>5 DEF VotesInv, PayloadsFit, Words
  <2>2. EventOf(v) \in {"NONE", "DONE"}
    BY <1>5 DEF EventOf
  <2>3. Goes(After(EventOf(v))) /\ requested' = requested
    BY <1>1, <1>5, <2>1 DEF Ends
  <2> QED
    BY <1>3, <1>5, <2>2, <2>3, CoreLeads DEF Goes
<1>6. CASE round = "EvaluateAnswers"
  <2>1. CASE v \in Agents
    <3>1. EventOf(v) = "DONE"
      BY <1>6, <2>1 DEF EventOf
    <3> QED
      BY <1>1, <1>3, <1>6, <2>1, <3>1, CoreLeads DEF Ends
  <2>2. CASE v \notin Agents
    <3>1. EventOf(v) \in {"NONE", "SKIP"}
      BY <1>6, <2>2 DEF EventOf
    <3> QED
      BY <1>1, <1>3, <1>6, <2>2, <3>1, CoreLeads DEF Ends
  <2> QED
    BY <2>1, <2>2
<1>7. CASE round = "BuildAnswerTx"
  <2>1. v \in {"none", "tx"} /\ v \notin Agents
    BY <1>2, <1>4, <1>7 DEF VotesInv, PayloadsFit, Words
  <2>2. EventOf(v) \in {"NONE", "DONE"} /\ requested' = requested
    BY <1>1, <1>7, <2>1 DEF EventOf
  <2>3. EventOf(v) = "DONE" => Submits(round)
    BY <1>1, <1>7 DEF Ends
  <2>4. EventOf(v) = "NONE" => Goes(After("NONE"))
    BY <1>1, <1>7 DEF Ends
  <2> QED
    BY <1>3, <1>7, <2>2, <2>3, <2>4, CoreLeads DEF Goes
<1>8. CASE round = "PostTransaction"
  <2>1. v = Content(submitter)
    BY <1>2, <1>8 DEF VotesInv, PayloadsFit
  <2>2. Content(submitter) \in Words
    BY DEF Words, VotesInv, FsmInv, TypeOK
  <2>3. EventOf(v) = v
    BY <1>8 DEF EventOf
  <2>4. Goes(After(Content(submitter)))
    BY <1>1, <1>8, <2>1, <2>3 DEF Ends
  <2>5. requested' = requested
    BY <1>1, <1>4, <2>1, <2>2
  <2> QED
    BY <1>3, <1>8, <2>4, <2>5, PostLeads DEF Goes
<1> QED
  BY <1>5, <1>6, <1>7, <1>8, FourRounds DEF Decide

\* What a round that fails does.
LEMMA FailuresFit ==
    ASSUME NoMajority \/ TimesOut
    PROVE  /\ votes' = NoVotes /\ UNCHANGED <<walked, participants, holds, requested>>
           /\ \/ round = "ScanMarkets" /\ Goes(round) /\ Charge(1)
              \/ /\ round \in {"EvaluateAnswers", "BuildAnswerTx"}
                 /\ Goes("ResetAndPause") /\ Charge(0)
              \/ round = "PostTransaction" /\ Goes("ResetAndPause") /\ Charge(1)
<1>1. Ends("NO_MAJORITY") \/ Ends("ROUND_TIMEOUT")
  BY DEF NoMajority, TimesOut
<1>2. Charge(Cost) /\ UNCHANGED requested /\ round \in VotingRounds
  BY DEF NoMajority, TimesOut
<1> QED
  BY <1>1, <1>2, FourRounds, CoreLeads DEF Ends, Cost

\* Every step is a step of ResolverFSM, or none.
LEMMA VotesFollow == VotesInv /\ [VotesNext]_votingVars => [Next]_vars
<1> SUFFICES ASSUME VotesInv, [VotesNext]_votingVars PROVE [Next]_vars
  OBVIOUS
<1>1. ASSUME NEW a \in Agents, Vote(a) \/ Restart(a) PROVE UNCHANGED vars
  BY <1>1 DEF Vote, Restart
<1>2. ASSUME Decide PROVE Next
  <2>1. CASE round = "ScanMarkets"
    BY <1>2, <2>1, DecisionsFit DEF Next, Scan
  <2>2. CASE round = "EvaluateAnswers"
    <3>1. /\ \E to \in {"MechVersionDetection", "BuildAnswerTx", "ResetAndPause"} : Goes(to)
          /\ Charge(0) /\ UNCHANGED walked
      BY <1>2, <2>2, DecisionsFit
    <3>2. /\ EvaluateEnds(TRUE, TRUE) = "MechVersionDetection"
          /\ EvaluateEnds(FALSE, TRUE) = "BuildAnswerTx"
          /\ EvaluateEnds(FALSE, FALSE) = "ResetAndPause"
      BY DEF EvaluateEnds
    <3> QED
      BY <2>2, <3>1, <3>2 DEF Next, Evaluate
  <2>3. CASE round = "BuildAnswerTx"
    BY <1>2, <2>3, DecisionsFit DEF Next, Build
  <2>4. CASE round = "PostTransaction"
    BY <1>2, <2>4, DecisionsFit DEF Next, PostTransaction
  <2> QED
    BY <1>2, <2>1, <2>2, <2>3, <2>4, FourRounds DEF Decide
<1>3. ASSUME NoMajority \/ TimesOut PROVE Next
  <2>1. CASE round = "ScanMarkets"
    BY <1>3, <2>1, FailuresFit DEF Next, Scan
  <2>2. CASE round = "EvaluateAnswers"
    <3>1. EvaluateEnds(FALSE, FALSE) = "ResetAndPause"
      BY DEF EvaluateEnds
    <3> QED
      BY <1>3, <2>2, <3>1, FailuresFit DEF Next, Evaluate
  <2>3. CASE round = "BuildAnswerTx"
    BY <1>3, <2>3, FailuresFit DEF Next, Build
  <2>4. CASE round = "PostTransaction"
    BY <1>3, <2>4, FailuresFit DEF Next, PostTransaction
  <2> QED
    BY <1>3, <2>1, <2>2, <2>3, <2>4, FailuresFit
<1>4. ASSUME Elsewhere PROVE Next
  BY <1>4 DEF Elsewhere, Next
<1>5. ASSUME NextPeriod PROVE Next
  BY <1>5 DEF NextPeriod, Next
<1>6. ASSUME UNCHANGED votingVars PROVE UNCHANGED vars
  BY <1>6 DEF votingVars
<1> QED
  BY <1>1, <1>2, <1>3, <1>4, <1>5, <1>6 DEF VotesNext, Transition

-----------------------------------------------------------------------------
(* The invariant is inductive *)

\* The initial state.
LEMMA VotesStart == VotesInit => VotesInv
<1> SUFFICES ASSUME VotesInit PROVE VotesInv
  OBVIOUS
<1>1. FsmInv
  BY FsmInit DEF VotesInit
<1>2. round = "Registration" /\ requested = None /\ votes = NoVotes /\ holds = NoVotes
  BY DEF VotesInit, Init
<1>3. VotesData
  BY <1>2 DEF VotesInit, VotesData, NoVotes
<1>4. PayloadsFit
  BY <1>2 DEF PayloadsFit
<1>5. RequestSoFar /\ RequestHeld
  BY <1>2 DEF RequestSoFar, RequestHeld, MechSteps
<1> QED
  BY <1>1, <1>3, <1>4, <1>5 DEF VotesInv

\* A vote fits its round; in EvaluateAnswers it is what the agent holds, and
\* no request is out that it could disturb.
LEMMA VoteKeeps ==
    ASSUME VotesInv, NEW a \in Agents, Vote(a)
    PROVE  VotesData' /\ PayloadsFit' /\ RequestSoFar' /\ RequestHeld'
<1>1. PICK v \in PayloadsOf(a) :
         /\ votes' = [votes EXCEPT ![a] = v]
         /\ holds' = IF round = "EvaluateAnswers" THEN [holds EXCEPT ![a] = v] ELSE holds
  BY DEF Vote
<1>2. /\ UNCHANGED <<round, submitter, owner, walked, faults, participants, requested>>
      /\ round \in VotingRounds
  BY DEF Vote, vars
<1>3. VotesData /\ PayloadsFit
  BY DEF VotesInv
<1>4. /\ round = "ScanMarkets" => v \in {"none", "market"}
      /\ round = "EvaluateAnswers" => v \in {a, "evaluation", "skip"}
      /\ round = "BuildAnswerTx" => v \in {"none", "tx"}
      /\ round = "PostTransaction" => v = Content(submitter)
  BY <1>1 DEF PayloadsOf, BuildPayloads, PostPayloads
<1>5. v \in Agents \cup Words
  BY <1>2, <1>4, FourRounds DEF Words, VotesInv, FsmInv, TypeOK
<1>6. VotesData'
  BY <1>1, <1>2, <1>3, <1>4, <1>5 DEF VotesData
<1>7. PayloadsFit'
  <2>1. CASE round = "ScanMarkets"
    BY <1>1, <1>2, <1>3, <1>4, <2>1, FourRounds DEF PayloadsFit
  <2>2. CASE round = "EvaluateAnswers"
    BY <1>1, <1>2, <1>3, <1>4, <2>2, FourRounds DEF PayloadsFit, VotesData
  <2>3. CASE round = "BuildAnswerTx"
    BY <1>1, <1>2, <1>3, <1>4, <2>3, FourRounds DEF PayloadsFit
  <2>4. CASE round = "PostTransaction"
    <3>1. Content(submitter)' = Content(submitter)
      BY <1>2
    <3>2. votes' \in [Agents -> {Content(submitter), None}]
      BY <1>1, <1>3, <1>4, <2>4 DEF PayloadsFit
    <3> QED
      BY <1>2, <2>4, <3>1, <3>2, FourRounds DEF PayloadsFit
  <2> QED
    BY <1>2, <2>1, <2>2, <2>3, <2>4, FourRounds
<1>8. RequestSoFar'
  BY <1>2 DEF VotesInv, RequestSoFar
<1>9. RequestHeld'
  <2>1. CASE round = "EvaluateAnswers"
    BY <1>2, <2>1 DEF VotesInv, RequestSoFar, RequestHeld
  <2>2. CASE round # "EvaluateAnswers"
    <3>1. Holders' = Holders /\ Needed' = Needed /\ requested' = requested
      BY <1>1, <1>2, <2>2 DEF Holders, Needed
    <3> QED
      BY <3>1 DEF VotesInv, RequestHeld
  <2> QED
    BY <2>1, <2>2
<1> QED
  BY <1>6, <1>7, <1>8, <1>9

\* A restart costs an agent what it holds, and it still counts as a holder.
LEMMA RestartKeeps ==
    ASSUME VotesInv, NEW a \in Agents, Restart(a)
    PROVE  VotesData' /\ PayloadsFit' /\ RequestSoFar' /\ RequestHeld'
<1>1. /\ UNCHANGED <<round, submitter, owner, walked, faults, participants, votes, requested>>
      /\ holds' = [holds EXCEPT ![a] = "nothing"]
      /\ requested # None /\ holds[a] = requested
  BY DEF Restart, vars
<1>2. round # "EvaluateAnswers"
  BY <1>1 DEF VotesInv, RequestSoFar
<1>3. VotesData'
  BY <1>1 DEF VotesInv, VotesData
<1>4. PayloadsFit'
  <2>1. Content(submitter)' = Content(submitter)
    BY <1>1
  <2> QED
    BY <1>1, <1>2, <2>1 DEF VotesInv, PayloadsFit
<1>5. RequestSoFar'
  BY <1>1 DEF VotesInv, RequestSoFar
<1>6. Holders' = Holders /\ Needed' = Needed
  BY <1>1 DEF Holders, Needed, VotesInv, VotesData
<1> QED
  BY <1>1, <1>3, <1>4, <1>5, <1>6 DEF VotesInv, RequestHeld

\* After a transition the votes are empty.
LEMMA FreshVotes ==
    ASSUME VotesInv, votes' = NoVotes, UNCHANGED <<participants, holds>>,
           requested' \in Agents \cup {None}
    PROVE  VotesData' /\ PayloadsFit'
<1>1. \A a \in Agents : NoVotes[a] = None
  BY DEF NoVotes
<1>2. NoVotes \in [Agents -> {None}]
  BY DEF NoVotes
<1> QED
  BY <1>1, <1>2 DEF VotesInv, VotesData, PayloadsFit

\* A decision on a request is one of agents that hold its nonce.
LEMMA DecideKeeps ==
    ASSUME VotesInv, Decide
    PROVE  VotesData' /\ PayloadsFit' /\ RequestSoFar' /\ RequestHeld'
<1> USE DEF Goes, Submits
<1>1. votes' = NoVotes /\ UNCHANGED <<walked, participants, holds>>
  BY DecisionsFit
<1>2. CASE \E v \in Votes \cap Agents : Quorum(v) /\ requested' = v
  <2>1. PICK v \in Votes \cap Agents : Quorum(v) /\ requested' = v
    BY <1>2
  <2>2. round = "EvaluateAnswers"
    <3>1. Agents \cap Words = {} /\ None \notin Agents
      BY VotesAssumption
    <3>2. \E a \in participants : a \in Agents /\ votes[a] = v
      BY <2>1, VotesSent DEF VotesInv
    <3>3. round # "ScanMarkets" /\ round # "BuildAnswerTx"
      BY <2>1, <3>1, <3>2 DEF VotesInv, PayloadsFit, Words
    <3>4. Content(submitter) \in Words
      BY DEF Words, VotesInv, FsmInv, TypeOK
    <3>5. round # "PostTransaction"
      BY <2>1, <3>1, <3>2, <3>4 DEF VotesInv, PayloadsFit
    <3> QED
      BY <3>3, <3>5, FourRounds DEF Decide
  <2>3. requested = None
    BY <2>2 DEF VotesInv, RequestSoFar
  <2>4. v # None
    BY <2>1, VotesAssumption
  <2>5. round' = "MechVersionDetection" /\ UNCHANGED <<submitter, owner>>
    BY <2>1, <2>2, <2>3, <2>4, DecisionsFit
  <2>6. VotesData' /\ PayloadsFit'
    BY <1>1, <2>1, FreshVotes
  <2>7. RequestSoFar'
    BY <2>1, <2>4, <2>5 DEF RequestSoFar, MechSteps, Recovery
  <2>8. Voters(v) \subseteq Holders' /\ Holders' \subseteq participants
    <3>1. \A a \in participants : a \in Agents /\ (votes[a] = v => holds[a] = v)
      BY <2>2, <2>4, SomeParticipants DEF VotesInv, VotesData, PayloadsFit
    <3> QED
      BY <1>1, <2>1, <3>1 DEF Voters, Holders
  <2>9. Cardinality(Holders') >= Cardinality(Voters(v))
    BY <2>8, SomeParticipants, FS_Subset, FS_CardinalityType DEF VotesInv, VotesData
  <2>10. RequestHeld'
    <3>1. Cardinality(Voters(v)) >= Needed /\ Needed' = Needed /\ Needed \in Nat
      BY <1>1, <2>1, SomeParticipants, ThresholdType
         DEF Quorum, Needed, VotesInv, VotesData
    <3>2. Cardinality(Voters(v)) \in Nat /\ Cardinality(Holders') \in Nat
      BY <2>8, SomeParticipants, FS_Subset, FS_CardinalityType DEF VotesInv, VotesData
    <3> QED
      BY <2>9, <3>1, <3>2 DEF RequestHeld
  <2> QED
    BY <2>6, <2>7, <2>10
<1>3. CASE requested' = requested
  <2>1. VotesData' /\ PayloadsFit'
    BY <1>1, <1>3, FreshVotes DEF VotesInv, VotesData
  <2>2. RequestSoFar'
    <3>1. CASE round \in {"ScanMarkets", "BuildAnswerTx"}
      BY <1>3, <3>1, DecisionsFit DEF VotesInv, RequestSoFar, MechSteps, Recovery
    <3>2. CASE round = "EvaluateAnswers"
      <4>1. \A v \in Votes \cap Agents : requested' # v
        BY <1>3, <3>2, VotesAssumption DEF VotesInv, RequestSoFar
      <4> QED
        BY <1>3, <3>2, <4>1, DecisionsFit DEF VotesInv, RequestSoFar, MechSteps, Recovery
    <3>3. CASE round = "PostTransaction"
      <4>1. round' = AfterTx(Content(submitter)) /\ submitter' = submitter
        BY <3>3, DecisionsFit
      <4>2. submitter \in Submitters
        BY DEF VotesInv, FsmInv, TypeOK
      <4> QED
        BY <1>3, <3>3, <4>1, <4>2 DEF VotesInv, RequestSoFar, MechSteps, Recovery,
           AfterTx, Content, Submitters
    <3> QED
      BY <3>1, <3>2, <3>3, DecisionsFit
  <2>3. Holders' = Holders /\ Needed' = Needed
    BY <1>1, <1>3 DEF Holders, Needed
  <2> QED
    BY <1>3, <2>1, <2>2, <2>3 DEF VotesInv, RequestHeld
<1> QED
  BY <1>2, <1>3, DecisionsFit

\* A failed round leaves the request as it is.
LEMMA FailureKeeps ==
    ASSUME VotesInv, NoMajority \/ TimesOut
    PROVE  VotesData' /\ PayloadsFit' /\ RequestSoFar' /\ RequestHeld'
<1>1. votes' = NoVotes /\ UNCHANGED <<walked, participants, holds, requested>>
  BY FailuresFit
<1>2. round' \in {"ScanMarkets", "ResetAndPause"}
      /\ (round' = "ScanMarkets" => round = "ScanMarkets")
  BY FailuresFit DEF Goes
<1>3. VotesData' /\ PayloadsFit'
  BY <1>1, FreshVotes DEF VotesInv, VotesData
<1>4. RequestSoFar'
  BY <1>1, <1>2 DEF VotesInv, RequestSoFar, MechSteps, Recovery
<1>5. Holders' = Holders /\ Needed' = Needed
  BY <1>1 DEF Holders, Needed
<1> QED
  BY <1>1, <1>3, <1>4, <1>5 DEF VotesInv, RequestHeld

\* The other skills' rounds start from no votes and leave the request alone.
LEMMA ElsewhereKeeps ==
    ASSUME VotesInv, Elsewhere
    PROVE  VotesData' /\ PayloadsFit' /\ RequestSoFar' /\ RequestHeld'
<1> USE DEF Goes, Submits
<1>1. UNCHANGED <<participants, votes, holds, requested>>
  BY DEF Elsewhere, voteVars
<1>2. round \notin VotingRounds
  BY FourRounds DEF Elsewhere, Register, IdentifyOwner, ForwardFunds, Mech, Settle, Recover,
     Recovery
<1>3. VotesData' /\ PayloadsFit'
  BY <1>1, <1>2, FreshVotes DEF VotesInv, VotesData, PayloadsFit
<1>4. RequestSoFar'
  <2>1. CASE Register \/ IdentifyOwner \/ ForwardFunds \/ Settle
    BY <1>1, <2>1 DEF VotesInv, RequestSoFar, MechSteps, Recovery, Register, IdentifyOwner,
       ForwardFunds, Settle
  <2>2. CASE Mech
    BY <1>1, <2>2 DEF VotesInv, RequestSoFar, MechSteps, Recovery, Mech
  <2>3. CASE \E step \in Recovery : Recover(step)
    BY <1>1, <2>3 DEF VotesInv, RequestSoFar, MechSteps, Recovery, Recover, NextStep
  <2> QED
    BY <2>1, <2>2, <2>3 DEF Elsewhere
<1>5. Holders' = Holders /\ Needed' = Needed
  BY <1>1 DEF Holders, Needed
<1> QED
  BY <1>1, <1>3, <1>4, <1>5 DEF VotesInv, RequestHeld

\* A new period starts without votes and request.
LEMMA PeriodKeeps ==
    ASSUME VotesInv, NextPeriod
    PROVE  VotesData' /\ PayloadsFit' /\ RequestSoFar' /\ RequestHeld'
<1>1. /\ round = "ResetAndPause" /\ round' \in {"IdentifyServiceOwner", "Registration"}
      /\ holds' = NoVotes /\ requested' = None /\ UNCHANGED <<participants, votes>>
  BY DEF NextPeriod, Reset
<1>2. votes = NoVotes
  BY <1>1, FourRounds DEF VotesInv, PayloadsFit
<1>3. VotesData'
  BY <1>1 DEF VotesInv, VotesData, NoVotes
<1>4. PayloadsFit'
  BY <1>1, <1>2 DEF PayloadsFit
<1>5. RequestSoFar' /\ RequestHeld'
  BY <1>1 DEF RequestSoFar, RequestHeld, MechSteps, Recovery
<1> QED
  BY <1>3, <1>4, <1>5

\* Every step keeps the invariant.
LEMMA VotesStep == VotesInv /\ [VotesNext]_votingVars => VotesInv'
<1> SUFFICES ASSUME VotesInv, [VotesNext]_votingVars PROVE VotesInv'
  OBVIOUS
<1>1. FsmInv'
  BY VotesFollow, FsmStep DEF VotesInv
<1>2. ASSUME UNCHANGED votingVars
      PROVE  VotesData' /\ PayloadsFit' /\ RequestSoFar' /\ RequestHeld'
  <2>1. /\ UNCHANGED <<round, submitter, participants, votes, holds, requested>>
        /\ Holders' = Holders /\ Needed' = Needed
        /\ Content(submitter)' = Content(submitter)
    BY <1>2 DEF votingVars, vars, voteVars, Holders, Needed
  <2> QED
    BY <2>1 DEF VotesInv, VotesData, PayloadsFit, RequestSoFar, RequestHeld
<1> QED
  BY <1>1, <1>2, VoteKeeps, RestartKeeps, DecideKeeps, FailureKeeps, ElsewhereKeeps,
     PeriodKeeps DEF VotesNext, Transition, VotesInv

\* The invariant holds in every reachable state.
LEMMA VotesInvariant == VotesSpec => []VotesInv
BY VotesStart, VotesStep, PTL DEF VotesSpec

-----------------------------------------------------------------------------
(* The service with its clock *)

\* The clock is between zero and its bounds; a round overstays its timeout
\* only while there are no blocks.
TimeInv ==
    /\ elapsed \in 0 .. MaxElapsed
    /\ quiet \in 0 .. StallTolerance + 1
    /\ started \in BOOLEAN
    /\ elapsed > TimeoutOf(round) => quiet > 0

\* Every timeout is a number.
LEMMA TimeoutsAreTimes == TimeoutOf(round) \in Nat
BY HealthAssumption DEF TimeoutOf

\* A step of the service is a step of the votes, or none.
LEMMA ServiceVotes == [ServiceNext]_serviceVars => [VotesNext]_votingVars
BY DEF ServiceNext, serviceVars, VotesNext, Transition, Tick, VoteInBlock, AgentRestarts,
   TransitionInBlock

\* The clock's invariant is kept.
LEMMA TimeStep == TimeInv /\ [ServiceNext]_serviceVars => TimeInv'
<1> SUFFICES ASSUME TimeInv, [ServiceNext]_serviceVars PROVE TimeInv'
  OBVIOUS
<1>1. /\ StallTolerance \in Nat /\ MaxElapsed \in Nat
      /\ TimeoutOf(round) \in Nat /\ TimeoutOf(round)' \in Nat
  BY HealthAssumption DEF TimeoutOf
<1>2. ASSUME Tick PROVE TimeInv'
  <2>1. TimeoutOf(round)' = TimeoutOf(round) /\ started' = started
    BY <1>2 DEF Tick, votingVars, vars
  <2>2. CASE Blocks(round) /\ quiet' = 0
    BY <1>1, <1>2, <2>1, <2>2 DEF Tick, Blocks, TimeInv
  <2>3. CASE quiet' = IF quiet <= StallTolerance THEN quiet + 1 ELSE quiet
    BY <1>1, <1>2, <2>1, <2>3 DEF Tick, TimeInv
  <2> QED
    BY <1>2, <2>2, <2>3 DEF Tick
<1>3. ASSUME VoteInBlock PROVE TimeInv'
  <2>1. TimeoutOf(round)' = TimeoutOf(round)
    BY <1>3 DEF VoteInBlock, Vote, vars
  <2> QED
    BY <1>1, <1>3, <2>1 DEF VoteInBlock, Blocks, TimeInv
<1>4. ASSUME AgentRestarts \/ UNCHANGED serviceVars PROVE TimeInv'
  <2>1. TimeoutOf(round)' = TimeoutOf(round) /\ UNCHANGED timeVars
    BY <1>4 DEF AgentRestarts, Restart, vars, serviceVars, votingVars
  <2> QED
    BY <2>1 DEF TimeInv, timeVars
<1>5. ASSUME TransitionInBlock PROVE TimeInv'
  BY <1>1, <1>5 DEF TransitionInBlock, TimeInv
<1> QED
  BY <1>2, <1>3, <1>4, <1>5 DEF ServiceNext

\* The service runs the votes, and keeps both invariants.
LEMMA ServiceInvariant == ServiceSpec => VotesSpec /\ [](VotesInv /\ TimeInv)
<1>1. ServiceInit => VotesInit /\ TimeInv
  <2> SUFFICES ASSUME ServiceInit PROVE TimeInv
    BY DEF ServiceInit
  <2>1. MaxElapsed \in Nat /\ StallTolerance \in Nat /\ TimeoutOf(round) \in Nat
    BY HealthAssumption, TimeoutsAreTimes
  <2>2. elapsed = 0 /\ quiet = 0
    BY DEF ServiceInit
  <2>3. started \in BOOLEAN
    BY DEF ServiceInit
  <2>4. elapsed \in 0..MaxElapsed /\ quiet \in 0..StallTolerance + 1
    BY <2>1, <2>2
  <2>5. ~ (elapsed > TimeoutOf(round))
    BY <2>1, <2>2
  <2> QED
    BY <2>3, <2>4, <2>5 DEF TimeInv
<1> QED
  BY <1>1, ServiceVotes, TimeStep, VotesInvariant, PTL DEF ServiceSpec, VotesSpec

-----------------------------------------------------------------------------
\* evaluate_answers.py:99-147: a paid request carries a nonce that enough
\* agents hold, until they restart.
THEOREM RequestUsable == ServiceSpec => []PaidAnswerUsable
<1>1. VotesInv => PaidAnswerUsable
  BY DEF VotesInv, RequestSoFar, RequestHeld, Holders, PaidAnswerUsable
<1> QED
  BY <1>1, ServiceInvariant, PTL

\* The service of several agents implements the rounds of ResolverFSM.
THEOREM ImplementsFsm == ServiceSpec => FollowsFsm
<1>1. VotesInit => Init
  BY DEF VotesInit
<1> QED
  BY <1>1, VotesFollow, ServiceInvariant, PTL DEF VotesSpec, FollowsFsm, Spec

\* Hence what is proved of ResolverFSM holds of the service.
THEOREM ServiceResumes == ServiceSpec => ChainInOrder /\ ResumesOwner /\ PeriodsEnd
BY ImplementsFsm, RecoveryInOrder, OwnerResumed, PeriodEnds DEF FollowsFsm

\* The types of the service.
THEOREM ServiceTypes == ServiceSpec => []ServiceTypeOK
<1>1. VotesInv /\ TimeInv => ServiceTypeOK
  BY DEF VotesInv, VotesData, FsmInv, TimeInv, ServiceTypeOK, VotesTypeOK
<1> QED
  BY <1>1, ServiceInvariant, PTL

\* handlers.py:346-355: what is reported as stuck is in a round whose timeout
\* exceeds three pauses, or sees no blocks, whatever the configured times.
THEOREM StuckIsLong == ServiceSpec => []StuckOnlyInLongRounds
<1>1. ASSUME TimeInv, LiveReason = "stuck-no-transition"
      PROVE  TimeoutOf(round) > 3 * PauseTime \/ quiet > 0
  <2>1. elapsed > 3 * PauseTime
    BY <1>1, HealthAssumption DEF LiveReason, LivenessOk, StallLimit, TimeInv
  <2>2. elapsed \in Nat /\ quiet \in Nat /\ TimeoutOf(round) \in Nat /\ PauseTime \in Nat
    BY <1>1, TimeoutsAreTimes, HealthAssumption DEF TimeInv
  <2> QED
    BY <1>1, <2>1, <2>2 DEF TimeInv
<1>2. TimeInv => StuckOnlyInLongRounds
  BY <1>1 DEF StuckOnlyInLongRounds
<1> QED
  BY <1>2, ServiceInvariant, PTL

=============================================================================
