------------------------------ MODULE Realitio ------------------------------
(***************************************************************************)
(* The Realitio bond game and the Omen subgraph's view of it, as the skill *)
(* uses them.  Both are outside the repository: the accept rule is the one *)
(* submitAnswer's max_previous argument and doubled bond are built for.    *)
(* Every other actor of the game is an environment action.                 *)
(***************************************************************************)
EXTENDS Integers

CONSTANTS
    Markets,        \* the Omen markets (one Realitio question each)
    Answers,        \* encoded answers: YES, NO, INVALID
    None,           \* no answer, no evaluation, nothing selected
    Bonds,          \* the bonds other parties post
    AnswerTimeout,  \* realitio_timeout: an answer is final this long after it
    MaxTime         \* bound: the clock stops here

ASSUME RealitioAssumption ==
    /\ None \notin Answers
    /\ None \notin Markets
    /\ Bonds \subseteq Nat \ {0}
    /\ AnswerTimeout \in Nat
    /\ MaxTime \in Nat \ {0}

VARIABLES
    clock,    \* chain time; last_synced_timestamp at every step that reads it
    chain,    \* chain[m]: the question's best answer, bond, answerer, time
    indexed   \* indexed[m]: the state of chain[m] the Omen subgraph serves

realitioVars == <<clock, chain, indexed>>

Answerers == {"us", "trusted", "other"}

Question == [answer : Answers \cup {None}, bond : Nat,
             answerer : Answerers \cup {"nobody"}, ts : Nat]

Unanswered == [answer |-> None, bond |-> 0, answerer |-> "nobody", ts |-> 0]

RealitioTypeOK ==
    /\ clock \in Nat \ {0}
    /\ chain \in [Markets -> Question]
    /\ indexed \in [Markets -> Question]

\* A timestamp of 0 reads as "no answer" in the code, so time starts at 1.
RealitioInit ==
    /\ clock = 1
    /\ chain = [m \in Markets |-> Unanswered]
    /\ indexed = [m \in Markets |-> Unanswered]

IsOpen(q, now) == q.bond = 0 \/ now < q.ts + AnswerTimeout

\* submitAnswer: the bond must double the current one, and max_previous,
\* when it is not 0, must not be beaten by the current bond.
Accepts(q, now, bond, maxPrevious) ==
    /\ IsOpen(q, now)
    /\ bond > 0
    /\ bond >= 2 * q.bond
    /\ maxPrevious > 0 => q.bond <= maxPrevious

Answered(answer, bond, who, now) ==
    [answer |-> answer, bond |-> bond, answerer |-> who, ts |-> now]

\* Somebody else answers or challenges.
OtherAnswers(m) ==
    /\ \E answer \in Answers, bond \in Bonds, who \in Answerers \ {"us"} :
          /\ Accepts(chain[m], clock, bond, 0)
          /\ chain' = [chain EXCEPT ![m] = Answered(answer, bond, who, clock)]
    /\ UNCHANGED <<clock, indexed>>

\* The subgraph catches up with the question.
SubgraphIndexes(m) ==
    /\ indexed[m] # chain[m]
    /\ indexed' = [indexed EXCEPT ![m] = chain[m]]
    /\ UNCHANGED <<clock, chain>>

\* Time advances by one unit, up to the bound.
Later(now) == IF now < MaxTime THEN now + 1 ELSE now

=============================================================================
