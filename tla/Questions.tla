----------------------------- MODULE Questions -----------------------------
(***************************************************************************)
(* What conditions promise the author of a task, without names, numbers,   *)
(* timeouts, a backend or an informer: a question is put once and decided  *)
(* once, and whoever waits for it, in whatever attempt, is told what was   *)
(* decided of that question, or nothing.                                   *)
(***************************************************************************)
CONSTANTS
    Asks,           \* the calls of the task body that ask
    Outcomes,       \* what a question may be decided to
    Readings(_, _)  \* what a call may make of an outcome: nothing if it is no answer

VARIABLES
    asked,      \* the questions that were put, in any attempt
    decision,   \* the outcome of each question, in a set; none at first
    told        \* what each call of this attempt was told, in a set

questionsVars == <<asked, decision, told>>

Nothing == [a \in Asks |-> {}]

QuestionsInit ==
    /\ asked = {}
    /\ decision = Nothing
    /\ told = Nothing

Pose(a) ==
    /\ a \notin asked
    /\ asked' = asked \cup {a}
    /\ UNCHANGED <<decision, told>>

Decide(a) ==
    /\ a \in asked
    /\ decision[a] = {}
    /\ \E o \in Outcomes : decision' = [decision EXCEPT ![a] = {o}]
    /\ UNCHANGED <<asked, told>>

Tell(a) ==
    /\ told[a] = {}
    /\ \E o \in decision[a] : \E r \in Readings(a, o) :
         told' = [told EXCEPT ![a] = {r}]
    /\ UNCHANGED <<asked, decision>>

NextAttempt ==
    /\ told' = Nothing
    /\ UNCHANGED <<asked, decision>>

QuestionsNext == NextAttempt \/ \E a \in Asks : Pose(a) \/ Decide(a) \/ Tell(a)

QuestionsSpec == QuestionsInit /\ [][QuestionsNext]_questionsVars
=============================================================================
