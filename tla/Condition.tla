----------------------------- MODULE Condition -----------------------------
(***************************************************************************)
(* Conditions: questions a task puts to someone outside it.                *)
(*                                                                         *)
(* A task creates a condition, which the controller enqueues and the       *)
(* backend parks until it is signalled, times out or is aborted; the task  *)
(* may wait for it, and learns of its end through the informer.  A retry   *)
(* runs the task body again: it creates the same conditions, and should    *)
(* find those that were answered.  A condition created in a traced step    *)
(* that is replayed is not created again.                                  *)
(*                                                                         *)
(* Simplifications:                                                        *)
(*  - a traced step creates one condition, and ends with its answer;       *)
(*  - someone who answers is shown the prompt of the call that created the *)
(*    condition first, and gives a literal of that call's type.            *)
(***************************************************************************)
EXTENDS Naming, Literals

CONSTANTS
    Asks,           \* the calls of the task body that create a condition
    NameOf,         \* the condition name of each call
    GroupOf,        \* the group each call is made in
    TypeOf,         \* the native type each call waits for
    Before,         \* pairs of calls the body makes one after the other
    InsideStep,     \* calls made in a traced step
    TimeoutOf,      \* timeout each call sets: "none", "zero" or "positive"
    AnswersTo(_),   \* values given to a question of a simple type
    MaxAttempt      \* bound: attempts the backend makes

(* impl_condition_value *)
ConditionTypes == {"bool", "i64", "i32", "f64", "f32", "String"}

ASSUME ConditionAssumption ==
    /\ IsFiniteSet(Asks)
    /\ TypeOf \in [Asks -> ConditionTypes]
    /\ Before \subseteq Asks \X Asks
    /\ InsideStep \subseteq Asks
    /\ TimeoutOf \in [Asks -> {"none", "zero", "positive"}]
    /\ MaxAttempt \in Nat \ {0}

VARIABLES
    attempt,    \* number of the running attempt
    phase,      \* of the task: "running" or "exited"
    counter,    \* the Sequencer's map (volatile)
    pc,         \* where each call is (volatile)
    seq,        \* number each call drew, 0 before it does (volatile)
    answer,     \* what each wait returned (volatile)
    queue,      \* <<name, call>> handed to the controller (volatile)
    cache,      \* conditions the informer has seen the end of (volatile)
    conditions, \* backend: name -> condition action
    recorded    \* backend: calls whose traced step is recorded

vars == <<attempt, phase, counter, pc, seq, answer, queue, cache, conditions,
          recorded>>
task    == <<counter, pc, seq, answer>>
backend == <<conditions, recorded>>

NoAnswer == <<"no answer">>
NoOutput == <<"none", "none">>

(* "unsuccessful" stands for the phases Aborted and Failed, which a wait     *)
(* reports alike, as an Error::Condition.                                   *)
Terminal == {"succeeded", "timedOut", "unsuccessful"}

-----------------------------------------------------------------------------

Parent == <<"parent">>

Key(a) == SequenceKey(NameOf[a], GroupOf[a])

Keys == {Key(a) : a \in Asks}

NameWith(a, n) == ConditionName(Parent, NameOf[a], n, GroupOf[a])

Name(a) == NameWith(a, seq[a])

Names == {NameWith(a, n) : a \in Asks, n \in 1..Cardinality(Asks)}

(* Only a strictly positive timeout is sent. *)
SendsTimeout(a) == TimeoutOf[a] = "positive"

Extend(f, n, v) == [m \in DOMAIN f \cup {n} |-> IF m = n THEN v ELSE f[m]]

(* A process that has not run the task body yet, or no longer does. *)
Fresh ==
    /\ counter' = [k \in Keys |-> 0]
    /\ pc' = [a \in Asks |-> "idle"]
    /\ seq' = [a \in Asks |-> 0]
    /\ answer' = [a \in Asks |-> NoAnswer]
    /\ queue' = {} /\ cache' = {}

Init ==
    /\ attempt = 1
    /\ phase = "running"
    /\ counter = [k \in Keys |-> 0]
    /\ pc = [a \in Asks |-> "idle"]
    /\ seq = [a \in Asks |-> 0]
    /\ answer = [a \in Asks |-> NoAnswer]
    /\ queue = {} /\ cache = {}
    /\ conditions = [n \in {} |-> NoAnswer]
    /\ recorded = {}

-----------------------------------------------------------------------------
(* The task *)

(* The body has made the calls that come before this one. *)
Reached(a) ==
    /\ phase = "running"
    /\ pc[a] = "idle"
    /\ \A b \in Asks : <<b, a>> \in Before => pc[b] # "idle"

(* ConditionBuilder::create: draw a number, then enqueue the condition, or  *)
(* fail to.  It returns before the backend knows of the condition.          *)
Create(a) ==
    /\ Reached(a)
    /\ counter' = [counter EXCEPT ![Key(a)] = @ + 1]
    /\ seq' = [seq EXCEPT ![a] = counter[Key(a)] + 1]
    /\ \/ /\ queue' = queue \cup {<<NameWith(a, counter[Key(a)] + 1), a>>}
          /\ pc' = [pc EXCEPT ![a] = "created"]
       \/ /\ pc' = [pc EXCEPT ![a] = "failed"]
          /\ UNCHANGED queue
    /\ UNCHANGED <<attempt, phase, answer, cache, backend>>

(* Replay of the step the call is in: its body does not run. *)
Skip(a) ==
    /\ Reached(a)
    /\ a \in recorded
    /\ pc' = [pc EXCEPT ![a] = "replayed"]
    /\ UNCHANGED <<attempt, phase, counter, seq, answer, queue, cache, backend>>

Wait(a) ==
    /\ pc[a] = "created"
    /\ pc' = [pc EXCEPT ![a] = "waiting"]
    /\ UNCHANGED <<attempt, phase, counter, seq, answer, queue, cache, backend>>

(* A wait that is only over with an answer. *)
FaultyWaitEnds(a) ==
    /\ pc[a] = "waiting"
    /\ Name(a) \in cache
    /\ LET result == FromLiteral(TypeOf[a], conditions[Name(a)].output) IN
        /\ conditions[Name(a)].phase = "succeeded" /\ IsOk(result)
        /\ answer' = [answer EXCEPT ![a] = result]
        /\ pc' = [pc EXCEPT ![a] = "answered"]
    /\ UNCHANGED <<attempt, phase, counter, seq, queue, cache, backend>>

(* The condition has ended: with a literal of the type, with another or     *)
(* none (Error::Type), or without success (Error::Condition).               *)
WaitEnds(a) ==
    /\ pc[a] = "waiting"
    /\ Name(a) \in cache
    /\ LET result == FromLiteral(TypeOf[a], conditions[Name(a)].output) IN
        IF conditions[Name(a)].phase = "succeeded" /\ IsOk(result)
          THEN /\ answer' = [answer EXCEPT ![a] = result]
               /\ pc' = [pc EXCEPT ![a] = "answered"]
          ELSE /\ pc' = [pc EXCEPT ![a] = "failed"]
               /\ UNCHANGED answer
    /\ UNCHANGED <<attempt, phase, counter, seq, queue, cache, backend>>

WaitFails(a) ==
    /\ pc[a] = "waiting"
    /\ pc' = [pc EXCEPT ![a] = "failed"]
    /\ UNCHANGED <<attempt, phase, counter, seq, answer, queue, cache, backend>>

(* The caller drops a wait: try_join!, select!, a timeout of its own.  The  *)
(* condition stays parked, and may be waited for again.                     *)
Drop(a) ==
    /\ pc[a] = "waiting"
    /\ pc' = [pc EXCEPT ![a] = "created"]
    /\ UNCHANGED <<attempt, phase, counter, seq, answer, queue, cache, backend>>

(* The step that waited for the condition returns, and is recorded. *)
RecordStep(a) ==
    /\ pc[a] = "answered"
    /\ a \in InsideStep \ recorded
    /\ recorded' = recorded \cup {a}
    /\ UNCHANGED <<attempt, phase, task, queue, cache, conditions>>

(* A counter that outlives its attempt. *)
FaultyRetry ==
    /\ phase = "running"
    /\ attempt < MaxAttempt
    /\ attempt' = attempt + 1
    /\ pc' = [a \in Asks |-> "idle"]
    /\ seq' = [a \in Asks |-> 0]
    /\ answer' = [a \in Asks |-> NoAnswer]
    /\ queue' = {} /\ cache' = {}
    /\ UNCHANGED <<phase, counter, backend>>

(* The attempt ends, wherever its calls are, and the next one starts. *)
Retry ==
    /\ phase = "running"
    /\ attempt < MaxAttempt
    /\ attempt' = attempt + 1
    /\ Fresh
    /\ UNCHANGED <<phase, backend>>

(* The task body has returned, and its process is gone. *)
Exit ==
    /\ phase = "running"
    /\ \A a \in Asks : pc[a] # "waiting"
    /\ phase' = "exited"
    /\ Fresh
    /\ UNCHANGED <<attempt, backend>>

Terminated ==
    /\ phase = "exited"
    /\ UNCHANGED vars

-----------------------------------------------------------------------------
(* The controller, the backend, and whoever answers *)

(* The backend creates the condition, or keeps the one it already has. *)
Deliver(n, a) ==
    /\ <<n, a>> \in queue
    /\ queue' = queue \ {<<n, a>>}
    /\ IF n \in DOMAIN conditions
         THEN UNCHANGED conditions
         ELSE conditions' = Extend(conditions, n,
                   [call |-> a, phase |-> "paused", output |-> NoOutput])
    /\ UNCHANGED <<attempt, phase, task, cache, recorded>>

(* What becomes of a condition after the task has returned is left out. *)
EndAs(n, outcome, output) ==
    /\ phase = "running"
    /\ n \in DOMAIN conditions
    /\ conditions[n].phase = "paused"
    /\ conditions' = [conditions EXCEPT ![n].phase = outcome, ![n].output = output]
    /\ UNCHANGED <<attempt, phase, task, queue, cache, recorded>>

(* The backend permits an answer without a value. *)
Signal(n) ==
    LET type == LiteralType(TypeOf[conditions[n].call]) IN
    \/ \E v \in AnswersTo(type) : EndAs(n, "succeeded", <<type, v>>)
    \/ EndAs(n, "succeeded", NoOutput)

Abort(n) == EndAs(n, "unsuccessful", NoOutput)

(* A timeout is set by the call that created the condition. *)
TimeOut(n) ==
    /\ n \in DOMAIN conditions /\ SendsTimeout(conditions[n].call)
    /\ EndAs(n, "timedOut", NoOutput)

(* The informer sees the end of a condition. *)
Sync(n) ==
    /\ phase = "running"
    /\ n \in DOMAIN conditions \ cache
    /\ conditions[n].phase \in Terminal
    /\ cache' = cache \cup {n}
    /\ UNCHANGED <<attempt, phase, task, queue, backend>>

Next ==
    \/ Retry \/ Exit \/ Terminated
    \/ \E a \in Asks :
        \/ Create(a) \/ Skip(a)
        \/ Wait(a) \/ WaitEnds(a) \/ WaitFails(a) \/ Drop(a)
        \/ RecordStep(a)
    \/ \E q \in queue : Deliver(q[1], q[2])
    \/ \E n \in DOMAIN conditions : Signal(n) \/ Abort(n) \/ TimeOut(n) \/ Sync(n)

Spec == Init /\ [][Next]_vars

(* The controller delivers and syncs, the backend enforces timeouts, and a  *)
(* finished wait returns.  Nobody has to answer, and no wait has to fail.   *)
Fairness ==
    /\ \A a \in Asks : WF_vars(WaitEnds(a))
    /\ \A n \in Names :
         WF_vars((\E a \in Asks : Deliver(n, a)) \/ TimeOut(n) \/ Sync(n))

FairSpec == Spec /\ Fairness

-----------------------------------------------------------------------------
(* Properties *)

(* What a condition may end with. *)
Outputs ==
    {NoOutput} \cup UNION {{LiteralType(t)} \X AnswersTo(LiteralType(t)) :
                              t \in ConditionTypes}

TypeOK ==
    /\ attempt \in 1..MaxAttempt
    /\ phase \in {"running", "exited"}
    /\ counter \in [Keys -> Nat]
    /\ pc \in [Asks -> {"idle", "created", "waiting", "answered", "failed",
                        "replayed"}]
    /\ seq \in [Asks -> 0..Cardinality(Asks)]
    /\ DOMAIN answer = Asks
    /\ queue \subseteq Names \X Asks
    /\ DOMAIN conditions \subseteq Names
    /\ \A n \in DOMAIN conditions : conditions[n] \in
        [call : Asks, phase : Terminal \cup {"paused"}, output : Outputs]
    /\ cache \subseteq DOMAIN conditions
    /\ recorded \subseteq InsideStep

(* The number a call draws if the calls before it that share its counter do. *)
Rank(a) == 1 + Cardinality({b \in Asks : Key(b) = Key(a) /\ <<b, a>> \in Before})

(* The calls that share a counter are made in a fixed order and outside of  *)
(* traced steps, and the names they get are spelled apart.                  *)
CallsAreOrdered ==
    /\ \A a, b \in Asks : a # b /\ Key(a) = Key(b) =>
        /\ <<a, b>> \in Before \/ <<b, a>> \in Before
        /\ a \notin InsideStep
    /\ \A a, b \in Asks : NameWith(a, Rank(a)) = NameWith(b, Rank(b)) => a = b

(* The answer a call returns was given to the question that call asks, in   *)
(* whichever attempt it was asked: holds when the calls are ordered.        *)
(* (ConditionBuilder::create.)                                              *)
AnswersReachTheirQuestion ==
    \A a \in Asks : pc[a] = "answered" => conditions[Name(a)].call = a

(* No question is put to people twice: however many attempts there are, the *)
(* backend has no more conditions than the body has calls.                  *)
NoQuestionAskedTwice ==
    \A m, n \in DOMAIN conditions : conditions[m].call = conditions[n].call => m = n

(* A wait does not change the value of an answer it returns: an integer, a  *)
(* string or a boolean is the one given, never a wrapped or truncated one,  *)
(* whatever has happened to the condition since.  (FlyteType::from_literal.) *)
AnswersKeepTheirValue ==
    \A a \in Asks : pc[a] = "answered" /\ TypeOf[a] \notin FloatTypes =>
        answer[a][2] = conditions[Name(a)].output[2]

(* The conditions of the backend are the questions that were put, whoever   *)
(* created them and by whatever name.                                       *)
OutcomesOf(a) ==
    {<<conditions[n].phase, conditions[n].output>> :
        n \in {m \in DOMAIN conditions :
                 conditions[m].call = a /\ conditions[m].phase \in Terminal}}

ReadingsOf(a, outcome) ==
    {r \in {FromLiteral(TypeOf[a], outcome[2])} : outcome[1] = "succeeded" /\ IsOk(r)}

Q == INSTANCE Questions WITH
        Outcomes <- Terminal \X Outputs,
        Readings <- ReadingsOf,
        asked    <- {conditions[n].call : n \in DOMAIN conditions},
        decision <- [a \in Asks |-> OutcomesOf(a)],
        told     <- [a \in Asks |-> IF pc[a] = "answered" THEN {answer[a]} ELSE {}]

(* A question is decided once, for all attempts: whoever waits for it is    *)
(* told that decision, and nobody's but their own question's.  Holds when   *)
(* the calls are ordered.  (ConditionBuilder::create, Condition::wait.)     *)
ImplementsQuestions == Q!QuestionsSpec

(* A wait for a condition with a positive timeout ends, or its attempt      *)
(* does, though nobody answers: the condition is created, times out, and    *)
(* the wait learns of it.                                                   *)
TimedWaitsEnd ==
    \A a \in {b \in Asks : SendsTimeout(b)} :
        pc[a] = "waiting" ~> pc[a] # "waiting"
=============================================================================
