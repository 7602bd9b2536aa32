---------------------------- MODULE ActionProofs ----------------------------
(***************************************************************************)
(* Theorems about Action: what a task reports is of one piece.             *)
(***************************************************************************)
EXTENDS Action, FiniteSetTheorems, TLAPS

(* The state that calls are given values by has its functions over Calls. *)
Shape ==
    /\ DOMAIN pc = Calls
    /\ DOMAIN value = Calls

(* A call that was made has its arguments among the values of its attempt. *)
ArgumentsAreHeld ==
    \A c \in Calls : pc[c] # "idle" => ArgumentsOf[c] \subseteq Held

Computed == {"putOutputs", "submit", "echo", "replayed", "returned"}

IsRunOf(run, step) == run[1] \in Calls /\ Step(run[1]) = step

(* A value is of a run of the call's step ... *)
ValuesAreOfTheirStep ==
    \A c \in Calls : pc[c] \in Computed => IsRunOf(value[c], Step(c))

(* ... and so is what the store has under a name of that step. *)
OutputsAreOfTheirStep ==
    \A n \in DOMAIN outputs : IsRunOf(outputs[n], n[1])

ActionInv ==
    /\ Shape
    /\ ArgumentsAreHeld /\ ValuesAreOfTheirStep /\ OutputsAreOfTheirStep
    /\ ReportsAreCoherent

(* Whatever the body has at any time is of one piece. *)
LEMMA HeldIsCoherent ==
    ASSUME ActionInv, NEW run \in Held
    PROVE  ArgumentsOf[run[1]] \subseteq Held
<1>1. PICK c \in Calls : Done(c) /\ run = value[c]
      BY DEF Held
<1>2. Step(run[1]) = Step(c)
      BY <1>1 DEF ActionInv, ValuesAreOfTheirStep, Computed, Done, IsRunOf
<1>3. ArgumentsOf[run[1]] = ArgumentsOf[c]
      BY <1>2 DEF Step
<1> QED BY <1>1, <1>3 DEF ActionInv, ArgumentsAreHeld, Done

(* A step without a call in it keeps the values, and can only report them. *)
LEMMA ReportKeepsInv ==
    ASSUME ActionInv, UNCHANGED traceVars, Report \/ UNCHANGED reports
    PROVE  ActionInv'
<1>1. Held' = Held
      BY DEF traceVars, Held, Done
<1>2. (Shape /\ ArgumentsAreHeld /\ ValuesAreOfTheirStep /\ OutputsAreOfTheirStep)'
      BY <1>1 DEF ActionInv, traceVars, Shape, ArgumentsAreHeld, ValuesAreOfTheirStep,
         OutputsAreOfTheirStep
<1>3. ReportsAreCoherent'
  <2>1. CASE UNCHANGED reports
        BY <2>1 DEF ActionInv, ReportsAreCoherent
  <2>2. CASE Report
    <3> SUFFICES ASSUME NEW k \in DOMAIN reports', NEW run \in reports'[k]
                 PROVE  ArgumentsOf[run[1]] \subseteq reports'[k]
        BY DEF ReportsAreCoherent
    <3>1. CASE reports'[k] = Held
          BY <3>1, HeldIsCoherent
    <3>2. CASE k \in DOMAIN reports /\ reports'[k] = reports[k]
          BY <3>2 DEF ActionInv, ReportsAreCoherent
    <3> QED BY <2>2, <3>1, <3>2 DEF Report
  <2> QED BY <2>1, <2>2
<1> QED BY <1>2, <1>3 DEF ActionInv

(* What a step of a call does to the values and the store. *)
LEMMA CallStepEffect ==
    ASSUME ActionInv, NEW c \in Calls, T!CallStep(c)
    PROVE  /\ pc[c] \notin {"idle", "replayed", "returned"}
           /\ \A d \in Calls \ {c} : pc'[d] = pc[d] /\ value'[d] = value[d]
           /\ DOMAIN pc' = Calls /\ DOMAIN value' = Calls
           /\ pc'[c] # "idle"
           /\ pc'[c] \in Computed => IsRunOf(value'[c], Step(c))
           /\ OutputsAreOfTheirStep'
<1> USE DEF ActionInv, Shape, Computed, IsRunOf
<1>0. T!Name(c)[1] = Step(c)
      BY DEF T!Name, T!SubActionName
<1>1. CASE T!PutInputs(c) \/ T!LookupHit(c) \/ T!LookupMiss(c) \/ T!LookupError(c)
      BY <1>1 DEF T!PutInputs, T!LookupHit, T!LookupMiss, T!LookupError,
         T!durable, OutputsAreOfTheirStep
<1>2. CASE T!LookupAgain(c) \/ T!BodyErr(c) \/ T!Submit(c) \/ T!Echo(c)
      BY <1>2 DEF T!LookupAgain, T!BodyErr, T!Submit, T!Echo, T!durable,
         OutputsAreOfTheirStep, ValuesAreOfTheirStep
<1>3. CASE T!GetOutputs(c)
      BY <1>0, <1>3 DEF T!GetOutputs, T!durable, OutputsAreOfTheirStep
<1>4. CASE T!BodyOk(c)
      BY <1>4 DEF T!BodyOk, T!durable, OutputsAreOfTheirStep
<1>5. CASE T!PutOutputs(c)
  <2>1. OutputsAreOfTheirStep'
        BY <1>0, <1>5 DEF T!PutOutputs, T!Overwrite, OutputsAreOfTheirStep,
           ValuesAreOfTheirStep
  <2> QED BY <1>5, <2>1 DEF T!PutOutputs, ValuesAreOfTheirStep
<1> QED BY <1>1, <1>2, <1>3, <1>4, <1>5 DEF T!CallStep

(* A call that goes on keeps what the body has, and may add to it. *)
LEMMA CallStepKeepsInv ==
    ASSUME ActionInv, NEW c \in Calls, T!CallStep(c), UNCHANGED reports
    PROVE  ActionInv'
<1>1. Held \subseteq Held'
      BY CallStepEffect DEF Held, Done
<1>2. ArgumentsAreHeld'
  <2> SUFFICES ASSUME NEW d \in Calls, pc'[d] # "idle"
               PROVE  ArgumentsOf[d] \subseteq Held'
      BY DEF ArgumentsAreHeld
  <2>1. pc[d] # "idle"
        BY CallStepEffect
  <2> QED BY <1>1, <2>1 DEF ActionInv, ArgumentsAreHeld
<1>3. ValuesAreOfTheirStep'
  <2> SUFFICES ASSUME NEW d \in Calls, pc'[d] \in Computed
               PROVE  IsRunOf(value'[d], Step(d))
      BY DEF ValuesAreOfTheirStep
  <2>1. CASE d = c
        BY <2>1, CallStepEffect
  <2>2. CASE d # c
        BY <2>2, CallStepEffect DEF ActionInv, ValuesAreOfTheirStep
  <2> QED BY <2>1, <2>2
<1> QED BY <1>2, <1>3, CallStepEffect DEF ActionInv, Shape, ReportsAreCoherent

(* The synchronous head of a call that is due. *)
LEMMA DrawKeepsInv ==
    ASSUME ActionInv, NEW c \in Calls, Due(c), T!Draw(c), UNCHANGED reports
    PROVE  ActionInv'
<1>1. /\ pc[c] = "idle"
      /\ pc' = [pc EXCEPT ![c] = "putInputs"]
      /\ UNCHANGED <<value, outputs>>
      BY DEF T!Draw, T!durable
<1>2. Held' = Held
  <2>1. \A d \in Calls : Done(d)' <=> Done(d)
        BY <1>1 DEF ActionInv, Shape, Done
  <2> QED BY <1>1, <2>1 DEF Held
<1>3. ArgumentsAreHeld'
      BY <1>1, <1>2 DEF ActionInv, Shape, ArgumentsAreHeld, Due
<1>4. ValuesAreOfTheirStep'
      BY <1>1 DEF ActionInv, Shape, ValuesAreOfTheirStep, Computed
<1> QED BY <1>1, <1>3, <1>4 DEF ActionInv, Shape, OutputsAreOfTheirStep, ReportsAreCoherent

LEMMA ActionInvInit == ASSUME Init PROVE ActionInv
BY DEF Init, T!Init, ActionInv, Shape, ArgumentsAreHeld, ValuesAreOfTheirStep,
   OutputsAreOfTheirStep, ReportsAreCoherent, Computed

LEMMA ActionInvNext == ASSUME ActionInv, [Next]_vars PROVE ActionInv'
<1>1. CASE Process \/ CutOff
      BY <1>1, ReportKeepsInv DEF Process, CutOff
<1>2. CASE Start \/ Background
  <2>1. UNCHANGED <<pc, value, outputs, reports>>
        BY <1>2 DEF Start, Background, T!Begin, T!Deliver, T!Sync, T!callVars, T!durable
  <2> QED BY <2>1 DEF ActionInv, Shape, ArgumentsAreHeld, Held, Done,
          ValuesAreOfTheirStep, OutputsAreOfTheirStep, ReportsAreCoherent
<1>3. CASE Return \/ Terminated \/ UNCHANGED vars
      BY <1>3, ReportKeepsInv DEF Return, Terminated, vars
<1>4. CASE Retry
      BY <1>4 DEF Retry, T!Retry, T!durable, ActionInv, Shape, ArgumentsAreHeld,
         ValuesAreOfTheirStep, OutputsAreOfTheirStep, ReportsAreCoherent, Computed
<1>5. CASE \E c \in Calls : Call(c)
      BY <1>5, DrawKeepsInv, CallStepKeepsInv DEF Call
<1> QED BY <1>1, <1>2, <1>3, <1>4, <1>5 DEF Next

(* What a task reports is of one piece: every run it was computed from had   *)
(* its arguments from runs it was computed from as well.                    *)
THEOREM ReportsStayCoherent == Spec => []ReportsAreCoherent
<1>1. Init => ActionInv
      BY ActionInvInit
<1>2. ActionInv /\ [Next]_vars => ActionInv'
      BY ActionInvNext
<1>3. ActionInv => ReportsAreCoherent
      BY DEF ActionInv
<1> QED BY <1>1, <1>2, <1>3, PTL DEF Spec

-----------------------------------------------------------------------------
LEMMA TraceSteps == [Next]_vars => [T!Next]_(T!vars)
<1> SUFFICES ASSUME [Next]_vars PROVE [T!Next]_(T!vars)
    OBVIOUS
<1>1. CASE Process \/ CutOff \/ Return \/ Terminated \/ UNCHANGED vars
  <2>1. UNCHANGED <<attempt, traceVars>>
        BY <1>1 DEF Process, CutOff, Return, Terminated, vars, W!ResolveConfig,
           W!BuildController, W!Prewarm, W!PutOutputs, W!PutError, W!Finalize,
           W!ReportFailure, W!Exit, W!WatchFails, W!WatchEnds, W!BodyPanics, W!Kill,
           W!BodyOk, W!BodyErr
  <2> QED BY <2>1 DEF traceVars, T!vars, T!callVars, T!durable, T!history
<1>2. CASE Start \/ Retry
      BY <1>2 DEF Start, Retry, T!Next
<1>3. CASE Background
      BY <1>3 DEF Background, T!Next
<1>4. CASE \E c \in Calls : Call(c)
      BY <1>4 DEF Call, T!Next
<1> QED BY <1>1, <1>2, <1>3, <1>4 DEF Next

LEMMA WorkerSteps == [Next]_vars => [W!Next]_(W!vars)
<1> SUFFICES ASSUME [Next]_vars PROVE [W!Next]_(W!vars)
    OBVIOUS
<1>1. CASE Process
      BY <1>1 DEF Process, W!Next, W!Process, W!Execute
<1>2. CASE Start \/ Return
      BY <1>2 DEF Start, Return, W!Next, W!Process, W!Execute
<1>3. CASE CutOff
      BY <1>3 DEF CutOff, W!Next, W!Process, W!Execute
<1>4. CASE Retry
      BY <1>4 DEF Retry, W!Next
<1>5. CASE Background
      BY <1>5 DEF Background, T!Deliver, T!Sync, workerVars, W!vars
<1>6. ASSUME NEW c \in Calls, Call(c) PROVE UNCHANGED W!vars
  <2>1. UNCHANGED attempt
        BY <1>6 DEF Call, T!Draw, T!CallStep, T!PutInputs, T!LookupHit, T!LookupAgain,
           T!LookupMiss, T!LookupError, T!GetOutputs, T!BodyOk, T!BodyErr,
           T!PutOutputs, T!Submit, T!Echo
  <2> QED BY <1>6, <2>1 DEF Call, workerVars, W!vars
<1>7. CASE Terminated \/ UNCHANGED vars
      BY <1>7 DEF Terminated, vars, workerVars, W!vars
<1> QED BY <1>1, <1>2, <1>3, <1>4, <1>5, <1>6, <1>7 DEF Next

(* Seen by itself, an action's trace state behaves as Trace says ...         *)
THEOREM ActionImplementsTrace == Spec => T!Spec
<1>1. Init => T!Init
      BY DEF Init
<1> QED BY <1>1, TraceSteps, PTL DEF Spec, T!Spec

(* ... and its process as Worker says: what is proved of them holds here.    *)
THEOREM ActionImplementsWorker == Spec => W!Spec
<1>1. Init => W!Init
      BY DEF Init
<1> QED BY <1>1, WorkerSteps, PTL DEF Spec, W!Spec

-----------------------------------------------------------------------------
(* What is proved of the parts                                              *)

TP == INSTANCE TraceProofs WITH
        StepOf    <- [c \in Calls |-> Step(c)],
        Steps     <- {Step(c) : c \in Calls},
        UnitSteps <- {},
        Groups    <- {"ungrouped"},
        GroupOf   <- [c \in Calls |-> "ungrouped"]

WP == INSTANCE WorkerProofs WITH pc <- at

LEMMA TraceConstants == TP!ConstantsAssumption
BY ActionAssumption
   DEF ActionAssumption, TP!ConstantsAssumption, IsFiniteSet, TP!IsFiniteSet

LEMMA WorkerConstants == WP!WorkerAssumption
BY ActionAssumption
   DEF ActionAssumption, WP!WorkerAssumption, W!FaultKinds, WP!FaultKinds

(* The two instances of Trace, and of Worker, are of one state machine. *)
LEMMA SameTrace ==
    /\ T!Init <=> TP!Init
    /\ [T!Next]_(T!vars) <=> [TP!Next]_(TP!vars)
    /\ T!TypeOK <=> TP!TypeOK
<1>1. T!Init <=> TP!Init
      BY DEF T!Init, T!NoValue, T!SequenceKeys, TP!Init, TP!NoValue, TP!SequenceKeys
<1>2. [T!Next]_(T!vars) <=> [TP!Next]_(TP!vars)
      BY DEF T!Next, T!vars, T!callVars, T!durable, T!history, T!Begin, T!Retry,
         T!Exit, T!Terminated, T!SequenceKeys, T!NoValue, T!InFlight, T!CallStep,
         T!Draw, T!SequenceKey, T!PutInputs, T!LookupHit, T!LookupAgain,
         T!LookupMiss, T!LookupError, T!GetOutputs, T!BodyOk, T!BodyErr,
         T!PutOutputs, T!Submit, T!Echo, T!Drop, T!Deliver, T!Sync, T!Name,
         T!SubActionName, T!HasOutputs, T!IsRetry, T!Replayable, T!Overwrite,
         TP!Next, TP!vars, TP!callVars, TP!durable, TP!history, TP!Begin, TP!Retry,
         TP!Exit, TP!Terminated, TP!SequenceKeys, TP!NoValue, TP!InFlight,
         TP!CallStep, TP!Draw, TP!SequenceKey, TP!PutInputs, TP!LookupHit,
         TP!LookupAgain, TP!LookupMiss, TP!LookupError, TP!GetOutputs, TP!BodyOk,
         TP!BodyErr, TP!PutOutputs, TP!Submit, TP!Echo, TP!Drop, TP!Deliver,
         TP!Sync, TP!Name, TP!SubActionName, TP!HasOutputs, TP!IsRetry,
         TP!Replayable, TP!Overwrite
<1>3. T!TypeOK <=> TP!TypeOK
      BY DEF T!TypeOK, T!SequenceKeys, T!InFlight, T!Settled, T!Values, T!NoValue,
         T!Names, TP!TypeOK, TP!SequenceKeys, TP!InFlight, TP!Settled, TP!Values,
         TP!NoValue, TP!Names
<1> QED BY <1>1, <1>2, <1>3

(* What TraceProofs has shown to hold of every state of Trace. *)
TraceInv == TP!Inv /\ TP!ArtifactsInv /\ TP!RerunInv

LEMMA TraceInvariance == Spec => []TraceInv
<1>1. Init => TraceInv
  <2>1. Init => TP!Init
        BY SameTrace DEF Init
  <2>2. TP!Init => TP!Inv /\ TP!ArtifactsInv
        BY TraceConstants, TP!TypeInit, TP!NamesInit, TP!RunsInit, TP!ArtifactsInit
        DEF TP!ConstantsAssumption, TP!Inv
  <2>3. TP!Init => TP!RerunInv
        BY DEF TP!Init, TP!RerunInv, TP!NumbersAreCalls, TP!RunsAreNew
  <2> QED BY <2>1, <2>2, <2>3 DEF TraceInv
<1>2. TraceInv /\ [Next]_vars => TraceInv'
  <2>1. [Next]_vars => [TP!Next]_(TP!vars)
        BY TraceSteps, SameTrace
  <2>2. TraceInv /\ [TP!Next]_(TP!vars) => TP!Inv'
        BY TraceConstants, TP!TypeStep, TP!NamesStep, TP!RunsStep
        DEF TP!ConstantsAssumption, TP!Inv, TraceInv
  <2>3. TraceInv /\ [TP!Next]_(TP!vars) => TP!ArtifactsInv'
        BY TraceConstants, TP!ArtifactsStep DEF TP!ConstantsAssumption, TP!Inv, TraceInv
  <2>4. TraceInv /\ [TP!Next]_(TP!vars) => TP!RerunInv'
        BY TraceConstants, TP!RerunStep DEF TP!ConstantsAssumption, TP!Inv, TraceInv
  <2> QED BY <2>1, <2>2, <2>3, <2>4 DEF TraceInv
<1> QED BY <1>1, <1>2, PTL DEF Spec

LEMMA SameWorker ==
    /\ W!Init <=> WP!Init
    /\ [W!Next]_(W!vars) <=> [WP!Next]_(WP!vars)
    /\ W!TypeOK <=> WP!TypeOK
<1> USE DEF W!Missing, W!Placeholders, W!RealValue, W!Fields, W!NoConfig,
         W!FlagsOf, W!SkippedFlags, W!Flags, W!Takes, W!Ours, W!ParseArgs,
         W!Or, W!DefaultOutput, W!Env, W!ResolveWith, W!Required, W!Complete,
         W!NoExit, W!PanicExit, W!Executing, W!Ended, W!Artifacts, W!Resolved,
         WP!Missing, WP!Placeholders, WP!RealValue, WP!Fields, WP!NoConfig,
         WP!FlagsOf, WP!SkippedFlags, WP!Flags, WP!Takes, WP!Ours,
         WP!ParseArgs, WP!Or, WP!DefaultOutput, WP!Env, WP!ResolveWith,
         WP!Required, WP!Complete, WP!NoExit, WP!PanicExit, WP!Executing,
         WP!Ended, WP!Artifacts, WP!Resolved
<1>1. W!Init <=> WP!Init
      BY DEF W!Init, WP!Init
<1>2. [W!Next]_(W!vars) <=> [WP!Next]_(WP!vars)
      BY DEF W!Next, W!vars, W!Process, W!Execute, W!Prewarm, W!FetchInputs,
         W!BodyOk, W!BodyErr, W!BodyPanics, W!PutOutputs, W!PutError,
         W!Finalize, W!ResolveConfig, W!BuildController, W!ReportFailure,
         W!Exit, W!WatchFails, W!WatchEnds, W!Kill, W!Retry, W!Terminated,
         W!Put, W!Dropped, W!ExitWith, WP!Next, WP!vars, WP!Process,
         WP!Execute, WP!Prewarm, WP!FetchInputs, WP!BodyOk, WP!BodyErr,
         WP!BodyPanics, WP!PutOutputs, WP!PutError, WP!Finalize,
         WP!ResolveConfig, WP!BuildController, WP!ReportFailure, WP!Exit,
         WP!WatchFails, WP!WatchEnds, WP!Kill, WP!Retry, WP!Terminated,
         WP!Put, WP!Dropped, WP!ExitWith
<1>3. W!TypeOK <=> WP!TypeOK
      BY DEF W!TypeOK, WP!TypeOK
<1> QED BY <1>1, <1>2, <1>3

LEMMA WorkerInvariance == Spec => []W!TypeOK
<1>1. Spec => WP!Spec
  <2>1. Init => WP!Init
        BY SameWorker DEF Init
  <2>2. [Next]_vars => [WP!Next]_(WP!vars)
        BY WorkerSteps, SameWorker
  <2> QED BY <2>1, <2>2, PTL DEF Spec, WP!Spec
<1>2. WP!Spec => []WP!TypeOK
      BY WP!WorkerTypeCorrect, WorkerConstants, PTL DEF WP!WorkerAssumption
<1>3. WP!TypeOK => W!TypeOK
      BY SameWorker
<1> QED BY <1>1, <1>2, <1>3, PTL

-----------------------------------------------------------------------------
(* What the trace protocol means for the calls of a body                    *)

CallsOfStep(s) == {c \in Calls : Step(c) = s}

NameOf(c) == <<Step(c), "ungrouped", seq[c]>>

LEMMA CallsOfStepFinite ==
    ASSUME NEW s
    PROVE  IsFiniteSet(CallsOfStep(s)) /\ Cardinality(CallsOfStep(s)) \in Nat
BY ActionAssumption, FS_Subset, FS_CardinalityType DEF ActionAssumption, CallsOfStep

(* The names of calls, and of everything the backend holds. *)
NameFacts ==
    /\ \A n \in records :
         /\ n = <<n[1], "ungrouped", n[3]>>
         /\ n[3] \in 1..Cardinality(CallsOfStep(n[1]))
         /\ n \in DOMAIN outputs
    /\ \A c \in Calls : pc[c] # "idle" => seq[c] \in 1..Cardinality(CallsOfStep(Step(c)))
    /\ \A c, d \in Calls : pc[c] # "idle" /\ pc[d] # "idle" /\ NameOf(c) = NameOf(d)
         => c = d

(* The runs in the store and those that calls have been given. *)
RunFacts ==
    /\ \A n \in DOMAIN outputs : IsRunOf(outputs[n], n[1])
    /\ \A m, n \in DOMAIN outputs : outputs[m] = outputs[n] => m = n
    /\ \A c \in Calls : Done(c) => value[c] \in Calls \X (1..attempt)
    /\ \A c, d \in Calls : Done(c) /\ Done(d) /\ value[c] = value[d] => c = d
    /\ \A c \in Calls : pc[c] = "replayed" =>
         NameOf(c) \in DOMAIN outputs /\ value[c] = outputs[NameOf(c)]

(* What the informer had when the body began, and what has run since. *)
CacheFacts ==
    /\ synced \subseteq cache /\ synced \subseteq records
    /\ ran \cap (synced \ failed) = {}
    /\ phase = "prewarm" => \A c \in Calls : pc[c] = "idle"

LEMMA TraceTypes ==
    ASSUME TraceInv
    PROVE  /\ T!TypeOK
           /\ attempt \in Nat \ {0}
           /\ value \in [Calls -> T!Values \cup {T!NoValue}]
           /\ seq \in [Calls -> Nat]
<1>1. TP!TypeOK
      BY DEF TraceInv, TP!Inv, TP!TypeInv
<1>2. T!TypeOK
      BY <1>1, SameTrace
<1> QED BY <1>2, ActionAssumption DEF ActionAssumption, T!TypeOK

LEMMA NamesAreTriples ==
    ASSUME NEW n \in TP!Names
    PROVE  /\ n = <<n[1], "ungrouped", n[3]>>
           /\ n[2] = "ungrouped"
           /\ n[3] \in Nat \ {0}
BY DEF TP!Names

LEMMA TraceNames == ASSUME TraceInv PROVE NameFacts
<1> USE DEF TraceInv, TP!Inv, TP!TypeInv
<1>1. \A s : TP!Cardinality(TP!CallsOf(<<s, "ungrouped">>)) = Cardinality(CallsOfStep(s))
  <2> SUFFICES ASSUME NEW s
               PROVE  TP!Cardinality(TP!CallsOf(<<s, "ungrouped">>))
                        = Cardinality(CallsOfStep(s))
      OBVIOUS
  <2>1. TP!CallsOf(<<s, "ungrouped">>) = CallsOfStep(s)
        BY DEF TP!CallsOf, CallsOfStep
  <2> QED BY <2>1 DEF TP!Cardinality, Cardinality
<1>2. \A c \in Calls : TP!Name(c) = NameOf(c)
      BY DEF TP!Name, TP!SubActionName, NameOf
<1>3. ASSUME NEW n \in records
      PROVE  /\ n = <<n[1], "ungrouped", n[3]>>
             /\ n[3] \in 1..Cardinality(CallsOfStep(n[1]))
             /\ n \in DOMAIN outputs
  <2>1. n \in TP!Names
        BY DEF TP!TypeOK
  <2>2. /\ n = <<n[1], "ungrouped", n[3]>> /\ n[3] \in Nat \ {0}
        /\ n[2] = "ungrouped"
        BY <2>1, NamesAreTriples
  <2>3. n[3] <= TP!Cardinality(TP!CallsOf(<<n[1], n[2]>>))
        BY DEF TP!RerunInv, TP!NumbersAreCalls
  <2>4. n[3] <= Cardinality(CallsOfStep(n[1]))
        BY <1>1, <2>2, <2>3
  <2>5. n \in DOMAIN outputs
        BY DEF TP!ArtifactsInv, TP!RecordedArtifactsExist
  <2> QED BY <2>2, <2>4, <2>5, CallsOfStepFinite
<1>4. ASSUME NEW c \in Calls, pc[c] # "idle"
      PROVE  seq[c] \in 1..Cardinality(CallsOfStep(Step(c)))
  <2>1. TP!Name(c)[3] <= TP!Cardinality(TP!CallsOf(<<TP!Name(c)[1], TP!Name(c)[2]>>))
        BY <1>4, TraceConstants, TP!NameOfCallNumber DEF TP!ConstantsAssumption
  <2>2. /\ TP!Name(c)[1] = Step(c) /\ TP!Name(c)[2] = "ungrouped"
        /\ TP!Name(c)[3] = seq[c]
        BY <1>2 DEF NameOf
  <2>3. seq[c] <= Cardinality(CallsOfStep(Step(c)))
        BY <1>1, <2>1, <2>2
  <2>4. seq[c] \in Nat /\ seq[c] # 0
        BY <1>4, TraceTypes DEF TP!DrawnOnceStarted
  <2> QED BY <2>3, <2>4, CallsOfStepFinite
<1>5. ASSUME NEW c \in Calls, NEW d \in Calls, pc[c] # "idle", pc[d] # "idle",
             NameOf(c) = NameOf(d)
      PROVE  c = d
      BY <1>2, <1>5 DEF TP!NamesInv, TP!UniqueNames, TP!Drawn, TP!DrawnOnceStarted
<1> QED BY <1>3, <1>4, <1>5 DEF NameFacts

LEMMA TraceRuns == ASSUME TraceInv PROVE RunFacts
<1> USE DEF TraceInv, TP!Inv
<1>1. \A c \in Calls : TP!Name(c) = NameOf(c)
      BY DEF TP!Name, TP!SubActionName, NameOf
<1>2. ASSUME NEW n \in DOMAIN outputs PROVE IsRunOf(outputs[n], n[1])
  <2>1. outputs[n][1] \in Calls
        BY DEF TP!TypeInv, TP!TypeOK, TP!Values
  <2> QED BY <2>1 DEF TP!RunsInv, TP!OutputsOfTheirStep, IsRunOf
<1>3. \A m, n \in DOMAIN outputs : outputs[m] = outputs[n] => m = n
      BY DEF TP!RunsInv, TP!OutputsAreDistinct
<1>4. \A c \in Calls : pc[c] = "replayed" =>
         NameOf(c) \in DOMAIN outputs /\ value[c] = outputs[NameOf(c)]
      BY <1>1 DEF TP!RunsInv, TP!ValueOfCall
<1>5. ASSUME NEW c \in Calls, Done(c) PROVE value[c] \in Calls \X (1..attempt)
  <2>1. attempt \in Nat \ {0}
        BY TraceTypes
  <2>2. CASE pc[c] = "returned"
        BY <2>1, <2>2 DEF TP!RunsInv, TP!ValueOfCall
  <2>3. CASE pc[c] = "replayed"
    <3>1. value[c] \in TP!Values /\ value[c][2] < attempt
          BY <2>3 DEF TP!RunsInv, TP!ValueOfCall, TP!TypeInv, TP!TypeOK
    <3> QED BY <2>1, <3>1 DEF TP!Values
  <2> QED BY <1>5, <2>2, <2>3 DEF Done
<1>6. ASSUME NEW c \in Calls, NEW d \in Calls, Done(c), Done(d), value[c] = value[d]
      PROVE  c = d
  <2>1. \A e \in Calls : Done(e) =>
           \/ pc[e] = "returned" /\ value[e] = <<e, attempt>>
           \/ /\ pc[e] = "replayed" /\ value[e][2] < attempt
              /\ NameOf(e) \in DOMAIN outputs /\ value[e] = outputs[NameOf(e)]
        BY <1>1 DEF TP!RunsInv, TP!ValueOfCall, Done
  <2>2. attempt \in Nat
        BY TraceTypes
  <2>3. CASE pc[c] = "returned" \/ pc[d] = "returned"
        BY <1>6, <2>1, <2>2, <2>3
  <2>4. CASE pc[c] = "replayed" /\ pc[d] = "replayed"
        BY <1>3, <1>6, <2>1, <2>4, TraceNames DEF NameFacts
  <2> QED BY <1>6, <2>3, <2>4 DEF Done
<1> QED BY <1>2, <1>3, <1>4, <1>5, <1>6 DEF RunFacts

LEMMA TraceCache == ASSUME TraceInv PROVE CacheFacts
<1>1. TP!RunsAreNew /\ TP!TypeOK
      BY DEF TraceInv, TP!RerunInv, TP!Inv, TP!TypeInv
<1> QED BY <1>1 DEF TP!RunsAreNew, TP!TypeOK, CacheFacts
-----------------------------------------------------------------------------
(* The state has its types                                                  *)

ReportsTyped ==
    /\ DOMAIN reports \subseteq 1..attempt
    /\ \A k \in DOMAIN reports : reports[k] \subseteq Calls \X (1..k)

(* A step that is no retry is one of the same attempt. *)
LEMMA AttemptStep ==
    ASSUME [Next]_vars
    PROVE  Retry \/ attempt' = attempt
<1>1. CASE Process
      BY <1>1 DEF Process, W!ResolveConfig, W!BuildController, W!Prewarm, W!PutOutputs,
         W!PutError, W!Finalize, W!ReportFailure, W!Exit
<1>2. CASE Start \/ Return
      BY <1>2 DEF Start, T!Begin, Return, W!BodyOk, W!BodyErr
<1>3. CASE CutOff
      BY <1>3 DEF CutOff, W!WatchFails, W!WatchEnds, W!BodyPanics, W!Kill
<1>4. CASE Background
      BY <1>4 DEF Background, T!Deliver, T!Sync
<1>5. ASSUME NEW c \in Calls, Call(c) PROVE attempt' = attempt
      BY <1>5 DEF Call, T!Draw, T!CallStep, T!PutInputs, T!LookupHit, T!LookupAgain,
         T!LookupMiss, T!LookupError, T!GetOutputs, T!BodyOk, T!BodyErr,
         T!PutOutputs, T!Submit, T!Echo
<1>6. CASE Terminated \/ UNCHANGED vars
      BY <1>6 DEF Terminated, vars
<1> QED BY <1>1, <1>2, <1>3, <1>4, <1>5, <1>6 DEF Next

(* Only the worker on its own, or one that is cut off, reports. *)
LEMMA ReportStep ==
    ASSUME [Next]_vars
    PROVE  \/ UNCHANGED reports
           \/ /\ UNCHANGED traceVars
              /\ at = "putOutputs"
              /\ attempt' = attempt
              /\ reports' = [k \in DOMAIN reports \cup {attempt} |->
                               IF k = attempt THEN Held ELSE reports[k]]
<1>1. CASE Process
  <2>1. "outputs" \in files' \ files => at = "putOutputs"
        BY <1>1 DEF Process, W!ResolveConfig, W!BuildController, W!Prewarm,
           W!PutOutputs, W!PutError, W!Finalize, W!ReportFailure, W!Exit, W!Put
  <2>2. attempt' = attempt
        BY <1>1 DEF Process, W!ResolveConfig, W!BuildController, W!Prewarm,
           W!PutOutputs, W!PutError, W!Finalize, W!ReportFailure, W!Exit
  <2> QED BY <1>1, <2>1, <2>2 DEF Process, Report
<1>2. CASE CutOff
  <2>1. "outputs" \in files' \ files => at = "putOutputs"
        BY <1>2 DEF CutOff, W!WatchFails, W!WatchEnds, W!BodyPanics, W!Kill, W!Dropped
  <2>2. attempt' = attempt
        BY <1>2 DEF CutOff, W!WatchFails, W!WatchEnds, W!BodyPanics, W!Kill
  <2> QED BY <1>2, <2>1, <2>2 DEF CutOff, Report
<1>3. CASE Start \/ Return \/ Background \/ Retry \/ Terminated \/ UNCHANGED vars
      BY <1>3 DEF Start, Return, Background, Retry, Terminated, vars
<1>4. CASE \E c \in Calls : Call(c)
      BY <1>4 DEF Call
<1> QED BY <1>1, <1>2, <1>3, <1>4 DEF Next

LEMMA ReportsTypedNext ==
    ASSUME TraceInv, ReportsTyped, [Next]_vars
    PROVE  ReportsTyped'
<1>1. attempt \in Nat \ {0}
      BY TraceTypes
<1>2. CASE UNCHANGED reports
  <2>1. attempt' \in Nat /\ attempt <= attempt'
        BY <1>1, AttemptStep DEF Retry, T!Retry
  <2> QED BY <1>1, <1>2, <2>1 DEF ReportsTyped
<1>3. CASE ~UNCHANGED reports
  <2>1. Held \subseteq Calls \X (1..attempt)
        BY TraceRuns DEF RunFacts, Held
  <2> QED BY <1>1, <1>3, <2>1, ReportStep DEF ReportsTyped
<1> QED BY <1>2, <1>3

(* Every step keeps the types of the worker's, the trace's and the task's    *)
(* state: what is reported are runs, of the attempt or of an earlier one.   *)
THEOREM ActionTypeCorrect == Spec => []TypeOK
<1>1. Init => ReportsTyped
      BY DEF Init, ReportsTyped
<1>2. TraceInv /\ ReportsTyped /\ [Next]_vars => ReportsTyped'
      BY ReportsTypedNext
<1>3. W!TypeOK /\ TraceInv /\ ReportsTyped => TypeOK
      BY TraceTypes DEF TypeOK, ReportsTyped
<1> QED BY <1>1, <1>2, <1>3, TraceInvariance, WorkerInvariance, PTL DEF Spec
-----------------------------------------------------------------------------
(* A retry that has the recordings reports what was reported before it      *)

(* What S holds is computed from nothing but runs of S, in finitely many    *)
(* steps from runs that are computed from nothing: every set that is closed *)
(* under computing from its members what S has computed from them has all   *)
(* of S.                                                                    *)
Generated(S) ==
    \A X : (\A run \in S : ArgumentsOf[run[1]] \subseteq X => run \in X)
             => S \subseteq X

RunsOfStep(S, s) == {run \in S : Step(run[1]) = s}

(* S has a run of its own of every call that can be made with what S holds. *)
Full(S) ==
    \A c \in Calls : ArgumentsOf[c] \subseteq S =>
        Injection(CallsOfStep(Step(c)), RunsOfStep(S, Step(c))) # {}

BodyDone == \A c \in Calls : Due(c) => Done(c)

Unreported == {"config", "controller", "prewarm", "inputs", "body"}

(* Reports are what a body that was done has held, and how it got there. *)
ReportsInv ==
    /\ ReportsTyped
    /\ Generated(Held)
    /\ \A k \in DOMAIN reports : Generated(reports[k]) /\ Full(reports[k])
    /\ attempt \in DOMAIN reports =>
         at \notin Unreported /\ reports[attempt] = Held /\ BodyDone
    /\ at = "putOutputs" => BodyDone

LEMMA GeneratedGrows ==
    ASSUME NEW S, Generated(S), NEW run, ArgumentsOf[run[1]] \subseteq S
    PROVE  Generated(S \cup {run})
<1> SUFFICES ASSUME NEW X,
                    \A r \in S \cup {run} : ArgumentsOf[r[1]] \subseteq X => r \in X
             PROVE  S \cup {run} \subseteq X
    BY DEF Generated
<1>1. S \subseteq X
      BY DEF Generated
<1> QED BY <1>1

(* A body that is done has a value of its own for each call it could make. *)
LEMMA DoneIsFull ==
    ASSUME TraceInv, ActionInv, BodyDone
    PROVE  Full(Held)
<1> SUFFICES ASSUME NEW c \in Calls, ArgumentsOf[c] \subseteq Held
             PROVE  Injection(CallsOfStep(Step(c)), RunsOfStep(Held, Step(c))) # {}
    BY DEF Full
<1> DEFINE f == [d \in CallsOfStep(Step(c)) |-> value[d]]
<1>1. ASSUME NEW d \in CallsOfStep(Step(c))
      PROVE  d \in Calls /\ Done(d) /\ value[d] \in RunsOfStep(Held, Step(c))
  <2>1. d \in Calls /\ Step(d) = Step(c)
        BY DEF CallsOfStep
  <2>2. ArgumentsOf[d] = ArgumentsOf[c]
        BY <2>1 DEF Step
  <2>3. Done(d)
        BY <2>1, <2>2 DEF BodyDone, Due
  <2>4. value[d] \in Held
        BY <2>1, <2>3 DEF Held
  <2>5. Step(value[d][1]) = Step(c)
        BY <2>1, <2>3 DEF ActionInv, ValuesAreOfTheirStep, Computed, Done, IsRunOf
  <2> QED BY <2>1, <2>3, <2>4, <2>5 DEF RunsOfStep
<1>2. f \in [CallsOfStep(Step(c)) -> RunsOfStep(Held, Step(c))]
      BY <1>1
<1>3. \A d, e \in CallsOfStep(Step(c)) : f[d] = f[e] => d = e
      BY <1>1, TraceRuns DEF RunFacts
<1>4. f \in Injection(CallsOfStep(Step(c)), RunsOfStep(Held, Step(c)))
      BY <1>2, <1>3 DEF Injection, IsInjective
<1> QED BY <1>4

(* What a step does to the values the body has. *)
LEMMA HeldStep ==
    ASSUME ActionInv, [Next]_vars
    PROVE  \/ Retry
           \/ UNCHANGED <<pc, value>>
           \/ /\ at = "body" /\ UNCHANGED <<workerVars, reports, attempt>>
              /\ \/ Held' = Held
                 \/ \E run : Held' = Held \cup {run} /\ ArgumentsOf[run[1]] \subseteq Held
<1>1. CASE Process \/ Return \/ CutOff \/ Terminated \/ UNCHANGED vars
      BY <1>1 DEF Process, Return, CutOff, Terminated, vars, traceVars
<1>2. CASE Start \/ Background
      BY <1>2 DEF Start, Background, T!Begin, T!Deliver, T!Sync, T!callVars
<1>3. ASSUME NEW c \in Calls, Call(c)
      PROVE  /\ at = "body" /\ UNCHANGED <<workerVars, reports, attempt>>
             /\ \/ Held' = Held
                \/ \E run : Held' = Held \cup {run} /\ ArgumentsOf[run[1]] \subseteq Held
  <2>1. at = "body" /\ UNCHANGED <<workerVars, reports>>
        BY <1>3 DEF Call
  <2>2. UNCHANGED attempt
        BY <1>3 DEF Call, T!Draw, T!CallStep, T!PutInputs, T!LookupHit, T!LookupAgain,
           T!LookupMiss, T!LookupError, T!GetOutputs, T!BodyOk, T!BodyErr,
           T!PutOutputs, T!Submit, T!Echo
  <2>3. CASE T!Draw(c)
    <3>1. /\ pc[c] = "idle"
          /\ pc' = [pc EXCEPT ![c] = "putInputs"]
          /\ UNCHANGED value
          BY <2>3 DEF T!Draw
    <3>2. \A d \in Calls : Done(d)' <=> Done(d)
          BY <3>1 DEF ActionInv, Shape, Done
    <3>3. Held' = Held
          BY <3>1, <3>2 DEF Held
    <3> QED BY <2>1, <2>2, <3>3
  <2>4. CASE T!CallStep(c)
    <3>1. /\ ~Done(c) /\ pc[c] # "idle"
          /\ \A d \in Calls \ {c} : (Done(d)' <=> Done(d)) /\ value'[d] = value[d]
          /\ Done(c)' => IsRunOf(value'[c], Step(c))
          BY <2>4, CallStepEffect DEF Done, Computed
    <3>2. CASE ~Done(c)'
      <4>1. Held' = Held
            BY <3>1, <3>2 DEF Held
      <4> QED BY <2>1, <2>2, <4>1
    <3>3. CASE Done(c)'
      <4>1. Held' = Held \cup {value'[c]}
            BY <3>1, <3>3 DEF Held
      <4>2. ArgumentsOf[value'[c][1]] = ArgumentsOf[c]
            BY <3>1, <3>3 DEF IsRunOf, Step
      <4>3. ArgumentsOf[value'[c][1]] \subseteq Held
            BY <3>1, <4>2 DEF ActionInv, ArgumentsAreHeld
      <4> QED BY <2>1, <2>2, <4>1, <4>3
    <3> QED BY <3>2, <3>3
  <2> QED BY <1>3, <2>3, <2>4 DEF Call
<1> QED BY <1>1, <1>2, <1>3 DEF Next

LEMMA ReportsInvInit == ASSUME Init PROVE ReportsInv
<1>1. Held = {}
      BY DEF Init, T!Init, Held, Done
<1> QED BY <1>1 DEF Init, W!Init, ReportsInv, ReportsTyped, Generated

(* Where the worker is, about the body. *)
LEMMA WorkerStep ==
    ASSUME [Next]_vars
    PROVE  \/ Retry
           \/ /\ at' = "putOutputs" => at = "putOutputs" \/ (Return /\ BodyDone)
              /\ at' \in Unreported => at \in Unreported
              /\ at = "putOutputs" => at' = "putOutputs" \/ at' \notin Unreported
<1> USE DEF Unreported
<1>1. CASE Process
      BY <1>1 DEF Process, W!ResolveConfig, W!BuildController, W!Prewarm,
         W!PutOutputs, W!PutError, W!Finalize, W!ReportFailure, W!Exit, W!ExitWith
<1>2. CASE CutOff
      BY <1>2 DEF CutOff, W!WatchFails, W!WatchEnds, W!BodyPanics, W!Kill, W!ExitWith,
         W!Executing, W!Ended
<1>3. CASE Start
      BY <1>3 DEF Start, W!FetchInputs
<1>4. CASE Return
      BY <1>4 DEF Return, W!BodyOk, W!BodyErr, BodyDone
<1>5. CASE Background \/ Terminated \/ (\E c \in Calls : Call(c)) \/ UNCHANGED vars
  <2>1. UNCHANGED at
        BY <1>5 DEF Background, Terminated, Call, vars, workerVars
  <2> QED BY <2>1
<1> QED BY <1>1, <1>2, <1>3, <1>4, <1>5 DEF Next

LEMMA ReportsInvNext ==
    ASSUME TraceInv, ActionInv, ReportsInv, [Next]_vars
    PROVE  ReportsInv'
<1>1. ReportsTyped'
      BY ReportsTypedNext DEF ReportsInv
<1>2. CASE Retry
  <2>1. Held' = {} /\ at' = "config" /\ reports' = reports /\ attempt' = attempt + 1
        BY <1>2 DEF Retry, T!Retry, W!Retry, Held, Done
  <2>2. attempt' \notin DOMAIN reports
        BY <2>1, TraceTypes DEF ReportsInv, ReportsTyped
  <2>3. Generated(Held')
        BY <2>1 DEF Generated
  <2>4. \A k \in DOMAIN reports' : Generated(reports'[k]) /\ Full(reports'[k])
        BY <2>1 DEF ReportsInv
  <2> QED BY <1>1, <2>1, <2>2, <2>3, <2>4 DEF ReportsInv, Generated, Full, RunsOfStep
<1>3. CASE ~Retry /\ UNCHANGED <<pc, value>>
  <2>1. Held' = Held /\ (BodyDone' <=> BodyDone) /\ attempt' = attempt
        BY <1>3, AttemptStep DEF Held, Done, BodyDone, Due
  <2>2. Generated(Held)'
        BY <2>1 DEF ReportsInv, Generated
  <2>3. (at = "putOutputs" => BodyDone)'
        BY <1>3, <2>1, WorkerStep DEF ReportsInv
  <2>4. CASE UNCHANGED reports
    <3>1. (attempt \in DOMAIN reports =>
             at \notin Unreported /\ reports[attempt] = Held /\ BodyDone)'
          BY <1>3, <2>1, <2>4, WorkerStep DEF ReportsInv, Unreported
    <3>2. \A k \in DOMAIN reports' : Generated(reports'[k]) /\ Full(reports'[k])
          BY <2>4 DEF ReportsInv
    <3> QED BY <1>1, <2>2, <2>3, <2>4, <3>1, <3>2 DEF ReportsInv, Generated, Full, RunsOfStep
  <2>5. CASE ~UNCHANGED reports
    <3>1. /\ at = "putOutputs"
          /\ reports' = [k \in DOMAIN reports \cup {attempt} |->
                           IF k = attempt THEN Held ELSE reports[k]]
          BY <2>5, ReportStep
    <3>2. BodyDone /\ Generated(Held) /\ Full(Held)
          BY <3>1, DoneIsFull DEF ReportsInv
    <3>3. at' \notin Unreported
          BY <1>3, <3>1, WorkerStep DEF Unreported
    <3>4. \A k \in DOMAIN reports' : Generated(reports'[k]) /\ Full(reports'[k])
          BY <3>1, <3>2 DEF ReportsInv
    <3> QED BY <1>1, <2>1, <2>2, <2>3, <3>1, <3>2, <3>3, <3>4
            DEF ReportsInv, Generated, Full, RunsOfStep
  <2> QED BY <2>4, <2>5
<1>4. CASE /\ at = "body" /\ UNCHANGED <<workerVars, reports, attempt>>
           /\ \/ Held' = Held
              \/ \E run : Held' = Held \cup {run} /\ ArgumentsOf[run[1]] \subseteq Held
  <2>1. at' = "body" /\ UNCHANGED <<reports, attempt>>
        BY <1>4 DEF workerVars
  <2>2. attempt \notin DOMAIN reports
        BY <1>4 DEF ReportsInv, Unreported
  <2>3. Generated(Held')
        BY <1>4, GeneratedGrows DEF ReportsInv
  <2>4. \A k \in DOMAIN reports' : Generated(reports'[k]) /\ Full(reports'[k])
        BY <2>1 DEF ReportsInv
  <2> QED BY <1>1, <2>1, <2>2, <2>3, <2>4 DEF ReportsInv, Generated, Full, RunsOfStep
<1> QED BY <1>2, <1>3, <1>4, HeldStep
(* A call on the way of report k: one it was made with, bound to replay a   *)
(* run that the report has.                                                 *)
Following(k, c) ==
    /\ ArgumentsOf[c] \subseteq reports[k]
    /\ NameOf(c) \in Recorded
    /\ outputs[NameOf(c)] \in reports[k]
    /\ pc[c] \in {"putInputs", "lookup", "getOutputs", "replayed", "abandoned"}

(* With all the recordings of an earlier report, every call follows it. *)
RetriesFollow ==
    \A k \in DOMAIN reports \ {attempt} : reports[k] \subseteq AtHand =>
        \A c \in Calls : pc[c] # "idle" => Following(k, c)

(* As many numbers as calls: each of them is some call's. *)
LEMMA NumbersAreUsed ==
    ASSUME NEW s, NEW i \in 1..Cardinality(CallsOfStep(s)),
           NEW g \in [CallsOfStep(s) -> 1..Cardinality(CallsOfStep(s))],
           \A d, e \in CallsOfStep(s) : g[d] = g[e] => d = e
    PROVE  \E d \in CallsOfStep(s) : g[d] = i
<1> DEFINE M == Cardinality(CallsOfStep(s))
<1>1. M \in Nat
      BY CallsOfStepFinite
<1>2. g \in Injection(CallsOfStep(s), 1..M)
      BY DEF Injection, IsInjective
<1>3. IsFiniteSet(1..M) /\ Cardinality(1..M) = M
      BY <1>1, FS_Interval
<1>4. g \in Surjection(CallsOfStep(s), 1..M)
      BY <1>2, <1>3, FS_Injection
<1> QED BY <1>4 DEF Surjection

(* What the store has of the recordings is of the calls of their step. *)
LEMMA RecordedNames ==
    ASSUME TraceInv, NEW n \in Recorded
    PROVE  /\ n \in DOMAIN outputs
           /\ n = <<n[1], "ungrouped", n[3]>>
           /\ n[3] \in 1..Cardinality(CallsOfStep(n[1]))
           /\ Step(outputs[n][1]) = n[1]
           /\ outputs[n] \in AtHand
<1>1. n \in records
      BY TraceCache DEF CacheFacts, Recorded
<1>2. n \in DOMAIN outputs
      BY <1>1, TraceNames DEF NameFacts
<1> QED BY <1>1, <1>2, TraceNames, TraceRuns DEF NameFacts, RunFacts, IsRunOf, AtHand

(* The body's own values are of the report it follows. *)
LEMMA FollowersHold ==
    ASSUME TraceInv, NEW k, \A c \in Calls : pc[c] # "idle" => Following(k, c)
    PROVE  Held \subseteq reports[k]
<1> SUFFICES ASSUME NEW c \in Calls, Done(c) PROVE value[c] \in reports[k]
    BY DEF Held
<1>1. Following(k, c)
      BY DEF Done
<1>2. pc[c] = "replayed"
      BY <1>1 DEF Following, Done
<1> QED BY <1>1, <1>2, TraceRuns DEF RunFacts, Following

(* Among the recordings of a report that has a run for every call of a step *)
(* there is one under each number a call of the step can draw.              *)
LEMMA NumbersAreReported ==
    ASSUME TraceInv, NEW R, Full(R), R \subseteq AtHand,
           NEW c \in Calls, ArgumentsOf[c] \subseteq R,
           NEW i \in 1..Cardinality(CallsOfStep(Step(c)))
    PROVE  /\ <<Step(c), "ungrouped", i>> \in Recorded
           /\ outputs[<<Step(c), "ungrouped", i>>] \in R
<1> DEFINE s == Step(c)
           recording(run) == CHOOSE n \in Recorded : outputs[n] = run
<1>1. PICK f \in Injection(CallsOfStep(s), RunsOfStep(R, s)) : TRUE
      BY DEF Full
<1>2. f \in [CallsOfStep(s) -> RunsOfStep(R, s)]
      BY <1>1 DEF Injection
<1>3. \A d, e \in CallsOfStep(s) : f[d] = f[e] => d = e
      BY <1>1, <1>2 DEF Injection, IsInjective
<1>4. ASSUME NEW run \in RunsOfStep(R, s)
      PROVE  /\ recording(run) \in Recorded
             /\ outputs[recording(run)] = run
             /\ recording(run) = <<s, "ungrouped", recording(run)[3]>>
             /\ recording(run)[3] \in 1..Cardinality(CallsOfStep(s))
  <2>1. run \in AtHand /\ Step(run[1]) = s
        BY DEF RunsOfStep
  <2>2. \E n \in Recorded : outputs[n] = run
        BY <2>1 DEF AtHand
  <2>3. recording(run) \in Recorded /\ outputs[recording(run)] = run
        BY <2>2
  <2>4. recording(run)[1] = s
        BY <2>1, <2>3, RecordedNames
  <2> HIDE DEF recording
  <2> QED BY <2>3, <2>4, RecordedNames
<1> DEFINE g == [d \in CallsOfStep(s) |-> recording(f[d])[3]]
<1>5. g \in [CallsOfStep(s) -> 1..Cardinality(CallsOfStep(s))]
      BY <1>2, <1>4
<1>6. ASSUME NEW d \in CallsOfStep(s), NEW e \in CallsOfStep(s), g[d] = g[e]
      PROVE  d = e
  <2> HIDE DEF recording
  <2>1. f[d] \in RunsOfStep(R, s) /\ f[e] \in RunsOfStep(R, s)
        BY <1>2
  <2>2. recording(f[d])[3] = recording(f[e])[3]
        BY <1>6
  <2>3. recording(f[d]) = recording(f[e])
        BY <1>4, <2>1, <2>2
  <2>4. f[d] = f[e]
        BY <1>4, <2>1, <2>3
  <2> QED BY <1>3, <2>4
<1>7. PICK d \in CallsOfStep(s) : g[d] = i
      BY <1>5, <1>6, NumbersAreUsed
<1> HIDE DEF recording
<1>8. f[d] \in RunsOfStep(R, s) /\ recording(f[d])[3] = i
      BY <1>2, <1>7
<1>9. recording(f[d]) = <<s, "ungrouped", i>>
      BY <1>4, <1>8
<1> QED BY <1>4, <1>8, <1>9 DEF RunsOfStep

(* What a call draws under a report that has all that could be drawn. *)
LEMMA DrawFollows ==
    ASSUME TraceInv, TraceInv', ReportsInv, RetriesFollow,
           NEW k \in DOMAIN reports \ {attempt}, reports[k] \subseteq AtHand,
           NEW c \in Calls, Due(c), T!Draw(c), UNCHANGED reports
    PROVE  Following(k, c)'
<1>1. \A d \in Calls : pc[d] # "idle" => Following(k, d)
      BY DEF RetriesFollow
<1>2. ArgumentsOf[c] \subseteq reports[k]
      BY <1>1, FollowersHold DEF Due
<1>3. /\ pc'[c] = "putInputs"
      /\ UNCHANGED <<outputs, synced, failed>>
  <2>1. pc' = [pc EXCEPT ![c] = "putInputs"]
        BY DEF T!Draw
  <2>2. c \in DOMAIN pc
        BY TraceTypes DEF T!TypeOK
  <2> QED BY <2>1, <2>2 DEF T!Draw, T!durable, T!history
<1>4. seq'[c] \in 1..Cardinality(CallsOfStep(Step(c)))
  <2>1. NameFacts'
        BY TraceNames, PTL
  <2> QED BY <1>3, <2>1 DEF NameFacts, CallsOfStep
<1>5. Full(reports[k])
      BY DEF ReportsInv
<1>6. /\ <<Step(c), "ungrouped", seq'[c]>> \in Recorded
      /\ outputs[<<Step(c), "ungrouped", seq'[c]>>] \in reports[k]
      BY <1>2, <1>4, <1>5, NumbersAreReported
<1> QED BY <1>2, <1>3, <1>6 DEF Following, NameOf, Recorded
(* A call whose body has begun is one that has run. *)
StartedHaveRun ==
    \A c \in Calls :
        pc[c] \in {"body", "putOutputs", "submit", "echo", "returned"} => NameOf(c) \in ran

LEMMA StartedHaveRunNext ==
    ASSUME TraceInv, StartedHaveRun, [Next]_vars
    PROVE  StartedHaveRun'
<1>0. DOMAIN pc = Calls /\ DOMAIN seq = Calls
      BY TraceTypes DEF T!TypeOK
<1>1. CASE Process \/ Return \/ CutOff \/ Terminated \/ UNCHANGED vars
      BY <1>1 DEF Process, Return, CutOff, Terminated, vars, traceVars, StartedHaveRun, NameOf
<1>2. CASE Start \/ Background
      BY <1>2 DEF Start, Background, T!Begin, T!Deliver, T!Sync, T!callVars, T!history,
         StartedHaveRun, NameOf
<1>3. CASE Retry
      BY <1>3 DEF Retry, T!Retry, StartedHaveRun
<1>4. ASSUME NEW c \in Calls, Call(c) PROVE StartedHaveRun'
  <2>1. CASE T!Draw(c)
        BY <1>0, <2>1 DEF T!Draw, T!history, StartedHaveRun, NameOf
  <2>2. CASE T!LookupMiss(c)
    <3>1. T!Name(c) = NameOf(c)
          BY DEF T!Name, T!SubActionName, NameOf
    <3> QED BY <1>0, <2>2, <3>1 DEF T!LookupMiss, StartedHaveRun, NameOf
  <2>3. CASE T!CallStep(c) /\ ~T!LookupMiss(c)
        BY <1>0, <2>3 DEF T!CallStep, T!PutInputs, T!LookupHit, T!LookupAgain,
           T!LookupError, T!GetOutputs, T!BodyOk, T!BodyErr, T!PutOutputs, T!Submit,
           T!Echo, T!history, StartedHaveRun, NameOf
  <2> QED BY <1>4, <2>1, <2>2, <2>3 DEF Call
<1> QED BY <1>1, <1>2, <1>3, <1>4 DEF Next

(* Once the body has begun, what it began with stays what it was. *)
LEMMA RecordedStays ==
    ASSUME TraceInv, StartedHaveRun, [Next]_vars
    PROVE  \/ Retry
           \/ phase = "prewarm" /\ UNCHANGED pc
           \/ /\ Recorded' = Recorded
              /\ \A n \in Recorded : n \in DOMAIN outputs' /\ outputs'[n] = outputs[n]
<1>0. \A n \in Recorded : n \in DOMAIN outputs
      BY RecordedNames
<1>1. CASE Process \/ Return \/ CutOff \/ Terminated \/ UNCHANGED vars
      BY <1>0, <1>1 DEF Process, Return, CutOff, Terminated, vars, traceVars, Recorded
<1>2. CASE Start
      BY <1>2 DEF Start, T!Begin, T!callVars
<1>3. CASE Background
  <2>1. UNCHANGED <<synced, outputs>>
        BY <1>3 DEF Background, T!Deliver, T!Sync, T!durable, T!history
  <2>2. \A n \in synced : n \in failed' <=> n \in failed
    <3>1. synced \subseteq records
          BY TraceCache DEF CacheFacts
    <3> QED BY <1>3, <3>1 DEF Background, T!Deliver, T!Sync, T!durable
  <2> QED BY <1>0, <2>1, <2>2 DEF Recorded
<1>4. ASSUME NEW c \in Calls, Call(c)
      PROVE  /\ Recorded' = Recorded
             /\ \A n \in Recorded : n \in DOMAIN outputs' /\ outputs'[n] = outputs[n]
  <2>1. UNCHANGED <<synced, failed>>
        BY <1>4 DEF Call, T!Draw, T!CallStep, T!PutInputs, T!LookupHit, T!LookupAgain,
           T!LookupMiss, T!LookupError, T!GetOutputs, T!BodyOk, T!BodyErr,
           T!PutOutputs, T!Submit, T!Echo, T!durable, T!history
  <2>2. CASE T!PutOutputs(c)
    <3>1. T!Name(c) = NameOf(c) /\ NameOf(c) \in ran
          BY <2>2 DEF T!PutOutputs, StartedHaveRun, T!Name, T!SubActionName, NameOf
    <3>2. NameOf(c) \notin Recorded
          BY <3>1, TraceCache DEF CacheFacts, Recorded
    <3> QED BY <1>0, <2>1, <2>2, <3>1, <3>2 DEF T!PutOutputs, T!Overwrite, Recorded
  <2>3. CASE ~T!PutOutputs(c)
    <3>1. UNCHANGED outputs
          BY <1>4, <2>3 DEF Call, T!Draw, T!CallStep, T!PutInputs, T!LookupHit,
             T!LookupAgain, T!LookupMiss, T!LookupError, T!GetOutputs, T!BodyOk,
             T!BodyErr, T!Submit, T!Echo, T!durable
    <3> QED BY <1>0, <2>1, <3>1 DEF Recorded
  <2> QED BY <2>2, <2>3
<1> QED BY <1>1, <1>2, <1>3, <1>4 DEF Next

(* A call that follows a report goes on doing so. *)
LEMMA FollowerGoesOn ==
    ASSUME TraceInv, NEW k, NEW c \in Calls, Following(k, c), T!CallStep(c),
           UNCHANGED reports
    PROVE  /\ pc'[c] \in {"putInputs", "lookup", "getOutputs", "replayed", "abandoned"}
           /\ UNCHANGED seq
<1>1. DOMAIN pc = Calls
      BY TraceTypes DEF T!TypeOK
<1>2. T!Replayable(c)
  <2>1. T!Name(c) = NameOf(c)
        BY DEF T!Name, T!SubActionName, NameOf
  <2>2. NameOf(c) \in cache \ failed
        BY TraceCache DEF CacheFacts, Following, Recorded
  <2> QED BY <2>1, <2>2 DEF T!Replayable, T!HasOutputs
<1>3. pc[c] \in {"putInputs", "lookup", "getOutputs", "replayed", "abandoned"}
      BY DEF Following
<1>4. ~T!LookupMiss(c)
      BY <1>2 DEF T!LookupMiss
<1>5. CASE T!PutInputs(c) \/ T!LookupHit(c) \/ T!LookupAgain(c)
      BY <1>1, <1>3, <1>5 DEF T!PutInputs, T!LookupHit, T!LookupAgain
<1>6. CASE T!LookupError(c) \/ T!GetOutputs(c)
      BY <1>1, <1>3, <1>6 DEF T!LookupError, T!GetOutputs
<1>7. ~(T!BodyOk(c) \/ T!BodyErr(c) \/ T!PutOutputs(c) \/ T!Submit(c) \/ T!Echo(c))
      BY <1>3 DEF T!BodyOk, T!BodyErr, T!PutOutputs, T!Submit, T!Echo
<1> QED BY <1>4, <1>5, <1>6, <1>7 DEF T!CallStep

LEMMA RetriesFollowNext ==
    ASSUME TraceInv, TraceInv', ReportsInv, StartedHaveRun, RetriesFollow, [Next]_vars
    PROVE  RetriesFollow'
<1>1. CASE Retry
      BY <1>1 DEF Retry, T!Retry, RetriesFollow
<1>2. CASE phase = "prewarm" /\ UNCHANGED pc
      BY <1>2, TraceCache DEF CacheFacts, RetriesFollow
<1>3. CASE /\ ~Retry
           /\ Recorded' = Recorded
           /\ \A n \in Recorded : n \in DOMAIN outputs' /\ outputs'[n] = outputs[n]
  <2>1. AtHand' = AtHand
    <3>1. \A n \in Recorded : n \in DOMAIN outputs
          BY RecordedNames
    <3> QED BY <1>3, <3>1 DEF AtHand
  <2> SUFFICES ASSUME NEW k \in DOMAIN reports' \ {attempt'}, reports'[k] \subseteq AtHand,
                      NEW c \in Calls, pc'[c] # "idle"
               PROVE  Following(k, c)'
      BY <2>1 DEF RetriesFollow
  <2>2. k \in DOMAIN reports \ {attempt} /\ reports'[k] = reports[k]
        BY <1>3, AttemptStep, ReportStep
  <2>3. \A d \in Calls : pc[d] # "idle" => Following(k, d)
        BY <2>2 DEF RetriesFollow
  <2>4. ASSUME UNCHANGED <<pc[c], seq[c]>> PROVE Following(k, c)'
    <3>1. Following(k, c) /\ NameOf(c)' = NameOf(c)
          BY <2>3, <2>4 DEF NameOf
    <3> QED BY <1>3, <2>2, <2>4, <3>1 DEF Following
  <2>5. ASSUME UNCHANGED <<pc, seq>> PROVE Following(k, c)'
        BY <2>4, <2>5
  <2>6. CASE Process \/ Return \/ CutOff \/ Terminated \/ UNCHANGED vars
        BY <2>5, <2>6 DEF Process, Return, CutOff, Terminated, vars, traceVars
  <2>7. CASE Start \/ Background
        BY <2>5, <2>7 DEF Start, Background, T!Begin, T!Deliver, T!Sync, T!callVars
  <2>8. ASSUME NEW d \in Calls, Call(d) PROVE Following(k, c)'
    <3>1. UNCHANGED reports
          BY <2>8 DEF Call
    <3>2. CASE c = d /\ Due(d) /\ T!Draw(d)
          BY <2>2, <3>1, <3>2, DrawFollows
    <3>3. CASE c = d /\ T!CallStep(d)
      <4>1. Following(k, c)
            BY <2>3, <3>3 DEF T!CallStep, T!PutInputs, T!LookupHit, T!LookupAgain,
               T!LookupMiss, T!LookupError, T!GetOutputs, T!BodyOk, T!BodyErr,
               T!PutOutputs, T!Submit, T!Echo
      <4>2. /\ pc'[c] \in {"putInputs", "lookup", "getOutputs", "replayed", "abandoned"}
            /\ UNCHANGED seq
            BY <3>1, <3>3, <4>1, FollowerGoesOn
      <4> QED BY <1>3, <3>1, <4>1, <4>2 DEF Following, NameOf
    <3>4. CASE c # d
      <4>1. DOMAIN pc = Calls /\ DOMAIN seq = Calls
            BY TraceTypes DEF T!TypeOK
      <4>2. UNCHANGED <<pc[c], seq[c]>>
            BY <2>8, <3>4, <4>1 DEF Call, T!Draw, T!CallStep, T!PutInputs, T!LookupHit,
               T!LookupAgain, T!LookupMiss, T!LookupError, T!GetOutputs, T!BodyOk,
               T!BodyErr, T!PutOutputs, T!Submit, T!Echo
      <4> QED BY <2>4, <4>2
    <3> QED BY <2>8, <3>2, <3>3, <3>4 DEF Call
  <2> QED BY <1>3, <2>6, <2>7, <2>8 DEF Next
<1> QED BY <1>1, <1>2, <1>3, RecordedStays

(* A body that is done, and has followed a report, has all of it. *)
LEMMA FollowersAreAlike ==
    ASSUME TraceInv, ReportsInv, RetriesFollow, BodyDone,
           NEW k \in DOMAIN reports \ {attempt}, reports[k] \subseteq AtHand
    PROVE  Held = reports[k]
<1>1. \A c \in Calls : pc[c] # "idle" => Following(k, c)
      BY DEF RetriesFollow
<1>2. Held \subseteq reports[k]
      BY <1>1, FollowersHold
<1>3. ASSUME NEW run \in reports[k], ArgumentsOf[run[1]] \subseteq Held
      PROVE  run \in Held
  <2>1. PICK n \in Recorded : run = outputs[n]
        BY DEF AtHand
  <2>2. /\ n = <<n[1], "ungrouped", n[3]>> /\ n[1] = Step(run[1])
        /\ n[3] \in 1..Cardinality(CallsOfStep(n[1]))
        BY <2>1, RecordedNames
  <2>3. ASSUME NEW d \in CallsOfStep(n[1])
        PROVE  d \in Calls /\ Step(d) = n[1] /\ pc[d] = "replayed"
    <3>1. d \in Calls /\ Step(d) = Step(run[1]) /\ Step(d) = n[1]
          BY <2>2 DEF CallsOfStep
    <3>2. Due(d)
          BY <1>3, <3>1 DEF Step, Due
    <3>3. Done(d)
          BY <3>1, <3>2 DEF BodyDone
    <3> QED BY <1>1, <3>1, <3>3 DEF Following, Done
  <2> DEFINE g == [d \in CallsOfStep(n[1]) |-> seq[d]]
  <2>4. g \in [CallsOfStep(n[1]) -> 1..Cardinality(CallsOfStep(n[1]))]
        BY <2>3, TraceNames DEF NameFacts
  <2>5. \A d, e \in CallsOfStep(n[1]) : g[d] = g[e] => d = e
        BY <2>3, TraceNames DEF NameFacts, NameOf
  <2>6. PICK d \in CallsOfStep(n[1]) : g[d] = n[3]
    <3> HIDE DEF g
    <3>1. n[3] \in 1..Cardinality(CallsOfStep(n[1]))
          BY <2>2
    <3> QED BY <2>4, <2>5, <3>1, NumbersAreUsed
  <2>7. NameOf(d) = n
        BY <2>2, <2>3, <2>6 DEF NameOf
  <2>8. value[d] = run
        BY <2>1, <2>3, <2>7, TraceRuns DEF RunFacts
  <2> QED BY <2>3, <2>8 DEF Held, Done
<1>4. reports[k] \subseteq Held
      BY <1>3 DEF ReportsInv, Generated
<1> QED BY <1>2, <1>4

FollowInv == ActionInv /\ ReportsInv /\ StartedHaveRun /\ RetriesFollow

LEMMA FollowInvariance == Spec => []FollowInv
<1>1. Init => FollowInv
  <2>1. Init => StartedHaveRun /\ RetriesFollow
        BY DEF Init, T!Init, StartedHaveRun, RetriesFollow
  <2> QED BY <2>1, ActionInvInit, ReportsInvInit DEF FollowInv
<1>2. TraceInv /\ TraceInv' /\ FollowInv /\ [Next]_vars => FollowInv'
      BY ActionInvNext, ReportsInvNext, StartedHaveRunNext, RetriesFollowNext DEF FollowInv
<1> QED BY <1>1, <1>2, TraceInvariance, PTL DEF Spec

(* An attempt that follows one that has reported, and began with all the     *)
(* recordings, reports the same: however its calls interleave, each draws a *)
(* number that a replayable recording of the report stands under.           *)
THEOREM RetriesReportAlike == Spec => []RetriesReportTheSame
<1>1. TraceInv /\ FollowInv => RetriesReportTheSame
  <2> SUFFICES ASSUME TraceInv, FollowInv, NEW k \in DOMAIN reports,
                      attempt \in DOMAIN reports, reports[k] \subseteq AtHand
               PROVE  reports[attempt] = reports[k]
      BY DEF RetriesReportTheSame
  <2>1. reports[attempt] = Held /\ BodyDone
        BY DEF FollowInv, ReportsInv
  <2> QED BY <2>1, FollowersAreAlike DEF FollowInv
<1> QED BY <1>1, FollowInvariance, TraceInvariance, PTL

(* An attempt starts with nothing run. *)
NothingRunYet == phase = "prewarm" => ran = {}

LEMMA RanStep ==
    ASSUME [Next]_vars
    PROVE  \/ Retry
           \/ ran' = ran /\ (phase' = "prewarm" => phase = "prewarm")
           \/ /\ phase' = phase /\ ran' # ran
              /\ \E c \in Calls : T!LookupMiss(c) /\ UNCHANGED <<reports, attempt>>
<1>1. CASE Process \/ Return \/ CutOff \/ Terminated \/ UNCHANGED vars
      BY <1>1 DEF Process, Return, CutOff, Terminated, vars, traceVars
<1>2. CASE Start \/ Background
      BY <1>2 DEF Start, Background, T!Begin, T!Deliver, T!Sync, T!history
<1>3. ASSUME NEW c \in Calls, Call(c), ~T!LookupMiss(c) PROVE UNCHANGED <<ran, phase>>
      BY <1>3 DEF Call, T!Draw, T!CallStep, T!PutInputs, T!LookupHit, T!LookupAgain,
         T!LookupError, T!GetOutputs, T!BodyOk, T!BodyErr, T!PutOutputs, T!Submit,
         T!Echo, T!history
<1>4. ASSUME NEW c \in Calls, Call(c), T!LookupMiss(c)
      PROVE  UNCHANGED <<phase, reports, attempt>>
      BY <1>4 DEF Call, T!LookupMiss
<1> QED BY <1>1, <1>2, <1>3, <1>4 DEF Next

LEMMA RetriesOnlyReplayNext ==
    ASSUME TraceInv, StartedHaveRun, RetriesFollow, NothingRunYet, RetriesOnlyReplay,
           [Next]_vars
    PROVE  NothingRunYet' /\ RetriesOnlyReplay'
<1>1. CASE Retry
      BY <1>1 DEF Retry, T!Retry, NothingRunYet, RetriesOnlyReplay
<1>2. CASE ~Retry
  <2>1. ASSUME NEW c \in Calls, T!LookupMiss(c)
        PROVE  /\ phase # "prewarm"
               /\ \A k \in DOMAIN reports \ {attempt} : ~(reports[k] \subseteq AtHand)
    <3>1. pc[c] = "lookup"
          BY <2>1 DEF T!LookupMiss
    <3>2. phase # "prewarm"
          BY <3>1, TraceCache DEF CacheFacts
    <3>3. ASSUME NEW k, Following(k, c) PROVE FALSE
      <4>1. T!Name(c) = NameOf(c)
            BY DEF T!Name, T!SubActionName, NameOf
      <4>2. NameOf(c) \in cache \ failed
            BY <3>3, TraceCache DEF CacheFacts, Following, Recorded
      <4> QED BY <2>1, <4>1, <4>2 DEF T!LookupMiss, T!Replayable, T!HasOutputs
    <3> QED BY <3>1, <3>2, <3>3 DEF RetriesFollow
  <2>2. NothingRunYet'
        BY <1>2, <2>1, RanStep DEF NothingRunYet
  <2>3. RetriesOnlyReplay'
    <3> SUFFICES ASSUME NEW k \in DOMAIN reports' \ {attempt'}, reports'[k] \subseteq AtHand'
                 PROVE  ran' = {}
        BY DEF RetriesOnlyReplay
    <3>1. k \in DOMAIN reports \ {attempt} /\ reports'[k] = reports[k]
          BY <1>2, AttemptStep, ReportStep
    <3>2. CASE phase = "prewarm" /\ UNCHANGED pc
          BY <1>2, <2>1, <3>2, RanStep DEF NothingRunYet
    <3>3. CASE /\ Recorded' = Recorded
               /\ \A n \in Recorded : n \in DOMAIN outputs' /\ outputs'[n] = outputs[n]
      <4>1. reports[k] \subseteq AtHand
            BY <3>1, <3>3, RecordedNames DEF AtHand
      <4>2. ran = {}
            BY <3>1, <4>1 DEF RetriesOnlyReplay
      <4> QED BY <1>2, <2>1, <3>1, <4>1, <4>2, RanStep
    <3> QED BY <1>2, <3>2, <3>3, RecordedStays
  <2> QED BY <2>2, <2>3
<1> QED BY <1>1, <1>2

(* An attempt that began with all the recordings of an earlier report runs   *)
(* the body of no step again: the report cost what it cost once.            *)
THEOREM RetriesRunNothing == Spec => []RetriesOnlyReplay
<1>1. Init => NothingRunYet /\ RetriesOnlyReplay
      BY DEF Init, T!Init, NothingRunYet, RetriesOnlyReplay
<1>2. TraceInv /\ FollowInv /\ NothingRunYet /\ RetriesOnlyReplay /\ [Next]_vars
        => NothingRunYet' /\ RetriesOnlyReplay'
      BY RetriesOnlyReplayNext DEF FollowInv
<1> QED BY <1>1, <1>2, FollowInvariance, TraceInvariance, PTL DEF Spec
=============================================================================
