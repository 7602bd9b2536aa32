------------------------------- MODULE Action -------------------------------
(***************************************************************************)
(* A task's attempts: the worker process of Worker around the traced calls *)
(* of Trace, and the values that flow through both.                        *)
(*                                                                         *)
(* The task body calls traced functions, some of them on what others       *)
(* returned, and returns what it computed from all of them, which the      *)
(* worker uploads.  The process may be cut off anywhere, and its attempt's *)
(* queue and cache are gone with it; a retry runs the body again, over the *)
(* recordings that reached the backend.                                    *)
(*                                                                         *)
(* A call stands for a function and for what it is called on: a function   *)
(* whose argument another one computes is one call for every value of that *)
(* argument, of which an attempt makes the one it is due.                  *)
(*                                                                         *)
(* Simplifications: the body returns an error only when a call does; the   *)
(* calls it then drops stay where they are.                                *)
(***************************************************************************)
EXTENDS Naturals, FiniteSets

CONSTANTS
    Calls,          \* function and arguments of the calls the body may make
    FunctionOf,     \* the traced function of each call
    ArgumentsOf,    \* the runs <<call, attempt>> whose values it is called on
    RetryLookups,   \* extra lookups of a retry attempt
    Launches,       \* ways to start the process: see Worker
    Faults,         \* what the environment may do: see Worker
    MaxAttempt      \* bound: attempts the backend makes

VARIABLES
    attempt,
    launch, cfg, at, body, watch, files, stale, exitCode, failedPuts,  \* Worker's
    phase, counter, pc, seq, tries, value, queue, cache,        \* Trace's,
    inputs, outputs, records, failed, ran, synced,              \* of all calls
    reports     \* history: attempt -> the runs its outputs.pb was computed from

workerVars == <<launch, cfg, at, body, watch, files, stale, exitCode, failedPuts>>
traceVars == <<phase, counter, pc, seq, tries, value, queue, cache, inputs,
               outputs, records, failed, ran, synced>>
vars == <<attempt, workerVars, traceVars, reports>>

(* A broken variant, that no action uses: names without the inputs' hash.   *)
FaultyStep(c) == <<FunctionOf[c], {}>>

(* A traced step is its function and its inputs. *)
Step(c) == <<FunctionOf[c], ArgumentsOf[c]>>

W == INSTANCE Worker WITH pc <- at

T == INSTANCE Trace WITH
        StepOf    <- [c \in Calls |-> Step(c)],
        Steps     <- {Step(c) : c \in Calls},
        UnitSteps <- {},
        Groups    <- {"ungrouped"},
        GroupOf   <- [c \in Calls |-> "ungrouped"]

ASSUME ActionAssumption ==
    /\ IsFiniteSet(Calls)
    /\ \A c \in Calls : ArgumentsOf[c] \subseteq Calls \X (1..MaxAttempt)
    /\ RetryLookups \in Nat
    /\ MaxAttempt \in Nat \ {0}
    /\ Faults \subseteq W!FaultKinds

-----------------------------------------------------------------------------
(* The body *)

Done(c) == pc[c] \in {"replayed", "returned"}

Held == {value[c] : c \in {d \in Calls : Done(d)}}

(* The body has the values to make the call with. *)
Due(c) == ArgumentsOf[c] \subseteq Held

-----------------------------------------------------------------------------

Init == W!Init /\ T!Init /\ reports = [k \in {} |-> {}]

(* An outputs.pb that has reached the store. *)
Report ==
    reports' = IF "outputs" \in files' \ files
                 THEN [k \in DOMAIN reports \cup {attempt} |->
                         IF k = attempt THEN Held ELSE reports[k]]
                 ELSE reports

(* The worker on its own, outside of the body. *)
Process ==
    /\ \/ W!ResolveConfig \/ W!BuildController \/ W!Prewarm
       \/ W!PutOutputs \/ W!PutError \/ W!Finalize \/ W!ReportFailure \/ W!Exit
    /\ Report
    /\ UNCHANGED traceVars

(* The body starts, or fails on its inputs, over what the watch stream has  *)
(* brought by then.                                                         *)
Start == W!FetchInputs /\ T!Begin /\ UNCHANGED reports

(* The body returns: every call it is to make has returned, or one of them  *)
(* an error.                                                                *)
Return ==
    /\ \/ (\A c \in Calls : Due(c) => Done(c)) /\ W!BodyOk
       \/ (\E c \in Calls : pc[c] = "abandoned") /\ W!BodyErr
    /\ UNCHANGED <<traceVars, reports>>

Call(c) ==
    /\ at = "body"
    /\ \/ Due(c) /\ T!Draw(c)
       \/ T!CallStep(c)
    /\ UNCHANGED <<workerVars, reports>>

(* The controller's background work, as long as its process has it. *)
Background ==
    /\ watch = "up" /\ at \in W!Executing \cup {"exit"}
    /\ \/ \E n \in queue : T!Deliver(n)
       \/ \E n \in records : T!Sync(n)
    /\ UNCHANGED <<workerVars, reports>>

CutOff ==
    /\ W!WatchFails \/ W!WatchEnds \/ W!BodyPanics \/ W!Kill
    /\ Report
    /\ UNCHANGED traceVars

Retry == W!Retry /\ T!Retry /\ UNCHANGED reports

Terminated == at \in W!Ended /\ UNCHANGED vars

Next ==
    \/ Process \/ Start \/ Return \/ Background \/ CutOff \/ Retry \/ Terminated
    \/ \E c \in Calls : Call(c)

Spec == Init /\ [][Next]_vars

(* The process goes on, with one of the calls of its body or on its own;    *)
(* nothing is assumed of the background work.                               *)
Fairness == WF_vars(Process \/ Start \/ Return \/ \E c \in Calls : Call(c))

FairSpec == Spec /\ Fairness

-----------------------------------------------------------------------------
(* Properties *)

TypeOK ==
    /\ W!TypeOK /\ T!TypeOK
    /\ DOMAIN reports \subseteq 1..attempt
    /\ \A k \in DOMAIN reports : reports[k] \subseteq Calls \X (1..k)

(* What a task reports is of one piece, however many attempts its values    *)
(* come from: every run it was computed from had its arguments from runs it *)
(* was computed from as well.  (inputs_hash in prepare_trace.)              *)
ReportsAreCoherent ==
    \A k \in DOMAIN reports : \A run \in reports[k] :
        ArgumentsOf[run[1]] \subseteq reports[k]

(* What the store has for the recordings the body began with. *)
Recorded == synced \ failed
AtHand == {outputs[n] : n \in Recorded \cap DOMAIN outputs}

(* An attempt that follows one that has reported, and is retried all the    *)
(* same -- for an error.pb beside its outputs.pb, or a kill before it       *)
(* exited -- reports the same, if the body began with all the recordings.   *)
(* (execute and prepare_trace.)                                             *)
RetriesReportTheSame ==
    \A k \in DOMAIN reports :
        attempt \in DOMAIN reports /\ reports[k] \subseteq AtHand =>
            reports[attempt] = reports[k]

(* Nor does such an attempt run a body again, whichever order its calls     *)
(* draw their numbers in and wherever it is cut off.  (prepare_trace.)      *)
RetriesOnlyReplay ==
    \A k \in DOMAIN reports \ {attempt} : reports[k] \subseteq AtHand => ran = {}

(* Every attempt ends, whatever its calls find in the cache and the store   *)
(* and whether or not anything is delivered.                                *)
AttemptsEnd == []<>(at \in W!Ended)
=============================================================================
