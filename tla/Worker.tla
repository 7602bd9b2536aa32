------------------------------- MODULE Worker -------------------------------
(***************************************************************************)
(* The one-shot worker process: worker_main and execute, and what they     *)
(* leave behind for the backend -- outputs.pb, error.pb and an exit code.  *)
(*                                                                         *)
(* worker_main resolves its configuration and builds the controller, then  *)
(* runs execute and the controller's error watch under one select!: the    *)
(* first to finish drops the other where it is, even inside an upload.     *)
(* The process can also be killed anywhere; the backend then starts        *)
(* another attempt, as it does when an attempt reports an error.           *)
(*                                                                         *)
(* Simplifications: the task body is one step with an outcome (Trace shows *)
(* what happens inside it); the backend gives each attempt an output path  *)
(* of its own, and attempts that are given none share the default one.     *)
(* A launch is a record: argv, env, and the assignment that the backend    *)
(* means by the two, or Unassigned when they do not say what to run.       *)
(***************************************************************************)
EXTENDS Naturals, Args

CONSTANTS
    Launches,       \* argument lists and environments a worker may be started with
    Faults,         \* what the environment may do: see FaultKinds
    MaxAttempt      \* bound: attempts the backend makes

(* putFails      an upload of an artifact fails (a store error, the size cap) *)
(* watchFails    watch_for_errors returns a background failure               *)
(* watchEnds     watch_for_errors returns without one                        *)
(* bodyPanics    the task body panics                                        *)
(* kill          the process is killed                                       *)
FaultKinds == {"putFails", "watchFails", "watchEnds", "bodyPanics", "kill"}

ASSUME WorkerAssumption ==
    /\ Faults \subseteq FaultKinds
    /\ MaxAttempt \in Nat \ {0}

VARIABLES
    launch,     \* what the backend starts each attempt with
    cfg,        \* the configuration that it resolves to, NoConfig before
    attempt,    \* number of the running attempt
    pc,         \* where the process is
    body,       \* the result execute holds: "none", "ok" or "err"
    watch,      \* of the controller's background work: "up", "failed", "ended"
    files,      \* artifacts this attempt has left at its output path
    stale,      \* artifacts that earlier attempts left at the same path
    exitCode,   \* of the process, NoExit while it runs or when it was killed
    failedPuts  \* history: artifacts whose upload failed in this attempt

vars == <<launch, cfg, attempt, pc, body, watch, files, stale, exitCode, failedPuts>>

NoExit == 256
PanicExit == 101

Artifacts == {"outputs", "error"}

(* Where execute is running, under the select!. *)
Executing == {"prewarm", "inputs", "body", "putOutputs", "putError", "finalize"}

Ended == {"exited", "killed"}

(* What the launch says: arguments before environment; the first word of    *)
(* argv is the program.                                                     *)
Resolved == ResolveWith(ParseArgs(Tail(launch.argv)), launch.env)

-----------------------------------------------------------------------------

Init ==
    /\ launch \in Launches
    /\ cfg = NoConfig
    /\ attempt = 1
    /\ pc = "config"
    /\ body = "none"
    /\ watch = "up"
    /\ files = {} /\ stale = {}
    /\ exitCode = NoExit
    /\ failedPuts = {}

(* An exit code past those the process knows. *)
FaultyExitWith(code) ==
    /\ pc' = "exited"
    /\ exitCode' = code + 1

ExitWith(code) ==
    /\ pc' = "exited"
    /\ exitCode' = code

ResolveConfig ==
    /\ pc = "config"
    /\ cfg' = Resolved
    /\ \/ /\ Complete(cfg')
          /\ pc' = "controller"
          /\ UNCHANGED exitCode
       \/ /\ ~Complete(cfg')
          /\ ExitWith(1)
    /\ UNCHANGED <<launch, stale, attempt, body, watch, files, failedPuts>>

(* The controller is built, and the runtime state installed. *)
BuildController ==
    /\ pc = "controller"
    /\ \/ /\ pc' = "prewarm"
          /\ UNCHANGED exitCode
       \/ ExitWith(1)
    /\ UNCHANGED <<launch, stale, cfg, attempt, body, watch, files, failedPuts>>

(* The prewarm lookup, whose result is ignored, and a retry's sleep. *)
Prewarm ==
    /\ pc = "prewarm"
    /\ pc' = "inputs"
    /\ UNCHANGED <<launch, stale, cfg, attempt, body, watch, files, exitCode, failedPuts>>

(* Without its inputs the task has failed before its body started; a launch *)
(* that names none has the default inputs.                                  *)
FetchInputs ==
    /\ pc = "inputs"
    /\ \/ /\ pc' = "body"
          /\ UNCHANGED body
       \/ /\ cfg.inputs # Missing
          /\ pc' = "putError"
          /\ body' = "err"
    /\ UNCHANGED <<launch, stale, cfg, attempt, watch, files, exitCode, failedPuts>>

BodyOk ==
    /\ pc = "body"
    /\ body' = "ok"
    /\ pc' = "putOutputs"
    /\ UNCHANGED <<launch, stale, cfg, attempt, watch, files, exitCode, failedPuts>>

(* A failed task taken for a success. *)
FaultyBodyErr ==
    /\ pc = "body"
    /\ body' = "err"
    /\ pc' = "putOutputs"
    /\ UNCHANGED <<launch, stale, cfg, attempt, watch, files, exitCode, failedPuts>>

BodyErr ==
    /\ pc = "body"
    /\ body' = "err"
    /\ pc' = "putError"
    /\ UNCHANGED <<launch, stale, cfg, attempt, watch, files, exitCode, failedPuts>>

(* A panic unwinds through block_on and main. *)
BodyPanics ==
    /\ "bodyPanics" \in Faults
    /\ pc = "body"
    /\ ExitWith(PanicExit)
    /\ UNCHANGED <<launch, stale, cfg, attempt, body, watch, files, failedPuts>>

(* An upload succeeds, or fails and is logged. *)
Put(artifact) ==
    \/ /\ files' = files \cup {artifact}
       /\ UNCHANGED failedPuts
    \/ /\ "putFails" \in Faults
       /\ failedPuts' = failedPuts \cup {artifact}
       /\ UNCHANGED files

PutOutputs ==
    /\ pc = "putOutputs"
    /\ Put("outputs")
    /\ pc' = "finalize"
    /\ UNCHANGED <<launch, stale, cfg, attempt, body, watch, exitCode>>

PutError ==
    /\ pc = "putError"
    /\ Put("error")
    /\ pc' = "finalize"
    /\ UNCHANGED <<launch, stale, cfg, attempt, body, watch, exitCode>>

Finalize ==
    /\ pc = "finalize"
    /\ pc' = "exit"
    /\ UNCHANGED <<launch, stale, cfg, attempt, body, watch, files, exitCode, failedPuts>>

(* What is left of an execute that is dropped: an upload it was waiting for *)
(* may have reached the store all the same.                                 *)
Dropped ==
    LET sent == CASE pc = "putOutputs" -> {"outputs"}
                  [] pc = "putError"   -> {"error"}
                  [] OTHER             -> {}
    IN files' \in {files, files \cup sent}

(* The other branch of the select!, until execute is done. *)
WatchFails ==
    /\ "watchFails" \in Faults
    /\ pc \in Executing
    /\ watch' = "failed"
    /\ pc' = "reportFailure"
    /\ Dropped
    /\ UNCHANGED <<launch, stale, cfg, attempt, body, exitCode, failedPuts>>

WatchEnds ==
    /\ "watchEnds" \in Faults
    /\ pc \in Executing
    /\ watch' = "ended"
    /\ pc' = "exit"
    /\ Dropped
    /\ UNCHANGED <<launch, stale, cfg, attempt, body, exitCode, failedPuts>>

(* A background failure that is only logged, and one that is told twice. *)
FaultyReportFailure ==
    /\ pc = "reportFailure"
    /\ pc' = "exit"
    /\ UNCHANGED <<launch, stale, cfg, attempt, body, watch, files, exitCode, failedPuts>>

FaultyReportFailureExits ==
    /\ pc = "reportFailure"
    /\ Put("error")
    /\ ExitWith(1)
    /\ UNCHANGED <<launch, stale, cfg, attempt, body, watch>>

ReportFailure ==
    /\ pc = "reportFailure"
    /\ Put("error")
    /\ pc' = "exit"
    /\ UNCHANGED <<launch, stale, cfg, attempt, body, watch, exitCode>>

(* join! in the place of select!. *)
FaultyExit ==
    /\ pc = "exit"
    /\ watch # "up"
    /\ ExitWith(0)
    /\ UNCHANGED <<launch, stale, cfg, attempt, body, watch, files, failedPuts>>

Exit ==
    /\ pc = "exit"
    /\ ExitWith(0)
    /\ UNCHANGED <<launch, stale, cfg, attempt, body, watch, files, failedPuts>>

Kill ==
    /\ "kill" \in Faults
    /\ pc \notin Ended
    /\ pc' = "killed"
    /\ Dropped
    /\ UNCHANGED <<launch, stale, cfg, attempt, body, watch, exitCode, failedPuts>>

(* The backend starts another attempt after one that was killed, or did not *)
(* exit with 0, or if there is an error at its path.  What was left at the  *)
(* default output path is still there, as that has no attempt number.       *)
Retry ==
    /\ \/ pc = "killed"
       \/ pc = "exited" /\ (exitCode # 0 \/ "error" \in files \cup stale)
    /\ attempt < MaxAttempt
    /\ attempt' = attempt + 1
    /\ cfg' = NoConfig
    /\ pc' = "config"
    /\ body' = "none"
    /\ watch' = "up"
    /\ files' = {}
    /\ stale' = IF Resolved.output = DefaultOutput THEN stale \cup files ELSE {}
    /\ exitCode' = NoExit
    /\ failedPuts' = {}
    /\ UNCHANGED launch

Terminated ==
    /\ pc \in Ended
    /\ UNCHANGED vars

Execute ==
    \/ Prewarm \/ FetchInputs \/ BodyOk \/ BodyErr \/ BodyPanics
    \/ PutOutputs \/ PutError \/ Finalize

Process ==
    \/ ResolveConfig \/ BuildController \/ Execute
    \/ ReportFailure \/ Exit

Next == Process \/ WatchFails \/ WatchEnds \/ Kill \/ Retry \/ Terminated

Spec == Init /\ [][Next]_vars

(* Every await of the process is answered, and the task body ends. *)
FairSpec == Spec /\ WF_vars(Process)

-----------------------------------------------------------------------------
(* Properties *)

TypeOK ==
    /\ launch \in Launches
    /\ pc \in Executing \cup {"controller"} => Complete(cfg)
    /\ attempt \in 1..MaxAttempt
    /\ pc \in {"config", "controller", "reportFailure", "exit"}
                \cup Executing \cup Ended
    /\ body \in {"none", "ok", "err"}
    /\ watch \in {"up", "failed", "ended"}
    /\ files \subseteq Artifacts /\ stale \subseteq Artifacts
    /\ exitCode \in {NoExit, 0, 1, PanicExit}
    /\ failedPuts \subseteq Artifacts

(* Whatever the process executes, reads and writes is the assignment of its *)
(* launch, and without one it gets no further than its configuration: the   *)
(* list that container_args writes, with templates nobody filled in and     *)
(* with an ENTRYPOINT before it or none, is what parse_args takes it for.   *)
RunsItsAssignment ==
    pc \in Executing \cup {"controller", "reportFailure", "exit"} =>
        launch.assignment =
            [action |-> cfg.action, run |-> cfg.run, project |-> cfg.project,
             domain |-> cfg.domain, inputs |-> cfg.inputs, output |-> cfg.output]

(* A process that exits with 0, whose uploads worked and whose controller   *)
(* stayed up, leaves exactly the artifact of its task's result, and the     *)
(* task did end.  (execute: outputs.pb or error.pb.)                        *)
ReportIsTheResult ==
    exitCode = 0 /\ failedPuts = {} /\ watch = "up" =>
        \/ body = "ok"  /\ files = {"outputs"}
        \/ body = "err" /\ files = {"error"}

(* Neither artifact of an attempt is ever wrong about its task, wherever    *)
(* the process was interrupted: outputs.pb means that the task succeeded,   *)
(* and error.pb that it failed or that the controller did.                  *)
ArtifactsAreTrue ==
    /\ "outputs" \in files => body = "ok"
    /\ "error" \in files => body = "err" \/ watch = "failed"

(* The exit code and an artifact never both speak of a failed attempt, nor  *)
(* does the code speak of a result the task returned: an attempt that exits *)
(* with anything but 0 -- over its configuration, its controller or a panic *)
(* of its body, the only failure that is the task's -- holds no result and  *)
(* has left nothing.  (The two early returns of worker_main, and its end.)  *)
ExitCodeOrReport ==
    exitCode \notin {NoExit, 0} => body = "none" /\ files = {}

(* An attempt that exits with 0 and leaves nothing had an upload fail, or   *)
(* its watch end early: a background failure of the controller, whenever it *)
(* comes, does not make a task vanish.  (The select! arm in worker_main.)   *)
NothingLeftOnlyIfPutFailed ==
    exitCode = 0 /\ files = {} => failedPuts # {} \/ watch = "ended"

(* Every attempt's process ends, whatever the controller's watch does.      *)
ProcessEnds == []<>(pc \in Ended)

(* What the module's documentation says an attempt that has exited leaves:  *)
(* outputs.pb or error.pb -- here, of a task that succeeded.                *)
SomeArtifact == exitCode = 0 /\ body = "ok" => files # {}

(* ... and not both. *)
OneArtifact == exitCode = 0 => files # Artifacts
=============================================================================
