---------------------------- MODULE WorkerProofs ----------------------------
(***************************************************************************)
(* Theorems about Worker, for any launches, faults and number of attempts. *)
(***************************************************************************)
EXTENDS Worker, ArgsProofs, TLAPS

(* What each place of the process implies about the rest of its state. *)
PlaceInv ==
    /\ pc \in {"config", "controller", "prewarm", "inputs", "body"}
          => body = "none" /\ files = {} /\ watch = "up" /\ failedPuts = {}
    /\ pc = "putOutputs" => body = "ok" /\ files = {} /\ watch = "up" /\ failedPuts = {}
    /\ pc = "putError" => body = "err" /\ files = {} /\ watch = "up" /\ failedPuts = {}
    /\ pc = "finalize" => watch = "up"
    /\ pc = "reportFailure" => watch = "failed"
    /\ pc \notin Ended => exitCode = NoExit
    /\ pc = "killed" => exitCode = NoExit

(* Once the process is past its uploads, or has exited with 0, its          *)
(* artifacts are those of its result.                                       *)
ReportInv ==
    pc \in {"finalize", "exit"} \/ exitCode = 0 =>
        /\ watch = "up" /\ failedPuts = {} =>
              \/ body = "ok"  /\ files = {"outputs"}
              \/ body = "err" /\ files = {"error"}
        /\ watch = "failed" => "error" \in files \/ failedPuts # {}
        /\ files = {} => failedPuts # {} \/ watch = "ended"

WorkerInv ==
    /\ TypeOK /\ PlaceInv /\ ReportInv
    /\ ArtifactsAreTrue /\ ExitCodeOrReport

LEMMA WorkerInit == Init => WorkerInv
BY WorkerAssumption
   DEF Init, WorkerInv, TypeOK, PlaceInv, ReportInv, ArtifactsAreTrue,
       ExitCodeOrReport, Executing, Ended, NoExit

LEMMA WorkerStep == WorkerInv /\ [Next]_vars => WorkerInv'
<1> SUFFICES ASSUME WorkerInv, [Next]_vars PROVE WorkerInv'
    OBVIOUS
<1> USE WorkerAssumption
    DEF WorkerInv, TypeOK, PlaceInv, ReportInv, ArtifactsAreTrue,
        ExitCodeOrReport, Executing, Ended, Artifacts, NoExit, PanicExit,
        ExitWith
<1>1. CASE ResolveConfig
      BY <1>1 DEF ResolveConfig
<1>2. CASE BuildController
      BY <1>2 DEF BuildController
<1>3. CASE Prewarm
      BY <1>3 DEF Prewarm
<1>4. CASE FetchInputs
      BY <1>4 DEF FetchInputs
<1>5. CASE BodyOk
      BY <1>5 DEF BodyOk
<1>6. CASE BodyErr
      BY <1>6 DEF BodyErr
<1>7. CASE BodyPanics
      BY <1>7 DEF BodyPanics
<1>8. CASE PutOutputs
      BY <1>8 DEF PutOutputs, Put
<1>9. CASE PutError
      BY <1>9 DEF PutError, Put
<1>10. CASE Finalize
      BY <1>10 DEF Finalize
<1>11. CASE ReportFailure
      BY <1>11 DEF ReportFailure, Put
<1>12. CASE Exit
      BY <1>12 DEF Exit
<1>13. CASE WatchFails
      BY <1>13 DEF WatchFails, Dropped
<1>14. CASE WatchEnds
      BY <1>14 DEF WatchEnds, Dropped
<1>15. CASE Kill
      BY <1>15 DEF Kill, Dropped
<1>16. CASE Retry
      BY <1>16 DEF Retry
<1>17. CASE Terminated
      BY <1>17 DEF Terminated, vars
<1>18. CASE UNCHANGED vars
      BY <1>18 DEF vars
<1> QED BY <1>1, <1>2, <1>3, <1>4, <1>5, <1>6, <1>7, <1>8, <1>9,
           <1>10, <1>11, <1>12, <1>13, <1>14, <1>15, <1>16, <1>17, <1>18
        DEF Next, Process, Execute

LEMMA WorkerInvariance == Spec => []WorkerInv
BY WorkerInit, WorkerStep, PTL DEF Spec

(* An attempt that exits with 0, whose uploads worked and whose controller  *)
(* stayed up, leaves exactly the artifact of its task's result.  (execute.) *)
THEOREM ReportedResult == Spec => []ReportIsTheResult
<1>1. WorkerInv => ReportIsTheResult
      BY DEF WorkerInv, ReportInv, ReportIsTheResult
<1> QED BY <1>1, WorkerInvariance, PTL

(* No artifact is wrong about the task, wherever the process was cut off.   *)
(* (execute, the select! in worker_main.)                                   *)
THEOREM TrueArtifacts == Spec => []ArtifactsAreTrue
<1>1. WorkerInv => ArtifactsAreTrue
      BY DEF WorkerInv
<1> QED BY <1>1, WorkerInvariance, PTL

(* A background failure never makes a task vanish unless its own report     *)
(* could not be uploaded.  (The select! in worker_main.)                    *)
THEOREM NothingVanishes == Spec => []NothingLeftOnlyIfPutFailed
<1>1. WorkerInv => NothingLeftOnlyIfPutFailed
      BY DEF WorkerInv, ReportInv, NothingLeftOnlyIfPutFailed
<1> QED BY <1>1, WorkerInvariance, PTL

(* The state is well formed, and nothing executes without the configuration *)
(* it requires.  (resolve_config_with_env, worker_main.)                    *)
THEOREM WorkerTypeCorrect == Spec => []TypeOK
<1>1. WorkerInv => TypeOK
      BY DEF WorkerInv
<1> QED BY <1>1, WorkerInvariance, PTL

(* An attempt that exits with anything but 0, for whatever reason, holds no *)
(* result of its task and has left no artifact.  (worker_main.)             *)
THEOREM CodeExcludesReport == Spec => []ExitCodeOrReport
<1>1. WorkerInv => ExitCodeOrReport
      BY DEF WorkerInv
<1> QED BY <1>1, WorkerInvariance, PTL

-----------------------------------------------------------------------------
(* The assignment *)

(* A launch of the launcher's: its list, with or without an ENTRYPOINT, and *)
(* the assignment it stands for -- identity from the environment, paths     *)
(* from the list, as far as the backend has filled them in.                 *)
ByLauncher(l) ==
    \E program, input, output :
        /\ IsPath(program) /\ IsPath(input) /\ IsPath(output)
        /\ l.argv \in {ContainerArgs(input, output),
                       <<program>> \o ContainerArgs(input, output)}
        /\ l.assignment =
              [action  |-> Env(l.env, "ACTION_NAME"),
               run     |-> Env(l.env, "RUN_NAME"),
               project |-> Or(Env(l.env, "FLYTE_INTERNAL_EXECUTION_PROJECT"),
                              Env(l.env, "FLYTE_INTERNAL_TASK_PROJECT")),
               domain  |-> Or(Env(l.env, "FLYTE_INTERNAL_EXECUTION_DOMAIN"),
                              Env(l.env, "FLYTE_INTERNAL_TASK_DOMAIN")),
               inputs  |-> RealValue(input),
               output  |-> Or(RealValue(output), DefaultOutput)]

ConfigInv ==
    /\ launch \in Launches
    /\ pc \notin Ended \cup {"config"} => cfg = Resolved

LEMMA ConfigInvariance == Spec => []ConfigInv
<1>1. Init => ConfigInv
      BY DEF Init, ConfigInv
<1>2. ConfigInv /\ [Next]_vars => ConfigInv'
      <2> SUFFICES ASSUME ConfigInv, [Next]_vars PROVE ConfigInv'
          OBVIOUS
      <2>1. CASE ResolveConfig
            BY <2>1 DEF ResolveConfig, ConfigInv, Resolved, ExitWith, Ended
      <2>2. CASE Retry
            BY <2>2 DEF Retry, ConfigInv
      <2>3. CASE UNCHANGED <<launch, cfg>> /\ pc \notin Ended \cup {"config"}
            BY <2>3 DEF ConfigInv, Resolved
      <2>4. CASE UNCHANGED <<launch, cfg>> /\ pc' \in Ended \cup {"config"}
            BY <2>4 DEF ConfigInv
      <2>5. CASE UNCHANGED vars
            BY <2>5 DEF ConfigInv, Resolved, vars
      <2> QED BY <2>1, <2>2, <2>3, <2>4, <2>5
              DEF Next, Process, Execute, BuildController, Prewarm, FetchInputs,
                  BodyOk, BodyErr, BodyPanics, PutOutputs, PutError, Finalize,
                  ReportFailure, Exit, WatchFails, WatchEnds, Kill, Terminated,
                  Executing, Ended
<1> QED BY <1>1, <1>2, PTL DEF Spec

LEMMA LaunchIsResolved ==
    ASSUME NEW l, ByLauncher(l),
           NEW c, c = ResolveWith(ParseArgs(Tail(l.argv)), l.env)
    PROVE  l.assignment =
             [action |-> c.action, run |-> c.run, project |-> c.project,
              domain |-> c.domain, inputs |-> c.inputs, output |-> c.output]
<1>1. PICK program, input, output :
        /\ IsPath(program) /\ IsPath(input) /\ IsPath(output)
        /\ l.argv \in {ContainerArgs(input, output),
                       <<program>> \o ContainerArgs(input, output)}
        /\ l.assignment =
              [action  |-> Env(l.env, "ACTION_NAME"),
               run     |-> Env(l.env, "RUN_NAME"),
               project |-> Or(Env(l.env, "FLYTE_INTERNAL_EXECUTION_PROJECT"),
                              Env(l.env, "FLYTE_INTERNAL_TASK_PROJECT")),
               domain  |-> Or(Env(l.env, "FLYTE_INTERNAL_EXECUTION_DOMAIN"),
                              Env(l.env, "FLYTE_INTERNAL_TASK_DOMAIN")),
               inputs  |-> RealValue(input),
               output  |-> Or(RealValue(output), DefaultOutput)]
      BY DEF ByLauncher
<1> DEFINE args == Tail(l.argv)
<1>2. \E b : Written(args, b, input, output)
      BY <1>1, ListIsWritten, EntrypointListIsWritten
<1>3. ParseArgs(args) =
               [f \in Fields |-> CASE f = "inputs" -> RealValue(input)
                                   [] f = "output" -> RealValue(output)
                                   [] OTHER -> Missing]
      BY <1>2, WrittenIsRead
<1> HIDE DEF args
<1> DEFINE p == ParseArgs(args)
<1>4. /\ p.inputs = RealValue(input) /\ p.output = RealValue(output)
      /\ p.action = Missing /\ p.run = Missing
      /\ p.project = Missing /\ p.domain = Missing
      BY <1>3 DEF Fields
<1>5. c = ResolveWith(p, l.env)
      BY DEF args
<1> HIDE DEF p
<1>6. \A x : Or(Missing, x) = x
      BY DEF Or
<1>7. /\ c.action = Or(p.action, Env(l.env, "ACTION_NAME"))
      /\ c.run = Or(p.run, Env(l.env, "RUN_NAME"))
      /\ c.inputs = p.inputs /\ c.output = Or(p.output, DefaultOutput)
      BY <1>5, ResolvedFields
<1>8. /\ c.project = Or(Or(p.project, Env(l.env, "FLYTE_INTERNAL_EXECUTION_PROJECT")),
                        Env(l.env, "FLYTE_INTERNAL_TASK_PROJECT"))
      /\ c.domain = Or(Or(p.domain, Env(l.env, "FLYTE_INTERNAL_EXECUTION_DOMAIN")),
                       Env(l.env, "FLYTE_INTERNAL_TASK_DOMAIN"))
      BY <1>5, ResolvedFields
<1> QED BY <1>1, <1>4, <1>6, <1>7, <1>8

(* Whatever a worker that the launcher's list starts executes, reads and    *)
(* writes is the assignment of its launch.  (container_args, parse_args and *)
(* resolve_config_with_env.)                                                *)
THEOREM LauncherIsObeyed ==
    ASSUME \A l \in Launches : ByLauncher(l)
    PROVE  Spec => []RunsItsAssignment
<1>1. ConfigInv => RunsItsAssignment
      BY LaunchIsResolved
      DEF ConfigInv, RunsItsAssignment, Resolved, Executing, Ended
<1> QED BY <1>1, ConfigInvariance, PTL
=============================================================================
