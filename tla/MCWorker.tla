------------------------------ MODULE MCWorker ------------------------------
(***************************************************************************)
(* Instances of Worker for TLC.                                            *)
(***************************************************************************)
EXTENDS Worker, TLC

OnlyPut   == {"putFails"}
OnlyWatch == {"watchFails"}

(* What the backend injects for action a0 of run r1: a one-shot pod's        *)
(* variables, or a reusable container's, which name the task's project only. *)
Pod ==
    "ACTION_NAME" :> "a0" @@ "RUN_NAME" :> "r1" @@ "_U_RUN_BASE" :> "s3://r1"
    @@ "_U_ORG_NAME" :> "org" @@ "FLYTE_INTERNAL_EXECUTION_PROJECT" :> "p"
    @@ "FLYTE_INTERNAL_EXECUTION_DOMAIN" :> "d"
    @@ "FLYTE_INTERNAL_TASK_PROJECT" :> "task's p"
    @@ "FLYTE_INTERNAL_TASK_DOMAIN" :> "task's d"

Without(env, names) == [name \in DOMAIN env \ names |-> env[name]]

Reused == Without(Pod, {"FLYTE_INTERNAL_EXECUTION_PROJECT",
                        "FLYTE_INTERNAL_EXECUTION_DOMAIN"})

Assigned == [action |-> "a0", run |-> "r1", project |-> "p", domain |-> "d",
             inputs |-> "s3://in", output |-> "s3://out"]

Unassigned == [f \in DOMAIN Assigned |-> Missing]

AssignedByTask == [Assigned EXCEPT !.project = "task's p", !.domain = "task's d"]

Filled1 == ContainerArgs("s3://in", "s3://out")

(* What the Python SDK's own launcher writes, for the same assignment. *)
PythonArgs ==
    <<"worker", "a0", "--inputs", "s3://in", "--outputs-path", "s3://out",
      "--version", "v1", "--image-cache", "--name", "-x",
      "--run-base-dir", "s3://r1", "--org", "org", "--project", "p",
      "--domain", "d", "--run-name", "r1", "--name", "a0",
      "--resolver", "r", "mod", "m", "--name", "f">>

Launch(argv, env, assignment) ==
    [argv |-> argv, env |-> env, assignment |-> assignment]

(* With and without an ENTRYPOINT; a child action whose paths nobody filled  *)
(* in, or only one; identity by environment, by argument, or not at all; an  *)
(* empty path, and a flag at the end of the list that lost its value.        *)
MCLaunches ==
    {Launch(Filled1, Pod, Assigned),
     Launch(<<"/worker">> \o Filled1, Pod, Assigned),
     Launch(Filled1, Reused, AssignedByTask),
     Launch(PythonArgs, Without(Pod, DOMAIN Pod), Assigned),
     Launch(ContainerArgs("{{.input}}", "{{.outputPrefix}}"), Pod,
            [Assigned EXCEPT !.inputs = Missing, !.output = DefaultOutput]),
     Launch(ContainerArgs("", "s3://out"), Pod, [Assigned EXCEPT !.inputs = Missing]),
     Launch(<<"worker", "-i", "s3://in", "-o", "s3://out", "--name">>, Pod, Assigned),
     Launch(Filled1, Without(Pod, {"RUN_NAME"}), Unassigned),
     Launch(Filled1, Without(Pod, {"_U_RUN_BASE"}), Unassigned)}

(* parse_args word by word, as its loop goes: what an unknown word, a flag   *)
(* without its value and --resolver do to it, on every short list of these.  *)
Words == {"--name", "--tgz", "--resolver", "w", ""}

NameByWord(args) ==
    LET name[i \in 0..Len(args)] ==
            IF i = 0 THEN [name |-> Missing, flag |-> "", stop |-> "no"]
            ELSE LET s == CHOOSE x \in {name[i - 1]} : TRUE IN
                 CASE s.stop = "yes" -> s
                   [] s.stop = "no" /\ s.flag = "--name" ->
                         [s EXCEPT !.name = RealValue(args[i]), !.flag = ""]
                   [] s.stop = "no" /\ s.flag = "--tgz" -> [s EXCEPT !.flag = ""]
                   [] s.stop = "no" /\ s.flag = "" /\ args[i] = "--resolver" ->
                         [s EXCEPT !.stop = "yes"]
                   [] s.stop = "no" /\ s.flag = "" /\ args[i] \in {"--name", "--tgz"} ->
                         [s EXCEPT !.flag = args[i]]
                   [] OTHER -> s
        last == name[Len(args)]
    IN IF last.flag = "--name" THEN Missing ELSE last.name

ASSUME ParseArgsIsTheLoop ==
    \A n \in 0..5 : \A args \in [1..n -> Words] :
        ParseArgs(args).action = NameByWord(args)

(* One launch, for what does not depend on it. *)
OneLaunch == {Launch(Filled1, Pod, Assigned)}
=============================================================================
