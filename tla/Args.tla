-------------------------------- MODULE Args --------------------------------
(***************************************************************************)
(* How an assignment reaches a worker: the argument list the launcher      *)
(* writes into the task template and the backend fills in, the environment *)
(* the backend injects, and what the worker makes of the two.              *)
(*                                                                         *)
(* Tokens are strings that are compared, never taken apart.                *)
(***************************************************************************)
EXTENDS Naturals, Sequences

Missing == "missing"

(* Values the worker takes for none: "", and templates nobody filled in.     *)
(* real_value takes any word that starts with "{{" for one; these are the   *)
(* launcher's.                                                              *)
Placeholders ==
    {"", "{{.input}}", "{{.outputPrefix}}", "{{.runName}}", "{{.actionName}}"}

(* A placeholder taken for a value. *)
FaultyRealValue(v) == v

RealValue(v) == IF v \in Placeholders THEN Missing ELSE v

(* The launcher's list.  The backend substitutes the paths, not the names. *)
ContainerArgs(input, output) ==
    <<"/usr/local/bin/worker", "a0", "--inputs", input, "--outputs-path", output,
      "--run-name", "{{.runName}}", "--name", "{{.actionName}}">>

-----------------------------------------------------------------------------
(* parse_args *)

Fields ==
    {"inputs", "output", "base", "action", "run", "project", "domain", "org"}

NoConfig == [f \in Fields |-> Missing]

FlagsOf ==
    [inputs  |-> {"--inputs", "-i"},   output  |-> {"--outputs-path", "-o"},
     base    |-> {"--run-base-dir"},   action  |-> {"--name"},
     run     |-> {"--run-name"},       project |-> {"--project"},
     domain  |-> {"--domain"},         org     |-> {"--org"}]

SkippedFlags ==
    {"--version", "--raw-data-path", "--checkpoint-path", "--prev-checkpoint",
     "--run-start-time", "--image-cache", "--tgz", "--pkl", "--dest",
     "--interface"}

Flags == SkippedFlags \cup UNION {FlagsOf[f] : f \in Fields}

(* Whether a word takes the next one for its value, whatever that is: a    *)
(* flag does, unless it is itself such a value.  So flags that stand in a  *)
(* row are read in pairs, from the first.                                  *)
Takes(args, i) ==
    \E j \in 1..i :
        /\ \A k \in j..i : args[k] \in Flags
        /\ j > 1 => args[j - 1] \notin Flags
        /\ (i - j) % 2 = 0

(* The words before --resolver, which ends the worker's part of the list. *)
Ours(args) ==
    {i \in DOMAIN args : \A j \in 1..i :
        args[j] = "--resolver" => j > 1 /\ Takes(args, j - 1)}

(* The last mention of a field counts, even when it brings no value. *)
ParseArgs(args) ==
    [f \in Fields |->
        LET mentions == {i \in Ours(args) : Takes(args, i) /\ args[i] \in FlagsOf[f]}
            last == CHOOSE i \in mentions : \A j \in mentions : j =< i
        IN IF mentions = {} \/ Len(args) \in mentions THEN Missing
           ELSE RealValue(args[last + 1])]

-----------------------------------------------------------------------------
(* resolve_config_with_env *)

Or(value, default) == IF value = Missing THEN default ELSE value

DefaultOutput == "run base / action name"

(* env is a function from the names of variables that are set, and not "". *)
Env(env, name) == IF name \in DOMAIN env THEN env[name] ELSE Missing

(* The arguments, then the environment; Missing where neither says it. *)
ResolveWith(cfg, env) ==
    [action  |-> Or(cfg.action, Env(env, "ACTION_NAME")),
     run     |-> Or(cfg.run, Env(env, "RUN_NAME")),
     project |-> Or(Or(cfg.project, Env(env, "FLYTE_INTERNAL_EXECUTION_PROJECT")),
                    Env(env, "FLYTE_INTERNAL_TASK_PROJECT")),
     domain  |-> Or(Or(cfg.domain, Env(env, "FLYTE_INTERNAL_EXECUTION_DOMAIN")),
                    Env(env, "FLYTE_INTERNAL_TASK_DOMAIN")),
     org     |-> Or(Or(cfg.org, Env(env, "_U_ORG_NAME")), ""),
     base    |-> Or(cfg.base, Env(env, "_U_RUN_BASE")),
     inputs  |-> cfg.inputs,
     output  |-> Or(cfg.output, DefaultOutput)]

Required == {"action", "run", "project", "domain", "base"}

(* Anything that is required and said nowhere is a configuration error. *)
Complete(config) == \A f \in Required : config[f] # Missing
=============================================================================
