----------------------------- MODULE ArgsProofs -----------------------------
(***************************************************************************)
(* What the launcher writes is what the worker reads, for every path.      *)
(***************************************************************************)
EXTENDS Args, SequenceTheorems, TLAPS

LEMMA FlagsOfFields ==
    /\ FlagsOf["inputs"] = {"--inputs", "-i"}
    /\ FlagsOf["output"] = {"--outputs-path", "-o"}
    /\ FlagsOf["base"] = {"--run-base-dir"}
    /\ FlagsOf["action"] = {"--name"}
    /\ FlagsOf["run"] = {"--run-name"}
    /\ FlagsOf["project"] = {"--project"}
    /\ FlagsOf["domain"] = {"--domain"}
    /\ FlagsOf["org"] = {"--org"}
BY DEF FlagsOf

(* The words of container_args that are flags, and those that are not. *)
LEMMA FlagWords ==
    /\ "--inputs" \in Flags /\ "--outputs-path" \in Flags
    /\ "--run-name" \in Flags /\ "--name" \in Flags
    /\ "/usr/local/bin/worker" \notin Flags /\ "a0" \notin Flags
    /\ "{{.runName}}" \notin Flags /\ "{{.actionName}}" \notin Flags
<1> DEFINE others == {"/usr/local/bin/worker", "a0", "{{.runName}}", "{{.actionName}}"}
<1>2. /\ "--inputs" \in Flags /\ "--outputs-path" \in Flags
      /\ "--run-name" \in Flags /\ "--name" \in Flags
      BY FlagsOfFields DEF Flags, Fields
<1>3. ASSUME NEW f \in Fields, NEW word \in others
      PROVE  word \notin FlagsOf[f]
      BY FlagsOfFields DEF Fields
<1>4. ASSUME NEW word \in others
      PROVE  word \notin SkippedFlags
      BY DEF SkippedFlags
<1>5. \A word \in others : word \notin Flags
      BY <1>3, <1>4 DEF Flags
<1> QED BY <1>2, <1>5

(* A path is no flag and does not end the list. *)
IsPath(word) == word \notin Flags /\ word # "--resolver"

(* args is the list of container_args, as the worker sees it: after b words *)
(* for the program, one under an image with an ENTRYPOINT and none without. *)
Written(args, b, input, output) ==
    /\ b \in {0, 1}
    /\ DOMAIN args = 1..(9 + b) /\ Len(args) = 9 + b
    /\ b = 1 => IsPath(args[1])
    /\ IsPath(input) /\ IsPath(output)
    /\ args[b + 1] = "a0" /\ args[b + 3] = input /\ args[b + 5] = output
    /\ args[b + 2] = "--inputs" /\ args[b + 4] = "--outputs-path"
    /\ args[b + 6] = "--run-name" /\ args[b + 7] = "{{.runName}}"
    /\ args[b + 8] = "--name" /\ args[b + 9] = "{{.actionName}}"

LEMMA WrittenTake ==
    ASSUME NEW args, NEW b, NEW input, NEW output, Written(args, b, input, output),
           NEW i \in DOMAIN args
    PROVE  /\ Takes(args, i) <=> i \in {b + 2, b + 4, b + 6, b + 8}
           /\ args[i] # "--resolver"
<1>1. /\ b \in {0, 1} /\ DOMAIN args = 1..(9 + b)
      /\ b = 1 => IsPath(args[1])
      BY DEF Written
<1>2. ASSUME NEW k \in DOMAIN args
      PROVE  /\ args[k] \in Flags <=> k \in {b + 2, b + 4, b + 6, b + 8}
             /\ args[k] # "--resolver"
      <2>1. \/ b = 1 /\ k = 1
            \/ k \in {b + 1, b + 2, b + 3, b + 4, b + 5, b + 6, b + 7, b + 8, b + 9}
            BY <1>1
      <2>2. CASE b = 1 /\ k = 1
            BY <1>1, <2>2 DEF IsPath
      <2>3. CASE k \in {b + 1, b + 2, b + 3, b + 4, b + 5, b + 6, b + 7, b + 8, b + 9}
            BY <1>1, <2>3, FlagWords DEF Written, IsPath
      <2> QED BY <2>1, <2>2, <2>3
<1>3. CASE i \in {b + 2, b + 4, b + 6, b + 8}
      <2>1. /\ \A k \in i..i : args[k] \in Flags
            /\ args[i - 1] \notin Flags
            /\ (i - i) % 2 = 0
            BY <1>1, <1>2, <1>3
      <2> QED BY <2>1, <1>1, <1>2, <1>3 DEF Takes
<1>4. CASE i \notin {b + 2, b + 4, b + 6, b + 8}
      BY <1>1, <1>2, <1>4 DEF Takes
<1> QED BY <1>2, <1>3, <1>4

(* What container_args writes is what parse_args reads: the two paths, and  *)
(* nothing else, as no other template in the list is ever filled in.        *)
LEMMA WrittenIsRead ==
    ASSUME NEW args, NEW b, NEW input, NEW output, Written(args, b, input, output)
    PROVE  ParseArgs(args) =
               [f \in Fields |-> CASE f = "inputs" -> RealValue(input)
                                   [] f = "output" -> RealValue(output)
                                   [] OTHER -> Missing]
<1>1. /\ b \in {0, 1} /\ DOMAIN args = 1..(9 + b) /\ Len(args) = 9 + b
      BY DEF Written
<1>2. Ours(args) = DOMAIN args
      BY <1>1, WrittenTake DEF Ours
<1> DEFINE mentions(f) ==
        {i \in Ours(args) : Takes(args, i) /\ args[i] \in FlagsOf[f]}
<1>3. /\ mentions("inputs") = {b + 2} /\ mentions("output") = {b + 4}
      /\ mentions("run") = {b + 6} /\ mentions("action") = {b + 8}
      /\ \A f \in Fields \ {"inputs", "output", "run", "action"} : mentions(f) = {}
      <2>1. ASSUME NEW f \in Fields
            PROVE  mentions(f) =
                     {i \in {b + 2, b + 4, b + 6, b + 8} : args[i] \in FlagsOf[f]}
            BY <1>1, <1>2, WrittenTake
      <2>2. /\ args[b + 2] = "--inputs" /\ args[b + 4] = "--outputs-path"
            /\ args[b + 6] = "--run-name" /\ args[b + 8] = "--name"
            BY DEF Written
      <2> HIDE DEF mentions
      <2>3. mentions("inputs") = {b + 2}
            BY <1>1, <2>1, <2>2 DEF FlagsOf, Fields
      <2>4. mentions("output") = {b + 4}
            BY <1>1, <2>1, <2>2 DEF FlagsOf, Fields
      <2>5. mentions("run") = {b + 6}
            BY <1>1, <2>1, <2>2 DEF FlagsOf, Fields
      <2>6. mentions("action") = {b + 8}
            BY <1>1, <2>1, <2>2 DEF FlagsOf, Fields
      <2>7. ASSUME NEW f \in {"base", "project", "domain", "org"}
            PROVE  mentions(f) = {}
            <3>1. FlagsOf[f] \cap {"--inputs", "--outputs-path", "--run-name", "--name"} = {}
                  BY FlagsOfFields
            <3>2. f \in Fields
                  BY DEF Fields
            <3> QED BY <1>1, <2>1, <2>2, <3>1, <3>2
      <2> QED BY <2>3, <2>4, <2>5, <2>6, <2>7 DEF Fields
<1> HIDE DEF mentions
<1>4. ASSUME NEW f \in Fields
      PROVE  ParseArgs(args)[f] =
               CASE f = "inputs" -> RealValue(input)
                 [] f = "output" -> RealValue(output)
                 [] OTHER -> Missing
      <2> DEFINE last == CHOOSE i \in mentions(f) : \A j \in mentions(f) : j =< i
      <2>1. ParseArgs(args)[f] =
               IF mentions(f) = {} \/ Len(args) \in mentions(f) THEN Missing
               ELSE RealValue(args[last + 1])
            BY DEF ParseArgs, mentions
      <2>2. ASSUME NEW k \in 1..(8 + b), mentions(f) = {k}
            PROVE  ParseArgs(args)[f] = RealValue(args[k + 1])
            <3>1. last = k
                  BY <1>1, <2>2
            <3>2. Len(args) \notin mentions(f) /\ mentions(f) # {}
                  BY <1>1, <2>2
            <3> QED BY <2>1, <3>1, <3>2
      <2> HIDE DEF last
      <2>3. CASE f = "inputs"
            <3>1. ParseArgs(args)[f] = RealValue(args[b + 2 + 1])
                  BY <1>1, <1>3, <2>2, <2>3
            <3>2. b + 2 + 1 = b + 3
                  BY <1>1
            <3>3. args[b + 3] = input
                  BY DEF Written
            <3> QED BY <3>1, <3>2, <3>3, <2>3
      <2>4. CASE f = "output"
            <3>1. ParseArgs(args)[f] = RealValue(args[b + 4 + 1])
                  BY <1>1, <1>3, <2>2, <2>4
            <3>2. b + 4 + 1 = b + 5
                  BY <1>1
            <3>3. args[b + 5] = output
                  BY DEF Written
            <3> QED BY <3>1, <3>2, <3>3, <2>4
      <2>5. RealValue("{{.runName}}") = Missing /\ RealValue("{{.actionName}}") = Missing
            BY DEF RealValue, Placeholders
      <2>6. CASE f = "run"
            <3>1. ParseArgs(args)[f] = RealValue(args[b + 6 + 1])
                  BY <1>1, <1>3, <2>2, <2>6
            <3>2. b + 6 + 1 = b + 7
                  BY <1>1
            <3>3. args[b + 7] = "{{.runName}}"
                  BY DEF Written
            <3> QED BY <3>1, <3>2, <3>3, <2>5, <2>6
      <2>7. CASE f = "action"
            <3>1. ParseArgs(args)[f] = RealValue(args[b + 8 + 1])
                  BY <1>1, <1>3, <2>2, <2>7
            <3>2. b + 8 + 1 = b + 9
                  BY <1>1
            <3>3. args[b + 9] = "{{.actionName}}"
                  BY DEF Written
            <3> QED BY <3>1, <3>2, <3>3, <2>5, <2>7
      <2>8. CASE f \notin {"inputs", "output", "run", "action"}
            BY <1>3, <2>1, <2>8
      <2> QED BY <2>3, <2>4, <2>6, <2>7, <2>8
<1> QED BY <1>4 DEF ParseArgs

LEMMA ListIsWritten ==
    ASSUME NEW input, NEW output, IsPath(input), IsPath(output)
    PROVE  Written(Tail(ContainerArgs(input, output)), 0, input, output)
BY DEF Written, ContainerArgs

LEMMA EntrypointListIsWritten ==
    ASSUME NEW program, NEW input, NEW output,
           IsPath(program), IsPath(input), IsPath(output)
    PROVE  Written(Tail(<<program>> \o ContainerArgs(input, output)), 1, input, output)
<1> DEFINE list == ContainerArgs(input, output)
           words == {list[k] : k \in 1..10}
<1>1. list \in Seq(words)
      <2>1. ASSUME NEW k \in 1..10
            PROVE  list[k] \in words
            OBVIOUS
      <2>2. list = [k \in 1..10 |-> list[k]]
            BY DEF ContainerArgs
      <2> HIDE DEF list, words
      <2>3. list \in [1..10 -> words] /\ 10 \in Nat
            BY <2>1, <2>2
      <2> QED BY <2>3, SeqDef
<1>2. Written(list, 1, input, output)
      <2>1. IsPath(list[1])
            BY FlagWords DEF ContainerArgs, IsPath
      <2> QED BY <2>1 DEF Written, ContainerArgs
<1> HIDE DEF list, words
<1>3. Tail(<<program>> \o list) = list
      BY <1>1, SMTT(30)
<1> QED BY <1>2, <1>3 DEF list

LEMMA ResolvedFields ==
    ASSUME NEW p, NEW env
    PROVE  /\ ResolveWith(p, env).action = Or(p.action, Env(env, "ACTION_NAME"))
           /\ ResolveWith(p, env).run = Or(p.run, Env(env, "RUN_NAME"))
           /\ ResolveWith(p, env).project =
                 Or(Or(p.project, Env(env, "FLYTE_INTERNAL_EXECUTION_PROJECT")),
                    Env(env, "FLYTE_INTERNAL_TASK_PROJECT"))
           /\ ResolveWith(p, env).domain =
                 Or(Or(p.domain, Env(env, "FLYTE_INTERNAL_EXECUTION_DOMAIN")),
                    Env(env, "FLYTE_INTERNAL_TASK_DOMAIN"))
           /\ ResolveWith(p, env).inputs = p.inputs
           /\ ResolveWith(p, env).output = Or(p.output, DefaultOutput)
BY DEF ResolveWith
=============================================================================
