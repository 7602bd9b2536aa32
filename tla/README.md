# A verification of the Flyte Rust SDK in TLA+

TLA+ modules of the parts of `flyteorg/flyte-sdk-rs` whose correctness depends
on the order in which things happen: traced steps that are replayed when a task
is retried, the worker process that takes its assignment and reports a task's
result, conditions that wait for a person, the task-locals that say under which
action code runs, and the interface descriptor a launcher takes from a binary
and sends along. TLC checks them on small instances; TLAPS proves the
main theorems for every value of the constants.

Paths below are relative to the repository's root; `flyte/` abbreviates
`crates/flyte/src/`, `macros/` abbreviates `crates/flyte-macros/src/`, and
`py/` abbreviates `python/flyteplugins-rs/src/flyteplugins_rs/`.

    tlc -workers 2 -config MCTrace.cfg MCTrace     # and so on, see "Runs"
    tlapm TraceProofs.tla          # and the other ...Proofs modules

## The system

A Flyte task written in Rust is compiled with this crate into a worker binary.
A Python launcher declares the task from the interface the binary describes;
the backend starts the binary in a container, as often as the task's retries
allow. One such process is an *attempt* of one *action*. In it:

1. `worker_main` resolves the action's identity and paths from arguments and
   environment, connects the controller, and runs `execute` beside the
   controller's background watch, under one `select!`.
2. `execute` waits for the informer to warm up, fetches `inputs.pb`, runs the
   task, and uploads `outputs.pb` or `error.pb`.
3. Inside the task, each call of a `#[flyte::trace]` function names a child
   action, looks for a recording of it left by an earlier attempt, and either
   replays that recording or runs the step and records it.
4. `flyte::condition` creates a child action of another kind, which the backend
   parks until somebody answers; the task waits for its end.

State that survives an attempt is in the object store (`inputs.pb`,
`outputs.pb`, `error.pb`) and in the backend (child actions). The sequence
counters, the submission queue and the informer's cache die with the process.

### Components

| component | state | operations | what is hard | what makes it correct |
|---|---|---|---|---|
| trace protocol (`flyte/trace.rs`, `macros/trace.rs`) | per call: its place, number, lookups, value; in the store and the backend: artifacts and child actions | `prepare_trace`, `TraceHandle::record`, the generated wrapper | many calls at once on several threads; a crash between any two awaits; a watch stream that lags; failed uploads; dropped futures | a name belongs to one call; names do not depend on the schedule; recordings never dangle; a recorded step is not rerun; a replay is of the right step and stays what it was |
| sequencing and names (`flyte/context.rs` `Sequencer`, `sequence_key`; `flyte/hash.rs`) | one counter per key | `next`, `sub_action_name` | arrival order of concurrent calls; keys and names glued from parts | as above; two different keys or names are never spelled alike |
| worker process (`flyte/worker.rs`) | where the process is, artifacts, exit code | `parse_args`, `resolve_config_with_env`, `build_controller`, `execute`, `worker_main` | `select!` drops `execute` anywhere; uploads fail; the process is killed | what it leaves behind is true of the task, and something is left |
| conditions (`flyte/condition.rs`) | per condition: name, number, answer; in the backend: the parked action | `create`, `wait` | answers outlive attempts; timeouts; arrival order of concurrent questions; steps that are replayed and ask nothing | an answer reaches the question it was given to, and keeps its value; nobody is asked twice; a timed wait ends |
| literal conversions (`flyte/types.rs`, `macros/task.rs`) | none | `to_literal`, `from_literal`, envelopes, a task's entry | integers that do not fit; silent rounding; arguments in another order | a value comes back as it was, or an error does |
| controller (`flyte/controller.rs`) | wraps `flyte_core`'s submission queue, informer cache and background tasks | `lookup_action`, `record_trace`, `start_condition`, `wait_condition`, `finalize`, `watch_for_errors` | late, lost or duplicate deliveries | seen through its callers |
| task context (`flyte/context.rs`) | process-wide `STATE`; task-locals `CURRENT`, `GROUP`, `IN_TRACE` | `install`, `scope`, `group`, `in_trace`, `spawn` | several actions in one reusable container; futures moved to other tasks | a call records under the action it belongs to |
| artifact storage (`flyte/storage.rs`) | clients by scheme and bucket | `put`, `get`, `resolve` | size cap, store errors | seen through its callers |
| interface descriptor (`py/_descriptor.py`, `flyte/interface.rs`) | binaries in `target/`, `_generated_interface.py`, a cache by path | `find_binary`, `_describe`, `load_descriptor` | several copies of one signature going stale | the signature launched is the one compiled |
| Python task template (`py/_task.py`) | none | `container_args` | must agree with `parse_args` | what one side writes the other reads |
| reusable environments (`py/_reuse.py`, `examples/reusable`) | none | a policy that is validated and serialized | | the policy sent is the one declared |
| image building (`py/_image.py`), parsing of macros, error texts, scripts | none to speak of | | | |

A task's attempt ties these together: `worker_main` starts the task body, the
body's calls go through the trace protocol and through conditions, their
arguments and results are literals that are hashed into names, and what the
body makes of them is what the worker uploads.

`PROJECT.json` lists the hazards of each at the line where they bite, with the
properties that cover them.

## Modules

| module | what it models |
|---|---|
| `Trace.tla` | the trace protocol, concurrent calls, attempts, store, backend and informer |
| `StepMemo.tla` | what the protocol promises: a memo of runs. The abstract specification of `Trace` |
| `MCTrace.tla` | instances of `Trace` |
| `TraceProofs.tla` | theorems about `Trace` |
| `Args.tla` | the launcher's argument list, `parse_args` and `resolve_config_with_env`, as operators |
| `ArgsProofs.tla` | lemmas: what the launcher writes is what the worker reads |
| `Worker.tla` | `worker_main` and `execute`, artifacts and exit codes. Extends `Args` |
| `MCWorker.tla` | instances of `Worker`, and `parse_args` compared with its loop |
| `WorkerProofs.tla` | theorems about `Worker` |
| `Action.tla` | `Worker` and `Trace` composed: a task's attempts around its calls, some of them on what others returned, and what it reports |
| `MCAction.tla` | instance of `Action`, and the names of `Naming` evaluated |
| `ActionProofs.tla` | theorems about `Action` |
| `Naming.tla` | how counter keys and action names are spelled, as operators |
| `NamingProofs.tla` | theorems about `Naming`: names are their parts |
| `Literals.tla` | values and literals, envelopes, a task's entry, as operators |
| `Condition.tla` | conditions: create, wait, answers, timeouts, replayed steps, retries. Extends `Naming` and `Literals` |
| `Questions.tla` | what conditions promise: questions put once and decided once. The abstract specification of `Condition` |
| `MCCondition.tla` | instances of `Condition`, and `Literals` evaluated |
| `ConditionProofs.tla` | theorems about `Condition` |
| `Context.tla` | the process-wide state and the task-locals: install, scope, group, spawn, steps within steps |
| `MCContext.tla` | instance of `Context` |
| `ContextProofs.tla` | theorems about `Context` |
| `Descriptor.tla` | binary, generated module, code bundle and container: where an interface comes from |
| `MCDescriptor.tla` | instances of `Descriptor` |
| `DescriptorProofs.tla` | theorems about `Descriptor` |

Operators whose name begins with `Faulty` are broken variants of the definition
they precede: a dropped guard, a counter not reset. No action uses one. They
record, for each property, a plausible mistake in the code that the property
would catch; `PROJECT.json` pairs them.

### Trace

An attempt is a set `Calls` of calls, of given steps (`StepOf`: a function's
identity together with the hash of its inputs) in given groups (`GroupOf`).
Calls run concurrently; each await in the code is a boundary between two
actions of its call.

| code | model |
|---|---|
| `Sequencer::next` and the synchronous head of `prepare_trace` (`flyte/trace.rs` 51-68) | `Draw`: the number and the name |
| `storage.put(inputs.pb)` (69-72) | `PutInputs`: uploaded, or the call fails |
| `lookup_action`, and up to three more on a retry, 500 ms apart (78-92) | `LookupHit`, `LookupAgain`, `LookupMiss`, `LookupError` |
| the replay condition (94-100): found, not failed, an outputs uri, and the step has outputs | `Replayable` |
| `storage.get(outputs.pb)` | `GetOutputs` |
| the wrapped body (`macros/trace.rs` 189-201) | `BodyOk`, `BodyErr` |
| `TraceHandle::record`: put, then `record_trace`, then a bounded wait for the echo | `PutOutputs`, `Submit`, `Echo`: every failure returns the value unrecorded |
| a dropped future (`try_join_all`, `select!`, `timeout`) | `Drop` |
| `flyte_core`'s queue and the backend's AlreadyExists | `Deliver` |
| the watch stream | `Sync` |
| prewarm and the retry's sleep in `execute` | `Begin` |
| crash, kill, reported error, and the backend's next attempt | `Retry` |

`attempt`, `inputs`, `outputs`, `records` and `failed` survive `Retry`; all else
is reset. The value of a run is `<<call, attempt>>`, so that every execution of
a body has a value of its own and a replay can be traced to the run it came
from. `ran` and `synced` are history variables: the names whose body ran in this
attempt, and what the informer held when the task body started.

Uploads are atomic: `object_store`'s put is. A lost record is one that stays in
the queue until its process dies. A record's phase is final when it is created:
a step run again by a retry whose record already exists as failed stays failed, so
every later attempt runs it again (`failed`, set in `Deliver`). `abandoned` stands for a call that returned an
error and for one that was dropped; the caller can tell, the protocol cannot.
Attempts of one action do not overlap, which is the backend's promise.

`StepMemo` knows neither names nor numbers nor uploads: a call is given the
value of its own run, or replays a run of the same step and group from an
earlier attempt that no other call has been given; a new run may take the place
of an old one in the memo, never of one that was given to a call. `Trace`
implements it with `given <- value` and `memo <- KeptRuns`.

### Args

`ContainerArgs` is the list of `py/_task.py`, with the two paths as the backend
fills them in and the names as templates, which it leaves. `ParseArgs` is
`parse_args` without its loop: `Takes` says in closed form which words take the
next one for a value (flags that stand in a row are read in pairs), `Ours` which
words come before `--resolver`, and the last mention of a field counts. MCWorker
compares it with a word-by-word reading of the loop on every list of up to five
of `--name`, `--tgz`, `--resolver`, an unknown word and `""`
(`ParseArgsIsTheLoop`, an ASSUME that TLC evaluates). `ResolveWith` is
`resolve_config_with_env`: arguments before environment, execution variables
before the task's, and `Complete` its errors.

### Worker

A launch is an argument vector, an environment and the assignment that the
backend means by them (`Unassigned` if they do not say). `ResolveConfig` is
deterministic: `cfg` is what `Args` makes of the launch, and an incomplete one
exits with 1. `pc` follows `worker_main` and, under the `select!`, `execute`. `WatchFails` and
`WatchEnds` are the other branch of the `select!`, armed while `execute` runs:
they drop it wherever it is, and an upload it was waiting for may have reached
the store or not (`Dropped`). `Kill` ends the process the same way at any
point. `Retry` is the backend's next attempt. It has an output path of its own,
or, where the launch brings none, the default that all attempts share, with
what earlier ones left there (`stale`); `files` is what the attempt itself has
left. `FetchInputs` can fail only if the configuration names inputs. The faults
the environment may commit are the constant `Faults`.

### Action

`Action` instantiates both `Worker` (its `pc` is `at` here) and `Trace` over one
set of variables, with one `attempt` between them. A call is a function and the
*runs* whose values it is called on (`ArgumentsOf`): a function whose argument
another one computes is one call for every value of that argument, and its step
is its function with that argument, as the inputs' hash makes it
(`flyte/trace.rs` 51-64). A call is `Due` when the body has its arguments.

| code | model |
|---|---|
| `worker_main` and `execute` outside of the task body | `Process`: `Worker`'s actions, the traced calls untouched |
| `execute` fetches the inputs, and polls the task body for the first time (`flyte/worker.rs` 243-268) | `Start`: `Worker`'s `FetchInputs` and `Trace`'s `Begin` |
| a traced call in the body | `Call`: `Trace`'s, while the process is in the body |
| the body returns | `Return`: `BodyOk` once every due call has returned, `BodyErr` after a call's error |
| the controller's background work | `Background`: as long as its process and its watch have it |
| the other branch of the `select!`, a panic, a kill | `CutOff` |
| the next attempt | `Retry`: both modules' |

`reports` is a history variable: for each attempt whose `outputs.pb` has reached
the store, the runs that the result was computed from. One that reaches it while
its process is cut off counts as well. `Trace`'s `Exit` and `Drop` are not used:
the body ends by `Return`, and this body drops no call.

### Naming

A string is a sequence of letters in which `":"` and `"-"` are letters too, so
that two of them can be spelled alike. What stands between separators (a word, a
digest, a number) is one letter; a condition's name, a group and a version are
free. `SequenceKey`, `Components` and `SubActionName` are `context.rs` 168-178
and `hash.rs` 70-84; `Digits` is `base36_encode`; `Identity` is that of
`macros/trace.rs` 121-130. The digest of a name is taken to be injective.

`Condition` uses these names as they are. `Trace` takes them for tuples of their
parts. `NamingProofs` proves that this is sound when no version has a separator
in it, for parts of any length and groups with any separators
(`OneNameOneCall`, `OneCounterOneStep`); digests and Rust identifiers have none.
MCAction has instances of it (`NamesAreTheirParts`), and a version with a
separator whose name meets another call's (`NamesThatMeet`). Both are ASSUMEs
that TLC evaluates, as are `DigitsAreTheNumber`, and those of `Literals` below.

### Literals

`ToLiteral` and `FromLiteral` are the conversions of `flyte/types.rs` type by
type: `FromInteger` is `try_from` with its error, `FromNumber` the cast to a
float, which takes an integer literal as well and rounds to the nearest
(`RoundTo`, ties to even). Widths are constants (`Bits64`, `Mantissa32`...),
scaled down for TLC; a float holds integers only, which is where the two meet.
`Encode`, `Lookup`, `Decode` are the envelopes, and the entry that `macros/task.rs`
generates. MCCondition evaluates: a value comes back from its literal
(`ValuesComeBack`), no float is nearer than the one rounded to
(`RoundIsNearest`), an integer is cast to its float directly, which may be
another than the same number sent as a float comes to
(`IntegersAreCastDirectly`), an entry decodes by name whatever the order, and reports a
missing name or another kind as an error (`EnvelopesDecode`), and inputs are
hashed apart, in the order they are declared (`InputsAreHashed`).

### Condition

`Create` is `ConditionBuilder::create`: it draws a number and enqueues the
condition, or fails. `Wait`, `WaitEnds` and `WaitFails` are `Condition::wait`
with the controller's wait behind it; the answer is decoded by `FromLiteral`, so
a wait may also end with a type error. `Drop` is a wait whose future is dropped;
it may be waited for again. `Deliver`, `Signal`, `Abort`, `TimeOut` and `Sync`
are the backend, the person and the informer. A condition remembers the call
that created it first: that is whose question its giver was shown, and whose
type the answer has. `Before` holds the pairs of calls the task makes in a fixed
order; without it, arrival order is free. `InsideStep` holds those made in a
traced step: `RecordStep` records the step with its answer, and `Skip` is its
replay, in which the condition is not created again. A timeout reaches the
backend only if it is positive (`SendsTimeout`).

`Questions` knows no names, numbers, timeouts, backend or informer: a question,
one for each call, is put once and decided once, for all attempts; a call is
told a reading of the decision of its own question, at most once an attempt.
`Condition` implements it, while the calls are ordered: a question is asked if
the backend has a condition whose creator is its call, by whatever name
(`asked`), its decision is that condition's end and output, and an answered call
has been told.

### Context

A strand is a future that is polled on its own: a tokio task, or a branch of a
`join!`. It has the action it is scoped to (`current`) and a stack of `GROUP`
and `IN_TRACE` values (`scopes`).

| code (`flyte/context.rs`) | model |
|---|---|
| `install`, in `worker_main` (92-99) | `Install`: `STATE` is set, once |
| `scope`, around each action of a reusable container (112-116) | `Scope` |
| `run`, without a backend (`flyte/worker.rs` 34-38) | `RunLocally` |
| `current`, `current_group`, `in_trace` | `CurrentState`, `CurrentGroup`, `InTrace` |
| `group` (134-156) | `EnterGroup`, left by `Leave` |
| `spawn` (184-209) | `Spawn`: captures all three |
| the wrapper of a traced function (`macros/trace.rs` 164-205) | `CallStep`: recorded, or a plain call |
| `ConditionBuilder::create` | `CreateCondition`: under the current action, or refused |
| `Controller::for_run` | `Parent`: a recording names its run and its action |
| `join!`, `select!`; `tokio::spawn` | `Branch`; `TokioSpawn`: captures nothing |

`ambient` is a history variable: what the code of a strand *belongs to*, kept by
the same nesting but never read by the code -- the action that was assigned, the
group it was put in, whether it is part of a step, and whether only joins and
`flyte::spawn` have moved it (`carried`). The properties compare what is
recorded (`last`) with it. Spawned strands may outlive their action. Since
`tokio::spawn` is documented to lose the context, the properties about groups,
nesting and recording except what it moved; `UnderItsOwnAction` does not.

### Descriptor

The developer's actions are `Edit`, `Build`, `Clean` and what git or another
launcher writes (`OthersWrite`). `StartLauncher` begins a process that imports
the task's Python file; `DeclareBundled`, `DeclareFromBinary` and
`DescribeFails` are the ends of `load_descriptor` (`py/_descriptor.py` 99-135),
with `FindBinary` (release before debug, nearer directories first), `Describe`
(cached by path), `LoadGenerated` (the module is imported, if it exists) and
`Refresh` (written when it differs from what was found bundled; a read-only
checkout is left alone). `Submit` bundles the module if it was imported, and
`DeclareInContainer` runs `load_descriptor` where there is no binary. A
descriptor is one value with a version. `kept`, `rebuilt` and `touched` are
history variables for the properties' exceptions.

## Runs

| run | instance | checks |
|---|---|---|
| `trace` (MCTrace.cfg) | 3 calls: two identical, one of the same step in another group; 2 attempts | `TypeOK`, `UniqueNames`, `NamesIndependentOfSchedule`, `ReplayIsSameStep`, `RecordedStepsAreNotRerun` |
| `trace_attempts` (MCTraceAttempts.cfg) | 2 identical calls, 3 attempts, all lookups; fairness | `RecordedArtifactsExist`, `EveryCallHasItsOwnRun`, `ReplaysAreStable`, `RecordingsAtHandAreKept`, `ImplementsMemo`, `CallsSettle` |
| `trace_unit` (MCTraceUnit.cfg) | 2 different steps, one returning unit; 2 attempts | `RecordedStepsAreReplayed` fails: finding 1 |
| `worker` (MCWorker.cfg) | nine launches, every fault, 3 attempts, fairness | `TypeOK`, `RunsItsAssignment`, `ReportIsTheResult`, `ArtifactsAreTrue`, `ExitCodeOrReport`, `NothingLeftOnlyIfPutFailed`, `ProcessEnds` |
| `worker_missing` (MCWorkerMissing.cfg) | failed uploads only | `SomeArtifact` fails: finding 2 |
| `worker_both` (MCWorkerBoth.cfg) | a failing watch only | `OneArtifact` fails: finding 3 |
| `action` (MCAction.cfg) | `load`, and `use` of what it returned; every fault, 2 attempts, fairness | `TypeOK`, `ReportsAreCoherent`, `RetriesReportTheSame`, `RetriesOnlyReplay`, `AttemptsEnd` |
| `condition` (MCCondition.cfg) | `"a"` in group `b`, then `"a:b"` (one counter), and `"a"` in a traced step; answers that fit their type and that do not; 2 attempts, fairness | `TypeOK`, `AnswersReachTheirQuestion`, `NoQuestionAskedTwice`, `AnswersKeepTheirValue`, `ImplementsQuestions`, `TimedWaitsEnd` |
| `condition_replayed` (MCConditionReplayed.cfg) | one name for two questions in a fixed order, the first in a traced step | `AnswersReachTheirQuestion` fails: finding 4 |
| `context` (MCContext.cfg) | 2 strands, root actions of two runs with one name, three kinds of process | `TypeOK`, `UnderItsOwnAction`, `NestedStepsArePlain`, `GroupsAreKept`, `NothingGoesUnrecorded` |
| `descriptor` (MCDescriptor.cfg) | 2 places for a binary, two signatures and one of another version, with and without a fallback, a read-only checkout, others who write | `TypeOK`, `OnlySupportedVersions`, `ContainerAgrees`, `CommittedInterfaceTravels`, `DescribesItsBinary` |
| `descriptor_delete` (MCDescriptorDelete.cfg) | a developer alone, no fallback, a writable checkout | `SafeToDelete` fails: finding 5 |

### Bounds

- *Calls.* A collision or a swap needs two calls of one key; a counter shared
  by mistake needs a third in another group. Nothing in the code relates more
  than two calls at a time.
- *Attempts.* Two show replay. The third of `trace_attempts` is for a call that
  meets recordings of two different attempts, or the orphan upload of one and
  the record of another.
- *Lookups.* `RetryLookups` is 3 in the code. `trace` sets it to 0: a repeated
  lookup only delays a call that stays where it is, and `Sync` can come before
  the one lookup as well as between several.
- *Symmetry.* The two identical calls of `trace` are interchangeable (it has no
  temporal property). `trace_attempts` has liveness, and no symmetry.
- *Condition.* Three calls are two that meet in a counter and one that would
  meet the first in a name. What becomes of a condition after the task's last
  attempt has ended is left out; nothing can observe it. An `i32` has 3 bits
  and an `f32` a mantissa of 2: of the answers, `-4` fits an `i32` and `5` does
  not, and an `f32` has to round the float `11`.
- *Action.* Two calls one after the other suffice for a mixture of attempts: the
  second one's argument is of this attempt or the last. Calls at the same time
  are the business of `trace`, and of `ActionProofs`; two calls of one step,
  under a failing watch and kills, have been checked as well (1.2 million
  states). With a third call beside the two, all invariants
  held as well, for kills alone and for failed uploads (2.2 million states), but
  not in the time of a run with every fault. One extra lookup on a retry stands
  for three.
- *Worker.* The nine launches: the launcher's list with and without an
  ENTRYPOINT, in a pod and in a reusable container, with paths filled in, left
  as templates or empty; the Python SDK's longer list; a flag at the end without
  a value; and two environments that lack a required name.
- *Context.* Two strands are one that spawns and one that is spawned; a chain of
  spawns reuses a strand that has ended. `MaxDepth` of 3 allows a group in a
  step in a group, and a step in a step in a step. The proofs need neither bound.
- *Descriptor.* Two places decide which binary is found; of two signatures one
  is stale when the other is current; a third descriptor has another version.
- `MaxAttempt` appears only in the guards of `Retry`. The proofs do not depend
  on its value.

### Fairness

- `Trace`: weak fairness of `Begin` and of each call's own steps. The code
  awaits store and controller calls, which return or fail, and sleeps that end;
  bodies are taken to end. Nothing is assumed of `Sync` and `Deliver`: a silent
  watch stream or a lost record must not hang a call. `Draw`, `Drop` and `Retry`
  may never happen.
- `Worker`: weak fairness of the process's own steps (`Process`). The
  environment's faults are free to happen or not.
- `Condition`: weak fairness of what happens to each condition's name (delivery,
  the backend's timer, the informer) and of a finished wait. Nobody has to
  answer; no wait has to fail.
- `Action`: weak fairness of the process together with the calls of its body:
  something of it goes on. Nothing is assumed of the background work or of
  faults, and `Retry` may never happen.
- `Context` and `Descriptor` have safety properties only, and no fairness. A
  developer never stops, so `Descriptor` cannot deadlock; `Context` may end
  (`Terminated`), and is checked for deadlocks before that.

## Proofs

The constants' assumptions are named in each module; a theorem that needs more
says so in its ASSUME.

`TraceProofs` assumes only `ConstantsAssumption`: finitely many calls, each with
a step and a group. The inductive invariant has four layers, each using the
ones before:

1. `TypeInv`: `TypeOK`, and that a call has a number exactly from the moment it
   starts (`DrawnOnceStarted`) and holds the value of its own run while it
   uploads it (`UploadsOwnRun`). Without the first, `Name(c)` need not be a
   name; without the second, an upload could store a replayed value.
2. `NamesInv`: numbers do not exceed their key's counter, and every number the
   counter passed is held by a call. `UniqueNames` alone is not inductive: a
   `Draw` could hand out a number that is held but above the counter.
3. `ArtifactsInv`: what is recorded or enqueued has its artifacts, and so has
   every call that is past its uploads.
4. `RunsInv`: outputs are stored under the step and group that computed them, an
   output written in this attempt belongs to the call that holds its name, no
   two names hold the same run, and a call's value is its own or is the output
   under its name. This is what a replay reads, so `EveryCallHasItsOwnRun` and
   the refinement of `StepMemo` rest on it.

Two more facts serve `RecordedStepsAreNotRerun` and `RecordingsAtHandAreKept`: a
body that has run was not among the good recordings at hand (`RunsAreNew`), and
a call that uploads has run its body (`UploadersHaveRun`).

| theorem | states, for every instance |
|---|---|
| `TypeCorrect` | `Spec => []TypeOK` |
| `NamesAreUnique` | `Spec => []UniqueNames` |
| `NamesDoNotDependOnSchedule` | `Spec => []NamesIndependentOfSchedule` |
| `RecordsNeverDangle` | `Spec => []RecordedArtifactsExist` |
| `ReplaysAreOfTheSameStep` | `Spec => []ReplayIsSameStep` |
| `CallsHaveTheirOwnRuns` | `Spec => []EveryCallHasItsOwnRun` |
| `NoRecordedStepIsRerun` | `Spec => []RecordedStepsAreNotRerun` |
| `ReplayedOutputsAreStable` | `Spec => ReplaysAreStable` |
| `RecordingsStayKept` | `Spec => RecordingsAtHandAreKept` |
| `TraceImplementsMemo` | `Spec => ImplementsMemo` |
| `ReportedResult`, `TrueArtifacts`, `NothingVanishes` (`WorkerProofs`) | the worker's `ReportIsTheResult`, `ArtifactsAreTrue`, `NothingLeftOnlyIfPutFailed` |
| `WorkerTypeCorrect`, `CodeExcludesReport` (`WorkerProofs`) | the worker's `TypeOK`, `ExitCodeOrReport` |
| `LauncherIsObeyed` (`WorkerProofs`) | `Spec => []RunsItsAssignment`, if every launch is one of the launcher's (`ByLauncher`) |
| `ContextTypeCorrect`, `EverythingUnderItsOwnAction`, `NestedStepsStayPlain`, `GroupsStayKept`, `EverythingIsRecorded` (`ContextProofs`) | the five invariants of the run `context` |
| `ConditionTypeCorrect` (`ConditionProofs`) | `Spec => []TypeOK` |
| `AnswersReach`, `AskedOnce` (`ConditionProofs`) | `Spec => []AnswersReachTheirQuestion` and `Spec => []NoQuestionAskedTwice`, if `CallsAreOrdered` |
| `ConditionImplementsQuestions` (`ConditionProofs`) | `Spec => ImplementsQuestions`, if `CallsAreOrdered` |
| `AnswersKept` (`ConditionProofs`) | `Spec => []AnswersKeepTheirValue`, whether the calls are ordered or not |
| `OneNameOneCall`, `OneCounterOneStep` (`NamingProofs`) | `NameOf(parent, p) = NameOf(parent, q)` only if `p = q`; `KeyOf(p) = KeyOf(q)` exactly if `p` and `q` differ in nothing but their numbers |
| `ActionTypeCorrect` (`ActionProofs`) | `Spec => []TypeOK` |
| `ReportsStayCoherent` (`ActionProofs`) | `Spec => []ReportsAreCoherent` |
| `RetriesReportAlike`, `RetriesRunNothing` (`ActionProofs`) | `Spec => []RetriesReportTheSame`, `Spec => []RetriesOnlyReplay` |
| `ActionImplementsTrace`, `ActionImplementsWorker` (`ActionProofs`) | `Spec => T!Spec`, `Spec => W!Spec`: an action behaves as `Trace` and as `Worker` say |
| `DescriptorTypeCorrect`, `ContainersAgree`, `InterfacesTravel`, `BinariesAreDescribed` (`DescriptorProofs`) | `TypeOK`, `ContainerAgrees`, `CommittedInterfaceTravels`, `DescribesItsBinary` |
| `VersionsStaySupported` (`DescriptorProofs`) | `Spec => []OnlySupportedVersions`, if nobody commits or falls back on another version (`SupportedSources`) |

The worker's invariant `WorkerInv` says, for each place of the process, what its
result, its artifacts and its failed uploads are there. `LauncherIsObeyed` has
one of its own, `ConfigInv`: past the first step, `cfg` is what `Args` makes of
the launch. Its assumption `ByLauncher` is that the vector is `ContainerArgs` of
two paths, alone or behind a program's name, and that the assignment's names are
the environment's; a path (`IsPath`) is any word that is neither a flag nor
`--resolver`, so templates and `""` are covered. `ArgsProofs` has the substance:
a written list is read back (`WrittenIsRead`), whatever the paths are. Without
the assumption the property is checked on the nine launches only.

`ContextProofs` assumes only `ContextAssumption`: that `"none"` names neither an
action nor a group, and the kinds of process. The properties speak of `last`
alone and are far from inductive; `ContextInv` adds two things. `StrandInv`:
*every* scope on a strand's stack, not only the innermost, agrees with what its
code belongs to, given the strand's action -- `Leave` uncovers the one below.
`ProcessInv`: a process has an installed action and no scoped ones, or the
reverse, and nothing lives before the installation; without it, `Install` could
change the action under a live strand, and `TokioSpawn` could take a strand of
one action to another.

`ConditionProofs` rests on two invariants. `CountersCount`: a counter is the
number of its calls that have drawn, which bounds the numbers and makes `TypeOK`
inductive. And, if the calls that share a counter are ordered
(`CallsAreOrdered`), a call that has drawn has its rank among them, whatever the
attempt: then the name says which call it is, in the queue and in the backend.
The hypothesis is what the code asks of its users without saying so; without it
the two properties fail (finding 4). The same facts make a condition the one
question of its call, from which every step of `Condition` is one of `Questions`
or none (`DeliverPoses`, `EndDecides`, `WaitTells`, `NoQuestion`).

What a wait returns needs no order of the calls: whatever condition it read, the
informer has only seen ends (`SeenHasEnded`), an end does not change any more
(`EndedStays`), and so an answer is still what its condition's output reads as
(`AnswersAreRead`). Of a type that is not a float, that is what was given
(`ExactConversion`). Of floats nothing is proved: the provers know nothing of
powers.

`ActionProofs`: what a body has is of one piece, because a call that was made
has its arguments among what the body has (`ArgumentsAreHeld`), and what a call
was given is a run of the call's own step, function and arguments alike
(`ValuesAreOfTheirStep`, and `OutputsAreOfTheirStep` for what the store keeps).
The property itself, which looks at reports only, says nothing of a body that
has not reported yet.

That a retry reports the same needs the invariants of both parts. `ActionProofs`
takes them from `TraceProofs` and `WorkerProofs` by INSTANCE (`TraceInvariance`,
`WorkerInvariance`), since an action implements both, and adds two of its own.
`ReportsInv` says what a report is: a body that was done has made every call
that could be made with what it had, so its report has a run for each
(`Full`), and has got there from nothing, a call at a time (`Generated`).
`RetriesFollow` says what a retry with all the recordings does: every call it
has made is one the report was made with, and has drawn a number under which the
report's run is recorded (`Following`). It is inductive by counting: the report
has as many runs of a step as the step has calls, each under its own number, so
every number that a call can draw is one of theirs (`NumbersAreUsed`,
`NumbersAreReported`). That is also why such a call never runs its body. When the
body is done, what it holds is within the report, and closed under the calls
that can be made; as the report is `Generated`, they are the same
(`FollowersAreAlike`). `Generated` is stated by quantifying over every closed
set, so that this induction along the arguments needs no induction rule.

`NamingProofs` takes strings over any alphabet in which numerals differ from one
another and from separators (`Alphabet`). A name is its parts from the left
(`NameIsSpelled`); a part without separators ends where the next separator is
(`CutOnce`), and a group, which may have any, is all that is left
(`SuffixCutOnce`). Only there must a version have none.

`DescriptorProofs` adds to the properties what they need of a launch that is
still under way: that the module is imported by the time something is declared
(`ModuleIsImported`), and says what was declared (`ModuleIsDeclared`).

Only model-checked: the liveness properties (`CallsSettle`, `ProcessEnds`,
`TimedWaitsEnd`, `AttemptsEnd`), as liveness under fairness is beyond TLAPS here.
Only evaluated, over small inputs: what `Literals` and `Digits` compute, the
rounding of floats among it.

## Findings

1. **A traced function that returns `Result<()>` is never replayed.**
   `prepare_trace` (`flyte/trace.rs:97`) replays only a recording with an
   outputs uri of a step with outputs, and a unit step is recorded with an empty
   one. Its body runs again in every attempt, against `README.md:12-14`.
2. **A successful task can leave nothing behind.** If the upload of `outputs.pb`
   fails, `execute` (`flyte/worker.rs:276`) logs it and the worker exits 0 with
   neither artifact, though "the artifacts *are* the report".
3. **Both artifacts can be left behind.** The watch branch of the `select!`
   (`flyte/worker.rs:396`) stays armed after `outputs.pb` is stored, while
   `execute` finalizes.
4. **Conditions of one name are not numbered alike in every attempt.**
   `ConditionBuilder::create` (`flyte/condition.rs:137-138`) numbers the
   conditions of a name by arrival, and calls the number "deterministic across
   attempts" (`:134-136`). A condition created in a traced step is not created
   again when the step is replayed: the next one of its name then draws the
   first one's number, and its wait returns the first one's answer, though the
   body asks in a fixed order. (`create` warns of a name used before, and goes
   on.) The same happens to questions of one name raised concurrently and in
   another order: what `flyte/context.rs:46-48` says of calls that share a
   counter, that they are byte-identical and interchangeable, holds for traces,
   whose key includes their inputs, not for conditions.
5. **The generated module is not safe to delete.** `load_descriptor` looks for it
   (`py/_descriptor.py:112`) before it writes it (`:133`): the first launch
   without one writes it, does not import it, and submits a bundle without it.
   The file says of itself (`:146-148`) that any launch writes it back so that a
   container has an interface. The second launch does.

Also met, and without a run of its own: `flyte/worker.rs:3-4` says "Always exits
0 -- task failure travels via `error.pb`" (and `:407` the like). Two kinds of
attempt do not. Failures before the task starts exit with `ExitCode::FAILURE`
(`ResolveConfig`, `BuildController`). And a panic of the task body unwinds
through the `select!` and `block_on` (`:393-405`): the task has failed, no
`error.pb` says so, and the process exits with 101 (`BodyPanics`). What does
hold, of each of these codes, is `ExitCodeOrReport`: none of them stands beside
an artifact, or for a result that the task returned. And `flyte/context.rs:186-188` says that a bare `tokio::spawn` makes
traced functions run un-recorded: so it does in a reusable container, but in a
one-shot worker `current` falls back to the process-wide state, and only the
group and the in-trace flag are lost.

## Not modelled, and why

- What a reader makes of the default output path (`flyte/worker.rs` 167-169),
  which has no attempt number: there an attempt's artifact may lie beside that
  of an earlier one, as in the model (`stale`). The properties of `Worker` are
  about the artifacts of the attempt itself. Where the backend passes a path per
  attempt, the two are the same.
- A binary built again under a running launcher (its description is cached) and
  a release build older than the debug build beside it: both are in the model
  of `Descriptor`, and its properties except the first and allow the second,
  as the code means to.
- The slots of a reusable environment's pool. A parent that waits for children
  in its own pool may wait forever, but nothing in this repository hands out a
  slot: `py/_reuse.py` writes a policy down, and the backend follows it.
- `flyte_core`, the backend and `object_store` beyond what the callers see: they
  are not in this repository, and are marked external in the map. `resolve`
  (`flyte/storage.rs` 74-115) is configuration of clients and I/O.
- The fields of a struct and msgpack itself (`rmp_serde`), the digests (taken to
  be injective), the fractions of floats and the largest exponents.
- `init_process_env` (`flyte/worker.rs` 300-336) and the endpoints of
  `build_controller`: process configuration, once, before anything else.
- Macros' parsing and diagnostics, image building, wording: no state.

## Where to go on

1. A task body in `Action` that asks conditions as well, in its traced steps
   (now apart, in `Condition`), and that drops calls.
2. `flyte::spawn`ed futures that go on recording after their action has reported
   its result: `Context` has them outlive it, `Trace` and `Action` do not.
3. An abstract specification of the worker as its launcher sees it, in the way
   of `StepMemo` and `Questions`.
