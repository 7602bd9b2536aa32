------------------------------- MODULE Trace -------------------------------
(***************************************************************************)
(* The trace protocol of the flyte crate: replay, or run and then record.  *)
(*                                                                         *)
(* A parent action runs as a sequence of attempts.  In each attempt the    *)
(* task body makes a number of calls to #[flyte::trace] functions, as many *)
(* at a time as it likes; a call names its child action, uploads its       *)
(* inputs, looks for a recording left by an earlier attempt, and either    *)
(* replays that recording or runs the step and records it.                 *)
(*                                                                         *)
(* Durable state (the object store and the backend) survives an attempt;   *)
(* the sequencer, the calls, the submission queue and the informer's cache *)
(* live in the worker process and are lost with it.                        *)
(*                                                                         *)
(* Simplifications:                                                        *)
(*  - a step is one value standing for the identity of a traced function   *)
(*    together with the hash of its inputs; the strings built from them    *)
(*    are not spelled out here;                                            *)
(*  - the value of a run is the pair <<call, attempt>> that produced it,   *)
(*    so that every run of a body has a value of its own;                  *)
(*  - an upload or a download takes effect in one step, or fails;          *)
(*  - attempts of one parent action do not overlap.                        *)
(***************************************************************************)
EXTENDS Naturals, FiniteSets

CONSTANTS
    Calls,          \* the traced calls the task body makes in an attempt
    Steps,          \* identity and input hash of a traced call
    Groups,         \* flyte::group names, one of them standing for "no group"
    StepOf,         \* the step of each call
    GroupOf,        \* the group each call is made in
    UnitSteps,      \* steps whose function returns Result<()>
    RetryLookups,   \* extra lookups of a retry attempt (3 in the code)
    MaxAttempt      \* bound: attempts the backend makes

ASSUME ConstantsAssumption ==
    /\ IsFiniteSet(Calls)
    /\ StepOf \in [Calls -> Steps]
    /\ GroupOf \in [Calls -> Groups]
    /\ UnitSteps \subseteq Steps
    /\ RetryLookups \in Nat
    /\ MaxAttempt \in Nat \ {0}

VARIABLES
    attempt,    \* number of the running attempt, from 1
    phase,      \* of the worker: "prewarm", "running" or "exited"
    counter,    \* the Sequencer's map (volatile)
    pc,         \* where each call is (volatile)
    seq,        \* sequence number a call drew, 0 before it does (volatile)
    tries,      \* lookups a call repeated after a miss (volatile)
    value,      \* value a call has computed or replayed (volatile)
    queue,      \* records handed to the controller, not yet sent (volatile)
    cache,      \* child actions the informer has seen (volatile)
    inputs,     \* names with an inputs.pb (durable)
    outputs,    \* name -> value of its outputs.pb (durable)
    records,    \* names the backend holds a child action for (durable)
    failed,     \* those of them the backend holds as failed (durable)
    ran,        \* history: names whose body ran in this attempt
    synced      \* history: cache when the task body of this attempt started

callVars == <<pc, seq, tries, value>>
durable  == <<inputs, outputs, records, failed>>
history  == <<ran, synced>>
vars == <<attempt, phase, counter, callVars, queue, cache, durable, history>>

-----------------------------------------------------------------------------
(* Names *)

SequenceKeys == Steps \X Groups
Names  == Steps \X Groups \X (Nat \ {0})
Values == Calls \X (Nat \ {0})
NoValue == <<>>

(* The Faulty... operators are broken variants of the definition that       *)
(* follows each of them; no action uses one.                                *)

(* A counter shared by all groups. *)
FaultySequenceKey(c) == <<StepOf[c], CHOOSE g \in Groups : TRUE>>

SequenceKey(c) == <<StepOf[c], GroupOf[c]>>

(* The group, or the sequence number, left out of the name. *)
FaultyNameNoGroup(c, n) == <<StepOf[c], CHOOSE g \in Groups : TRUE, n>>
FaultyNameNoSeq(c, n)   == <<StepOf[c], GroupOf[c], 1>>

SubActionName(c, n) == <<StepOf[c], GroupOf[c], n>>

Name(c) == SubActionName(c, seq[c])

HasOutputs(c) == StepOf[c] \notin UnitSteps

IsRetry == attempt > 1

(* A finished lookup found a recording this call can replay. *)
Replayable(c) == Name(c) \in cache \ failed /\ HasOutputs(c)

InFlight == {"putInputs", "lookup", "getOutputs", "body",
             "putOutputs", "submit", "echo"}
Settled  == {"replayed", "returned", "abandoned"}

Overwrite(f, n, v) == [m \in DOMAIN f \cup {n} |-> IF m = n THEN v ELSE f[m]]

-----------------------------------------------------------------------------
(* Process *)

Init ==
    /\ attempt = 1
    /\ phase = "prewarm"
    /\ counter = [k \in SequenceKeys |-> 0]
    /\ pc = [c \in Calls |-> "idle"]
    /\ seq = [c \in Calls |-> 0]
    /\ tries = [c \in Calls |-> 0]
    /\ value = [c \in Calls |-> NoValue]
    /\ queue = {} /\ cache = {}
    /\ inputs = {} /\ outputs = [n \in {} |-> NoValue] /\ records = {} /\ failed = {}
    /\ ran = {} /\ synced = {}

(* The prewarm lookup has opened the watch stream, and a retry attempt has  *)
(* slept; now the task body starts.                                         *)
Begin ==
    /\ phase = "prewarm"
    /\ phase' = "running"
    /\ synced' = cache
    /\ UNCHANGED <<attempt, counter, callVars, queue, cache, durable, ran>>

(* The attempt is over -- a crash, a kill, a reported error -- whatever its *)
(* calls were doing, and the backend starts the next one.                   *)
Retry ==
    /\ phase # "exited"
    /\ attempt < MaxAttempt
    /\ attempt' = attempt + 1
    /\ phase' = "prewarm"
    /\ counter' = [k \in SequenceKeys |-> 0]
    /\ pc' = [c \in Calls |-> "idle"]
    /\ seq' = [c \in Calls |-> 0]
    /\ tries' = [c \in Calls |-> 0]
    /\ value' = [c \in Calls |-> NoValue]
    /\ queue' = {} /\ cache' = {}
    /\ ran' = {} /\ synced' = {}
    /\ UNCHANGED durable

(* The task body has returned: it awaited or dropped every call it made. *)
Exit ==
    /\ phase = "running"
    /\ \A c \in Calls : pc[c] \notin InFlight
    /\ phase' = "exited"
    /\ UNCHANGED <<attempt, counter, callVars, queue, cache, durable, history>>

(* Nothing of the attempt runs any more. *)
Terminated ==
    /\ phase = "exited"
    /\ UNCHANGED vars

-----------------------------------------------------------------------------
(* A call: prepare_trace *)

(* A number read from the sequencer without taking it. *)
FaultyDraw(c) ==
    /\ phase = "running"
    /\ pc[c] = "idle"
    /\ seq' = [seq EXCEPT ![c] = counter[SequenceKey(c)] + 1]
    /\ pc' = [pc EXCEPT ![c] = "putInputs"]
    /\ UNCHANGED <<attempt, phase, counter, tries, value, queue, cache, durable,
                   history>>

(* The synchronous head of a call, up to the upload: the sequencer hands out *)
(* the next number of the call's key.                                       *)
Draw(c) ==
    /\ phase = "running"
    /\ pc[c] = "idle"
    /\ LET k == SequenceKey(c) IN
        /\ counter' = [counter EXCEPT ![k] = @ + 1]
        /\ seq' = [seq EXCEPT ![c] = counter[k] + 1]
    /\ pc' = [pc EXCEPT ![c] = "putInputs"]
    /\ UNCHANGED <<attempt, phase, tries, value, queue, cache, durable, history>>

PutInputs(c) ==
    /\ pc[c] = "putInputs"
    /\ \/ /\ inputs' = inputs \cup {Name(c)}
          /\ pc' = [pc EXCEPT ![c] = "lookup"]
       \/ /\ pc' = [pc EXCEPT ![c] = "abandoned"]
          /\ UNCHANGED inputs
    /\ UNCHANGED <<attempt, phase, counter, seq, tries, value, queue, cache,
                   outputs, records, failed, history>>

LookupHit(c) ==
    /\ pc[c] = "lookup"
    /\ Replayable(c)
    /\ pc' = [pc EXCEPT ![c] = "getOutputs"]
    /\ UNCHANGED <<attempt, phase, counter, seq, tries, value, queue, cache,
                   durable, history>>

(* Lookups without a bound: one that counts on, one that starts over. *)
FaultyLookupAgain(c) ==
    /\ pc[c] = "lookup"
    /\ Name(c) \notin cache
    /\ IsRetry
    /\ tries' = [tries EXCEPT ![c] = @ + 1]
    /\ UNCHANGED <<attempt, phase, counter, pc, seq, value, queue, cache,
                   durable, history>>

FaultyLookupForever(c) ==
    /\ pc[c] = "lookup"
    /\ Name(c) \notin cache
    /\ IsRetry
    /\ tries' = [tries EXCEPT ![c] = (@ + 1) % (RetryLookups + 1)]
    /\ UNCHANGED <<attempt, phase, counter, pc, seq, value, queue, cache,
                   durable, history>>

(* Nothing in the cache, and this is a retry attempt that may look again. *)
LookupAgain(c) ==
    /\ pc[c] = "lookup"
    /\ Name(c) \notin cache
    /\ IsRetry /\ tries[c] < RetryLookups
    /\ tries' = [tries EXCEPT ![c] = @ + 1]
    /\ UNCHANGED <<attempt, phase, counter, pc, seq, value, queue, cache,
                   durable, history>>

(* A body that starts whatever the lookup found. *)
FaultyLookupMiss(c) ==
    /\ pc[c] = "lookup"
    /\ pc' = [pc EXCEPT ![c] = "body"]
    /\ ran' = ran \cup {Name(c)}
    /\ UNCHANGED <<attempt, phase, counter, seq, tries, value, queue, cache,
                   durable, synced>>

(* Nothing found after the last lookup, or a recording that cannot be       *)
(* replayed: prepare_trace returns Run and the body starts.                 *)
LookupMiss(c) ==
    /\ pc[c] = "lookup"
    /\ ~Replayable(c)
    /\ Name(c) \notin cache => ~IsRetry \/ tries[c] = RetryLookups
    /\ pc' = [pc EXCEPT ![c] = "body"]
    /\ ran' = ran \cup {Name(c)}
    /\ UNCHANGED <<attempt, phase, counter, seq, tries, value, queue, cache,
                   durable, synced>>

LookupError(c) ==
    /\ pc[c] = "lookup"
    /\ pc' = [pc EXCEPT ![c] = "abandoned"]
    /\ UNCHANGED <<attempt, phase, counter, seq, tries, value, queue, cache,
                   durable, history>>

GetOutputs(c) ==
    /\ pc[c] = "getOutputs"
    /\ \/ /\ Name(c) \in DOMAIN outputs
          /\ value' = [value EXCEPT ![c] = outputs[Name(c)]]
          /\ pc' = [pc EXCEPT ![c] = "replayed"]
       \/ /\ pc' = [pc EXCEPT ![c] = "abandoned"]
          /\ UNCHANGED value
    /\ UNCHANGED <<attempt, phase, counter, seq, tries, queue, cache, durable,
                   history>>

-----------------------------------------------------------------------------
(* A call: the body, and TraceHandle::record *)

(* The step succeeded.  A unit step has no outputs to upload. *)
BodyOk(c) ==
    /\ pc[c] = "body"
    /\ value' = [value EXCEPT ![c] = <<c, attempt>>]
    /\ pc' = [pc EXCEPT ![c] = IF HasOutputs(c) THEN "putOutputs" ELSE "submit"]
    /\ UNCHANGED <<attempt, phase, counter, seq, tries, queue, cache, durable,
                   history>>

(* The step returned an error, or its value has no literal: nothing is      *)
(* recorded.                                                                *)
BodyErr(c) ==
    /\ pc[c] = "body"
    /\ pc' = [pc EXCEPT ![c] = "abandoned"]
    /\ UNCHANGED <<attempt, phase, counter, seq, tries, value, queue, cache,
                   durable, history>>

(* A failed upload that is logged, and the record submitted all the same. *)
FaultyPutOutputs(c) ==
    /\ pc[c] = "putOutputs"
    /\ outputs' \in {outputs, Overwrite(outputs, Name(c), value[c])}
    /\ pc' = [pc EXCEPT ![c] = "submit"]
    /\ UNCHANGED <<attempt, phase, counter, seq, tries, value, queue, cache,
                   inputs, records, failed, history>>

(* A failed upload ends record(): the call returns its value unrecorded. *)
PutOutputs(c) ==
    /\ pc[c] = "putOutputs"
    /\ \/ /\ outputs' = Overwrite(outputs, Name(c), value[c])
          /\ pc' = [pc EXCEPT ![c] = "submit"]
       \/ /\ pc' = [pc EXCEPT ![c] = "returned"]
          /\ UNCHANGED outputs
    /\ UNCHANGED <<attempt, phase, counter, seq, tries, value, queue, cache,
                   inputs, records, failed, history>>

(* record_trace: the action is enqueued, or could not be built. *)
Submit(c) ==
    /\ pc[c] = "submit"
    /\ \/ /\ queue' = queue \cup {Name(c)}
          /\ pc' = [pc EXCEPT ![c] = "echo"]
       \/ /\ pc' = [pc EXCEPT ![c] = "returned"]
          /\ UNCHANGED queue
    /\ UNCHANGED <<attempt, phase, counter, seq, tries, value, cache, durable,
                   history>>

(* The bounded wait for the server's echo ends, whether or not it came. *)
Echo(c) ==
    /\ pc[c] = "echo"
    /\ pc' = [pc EXCEPT ![c] = "returned"]
    /\ UNCHANGED <<attempt, phase, counter, seq, tries, value, queue, cache,
                   durable, history>>

(* The caller drops the future of a call it is awaiting: try_join_all after *)
(* a sibling's error, select!, a timeout.  What the call held is gone.      *)
Drop(c) ==
    /\ pc[c] \in InFlight
    /\ pc' = [pc EXCEPT ![c] = "abandoned"]
    /\ value' = [value EXCEPT ![c] = NoValue]
    /\ UNCHANGED <<attempt, phase, counter, seq, tries, queue, cache, durable,
                   history>>

-----------------------------------------------------------------------------
(* The controller and the backend behind it *)

(* A queued record reaches the backend, which keeps the action it already   *)
(* has (AlreadyExists) or creates it, as succeeded or as failed.  That is   *)
(* its last phase: a record is of a step that has ended.  A record that is  *)
(* lost on the way is one that stays in the queue.                          *)
Deliver(n) ==
    /\ phase # "exited"
    /\ n \in queue
    /\ queue' = queue \ {n}
    /\ \/ /\ n \in records
          /\ UNCHANGED <<records, failed>>
       \/ /\ n \notin records
          /\ records' = records \cup {n}
          /\ failed' \in {failed, failed \cup {n}}
    /\ UNCHANGED <<attempt, phase, counter, callVars, cache, inputs, outputs,
                   history>>

(* The watch stream brings one more child action to the informer. *)
Sync(n) ==
    /\ phase # "exited"
    /\ n \in records \ cache
    /\ cache' = cache \cup {n}
    /\ UNCHANGED <<attempt, phase, counter, callVars, queue, durable, history>>

-----------------------------------------------------------------------------

CallStep(c) ==
    \/ PutInputs(c)
    \/ LookupHit(c) \/ LookupAgain(c) \/ LookupMiss(c) \/ LookupError(c)
    \/ GetOutputs(c)
    \/ BodyOk(c) \/ BodyErr(c)
    \/ PutOutputs(c) \/ Submit(c) \/ Echo(c)

Next ==
    \/ Begin \/ Retry \/ Exit \/ Terminated
    \/ \E c \in Calls : Draw(c) \/ CallStep(c) \/ Drop(c)
    \/ \E n \in queue : Deliver(n)
    \/ \E n \in records : Sync(n)

Spec == Init /\ [][Next]_vars

(* What the code and its runtime guarantee: every store and controller call *)
(* is answered or fails, a step's body ends, and a started process gets to   *)
(* the task body.  Nothing is assumed of the watch stream or of delivery.   *)
Fairness ==
    /\ WF_vars(Begin)
    /\ \A c \in Calls : WF_vars(CallStep(c))

FairSpec == Spec /\ Fairness

-----------------------------------------------------------------------------
(* Properties *)

TypeOK ==
    /\ attempt \in 1..MaxAttempt
    /\ phase \in {"prewarm", "running", "exited"}
    /\ counter \in [SequenceKeys -> Nat]
    /\ pc \in [Calls -> {"idle"} \cup InFlight \cup Settled]
    /\ seq \in [Calls -> Nat]
    /\ tries \in [Calls -> 0..RetryLookups]
    /\ value \in [Calls -> Values \cup {NoValue}]
    /\ queue \subseteq Names
    /\ cache \subseteq records
    /\ inputs \subseteq Names
    /\ DOMAIN outputs \subseteq Names
    /\ \A n \in DOMAIN outputs : outputs[n] \in Values
    /\ records \subseteq Names
    /\ failed \subseteq records
    /\ ran \subseteq Names
    /\ synced \subseteq records

Drawn == {c \in Calls : seq[c] # 0}

(* No two calls of an attempt share a child action name, however they       *)
(* interleave: neither may replay or overwrite what is the other's.         *)
(* (Sequencer::next with sub_action_name.)                                  *)
UniqueNames ==
    \A c, d \in Drawn : Name(c) = Name(d) => c = d

(* The names an attempt uses do not depend on the order its calls ran in:   *)
(* the calls of one step in one group hold the numbers 1, 2, ... without a  *)
(* gap, so an attempt that makes the same calls uses the same names.  (The  *)
(* claim of Sequencer's doc comment and of sequence_key's.)                 *)
NamesIndependentOfSchedule ==
    \A c \in Drawn : \A i \in 1..seq[c] :
        \E d \in Drawn : Name(d) = SubActionName(c, i)

(* A child action the backend knows, or is about to know, has its inputs.pb *)
(* and -- unless its step returns unit -- its outputs.pb in the store, even *)
(* across a crash between any two awaits: a replay never follows a dangling *)
(* uri.  (The order of the puts and the submit in prepare_trace / record.)  *)
RecordedArtifactsExist ==
    \A n \in records \cup queue :
        /\ n \in inputs
        /\ n[1] \notin UnitSteps => n \in DOMAIN outputs

(* What a call replays was computed by a call of the same step in the same  *)
(* group.                                                                   *)
ReplayIsSameStep ==
    \A c \in Calls : pc[c] = "replayed" =>
        LET by == value[c][1] IN
        StepOf[by] = StepOf[c] /\ GroupOf[by] = GroupOf[c]

(* No two calls of an attempt are given the same run's value, whatever mix  *)
(* of earlier attempts their recordings come from: identical calls are      *)
(* interchangeable, but each one stands for a run of its own.               *)
EveryCallHasItsOwnRun ==
    \A c, d \in Calls :
        value[c] # NoValue /\ value[c] = value[d] => c = d

OfKey(names, k) == {n \in names : <<n[1], n[2]>> = k}

(* A recorded step is not run again: the calls of a step with outputs that  *)
(* run their body, and the replayable recordings of it the informer held    *)
(* when the task body started, are together no more than the calls of that  *)
(* step.  With every call recorded and synced, none runs.                   *)
RecordedStepsAreNotRerun ==
    \A k \in SequenceKeys : k[1] \notin UnitSteps =>
        Cardinality(OfKey(ran, k)) + Cardinality(OfKey(synced \ failed, k))
            =< Cardinality({c \in Calls : <<StepOf[c], GroupOf[c]>> = k})

(* While a call replays a recording, and for the rest of its attempt, no    *)
(* other call replaces the outputs.pb it read.                              *)
ReplaysAreStable ==
    [][\A c \in Calls :
          pc[c] \in {"getOutputs", "replayed"} /\ attempt' = attempt =>
              /\ Name(c) \in DOMAIN outputs'
              /\ outputs'[Name(c)] = outputs[Name(c)]]_vars

(* A good recording that the informer held when the task body started keeps *)
(* the run it stands for to the end of the attempt, though no call may have *)
(* looked for it yet and others of its step are run again, dropped or       *)
(* recorded late: attempts that find a recording in time, one after the     *)
(* other, all replay the same run.  One that is found later may have been   *)
(* replaced.  (The lookup before the body, in prepare_trace.)               *)
RecordingsAtHandAreKept ==
    [][\A n \in synced \ failed : n[1] \notin UnitSteps =>
          /\ n \in DOMAIN outputs'
          /\ outputs'[n] = outputs[n]]_vars

(* A call that has started ends -- with a replay, a value or an error -- in *)
(* bounded time, even if the watch stream never brings anything and no      *)
(* record is ever delivered; unless its attempt ends first.                 *)
CallsSettle ==
    \A c \in Calls : pc[c] \in InFlight ~> pc[c] \notin InFlight

(* The runs whose outputs are in the store. *)
KeptRuns == {outputs[n] : n \in DOMAIN outputs}

Memo == INSTANCE StepMemo WITH given <- value, memo <- KeptRuns

(* The protocol implements a memo of runs: seen through the values its      *)
(* calls are given and the runs whose outputs are stored, every step is a   *)
(* step of StepMemo.                                                        *)
ImplementsMemo == Memo!MemoSpec

(* What the README says of every traced step: recorded as its own action    *)
(* and replayed instead of re-run when the task retries.  Here: the body of *)
(* a step whose successful recording the informer held before the task body *)
(* started does not run.                                                    *)
RecordedStepsAreReplayed ==
    ran \cap (synced \ failed) = {}
=============================================================================
