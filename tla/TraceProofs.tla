---------------------------- MODULE TraceProofs ----------------------------
(***************************************************************************)
(* Theorems about Trace, for any set of calls, steps, groups and attempts. *)
(***************************************************************************)
EXTENDS Trace, FiniteSetTheorems, TLAPS

(* A call has a sequence number exactly from the moment it starts. *)
DrawnOnceStarted == \A c \in Calls : pc[c] = "idle" <=> seq[c] = 0

(* A call about to upload its outputs holds the value of its own run. *)
UploadsOwnRun == \A c \in Calls : pc[c] = "putOutputs" => value[c] = <<c, attempt>>

TypeInv == TypeOK /\ DrawnOnceStarted /\ UploadsOwnRun

(* The name of a call that has started is a name. *)
LEMMA NameType ==
    ASSUME TypeInv, NEW c \in Calls, pc[c] # "idle"
    PROVE  Name(c) \in Names
BY ConstantsAssumption
   DEF TypeInv, TypeOK, DrawnOnceStarted, Name, SubActionName, Names

LEMMA KeyType ==
    ASSUME NEW c \in Calls
    PROVE  SequenceKey(c) \in SequenceKeys
BY ConstantsAssumption DEF SequenceKey, SequenceKeys

(* No run is the absence of one. *)
LEMMA NoValueIsNoRun == NoValue \notin Values
<1> SUFFICES ASSUME NEW c \in Calls, NEW a \in Nat \ {0}, NoValue = <<c, a>>
             PROVE  FALSE
    BY DEF Values
<1>1. DOMAIN <<c, a>> = 1..2
      OBVIOUS
<1>2. DOMAIN NoValue = 1..0
      BY DEF NoValue
<1>3. 1 \in 1..2 /\ 1 \notin 1..0
      OBVIOUS
<1> QED BY <1>1, <1>2, <1>3

LEMMA TypeInit == Init => TypeInv
BY ConstantsAssumption
   DEF Init, TypeInv, TypeOK, DrawnOnceStarted, UploadsOwnRun, InFlight, Settled

LEMMA TypeStep == TypeInv /\ [Next]_vars => TypeInv'
<1> SUFFICES ASSUME TypeInv, [Next]_vars PROVE TypeInv'
    OBVIOUS
<1> USE ConstantsAssumption
    DEF TypeInv, TypeOK, DrawnOnceStarted, UploadsOwnRun, InFlight, Settled,
        vars, callVars, durable, history
<1>1. CASE Begin
      BY <1>1 DEF Begin
<1>2. CASE Retry
      BY <1>2 DEF Retry
<1>3. CASE Exit
      BY <1>3 DEF Exit
<1>4. CASE Terminated
      BY <1>4 DEF Terminated
<1>5. ASSUME NEW c \in Calls, Draw(c) PROVE TypeInv'
      BY <1>5, KeyType DEF Draw
<1>6. ASSUME NEW c \in Calls, PutInputs(c) PROVE TypeInv'
      BY <1>6, NameType DEF PutInputs
<1>7. ASSUME NEW c \in Calls, LookupHit(c) PROVE TypeInv'
      BY <1>7 DEF LookupHit
<1>8. ASSUME NEW c \in Calls, LookupAgain(c) PROVE TypeInv'
      BY <1>8 DEF LookupAgain
<1>9. ASSUME NEW c \in Calls, LookupMiss(c) PROVE TypeInv'
      BY <1>9, NameType DEF LookupMiss
<1>10. ASSUME NEW c \in Calls, LookupError(c) PROVE TypeInv'
      BY <1>10 DEF LookupError
<1>11. ASSUME NEW c \in Calls, GetOutputs(c) PROVE TypeInv'
      BY <1>11 DEF GetOutputs
<1>12. ASSUME NEW c \in Calls, BodyOk(c) PROVE TypeInv'
      BY <1>12 DEF BodyOk, Values
<1>13. ASSUME NEW c \in Calls, BodyErr(c) PROVE TypeInv'
      BY <1>13 DEF BodyErr
<1>14. ASSUME NEW c \in Calls, PutOutputs(c) PROVE TypeInv'
  <2>1. Name(c) \in Names /\ value[c] \in Values
        BY <1>14, NameType DEF PutOutputs, Values
  <2>2. CASE outputs' = Overwrite(outputs, Name(c), value[c])
    <3>1. /\ DOMAIN outputs' = DOMAIN outputs \cup {Name(c)}
          /\ outputs'[Name(c)] = value[c]
          /\ \A m \in DOMAIN outputs : m # Name(c) => outputs'[m] = outputs[m]
          BY <2>2 DEF Overwrite
    <3>2. /\ DOMAIN outputs' \subseteq Names
          /\ \A m \in DOMAIN outputs' : outputs'[m] \in Values
          BY <2>1, <3>1
    <3>3. /\ pc' \in [Calls -> {"idle"} \cup InFlight \cup Settled]
          /\ DrawnOnceStarted' /\ UploadsOwnRun'
          BY <1>14 DEF PutOutputs
    <3>4. UNCHANGED <<attempt, phase, counter, seq, tries, value, queue, cache,
                      inputs, records, failed, ran, synced>>
          BY <1>14 DEF PutOutputs
    <3> QED BY <3>2, <3>3, <3>4
  <2>3. CASE UNCHANGED outputs
        BY <1>14, <2>3 DEF PutOutputs
  <2> QED BY <1>14, <2>2, <2>3 DEF PutOutputs
<1>15. ASSUME NEW c \in Calls, Submit(c) PROVE TypeInv'
      BY <1>15, NameType DEF Submit
<1>16. ASSUME NEW c \in Calls, Echo(c) PROVE TypeInv'
      BY <1>16 DEF Echo
<1>17. ASSUME NEW c \in Calls, Drop(c) PROVE TypeInv'
      BY <1>17 DEF Drop
<1>18. ASSUME NEW n \in queue, Deliver(n) PROVE TypeInv'
      BY <1>18 DEF Deliver
<1>19. ASSUME NEW n \in records, Sync(n) PROVE TypeInv'
      BY <1>19 DEF Sync
<1>20. CASE UNCHANGED vars
      BY <1>20
<1> QED BY <1>1, <1>2, <1>3, <1>4, <1>5, <1>6, <1>7, <1>8, <1>9, <1>10, <1>11,
           <1>12, <1>13, <1>14, <1>15, <1>16, <1>17, <1>18, <1>19, <1>20
        DEF Next, CallStep

(* The state of a worker and of its stores is well formed: the lookups of a *)
(* call stay within their bound, everything in the informer's cache is a    *)
(* record of the backend, and only named child actions have artifacts.      *)
THEOREM TypeCorrect == Spec => []TypeOK
<1>1. TypeInv => TypeOK
      BY DEF TypeInv
<1> QED BY <1>1, TypeInit, TypeStep, PTL DEF Spec

-----------------------------------------------------------------------------
(* Names *)

(* No call holds a number its key's counter has not reached ... *)
NumbersWithinCounter ==
    \A c \in Drawn : seq[c] =< counter[SequenceKey(c)]

(* ... and every number the counter has passed is held by a call. *)
NumbersAllTaken ==
    \A k \in SequenceKeys : \A i \in 1..counter[k] :
        \E c \in Drawn : SequenceKey(c) = k /\ seq[c] = i

NamesInv == NumbersWithinCounter /\ NumbersAllTaken /\ UniqueNames

(* Only a new attempt and the head of a call touch the sequencer. *)
LEMMA SequencerSteps ==
    ASSUME [Next]_vars
    PROVE  \/ Retry
           \/ \E c \in Calls : Draw(c)
           \/ UNCHANGED <<seq, counter>>
BY DEF Next, CallStep, vars, callVars, durable, history, Begin, Exit,
       Terminated, PutInputs, LookupHit, LookupAgain, LookupMiss, LookupError,
       GetOutputs, BodyOk, BodyErr, PutOutputs, Submit, Echo, Drop, Deliver, Sync

(* Equal names are equal keys and equal numbers. *)
LEMMA NameParts ==
    ASSUME NEW c \in Calls, NEW d \in Calls
    PROVE  /\ Name(c) = Name(d) <=>
                 SequenceKey(c) = SequenceKey(d) /\ seq[c] = seq[d]
           /\ \A i : Name(d) = SubActionName(c, i) <=>
                 SequenceKey(c) = SequenceKey(d) /\ seq[d] = i
BY DEF Name, SubActionName, SequenceKey

LEMMA NamesInit == Init => NamesInv
BY ConstantsAssumption
   DEF Init, NamesInv, NumbersWithinCounter, NumbersAllTaken, UniqueNames,
       Drawn, SequenceKeys

LEMMA NamesStep == TypeInv /\ NamesInv /\ [Next]_vars => NamesInv'
<1> SUFFICES ASSUME TypeInv, NamesInv, [Next]_vars PROVE NamesInv'
    OBVIOUS
<1> USE ConstantsAssumption DEF Drawn
<1>0. /\ seq \in [Calls -> Nat]
      /\ counter \in [SequenceKeys -> Nat]
      BY DEF TypeInv, TypeOK
<1>1. CASE Retry
      BY <1>1 DEF Retry, NamesInv, NumbersWithinCounter, NumbersAllTaken,
                  UniqueNames
<1>2. ASSUME NEW c \in Calls, Draw(c) PROVE NamesInv'
  <2> DEFINE k == SequenceKey(c)
  <2>1. /\ k \in SequenceKeys
        /\ counter' = [counter EXCEPT ![k] = counter[k] + 1]
        /\ seq' = [seq EXCEPT ![c] = counter[k] + 1]
        BY <1>2, KeyType DEF Draw
  <2>2. seq[c] = 0
        BY <1>2 DEF Draw, TypeInv, DrawnOnceStarted
  <2>3. NumbersWithinCounter'
    <3> SUFFICES ASSUME NEW d \in Calls, seq'[d] # 0
                 PROVE  seq'[d] =< counter'[SequenceKey(d)]
        BY DEF NumbersWithinCounter, SequenceKey
    <3>1. SequenceKey(d) \in SequenceKeys
          BY KeyType
    <3>2. CASE d = c
          BY <1>0, <2>1, <3>2
    <3>3. CASE d # c
      <4>1. seq[d] =< counter[SequenceKey(d)]
            BY <1>0, <2>1, <3>3 DEF NamesInv, NumbersWithinCounter
      <4> QED BY <1>0, <2>1, <3>1, <3>3, <4>1
    <3> QED BY <3>2, <3>3
  <2>4. NumbersAllTaken'
    <3> SUFFICES ASSUME NEW j \in SequenceKeys, NEW i \in 1..counter'[j]
                 PROVE  \E d \in Calls :
                          seq'[d] # 0 /\ SequenceKey(d) = j /\ seq'[d] = i
        BY DEF NumbersAllTaken, SequenceKey, SequenceKeys
    <3>1. CASE j = k /\ i = counter[k] + 1
          BY <1>0, <2>1, <3>1
    <3>2. CASE ~(j = k /\ i = counter[k] + 1)
      <4>1. i \in 1..counter[j]
            BY <1>0, <2>1, <3>2
      <4>2. PICK d \in Calls : seq[d] # 0 /\ SequenceKey(d) = j /\ seq[d] = i
            BY <4>1 DEF NamesInv, NumbersAllTaken
      <4> QED BY <1>0, <2>1, <2>2, <4>2
    <3> QED BY <3>1, <3>2
  <2>5. UniqueNames'
    <3> SUFFICES ASSUME NEW a \in Calls, NEW b \in Calls,
                        seq'[a] # 0, seq'[b] # 0,
                        SequenceKey(a) = SequenceKey(b), seq'[a] = seq'[b],
                        a # b
                 PROVE  FALSE
        BY DEF UniqueNames, Name, SubActionName, SequenceKey
    <3>1. \A d \in Calls \ {c} : seq'[d] # 0 /\ SequenceKey(d) = k
                                    => seq'[d] < counter[k] + 1
          BY <1>0, <2>1 DEF NamesInv, NumbersWithinCounter
    <3>2. a # c /\ b # c
          BY <1>0, <2>1, <3>1
    <3>3. seq[a] = seq'[a] /\ seq[b] = seq'[b]
          BY <1>0, <2>1, <3>2
    <3> QED BY <3>3, NameParts DEF NamesInv, UniqueNames
  <2> QED BY <2>3, <2>4, <2>5 DEF NamesInv
<1>3. CASE UNCHANGED <<seq, counter>>
      BY <1>3 DEF NamesInv, NumbersWithinCounter, NumbersAllTaken, UniqueNames,
                  Name, SubActionName, SequenceKey
<1> QED BY <1>1, <1>2, <1>3, SequencerSteps

(* No two calls of an attempt share a child action name.                    *)
(* (Sequencer::next with sub_action_name.)                                  *)
THEOREM NamesAreUnique == Spec => []UniqueNames
<1>1. NamesInv => UniqueNames
      BY DEF NamesInv
<1> QED BY <1>1, TypeInit, TypeStep, NamesInit, NamesStep, PTL DEF Spec

(* The numbers of a key's calls are 1, 2, ... without a gap, in whatever    *)
(* order the calls ran.  (Sequencer, sequence_key.)                         *)
THEOREM NamesDoNotDependOnSchedule == Spec => []NamesIndependentOfSchedule
<1>1. TypeInv /\ NamesInv => NamesIndependentOfSchedule
  <2> SUFFICES ASSUME TypeInv, NamesInv, NEW c \in Drawn, NEW i \in 1..seq[c]
               PROVE  \E d \in Drawn : Name(d) = SubActionName(c, i)
      BY DEF NamesIndependentOfSchedule
  <2>1. /\ c \in Calls
        /\ SequenceKey(c) \in SequenceKeys
        /\ seq[c] \in Nat
        /\ counter[SequenceKey(c)] \in Nat
        BY KeyType DEF Drawn, TypeInv, TypeOK
  <2>2. i \in 1..counter[SequenceKey(c)]
        BY <2>1 DEF NamesInv, NumbersWithinCounter
  <2>3. PICK d \in Drawn : SequenceKey(d) = SequenceKey(c) /\ seq[d] = i
        BY <2>1, <2>2 DEF NamesInv, NumbersAllTaken
  <2> QED BY <2>1, <2>3, NameParts DEF Drawn
<1> QED BY <1>1, TypeInit, TypeStep, NamesInit, NamesStep, PTL DEF Spec

-----------------------------------------------------------------------------
(* Artifacts *)

(* A call past its first upload has its inputs.pb in the store. *)
InputsBeforeLookup ==
    \A c \in Calls :
        pc[c] \in {"lookup", "getOutputs", "body", "putOutputs", "submit"}
            => Name(c) \in inputs

(* A call that submits a record has uploaded what the record points to. *)
OutputsBeforeSubmit ==
    \A c \in Calls :
        pc[c] = "submit" /\ HasOutputs(c) => Name(c) \in DOMAIN outputs

ArtifactsInv == InputsBeforeLookup /\ OutputsBeforeSubmit /\ RecordedArtifactsExist

LEMMA ArtifactsInit == Init => ArtifactsInv
BY ConstantsAssumption
   DEF Init, ArtifactsInv, InputsBeforeLookup, OutputsBeforeSubmit,
       RecordedArtifactsExist

(* The stores only grow. *)
LEMMA StoresGrow ==
    ASSUME [Next]_vars
    PROVE  inputs \subseteq inputs' /\ DOMAIN outputs \subseteq DOMAIN outputs'
BY DEF Next, CallStep, vars, callVars, durable, history, Begin, Exit, Retry,
       Terminated, Draw, PutInputs, LookupHit, LookupAgain, LookupMiss,
       LookupError, GetOutputs, BodyOk, BodyErr, PutOutputs, Overwrite, Submit,
       Echo, Drop, Deliver, Sync

LEMMA ArtifactsStep == TypeInv /\ ArtifactsInv /\ [Next]_vars => ArtifactsInv'
<1> SUFFICES ASSUME TypeInv, ArtifactsInv, [Next]_vars PROVE ArtifactsInv'
    OBVIOUS
<1> USE DEF ArtifactsInv, InputsBeforeLookup, OutputsBeforeSubmit,
            RecordedArtifactsExist, Name, SubActionName, HasOutputs,
            vars, callVars, durable, history
<1>0. /\ inputs \subseteq inputs' /\ DOMAIN outputs \subseteq DOMAIN outputs'
      /\ pc \in [Calls -> {"idle"} \cup InFlight \cup Settled]
      /\ seq \in [Calls -> Nat]
      BY StoresGrow DEF TypeInv, TypeOK
<1>1. CASE Begin \/ Exit \/ Terminated \/ UNCHANGED vars
      BY <1>1 DEF Begin, Exit, Terminated
<1>2. CASE Retry
      BY <1>2 DEF Retry
<1>3. ASSUME NEW c \in Calls, Draw(c) PROVE ArtifactsInv'
      BY <1>0, <1>3 DEF Draw
<1>4. ASSUME NEW c \in Calls, PutInputs(c) PROVE ArtifactsInv'
      BY <1>0, <1>4 DEF PutInputs
<1>5. ASSUME NEW c \in Calls,
             LookupHit(c) \/ LookupAgain(c) \/ LookupMiss(c) \/ LookupError(c)
      PROVE  ArtifactsInv'
      BY <1>0, <1>5 DEF LookupHit, LookupAgain, LookupMiss, LookupError
<1>6. ASSUME NEW c \in Calls, GetOutputs(c) PROVE ArtifactsInv'
      BY <1>0, <1>6 DEF GetOutputs
<1>7. ASSUME NEW c \in Calls, BodyOk(c) PROVE ArtifactsInv'
      BY <1>0, <1>7 DEF BodyOk
<1>8. ASSUME NEW c \in Calls, BodyErr(c) \/ Echo(c) \/ Drop(c) PROVE ArtifactsInv'
      BY <1>0, <1>8 DEF BodyErr, Echo, Drop
<1>9. ASSUME NEW c \in Calls, PutOutputs(c) PROVE ArtifactsInv'
  <2>1. pc'[c] = "submit" => Name(c) \in DOMAIN outputs'
        BY <1>0, <1>9 DEF PutOutputs, Overwrite
  <2> QED BY <1>0, <1>9, <2>1 DEF PutOutputs
<1>10. ASSUME NEW c \in Calls, Submit(c) PROVE ArtifactsInv'
  <2>1. /\ Name(c) \in inputs
        /\ Name(c)[1] \notin UnitSteps => Name(c) \in DOMAIN outputs
        BY <1>10 DEF Submit
  <2>2. queue' \subseteq queue \cup {Name(c)} /\ UNCHANGED <<records, inputs, outputs>>
        BY <1>10 DEF Submit
  <2>3. RecordedArtifactsExist'
        BY <2>1, <2>2
  <2> QED BY <1>0, <1>10, <2>3 DEF Submit
<1>11. ASSUME NEW n \in queue, Deliver(n) PROVE ArtifactsInv'
       BY <1>11 DEF Deliver
<1>12. ASSUME NEW n \in records, Sync(n) PROVE ArtifactsInv'
       BY <1>12 DEF Sync
<1> QED BY <1>1, <1>2, <1>3, <1>4, <1>5, <1>6, <1>7, <1>8, <1>9, <1>10, <1>11,
           <1>12
        DEF Next, CallStep

(* Whatever the backend holds, or is about to, has its inputs and outputs   *)
(* in the store, across crashes and restarts.  (prepare_trace, record.)     *)
THEOREM RecordsNeverDangle == Spec => []RecordedArtifactsExist
<1>1. ArtifactsInv => RecordedArtifactsExist
      BY DEF ArtifactsInv
<1> QED BY <1>1, TypeInit, TypeStep, ArtifactsInit, ArtifactsStep, PTL DEF Spec

-----------------------------------------------------------------------------
(* Runs *)

(* The value a call holds: none before its body has ended or once it has    *)
(* been abandoned, its own run's after that, or what its recording holds.   *)
ValueOfCall ==
    \A c \in Calls :
        /\ pc[c] \in {"idle", "putInputs", "lookup", "getOutputs", "body",
                     "abandoned"} => value[c] = NoValue
        /\ pc[c] \in {"putOutputs", "submit", "echo", "returned"}
               => value[c] = <<c, attempt>>
        /\ pc[c] = "replayed" => /\ Name(c) \in DOMAIN outputs
                                /\ value[c] = outputs[Name(c)]
                                /\ value[c][2] < attempt

(* A stored run is a run of the step and group its name says. *)
OutputsOfTheirStep ==
    \A n \in DOMAIN outputs :
        StepOf[outputs[n][1]] = n[1] /\ GroupOf[outputs[n][1]] = n[2]

(* A stored run is an earlier attempt's, or is stored under the name of a   *)
(* call of this attempt that has uploaded it.                               *)
OutputsOfTheirAttempt ==
    \A n \in DOMAIN outputs :
        \/ outputs[n][2] < attempt
        \/ /\ outputs[n][2] = attempt
           /\ n = Name(outputs[n][1])
           /\ pc[outputs[n][1]] \in {"submit", "echo", "returned", "abandoned"}

(* No run is stored under two names. *)
OutputsAreDistinct ==
    \A m, n \in DOMAIN outputs : outputs[m] = outputs[n] => m = n

RunsInv ==
    ValueOfCall /\ OutputsOfTheirStep /\ OutputsOfTheirAttempt /\ OutputsAreDistinct

LEMMA RunsInit == Init => RunsInv
BY DEF Init, RunsInv, ValueOfCall, OutputsOfTheirStep, OutputsOfTheirAttempt,
       OutputsAreDistinct

(* A call that is to upload its outputs is the only one of its name, and    *)
(* nothing of this attempt is stored under that name.                       *)
LEMMA UploadFacts ==
    ASSUME TypeInv, NamesInv, RunsInv, NEW c \in Calls, pc[c] = "putOutputs"
    PROVE  /\ value[c] = <<c, attempt>>
           /\ \A n \in DOMAIN outputs : outputs[n] # value[c]
           /\ \A d \in Calls : d # c /\ pc[d] # "idle" => Name(d) # Name(c)
<1>1. value[c] = <<c, attempt>>
      BY DEF RunsInv, ValueOfCall
<1>2. ASSUME NEW n \in DOMAIN outputs, outputs[n] = value[c] PROVE FALSE
  <2>1. outputs[n][1] = c /\ outputs[n][2] = attempt
        BY <1>1, <1>2
  <2>2. attempt \in Nat
        BY ConstantsAssumption DEF TypeInv, TypeOK
  <2> QED BY <2>1, <2>2 DEF RunsInv, OutputsOfTheirAttempt
<1>3. ASSUME NEW d \in Calls, d # c, pc[d] # "idle" PROVE Name(d) # Name(c)
      BY <1>3 DEF NamesInv, UniqueNames, Drawn, TypeInv, DrawnOnceStarted
<1> QED BY <1>1, <1>2, <1>3

(* What a call that is to replay reads was stored by an earlier attempt. *)
LEMMA ReplayFacts ==
    ASSUME TypeInv, NamesInv, RunsInv, NEW c \in Calls, pc[c] = "getOutputs",
           Name(c) \in DOMAIN outputs
    PROVE  /\ outputs[Name(c)] \in Values
           /\ outputs[Name(c)][2] < attempt
<1> DEFINE v == outputs[Name(c)]
<1>1. v \in Values /\ v[1] \in Calls
      BY DEF TypeInv, TypeOK, Values
<1>2. SUFFICES ASSUME v[2] = attempt, Name(c) = Name(v[1]),
                      pc[v[1]] \in {"submit", "echo", "returned", "abandoned"}
               PROVE  FALSE
      BY <1>1 DEF RunsInv, OutputsOfTheirAttempt
<1>3. c \in Drawn /\ v[1] \in Drawn
      BY <1>1, <1>2 DEF Drawn, TypeInv, DrawnOnceStarted
<1> QED BY <1>2, <1>3 DEF NamesInv, UniqueNames

LEMMA RunsStep == TypeInv /\ NamesInv /\ RunsInv /\ [Next]_vars => RunsInv'
<1> SUFFICES ASSUME TypeInv, NamesInv, RunsInv, [Next]_vars PROVE RunsInv'
    OBVIOUS
<1> USE DEF vars, callVars, durable, history
<1>0. /\ pc \in [Calls -> {"idle"} \cup InFlight \cup Settled]
      /\ seq \in [Calls -> Nat]
      /\ value \in [Calls -> Values \cup {NoValue}]
      /\ attempt \in Nat \ {0}
      /\ \A n \in DOMAIN outputs : outputs[n] \in Values
      BY ConstantsAssumption DEF TypeInv, TypeOK
<1>1. ASSUME UNCHANGED <<attempt, pc, seq, value, outputs>> PROVE RunsInv'
      BY <1>1 DEF RunsInv, ValueOfCall, OutputsOfTheirStep,
              OutputsOfTheirAttempt, OutputsAreDistinct, Name, SubActionName
<1>2. CASE Retry
  <2>1. /\ attempt' = attempt + 1
        /\ outputs' = outputs
        /\ \A c \in Calls : pc'[c] = "idle" /\ value'[c] = NoValue
        BY <1>2 DEF Retry
  <2>2. \A n \in DOMAIN outputs : outputs[n][2] < attempt + 1
        BY <1>0 DEF RunsInv, OutputsOfTheirAttempt, Values
  <2> QED BY <2>1, <2>2
          DEF RunsInv, ValueOfCall, OutputsOfTheirStep, OutputsOfTheirAttempt,
              OutputsAreDistinct
(* Steps of one call that leave the stored runs and the sequencer alone and *)
(* hold no new value.                                                       *)
<1>3. ASSUME NEW c \in Calls, NEW p \in InFlight \cup Settled,
             pc' = [pc EXCEPT ![c] = p],
             UNCHANGED <<attempt, seq, value, outputs>>,
             \/ p \in {"lookup", "getOutputs", "body", "abandoned"}
                  /\ pc[c] \in {"putInputs", "lookup", "getOutputs", "body"}
             \/ p \in {"submit", "echo", "returned"}
                  /\ pc[c] \in {"putOutputs", "submit", "echo"}
      PROVE  RunsInv'
  <2>1. \A d \in Calls : Name(d)' = Name(d)
        BY <1>3 DEF Name, SubActionName
  <2>2. ValueOfCall'
        BY <1>0, <1>3, <2>1 DEF RunsInv, ValueOfCall, InFlight, Settled
  <2>3. OutputsOfTheirStep' /\ OutputsAreDistinct'
        BY <1>3 DEF RunsInv, OutputsOfTheirStep, OutputsAreDistinct
  <2>4. OutputsOfTheirAttempt'
    <3> SUFFICES ASSUME NEW n \in DOMAIN outputs, ~(outputs[n][2] < attempt)
                 PROVE  /\ outputs[n][2] = attempt
                        /\ n = Name(outputs[n][1])
                        /\ pc'[outputs[n][1]]
                              \in {"submit", "echo", "returned", "abandoned"}
        BY <1>3, <1>0, <2>1 DEF OutputsOfTheirAttempt, Values
    <3>1. /\ outputs[n][2] = attempt
          /\ n = Name(outputs[n][1])
          /\ pc[outputs[n][1]] \in {"submit", "echo", "returned", "abandoned"}
          BY DEF RunsInv, OutputsOfTheirAttempt
    <3> QED BY <1>0, <1>3, <3>1
  <2> QED BY <2>2, <2>3, <2>4 DEF RunsInv
<1>4. ASSUME NEW c \in Calls, Draw(c) PROVE RunsInv'
  <2>1. /\ pc[c] = "idle" /\ pc' = [pc EXCEPT ![c] = "putInputs"]
        /\ UNCHANGED <<attempt, value, outputs>>
        /\ \A d \in Calls : d # c => Name(d)' = Name(d)
        BY <1>0, <1>4 DEF Draw, Name, SubActionName
  <2>2. \A n \in DOMAIN outputs : outputs[n][2] = attempt /\ n = Name(outputs[n][1])
             /\ pc[outputs[n][1]] \in {"submit", "echo", "returned", "abandoned"}
             => outputs[n][1] # c
        BY <2>1
  <2> QED BY <1>0, <2>1, <2>2
          DEF RunsInv, ValueOfCall, OutputsOfTheirStep, OutputsOfTheirAttempt,
              OutputsAreDistinct, Values
<1>5. ASSUME NEW c \in Calls, PutInputs(c) PROVE RunsInv'
      BY <1>5, <1>3 DEF PutInputs, InFlight, Settled
<1>6. ASSUME NEW c \in Calls,
             LookupHit(c) \/ LookupAgain(c) \/ LookupMiss(c) \/ LookupError(c)
      PROVE  RunsInv'
      BY <1>6, <1>1, <1>3
      DEF LookupHit, LookupAgain, LookupMiss, LookupError, InFlight, Settled
<1>7. ASSUME NEW c \in Calls, GetOutputs(c) PROVE RunsInv'
  <2>1. CASE pc' = [pc EXCEPT ![c] = "abandoned"] /\ UNCHANGED value
        BY <1>7, <2>1, <1>3 DEF GetOutputs, InFlight, Settled
  <2>2. CASE /\ Name(c) \in DOMAIN outputs
             /\ value' = [value EXCEPT ![c] = outputs[Name(c)]]
             /\ pc' = [pc EXCEPT ![c] = "replayed"]
    <3>1. /\ UNCHANGED <<attempt, outputs, seq>>
          /\ pc[c] = "getOutputs"
          /\ \A d \in Calls : Name(d)' = Name(d)
          BY <1>7 DEF GetOutputs, Name, SubActionName
    <3>2. outputs[Name(c)][2] < attempt
          BY <3>1, <2>2, ReplayFacts
    <3>3. ValueOfCall'
          BY <1>0, <2>2, <3>1, <3>2 DEF RunsInv, ValueOfCall
    <3>4. OutputsOfTheirAttempt'
          BY <1>0, <2>2, <3>1 DEF RunsInv, OutputsOfTheirAttempt, Values
    <3> QED BY <3>1, <3>3, <3>4
            DEF RunsInv, OutputsOfTheirStep, OutputsAreDistinct
  <2> QED BY <1>7, <2>1, <2>2 DEF GetOutputs
<1>8. ASSUME NEW c \in Calls, BodyOk(c) PROVE RunsInv'
  <2>1. /\ UNCHANGED <<attempt, outputs, seq>>
        /\ pc[c] = "body"
        /\ \/ pc' = [pc EXCEPT ![c] = "putOutputs"]
           \/ pc' = [pc EXCEPT ![c] = "submit"]
        /\ value' = [value EXCEPT ![c] = <<c, attempt>>]
        /\ \A d \in Calls : Name(d)' = Name(d)
        BY <1>8 DEF BodyOk, Name, SubActionName
  <2>2. ValueOfCall'
        BY <1>0, <2>1 DEF RunsInv, ValueOfCall
  <2>3. OutputsOfTheirAttempt'
        BY <1>0, <2>1 DEF RunsInv, OutputsOfTheirAttempt, Values
  <2> QED BY <2>1, <2>2, <2>3 DEF RunsInv, OutputsOfTheirStep, OutputsAreDistinct
<1>9. ASSUME NEW c \in Calls, BodyErr(c) PROVE RunsInv'
      BY <1>9, <1>3 DEF BodyErr, InFlight, Settled
<1>10. ASSUME NEW c \in Calls, PutOutputs(c) PROVE RunsInv'
  <2>1. CASE outputs' = outputs
        BY <1>10, <2>1, <1>3 DEF PutOutputs, InFlight, Settled
  <2>2. CASE /\ outputs' = Overwrite(outputs, Name(c), value[c])
             /\ pc' = [pc EXCEPT ![c] = "submit"]
    <3>1. /\ UNCHANGED <<attempt, value, seq>>
          /\ pc[c] = "putOutputs"
          /\ \A d \in Calls : Name(d)' = Name(d)
          BY <1>10 DEF PutOutputs, Name, SubActionName
    <3>2. /\ value[c] = <<c, attempt>>
          /\ \A n \in DOMAIN outputs : outputs[n] # value[c]
          /\ \A d \in Calls : d # c /\ pc[d] # "idle" => Name(d) # Name(c)
          BY <3>1, UploadFacts
    <3>3. /\ DOMAIN outputs' = DOMAIN outputs \cup {Name(c)}
          /\ outputs'[Name(c)] = <<c, attempt>>
          /\ \A n \in DOMAIN outputs : n # Name(c) => outputs'[n] = outputs[n]
          BY <2>2, <3>2 DEF Overwrite
    <3>4. ValueOfCall'
      <4> SUFFICES ASSUME NEW d \in Calls
                   PROVE  /\ pc'[d] \in {"idle", "putInputs", "lookup",
                                "getOutputs", "body", "abandoned"}
                                => value[d] = NoValue
                          /\ pc'[d] \in {"putOutputs", "submit", "echo",
                                "returned"} => value[d] = <<d, attempt>>
                          /\ pc'[d] = "replayed" =>
                                /\ Name(d) \in DOMAIN outputs'
                                /\ value[d] = outputs'[Name(d)]
                                /\ value[d][2] < attempt
          BY <3>1 DEF ValueOfCall
      <4>1. CASE d = c
            BY <1>0, <2>2, <3>2, <4>1
      <4>2. CASE d # c
            BY <1>0, <2>2, <3>2, <3>3, <4>2 DEF RunsInv, ValueOfCall
      <4> QED BY <4>1, <4>2
    <3>5. OutputsOfTheirStep'
          BY <3>3 DEF RunsInv, OutputsOfTheirStep, Name, SubActionName
    <3>6. OutputsOfTheirAttempt'
          BY <1>0, <2>2, <3>1, <3>3
          DEF RunsInv, OutputsOfTheirAttempt, Values
    <3>7. OutputsAreDistinct'
          BY <3>2, <3>3 DEF RunsInv, OutputsAreDistinct
    <3> QED BY <3>4, <3>5, <3>6, <3>7 DEF RunsInv
  <2> QED BY <1>10, <2>1, <2>2 DEF PutOutputs
<1>11. ASSUME NEW c \in Calls, Submit(c) \/ Echo(c) PROVE RunsInv'
      BY <1>11, <1>3 DEF Submit, Echo, InFlight, Settled
<1>12. ASSUME NEW c \in Calls, Drop(c) PROVE RunsInv'
  <2>1. /\ UNCHANGED <<attempt, outputs, seq>>
        /\ pc[c] \in InFlight
        /\ pc' = [pc EXCEPT ![c] = "abandoned"]
        /\ value' = [value EXCEPT ![c] = NoValue]
        /\ \A d \in Calls : Name(d)' = Name(d)
        BY <1>12 DEF Drop, Name, SubActionName
  <2>2. ValueOfCall'
        BY <1>0, <2>1 DEF RunsInv, ValueOfCall
  <2>3. OutputsOfTheirAttempt'
        BY <1>0, <2>1 DEF RunsInv, OutputsOfTheirAttempt, Values
  <2> QED BY <2>1, <2>2, <2>3 DEF RunsInv, OutputsOfTheirStep, OutputsAreDistinct
<1> QED BY <1>1, <1>2, <1>4, <1>5, <1>6, <1>7, <1>8, <1>9, <1>10, <1>11, <1>12
        DEF Next, CallStep, Begin, Exit, Terminated, Deliver, Sync

Inv == TypeInv /\ NamesInv /\ RunsInv

LEMMA Invariance == Spec => []Inv
<1>1. Init => Inv
      BY TypeInit, NamesInit, RunsInit DEF Inv
<1>2. Inv /\ [Next]_vars => Inv'
      BY TypeStep, NamesStep, RunsStep DEF Inv
<1> QED BY <1>1, <1>2, PTL DEF Spec

(* What a call replays was computed by a call of the same step in the same  *)
(* group.  (sub_action_name, prepare_trace.)                                *)
THEOREM ReplaysAreOfTheSameStep == Spec => []ReplayIsSameStep
<1>1. Inv => ReplayIsSameStep
      BY DEF Inv, RunsInv, ValueOfCall, OutputsOfTheirStep, ReplayIsSameStep,
             Name, SubActionName
<1> QED BY <1>1, Invariance, PTL

(* No two calls of an attempt are given the same run's value.  (Sequencer.) *)
THEOREM CallsHaveTheirOwnRuns == Spec => []EveryCallHasItsOwnRun
<1>1. ASSUME Inv, NEW c \in Calls, NEW d \in Calls,
             value[c] # NoValue, value[c] = value[d]
      PROVE  c = d
  <2>0. /\ pc \in [Calls -> {"idle"} \cup InFlight \cup Settled]
        /\ attempt \in Nat
        /\ c # d /\ pc[c] = "replayed" /\ pc[d] = "replayed" => Name(c) # Name(d)
        BY <1>1, ConstantsAssumption
        DEF Inv, TypeInv, TypeOK, NamesInv, UniqueNames, Drawn, DrawnOnceStarted
  <2>1. CASE pc[c] = "replayed" /\ pc[d] = "replayed"
        BY <1>1, <2>0, <2>1 DEF Inv, RunsInv, ValueOfCall, OutputsAreDistinct
  <2>2. CASE pc[c] = "replayed" /\ pc[d] # "replayed"
        BY <1>1, <2>0, <2>2 DEF Inv, RunsInv, ValueOfCall, InFlight, Settled
  <2>3. CASE pc[c] # "replayed" /\ pc[d] = "replayed"
        BY <1>1, <2>0, <2>3 DEF Inv, RunsInv, ValueOfCall, InFlight, Settled
  <2>4. CASE pc[c] # "replayed" /\ pc[d] # "replayed"
        BY <1>1, <2>0, <2>4 DEF Inv, RunsInv, ValueOfCall, InFlight, Settled
  <2> QED BY <2>1, <2>2, <2>3, <2>4
<1>2. Inv => EveryCallHasItsOwnRun
      BY <1>1 DEF EveryCallHasItsOwnRun
<1> QED BY <1>2, Invariance, PTL

(* Only an upload changes a stored run. *)
LEMMA OutputsSteps ==
    ASSUME [Next]_vars
    PROVE  outputs' = outputs \/ \E c \in Calls : PutOutputs(c)
BY DEF Next, CallStep, vars, callVars, durable, history, Begin, Exit, Retry,
       Terminated, Draw, PutInputs, LookupHit, LookupAgain, LookupMiss,
       LookupError, GetOutputs, BodyOk, BodyErr, Submit, Echo, Drop, Deliver, Sync

(* A call that is to replay reads a recording that exists. *)
RecordingExists ==
    \A c \in Calls : pc[c] = "getOutputs" => Name(c) \in DOMAIN outputs

LEMMA RecordingExistsStep ==
    TypeInv /\ ArtifactsInv /\ RecordingExists /\ [Next]_vars => RecordingExists'
<1> SUFFICES ASSUME TypeInv, ArtifactsInv, RecordingExists, [Next]_vars,
                    NEW c \in Calls, pc'[c] = "getOutputs"
             PROVE  Name(c)' \in DOMAIN outputs'
    BY DEF RecordingExists
<1>0. pc \in [Calls -> {"idle"} \cup InFlight \cup Settled]
      BY DEF TypeInv, TypeOK
<1>1. \/ LookupHit(c)
      \/ pc[c] = "getOutputs" /\ seq'[c] = seq[c]
      BY <1>0
      DEF Next, CallStep, vars, callVars, durable, history, Begin, Exit, Retry,
          Terminated, Draw, PutInputs, LookupHit, LookupAgain, LookupMiss,
          LookupError, GetOutputs, BodyOk, BodyErr, PutOutputs, Submit, Echo,
          Drop, Deliver, Sync, TypeInv, TypeOK, DrawnOnceStarted
<1>2. DOMAIN outputs \subseteq DOMAIN outputs'
      BY StoresGrow
<1>3. CASE LookupHit(c)
  <2>1. Name(c) \in records /\ HasOutputs(c) /\ Name(c)' = Name(c)
        BY <1>3 DEF LookupHit, Replayable, TypeInv, TypeOK, Name, SubActionName,
                    callVars
  <2>2. Name(c) \in DOMAIN outputs
        BY <2>1 DEF ArtifactsInv, RecordedArtifactsExist, HasOutputs, Name,
                    SubActionName
  <2> QED BY <1>2, <2>1, <2>2
<1>4. CASE pc[c] = "getOutputs" /\ seq'[c] = seq[c]
      BY <1>2, <1>4 DEF RecordingExists, Name, SubActionName
<1> QED BY <1>1, <1>3, <1>4

(* While a call replays a recording, and for the rest of its attempt, no    *)
(* other call replaces the outputs.pb it read.  (prepare_trace, record.)    *)
THEOREM ReplayedOutputsAreStable == Spec => ReplaysAreStable
<1> DEFINE Safe == Inv /\ ArtifactsInv /\ RecordingExists
           Stable == \A c \in Calls :
               pc[c] \in {"getOutputs", "replayed"} /\ attempt' = attempt =>
                   /\ Name(c) \in DOMAIN outputs'
                   /\ outputs'[Name(c)] = outputs[Name(c)]
<1>1. Init => Safe
      BY TypeInit, NamesInit, RunsInit, ArtifactsInit
      DEF Init, Inv, RecordingExists
<1>2. Safe /\ [Next]_vars => Safe'
      BY TypeStep, NamesStep, RunsStep, ArtifactsStep, RecordingExistsStep DEF Inv
<1>3. Safe /\ [Next]_vars => [Stable]_vars
  <2> SUFFICES ASSUME Safe, [Next]_vars, NEW c \in Calls,
                      pc[c] \in {"getOutputs", "replayed"}
               PROVE  /\ Name(c) \in DOMAIN outputs'
                      /\ outputs'[Name(c)] = outputs[Name(c)]
      OBVIOUS
  <2>1. Name(c) \in DOMAIN outputs
        BY DEF RecordingExists, Inv, RunsInv, ValueOfCall
  <2>2. CASE outputs' = outputs
        BY <2>1, <2>2
  <2>3. ASSUME NEW d \in Calls, PutOutputs(d), outputs' # outputs
        PROVE  /\ Name(c) \in DOMAIN outputs'
               /\ outputs'[Name(c)] = outputs[Name(c)]
    <3>1. c # d /\ pc[d] = "putOutputs" /\ outputs' = Overwrite(outputs, Name(d), value[d])
          BY <2>3 DEF PutOutputs
    <3>2. Name(c) # Name(d)
          BY <3>1, UploadFacts DEF Inv
    <3> QED BY <2>1, <3>1, <3>2 DEF Overwrite
  <2> QED BY <2>2, <2>3, OutputsSteps
<1> QED BY <1>1, <1>2, <1>3, PTL DEF Spec, ReplaysAreStable

-----------------------------------------------------------------------------
(* Trace implements StepMemo *)

(* A run that an earlier attempt stored under the name of a call that is    *)
(* about to read or to replace it is given to no call of this attempt.      *)
LEMMA EarlierRunIsFree ==
    ASSUME Inv, NEW c \in Calls, pc[c] \in {"getOutputs", "putOutputs"},
           Name(c) \in DOMAIN outputs
    PROVE  /\ outputs[Name(c)][2] < attempt
           /\ Memo!SameStep(outputs[Name(c)], c)
           /\ \A d \in Calls : value[d] # outputs[Name(c)]
<1> DEFINE v == outputs[Name(c)]
<1>0. /\ pc \in [Calls -> {"idle"} \cup InFlight \cup Settled]
      /\ v \in Values /\ v[1] \in Calls
      /\ \A d \in Calls : pc[d] # "idle" /\ Name(d) = Name(c) => d = c
      BY DEF Inv, TypeInv, TypeOK, Values, NamesInv, UniqueNames, Drawn,
             DrawnOnceStarted
<1>1. v[2] < attempt
  <2> SUFFICES ASSUME Name(c) = Name(v[1]),
                      pc[v[1]] \in {"submit", "echo", "returned", "abandoned"}
               PROVE  FALSE
      BY DEF Inv, RunsInv, OutputsOfTheirAttempt
  <2> QED BY <1>0
<1>2. Memo!SameStep(v, c)
      BY DEF Inv, RunsInv, OutputsOfTheirStep, Memo!SameStep, Name, SubActionName
<1>3. ASSUME NEW d \in Calls, value[d] = v PROVE FALSE
  <2>1. CASE pc[d] = "replayed"
    <3>1. Name(d) \in DOMAIN outputs /\ outputs[Name(d)] = outputs[Name(c)]
          BY <1>3, <2>1 DEF Inv, RunsInv, ValueOfCall
    <3>2. Name(d) = Name(c)
          BY <3>1 DEF Inv, RunsInv, OutputsAreDistinct
    <3> QED BY <1>0, <2>1, <3>2
  <2>2. CASE pc[d] # "replayed"
    <3>1. value[d] = NoValue \/ value[d] = <<d, attempt>>
          BY <1>0, <2>2 DEF Inv, RunsInv, ValueOfCall, InFlight, Settled
    <3>2. value[d] # NoValue
          BY <1>0, <1>3, NoValueIsNoRun
    <3>3. attempt \in Nat /\ v[2] = attempt
          BY <1>3, <3>1, <3>2, ConstantsAssumption DEF Inv, TypeInv, TypeOK
    <3> QED BY <1>1, <3>3
  <2> QED BY <2>1, <2>2
<1> QED BY <1>1, <1>2, <1>3

LEMMA MemoInitRefined == Init => Memo!MemoInit
BY DEF Init, Memo!MemoInit, KeptRuns, NoValue, Memo!NoRun

LEMMA MemoStepRefined == Inv /\ [Next]_vars => [Memo!MemoNext]_(Memo!memoVars)
<1> SUFFICES ASSUME Inv, [Next]_vars
             PROVE  Memo!MemoNext \/ UNCHANGED Memo!memoVars
    OBVIOUS
<1>0. /\ pc \in [Calls -> {"idle"} \cup InFlight \cup Settled]
      /\ value \in [Calls -> Values \cup {NoValue}]
      BY DEF Inv, TypeInv, TypeOK
<1>1. ASSUME UNCHANGED <<attempt, value, outputs>> PROVE UNCHANGED Memo!memoVars
      BY <1>1 DEF Memo!memoVars, KeptRuns
<1>2. CASE Retry
      BY <1>2 DEF Retry, durable, Memo!MemoNext, Memo!NextAttempt, KeptRuns,
                  NoValue, Memo!NoRun
<1>3. ASSUME NEW c \in Calls, BodyOk(c) PROVE Memo!Run(c)
  <2>1. value[c] = NoValue
        BY <1>3 DEF BodyOk, Inv, RunsInv, ValueOfCall
  <2> QED BY <1>3, <2>1 DEF BodyOk, durable, Memo!Run, KeptRuns, NoValue, Memo!NoRun
<1>4. ASSUME NEW c \in Calls, GetOutputs(c)
      PROVE  Memo!Replay(c) \/ UNCHANGED Memo!memoVars
  <2>1. CASE UNCHANGED value
        BY <1>1, <1>4, <2>1 DEF GetOutputs, durable
  <2>2. CASE /\ Name(c) \in DOMAIN outputs
             /\ value' = [value EXCEPT ![c] = outputs[Name(c)]]
    <3>1. /\ pc[c] = "getOutputs" /\ UNCHANGED <<attempt, outputs>>
          BY <1>4 DEF GetOutputs, durable
    <3>2. value[c] = NoValue
          BY <3>1 DEF Inv, RunsInv, ValueOfCall
    <3>3. outputs[Name(c)] \in KeptRuns
          BY <2>2 DEF KeptRuns
    <3> QED BY <2>2, <3>1, <3>2, <3>3, EarlierRunIsFree
            DEF Memo!Replay, KeptRuns, NoValue, Memo!NoRun
  <2> QED BY <1>4, <2>1, <2>2 DEF GetOutputs
<1>5. ASSUME NEW c \in Calls, PutOutputs(c)
      PROVE  Memo!Keep(c) \/ UNCHANGED Memo!memoVars
  <2>1. CASE outputs' = outputs
        BY <1>1, <1>5, <2>1 DEF PutOutputs
  <2>2. CASE outputs' = Overwrite(outputs, Name(c), value[c])
    <3>1. pc[c] = "putOutputs" /\ UNCHANGED <<attempt, value>>
          BY <1>5 DEF PutOutputs
    <3>2. value[c] = <<c, attempt>>
          BY <3>1 DEF Inv, RunsInv, ValueOfCall
    <3>3. /\ DOMAIN outputs' = DOMAIN outputs \cup {Name(c)}
          /\ outputs'[Name(c)] = value[c]
          /\ \A n \in DOMAIN outputs : n # Name(c) => outputs'[n] = outputs[n]
          BY <2>2 DEF Overwrite
    <3>4. CASE Name(c) \notin DOMAIN outputs
      <4>1. KeptRuns' = KeptRuns \cup {value[c]}
            BY <3>3, <3>4 DEF KeptRuns
      <4> QED BY <3>1, <3>2, <4>1 DEF Memo!Keep
    <3>5. CASE Name(c) \in DOMAIN outputs
      <4> DEFINE v == outputs[Name(c)]
      <4>1. v \in KeptRuns
            BY <3>5 DEF KeptRuns
      <4>2. \A n \in DOMAIN outputs : outputs[n] = v => n = Name(c)
            BY <3>5 DEF Inv, RunsInv, OutputsAreDistinct
      <4>3. KeptRuns' = (KeptRuns \ {v}) \cup {value[c]}
            BY <3>3, <3>5, <4>2 DEF KeptRuns
      <4> QED BY <3>1, <3>2, <3>5, <4>1, <4>3, EarlierRunIsFree DEF Memo!Keep
    <3> QED BY <3>4, <3>5
  <2> QED BY <1>5, <2>1, <2>2 DEF PutOutputs
<1>6. ASSUME NEW c \in Calls, Drop(c)
      PROVE  Memo!Forget(c) \/ UNCHANGED Memo!memoVars
  <2>1. /\ pc[c] \in InFlight
        /\ value' = [value EXCEPT ![c] = NoValue]
        /\ UNCHANGED <<attempt, outputs>>
        BY <1>6 DEF Drop, durable
  <2>2. CASE value[c] = NoValue
        BY <1>0, <1>1, <2>1, <2>2
  <2>3. CASE value[c] = <<c, attempt>>
        BY <2>1, <2>3 DEF Memo!Forget, KeptRuns, NoValue, Memo!NoRun
  <2> QED BY <2>1, <2>2, <2>3 DEF InFlight, Inv, RunsInv, ValueOfCall
<1>7. \/ Retry
      \/ \E c \in Calls : BodyOk(c) \/ GetOutputs(c) \/ PutOutputs(c) \/ Drop(c)
      \/ UNCHANGED <<attempt, value, outputs>>
      BY DEF Next, CallStep, vars, callVars, durable, history, Begin, Exit,
             Terminated, Draw, PutInputs, LookupHit, LookupAgain, LookupMiss,
             LookupError, BodyErr, Submit, Echo, Deliver, Sync
<1> QED BY <1>1, <1>2, <1>3, <1>4, <1>5, <1>6, <1>7 DEF Memo!MemoNext

(* The trace protocol implements the memo of runs. *)
THEOREM TraceImplementsMemo == Spec => ImplementsMemo
BY MemoInitRefined, MemoStepRefined, Invariance, PTL
   DEF Spec, ImplementsMemo, Memo!MemoSpec

-----------------------------------------------------------------------------
(* Bodies that run again *)

CallsOf(k) == {c \in Calls : <<StepOf[c], GroupOf[c]>> = k}

(* A name in use has a number no larger than its key has calls ... *)
NumbersAreCalls ==
    \A n \in ran \cup queue \cup records : n[3] <= Cardinality(CallsOf(<<n[1], n[2]>>))

(* ... and a body that runs was not among the recordings to replay. *)
RunsAreNew ==
    /\ synced \subseteq cache
    /\ phase = "prewarm" => ran = {} /\ \A c \in Calls : pc[c] = "idle"
    /\ \A n \in ran : n[1] \notin UnitSteps => n \notin synced \ failed

RerunInv == NumbersAreCalls /\ RunsAreNew

(* The numbers of a key are held by calls of the key, each by another. *)
LEMMA CounterWithinCalls ==
    ASSUME TypeInv, NamesInv, NEW k \in SequenceKeys
    PROVE  counter[k] <= Cardinality(CallsOf(k))
<1>1. IsFiniteSet(CallsOf(k))
      BY FS_Subset, ConstantsAssumption DEF CallsOf
<1>2. counter[k] \in Nat
      BY DEF TypeInv, TypeOK
<1> DEFINE holder == [i \in 1..counter[k] |->
                        CHOOSE c \in CallsOf(k) : seq[c] = i]
<1>3. \A i \in 1..counter[k] : holder[i] \in CallsOf(k) /\ seq[holder[i]] = i
  <2> SUFFICES ASSUME NEW i \in 1..counter[k]
               PROVE  \E c \in CallsOf(k) : seq[c] = i
      OBVIOUS
  <2> QED BY DEF NamesInv, NumbersAllTaken, Drawn, SequenceKey, CallsOf
<1>4. holder \in Injection(1..counter[k], CallsOf(k))
      BY <1>3 DEF Injection, IsInjective
<1>5. Cardinality(1..counter[k]) <= Cardinality(CallsOf(k))
      BY <1>1, <1>4, FS_Injection
<1>6. Cardinality(1..counter[k]) = counter[k]
      BY <1>2, FS_Interval
<1> QED BY <1>5, <1>6

LEMMA NameOfCallNumber ==
    ASSUME TypeInv, NamesInv, NEW c \in Calls, pc[c] # "idle"
    PROVE  Name(c)[3] <= Cardinality(CallsOf(<<Name(c)[1], Name(c)[2]>>))
<1>1. /\ SequenceKey(c) \in SequenceKeys
      /\ Name(c)[3] = seq[c]
      /\ <<Name(c)[1], Name(c)[2]>> = SequenceKey(c)
      BY KeyType DEF Name, SubActionName, SequenceKey
<1>2. seq[c] \in Nat /\ counter[SequenceKey(c)] \in Nat /\ seq[c] # 0
      BY <1>1 DEF TypeInv, TypeOK, DrawnOnceStarted
<1>3. seq[c] <= counter[SequenceKey(c)]
      BY <1>2 DEF NamesInv, NumbersWithinCounter, Drawn
<1>4. IsFiniteSet(CallsOf(SequenceKey(c)))
      BY FS_Subset, ConstantsAssumption DEF CallsOf
<1>5. Cardinality(CallsOf(SequenceKey(c))) \in Nat
      BY <1>4, FS_CardinalityType
<1> QED BY <1>1, <1>2, <1>3, <1>5, CounterWithinCalls

LEMMA RerunStep ==
    TypeInv /\ NamesInv /\ RerunInv /\ [Next]_vars => RerunInv'
<1> SUFFICES ASSUME TypeInv, NamesInv, RerunInv, [Next]_vars PROVE RerunInv'
    OBVIOUS
<1>1. NumbersAreCalls'
  <2>1. ASSUME NEW n \in ran' \cup queue' \cup records'
        PROVE  \/ n \in ran \cup queue \cup records
               \/ \E c \in Calls : pc[c] # "idle" /\ n = Name(c)
        BY DEF TypeInv, TypeOK, Next, CallStep, vars, callVars, durable, history, Begin,
             Exit, Retry, Terminated, Draw, PutInputs, LookupHit, LookupAgain,
             LookupMiss, LookupError, GetOutputs, BodyOk, BodyErr, PutOutputs,
             Submit, Echo, Drop, Deliver, Sync
  <2> QED BY <2>1, NameOfCallNumber DEF RerunInv, NumbersAreCalls, CallsOf
<1>2. RunsAreNew'
  <2> USE DEF RerunInv, RunsAreNew
  <2>1. CASE Begin
        BY <2>1 DEF Begin, callVars, durable
  <2>2. CASE Retry
        BY <2>2 DEF Retry
  <2>3. ASSUME NEW c \in Calls, LookupMiss(c) PROVE RunsAreNew'
        BY <2>3 DEF LookupMiss, Replayable, HasOutputs, Name, SubActionName, durable
  <2>4. ASSUME NEW c \in Calls, Draw(c) PROVE RunsAreNew'
        BY <2>4 DEF Draw, durable, history
  <2>5. ASSUME NEW n \in queue, Deliver(n) PROVE RunsAreNew'
        BY <2>5 DEF Deliver, callVars, history
  <2>6. ASSUME NEW n \in records, Sync(n) PROVE RunsAreNew'
        BY <2>6 DEF Sync, callVars, durable, history
  <2>7. ASSUME NEW c \in Calls,
               PutInputs(c) \/ LookupHit(c) \/ LookupAgain(c) \/ LookupError(c)
                 \/ GetOutputs(c) \/ BodyOk(c) \/ BodyErr(c) \/ PutOutputs(c)
                 \/ Submit(c) \/ Echo(c) \/ Drop(c)
        PROVE  RunsAreNew'
    <3>1. /\ UNCHANGED <<phase, cache, synced, ran, failed>>
          /\ pc[c] # "idle"
          BY <2>7 DEF PutInputs, LookupHit, LookupAgain, LookupError, GetOutputs,
               BodyOk, BodyErr, PutOutputs, Submit, Echo, Drop, InFlight, durable, history
    <3> QED BY <3>1
  <2>8. CASE Exit \/ Terminated \/ UNCHANGED vars
        BY <2>8 DEF Exit, Terminated, vars, callVars, durable, history
  <2> QED BY <2>1, <2>2, <2>3, <2>4, <2>5, <2>6, <2>7, <2>8 DEF Next, CallStep
<1> QED BY <1>1, <1>2 DEF RerunInv

(* A key's bodies that ran and its recordings to replay have names of their *)
(* own, with numbers up to its calls.                                       *)
LEMMA RerunsAreBounded ==
    ASSUME TypeInv, RerunInv, NEW k \in SequenceKeys, k[1] \notin UnitSteps
    PROVE  Cardinality(OfKey(ran, k)) + Cardinality(OfKey(synced \ failed, k))
             <= Cardinality(CallsOf(k))
<1> DEFINE R == OfKey(ran, k)
           S == OfKey(synced \ failed, k)
           N == Cardinality(CallsOf(k))
<1>1. IsFiniteSet(CallsOf(k))
      BY FS_Subset, ConstantsAssumption DEF CallsOf
<1>2. N \in Nat
      BY <1>1, FS_CardinalityType
<1>3. ASSUME NEW n \in R \cup S
      PROVE  n = <<k[1], k[2], n[3]>> /\ n[3] \in 1..N
  <2>1. n \in Names /\ n \in ran \cup records /\ <<n[1], n[2]>> = k
        BY <1>3 DEF OfKey, TypeInv, TypeOK
  <2>2. n[3] <= N
        BY <2>1 DEF RerunInv, NumbersAreCalls
  <2>3. n = <<n[1], n[2], n[3]>> /\ n[3] \in Nat \ {0}
        BY <2>1 DEF Names
  <2>4. k[1] = n[1] /\ k[2] = n[2]
        BY <2>1
  <2> QED BY <1>2, <2>2, <2>3, <2>4
<1>4. R \cap S = {}
      BY DEF OfKey, RerunInv, RunsAreNew
<1> DEFINE number == [n \in R \cup S |-> n[3]]
<1>5. number \in Injection(R \cup S, 1..N)
  <2>1. number \in [R \cup S -> 1..N]
        BY <1>3
  <2>2. ASSUME NEW m \in R \cup S, NEW n \in R \cup S, number[m] = number[n]
        PROVE  m = n
    <3>1. m[3] = n[3]
          BY <2>2
    <3> QED BY <1>3, <3>1
  <2> QED BY <2>1, <2>2 DEF Injection, IsInjective
<1>6. IsFiniteSet(1..N) /\ Cardinality(1..N) = N
      BY <1>2, FS_Interval
<1>7. IsFiniteSet(R \cup S) /\ Cardinality(R \cup S) <= N
      BY <1>5, <1>6, FS_Injection
<1>8. IsFiniteSet(R) /\ IsFiniteSet(S)
      BY <1>7, FS_Subset
<1>9. Cardinality(R \cup S) = Cardinality(R) + Cardinality(S) - Cardinality(R \cap S)
      BY <1>8, FS_Union
<1>10. Cardinality(R \cap S) = 0
      BY <1>4, FS_EmptySet
<1>11. Cardinality(R) \in Nat /\ Cardinality(S) \in Nat
      BY <1>8, FS_CardinalityType
<1> HIDE DEF R, S, N
<1>12. Cardinality(R) + Cardinality(S) <= N
      BY <1>2, <1>7, <1>9, <1>10, <1>11
<1> QED BY <1>12 DEF R, S, N

(* The bodies that run and the recordings at hand are together no more than *)
(* the calls: a recorded step is not run again.  (prepare_trace.)           *)
THEOREM NoRecordedStepIsRerun == Spec => []RecordedStepsAreNotRerun
<1>1. Init => RerunInv
      BY DEF Init, RerunInv, NumbersAreCalls, RunsAreNew
<1>2. TypeInv /\ RerunInv => RecordedStepsAreNotRerun
      BY RerunsAreBounded DEF RecordedStepsAreNotRerun, CallsOf
<1> QED BY <1>1, <1>2, TypeInit, TypeStep, NamesInit, NamesStep, RerunStep, PTL
        DEF Spec

(* A call that uploads has run its body in this attempt. *)
UploadersHaveRun ==
    \A c \in Calls :
        /\ pc[c] \in {"body", "putOutputs"} => Name(c) \in ran
        /\ pc[c] = "putOutputs" => HasOutputs(c)

LEMMA UploadersHaveRunStep ==
    TypeInv /\ UploadersHaveRun /\ [Next]_vars => UploadersHaveRun'
<1> SUFFICES ASSUME TypeInv, UploadersHaveRun, [Next]_vars, NEW c \in Calls,
                    pc'[c] \in {"body", "putOutputs"}
             PROVE  /\ Name(c)' \in ran'
                    /\ pc'[c] = "putOutputs" => HasOutputs(c)
    BY DEF UploadersHaveRun, HasOutputs
<1>0. /\ pc \in [Calls -> {"idle"} \cup InFlight \cup Settled]
      /\ seq \in [Calls -> Nat]
      BY DEF TypeInv, TypeOK
<1>1. CASE LookupMiss(c)
      BY <1>0, <1>1 DEF LookupMiss, Name, SubActionName
<1>2. CASE BodyOk(c)
      BY <1>0, <1>2 DEF BodyOk, UploadersHaveRun, Name, SubActionName, HasOutputs, history
<1>3. CASE pc'[c] = pc[c] /\ seq'[c] = seq[c] /\ ran \subseteq ran'
      BY <1>3 DEF UploadersHaveRun, Name, SubActionName, HasOutputs
<1>4. \/ LookupMiss(c)
      \/ BodyOk(c)
      \/ pc'[c] = pc[c] /\ seq'[c] = seq[c] /\ ran \subseteq ran'
      BY <1>0 DEF Next, CallStep, vars, callVars, durable, history, Begin, Exit,
             Retry, Terminated, Draw, PutInputs, LookupHit, LookupAgain, LookupMiss,
             LookupError, GetOutputs, BodyOk, BodyErr, PutOutputs, Submit, Echo,
             Drop, Deliver, Sync
<1> QED BY <1>1, <1>2, <1>3, <1>4

(* A recording at hand when the body started is replaced by no call of the  *)
(* attempt.  (prepare_trace, record.)                                       *)
THEOREM RecordingsStayKept == Spec => RecordingsAtHandAreKept
<1> DEFINE Safe == Inv /\ ArtifactsInv /\ RerunInv /\ UploadersHaveRun
           Kept == \A n \in synced \ failed : n[1] \notin UnitSteps =>
                      /\ n \in DOMAIN outputs'
                      /\ outputs'[n] = outputs[n]
<1>1. Init => Safe
      BY TypeInit, NamesInit, RunsInit, ArtifactsInit
      DEF Init, Inv, RerunInv, NumbersAreCalls, RunsAreNew, UploadersHaveRun
<1>2. Safe /\ [Next]_vars => Safe'
      BY TypeStep, NamesStep, RunsStep, ArtifactsStep, RerunStep, UploadersHaveRunStep
      DEF Inv
<1>3. Safe /\ [Next]_vars => [Kept]_vars
  <2> SUFFICES ASSUME Safe, [Next]_vars,
                      NEW n \in synced \ failed, n[1] \notin UnitSteps
               PROVE  n \in DOMAIN outputs' /\ outputs'[n] = outputs[n]
      OBVIOUS
  <2>1. n \in DOMAIN outputs
        BY DEF Inv, TypeInv, TypeOK, ArtifactsInv, RecordedArtifactsExist
  <2>2. ASSUME NEW c \in Calls, PutOutputs(c), outputs' # outputs
        PROVE  n \in DOMAIN outputs' /\ outputs'[n] = outputs[n]
    <3>1. pc[c] = "putOutputs" /\ outputs' = Overwrite(outputs, Name(c), value[c])
          BY <2>2 DEF PutOutputs
    <3>2. Name(c) \in ran /\ Name(c)[1] \notin UnitSteps
          BY <3>1 DEF UploadersHaveRun, HasOutputs, Name, SubActionName
    <3>3. Name(c) # n
          BY <3>2 DEF RerunInv, RunsAreNew
    <3> QED BY <2>1, <3>1, <3>3 DEF Overwrite
  <2> QED BY <2>1, <2>2, OutputsSteps
<1> QED BY <1>1, <1>2, <1>3, PTL DEF Spec, RecordingsAtHandAreKept
=============================================================================
