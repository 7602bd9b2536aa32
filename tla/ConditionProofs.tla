-------------------------- MODULE ConditionProofs --------------------------
(***************************************************************************)
(* Theorems about Condition, for any calls, names, groups and attempts.    *)
(***************************************************************************)
EXTENDS Condition, FiniteSetTheorems, TLAPS

(* The calls of a counter that have a number. *)
DrawnOf(k) == {a \in Asks : Key(a) = k /\ seq[a] # 0}

(* A counter has counted its calls. *)
CountersCount == \A k \in Keys : counter[k] = Cardinality(DrawnOf(k))

(* A call has a number from the moment it is made, unless it is replayed. *)
DrawnOnceCreated ==
    \A a \in Asks : seq[a] = 0 <=> pc[a] \in {"idle", "replayed"}

TypeInv == TypeOK /\ CountersCount /\ DrawnOnceCreated

LEMMA KeyType == ASSUME NEW a \in Asks PROVE Key(a) \in Keys
BY DEF Keys

LEMMA DrawnFinite ==
    ASSUME NEW k
    PROVE  IsFiniteSet(DrawnOf(k)) /\ Cardinality(DrawnOf(k)) \in Nat
BY FS_Subset, FS_CardinalityType, ConditionAssumption DEF DrawnOf

(* A call about to draw gets a number within the number of calls. *)
LEMMA NextNumber ==
    ASSUME TypeInv, NEW a \in Asks, pc[a] = "idle"
    PROVE  /\ counter[Key(a)] \in Nat
           /\ counter[Key(a)] + 1 \in 1..Cardinality(Asks)
           /\ NameWith(a, counter[Key(a)] + 1) \in Names
<1> DEFINE D == DrawnOf(Key(a))
<1>1. a \notin D
      BY DEF TypeInv, DrawnOnceCreated, DrawnOf
<1>2. IsFiniteSet(D) /\ Cardinality(D) \in Nat
      BY DrawnFinite
<1>3. counter[Key(a)] = Cardinality(D)
      BY KeyType DEF TypeInv, CountersCount
<1>4. Cardinality(D \cup {a}) = Cardinality(D) + 1
      BY <1>1, <1>2, FS_AddElement
<1>5. D \cup {a} \in SUBSET Asks
      BY DEF DrawnOf
<1>6. Cardinality(D \cup {a}) <= Cardinality(Asks)
      BY <1>5, FS_Subset, ConditionAssumption
<1>7. Cardinality(Asks) \in Nat
      BY FS_CardinalityType, ConditionAssumption
<1> HIDE DEF D
<1>8. counter[Key(a)] \in Nat /\ counter[Key(a)] + 1 \in 1..Cardinality(Asks)
      BY <1>2, <1>3, <1>4, <1>6, <1>7
<1> QED BY <1>8 DEF Names

LEMMA TypeInit == Init => TypeInv
<1> SUFFICES ASSUME Init PROVE TypeInv
    OBVIOUS
<1>1. \A k : DrawnOf(k) = {}
      BY DEF Init, DrawnOf
<1>2. CountersCount
      BY <1>1, FS_EmptySet DEF Init, CountersCount
<1>3. Cardinality(Asks) \in Nat
      BY FS_CardinalityType, ConditionAssumption
<1> QED BY <1>2, <1>3, ConditionAssumption DEF Init, TypeInv, TypeOK, DrawnOnceCreated

(* A new or a finished process has drawn nothing. *)
LEMMA FreshType ==
    ASSUME TypeInv, Fresh, UNCHANGED backend,
           attempt' \in 1..MaxAttempt, phase' \in {"running", "exited"}
    PROVE  TypeInv'
<1>1. \A k : DrawnOf(k)' = {}
      BY DEF Fresh, DrawnOf
<1>2. CountersCount'
      BY <1>1, FS_EmptySet DEF Fresh, CountersCount
<1>3. Cardinality(Asks) \in Nat
      BY FS_CardinalityType, ConditionAssumption
<1> QED BY <1>2, <1>3 DEF Fresh, TypeInv, TypeOK, DrawnOnceCreated, backend

(* Where nobody draws, counters keep counting. *)
LEMMA CountersKept ==
    ASSUME TypeInv, UNCHANGED <<counter, seq>>
    PROVE  CountersCount'
<1>1. \A k : DrawnOf(k)' = DrawnOf(k)
      BY DEF DrawnOf
<1> QED BY <1>1 DEF TypeInv, CountersCount

LEMMA CreateType ==
    ASSUME TypeInv, NEW a \in Asks, Create(a)
    PROVE  TypeInv'
<1> DEFINE k == Key(a)
<1>1. /\ pc[a] = "idle" /\ k \in Keys
      /\ counter' = [counter EXCEPT ![k] = counter[k] + 1]
      /\ seq' = [seq EXCEPT ![a] = counter[k] + 1]
      /\ UNCHANGED <<attempt, phase, answer, cache, conditions, recorded>>
      BY KeyType DEF Create, Reached, backend
<1>2. /\ counter[k] \in Nat /\ counter[k] + 1 \in 1..Cardinality(Asks)
      /\ NameWith(a, counter[k] + 1) \in Names
      BY <1>1, NextNumber
<1>3. a \notin DrawnOf(k)
      BY <1>1 DEF TypeInv, DrawnOnceCreated, DrawnOf
<1>4. CountersCount'
  <2> SUFFICES ASSUME NEW j \in Keys
               PROVE  counter'[j] = Cardinality(DrawnOf(j)')
      BY DEF CountersCount
  <2>1. CASE j = k
    <3>1. DrawnOf(j)' = DrawnOf(k) \cup {a}
          BY <1>1, <1>2, <2>1 DEF DrawnOf, TypeInv, TypeOK
    <3>2. Cardinality(DrawnOf(j)') = Cardinality(DrawnOf(k)) + 1
          BY <1>3, <3>1, DrawnFinite, FS_AddElement
    <3> QED BY <1>1, <2>1, <3>2 DEF TypeInv, TypeOK, CountersCount
  <2>2. CASE j # k
    <3>1. DrawnOf(j)' = DrawnOf(j)
          BY <1>1, <1>2, <2>2 DEF DrawnOf, TypeInv, TypeOK
    <3> QED BY <1>1, <2>2, <3>1 DEF TypeInv, TypeOK, CountersCount
  <2> QED BY <2>1, <2>2
<1>5. CASE /\ queue' = queue \cup {<<NameWith(a, counter[k] + 1), a>>}
           /\ pc' = [pc EXCEPT ![a] = "created"]
      BY <1>1, <1>2, <1>4, <1>5 DEF TypeInv, TypeOK, DrawnOnceCreated
<1>6. CASE pc' = [pc EXCEPT ![a] = "failed"] /\ UNCHANGED queue
      BY <1>1, <1>2, <1>4, <1>6 DEF TypeInv, TypeOK, DrawnOnceCreated
<1> QED BY <1>5, <1>6 DEF Create

LEMMA EndAsType ==
    ASSUME TypeInv, NEW n, NEW outcome \in Terminal, NEW output \in Outputs,
           EndAs(n, outcome, output)
    PROVE  TypeInv'
<1>1. CountersCount'
      BY CountersKept DEF EndAs, task
<1> QED BY <1>1 DEF EndAs, TypeInv, TypeOK, DrawnOnceCreated, task

(* However a condition ends, the backend gives it an end and an output. *)
LEMMA EndsAreOutcomes ==
    ASSUME TypeInv, NEW n \in DOMAIN conditions, Signal(n) \/ Abort(n) \/ TimeOut(n)
    PROVE  \E outcome \in Terminal, output \in Outputs : EndAs(n, outcome, output)
<1> DEFINE t == TypeOf[conditions[n].call]
<1>1. NoOutput \in Outputs
      BY DEF Outputs
<1>2. t \in ConditionTypes
      BY ConditionAssumption DEF TypeInv, TypeOK
<1>3. \A v \in AnswersTo(LiteralType(t)) : <<LiteralType(t), v>> \in Outputs
      BY <1>2 DEF Outputs
<1> HIDE DEF t
<1> QED BY <1>1, <1>3 DEF Signal, Abort, TimeOut, Terminal, t

LEMMA TypeStep == TypeInv /\ [Next]_vars => TypeInv'
<1> SUFFICES ASSUME TypeInv, [Next]_vars PROVE TypeInv'
    OBVIOUS
<1>1. CASE Retry
      BY <1>1, FreshType, ConditionAssumption DEF Retry, TypeInv, TypeOK
<1>2. CASE Exit
      BY <1>2, FreshType DEF Exit, TypeInv, TypeOK
<1>3. CASE Terminated \/ UNCHANGED vars
      BY <1>3, CountersKept
      DEF Terminated, vars, task, backend, TypeInv, TypeOK, DrawnOnceCreated
<1>4. ASSUME NEW a \in Asks, Create(a) PROVE TypeInv'
      BY <1>4, CreateType
<1>5. ASSUME NEW a \in Asks, Skip(a) PROVE TypeInv'
      BY <1>5, CountersKept DEF Skip, Reached, backend, TypeInv, TypeOK, DrawnOnceCreated
<1>6. ASSUME NEW a \in Asks, Wait(a) \/ WaitFails(a) \/ Drop(a) PROVE TypeInv'
      BY <1>6, CountersKept
      DEF Wait, WaitFails, Drop, backend, TypeInv, TypeOK, DrawnOnceCreated
<1>7. ASSUME NEW a \in Asks, WaitEnds(a) PROVE TypeInv'
  <2>1. /\ UNCHANGED <<attempt, phase, counter, seq, queue, cache, backend>>
        /\ pc[a] = "waiting"
        /\ \/ pc' = [pc EXCEPT ![a] = "answered"]
           \/ pc' = [pc EXCEPT ![a] = "failed"]
        /\ DOMAIN answer' = DOMAIN answer
        BY <1>7 DEF WaitEnds
  <2> QED BY <2>1, CountersKept DEF backend, TypeInv, TypeOK, DrawnOnceCreated
<1>8. ASSUME NEW a \in Asks, RecordStep(a) PROVE TypeInv'
      BY <1>8, CountersKept DEF RecordStep, task, TypeInv, TypeOK, DrawnOnceCreated
<1>9. ASSUME NEW q \in queue, Deliver(q[1], q[2]) PROVE TypeInv'
  <2>1. /\ UNCHANGED <<attempt, phase, counter, pc, seq, answer, cache, recorded>>
        /\ queue' \subseteq queue
        /\ q[1] \in Names /\ q[2] \in Asks
        BY <1>9 DEF Deliver, task, TypeInv, TypeOK
  <2>2. CASE UNCHANGED conditions
        BY <2>1, <2>2, CountersKept DEF TypeInv, TypeOK, DrawnOnceCreated
  <2>3. CASE conditions' = Extend(conditions, q[1],
                   [call |-> q[2], phase |-> "paused", output |-> NoOutput])
    <3>1. /\ DOMAIN conditions' = DOMAIN conditions \cup {q[1]}
          /\ \A n \in DOMAIN conditions' : conditions'[n] =
                IF n = q[1]
                  THEN [call |-> q[2], phase |-> "paused", output |-> NoOutput]
                  ELSE conditions[n]
          BY <2>3 DEF Extend
    <3>2. NoOutput \in Outputs
          BY DEF Outputs
    <3> QED BY <2>1, <3>1, <3>2, CountersKept DEF TypeInv, TypeOK, DrawnOnceCreated
  <2> QED BY <1>9, <2>2, <2>3 DEF Deliver
<1>10. ASSUME NEW n \in DOMAIN conditions, Signal(n) \/ Abort(n) \/ TimeOut(n)
       PROVE  TypeInv'
       BY <1>10, EndsAreOutcomes, EndAsType
<1>11. ASSUME NEW n \in DOMAIN conditions, Sync(n) PROVE TypeInv'
       BY <1>11, CountersKept DEF Sync, task, backend, TypeInv, TypeOK, DrawnOnceCreated
<1> QED BY <1>1, <1>2, <1>3, <1>4, <1>5, <1>6, <1>7, <1>8, <1>9, <1>10, <1>11 DEF Next

(* The state of Condition is well formed. *)
THEOREM ConditionTypeCorrect == Spec => []TypeOK
<1>1. TypeInv => TypeOK
      BY DEF TypeInv
<1> QED BY <1>1, TypeInit, TypeStep, PTL DEF Spec

-----------------------------------------------------------------------------
(* Ordered calls *)

(* Every call, in every attempt, draws the number of its rank ... *)
NumberIsRank == \A a \in Asks : seq[a] # 0 => seq[a] = Rank(a)

(* ... as the calls before it have been made ... *)
MadeInOrder ==
    \A a, b \in Asks : <<b, a>> \in Before /\ pc[a] # "idle" => pc[b] # "idle"

(* ... and the ones that are not are in steps of their own.  So its name is *)
(* one and the same wherever it is kept ...                                 *)
OnlyStepsAreReplayed == \A a \in Asks : pc[a] = "replayed" => a \in InsideStep

NameOfRank(a) == NameWith(a, Rank(a))

NamesAreOfRank ==
    /\ \A q \in queue : q[1] = NameOfRank(q[2])
    /\ \A n \in DOMAIN conditions : n = NameOfRank(conditions[n].call)

(* ... and an answer is from a condition that is there. *)
AnsweredHasEnded == \A a \in Asks : pc[a] = "answered" => Name(a) \in DOMAIN conditions

OrderInv ==
    NumberIsRank /\ MadeInOrder /\ OnlyStepsAreReplayed /\ NamesAreOfRank
        /\ AnsweredHasEnded

LEMMA OrderInit == Init => OrderInv
BY DEF Init, OrderInv, NumberIsRank, MadeInOrder, OnlyStepsAreReplayed,
       NamesAreOfRank, AnsweredHasEnded

(* The calls that have drawn from a call's counter before it are those that *)
(* come before it.                                                          *)
LEMMA DrawsItsRank ==
    ASSUME CallsAreOrdered, TypeInv, OrderInv, NEW a \in Asks, Reached(a)
    PROVE  counter[Key(a)] + 1 = Rank(a)
<1> DEFINE P == {b \in Asks : Key(b) = Key(a) /\ <<b, a>> \in Before}
<1>1. pc[a] = "idle" /\ seq[a] = 0
      BY DEF Reached, TypeInv, DrawnOnceCreated
<1>2. DrawnOf(Key(a)) = P
  <2>1. ASSUME NEW b \in Asks, Key(b) = Key(a), seq[b] # 0
        PROVE  <<b, a>> \in Before
    <3>1. a # b /\ pc[b] # "idle"
          BY <1>1, <2>1 DEF TypeInv, DrawnOnceCreated
    <3>2. <<a, b>> \notin Before
          BY <1>1, <3>1 DEF OrderInv, MadeInOrder
    <3> QED BY <2>1, <3>1, <3>2 DEF CallsAreOrdered
  <2>2. ASSUME NEW b \in Asks, Key(b) = Key(a), <<b, a>> \in Before
        PROVE  seq[b] # 0
    <3>1. a # b /\ pc[b] # "idle"
          BY <1>1, <2>2 DEF Reached
    <3>2. b \notin InsideStep
          BY <2>2, <3>1 DEF CallsAreOrdered
    <3> QED BY <3>1, <3>2
            DEF TypeInv, DrawnOnceCreated, OrderInv, OnlyStepsAreReplayed
  <2> QED BY <2>1, <2>2 DEF DrawnOf
<1>3. counter[Key(a)] = Cardinality(P)
      BY <1>2, KeyType DEF TypeInv, CountersCount
<1>4. Cardinality(P) \in Nat
      BY <1>2, DrawnFinite
<1>5. Rank(a) = 1 + Cardinality(P)
      BY DEF Rank
<1> HIDE DEF P
<1> QED BY <1>3, <1>4, <1>5

(* The backend does not lose or swap a condition. *)
LEMMA ConditionsKept ==
    ASSUME TypeInv, [Next]_vars
    PROVE  \/ /\ DOMAIN conditions' = DOMAIN conditions
              /\ \A n \in DOMAIN conditions : conditions'[n].call = conditions[n].call
           \/ \E q \in queue : /\ q[1] \notin DOMAIN conditions
                               /\ DOMAIN conditions' = DOMAIN conditions \cup {q[1]}
                               /\ conditions'[q[1]].call = q[2]
                               /\ \A n \in DOMAIN conditions :
                                    conditions'[n] = conditions[n]
                               /\ UNCHANGED <<pc, seq>> /\ queue' \subseteq queue
<1>1. CASE \E n \in DOMAIN conditions : Signal(n) \/ Abort(n) \/ TimeOut(n)
  <2>1. PICK n \in DOMAIN conditions :
            \E outcome, output : EndAs(n, outcome, output)
        BY <1>1 DEF Signal, Abort, TimeOut
  <2>2. PICK outcome, output : EndAs(n, outcome, output)
        BY <2>1
  <2>3. /\ conditions' = [conditions EXCEPT ![n].phase = outcome, ![n].output = output]
        /\ conditions[n] \in [call : Asks, phase : Terminal \cup {"paused"},
                              output : Outputs]
        BY <2>2 DEF EndAs, TypeInv, TypeOK
  <2>4. /\ DOMAIN conditions' = DOMAIN conditions
        /\ \A m \in DOMAIN conditions \ {n} : conditions'[m] = conditions[m]
        BY <2>3
  <2>5. conditions'[n].call = conditions[n].call
        BY <2>3
  <2> QED BY <2>4, <2>5
<1>2. ASSUME NEW q \in queue, Deliver(q[1], q[2]), q[1] \notin DOMAIN conditions
      PROVE  /\ DOMAIN conditions' = DOMAIN conditions \cup {q[1]}
             /\ conditions'[q[1]].call = q[2]
             /\ \A n \in DOMAIN conditions : conditions'[n] = conditions[n]
             /\ UNCHANGED <<pc, seq>> /\ queue' \subseteq queue
      BY <1>2 DEF Deliver, Extend, task
<1>3. \/ UNCHANGED conditions
      \/ \E n \in DOMAIN conditions : Signal(n) \/ Abort(n) \/ TimeOut(n)
      \/ \E q \in queue : Deliver(q[1], q[2]) /\ q[1] \notin DOMAIN conditions
      BY DEF Next, Retry, Exit, Terminated, Create, Skip, Wait, WaitEnds, WaitFails,
             Drop, RecordStep, Deliver, Sync, backend, vars
<1> QED BY <1>1, <1>2, <1>3

LEMMA OrderStep ==
    CallsAreOrdered /\ TypeInv /\ OrderInv /\ [Next]_vars => OrderInv'
<1> SUFFICES ASSUME CallsAreOrdered, TypeInv, OrderInv, [Next]_vars
             PROVE  OrderInv'
    OBVIOUS
<1> USE DEF OrderInv
<1>1. ASSUME NEW a \in Asks, Create(a)
      PROVE  /\ seq' = [seq EXCEPT ![a] = Rank(a)]
             /\ \/ pc' = [pc EXCEPT ![a] = "created"]
                \/ pc' = [pc EXCEPT ![a] = "failed"]
             /\ queue' \subseteq queue \cup {<<NameOfRank(a), a>>}
             /\ Reached(a) /\ UNCHANGED conditions
      BY <1>1, DrawsItsRank DEF Create, NameOfRank, backend
<1>2. \/ \E a \in Asks : Create(a)
      \/ \E a \in Asks : Skip(a)
      \/ \E a \in Asks : WaitEnds(a)
      \/ Fresh /\ UNCHANGED conditions
      \/ /\ UNCHANGED <<seq>> /\ queue' \subseteq queue
         /\ \A a \in Asks : pc'[a] = pc[a] \/
                {pc[a], pc'[a]} \subseteq {"created", "waiting", "failed"}
  <2>1. ASSUME NEW a \in Asks, Wait(a) \/ WaitFails(a) \/ Drop(a)
        PROVE  /\ UNCHANGED <<seq, queue>>
               /\ \A b \in Asks : pc'[b] = pc[b] \/
                    {pc[b], pc'[b]} \subseteq {"created", "waiting", "failed"}
        BY <2>1 DEF Wait, WaitFails, Drop, TypeInv, TypeOK
  <2>2. CASE Retry \/ Exit
        BY <2>2 DEF Retry, Exit, backend
  <2>3. CASE \/ Terminated \/ UNCHANGED vars
             \/ \E a \in Asks : RecordStep(a)
             \/ \E q \in queue : Deliver(q[1], q[2])
             \/ \E n \in DOMAIN conditions :
                   Signal(n) \/ Abort(n) \/ TimeOut(n) \/ Sync(n)
        BY <2>3 DEF Terminated, RecordStep, Deliver, Signal, Abort, TimeOut, EndAs,
               Sync, task, backend, vars
  <2> QED BY <2>1, <2>2, <2>3 DEF Next
<1>3. NumberIsRank'
  <2>1. ASSUME NEW a \in Asks, Create(a) PROVE NumberIsRank'
    <3>1. seq' = [seq EXCEPT ![a] = Rank(a)] /\ seq \in [Asks -> 0..Cardinality(Asks)]
          BY <1>1, <2>1 DEF TypeInv, TypeOK
    <3>2. \A b \in Asks : seq'[b] # 0 => seq'[b] = Rank(b)
          BY <3>1 DEF NumberIsRank
    <3> QED BY <3>2 DEF NumberIsRank, Rank
  <2>2. CASE UNCHANGED seq
        BY <2>2 DEF NumberIsRank, Rank
  <2>3. CASE Fresh
        BY <2>3 DEF Fresh, NumberIsRank
  <2> QED BY <1>2, <2>1, <2>2, <2>3 DEF Skip, WaitEnds
<1>4. MadeInOrder' /\ OnlyStepsAreReplayed'
  <2> USE DEF MadeInOrder, OnlyStepsAreReplayed, TypeInv, TypeOK
  <2>1. ASSUME NEW a \in Asks, Create(a) PROVE MadeInOrder' /\ OnlyStepsAreReplayed'
        BY <1>1, <2>1 DEF Reached
  <2>2. ASSUME NEW a \in Asks, Skip(a) PROVE MadeInOrder' /\ OnlyStepsAreReplayed'
        BY <2>2 DEF Skip, Reached
  <2>3. ASSUME NEW a \in Asks, WaitEnds(a) PROVE MadeInOrder' /\ OnlyStepsAreReplayed'
    <3>1. pc' \in {[pc EXCEPT ![a] = "answered"], [pc EXCEPT ![a] = "failed"]}
          BY <2>3 DEF WaitEnds
    <3>2. pc[a] = "waiting"
          BY <2>3 DEF WaitEnds
    <3> QED BY <3>1, <3>2
  <2>4. CASE Fresh
        BY <2>4 DEF Fresh
  <2>5. CASE \A a \in Asks : pc'[a] = pc[a] \/
                {pc[a], pc'[a]} \subseteq {"created", "waiting", "failed"}
        BY <2>5
  <2> QED BY <1>2, <2>1, <2>2, <2>3, <2>4, <2>5
<1>5. NamesAreOfRank'
  <2>1. \A q \in queue' : q[1] = NameOfRank(q[2])
    <3>1. CASE \E a \in Asks : Create(a)
          BY <1>1, <3>1 DEF NamesAreOfRank
    <3>2. CASE queue' \subseteq queue
          BY <3>2 DEF NamesAreOfRank
    <3> QED BY <1>2, <3>1, <3>2 DEF Skip, WaitEnds, Fresh
  <2>2. \A n \in DOMAIN conditions' : n = NameOfRank(conditions'[n].call)
    <3>1. CASE /\ DOMAIN conditions' = DOMAIN conditions
               /\ \A n \in DOMAIN conditions : conditions'[n].call = conditions[n].call
          BY <3>1, Zenon DEF NamesAreOfRank
    <3>2. ASSUME NEW q \in queue, DOMAIN conditions' = DOMAIN conditions \cup {q[1]},
                 conditions'[q[1]].call = q[2],
                 \A n \in DOMAIN conditions : conditions'[n] = conditions[n]
          PROVE  \A n \in DOMAIN conditions' : n = NameOfRank(conditions'[n].call)
      <4>1. q[1] = NameOfRank(q[2])
            BY DEF NamesAreOfRank
      <4> QED BY <3>2, <4>1, Zenon DEF NamesAreOfRank
    <3> QED BY <3>1, <3>2, ConditionsKept
  <2> QED BY <2>1, <2>2 DEF NamesAreOfRank, NameOfRank, Rank
<1>6. AnsweredHasEnded'
  <2>1. DOMAIN conditions \subseteq DOMAIN conditions'
        BY ConditionsKept
  <2> SUFFICES ASSUME NEW a \in Asks, pc'[a] = "answered"
               PROVE  NameWith(a, seq'[a]) \in DOMAIN conditions'
      BY DEF AnsweredHasEnded, Name
  <2>2. CASE pc[a] = "answered" /\ seq'[a] = seq[a]
        BY <2>1, <2>2 DEF AnsweredHasEnded, Name
  <2>3. CASE WaitEnds(a)
        BY <2>1, <2>3 DEF WaitEnds, Name, TypeInv, TypeOK
  <2>4. \/ pc[a] = "answered" /\ seq'[a] = seq[a]
        \/ WaitEnds(a)
    <3>1. CASE \E b \in Asks : Create(b)
          BY <1>1, <3>1 DEF Reached, TypeInv, TypeOK
    <3>2. CASE \E b \in Asks : Skip(b)
          BY <3>2 DEF Skip, Reached, TypeInv, TypeOK
    <3>3. CASE \E b \in Asks : WaitEnds(b)
      <4>1. PICK b \in Asks : WaitEnds(b)
            BY <3>3
      <4>2. /\ UNCHANGED seq
            /\ pc' \in {[pc EXCEPT ![b] = "answered"], [pc EXCEPT ![b] = "failed"]}
            BY <4>1 DEF WaitEnds
      <4> QED BY <4>1, <4>2 DEF TypeInv, TypeOK
    <3>4. CASE Fresh
          BY <3>4 DEF Fresh
    <3>5. CASE /\ UNCHANGED <<seq>> /\ queue' \subseteq queue
               /\ \A b \in Asks : pc'[b] = pc[b] \/
                     {pc[b], pc'[b]} \subseteq {"created", "waiting", "failed"}
          BY <3>5
    <3> QED BY <1>2, <3>1, <3>2, <3>3, <3>4, <3>5
  <2> QED BY <2>2, <2>3, <2>4
<1> QED BY <1>3, <1>4, <1>5, <1>6

(* The answer a call returns was given to the question that call asks, if   *)
(* calls that share a counter are made in a fixed order, outside of traced  *)
(* steps.  (ConditionBuilder::create, Sequencer::next.)                     *)
THEOREM AnswersReach ==
    ASSUME CallsAreOrdered
    PROVE  Spec => []AnswersReachTheirQuestion
<1>1. TypeInv /\ OrderInv => AnswersReachTheirQuestion
  <2> SUFFICES ASSUME TypeInv, OrderInv, NEW a \in Asks, pc[a] = "answered"
               PROVE  conditions[Name(a)].call = a
      BY DEF AnswersReachTheirQuestion
  <2>1. Name(a) = NameOfRank(a) /\ Name(a) \in DOMAIN conditions
        BY DEF TypeInv, DrawnOnceCreated, OrderInv, NumberIsRank, AnsweredHasEnded,
               Name, NameOfRank
  <2>2. /\ conditions[Name(a)].call \in Asks
        /\ Name(a) = NameOfRank(conditions[Name(a)].call)
        BY <2>1 DEF TypeInv, TypeOK, OrderInv, NamesAreOfRank
  <2> QED BY <2>1, <2>2, CallsAreOrdered DEF CallsAreOrdered, NameOfRank
<1> QED BY <1>1, CallsAreOrdered, TypeInit, TypeStep, OrderInit, OrderStep, PTL DEF Spec

(* Under the same assumption, no question is put to people twice, however   *)
(* many attempts there are.  (ConditionBuilder::create.)                    *)
THEOREM AskedOnce ==
    ASSUME CallsAreOrdered
    PROVE  Spec => []NoQuestionAskedTwice
<1>1. OrderInv => NoQuestionAskedTwice
      BY DEF OrderInv, NamesAreOfRank, NoQuestionAskedTwice
<1> QED BY <1>1, CallsAreOrdered, TypeInit, TypeStep, OrderInit, OrderStep, PTL DEF Spec
-----------------------------------------------------------------------------
(* Answers keep their value                                                 *)

(* What the informer has seen the end of does not change any more ... *)
SeenHasEnded == \A n \in cache : conditions[n].phase \in Terminal

(* ... so a call that was answered has what its condition's output reads as. *)
AnswersAreRead ==
    \A a \in Asks : pc[a] = "answered" =>
        /\ Name(a) \in DOMAIN conditions
        /\ conditions[Name(a)].phase \in Terminal
        /\ answer[a] = FromLiteral(TypeOf[a], conditions[Name(a)].output)
        /\ IsOk(answer[a])

ReadInv == SeenHasEnded /\ AnswersAreRead

(* A conversion to a type that is not a float gives what the literal holds. *)
LEMMA ExactConversion ==
    ASSUME NEW t \in ConditionTypes \ FloatTypes, NEW kind, NEW v,
           IsOk(FromLiteral(t, <<kind, v>>))
    PROVE  FromLiteral(t, <<kind, v>>)[2] = v
<1>1. t \in IntTypes \/ t \in {"String", "bool"}
      BY DEF ConditionTypes, FloatTypes, IntTypes
<1>2. \/ FromLiteral(t, <<kind, v>>) \in {Ok(v), TypeError}
  <2>1. CASE t \in IntTypes
        BY <2>1 DEF FromLiteral, FromInteger, IntTypes, FloatTypes
  <2>2. CASE t \in {"String", "bool"}
        BY <2>2 DEF FromLiteral, IntTypes, FloatTypes
  <2> QED BY <1>1, <2>1, <2>2
<1> QED BY <1>2 DEF Ok, TypeError, IsOk

(* A condition that has ended stays as it ended. *)
LEMMA EndedStays ==
    ASSUME TypeInv, [Next]_vars, NEW n \in DOMAIN conditions,
           conditions[n].phase \in Terminal
    PROVE  n \in DOMAIN conditions' /\ conditions'[n] = conditions[n]
<1>1. CASE \E m \in DOMAIN conditions : Signal(m) \/ Abort(m) \/ TimeOut(m)
  <2>1. PICK m \in DOMAIN conditions : \E outcome, output : EndAs(m, outcome, output)
        BY <1>1 DEF Signal, Abort, TimeOut
  <2>2. m # n
        BY <2>1 DEF EndAs, Terminal
  <2> QED BY <2>1, <2>2 DEF EndAs
<1>2. CASE \E q \in queue : Deliver(q[1], q[2]) /\ q[1] \notin DOMAIN conditions
      BY <1>2 DEF Deliver, Extend
<1>3. \/ UNCHANGED conditions
      \/ \E m \in DOMAIN conditions : Signal(m) \/ Abort(m) \/ TimeOut(m)
      \/ \E q \in queue : Deliver(q[1], q[2]) /\ q[1] \notin DOMAIN conditions
      BY DEF Next, Retry, Exit, Terminated, Create, Skip, Wait, WaitEnds, WaitFails,
             Drop, RecordStep, Deliver, Sync, backend, vars
<1> QED BY <1>1, <1>2, <1>3

LEMMA ReadInit == Init => ReadInv
BY DEF Init, ReadInv, SeenHasEnded, AnswersAreRead

LEMMA SeenStep ==
    ASSUME TypeInv, SeenHasEnded, [Next]_vars
    PROVE  SeenHasEnded'
<1> SUFFICES ASSUME NEW n \in cache' PROVE conditions'[n].phase \in Terminal
    BY DEF SeenHasEnded
<1>1. \/ n \in cache
      \/ n \in DOMAIN conditions /\ conditions[n].phase \in Terminal
      BY DEF Next, Retry, Exit, Fresh, Terminated, Create, Skip, Wait, WaitEnds,
             WaitFails, Drop, RecordStep, Deliver, Signal, Abort, TimeOut, EndAs, Sync,
             vars
<1>2. n \in DOMAIN conditions /\ conditions[n].phase \in Terminal
      BY <1>1 DEF SeenHasEnded, TypeInv, TypeOK
<1> QED BY <1>2, EndedStays

LEMMA ReadStep ==
    ASSUME TypeInv, ReadInv, [Next]_vars
    PROVE  AnswersAreRead'
<1> SUFFICES ASSUME NEW a \in Asks, pc'[a] = "answered"
             PROVE  /\ Name(a)' \in DOMAIN conditions'
                    /\ conditions'[Name(a)'].phase \in Terminal
                    /\ answer'[a] = FromLiteral(TypeOf[a], conditions'[Name(a)'].output)
                    /\ IsOk(answer'[a])
    BY DEF AnswersAreRead
<1> DEFINE n == Name(a)
<1>1. \/ pc[a] = "answered" /\ UNCHANGED <<seq[a], answer[a]>>
      \/ WaitEnds(a)
  <2>1. ASSUME NEW b \in Asks, Create(b) \/ Skip(b) \/ Wait(b) \/ WaitFails(b) \/ Drop(b)
        PROVE  pc[a] = "answered" /\ UNCHANGED <<seq[a], answer[a]>>
        BY <2>1 DEF Create, Skip, Reached, Wait, WaitFails, Drop, TypeInv, TypeOK
  <2>2. ASSUME NEW b \in Asks, b # a, WaitEnds(b)
        PROVE  pc[a] = "answered" /\ UNCHANGED <<seq[a], answer[a]>>
        BY <2>2 DEF WaitEnds, TypeInv, TypeOK
  <2>3. CASE UNCHANGED task
        BY <2>3 DEF task
  <2>4. ~Fresh
        BY DEF Fresh
  <2> QED BY <2>1, <2>2, <2>3, <2>4
          DEF Next, Retry, Exit, Terminated, RecordStep, Deliver, Signal, Abort,
              TimeOut, EndAs, Sync, vars, task
<1>2. CASE pc[a] = "answered" /\ UNCHANGED <<seq[a], answer[a]>>
  <2>1. Name(a)' = n
        BY <1>2 DEF Name
  <2>2. n \in DOMAIN conditions' /\ conditions'[n] = conditions[n]
        BY <1>2, EndedStays DEF ReadInv, AnswersAreRead
  <2> QED BY <1>2, <2>1, <2>2 DEF ReadInv, AnswersAreRead
<1>3. CASE WaitEnds(a)
  <2>1. /\ n \in DOMAIN conditions /\ conditions[n].phase \in Terminal
        /\ UNCHANGED <<seq, conditions>> /\ Name(a)' = n
        BY <1>3 DEF WaitEnds, backend, ReadInv, SeenHasEnded, TypeInv, TypeOK, Name
  <2>2. /\ answer'[a] = FromLiteral(TypeOf[a], conditions[n].output)
        /\ IsOk(answer'[a])
        BY <1>3 DEF WaitEnds, TypeInv, TypeOK
  <2> QED BY <2>1, <2>2
<1> QED BY <1>1, <1>2, <1>3

LEMMA ReadInvStep == TypeInv /\ ReadInv /\ [Next]_vars => ReadInv'
BY SeenStep, ReadStep DEF ReadInv

(* An answer that is no float is returned as it was given, in whichever     *)
(* attempt it is waited for, whether or not the calls are ordered.          *)
(* (FlyteType::from_literal.)                                               *)
THEOREM AnswersKept == Spec => []AnswersKeepTheirValue
<1>1. TypeInv /\ ReadInv => AnswersKeepTheirValue
  <2> SUFFICES ASSUME TypeInv, ReadInv, NEW a \in Asks, pc[a] = "answered",
                      TypeOf[a] \notin FloatTypes
               PROVE  answer[a][2] = conditions[Name(a)].output[2]
      BY DEF AnswersKeepTheirValue
  <2> DEFINE lit == conditions[Name(a)].output
  <2>1. lit \in Outputs
        BY DEF TypeInv, TypeOK, ReadInv, AnswersAreRead
  <2>2. lit = <<lit[1], lit[2]>>
        BY <2>1 DEF Outputs, NoOutput
  <2>3. TypeOf[a] \in ConditionTypes \ FloatTypes
        BY ConditionAssumption
  <2>4. answer[a] = FromLiteral(TypeOf[a], lit) /\ IsOk(answer[a])
        BY DEF ReadInv, AnswersAreRead
  <2> HIDE DEF lit
  <2>5. answer[a][2] = lit[2]
        BY <2>2, <2>3, <2>4, ExactConversion
  <2> QED BY <2>5 DEF lit
<1> QED BY <1>1, TypeInit, TypeStep, ReadInit, ReadInvStep, PTL DEF Spec

-----------------------------------------------------------------------------
(* Condition implements Questions                                           *)

Asked == {conditions[n].call : n \in DOMAIN conditions}
Told  == [a \in Asks |-> IF pc[a] = "answered" THEN {answer[a]} ELSE {}]

(* A question has one condition, under the name of its rank, and a call that *)
(* waits for a condition waits for that of its own question.                *)
LEMMA OwnCondition ==
    ASSUME CallsAreOrdered, TypeInv, OrderInv
    PROVE  /\ \A m, n \in DOMAIN conditions :
                 conditions[m].call = conditions[n].call => m = n
           /\ \A a \in Asks : seq[a] # 0 /\ Name(a) \in DOMAIN conditions =>
                 conditions[Name(a)].call = a
<1>1. \A n \in DOMAIN conditions :
         conditions[n].call \in Asks /\ n = NameOfRank(conditions[n].call)
      BY DEF TypeInv, TypeOK, OrderInv, NamesAreOfRank
<1>2. ASSUME NEW a \in Asks, seq[a] # 0, Name(a) \in DOMAIN conditions
      PROVE  conditions[Name(a)].call = a
  <2>1. Name(a) = NameOfRank(a)
        BY <1>2 DEF OrderInv, NumberIsRank, Name, NameOfRank
  <2> QED BY <1>1, <1>2, <2>1, CallsAreOrdered DEF CallsAreOrdered, NameOfRank
<1> QED BY <1>1, <1>2

LEMMA OutcomesAre ==
    ASSUME NEW a, NEW o
    PROVE  o \in OutcomesOf(a) <=>
             \E n \in DOMAIN conditions :
                /\ conditions[n].call = a /\ conditions[n].phase \in Terminal
                /\ o = <<conditions[n].phase, conditions[n].output>>
BY DEF OutcomesOf

LEMMA QuestionsInitially == Init => Q!QuestionsInit
BY DEF Init, Q!QuestionsInit, Q!Nothing, OutcomesOf

(* Most steps are none of the questions'. *)
LEMMA NoQuestion ==
    ASSUME UNCHANGED conditions, Told' = Told
    PROVE  UNCHANGED Q!questionsVars
<1>1. \A a : OutcomesOf(a)' = OutcomesOf(a)
      BY DEF OutcomesOf
<1>2. Asked' = Asked
      BY DEF Asked
<1> QED BY <1>1, <1>2 DEF Q!questionsVars, Asked, Told

LEMMA ToldKept ==
    ASSUME UNCHANGED answer, \A a \in Asks : pc'[a] = "answered" <=> pc[a] = "answered"
    PROVE  Told' = Told
BY DEF Told

(* A condition that the backend does not have yet. *)
LEMMA DeliverPoses ==
    ASSUME CallsAreOrdered, TypeInv, OrderInv, NEW q \in queue, Deliver(q[1], q[2]),
           q[1] \notin DOMAIN conditions
    PROVE  Q!Pose(q[2])
<1> DEFINE a == q[2]
           c == [call |-> a, phase |-> "paused", output |-> NoOutput]
<1>1. /\ UNCHANGED <<pc, answer>>
      /\ DOMAIN conditions' = DOMAIN conditions \cup {q[1]}
      /\ conditions'[q[1]] = c
      /\ \A n \in DOMAIN conditions : conditions'[n] = conditions[n]
      BY DEF Deliver, Extend, task
<1>2. a \notin Asked
  <2> SUFFICES ASSUME NEW n \in DOMAIN conditions, conditions[n].call = a PROVE FALSE
      BY DEF Asked
  <2>1. n = NameOfRank(a) /\ q[1] = NameOfRank(a)
        BY DEF OrderInv, NamesAreOfRank
  <2> QED BY <2>1
<1>3. Asked' = Asked \cup {a}
      BY <1>1 DEF Asked
<1>4. \A b : OutcomesOf(b)' = OutcomesOf(b)
  <2>1. c.phase \notin Terminal
        BY DEF Terminal
  <2> QED BY <1>1, <2>1 DEF OutcomesOf
<1>5. Told' = Told
      BY <1>1 DEF Told
<1> QED BY <1>2, <1>3, <1>4, <1>5 DEF Q!Pose, Asked, Told

(* Its end, in whichever way. *)
LEMMA EndDecides ==
    ASSUME CallsAreOrdered, TypeInv, OrderInv, NEW n, NEW outcome \in Terminal,
           NEW output \in Outputs, EndAs(n, outcome, output),
           NEW a, a = conditions[n].call
    PROVE  Q!Decide(a)
<1> DEFINE o == <<outcome, output>>
<1>1. /\ n \in DOMAIN conditions /\ conditions[n].phase = "paused"
      /\ UNCHANGED <<pc, answer>>
      /\ DOMAIN conditions' = DOMAIN conditions
      /\ \A m \in DOMAIN conditions \ {n} : conditions'[m] = conditions[m]
      /\ conditions' = [conditions EXCEPT ![n].phase = outcome, ![n].output = output]
      BY DEF EndAs, task
<1>2. conditions[n] \in [call : Asks, phase : Terminal \cup {"paused"}, output : Outputs]
      BY <1>1 DEF TypeInv, TypeOK
<1>3. /\ conditions'[n].call = a /\ conditions'[n].phase = outcome
      /\ conditions'[n].output = output
      BY <1>1, <1>2
<1>4. a \in Asks /\ a \in Asked
      BY <1>1, <1>2 DEF Asked
<1>5. \A m \in DOMAIN conditions : conditions[m].call = a => m = n
      BY <1>1, OwnCondition
<1> HIDE DEF o
<1>6. OutcomesOf(a) = {}
  <2>1. "paused" \notin Terminal
        BY DEF Terminal
  <2> QED BY <1>1, <1>5, <2>1 DEF OutcomesOf
<1>7. \A m \in DOMAIN conditions : conditions'[m].call = conditions[m].call
      BY <1>1, <1>3
<1>8. Asked' = Asked
      BY <1>1, <1>7 DEF Asked
<1>9. OutcomesOf(a)' = {o}
      BY <1>1, <1>3, <1>5, <1>7 DEF OutcomesOf, o
<1>10. ASSUME NEW b, b # a PROVE OutcomesOf(b)' = OutcomesOf(b)
       BY <1>1, <1>3, <1>10 DEF OutcomesOf
<1>11. Told' = Told
       BY <1>1 DEF Told
<1>12. o \in Terminal \X Outputs
       BY DEF o
<1>13. [b \in Asks |-> OutcomesOf(b)]' = [[b \in Asks |-> OutcomesOf(b)] EXCEPT ![a] = {o}]
       BY <1>4, <1>9, <1>10
<1> QED BY <1>4, <1>6, <1>8, <1>11, <1>12, <1>13 DEF Q!Decide, Asked, Told

(* A wait that returns. *)
LEMMA WaitTells ==
    ASSUME CallsAreOrdered, TypeInv, OrderInv, ReadInv, NEW a \in Asks, WaitEnds(a)
    PROVE  Q!Tell(a) \/ UNCHANGED Q!questionsVars
<1> DEFINE n == Name(a)
           out == conditions[n].output
           r == FromLiteral(TypeOf[a], out)
<1>1. /\ pc[a] = "waiting" /\ n \in cache /\ UNCHANGED conditions
      /\ \/ /\ conditions[n].phase = "succeeded" /\ IsOk(r)
            /\ answer' = [answer EXCEPT ![a] = r]
            /\ pc' = [pc EXCEPT ![a] = "answered"]
         \/ /\ pc' = [pc EXCEPT ![a] = "failed"]
            /\ UNCHANGED answer
      BY DEF WaitEnds, backend
<1>2. n \in DOMAIN conditions /\ conditions[n].phase \in Terminal
      BY <1>1 DEF TypeInv, TypeOK, ReadInv, SeenHasEnded
<1>3. conditions[n].call = a
      BY <1>1, <1>2, OwnCondition DEF TypeInv, DrawnOnceCreated
<1>4. /\ pc \in [Asks -> {"idle", "created", "waiting", "answered", "failed", "replayed"}]
      /\ DOMAIN answer = Asks
      BY DEF TypeInv, TypeOK
<1> HIDE DEF n, out, r
<1>5. CASE /\ conditions[n].phase = "succeeded" /\ IsOk(r)
           /\ answer' = [answer EXCEPT ![a] = r]
           /\ pc' = [pc EXCEPT ![a] = "answered"]
  <2> DEFINE o == <<conditions[n].phase, out>>
  <2>1. o \in OutcomesOf(a)
        BY <1>2, <1>3 DEF OutcomesOf, out
  <2>2. r \in ReadingsOf(a, o)
        BY <1>5 DEF ReadingsOf, r
  <2>3. \A b : OutcomesOf(b)' = OutcomesOf(b)
        BY <1>1 DEF OutcomesOf
  <2>4. Told[a] = {} /\ Told' = [Told EXCEPT ![a] = {r}]
        BY <1>1, <1>4, <1>5 DEF Told
  <2>5. Asked' = Asked
        BY <1>1 DEF Asked
  <2> HIDE DEF o
  <2> QED BY <2>1, <2>2, <2>3, <2>4, <2>5 DEF Q!Tell, Asked, Told
<1>6. CASE pc' = [pc EXCEPT ![a] = "failed"] /\ UNCHANGED answer
  <2>1. Told' = Told
        BY <1>1, <1>4, <1>6, ToldKept
  <2> QED BY <1>1, <2>1, NoQuestion
<1> QED BY <1>1, <1>5, <1>6

LEMMA QuestionsStep ==
    CallsAreOrdered /\ TypeInv /\ OrderInv /\ ReadInv /\ [Next]_vars
        => [Q!QuestionsNext]_Q!questionsVars
<1> SUFFICES ASSUME CallsAreOrdered, TypeInv, OrderInv, ReadInv, [Next]_vars
             PROVE  Q!QuestionsNext \/ UNCHANGED Q!questionsVars
    OBVIOUS
<1>1. CASE Retry \/ Exit
  <2>1. UNCHANGED conditions /\ \A a \in Asks : pc'[a] = "idle"
        BY <1>1 DEF Retry, Exit, Fresh, backend
  <2>2. Told' = [a \in Asks |-> {}]
        BY <2>1 DEF Told
  <2>3. Asked' = Asked /\ \A a : OutcomesOf(a)' = OutcomesOf(a)
        BY <2>1 DEF Asked, OutcomesOf
  <2>4. Q!NextAttempt
        BY <2>2, <2>3 DEF Q!NextAttempt, Q!Nothing, Asked, Told
  <2> QED BY <2>4 DEF Q!QuestionsNext
<1>2. ASSUME NEW a \in Asks, Create(a) \/ Skip(a) \/ Wait(a) \/ WaitFails(a) \/ Drop(a)
      PROVE  UNCHANGED Q!questionsVars
  <2>1. UNCHANGED <<conditions, answer>>
        BY <1>2 DEF Create, Skip, Wait, WaitFails, Drop, backend
  <2>2. \A b \in Asks : pc'[b] = "answered" <=> pc[b] = "answered"
        BY <1>2 DEF Create, Skip, Reached, Wait, WaitFails, Drop, TypeInv, TypeOK
  <2> QED BY <2>1, <2>2, ToldKept, NoQuestion
<1>3. CASE \/ Terminated \/ UNCHANGED vars
           \/ \E a \in Asks : RecordStep(a)
           \/ \E n \in DOMAIN conditions : Sync(n)
           \/ \E q \in queue : Deliver(q[1], q[2]) /\ q[1] \in DOMAIN conditions
  <2>1. UNCHANGED <<conditions, answer, pc>>
        BY <1>3 DEF Terminated, vars, RecordStep, Sync, Deliver, task, backend
  <2> QED BY <2>1, ToldKept, NoQuestion
<1>4. ASSUME NEW a \in Asks, WaitEnds(a)
      PROVE  Q!QuestionsNext \/ UNCHANGED Q!questionsVars
      BY <1>4, WaitTells DEF Q!QuestionsNext
<1>5. ASSUME NEW q \in queue, Deliver(q[1], q[2]), q[1] \notin DOMAIN conditions
      PROVE  Q!QuestionsNext
  <2>1. q[2] \in Asks
        BY DEF TypeInv, TypeOK
  <2> QED BY <1>5, <2>1, DeliverPoses DEF Q!QuestionsNext
<1>6. ASSUME NEW n \in DOMAIN conditions, Signal(n) \/ Abort(n) \/ TimeOut(n)
      PROVE  Q!QuestionsNext
  <2>1. \E outcome \in Terminal, output \in Outputs : EndAs(n, outcome, output)
        BY <1>6, EndsAreOutcomes
  <2>2. conditions[n].call \in Asks
        BY DEF TypeInv, TypeOK
  <2> QED BY <2>1, <2>2, EndDecides DEF Q!QuestionsNext
<1> QED BY <1>1, <1>2, <1>3, <1>4, <1>5, <1>6 DEF Next

(* If the calls that share a counter are made in a fixed order, outside of  *)
(* traced steps, conditions are the questions of Questions, put once and    *)
(* decided once across all attempts.  (ConditionBuilder::create,            *)
(* Condition::wait.)                                                        *)
THEOREM ConditionImplementsQuestions ==
    ASSUME CallsAreOrdered
    PROVE  Spec => ImplementsQuestions
<1>1. Spec => [](CallsAreOrdered /\ TypeInv /\ OrderInv /\ ReadInv)
      BY CallsAreOrdered, TypeInit, TypeStep, OrderInit, OrderStep, ReadInit, ReadInvStep,
         PTL DEF Spec
<1> QED BY <1>1, QuestionsInitially, QuestionsStep, PTL
        DEF Spec, ImplementsQuestions, Q!QuestionsSpec
=============================================================================
