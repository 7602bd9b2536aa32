---------------------------- MODULE ContextProofs ----------------------------
(***************************************************************************)
(* Theorems about Context: for any actions, groups and strands, however    *)
(* many, and scopes as deep as one likes.                                  *)
(***************************************************************************)
EXTENDS Context, SequenceTheorems, TLAPS

(* A scope that says of the strand what is so. *)
Agrees(state, scope, belongs) ==
    /\ state # None => belongs.owner = state
    /\ belongs.carried = "yes" =>
          /\ belongs.owner = state
          /\ belongs.group = IF scope.group = "" THEN None ELSE scope.group
          /\ scope.inTrace = "yes" => belongs.nested = "yes"
          /\ belongs.owner # None /\ belongs.nested = "yes" => scope.inTrace = "yes"

StrandInv(t) ==
    \A i \in 1..Len(scopes[t]) : Agrees(CurrentState(t), scopes[t][i], ambient[t][i])

Fits ==
    /\ container \in Containers
    /\ installed \in Assignments \cup {None}
    /\ started \subseteq Assignments
    /\ current \in [Strands -> Assignments \cup {None}]
    /\ scopes \in [Strands -> Seq(Scopes)]
    /\ ambient \in [Strands -> Seq(Ambients)]
    /\ \A t \in Strands : Len(scopes[t]) = Len(ambient[t])

(* A process has one installed action and no scoped ones, or the reverse. *)
ProcessInv ==
    /\ container = "oneShot" =>
          /\ \A t \in Strands : current[t] = None
          /\ started = {} => Live = {}
    /\ container # "oneShot" => installed = None

LastInv ==
    /\ last.kind \in {"no call", "step", "plain", "condition", "refused"}
    /\ last # NoCall => last.of \in Ambients
    /\ Recorded => last.group \in (Groups \ {""}) \cup {None}
    /\ UnderItsOwnAction /\ NestedStepsArePlain
    /\ GroupsAreKept /\ NothingGoesUnrecorded

ContextInv ==
    /\ Fits /\ ProcessInv /\ LastInv
    /\ \A t \in Strands : StrandInv(t)

-----------------------------------------------------------------------------
(* Sequences *)

LEMMA InnermostOf ==
    ASSUME NEW S, NEW s \in Seq(S), s # <<>>
    PROVE  /\ Innermost(s) \in S /\ Len(s) \in 1..Len(s)
           /\ Innermost(s) = s[Len(s)]
<1>1. Len(s) \in Nat /\ Len(s) # 0
      BY EmptySeq
<1>2. Len(s) \in 1..Len(s)
      BY <1>1
<1>3. s[Len(s)] \in S
      BY <1>2, ElementOfSeq
<1> QED BY <1>2, <1>3 DEF Innermost

LEMMA Pushed ==
    ASSUME NEW S, NEW s \in Seq(S), NEW x \in S
    PROVE  /\ Append(s, x) \in Seq(S)
           /\ Len(Append(s, x)) = Len(s) + 1
           /\ \A i \in 1..Len(s) + 1 :
                 Append(s, x)[i] = IF i = Len(s) + 1 THEN x ELSE s[i]
<1>1. Len(s) \in Nat
      OBVIOUS
<1> QED BY <1>1, AppendProperties

LEMMA Popped ==
    ASSUME NEW S, NEW s \in Seq(S), s # <<>>
    PROVE  /\ Leaving(s) \in Seq(S)
           /\ Len(Leaving(s)) = Len(s) - 1
           /\ \A i \in 1..Len(s) - 1 : Leaving(s)[i] = s[i]
<1>1. Len(s) \in Nat /\ Len(s) # 0
      BY EmptySeq
<1> DEFINE n == Len(s) - 1
<1>2. n \in Nat /\ n \in Int /\ 1 \in Int /\ Len(s) = n + 1
      BY <1>1
<1>3. ASSUME NEW i \in 1..n
      PROVE  s[i] \in S
      <2>1. i \in 1..Len(s)
            BY <1>1, <1>2
      <2> QED BY <2>1, ElementOfSeq
<1> HIDE DEF n
<1>4. /\ SubSeq(s, 1, n) \in Seq(S)
      /\ Len(SubSeq(s, 1, n)) = IF 1 <= n THEN n - 1 + 1 ELSE 0
      /\ \A i \in 1..n - 1 + 1 : SubSeq(s, 1, n)[i] = s[1 + i - 1]
      BY <1>2, <1>3, SubSeqProperties
<1>5. Len(SubSeq(s, 1, n)) = n
      BY <1>2, <1>4
<1>6. ASSUME NEW i \in 1..n
      PROVE  SubSeq(s, 1, n)[i] = s[i]
      <2>1. i \in 1..n - 1 + 1 /\ 1 + i - 1 = i
            BY <1>2
      <2> QED BY <2>1, <1>4
<1> QED BY <1>4, <1>5, <1>6 DEF Leaving, n

LEMMA Single ==
    ASSUME NEW S, NEW x \in S
    PROVE  /\ <<x>> \in Seq(S) /\ Len(<<x>>) = 1 /\ <<x>>[1] = x
           /\ <<x>> # <<>>
OBVIOUS

-----------------------------------------------------------------------------
(* What each kind of step keeps *)

LEMMA LiveStrand ==
    ASSUME Fits, NEW t \in Live, StrandInv(t)
    PROVE  /\ t \in Strands
           /\ Len(scopes[t]) \in Nat \ {0} /\ Len(ambient[t]) = Len(scopes[t])
           /\ scopes[t] \in Seq(Scopes) /\ ambient[t] \in Seq(Ambients)
           /\ ambient[t] # <<>>
           /\ Innermost(scopes[t]) \in Scopes
           /\ Innermost(ambient[t]) \in Ambients
           /\ Agrees(CurrentState(t), Innermost(scopes[t]), Innermost(ambient[t]))
<1>1. t \in Strands /\ scopes[t] # <<>>
      BY DEF Live
<1>2. scopes[t] \in Seq(Scopes) /\ ambient[t] \in Seq(Ambients)
      BY <1>1 DEF Fits
<1>3. Len(scopes[t]) \in Nat \ {0} /\ Len(ambient[t]) = Len(scopes[t])
      BY <1>1, <1>2, EmptySeq DEF Fits
<1>4. ambient[t] # <<>>
      BY <1>3, EmptySeq
<1>5. /\ Innermost(scopes[t]) \in Scopes /\ Innermost(ambient[t]) \in Ambients
      /\ Len(scopes[t]) \in 1..Len(scopes[t])
      /\ Innermost(scopes[t]) = scopes[t][Len(scopes[t])]
      /\ Innermost(ambient[t]) = ambient[t][Len(scopes[t])]
      BY <1>1, <1>2, <1>3, <1>4, InnermostOf
<1>6. Agrees(CurrentState(t), Innermost(scopes[t]), Innermost(ambient[t]))
      BY <1>5 DEF StrandInv
<1> QED BY <1>1, <1>2, <1>3, <1>4, <1>5, <1>6

LEMMA NothingSaid ==
    ASSUME last' = NoCall
    PROVE  LastInv'
BY DEF LastInv, NoCall, Recorded, UnderItsOwnAction, NestedStepsArePlain,
       GroupsAreKept, NothingGoesUnrecorded

(* A strand that begins agrees with itself, and disturbs no other: the      *)
(* process-wide action does not change under a live strand.                 *)
LEMMA BeginKeeps ==
    ASSUME ContextInv, container' = container,
           NEW t \in Strands, NEW a \in Assignments \cup {None},
           NEW scope \in Scopes, NEW belongs \in Ambients,
           Begin(t, a, scope, belongs),
           installed' \in Assignments \cup {None},
           installed' = installed \/ Live = {},
           started' \subseteq Assignments,
           Agrees(IF a # None THEN a ELSE installed', scope, belongs),
           ProcessInv'
    PROVE  ContextInv'
<1>1. Fits'
      <2>1. scopes' \in [Strands -> Seq(Scopes)]
            BY Single DEF Begin, ContextInv, Fits
      <2>2. ambient' \in [Strands -> Seq(Ambients)]
            BY Single DEF Begin, ContextInv, Fits
      <2>3. \A u \in Strands : Len(scopes'[u]) = Len(ambient'[u])
            BY Single DEF Begin, ContextInv, Fits
      <2> QED BY <2>1, <2>2, <2>3 DEF Begin, ContextInv, Fits
<1>2. ASSUME NEW u \in Strands
      PROVE  StrandInv(u)'
      <2>1. CASE u = t
            <3>1. scopes'[u] = <<scope>> /\ ambient'[u] = <<belongs>> /\ current'[u] = a
                  BY <2>1 DEF Begin, ContextInv, Fits
            <3>2. CurrentState(u)' = IF a # None THEN a ELSE installed'
                  BY <3>1 DEF CurrentState
            <3> QED BY <3>1, <3>2 DEF StrandInv
      <2>2. CASE u # t
            <3>1. /\ scopes'[u] = scopes[u] /\ ambient'[u] = ambient[u]
                  /\ current'[u] = current[u]
                  BY <2>2 DEF Begin, ContextInv, Fits
            <3>2. CASE installed' = installed
                  <4>1. CurrentState(u)' = CurrentState(u)
                        BY <3>1, <3>2 DEF CurrentState
                  <4> QED BY <3>1, <4>1 DEF StrandInv, ContextInv
            <3>3. CASE Live = {}
                  <4>1. Len(scopes'[u]) = 0
                        BY <3>1, <3>3, EmptySeq DEF Live
                  <4> QED BY <4>1 DEF StrandInv
            <3> QED BY <3>2, <3>3
      <2> QED BY <2>1, <2>2
<1>3. LastInv'
      BY NothingSaid DEF Begin
<1> QED BY <1>1, <1>2, <1>3 DEF ContextInv

(* A scope that is entered agrees with the strand it is entered in. *)
LEMMA EnterKeeps ==
    ASSUME ContextInv, NEW t \in Live, NEW scope \in Scopes, NEW belongs \in Ambients,
           Enter(t, scope, belongs), Agrees(CurrentState(t), scope, belongs)
    PROVE  Fits' /\ ProcessInv' /\ \A u \in Strands : StrandInv(u)'
<1> USE DEF ContextInv
<1> DEFINE n == Len(scopes[t])
<1>1. /\ t \in Strands /\ n \in Nat /\ Len(ambient[t]) = n
      /\ scopes[t] \in Seq(Scopes) /\ ambient[t] \in Seq(Ambients)
      BY LiveStrand DEF Live
<1>2. /\ scopes'[t] = Append(scopes[t], scope)
      /\ ambient'[t] = Append(ambient[t], belongs)
      /\ \A u \in Strands \ {t} : scopes'[u] = scopes[u] /\ ambient'[u] = ambient[u]
      BY <1>1 DEF Enter, Fits
<1>3. /\ Append(scopes[t], scope) \in Seq(Scopes)
      /\ Len(Append(scopes[t], scope)) = n + 1
      /\ \A i \in 1..n + 1 :
            Append(scopes[t], scope)[i] = IF i = n + 1 THEN scope ELSE scopes[t][i]
      BY <1>1, Pushed
<1>4. /\ Append(ambient[t], belongs) \in Seq(Ambients)
      /\ Len(Append(ambient[t], belongs)) = n + 1
      /\ \A i \in 1..n + 1 :
            Append(ambient[t], belongs)[i] = IF i = n + 1 THEN belongs ELSE ambient[t][i]
      BY <1>1, Pushed
<1>5. Fits'
      <2>1. scopes' \in [Strands -> Seq(Scopes)] /\ ambient' \in [Strands -> Seq(Ambients)]
            BY <1>1, <1>3, <1>4 DEF Enter, Fits
      <2>2. \A u \in Strands : Len(scopes'[u]) = Len(ambient'[u])
            BY <1>2, <1>3, <1>4 DEF Fits
      <2> QED BY <2>1, <2>2 DEF Enter, Fits
<1>6. ProcessInv'
      <2>1. started # {} \/ container # "oneShot"
            BY DEF ProcessInv
      <2> QED BY <2>1 DEF Enter, ProcessInv
<1>7. ASSUME NEW u \in Strands
      PROVE  StrandInv(u)'
      <2>1. CurrentState(u)' = CurrentState(u)
            BY DEF Enter, CurrentState
      <2>2. CASE u = t
            <3>1. ASSUME NEW i \in 1..n + 1
                  PROVE  Agrees(CurrentState(t), scopes'[t][i], ambient'[t][i])
                  <4>1. CASE i = n + 1
                        BY <1>2, <1>3, <1>4, <4>1
                  <4>2. CASE i # n + 1
                        <5>1. i \in 1..n
                              BY <1>1, <4>2
                        <5> HIDE DEF n
                        <5>2. scopes'[t][i] = scopes[t][i] /\ ambient'[t][i] = ambient[t][i]
                              BY <1>2, <1>3, <1>4, <4>2
                        <5> QED BY <1>1, <5>1, <5>2 DEF StrandInv, n
                  <4> QED BY <4>1, <4>2
            <3> QED BY <1>2, <1>3, <2>1, <2>2, <3>1 DEF StrandInv
      <2>3. CASE u # t
            BY <1>2, <2>1, <2>3 DEF StrandInv
      <2> QED BY <2>2, <2>3
<1> QED BY <1>5, <1>6, <1>7

(* A scope that is left uncovers one that agreed all along. *)
LEMMA LeaveKeeps ==
    ASSUME ContextInv, NEW t \in Strands, Leave(t)
    PROVE  ContextInv'
<1> USE DEF ContextInv
<1> DEFINE n == Len(scopes[t])
<1>1. /\ t \in Live /\ n \in Nat \ {0} /\ Len(ambient[t]) = n
      /\ scopes[t] \in Seq(Scopes) /\ ambient[t] \in Seq(Ambients)
      /\ scopes[t] # <<>> /\ ambient[t] # <<>>
      BY LiveStrand DEF Leave, Live
<1>2. /\ scopes'[t] = Leaving(scopes[t]) /\ ambient'[t] = Leaving(ambient[t])
      /\ \A u \in Strands \ {t} : /\ scopes'[u] = scopes[u] /\ ambient'[u] = ambient[u]
                                  /\ current'[u] = current[u]
      /\ current'[t] = IF n = 1 THEN None ELSE current[t]
      BY <1>1 DEF Leave, Fits
<1>3. /\ Leaving(scopes[t]) \in Seq(Scopes) /\ Len(Leaving(scopes[t])) = n - 1
      /\ \A i \in 1..n - 1 : Leaving(scopes[t])[i] = scopes[t][i]
      BY <1>1, Popped
<1>4. /\ Leaving(ambient[t]) \in Seq(Ambients) /\ Len(Leaving(ambient[t])) = n - 1
      /\ \A i \in 1..n - 1 : Leaving(ambient[t])[i] = ambient[t][i]
      BY <1>1, Popped
<1>5. Fits'
      <2>1. scopes' \in [Strands -> Seq(Scopes)] /\ ambient' \in [Strands -> Seq(Ambients)]
            BY <1>3, <1>4 DEF Leave, Fits
      <2>2. \A u \in Strands : Len(scopes'[u]) = Len(ambient'[u])
            BY <1>2, <1>3, <1>4 DEF Fits
      <2>3. current' \in [Strands -> Assignments \cup {None}]
            BY DEF Leave, Fits
      <2> QED BY <2>1, <2>2, <2>3 DEF Leave, Fits
<1>6. ProcessInv'
      <2>1. started # {} \/ container # "oneShot"
            BY <1>1 DEF ProcessInv
      <2>2. container = "oneShot" => \A u \in Strands : current'[u] = None
            BY <1>2 DEF ProcessInv
      <2> QED BY <2>1, <2>2 DEF Leave, ProcessInv
<1>7. ASSUME NEW u \in Strands
      PROVE  StrandInv(u)'
      <2>1. CASE u # t
            <3>1. CurrentState(u)' = CurrentState(u)
                  BY <1>2, <2>1 DEF Leave, CurrentState
            <3> QED BY <1>2, <2>1, <3>1 DEF StrandInv
      <2>2. CASE u = t /\ n = 1
            <3>1. Len(scopes'[t]) = 0
                  BY <1>2, <1>3, <2>2
            <3> QED BY <2>2, <3>1 DEF StrandInv
      <2>3. CASE u = t /\ n # 1
            <3>1. CurrentState(t)' = CurrentState(t)
                  BY <1>2, <2>3 DEF Leave, CurrentState
            <3>2. ASSUME NEW i \in 1..n - 1
                  PROVE  Agrees(CurrentState(t), scopes'[t][i], ambient'[t][i])
                  <4>1. i \in 1..n
                        BY <1>1
                  <4> HIDE DEF n
                  <4>2. scopes'[t][i] = scopes[t][i] /\ ambient'[t][i] = ambient[t][i]
                        BY <1>2, <1>3, <1>4
                  <4> QED BY <4>1, <4>2 DEF StrandInv, n
            <3> QED BY <1>2, <1>3, <2>3, <3>1, <3>2 DEF StrandInv
      <2> QED BY <2>1, <2>2, <2>3
<1>8. LastInv'
      BY NothingSaid DEF Leave
<1> QED BY <1>5, <1>6, <1>7, <1>8

LEMMA EnterGroupKeeps ==
    ASSUME ContextInv, NEW t \in Strands, NEW g \in Groups, EnterGroup(t, g)
    PROVE  ContextInv'
<1> DEFINE scope == [Innermost(scopes[t]) EXCEPT !.group = g]
           belongs == [Innermost(ambient[t]) EXCEPT !.group = IF g = "" THEN None ELSE g]
<1>1. /\ t \in Live /\ Innermost(scopes[t]) \in Scopes /\ Innermost(ambient[t]) \in Ambients
      /\ Agrees(CurrentState(t), Innermost(scopes[t]), Innermost(ambient[t]))
      BY LiveStrand DEF EnterGroup, ContextInv
<1>2. scope \in Scopes /\ belongs \in Ambients
      BY <1>1 DEF Scopes, Ambients
<1>3. Agrees(CurrentState(t), scope, belongs)
      BY <1>1, <1>2 DEF Agrees, Scopes, Ambients
<1>4. Enter(t, scope, belongs) /\ last' = NoCall
      BY DEF EnterGroup
<1> HIDE DEF scope, belongs
<1>5. Fits' /\ ProcessInv' /\ \A u \in Strands : StrandInv(u)'
      BY <1>1, <1>2, <1>3, <1>4, EnterKeeps
<1> QED BY <1>4, <1>5, NothingSaid DEF ContextInv

LEMMA CallStepKeeps ==
    ASSUME ContextInv, NEW t \in Strands, CallStep(t)
    PROVE  ContextInv'
<1> DEFINE here == Innermost(scopes[t])
           mine == Innermost(ambient[t])
           state == CurrentState(t)
           within == [mine EXCEPT !.nested = "yes"]
           inner == [here EXCEPT !.inTrace = "yes"]
<1>1. /\ t \in Live /\ here \in Scopes /\ mine \in Ambients
      /\ Agrees(state, here, mine)
      BY LiveStrand DEF CallStep, ContextInv
<1>2. within \in Ambients /\ inner \in Scopes
      BY <1>1 DEF Ambients, Scopes
<1>3. CASE /\ state # None /\ ~InTrace(t)
           /\ Enter(t, inner, within)
           /\ last' = [kind |-> "step", of |-> mine,
                       under |-> Parent(state), group |-> CurrentGroup(t)]
      <2>1. Agrees(state, inner, within)
            BY <1>1, <1>2, <1>3 DEF Agrees, Scopes, Ambients
      <2>2. mine.owner = state /\ (mine.carried = "yes" => mine.nested = "no")
            BY <1>1, <1>3 DEF Agrees, InTrace, Ambients, Scopes
      <2>3. CurrentGroup(t) = IF here.group = "" THEN None ELSE here.group
            BY DEF CurrentGroup
      <2>4. mine.carried = "yes" => CurrentGroup(t) = mine.group
            BY <1>1, <2>3 DEF Agrees
      <2>5. CurrentGroup(t) \in (Groups \ {""}) \cup {None}
            BY <1>1, <2>3 DEF Scopes
      <2> HIDE DEF here, mine, state, within, inner
      <2>6. LastInv'
            BY <1>1, <1>3, <2>2, <2>4, <2>5
            DEF LastInv, Recorded, UnderItsOwnAction, NestedStepsArePlain,
                GroupsAreKept, NothingGoesUnrecorded, Parent
      <2>7. Fits' /\ ProcessInv' /\ \A u \in Strands : StrandInv(u)'
            BY <1>1, <1>2, <1>3, <2>1, EnterKeeps DEF state
      <2> QED BY <2>6, <2>7 DEF ContextInv
<1>4. CASE /\ state = None \/ InTrace(t)
           /\ Enter(t, here, within)
           /\ last' = [kind |-> "plain", of |-> mine]
      <2>1. mine.carried = "yes" /\ mine.owner # None => here.inTrace = "yes"
            BY <1>1, <1>4 DEF Agrees, InTrace
      <2>2. Agrees(state, here, within)
            BY <1>1, <1>2, <2>1 DEF Agrees, Ambients
      <2>3. mine.carried = "yes" /\ mine.owner # None => mine.nested = "yes"
            BY <1>1, <2>1 DEF Agrees
      <2> HIDE DEF here, mine, state, within, inner
      <2>4. LastInv'
            BY <1>1, <1>4, <2>3
            DEF LastInv, Recorded, UnderItsOwnAction, NestedStepsArePlain,
                GroupsAreKept, NothingGoesUnrecorded
      <2>5. Fits' /\ ProcessInv' /\ \A u \in Strands : StrandInv(u)'
            BY <1>1, <1>2, <1>4, <2>2, EnterKeeps DEF state
      <2> QED BY <2>4, <2>5 DEF ContextInv
<1> QED BY <1>3, <1>4 DEF CallStep

LEMMA CreateConditionKeeps ==
    ASSUME ContextInv, NEW t \in Strands, CreateCondition(t)
    PROVE  ContextInv'
<1> DEFINE here == Innermost(scopes[t])
           mine == Innermost(ambient[t])
           state == CurrentState(t)
<1>1. /\ here \in Scopes /\ mine \in Ambients
      /\ Agrees(state, here, mine)
      BY LiveStrand DEF CreateCondition, ContextInv
<1>2. state # None => mine.owner = state
      BY <1>1 DEF Agrees
<1>3. mine.carried = "yes" => mine.owner = state
      BY <1>1 DEF Agrees
<1>4. CurrentGroup(t) = IF here.group = "" THEN None ELSE here.group
      BY DEF CurrentGroup
<1>5. mine.carried = "yes" => CurrentGroup(t) = mine.group
      BY <1>1, <1>4 DEF Agrees
<1>6. CurrentGroup(t) \in (Groups \ {""}) \cup {None}
      BY <1>1, <1>4 DEF Scopes
<1>7. last' = IF state = None THEN [kind |-> "refused", of |-> mine]
              ELSE [kind |-> "condition", of |-> mine,
                    under |-> Parent(state), group |-> CurrentGroup(t)]
      BY DEF CreateCondition
<1>8. LastInv'
      <2> HIDE DEF here, mine, state
      <2> QED BY <1>1, <1>2, <1>3, <1>5, <1>6, <1>7
              DEF LastInv, Recorded, UnderItsOwnAction, NestedStepsArePlain,
                  GroupsAreKept, NothingGoesUnrecorded, Parent
<1>9. Fits' /\ ProcessInv' /\ \A u \in Strands : StrandInv(u)'
      BY DEF CreateCondition, ContextInv, Fits, ProcessInv, Live, StrandInv, CurrentState
<1> QED BY <1>8, <1>9 DEF ContextInv

LEMMA StartedKeeps ==
    ASSUME ContextInv, NEW t \in Strands, NEW a \in Assignments,
           Install(a, t) \/ Scope(a, t)
    PROVE  ContextInv'
<1>1. NoScope \in Scopes /\ Belongs(a) \in Ambients
      BY DEF NoScope, Scopes, Belongs, Ambients
<1>2. Agrees(a, NoScope, Belongs(a))
      BY DEF Agrees, NoScope, Belongs, None
<1>3. a # None /\ None \in Assignments \cup {None}
      BY ContextAssumption
<1>4. CASE Install(a, t)
      <2>1. /\ Begin(t, None, NoScope, Belongs(a)) /\ container' = container
            /\ installed' = a /\ started' = {a} /\ Live = {}
            BY <1>4 DEF Install, ContextInv, ProcessInv
      <2>2. ProcessInv'
            BY <1>4, <2>1 DEF Install, Begin, ContextInv, ProcessInv, Fits
      <2>3. Agrees(IF None # None THEN None ELSE installed', NoScope, Belongs(a))
            BY <1>2, <2>1
      <2>4. installed' \in Assignments \cup {None} /\ started' \subseteq Assignments
            BY <2>1
      <2> QED BY <1>1, <1>3, <2>1, <2>2, <2>3, <2>4, BeginKeeps
<1>5. CASE Scope(a, t)
      <2>1. /\ Begin(t, a, NoScope, Belongs(a)) /\ container' = container
            /\ installed' = installed /\ started' = started \cup {a}
            BY <1>5 DEF Scope
      <2>2. ProcessInv'
            BY <1>5, <2>1 DEF Scope, ContextInv, ProcessInv
      <2>3. Agrees(IF a # None THEN a ELSE installed', NoScope, Belongs(a))
            BY <1>2, <1>3
      <2>4. installed' \in Assignments \cup {None} /\ started' \subseteq Assignments
            BY <2>1 DEF ContextInv, Fits
      <2> QED BY <1>1, <2>1, <2>2, <2>3, <2>4, BeginKeeps
<1> QED BY <1>4, <1>5

LEMMA RunLocallyKeeps ==
    ASSUME ContextInv, NEW t \in Strands, RunLocally(t)
    PROVE  ContextInv'
<1>1. NoScope \in Scopes /\ Belongs(None) \in Ambients
      BY DEF NoScope, Scopes, Belongs, Ambients
<1>2. /\ Begin(t, None, NoScope, Belongs(None))
      /\ container' = container /\ installed' = installed /\ started' = started
      BY DEF RunLocally
<1>3. installed' = None
      BY <1>2 DEF RunLocally, ContextInv, ProcessInv
<1>4. Agrees(IF None # None THEN None ELSE installed', NoScope, Belongs(None))
      BY <1>3 DEF Agrees, NoScope, Belongs, None
<1>5. ProcessInv'
      BY <1>2, <1>3 DEF RunLocally, ProcessInv
<1>6. /\ None \in Assignments \cup {None}
      /\ installed' \in Assignments \cup {None} /\ started' \subseteq Assignments
      BY <1>2 DEF ContextInv, Fits
<1> QED BY <1>1, <1>2, <1>4, <1>5, <1>6, BeginKeeps

(* join! and flyte::spawn: the new strand is what the old one is. *)
LEMMA MovedKeeps ==
    ASSUME ContextInv, NEW t \in Strands, NEW u \in Strands,
           Branch(t, u) \/ Spawn(t, u)
    PROVE  ContextInv'
<1>1. /\ t \in Live /\ Innermost(scopes[t]) \in Scopes /\ Innermost(ambient[t]) \in Ambients
      /\ Agrees(CurrentState(t), Innermost(scopes[t]), Innermost(ambient[t]))
      BY LiveStrand DEF Branch, Spawn, ContextInv
<1>2. /\ Begin(u, current[t], Innermost(scopes[t]), Innermost(ambient[t]))
      /\ container' = container /\ installed' = installed /\ started' = started
      BY DEF Branch, Spawn
<1>3. /\ current[t] \in Assignments \cup {None}
      /\ installed' \in Assignments \cup {None} /\ started' \subseteq Assignments
      BY <1>2 DEF ContextInv, Fits
<1>4. Agrees(IF current[t] # None THEN current[t] ELSE installed',
             Innermost(scopes[t]), Innermost(ambient[t]))
      BY <1>1, <1>2 DEF CurrentState
<1>5. ProcessInv'
      BY <1>1, <1>2 DEF Begin, ContextInv, ProcessInv, Fits
<1> QED BY <1>1, <1>2, <1>3, <1>4, <1>5, BeginKeeps

(* tokio::spawn: only a process-wide action reaches the new strand, and in  *)
(* its process there is no other.                                           *)
LEMMA TokioSpawnKeeps ==
    ASSUME ContextInv, NEW t \in Strands, NEW u \in Strands, TokioSpawn(t, u)
    PROVE  ContextInv'
<1> DEFINE left == [Innermost(ambient[t]) EXCEPT !.carried = "no"]
<1>1. /\ t \in Live /\ Innermost(ambient[t]) \in Ambients
      /\ Agrees(CurrentState(t), Innermost(scopes[t]), Innermost(ambient[t]))
      BY LiveStrand DEF TokioSpawn, ContextInv
<1>2. /\ Begin(u, None, NoScope, left)
      /\ container' = container /\ installed' = installed /\ started' = started
      BY DEF TokioSpawn
<1>3. NoScope \in Scopes /\ left \in Ambients
      BY <1>1 DEF NoScope, Scopes, Ambients
<1>4. installed # None => CurrentState(t) = installed
      BY DEF ContextInv, ProcessInv, CurrentState
<1>5. installed # None => left.owner = installed
      BY <1>1, <1>4 DEF Agrees, Ambients
<1>6. left.carried = "no"
      BY <1>1 DEF Ambients
<1> HIDE DEF left
<1>7. Agrees(IF None # None THEN None ELSE installed', NoScope, left)
      BY <1>2, <1>5, <1>6 DEF Agrees
<1>8. ProcessInv'
      BY <1>1, <1>2 DEF Begin, ContextInv, ProcessInv, Fits
<1>9. /\ None \in Assignments \cup {None}
      /\ installed' \in Assignments \cup {None} /\ started' \subseteq Assignments
      BY <1>2 DEF ContextInv, Fits
<1> QED BY <1>2, <1>3, <1>7, <1>8, <1>9, BeginKeeps

-----------------------------------------------------------------------------
(* The invariant *)

LEMMA ContextInit == Init => ContextInv
<1> SUFFICES ASSUME Init PROVE ContextInv
    OBVIOUS
<1>1. Fits
      BY EmptySeq DEF Init, Fits
<1>2. ProcessInv
      BY DEF Init, ProcessInv, Live
<1>3. LastInv
      BY DEF Init, LastInv, NoCall, Recorded, UnderItsOwnAction, NestedStepsArePlain,
             GroupsAreKept, NothingGoesUnrecorded
<1>4. \A t \in Strands : StrandInv(t)
      BY EmptySeq DEF Init, StrandInv
<1> QED BY <1>1, <1>2, <1>3, <1>4 DEF ContextInv

LEMMA ContextStep == ContextInv /\ [Next]_vars => ContextInv'
<1> SUFFICES ASSUME ContextInv, [Next]_vars PROVE ContextInv'
    OBVIOUS
<1>1. ASSUME NEW t \in Strands, NEW a \in Assignments, Install(a, t) \/ Scope(a, t)
      PROVE  ContextInv'
      BY <1>1, StartedKeeps
<1>2. ASSUME NEW t \in Strands, RunLocally(t)
      PROVE  ContextInv'
      BY <1>2, RunLocallyKeeps
<1>3. ASSUME NEW t \in Strands, NEW u \in Strands, Branch(t, u) \/ Spawn(t, u)
      PROVE  ContextInv'
      BY <1>3, MovedKeeps
<1>4. ASSUME NEW t \in Strands, NEW u \in Strands, TokioSpawn(t, u)
      PROVE  ContextInv'
      BY <1>4, TokioSpawnKeeps
<1>5. ASSUME NEW t \in Strands, NEW g \in Groups, EnterGroup(t, g)
      PROVE  ContextInv'
      BY <1>5, EnterGroupKeeps
<1>6. ASSUME NEW t \in Strands, CallStep(t)
      PROVE  ContextInv'
      BY <1>6, CallStepKeeps
<1>7. ASSUME NEW t \in Strands, Leave(t)
      PROVE  ContextInv'
      BY <1>7, LeaveKeeps
<1>8. ASSUME NEW t \in Strands, CreateCondition(t)
      PROVE  ContextInv'
      BY <1>8, CreateConditionKeeps
<1>9. ASSUME UNCHANGED vars
      PROVE  ContextInv'
      <2>1. Fits' /\ ProcessInv' /\ \A t \in Strands : StrandInv(t)'
            BY <1>9 DEF vars, ContextInv, Fits, ProcessInv, Live, StrandInv, CurrentState
      <2>2. LastInv'
            BY <1>9 DEF vars, ContextInv, LastInv, Recorded, UnderItsOwnAction,
                        NestedStepsArePlain, GroupsAreKept, NothingGoesUnrecorded
      <2> QED BY <2>1, <2>2 DEF ContextInv
<1> QED BY <1>1, <1>2, <1>3, <1>4, <1>5, <1>6, <1>7, <1>8, <1>9
        DEF Next, StrandStep, Terminated

LEMMA ContextInvariant == Spec => []ContextInv
<1> QED BY ContextInit, ContextStep, PTL DEF Spec

-----------------------------------------------------------------------------
(* Theorems *)

(* The state of the process, of its strands and of what they record is      *)
(* well formed.  (STATE, CURRENT, GROUP and IN_TRACE.)                      *)
THEOREM ContextTypeCorrect == Spec => []TypeOK
<1>1. ContextInv => TypeOK
      BY DEF ContextInv, Fits, LastInv, TypeOK
<1> QED BY <1>1, ContextInvariant, PTL

(* Whatever mixture of joins, spawns, groups and steps brought the code     *)
(* where it is, what it records is its own action's and no other's.         *)
(* (current, scope, install.)                                               *)
THEOREM EverythingUnderItsOwnAction == Spec => []UnderItsOwnAction
<1>1. ContextInv => UnderItsOwnAction
      BY DEF ContextInv, LastInv
<1> QED BY <1>1, ContextInvariant, PTL

(* No step within a step makes an action of its own while join! and         *)
(* flyte::spawn are what moves it.  (IN_TRACE and its capture.)             *)
THEOREM NestedStepsStayPlain == Spec => []NestedStepsArePlain
<1>1. ContextInv => NestedStepsArePlain
      BY DEF ContextInv, LastInv
<1> QED BY <1>1, ContextInvariant, PTL

(* The group recorded is the innermost one the code is in.  (GROUP and its  *)
(* capture.)                                                                *)
THEOREM GroupsStayKept == Spec => []GroupsAreKept
<1>1. ContextInv => GroupsAreKept
      BY DEF ContextInv, LastInv
<1> QED BY <1>1, ContextInvariant, PTL

(* No call of a step goes unrecorded and no condition is refused in code    *)
(* that join! and flyte::spawn brought there.  (CURRENT and its capture.)   *)
THEOREM EverythingIsRecorded == Spec => []NothingGoesUnrecorded
<1>1. ContextInv => NothingGoesUnrecorded
      BY DEF ContextInv, LastInv
<1> QED BY <1>1, ContextInvariant, PTL
=============================================================================
