------------------------------ MODULE Context ------------------------------
(***************************************************************************)
(* Which action, which group and which enclosing step the code of a task   *)
(* runs under, and what a traced call or a condition makes of them.        *)
(*                                                                         *)
(* A one-shot worker installs its action for the whole process.  A         *)
(* reusable container scopes each of its actions to a tokio task.  Group   *)
(* and in-trace flag are task-locals in both; futures that are moved to    *)
(* another tokio task keep them if flyte::spawn moved them.                *)
(*                                                                         *)
(* A strand is a future that is polled on its own: a tokio task, or one    *)
(* branch of a join! or select!, whose scopes tokio swaps in and out as it *)
(* is polled.                                                              *)
(*                                                                         *)
(* Simplifications: a call has no name here (Trace has), so all steps are  *)
(* alike; an action is assigned once; strands may outlive their action.    *)
(***************************************************************************)
EXTENDS Naturals, Sequences

CONSTANTS
    Strands,
    Assignments,    \* actions the process may be given
    RunOf,          \* run of each, and
    ActionOf,       \* its action name, which other runs use too
    Groups,         \* names given to flyte::group, "" among them
    Containers,     \* kinds of process: "oneShot", "warm", "local"
    MaxDepth        \* bound: scopes within each other in a strand

None == "none"

ASSUME ContextAssumption ==
    /\ Containers \subseteq {"oneShot", "warm", "local"}
    /\ MaxDepth \in Nat \ {0}
    /\ None \notin Assignments \cup Groups

VARIABLES
    container,  \* kind of this process
    installed,  \* STATE, the process-wide action, or None
    started,    \* actions assigned so far
    current,    \* strand -> CURRENT, the action it is scoped to, or None
    scopes,     \* strand -> its GROUP and IN_TRACE, innermost last
    ambient,    \* history: strand -> what its code belongs to, likewise
    last        \* history: the call just made, or NoCall

vars == <<container, installed, started, current, scopes, ambient, last>>

Innermost(s) == s[Len(s)]

Leaving(s) == SubSeq(s, 1, Len(s) - 1)

Live == {t \in Strands : scopes[t] # <<>>}

NoCall == [kind |-> "no call"]

NoScope == [group |-> None, inTrace |-> "no"]

(* What code belongs to: its action, its group, the step it is a part of,  *)
(* and whether only flyte::spawn has moved it since its action began.       *)
Belongs(a) == [owner |-> a, group |-> None, nested |-> "no", carried |-> "yes"]

-----------------------------------------------------------------------------
(* What the code sees *)

(* The task-local action before the process-wide one. *)
CurrentState(t) == IF current[t] # None THEN current[t] ELSE installed

(* An empty name taken for a group. *)
FaultyCurrentGroup(t) == Innermost(scopes[t]).group

CurrentGroup(t) ==
    LET g == Innermost(scopes[t]).group IN IF g = "" THEN None ELSE g

InTrace(t) == Innermost(scopes[t]).inTrace = "yes"

(* The parent of what is recorded in state a: a view of the controller that *)
(* is bound to its run.                                                     *)
Parent(a) == [run |-> RunOf[a], action |-> ActionOf[a]]

-----------------------------------------------------------------------------

Init ==
    /\ container \in Containers
    /\ installed = None
    /\ started = {}
    /\ current = [t \in Strands |-> None]
    /\ scopes = [t \in Strands |-> <<>>]
    /\ ambient = [t \in Strands |-> <<>>]
    /\ last = NoCall

(* A strand begins, scoped to an action or not. *)
Begin(t, a, scope, belongs) ==
    /\ t \notin Live
    /\ current' = [current EXCEPT ![t] = a]
    /\ scopes' = [scopes EXCEPT ![t] = <<scope>>]
    /\ ambient' = [ambient EXCEPT ![t] = <<belongs>>]
    /\ last' = NoCall

(* worker_main: one action for the process. *)
Install(a, t) ==
    /\ container = "oneShot"
    /\ started = {}
    /\ installed' = a
    /\ started' = {a}
    /\ Begin(t, None, NoScope, Belongs(a))
    /\ UNCHANGED container

(* The first action of a container is installed for the process as well. *)
FaultyScope(a, t) ==
    /\ container = "warm"
    /\ a \notin started
    /\ started' = started \cup {a}
    /\ installed' = IF installed = None THEN a ELSE installed
    /\ Begin(t, a, NoScope, Belongs(a))
    /\ UNCHANGED container

(* A reusable container: one scope for each action. *)
Scope(a, t) ==
    /\ container = "warm"
    /\ a \notin started
    /\ started' = started \cup {a}
    /\ Begin(t, a, NoScope, Belongs(a))
    /\ UNCHANGED <<container, installed>>

(* flyte::run: the task's code in a process without a backend. *)
RunLocally(t) ==
    /\ container = "local"
    /\ Begin(t, None, NoScope, Belongs(None))
    /\ UNCHANGED <<container, installed, started>>

(* A branch of a join! sees what the code around it sees. *)
Branch(t, u) ==
    /\ t \in Live
    /\ Begin(u, current[t], Innermost(scopes[t]), Innermost(ambient[t]))
    /\ UNCHANGED <<container, installed, started>>

(* The flag, the group or the action is left behind. *)
FaultySpawnFlag(t, u) ==
    /\ t \in Live
    /\ Begin(u, current[t], [Innermost(scopes[t]) EXCEPT !.inTrace = "no"],
             Innermost(ambient[t]))
    /\ UNCHANGED <<container, installed, started>>

FaultySpawnGroup(t, u) ==
    /\ t \in Live
    /\ Begin(u, current[t], [Innermost(scopes[t]) EXCEPT !.group = None],
             Innermost(ambient[t]))
    /\ UNCHANGED <<container, installed, started>>

FaultySpawnState(t, u) ==
    /\ t \in Live
    /\ Begin(u, None, Innermost(scopes[t]), Innermost(ambient[t]))
    /\ UNCHANGED <<container, installed, started>>

(* flyte::spawn captures all three, the action only if there is one. *)
Spawn(t, u) ==
    /\ t \in Live
    /\ Begin(u, current[t], Innermost(scopes[t]), Innermost(ambient[t]))
    /\ UNCHANGED <<container, installed, started>>

(* tokio::spawn captures nothing. *)
TokioSpawn(t, u) ==
    /\ t \in Live
    /\ Begin(u, None, NoScope, [Innermost(ambient[t]) EXCEPT !.carried = "no"])
    /\ UNCHANGED <<container, installed, started>>

-----------------------------------------------------------------------------
(* Inside a strand *)

Enter(t, scope, belongs) ==
    /\ Len(scopes[t]) < MaxDepth
    /\ scopes' = [scopes EXCEPT ![t] = Append(@, scope)]
    /\ ambient' = [ambient EXCEPT ![t] = Append(@, belongs)]
    /\ UNCHANGED <<container, installed, started, current>>

(* flyte::group: an inner group replaces the outer one, and "" is none. *)
EnterGroup(t, g) ==
    /\ t \in Live
    /\ Enter(t, [Innermost(scopes[t]) EXCEPT !.group = g],
                [Innermost(ambient[t]) EXCEPT !.group = IF g = "" THEN None ELSE g])
    /\ last' = NoCall

(* A traced function: outside of a step its call is recorded, and its body  *)
(* runs as a step; within one, or without an action, it is a plain call.    *)
CallStep(t) ==
    LET here == Innermost(scopes[t])
        mine == Innermost(ambient[t])
        state == CurrentState(t)
        within == [mine EXCEPT !.nested = "yes"]
    IN /\ t \in Live
       /\ \/ /\ state # None /\ ~InTrace(t)
             /\ Enter(t, [here EXCEPT !.inTrace = "yes"], within)
             /\ last' = [kind |-> "step", of |-> mine,
                         under |-> Parent(state), group |-> CurrentGroup(t)]
          \/ /\ state = None \/ InTrace(t)
             /\ Enter(t, here, within)
             /\ last' = [kind |-> "plain", of |-> mine]

(* The scope, the group or the traced function is left; or the strand ends. *)
Leave(t) ==
    /\ t \in Live
    /\ scopes' = [scopes EXCEPT ![t] = Leaving(@)]
    /\ ambient' = [ambient EXCEPT ![t] = Leaving(@)]
    /\ current' = IF Len(scopes[t]) = 1 THEN [current EXCEPT ![t] = None] ELSE current
    /\ last' = NoCall
    /\ UNCHANGED <<container, installed, started>>

(* A condition does not ask whether it is in a step. *)
CreateCondition(t) ==
    LET state == CurrentState(t)
        mine == Innermost(ambient[t])
    IN /\ t \in Live
       /\ last' = IF state = None THEN [kind |-> "refused", of |-> mine]
                  ELSE [kind |-> "condition", of |-> mine,
                        under |-> Parent(state), group |-> CurrentGroup(t)]
       /\ UNCHANGED <<container, installed, started, current, scopes, ambient>>

(* The one-shot worker is done, or no more actions come. *)
Terminated ==
    /\ Live = {}
    /\ started = Assignments \/ (container = "oneShot" /\ started # {})
    /\ UNCHANGED vars

StrandStep ==
    \E t \in Strands :
        \/ \E a \in Assignments : Install(a, t) \/ Scope(a, t)
        \/ RunLocally(t)
        \/ \E u \in Strands : Branch(t, u) \/ Spawn(t, u) \/ TokioSpawn(t, u)
        \/ \E g \in Groups : EnterGroup(t, g)
        \/ CallStep(t)
        \/ Leave(t)
        \/ CreateCondition(t)

Next == StrandStep \/ Terminated

Spec == Init /\ [][Next]_vars

-----------------------------------------------------------------------------
(* Properties *)

Ambients ==
    [owner : Assignments \cup {None}, group : (Groups \ {""}) \cup {None},
     nested : {"yes", "no"}, carried : {"yes", "no"}]

Scopes == [group : Groups \cup {None}, inTrace : {"yes", "no"}]

Recorded == last.kind \in {"step", "condition"}

TypeOK ==
    /\ container \in Containers
    /\ installed \in Assignments \cup {None}
    /\ started \subseteq Assignments
    /\ current \in [Strands -> Assignments \cup {None}]
    /\ scopes \in [Strands -> Seq(Scopes)]
    /\ ambient \in [Strands -> Seq(Ambients)]
    /\ \A t \in Strands : Len(scopes[t]) = Len(ambient[t])
    /\ last.kind \in {"no call", "step", "plain", "condition", "refused"}
    /\ last # NoCall => last.of \in Ambients
    /\ Recorded => last.group \in (Groups \ {""}) \cup {None}

(* Nothing is ever recorded under another action, or another run's action   *)
(* of the same name, however the code that calls came to be where it is.    *)
(* (current, scope, for_run.)                                               *)
UnderItsOwnAction == Recorded => last.under = Parent(last.of.owner)

(* A step called within a step makes no child action of its own, across     *)
(* join! and flyte::spawn.  (IN_TRACE, and the generated wrapper.)          *)
NestedStepsArePlain ==
    last.kind = "step" /\ last.of.carried = "yes" => last.of.nested = "no"

(* What is recorded is in the group its code is in, the innermost, across   *)
(* join! and flyte::spawn.  (group, current_group and spawn.)               *)
GroupsAreKept ==
    Recorded /\ last.of.carried = "yes" => last.group = last.of.group

(* In a task that runs for the backend no call of a step is lost -- it is   *)
(* recorded, or part of one that is -- and no condition is refused, across  *)
(* join! and flyte::spawn.  (CURRENT, STATE and spawn.)                     *)
NothingGoesUnrecorded ==
    last # NoCall /\ last.of.carried = "yes" /\ last.of.owner # None =>
        /\ last.kind = "plain" => last.of.nested = "yes"
        /\ last.kind # "refused"
=============================================================================
