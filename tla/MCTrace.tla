------------------------------ MODULE MCTrace ------------------------------
(***************************************************************************)
(* Instances of Trace for TLC.                                             *)
(***************************************************************************)
EXTENDS Trace, TLC

CONSTANTS c1, c2, c3, stepA, stepB, noGroup, groupX

(* Two identical calls, and the same step once more in a group of its own. *)
MCCalls   == {c1, c2, c3}
MCSteps   == {stepA}
MCGroups  == {noGroup, groupX}
MCStepOf  == [c \in MCCalls |-> stepA]
MCGroupOf == c1 :> noGroup @@ c2 :> noGroup @@ c3 :> groupX
MCUnit    == {}
Identical == Permutations({c1, c2})

(* Two identical calls, for the run with more attempts. *)
PairCalls   == {c1, c2}
PairGroups  == {noGroup}
PairStepOf  == [c \in PairCalls |-> stepA]
PairGroupOf == [c \in PairCalls |-> noGroup]

(* Two different steps, one of them returning unit. *)
UnitCalls   == {c1, c2}
UnitStepsAB == {stepA, stepB}
UnitGroups  == {noGroup}
UnitStepOf  == c1 :> stepA @@ c2 :> stepB
UnitGroupOf == [c \in UnitCalls |-> noGroup]
UnitUnit    == {stepB}
=============================================================================
