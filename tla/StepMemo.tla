------------------------------ MODULE StepMemo ------------------------------
(***************************************************************************)
(* What the trace protocol promises the author of a task, without names,   *)
(* sequence numbers, uploads, caches or a backend: a memo of earlier runs. *)
(*                                                                         *)
(* In every attempt each traced call is given at most one value: that of   *)
(* its own run in this attempt, or that of a run of the same step in the   *)
(* same group in an earlier attempt, which no other call of the attempt is *)
(* given.  A run can take the place of an earlier one of its step in the   *)
(* memo, but not of one that this attempt has given to a call.             *)
(***************************************************************************)
EXTENDS Naturals

CONSTANTS Calls, StepOf, GroupOf

VARIABLES attempt, given, memo

memoVars == <<attempt, given, memo>>

NoRun == <<>>

(* A run is the call that ran and the attempt it ran in. *)
SameStep(v, c) == StepOf[v[1]] = StepOf[c] /\ GroupOf[v[1]] = GroupOf[c]

MemoInit ==
    /\ attempt = 1
    /\ given = [c \in Calls |-> NoRun]
    /\ memo = {}

Run(c) ==
    /\ given[c] = NoRun
    /\ given' = [given EXCEPT ![c] = <<c, attempt>>]
    /\ UNCHANGED <<attempt, memo>>

(* The run of this attempt enters the memo, alone or in place of another. *)
Keep(c) ==
    /\ given[c] = <<c, attempt>>
    /\ \/ memo' = memo \cup {given[c]}
       \/ \E v \in memo :
            /\ SameStep(v, c)
            /\ v[2] < attempt
            /\ \A d \in Calls : given[d] # v
            /\ memo' = (memo \ {v}) \cup {given[c]}
    /\ UNCHANGED <<attempt, given>>

Replay(c) ==
    /\ given[c] = NoRun
    /\ \E v \in memo :
        /\ SameStep(v, c)
        /\ v[2] < attempt
        /\ \A d \in Calls : given[d] # v
        /\ given' = [given EXCEPT ![c] = v]
    /\ UNCHANGED <<attempt, memo>>

(* The caller stopped waiting for the call's own run. *)
Forget(c) ==
    /\ given[c] = <<c, attempt>>
    /\ given' = [given EXCEPT ![c] = NoRun]
    /\ UNCHANGED <<attempt, memo>>

NextAttempt ==
    /\ attempt' = attempt + 1
    /\ given' = [c \in Calls |-> NoRun]
    /\ UNCHANGED memo

MemoNext ==
    \/ NextAttempt
    \/ \E c \in Calls : Run(c) \/ Keep(c) \/ Replay(c) \/ Forget(c)

MemoSpec == MemoInit /\ [][MemoNext]_memoVars
=============================================================================
