----------------------------- MODULE MCContext -----------------------------
(***************************************************************************)
(* Instances of Context for TLC.                                           *)
(***************************************************************************)
EXTENDS Context, TLC

CONSTANTS t1, t2, a, b

MCStrands     == {t1, t2}
MCSymmetry    == Permutations(MCStrands)
MCAssignments == {a, b}

(* Root actions of two runs. *)
MCRunOf    == a :> "r1" @@ b :> "r2"
MCActionOf == a :> "a0" @@ b :> "a0"

MCGroups     == {"", "g"}
MCContainers == {"oneShot", "warm", "local"}
=============================================================================
