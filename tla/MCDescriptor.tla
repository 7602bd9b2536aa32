---------------------------- MODULE MCDescriptor ----------------------------
(***************************************************************************)
(* Instances of Descriptor for TLC.                                        *)
(***************************************************************************)
EXTENDS Descriptor, TLC

CONSTANTS old, new, other

(* Two signatures of the supported version, and one of another. *)
MCDescriptors == {old, new, other}
MCVersionOf   == old :> 1 @@ new :> 1 @@ other :> 2
MCCommits     == {old, new}
MCFallbacks   == {Nothing, old}
MCCheckouts   == {"writable", "readOnly"}

(* No fallback, a writable checkout, and nobody else at work. *)
AloneFallbacks == {Nothing}
AloneCheckouts == {"writable"}
AloneCommits   == {}
=============================================================================
