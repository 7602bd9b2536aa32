------------------------------- MODULE Naming -------------------------------
(***************************************************************************)
(* How counter keys and child action names are spelled.                    *)
(*                                                                         *)
(* A string is a sequence of letters.  The separators ":" and "-" are      *)
(* letters; what stands between two of them -- a word, a digest, a number  *)
(* -- is one letter as well.  A condition's name, a group and a version    *)
(* are free: they may contain separators.  The md5 of a name is taken to   *)
(* be injective.                                                           *)
(***************************************************************************)
EXTENDS Naturals, Sequences, TLC

(* current_group takes an empty group for none. *)
NoGroup == <<>>

Numeral(n) == ToString(n)

(* A counter shared by all groups. *)
FaultySequenceKey(key, group) == key

SequenceKey(key, group) ==
    IF group = NoGroup THEN key ELSE key \o <<":">> \o group

(* The key of a traced call; that of a condition is its name. *)
TraceKey(identity, inputHash) == identity \o <<":">> \o inputHash

(* #[flyte::trace]: the function with its version, or its body's digest. *)
Identity(function, version) == <<function, "-">> \o version

Components(parent, inputHash, identity, seq) ==
    parent \o <<"-">> \o inputHash \o <<"-">> \o identity \o <<"-", Numeral(seq)>>

(* The group left out of the name. *)
FaultySubActionName(parent, inputHash, identity, seq, group) ==
    Components(parent, inputHash, identity, seq)

SubActionName(parent, inputHash, identity, seq, group) ==
    Components(parent, inputHash, identity, seq)
        \o (IF group = NoGroup THEN <<>> ELSE <<"-">> \o group)

(* A condition passes its name for both parts. *)
ConditionName(parent, name, seq, group) ==
    SubActionName(parent, name, name, seq, group)

(* base36_encode, the digits of a digest in the given base, from the least. *)
Digits[base \in Nat, n \in Nat] ==
    IF n < base THEN <<n>> ELSE <<n % base>> \o Digits[base, n \div base]
=============================================================================
