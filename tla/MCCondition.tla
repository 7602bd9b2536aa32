---------------------------- MODULE MCCondition ----------------------------
(***************************************************************************)
(* Instances of Condition for TLC, and the evaluation of Literals over     *)
(* small inputs.                                                           *)
(***************************************************************************)
EXTENDS Condition

CONSTANTS q1, q2, q3

(* "a" in group b, and then "a:b": one counter.  "a" once more in a traced   *)
(* step, whenever the scheduler likes.  CallsAreOrdered holds of the three.  *)
MCAsks      == {q1, q2, q3}
MCNameOf    == q1 :> <<"a">> @@ q2 :> <<"a", ":", "b">> @@ q3 :> <<"a">>
MCGroupOf   == q1 :> <<"b">> @@ q2 :> NoGroup @@ q3 :> NoGroup
MCTypeOf    == q1 :> "f32" @@ q2 :> "i32" @@ q3 :> "f64"
MCBefore    == {<<q1, q2>>}
MCInside    == {q3}
MCTimeoutOf == q1 :> "positive" @@ q2 :> "zero" @@ q3 :> "none"

(* Of a 3 bit i32, one value and one beyond; of the floats, one that an f32  *)
(* with two bits has to round.                                              *)
MCAnswersTo(type) ==
    CASE type = "integer" -> {-4, 5}
      [] type = "float"   -> {11}
      [] type = "boolean" -> {TRUE}
      [] type = "string"  -> {"yes"}

(* Two questions of one name, in a fixed order, the first in a traced step. *)
ReusedAsks      == {q1, q2}
ReusedNameOf    == [a \in ReusedAsks |-> <<"approve">>]
ReusedGroupOf   == [a \in ReusedAsks |-> NoGroup]
ReusedTypeOf    == [a \in ReusedAsks |-> "bool"]
ReusedInside    == {q1}
ReusedTimeoutOf == [a \in ReusedAsks |-> "none"]

-----------------------------------------------------------------------------
(* Literals *)

(* The floats of precision p, up to the largest i64 and some beyond. *)
Representable(p) ==
    {m * (2 ^ k) : m \in -(2 ^ p - 1)..(2 ^ p - 1), k \in 0..Bits64}

IsNearest(f, p, v) ==
    /\ f \in Representable(p)
    /\ \A w \in Representable(p) : Magnitude(v - f) <= Magnitude(v - w)

NativeValues(t) ==
    CASE t \in IntTypes   -> IntRange(t)
      [] t \in FloatTypes -> Representable(Precision(t))
      [] t = "String"     -> {"", "x"}
      [] t = "bool"       -> BOOLEAN
      [] t = "struct"     -> {[field |-> 1]}

(* A value comes back from its literal as it was: an f32 through the f64 of  *)
(* the wire.                                                                *)
ASSUME ValuesComeBack ==
    \A t \in NativeTypes : \A v \in NativeValues(t) :
        /\ FromLiteral(t, ToLiteral(t, v)) = Ok(v)
        /\ t = "f32" => RoundTo(Mantissa64, v) = v

(* No float is nearer than the one rounded to. *)
ASSUME RoundIsNearest ==
    \A p \in 1..4 : \A v \in -40..40 : IsNearest(RoundTo(p, v), p, v)

(* An integer is cast to an f32 directly.  By way of an f64, as a float on   *)
(* the wire, the same number may come out as another f32.                   *)
ASSUME IntegersAreCastDirectly ==
    /\ 41 \in IntRange("i64")
    /\ FromLiteral("f32", ToLiteral("i64", 41)) = Ok(48)
    /\ FromLiteral("f32", ToLiteral("f64", RoundTo(Mantissa64, 41))) = Ok(32)

(* The entry of a task, and the replay of a step, get what was encoded by    *)
(* name whatever order it was sent in; a missing name, or a literal of       *)
(* another kind, is an error -- but for the integer sent to a float.        *)
Params == << <<"n", "i32">>, <<"x", "f32">> >>

ASSUME EnvelopesDecode ==
    \A n \in IntRange("i32"), x \in -3..3 :
        LET sent == Encode(Params, <<n, x>>) IN
        /\ Decode(Params, sent) = Ok(<<n, x>>)
        /\ Decode(Params, Reverse(sent)) = Ok(<<n, x>>)
        /\ Decode(Params, Tail(sent)) = TypeError
        /\ Decode(Params, << <<"n", ToLiteral("i64", n)>>, <<"x", ToLiteral("i64", x)>> >>)
             = Ok(<<n, x>>)
        /\ Decode(Params, << <<"n", ToLiteral("f64", n)>>, <<"x", ToLiteral("f32", x)>> >>)
             = TypeError
        /\ Decode(OutputsOf("i32"), Encode(OutputsOf("i32"), <<n>>)) = Ok(<<n>>)
        /\ Encode(OutputsOf("unit"), <<>>) = <<>>

(* Steps are told apart by their arguments, in the order they are declared;  *)
(* one without any has no hash in its name.                                 *)
ASSUME InputsAreHashed ==
    /\ InputsHash(Encode(<<>>, <<>>)) = <<>>
    /\ \A n, m \in IntRange("i32"), x, y \in -3..3 :
         InputsHash(Encode(Params, <<n, x>>)) = InputsHash(Encode(Params, <<m, y>>))
             <=> n = m /\ x = y
    /\ InputsHash(Encode(Params, <<1, 1>>)) # InputsHash(Reverse(Encode(Params, <<1, 1>>)))
=============================================================================
