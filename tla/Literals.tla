------------------------------ MODULE Literals ------------------------------
(***************************************************************************)
(* Native values and Flyte literals: the FlyteType conversions, and the    *)
(* envelopes that carry named literals into a task or step and out of it.  *)
(*                                                                         *)
(* A literal is a pair <<kind, value>>; a binary literal's value is a pair *)
(* <<tag, value>>, and kind "other" stands for a literal that no           *)
(* conversion reads: a collection, a blob, none at all.  A struct's value  *)
(* stands for its msgpack map.  A conversion returns <<"ok", value>> or    *)
(* TypeError.                                                              *)
(*                                                                         *)
(* Simplifications: a float holds integers, to the precision of its        *)
(* mantissa, and no exponent is too large for it; msgpack encodes every    *)
(* struct and decodes what it encoded; a field of an envelope is never     *)
(* without its literal.                                                    *)
(***************************************************************************)
EXTENDS Integers, Sequences, FiniteSets, SequencesExt

CONSTANTS
    Bits64, Bits32,         \* width of an i64 and of an i32 (64 and 32)
    Mantissa64, Mantissa32  \* precision of an f64 and of an f32 (53 and 24)

ASSUME LiteralsAssumption ==
    /\ Bits32 \in Nat \ {0} /\ Bits64 \in Nat /\ Bits32 < Bits64
    /\ Mantissa32 \in Nat \ {0} /\ Mantissa64 \in Nat
    /\ Mantissa32 < Mantissa64

IntTypes   == {"i64", "i32"}
FloatTypes == {"f64", "f32"}
NativeTypes == IntTypes \cup FloatTypes \cup {"String", "bool", "struct"}

(* FlyteType::literal_type: the simple type a literal of the type has. *)
LiteralType(t) ==
    CASE t \in IntTypes   -> "integer"
      [] t \in FloatTypes -> "float"
      [] t = "String"     -> "string"
      [] t = "bool"       -> "boolean"
      [] t = "struct"     -> "struct"

Ok(value) == <<"ok", value>>
TypeError == <<"typeError">>

IsOk(result) == result[1] = "ok"

-----------------------------------------------------------------------------
(* Numbers *)

SignedRange(bits) == -(2 ^ (bits - 1)) .. (2 ^ (bits - 1)) - 1

IntRange(t) == SignedRange(IF t = "i32" THEN Bits32 ELSE Bits64)

Precision(t) == IF t = "f32" THEN Mantissa32 ELSE Mantissa64

Magnitude(v) == IF v < 0 THEN -v ELSE v

(* The distance between floats of precision p around v. *)
Spacing(v, p) ==
    2 ^ (CHOOSE k \in 0..Magnitude(v) :
            /\ Magnitude(v) < 2 ^ (p + k)
            /\ k = 0 \/ Magnitude(v) >= 2 ^ (p + k - 1))

(* The nearest float; of two, the one with an even mantissa. *)
RoundTo(p, v) ==
    LET unit == Spacing(v, p)
        down == Magnitude(v) \div unit
        rest == Magnitude(v) % unit
        mantissa == IF 2 * rest > unit \/ (2 * rest = unit /\ (down % 2) = 1)
                      THEN down + 1 ELSE down
    IN IF v < 0 THEN -(mantissa * unit) ELSE mantissa * unit

-----------------------------------------------------------------------------
(* FlyteType::to_literal and from_literal *)

ToLiteral(t, v) ==
    IF t = "struct" THEN <<"binary", <<"msgpack", v>> >> ELSE <<LiteralType(t), v>>

(* A number is cut to the low bits of its type, a cast in the place of       *)
(* try_from.                                                                *)
FaultyFromInteger(t, v) ==
    LET size == Cardinality(IntRange(t))
    IN Ok(((v + (size \div 2)) % size) - (size \div 2))

(* An integer that does not fit is an error. *)
FromInteger(t, v) == IF v \in IntRange(t) THEN Ok(v) ELSE TypeError

(* Rust's cast to a float, of an f64 or of an i64 as it is: a float takes an *)
(* integer too, and rounds once what it cannot hold.                        *)
FromNumber(t, v) == Ok(RoundTo(Precision(t), v))

(* A binary literal may have no tag. *)
FromLiteral(t, lit) ==
    CASE t \in IntTypes /\ lit[1] = "integer" -> FromInteger(t, lit[2])
      [] t \in FloatTypes /\ lit[1] \in {"float", "integer"} -> FromNumber(t, lit[2])
      [] t \in {"String", "bool"} /\ lit[1] = LiteralType(t) -> Ok(lit[2])
      [] t = "struct" /\ lit[1] = "binary" /\ lit[2][1] \in {"", "msgpack"} -> Ok(lit[2][2])
      [] OTHER -> TypeError

-----------------------------------------------------------------------------
(* Envelopes: sequences of <<name, literal>>.  A signature's parameters are  *)
(* a sequence of <<name, type>>, in the order they are declared.            *)

(* build_inputs and build_outputs *)
Encode(params, args) ==
    [i \in 1..Len(params) |-> <<params[i][1], ToLiteral(params[i][2], args[i])>>]

(* input_literal and output_literal: the first of the name, or none. *)
Lookup(envelope, name) ==
    LET i == SelectInSeq(envelope, LAMBDA field : field[1] = name)
    IN IF i = 0 THEN TypeError ELSE Ok(envelope[i][2])

DecodeOne(envelope, param) ==
    LET found == Lookup(envelope, param[1])
    IN IF IsOk(found) THEN FromLiteral(param[2], found[2]) ELSE TypeError

(* The parameters of a generated entry, decoded by name; the first that      *)
(* fails fails the task.                                                    *)
Decode(params, envelope) ==
    LET decoded == [i \in 1..Len(params) |-> DecodeOne(envelope, params[i])]
    IN IF \A i \in 1..Len(params) : IsOk(decoded[i])
         THEN Ok([i \in 1..Len(params) |-> decoded[i][2]])
         ELSE TypeError

(* A function's one output, or none if it returns unit. *)
OutputsOf(t) == IF t = "unit" THEN <<>> ELSE << <<"o0", t>> >>

(* The hash of an envelope, taken to be injective; empty for no inputs. *)
InputsHash(envelope) == IF envelope = <<>> THEN <<>> ELSE <<"digest", envelope>>
=============================================================================
