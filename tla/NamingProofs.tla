---------------------------- MODULE NamingProofs ----------------------------
(***************************************************************************)
(* Names are their parts: what a traced call's name and its counter's key  *)
(* are spelled from can be read back from them, however long the parts.    *)
(***************************************************************************)
EXTENDS Naming, SequenceTheorems, TLAPS

Separators == {"-", ":"}

(* The letters that names are spelled with.  Numerals are told apart, and   *)
(* from the separators.                                                     *)
Alphabet(L) ==
    /\ Separators \subseteq L
    /\ \A n \in Nat : Numeral(n) \in L \ Separators
    /\ \A m, n \in Nat : Numeral(m) = Numeral(n) => m = n

(* Strings over L without a separator in them. *)
Plain(L) == {s \in Seq(L) : \A i \in 1..Len(s) : s[i] \notin Separators}

(* What may follow the last part that is always there. *)
Suffix(x, g) == IF g = NoGroup THEN <<>> ELSE <<x>> \o g

-----------------------------------------------------------------------------
(* Concatenation and strings of one letter, under names that the provers     *)
(* need not look behind.                                                    *)
Cat(s, t) == s \o t
One(x) == <<x>>

LEMMA CatType == \A L : \A s, t \in Seq(L) : Cat(s, t) \in Seq(L)
BY ConcatProperties DEF Cat

LEMMA CatAssociates ==
    \A L : \A r, s, t \in Seq(L) : Cat(Cat(r, s), t) = Cat(r, Cat(s, t))
BY ConcatAssociative DEF Cat

LEMMA CatCancels == \A L : \A s, t, u \in Seq(L) : Cat(s, t) = Cat(s, u) => t = u
BY ConcatSimplifications DEF Cat

LEMMA CatNothing == \A L : \A s \in Seq(L) : Cat(s, <<>>) = s
BY ConcatEmptySeq DEF Cat

LEMMA LetterType ==
    ASSUME NEW L, NEW x \in L
    PROVE  /\ One(x) \in Seq(L)
           /\ x \notin Separators => One(x) \in Plain(L)
BY DEF Plain, One

LEMMA LetterIsRead == \A x, y : One(x) = One(y) => x = y
BY DEF One

LEMMA PlainType == \A L : Plain(L) \subseteq Seq(L)
BY DEF Plain

(* String a begins with s, and letter x comes next. *)
Continues(a, s, x) ==
    /\ Len(s) + 1 \in 1..Len(a)
    /\ a[Len(s) + 1] = x
    /\ \A i \in 1..Len(s) : a[i] = s[i]

LEMMA CutIsThere ==
    ASSUME NEW L, NEW x \in L, NEW s \in Seq(L), NEW t \in Seq(L)
    PROVE  Continues(Cat(s, Cat(One(x), t)), s, x)
<1> DEFINE y == <<x>> \o t
           z == s \o y
<1>1. <<x>> \in Seq(L) /\ Len(<<x>>) = 1 /\ <<x>>[1] = x
      OBVIOUS
<1>2. y \in Seq(L) /\ Len(y) = 1 + Len(t) /\ y[1] = x
      BY <1>1, ConcatProperties
<1>3. Len(s) \in Nat /\ Len(t) \in Nat
      OBVIOUS
<1> HIDE DEF y
<1>4. /\ z \in Seq(L) /\ Len(z) = Len(s) + Len(y)
      /\ \A i \in 1..(Len(s) + Len(y)) :
            z[i] = IF i <= Len(s) THEN s[i] ELSE y[i - Len(s)]
      BY <1>2, ConcatProperties
<1>5. Cat(s, Cat(One(x), t)) = z
      BY DEF Cat, One, y
<1> HIDE DEF z
<1>6. Len(s) + 1 \in 1..(Len(s) + Len(y)) /\ ~ Len(s) + 1 <= Len(s)
      /\ (Len(s) + 1) - Len(s) = 1
      BY <1>2, <1>3
<1>7. z[Len(s) + 1] = x
      BY <1>2, <1>4, <1>6
<1>8. \A i \in 1..Len(s) : z[i] = s[i]
      BY <1>2, <1>3, <1>4
<1> QED BY <1>4, <1>5, <1>6, <1>7, <1>8 DEF Continues

LEMMA PlainIsShorter ==
    ASSUME NEW L, NEW x \in Separators, x \in L,
           NEW s \in Plain(L), NEW a \in Plain(L), NEW t \in Seq(L)
    PROVE  a # Cat(s, Cat(One(x), t))
<1>1. s \in Seq(L) /\ a \in Seq(L)
      BY DEF Plain
<1>2. Continues(Cat(s, Cat(One(x), t)), s, x)
      BY <1>1, CutIsThere
<1>3. ~ Continues(a, s, x)
      BY DEF Continues, Plain
<1> QED BY <1>2, <1>3

(* At its first separator, a string is cut in one way only. *)
LEMMA CutOnce ==
    ASSUME NEW L, NEW x \in Separators, x \in L,
           NEW s \in Plain(L), NEW u \in Plain(L), NEW t \in Seq(L), NEW w \in Seq(L),
           Cat(s, Cat(One(x), t)) = Cat(u, Cat(One(x), w))
    PROVE  s = u /\ t = w
<1> DEFINE a == Cat(s, Cat(One(x), t))
           b == Cat(u, Cat(One(x), w))
<1>1. s \in Seq(L) /\ u \in Seq(L) /\ Len(s) \in Nat /\ Len(u) \in Nat
      BY DEF Plain
<1>2. Continues(a, s, x) /\ Continues(b, u, x)
      BY <1>1, CutIsThere
<1>3. a = b
      OBVIOUS
<1> HIDE DEF a, b
<1>4. ~ Len(s) < Len(u)
  <2>1. SUFFICES ASSUME Len(s) < Len(u) PROVE FALSE
        OBVIOUS
  <2>2. Len(s) + 1 \in 1..Len(u)
        BY <1>1, <2>1
  <2> QED BY <1>2, <1>3, <2>2 DEF Continues, Plain
<1>5. ~ Len(u) < Len(s)
  <2>1. SUFFICES ASSUME Len(u) < Len(s) PROVE FALSE
        OBVIOUS
  <2>2. Len(u) + 1 \in 1..Len(s)
        BY <1>1, <2>1
  <2> QED BY <1>2, <1>3, <2>2 DEF Continues, Plain
<1>6. Len(s) = Len(u)
      BY <1>1, <1>4, <1>5
<1>7. s = u
      BY <1>1, <1>2, <1>3, <1>6, SeqEqual DEF Continues
<1>8. One(x) \in Seq(L)
      BY LetterType
<1>9. Cat(One(x), t) = Cat(One(x), w)
      BY <1>1, <1>7, <1>8, CatType, CatCancels
<1> QED BY <1>7, <1>8, <1>9, CatCancels

LEMMA SuffixType ==
    ASSUME NEW L, NEW x \in L, NEW g \in Seq(L)
    PROVE  /\ Suffix(x, g) \in Seq(L)
           /\ \A s \in Seq(L) : Cat(s, Suffix(x, g)) =
                 IF g = NoGroup THEN s ELSE Cat(Cat(s, One(x)), g)
<1>1. One(x) \in Seq(L)
      BY LetterType
<1>2. Suffix(x, g) = IF g = NoGroup THEN <<>> ELSE Cat(One(x), g)
      BY DEF Suffix, Cat, One
<1>3. Suffix(x, g) \in Seq(L)
      BY <1>1, <1>2, CatType
<1>4. ASSUME NEW s \in Seq(L)
      PROVE  /\ Cat(s, <<>>) = s
             /\ Cat(s, Cat(One(x), g)) = Cat(Cat(s, One(x)), g)
      BY <1>1, CatAssociates, CatNothing
<1> QED BY <1>2, <1>3, <1>4

(* A string is cut in one way from the suffix after it, too. *)
LEMMA SuffixCutOnce ==
    ASSUME NEW L, NEW x \in Separators, x \in L,
           NEW s \in Plain(L), NEW u \in Plain(L), NEW g \in Seq(L), NEW h \in Seq(L),
           Cat(s, Suffix(x, g)) = Cat(u, Suffix(x, h))
    PROVE  s = u /\ g = h
<1>1. s \in Seq(L) /\ u \in Seq(L) /\ One(x) \in Seq(L)
      BY LetterType DEF Plain
<1>2. /\ Cat(s, Suffix(x, g)) = IF g = NoGroup THEN s ELSE Cat(s, Cat(One(x), g))
      /\ Cat(u, Suffix(x, h)) = IF h = NoGroup THEN u ELSE Cat(u, Cat(One(x), h))
      BY <1>1, SuffixType, CatAssociates
<1>3. CASE g # NoGroup /\ h # NoGroup
  <2>1. Cat(s, Cat(One(x), g)) = Cat(u, Cat(One(x), h))
        BY <1>2, <1>3
  <2> QED BY <2>1, CutOnce
<1>4. CASE g = NoGroup /\ h # NoGroup
      BY <1>2, <1>4, PlainIsShorter
<1>5. CASE g # NoGroup /\ h = NoGroup
      BY <1>2, <1>5, PlainIsShorter
<1>6. CASE g = NoGroup /\ h = NoGroup
      BY <1>2, <1>6
<1> QED BY <1>3, <1>4, <1>5, <1>6

-----------------------------------------------------------------------------
(* Traced calls                                                             *)

(* A function's name, its version, a digest of its inputs, a number and a    *)
(* group, as the code has them: only a version must not have a separator.   *)
Traced(L) ==
    [function : L \ Separators, version : Plain(L), hash : Plain(L), seq : Nat,
     group : Seq(L)]

NameOf(parent, p) ==
    SubActionName(parent, p.hash, Identity(p.function, p.version), p.seq, p.group)

KeyOf(p) == SequenceKey(TraceKey(Identity(p.function, p.version), p.hash), p.group)

LEMMA PartTypes ==
    ASSUME NEW L, Alphabet(L), NEW p \in Traced(L)
    PROVE  /\ "-" \in L /\ ":" \in L
           /\ One("-") \in Seq(L) /\ One(":") \in Seq(L)
           /\ One(p.function) \in Seq(L) /\ One(p.function) \in Plain(L)
           /\ One(Numeral(p.seq)) \in Seq(L) /\ One(Numeral(p.seq)) \in Plain(L)
           /\ p.version \in Seq(L) /\ p.version \in Plain(L)
           /\ p.hash \in Seq(L) /\ p.hash \in Plain(L)
           /\ p.group \in Seq(L)
           /\ Suffix("-", p.group) \in Seq(L) /\ Suffix(":", p.group) \in Seq(L)
<1>1. "-" \in L /\ ":" \in L
      BY DEF Alphabet, Separators
<1>2. /\ p.function \in L \ Separators /\ Numeral(p.seq) \in L \ Separators
      /\ p.version \in Plain(L) /\ p.hash \in Plain(L) /\ p.group \in Seq(L)
      BY DEF Alphabet, Traced
<1> QED BY <1>1, <1>2, LetterType, PlainType, SuffixType

(* A name, from its first part to its last. *)
LEMMA NameIsSpelled ==
    ASSUME NEW L, Alphabet(L), NEW parent \in Seq(L), NEW p \in Traced(L)
    PROVE  NameOf(parent, p) =
             Cat(parent, Cat(One("-"),
               Cat(p.hash, Cat(One("-"),
                 Cat(One(p.function), Cat(One("-"),
                   Cat(p.version, Cat(One("-"),
                     Cat(One(Numeral(p.seq)), Suffix("-", p.group))))))))))
<1> DEFINE d == One("-")
           f == One(p.function)
           n == One(Numeral(p.seq))
           s == Suffix("-", p.group)
<1>1. /\ d \in Seq(L) /\ f \in Seq(L) /\ n \in Seq(L) /\ s \in Seq(L)
      /\ p.hash \in Seq(L) /\ p.version \in Seq(L)
      BY PartTypes
<1>2. <<p.function, "-">> = Cat(f, d) /\ <<"-", Numeral(p.seq)>> = Cat(d, n)
      BY DEF Cat, One
<1>3. NameOf(parent, p) =
        Cat(Cat(Cat(Cat(Cat(Cat(parent, d), p.hash), d), Cat(Cat(f, d), p.version)),
                Cat(d, n)), s)
  <2>1. NameOf(parent, p) =
          ((((((parent \o <<"-">>) \o p.hash) \o <<"-">>)
                \o (<<p.function, "-">> \o p.version)) \o <<"-", Numeral(p.seq)>>)
             \o Suffix("-", p.group))
        BY DEF NameOf, SubActionName, Components, Identity, Suffix
  <2> QED BY <1>2, <2>1 DEF Cat, One
<1> HIDE DEF d, f, n, s
<1>4. ASSUME NEW a \in Seq(L), NEW b \in Seq(L)
      PROVE  Cat(a, b) \in Seq(L)
      BY CatType
<1>5. ASSUME NEW a \in Seq(L), NEW b \in Seq(L), NEW c \in Seq(L)
      PROVE  Cat(Cat(a, b), c) = Cat(a, Cat(b, c))
      BY CatAssociates
<1>6. Cat(Cat(f, d), p.version) = Cat(f, Cat(d, p.version))
      BY <1>1, <1>5
<1>7. ASSUME NEW a \in Seq(L)
      PROVE  Cat(Cat(Cat(a, Cat(f, Cat(d, p.version))), Cat(d, n)), s)
               = Cat(a, Cat(f, Cat(d, Cat(p.version, Cat(d, Cat(n, s))))))
  <2> DEFINE b == Cat(d, p.version)
             c == Cat(d, n)
             e == Cat(d, Cat(n, s))
  <2>1. b \in Seq(L) /\ c \in Seq(L) /\ e \in Seq(L) /\ Cat(f, b) \in Seq(L)
        BY <1>1, <1>4
  <2>2. Cat(c, s) = e /\ Cat(b, e) = Cat(d, Cat(p.version, e))
        BY <1>1, <1>5, <2>1
  <2> HIDE DEF b, c, e
  <2>3. Cat(Cat(a, Cat(f, b)), c) = Cat(a, Cat(Cat(f, b), c))
        BY <1>5, <2>1
  <2>4. Cat(Cat(Cat(f, b), c), s) = Cat(f, Cat(b, e))
        BY <1>1, <1>4, <1>5, <2>1, <2>2
  <2>5. Cat(Cat(a, Cat(Cat(f, b), c)), s) = Cat(a, Cat(f, Cat(b, e)))
        BY <1>1, <1>4, <1>5, <2>1, <2>4
  <2> QED BY <2>2, <2>3, <2>5 DEF b, c, e
<1>8. Cat(Cat(Cat(parent, d), p.hash), d) \in Seq(L)
      BY <1>1, <1>4
<1>9. ASSUME NEW b \in Seq(L)
      PROVE  Cat(Cat(Cat(Cat(parent, d), p.hash), d), b)
               = Cat(parent, Cat(d, Cat(p.hash, Cat(d, b))))
  <2>1. /\ Cat(parent, d) \in Seq(L) /\ Cat(Cat(parent, d), p.hash) \in Seq(L)
        /\ Cat(d, b) \in Seq(L) /\ Cat(p.hash, Cat(d, b)) \in Seq(L)
        BY <1>1, <1>4
  <2>2. Cat(Cat(Cat(Cat(parent, d), p.hash), d), b)
          = Cat(Cat(Cat(parent, d), p.hash), Cat(d, b))
        BY <1>1, <1>5, <2>1
  <2>3. @ = Cat(Cat(parent, d), Cat(p.hash, Cat(d, b)))
        BY <1>1, <1>5, <2>1
  <2>4. @ = Cat(parent, Cat(d, Cat(p.hash, Cat(d, b))))
        BY <1>1, <1>5, <2>1
  <2> QED BY <2>2, <2>3, <2>4
<1>10. Cat(f, Cat(d, Cat(p.version, Cat(d, Cat(n, s))))) \in Seq(L)
       BY <1>1, <1>4
<1>11. NameOf(parent, p) =
         Cat(parent, Cat(d, Cat(p.hash, Cat(d,
           Cat(f, Cat(d, Cat(p.version, Cat(d, Cat(n, s)))))))))
       BY <1>3, <1>6, <1>7, <1>8, <1>9, <1>10
<1> QED BY <1>11 DEF d, f, n, s

(* hash::sub_action_name joins its parts with "-" and nothing escapes one:   *)
(* two calls under one parent get one name only if they are calls of one     *)
(* function in one version, on inputs of one digest, in one group, with one  *)
(* number -- the tuple that Trace takes for the name -- provided that no     *)
(* version has a separator in it.  A group may have any.                     *)
THEOREM OneNameOneCall ==
    ASSUME NEW L, Alphabet(L), NEW parent \in Seq(L),
           NEW p \in Traced(L), NEW q \in Traced(L),
           NameOf(parent, p) = NameOf(parent, q)
    PROVE  p = q
<1> DEFINE d == One("-")
           end(r) == Cat(One(Numeral(r.seq)), Suffix("-", r.group))
           tail(r) == Cat(r.version, Cat(d, end(r)))
           rest(r) == Cat(One(r.function), Cat(d, tail(r)))
           all(r) == Cat(r.hash, Cat(d, rest(r)))
<1>1. ASSUME NEW r \in Traced(L)
      PROVE  /\ end(r) \in Seq(L) /\ tail(r) \in Seq(L) /\ rest(r) \in Seq(L)
             /\ all(r) \in Seq(L) /\ Cat(d, all(r)) \in Seq(L)
             /\ One(r.function) \in Plain(L) /\ r.hash \in Plain(L)
             /\ r.version \in Plain(L) /\ r.group \in Seq(L)
             /\ One(Numeral(r.seq)) \in Plain(L)
             /\ NameOf(parent, r) = Cat(parent, Cat(d, all(r)))
      BY <1>1, PartTypes, CatType, NameIsSpelled
<1>2. "-" \in Separators /\ "-" \in L /\ d \in Seq(L)
      BY PartTypes DEF Separators
<1> HIDE DEF end, tail, rest, all
<1>3. Cat(d, all(p)) = Cat(d, all(q))
      BY <1>1, CatCancels
<1>4. all(p) = all(q)
      BY <1>1, <1>2, <1>3, CatCancels
<1>5. p.hash = q.hash /\ rest(p) = rest(q)
      BY <1>1, <1>2, <1>4, CutOnce DEF all
<1>6. One(p.function) = One(q.function) /\ tail(p) = tail(q)
      BY <1>1, <1>2, <1>5, CutOnce DEF rest
<1>7. p.version = q.version /\ end(p) = end(q)
      BY <1>1, <1>2, <1>6, CutOnce DEF tail
<1>8. One(Numeral(p.seq)) = One(Numeral(q.seq)) /\ p.group = q.group
      BY <1>1, <1>2, <1>7, SuffixCutOnce DEF end
<1>9. p.function = q.function /\ Numeral(p.seq) = Numeral(q.seq)
      BY <1>6, <1>8, LetterIsRead
<1> QED BY <1>5, <1>7, <1>8, <1>9 DEF Traced, Alphabet

(* The key of a traced call's counter: two calls draw from one counter       *)
(* exactly if they differ in nothing but their numbers.                      *)
THEOREM OneCounterOneStep ==
    ASSUME NEW L, Alphabet(L), NEW p \in Traced(L), NEW q \in Traced(L)
    PROVE  KeyOf(p) = KeyOf(q) <=> [p EXCEPT !.seq = 0] = [q EXCEPT !.seq = 0]
<1> DEFINE c == One(":")
           d == One("-")
           end(r) == Cat(r.hash, Suffix(":", r.group))
           tail(r) == Cat(r.version, Cat(c, end(r)))
           all(r) == Cat(One(r.function), Cat(d, tail(r)))
<1>1. ASSUME NEW r \in Traced(L)
      PROVE  /\ end(r) \in Seq(L) /\ tail(r) \in Seq(L)
             /\ One(r.function) \in Plain(L) /\ r.hash \in Plain(L)
             /\ r.version \in Plain(L) /\ r.group \in Seq(L)
             /\ KeyOf(r) = all(r)
  <2> DEFINE f == One(r.function)
             s == Suffix(":", r.group)
  <2>1. /\ f \in Plain(L) /\ r.hash \in Plain(L) /\ r.version \in Plain(L)
        /\ c \in Seq(L) /\ d \in Seq(L) /\ f \in Seq(L) /\ r.hash \in Seq(L)
        /\ r.version \in Seq(L) /\ r.group \in Seq(L) /\ s \in Seq(L) /\ ":" \in L
        BY <1>1, PartTypes
  <2>2. <<r.function, "-">> = Cat(f, d)
        BY DEF Cat, One
  <2>3. TraceKey(Identity(r.function, r.version), r.hash)
          = Cat(Cat(Cat(Cat(f, d), r.version), c), r.hash)
        BY <2>2 DEF TraceKey, Identity, Cat, One
  <2> HIDE DEF c, d, f, s
  <2>4. ASSUME NEW a \in Seq(L), NEW b \in Seq(L)
        PROVE  Cat(a, b) \in Seq(L)
        BY CatType
  <2>5. ASSUME NEW x \in Seq(L), NEW y \in Seq(L), NEW z \in Seq(L)
        PROVE  Cat(Cat(x, y), z) = Cat(x, Cat(y, z))
        BY CatAssociates
  <2> DEFINE key == Cat(Cat(Cat(Cat(f, d), r.version), c), r.hash)
  <2>6. key \in Seq(L)
        BY <2>1, <2>4
  <2>7. KeyOf(r) = Cat(key, s)
    <3>1. KeyOf(r) = IF r.group = NoGroup THEN key ELSE Cat(Cat(key, c), r.group)
          BY <2>3 DEF KeyOf, SequenceKey, Cat, One, c
    <3> HIDE DEF key
    <3> QED BY <2>1, <2>6, <3>1, SuffixType DEF s, c
  <2>8. Cat(key, s) = Cat(f, Cat(d, Cat(r.version, Cat(c, Cat(r.hash, s)))))
    <3> DEFINE k == Cat(Cat(Cat(f, d), r.version), c)
               e == Cat(r.hash, s)
    <3>1. /\ Cat(f, d) \in Seq(L) /\ Cat(Cat(f, d), r.version) \in Seq(L)
          /\ k \in Seq(L) /\ e \in Seq(L) /\ Cat(c, e) \in Seq(L)
          /\ Cat(r.version, Cat(c, e)) \in Seq(L)
          BY <2>1, <2>4
    <3>2. Cat(key, s) = Cat(k, e)
          BY <2>1, <2>5, <3>1
    <3> HIDE DEF e
    <3>3. Cat(k, e) = Cat(Cat(Cat(f, d), r.version), Cat(c, e))
          BY <2>1, <2>5, <3>1
    <3>4. @ = Cat(Cat(f, d), Cat(r.version, Cat(c, e)))
          BY <2>1, <2>5, <3>1
    <3>5. @ = Cat(f, Cat(d, Cat(r.version, Cat(c, e))))
          BY <2>1, <2>5, <3>1
    <3> QED BY <3>2, <3>3, <3>4, <3>5 DEF e
  <2> QED BY <2>1, <2>4, <2>7, <2>8 DEF f, s
<1>2. "-" \in Separators /\ "-" \in L /\ ":" \in Separators /\ ":" \in L
      BY PartTypes DEF Separators
<1>3. p.function = q.function /\ p.version = q.version /\ p.hash = q.hash
      /\ p.group = q.group <=> [p EXCEPT !.seq = 0] = [q EXCEPT !.seq = 0]
      BY DEF Traced
<1>4. p.function = q.function /\ p.version = q.version /\ p.hash = q.hash
      /\ p.group = q.group => KeyOf(p) = KeyOf(q)
      BY DEF KeyOf
<1> HIDE DEF end, tail
<1>5. ASSUME KeyOf(p) = KeyOf(q)
      PROVE  p.function = q.function /\ p.version = q.version /\ p.hash = q.hash
             /\ p.group = q.group
  <2>1. One(p.function) = One(q.function) /\ tail(p) = tail(q)
        BY <1>1, <1>2, <1>5, CutOnce
  <2>2. p.version = q.version /\ end(p) = end(q)
        BY <1>1, <1>2, <2>1, CutOnce DEF tail
  <2>3. p.hash = q.hash /\ p.group = q.group
        BY <1>1, <1>2, <2>2, SuffixCutOnce DEF end
  <2> QED BY <2>1, <2>2, <2>3, LetterIsRead
<1> QED BY <1>3, <1>4, <1>5
=============================================================================
