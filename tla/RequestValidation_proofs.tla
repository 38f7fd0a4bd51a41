---------------------- MODULE RequestValidation_proofs ----------------------
(***************************************************************************)
(* The parser reads every text as the grammar of JSON says, and the errors *)
(* of a request are exactly the parameters that it does not meet.          *)
(*                                                                         *)
(* The parser and the grammar are recursive functions.  Everything about   *)
(* them goes the same way: the places where a claim fails, or how far they *)
(* are from the end, are a set of numbers, which would have a least        *)
(* element (LeastNatural).                                                 *)
(***************************************************************************)
EXTENDS RequestValidation, FiniteSetTheorems, SequenceTheorems, WellFoundedInduction, TLAPS

(* What the lemmas need of a text: it is a sequence of whatever tokens.    *)
IsText(text) == Len(text) \in Nat /\ DOMAIN text = 1..Len(text)

(* A set of natural numbers has a least element: the induction of all that *)
(* follows.                                                                *)
LEMMA LeastNatural ==
  ASSUME NEW T, T \subseteq Nat, T # {}
  PROVE  \E m \in T : \A k \in T : m <= k
<1>1. PICK R : IsWellFoundedOn(R, Nat) /\ \A x, y \in Nat : << x, y >> \in R <=> x < y
  <2>1. \A x, y \in Nat : << x, y >> \in OpToRel(<, Nat) <=> x < y
    BY DEF OpToRel
  <2> QED BY <2>1, NatLessThanWellFounded, Zenon
<1>2. PICK m \in T : \A y \in T : ~(<< y, m >> \in R)
  <2>1. ASSUME NEW RR, NEW SS, IsWellFoundedOn(RR, SS), NEW TT, TT \subseteq SS, TT # {}
        PROVE  \E x \in TT : \A y \in TT : ~(<< y, x >> \in RR)
    BY <2>1, WFMin, SMT
  <2>2. IsWellFoundedOn(R, Nat)
    BY <1>1
  <2> QED BY <2>1, <2>2, Zenon
<1>3. ASSUME NEW k \in T PROVE m <= k
  <2>1. m \in Nat /\ k \in Nat /\ ~(k < m)
    BY <1>1, <1>2
  <2> QED BY <2>1
<1> QED BY <1>3

(* Induction: a set that holds 0 and the successors of what it holds holds *)
(* every natural number.                                                   *)
LEMMA FromZero ==
  ASSUME NEW S, 0 \in S, \A n \in Nat : n \in S => n + 1 \in S
  PROVE  \A n \in Nat : n \in S
<1> DEFINE T == {n \in Nat : n \notin S}
<1> SUFFICES ASSUME T # {} PROVE FALSE
  OBVIOUS
<1>1. PICK m \in T : \A k \in T : m <= k
  BY LeastNatural
<1>2. m - 1 \in Nat /\ m - 1 < m /\ (m - 1) + 1 = m
  <2>1. m # 0 /\ m \in Nat
    OBVIOUS
  <2> QED BY <2>1
<1>3. m - 1 \in S
  <2>1. m - 1 \notin T
    BY <1>1, <1>2
  <2> QED BY <2>1, <1>2
<1> QED BY <1>2, <1>3

(* The same from the end of a text back to its start: what holds at a      *)
(* place when it holds at all that follow holds everywhere.                *)
LEMMA FromTheEnd ==
  ASSUME NEW n \in Nat, NEW S,
         \A i \in 1..(n + 1) : (\A k \in (i + 1)..(n + 1) : k \in S) => i \in S
  PROVE  \A i \in 1..(n + 1) : i \in S
<1> DEFINE T == {k \in 0..n : n + 1 - k \notin S}
<1>1. T = {}
  <2> SUFFICES ASSUME T # {} PROVE FALSE
    OBVIOUS
  <2>0. T \subseteq Nat
    OBVIOUS
  <2>1. PICK m \in T : \A k \in T : m <= k
    <3> HIDE DEF T
    <3> QED BY <2>0, LeastNatural
  <2>2. PICK i \in 1..(n + 1) : i = n + 1 - m
    OBVIOUS
  <2>3. ASSUME NEW k \in (i + 1)..(n + 1) PROVE k \in S
    <3>1. n + 1 - k \in 0..n /\ n + 1 - k < m /\ n + 1 - (n + 1 - k) = k
      BY <2>2
    <3> QED BY <3>1, <2>1
  <2>4. i \in S
    BY <2>3
  <2> QED BY <2>2, <2>4
<1>2. ASSUME NEW i \in 1..(n + 1) PROVE i \in S
  <2>1. n + 1 - i \in 0..n /\ n + 1 - (n + 1 - i) = i
    OBVIOUS
  <2> QED BY <2>1, <1>1
<1> QED BY <1>2

(* SkipWhitespace stops at the first token that is not blank, or at the    *)
(* end, and nowhere else.                                                  *)
LEMMA SkipStops ==
  ASSUME NEW text, IsText(text), NEW i \in Nat
  PROVE  LET s == SkipWhitespace(text, i)
         IN  /\ s \in Nat /\ i <= s
             /\ i <= Len(text) + 1 => s <= Len(text) + 1
             /\ \A k \in i..(s - 1) : At(text, k) = "blank"
             /\ i > Len(text) => s = i
             /\ i > 0 => At(text, s) # "blank"
<1>1. CASE i > Len(text)
  BY <1>1 DEF SkipWhitespace, IsText, At
<1>2. CASE i <= Len(text)
  <2> DEFINE T == {j \in i..(Len(text) + 1) : At(text, j) # "blank"}
  <2>1. T \subseteq Nat /\ T # {}
    <3>1. Len(text) + 1 \in T
      BY <1>2 DEF At, IsText
    <3> QED BY <3>1 DEF IsText
  <2>2. PICK m \in T : \A k \in T : m <= k
    BY <2>1, LeastNatural
  <2>3. Min(T) \in T /\ \A k \in T : Min(T) <= k
    BY <2>2, Zenon DEF Min
  <2>4. SkipWhitespace(text, i) = Min(T)
    BY <1>2 DEF SkipWhitespace, IsText
  <2>5. ASSUME NEW k \in i..(Min(T) - 1) PROVE At(text, k) = "blank"
    BY <2>3, <2>5, <1>2 DEF IsText
  <2> HIDE DEF T
  <2>6. Min(T) \in i..(Len(text) + 1) /\ At(text, Min(T)) # "blank"
    BY <2>3 DEF T
  <2> QED BY <2>4, <2>5, <2>6, <1>2 DEF IsText
<1> QED BY <1>1, <1>2 DEF IsText

(* The one place where SkipWhitespace can stop.                            *)
LEMMA SkipsTo ==
  ASSUME NEW text, IsText(text), NEW i \in Nat \ {0}, NEW s \in i..(Len(text) + 1),
         \A k \in i..(s - 1) : At(text, k) = "blank", At(text, s) # "blank"
  PROVE  SkipWhitespace(text, i) = s
<1> DEFINE t == SkipWhitespace(text, i)
<1>1. /\ t \in Nat /\ i <= t
      /\ t <= Len(text) + 1
      /\ \A k \in i..(t - 1) : At(text, k) = "blank"
      /\ At(text, t) # "blank"
  <2>1. i \in Nat /\ i > 0 /\ i <= Len(text) + 1
    BY DEF IsText
  <2> QED BY <2>1, SkipStops
<1> HIDE DEF t
<1>2. ~(t < s) /\ ~(s < t)
  BY <1>1 DEF IsText
<1> QED BY <1>1, <1>2 DEF t, IsText

-----------------------------------------------------------------------------
(* The parsing functions call each other on less and less text, so that    *)
(* the definition of Parser has a solution.                                *)

(* The arguments of the parsing functions, and the calls that Parser makes *)
(* of them.                                                                *)
Spots == {"value", "elements", "members"} \X Nat

ParseAt(text, parse, at) ==
  IF at[1] = "value" THEN ParseValue(text, parse, at[2])
  ELSE IF at[1] = "elements" THEN ParseArray(text, parse, at[2])
  ELSE ParseObject(text, parse, at[2])

(* How much of the text is left; a container starts with a value, so it    *)
(* counts for more.                                                        *)
Left(text, at) ==
  IF at[2] > Len(text) THEN 0
  ELSE 2 * (Len(text) + 1 - at[2]) + (IF at[1] = "value" THEN 0 ELSE 1)

(* A parsing function goes on in the text.                                 *)
Ahead(result, at) ==
  result.status = "ok" =>
    result.next \in Nat /\ (IF at[1] = "value" THEN result.next > at[2] ELSE result.next >= at[2])

(* What is left is a number.                                               *)
LEMMA LeftTyped ==
  ASSUME NEW text, IsText(text), NEW at \in Spots
  PROVE  Left(text, at) \in Nat
<1>1. at[2] \in Nat /\ Len(text) \in Nat
  BY DEF Spots, IsText
<1> QED BY <1>1 DEF Left

(* What is not the end of a text is one of its tokens.                     *)
LEMMA AtInside ==
  ASSUME NEW text, IsText(text), NEW i, At(text, i) # "end"
  PROVE  i \in 1..Len(text) /\ At(text, i) = text[i].json
BY DEF At, IsText

(* What a parsing function makes of a value that starts at s, the token    *)
(* after which starts at n, given what the others make of the rest.        *)
ValueCases(text, s, n, v, elements, members) ==
  /\ At(text, s) \in Scalars => v = Read(Scalar(text[s]), s + 1)
  /\ At(text, s) \in Throwing => v = Stop("throws")
  /\ At(text, s) = "beginArray" /\ At(text, n) = "endArray" => v = Read(Array(<< >>), n + 1)
  /\ At(text, s) = "beginArray" /\ At(text, n) # "endArray" => v = Filled("elements", elements)
  /\ At(text, s) = "beginObject" /\ At(text, n) = "endObject" => v = Read(Object(<< >>), n + 1)
  /\ At(text, s) = "beginObject" /\ At(text, n) # "endObject" => v = Filled("members", members)
  /\ At(text, s) \notin Scalars \cup Throwing \cup {"beginArray", "beginObject"} => v = Stop("rejected")

(* ParseValue is by these cases.                                           *)
LEMMA ValueByCases ==
  ASSUME NEW text, NEW parse, NEW i \in Nat, NEW s \in Nat, NEW n \in Nat,
         s = SkipWhitespace(text, i), n = SkipWhitespace(text, s + 1)
  PROVE  ValueCases(text, s, n, ParseValue(text, parse, i),
                    parse[<< "elements", n >>], parse[<< "members", n >>])
<1> DEFINE v == ParseValue(text, parse, i)
<1>1. CASE At(text, s) \in Scalars
  <2>1. v = Read(Scalar(text[s]), s + 1)
    BY <1>1 DEF ParseValue, Scalars, Throwing, Unreadable, Misspelt
  <2> QED BY <1>1, <2>1 DEF Scalars, Throwing, Unreadable, Misspelt, ValueCases
<1>2. CASE At(text, s) \notin Scalars
  BY <1>2 DEF ParseValue, Scalars, Throwing, Unreadable, Misspelt, ValueCases
<1> QED BY <1>1, <1>2

(* After an entry: the others, the closing bracket, or a complaint.        *)
LEMMA ContinuedCases ==
  ASSUME NEW text, NEW entry, NEW j \in Nat, NEW rest, NEW bracket \in {"endArray", "endObject"}
  PROVE  /\ At(text, j) = "comma" /\ rest.status = "ok" =>
              Continued(text, entry, j, rest, bracket) = Read(<< entry >> \o rest.value, rest.next)
         /\ At(text, j) = "comma" /\ rest.status # "ok" =>
              Continued(text, entry, j, rest, bracket) = rest
         /\ At(text, j) = bracket =>
              Continued(text, entry, j, rest, bracket) = Read(<< entry >>, j + 1)
         /\ At(text, j) \notin {"comma", bracket} =>
              Continued(text, entry, j, rest, bracket) = Stop("rejected")
BY DEF Continued

(* What the others stop with, the container stops with.                    *)
LEMMA ContinuedStops ==
  ASSUME NEW text, NEW entry, NEW j \in Nat, NEW rest, NEW bracket \in {"endArray", "endObject"},
         At(text, j) = "comma", rest.status # "ok"
  PROVE  Continued(text, entry, j, rest, bracket) = rest
BY DEF Continued

(* A container that is read is read past its last entry.                   *)
LEMMA ContinuedNext ==
  ASSUME NEW text, NEW entry, NEW j \in Nat, NEW rest, NEW bracket \in {"endArray", "endObject"},
         At(text, j) = "comma" /\ rest.status = "ok" => rest.next \in Nat /\ rest.next > j,
         Continued(text, entry, j, rest, bracket).status = "ok"
  PROVE  /\ Continued(text, entry, j, rest, bracket).next \in Nat
         /\ Continued(text, entry, j, rest, bracket).next > j
<1>1. CASE At(text, j) = "comma"
  BY <1>1 DEF Continued, Read
<1>2. CASE At(text, j) = bracket
  BY <1>2 DEF Continued, Read
<1>3. CASE At(text, j) \notin {"comma", bracket}
  BY <1>3 DEF Continued, Stop
<1> QED BY <1>1, <1>2, <1>3

(* The others matter after a comma only.                                   *)
LEMMA ContinuedSame ==
  ASSUME NEW text, NEW entry, NEW j, NEW rest, NEW other, NEW bracket \in {"endArray", "endObject"},
         At(text, j) = "comma" => rest = other
  PROVE  Continued(text, entry, j, rest, bracket) = Continued(text, entry, j, other, bracket)
BY DEF Continued

(* ParseValue depends on what is made of less text, and goes on.           *)
LEMMA ValueLocal ==
  ASSUME NEW text, IsText(text), NEW f, NEW g, NEW i \in Nat,
         \A b \in Spots : Left(text, b) < Left(text, << "value", i >>) => f[b] = g[b] /\ Ahead(f[b], b)
  PROVE  /\ ParseValue(text, f, i) = ParseValue(text, g, i)
         /\ ParseValue(text, f, i).status = "ok" =>
              ParseValue(text, f, i).next \in Nat /\ ParseValue(text, f, i).next > i
<1>1. PICK s \in Nat : s = SkipWhitespace(text, i) /\ i <= s
  BY SkipStops
<1>2. PICK n \in Nat : n = SkipWhitespace(text, s + 1) /\ s + 1 <= n
  <2>1. s + 1 \in Nat
    BY <1>1
  <2> QED BY <2>1, SkipStops
<1>3. Len(text) \in Nat
  BY DEF IsText
<1>4. ASSUME NEW what \in {"elements", "members"}, s <= Len(text)
      PROVE  /\ f[<< what, n >>] = g[<< what, n >>]
             /\ f[<< what, n >>].status = "ok" => f[<< what, n >>].next \in Nat /\ f[<< what, n >>].next > i
  <2>1. << what, n >> \in Spots /\ Left(text, << what, n >>) < Left(text, << "value", i >>)
    BY <1>1, <1>2, <1>3, <1>4 DEF Left, Spots
  <2>2. f[<< what, n >>] = g[<< what, n >>] /\ Ahead(f[<< what, n >>], << what, n >>)
    BY <2>1
  <2> QED BY <2>2, <1>1, <1>2 DEF Ahead
<1>5. At(text, s) # "end" => s <= Len(text)
  BY AtInside, <1>3
<1> DEFINE F == ParseValue(text, f, i)
           G == ParseValue(text, g, i)
<1>6. /\ ValueCases(text, s, n, F, f[<< "elements", n >>], f[<< "members", n >>])
      /\ ValueCases(text, s, n, G, g[<< "elements", n >>], g[<< "members", n >>])
  BY <1>1, <1>2, ValueByCases
<1> SUFFICES F = G /\ (F.status = "ok" => F.next \in Nat /\ F.next > i)
  OBVIOUS
<1> HIDE DEF F, G
<1>7. CASE At(text, s) \in Scalars \/ At(text, s) \in Throwing
  BY <1>7, <1>6, <1>1 DEF ValueCases, Read, Stop
<1>8. CASE At(text, s) = "beginArray" /\ At(text, n) = "endArray"
  BY <1>8, <1>6, <1>1, <1>2 DEF ValueCases, Read
<1>9. CASE At(text, s) = "beginObject" /\ At(text, n) = "endObject"
  BY <1>9, <1>6, <1>1, <1>2 DEF ValueCases, Read
<1>10. CASE At(text, s) = "beginArray" /\ At(text, n) # "endArray"
  <2>1. F = Filled("elements", f[<< "elements", n >>]) /\ G = Filled("elements", g[<< "elements", n >>])
    BY <1>10, <1>6 DEF ValueCases
  <2> QED BY <2>1, <1>10, <1>4, <1>5 DEF Filled, Read
<1>11. CASE At(text, s) = "beginObject" /\ At(text, n) # "endObject"
  <2>1. F = Filled("members", f[<< "members", n >>]) /\ G = Filled("members", g[<< "members", n >>])
    BY <1>11, <1>6 DEF ValueCases
  <2> QED BY <2>1, <1>11, <1>4, <1>5 DEF Filled, Read
<1>12. CASE At(text, s) \notin Scalars \cup Throwing \cup {"beginArray", "beginObject"}
  BY <1>12, <1>6 DEF ValueCases, Stop
<1> QED BY <1>7, <1>8, <1>9, <1>10, <1>11, <1>12

(* The cases of ParseArray and of ParseObject.                             *)
ArrayCases(text, i, v, element, rest) ==
  /\ i > Len(text) => v = Read(<< >>, i)
  /\ i <= Len(text) /\ element.status # "ok" => v = element
  /\ i <= Len(text) /\ element.status = "ok" =>
       v = Continued(text, element.value, SkipWhitespace(text, element.next), rest, "endArray")

ObjectCases(text, i, k, c, v, value, rest) ==
  /\ i > Len(text) => v = Read(<< >>, i)
  /\ i <= Len(text) /\ At(text, k) = Misspelt => v = Stop("throws")
  /\ i <= Len(text) /\ At(text, k) # Misspelt /\ (At(text, k) # "string" \/ At(text, c) # "colon") =>
       v = Stop("rejected")
  /\ i <= Len(text) /\ At(text, k) = "string" /\ At(text, c) = "colon" /\ value.status # "ok" => v = value
  /\ i <= Len(text) /\ At(text, k) = "string" /\ At(text, c) = "colon" /\ value.status = "ok" =>
       v = Continued(text, [key |-> text[k], value |-> value.value],
                     SkipWhitespace(text, value.next), rest, "endObject")

(* ParseArray depends on what is made of less text, and does not go back.  *)
LEMMA ArrayLocal ==
  ASSUME NEW text, IsText(text), NEW f, NEW g, NEW i \in Nat,
         \A b \in Spots : Left(text, b) < Left(text, << "elements", i >>) => f[b] = g[b] /\ Ahead(f[b], b)
  PROVE  /\ ParseArray(text, f, i) = ParseArray(text, g, i)
         /\ ParseArray(text, f, i).status = "ok" =>
              ParseArray(text, f, i).next \in Nat /\ ParseArray(text, f, i).next >= i
<1> DEFINE element == f[<< "value", i >>]
           a == SkipWhitespace(text, element.next)
           rest == f[<< "elements", a + 1 >>]
           other == g[<< "elements", a + 1 >>]
           F == ParseArray(text, f, i)
           G == ParseArray(text, g, i)
<1>1. Len(text) \in Nat
  BY DEF IsText
<1>2. CASE i > Len(text)
  BY <1>2 DEF ParseArray, Read
<1>3. CASE i <= Len(text)
  <2>1. element = g[<< "value", i >>] /\ (element.status = "ok" => element.next \in Nat /\ element.next > i)
    <3>1. << "value", i >> \in Spots /\ Left(text, << "value", i >>) < Left(text, << "elements", i >>)
      BY <1>1, <1>3 DEF Left, Spots
    <3>2. f[<< "value", i >>] = g[<< "value", i >>] /\ Ahead(f[<< "value", i >>], << "value", i >>)
      BY <3>1
    <3> QED BY <3>2 DEF Ahead
  <2>2. ArrayCases(text, i, F, element, rest)
    BY DEF ParseArray, ArrayCases
  <2>3. ArrayCases(text, i, G, element, other)
    BY <2>1 DEF ParseArray, ArrayCases
  <2>4. element.status = "ok" => a \in Nat /\ a > i
    <3> HIDE DEF element
    <3>1. element.status = "ok" => element.next \in Nat /\ a \in Nat /\ element.next <= a
      BY <2>1, SkipStops
    <3> QED BY <2>1, <3>1
  <2>5. ASSUME element.status = "ok", At(text, a) = "comma"
        PROVE  rest = other /\ (rest.status = "ok" => rest.next \in Nat /\ rest.next > a)
    <3>1. a \in Nat /\ a > i /\ a <= Len(text)
      BY <1>1, <2>4, <2>5, AtInside
    <3> HIDE DEF a
    <3>2. << "elements", a + 1 >> \in Spots /\ Left(text, << "elements", a + 1 >>) < Left(text, << "elements", i >>)
      BY <1>1, <1>3, <3>1 DEF Left, Spots
    <3>3. rest = other /\ Ahead(rest, << "elements", a + 1 >>)
      BY <3>2
    <3> QED BY <3>1, <3>3 DEF Ahead
  <2> SUFFICES F = G /\ (F.status = "ok" => F.next \in Nat /\ F.next >= i)
    OBVIOUS
  <2> HIDE DEF F, G, element, a, rest, other
  <2>6. CASE element.status # "ok"
    BY <2>2, <2>3, <2>6, <1>3 DEF ArrayCases
  <2>7. CASE element.status = "ok"
    <3>1. /\ F = Continued(text, element.value, a, rest, "endArray")
          /\ G = Continued(text, element.value, a, other, "endArray")
      BY <2>2, <2>3, <2>7, <1>3 DEF ArrayCases, a
    <3>2. F = G
      BY <3>1, <2>5, <2>7, ContinuedSame
    <3>3. F.status = "ok" => F.next \in Nat /\ F.next > a
      BY <3>1, <2>4, <2>5, <2>7, ContinuedNext
    <3> QED BY <3>2, <3>3, <2>4, <2>7
  <2> QED BY <2>6, <2>7
<1> QED BY <1>1, <1>2, <1>3

(* So does ParseObject.                                                    *)
LEMMA ObjectLocal ==
  ASSUME NEW text, IsText(text), NEW f, NEW g, NEW i \in Nat,
         \A b \in Spots : Left(text, b) < Left(text, << "members", i >>) => f[b] = g[b] /\ Ahead(f[b], b)
  PROVE  /\ ParseObject(text, f, i) = ParseObject(text, g, i)
         /\ ParseObject(text, f, i).status = "ok" =>
              ParseObject(text, f, i).next \in Nat /\ ParseObject(text, f, i).next >= i
<1> DEFINE k == SkipWhitespace(text, i)
           c == SkipWhitespace(text, k + 1)
           value == f[<< "value", c + 1 >>]
           a == SkipWhitespace(text, value.next)
           rest == f[<< "members", a + 1 >>]
           other == g[<< "members", a + 1 >>]
           member == [key |-> text[k], value |-> value.value]
           F == ParseObject(text, f, i)
           G == ParseObject(text, g, i)
<1>1. Len(text) \in Nat
  BY DEF IsText
<1>2. CASE i > Len(text)
  BY <1>2 DEF ParseObject, Read
<1>3. CASE i <= Len(text)
  <2>0. k \in Nat /\ i <= k /\ c \in Nat /\ k < c
    <3>1. k \in Nat /\ i <= k
      BY SkipStops
    <3> HIDE DEF k
    <3>2. k + 1 \in Nat
      BY <3>1
    <3>3. c \in Nat /\ k + 1 <= c
      BY <3>2, SkipStops
    <3> QED BY <3>1, <3>3
  <2>1. /\ value = g[<< "value", c + 1 >>]
        /\ value.status = "ok" => value.next \in Nat /\ value.next > i
    <3> HIDE DEF k, c
    <3>1. << "value", c + 1 >> \in Spots /\ Left(text, << "value", c + 1 >>) < Left(text, << "members", i >>)
      BY <1>1, <1>3, <2>0 DEF Left, Spots
    <3>2. value = g[<< "value", c + 1 >>] /\ Ahead(value, << "value", c + 1 >>)
      BY <3>1
    <3> QED BY <3>2, <2>0 DEF Ahead
  <2>2. ObjectCases(text, i, k, c, F, value, rest)
    BY DEF ParseObject, ObjectCases, Misspelt
  <2>3. ObjectCases(text, i, k, c, G, value, other)
    BY <2>1 DEF ParseObject, ObjectCases, Misspelt
  <2>4. value.status = "ok" => a \in Nat /\ a > i
    <3> HIDE DEF value
    <3>1. value.status = "ok" => value.next \in Nat /\ a \in Nat /\ value.next <= a
      BY <2>1, SkipStops
    <3> QED BY <2>1, <3>1
  <2>5. ASSUME value.status = "ok", At(text, a) = "comma"
        PROVE  rest = other /\ (rest.status = "ok" => rest.next \in Nat /\ rest.next > a)
    <3>1. a \in Nat /\ a > i /\ a <= Len(text)
      BY <1>1, <2>4, <2>5, AtInside
    <3> HIDE DEF a
    <3>2. << "members", a + 1 >> \in Spots /\ Left(text, << "members", a + 1 >>) < Left(text, << "members", i >>)
      BY <1>1, <1>3, <3>1 DEF Left, Spots
    <3>3. rest = other /\ Ahead(rest, << "members", a + 1 >>)
      BY <3>2
    <3> QED BY <3>1, <3>3 DEF Ahead
  <2> SUFFICES F = G /\ (F.status = "ok" => F.next \in Nat /\ F.next >= i)
    OBVIOUS
  <2> HIDE DEF F, G, k, c, value, a, rest, other, member
  <2>6. CASE At(text, k) # "string" \/ At(text, c) # "colon"
    BY <2>2, <2>3, <2>6, <1>3 DEF ObjectCases, Stop
  <2>7. CASE At(text, k) = "string" /\ At(text, c) = "colon" /\ value.status # "ok"
    BY <2>2, <2>3, <2>7, <1>3 DEF ObjectCases
  <2>8. CASE At(text, k) = "string" /\ At(text, c) = "colon" /\ value.status = "ok"
    <3>1. /\ F = Continued(text, member, a, rest, "endObject")
          /\ G = Continued(text, member, a, other, "endObject")
      BY <2>2, <2>3, <2>8, <1>3 DEF ObjectCases, a, member
    <3>2. F = G
      BY <3>1, <2>5, <2>8, ContinuedSame
    <3>3. F.status = "ok" => F.next \in Nat /\ F.next > a
      BY <3>1, <2>4, <2>5, <2>8, ContinuedNext
    <3> QED BY <3>2, <3>3, <2>4, <2>8
  <2> QED BY <2>6, <2>7, <2>8
<1> QED BY <1>1, <1>2, <1>3

(* Each of the three, by its name.                                         *)
LEMMA ParseLocal ==
  ASSUME NEW text, IsText(text), NEW f, NEW g, NEW at \in Spots,
         \A b \in Spots : Left(text, b) < Left(text, at) => f[b] = g[b] /\ Ahead(f[b], b)
  PROVE  ParseAt(text, f, at) = ParseAt(text, g, at) /\ Ahead(ParseAt(text, f, at), at)
<1>1. PICK what \in {"value", "elements", "members"}, i \in Nat : at = << what, i >>
  BY DEF Spots
<1>2. CASE what = "value"
  BY <1>1, <1>2, ValueLocal DEF ParseAt, Ahead
<1>3. CASE what = "elements"
  BY <1>1, <1>3, ArrayLocal DEF ParseAt, Ahead
<1>4. CASE what = "members"
  BY <1>1, <1>4, ObjectLocal DEF ParseAt, Ahead
<1> QED BY <1>1, <1>2, <1>3, <1>4

(* Parser is what its definition says: a solution is found for less text   *)
(* first.                                                                  *)
Solved(text, f, n) ==
  /\ f = [at \in Spots |-> f[at]]
  /\ \A at \in Spots : Left(text, at) < n => f[at] = ParseAt(text, f, at) /\ Ahead(f[at], at)

(* Calling the functions once more solves it for one more.                 *)
LEMMA SolvedMore ==
  ASSUME NEW text, IsText(text), NEW n \in Nat, NEW f, Solved(text, f, n)
  PROVE  Solved(text, [at \in Spots |-> ParseAt(text, f, at)], n + 1)
<1> DEFINE g == [at \in Spots |-> ParseAt(text, f, at)]
<1>1. ASSUME NEW at \in Spots, Left(text, at) < n + 1
      PROVE  g[at] = ParseAt(text, g, at) /\ Ahead(g[at], at)
  <2>1. ASSUME NEW b \in Spots, Left(text, b) < Left(text, at)
        PROVE  f[b] = g[b] /\ Ahead(f[b], b)
    <3>1. Left(text, b) < n
      BY <1>1, <2>1, LeftTyped
    <3> QED BY <3>1 DEF Solved
  <2> HIDE DEF g
  <2>2. ParseAt(text, f, at) = ParseAt(text, g, at) /\ Ahead(ParseAt(text, f, at), at)
    BY <2>1, ParseLocal
  <2> QED BY <2>2 DEF g
<1> QED BY <1>1 DEF Solved

(* There is a solution for as much text as there is.                       *)
LEMMA SolvedAll ==
  ASSUME NEW text, IsText(text), NEW n \in Nat
  PROVE  \E f : Solved(text, f, n)
<1> DEFINE S == {k \in Nat : \E f : Solved(text, f, k)}
<1>1. 0 \in S
  <2>1. Solved(text, [at \in Spots |-> 0], 0)
    BY LeftTyped DEF Solved
  <2> QED BY <2>1
<1>2. ASSUME NEW k \in Nat, k \in S PROVE k + 1 \in S
  <2>1. PICK f : Solved(text, f, k)
    BY <1>2
  <2>2. \E g : Solved(text, g, k + 1)
    BY <2>1, SolvedMore
  <2> QED BY <2>2
<1>3. n \in S
  <2> HIDE DEF S
  <2> QED BY <1>1, <1>2, FromZero
<1> QED BY <1>3

(* Where a claim fails it fails with less text left, too: it never fails.  *)
LEMMA Descent ==
  ASSUME NEW text, IsText(text), NEW B, B \subseteq Spots,
         \A at \in B : \E b \in B : Left(text, b) < Left(text, at)
  PROVE  B = {}
<1> DEFINE T == {n \in Nat : \E at \in B : Left(text, at) = n}
<1> SUFFICES ASSUME B # {} PROVE FALSE
  OBVIOUS
<1>1. T # {} /\ T \subseteq Nat
  BY LeftTyped
<1>2. PICK m \in T : \A k \in T : m <= k
  BY <1>1, LeastNatural
<1>3. PICK at \in B : Left(text, at) = m
  OBVIOUS
<1>4. PICK b \in B : Left(text, b) < m
  BY <1>3
<1>5. Left(text, b) \in Nat /\ Left(text, b) \in T
  BY LeftTyped
<1> QED BY <1>2, <1>4, <1>5

(* The parser is a solution of its definition, and goes on in the text.    *)
LEMMA ParserEquation ==
  ASSUME NEW text, IsText(text)
  PROVE  \A at \in Spots : /\ Parser(text)[at] = ParseAt(text, Parser(text), at)
                           /\ Ahead(Parser(text)[at], at)
<1> DEFINE Fits(p) == p = [at \in Spots |-> ParseAt(text, p, at)]
<1>1. PICK n \in Nat : \A at \in Spots : Left(text, at) < n
  <2>1. 2 * Len(text) + 4 \in Nat
    BY DEF IsText
  <2>2. ASSUME NEW at \in Spots PROVE Left(text, at) < 2 * Len(text) + 4
    BY DEF Left, IsText, Spots
  <2> QED BY <2>1, <2>2
<1>2. PICK f : Solved(text, f, n)
  BY SolvedAll
<1>3. Fits(f)
  <2>1. f = [at \in Spots |-> f[at]]
    BY <1>2 DEF Solved
  <2>2. \A at \in Spots : f[at] = ParseAt(text, f, at)
    BY <1>1, <1>2 DEF Solved
  <2>3. [at \in Spots |-> f[at]] = [at \in Spots |-> ParseAt(text, f, at)]
    BY <2>2
  <2> QED BY <2>1, <2>3
<1>4. Parser(text) = CHOOSE p : Fits(p)
  BY DEF Parser, Spots, ParseAt
<1> DEFINE P == Parser(text)
<1>5. P = [at \in Spots |-> ParseAt(text, P, at)]
  <2> HIDE DEF Fits
  <2>1. Fits(Parser(text))
    BY <1>3, <1>4
  <2> QED BY <2>1 DEF Fits
<1> HIDE DEF P
<1>6. \A at \in Spots : P[at] = ParseAt(text, P, at)
  BY <1>5
<1> DEFINE B == {at \in Spots : ~Ahead(P[at], at)}
<1>7. ASSUME NEW at \in B PROVE \E b \in B : Left(text, b) < Left(text, at)
  <2> SUFFICES ASSUME \A b \in Spots : Left(text, b) < Left(text, at) => Ahead(P[b], b)
               PROVE  FALSE
    OBVIOUS
  <2>1. Ahead(ParseAt(text, P, at), at)
    BY ParseLocal
  <2> QED BY <2>1, <1>6
<1>8. B = {}
  <2> HIDE DEF B
  <2>1. B \subseteq Spots
    BY DEF B
  <2> QED BY <1>7, <2>1, Descent
<1> QED BY <1>6, <1>8 DEF P

-----------------------------------------------------------------------------
(* The rules of the grammar are about narrower and narrower parts, so that *)
(* the definition of Grammar has a solution.                               *)

(* The arguments of the grammar, and what it says of them in terms of      *)
(* itself.                                                                 *)
Spans(text) == {"value", "beginArray", "beginObject"} \X (1..(Len(text) + 1)) \X (0..Len(text))

GrammarAt(text, is, at) ==
  IF at[1] = "value"
  THEN \/ at[2] = at[3] /\ At(text, at[2]) \in Scalars \cup {Unreadable}
       \/ IsContainer(text, is, at[2], at[3])
  ELSE IsSequence(text, is, at[2], at[3], at[1])

(* How wide a part of the text is; a list starts with a value, so it       *)
(* counts for more.                                                        *)
Width(at) == IF at[3] < at[2] THEN 0 ELSE 2 * (at[3] - at[2]) + (IF at[1] = "value" THEN 0 ELSE 1)

(* The width is a number.                                                  *)
LEMMA WidthTyped ==
  ASSUME NEW text, IsText(text), NEW at \in Spans(text)
  PROVE  Width(at) \in Nat
<1>1. at[2] \in Nat /\ at[3] \in Nat
  BY DEF Spans, IsText
<1> QED BY <1>1 DEF Width

(* Whether a part is a container depends on what the narrower parts are.   *)
LEMMA ContainerLocal ==
  ASSUME NEW text, IsText(text), NEW f, NEW g, NEW i \in 1..(Len(text) + 1), NEW j \in 0..Len(text),
         \A b \in Spans(text) : Width(b) < Width(<< "value", i, j >>) => f[b] = g[b]
  PROVE  IsContainer(text, f, i, j) <=> IsContainer(text, g, i, j)
<1>1. ASSUME i < j, NEW bracket \in {"beginArray", "beginObject"}
      PROVE  f[<< bracket, i + 1, j - 1 >>] = g[<< bracket, i + 1, j - 1 >>]
  <2>1. << bracket, i + 1, j - 1 >> \in Spans(text)
    BY <1>1 DEF Spans, IsText
  <2>2. Width(<< bracket, i + 1, j - 1 >>) < Width(<< "value", i, j >>)
    BY <1>1 DEF Width, IsText
  <2> QED BY <2>1, <2>2
<1> QED BY <1>1 DEF IsContainer

(* An item is so by the values within it,                                  *)
LEMMA ItemLocal ==
  ASSUME NEW text, NEW f, NEW g, NEW i \in Nat, NEW j \in Nat,
         \A a, b \in i..j : f[<< "value", a, b >>] = g[<< "value", a, b >>]
  PROVE  IsItem(text, f, i, j) <=> IsItem(text, g, i, j)
BY DEF IsItem

(* and an entry, too.                                                      *)
LEMMA EntryLocal ==
  ASSUME NEW text, NEW f, NEW g, NEW i \in Nat, NEW j \in Nat, NEW bracket,
         \A a, b \in i..j : f[<< "value", a, b >>] = g[<< "value", a, b >>]
  PROVE  IsEntry(text, f, i, j, bracket) <=> IsEntry(text, g, i, j, bracket)
<1>1. IsItem(text, f, i, j) <=> IsItem(text, g, i, j)
  BY ItemLocal
<1>2. ASSUME NEW c \in i..j PROVE IsItem(text, f, c + 1, j) <=> IsItem(text, g, c + 1, j)
  <2>1. ASSUME NEW a \in (c + 1)..j, NEW b \in (c + 1)..j
        PROVE  f[<< "value", a, b >>] = g[<< "value", a, b >>]
    <3>1. a \in i..j /\ b \in i..j
      OBVIOUS
    <3> QED BY <3>1
  <2> QED BY <2>1, ItemLocal
<1> QED BY <1>1, <1>2 DEF IsEntry

(* Whether a part is a list depends on what the narrower parts are.        *)
LEMMA SequenceLocal ==
  ASSUME NEW text, IsText(text), NEW f, NEW g, NEW i \in 1..(Len(text) + 1), NEW j \in 0..Len(text),
         NEW bracket \in {"beginArray", "beginObject"}, NEW at, at = << bracket, i, j >>,
         \A b \in Spans(text) : Width(b) < Width(at) => f[b] = g[b]
  PROVE  IsSequence(text, f, i, j, bracket) <=> IsSequence(text, g, i, j, bracket)
<1>1. ASSUME NEW a \in i..j, NEW b \in i..j
      PROVE  f[<< "value", a, b >>] = g[<< "value", a, b >>]
  <2>1. << "value", a, b >> \in Spans(text) /\ Width(<< "value", a, b >>) < Width(at)
    BY <1>1 DEF Spans, Width, IsText
  <2> QED BY <2>1
<1>2. ASSUME NEW c \in i..j
      PROVE  /\ IsEntry(text, f, i, c - 1, bracket) <=> IsEntry(text, g, i, c - 1, bracket)
             /\ f[<< bracket, c + 1, j >>] = g[<< bracket, c + 1, j >>]
  <2>1. << bracket, c + 1, j >> \in Spans(text) /\ Width(<< bracket, c + 1, j >>) < Width(at)
    BY <1>2 DEF Spans, Width, IsText
  <2>2. ASSUME NEW a \in i..(c - 1), NEW b \in i..(c - 1)
        PROVE  f[<< "value", a, b >>] = g[<< "value", a, b >>]
    <3>1. a \in i..j /\ b \in i..j
      BY DEF IsText
    <3> QED BY <3>1, <1>1
  <2>3. c - 1 \in Nat /\ i \in Nat
    OBVIOUS
  <2> QED BY <2>1, <2>2, <2>3, EntryLocal
<1>3. IsEntry(text, f, i, j, bracket) <=> IsEntry(text, g, i, j, bracket)
  BY <1>1, EntryLocal
<1> QED BY <1>2, <1>3 DEF IsSequence

(* Each of the two, by its name.                                           *)
LEMMA GrammarLocal ==
  ASSUME NEW text, IsText(text), NEW f, NEW g, NEW at \in Spans(text),
         \A b \in Spans(text) : Width(b) < Width(at) => f[b] = g[b]
  PROVE  GrammarAt(text, f, at) = GrammarAt(text, g, at)
<1>1. PICK what \in {"value", "beginArray", "beginObject"}, i \in 1..(Len(text) + 1), j \in 0..Len(text) :
        at = << what, i, j >>
  BY DEF Spans
<1>2. CASE what = "value"
  <2>1. IsContainer(text, f, i, j) <=> IsContainer(text, g, i, j)
    BY <1>1, <1>2, ContainerLocal
  <2>2. (GrammarAt(text, f, at) <=> TRUE) <=> (GrammarAt(text, g, at) <=> TRUE)
    BY <1>1, <1>2, <2>1 DEF GrammarAt
  <2>3. GrammarAt(text, f, at) \in BOOLEAN /\ GrammarAt(text, g, at) \in BOOLEAN
    BY <1>1, <1>2 DEF GrammarAt
  <2> QED BY <2>2, <2>3
<1>3. CASE what # "value"
  <2>1. IsSequence(text, f, i, j, what) <=> IsSequence(text, g, i, j, what)
    <3>1. what \in {"beginArray", "beginObject"}
      BY <1>3
    <3> QED BY <1>1, <3>1, SequenceLocal
  <2>2. (GrammarAt(text, f, at) <=> TRUE) <=> (GrammarAt(text, g, at) <=> TRUE)
    BY <1>1, <1>3, <2>1 DEF GrammarAt
  <2>3. GrammarAt(text, f, at) \in BOOLEAN /\ GrammarAt(text, g, at) \in BOOLEAN
    BY <1>1, <1>3 DEF GrammarAt, IsSequence
  <2> QED BY <2>2, <2>3
<1> QED BY <1>2, <1>3

(* is is the grammar for the parts narrower than n.                        *)
Derived(text, f, n) ==
  /\ f = [at \in Spans(text) |-> f[at]]
  /\ \A at \in Spans(text) : Width(at) < n => f[at] = GrammarAt(text, f, at)

(* Applying the rules once more derives the parts that are one wider.      *)
LEMMA DerivedMore ==
  ASSUME NEW text, IsText(text), NEW n \in Nat, NEW f, Derived(text, f, n)
  PROVE  Derived(text, [at \in Spans(text) |-> GrammarAt(text, f, at)], n + 1)
<1> DEFINE g == [at \in Spans(text) |-> GrammarAt(text, f, at)]
<1>1. ASSUME NEW at \in Spans(text), Width(at) < n + 1
      PROVE  g[at] = GrammarAt(text, g, at)
  <2>1. ASSUME NEW b \in Spans(text), Width(b) < Width(at)
        PROVE  f[b] = g[b]
    <3>1. Width(b) < n
      BY <1>1, <2>1, WidthTyped
    <3> QED BY <3>1 DEF Derived
  <2> HIDE DEF g
  <2>2. GrammarAt(text, f, at) = GrammarAt(text, g, at)
    BY <2>1, GrammarLocal
  <2> QED BY <2>2 DEF g
<1> QED BY <1>1 DEF Derived

(* There is a solution for every width.                                    *)
LEMMA DerivedAll ==
  ASSUME NEW text, IsText(text), NEW n \in Nat
  PROVE  \E f : Derived(text, f, n)
<1> DEFINE S == {k \in Nat : \E f : Derived(text, f, k)}
<1>1. 0 \in S
  <2>1. Derived(text, [at \in Spans(text) |-> 0], 0)
    BY WidthTyped DEF Derived
  <2> QED BY <2>1
<1>2. ASSUME NEW k \in Nat, k \in S PROVE k + 1 \in S
  <2>1. PICK f : Derived(text, f, k)
    BY <1>2
  <2>2. \E g : Derived(text, g, k + 1)
    BY <2>1, DerivedMore
  <2> QED BY <2>2
<1>3. n \in S
  <2> HIDE DEF S
  <2> QED BY <1>1, <1>2, FromZero
<1> QED BY <1>3

(* The grammar is a solution of its definition.                            *)
LEMMA GrammarEquation ==
  ASSUME NEW text, IsText(text)
  PROVE  \A at \in Spans(text) : Grammar(text)[at] = GrammarAt(text, Grammar(text), at)
<1> DEFINE Fits(p) == p = [at \in Spans(text) |-> GrammarAt(text, p, at)]
<1>1. PICK n \in Nat : \A at \in Spans(text) : Width(at) < n
  <2>1. 2 * Len(text) + 4 \in Nat
    BY DEF IsText
  <2>2. ASSUME NEW at \in Spans(text) PROVE Width(at) < 2 * Len(text) + 4
    <3>1. PICK i \in 1..(Len(text) + 1), j \in 0..Len(text) : at[2] = i /\ at[3] = j
      BY DEF Spans
    <3> QED BY <3>1 DEF Width, IsText
  <2> QED BY <2>1, <2>2
<1>2. PICK f : Derived(text, f, n)
  BY DerivedAll
<1>3. Fits(f)
  <2>1. f = [at \in Spans(text) |-> f[at]]
    BY <1>2 DEF Derived
  <2>2. \A at \in Spans(text) : f[at] = GrammarAt(text, f, at)
    BY <1>1, <1>2 DEF Derived
  <2>3. [at \in Spans(text) |-> f[at]] = [at \in Spans(text) |-> GrammarAt(text, f, at)]
    BY <2>2
  <2> QED BY <2>1, <2>3
<1>4. Grammar(text) = CHOOSE p : Fits(p)
  BY DEF Grammar, Spans, GrammarAt
<1> DEFINE P == Grammar(text)
<1>5. P = [at \in Spans(text) |-> GrammarAt(text, P, at)]
  <2> HIDE DEF Fits
  <2>1. Fits(Grammar(text))
    BY <1>3, <1>4
  <2> QED BY <2>1 DEF Fits
<1> HIDE DEF P
<1>6. \A at \in Spans(text) : P[at] = GrammarAt(text, P, at)
  BY <1>5
<1> QED BY <1>6 DEF P

(* The brackets that open.                                                 *)
Brackets == {"beginArray", "beginObject"}

-----------------------------------------------------------------------------
(* What the parser reads is what the grammar says.                         *)

(* The two rules of the grammar.                                           *)
LEMMA ValueMeans ==
  ASSUME NEW text, IsText(text), NEW i \in 1..(Len(text) + 1), NEW j \in 0..Len(text)
  PROVE  IsValue(text, i, j) <=> \/ i = j /\ At(text, i) \in Scalars \cup {Unreadable}
                                 \/ IsContainer(text, Grammar(text), i, j)
<1> DEFINE at == << "value", i, j >>
<1>1. at \in Spans(text)
  BY DEF Spans
<1>2. Grammar(text)[at] = GrammarAt(text, Grammar(text), at)
  BY <1>1, GrammarEquation
<1>3. GrammarAt(text, Grammar(text), at)
        <=> \/ i = j /\ At(text, i) \in Scalars \cup {Unreadable}
            \/ IsContainer(text, Grammar(text), i, j)
  BY DEF GrammarAt
<1> QED BY <1>2, <1>3 DEF IsValue

(* The rule for lists.                                                     *)
LEMMA ListMeans ==
  ASSUME NEW text, IsText(text), NEW i \in 1..(Len(text) + 1), NEW j \in 0..Len(text),
         NEW bracket \in Brackets
  PROVE  IsList(text, i, j, bracket) <=> IsSequence(text, Grammar(text), i, j, bracket)
<1> DEFINE at == << bracket, i, j >>
<1>1. at \in Spans(text)
  BY DEF Spans, Brackets
<1>2. Grammar(text)[at] = GrammarAt(text, Grammar(text), at)
  BY <1>1, GrammarEquation
<1>3. GrammarAt(text, Grammar(text), at) <=> IsSequence(text, Grammar(text), i, j, bracket)
  BY DEF GrammarAt, Brackets
<1> QED BY <1>2, <1>3 DEF IsList

(* Blanks before and after an entry belong to it.                          *)
LEMMA ItemWidened ==
  ASSUME NEW text, NEW is, NEW i \in Nat, NEW n \in Nat, NEW m \in Int, NEW j \in Int, i <= n,
         m <= j,
         BlankIn(text, i, n - 1), BlankIn(text, m + 1, j), IsItem(text, is, n, m)
  PROVE  IsItem(text, is, i, j)
<1>1. PICK a \in n..m, b \in n..m : BlankIn(text, n, a - 1) /\ BlankIn(text, b + 1, m) /\ is[<< "value", a, b >>]
  BY DEF IsItem
<1>2. a \in i..j /\ b \in i..j
  OBVIOUS
<1>3. BlankIn(text, i, a - 1)
  BY <1>1 DEF BlankIn
<1>4. BlankIn(text, b + 1, j)
  BY <1>1 DEF BlankIn
<1> QED BY <1>1, <1>2, <1>3, <1>4 DEF IsItem

(* Blanks around an entry belong to it.                                    *)
LEMMA EntryWidened ==
  ASSUME NEW text, NEW is, NEW i \in Nat, NEW n \in Nat, NEW m \in Int, NEW j \in Int, i <= n,
         m <= j,
         BlankIn(text, i, n - 1), BlankIn(text, m + 1, j), NEW bracket, IsEntry(text, is, n, m,
         bracket)
  PROVE  IsEntry(text, is, i, j, bracket)
<1>1. CASE bracket = "beginArray"
  BY <1>1, ItemWidened DEF IsEntry
<1>2. CASE bracket # "beginArray"
  <2>1. PICK k \in n..m, c \in n..m :
          /\ BlankIn(text, n, k - 1) /\ At(text, k) = "string"
          /\ BlankIn(text, k + 1, c - 1) /\ At(text, c) = "colon" /\ k < c
          /\ IsItem(text, is, c + 1, m)
    BY <1>2 DEF IsEntry
  <2>2. k \in i..j /\ c \in i..j
    OBVIOUS
  <2>3. BlankIn(text, i, k - 1)
    BY <2>1 DEF BlankIn
  <2>4. BlankIn(text, c + 1, c)
    BY DEF BlankIn
  <2>5. IsItem(text, is, c + 1, j)
    <3>1. c + 1 \in Nat /\ BlankIn(text, c + 1, (c + 1) - 1)
      BY DEF BlankIn
    <3> QED BY <2>1, <3>1, ItemWidened
  <2> QED BY <1>2, <2>1, <2>2, <2>3, <2>5 DEF IsEntry
<1> QED BY <1>1, <1>2

(* Blanks before a list belong to it.                                      *)
LEMMA ListWidened ==
  ASSUME NEW text, IsText(text), NEW i \in 1..(Len(text) + 1), NEW n \in 1..(Len(text) + 1), i <= n,
         NEW j \in 0..Len(text), NEW bracket \in Brackets,
         BlankIn(text, i, n - 1), IsList(text, n, j, bracket)
  PROVE  IsList(text, i, j, bracket)
<1> DEFINE is == Grammar(text)
<1> HIDE DEF is
<1>0. Len(text) \in Nat
  BY DEF IsText
<1>1. \/ IsEntry(text, is, n, j, bracket)
      \/ \E c \in n..j : At(text, c) = "comma" /\ IsEntry(text, is, n, c - 1, bracket) /\ is[<< bracket, c + 1, j >>]
  BY ListMeans DEF IsSequence, is
<1>2. ASSUME NEW m \in 0..Len(text), IsEntry(text, is, n, m, bracket)
      PROVE  IsEntry(text, is, i, m, bracket)
  <2>1. BlankIn(text, m + 1, m) /\ m \in Int /\ i \in Nat /\ n \in Nat
    BY <1>0 DEF BlankIn
  <2> QED BY <1>2, <2>1, EntryWidened
<1>3. CASE IsEntry(text, is, n, j, bracket)
  BY <1>2, <1>3, ListMeans DEF IsSequence, is
<1>4. CASE \E c \in n..j : At(text, c) = "comma" /\ IsEntry(text, is, n, c - 1, bracket) /\ is[<< bracket, c + 1, j >>]
  <2>1. PICK c \in n..j : At(text, c) = "comma" /\ IsEntry(text, is, n, c - 1, bracket) /\ is[<< bracket, c + 1, j >>]
    BY <1>4
  <2>2. c \in i..j /\ c - 1 \in 0..Len(text)
    BY <1>0
  <2>3. IsSequence(text, is, i, j, bracket)
    BY <2>1, <2>2, <1>2 DEF IsSequence
  <2> QED BY <2>3, ListMeans DEF is
<1> QED BY <1>1, <1>3, <1>4

(* What is left of a text where a container of it is not closed.           *)
Listed(text, i, e, bracket) ==
  /\ e \in (i + 1)..(Len(text) + 1)
  /\ \/ e > i + 1 /\ At(text, e - 1) = Closing(bracket) /\ IsList(text, i, e - 2, bracket)
     \/ e = Len(text) + 1 /\ At(text, Len(text)) = "comma" /\ IsList(text, i, Len(text) - 1, bracket)

(* A container that is cut short.                                          *)
CutAt(text, s) ==
  /\ At(text, s) \in Brackets
  /\ \/ BlankIn(text, s + 1, Len(text))
     \/ At(text, Len(text)) = "comma" /\ IsList(text, s + 1, Len(text) - 1, At(text, s))

(* A value ends before e, or one that is cut short does with the text.     *)
Valued(text, i, e) ==
  \E s \in i..Len(text) :
    /\ s = SkipWhitespace(text, i)
    /\ e \in (s + 1)..(Len(text) + 1)
    /\ IsValue(text, s, e - 1) \/ (e = Len(text) + 1 /\ CutAt(text, s))

(* What is read as a value is one, or is cut short.                        *)
ValueSound(text, i, result) == result.status = "ok" => Valued(text, i, result.next)

(* What is read as a list is one, up to its bracket or to the end of the   *)
(* text.                                                                   *)
ListSound(text, i, result, bracket) ==
  result.status = "ok" => IF i > Len(text) THEN result.next = i ELSE Listed(text, i, result.next, bracket)

(* An entry, and what Continued makes of what follows it, are a list.      *)
LEMMA ContinuedSound ==
  ASSUME NEW text, IsText(text), NEW bracket \in Brackets, NEW i \in 1..Len(text),
         NEW e \in (i + 1)..(Len(text) + 1), IsEntry(text, Grammar(text), i, e - 1, bracket),
         NEW entry, NEW a \in Nat, a = SkipWhitespace(text, e), NEW rest,
         a <= Len(text) => ListSound(text, a + 1, rest, bracket),
         NEW v, v = Continued(text, entry, a, rest, Closing(bracket)), v.status = "ok"
  PROVE  Listed(text, i, v.next, bracket)
<1> DEFINE is == Grammar(text)
<1>1. /\ Len(text) \in Nat /\ e \in Nat /\ i \in Nat
      /\ e <= a /\ a <= Len(text) + 1 /\ \A k \in e..(a - 1) : At(text, k) = "blank"
  <2>1. Len(text) \in Nat
    BY DEF IsText
  <2>2. e \in Nat /\ e <= Len(text) + 1 /\ i \in Nat
    BY <2>1
  <2> QED BY <2>1, <2>2, SkipStops
<1>2. IsEntry(text, is, i, a - 1, bracket)
  <2>1. BlankIn(text, i, i - 1) /\ BlankIn(text, (e - 1) + 1, a - 1) /\ e - 1 \in Int /\ a - 1 \in Int /\ e - 1 <= a - 1
    BY <1>1 DEF BlankIn
  <2> HIDE DEF is
  <2>2. IsEntry(text, is, i, e - 1, bracket)
    BY DEF is
  <2> QED BY <1>1, <2>1, <2>2, EntryWidened
<1>3. Closing(bracket) \in {"endArray", "endObject"}
  BY DEF Closing
<1> HIDE DEF is
<1>4. a - 1 \in 0..Len(text) => IsList(text, i, a - 1, bracket)
  <2>1. i \in 1..(Len(text) + 1)
    BY <1>1
  <2> QED BY <1>2, <2>1, ListMeans DEF IsSequence, is
<1>5. CASE At(text, a) = "comma"
  <2>1. ASSUME rest.status # "ok" PROVE FALSE
    <3>1. v = rest
      BY <2>1, <1>3, <1>5, ContinuedStops
    <3> QED BY <2>1, <3>1
  <2>2. v = Read(<< entry >> \o rest.value, rest.next)
    BY <2>1, <1>3, <1>5, ContinuedCases
  <2>3. v.next = rest.next
    BY <2>2 DEF Read
  <2>4. a \in 1..Len(text)
    BY <1>5, AtInside
  <2>5. CASE a = Len(text)
    <3>1. v.next = Len(text) + 1 /\ IsList(text, i, Len(text) - 1, bracket) /\ Len(text) + 1 \in (i + 1)..(Len(text) + 1)
      BY <2>1, <2>3, <2>5, <1>1, <1>4 DEF ListSound
    <3> QED BY <3>1, <2>5, <1>5 DEF Listed
  <2>6. CASE a # Len(text)
    <3> DEFINE x == rest.next
    <3>1. a + 1 <= Len(text) /\ Listed(text, a + 1, x, bracket)
      BY <2>1, <2>4, <2>6, <1>1 DEF ListSound
    <3> HIDE DEF x
    <3>2. x \in (a + 2)..(Len(text) + 1)
      BY <3>1, <1>1 DEF Listed
    <3>3. ASSUME NEW j \in 0..Len(text), IsList(text, a + 1, j, bracket), a <= j
          PROVE  IsList(text, i, j, bracket)
      <4>1. a \in i..j /\ i \in 1..(Len(text) + 1)
        BY <3>3, <1>1, <2>4
      <4>2. IsSequence(text, is, i, j, bracket)
        BY <3>3, <4>1, <1>2, <1>5 DEF IsSequence, IsList, is
      <4> QED BY <4>1, <4>2, ListMeans DEF is
    <3>4. CASE x > a + 2 /\ At(text, x - 1) = Closing(bracket) /\ IsList(text, a + 1, x - 2, bracket)
      <4>1. x - 2 \in 0..Len(text) /\ a <= x - 2 /\ x > i + 1 /\ x \in (i + 1)..(Len(text) + 1)
        BY <3>2, <3>4, <1>1, <2>4
      <4>2. IsList(text, i, x - 2, bracket)
        BY <3>3, <3>4, <4>1
      <4> QED BY <3>4, <4>1, <4>2, <2>3 DEF Listed, x
    <3>5. CASE x = Len(text) + 1 /\ At(text, Len(text)) = "comma" /\ IsList(text, a + 1, Len(text) - 1, bracket)
      <4>1. Len(text) - 1 \in 0..Len(text) /\ a <= Len(text) - 1 /\ x \in (i + 1)..(Len(text) + 1)
        BY <3>2, <3>5, <1>1, <2>4, <2>6
      <4>2. IsList(text, i, Len(text) - 1, bracket)
        BY <3>3, <3>5, <4>1
      <4> QED BY <3>5, <4>1, <4>2, <2>3 DEF Listed, x
    <3>6. (a + 1) + 1 = a + 2
      OBVIOUS
    <3> QED BY <3>1, <3>4, <3>5, <3>6 DEF Listed
  <2> QED BY <2>5, <2>6
<1>6. CASE At(text, a) = Closing(bracket)
  <2>1. v = Read(<< entry >>, a + 1)
    BY <1>3, <1>6, ContinuedCases
  <2>2. v.next = a + 1
    BY <2>1 DEF Read
  <2>3. a \in 1..Len(text)
    <3>1. At(text, a) # "end"
      BY <1>6 DEF Closing
    <3> QED BY <3>1, AtInside
  <2>4. a - 1 \in 0..Len(text) /\ a + 1 \in (i + 1)..(Len(text) + 1) /\ a + 1 > i + 1
    BY <1>1, <2>3
  <2>5. (a + 1) - 1 = a /\ (a + 1) - 2 = a - 1
    OBVIOUS
  <2> QED BY <1>4, <1>6, <2>2, <2>4, <2>5 DEF Listed
<1>7. CASE At(text, a) \notin {"comma", Closing(bracket)}
  <2>1. v = Stop("rejected")
    BY <1>3, <1>7, ContinuedCases
  <2> QED BY <2>1 DEF Stop
<1> QED BY <1>5, <1>6, <1>7

(* What the parser makes of a text from i on.                              *)
ValueFrom(text, i) == Parser(text)[<< "value", i >>]
ElementsFrom(text, i) == Parser(text)[<< "elements", i >>]
MembersFrom(text, i) == Parser(text)[<< "members", i >>]

(* The parser, by the cases of ParseValue;                                 *)
LEMMA ValueParsed ==
  ASSUME NEW text, IsText(text), NEW i \in Nat, NEW s \in Nat, NEW n \in Nat,
         s = SkipWhitespace(text, i), n = SkipWhitespace(text, s + 1)
  PROVE  /\ ValueCases(text, s, n, ValueFrom(text, i), ElementsFrom(text, n), MembersFrom(text, n))
         /\ ValueFrom(text, i).status = "ok" =>
              ValueFrom(text, i).next \in Nat /\ ValueFrom(text, i).next > i
<1> DEFINE at == << "value", i >>
           P == Parser(text)
<1>1. at \in Spots
  BY DEF Spots
<1>2. P[at] = ParseAt(text, P, at) /\ Ahead(P[at], at)
  BY <1>1, ParserEquation
<1>3. ParseAt(text, P, at) = ParseValue(text, P, i)
  BY DEF ParseAt
<1> HIDE DEF P
<1>4. ValueCases(text, s, n, ParseValue(text, P, i), P[<< "elements", n >>], P[<< "members", n >>])
  BY ValueByCases
<1>5. P[at].status = "ok" => P[at].next \in Nat /\ P[at].next > i
  BY <1>2 DEF Ahead
<1> QED BY <1>2, <1>3, <1>4, <1>5 DEF P, ValueFrom, ElementsFrom, MembersFrom

(* of ParseArray;                                                          *)
LEMMA ElementsParsed ==
  ASSUME NEW text, IsText(text), NEW i \in Nat
  PROVE  /\ ArrayCases(text, i, ElementsFrom(text, i), ValueFrom(text, i),
                       ElementsFrom(text, SkipWhitespace(text, ValueFrom(text, i).next) + 1))
         /\ ElementsFrom(text, i).status = "ok" =>
              ElementsFrom(text, i).next \in Nat /\ ElementsFrom(text, i).next >= i
<1> DEFINE at == << "elements", i >>
           P == Parser(text)
<1>1. at \in Spots
  BY DEF Spots
<1>2. P[at] = ParseAt(text, P, at) /\ Ahead(P[at], at)
  BY <1>1, ParserEquation
<1>3. ParseAt(text, P, at) = ParseArray(text, P, i)
  BY DEF ParseAt
<1> HIDE DEF P
<1>4. ArrayCases(text, i, ParseArray(text, P, i), P[<< "value", i >>],
                 P[<< "elements", SkipWhitespace(text, P[<< "value", i >>].next) + 1 >>])
  BY DEF ArrayCases, ParseArray
<1>5. P[at].status = "ok" => P[at].next \in Nat /\ P[at].next >= i
  BY <1>2 DEF Ahead
<1> QED BY <1>2, <1>3, <1>4, <1>5 DEF P, ValueFrom, ElementsFrom

(* and of ParseObject.                                                     *)
LEMMA MembersParsed ==
  ASSUME NEW text, IsText(text), NEW i \in Nat, NEW k \in Nat, NEW c \in Nat,
         k = SkipWhitespace(text, i), c = SkipWhitespace(text, k + 1)
  PROVE  /\ ObjectCases(text, i, k, c, MembersFrom(text, i), ValueFrom(text, c + 1),
                        MembersFrom(text, SkipWhitespace(text, ValueFrom(text, c + 1).next) + 1))
         /\ MembersFrom(text, i).status = "ok" =>
              MembersFrom(text, i).next \in Nat /\ MembersFrom(text, i).next >= i
<1> DEFINE at == << "members", i >>
           P == Parser(text)
<1>1. at \in Spots
  BY DEF Spots
<1>2. P[at] = ParseAt(text, P, at) /\ Ahead(P[at], at)
  BY <1>1, ParserEquation
<1>3. ParseAt(text, P, at) = ParseObject(text, P, i)
  BY DEF ParseAt
<1> HIDE DEF P
<1>4. ObjectCases(text, i, k, c, ParseObject(text, P, i), P[<< "value", c + 1 >>],
                  P[<< "members", SkipWhitespace(text, P[<< "value", c + 1 >>].next) + 1 >>])
  BY DEF ObjectCases, ParseObject, Misspelt
<1>5. P[at].status = "ok" => P[at].next \in Nat /\ P[at].next >= i
  BY <1>2 DEF Ahead
<1> QED BY <1>2, <1>3, <1>4, <1>5 DEF P, ValueFrom, MembersFrom

(* After a value of a list that is not closed there is nothing.            *)
LEMMA ItemRead ==
  ASSUME NEW text, IsText(text), NEW i \in 1..Len(text), ValueFrom(text, i).status = "ok",
         ValueSound(text, i, ValueFrom(text, i)),
         At(text, SkipWhitespace(text, ValueFrom(text, i).next)) # "end"
  PROVE  /\ ValueFrom(text, i).next \in (i + 1)..(Len(text) + 1)
         /\ IsItem(text, Grammar(text), i, ValueFrom(text, i).next - 1)
<1> DEFINE e == ValueFrom(text, i).next
<1>0. Len(text) \in Nat
  BY DEF IsText
<1>1. PICK s \in i..Len(text) :
        /\ s = SkipWhitespace(text, i)
        /\ e \in (s + 1)..(Len(text) + 1)
        /\ IsValue(text, s, e - 1) \/ (e = Len(text) + 1 /\ CutAt(text, s))
  BY DEF ValueSound, Valued
<1>2. At(text, SkipWhitespace(text, e)) # "end"
  OBVIOUS
<1> HIDE DEF e
<1>3. e # Len(text) + 1
  <2> SUFFICES ASSUME e = Len(text) + 1 PROVE FALSE
    OBVIOUS
  <2>1. SkipWhitespace(text, e) = e
    BY <1>0, SkipStops
  <2>2. At(text, e) = "end"
    BY <1>0 DEF At, IsText
  <2> QED BY <2>1, <2>2, <1>2
<1>4. IsValue(text, s, e - 1)
  BY <1>1, <1>3
<1>5. BlankIn(text, i, s - 1)
  <2>1. i \in Nat
    BY <1>0
  <2> QED BY <1>1, <2>1, SkipStops DEF BlankIn
<1>6. BlankIn(text, (e - 1) + 1, e - 1)
  BY <1>0, <1>1 DEF BlankIn
<1>7. s \in i..(e - 1) /\ e - 1 \in i..(e - 1) /\ e \in (i + 1)..(Len(text) + 1)
  BY <1>0, <1>1
<1>8. IsItem(text, Grammar(text), i, e - 1)
  BY <1>4, <1>5, <1>6, <1>7 DEF IsItem, IsValue
<1> QED BY <1>7, <1>8 DEF e

(* A list of elements, from what the parser makes of what follows.         *)
LEMMA ElementsSound ==
  ASSUME NEW text, IsText(text), NEW i \in 1..Len(text),
         ValueSound(text, i, ValueFrom(text, i)),
         \A n \in (i + 1)..(Len(text) + 1) : ListSound(text, n, ElementsFrom(text, n), "beginArray")
  PROVE  ListSound(text, i, ElementsFrom(text, i), "beginArray")
<1> DEFINE v == ElementsFrom(text, i)
           element == ValueFrom(text, i)
           e == element.next
           a == SkipWhitespace(text, e)
           rest == ElementsFrom(text, a + 1)
<1>0. Len(text) \in Nat /\ i \in Nat
  BY DEF IsText
<1> SUFFICES ASSUME v.status = "ok" PROVE Listed(text, i, v.next, "beginArray")
  BY DEF ListSound
<1>1. ArrayCases(text, i, v, element, rest)
  BY <1>0, ElementsParsed
<1> HIDE DEF v, element, rest
<1>2. element.status = "ok"
  BY <1>1 DEF ArrayCases
<1>3. v = Continued(text, element.value, a, rest, "endArray")
  BY <1>1, <1>2 DEF ArrayCases
<1>4. e \in Nat /\ e > i
  <2>1. SkipWhitespace(text, i) \in Nat
    BY <1>0, SkipStops
  <2>2. SkipWhitespace(text, SkipWhitespace(text, i) + 1) \in Nat
    <3>1. SkipWhitespace(text, i) + 1 \in Nat
      BY <2>1
    <3> QED BY <3>1, SkipStops
  <2> QED BY <1>0, <1>2, <2>1, <2>2, ValueParsed DEF element
<1>5. a \in Nat /\ e <= a
  BY <1>4, SkipStops
<1> HIDE DEF a
<1>6. At(text, a) # "end"
  <2> SUFFICES ASSUME At(text, a) = "end" PROVE FALSE
    OBVIOUS
  <2>1. v = Stop("rejected")
    BY <1>3 DEF Continued
  <2> QED BY <2>1 DEF Stop
<1>7. e \in (i + 1)..(Len(text) + 1) /\ IsEntry(text, Grammar(text), i, e - 1, "beginArray")
  BY <1>2, <1>6, ItemRead DEF IsEntry, element, a
<1>8. a <= Len(text) => ListSound(text, a + 1, rest, "beginArray")
  BY <1>0, <1>4, <1>5 DEF rest
<1>9. a = SkipWhitespace(text, e)
  BY DEF a
<1>10. "beginArray" \in Brackets /\ Closing("beginArray") = "endArray"
  BY DEF Brackets, Closing
<1> HIDE DEF e
<1> QED BY <1>3, <1>5, <1>7, <1>8, <1>9, <1>10, ContinuedSound

(* A list of members, from what the parser makes of what follows.          *)
LEMMA MembersSound ==
  ASSUME NEW text, IsText(text), NEW i \in 1..Len(text),
         \A n \in (i + 1)..Len(text) : ValueSound(text, n, ValueFrom(text, n)),
         \A n \in (i + 1)..(Len(text) + 1) : ListSound(text, n, MembersFrom(text, n), "beginObject")
  PROVE  ListSound(text, i, MembersFrom(text, i), "beginObject")
<1> DEFINE v == MembersFrom(text, i)
           k == SkipWhitespace(text, i)
           c == SkipWhitespace(text, k + 1)
           value == ValueFrom(text, c + 1)
           e == value.next
           a == SkipWhitespace(text, e)
           rest == MembersFrom(text, a + 1)
           member == [key |-> text[k], value |-> value.value]
<1>0. Len(text) \in Nat /\ i \in Nat
  BY DEF IsText
<1> SUFFICES ASSUME v.status = "ok" PROVE Listed(text, i, v.next, "beginObject")
  BY DEF ListSound
<1>a. k \in Nat /\ i <= k /\ \A m \in i..(k - 1) : At(text, m) = "blank"
  BY <1>0, SkipStops
<1>b. c \in Nat /\ k + 1 <= c /\ \A m \in (k + 1)..(c - 1) : At(text, m) = "blank"
  <2> HIDE DEF k
  <2>1. k + 1 \in Nat
    BY <1>a
  <2> QED BY <2>1, SkipStops
<1>1. ObjectCases(text, i, k, c, v, value, rest)
  BY <1>0, <1>a, <1>b, MembersParsed
<1> HIDE DEF v, value, rest, k, c
<1>2. At(text, k) = "string" /\ At(text, c) = "colon" /\ value.status = "ok"
  BY <1>1 DEF ObjectCases, Stop
<1>3. v = Continued(text, member, a, rest, "endObject")
  BY <1>1, <1>2 DEF ObjectCases
<1>c. k \in 1..Len(text) /\ c \in 1..Len(text)
  BY <1>2, AtInside
<1>4. e \in Nat /\ e > c + 1
  <2>0. c + 1 \in Nat
    BY <1>b
  <2>1. SkipWhitespace(text, c + 1) \in Nat
    BY <2>0, SkipStops
  <2>2. SkipWhitespace(text, SkipWhitespace(text, c + 1) + 1) \in Nat
    <3>1. SkipWhitespace(text, c + 1) + 1 \in Nat
      BY <2>1
    <3> QED BY <3>1, SkipStops
  <2> QED BY <2>0, <1>2, <2>1, <2>2, ValueParsed DEF value
<1>5. a \in Nat /\ e <= a
  BY <1>4, SkipStops
<1> HIDE DEF a, member
<1>6. At(text, a) # "end"
  <2> SUFFICES ASSUME At(text, a) = "end" PROVE FALSE
    OBVIOUS
  <2>1. v = Stop("rejected")
    BY <1>3 DEF Continued
  <2> QED BY <2>1 DEF Stop
<1>d. c + 1 \in 1..Len(text)
  <2>1. a <= Len(text)
    BY <1>5, <1>6, AtInside
  <2> QED BY <2>1, <1>0, <1>4, <1>5, <1>b
<1>7. e \in (c + 2)..(Len(text) + 1) /\ IsItem(text, Grammar(text), c + 1, e - 1)
  <2>1. ValueSound(text, c + 1, value)
    BY <1>0, <1>a, <1>b, <1>d DEF value
  <2>2. PICK j \in 1..Len(text) : j = c + 1
    BY <1>d
  <2> HIDE DEF e
  <2>3. value = ValueFrom(text, j) /\ e = ValueFrom(text, j).next
    BY <2>2 DEF value, e
  <2>4. e \in (j + 1)..(Len(text) + 1) /\ IsItem(text, Grammar(text), j, e - 1)
    BY <2>1, <2>2, <2>3, <1>2, <1>6, ItemRead DEF a
  <2> QED BY <2>2, <2>4, <1>b
<1> HIDE DEF e
<1>8. IsEntry(text, Grammar(text), i, e - 1, "beginObject")
  <2>1. BlankIn(text, i, k - 1) /\ BlankIn(text, k + 1, c - 1)
    BY <1>a, <1>b DEF BlankIn
  <2>2. k \in i..(e - 1) /\ c \in i..(e - 1) /\ k < c
    BY <1>0, <1>a, <1>b, <1>7
  <2> QED BY <2>1, <2>2, <1>2, <1>7 DEF IsEntry
<1>9. e \in (i + 1)..(Len(text) + 1)
  BY <1>0, <1>a, <1>b, <1>7
<1>10. a <= Len(text) => ListSound(text, a + 1, rest, "beginObject")
  BY <1>0, <1>5, <1>9 DEF rest
<1>11. a = SkipWhitespace(text, e)
  BY DEF a, e
<1>12. "beginObject" \in Brackets /\ Closing("beginObject") = "endObject"
  BY DEF Brackets, Closing
<1> QED BY <1>3, <1>5, <1>8, <1>9, <1>10, <1>11, <1>12, ContinuedSound

(* A container read from its opening bracket.                              *)
LEMMA ContainerSound ==
  ASSUME NEW text, IsText(text), NEW s \in 1..Len(text), At(text, s) \in Brackets,
         NEW n \in Nat, n = SkipWhitespace(text, s + 1), NEW e,
         \/ At(text, n) = Closing(At(text, s)) /\ e = n + 1
         \/ n > Len(text) /\ e = n
         \/ n <= Len(text) /\ Listed(text, n, e, At(text, s))
  PROVE  /\ e \in (s + 1)..(Len(text) + 1)
         /\ IsValue(text, s, e - 1) \/ (e = Len(text) + 1 /\ CutAt(text, s))
<1> DEFINE bracket == At(text, s)
<1>0. Len(text) \in Nat
  BY DEF IsText
<1>1. s + 1 <= n /\ n <= Len(text) + 1 /\ BlankIn(text, s + 1, n - 1)
  <2>1. s + 1 \in Nat /\ s + 1 <= Len(text) + 1
    BY <1>0
  <2> QED BY <2>1, SkipStops DEF BlankIn
<1>2. bracket \in Brackets
  OBVIOUS
<1>3. ASSUME NEW j \in 1..Len(text), s < j, At(text, j) = Closing(bracket),
             BlankIn(text, s + 1, j - 1) \/ IsList(text, s + 1, j - 1, bracket)
      PROVE  IsValue(text, s, j)
  <2>1. IsContainer(text, Grammar(text), s, j)
    BY <1>3 DEF IsContainer, IsList, Brackets
  <2>2. s \in 1..(Len(text) + 1) /\ j \in 0..Len(text)
    BY <1>0
  <2> QED BY <2>1, <2>2, ValueMeans
<1> HIDE DEF bracket
<1>4. CASE At(text, n) = Closing(bracket) /\ e = n + 1
  <2>1. n \in 1..Len(text)
    <3>1. At(text, n) # "end"
      BY <1>4 DEF Closing
    <3> QED BY <3>1, AtInside
  <2>2. IsValue(text, s, n)
    BY <1>1, <1>3, <1>4, <2>1
  <2>3. (n + 1) - 1 = n /\ n + 1 \in (s + 1)..(Len(text) + 1)
    BY <1>0, <1>1, <2>1
  <2> QED BY <1>4, <2>2, <2>3
<1>5. CASE n > Len(text) /\ e = n
  <2>1. e = Len(text) + 1 /\ n - 1 = Len(text) /\ e \in (s + 1)..(Len(text) + 1)
    BY <1>0, <1>1, <1>5
  <2> QED BY <1>1, <2>1 DEF CutAt
<1>6. CASE n <= Len(text) /\ Listed(text, n, e, bracket)
  <2>1. e \in (n + 1)..(Len(text) + 1)
    BY <1>6 DEF Listed
  <2>2. ASSUME NEW j \in 0..Len(text), IsList(text, n, j, bracket)
        PROVE  IsList(text, s + 1, j, bracket)
    <3>1. s + 1 \in 1..(Len(text) + 1) /\ n \in 1..(Len(text) + 1)
      BY <1>0, <1>1
    <3> QED BY <1>1, <1>2, <2>2, <3>1, ListWidened DEF bracket
  <2>3. e \in (s + 1)..(Len(text) + 1)
    BY <1>0, <1>1, <2>1
  <2>4. CASE e > n + 1 /\ At(text, e - 1) = Closing(bracket) /\ IsList(text, n, e - 2, bracket)
    <3>1. e - 1 \in 1..Len(text) /\ s < e - 1 /\ e - 2 \in 0..Len(text) /\ (e - 1) - 1 = e - 2
      BY <1>0, <1>1, <2>1, <2>4
    <3>2. IsList(text, s + 1, e - 2, bracket)
      BY <2>2, <2>4, <3>1
    <3>3. IsValue(text, s, e - 1)
      BY <1>3, <2>4, <3>1, <3>2
    <3> QED BY <2>3, <3>3
  <2>5. CASE e = Len(text) + 1 /\ At(text, Len(text)) = "comma" /\ IsList(text, n, Len(text) - 1, bracket)
    <3>1. Len(text) - 1 \in 0..Len(text)
      BY <1>0, <1>1, <1>6
    <3>2. IsList(text, s + 1, Len(text) - 1, bracket)
      BY <2>2, <2>5, <3>1
    <3> QED BY <2>3, <2>5, <3>2 DEF CutAt, bracket
  <2> QED BY <1>6, <2>4, <2>5 DEF Listed
<1> QED BY <1>4, <1>5, <1>6 DEF bracket

(* A value, from what the parser makes of what follows.                    *)
LEMMA ValueFromSound ==
  ASSUME NEW text, IsText(text), NEW i \in 1..(Len(text) + 1),
         \A n \in (i + 1)..(Len(text) + 1) :
           /\ ListSound(text, n, ElementsFrom(text, n), "beginArray")
           /\ ListSound(text, n, MembersFrom(text, n), "beginObject")
  PROVE  ValueSound(text, i, ValueFrom(text, i))
<1> DEFINE v == ValueFrom(text, i)
           s == SkipWhitespace(text, i)
           n == SkipWhitespace(text, s + 1)
           elements == ElementsFrom(text, n)
           members == MembersFrom(text, n)
<1>0. Len(text) \in Nat /\ i \in Nat
  BY DEF IsText
<1> SUFFICES ASSUME v.status = "ok" PROVE Valued(text, i, v.next)
  BY DEF ValueSound
<1>1. s \in Nat /\ i <= s
  BY <1>0, SkipStops
<1>2. n \in Nat /\ s + 1 <= n
  <2> HIDE DEF s
  <2>1. s + 1 \in Nat
    BY <1>1
  <2> QED BY <2>1, SkipStops
<1>3. ValueCases(text, s, n, v, elements, members)
  BY <1>0, <1>1, <1>2, ValueParsed
<1>4. s = SkipWhitespace(text, i) /\ n = SkipWhitespace(text, s + 1)
  OBVIOUS
<1> HIDE DEF s, n, v, elements, members
<1>5. At(text, s) \in Scalars \cup Brackets
  <2> SUFFICES ASSUME At(text, s) \notin Scalars \cup Brackets PROVE FALSE
    OBVIOUS
  <2>1. v.status # "ok"
    <3>1. CASE At(text, s) \in Throwing
      BY <3>1, <1>3 DEF ValueCases, Stop
    <3>2. CASE At(text, s) \notin Throwing
      BY <3>2, <1>3 DEF ValueCases, Stop, Brackets
    <3> QED BY <3>1, <3>2
  <2> QED BY <2>1
<1>6. s \in 1..Len(text) /\ s \in i..Len(text)
  <2>1. At(text, s) # "end"
    BY <1>5 DEF Scalars, Brackets
  <2> QED BY <2>1, <1>0, <1>1, AtInside
<1>7. CASE At(text, s) \in Scalars
  <2>1. v = Read(Scalar(text[s]), s + 1)
    BY <1>3, <1>7 DEF ValueCases
  <2>2. v.next = s + 1
    BY <2>1 DEF Read
  <2>3. IsValue(text, s, s)
    <3>1. s \in 1..(Len(text) + 1) /\ s \in 0..Len(text)
      BY <1>0, <1>6
    <3> QED BY <3>1, <1>7, ValueMeans
  <2>4. (s + 1) - 1 = s /\ s + 1 \in (s + 1)..(Len(text) + 1)
    BY <1>0, <1>6
  <2> QED BY <1>4, <1>6, <2>2, <2>3, <2>4 DEF Valued
<1>8. CASE At(text, s) \in Brackets
  <2> DEFINE e == v.next
  <2>1. ASSUME NEW x, x.status = "ok", v = Filled("elements", x) \/ v = Filled("members", x)
        PROVE  e = x.next
    BY <2>1 DEF Filled, Read
  <2>2. ASSUME NEW x, v = Filled("elements", x) \/ v = Filled("members", x)
        PROVE  x.status = "ok"
    BY <2>2 DEF Filled
  <2>3. \/ At(text, n) = Closing(At(text, s)) /\ e = n + 1
        \/ n > Len(text) /\ e = n
        \/ n <= Len(text) /\ Listed(text, n, e, At(text, s))
    <3>0. n <= Len(text) + 1 /\ n \in (i + 1)..(Len(text) + 1)
      <4>1. s + 1 \in Nat /\ s + 1 <= Len(text) + 1
        BY <1>0, <1>6
      <4>2. n <= Len(text) + 1
        BY <1>4, <4>1, SkipStops
      <4> QED BY <4>2, <1>0, <1>1, <1>2
    <3>1. CASE At(text, n) = Closing(At(text, s))
      <4>1. v = Read(Array(<< >>), n + 1) \/ v = Read(Object(<< >>), n + 1)
        BY <1>3, <1>8, <3>1 DEF ValueCases, Brackets, Closing
      <4> QED BY <4>1, <3>1 DEF Read
    <3>2. CASE At(text, s) = "beginArray" /\ At(text, n) # "endArray"
      <4>1. v = Filled("elements", elements)
        BY <1>3, <3>2 DEF ValueCases
      <4>2. elements.status = "ok" /\ e = elements.next
        BY <4>1, <2>1, <2>2
      <4>3. ListSound(text, n, elements, "beginArray")
        BY <3>0 DEF elements
      <4> QED BY <4>2, <4>3, <3>0, <3>2, <1>0 DEF ListSound
    <3>3. CASE At(text, s) = "beginObject" /\ At(text, n) # "endObject"
      <4>1. v = Filled("members", members)
        BY <1>3, <3>3 DEF ValueCases
      <4>2. members.status = "ok" /\ e = members.next
        BY <4>1, <2>1, <2>2
      <4>3. ListSound(text, n, members, "beginObject")
        BY <3>0 DEF members
      <4> QED BY <4>2, <4>3, <3>0, <3>3, <1>0 DEF ListSound
    <3> QED BY <1>8, <3>1, <3>2, <3>3 DEF Brackets, Closing
  <2> HIDE DEF e
  <2>4. /\ e \in (s + 1)..(Len(text) + 1)
        /\ IsValue(text, s, e - 1) \/ (e = Len(text) + 1 /\ CutAt(text, s))
    BY <1>2, <1>4, <1>6, <1>8, <2>3, ContainerSound
  <2> QED BY <1>4, <1>6, <2>4 DEF Valued, e
<1> QED BY <1>5, <1>7, <1>8

(* What the parser reads from any place on is a value, or a list, or is    *)
(* cut short.                                                              *)
SoundFrom(text, i) ==
  /\ ValueSound(text, i, ValueFrom(text, i))
  /\ ListSound(text, i, ElementsFrom(text, i), "beginArray")
  /\ ListSound(text, i, MembersFrom(text, i), "beginObject")

(* All three at i, from all three after i.                                 *)
LEMMA SoundStep ==
  ASSUME NEW text, IsText(text), NEW i \in 1..(Len(text) + 1),
         \A n \in (i + 1)..(Len(text) + 1) : SoundFrom(text, n)
  PROVE  SoundFrom(text, i)
<1>0. Len(text) \in Nat /\ i \in Nat
  BY DEF IsText
<1>1. ValueSound(text, i, ValueFrom(text, i))
  BY ValueFromSound DEF SoundFrom
<1>2. CASE i <= Len(text)
  <2>1. i \in 1..Len(text)
    BY <1>0, <1>2
  <2>2. ListSound(text, i, ElementsFrom(text, i), "beginArray")
    BY <1>1, <2>1, ElementsSound DEF SoundFrom
  <2>3. ListSound(text, i, MembersFrom(text, i), "beginObject")
    <3>1. \A n \in (i + 1)..Len(text) : ValueSound(text, n, ValueFrom(text, n))
      BY <1>0 DEF SoundFrom
    <3> QED BY <2>1, <3>1, MembersSound DEF SoundFrom
  <2> QED BY <1>1, <2>2, <2>3 DEF SoundFrom
<1>3. CASE i > Len(text)
  <2>1. ElementsFrom(text, i) = Read(<< >>, i)
    BY <1>0, <1>3, ElementsParsed DEF ArrayCases
  <2>2. PICK k \in Nat : k = SkipWhitespace(text, i)
    BY <1>0, SkipStops
  <2>3. PICK c \in Nat : c = SkipWhitespace(text, k + 1)
    <3>1. k + 1 \in Nat
      OBVIOUS
    <3> QED BY <3>1, SkipStops
  <2>4. MembersFrom(text, i) = Read(<< >>, i)
    BY <1>0, <1>3, <2>2, <2>3, MembersParsed DEF ObjectCases
  <2> QED BY <1>1, <1>3, <2>1, <2>4 DEF SoundFrom, ListSound, Read
<1> QED BY <1>0, <1>2, <1>3

(* All that is read is what the grammar says.                              *)
LEMMA SoundEverywhere ==
  ASSUME NEW text, IsText(text)
  PROVE  \A i \in 1..(Len(text) + 1) : SoundFrom(text, i)
<1> DEFINE S == {i \in 1..(Len(text) + 1) : SoundFrom(text, i)}
<1>1. Len(text) \in Nat
  BY DEF IsText
<1>2. ASSUME NEW i \in 1..(Len(text) + 1), \A k \in (i + 1)..(Len(text) + 1) : k \in S
      PROVE  i \in S
  <2>1. ASSUME NEW k \in (i + 1)..(Len(text) + 1) PROVE SoundFrom(text, k)
    BY <1>2
  <2> QED BY <2>1, SoundStep
<1>3. \A i \in 1..(Len(text) + 1) : i \in S
  <2> HIDE DEF S
  <2> QED BY <1>1, <1>2, FromTheEnd
<1> QED BY <1>3

-----------------------------------------------------------------------------
(* What the grammar allows is read.                                        *)

(* A value starts with a scalar or an opening bracket.                     *)
LEMMA ValueStarts ==
  ASSUME NEW text, IsText(text), NEW i \in 1..(Len(text) + 1), NEW j \in 0..Len(text),
         IsValue(text, i, j)
  PROVE  i <= j /\ i \in 1..Len(text) /\ At(text, i) \in Scalars \cup {Unreadable} \cup Brackets
<1>0. Len(text) \in Nat
  BY DEF IsText
<1>1. \/ i = j /\ At(text, i) \in Scalars \cup {Unreadable}
      \/ IsContainer(text, Grammar(text), i, j)
  BY ValueMeans
<1>2. i <= j /\ At(text, i) \in Scalars \cup {Unreadable} \cup Brackets
  BY <1>1 DEF IsContainer, Brackets
<1> QED BY <1>0, <1>2

(* An item is a value, which starts at the first token that is not blank.  *)
LEMMA ItemMeans ==
  ASSUME NEW text, IsText(text), NEW i \in 1..(Len(text) + 1), NEW m \in 0..Len(text),
         IsItem(text, Grammar(text), i, m)
  PROVE  \E a, b \in i..m : /\ a = SkipWhitespace(text, i) /\ At(text, a) \notin {"blank", "endArray", "endObject"}
                            /\ IsValue(text, a, b) /\ BlankIn(text, b + 1, m)
<1>0. Len(text) \in Nat /\ i \in Nat \ {0}
  BY DEF IsText
<1>1. PICK a \in i..m, b \in i..m :
        BlankIn(text, i, a - 1) /\ BlankIn(text, b + 1, m) /\ IsValue(text, a, b)
  BY DEF IsItem, IsValue
<1>2. a \in 1..(Len(text) + 1) /\ b \in 0..Len(text) /\ a \in i..(Len(text) + 1)
  BY <1>0
<1>3. At(text, a) \in Scalars \cup {Unreadable} \cup Brackets
  BY <1>1, <1>2, ValueStarts
<1>4. At(text, a) \notin {"blank", "endArray", "endObject"}
  BY <1>3 DEF Scalars, Unreadable, Brackets
<1>5. SkipWhitespace(text, i) = a
  <2>1. \A k \in i..(a - 1) : At(text, k) = "blank"
    BY <1>1 DEF BlankIn
  <2> QED BY <1>0, <1>2, <1>4, <2>1, SkipsTo
<1> QED BY <1>1, <1>4, <1>5

(* A member is a key, a colon and an item, each where the parser looks for *)
(* it.                                                                     *)
LEMMA MemberMeans ==
  ASSUME NEW text, IsText(text), NEW i \in 1..(Len(text) + 1), NEW m \in 0..Len(text),
         IsEntry(text, Grammar(text), i, m, "beginObject")
  PROVE  \E k, c \in i..m : /\ k = SkipWhitespace(text, i) /\ At(text, k) = "string"
                            /\ c = SkipWhitespace(text, k + 1) /\ At(text, c) = "colon"
                            /\ k < c /\ IsItem(text, Grammar(text), c + 1, m)
<1>0. Len(text) \in Nat /\ i \in Nat \ {0}
  BY DEF IsText
<1>1. PICK k \in i..m, c \in i..m :
        /\ BlankIn(text, i, k - 1) /\ At(text, k) = "string"
        /\ BlankIn(text, k + 1, c - 1) /\ At(text, c) = "colon" /\ k < c
        /\ IsItem(text, Grammar(text), c + 1, m)
  BY DEF IsEntry
<1>2. SkipWhitespace(text, i) = k
  <2>1. k \in i..(Len(text) + 1) /\ At(text, k) # "blank" /\ \A n \in i..(k - 1) : At(text, n) = "blank"
    BY <1>0, <1>1 DEF BlankIn
  <2> QED BY <1>0, <2>1, SkipsTo
<1>3. SkipWhitespace(text, k + 1) = c
  <2>1. /\ k + 1 \in Nat \ {0} /\ c \in (k + 1)..(Len(text) + 1)
        /\ At(text, c) # "blank" /\ \A n \in (k + 1)..(c - 1) : At(text, n) = "blank"
    BY <1>0, <1>1 DEF BlankIn
  <2> QED BY <2>1, SkipsTo
<1> QED BY <1>1, <1>2, <1>3

(* An entry does not start with a closing bracket.                         *)
LEMMA EntryStarts ==
  ASSUME NEW text, IsText(text), NEW i \in 1..(Len(text) + 1), NEW m \in 0..Len(text),
         NEW bracket \in Brackets,
         IsEntry(text, Grammar(text), i, m, bracket)
  PROVE  /\ SkipWhitespace(text, i) \in i..m
         /\ At(text, SkipWhitespace(text, i)) \notin {"endArray", "endObject"}
         /\ IsEntry(text, Grammar(text), SkipWhitespace(text, i), m, bracket)
<1> DEFINE n == SkipWhitespace(text, i)
<1>0. Len(text) \in Nat /\ i \in Nat
  BY DEF IsText
<1>1. CASE bracket = "beginArray"
  <2>1. IsItem(text, Grammar(text), i, m)
    BY <1>1 DEF IsEntry
  <2>2. PICK a \in i..m, b \in i..m : /\ a = n /\ At(text, a) \notin {"blank", "endArray", "endObject"}
                                      /\ IsValue(text, a, b) /\ BlankIn(text, b + 1, m)
    BY <2>1, ItemMeans
  <2> HIDE DEF n
  <2>3. a <= b /\ BlankIn(text, a, a - 1)
    <3>1. a \in 1..(Len(text) + 1) /\ b \in 0..Len(text)
      BY <1>0
    <3> QED BY <2>2, <3>1, ValueStarts DEF BlankIn
  <2>4. IsItem(text, Grammar(text), a, m)
    <3>1. a \in a..m /\ b \in a..m
      BY <2>3
    <3> QED BY <2>2, <2>3, <3>1 DEF IsItem, IsValue
  <2> QED BY <1>1, <2>2, <2>4 DEF IsEntry, n
<1>2. CASE bracket = "beginObject"
  <2>1. PICK k \in i..m, c \in i..m :
          /\ k = n /\ At(text, k) = "string"
          /\ c = SkipWhitespace(text, k + 1) /\ At(text, c) = "colon"
          /\ k < c /\ IsItem(text, Grammar(text), c + 1, m)
    BY <1>2, MemberMeans
  <2> HIDE DEF n
  <2>2. BlankIn(text, k + 1, c - 1)
    <3>1. k + 1 \in Nat
      BY <1>0
    <3> QED BY <2>1, <3>1, SkipStops DEF BlankIn
  <2>3. BlankIn(text, k, k - 1) /\ k \in k..m /\ c \in k..m
    BY <1>0, <2>1 DEF BlankIn
  <2>4. IsEntry(text, Grammar(text), k, m, bracket)
    BY <1>2, <2>1, <2>2, <2>3 DEF IsEntry
  <2> QED BY <2>1, <2>4 DEF n
<1> QED BY <1>1, <1>2 DEF Brackets

(* A list does not start with a closing bracket.                           *)
LEMMA ListStarts ==
  ASSUME NEW text, IsText(text), NEW i \in 1..(Len(text) + 1), NEW j \in 0..Len(text),
         NEW bracket \in Brackets,
         IsList(text, i, j, bracket)
  PROVE  /\ SkipWhitespace(text, i) \in i..j
         /\ At(text, SkipWhitespace(text, i)) \notin {"endArray", "endObject"}
         /\ IsList(text, SkipWhitespace(text, i), j, bracket)
<1> DEFINE n == SkipWhitespace(text, i)
           is == Grammar(text)
<1>0. Len(text) \in Nat
  BY DEF IsText
<1>1. \/ IsEntry(text, is, i, j, bracket)
      \/ \E c \in i..j : At(text, c) = "comma" /\ IsEntry(text, is, i, c - 1, bracket) /\ is[<< bracket, c + 1, j >>]
  BY ListMeans DEF IsSequence
<1>2. ASSUME NEW m \in 0..Len(text), IsEntry(text, is, i, m, bracket)
      PROVE  /\ n \in i..m /\ At(text, n) \notin {"endArray", "endObject"}
             /\ IsEntry(text, is, n, m, bracket)
  BY <1>2, EntryStarts
<1> HIDE DEF n, is
<1>3. CASE IsEntry(text, is, i, j, bracket)
  <2>1. n \in i..j /\ At(text, n) \notin {"endArray", "endObject"} /\ IsEntry(text, is, n, j, bracket)
    BY <1>2, <1>3
  <2>2. n \in 1..(Len(text) + 1)
    BY <1>0, <2>1
  <2> QED BY <2>1, <2>2, ListMeans DEF IsSequence, is, n
<1>4. CASE \E c \in i..j : At(text, c) = "comma" /\ IsEntry(text, is, i, c - 1, bracket) /\ is[<< bracket, c + 1, j >>]
  <2>1. PICK c \in i..j : At(text, c) = "comma" /\ IsEntry(text, is, i, c - 1, bracket) /\ is[<< bracket, c + 1, j >>]
    BY <1>4
  <2>2. c - 1 \in 0..Len(text)
    BY <1>0
  <2>3. n \in i..(c - 1) /\ At(text, n) \notin {"endArray", "endObject"} /\ IsEntry(text, is, n, c - 1, bracket)
    BY <2>1, <2>2, <1>2
  <2>4. n \in 1..(Len(text) + 1) /\ c \in n..j /\ n \in i..j
    BY <1>0, <2>3
  <2>5. IsSequence(text, is, n, j, bracket)
    BY <2>1, <2>3, <2>4 DEF IsSequence
  <2> QED BY <2>3, <2>4, <2>5, ListMeans DEF is, n
<1> QED BY <1>1, <1>3, <1>4

(* The parser reads up to e, unless a number on the way throws.            *)
Reads(result, e) == result.status = "throws" \/ (result.status = "ok" /\ result.next = e)

(* What may follow a list: its bracket, or a comma that is the last token. *)
Ends(text, a, bracket) ==
  a <= Len(text) /\ (At(text, a) = Closing(bracket) \/ (At(text, a) = "comma" /\ a = Len(text)))

(* Every value is read, to its end.                                        *)
ValueComplete(text, i) ==
  \A j \in 0..Len(text) : IsValue(text, SkipWhitespace(text, i), j) => Reads(ValueFrom(text, i), j + 1)

(* The list of a container, by its opening bracket.                        *)
ListFrom(text, i, bracket) == IF bracket = "beginArray" THEN ElementsFrom(text, i) ELSE MembersFrom(text, i)

(* Every list is read, to its closing bracket or, after a comma, to the    *)
(* end of the text.                                                        *)
ListComplete(text, i, bracket) ==
  \A j \in 0..Len(text) :
    IsList(text, i, j, bracket) /\ Ends(text, j + 1, bracket) => Reads(ListFrom(text, i, bracket), j + 2)

CompleteFrom(text, i) ==
  /\ ValueComplete(text, i)
  /\ \A bracket \in Brackets : ListComplete(text, i, bracket)

(* An entry, and the rest of the list.                                     *)
LEMMA ContinuedReads ==
  ASSUME NEW text, NEW bracket \in Brackets, NEW entry, NEW a \in Nat, NEW rest, NEW e \in Nat,
         \/ At(text, a) = Closing(bracket) /\ e = a + 1
         \/ At(text, a) = "comma" /\ Reads(rest, e)
  PROVE  Reads(Continued(text, entry, a, rest, Closing(bracket)), e)
<1> DEFINE v == Continued(text, entry, a, rest, Closing(bracket))
<1>0. Closing(bracket) \in {"endArray", "endObject"}
  BY DEF Closing
<1> HIDE DEF v
<1>1. CASE At(text, a) = Closing(bracket) /\ e = a + 1
  <2>1. v = Read(<< entry >>, a + 1)
    BY <1>0, <1>1, ContinuedCases DEF v
  <2> QED BY <2>1, <1>1 DEF Read, Reads, v
<1>2. CASE At(text, a) = "comma" /\ Reads(rest, e)
  <2>1. CASE rest.status = "ok"
    <3>1. v = Read(<< entry >> \o rest.value, rest.next)
      BY <1>0, <1>2, <2>1, ContinuedCases DEF v
    <3> QED BY <3>1, <1>2, <2>1 DEF Read, Reads, v
  <2>2. CASE rest.status # "ok"
    <3>1. v = rest
      BY <1>0, <1>2, <2>2, ContinuedStops DEF v
    <3> QED BY <3>1, <1>2 DEF v
  <2> QED BY <2>1, <2>2
<1> QED BY <1>1, <1>2

(* A value at i, from what comes after i.                                  *)
LEMMA ValueCompleteStep ==
  ASSUME NEW text, IsText(text), NEW i \in 1..(Len(text) + 1),
         \A n \in (i + 1)..(Len(text) + 1) : CompleteFrom(text, n)
  PROVE  ValueComplete(text, i)
<1> DEFINE v == ValueFrom(text, i)
           s == SkipWhitespace(text, i)
           n == SkipWhitespace(text, s + 1)
           elements == ElementsFrom(text, n)
           members == MembersFrom(text, n)
<1>0. Len(text) \in Nat /\ i \in Nat
  BY DEF IsText
<1>1. s \in Nat /\ i <= s /\ s <= Len(text) + 1
  BY <1>0, SkipStops
<1>2. n \in Nat /\ s + 1 <= n
  <2> HIDE DEF s
  <2>1. s + 1 \in Nat
    BY <1>1
  <2> QED BY <2>1, SkipStops
<1>3. ValueCases(text, s, n, v, elements, members)
  BY <1>0, <1>1, <1>2, ValueParsed
<1>4. n = SkipWhitespace(text, s + 1)
  OBVIOUS
<1> SUFFICES ASSUME NEW j \in 0..Len(text), IsValue(text, s, j) PROVE Reads(v, j + 1)
  BY DEF ValueComplete
<1> HIDE DEF s, n, v, elements, members
<1>5. s \in 1..(Len(text) + 1)
  BY <1>0, <1>1
<1>6. CASE s = j /\ At(text, s) \in Scalars \cup {Unreadable}
  <2>1. v = Read(Scalar(text[s]), s + 1) \/ v = Stop("throws")
    BY <1>3, <1>6 DEF ValueCases, Throwing
  <2> QED BY <2>1, <1>6 DEF Reads, Read, Stop
<1>7. CASE IsContainer(text, Grammar(text), s, j)
  <2> DEFINE bracket == At(text, s)
  <2>1. bracket \in Brackets
    BY <1>7 DEF IsContainer, Brackets
  <2> HIDE DEF bracket
  <2>2. /\ s < j /\ At(text, j) = Closing(bracket)
        /\ BlankIn(text, s + 1, j - 1) \/ IsList(text, s + 1, j - 1, bracket)
    BY <1>7 DEF IsContainer, IsList, bracket
  <2>3. CASE BlankIn(text, s + 1, j - 1)
    <3>1. SkipWhitespace(text, s + 1) = j
      <4>1. s + 1 \in Nat \ {0} /\ j \in (s + 1)..(Len(text) + 1)
        BY <1>0, <1>5, <2>2
      <4>2. At(text, j) # "blank" /\ \A k \in (s + 1)..(j - 1) : At(text, k) = "blank"
        BY <2>2, <2>3 DEF BlankIn, Closing
      <4> QED BY <4>1, <4>2, SkipsTo
    <3>2. v = Read(Array(<< >>), j + 1) \/ v = Read(Object(<< >>), j + 1)
      BY <3>1, <1>3, <1>4, <2>1, <2>2 DEF ValueCases, Brackets, Closing, bracket
    <3> QED BY <3>2 DEF Reads, Read
  <2>4. CASE IsList(text, s + 1, j - 1, bracket)
    <3>1. s + 1 \in 1..(Len(text) + 1) /\ j - 1 \in 0..Len(text)
      BY <1>0, <1>5, <2>2
    <3>2. n \in (s + 1)..(j - 1) /\ At(text, n) \notin {"endArray", "endObject"} /\ IsList(text, n, j - 1, bracket)
      BY <3>1, <2>1, <2>4, <1>4, ListStarts
    <3>3. v = Filled("elements", ListFrom(text, n, bracket)) \/ v = Filled("members", ListFrom(text, n, bracket))
      BY <3>2, <1>3, <2>1 DEF ValueCases, Brackets, ListFrom, bracket, elements, members
    <3>4. Reads(ListFrom(text, n, bracket), j + 1)
      <4>1. n \in (i + 1)..(Len(text) + 1)
        BY <1>0, <1>1, <3>1, <3>2
      <4>2. ListComplete(text, n, bracket)
        BY <4>1, <2>1 DEF CompleteFrom
      <4>3. Ends(text, (j - 1) + 1, bracket) /\ (j - 1) + 2 = j + 1
        BY <1>0, <2>2 DEF Ends
      <4> QED BY <3>1, <3>2, <4>2, <4>3 DEF ListComplete
    <3> QED BY <3>3, <3>4 DEF Filled, Reads, Read
  <2> QED BY <2>2, <2>3, <2>4
<1> QED BY <1>5, <1>6, <1>7, ValueMeans

(* The entries of a list, from the first on.                               *)
LEMMA ListMeansEntries ==
  ASSUME NEW text, IsText(text), NEW i \in 1..(Len(text) + 1), NEW j \in 0..Len(text),
         NEW bracket \in Brackets,
         IsList(text, i, j, bracket)
  PROVE  \E m \in 0..j :
           /\ IsEntry(text, Grammar(text), i, m, bracket)
           /\ \/ m = j
              \/ m < j /\ At(text, m + 1) = "comma" /\ IsList(text, m + 2, j, bracket) /\ m + 1 >= i
<1> DEFINE is == Grammar(text)
<1>0. Len(text) \in Nat
  BY DEF IsText
<1>1. \/ IsEntry(text, is, i, j, bracket)
      \/ \E c \in i..j : At(text, c) = "comma" /\ IsEntry(text, is, i, c - 1, bracket) /\ is[<< bracket, c + 1, j >>]
  BY ListMeans DEF IsSequence
<1>2. CASE IsEntry(text, is, i, j, bracket)
  BY <1>0, <1>2
<1>3. CASE \E c \in i..j : At(text, c) = "comma" /\ IsEntry(text, is, i, c - 1, bracket) /\ is[<< bracket, c + 1, j >>]
  <2>1. PICK c \in i..j : At(text, c) = "comma" /\ IsEntry(text, is, i, c - 1, bracket) /\ is[<< bracket, c + 1, j >>]
    BY <1>3
  <2>2. PICK m \in 0..j : m = c - 1
    BY <1>0
  <2>3. m + 1 = c /\ m + 2 = c + 1 /\ m < j /\ m + 1 >= i
    BY <2>2
  <2> QED BY <2>1, <2>2, <2>3 DEF IsList
<1> QED BY <1>1, <1>2, <1>3

(* After the text there are no entries, and none are missed.               *)
LEMMA ListAtEnd ==
  ASSUME NEW text, IsText(text), NEW i \in Nat, i > Len(text), NEW bracket \in Brackets
  PROVE  ListFrom(text, i, bracket) = Read(<< >>, i)
<1>1. ElementsFrom(text, i) = Read(<< >>, i)
  BY ElementsParsed DEF ArrayCases
<1>2. PICK k \in Nat : k = SkipWhitespace(text, i)
  BY SkipStops
<1>3. PICK c \in Nat : c = SkipWhitespace(text, k + 1)
  <2>1. k + 1 \in Nat
    OBVIOUS
  <2> QED BY <2>1, SkipStops
<1>4. MembersFrom(text, i) = Read(<< >>, i)
  BY <1>2, <1>3, MembersParsed DEF ObjectCases
<1> QED BY <1>1, <1>4 DEF ListFrom

(* What follows the first entry of a list is read.                         *)
LEMMA TailReads ==
  ASSUME NEW text, IsText(text), NEW i \in 1..Len(text), NEW bracket \in Brackets,
         \A n \in (i + 1)..(Len(text) + 1) : CompleteFrom(text, n),
         NEW j \in 0..Len(text), Ends(text, j + 1, bracket), NEW m \in i..j, NEW entry,
         \/ m = j
         \/ m < j /\ At(text, m + 1) = "comma" /\ IsList(text, m + 2, j, bracket)
  PROVE  Reads(Continued(text, entry, m + 1, ListFrom(text, m + 2, bracket), Closing(bracket)), j + 2)
<1> DEFINE rest == ListFrom(text, m + 2, bracket)
<1>0. Len(text) \in Nat /\ m + 1 \in Nat /\ m + 2 \in Nat /\ j + 2 \in Nat
  BY DEF IsText
<1> HIDE DEF rest
<1> SUFFICES \/ At(text, m + 1) = Closing(bracket) /\ j + 2 = (m + 1) + 1
             \/ At(text, m + 1) = "comma" /\ Reads(rest, j + 2)
  BY <1>0, ContinuedReads DEF rest
<1>1. CASE m = j /\ At(text, j + 1) = Closing(bracket)
  BY <1>1
<1>2. CASE m = j /\ At(text, j + 1) = "comma" /\ j + 1 = Len(text)
  <2>1. rest = Read(<< >>, m + 2)
    BY <1>0, <1>2, ListAtEnd DEF rest
  <2> QED BY <1>2, <2>1 DEF Reads, Read
<1>3. CASE m < j /\ At(text, m + 1) = "comma" /\ IsList(text, m + 2, j, bracket)
  <2>1. m + 2 \in (i + 1)..(Len(text) + 1)
    BY <1>0, <1>3
  <2>2. ListComplete(text, m + 2, bracket)
    BY <2>1 DEF CompleteFrom
  <2> QED BY <1>3, <2>2 DEF ListComplete, rest
<1> QED BY <1>1, <1>2, <1>3 DEF Ends

(* A list of elements at i, from the values at i and what comes after i.   *)
LEMMA ElementsCompleteStep ==
  ASSUME NEW text, IsText(text), NEW i \in 1..Len(text), ValueComplete(text, i),
         \A n \in (i + 1)..(Len(text) + 1) : CompleteFrom(text, n)
  PROVE  ListComplete(text, i, "beginArray")
<1> DEFINE bracket == "beginArray"
           v == ElementsFrom(text, i)
           element == ValueFrom(text, i)
           rest == ElementsFrom(text, SkipWhitespace(text, element.next) + 1)
<1>0. Len(text) \in Nat /\ i \in Nat /\ i \in 1..(Len(text) + 1) /\ bracket \in Brackets
  BY DEF IsText, Brackets
<1> SUFFICES ASSUME NEW j \in 0..Len(text), IsList(text, i, j, bracket), Ends(text, j + 1, bracket)
             PROVE  Reads(v, j + 2)
  BY DEF ListComplete, ListFrom
<1>1. ArrayCases(text, i, v, element, rest)
  BY <1>0, ElementsParsed
<1>2. PICK m \in 0..j :
        /\ IsEntry(text, Grammar(text), i, m, bracket)
        /\ \/ m = j
           \/ m < j /\ At(text, m + 1) = "comma" /\ IsList(text, m + 2, j, bracket) /\ m + 1 >= i
  BY <1>0, ListMeansEntries
<1>3. m \in 0..Len(text) /\ m + 1 \in Nat
  BY <1>0
<1>4. IsItem(text, Grammar(text), i, m)
  BY <1>2 DEF IsEntry
<1>5. PICK a \in i..m, b \in i..m : /\ a = SkipWhitespace(text, i)
                                    /\ IsValue(text, a, b) /\ BlankIn(text, b + 1, m)
  BY <1>0, <1>3, <1>4, ItemMeans
<1>6. Reads(element, b + 1)
  <2>1. b \in 0..Len(text)
    BY <1>0, <1>3
  <2> QED BY <1>5, <2>1 DEF ValueComplete
<1>7. At(text, m + 1) \in {"comma", Closing(bracket)} /\ m + 1 <= Len(text)
  BY <1>0, <1>2 DEF Ends
<1>8. SkipWhitespace(text, b + 1) = m + 1
  <2>1. b + 1 \in Nat \ {0} /\ m + 1 \in (b + 1)..(Len(text) + 1)
    BY <1>0, <1>3
  <2>2. At(text, m + 1) # "blank" /\ \A k \in (b + 1)..((m + 1) - 1) : At(text, k) = "blank"
    BY <1>3, <1>5, <1>7 DEF BlankIn, Closing
  <2> QED BY <2>1, <2>2, SkipsTo
<1> HIDE DEF v, element
<1>9. CASE element.status = "throws"
  <2>1. v = element
    BY <1>1, <1>9, <1>0 DEF ArrayCases
  <2> QED BY <2>1, <1>9 DEF Reads
<1>10. CASE element.status = "ok" /\ element.next = b + 1
  <2>1. (m + 1) + 1 = m + 2
    BY <1>3
  <2>2. rest = ListFrom(text, m + 2, bracket)
    BY <1>8, <1>10, <2>1 DEF ListFrom
  <2>3. v = Continued(text, element.value, m + 1, rest, Closing(bracket))
    <3> HIDE DEF rest
    <3> QED BY <1>0, <1>1, <1>8, <1>10 DEF ArrayCases, Closing
  <2>4. m \in i..j
    BY <1>3, <1>5
  <2> QED BY <1>2, <2>2, <2>3, <2>4, <1>0, TailReads
<1> QED BY <1>6, <1>9, <1>10 DEF Reads

(* A list of members at i, from what comes after i.                        *)
LEMMA MembersCompleteStep ==
  ASSUME NEW text, IsText(text), NEW i \in 1..Len(text),
         \A n \in (i + 1)..(Len(text) + 1) : CompleteFrom(text, n)
  PROVE  ListComplete(text, i, "beginObject")
<1> DEFINE bracket == "beginObject"
           v == MembersFrom(text, i)
<1>0. Len(text) \in Nat /\ i \in Nat /\ i \in 1..(Len(text) + 1) /\ bracket \in Brackets
  BY DEF IsText, Brackets
<1> SUFFICES ASSUME NEW j \in 0..Len(text), IsList(text, i, j, bracket), Ends(text, j + 1, bracket)
             PROVE  Reads(v, j + 2)
  BY DEF ListComplete, ListFrom
<1>2. PICK m \in 0..j :
        /\ IsEntry(text, Grammar(text), i, m, bracket)
        /\ \/ m = j
           \/ m < j /\ At(text, m + 1) = "comma" /\ IsList(text, m + 2, j, bracket) /\ m + 1 >= i
  BY <1>0, ListMeansEntries
<1>3. m \in 0..Len(text) /\ m + 1 \in Nat
  BY <1>0
<1>4. PICK k \in i..m, c \in i..m :
        /\ k = SkipWhitespace(text, i) /\ At(text, k) = "string"
        /\ c = SkipWhitespace(text, k + 1) /\ At(text, c) = "colon"
        /\ k < c /\ IsItem(text, Grammar(text), c + 1, m)
  BY <1>0, <1>2, <1>3, MemberMeans
<1>5. PICK d \in (i + 1)..(Len(text) + 1) : d = c + 1
  BY <1>0, <1>3
<1> DEFINE value == ValueFrom(text, d)
           rest == MembersFrom(text, SkipWhitespace(text, value.next) + 1)
           member == [key |-> text[k], value |-> value.value]
<1>1. ObjectCases(text, i, k, c, v, value, rest)
  <2>1. k \in Nat /\ c \in Nat
    BY <1>0
  <2> QED BY <1>0, <1>4, <1>5, <2>1, MembersParsed
<1>6. PICK a \in d..m, b \in d..m : /\ a = SkipWhitespace(text, d)
                                    /\ IsValue(text, a, b) /\ BlankIn(text, b + 1, m)
  <2>1. IsItem(text, Grammar(text), d, m) /\ d \in 1..(Len(text) + 1)
    BY <1>0, <1>4, <1>5
  <2> QED BY <1>3, <2>1, ItemMeans
<1>7. Reads(value, b + 1)
  <2>1. b \in 0..Len(text)
    BY <1>0, <1>3
  <2>2. ValueComplete(text, d)
    BY DEF CompleteFrom
  <2> QED BY <1>6, <2>1, <2>2 DEF ValueComplete
<1>8. At(text, m + 1) \in {"comma", Closing(bracket)} /\ m + 1 <= Len(text)
  BY <1>0, <1>2 DEF Ends
<1>9. SkipWhitespace(text, b + 1) = m + 1
  <2>1. b + 1 \in Nat \ {0} /\ m + 1 \in (b + 1)..(Len(text) + 1)
    BY <1>0, <1>3
  <2>2. At(text, m + 1) # "blank" /\ \A n \in (b + 1)..((m + 1) - 1) : At(text, n) = "blank"
    BY <1>3, <1>6, <1>8 DEF BlankIn, Closing
  <2> QED BY <2>1, <2>2, SkipsTo
<1> HIDE DEF v, value, member
<1>10. CASE value.status = "throws"
  <2>1. v = value
    BY <1>1, <1>4, <1>10, <1>0 DEF ObjectCases
  <2> QED BY <2>1, <1>10 DEF Reads
<1>11. CASE value.status = "ok" /\ value.next = b + 1
  <2>1. (m + 1) + 1 = m + 2
    BY <1>3
  <2>2. rest = ListFrom(text, m + 2, bracket)
    BY <1>9, <1>11, <2>1 DEF ListFrom
  <2>3. v = Continued(text, member, m + 1, rest, Closing(bracket))
    <3> HIDE DEF rest
    <3> QED BY <1>0, <1>1, <1>4, <1>9, <1>11 DEF ObjectCases, Closing, member
  <2>4. m \in i..j
    BY <1>3, <1>4
  <2> QED BY <1>2, <2>2, <2>3, <2>4, <1>0, TailReads
<1> QED BY <1>7, <1>10, <1>11 DEF Reads

(* All of it at i, from all of it after i.                                 *)
LEMMA CompleteStep ==
  ASSUME NEW text, IsText(text), NEW i \in 1..(Len(text) + 1),
         \A n \in (i + 1)..(Len(text) + 1) : CompleteFrom(text, n)
  PROVE  CompleteFrom(text, i)
<1>0. Len(text) \in Nat
  BY DEF IsText
<1>1. ValueComplete(text, i)
  BY ValueCompleteStep
<1>2. CASE i <= Len(text)
  <2>1. i \in 1..Len(text)
    BY <1>0, <1>2
  <2> QED BY <1>1, <2>1, ElementsCompleteStep, MembersCompleteStep DEF CompleteFrom, Brackets
<1>3. CASE i > Len(text)
  <2>1. ASSUME NEW bracket \in Brackets, NEW j \in 0..Len(text), IsList(text, i, j, bracket) PROVE FALSE
    <3>1. SkipWhitespace(text, i) \in i..j
      BY <2>1, ListStarts
    <3> QED BY <3>1, <1>0, <1>3
  <2> QED BY <1>1, <2>1 DEF CompleteFrom, ListComplete
<1> QED BY <1>0, <1>2, <1>3

(* All that the grammar allows is read.                                    *)
LEMMA CompleteEverywhere ==
  ASSUME NEW text, IsText(text)
  PROVE  \A i \in 1..(Len(text) + 1) : CompleteFrom(text, i)
<1> DEFINE S == {i \in 1..(Len(text) + 1) : CompleteFrom(text, i)}
<1>1. Len(text) \in Nat
  BY DEF IsText
<1>2. ASSUME NEW i \in 1..(Len(text) + 1), \A k \in (i + 1)..(Len(text) + 1) : k \in S
      PROVE  i \in S
  <2>1. ASSUME NEW k \in (i + 1)..(Len(text) + 1) PROVE CompleteFrom(text, k)
    BY <1>2
  <2> QED BY <2>1, CompleteStep
<1>3. \A i \in 1..(Len(text) + 1) : i \in S
  <2> HIDE DEF S
  <2> QED BY <1>1, <1>2, FromTheEnd
<1> QED BY <1>3

-----------------------------------------------------------------------------
(* Exceptions.                                                             *)

(* A number that cannot be read.                                           *)
HasThrowing(text) == \E k \in DOMAIN text : At(text, k) \in Throwing

(* A parsing function throws.                                              *)
ThrowsFrom(text, i) ==
  \/ ValueFrom(text, i).status = "throws"
  \/ ElementsFrom(text, i).status = "throws"
  \/ MembersFrom(text, i).status = "throws"

(* After an entry, only another one throws.                                *)
LEMMA ContinuedThrows ==
  ASSUME NEW text, NEW entry, NEW a \in Nat, NEW rest, NEW bracket \in {"endArray", "endObject"},
         Continued(text, entry, a, rest, bracket).status = "throws"
  PROVE  At(text, a) = "comma" /\ rest.status = "throws"
<1> DEFINE v == Continued(text, entry, a, rest, bracket)
<1> HIDE DEF v
<1>1. CASE At(text, a) = "comma" /\ rest.status = "ok"
  <2>1. v = Read(<< entry >> \o rest.value, rest.next)
    BY <1>1, ContinuedCases DEF v
  <2> QED BY <2>1 DEF Read, v
<1>2. CASE At(text, a) = "comma" /\ rest.status # "ok"
  <2>1. v = rest
    BY <1>2, ContinuedStops DEF v
  <2> QED BY <1>2, <2>1 DEF v
<1>3. CASE At(text, a) = bracket
  <2>1. v = Read(<< entry >>, a + 1)
    BY <1>3, ContinuedCases DEF v
  <2> QED BY <2>1 DEF Read, v
<1>4. CASE At(text, a) \notin {"comma", bracket}
  <2>1. At(text, a) # "comma" /\ At(text, a) # bracket
    BY <1>4
  <2>2. v = Stop("rejected")
    BY <2>1 DEF Continued, v
  <2> QED BY <2>2 DEF Stop, v
<1> QED BY <1>1, <1>2, <1>3, <1>4

(* A value that is read is not empty.                                      *)
LEMMA ValueNext ==
  ASSUME NEW text, IsText(text), NEW i \in Nat, ValueFrom(text, i).status = "ok"
  PROVE  ValueFrom(text, i).next \in Nat /\ ValueFrom(text, i).next > i
<1>1. PICK s \in Nat : s = SkipWhitespace(text, i)
  BY SkipStops
<1>2. PICK n \in Nat : n = SkipWhitespace(text, s + 1)
  <2>1. s + 1 \in Nat
    OBVIOUS
  <2> QED BY <2>1, SkipStops
<1> QED BY <1>1, <1>2, ValueParsed

(* Without such a token nothing throws at i, if nothing does after i.      *)
LEMMA ThrowsStep ==
  ASSUME NEW text, IsText(text), NEW i \in Nat, ~HasThrowing(text),
         \A n \in Nat : n > i /\ n <= Len(text) + 1 => ~ThrowsFrom(text, n)
  PROVE  ~ThrowsFrom(text, i)
<1>0. Len(text) \in Nat
  BY DEF IsText
<1>1. PICK s \in Nat : s = SkipWhitespace(text, i) /\ i <= s
  BY SkipStops
<1>2. PICK n \in Nat : n = SkipWhitespace(text, s + 1) /\ s + 1 <= n /\ (s <= Len(text) => n <= Len(text) + 1)
  <2>1. s + 1 \in Nat
    OBVIOUS
  <2>2. SkipWhitespace(text, s + 1) \in Nat /\ s + 1 <= SkipWhitespace(text, s + 1)
        /\ (s + 1 <= Len(text) + 1 => SkipWhitespace(text, s + 1) <= Len(text) + 1)
    BY <2>1, SkipStops
  <2> QED BY <2>2, <1>0
<1>3. ASSUME NEW a \in Nat, At(text, a) # "end" PROVE a <= Len(text) /\ At(text, a) \notin Throwing
  <2>1. a \in 1..Len(text)
    BY <1>3, AtInside
  <2> QED BY <2>1 DEF HasThrowing, IsText
<1>4. ValueFrom(text, i).status # "throws"
  <2> DEFINE v == ValueFrom(text, i)
             elements == ElementsFrom(text, n)
             members == MembersFrom(text, n)
  <2>1. ValueCases(text, s, n, v, elements, members)
    BY <1>1, <1>2, ValueParsed
  <2>2. At(text, s) # "end" => elements.status # "throws" /\ members.status # "throws"
    BY <1>0, <1>1, <1>2, <1>3 DEF ThrowsFrom
  <2> SUFFICES v.status # "throws"
    OBVIOUS
  <2> HIDE DEF v, elements, members
  <2>3. CASE At(text, s) \in Scalars
    BY <2>1, <2>3 DEF ValueCases, Read
  <2>4. CASE At(text, s) = "beginArray" \/ At(text, s) = "beginObject"
    <3>1. \/ v = Read(Array(<< >>), n + 1) \/ v = Read(Object(<< >>), n + 1)
          \/ v = Filled("elements", elements) \/ v = Filled("members", members)
      BY <2>1, <2>4 DEF ValueCases
    <3> QED BY <3>1, <2>2, <2>4 DEF Filled, Read
  <2>5. CASE At(text, s) \notin Scalars \cup Brackets
    <3>1. At(text, s) \notin Throwing
      BY <1>3 DEF Throwing, Unreadable, Misspelt
    <3>2. v = Stop("rejected")
      BY <2>1, <2>5, <3>1 DEF ValueCases, Brackets
    <3> QED BY <3>2 DEF Stop
  <2> QED BY <2>3, <2>4, <2>5 DEF Brackets
<1>5. ElementsFrom(text, i).status # "throws"
  <2> DEFINE v == ElementsFrom(text, i)
             element == ValueFrom(text, i)
             a == SkipWhitespace(text, element.next)
             rest == ElementsFrom(text, a + 1)
  <2> SUFFICES ASSUME v.status = "throws" PROVE FALSE
    OBVIOUS
  <2>1. ArrayCases(text, i, v, element, rest)
    BY ElementsParsed
  <2>2. element.status = "ok" => a \in Nat /\ a > i
    <3>1. element.status = "ok" => element.next \in Nat /\ element.next > i
      BY ValueNext
    <3> HIDE DEF element
    <3>2. element.status = "ok" => a \in Nat /\ element.next <= a
      BY <3>1, SkipStops
    <3> QED BY <3>1, <3>2
  <2>3. element.status # "throws"
    BY <1>4
  <2> HIDE DEF v, element, rest
  <2>4. ~(i > Len(text)) /\ element.status = "ok"
    BY <2>1, <2>3, <1>0 DEF ArrayCases, Read
  <2>5. v = Continued(text, element.value, a, rest, "endArray")
    BY <2>1, <2>4, <1>0 DEF ArrayCases
  <2> HIDE DEF a
  <2>6. At(text, a) = "comma" /\ rest.status = "throws"
    BY <2>2, <2>4, <2>5, ContinuedThrows
  <2>7. a <= Len(text)
    BY <2>2, <2>4, <2>6, <1>3
  <2> QED BY <2>2, <2>4, <2>6, <2>7, <1>0 DEF ThrowsFrom, rest
<1>6. MembersFrom(text, i).status # "throws"
  <2> DEFINE v == MembersFrom(text, i)
             value == ValueFrom(text, n + 1)
             a == SkipWhitespace(text, value.next)
             rest == MembersFrom(text, a + 1)
             member == [key |-> text[s], value |-> value.value]
  <2> SUFFICES ASSUME v.status = "throws" PROVE FALSE
    OBVIOUS
  <2>1. ObjectCases(text, i, s, n, v, value, rest)
    BY <1>1, <1>2, MembersParsed
  <2>2. value.status = "ok" => a \in Nat /\ a > i
    <3>1. n + 1 \in Nat /\ n + 1 > i
      BY <1>1, <1>2
    <3>2. value.status = "ok" => value.next \in Nat /\ value.next > n + 1
      BY <3>1, ValueNext
    <3> HIDE DEF value
    <3>3. value.status = "ok" => a \in Nat /\ value.next <= a
      BY <3>2, SkipStops
    <3> QED BY <3>1, <3>2, <3>3
  <2>3. At(text, n) # "end" => value.status # "throws"
    BY <1>0, <1>1, <1>2, <1>3 DEF ThrowsFrom
  <2> HIDE DEF v, value, rest, member
  <2>a. At(text, s) # Misspelt
    BY <1>3 DEF Throwing, Misspelt
  <2>4. ~(i > Len(text)) /\ At(text, s) = "string" /\ At(text, n) = "colon" /\ value.status = "ok"
    BY <2>1, <2>3, <2>a, <1>0 DEF ObjectCases, Read, Stop
  <2>5. v = Continued(text, member, a, rest, "endObject")
    BY <2>1, <2>4, <1>0 DEF ObjectCases, member
  <2> HIDE DEF a
  <2>6. At(text, a) = "comma" /\ rest.status = "throws"
    BY <2>2, <2>4, <2>5, ContinuedThrows
  <2>7. a <= Len(text)
    BY <2>2, <2>4, <2>6, <1>3
  <2> QED BY <2>2, <2>4, <2>6, <2>7, <1>0 DEF ThrowsFrom, rest
<1> QED BY <1>4, <1>5, <1>6 DEF ThrowsFrom

(* Without such a token nothing throws.                                    *)
LEMMA ThrowsOnlyThere ==
  ASSUME NEW text, IsText(text), ~HasThrowing(text)
  PROVE  \A i \in 1..(Len(text) + 1) : ~ThrowsFrom(text, i)
<1> DEFINE S == {i \in 1..(Len(text) + 1) : ~ThrowsFrom(text, i)}
<1>1. Len(text) \in Nat
  BY DEF IsText
<1>2. ASSUME NEW i \in 1..(Len(text) + 1), \A k \in (i + 1)..(Len(text) + 1) : k \in S
      PROVE  i \in S
  <2>1. ASSUME NEW k \in (i + 1)..(Len(text) + 1) PROVE ~ThrowsFrom(text, k)
    BY <1>2
  <2>2. \A n \in Nat : n > i /\ n <= Len(text) + 1 => ~ThrowsFrom(text, n)
    <3>1. ASSUME NEW n \in Nat, n > i, n <= Len(text) + 1 PROVE n \in (i + 1)..(Len(text) + 1)
      BY <1>1, <3>1
    <3> QED BY <2>1, <3>1
  <2> QED BY <1>1, <2>2, ThrowsStep
<1>3. \A i \in 1..(Len(text) + 1) : i \in S
  <2> HIDE DEF S
  <2> QED BY <1>1, <1>2, FromTheEnd
<1> QED BY <1>3

-----------------------------------------------------------------------------
(* The parser and the grammar.                                             *)

(* A text begins where the parser starts with it.                          *)
LEMMA BeginsAt ==
  ASSUME NEW text, IsText(text), NEW i
  PROVE  i \in Begins(text) <=> i \in 1..Len(text) /\ i = SkipWhitespace(text, 1)
<1> DEFINE s == SkipWhitespace(text, 1)
<1>0. Len(text) \in Nat
  BY DEF IsText
<1>1. /\ s \in Nat /\ 1 <= s /\ At(text, s) # "blank"
      /\ \A k \in 1..(s - 1) : At(text, k) = "blank"
  <2>1. 1 \in Nat /\ 1 > 0
    OBVIOUS
  <2> QED BY <2>1, SkipStops
<1>2. ASSUME i \in Begins(text) PROVE i \in 1..Len(text) /\ i = s
  <2>1. i \in 1..Len(text) /\ BlankIn(text, 1, i - 1) /\ At(text, i) # "blank"
    BY <1>2 DEF Begins, IsText
  <2>2. 1 \in Nat \ {0} /\ i \in 1..(Len(text) + 1)
    BY <1>0, <2>1
  <2>3. \A k \in 1..(i - 1) : At(text, k) = "blank"
    BY <2>1 DEF BlankIn
  <2> QED BY <2>1, <2>2, <2>3, SkipsTo
<1> HIDE DEF s
<1>3. ASSUME i \in 1..Len(text), i = s PROVE i \in Begins(text)
  BY <1>1, <1>3 DEF Begins, BlankIn, IsText
<1> QED BY <1>2, <1>3 DEF s

(* Soundness: JsonParser::Parse accepts a text only when it starts with a  *)
(* JSON value, or is cut short where an entry of its outermost container   *)
(* could follow.                                                           *)
THEOREM AcceptsOnlyValues ==
  ASSUME NEW text, IsText(text), Parse(text).status = "ok"
  PROVE  StartsWithValue(text) \/ IsCutShort(text)
<1> DEFINE e == Parse(text).next
<1>0. Len(text) \in Nat /\ 1 \in 1..(Len(text) + 1)
  BY DEF IsText
<1>1. Valued(text, 1, e)
  <2>1. ValueSound(text, 1, ValueFrom(text, 1))
    BY <1>0, SoundEverywhere DEF SoundFrom
  <2> QED BY <2>1 DEF ValueSound, ValueFrom, Parse
<1> HIDE DEF e
<1>2. PICK s \in 1..Len(text) :
        /\ s = SkipWhitespace(text, 1)
        /\ e \in (s + 1)..(Len(text) + 1)
        /\ IsValue(text, s, e - 1) \/ (e = Len(text) + 1 /\ CutAt(text, s))
  BY <1>1 DEF Valued
<1>3. s \in Begins(text)
  BY <1>2, BeginsAt
<1>4. CASE IsValue(text, s, e - 1)
  <2>1. e - 1 \in s..Len(text)
    BY <1>0, <1>2
  <2> QED BY <1>3, <1>4, <2>1 DEF StartsWithValue
<1>5. CASE CutAt(text, s)
  BY <1>3, <1>5 DEF CutAt, IsCutShort, Brackets
<1> QED BY <1>2, <1>4, <1>5

(* Completeness: it rejects no text of these two kinds; it may only throw. *)
THEOREM AcceptsAllValues ==
  ASSUME NEW text, IsText(text), StartsWithValue(text) \/ IsCutShort(text)
  PROVE  Parse(text).status \in {"ok", "throws"}
<1>0. Len(text) \in Nat /\ 1 \in 1..(Len(text) + 1) /\ Parse(text) = ValueFrom(text, 1)
  BY DEF IsText, Parse, ValueFrom
<1>1. CASE StartsWithValue(text)
  <2>0. PICK i \in Begins(text) : \E j \in i..Len(text) : IsValue(text, i, j)
    BY <1>1 DEF StartsWithValue
  <2>1. PICK j \in i..Len(text) : IsValue(text, i, j)
    BY <2>0
  <2>2. i \in 1..Len(text) /\ i = SkipWhitespace(text, 1) /\ j \in 0..Len(text)
    BY <1>0, <2>1, BeginsAt
  <2>3. ValueComplete(text, 1)
    BY <1>0, CompleteEverywhere DEF CompleteFrom
  <2> QED BY <1>0, <2>1, <2>2, <2>3 DEF ValueComplete, Reads
<1>2. CASE IsCutShort(text)
  <2>1. PICK i \in Begins(text) :
          /\ At(text, i) \in Brackets
          /\ \/ BlankIn(text, i + 1, Len(text))
             \/ /\ At(text, Len(text)) = "comma"
                /\ IsList(text, i + 1, Len(text) - 1, At(text, i))
    BY <1>2 DEF IsCutShort, Brackets
  <2>2. i \in 1..Len(text) /\ i = SkipWhitespace(text, 1)
    BY <2>1, BeginsAt
  <2> DEFINE bracket == At(text, i)
             n == SkipWhitespace(text, i + 1)
             v == ValueFrom(text, 1)
             list == ListFrom(text, n, bracket)
  <2>3. n \in Nat /\ i + 1 <= n /\ n <= Len(text) + 1 /\ At(text, n) # "blank"
    <3>1. i + 1 \in Nat /\ i + 1 > 0 /\ i + 1 <= Len(text) + 1
      BY <1>0, <2>2
    <3> QED BY <3>1, SkipStops
  <2>4. ValueCases(text, i, n, v, ElementsFrom(text, n), MembersFrom(text, n))
    <3>1. 1 \in Nat /\ i \in Nat
      BY <2>2
    <3> QED BY <3>1, <2>2, <2>3, ValueParsed
  <2>5. /\ At(text, n) \notin {"endArray", "endObject"}
        /\ Reads(list, Len(text) + 1)
    <3>1. CASE BlankIn(text, i + 1, Len(text))
      <4>1. n = Len(text) + 1
        <5> HIDE DEF n
        <5>1. ~(n <= Len(text))
          BY <1>0, <2>2, <2>3, <3>1 DEF BlankIn
        <5> QED BY <5>1, <1>0, <2>3
      <4> HIDE DEF n
      <4>2. At(text, n) = "end"
        BY <4>1, <1>0 DEF At, IsText
      <4>3. list = Read(<< >>, n)
        BY <2>1, <4>1, <1>0, ListAtEnd DEF list
      <4> QED BY <4>1, <4>2, <4>3 DEF Reads, Read
    <3>2. CASE At(text, Len(text)) = "comma" /\ IsList(text, i + 1, Len(text) - 1, bracket)
      <4>1. i + 1 \in 1..(Len(text) + 1) /\ Len(text) - 1 \in 0..Len(text)
        BY <1>0, <2>2
      <4>2. n \in (i + 1)..(Len(text) - 1) /\ At(text, n) \notin {"endArray", "endObject"}
            /\ IsList(text, n, Len(text) - 1, bracket)
        BY <2>1, <3>2, <4>1, ListStarts
      <4>3. n \in 1..(Len(text) + 1)
        BY <1>0, <2>2, <2>3
      <4> HIDE DEF n
      <4>4. ListComplete(text, n, bracket)
        BY <2>1, <4>3, CompleteEverywhere DEF CompleteFrom
      <4>5. Ends(text, (Len(text) - 1) + 1, bracket) /\ (Len(text) - 1) + 2 = Len(text) + 1
        BY <1>0, <3>2 DEF Ends
      <4> QED BY <4>1, <4>2, <4>4, <4>5 DEF ListComplete
    <3> QED BY <2>1, <3>1, <3>2
  <2> HIDE DEF n, v, list
  <2>6. v = Filled("elements", list) \/ v = Filled("members", list)
    BY <2>1, <2>4, <2>5 DEF ValueCases, Brackets, ListFrom, list
  <2>7. v.status \in {"ok", "throws"}
    BY <2>5, <2>6 DEF Filled, Reads, Read
  <2> QED BY <1>0, <2>7 DEF v
<1> QED BY <1>1, <1>2

(* It throws only at a number that cannot be read.                         *)
LEMMA ThrowsThere ==
  ASSUME NEW text, IsText(text), Parse(text).status = "throws"
  PROVE  HasThrowing(text)
<1>1. 1 \in 1..(Len(text) + 1) /\ Parse(text) = ValueFrom(text, 1)
  BY DEF IsText, Parse, ValueFrom
<1> QED BY <1>1, ThrowsOnlyThere DEF ThrowsFrom

-----------------------------------------------------------------------------
(* Brackets: how deep a token is, and why only the keys of the outermost   *)
(* object are at depth 1.                                                  *)

(* The brackets before a token, and how their number grows.                *)
Before(text, k, marks) == {i \in 1..(k - 1) : At(text, i) \in marks}

(* One more token, one more bracket at most.                               *)
LEMMA BeforeCounts ==
  ASSUME NEW text, NEW k \in Nat \ {0}, NEW marks
  PROVE  /\ IsFiniteSet(Before(text, k, marks)) /\ Cardinality(Before(text, k, marks)) \in Nat
         /\ Cardinality(Before(text, k + 1, marks))
              = Cardinality(Before(text, k, marks)) + (IF At(text, k) \in marks THEN 1 ELSE 0)
<1>1. IsFiniteSet(Before(text, k, marks))
  <2>1. IsFiniteSet(1..(k - 1))
    BY FS_Interval
  <2>2. Before(text, k, marks) \subseteq 1..(k - 1)
    BY DEF Before
  <2> QED BY <2>1, <2>2, FS_Subset
<1>2. Cardinality(Before(text, k, marks)) \in Nat
  BY <1>1, FS_CardinalityType
<1>3. CASE At(text, k) \in marks
  <2>1. Before(text, k + 1, marks) = Before(text, k, marks) \cup {k} /\ k \notin Before(text, k, marks)
    BY <1>3 DEF Before
  <2>2. Cardinality(Before(text, k, marks) \cup {k}) = Cardinality(Before(text, k, marks)) + 1
    BY <1>1, <2>1, FS_AddElement
  <2> QED BY <1>1, <1>2, <1>3, <2>1, <2>2
<1>4. CASE At(text, k) \notin marks
  <2>1. Before(text, k + 1, marks) = Before(text, k, marks)
    BY <1>4 DEF Before
  <2> QED BY <1>1, <1>2, <1>4, <2>1
<1> QED BY <1>3, <1>4

(* An opening bracket goes one deeper, a closing one comes back.           *)
LEMMA DepthStep ==
  ASSUME NEW text, NEW k \in Nat \ {0}
  PROVE  /\ Depth(text, k) \in Int
         /\ Depth(text, k + 1) \in Int
         /\ At(text, k) \in Brackets => Depth(text, k + 1) = Depth(text, k) + 1
         /\ At(text, k) \in {"endArray", "endObject"} => Depth(text, k + 1) = Depth(text, k) - 1
         /\ At(text, k) \notin Brackets \cup {"endArray", "endObject"} => Depth(text, k + 1) = Depth(text, k)
<1> DEFINE opened(n) == Cardinality(Before(text, n, Brackets))
           closed(n) == Cardinality(Before(text, n, {"endArray", "endObject"}))
<1>1. \A n \in Nat : Depth(text, n) = opened(n) - closed(n)
  BY DEF Depth, Before, Brackets
<1>2. k + 1 \in Nat
  OBVIOUS
<1>3. opened(k) \in Nat /\ opened(k + 1) = opened(k) + (IF At(text, k) \in Brackets THEN 1 ELSE 0)
  BY BeforeCounts
<1>4. closed(k) \in Nat /\ closed(k + 1) = closed(k) + (IF At(text, k) \in {"endArray", "endObject"} THEN 1 ELSE 0)
  BY BeforeCounts
<1> HIDE DEF opened, closed
<1>5. Brackets \cap {"endArray", "endObject"} = {}
  BY DEF Brackets
<1>6. Depth(text, k) = opened(k) - closed(k) /\ Depth(text, k + 1) = opened(k + 1) - closed(k + 1)
  BY <1>1, <1>2
<1>7. CASE At(text, k) \in Brackets
  BY <1>3, <1>4, <1>5, <1>6, <1>7
<1>8. CASE At(text, k) \in {"endArray", "endObject"}
  BY <1>3, <1>4, <1>5, <1>6, <1>8
<1>9. CASE At(text, k) \notin Brackets \cup {"endArray", "endObject"}
  BY <1>3, <1>4, <1>6, <1>9
<1> QED BY <1>5, <1>7, <1>8, <1>9

(* Blanks, and all that is no bracket, leave the depth as it is.           *)
LEMMA DepthBlank ==
  ASSUME NEW text, NEW i \in Nat \ {0}, NEW n \in Nat, i <= n, BlankIn(text, i, n - 1)
  PROVE  \A k \in i..n : Depth(text, k) = Depth(text, i)
<1> DEFINE T == {k \in i..n : Depth(text, k) # Depth(text, i)}
<1> SUFFICES ASSUME T # {} PROVE FALSE
  OBVIOUS
<1>1. T \subseteq Nat
  OBVIOUS
<1>2. PICK m \in T : \A k \in T : m <= k
  <2> HIDE DEF T
  <2> QED BY <1>1, LeastNatural
<1>3. m # i
  BY <1>2
<1>4. m - 1 \in i..n /\ m - 1 \notin T /\ m - 1 \in Nat \ {0}
  BY <1>2, <1>3
<1>5. At(text, m - 1) = "blank"
  BY <1>4, <1>3 DEF BlankIn
<1>6. Depth(text, (m - 1) + 1) = Depth(text, m - 1)
  BY <1>4, <1>5, DepthStep DEF Brackets
<1>7. (m - 1) + 1 = m
  BY <1>4
<1> QED BY <1>4, <1>6, <1>7

(* The brackets of a value, and of a list, match.                          *)
BalancedValue(text, i, j) ==
  /\ i <= j /\ Depth(text, j + 1) = Depth(text, i)
  /\ \A k \in (i + 1)..j : Depth(text, k) > Depth(text, i)

(* A list is nowhere less deep than at its start, and ends as deep.        *)
BalancedList(text, i, j) ==
  /\ i <= j /\ Depth(text, j + 1) = Depth(text, i)
  /\ \A k \in i..j : Depth(text, k) >= Depth(text, i)

(* The depth is a number.                                                  *)
LEMMA DepthInt ==
  ASSUME NEW text, NEW k \in Nat \ {0}
  PROVE  Depth(text, k) \in Int
BY DepthStep

(* Two parts that are balanced so are balanced together.                   *)
LEMMA ListsJoin ==
  ASSUME NEW text, NEW i \in Nat \ {0}, NEW n \in Nat \ {0}, NEW m \in Nat,
         BalancedList(text, i, n - 1), BalancedList(text, n, m)
  PROVE  BalancedList(text, i, m)
<1>1. i <= n - 1 /\ n <= m /\ (n - 1) + 1 = n
  BY DEF BalancedList
<1>2. Depth(text, n) = Depth(text, i) /\ Depth(text, m + 1) = Depth(text, i)
  BY <1>1 DEF BalancedList
<1>3. ASSUME NEW k \in i..m PROVE Depth(text, k) >= Depth(text, i)
  <2>1. CASE k \in i..(n - 1)
    BY <2>1 DEF BalancedList
  <2>2. CASE k \in n..m
    BY <2>2, <1>2 DEF BalancedList
  <2> QED BY <1>1, <2>1, <2>2
<1> QED BY <1>1, <1>2, <1>3 DEF BalancedList

(* Blanks are,                                                             *)
LEMMA BlankBalanced ==
  ASSUME NEW text, NEW i \in Nat \ {0}, NEW m \in Nat, i <= m, BlankIn(text, i, m)
  PROVE  BalancedList(text, i, m)
<1>1. BlankIn(text, i, (m + 1) - 1) /\ m + 1 \in Nat /\ i <= m + 1
  OBVIOUS
<1>2. \A k \in i..(m + 1) : Depth(text, k) = Depth(text, i)
  BY <1>1, DepthBlank
<1>3. Depth(text, i) \in Int
  BY DepthInt
<1> QED BY <1>2, <1>3 DEF BalancedList

(* so is any token but a bracket,                                          *)
LEMMA OneBalanced ==
  ASSUME NEW text, NEW i \in Nat \ {0}, At(text, i) \notin Brackets \cup {"endArray", "endObject"}
  PROVE  BalancedList(text, i, i)
BY DepthStep DEF BalancedList

(* a value with blanks around it,                                          *)
LEMMA ItemBalanced ==
  ASSUME NEW text, NEW i \in Nat \ {0}, NEW a \in Nat, NEW b \in Nat, NEW m \in Nat, i <= a,
         a <= b, b <= m,
         BlankIn(text, i, a - 1), BlankIn(text, b + 1, m), BalancedValue(text, a, b)
  PROVE  BalancedList(text, i, m)
<1>1. Depth(text, a) \in Int /\ a \in Nat \ {0}
  BY DepthInt
<1>2. BalancedList(text, a, b)
  <2>1. ASSUME NEW k \in a..b PROVE Depth(text, k) >= Depth(text, a)
    <3>1. CASE k = a
      BY <3>1, <1>1
    <3>2. CASE k # a
      <4>1. k \in (a + 1)..b
        BY <3>2
      <4>2. Depth(text, k) > Depth(text, a) /\ Depth(text, k) \in Int
        BY <4>1, DepthInt DEF BalancedValue
      <4> QED BY <4>2, <1>1
    <3> QED BY <3>1, <3>2
  <2> QED BY <2>1 DEF BalancedValue, BalancedList
<1>3. BalancedList(text, i, b)
  <2>1. CASE i = a
    BY <1>2, <2>1
  <2>2. CASE i # a
    <3>1. i <= a - 1 /\ a - 1 \in Nat
      BY <2>2
    <3>2. BalancedList(text, i, a - 1)
      BY <3>1, BlankBalanced
    <3> QED BY <1>1, <1>2, <3>2, ListsJoin
  <2> QED BY <2>1, <2>2
<1>4. CASE b = m
  BY <1>3, <1>4
<1>5. CASE b # m
  <2>1. b + 1 \in Nat \ {0} /\ b + 1 <= m /\ (b + 1) - 1 = b
    BY <1>5
  <2>2. BalancedList(text, b + 1, m)
    BY <2>1, BlankBalanced
  <2> QED BY <1>3, <2>1, <2>2, ListsJoin
<1> QED BY <1>4, <1>5

(* and an entry whose values are.                                          *)
LEMMA EntryBalanced ==
  ASSUME NEW text, IsText(text), NEW i \in 1..(Len(text) + 1), NEW m \in 0..Len(text),
         NEW bracket \in Brackets,
         IsEntry(text, Grammar(text), i, m, bracket),
         \A a, b \in i..m : IsValue(text, a, b) => BalancedValue(text, a, b)
  PROVE  BalancedList(text, i, m)
<1>0. Len(text) \in Nat /\ i \in Nat \ {0} /\ m \in Nat
  BY DEF IsText
<1>1. ASSUME NEW n \in i..(Len(text) + 1), IsItem(text, Grammar(text), n, m)
      PROVE  BalancedList(text, n, m)
  <2>1. PICK a \in n..m, b \in n..m :
          BlankIn(text, n, a - 1) /\ BlankIn(text, b + 1, m) /\ IsValue(text, a, b)
    BY <1>1 DEF IsItem, IsValue
  <2>2. a \in i..m /\ b \in i..m /\ a \in Nat /\ b \in Nat /\ n \in Nat \ {0}
    BY <1>0
  <2>3. BalancedValue(text, a, b) /\ a <= b
    BY <2>1, <2>2 DEF BalancedValue
  <2> QED BY <1>0, <2>1, <2>2, <2>3, ItemBalanced
<1>2. CASE bracket = "beginArray"
  <2>1. i \in i..(Len(text) + 1) /\ IsItem(text, Grammar(text), i, m)
    BY <1>2, <1>0 DEF IsEntry
  <2> QED BY <1>1, <2>1
<1>3. CASE bracket = "beginObject"
  <2>1. PICK k \in i..m, c \in i..m :
          /\ BlankIn(text, i, k - 1) /\ At(text, k) = "string"
          /\ BlankIn(text, k + 1, c - 1) /\ At(text, c) = "colon" /\ k < c
          /\ IsItem(text, Grammar(text), c + 1, m)
    BY <1>3 DEF IsEntry
  <2>2. k \in Nat \ {0} /\ c \in Nat \ {0} /\ c + 1 \in Nat \ {0} /\ c + 1 \in i..(Len(text) + 1) /\ (c + 1) - 1 = c
    BY <1>0
  <2>3. BalancedList(text, c + 1, m)
    BY <1>1, <2>1, <2>2
  <2>4. BalancedList(text, k, k) /\ BalancedList(text, c, c)
    BY <2>1, <2>2, OneBalanced DEF Brackets
  <2>5. BalancedList(text, c, m)
    BY <1>0, <2>2, <2>3, <2>4, ListsJoin
  <2>6. BalancedList(text, k, m)
    <3>1. CASE c = k + 1
      <4>1. c - 1 = k
        BY <3>1, <2>2
      <4> QED BY <1>0, <2>2, <2>4, <2>5, <4>1, ListsJoin
    <3>2. CASE c # k + 1
      <4>1. k + 1 \in Nat \ {0} /\ c - 1 \in Nat /\ k + 1 <= c - 1 /\ (k + 1) - 1 = k
        BY <3>2, <2>1, <2>2
      <4>2. BalancedList(text, k + 1, c - 1)
        BY <2>1, <4>1, BlankBalanced
      <4>3. BalancedList(text, k + 1, m)
        BY <1>0, <2>2, <2>5, <4>1, <4>2, ListsJoin
      <4> QED BY <1>0, <2>2, <2>4, <4>1, <4>3, ListsJoin
    <3> QED BY <3>1, <3>2
  <2>7. CASE k = i
    BY <2>6, <2>7
  <2>8. CASE k # i
    <3>1. k - 1 \in Nat /\ i <= k - 1
      BY <1>0, <2>2, <2>8
    <3>2. BalancedList(text, i, k - 1)
      BY <1>0, <2>1, <3>1, BlankBalanced
    <3> QED BY <1>0, <2>2, <2>6, <3>2, ListsJoin
  <2> QED BY <2>7, <2>8
<1> QED BY <1>2, <1>3 DEF Brackets

(* A value is deeper after its first token, a list is not less deep.       *)
BalancedAt(text, at) ==
  IF at[1] = "value" THEN BalancedValue(text, at[2], at[3]) ELSE BalancedList(text, at[2], at[3])

(* A part is balanced, if the narrower ones are.                           *)
LEMMA BalancedStep ==
  ASSUME NEW text, IsText(text), NEW i \in 1..(Len(text) + 1), NEW j \in 0..Len(text),
         NEW what \in {"value", "beginArray", "beginObject"}, Grammar(text)[<< what, i, j >>],
         \A b \in Spans(text) : Width(b) < Width(<< what, i, j >>) /\ Grammar(text)[b] => BalancedAt(text, b)
  PROVE  BalancedAt(text, << what, i, j >>)
<1>0. Len(text) \in Nat /\ i \in Nat \ {0} /\ j \in Nat /\ Depth(text, i) \in Int
  BY DepthInt DEF IsText
<1>1. CASE what = "value"
  <2> SUFFICES BalancedValue(text, i, j)
    BY <1>1 DEF BalancedAt
  <2>1. IsValue(text, i, j)
    BY <1>1 DEF IsValue
  <2>2. CASE i = j /\ At(text, i) \in Scalars \cup {Unreadable}
    <3>1. At(text, i) \notin Brackets \cup {"endArray", "endObject"}
      BY <2>2 DEF Scalars, Unreadable, Brackets
    <3>2. Depth(text, j + 1) = Depth(text, i)
      BY <1>0, <2>2, <3>1, DepthStep
    <3> QED BY <1>0, <2>2, <3>2 DEF BalancedValue
  <2>3. CASE IsContainer(text, Grammar(text), i, j)
    <3> DEFINE bracket == At(text, i)
    <3>1. /\ i < j /\ bracket \in Brackets /\ At(text, j) = Closing(bracket)
          /\ BlankIn(text, i + 1, j - 1) \/ Grammar(text)[<< bracket, i + 1, j - 1 >>]
      BY <2>3 DEF IsContainer, Brackets
    <3>2. Depth(text, i + 1) = Depth(text, i) + 1
      BY <1>0, <3>1, DepthStep
    <3> HIDE DEF bracket
    <3>3. CASE j = i + 1
      <4>1. Depth(text, j + 1) = Depth(text, j) - 1
        BY <1>0, <3>1, <3>3, DepthStep DEF Closing
      <4> QED BY <1>0, <3>2, <3>3, <4>1 DEF BalancedValue
    <3>4. CASE j # i + 1
      <4>1. i + 1 <= j - 1 /\ i + 1 \in Nat \ {0} /\ j - 1 \in Nat /\ (j - 1) + 1 = j
        BY <1>0, <3>1, <3>4
      <4>2. BalancedList(text, i + 1, j - 1)
        <5>1. CASE BlankIn(text, i + 1, j - 1)
          BY <4>1, <5>1, BlankBalanced
        <5>2. CASE Grammar(text)[<< bracket, i + 1, j - 1 >>]
          <6>1. << bracket, i + 1, j - 1 >> \in Spans(text)
            BY <1>0, <3>1, <4>1 DEF Spans, Brackets
          <6>2. Width(<< bracket, i + 1, j - 1 >>) < Width(<< what, i, j >>)
            BY <1>0, <1>1, <3>1, <4>1 DEF Width, Brackets
          <6>3. BalancedAt(text, << bracket, i + 1, j - 1 >>)
            BY <5>2, <6>1, <6>2
          <6> QED BY <3>1, <6>3 DEF BalancedAt, Brackets
        <5> QED BY <3>1, <5>1, <5>2
      <4>3. Depth(text, j) = Depth(text, i) + 1 /\ \A k \in (i + 1)..(j - 1) : Depth(text, k) >= Depth(text, i) + 1
        BY <3>2, <4>1, <4>2 DEF BalancedList
      <4>4. Depth(text, j + 1) = Depth(text, j) - 1
        BY <1>0, <3>1, DepthStep DEF Closing
      <4>5. ASSUME NEW k \in (i + 1)..j PROVE Depth(text, k) > Depth(text, i)
        <5>1. k \in Nat \ {0} /\ (k = j \/ k \in (i + 1)..(j - 1))
          BY <1>0
        <5>2. Depth(text, k) \in Int /\ Depth(text, k) >= Depth(text, i) + 1
          BY <1>0, <5>1, <4>3, DepthInt
        <5> QED BY <1>0, <5>2
      <4> QED BY <1>0, <3>1, <4>3, <4>4, <4>5 DEF BalancedValue
    <3> QED BY <3>3, <3>4
  <2> QED BY <2>1, <2>2, <2>3, ValueMeans
<1>2. CASE what # "value"
  <2> SUFFICES BalancedList(text, i, j)
    BY <1>2 DEF BalancedAt
  <2>0. what \in Brackets
    BY <1>2 DEF Brackets
  <2>1. ASSUME NEW a \in i..j, NEW b \in i..j, IsValue(text, a, b) PROVE BalancedValue(text, a, b)
    <3>1. << "value", a, b >> \in Spans(text) /\ Width(<< "value", a, b >>) < Width(<< what, i, j >>)
      BY <1>0, <1>2 DEF Spans, Width
    <3>2. BalancedAt(text, << "value", a, b >>)
      BY <2>1, <3>1 DEF IsValue
    <3> QED BY <3>2 DEF BalancedAt
  <2>2. PICK m \in 0..j :
          /\ IsEntry(text, Grammar(text), i, m, what)
          /\ \/ m = j
             \/ m < j /\ At(text, m + 1) = "comma" /\ IsList(text, m + 2, j, what) /\ m + 1 >= i
    BY <2>0, ListMeansEntries DEF IsList
  <2>3. BalancedList(text, i, m)
    <3>1. m \in 0..Len(text)
      BY <1>0
    <3>2. ASSUME NEW a \in i..m, NEW b \in i..m, IsValue(text, a, b) PROVE BalancedValue(text, a, b)
      <4>1. a \in i..j /\ b \in i..j
        BY <1>0
      <4> QED BY <2>1, <3>2, <4>1
    <3> QED BY <2>0, <2>2, <3>1, <3>2, EntryBalanced
  <2>4. CASE m = j
    BY <2>3, <2>4
  <2>5. CASE m < j /\ At(text, m + 1) = "comma" /\ IsList(text, m + 2, j, what) /\ m + 1 >= i
    <3>1. /\ m + 1 \in Nat \ {0} /\ m + 2 \in Nat \ {0} /\ (m + 1) - 1 = m /\ (m + 2) - 1 = m + 1
          /\ m + 2 \in 1..(Len(text) + 1)
      BY <1>0, <2>5
    <3>2. BalancedList(text, m + 1, m + 1)
      BY <2>5, <3>1, OneBalanced DEF Brackets
    <3>3. BalancedList(text, m + 2, j)
      <4>1. << what, m + 2, j >> \in Spans(text)
        BY <3>1 DEF Spans
      <4>2. Width(<< what, m + 2, j >>) < Width(<< what, i, j >>)
        BY <1>0, <1>2, <2>5 DEF Width
      <4>3. BalancedAt(text, << what, m + 2, j >>)
        BY <2>5, <4>1, <4>2 DEF IsList
      <4> QED BY <1>2, <4>3 DEF BalancedAt
    <3>4. BalancedList(text, m + 1, j)
      BY <1>0, <3>1, <3>2, <3>3, ListsJoin
    <3> QED BY <1>0, <2>3, <3>1, <3>4, ListsJoin
  <2> QED BY <2>2, <2>4, <2>5
<1> QED BY <1>1, <1>2

(* The brackets of all that the grammar allows are balanced.               *)
LEMMA BalancedEverywhere ==
  ASSUME NEW text, IsText(text)
  PROVE  \A at \in Spans(text) : Grammar(text)[at] => BalancedAt(text, at)
<1> DEFINE T == {n \in Nat : \E at \in Spans(text) : Width(at) = n /\ Grammar(text)[at] /\ ~BalancedAt(text, at)}
<1>1. T = {}
  <2> SUFFICES ASSUME T # {} PROVE FALSE
    OBVIOUS
  <2>0. T \subseteq Nat
    OBVIOUS
  <2>1. PICK w \in T : \A k \in T : w <= k
    <3> HIDE DEF T
    <3> QED BY <2>0, LeastNatural
  <2>2. PICK at \in Spans(text) : Width(at) = w /\ Grammar(text)[at] /\ ~BalancedAt(text, at)
    OBVIOUS
  <2>3. ASSUME NEW b \in Spans(text), Width(b) < Width(at), Grammar(text)[b] PROVE BalancedAt(text, b)
    <3>1. Width(b) \in Nat
      BY WidthTyped
    <3> QED BY <2>1, <2>2, <2>3, <3>1
  <2>4. PICK what \in {"value", "beginArray", "beginObject"}, i \in 1..(Len(text) + 1), j \in 0..Len(text) :
          at = << what, i, j >>
    BY DEF Spans
  <2> HIDE DEF T
  <2>5. BalancedAt(text, << what, i, j >>)
    BY <2>2, <2>3, <2>4, BalancedStep
  <2> QED BY <2>2, <2>4, <2>5
<1>2. ASSUME NEW at \in Spans(text), Grammar(text)[at] PROVE BalancedAt(text, at)
  <2>1. Width(at) \in Nat
    BY WidthTyped
  <2> QED BY <1>1, <1>2, <2>1
<1> QED BY <1>2

-----------------------------------------------------------------------------
(* What the parser keeps of the members of an object.                      *)

(* What a parsed value keeps of the token that it starts with.             *)
Same(value, token) ==
  \/ token.json \in Scalars /\ value.json = token.json /\ value.token = token
  \/ token.json = "beginArray" /\ value.json = "array"
  \/ token.json = "beginObject" /\ value.json = "object"

(* What is read as a value is of the kind of its first token.              *)
LEMMA ValueSame ==
  ASSUME NEW text, IsText(text), NEW i \in Nat, ValueFrom(text, i).status = "ok"
  PROVE  /\ SkipWhitespace(text, i) \in 1..Len(text)
         /\ Same(ValueFrom(text, i).value, text[SkipWhitespace(text, i)])
<1> DEFINE v == ValueFrom(text, i)
<1>1. PICK s \in Nat : s = SkipWhitespace(text, i)
  BY SkipStops
<1>2. PICK n \in Nat : n = SkipWhitespace(text, s + 1)
  <2>1. s + 1 \in Nat
    OBVIOUS
  <2> QED BY <2>1, SkipStops
<1>3. ValueCases(text, s, n, v, ElementsFrom(text, n), MembersFrom(text, n))
  BY <1>1, <1>2, ValueParsed
<1> SUFFICES s \in 1..Len(text) /\ Same(v.value, text[s])
  BY <1>1
<1>4. v.status = "ok"
  OBVIOUS
<1> HIDE DEF v
<1>5. At(text, s) # "end" => s \in 1..Len(text) /\ text[s].json = At(text, s)
  BY AtInside
<1>6. CASE At(text, s) \in Scalars
  <2>1. v = Read(Scalar(text[s]), s + 1)
    BY <1>3, <1>6 DEF ValueCases
  <2>2. v.value = Scalar(text[s])
    BY <2>1 DEF Read
  <2>3. v.value.json = text[s].json /\ v.value.token = text[s]
    BY <2>2 DEF Scalar
  <2>4. s \in 1..Len(text) /\ text[s].json = At(text, s)
    BY <1>5, <1>6 DEF Scalars
  <2> QED BY <2>3, <2>4, <1>6 DEF Same
<1>7. CASE At(text, s) = "beginArray"
  <2>1. v = Read(Array(<< >>), n + 1) \/ v = Filled("elements", ElementsFrom(text, n))
    BY <1>3, <1>7 DEF ValueCases
  <2>2. v.value.json = "array"
    BY <2>1, <1>4 DEF Filled, Read, Array
  <2> QED BY <2>2, <1>5, <1>7 DEF Same
<1>8. CASE At(text, s) = "beginObject"
  <2>1. v = Read(Object(<< >>), n + 1) \/ v = Filled("members", MembersFrom(text, n))
    BY <1>3, <1>8 DEF ValueCases
  <2>2. v.value.json = "object"
    BY <2>1, <1>4 DEF Filled, Read, Object
  <2> QED BY <2>2, <1>5, <1>8 DEF Same
<1>9. CASE At(text, s) \notin Scalars \cup Brackets
  <2>1. v = Stop("throws") \/ v = Stop("rejected")
    BY <1>3, <1>9 DEF ValueCases, Brackets
  <2> QED BY <2>1, <1>4 DEF Stop
<1> QED BY <1>6, <1>7, <1>8, <1>9 DEF Brackets

(* A member at i: its key, its colon, where it ends, and what follows it.  *)
MemberAt(text, i, k, c, a, member) ==
  /\ k = SkipWhitespace(text, i) /\ c = SkipWhitespace(text, k + 1) /\ At(text, k) = "string"
  /\ IsEntry(text, Grammar(text), i, a - 1, "beginObject")
  /\ ValueFrom(text, c + 1).status = "ok"
  /\ member = [key |-> text[k], value |-> ValueFrom(text, c + 1).value]
  /\ \/ At(text, a) = "endObject" /\ MembersFrom(text, i) = Read(<< member >>, a + 1)
     \/ /\ At(text, a) = "comma" /\ MembersFrom(text, a + 1).status = "ok"
        /\ MembersFrom(text, i)
             = Read(<< member >> \o MembersFrom(text, a + 1).value, MembersFrom(text, a + 1).next)

(* What is read as a list of members is a member, and the list that        *)
(* follows it.                                                             *)
LEMMA MembersShape ==
  ASSUME NEW text, IsText(text), NEW i \in 1..Len(text), MembersFrom(text, i).status = "ok"
  PROVE  \E member : \E k, c, a \in i..Len(text) : MemberAt(text, i, k, c, a, member)
<1> DEFINE v == MembersFrom(text, i)
           k == SkipWhitespace(text, i)
           c == SkipWhitespace(text, k + 1)
           value == ValueFrom(text, c + 1)
           e == value.next
           a == SkipWhitespace(text, e)
           rest == MembersFrom(text, a + 1)
           member == [key |-> text[k], value |-> value.value]
<1>0. Len(text) \in Nat /\ i \in Nat /\ i \in 1..(Len(text) + 1)
  BY DEF IsText
<1>a. k \in Nat /\ i <= k /\ \A m \in i..(k - 1) : At(text, m) = "blank"
  BY <1>0, SkipStops
<1>b. c \in Nat /\ k + 1 <= c /\ \A m \in (k + 1)..(c - 1) : At(text, m) = "blank"
  <2> HIDE DEF k
  <2>1. k + 1 \in Nat
    BY <1>a
  <2> QED BY <2>1, SkipStops
<1>1. ObjectCases(text, i, k, c, v, value, rest)
  BY <1>0, <1>a, <1>b, MembersParsed
<1> HIDE DEF v, value, rest, k, c
<1>v. v.status = "ok"
  BY DEF v
<1>2. At(text, k) = "string" /\ At(text, c) = "colon" /\ value.status = "ok"
  BY <1>1, <1>v, <1>0 DEF ObjectCases, Stop
<1>3. v = Continued(text, member, a, rest, "endObject")
  BY <1>1, <1>2, <1>0 DEF ObjectCases
<1>c. k \in 1..Len(text) /\ c \in 1..Len(text)
  BY <1>2, AtInside
<1>4. e \in Nat /\ e > c + 1
  <2>0. c + 1 \in Nat
    BY <1>b
  <2> QED BY <2>0, <1>2, ValueNext DEF value
<1>5. a \in Nat /\ e <= a /\ \A m \in e..(a - 1) : At(text, m) = "blank"
  BY <1>4, SkipStops
<1> HIDE DEF a, member
<1>6. \/ At(text, a) = "endObject" /\ v = Read(<< member >>, a + 1)
      \/ At(text, a) = "comma" /\ rest.status = "ok" /\ v = Read(<< member >> \o rest.value, rest.next)
  <2>1. CASE At(text, a) = "comma" /\ rest.status = "ok"
    <3>1. v = Read(<< member >> \o rest.value, rest.next)
      BY <2>1, <1>3, <1>5, ContinuedCases
    <3> QED BY <2>1, <3>1
  <2>2. CASE At(text, a) = "comma" /\ rest.status # "ok"
    <3>1. v = rest
      BY <2>2, <1>3, <1>5, ContinuedStops
    <3> QED BY <2>2, <3>1, <1>v
  <2>3. CASE At(text, a) = "endObject"
    <3>1. v = Read(<< member >>, a + 1)
      BY <2>3, <1>3, <1>5, ContinuedCases
    <3> QED BY <2>3, <3>1
  <2>4. CASE At(text, a) \notin {"comma", "endObject"}
    <3>1. v = Stop("rejected")
      BY <2>4, <1>3, <1>5, ContinuedCases
    <3> QED BY <3>1, <1>v DEF Stop
  <2> QED BY <2>1, <2>2, <2>3, <2>4
<1>7. a \in 1..Len(text)
  <2>1. At(text, a) # "end"
    BY <1>6
  <2> QED BY <2>1, AtInside
<1>8. IsItem(text, Grammar(text), c + 1, e - 1) /\ e \in (c + 2)..(Len(text) + 1)
  <2>1. PICK j \in 1..Len(text) : j = c + 1
    BY <1>0, <1>4, <1>5, <1>7, <1>b
  <2> HIDE DEF e
  <2>2. value = ValueFrom(text, j) /\ e = ValueFrom(text, j).next
    BY <2>1 DEF value, e
  <2>3. ValueSound(text, j, ValueFrom(text, j))
    <3>1. j \in 1..(Len(text) + 1)
      BY <1>0
    <3> QED BY <3>1, SoundEverywhere DEF SoundFrom
  <2>4. At(text, SkipWhitespace(text, e)) # "end"
    BY <1>6 DEF a, e
  <2>5. e \in (j + 1)..(Len(text) + 1) /\ IsItem(text, Grammar(text), j, e - 1)
    BY <2>2, <2>3, <2>4, <1>2, ItemRead
  <2> QED BY <2>1, <2>5, <1>b
<1> HIDE DEF e
<1>9. IsEntry(text, Grammar(text), i, a - 1, "beginObject")
  <2>1. BlankIn(text, i, k - 1) /\ BlankIn(text, k + 1, c - 1)
    BY <1>a, <1>b DEF BlankIn
  <2>2. k \in i..(e - 1) /\ c \in i..(e - 1) /\ k < c
    BY <1>0, <1>a, <1>b, <1>8
  <2>3. IsEntry(text, Grammar(text), i, e - 1, "beginObject")
    BY <2>1, <2>2, <1>2, <1>8 DEF IsEntry
  <2>4. BlankIn(text, i, i - 1) /\ BlankIn(text, (e - 1) + 1, a - 1) /\ e - 1 \in Int /\ a - 1 \in Int /\ e - 1 <= a - 1
    BY <1>0, <1>4, <1>5 DEF BlankIn
  <2> QED BY <1>0, <2>3, <2>4, EntryWidened
<1>10. k \in i..Len(text) /\ c \in i..Len(text) /\ a \in i..Len(text)
  BY <1>0, <1>a, <1>b, <1>c, <1>4, <1>5, <1>7
<1>11. k = SkipWhitespace(text, i) /\ c = SkipWhitespace(text, k + 1)
  BY DEF k, c
<1>12. member = [key |-> text[k], value |-> ValueFrom(text, c + 1).value] /\ ValueFrom(text, c + 1).status = "ok"
  BY <1>2 DEF member, value
<1>13. \/ At(text, a) = "endObject" /\ MembersFrom(text, i) = Read(<< member >>, a + 1)
       \/ /\ At(text, a) = "comma" /\ MembersFrom(text, a + 1).status = "ok"
          /\ MembersFrom(text, i)
               = Read(<< member >> \o MembersFrom(text, a + 1).value, MembersFrom(text, a + 1).next)
  BY <1>6 DEF v, rest
<1>14. MemberAt(text, i, k, c, a, member)
  BY <1>2, <1>9, <1>11, <1>12, <1>13 DEF MemberAt
<1> QED BY <1>10, <1>14

(* The brackets of a value,                                                *)
LEMMA ValueBalanced ==
  ASSUME NEW text, IsText(text), NEW i \in 1..(Len(text) + 1), NEW j \in 0..Len(text),
         IsValue(text, i, j)
  PROVE  BalancedValue(text, i, j)
<1>1. << "value", i, j >> \in Spans(text)
  BY DEF Spans
<1>2. BalancedAt(text, << "value", i, j >>)
  BY <1>1, BalancedEverywhere DEF IsValue
<1> QED BY <1>2 DEF BalancedAt

(* and of a list.                                                          *)
LEMMA ListBalanced ==
  ASSUME NEW text, IsText(text), NEW i \in 1..(Len(text) + 1), NEW j \in 0..Len(text),
         NEW bracket \in Brackets,
         IsList(text, i, j, bracket)
  PROVE  BalancedList(text, i, j)
<1>1. << bracket, i, j >> \in Spans(text)
  BY DEF Spans, Brackets
<1>2. BalancedAt(text, << bracket, i, j >>)
  BY <1>1, BalancedEverywhere DEF IsList
<1> QED BY <1>2 DEF BalancedAt, Brackets

(* A key: a string at the depth of its object's members, before a colon.   *)
IsKey(text, d, k) ==
  Depth(text, k) = d /\ At(text, k) = "string" /\ At(text, SkipWhitespace(text, k + 1)) = "colon"

(* The keys of a name in the list of members from i to e.                  *)
KeysIn(text, name, i, e) == {k \in i..e : IsKey(text, Depth(text, i), k) /\ text[k].name = name}

(* A member has one key, which is its first token.                         *)
LEMMA EntryKey ==
  ASSUME NEW text, IsText(text), NEW i \in 1..(Len(text) + 1), NEW m \in 0..Len(text),
         IsEntry(text, Grammar(text), i, m, "beginObject"), At(text, m + 1) \in {"comma", "endObject"}
  PROVE  /\ SkipWhitespace(text, i) \in i..m
         /\ \A x \in i..m : IsKey(text, Depth(text, i), x) <=> x = SkipWhitespace(text, i)
<1>0. Len(text) \in Nat /\ i \in Nat \ {0} /\ m \in Nat
  BY DEF IsText
<1>1. PICK k \in i..m, c \in i..m :
        /\ k = SkipWhitespace(text, i) /\ At(text, k) = "string"
        /\ c = SkipWhitespace(text, k + 1) /\ At(text, c) = "colon"
        /\ k < c /\ IsItem(text, Grammar(text), c + 1, m)
  BY MemberMeans
<1>2. PICK d \in 1..(Len(text) + 1) : d = c + 1
  BY <1>0
<1>3. PICK a \in d..m, b \in d..m : /\ a = SkipWhitespace(text, d)
                                    /\ IsValue(text, a, b) /\ BlankIn(text, b + 1, m)
  BY <1>1, <1>2, ItemMeans
<1>4. BlankIn(text, i, k - 1) /\ BlankIn(text, k + 1, c - 1) /\ BlankIn(text, d, a - 1)
  <2>1. i \in Nat /\ k + 1 \in Nat /\ d \in Nat
    BY <1>0
  <2> QED BY <1>1, <1>3, <2>1, SkipStops DEF BlankIn
<1>5. a \in 1..(Len(text) + 1) /\ b \in 0..Len(text) /\ a \in Nat \ {0} /\ k \in Nat \ {0} /\ c \in Nat \ {0}
  BY <1>0
<1>6. BalancedValue(text, a, b) /\ a <= b
  BY <1>3, <1>5, ValueBalanced DEF BalancedValue
<1>7. Depth(text, k) = Depth(text, i)
  BY <1>0, <1>4, <1>5, DepthBlank
<1>8. Depth(text, a) = Depth(text, i)
  <2>1. Depth(text, k + 1) = Depth(text, k)
    BY <1>1, <1>5, DepthStep DEF Brackets
  <2>2. Depth(text, c) = Depth(text, k + 1)
    <3>1. k + 1 \in Nat \ {0} /\ c \in Nat /\ k + 1 <= c
      BY <1>1, <1>5
    <3> QED BY <1>4, <3>1, DepthBlank
  <2>3. Depth(text, c + 1) = Depth(text, c)
    BY <1>1, <1>5, DepthStep DEF Brackets
  <2>4. Depth(text, a) = Depth(text, d)
    BY <1>4, <1>5, DepthBlank
  <2> QED BY <1>2, <1>7, <2>1, <2>2, <2>3, <2>4
<1>9. At(text, SkipWhitespace(text, k + 1)) = "colon"
  BY <1>1
<1>10. ASSUME NEW x \in i..m, x # k PROVE ~IsKey(text, Depth(text, i), x)
  <2>1. CASE x < k \/ (x > k /\ x < c) \/ (x > c /\ x < a) \/ x > b
    <3>1. At(text, x) = "blank"
      BY <2>1, <1>0, <1>2, <1>3, <1>4, <1>5 DEF BlankIn
    <3> QED BY <3>1 DEF IsKey
  <2>2. CASE x = c
    BY <2>2, <1>1 DEF IsKey
  <2>3. CASE x = a
    <3> SUFFICES ASSUME At(text, a) = "string" PROVE At(text, SkipWhitespace(text, a + 1)) # "colon"
      BY <2>3 DEF IsKey
    <3>1. a = b
      <4>1. ~IsContainer(text, Grammar(text), a, b)
        BY DEF IsContainer
      <4> QED BY <1>3, <1>5, <4>1, ValueMeans
    <3>2. SkipWhitespace(text, a + 1) = m + 1
      <4>1. m + 1 \in 1..Len(text)
        <5>1. At(text, m + 1) # "end"
          OBVIOUS
        <5> QED BY <5>1, AtInside
      <4>2. a + 1 \in Nat \ {0} /\ m + 1 \in (a + 1)..(Len(text) + 1)
        BY <1>0, <1>5, <4>1
      <4>3. At(text, m + 1) # "blank" /\ \A n \in (a + 1)..((m + 1) - 1) : At(text, n) = "blank"
        BY <1>0, <1>3, <3>1 DEF BlankIn
      <4> QED BY <4>2, <4>3, SkipsTo
    <3> QED BY <3>2
  <2>4. CASE x > a /\ x <= b
    <3>1. x \in (a + 1)..b
      BY <1>0, <1>5, <2>4
    <3>2. Depth(text, x) > Depth(text, a) /\ Depth(text, a) \in Int
      BY <3>1, <1>5, <1>6, DepthInt DEF BalancedValue
    <3>3. Depth(text, x) # Depth(text, i)
      <4>1. Depth(text, x) \in Int
        <5>1. x \in Nat \ {0}
          BY <1>0
        <5> QED BY <5>1, DepthInt
      <4> QED BY <4>1, <3>2, <1>8
    <3> QED BY <3>3 DEF IsKey
  <2>5. x < k \/ x > k
    BY <1>0, <1>5, <1>10
  <2> QED BY <1>0, <1>2, <1>5, <2>1, <2>2, <2>3, <2>4, <2>5
<1>11. IsKey(text, Depth(text, i), k)
  BY <1>1, <1>7, <1>9 DEF IsKey
<1> QED BY <1>1, <1>10, <1>11

(* A sequence of whatever there is in it.                                  *)
IsSeq(s) == \E S : s \in Seq(S)

(* The places of a sequence with one more in front,                        *)
LEMMA Cons ==
  ASSUME NEW x, NEW r, IsSeq(r)
  PROVE  /\ IsSeq(<< x >> \o r)
         /\ DOMAIN r = 1..Len(r) /\ Len(r) \in Nat
         /\ DOMAIN (<< x >> \o r) = 1..(Len(r) + 1)
         /\ (<< x >> \o r)[1] = x
         /\ \A q \in 1..Len(r) : (<< x >> \o r)[q + 1] = r[q]
<1>1. PICK S : r \in Seq(S)
  BY DEF IsSeq
<1> DEFINE U == S \cup {x}
<1>2. r \in Seq(U)
  BY <1>1
<1>3. << x >> \in Seq(U)
  OBVIOUS
<1>4. << x >> \o r \in Seq(U)
  BY <1>2, <1>3
<1> HIDE DEF U
<1>5. Len(<< x >> \o r) = Len(r) + 1 /\ Len(r) \in Nat
  BY <1>2, <1>3
<1>6. ASSUME NEW q \in 1..Len(r) PROVE (<< x >> \o r)[q + 1] = r[q]
  BY <1>2, <1>3, <1>5
<1>7. (<< x >> \o r)[1] = x
  BY <1>2, <1>3, <1>5
<1>8. DOMAIN r = 1..Len(r) /\ DOMAIN (<< x >> \o r) = 1..(Len(r) + 1)
  BY <1>2, <1>4, <1>5
<1> QED BY <1>4, <1>5, <1>6, <1>7, <1>8 DEF IsSeq

(* and those of a name.                                                    *)
LEMMA ConsPlaces ==
  ASSUME NEW x, NEW r, IsSeq(r), NEW name
  PROVE  /\ Places(r, name) \subseteq Nat
         /\ 1 \in Places(<< x >> \o r, name) <=> x.key.name = name
         /\ \A q \in Nat : q # 1 => (q \in Places(<< x >> \o r, name) <=> q - 1 \in Places(r, name))
         /\ Places(<< x >> \o r, name) \subseteq Nat \ {0}
<1> DEFINE s == << x >> \o r
<1>1. /\ DOMAIN r = 1..Len(r) /\ Len(r) \in Nat /\ DOMAIN s = 1..(Len(r) + 1)
      /\ s[1] = x /\ \A q \in 1..Len(r) : s[q + 1] = r[q]
  BY Cons
<1> HIDE DEF s
<1>2. Places(r, name) = {i \in 1..Len(r) : r[i].key.name = name}
  BY <1>1 DEF Places
<1>3. Places(s, name) = {i \in 1..(Len(r) + 1) : s[i].key.name = name}
  BY <1>1 DEF Places
<1>4. 1 \in Places(s, name) <=> x.key.name = name
  BY <1>1, <1>3
<1>5. ASSUME NEW q \in Nat, q # 1 PROVE q \in Places(s, name) <=> q - 1 \in Places(r, name)
  <2>1. CASE q \in 2..(Len(r) + 1)
    <3>1. q - 1 \in 1..Len(r) /\ (q - 1) + 1 = q /\ q \in 1..(Len(r) + 1)
      BY <1>1, <2>1
    <3>2. s[q] = r[q - 1]
      BY <1>1, <3>1
    <3> QED BY <1>2, <1>3, <3>1, <3>2
  <2>2. CASE q \notin 2..(Len(r) + 1)
    <3>1. q \notin 1..(Len(r) + 1) /\ q - 1 \notin 1..Len(r)
      BY <1>1, <1>5, <2>2
    <3> QED BY <1>2, <1>3, <3>1
  <2> QED BY <2>1, <2>2
<1>6. Places(s, name) \subseteq Nat \ {0} /\ Places(r, name) \subseteq Nat
  BY <1>1, <1>2, <1>3
<1> QED BY <1>4, <1>5, <1>6 DEF s

(* The value after the key and its colon.                                  *)
SameAfter(text, value, k) ==
  LET i == SkipWhitespace(text, SkipWhitespace(text, k + 1) + 1)
  IN  i \in DOMAIN text /\ Same(value, text[i])

(* The last member of a name is the one with the last key of that name.    *)
Matches(text, name, keys, members) ==
  \/ keys = {} /\ Places(members, name) = {}
  \/ \E k \in keys, q \in Places(members, name) :
       /\ \A x \in keys : x <= k
       /\ \A y \in Places(members, name) : y <= q
       /\ SameAfter(text, members[q].value, k)

(* The members that are read at i match the keys that are there.           *)
MembersMatch(text, i) ==
  i <= Len(text) /\ MembersFrom(text, i).status = "ok" =>
    /\ IsSeq(MembersFrom(text, i).value)
    /\ \A name : Matches(text, name, KeysIn(text, name, i, MembersFrom(text, i).next - 1),
                         MembersFrom(text, i).value)

(* One member, with its key k, before the others.                          *)
LEMMA MatchesCons ==
  ASSUME NEW text, NEW name, NEW keys, keys \subseteq Nat, NEW r, IsSeq(r), Matches(text, name,
         keys, r),
         NEW k \in Nat, \A x \in keys : k < x, NEW member, member.key = text[k],
         SameAfter(text, member.value, k)
  PROVE  Matches(text, name, (IF text[k].name = name THEN {k} ELSE {}) \cup keys, << member >> \o r)
<1> DEFINE all == (IF text[k].name = name THEN {k} ELSE {}) \cup keys
           s == << member >> \o r
<1>1. /\ Places(r, name) \subseteq Nat
      /\ 1 \in Places(s, name) <=> text[k].name = name
      /\ \A q \in Nat : q # 1 => (q \in Places(s, name) <=> q - 1 \in Places(r, name))
      /\ Places(s, name) \subseteq Nat \ {0}
  BY ConsPlaces
<1>2. s[1] = member /\ DOMAIN r = 1..Len(r) /\ Len(r) \in Nat /\ \A q \in 1..Len(r) : s[q + 1] = r[q]
  BY Cons
<1> HIDE DEF s
<1>3. Places(r, name) \subseteq 1..Len(r)
  BY <1>2 DEF Places
<1>4. CASE keys = {} /\ Places(r, name) = {}
  <2>1. Places(s, name) = IF text[k].name = name THEN {1} ELSE {}
    <3>1. \A q \in Nat \ {0} : q \in Places(s, name) <=> q = 1 /\ text[k].name = name
      BY <1>1, <1>4
    <3> QED BY <3>1, <1>1
  <2>2. CASE text[k].name = name
    <3>1. all = {k} /\ Places(s, name) = {1}
      BY <1>4, <2>1, <2>2
    <3> HIDE DEF all
    <3>2. SameAfter(text, s[1].value, k)
      BY <1>2
    <3>3. Matches(text, name, all, s)
      BY <3>1, <3>2 DEF Matches
    <3> QED BY <3>3 DEF all, s
  <2>3. CASE text[k].name # name
    BY <1>4, <2>1, <2>3 DEF Matches, s
  <2> QED BY <2>2, <2>3
<1>5. CASE \E x \in keys, q \in Places(r, name) :
             /\ \A y \in keys : y <= x
             /\ \A y \in Places(r, name) : y <= q
             /\ SameAfter(text, r[q].value, x)
  <2>1. PICK x \in keys, q \in Places(r, name) :
             /\ \A y \in keys : y <= x
             /\ \A y \in Places(r, name) : y <= q
             /\ SameAfter(text, r[q].value, x)
    BY <1>5
  <2>2. q \in 1..Len(r) /\ q \in Nat /\ x \in Nat
    <3>1. q \in 1..Len(r)
      BY <1>3
    <3>2. x \in Nat
      OBVIOUS
    <3> QED BY <3>1, <3>2, <1>2
  <2>3. x \in all /\ \A y \in all : y <= x
    <3>1. k <= x
      <4>1. k < x
        OBVIOUS
      <4> QED BY <2>2, <4>1
    <3>2. \A y \in keys : y <= x
      BY <2>1
    <3> QED BY <3>1, <3>2
  <2>4. q + 1 \in Places(s, name)
    <3>1. q + 1 \in Nat /\ q + 1 # 1 /\ (q + 1) - 1 = q
      BY <2>2
    <3> QED BY <3>1, <1>1
  <2>5. ASSUME NEW y \in Places(s, name) PROVE y <= q + 1
    <3>1. y \in Nat /\ (y = 1 \/ y - 1 \in Places(r, name))
      BY <1>1
    <3>2. y = 1 \/ y - 1 <= q
      BY <2>1, <3>1
    <3> QED BY <2>2, <3>1, <3>2
  <2>6. SameAfter(text, s[q + 1].value, x)
    BY <1>2, <2>1, <2>2
  <2> HIDE DEF all
  <2>7. Matches(text, name, all, s)
    BY <2>3, <2>4, <2>5, <2>6 DEF Matches
  <2> QED BY <2>7 DEF all, s
<1> QED BY <1>4, <1>5 DEF Matches

(* The keys of a list of members are that of its first, and those of the others. *)
KeysSplit(text, i, a, k, name) ==
  /\ k \in i..(a - 1)
  /\ KeysIn(text, name, i, a) = IF text[k].name = name THEN {k} ELSE {}
  /\ At(text, a) = "comma" =>
       \A e \in Nat : e >= a =>
         KeysIn(text, name, i, e)
           = (IF text[k].name = name THEN {k} ELSE {}) \cup KeysIn(text, name, a + 1, e)

(* An entry has one key, and the other members have theirs after the       *)
(* comma.                                                                  *)
LEMMA EntryKeys ==
  ASSUME NEW text, IsText(text), NEW i \in 1..Len(text), NEW a \in i..Len(text), NEW name,
         IsEntry(text, Grammar(text), i, a - 1, "beginObject"), At(text, a) \in {"comma", "endObject"},
         NEW k, k = SkipWhitespace(text, i)
  PROVE  KeysSplit(text, i, a, k, name)
<1>0. Len(text) \in Nat /\ i \in Nat \ {0} /\ a \in Nat \ {0} /\ i \in 1..(Len(text) + 1)
  BY DEF IsText
<1>1. PICK m \in 0..Len(text) : m = a - 1 /\ m + 1 = a
  BY <1>0
<1>2. /\ k \in i..m
      /\ \A x \in i..m : IsKey(text, Depth(text, i), x) <=> x = k
  BY <1>0, <1>1, EntryKey
<1>3. ~IsKey(text, Depth(text, i), a)
  BY DEF IsKey
<1>4. Depth(text, a) = Depth(text, i)
  <2>1. IsList(text, i, m, "beginObject")
    <3>1. IsSequence(text, Grammar(text), i, m, "beginObject")
      BY <1>1 DEF IsSequence
    <3> QED BY <3>1, <1>0, <1>1, ListMeans DEF Brackets
  <2>2. BalancedList(text, i, m)
    BY <2>1, <1>0, <1>1, ListBalanced DEF Brackets
  <2> QED BY <2>2, <1>1 DEF BalancedList
<1>5. \A x \in i..a : IsKey(text, Depth(text, i), x) <=> x = k
  <2> SUFFICES ASSUME NEW x \in i..a PROVE IsKey(text, Depth(text, i), x) <=> x = k
    OBVIOUS
  <2>1. CASE x = a
    BY <2>1, <1>3, <1>2, <1>1, <1>0
  <2>2. CASE x # a
    <3>1. x \in i..m
      BY <2>2, <1>1, <1>0
    <3> QED BY <3>1, <1>2
  <2> QED BY <2>1, <2>2
<1>6. k \in i..a
  BY <1>0, <1>1, <1>2
<1>7. KeysIn(text, name, i, a) = IF text[k].name = name THEN {k} ELSE {}
  BY <1>5, <1>6 DEF KeysIn
<1>8. ASSUME At(text, a) = "comma", NEW e \in Nat, e >= a
      PROVE KeysIn(text, name, i, e)
              = (IF text[k].name = name THEN {k} ELSE {}) \cup KeysIn(text, name, a + 1, e)
  <2>1. Depth(text, a + 1) = Depth(text, i)
    BY <1>8, <1>4, <1>0, DepthStep DEF Brackets
  <2>2. i..e = (i..a) \cup ((a + 1)..e)
    BY <1>0, <1>8
  <2>3. KeysIn(text, name, i, e) = KeysIn(text, name, i, a) \cup KeysIn(text, name, a + 1, e)
    BY <2>1, <2>2 DEF KeysIn
  <2> QED BY <2>3, <1>7
<1> QED BY <1>1, <1>2, <1>7, <1>8 DEF KeysSplit

(* The members at i, from those after i.                                   *)
LEMMA MembersMatchStep ==
  ASSUME NEW text, IsText(text), NEW i \in 1..(Len(text) + 1),
         \A n \in (i + 1)..(Len(text) + 1) : MembersMatch(text, n)
  PROVE  MembersMatch(text, i)
<1> DEFINE v == MembersFrom(text, i)
<1> SUFFICES ASSUME i <= Len(text), v.status = "ok"
             PROVE  /\ IsSeq(v.value)
                    /\ \A name : Matches(text, name, KeysIn(text, name, i, v.next - 1), v.value)
  BY DEF MembersMatch
<1>0. Len(text) \in Nat /\ i \in Nat \ {0} /\ i \in 1..Len(text)
  BY DEF IsText
<1>m. PICK member : \E k, c, a \in i..Len(text) : MemberAt(text, i, k, c, a, member)
  BY <1>0, MembersShape
<1>1. PICK k \in i..Len(text), c \in i..Len(text), a \in i..Len(text) :
        /\ k = SkipWhitespace(text, i) /\ c = SkipWhitespace(text, k + 1) /\ At(text, k) = "string"
        /\ IsEntry(text, Grammar(text), i, a - 1, "beginObject")
        /\ ValueFrom(text, c + 1).status = "ok"
        /\ member = [key |-> text[k], value |-> ValueFrom(text, c + 1).value]
        /\ \/ At(text, a) = "endObject" /\ v = Read(<< member >>, a + 1)
           \/ /\ At(text, a) = "comma" /\ MembersFrom(text, a + 1).status = "ok"
              /\ v = Read(<< member >> \o MembersFrom(text, a + 1).value, MembersFrom(text, a + 1).next)
  BY <1>m DEF MemberAt
<1>2. member.key = text[k] /\ SameAfter(text, member.value, k)
  <2>1. c + 1 \in Nat
    BY <1>0
  <2>2. /\ SkipWhitespace(text, c + 1) \in 1..Len(text)
        /\ Same(ValueFrom(text, c + 1).value, text[SkipWhitespace(text, c + 1)])
    BY <2>1, <1>1, ValueSame
  <2>3. member.key = text[k] /\ member.value = ValueFrom(text, c + 1).value /\ DOMAIN text = 1..Len(text)
    BY <1>1 DEF IsText
  <2> QED BY <2>2, <2>3, <1>1 DEF SameAfter
<1>3. k \in Nat /\ a \in Nat /\ At(text, a) \in {"comma", "endObject"}
  BY <1>0, <1>1
<1>4. ASSUME NEW name PROVE KeysSplit(text, i, a, k, name)
  <2>1. k = SkipWhitespace(text, i) /\ IsEntry(text, Grammar(text), i, a - 1, "beginObject")
    BY <1>1
  <2> QED BY <1>0, <1>3, <2>1, EntryKeys
<1>5. IsSeq(<< >>) /\ \A name : Matches(text, name, {}, << >>)
  <2>1. << >> \in Seq({})
    OBVIOUS
  <2>2. \A name : Places(<< >>, name) = {}
    BY DEF Places
  <2> QED BY <2>1, <2>2 DEF IsSeq, Matches
<1> HIDE DEF v
<1>6. CASE v = Read(<< member >>, a + 1)
  <2>1. v.value = << member >> /\ v.next = a + 1
    BY <1>6 DEF Read
  <2>2. << member >> = << member >> \o << >>
    OBVIOUS
  <2>3. IsSeq(v.value)
    <3>1. << member >> \in Seq({member})
      OBVIOUS
    <3> QED BY <2>1, <3>1 DEF IsSeq
  <2>4. ASSUME NEW name PROVE Matches(text, name, KeysIn(text, name, i, v.next - 1), v.value)
    <3>1. Matches(text, name, (IF text[k].name = name THEN {k} ELSE {}) \cup {}, << member >> \o << >>)
      BY <1>2, <1>3, <1>5, MatchesCons
    <3>2. (IF text[k].name = name THEN {k} ELSE {}) \cup {} = KeysIn(text, name, i, a)
      BY <1>4 DEF KeysSplit
    <3>3. v.next - 1 = a
      BY <2>1, <1>3
    <3> QED BY <3>1, <3>2, <3>3, <2>1, <2>2
  <2> QED BY <2>3, <2>4
<1>7. CASE /\ At(text, a) = "comma" /\ MembersFrom(text, a + 1).status = "ok" /\ a + 1 <= Len(text)
           /\ v = Read(<< member >> \o MembersFrom(text, a + 1).value, MembersFrom(text, a + 1).next)
  <2> DEFINE rest == MembersFrom(text, a + 1)
  <2>0. a + 1 \in (i + 1)..(Len(text) + 1) /\ a + 1 \in 1..(Len(text) + 1)
    BY <1>0, <1>7
  <2>1. MembersMatch(text, a + 1) /\ ListSound(text, a + 1, rest, "beginObject")
    BY <2>0, SoundEverywhere DEF SoundFrom
  <2>2. IsSeq(rest.value) /\ \A name : Matches(text, name, KeysIn(text, name, a + 1, rest.next - 1), rest.value)
    BY <2>1, <1>7 DEF MembersMatch
  <2>3. rest.next \in (a + 2)..(Len(text) + 1)
    <3>1. rest.next \in ((a + 1) + 1)..(Len(text) + 1)
      <4>1. ~(a + 1 > Len(text))
        BY <1>0, <1>7
      <4> QED BY <2>1, <1>7, <4>1 DEF ListSound, Listed
    <3> QED BY <3>1, <1>3
  <2> HIDE DEF rest
  <2>4. v.value = << member >> \o rest.value /\ v.next = rest.next
    BY <1>7 DEF Read, rest
  <2>5. IsSeq(v.value)
    BY <2>2, <2>4, Cons
  <2>6. ASSUME NEW name PROVE Matches(text, name, KeysIn(text, name, i, v.next - 1), v.value)
    <3> DEFINE keys == KeysIn(text, name, a + 1, rest.next - 1)
    <3>1. keys \subseteq Nat /\ \A x \in keys : k < x
      <4>1. keys \subseteq (a + 1)..(rest.next - 1)
        BY DEF KeysIn
      <4>2. k < a
        BY <1>4, <1>3 DEF KeysSplit
      <4> HIDE DEF keys
      <4> QED BY <4>1, <4>2, <1>3, <2>3
    <3>2. Matches(text, name, keys, rest.value)
      BY <2>2
    <3>3. KeysIn(text, name, i, v.next - 1) = (IF text[k].name = name THEN {k} ELSE {}) \cup keys
      <4>1. rest.next - 1 \in Nat /\ rest.next - 1 >= a
        BY <2>3, <1>3
      <4>2. \A e \in Nat : e >= a =>
              KeysIn(text, name, i, e)
                = (IF text[k].name = name THEN {k} ELSE {}) \cup KeysIn(text, name, a + 1, e)
        BY <1>4, <1>7 DEF KeysSplit
      <4>3. PICK e \in Nat : e = rest.next - 1
        BY <4>1
      <4>4. e >= a /\ v.next - 1 = e
        BY <4>1, <4>3, <2>4
      <4>5. KeysIn(text, name, i, e)
              = (IF text[k].name = name THEN {k} ELSE {}) \cup KeysIn(text, name, a + 1, e)
        BY <4>2, <4>4
      <4> QED BY <4>3, <4>4, <4>5
    <3> HIDE DEF keys
    <3>4. Matches(text, name, (IF text[k].name = name THEN {k} ELSE {}) \cup keys, << member >> \o rest.value)
      BY <3>1, <3>2, <1>2, <1>3, <2>2, MatchesCons
    <3> QED BY <3>3, <3>4, <2>4
  <2> QED BY <2>5, <2>6
<1>8. CASE /\ At(text, a) = "comma" /\ a + 1 > Len(text)
           /\ v = Read(<< member >> \o MembersFrom(text, a + 1).value, MembersFrom(text, a + 1).next)
  <2>1. MembersFrom(text, a + 1) = Read(<< >>, a + 1)
    <3>1. a + 1 \in Nat /\ "beginObject" \in Brackets
      BY <1>3 DEF Brackets
    <3>2. ListFrom(text, a + 1, "beginObject") = Read(<< >>, a + 1)
      BY <3>1, <1>8, ListAtEnd
    <3> QED BY <3>2 DEF ListFrom
  <2>2. MembersFrom(text, a + 1).value = << >> /\ MembersFrom(text, a + 1).next = a + 1
    BY <2>1 DEF Read
  <2>3. v = Read(<< member >>, a + 1)
    <3>1. << member >> \o << >> = << member >>
      OBVIOUS
    <3> QED BY <3>1, <2>2, <1>8
  <2> QED BY <2>3, <1>6
<1>9. \/ v = Read(<< member >>, a + 1)
      \/ /\ At(text, a) = "comma" /\ MembersFrom(text, a + 1).status = "ok"
         /\ v = Read(<< member >> \o MembersFrom(text, a + 1).value, MembersFrom(text, a + 1).next)
  BY <1>1
<1>10. a + 1 <= Len(text) \/ a + 1 > Len(text)
  BY <1>0, <1>3
<1> QED BY <1>6, <1>7, <1>8, <1>9, <1>10

(* The members that are read match the keys, wherever they start.          *)
LEMMA MembersMatchEverywhere ==
  ASSUME NEW text, IsText(text)
  PROVE  \A i \in 1..(Len(text) + 1) : MembersMatch(text, i)
<1> DEFINE S == {i \in 1..(Len(text) + 1) : MembersMatch(text, i)}
<1>1. Len(text) \in Nat
  BY DEF IsText
<1>2. ASSUME NEW i \in 1..(Len(text) + 1), \A k \in (i + 1)..(Len(text) + 1) : k \in S
      PROVE  i \in S
  <2>1. ASSUME NEW k \in (i + 1)..(Len(text) + 1) PROVE MembersMatch(text, k)
    BY <1>2
  <2> QED BY <2>1, MembersMatchStep
<1>3. \A i \in 1..(Len(text) + 1) : i \in S
  <2> HIDE DEF S
  <2> QED BY <1>1, <1>2, FromTheEnd
<1> QED BY <1>3

-----------------------------------------------------------------------------
(* The keys of the outermost object.                                       *)

(* The two sets in Written, by name.                                       *)
Over(text) == {k \in DOMAIN text : k > Min(Begins(text)) /\ Depth(text, k) <= 0}

OuterKeys(text, name) ==
  {k \in DOMAIN text :
     /\ \A o \in Over(text) : k < o
     /\ Depth(text, k) = 1 /\ At(text, k) = "string" /\ text[k].name = name
     /\ At(text, SkipWhitespace(text, k + 1)) = "colon"}

(* Written, in terms of these.                                             *)
LEMMA WrittenMeans ==
  ASSUME NEW text, NEW name
  PROVE  Written(text, name) =
           IF At(text, Min(Begins(text))) # "beginObject" \/ OuterKeys(text, name) = {} THEN {}
           ELSE {text[SkipWhitespace(text, SkipWhitespace(text, Max(OuterKeys(text, name)) + 1) + 1)]}
BY DEF Written, OuterKeys, Over

(* A least element is the minimum,                                         *)
LEMMA LeastIs ==
  ASSUME NEW S, S \subseteq Nat, NEW m \in S, \A x \in S : m <= x
  PROVE  Min(S) = m
<1>1. \A y \in S : (\A x \in S : y <= x) => y = m
  <2> SUFFICES ASSUME NEW y \in S, \A x \in S : y <= x PROVE y = m
    OBVIOUS
  <2>1. y <= m /\ m <= y /\ y \in Nat /\ m \in Nat
    OBVIOUS
  <2> QED BY <2>1
<1>2. Min(S) \in S /\ \A x \in S : Min(S) <= x
  BY DEF Min
<1> QED BY <1>1, <1>2

(* and a greatest is the maximum.                                          *)
LEMMA GreatestIs ==
  ASSUME NEW S, S \subseteq Nat, NEW m \in S, \A x \in S : x <= m
  PROVE  Max(S) = m
<1>1. \A y \in S : (\A x \in S : y >= x) => y = m
  <2> SUFFICES ASSUME NEW y \in S, \A x \in S : y >= x PROVE y = m
    OBVIOUS
  <2>1. y <= m /\ m <= y /\ y \in Nat /\ m \in Nat
    OBVIOUS
  <2> QED BY <2>1
<1>2. \A x \in S : m >= x
  <2> SUFFICES ASSUME NEW x \in S PROVE m >= x
    OBVIOUS
  <2>1. x <= m /\ m \in Nat /\ x \in Nat
    OBVIOUS
  <2> QED BY <2>1
<1>3. Max(S) \in S /\ \A x \in S : Max(S) >= x
  BY <1>2 DEF Max
<1> QED BY <1>1, <1>3

(* The first token that is not blank is the only one where the text begins. *)
LEMMA BeginsOnce ==
  ASSUME NEW text, IsText(text), NEW s \in 1..Len(text), s = SkipWhitespace(text, 1)
  PROVE  Begins(text) = {s} /\ Min(Begins(text)) = s
<1>1. Begins(text) = {s}
  <2>1. \A i : i \in Begins(text) <=> i = s
    BY BeginsAt
  <2> QED BY <2>1
<1>2. Min({s}) = s
  <2>1. {s} \subseteq Nat /\ \A x \in {s} : s <= x
    BY DEF IsText
  <2> QED BY <2>1, LeastIs
<1> QED BY <1>1, <1>2

(* Nothing is deep before the first bracket.                               *)
LEMMA DepthAtStart ==
  ASSUME NEW text, IsText(text), NEW s \in 1..Len(text), s = SkipWhitespace(text, 1)
  PROVE  \A k \in 1..s : Depth(text, k) = 0
<1>0. s \in Nat /\ 1 \in Nat \ {0} /\ 1 <= s
  BY DEF IsText
<1>1. Depth(text, 1) = 0
  <2>1. {i \in 1..(1 - 1) : At(text, i) \in {"beginArray", "beginObject"}} = {}
    OBVIOUS
  <2>2. {i \in 1..(1 - 1) : At(text, i) \in {"endArray", "endObject"}} = {}
    OBVIOUS
  <2>3. Cardinality({}) = 0
    BY FS_EmptySet
  <2>4. Depth(text, 1) = Cardinality({}) - Cardinality({})
    BY <2>1, <2>2 DEF Depth
  <2> QED BY <2>3, <2>4
<1>2. BlankIn(text, 1, s - 1)
  <2>1. 1 \in Nat
    OBVIOUS
  <2> QED BY <2>1, SkipStops DEF BlankIn
<1> QED BY <1>0, <1>1, <1>2, DepthBlank

(* The keys of the object that a text starts with, when it is closed before *)
(* e, or not at all.                                                       *)
LEMMA OuterKeysAre ==
  ASSUME NEW text, IsText(text), NEW s \in 1..Len(text), s = SkipWhitespace(text, 1),
         At(text, s) = "beginObject", NEW e \in (s + 1)..(Len(text) + 1), NEW name,
         \A k \in (s + 1)..(e - 1) : Depth(text, k) >= 1,
         e <= Len(text) => Depth(text, e) <= 0
  PROVE  \A k : k \in OuterKeys(text, name) <=>
                  k \in (s + 1)..(e - 1) /\ IsKey(text, 1, k) /\ text[k].name = name
<1>0. Len(text) \in Nat /\ DOMAIN text = 1..Len(text) /\ s \in Nat /\ e \in Nat
  BY DEF IsText
<1>1. Min(Begins(text)) = s
  BY BeginsOnce
<1>2. \A o \in Over(text) : o >= e
  <2> SUFFICES ASSUME NEW o \in Over(text), o < e PROVE FALSE
    BY <1>0 DEF Over
  <2>1. o \in 1..Len(text) /\ o > s /\ Depth(text, o) <= 0
    BY <1>0, <1>1 DEF Over
  <2>2. o \in (s + 1)..(e - 1) /\ o \in Nat \ {0}
    BY <2>1, <1>0
  <2>3. Depth(text, o) >= 1 /\ Depth(text, o) \in Int
    BY <2>2, DepthInt
  <2> QED BY <2>1, <2>3
<1>3. e <= Len(text) => e \in Over(text)
  BY <1>0, <1>1 DEF Over
<1>4. ASSUME NEW k \in OuterKeys(text, name) PROVE k \in (s + 1)..(e - 1)
  <2>1. k \in 1..Len(text) /\ Depth(text, k) = 1 /\ \A o \in Over(text) : k < o
    BY <1>0 DEF OuterKeys
  <2>2. k > s
    <3>1. k \notin 1..s
      BY <2>1, DepthAtStart
    <3> QED BY <3>1, <2>1, <1>0
  <2>3. k < e
    BY <1>0, <1>3, <2>1
  <2> QED BY <1>0, <2>1, <2>2, <2>3
<1>5. ASSUME NEW k \in (s + 1)..(e - 1), IsKey(text, 1, k), text[k].name = name PROVE k \in OuterKeys(text, name)
  <2>1. k \in 1..Len(text) /\ k < e
    BY <1>0
  <2>2. \A o \in Over(text) : k < o
    BY <1>0, <1>2, <2>1 DEF Over
  <2> QED BY <1>0, <1>5, <2>1, <2>2 DEF OuterKeys, IsKey
<1>6. ASSUME NEW k \in OuterKeys(text, name) PROVE IsKey(text, 1, k) /\ text[k].name = name
  BY DEF OuterKeys, IsKey
<1> QED BY <1>4, <1>5, <1>6

-----------------------------------------------------------------------------
(* SetMembers: the last value of a key stays.                              *)

(* items, which were set from the first n members, have one item for each  *)
(* name, with the value of its last member.                                *)
LastOf(items, members, n, name) ==
  \/ Places(items, name) = {} /\ \A i \in 1..n : members[i].key.name # name
  \/ \E p \in Nat, q \in 1..n :
       /\ Places(items, name) = {p}
       /\ members[q].key.name = name /\ \A i \in 1..n : members[i].key.name = name => i <= q
       /\ items[p].value = members[q].value

(* A sequence with one more at its end, and with one replaced.             *)
LEMMA SeqChanged ==
  ASSUME NEW s, IsSeq(s), NEW x
  PROVE  /\ DOMAIN s = 1..Len(s) /\ Len(s) \in Nat
         /\ IsSeq(Append(s, x)) /\ DOMAIN Append(s, x) = 1..(Len(s) + 1)
         /\ Append(s, x)[Len(s) + 1] = x /\ \A i \in 1..Len(s) : Append(s, x)[i] = s[i]
         /\ \A p \in 1..Len(s) : /\ IsSeq([s EXCEPT ![p] = x]) /\ DOMAIN [s EXCEPT ![p] = x] = 1..Len(s)
                                 /\ [s EXCEPT ![p] = x][p] = x
                                 /\ \A i \in 1..Len(s) : i # p => [s EXCEPT ![p] = x][i] = s[i]
<1>1. PICK S : s \in Seq(S)
  BY DEF IsSeq
<1>2. PICK U : s \in Seq(U) /\ x \in U
  <2>1. s \in Seq(S \cup {x})
    BY <1>1
  <2> QED BY <2>1
<1>3. Append(s, x) \in Seq(U) /\ Len(Append(s, x)) = Len(s) + 1 /\ Len(s) \in Nat
  BY <1>2
<1>4. DOMAIN s = 1..Len(s) /\ DOMAIN Append(s, x) = 1..(Len(s) + 1)
  BY <1>2, <1>3
<1>5. Append(s, x)[Len(s) + 1] = x /\ \A i \in 1..Len(s) : Append(s, x)[i] = s[i]
  BY <1>2
<1>6. ASSUME NEW p \in 1..Len(s)
      PROVE  /\ IsSeq([s EXCEPT ![p] = x]) /\ DOMAIN [s EXCEPT ![p] = x] = 1..Len(s)
             /\ [s EXCEPT ![p] = x][p] = x
             /\ \A i \in 1..Len(s) : i # p => [s EXCEPT ![p] = x][i] = s[i]
  <2>1. [s EXCEPT ![p] = x] \in Seq(U)
    BY <1>2, ExceptSeq
  <2> QED BY <2>1, <1>4 DEF IsSeq
<1> QED BY <1>3, <1>4, <1>5, <1>6 DEF IsSeq

(* SetMember for one member more: its name has the new value, all others   *)
(* have the one they had.                                                  *)
LEMMA SetMemberKeeps ==
  ASSUME NEW items, IsSeq(items), NEW members, NEW n \in Nat,
         \A name : LastOf(items, members, n, name)
  PROVE  LET set == SetMember(items, members[n + 1].key, members[n + 1].value)
         IN  IsSeq(set) /\ \A name : LastOf(set, members, n + 1, name)
<1> DEFINE key == members[n + 1].key
           value == members[n + 1].value
           member == [key |-> key, value |-> value]
           set == SetMember(items, key, value)
<1>1. member.key = key /\ member.value = value
  OBVIOUS
<1>2. DOMAIN items = 1..Len(items) /\ Len(items) \in Nat
  BY SeqChanged
<1>3. n + 1 \in 1..(n + 1) /\ 1..(n + 1) = (1..n) \cup {n + 1} /\ \A i \in 1..n : i <= n + 1 /\ i # n + 1
  OBVIOUS
<1>k. members[n + 1].key = key /\ members[n + 1].value = value
  OBVIOUS
<1> HIDE DEF key, value, member
<1>4. CASE Places(items, key.name) = {}
  <2>1. set = Append(items, member)
    BY <1>4 DEF SetMember, member
  <2> HIDE DEF set
  <2>2. /\ IsSeq(set) /\ DOMAIN set = 1..(Len(items) + 1) /\ set[Len(items) + 1] = member
        /\ \A i \in 1..Len(items) : set[i] = items[i]
    BY <2>1, SeqChanged
  <2>3. ASSUME NEW name PROVE LastOf(set, members, n + 1, name)
    <3>1. Places(set, name) = Places(items, name) \cup (IF key.name = name THEN {Len(items) + 1} ELSE {})
      <4>1. 1..(Len(items) + 1) = (1..Len(items)) \cup {Len(items) + 1}
        BY <1>2
      <4> QED BY <4>1, <1>1, <1>2, <2>2 DEF Places
    <3>2. CASE key.name = name
      <4>1. Places(set, name) = {Len(items) + 1} /\ Len(items) + 1 \in Nat
        BY <3>1, <3>2, <1>4, <1>2
      <4>2. set[Len(items) + 1].value = members[n + 1].value
        BY <2>2, <1>1, <1>k
      <4>3. members[n + 1].key.name = name /\ \A i \in 1..(n + 1) : members[i].key.name = name => i <= n + 1
        BY <3>2, <1>k, <1>3
      <4> QED BY <4>1, <4>2, <4>3, <1>3 DEF LastOf
    <3>3. CASE key.name # name
      <4>1. Places(set, name) = Places(items, name) /\ members[n + 1].key.name # name
        BY <3>1, <3>3, <1>k
      <4>2. LastOf(items, members, n, name)
        OBVIOUS
      <4>3. CASE Places(items, name) = {} /\ \A i \in 1..n : members[i].key.name # name
        BY <4>1, <4>3, <1>3 DEF LastOf
      <4>4. CASE \E p \in Nat, q \in 1..n :
                   /\ Places(items, name) = {p}
                   /\ members[q].key.name = name /\ \A i \in 1..n : members[i].key.name = name => i <= q
                   /\ items[p].value = members[q].value
        <5>1. PICK p \in Nat, q \in 1..n :
                   /\ Places(items, name) = {p}
                   /\ members[q].key.name = name /\ \A i \in 1..n : members[i].key.name = name => i <= q
                   /\ items[p].value = members[q].value
          BY <4>4
        <5>2. p \in 1..Len(items)
          BY <5>1, <1>2 DEF Places
        <5>3. set[p] = items[p]
          BY <5>2, <2>2
        <5>4. q \in 1..(n + 1) /\ \A i \in 1..(n + 1) : members[i].key.name = name => i <= q
          BY <5>1, <4>1, <1>3
        <5> QED BY <5>1, <5>3, <5>4, <4>1 DEF LastOf
      <4> QED BY <4>2, <4>3, <4>4 DEF LastOf
    <3> QED BY <3>2, <3>3
  <2> QED BY <2>2, <2>3 DEF set, key, value
<1>5. CASE Places(items, key.name) # {}
  <2>0. LastOf(items, members, n, key.name)
    OBVIOUS
  <2>1. PICK p \in Nat : Places(items, key.name) = {p}
    BY <2>0, <1>5 DEF LastOf
  <2>2. p \in 1..Len(items) /\ items[p].key.name = key.name
    BY <2>1, <1>2 DEF Places
  <2>3. Min({p}) = p
    <3>1. {p} \subseteq Nat /\ p \in {p} /\ \A x \in {p} : p <= x
      BY <2>1
    <3> QED BY <3>1, LeastIs
  <2>4. set = [items EXCEPT ![p] = member]
    BY <1>5, <2>1, <2>3 DEF SetMember, member
  <2> HIDE DEF set
  <2>5. /\ IsSeq(set) /\ DOMAIN set = 1..Len(items) /\ set[p] = member
        /\ \A i \in 1..Len(items) : i # p => set[i] = items[i]
    BY <2>2, <2>4, SeqChanged
  <2>6. ASSUME NEW name PROVE LastOf(set, members, n + 1, name)
    <3>1. Places(set, name) = Places(items, name)
      <4>1. \A i \in 1..Len(items) : set[i].key.name = items[i].key.name
        BY <2>2, <2>5, <1>1
      <4> QED BY <4>1, <1>2, <2>5 DEF Places
    <3>2. CASE key.name = name
      <4>1. Places(set, name) = {p}
        BY <3>1, <3>2, <2>1
      <4>2. set[p].value = members[n + 1].value
        BY <2>5, <1>1, <1>k
      <4>3. members[n + 1].key.name = name /\ \A i \in 1..(n + 1) : members[i].key.name = name => i <= n + 1
        BY <3>2, <1>k, <1>3
      <4> QED BY <4>1, <4>2, <4>3, <1>3 DEF LastOf
    <3>3. CASE key.name # name
      <4>1. members[n + 1].key.name # name
        BY <3>3, <1>k
      <4>2. LastOf(items, members, n, name)
        OBVIOUS
      <4>3. CASE Places(items, name) = {} /\ \A i \in 1..n : members[i].key.name # name
        BY <3>1, <4>1, <4>3, <1>3 DEF LastOf
      <4>4. CASE \E o \in Nat, q \in 1..n :
                   /\ Places(items, name) = {o}
                   /\ members[q].key.name = name /\ \A i \in 1..n : members[i].key.name = name => i <= q
                   /\ items[o].value = members[q].value
        <5>1. PICK o \in Nat, q \in 1..n :
                   /\ Places(items, name) = {o}
                   /\ members[q].key.name = name /\ \A i \in 1..n : members[i].key.name = name => i <= q
                   /\ items[o].value = members[q].value
          BY <4>4
        <5>2. o \in 1..Len(items) /\ items[o].key.name = name
          BY <5>1, <1>2 DEF Places
        <5>3. set[o] = items[o]
          BY <5>2, <2>2, <2>5, <3>3
        <5>4. q \in 1..(n + 1) /\ \A i \in 1..(n + 1) : members[i].key.name = name => i <= q
          BY <5>1, <4>1, <1>3
        <5> QED BY <5>1, <5>3, <5>4, <3>1 DEF LastOf
      <4> QED BY <4>2, <4>3, <4>4 DEF LastOf
    <3> QED BY <3>2, <3>3
  <2> QED BY <2>5, <2>6 DEF set, key, value
<1> QED BY <1>4, <1>5

(* The steps of SetMembers.                                                *)
SetAt(members, f, n) ==
  IF n = 0 THEN << >> ELSE SetMember(f[n - 1], members[n].key, members[n].value)

(* f has the first m steps of it.                                          *)
SetUpTo(members, f, m) ==
  /\ f = [n \in 0..Len(members) |-> f[n]]
  /\ \A n \in 0..Len(members) : n < m => f[n] = SetAt(members, f, n)

(* One step more,                                                          *)
LEMMA SetMore ==
  ASSUME NEW members, Len(members) \in Nat, NEW m \in Nat, NEW f, SetUpTo(members, f, m)
  PROVE  SetUpTo(members, [n \in 0..Len(members) |-> SetAt(members, f, n)], m + 1)
<1> DEFINE g == [n \in 0..Len(members) |-> SetAt(members, f, n)]
<1>1. ASSUME NEW n \in 0..Len(members), n < m + 1
      PROVE  g[n] = SetAt(members, g, n)
  <2>1. CASE n = 0
    BY <2>1 DEF SetAt
  <2>2. CASE n # 0
    <3>1. n - 1 \in 0..Len(members) /\ n - 1 < m
      BY <1>1, <2>2
    <3>2. f[n - 1] = SetAt(members, f, n - 1)
      BY <3>1 DEF SetUpTo
    <3>3. g[n - 1] = f[n - 1]
      BY <3>1, <3>2
    <3>4. g[n] = SetAt(members, f, n)
      OBVIOUS
    <3> HIDE DEF g
    <3> QED BY <2>2, <3>3, <3>4 DEF SetAt
  <2> QED BY <2>1, <2>2
<1> QED BY <1>1 DEF SetUpTo

(* and so all of them.                                                     *)
LEMMA SetAll ==
  ASSUME NEW members, Len(members) \in Nat, NEW n \in Nat
  PROVE  \E f : SetUpTo(members, f, n)
<1> DEFINE S == {k \in Nat : \E f : SetUpTo(members, f, k)}
<1>1. 0 \in S
  <2>1. SetUpTo(members, [i \in 0..Len(members) |-> 0], 0)
    BY DEF SetUpTo
  <2> QED BY <2>1
<1>2. ASSUME NEW k \in Nat, k \in S PROVE k + 1 \in S
  <2>1. PICK f : SetUpTo(members, f, k)
    BY <1>2
  <2>2. \E g : SetUpTo(members, g, k + 1)
    BY <2>1, SetMore
  <2> QED BY <2>2
<1>3. n \in S
  <2> HIDE DEF S
  <2> QED BY <1>1, <1>2, FromZero
<1> QED BY <1>3

(* SetMembers is the last of its steps.                                    *)
LEMMA SetMembersEquation ==
  ASSUME NEW members, Len(members) \in Nat
  PROVE  \E f : /\ SetMembers(members) = f[Len(members)]
                /\ \A n \in 0..Len(members) : f[n] = SetAt(members, f, n)
<1> DEFINE Fits(p) == p = [n \in 0..Len(members) |-> SetAt(members, p, n)]
<1>1. PICK f : SetUpTo(members, f, Len(members) + 1)
  <2>1. Len(members) + 1 \in Nat
    OBVIOUS
  <2> QED BY <2>1, SetAll
<1>2. Fits(f)
  <2>1. f = [n \in 0..Len(members) |-> f[n]] /\ \A n \in 0..Len(members) : f[n] = SetAt(members, f, n)
    BY <1>1 DEF SetUpTo
  <2>2. [n \in 0..Len(members) |-> f[n]] = [n \in 0..Len(members) |-> SetAt(members, f, n)]
    BY <2>1
  <2> QED BY <2>1, <2>2
<1> DEFINE P == CHOOSE p : Fits(p)
<1>3. SetMembers(members) = P[Len(members)]
  BY DEF SetMembers, SetAt
<1>4. P = [n \in 0..Len(members) |-> SetAt(members, P, n)]
  <2> HIDE DEF Fits
  <2>1. Fits(P)
    BY <1>2
  <2> QED BY <2>1 DEF Fits
<1> HIDE DEF P
<1>5. \A n \in 0..Len(members) : P[n] = SetAt(members, P, n)
  BY <1>4
<1> QED BY <1>3, <1>5

(* What SetMember makes of the members one after the other has the last    *)
(* value of each name, and no name twice.                                  *)
THEOREM SetMembersLast ==
  ASSUME NEW members, Len(members) \in Nat
  PROVE  /\ IsSeq(SetMembers(members))
         /\ \A name : LastOf(SetMembers(members), members, Len(members), name)
<1>1. PICK f : /\ SetMembers(members) = f[Len(members)]
               /\ \A n \in 0..Len(members) : f[n] = SetAt(members, f, n)
  BY SetMembersEquation
<1> DEFINE Good(n) == IsSeq(f[n]) /\ \A name : LastOf(f[n], members, n, name)
           S == {n \in Nat : n <= Len(members) => Good(n)}
<1>2. Good(0)
  <2>1. f[0] = << >>
    BY <1>1 DEF SetAt
  <2>2. << >> \in Seq({})
    OBVIOUS
  <2>3. \A name : Places(<< >>, name) = {}
    BY DEF Places
  <2>4. \A name : LastOf(<< >>, members, 0, name)
    BY <2>3 DEF LastOf
  <2> QED BY <2>1, <2>2, <2>4 DEF IsSeq
<1>3. ASSUME NEW n \in Nat, n + 1 <= Len(members), Good(n) PROVE Good(n + 1)
  <2>1. n + 1 \in 0..Len(members) /\ n + 1 # 0 /\ (n + 1) - 1 = n
    BY <1>3
  <2>2. f[n + 1] = SetMember(f[n], members[n + 1].key, members[n + 1].value)
    BY <1>1, <2>1 DEF SetAt
  <2> QED BY <1>3, <2>2, SetMemberKeeps
<1>4. Len(members) \in S
  <2> HIDE DEF Good
  <2>1. 0 \in S
    BY <1>2
  <2>2. ASSUME NEW n \in Nat, n \in S PROVE n + 1 \in S
    BY <1>3, <2>2
  <2> HIDE DEF S
  <2> QED BY <2>1, <2>2, FromZero
<1>5. Good(Len(members))
  <2> HIDE DEF Good
  <2> QED BY <1>4
<1> QED BY <1>1, <1>5

(* The member that an object gives for a name.                             *)
LEMMA GetMemberLast ==
  ASSUME NEW members, IsSeq(members), NEW name
  PROVE  \/ Places(members, name) = {} /\ GetMember(Object(members), name) = {}
         \/ \E q \in Places(members, name) :
              /\ \A y \in Places(members, name) : y <= q
              /\ GetMember(Object(members), name) = {members[q].value}
<1>1. DOMAIN members = 1..Len(members) /\ Len(members) \in Nat
  BY SeqChanged
<1> DEFINE items == SetMembers(members)
<1>2. LastOf(items, members, Len(members), name)
  BY <1>1, SetMembersLast
<1>3. GetMember(Object(members), name) = {items[i].value : i \in Places(items, name)}
  BY DEF GetMember, Object
<1> HIDE DEF items
<1>4. CASE Places(items, name) = {} /\ \A i \in 1..Len(members) : members[i].key.name # name
  <2>1. Places(members, name) = {}
    BY <1>1, <1>4 DEF Places
  <2> QED BY <1>3, <1>4, <2>1
<1>5. CASE \E p \in Nat, q \in 1..Len(members) :
             /\ Places(items, name) = {p}
             /\ members[q].key.name = name
             /\ \A i \in 1..Len(members) : members[i].key.name = name => i <= q
             /\ items[p].value = members[q].value
  <2>1. PICK p \in Nat, q \in 1..Len(members) :
             /\ Places(items, name) = {p}
             /\ members[q].key.name = name
             /\ \A i \in 1..Len(members) : members[i].key.name = name => i <= q
             /\ items[p].value = members[q].value
    BY <1>5
  <2>2. q \in Places(members, name) /\ \A y \in Places(members, name) : y <= q
    BY <1>1, <2>1 DEF Places
  <2>3. GetMember(Object(members), name) = {members[q].value}
    BY <1>3, <2>1
  <2> QED BY <2>2, <2>3
<1> QED BY <1>2, <1>4, <1>5 DEF LastOf

-----------------------------------------------------------------------------
(* The value that a body gives for a parameter is the one written in it.   *)

(* Within an object that a text starts with one is one deep.               *)
LEMMA ObjectOpens ==
  ASSUME NEW text, IsText(text), NEW s \in 1..Len(text), s = SkipWhitespace(text, 1),
         At(text, s) = "beginObject", NEW n \in Nat, n = SkipWhitespace(text, s + 1)
  PROVE  /\ n \in (s + 1)..(Len(text) + 1)
         /\ \A k \in (s + 1)..n : Depth(text, k) = 1
         /\ \A k \in (s + 1)..(n - 1) : At(text, k) = "blank"
<1>0. Len(text) \in Nat /\ s \in Nat \ {0} /\ s + 1 \in Nat \ {0} /\ s + 1 \in Nat /\ s + 1 <= Len(text) + 1
  BY DEF IsText
<1>1. s + 1 <= n /\ n <= Len(text) + 1 /\ \A k \in (s + 1)..(n - 1) : At(text, k) = "blank"
  BY <1>0, SkipStops
<1>2. Depth(text, s + 1) = 1
  <2>1. Depth(text, s) = 0
    <3>1. s \in 1..s
      BY <1>0
    <3> QED BY <3>1, DepthAtStart
  <2>2. At(text, s) \in Brackets
    BY DEF Brackets
  <2> QED BY <2>1, <2>2, <1>0, DepthStep
<1>3. BlankIn(text, s + 1, n - 1)
  BY <1>1 DEF BlankIn
<1>4. \A k \in (s + 1)..n : Depth(text, k) = 1
  BY <1>0, <1>1, <1>2, <1>3, DepthBlank
<1> QED BY <1>0, <1>1, <1>4

(* No keys: the object closes, or the text ends, before the first member.  *)
LEMMA NoOuterKeys ==
  ASSUME NEW text, IsText(text), NEW s \in 1..Len(text), s = SkipWhitespace(text, 1),
         At(text, s) = "beginObject", NEW n \in Nat, n = SkipWhitespace(text, s + 1),
         At(text, n) = "endObject" \/ n > Len(text), NEW name
  PROVE  OuterKeys(text, name) = {}
<1>0. Len(text) \in Nat /\ s \in Nat
  BY DEF IsText
<1>1. /\ n \in (s + 1)..(Len(text) + 1)
      /\ \A k \in (s + 1)..n : Depth(text, k) = 1
      /\ \A k \in (s + 1)..(n - 1) : At(text, k) = "blank"
  BY ObjectOpens
<1>2. CASE At(text, n) = "endObject"
  <2>0. n \in 1..Len(text) /\ n \in Nat \ {0}
    BY <1>2, AtInside
  <2>1. n + 1 \in (s + 1)..(Len(text) + 1) /\ (n + 1) - 1 = n
    BY <1>0, <1>1, <2>0
  <2>2. Depth(text, n + 1) = 0
    <3>1. Depth(text, n) = 1
      BY <1>0, <1>1
    <3> QED BY <3>1, <2>0, <1>2, DepthStep
  <2>3. \A k \in (s + 1)..n : Depth(text, k) >= 1
    BY <1>1
  <2>4. PICK e \in (s + 1)..(Len(text) + 1) : e = n + 1 /\ e - 1 = n
    BY <2>1
  <2>5. Depth(text, e) <= 0
    BY <2>2, <2>4
  <2>6. \A k : k \in OuterKeys(text, name) <=>
               k \in (s + 1)..(e - 1) /\ IsKey(text, 1, k) /\ text[k].name = name
    <3>1. \A k \in (s + 1)..(e - 1) : Depth(text, k) >= 1
      BY <2>3, <2>4
    <3> QED BY <2>5, <3>1, OuterKeysAre
  <2>7. \A k \in (s + 1)..n : ~IsKey(text, 1, k)
    <3> SUFFICES ASSUME NEW k \in (s + 1)..n PROVE ~IsKey(text, 1, k)
      OBVIOUS
    <3>1. k = n \/ k \in (s + 1)..(n - 1)
      BY <1>0
    <3>2. At(text, k) # "string"
      BY <3>1, <1>1, <1>2
    <3> QED BY <3>2 DEF IsKey
  <2> QED BY <2>4, <2>6, <2>7
<1>3. CASE n > Len(text)
  <2>e. PICK e \in (s + 1)..(Len(text) + 1) : e = n
    BY <1>1
  <2>1. \A k \in (s + 1)..(e - 1) : Depth(text, k) >= 1
    <3> SUFFICES ASSUME NEW k \in (s + 1)..(e - 1) PROVE Depth(text, k) >= 1
      OBVIOUS
    <3>1. k \in (s + 1)..n
      BY <1>0, <2>e
    <3>2. Depth(text, k) = 1
      BY <3>1, <1>1
    <3> QED BY <3>2
  <2>2. e <= Len(text) => Depth(text, e) <= 0
    BY <1>0, <1>3, <2>e
  <2>3. \A k : k \in OuterKeys(text, name) <=>
               k \in (s + 1)..(e - 1) /\ IsKey(text, 1, k) /\ text[k].name = name
    BY <2>1, <2>2, OuterKeysAre
  <2>4. \A k \in (s + 1)..(e - 1) : ~IsKey(text, 1, k)
    BY <1>1, <2>e DEF IsKey
  <2> QED BY <2>3, <2>4
<1> QED BY <1>2, <1>3

(* The keys of an object with members.                                     *)
LEMMA OuterKeysOfMembers ==
  ASSUME NEW text, IsText(text), NEW s \in 1..Len(text), s = SkipWhitespace(text, 1),
         At(text, s) = "beginObject", NEW n \in 1..Len(text), n = SkipWhitespace(text, s + 1),
         NEW e, Listed(text, n, e, "beginObject"), NEW name
  PROVE  OuterKeys(text, name) = KeysIn(text, name, n, e - 1)
<1>0. Len(text) \in Nat /\ s \in Nat /\ n \in Nat /\ n \in 1..(Len(text) + 1) /\ e \in (n + 1)..(Len(text) + 1)
  BY DEF IsText, Listed
<1>1. /\ n \in (s + 1)..(Len(text) + 1)
      /\ \A k \in (s + 1)..n : Depth(text, k) = 1
      /\ \A k \in (s + 1)..(n - 1) : At(text, k) = "blank"
  BY <1>0, ObjectOpens
<1>2. Depth(text, n) = 1
  BY <1>0, <1>1
<1>3. (\A k \in n..(e - 1) : Depth(text, k) >= 1) /\ (e <= Len(text) => Depth(text, e) <= 0)
  <2>1. CASE e > n + 1 /\ At(text, e - 1) = Closing("beginObject") /\ IsList(text, n, e - 2, "beginObject")
    <3>1. PICK j \in 0..Len(text) : j = e - 2 /\ j + 1 = e - 1
      BY <1>0
    <3>2. BalancedList(text, n, j)
      BY <1>0, <2>1, <3>1, ListBalanced DEF Brackets
    <3>3. Depth(text, e - 1) = 1 /\ \A k \in n..(e - 2) : Depth(text, k) >= 1
      BY <1>2, <3>1, <3>2 DEF BalancedList
    <3>4. Depth(text, e) = 0
      <4>1. e - 1 \in Nat \ {0} /\ (e - 1) + 1 = e
        BY <1>0
      <4>2. PICK d \in Nat \ {0} : d = e - 1 /\ d + 1 = e
        BY <4>1
      <4>3. At(text, d) = "endObject" /\ Depth(text, d) = 1
        BY <2>1, <3>3, <4>2 DEF Closing
      <4>4. Depth(text, d + 1) = Depth(text, d) - 1
        BY <4>3, DepthStep
      <4> QED BY <4>2, <4>3, <4>4
    <3>5. \A k \in n..(e - 1) : k = e - 1 \/ k \in n..(e - 2)
      BY <1>0
    <3> QED BY <3>3, <3>4, <3>5
  <2>2. CASE e = Len(text) + 1 /\ At(text, Len(text)) = "comma" /\ IsList(text, n, Len(text) - 1, "beginObject")
    <3>0. Len(text) - 1 \in 0..Len(text) /\ (Len(text) - 1) + 1 = Len(text)
      BY <1>0
    <3>1. PICK j \in 0..Len(text) : j = Len(text) - 1 /\ j + 1 = Len(text)
      BY <3>0
    <3>2. BalancedList(text, n, j)
      BY <1>0, <2>2, <3>1, ListBalanced DEF Brackets
    <3>3. Depth(text, Len(text)) = 1 /\ \A k \in n..(Len(text) - 1) : Depth(text, k) >= 1
      BY <1>2, <3>1, <3>2 DEF BalancedList
    <3>5. \A k \in n..(e - 1) : k = Len(text) \/ k \in n..(Len(text) - 1)
      BY <1>0, <2>2
    <3>6. ~(e <= Len(text))
      BY <1>0, <2>2
    <3> QED BY <3>3, <3>5, <3>6
  <2> QED BY <2>1, <2>2 DEF Listed
<1>4. \A k \in (s + 1)..(e - 1) : Depth(text, k) >= 1
  <2> SUFFICES ASSUME NEW k \in (s + 1)..(e - 1) PROVE Depth(text, k) >= 1
    OBVIOUS
  <2>1. CASE k \in (s + 1)..n
    <3>1. Depth(text, k) = 1
      BY <2>1, <1>1
    <3> QED BY <3>1
  <2>2. CASE k \notin (s + 1)..n
    <3>1. k \in n..(e - 1)
      BY <1>0, <2>2
    <3> QED BY <3>1, <1>3
  <2> QED BY <2>1, <2>2
<1>5. e \in (s + 1)..(Len(text) + 1)
  BY <1>0, <1>1
<1>6. \A k : k \in OuterKeys(text, name) <=>
             k \in (s + 1)..(e - 1) /\ IsKey(text, 1, k) /\ text[k].name = name
  BY <1>3, <1>4, <1>5, OuterKeysAre
<1>7. ASSUME NEW k \in (s + 1)..(e - 1), IsKey(text, 1, k) PROVE k \in n..(e - 1)
  <2>1. k \notin (s + 1)..(n - 1)
    BY <1>1, <1>7 DEF IsKey
  <2> QED BY <2>1, <1>0
<1>8. n..(e - 1) \subseteq (s + 1)..(e - 1)
  BY <1>0, <1>1
<1> QED BY <1>2, <1>6, <1>7, <1>8 DEF KeysIn

(* The value of a key that the parsed object gives, and the token that the *)
(* text writes for it.                                                     *)
WrittenSame(text, value, name) ==
  \/ GetMember(value, name) = {} /\ Written(text, name) = {}
  \/ \E w, k : /\ k \in DOMAIN text /\ Same(w, text[k])
               /\ GetMember(value, name) = {w} /\ Written(text, name) = {text[k]}

(* From matching members to the same value of a name.                      *)
LEMMA SameInside ==
  ASSUME NEW text, IsText(text), NEW members, IsSeq(members), NEW name, NEW keys,
         keys \subseteq Nat,
         Matches(text, name, keys, members), OuterKeys(text, name) = keys,
         At(text, Min(Begins(text))) = "beginObject"
  PROVE  WrittenSame(text, Object(members), name)
<1>1. CASE keys = {} /\ Places(members, name) = {}
  <2>1. GetMember(Object(members), name) = {}
    BY <1>1, GetMemberLast
  <2>2. Written(text, name) = {}
    BY <1>1, WrittenMeans
  <2> QED BY <2>1, <2>2 DEF WrittenSame
<1>2. CASE \E k \in keys, q \in Places(members, name) :
             /\ \A x \in keys : x <= k
             /\ \A y \in Places(members, name) : y <= q
             /\ SameAfter(text, members[q].value, k)
  <2>1. PICK k \in keys, q \in Places(members, name) :
             /\ \A x \in keys : x <= k
             /\ \A y \in Places(members, name) : y <= q
             /\ SameAfter(text, members[q].value, k)
    BY <1>2
  <2>2. Max(keys) = k
    BY <2>1, GreatestIs
  <2>3. Written(text, name) = {text[SkipWhitespace(text, SkipWhitespace(text, k + 1) + 1)]}
    <3>1. keys # {}
      OBVIOUS
    <3> QED BY <3>1, <2>2, WrittenMeans
  <2>4. PICK o \in Places(members, name) :
             /\ \A y \in Places(members, name) : y <= o
             /\ GetMember(Object(members), name) = {members[o].value}
    BY GetMemberLast
  <2>5. o = q
    <3>1. Places(members, name) \subseteq Nat
      BY SeqChanged DEF Places
    <3>2. o <= q /\ q <= o /\ o \in Nat /\ q \in Nat
      BY <3>1, <2>1, <2>4
    <3> QED BY <3>2
  <2>6. SameAfter(text, members[q].value, k)
    BY <2>1
  <2> QED BY <2>3, <2>4, <2>5, <2>6 DEF WrittenSame, SameAfter
<1> QED BY <1>1, <1>2 DEF Matches

(* No members match no keys.                                               *)
LEMMA EmptyMatches ==
  ASSUME NEW text, NEW name
  PROVE  IsSeq(<< >>) /\ Matches(text, name, {}, << >>)
<1>1. << >> \in Seq({})
  OBVIOUS
<1>2. Places(<< >>, name) = {}
  BY DEF Places
<1> QED BY <1>1, <1>2 DEF IsSeq, Matches

(* An accepted text: what its value is, and what it gives for a name.      *)
THEOREM WrittenIsMember ==
  ASSUME NEW text, IsText(text), Parse(text).status = "ok", NEW name
  PROVE  IF Parse(text).value.json = "object" THEN WrittenSame(text, Parse(text).value, name)
         ELSE Written(text, name) = {}
<1> DEFINE v == ValueFrom(text, 1)
<1>0. Len(text) \in Nat /\ 1 \in Nat /\ v.status = "ok" /\ Parse(text) = v
  BY DEF IsText, Parse, ValueFrom
<1>1. PICK s \in 1..Len(text) : s = SkipWhitespace(text, 1) /\ Same(v.value, text[s])
  BY <1>0, ValueSame
<1>2. s \in Nat /\ s + 1 \in Nat /\ Min(Begins(text)) = s /\ At(text, s) = text[s].json
  <2>1. Min(Begins(text)) = s
    BY <1>1, BeginsOnce
  <2>2. At(text, s) = text[s].json
    BY DEF At, IsText
  <2> QED BY <1>0, <2>1, <2>2
<1>3. PICK n \in Nat : n = SkipWhitespace(text, s + 1)
  BY <1>2, SkipStops
<1>4. ValueCases(text, s, n, v, ElementsFrom(text, n), MembersFrom(text, n))
  BY <1>0, <1>1, <1>2, <1>3, ValueParsed
<1> HIDE DEF v
<1>5. CASE v.value.json # "object"
  <2>1. At(text, s) # "beginObject"
    BY <1>1, <1>2, <1>5 DEF Same, Scalars
  <2>2. Written(text, name) = {}
    BY <2>1, <1>2, WrittenMeans
  <2> QED BY <2>2, <1>0, <1>5
<1>6. CASE v.value.json = "object"
  <2>1. At(text, s) = "beginObject"
    BY <1>1, <1>2, <1>6 DEF Same, Scalars
  <2>2. SUFFICES WrittenSame(text, v.value, name)
    BY <1>0, <1>6
  <2>3. CASE At(text, n) = "endObject" \/ n > Len(text)
    <3>1. OuterKeys(text, name) = {}
      BY <2>1, <2>3, <1>1, <1>3, NoOuterKeys
    <3>2. v.value = Object(<< >>)
      <4>1. CASE At(text, n) = "endObject"
        <5>1. v = Read(Object(<< >>), n + 1)
          BY <4>1, <2>1, <1>4 DEF ValueCases
        <5> QED BY <5>1 DEF Read
      <4>2. CASE At(text, n) # "endObject" /\ n > Len(text)
        <5>1. v = Filled("members", MembersFrom(text, n))
          BY <4>2, <2>1, <1>4 DEF ValueCases
        <5>2. MembersFrom(text, n) = Read(<< >>, n)
          <6>1. ListFrom(text, n, "beginObject") = Read(<< >>, n)
            BY <4>2, ListAtEnd DEF Brackets
          <6> QED BY <6>1 DEF ListFrom
        <5>3. MembersFrom(text, n).status = "ok" /\ MembersFrom(text, n).value = << >>
          BY <5>2 DEF Read
        <5>4. v = Read(Object(<< >>), MembersFrom(text, n).next)
          BY <5>1, <5>3 DEF Filled
        <5> QED BY <5>4 DEF Read
      <4> QED BY <2>3, <4>1, <4>2
    <3>3. WrittenSame(text, Object(<< >>), name)
      <4>1. At(text, Min(Begins(text))) = "beginObject" /\ {} \subseteq Nat
        BY <2>1, <1>2
      <4> QED BY <4>1, <3>1, EmptyMatches, SameInside
    <3> QED BY <3>2, <3>3
  <2>4. CASE At(text, n) # "endObject" /\ n <= Len(text)
    <3> DEFINE list == MembersFrom(text, n)
               keys == KeysIn(text, name, n, list.next - 1)
    <3>0. n \in 1..Len(text) /\ n \in 1..(Len(text) + 1) /\ ~(n > Len(text))
      <4>1. s + 1 <= n
        BY <1>2, <1>3, SkipStops
      <4> QED BY <4>1, <1>0, <1>2, <2>4
    <3>1. v = Filled("members", list)
      BY <2>4, <2>1, <1>4 DEF ValueCases
    <3>2. list.status = "ok" /\ v.value = Object(list.value)
      BY <3>1, <1>0 DEF Filled, Read
    <3>3. Listed(text, n, list.next, "beginObject")
      BY <3>0, <3>2, SoundEverywhere DEF SoundFrom, ListSound
    <3>4. IsSeq(list.value) /\ Matches(text, name, keys, list.value)
      BY <2>4, <3>0, <3>2, MembersMatchEverywhere DEF MembersMatch
    <3>5. OuterKeys(text, name) = keys
      BY <3>0, <3>3, <2>1, <1>1, <1>3, OuterKeysOfMembers
    <3>6. keys \subseteq Nat
      BY <3>0, <3>3 DEF KeysIn, Listed
    <3> HIDE DEF list, keys
    <3>7. At(text, Min(Begins(text))) = "beginObject"
      BY <2>1, <1>2
    <3>8. WrittenSame(text, Object(list.value), name)
      BY <3>4, <3>5, <3>6, <3>7, SameInside
    <3> QED BY <3>2, <3>8
  <2> QED BY <1>0, <2>3, <2>4
<1> QED BY <1>5, <1>6

-----------------------------------------------------------------------------
(* Validation.                                                             *)

(* The schema of a parameter, as ParseParameterSchemaFromJson leaves it.   *)
SchemaTyped(s) ==
  /\ s.type \in Types \cup {"other"} /\ s.location \in Locations \cup {"other"}
  /\ s.required \in BOOLEAN
  /\ s.min \subseteq Nat /\ s.max \subseteq Nat
  /\ s.minLength \subseteq 0..(Word - 1) /\ s.maxLength \subseteq 0..(Word - 1)
  /\ s.floatMin = {} /\ s.floatMax = {}

(* A request: a body and texts for the parameters elsewhere.               *)
RequestTyped(r) ==
  /\ r.body \in Bodies \cup PlainBodies
  /\ \A location \in Locations \ {"body"} : \A name \in DOMAIN r[location] : r[location][name] \in Values

(* The tokens of a body.                                                   *)
LEMMA BodyTyped ==
  ASSUME NEW r, RequestTyped(r)
  PROVE  /\ r.body \in Seq(Token) /\ IsText(r.body)
         /\ \A i \in DOMAIN r.body :
              /\ r.body[i].text \in Text
              /\ r.body[i].json \in {"integer", "float"} => r.body[i].text.length > 0
<1>1. r.body \in Seq(Token)
  BY ValidationAssumption DEF RequestTyped
<1>2. IsText(r.body)
  BY <1>1 DEF IsText
<1>3. \A i \in DOMAIN r.body : r.body[i] \in Token
  BY <1>1
<1>4. \A i \in DOMAIN r.body : r.body[i].text \in Text
  BY <1>3 DEF Token
<1>5. \A i \in DOMAIN r.body : r.body[i].json \in {"integer", "float"} => r.body[i].text.length > 0
  BY ValidationAssumption DEF RequestTyped
<1> QED BY <1>1, <1>2, <1>4, <1>5

(* The meaning of a schema, by which the code is judged: the declaration   *)
(* as it was read.  Of an empty string in the body nothing is checked.     *)
ObeysSchema(s, value) ==
  LET text   == value.text
      isText == value.json = "text"
      exempt == ~isText /\ text.length = 0
  IN  CASE s.type = "string" ->
             /\ isText \/ value.json = "string"
             /\ exempt \/ /\ \A n \in s.minLength : n <= text.length
                          /\ \A n \in s.maxLength : text.length <= n
                          /\ \A regex \in s.pattern : text \in regex
                          /\ text \in s.allowed \/ s.allowed = {}
        [] s.type = "integer" ->
             /\ isText \/ value.json = "integer"
             /\ text.kind = "integer"
             /\ \A n \in s.max : text.number <= n
             /\ \A n \in s.min : n <= text.number
        [] s.type = "float" ->
             /\ isText \/ value.json \in {"float", "integer"}
             /\ text.kind \in {"integer", "fraction", "huge"}
        [] s.type = "boolean" ->
             \/ isText /\ (text.kind = "boolean" \/ (text.kind = "integer" /\ text.number <= 1 /\ text.length = 1))
             \/ value.json = "boolean"
        [] s.type = "object" -> isText \/ value.json = "beginObject"
        [] s.type = "array" -> isText \/ value.json = "beginArray"
        [] s.type = "other" -> TRUE

MeetsSchema(s, r) ==
  /\ s.required /\ s.location # "other" => Given(s, r) # {}
  /\ \A value \in Given(s, r) : ObeysSchema(s, value)

(* A text outside of the body is judged as it should be.                   *)
LEMMA TextObeys ==
  ASSUME NEW s, SchemaTyped(s), NEW text \in Values
  PROVE  ValidateValue(s, text) <=> ObeysSchema(s, [json |-> "text", text |-> text])
<1> DEFINE value == [json |-> "text", text |-> text]
<1>0. text \in Text
  BY ValidationAssumption
<1>1. value.json = "text" /\ value.text = text
  OBVIOUS
<1>2. text.kind \in Kinds /\ text.number \in Nat /\ text.length \in Nat
  BY <1>0 DEF Text
<1> HIDE DEF value
<1>3. CASE s.type = "string"
  BY <1>1, <1>2, <1>3 DEF ValidateValue, ValidateStringConstraints, ObeysSchema
<1>4. CASE s.type = "integer"
  <2>1. ValidateValue(s, text) <=> /\ text.kind = "integer"
                                   /\ \A n \in s.min : text.number >= n
                                   /\ \A n \in s.max : text.number <= n
    BY <1>4 DEF ValidateValue, ValidateIntegerConstraints
  <2>2. ObeysSchema(s, value) <=> /\ text.kind = "integer"
                                  /\ \A n \in s.max : text.number <= n
                                  /\ \A n \in s.min : n <= text.number
    BY <1>1, <1>4 DEF ObeysSchema
  <2> QED BY <2>1, <2>2 DEF value
<1>5. CASE s.type = "float"
  <2>1. ValidateValue(s, text) <=> text.kind \in {"integer", "fraction", "huge"}
    BY <1>5 DEF ValidateValue, ValidateFloatConstraints, SchemaTyped
  <2>2. ObeysSchema(s, value) <=> text.kind \in {"integer", "fraction", "huge"}
    BY <1>1, <1>5 DEF ObeysSchema
  <2> QED BY <2>1, <2>2 DEF value
<1>6. CASE s.type = "boolean"
  <2>1. ValidateValue(s, text) <=>
          text.kind = "boolean" \/ (text.kind = "integer" /\ text.length = 1 /\ text.number \in {0, 1})
    BY <1>6 DEF ValidateValue, ValidateBooleanValue
  <2>2. ObeysSchema(s, value) <=>
          text.kind = "boolean" \/ (text.kind = "integer" /\ text.number <= 1 /\ text.length = 1)
    BY <1>1, <1>6 DEF ObeysSchema
  <2>3. text.number <= 1 <=> text.number \in {0, 1}
    BY <1>2
  <2> QED BY <2>1, <2>2, <2>3 DEF value
<1>7. CASE s.type \in {"object", "array", "other"}
  BY <1>1, <1>7 DEF ValidateValue, ObeysSchema, value
<1> QED BY <1>3, <1>4, <1>5, <1>6, <1>7 DEF SchemaTyped, Types, value

(* And so is a value in the body.                                          *)
LEMMA FieldObeys ==
  ASSUME NEW s, SchemaTyped(s), NEW w, NEW t, Same(w, t), t.text \in Text,
         t.json \in {"integer", "float"} => t.text.length > 0
  PROVE  FieldErrs(s, w) <=> ~ObeysSchema(s, t)
<1>1. t.text.kind \in Kinds /\ t.text.number \in Nat /\ t.text.length \in Nat
  BY DEF Text
<1>2. t.json \in Scalars \cup {"beginArray", "beginObject"} /\ t.json # "text"
  BY DEF Same, Scalars
<1>3. t.json \in Scalars => w.json = t.json /\ w.token = t
  BY DEF Same, Scalars
<1>4. t.json = "beginArray" => w.json = "array"
  BY DEF Same, Scalars
<1>5. t.json = "beginObject" => w.json = "object"
  BY DEF Same, Scalars
<1>6. t.json = "beginArray" \/ t.json = "beginObject" => w.json \notin Scalars
  BY <1>4, <1>5 DEF Scalars
<1>7. CASE s.type = "string"
  <2>1. FieldErrs(s, w) <=> w.json # "string" \/ (w.token.text.length > 0 /\ ~ValidateStringConstraints(s, w.token.text))
    BY <1>7 DEF FieldErrs, IsOfType, Types, ValidateValue
  <2>2. ObeysSchema(s, t) <=> /\ t.json = "string"
                              /\ t.text.length = 0 \/ ValidateStringConstraints(s, t.text)
    BY <1>1, <1>2, <1>7 DEF ObeysSchema, ValidateStringConstraints
  <2>3. CASE t.json = "string"
    <3>1. w.json = "string" /\ w.token = t
      BY <1>3, <2>3 DEF Scalars
    <3>2. t.text.length > 0 <=> ~(t.text.length = 0)
      BY <1>1
    <3> QED BY <2>1, <2>2, <2>3, <3>1, <3>2
  <2>4. CASE t.json # "string"
    <3>1. w.json # "string"
      BY <1>2, <1>3, <1>4, <1>5, <2>4
    <3> QED BY <2>1, <2>2, <2>4, <3>1
  <2> QED BY <2>3, <2>4
<1>8. CASE s.type = "integer"
  <2>1. FieldErrs(s, w) <=> w.json # "integer" \/ (w.token.text.length > 0 /\ ~ValidateIntegerConstraints(s, w.token.text))
    BY <1>8 DEF FieldErrs, IsOfType, Types, ValidateValue
  <2>2. ObeysSchema(s, t) <=> /\ t.json = "integer"
                              /\ ValidateIntegerConstraints(s, t.text)
    BY <1>1, <1>2, <1>8 DEF ObeysSchema, ValidateIntegerConstraints
  <2>3. CASE t.json = "integer"
    <3>1. w.json = "integer" /\ w.token = t
      BY <1>3, <2>3 DEF Scalars
    <3> QED BY <2>1, <2>2, <2>3, <3>1
  <2>4. CASE t.json # "integer"
    <3>1. w.json # "integer"
      BY <1>2, <1>3, <1>4, <1>5, <2>4
    <3> QED BY <2>1, <2>2, <2>4, <3>1
  <2> QED BY <2>3, <2>4
<1>9. CASE s.type = "float"
  <2>1. FieldErrs(s, w) <=>
          \/ w.json \notin {"float", "integer"}
          \/ w.token.text.length > 0 /\ w.token.text.kind \notin {"integer", "fraction", "huge"}
    BY <1>9 DEF FieldErrs, IsOfType, Types, ValidateValue, ValidateFloatConstraints, SchemaTyped
  <2>2. ObeysSchema(s, t) <=> t.json \in {"float", "integer"} /\ t.text.kind \in {"integer", "fraction", "huge"}
    BY <1>2, <1>9 DEF ObeysSchema
  <2>3. CASE t.json \in {"float", "integer"}
    <3>1. w.json \in {"float", "integer"} /\ w.token = t
      BY <1>3, <2>3 DEF Scalars
    <3>2. t.text.length > 0
      BY <2>3
    <3> QED BY <2>1, <2>2, <2>3, <3>1, <3>2
  <2>4. CASE t.json \notin {"float", "integer"}
    <3>1. w.json \notin {"float", "integer"}
      BY <1>2, <1>3, <1>4, <1>5, <2>4
    <3> QED BY <2>1, <2>2, <2>4, <3>1
  <2> QED BY <2>3, <2>4
<1>10. CASE s.type = "boolean"
  <2>1. FieldErrs(s, w) <=> w.json # "boolean"
    BY <1>10 DEF FieldErrs, IsOfType, Types
  <2>2. ObeysSchema(s, t) <=> t.json = "boolean"
    BY <1>2, <1>10 DEF ObeysSchema
  <2>3. w.json = "boolean" <=> t.json = "boolean"
    BY <1>2, <1>3, <1>4, <1>5
  <2> QED BY <2>1, <2>2, <2>3
<1>11. CASE s.type = "object"
  <2>1. FieldErrs(s, w) <=> w.json # "object"
    BY <1>11 DEF FieldErrs, IsOfType, Types
  <2>2. ObeysSchema(s, t) <=> t.json = "beginObject"
    BY <1>2, <1>11 DEF ObeysSchema
  <2>3. w.json = "object" <=> t.json = "beginObject"
    BY <1>2, <1>3, <1>4, <1>5 DEF Scalars
  <2> QED BY <2>1, <2>2, <2>3
<1>12. CASE s.type = "array"
  <2>1. FieldErrs(s, w) <=> w.json # "array"
    BY <1>12 DEF FieldErrs, IsOfType, Types
  <2>2. ObeysSchema(s, t) <=> t.json = "beginArray"
    BY <1>2, <1>12 DEF ObeysSchema
  <2>3. w.json = "array" <=> t.json = "beginArray"
    BY <1>2, <1>3, <1>4, <1>5 DEF Scalars
  <2> QED BY <2>1, <2>2, <2>3
<1>13. CASE s.type = "other"
  BY <1>13 DEF FieldErrs, IsOfType, Types, ObeysSchema
<1> QED BY <1>7, <1>8, <1>9, <1>10, <1>11, <1>12, <1>13 DEF SchemaTyped, Types

SchemasTyped == \A i \in DOMAIN schemas : SchemaTyped(schemas[i])

(* The locations outside of the body.                                      *)
Outside == {"path", "query", "header"}

(* The parameters that a request does not meet.                            *)
Unmet(r) == {i \in DOMAIN schemas : ~MeetsSchema(schemas[i], r)}

(* The errors at a location outside of the body.                           *)
LEMMA TextErrors ==
  ASSUME SchemasTyped, NEW r, RequestTyped(r), NEW location \in Outside
  PROVE  ValidateTexts(r, location) = Unmet(r) \cap ParametersIn(location)
<1> SUFFICES ASSUME NEW i \in ParametersIn(location)
             PROVE  i \in ValidateTexts(r, location) <=> ~MeetsSchema(schemas[i], r)
  BY DEF ValidateTexts, Unmet, ParametersIn
<1> DEFINE s == schemas[i]
           given == r[location]
<1>1. i \in DOMAIN schemas /\ s.location = location /\ SchemaTyped(s)
  BY DEF ParametersIn, SchemasTyped
<1>2. i \in ValidateTexts(r, location) <=>
        IF s.name \in DOMAIN given THEN ~ValidateValue(s, given[s.name]) ELSE s.required
  BY DEF ValidateTexts
<1>3. Given(s, r) = {[json |-> "text", text |-> given[name]] : name \in {s.name} \cap DOMAIN given}
  BY <1>1 DEF Given, Outside, Locations
<1>4. MeetsSchema(s, r) <=> (s.required => Given(s, r) # {}) /\ \A value \in Given(s, r) : ObeysSchema(s, value)
  BY <1>1 DEF MeetsSchema, Outside
<1> HIDE DEF s
<1>5. CASE s.name \in DOMAIN given
  <2>1. given[s.name] \in Values
    BY <1>5 DEF RequestTyped, Locations, Outside
  <2>2. Given(s, r) = {[json |-> "text", text |-> given[s.name]]}
    BY <1>3, <1>5
  <2>3. ValidateValue(s, given[s.name]) <=> ObeysSchema(s, [json |-> "text", text |-> given[s.name]])
    BY <1>1, <2>1, TextObeys
  <2>4. MeetsSchema(s, r) <=> ObeysSchema(s, [json |-> "text", text |-> given[s.name]])
    BY <1>4, <2>2
  <2> QED BY <1>2, <1>5, <2>3, <2>4 DEF s
<1>6. CASE s.name \notin DOMAIN given
  <2>1. Given(s, r) = {}
    BY <1>3, <1>6
  <2>2. MeetsSchema(s, r) <=> ~s.required
    BY <1>1, <1>4, <2>1 DEF SchemaTyped
  <2> QED BY <1>2, <1>6, <2>2 DEF s
<1> QED BY <1>5, <1>6

(* A parameter in the body, of a body that parses.                         *)
LEMMA FieldErrors ==
  ASSUME SchemasTyped, NEW r, RequestTyped(r), NEW i \in ParametersIn("body"),
         Parse(r.body).status = "ok"
  PROVE  ValidateJsonBodyField(Parse(r.body).value, i) <=> ~MeetsSchema(schemas[i], r)
<1> DEFINE s == schemas[i]
           value == Parse(r.body).value
<1>0. IsText(r.body) /\ Accepted(r.body)
  BY BodyTyped, AcceptsOnlyValues DEF Accepted
<1>1. i \in DOMAIN schemas /\ s.location = "body" /\ SchemaTyped(s)
  BY DEF ParametersIn, SchemasTyped
<1>2. Given(s, r) = Written(r.body, s.name)
  BY <1>0, <1>1 DEF Given, Locations
<1>3. MeetsSchema(s, r) <=> (s.required => Given(s, r) # {}) /\ \A t \in Given(s, r) : ObeysSchema(s, t)
  BY <1>1 DEF MeetsSchema
<1>4. ValidateJsonBodyField(value, i) <=>
        IF value.json = "object" /\ GetMember(value, s.name) # {}
        THEN \E w \in GetMember(value, s.name) : FieldErrs(s, w) ELSE s.required
  BY DEF ValidateJsonBodyField
<1>5. IF value.json = "object" THEN WrittenSame(r.body, value, s.name) ELSE Written(r.body, s.name) = {}
  BY <1>0, WrittenIsMember
<1> HIDE DEF s, value
<1>6. CASE /\ value.json = "object"
           /\ \E w, k : /\ k \in DOMAIN r.body /\ Same(w, r.body[k])
                        /\ GetMember(value, s.name) = {w} /\ Written(r.body, s.name) = {r.body[k]}
  <2>1. PICK w, k : /\ k \in DOMAIN r.body /\ Same(w, r.body[k])
                    /\ GetMember(value, s.name) = {w} /\ Written(r.body, s.name) = {r.body[k]}
    BY <1>6
  <2>2. FieldErrs(s, w) <=> ~ObeysSchema(s, r.body[k])
    BY <1>1, <2>1, BodyTyped, FieldObeys
  <2>3. ValidateJsonBodyField(value, i) <=> FieldErrs(s, w)
    BY <1>4, <1>6, <2>1
  <2>4. MeetsSchema(s, r) <=> ObeysSchema(s, r.body[k])
    BY <1>2, <1>3, <2>1
  <2> QED BY <2>2, <2>3, <2>4 DEF s, value
<1>7. CASE /\ value.json # "object" \/ GetMember(value, s.name) = {}
           /\ Written(r.body, s.name) = {}
  <2>1. ValidateJsonBodyField(value, i) <=> s.required
    BY <1>4, <1>7
  <2>2. MeetsSchema(s, r) <=> ~s.required
    BY <1>1, <1>2, <1>3, <1>7 DEF SchemaTyped
  <2> QED BY <2>1, <2>2 DEF s, value
<1> QED BY <1>5, <1>6, <1>7 DEF WrittenSame

(* A body that is not JSON, where one is asked for.                        *)
Garbled(r) == r.body # << >> /\ ~Accepted(r.body) /\ ParametersIn("body") # {}

(* The errors of the body.                                                 *)
LEMMA BodyErrors ==
  ASSUME SchemasTyped, NEW r, RequestTyped(r), ~Throws(r)
  PROVE  ValidateBodyParameters(r.body) = IF Garbled(r) THEN {0} ELSE Unmet(r) \cap ParametersIn("body")
<1> DEFINE found == ValidateBodyParameters(r.body)
<1>0. IsText(r.body)
  BY BodyTyped
<1>1. CASE ParametersIn("body") = {}
  <2>1. found = {}
    BY <1>1 DEF ValidateBodyParameters
  <2>2. ~Garbled(r)
    BY <1>1 DEF Garbled
  <2> QED BY <1>1, <2>1, <2>2
<1>2. CASE ParametersIn("body") # {} /\ r.body = << >>
  <2>1. found = {i \in ParametersIn("body") : schemas[i].required}
    BY <1>2 DEF ValidateBodyParameters
  <2>2. ~Garbled(r)
    BY <1>2 DEF Garbled
  <2>3. ~Accepted(r.body)
    <3>1. Begins(r.body) = {}
      <4>1. DOMAIN r.body = {}
        BY <1>2
      <4> QED BY <4>1 DEF Begins
    <3> QED BY <3>1 DEF Accepted, StartsWithValue, IsCutShort
  <2>4. ASSUME NEW i \in ParametersIn("body") PROVE schemas[i].required <=> i \in Unmet(r)
    <3>1. i \in DOMAIN schemas /\ schemas[i].location = "body" /\ SchemaTyped(schemas[i])
      BY DEF ParametersIn, SchemasTyped
    <3>2. Given(schemas[i], r) = {}
      BY <2>3, <3>1 DEF Given, Locations
    <3>3. MeetsSchema(schemas[i], r) <=> ~schemas[i].required
      BY <3>1, <3>2 DEF MeetsSchema, SchemaTyped
    <3> QED BY <3>1, <3>3 DEF Unmet, SchemaTyped
  <2> QED BY <2>1, <2>2, <2>4
<1>3. CASE ParametersIn("body") # {} /\ r.body # << >> /\ Parse(r.body).status # "ok"
  <2>1. found = {0}
    BY <1>3 DEF ValidateBodyParameters
  <2>2. Parse(r.body).status # "throws"
    BY <1>3 DEF Throws
  <2>3. ~Accepted(r.body)
    BY <1>0, <1>3, <2>2, AcceptsAllValues DEF Accepted
  <2> QED BY <1>3, <2>1, <2>3 DEF Garbled
<1>4. CASE ParametersIn("body") # {} /\ r.body # << >> /\ Parse(r.body).status = "ok"
  <2>1. found = {i \in ParametersIn("body") : ValidateJsonBodyField(Parse(r.body).value, i)}
    BY <1>4 DEF ValidateBodyParameters
  <2>2. ~Garbled(r)
    BY <1>0, <1>4, AcceptsOnlyValues DEF Garbled, Accepted
  <2>3. ASSUME NEW i \in ParametersIn("body")
        PROVE  ValidateJsonBodyField(Parse(r.body).value, i) <=> i \in Unmet(r)
    BY <1>4, FieldErrors DEF Unmet, ParametersIn
  <2> QED BY <2>1, <2>2, <2>3
<1> QED BY <1>1, <1>2, <1>3, <1>4

(* Parameters at no location that is known are not looked at.              *)
LEMMA UnmetPlaces ==
  ASSUME SchemasTyped, NEW r, NEW i \in Unmet(r)
  PROVE  i \in ParametersIn("path") \cup ParametersIn("query") \cup ParametersIn("header") \cup ParametersIn("body")
<1>1. i \in DOMAIN schemas /\ SchemaTyped(schemas[i]) /\ ~MeetsSchema(schemas[i], r)
  BY DEF Unmet, SchemasTyped
<1>2. schemas[i].location # "other"
  <2> SUFFICES ASSUME schemas[i].location = "other" PROVE FALSE
    OBVIOUS
  <2>1. Given(schemas[i], r) = {}
    BY DEF Given, Locations
  <2> QED BY <1>1, <2>1 DEF MeetsSchema
<1>3. schemas[i].location \in {"path", "query", "header", "body"}
  BY <1>1, <1>2 DEF SchemaTyped, Locations
<1> QED BY <1>1, <1>3 DEF ParametersIn

(* The errors of all of a request that does not throw.                     *)
LEMMA RequestErrors ==
  ASSUME SchemasTyped, NEW r, RequestTyped(r), ~Throws(r)
  PROVE  ValidateRequest(r) = IF Garbled(r) THEN (Unmet(r) \ ParametersIn("body")) \cup {0} ELSE Unmet(r)
<1>1. ValidateRequest(r) = ValidateTexts(r, "path") \cup ValidateTexts(r, "query")
                             \cup ValidateTexts(r, "header") \cup ValidateBodyParameters(r.body)
  <2>1. Locations \ {"body"} = {"path", "query", "header"}
    BY DEF Locations
  <2>2. {ValidateTexts(r, location) : location \in Locations \ {"body"}}
          = {ValidateTexts(r, "path"), ValidateTexts(r, "query"), ValidateTexts(r, "header")}
    BY <2>1
  <2>3. \A a, b, c : UNION {a, b, c} = a \cup b \cup c
    OBVIOUS
  <2> DEFINE each == {ValidateTexts(r, location) : location \in Locations \ {"body"}}
  <2>4. ValidateRequest(r) = (UNION each) \cup ValidateBodyParameters(r.body)
    BY DEF ValidateRequest
  <2>5. UNION each = ValidateTexts(r, "path") \cup ValidateTexts(r, "query") \cup ValidateTexts(r, "header")
    BY <2>2, <2>3
  <2> HIDE DEF each
  <2> QED BY <2>4, <2>5
<1> DEFINE outside == ParametersIn("path") \cup ParametersIn("query") \cup ParametersIn("header")
<1>2. ValidateTexts(r, "path") \cup ValidateTexts(r, "query") \cup ValidateTexts(r, "header")
        = Unmet(r) \cap outside
  <2>1. ValidateTexts(r, "path") = Unmet(r) \cap ParametersIn("path")
    BY TextErrors DEF Outside
  <2>2. ValidateTexts(r, "query") = Unmet(r) \cap ParametersIn("query")
    BY TextErrors DEF Outside
  <2>3. ValidateTexts(r, "header") = Unmet(r) \cap ParametersIn("header")
    BY TextErrors DEF Outside
  <2> QED BY <2>1, <2>2, <2>3
<1>3. outside \cap ParametersIn("body") = {}
  BY DEF ParametersIn
<1>4. Unmet(r) \subseteq outside \cup ParametersIn("body")
  BY UnmetPlaces
<1> HIDE DEF outside
<1>5. ValidateBodyParameters(r.body) = IF Garbled(r) THEN {0} ELSE Unmet(r) \cap ParametersIn("body")
  BY BodyErrors
<1>6. ValidateRequest(r) = (Unmet(r) \cap outside) \cup ValidateBodyParameters(r.body)
  BY <1>1, <1>2
<1>7. Unmet(r) \cap outside = Unmet(r) \ ParametersIn("body")
  BY <1>3, <1>4
<1>8. Unmet(r) = (Unmet(r) \cap outside) \cup (Unmet(r) \cap ParametersIn("body"))
  BY <1>4
<1>9. CASE Garbled(r)
  BY <1>5, <1>6, <1>7, <1>9
<1>10. CASE ~Garbled(r)
  BY <1>5, <1>6, <1>8, <1>10
<1> QED BY <1>9, <1>10

-----------------------------------------------------------------------------
(* The theorems.                                                           *)

(* The inductive invariant: schemas are what ParseParameterSchemaFromJson  *)
(* makes of the declarations, requests are what a client may send.         *)
ReadAs(d, s) ==
  /\ d \in Declarations
  /\ \E type \in Initialized(d.type, Types), location \in Initialized(d.location, Locations) :
       s = Parsed(d, type, location)

IInv ==
  /\ IsSeq(declared) /\ IsSeq(schemas) /\ DOMAIN declared = DOMAIN schemas
  /\ SchemasTyped
  /\ \A i \in DOMAIN declared : ReadAs(declared[i], schemas[i])
  /\ \A r \in request : RequestTyped(r)
  /\ errors \subseteq DOMAIN schemas \cup {0}

(* It holds before the registration.                                       *)
LEMMA InitIInv == Init => IInv
<1>1. << >> \in Seq({})
  OBVIOUS
<1> QED BY <1>1 DEF Init, IInv, IsSeq, SchemasTyped

(* The schema that a declaration becomes.                                  *)
LEMMA ParsedTyped ==
  ASSUME NEW d \in Declarations, NEW type \in Initialized(d.type, Types),
         NEW location \in Initialized(d.location, Locations)
  PROVE  SchemaTyped(Parsed(d, type, location))
<1>1. type \in Types \cup {"other"} /\ location \in Locations \cup {"other"}
  BY DEF Initialized
<1>2. d \in Declaration
  BY ValidationAssumption
<1>3. /\ d.required \in BOOLEAN /\ d.min \subseteq Text /\ d.max \subseteq Text
      /\ d.minLength \subseteq Nat /\ d.maxLength \subseteq Nat
  BY <1>2 DEF Declaration, Bound
<1>4. ASSUME NEW bound \in Text PROVE GetInteger(bound) \in Nat
  BY DEF GetInteger, Text
<1>5. ASSUME NEW n \in Nat PROVE CastUint32(n) \in 0..(Word - 1)
  BY ValidationAssumption DEF CastUint32
<1> DEFINE s == Parsed(d, type, location)
<1>6. /\ s.type = type /\ s.location = location /\ s.required = d.required
      /\ s.floatMin = {} /\ s.floatMax = {}
  BY DEF Parsed
<1>7. s.min = {GetInteger(bound) : bound \in d.min} /\ s.max = {GetInteger(bound) : bound \in d.max}
  BY DEF Parsed
<1>8. s.minLength = {CastUint32(n) : n \in d.minLength} /\ s.maxLength = {CastUint32(n) : n \in d.maxLength}
  BY DEF Parsed
<1> HIDE DEF s
<1>9. s.min \subseteq Nat /\ s.max \subseteq Nat
  BY <1>3, <1>4, <1>7
<1>10. s.minLength \subseteq 0..(Word - 1) /\ s.maxLength \subseteq 0..(Word - 1)
  BY <1>3, <1>5, <1>8
<1> QED BY <1>1, <1>3, <1>6, <1>9, <1>10 DEF SchemaTyped, s

(* Texts are given for the parameters.                                     *)
LEMMA BroughtTyped ==
  ASSUME NEW location, NEW given \in Brought(location)
  PROVE  \A name \in DOMAIN given : given[name] \in Values
<1> DEFINE names == {schemas[i].name : i \in ParametersIn(location)}
           each == {[g -> Values] : g \in SUBSET names}
<1>1. Brought(location) = UNION each
  BY DEF Brought
<1>2. PICK f \in each : given \in f
  BY <1>1
<1>3. PICK g \in SUBSET names : f = [g -> Values]
  BY <1>2
<1> QED BY <1>2, <1>3

(* An error is about a parameter, or about the body.                       *)
LEMMA ErrorsTyped ==
  ASSUME NEW r
  PROVE  ValidateRequest(r) \subseteq DOMAIN schemas \cup {0}
<1>1. \A location : ValidateTexts(r, location) \subseteq DOMAIN schemas
  BY DEF ValidateTexts, ParametersIn
<1>2. ValidateBodyParameters(r.body) \subseteq DOMAIN schemas \cup {0}
  <2>1. ParametersIn("body") \subseteq DOMAIN schemas
    BY DEF ParametersIn
  <2>2. \/ ValidateBodyParameters(r.body) \subseteq ParametersIn("body")
        \/ ValidateBodyParameters(r.body) = {0}
    BY DEF ValidateBodyParameters
  <2> QED BY <2>1, <2>2
<1> DEFINE each == {ValidateTexts(r, location) : location \in Locations \ {"body"}}
<1>3. ValidateRequest(r) = (UNION each) \cup ValidateBodyParameters(r.body)
  BY DEF ValidateRequest
<1>4. UNION each \subseteq DOMAIN schemas
  BY <1>1
<1> QED BY <1>2, <1>3, <1>4

(* What Validate does with a request, whatever its parts.                  *)
Judges(r) ==
  /\ request = {} /\ request' = {r} /\ UNCHANGED << declared, schemas >>
  /\ \A name \in DOMAIN r["path"] : r["path"][name] \in Values
  /\ \A name \in DOMAIN r["query"] : r["query"][name] \in Values
  /\ \A name \in DOMAIN r["header"] : r["header"][name] \in Values
  /\ r.body \in Bodies \cup PlainBodies
  /\ errors' = IF Throws(r) THEN {} ELSE ValidateRequest(r)
  /\ Throws(r) => outcome' = "dead"
  /\ ~Throws(r) => outcome' # "dead"

(* A step of Next, taken apart.                                            *)
LEMMA NextCases ==
  ASSUME Next
  PROVE  \/ \E d \in Declarations : Declare(d)
         \/ \E r : Judges(r)
<1>1. CASE \E d \in Declarations : Declare(d)
  BY <1>1
<1>2. CASE /\ request = {}
           /\ \E path \in Brought("path"), query \in Brought("query"), header \in Brought("header"),
                body \in IF schemas = << >> THEN PlainBodies ELSE Bodies :
                Validate(path, query, header, body)
  <2>1. PICK path \in Brought("path"), query \in Brought("query"), header \in Brought("header"),
             body \in Bodies \cup PlainBodies : Validate(path, query, header, body)
    BY <1>2
  <2> DEFINE r == [path |-> path, query |-> query, header |-> header, body |-> body]
  <2>2. /\ request' = {r} /\ UNCHANGED << declared, schemas >>
        /\ errors' = IF Throws(r) THEN {} ELSE ValidateRequest(r)
        /\ outcome' = CASE Throws(r) -> "dead"
                        [] ~Throws(r) /\ errors' # {} -> "refused"
                        [] ~Throws(r) /\ errors' = {} -> "forwarded"
    BY <2>1 DEF Validate
  <2>3. r["path"] = path /\ r["query"] = query /\ r["header"] = header /\ r.body = body
    OBVIOUS
  <2> HIDE DEF r
  <2>4. (Throws(r) => outcome' = "dead") /\ (~Throws(r) => outcome' # "dead")
    BY <2>2
  <2> QED BY <1>2, <2>2, <2>3, <2>4, BroughtTyped DEF Judges
<1> QED BY <1>1, <1>2 DEF Next

(* A declaration adds one schema.                                          *)
LEMMA DeclareIInv ==
  ASSUME IInv, NEW d \in Declarations, Declare(d)
  PROVE  IInv'
<1>1. PICK type \in Initialized(d.type, Types), location \in Initialized(d.location, Locations) :
        schemas' = Append(schemas, Parsed(d, type, location))
  BY DEF Declare
<1> DEFINE s == Parsed(d, type, location)
<1>2. SchemaTyped(s)
  BY ParsedTyped
<1>3. /\ declared' = Append(declared, d) /\ schemas' = Append(schemas, s)
      /\ request = {} /\ UNCHANGED << request, errors, outcome >>
  BY <1>1 DEF Declare
<1> HIDE DEF s
<1>4. /\ DOMAIN schemas = 1..Len(schemas) /\ Len(schemas) \in Nat /\ IsSeq(schemas')
      /\ DOMAIN schemas' = 1..(Len(schemas) + 1) /\ schemas'[Len(schemas) + 1] = s
      /\ \A i \in 1..Len(schemas) : schemas'[i] = schemas[i]
  BY <1>3, SeqChanged DEF IInv
<1>5. /\ DOMAIN declared = 1..Len(declared) /\ Len(declared) \in Nat /\ IsSeq(declared')
      /\ DOMAIN declared' = 1..(Len(declared) + 1) /\ declared'[Len(declared) + 1] = d
      /\ \A i \in 1..Len(declared) : declared'[i] = declared[i]
  BY <1>3, SeqChanged DEF IInv
<1>0. ReadAs(d, s)
  BY <1>1 DEF ReadAs, s
<1>6. DOMAIN declared' = DOMAIN schemas' /\ Len(declared) = Len(schemas)
  <2>1. 1..Len(declared) = 1..Len(schemas)
    BY <1>4, <1>5 DEF IInv
  <2>2. Len(declared) = Len(schemas)
    <3>1. \A m, n \in Nat : 1..m = 1..n => m = n
      <4> SUFFICES ASSUME NEW m \in Nat, NEW n \in Nat, 1..m = 1..n PROVE m = n
        OBVIOUS
      <4>1. (m > 0 => m \in 1..n) /\ (n > 0 => n \in 1..m)
        OBVIOUS
      <4>2. (m > 0 => m <= n) /\ (n > 0 => n <= m)
        BY <4>1
      <4> QED BY <4>2
    <3> QED BY <2>1, <3>1, <1>4, <1>5
  <2> QED BY <2>2, <1>4, <1>5
<1>7. SchemasTyped'
  <2> SUFFICES ASSUME NEW i \in DOMAIN schemas' PROVE SchemaTyped(schemas'[i])
    BY DEF SchemasTyped
  <2>1. CASE i = Len(schemas) + 1
    BY <2>1, <1>2, <1>4
  <2>2. CASE i # Len(schemas) + 1
    <3>1. i \in 1..Len(schemas)
      BY <2>2, <1>4
    <3> QED BY <3>1, <1>4 DEF IInv, SchemasTyped
  <2> QED BY <2>1, <2>2
<1>10. ASSUME NEW i \in DOMAIN declared' PROVE ReadAs(declared'[i], schemas'[i])
  <2>1. CASE i = Len(declared) + 1
    BY <2>1, <1>0, <1>4, <1>5, <1>6
  <2>2. CASE i # Len(declared) + 1
    <3>1. i \in 1..Len(declared) /\ i \in 1..Len(schemas)
      BY <2>2, <1>5, <1>6
    <3>2. ReadAs(declared[i], schemas[i])
      BY <3>1, <1>5 DEF IInv
    <3> QED BY <3>1, <3>2, <1>4, <1>5
  <2> QED BY <2>1, <2>2
<1>8. DOMAIN schemas \subseteq DOMAIN schemas'
  BY <1>4
<1>9. errors' \subseteq DOMAIN schemas' \cup {0} /\ \A r \in request' : RequestTyped(r)
  BY <1>3, <1>8 DEF IInv
<1>11. (\A i \in DOMAIN declared : ReadAs(declared[i], schemas[i]))'
  BY <1>10 DEF ReadAs, Parsed, Initialized
<1> QED BY <1>4, <1>5, <1>6, <1>7, <1>9, <1>11 DEF IInv

(* Every step keeps it.                                                    *)
LEMMA NextIInv == IInv /\ [Next]_vars => IInv'
<1> SUFFICES ASSUME IInv, [Next]_vars PROVE IInv'
  OBVIOUS
<1>1. CASE UNCHANGED vars
  BY <1>1 DEF IInv, SchemasTyped, vars, ReadAs, Parsed, Initialized
<1>2. CASE Next
  <2>1. CASE \E d \in Declarations : Declare(d)
    BY <2>1, DeclareIInv
  <2>2. CASE \E r : Judges(r)
    <3>1. PICK r : Judges(r)
      BY <2>2
    <3>2. RequestTyped(r)
      BY <3>1 DEF Judges, RequestTyped, Locations
    <3>3. errors' \subseteq DOMAIN schemas' \cup {0}
      BY <3>1, ErrorsTyped DEF Judges
    <3>4. SchemasTyped'
      BY <3>1 DEF Judges, IInv, SchemasTyped
    <3>5. (\A i \in DOMAIN declared : ReadAs(declared[i], schemas[i]))'
      BY <3>1 DEF Judges, IInv, ReadAs, Parsed, Initialized
    <3> QED BY <3>1, <3>2, <3>3, <3>4, <3>5 DEF Judges, IInv
  <2> QED BY <1>2, <2>1, <2>2, NextCases
<1> QED BY <1>1, <1>2

(* Schemas and requests are always what they should be.                    *)
THEOREM RequestInvariance == Spec => []IInv
<1> QED BY InitIInv, NextIInv, PTL DEF Spec

(* Every declaration has its schema, every error its parameter, and        *)
(* lengths have 32 bits.                                                   *)
THEOREM RequestTypeCorrect == Spec => []TypeOK
<1>1. IInv => TypeOK
  BY DEF IInv, TypeOK, SchemasTyped, SchemaTyped
<1> QED BY <1>1, RequestInvariance, PTL

(* What the parser says of a request does not change.                      *)
LEMMA NextParses == IInv /\ ParsesExactly /\ [Next]_vars => ParsesExactly'
<1>1. ASSUME NEW r, RequestTyped(r)
      PROVE  /\ Parse(r.body).status = "ok" => Accepted(r.body)
             /\ Parse(r.body).status = "throws" => {i \in DOMAIN r.body : At(r.body, i) \in Throwing} # {}
             /\ Parse(r.body).status = "rejected" => ~Accepted(r.body)
  <2>1. IsText(r.body)
    BY <1>1, BodyTyped
  <2>2. Parse(r.body).status = "ok" => Accepted(r.body)
    BY <2>1, AcceptsOnlyValues DEF Accepted
  <2>3. Parse(r.body).status = "throws" => \E i \in DOMAIN r.body : At(r.body, i) \in Throwing
    BY <2>1, ThrowsThere DEF HasThrowing
  <2>4. Parse(r.body).status = "rejected" => ~Accepted(r.body)
    BY <2>1, AcceptsAllValues DEF Accepted
  <2> QED BY <2>2, <2>3, <2>4
<1> SUFFICES ASSUME IInv, ParsesExactly, [Next]_vars PROVE ParsesExactly'
  OBVIOUS
<1>2. IInv'
  BY NextIInv
<1>3. \A r \in request' : outcome' = "dead" => Parse(r.body).status = "throws"
  <2>1. CASE UNCHANGED vars
    BY <2>1 DEF vars, ParsesExactly
  <2>2. CASE \E d \in Declarations : Declare(d)
    BY <2>2 DEF Declare
  <2>3. CASE \E r : Judges(r)
    BY <2>3 DEF Judges, Throws
  <2> QED BY <2>1, <2>2, <2>3, NextCases
<1>4. \A r \in request' : RequestTyped(r)
  BY <1>2 DEF IInv
<1> QED BY <1>1, <1>3, <1>4 DEF ParsesExactly

(* The parser accepts the texts that start with a JSON value and those cut *)
(* short; a connection dies only of a number that 64 bits do not hold or   *)
(* of a misspelt escape.                                                   *)
THEOREM ParserExact == Spec => []ParsesExactly
<1>1. Init => ParsesExactly
  BY DEF Init, ParsesExactly
<1> QED BY <1>1, NextParses, RequestInvariance, PTL DEF Spec

(* The errors of a request, by the schemas.                                *)
SchemaErrors ==
  \A r \in request : outcome # "dead" =>
    errors = IF Garbled(r) THEN (Unmet(r) \ ParametersIn("body")) \cup {0} ELSE Unmet(r)

(* Every step keeps that.                                                  *)
LEMMA NextErrors == IInv /\ SchemaErrors /\ [Next]_vars => SchemaErrors'
<1> SUFFICES ASSUME IInv, SchemaErrors, [Next]_vars PROVE SchemaErrors'
  OBVIOUS
<1>1. CASE UNCHANGED vars
  BY <1>1 DEF vars, SchemaErrors, ParametersIn, Garbled, Unmet
<1>2. CASE \E d \in Declarations : Declare(d)
  BY <1>2 DEF Declare, SchemaErrors
<1>3. CASE \E r : Judges(r)
  <2>1. PICK r : /\ request' = {r} /\ UNCHANGED schemas
                 /\ errors' = IF Throws(r) THEN {} ELSE ValidateRequest(r)
                 /\ Throws(r) => outcome' = "dead"
    BY <1>3 DEF Judges
  <2>2. RequestTyped(r)
    <3>1. IInv'
      BY NextIInv
    <3> QED BY <2>1, <3>1 DEF IInv
  <2>3. SUFFICES ASSUME outcome' # "dead"
                 PROVE  errors' = IF Garbled(r)' THEN (Unmet(r)' \ ParametersIn("body")') \cup {0} ELSE Unmet(r)'
    BY <2>1 DEF SchemaErrors, Garbled, Unmet
  <2>4. errors' = IF Garbled(r) THEN (Unmet(r) \ ParametersIn("body")) \cup {0} ELSE Unmet(r)
    BY <2>1, <2>2, <2>3, RequestErrors DEF IInv
  <2>5. ParametersIn("body")' = ParametersIn("body")
    BY <2>1 DEF ParametersIn
  <2>6. Unmet(r)' = Unmet(r) /\ (Garbled(r)' <=> Garbled(r))
    BY <2>1, <2>5 DEF Unmet, Garbled
  <2> QED BY <2>4, <2>5, <2>6
<1> QED BY <1>1, <1>2, <1>3, NextCases

(* A declaration that is read whole asks for what its schema asks for.     *)
LEMMA WholeObeys ==
  ASSUME NEW d \in Declarations, ReadWhole(d), NEW value,
         d.type = "string" /\ value.json = "string" => value.text.length > 0
  PROVE  ObeysSchema(Parsed(d, d.type, d.location), value) <=> Obeys(d, value)
<1> DEFINE s == Parsed(d, d.type, d.location)
           text == value.text
<1>1. /\ s.type = d.type /\ s.pattern = d.pattern /\ s.allowed = d.allowed
      /\ s.min = {GetInteger(bound) : bound \in d.min} /\ s.max = {GetInteger(bound) : bound \in d.max}
      /\ s.minLength = {CastUint32(n) : n \in d.minLength} /\ s.maxLength = {CastUint32(n) : n \in d.maxLength}
  BY DEF Parsed
<1>2. d.type \in Types
  BY DEF ReadWhole
<1> SUFFICES ObeysSchema(s, value) <=> Obeys(d, value)
  OBVIOUS
<1> HIDE DEF s
<1>3. CASE d.type = "string"
  <2>1. ASSUME NEW n \in d.minLength \cup d.maxLength PROVE CastUint32(n) = n
    <3>1. n \in 0..(Word - 1)
      BY <1>3 DEF ReadWhole
    <3> QED BY <3>1, ValidationAssumption DEF CastUint32
  <2>2. s.minLength = d.minLength /\ s.maxLength = d.maxLength
    BY <1>1, <2>1
  <2>3. value.json = "string" => text.length # 0
    BY <1>3
  <2> QED BY <1>1, <1>3, <2>2, <2>3 DEF ObeysSchema, Obeys
<1>4. CASE d.type = "integer"
  <2>1. \A bound \in d.min \cup d.max : GetInteger(bound) = bound.number
    BY <1>4 DEF ReadWhole, GetInteger
  <2>2. /\ s.min = {bound.number : bound \in d.min}
        /\ s.max = {bound.number : bound \in d.max}
    BY <1>1, <2>1
  <2>3. /\ (\A n \in s.max : text.number <= n) <=> (\A bound \in d.max : text.number <= bound.number)
        /\ (\A n \in s.min : n <= text.number) <=> (\A bound \in d.min : bound.number <= text.number)
    BY <2>2
  <2>4. ObeysSchema(s, value) <=> /\ value.json \in {"text", "integer"} /\ text.kind = "integer"
                                  /\ \A n \in s.max : text.number <= n
                                  /\ \A n \in s.min : n <= text.number
    BY <1>1, <1>4 DEF ObeysSchema
  <2>5. Obeys(d, value) <=> /\ value.json \in {"text", "integer"} /\ text.kind = "integer"
                            /\ \A bound \in d.max : text.number <= bound.number
                            /\ \A bound \in d.min : bound.number <= text.number
    BY <1>4 DEF Obeys
  <2> QED BY <2>3, <2>4, <2>5
<1>5. CASE d.type = "float"
  <2>1. d.min = {} /\ d.max = {}
    BY <1>5 DEF ReadWhole
  <2> QED BY <1>1, <1>5, <2>1 DEF ObeysSchema, Obeys
<1>6. CASE d.type = "boolean"
  BY <1>1, <1>6 DEF ObeysSchema, Obeys
<1>7. CASE d.type \in {"object", "array"}
  BY <1>1, <1>7 DEF ObeysSchema, Obeys
<1> QED BY <1>2, <1>3, <1>4, <1>5, <1>6, <1>7 DEF Types

LEMMA WholeMeets ==
  ASSUME NEW d \in Declarations, ReadWhole(d), NEW r, LookedAt(d, r)
  PROVE  MeetsSchema(Parsed(d, d.type, d.location), r) <=> Meets(d, r)
<1> DEFINE s == Parsed(d, d.type, d.location)
<1>1. s.location = d.location /\ s.name = d.name /\ s.required = d.required
  BY DEF Parsed
<1>2. d.location \in Locations /\ d.location # "other"
  BY DEF ReadWhole, Locations
<1> HIDE DEF s
<1>3. Given(s, r) = Given(d, r)
  BY <1>1 DEF Given
<1>4. ASSUME NEW value \in Given(d, r), d.type = "string", value.json = "string"
      PROVE  value.text.length > 0
  <2>1. CASE d.location = "body"
    BY <2>1, <1>4 DEF LookedAt
  <2>2. CASE d.location # "body"
    <3>1. value.json = "text"
      BY <2>2, <1>2 DEF Given, Locations
    <3> QED BY <3>1, <1>4
  <2> QED BY <2>1, <2>2
<1>5. ASSUME NEW value \in Given(d, r) PROVE ObeysSchema(s, value) <=> Obeys(d, value)
  BY <1>4, WholeObeys DEF s
<1>6. MeetsSchema(s, r) <=> (d.required => Given(d, r) # {}) /\ \A value \in Given(d, r) : ObeysSchema(s, value)
  BY <1>1, <1>2, <1>3 DEF MeetsSchema
<1>7. Meets(d, r) <=> (d.required => Given(d, r) # {}) /\ \A value \in Given(d, r) : Obeys(d, value)
  BY DEF Meets
<1> QED BY <1>5, <1>6, <1>7 DEF s

(* So the errors are exact for it.                                         *)
LEMMA SchemasDecide == IInv /\ SchemaErrors => ErrorsExact
<1> SUFFICES ASSUME IInv, SchemaErrors, NEW r \in request, outcome # "dead"
             PROVE  LET garbled == r.body # << >> /\ ~Accepted(r.body)
                    IN  /\ \A i \in DOMAIN declared : ReadWhole(declared[i]) /\ LookedAt(declared[i], r) =>
                             IF garbled /\ declared[i].location = "body" THEN i \notin errors /\ 0 \in errors
                             ELSE i \in errors <=> ~Meets(declared[i], r)
                        /\ 0 \in errors => garbled
  BY DEF ErrorsExact
<1> DEFINE garbled == r.body # << >> /\ ~Accepted(r.body)
<1>1. errors = IF Garbled(r) THEN (Unmet(r) \ ParametersIn("body")) \cup {0} ELSE Unmet(r)
  BY DEF SchemaErrors
<1>2. DOMAIN declared = DOMAIN schemas /\ 0 \notin DOMAIN schemas
  <2>1. PICK S : schemas \in Seq(S)
    BY DEF IInv, IsSeq
  <2>2. DOMAIN schemas = 1..Len(schemas) /\ Len(schemas) \in Nat
    BY <2>1
  <2> QED BY <2>2 DEF IInv
<1>3. Unmet(r) \subseteq DOMAIN schemas
  BY DEF Unmet
<1>4. Garbled(r) <=> garbled /\ ParametersIn("body") # {}
  BY DEF Garbled
<1> HIDE DEF garbled
<1>5. 0 \in errors => garbled
  BY <1>1, <1>2, <1>3, <1>4
<1>6. ASSUME NEW i \in DOMAIN declared, ReadWhole(declared[i]), LookedAt(declared[i], r)
      PROVE  IF garbled /\ declared[i].location = "body" THEN i \notin errors /\ 0 \in errors
             ELSE i \in errors <=> ~Meets(declared[i], r)
  <2> DEFINE d == declared[i]
  <2>1. d \in Declarations /\ schemas[i] = Parsed(d, d.type, d.location)
    <3>1. ReadAs(d, schemas[i])
      BY DEF IInv
    <3>2. Initialized(d.type, Types) = {d.type} /\ Initialized(d.location, Locations) = {d.location}
      BY <1>6 DEF ReadWhole, Initialized
    <3> QED BY <3>1, <3>2 DEF ReadAs
  <2>2. schemas[i].location = d.location
    BY <2>1 DEF Parsed
  <2>3. MeetsSchema(schemas[i], r) <=> Meets(d, r)
    BY <1>6, <2>1, WholeMeets
  <2>4. i \in Unmet(r) <=> ~Meets(d, r)
    BY <1>2, <2>3 DEF Unmet
  <2>5. i \in ParametersIn("body") <=> d.location = "body"
    BY <1>2, <2>2 DEF ParametersIn
  <2>6. i # 0
    BY <1>2
  <2> QED BY <1>1, <1>4, <2>4, <2>5, <2>6
<1> QED BY <1>5, <1>6 DEF garbled

(* Declarations that are read whole are enforced, all at once; a body that *)
(* the parser rejects is one error in place of those in the body.          *)
THEOREM ErrorsAreExact == Spec => []ErrorsExact
<1>1. Init => SchemaErrors
  BY DEF Init, SchemaErrors
<1>2. Spec => []SchemaErrors
  BY <1>1, NextErrors, RequestInvariance, PTL DEF Spec
<1> QED BY <1>2, SchemasDecide, RequestInvariance, PTL
=============================================================================
