------------------------------ MODULE JsonText ------------------------------
(***************************************************************************)
(* JsonParser: a text becomes a value (or a complaint, or an exception).   *)
(* The endpoints of a registration, their parameters, and the bodies of    *)
(* requests are all read by it.                                            *)
(*                                                                         *)
(* A text is a sequence of tokens.  A token is a punctuation mark, a blank *)
(* (a run of white space), a scalar, or something else that is no JSON; a  *)
(* scalar keeps what the program tells apart: its JSON type, its text (see *)
(* RequestValidation) and, for a string, the name it spells.  Spellings    *)
(* which the parser takes and JSON does not, like 01, 1. and a raw control *)
(* byte in a string, are below the tokens, and so are most escapes.        *)
(***************************************************************************)
EXTENDS Integers, Sequences, FiniteSetsExt

NoText == [kind |-> "word", number |-> 0, length |-> 0]

Mark(what) == [json |-> what, text |-> NoText, name |-> ""]

Scalars == {"string", "integer", "float", "boolean", "null"}

(* A lone minus sign, or an integer that 64 bits do not hold: std::stoll   *)
(* throws, and nothing between it and the connection's coroutine catches.  *)
Unreadable == "unreadable"

(* A string with a \u that no hexadecimal digit follows: std::stoul throws. *)
Misspelt == "misspelt"

Throwing == {Unreadable, Misspelt}

(* A scalar is read as it is; the items of an array are values, those of   *)
(* an object pair the key's token with a value, in the order in which the  *)
(* keys first appear.                                                      *)
Scalar(token) == [json |-> token.json, token |-> token, items |-> << >>]
Array(items)  == [json |-> "array", token |-> Mark("beginArray"), items |-> items]

Places(members, name) == {i \in DOMAIN members : members[i].key.name = name}

(* the first value of a key stays *)
SetMemberOnce(members, key, value) ==
  IF Places(members, key.name) = {}
  THEN Append(members, [key |-> key, value |-> value]) ELSE members

(* A key that is there keeps its place and gets the new value.             *)
SetMember(members, key, value) ==
  LET member == [key |-> key, value |-> value]
      places == Places(members, key.name)
  IN  IF places = {} THEN Append(members, member)
      ELSE [members EXCEPT ![Min(places)] = member]

(* The object after SetMember for each of its members.                     *)
SetMembers(members) ==
  LET items[n \in 0..Len(members)] ==
        IF n = 0 THEN << >>
        ELSE SetMember(items[n - 1], members[n].key, members[n].value)
  IN  items[Len(members)]

Object(members) ==
  [json |-> "object", token |-> Mark("beginObject"), items |-> SetMembers(members)]

GetMember(object, name) ==
  LET places == Places(object.items, name)
  IN  {object.items[i].value : i \in places}

-----------------------------------------------------------------------------
(* Parsing. *)

(* What a parsing function leaves: its result, and the position after it.  *)
Read(value, next) == [status |-> "ok", value |-> value, next |-> next]
Stop(status) == [status |-> status, value |-> Scalar(Mark("null")), next |-> 0]

At(text, i) == IF i \in DOMAIN text THEN text[i].json ELSE "end"

SkipWhitespace(text, i) ==
  IF i > Len(text) THEN i
  ELSE Min({j \in i..(Len(text) + 1) : At(text, j) # "blank"})

(* The parsing functions call each other, by way of parse: what each makes *)
(* of a text from a position on.                                           *)
Filled(what, entries) ==
  IF entries.status # "ok" THEN entries
  ELSE Read(IF what = "elements" THEN Array(entries.value) ELSE Object(entries.value), entries.next)

ParseValue(text, parse, start) ==
  LET i     == SkipWhitespace(text, start)
      after == SkipWhitespace(text, i + 1)
  IN  CASE At(text, i) \in Scalars -> Read(Scalar(text[i]), i + 1)
        [] At(text, i) \in Throwing -> Stop("throws")
        [] At(text, i) = "beginArray" ->
             IF At(text, after) = "endArray" THEN Read(Array(<< >>), after + 1)
             ELSE Filled("elements", parse[<< "elements", after >>])
        [] At(text, i) = "beginObject" ->
             IF At(text, after) = "endObject" THEN Read(Object(<< >>), after + 1)
             ELSE Filled("members", parse[<< "members", after >>])
        [] OTHER -> Stop("rejected")

(* What follows an entry of a container: the rest of them after a comma,   *)
(* or the bracket that closes it.                                          *)
Continued(text, entry, after, rest, bracket) ==
  CASE At(text, after) = "comma" ->
         IF rest.status = "ok" THEN Read(<< entry >> \o rest.value, rest.next) ELSE rest
    [] At(text, after) = bracket -> Read(<< entry >>, after + 1)
    [] OTHER -> Stop("rejected")

(* a comma may end the array *)
ParseArrayLoosely(text, parse, i) ==
  LET element == parse[<< "value", i >>]
      after   == SkipWhitespace(text, element.next)
  IN  IF i > Len(text) THEN Read(<< >>, i)
      ELSE IF At(text, i) = "endArray" THEN Read(<< >>, i + 1)
      ELSE IF element.status # "ok" THEN element
      ELSE Continued(text, element.value, after, parse[<< "elements", after + 1 >>], "endArray")

(* The loop over the elements ends with the text, too: before the first    *)
(* element, and right after a comma.                                       *)
ParseArray(text, parse, i) ==
  LET element == parse[<< "value", i >>]
      after   == SkipWhitespace(text, element.next)
  IN  IF i > Len(text) THEN Read(<< >>, i)
      ELSE IF element.status # "ok" THEN element
      ELSE Continued(text, element.value, after, parse[<< "elements", after + 1 >>], "endArray")

ParseObject(text, parse, i) ==
  LET key    == SkipWhitespace(text, i)
      colon  == SkipWhitespace(text, key + 1)
      value  == parse[<< "value", colon + 1 >>]
      after  == SkipWhitespace(text, value.next)
      member == [key |-> text[key], value |-> value.value]
  IN  IF i > Len(text) THEN Read(<< >>, i)
      ELSE IF At(text, key) = Misspelt THEN Stop("throws")
      ELSE IF At(text, key) # "string" \/ At(text, colon) # "colon" THEN Stop("rejected")
      ELSE IF value.status # "ok" THEN value
      ELSE Continued(text, member, after, parse[<< "members", after + 1 >>], "endObject")

Parser(text) ==
  LET parse[at \in {"value", "elements", "members"} \X Nat] ==
        IF at[1] = "value" THEN ParseValue(text, parse, at[2])
        ELSE IF at[1] = "elements" THEN ParseArray(text, parse, at[2])
        ELSE ParseObject(text, parse, at[2])
  IN  parse

(* What follows the value is not looked at.                                *)
Parse(text) == Parser(text)[<< "value", 1 >>]

-----------------------------------------------------------------------------
(* The grammar of JSON, by which the parser is judged: what the part of a  *)
(* text from i to j is.                                                    *)

BlankIn(text, i, j) == \A k \in i..j : At(text, k) = "blank"

Closing(bracket) == IF bracket = "beginArray" THEN "endArray" ELSE "endObject"

(* A value, blanks around it.                                              *)
IsItem(text, is, i, j) ==
  \E a, b \in i..j : BlankIn(text, i, a - 1) /\ BlankIn(text, b + 1, j) /\ is[<< "value", a, b >>]

(* An element of an array, or a member of an object.                       *)
IsEntry(text, is, i, j, bracket) ==
  IF bracket = "beginArray" THEN IsItem(text, is, i, j)
  ELSE \E k, c \in i..j :
         /\ BlankIn(text, i, k - 1) /\ At(text, k) = "string"
         /\ BlankIn(text, k + 1, c - 1) /\ At(text, c) = "colon" /\ k < c
         /\ IsItem(text, is, c + 1, j)

IsContainer(text, is, i, j) ==
  /\ i < j
  /\ At(text, i) \in {"beginArray", "beginObject"} /\ At(text, j) = Closing(At(text, i))
  /\ BlankIn(text, i + 1, j - 1) \/ is[<< At(text, i), i + 1, j - 1 >>]

IsSequence(text, is, i, j, bracket) ==
  \/ IsEntry(text, is, i, j, bracket)
  \/ \E c \in i..j : /\ At(text, c) = "comma"
                     /\ IsEntry(text, is, i, c - 1, bracket)
                     /\ is[<< bracket, c + 1, j >>]

Grammar(text) ==
  LET is[at \in {"value", "beginArray", "beginObject"} \X (1..(Len(text) + 1)) \X (0..Len(text))] ==
        IF at[1] = "value"
        THEN \/ at[2] = at[3] /\ At(text, at[2]) \in Scalars \cup {Unreadable}
             \/ IsContainer(text, is, at[2], at[3])
        ELSE IsSequence(text, is, at[2], at[3], at[1])
  IN  is

IsValue(text, i, j) == Grammar(text)[<< "value", i, j >>]

IsList(text, i, j, bracket) == Grammar(text)[<< bracket, i, j >>]

(* Where a text starts.                                                    *)
Begins(text) == {i \in DOMAIN text : BlankIn(text, 1, i - 1) /\ At(text, i) # "blank"}

(* A text that starts with a value, whatever comes after it.               *)
StartsWithValue(text) ==
  \E i \in Begins(text) : \E j \in i..Len(text) : IsValue(text, i, j)

(* A text that is over before a container's first entry, or right after a  *)
(* comma of it; the container is not in another.                           *)
IsCutShort(text) ==
  \E i \in Begins(text) :
    /\ At(text, i) \in {"beginArray", "beginObject"}
    /\ \/ BlankIn(text, i + 1, Len(text))
       \/ /\ At(text, Len(text)) = "comma"
          /\ IsList(text, i + 1, Len(text) - 1, At(text, i))

(* How deep in brackets the k-th token is.                                 *)
Depth(text, k) ==
  Cardinality({i \in 1..(k - 1) : At(text, i) \in {"beginArray", "beginObject"}})
    - Cardinality({i \in 1..(k - 1) : At(text, i) \in {"endArray", "endObject"}})

(* The value of a key of the object that an accepted text starts with: its *)
(* last one, by the token it starts with.                                  *)
Written(text, name) ==
  LET over == {k \in DOMAIN text : k > Min(Begins(text)) /\ Depth(text, k) <= 0}
      keys == {k \in DOMAIN text :
                 /\ \A o \in over : k < o
                 /\ Depth(text, k) = 1 /\ At(text, k) = "string" /\ text[k].name = name
                 /\ At(text, SkipWhitespace(text, k + 1)) = "colon"}
  IN  IF At(text, Min(Begins(text))) # "beginObject" \/ keys = {} THEN {}
      ELSE {text[SkipWhitespace(text, SkipWhitespace(text, Max(keys) + 1) + 1)]}
=============================================================================
