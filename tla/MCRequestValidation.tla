------------------------ MODULE MCRequestValidation ------------------------
(***************************************************************************)
(* RequestValidation with two parameters, of one name, on texts around the *)
(* bounds that the declarations set; and bodies of every shape for an      *)
(* endpoint without parameters.                                            *)
(***************************************************************************)
EXTENDS RequestFormatter

Number(n) == [kind |-> "integer", number |-> n, length |-> 1]
Half(n)   == [kind |-> "fraction", number |-> n, length |-> 3]
Huge      == [kind |-> "huge", number |-> 9, length |-> 20]
Yes       == [kind |-> "boolean", number |-> 0, length |-> 3]
Letters(n) == [kind |-> "word", number |-> 0, length |-> n]

MCValues == {Number(0), Number(1), Number(3), Half(1), Huge, Yes, Letters(0), Letters(2)}

As(json, text) == [json |-> json, text |-> text, name |-> ""]
Str(name, text) == [json |-> "string", text |-> text, name |-> name]

Key(name) == Str(name, Letters(1))

Scalar0 == As("integer", Number(1))
Fine    == As("float", [kind |-> "fraction", number |-> 1, length |-> 9])
TooBig  == As(Unreadable, Huge)
BadEscape == As(Misspelt, Letters(4))
Raw     == [kind |-> "control", number |-> 0, length |-> 2]
Stray   == As("stray", Raw)

MCJsonValues ==
  {Str("", Letters(0)), Str("ok", Letters(2)), Str("1", Number(1)), Scalar0,
   As("integer", Number(3)), As("float", Half(1)), As("boolean", Yes), As("null", Letters(0)),
   Str("raw", Raw)}

Member(name, tokens) == << Key(name), Mark("colon") >> \o tokens
Braces(tokens) == << Mark("beginObject") >> \o tokens \o << Mark("endObject") >>
Brackets(tokens) == << Mark("beginArray") >> \o tokens \o << Mark("endArray") >>
Comma == << Mark("comma") >>

MCBodies ==
  {<< >>, << Mark("endArray") >>, << Mark("beginArray") >>, Braces(Member("a", << TooBig >>)),
   Braces(Member("b", << BadEscape >>)), Braces(Member("a", << Scalar0 >>) \o << Stray >>),
   Braces(Member("a", << Scalar0 >>)) \o << Stray >>,
   Braces(Member("b", << Scalar0 >>)), Braces(Member("a", Brackets(<< >>))),
   Braces(Member("a", Braces(<< >>))),
   Braces(Member("a", << Scalar0 >>) \o Comma \o Member("a", << As("integer", Number(3)) >>)),
   << Mark("beginObject") >> \o Member("a", << As("boolean", Yes) >>) \o Comma}
    \cup {Braces(Member("a", << value >>)) : value \in MCJsonValues}

(* All short texts, and all that differ in one token from some longer.     *)
Alphabet ==
  {Mark("beginObject"), Mark("endObject"), Mark("beginArray"), Mark("endArray"),
   Mark("comma"), Mark("colon"), Mark("blank"),
   Key("a"), Key("b"), Str("b", Raw), Scalar0, Fine, TooBig, BadEscape, Stray}

Models ==
  {Braces(Member("a", << Scalar0 >>) \o Comma \o Member("b", << Fine >>)),
   Braces(Member("a", << Fine >>) \o Comma \o Member("a", Brackets(<< >>))),
   Brackets(Braces(Member("a", << Key("b") >>)) \o Comma \o << Mark("blank"), Scalar0 >>),
   << Mark("blank") >> \o Brackets(Brackets(<< Scalar0 >>) \o Comma \o Brackets(<< Fine >>)),
   Braces(Member("a", Braces(Member("b", << Scalar0 >>)))) \o << Mark("blank"), Key("b") >>}

Edits(text) ==
  {SubSeq(text, 1, i) : i \in DOMAIN text}
    \cup {[text EXCEPT ![i] = token] : i \in DOMAIN text, token \in Alphabet}
    \cup {SubSeq(text, 1, i - 1) \o SubSeq(text, i + 1, Len(text)) : i \in DOMAIN text}

MCPlainBodies == BoundedSeq(Alphabet, 4) \cup UNION {Edits(text) : text \in Models}

Plain(type, location) ==
  [name |-> "a", type |-> type, location |-> location, required |-> FALSE,
   min |-> {}, max |-> {}, minLength |-> {}, maxLength |-> {}, pattern |-> {}, allowed |-> {}]

Bounded(type, location) ==
  [Plain(type, location) EXCEPT !.required = TRUE, !.min = {Number(1)}, !.max = {Number(1)}]

MCDeclarations ==
  {Bounded(type, location) : type \in {"integer", "float", "boolean"}, location \in {"query", "body"}}
    \cup {[Plain("string", location) EXCEPT !.minLength = {1}, !.maxLength = {Word + 2}] :
            location \in {"path", "body"}}
    \cup {[Plain("string", "header") EXCEPT !.required = TRUE, !.pattern = {{Letters(2), Yes}},
                                            !.allowed = {Letters(2), Number(1)}],
          [Plain("integer", "header") EXCEPT !.max = {Half(1)}],
          Plain("array", "body"), Plain("object", "query"),
          Plain("number", "body"), Plain("integer", "cookie")}
=============================================================================
