-------------------------- MODULE RequestFormatter --------------------------
(***************************************************************************)
(* What is forwarded of the body of a valid request: it is written out     *)
(* again from the value that was read (RequestFormatter::BuildJsonPayload, *)
(* JsonValue::Serialize).                                                  *)
(***************************************************************************)
EXTENDS RequestValidation, SequencesExt

(* operator<< writes six significant digits of a double; SerializeString   *)
(* writes control bytes as escapes.                                        *)
Rewritten(token) ==
  CASE token.json = "float" /\ token.text.length > 7 -> [token EXCEPT !.text.length = 7]
    [] token.json = "string" /\ token.text.kind = "control" -> [token EXCEPT !.text.kind = "word"]
    [] OTHER -> token

Separated(texts) ==
  FlattenSeq([i \in DOMAIN texts |-> IF i > 1 THEN << Mark("comma") >> \o texts[i] ELSE texts[i]])

RECURSIVE Serialize(_)

Serialize(value) ==
  CASE value.json = "array" ->
         << Mark("beginArray") >> \o Separated([i \in DOMAIN value.items |-> Serialize(value.items[i])])
           \o << Mark("endArray") >>
    [] value.json = "object" ->
         << Mark("beginObject") >>
           \o Separated([i \in DOMAIN value.items |->
                           << Rewritten(value.items[i].key), Mark("colon") >> \o Serialize(value.items[i].value)])
           \o << Mark("endObject") >>
    [] OTHER -> << Rewritten(value.token) >>

(* the body is included as it came, without a look at it *)
BodyAsIs(text) == text

HasControl(text) == \E i \in DOMAIN text : text[i].text.kind = "control"

(* EscapeJsonString: a string that spells the text; white space, quotes    *)
(* and backslashes are escaped in it, other control bytes stay.            *)
EscapeJsonString(text) ==
  [json |-> "string", text |-> [NoText EXCEPT !.kind = IF HasControl(text) THEN "control" ELSE "word"],
   name |-> "raw"]

(* BuildJsonPayload's last part: a body that parses is written out from    *)
(* the value, another becomes a string.                                    *)
BodyPayload(text) ==
  CASE text = << >> -> << >>
    [] text # << >> /\ Parse(text).status = "ok" -> Serialize(Parse(text).value)
    [] OTHER -> << EscapeJsonString(text) >>

-----------------------------------------------------------------------------
(* What the backend gets for a body that parses is JSON, complete, without *)
(* a key twice and without raw control bytes; it is what was validated but *)
(* for the digits that a float loses on the way.  A body that does not     *)
(* parse is one string, which is JSON unless that body has control bytes.  *)
ForwardsWhatItJudged ==
  \A r \in request : outcome = "forwarded" /\ r.body # << >> =>
    LET payload   == BodyPayload(r.body)
        rewritten == [i \in DOMAIN r.body |-> Rewritten(r.body[i])]
    IN  /\ IsValue(payload, 1, Len(payload))
        /\ HasControl(payload) => ~Accepted(r.body) /\ HasControl(r.body)
        /\ ~HasControl(payload) => Serialize(Parse(payload).value) = payload
        /\ Accepted(r.body) => Parse(payload).value = Parse(rewritten).value
        /\ ~Accepted(r.body) => payload[1].json = "string"
=============================================================================
