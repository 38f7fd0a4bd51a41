------------------------- MODULE RequestValidation -------------------------
(***************************************************************************)
(* Parameter schemas and what they make of a request: a backend declares   *)
(* the parameters of an endpoint one after the other                       *)
(* (ParseParameterSchemaFromJson), then a request is validated against     *)
(* them (ValidationEngine::ValidateRequest).  What is forwarded of a valid *)
(* one is in RequestFormatter.                                             *)
(*                                                                         *)
(* Of a text only what validation tells apart is kept: its length and what *)
(* strtoll and strtod make of it.  An optional value is a set with at most *)
(* one element.                                                            *)
(***************************************************************************)
EXTENDS JsonText

CONSTANTS
  Names,          (* parameter names                                        *)
  Declarations,   (* what backends declare: see Declaration                 *)
  Values,         (* texts in a path, a query, a header or a JSON string    *)
  Bodies,         (* bodies, as JSON texts, sent to endpoints with          *)
  PlainBodies,    (* parameters, and to endpoints without                   *)
  Word,           (* 2^32: lengths are 32 bits wide                         *)
  MaxParameters   (* bound: parameters declared for the endpoint            *)

Kinds     == {"integer", "fraction", "huge", "boolean", "word", "control"}
Types     == {"string", "integer", "float", "boolean", "object", "array"}
Locations == {"path", "query", "header", "body"}

(* A decimal number is number, or number + 1/2 when it is a fraction;      *)
(* "huge" is an integer that 64 bits do not hold; "control" is a word with *)
(* control bytes in it as they are, other than white space.                *)
Text == [kind : Kinds, number : Nat, length : Nat]

(* min_value and max_value are JSON numbers, allowed and pattern sets of   *)
(* texts: those listed, and those that the regular expression matches.  A  *)
(* registration with a bound that throws is not read (BackendRegistry).    *)
Bound == {text \in Text : text.kind # "huge"}

Declaration ==
  [name : Names, type : STRING, location : STRING, required : BOOLEAN,
   min : SUBSET Bound, max : SUBSET Bound, minLength : SUBSET Nat, maxLength : SUBSET Nat,
   pattern : SUBSET SUBSET Text, allowed : SUBSET Text]

Token == [json : STRING, text : Text, name : STRING]

(* A numeral is not an empty text.                                         *)
ASSUME ValidationAssumption ==
  /\ Declarations \subseteq Declaration
  /\ Values \subseteq Text
  /\ Bodies \cup PlainBodies \subseteq Seq(Token)
  /\ \A text \in Bodies \cup PlainBodies : \A i \in DOMAIN text :
       text[i].json \in {"integer", "float"} => text[i].text.length > 0
  /\ Word \in Nat \ {0}
  /\ MaxParameters \in Nat

VARIABLES
  declared,  (* history: the declarations of the endpoint                   *)
  schemas,   (* m_stdsParameterSchemas                                      *)
  request,   (* at most one request: the parts of it that validation reads  *)
  errors,    (* what ValidateRequest complained of                          *)
  outcome    (* "none", "refused", "forwarded", or "dead": the coroutine of *)
             (* the connection ended by an exception, without an answer     *)

vars == << declared, schemas, request, errors, outcome >>

-----------------------------------------------------------------------------
(* ParseParameterSchemaFromJson. *)

(* GetInteger: the integer member, which is 0 in a value of another type.  *)
GetInteger(text) == IF text.kind = "integer" THEN text.number ELSE 0

(* the length keeps all its bits *)
CastWide(n) == n

CastUint32(n) == n % Word

(* A type or location that is missing or unknown leaves the member of the  *)
(* fresh ParameterSchema uninitialized: any value.                         *)
Initialized(value, known) == IF value \in known THEN {value} ELSE known \cup {"other"}

Parsed(d, type, location) ==
  [name |-> d.name, type |-> type, location |-> location, required |-> d.required,
   min       |-> {GetInteger(bound) : bound \in d.min},
   max       |-> {GetInteger(bound) : bound \in d.max},
   floatMin  |-> {},
   floatMax  |-> {},
   minLength |-> {CastUint32(n) : n \in d.minLength},
   maxLength |-> {CastUint32(n) : n \in d.maxLength},
   pattern   |-> d.pattern,
   allowed   |-> d.allowed]

-----------------------------------------------------------------------------
(* ParameterSchema::ValidateValue. *)

Twice(text) == 2 * text.number + (IF text.kind = "fraction" THEN 1 ELSE 0)

ValidateStringConstraints(s, text) ==
  /\ \A n \in s.minLength : text.length >= n
  /\ \A n \in s.maxLength : text.length <= n
  /\ \A matched \in s.pattern : text \in matched
  /\ s.allowed # {} => text \in s.allowed

ValidateIntegerConstraints(s, text) ==
  /\ text.kind = "integer"
  /\ \A n \in s.min : text.number >= n
  /\ \A n \in s.max : text.number <= n

ValidateFloatConstraints(s, text) ==
  /\ text.kind \in {"integer", "fraction", "huge"}
  /\ \A bound \in s.floatMin : Twice(text) >= Twice(bound)
  /\ \A bound \in s.floatMax : Twice(text) <= Twice(bound)

ValidateBooleanValue(text) ==
  text.kind = "boolean" \/ (text.kind = "integer" /\ text.length = 1 /\ text.number \in {0, 1})

ValidateValue(s, text) ==
  CASE s.type = "string"  -> ValidateStringConstraints(s, text)
    [] s.type = "integer" -> ValidateIntegerConstraints(s, text)
    [] s.type = "float"   -> ValidateFloatConstraints(s, text)
    [] s.type = "boolean" -> ValidateBooleanValue(text)
    [] s.type \in {"object", "array", "other"} -> TRUE

-----------------------------------------------------------------------------
(* ValidationEngine.  Errors are reported by the place of the parameter in *)
(* the endpoint's list, and as 0 for a body that is not JSON.              *)

ParametersIn(location) == {i \in DOMAIN schemas : schemas[i].location = location}

(* Path, query and header parameters.                                      *)
ValidateTexts(r, location) ==
  {i \in ParametersIn(location) :
     IF schemas[i].name \in DOMAIN r[location]
     THEN ~ValidateValue(schemas[i], r[location][schemas[i].name])
     ELSE schemas[i].required}

(* The type check of a field, and the text that its constraints are        *)
(* checked on: none for booleans, arrays, objects and empty strings.       *)
IsOfType(type, value) ==
  CASE type = "float" -> value.json \in {"float", "integer"}
    [] type = "other" -> TRUE
    [] type \in Types \ {"float"} -> value.json = type

FieldErrs(s, value) ==
  \/ ~IsOfType(s.type, value)
  \/ /\ s.type \in {"string", "integer", "float"}
     /\ value.token.text.length > 0
     /\ ~ValidateValue(s, value.token.text)

ValidateJsonBodyField(body, i) ==
  IF body.json = "object" /\ GetMember(body, schemas[i].name) # {}
  THEN \E value \in GetMember(body, schemas[i].name) : FieldErrs(schemas[i], value)
  ELSE schemas[i].required

ValidateBodyParameters(text) ==
  LET parsed == Parse(text)
  IN  CASE ParametersIn("body") = {} -> {}
        [] ParametersIn("body") # {} /\ text = << >> -> {i \in ParametersIn("body") : schemas[i].required}
        [] ParametersIn("body") # {} /\ text # << >> /\ parsed.status # "ok" -> {0}
        [] ParametersIn("body") # {} /\ text # << >> /\ parsed.status = "ok" ->
             {i \in ParametersIn("body") : ValidateJsonBodyField(parsed.value, i)}

ValidateRequest(r) ==
  (UNION {ValidateTexts(r, location) : location \in Locations \ {"body"}})
    \cup ValidateBodyParameters(r.body)

(* What the parser throws at ends the coroutine, in the validation of a    *)
(* body that has parameters, or else in the formatting of a valid request. *)
Throws(r) ==
  /\ r.body # << >> /\ Parse(r.body).status = "throws"
  /\ ParametersIn("body") # {} \/ ValidateRequest(r) = {}

-----------------------------------------------------------------------------
Init ==
  /\ declared = << >>
  /\ schemas = << >>
  /\ request = {}
  /\ errors = {}
  /\ outcome = "none"

(* The rest of the registration: ParseEndpointDefinitionFromJson adds the  *)
(* schemas that are valid, which is those with a name.                     *)
Declare(d) ==
  /\ request = {}
  /\ d.name # ""
  /\ Len(schemas) < MaxParameters
  /\ declared' = Append(declared, d)
  /\ \E type \in Initialized(d.type, Types), location \in Initialized(d.location, Locations) :
       schemas' = Append(schemas, Parsed(d, type, location))
  /\ UNCHANGED << request, errors, outcome >>

(* What a request may bring for the parameters at a location.              *)
Brought(location) ==
  LET names == {schemas[i].name : i \in ParametersIn(location)}
  IN  UNION {[given -> Values] : given \in SUBSET names}

(* A request brings values where the endpoint has parameters, and a body.  *)
(* It is refused with all its errors, or forwarded.                        *)
Validate(path, query, header, body) ==
  LET r == [path |-> path, query |-> query, header |-> header, body |-> body]
  IN  /\ request' = {r}
      /\ errors' = IF Throws(r) THEN {} ELSE ValidateRequest(r)
      /\ outcome' = CASE Throws(r) -> "dead"
                      [] ~Throws(r) /\ errors' # {} -> "refused"
                      [] ~Throws(r) /\ errors' = {} -> "forwarded"
      /\ UNCHANGED << declared, schemas >>

Next ==
  \/ \E d \in Declarations : Declare(d)
  \/ /\ request = {}
     /\ \E path \in Brought("path"), query \in Brought("query"), header \in Brought("header"),
          body \in IF schemas = << >> THEN PlainBodies ELSE Bodies :
          Validate(path, query, header, body)

Spec == Init /\ [][Next]_vars

-----------------------------------------------------------------------------
(* Besides the types: a schema is kept for each declaration, and whatever  *)
(* number a backend declares as a length, what is kept has 32 bits.        *)
TypeOK ==
  /\ DOMAIN declared = DOMAIN schemas
  /\ errors \subseteq DOMAIN schemas \cup {0}
  /\ \A i \in DOMAIN schemas :
       schemas[i].minLength \cup schemas[i].maxLength \subseteq 0..(Word - 1)

Accepted(text) == StartsWithValue(text) \/ IsCutShort(text)

(* What a request gives for a parameter, wherever that is; a key of the    *)
(* body that is there twice has its last value.                            *)
Given(d, r) ==
  CASE d.location \in {"path", "query", "header"} ->
         {[json |-> "text", text |-> r[d.location][name]] : name \in {d.name} \cap DOMAIN r[d.location]}
    [] d.location = "body" -> IF Accepted(r.body) THEN Written(r.body, d.name) ELSE {}
    [] d.location \notin Locations -> {}

(* The meaning of a declaration: a required parameter is there, and what   *)
(* is there has the type and obeys the constraints that go with the type.  *)
(* Texts outside of the body have no JSON type, and may be anything where  *)
(* an object or an array is asked for.                                     *)
Obeys(d, value) ==
  LET text   == value.text
      isText == value.json = "text"
  IN  CASE d.type = "string" ->
             /\ isText \/ value.json = "string"
             /\ \A n \in d.minLength : n <= text.length
             /\ \A n \in d.maxLength : text.length <= n
             /\ \A regex \in d.pattern : text \in regex
             /\ text \in d.allowed \/ d.allowed = {}
        [] d.type = "integer" ->
             /\ isText \/ value.json = "integer"
             /\ text.kind = "integer"
             /\ \A bound \in d.max : text.number <= bound.number
             /\ \A bound \in d.min : bound.number <= text.number
        [] d.type = "float" ->
             /\ isText \/ value.json \in {"float", "integer"}
             /\ text.kind \in {"integer", "fraction", "huge"}
             /\ \A bound \in d.max : Twice(text) <= Twice(bound)
             /\ \A bound \in d.min : Twice(bound) <= Twice(text)
        [] d.type = "boolean" ->
             \/ isText /\ (text.kind = "boolean" \/ (text.kind = "integer" /\ text.number <= 1 /\ text.length = 1))
             \/ value.json = "boolean"
        [] d.type = "object" -> isText \/ value.json = "beginObject"
        [] d.type = "array" -> isText \/ value.json = "beginArray"

Meets(d, r) ==
  /\ d.required => Given(d, r) # {}
  /\ \A value \in Given(d, r) : Obeys(d, value)

(* The declarations that are read as they are written.  The bounds of a    *)
(* float are lost; an integer's bound that is no integer is read as 0;     *)
(* lengths are cut to 32 bits; an unknown type or location is left open.   *)
ReadWhole(d) ==
  /\ d.type \in Types /\ d.location \in Locations
  /\ d.type = "float" => d.min \cup d.max = {}
  /\ d.type = "integer" => \A bound \in d.min \cup d.max : bound.kind = "integer"
  /\ d.type = "string" => d.minLength \cup d.maxLength \subseteq 0..(Word - 1)

(* A text that is a JSON object, and nothing else.                         *)
IsJsonObject(text) ==
  \E i \in Begins(text), j \in DOMAIN text :
    /\ At(text, i) = "beginObject" /\ IsValue(text, i, j)
    /\ BlankIn(text, j + 1, Len(text))

(* The bodies that are looked at as documented: none, a JSON object, or    *)
(* one that the parser rejects.  It is not one with something after the    *)
(* value, one cut short, or a value of another kind; and of an empty       *)
(* string the constraints are not checked.                                 *)
LookedAt(d, r) ==
  d.location = "body" =>
    /\ r.body = << >> \/ IsJsonObject(r.body) \/ ~Accepted(r.body)
    /\ d.type = "string" => \A value \in Given(d, r) : value.json = "string" => value.text.length > 0

(* A declaration that is read whole is enforced: the request has an error  *)
(* for its parameter exactly when it does not meet the declaration, and    *)
(* all errors are reported at once.  A body that the parser rejects is one *)
(* error in place of those of the parameters of the body.                  *)
ErrorsExact ==
  \A r \in request : outcome # "dead" =>
    LET garbled == r.body # << >> /\ ~Accepted(r.body)
    IN  /\ \A i \in DOMAIN declared : ReadWhole(declared[i]) /\ LookedAt(declared[i], r) =>
             IF garbled /\ declared[i].location = "body" THEN i \notin errors /\ 0 \in errors
             ELSE i \in errors <=> ~Meets(declared[i], r)
        /\ 0 \in errors => garbled

(* The parser accepts the texts that start with a JSON value, and besides  *)
(* these only those cut short at a place where an entry could follow.  It  *)
(* rejects none of them, and throws only where it meets a number that 64   *)
(* bits do not hold or a string with a misspelt escape: the connection's   *)
(* coroutine dies of nothing else in a request.                            *)
ParsesExactly ==
  \A r \in request :
    LET status == Parse(r.body).status
        thrown == {i \in DOMAIN r.body : At(r.body, i) \in Throwing}
    IN  /\ status = "ok" => Accepted(r.body)
        /\ status = "throws" => thrown # {}
        /\ status = "rejected" => ~Accepted(r.body)
        /\ outcome = "dead" => status = "throws"
=============================================================================
