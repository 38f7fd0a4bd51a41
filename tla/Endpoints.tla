----------------------------- MODULE Endpoints -----------------------------
(***************************************************************************)
(* Endpoint definitions and the routing table as values: what              *)
(* EndpointDefinition.cpp and RoutingTable.cpp compute.  A path is the     *)
(* sequence of the pieces of its text between slashes, so that two texts   *)
(* are equal exactly when the sequences are: "/users/{id}" is              *)
(* <<"", "users", "{id}">> and the empty text is <<"">>.                   *)
(*                                                                         *)
(* A table keeps the two members of the class RoutingTable: the vector     *)
(* m_stdsEndpoints and the map m_stdszun32RouteIndex from route keys to    *)
(* positions in the vector (positions count from 1 here, from 0 there).    *)
(***************************************************************************)
EXTENDS Naturals, Sequences, FiniteSets

CONSTANTS
  Paths,         (* path texts, as sequences of pieces                      *)
  Placeholders,  (* the pieces of the form {name}                           *)
  Methods,       (* values of HttpMethod, Unknown among them                *)
  BackendIds,    (* backend identifiers                                     *)
  MaxEndpoints   (* msc_un32MaxEndpoints: 4096 in the program               *)

Empty   == ""
NoPath  == << Empty >>
Unknown == "Unknown"

ASSUME EndpointsAssumption == MaxEndpoints \in Nat

(***************************************************************************)
(* The part of an EndpointDefinition that routing and its callers tell     *)
(* apart; auth is m_bRequiresAuthentication, for all that a definition     *)
(* carries besides its key and its backend.                                *)
(***************************************************************************)
Definitions ==
  [path : Paths, method : Methods, backend : BackendIds, auth : BOOLEAN]

IsValid(def) == def.path # NoPath /\ def.method # Unknown

GetRouteKey(def) == << def.method, def.path >>

RouteKeys == Methods \X Paths

(* std::getline on '/' and the test for empty pieces: "/a//b/" has the     *)
(* segments of "/a/b".                                                     *)
Segments(path) == SelectSeq(path, LAMBDA piece : piece # Empty)

MatchesPath(def, path) ==
  LET want == Segments(def.path)
      got  == Segments(path)
  IN  /\ Len(want) = Len(got)
      /\ \A i \in DOMAIN want : want[i] \in Placeholders \/ want[i] = got[i]

(* stdszszPathParameters: a placeholder's name is bound to the segment at   *)
(* its place, the last one when the name occurs twice.                     *)
PathParameters(def, path) ==
  LET want == Segments(def.path)
      got  == Segments(path)
      Last(name) == CHOOSE i \in DOMAIN want :
                      /\ want[i] = name
                      /\ \A j \in DOMAIN want : want[j] = name => j <= i
  IN  [name \in {want[i] : i \in DOMAIN want} \cap Placeholders |-> got[Last(name)]]

-----------------------------------------------------------------------------
(* What a table is: the vector holds valid definitions, no more than the   *)
(* maximum, and the index maps keys to positions of the vector.            *)
TableTyped(table) ==
  /\ table = [endpoints |-> table.endpoints, index |-> table.index]
  /\ table.endpoints \in Seq({def \in Definitions : IsValid(def)})
  /\ Len(table.endpoints) <= MaxEndpoints
  /\ table.index \in [DOMAIN table.index -> DOMAIN table.endpoints]

(* The index and the vector say the same: every endpoint is found under    *)
(* its key at its own position, and no key is left behind.                 *)
TableConsistent(table) ==
  /\ \A i \in DOMAIN table.endpoints :
       /\ GetRouteKey(table.endpoints[i]) \in DOMAIN table.index
       /\ table.index[GetRouteKey(table.endpoints[i])] = i
  /\ \A key \in DOMAIN table.index :
       GetRouteKey(table.endpoints[table.index[key]]) = key

-----------------------------------------------------------------------------
(* The operations of the table. *)

EmptyTable == [endpoints |-> << >>, index |-> [key \in {} |-> 0]]

RegisterEndpoint(table, def) ==
  LET key == GetRouteKey(def)
      new == Len(table.endpoints) + 1
  IN  CASE ~IsValid(def) -> table
        [] IsValid(def) /\ key \in DOMAIN table.index ->
             [table EXCEPT !.endpoints[table.index[key]] = def]
        [] IsValid(def) /\ key \notin DOMAIN table.index ->
             IF Len(table.endpoints) < MaxEndpoints
             THEN [endpoints |-> Append(table.endpoints, def),
                   index     |-> [k \in DOMAIN table.index \cup {key} |->
                                    IF k = key THEN new ELSE table.index[k]]]
             ELSE table

(* Swap with the last element and pop. *)
UnregisterEndpoint(table, key) ==
  LET hole  == table.index[key]
      last  == Len(table.endpoints)
      moved == GetRouteKey(table.endpoints[last])
  IN  IF key \notin DOMAIN table.index
      THEN table
      ELSE [endpoints |-> [i \in 1..(last - 1) |->
                             table.endpoints[IF i = hole THEN last ELSE i]],
            index     |-> [k \in DOMAIN table.index \ {key} |->
                             IF k = moved THEN hole ELSE table.index[k]]]

(* The positions that survive the removal of a backend, and the position a *)
(* survivor gets in the rebuilt vector: its rank among the survivors.      *)
Kept(table, backend) ==
  {i \in DOMAIN table.endpoints : table.endpoints[i].backend # backend}

Rank(kept, i) == Cardinality({j \in kept : j <= i})

RemoveEndpointsByBackend(table, backend) ==
  LET kept == Kept(table, backend)
      Nth(n) == CHOOSE i \in kept : Rank(kept, i) = n
      keys == {GetRouteKey(table.endpoints[i]) : i \in kept}
      At(key) == CHOOSE i \in kept : /\ GetRouteKey(table.endpoints[i]) = key
                                     /\ \A j \in kept : GetRouteKey(table.endpoints[j]) = key => j <= i
  IN  [endpoints |-> [n \in 1..Cardinality(kept) |-> table.endpoints[Nth(n)]],
       index     |-> [key \in keys |-> Rank(kept, At(key))]]

(* FindEndpoint: the exact key first, then the first endpoint in the       *)
(* vector's order with the method and a matching path.  An exact match     *)
(* binds no path parameters.                                               *)
Candidates(table, method, path) ==
  {i \in DOMAIN table.endpoints : /\ table.endpoints[i].method = method
                                  /\ MatchesPath(table.endpoints[i], path)}

FindEndpoint(table, method, path) ==
  LET key   == << method, path >>
      some  == Candidates(table, method, path)
      first == CHOOSE i \in some : \A j \in some : i <= j
  IN  IF key \in DOMAIN table.index
      THEN [found |-> TRUE, endpoint |-> table.endpoints[table.index[key]],
            parameters |-> << >>]
      ELSE IF some # {}
      THEN [found |-> TRUE, endpoint |-> table.endpoints[first],
            parameters |-> PathParameters(table.endpoints[first], path)]
      ELSE [found |-> FALSE]

HasEndpoint(table, method, path) ==
  << method, path >> \in DOMAIN table.index \/ Candidates(table, method, path) # {}
=============================================================================
