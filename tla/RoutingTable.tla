---------------------------- MODULE RoutingTable ----------------------------
(***************************************************************************)
(* The class RoutingTable as a state machine: every public operation that  *)
(* changes it is an action, and each of them runs under the object's mutex *)
(* from beginning to end.                                                  *)
(***************************************************************************)
EXTENDS Endpoints

VARIABLE table

Init == table = EmptyTable

-----------------------------------------------------------------------------
(* Mutations of the operations, for the properties below to catch. *)

(* an off-by-one in the test of the capacity *)
RegisterBeyondCapacity(def) ==
  LET key == GetRouteKey(def)
      new == Len(table.endpoints) + 1
  IN  IF IsValid(def) /\ key \notin DOMAIN table.index /\ new <= MaxEndpoints + 1
      THEN table' = [endpoints |-> Append(table.endpoints, def),
                     index     |-> [k \in DOMAIN table.index \cup {key} |->
                                      IF k = key THEN new ELSE table.index[k]]]
      ELSE table' = RegisterEndpoint(table, def)

(* the element moved into the hole keeps its old position in the index *)
UnregisterWithoutReindex(key) ==
  table' = [endpoints |-> UnregisterEndpoint(table, key).endpoints,
            index     |-> [k \in DOMAIN table.index \ {key} |-> table.index[k]]]

(* the survivors are copied from the back of the vector *)
RemoveBackendFromTheBack(backend) ==
  LET t == RemoveEndpointsByBackend(table, backend)
      n == Len(t.endpoints)
  IN  table' = [endpoints |-> [i \in 1..n |-> t.endpoints[n + 1 - i]],
                index     |-> [k \in DOMAIN t.index |-> n + 1 - t.index[k]]]

-----------------------------------------------------------------------------
(* The operations. *)

Register(def) == table' = RegisterEndpoint(table, def)

Unregister(key) == table' = UnregisterEndpoint(table, key)

RemoveBackend(backend) == table' = RemoveEndpointsByBackend(table, backend)

Clear == table' = EmptyTable

Next ==
  \/ \E def \in Definitions : Register(def)
  \/ \E key \in RouteKeys : Unregister(key)
  \/ \E backend \in BackendIds : RemoveBackend(backend)
  \/ Clear

Spec == Init /\ [][Next]_table

-----------------------------------------------------------------------------
(* The vector and the index are what TableTyped says, and never hold more  *)
(* endpoints than msc_un32MaxEndpoints.                                    *)
TypeOK == TableTyped(table)

(* The index and the vector say the same after any sequence of             *)
(* registrations, swap-and-pop removals and rebuilds.                      *)
IndexConsistent == TableConsistent(table)

(* When a backend's endpoints are removed, every request that another      *)
(* backend's endpoint answered is still answered by that endpoint, pattern *)
(* matches included: RemoveEndpointsByBackend keeps the order on which     *)
(* FindEndpoint's scan depends.                                            *)
RemovalSparesOthers ==
  [][\A backend \in BackendIds : RemoveBackend(backend) =>
       \A method \in Methods, path \in Paths :
         LET before == FindEndpoint(table, method, path)
         IN  before.found /\ before.endpoint.backend # backend =>
               FindEndpoint(table', method, path) = before]_table

(* The map that a table stands for. *)
Routes == [key \in DOMAIN table.index |-> table.endpoints[table.index[key]]]

Map == INSTANCE RouteMap WITH routes <- Routes

(* Every operation on the vector and the index is one on the bounded map   *)
(* of RouteMap, or changes nothing there.                                  *)
ImplementsRouteMap == Map!Spec
=============================================================================
