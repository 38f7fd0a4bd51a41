------------------------------ MODULE RouteMap ------------------------------
(***************************************************************************)
(* What the routing table promises its callers: a bounded partial map from *)
(* route keys to endpoint definitions.  Nothing is said of vectors,        *)
(* positions or indexes.                                                   *)
(***************************************************************************)
EXTENDS Endpoints

VARIABLE routes

Init == routes = [key \in {} |-> 0]

(* A valid definition replaces the one of its key, or takes a free place. *)
Put(def) ==
  LET key == GetRouteKey(def)
  IN  /\ IsValid(def)
      /\ key \in DOMAIN routes \/ Cardinality(DOMAIN routes) < MaxEndpoints
      /\ routes' = [k \in DOMAIN routes \cup {key} |-> IF k = key THEN def ELSE routes[k]]

Drop(keys) == routes' = [k \in DOMAIN routes \ keys |-> routes[k]]

DropKey(key) == Drop({key})

DropBackend(backend) == Drop({k \in DOMAIN routes : routes[k].backend = backend})

DropAll == Drop(DOMAIN routes)

Next ==
  \/ \E def \in Definitions : Put(def)
  \/ \E key \in RouteKeys : DropKey(key)
  \/ \E backend \in BackendIds : DropBackend(backend)
  \/ DropAll

Spec == Init /\ [][Next]_routes
=============================================================================
