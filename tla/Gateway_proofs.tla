--------------------------- MODULE Gateway_proofs ---------------------------
(***************************************************************************)
(* The theorems about BackendRegistry, and those about Gateway: what the   *)
(* invariant of the registry makes of the answers of RouteRequest.  All    *)
(* are for any number of descriptors, backends, endpoints and tokens.      *)
(*                                                                         *)
(* Gateway extends BackendRegistry: Spec is the specification of the       *)
(* registry alone, GatewaySpec that of the two together.                   *)
(***************************************************************************)
EXTENDS Gateway, Endpoints_proofs


(* A backend's descriptor in the maps belongs to an open connection that   *)
(* registered it and nothing else, as long as all backends conform, be it  *)
(* handled or dead; the endpoints in the table, and those still to be      *)
(* entered, are of backends that are in the maps.                          *)
Known ==
  \A id \in DOMAIN descriptors :
    /\ descriptors[id] \in DOMAIN connections
    /\ connections[descriptors[id]] = id
    /\ Open(descriptors[id])
    /\ announced[descriptors[id]] = {id}

Faithful ==
  \A fd \in Fds : peer[fd] = "backend" /\ announced[fd] # {} =>
    /\ fd \in DOMAIN connections
    /\ announced[fd] = {connections[fd]}

Backed ==
  /\ \A i \in DOMAIN table.endpoints : table.endpoints[i].backend \in DOMAIN descriptors
  /\ \A i \in DOMAIN todo : todo[i].backend \in DOMAIN descriptors

Fresh == \A fd \in Fds : peer[fd] \in {"free", "client"} => announced[fd] = {}

IInv ==
  /\ TypeOK
  /\ TableConsistent(table)
  /\ ConnectionsOpen
  /\ Fresh
  /\ Conforming => Known /\ Faithful /\ Backed

-----------------------------------------------------------------------------
(* No endpoint of a backend is left when its endpoints are removed, and    *)
(* those of the others are endpoints the table had.                        *)
LEMMA RemainingEndpoints ==
  ASSUME WellFormed(table), NEW id
  PROVE  /\ WellFormed(Remaining(id))
         /\ \A i \in DOMAIN Remaining(id).endpoints :
              \E j \in DOMAIN table.endpoints :
                /\ Remaining(id).endpoints[i] = table.endpoints[j]
                /\ table.endpoints[j].backend # id
<1> DEFINE after == RemoveEndpointsByBackend(table, id)
           kept == Kept(table, id)
<1>1. WellFormed(after)
  BY RemoveWellFormed
<1>2. after.endpoints \in [1..Cardinality(kept) -> {table.endpoints[i] : i \in kept}]
  BY RemoveKeepsOthers
<1>3. \A j \in kept : j \in DOMAIN table.endpoints /\ table.endpoints[j].backend # id
  BY DEF Kept
<1> HIDE DEF after, kept
<1>4. ASSUME NEW i \in DOMAIN after.endpoints
      PROVE  \E j \in kept : after.endpoints[i] = table.endpoints[j]
  BY <1>2
<1> QED BY <1>1, <1>3, <1>4 DEF Remaining, after

(* What a table holds after a registration it held before, or is the       *)
(* endpoint registered.                                                    *)
LEMMA RegisterEndpoints ==
  ASSUME NEW t, WellFormed(t), NEW def \in Definitions
  PROVE  \A i \in DOMAIN RegisterEndpoint(t, def).endpoints :
           \/ RegisterEndpoint(t, def).endpoints[i] = def
           \/ i \in DOMAIN t.endpoints /\ RegisterEndpoint(t, def).endpoints[i] = t.endpoints[i]
<1> DEFINE route == GetRouteKey(def)
           after == RegisterEndpoint(t, def)
           n == Len(t.endpoints)
<1>1. /\ t.endpoints \in Seq(ValidDefinitions)
      /\ n \in Nat
      /\ DOMAIN t.endpoints = 1..n
  BY DEF WellFormed, TableTyped, ValidDefinitions
<1>2. CASE after = t
  BY <1>2
<1>3. CASE IsValid(def) /\ route \in DOMAIN t.index
  <2>1. after = [t EXCEPT !.endpoints[t.index[route]] = def]
    BY <1>3 DEF RegisterEndpoint
  <2>2. after.endpoints = [t.endpoints EXCEPT ![t.index[route]] = def]
    BY <2>1 DEF WellFormed, TableTyped
  <2> QED BY <2>2
<1>4. CASE IsValid(def) /\ after.endpoints = Append(t.endpoints, def)
  <2>1. def \in ValidDefinitions
    BY <1>4 DEF ValidDefinitions
  <2> QED BY <1>1, <1>4, <2>1
<1>5. \/ after = t
      \/ IsValid(def) /\ route \in DOMAIN t.index
      \/ IsValid(def) /\ after.endpoints = Append(t.endpoints, def)
  BY DEF RegisterEndpoint
<1> QED BY <1>2, <1>3, <1>4, <1>5

-----------------------------------------------------------------------------
(* Every step preserves IInv. *)

LEMMA InitIInv == Init => IInv
<1> SUFFICES ASSUME Init PROVE IInv
  OBVIOUS
<1>1. WellFormed(table)
  BY EmptyWellFormed DEF Init
<1>2. connections = NoFunction /\ descriptors = NoFunction /\ DOMAIN NoFunction = {}
  BY DEF Init, NoFunction
<1>3. todo = << >> /\ DOMAIN table.endpoints = {}
  BY DEF Init, EmptyTable
<1>4. TypeOK
  BY <1>1, <1>2, <1>3 DEF Init, TypeOK, WellFormed, Peers, NoFunction
<1>5. Backed
  BY <1>3 DEF Backed
<1> QED BY <1>1, <1>2, <1>4, <1>5
        DEF Init, IInv, WellFormed, ConnectionsOpen, Fresh, Known, Faithful, Open

LEMMA AcceptStep ==
  ASSUME IInv, NEW fd \in Fds, NEW kind \in {"backend", "client"}, Accept(fd, kind)
  PROVE  IInv'
<1>1. /\ peer[fd] = "free"
      /\ peer' = [peer EXCEPT ![fd] = kind]
      /\ UNCHANGED << table, connections, descriptors, announced, todo >>
  BY DEF Accept, LowestFree
<1>2. announced[fd] = {}
  BY <1>1 DEF IInv, Fresh
<1>3. TypeOK'
  BY <1>1 DEF IInv, TypeOK, Peers
<1>4. ConnectionsOpen' /\ Fresh'
  BY <1>1, <1>2 DEF IInv, TypeOK, ConnectionsOpen, Fresh
<1>5. Conforming => Known' /\ Faithful' /\ Backed'
  BY <1>1, <1>2 DEF IInv, TypeOK, Known, Faithful, Backed, Open
<1> QED BY <1>1, <1>3, <1>4, <1>5 DEF IInv

LEMMA CloseClientStep ==
  ASSUME IInv, NEW fd \in Fds, CloseClient(fd)
  PROVE  IInv'
<1>1. /\ peer[fd] = "client"
      /\ peer' = [peer EXCEPT ![fd] = "free"]
      /\ UNCHANGED << table, connections, descriptors, announced, todo >>
  BY DEF CloseClient
<1>2. TypeOK'
  BY <1>1 DEF IInv, TypeOK, Peers
<1>3. ConnectionsOpen' /\ Fresh'
  BY <1>1 DEF IInv, TypeOK, ConnectionsOpen, Fresh
<1>4. Conforming => Known' /\ Faithful' /\ Backed'
  BY <1>1 DEF IInv, TypeOK, Known, Faithful, Backed, Open
<1> QED BY <1>1, <1>2, <1>3, <1>4 DEF IInv

LEMMA RegistrationStep ==
  ASSUME IInv, NEW fd \in Fds, NEW id \in BackendIds, NEW eps \in Announcements,
         Registration(fd, id, eps)
  PROVE  IInv'
<1>1. /\ todo = << >>
      /\ peer[fd] = "backend"
      /\ Conforming => announced[fd] \subseteq {id}
      /\ connections' = With(connections, fd, id)
      /\ descriptors' = With(descriptors, id, fd)
      /\ announced' = [announced EXCEPT ![fd] = announced[fd] \cup {id}]
      /\ todo' = [i \in DOMAIN eps |-> [path |-> eps[i].path, method |-> eps[i].method,
                                       backend |-> id, auth |-> eps[i].auth]]
      /\ UNCHANGED << table, peer >>
  BY DEF Registration, Idle
<1>2. /\ DOMAIN connections' = DOMAIN connections \cup {fd}
      /\ connections' \in [DOMAIN connections' -> BackendIds]
      /\ connections'[fd] = id
      /\ \A other \in DOMAIN connections : other # fd => connections'[other] = connections[other]
  BY <1>1 DEF IInv, TypeOK, With
<1>3. /\ DOMAIN descriptors' = DOMAIN descriptors \cup {id}
      /\ descriptors' \in [DOMAIN descriptors' -> Fds]
      /\ descriptors'[id] = fd
      /\ \A other \in DOMAIN descriptors : other # id => descriptors'[other] = descriptors[other]
  BY <1>1 DEF IInv, TypeOK, With
<1>4. todo' \in Seq(Definitions) /\ \A i \in DOMAIN todo' : todo'[i].backend = id
  <2> DEFINE Announced == [path : Paths, method : Methods, auth : BOOLEAN]
  <2>1. /\ eps \in Seq(Announced)
        /\ \A a \in Announced : a.path \in Paths /\ a.method \in Methods /\ a.auth \in BOOLEAN
    BY RegistryAssumption
  <2> HIDE DEF Announced
  <2>2. /\ Len(eps) \in Nat
        /\ DOMAIN eps = 1..Len(eps)
        /\ \A i \in 1..Len(eps) : eps[i] \in Announced
    BY <2>1
  <2>3. todo' \in [1..Len(eps) -> Definitions]
    BY <1>1, <2>1, <2>2 DEF Definitions
  <2>4. todo' \in Seq(Definitions)
    BY <2>2, <2>3
  <2> QED BY <1>1, <2>4
<1>5. announced' \in [Fds -> SUBSET BackendIds] /\ announced'[fd] = announced[fd] \cup {id}
      /\ \A other \in Fds : other # fd => announced'[other] = announced[other]
  BY <1>1 DEF IInv, TypeOK
<1>6. TypeOK'
  BY <1>1, <1>2, <1>3, <1>4, <1>5 DEF IInv, TypeOK
<1>7. ConnectionsOpen' /\ Fresh'
  BY <1>1, <1>2, <1>5 DEF IInv, ConnectionsOpen, Fresh
<1>8. ASSUME Conforming PROVE Known' /\ Faithful' /\ Backed'
  <2>1. announced'[fd] = {id}
    BY <1>1, <1>5, <1>8
  <2>2. \A other \in DOMAIN descriptors : other # id => descriptors[other] # fd
    BY <1>1, <1>8 DEF IInv, Known
  <2>3. Known'
    <3> SUFFICES ASSUME NEW x \in DOMAIN descriptors'
                 PROVE  /\ descriptors'[x] \in DOMAIN connections'
                        /\ connections'[descriptors'[x]] = x
                        /\ Open(descriptors'[x])
                        /\ announced'[descriptors'[x]] = {x}
      BY <1>1 DEF Known, Open
    <3>1. CASE x = id
      BY <1>1, <1>2, <1>3, <2>1, <3>1 DEF Open
    <3>2. CASE x # id
      <4>1. x \in DOMAIN descriptors /\ descriptors'[x] = descriptors[x] /\ descriptors[x] # fd
        BY <1>3, <2>2, <3>2
      <4>2. descriptors[x] \in Fds
        BY <4>1 DEF IInv, TypeOK
      <4> QED BY <1>2, <1>5, <1>8, <4>1, <4>2 DEF IInv, Known
    <3> QED BY <3>1, <3>2
  <2>4. Faithful'
    BY <1>1, <1>2, <1>5, <1>8, <2>1 DEF IInv, Faithful
  <2>5. Backed'
    BY <1>1, <1>3, <1>4, <1>8 DEF IInv, Backed
  <2> QED BY <2>3, <2>4, <2>5
<1> QED BY <1>1, <1>6, <1>7, <1>8 DEF IInv

LEMMA EnterEndpointStep ==
  ASSUME IInv, EnterEndpoint
  PROVE  IInv'
<1>1. /\ todo # << >>
      /\ table' = RegisterEndpoint(table, Head(todo))
      /\ todo' = Tail(todo)
      /\ UNCHANGED << connections, descriptors, peer, announced >>
  BY DEF EnterEndpoint
<1>2. /\ todo \in Seq(Definitions)
      /\ Head(todo) \in Definitions
      /\ Head(todo) = todo[1]
      /\ 1 \in DOMAIN todo
      /\ todo' \in Seq(Definitions)
      /\ \A i \in DOMAIN todo' : i + 1 \in DOMAIN todo /\ todo'[i] = todo[i + 1]
  BY <1>1 DEF IInv, TypeOK
<1>3. WellFormed(table)
  BY DEF IInv, TypeOK, WellFormed
<1>4. WellFormed(table')
  BY <1>1, <1>2, <1>3, RegisterWellFormed
<1>5. TypeOK'
  BY <1>1, <1>2, <1>4 DEF IInv, TypeOK, WellFormed
<1>6. ConnectionsOpen' /\ Fresh'
  BY <1>1 DEF IInv, ConnectionsOpen, Fresh
<1>7. ASSUME Conforming PROVE Known' /\ Faithful' /\ Backed'
  <2>1. Known' /\ Faithful'
    BY <1>1, <1>7 DEF IInv, Known, Faithful, Open
  <2>2. \A i \in DOMAIN table'.endpoints :
          \/ table'.endpoints[i] = todo[1]
          \/ i \in DOMAIN table.endpoints /\ table'.endpoints[i] = table.endpoints[i]
    BY <1>1, <1>2, <1>3, RegisterEndpoints
  <2>3. Backed'
    BY <1>1, <1>2, <1>7, <2>2 DEF IInv, Backed
  <2> QED BY <2>1, <2>3
<1> QED BY <1>4, <1>5, <1>6, <1>7 DEF IInv, WellFormed

(* Removing the entries of a connection together with the endpoints of a   *)
(* backend, which for a conforming one is the backend of the entry.        *)
LEMMA EndStep ==
  ASSUME IInv, NEW fd \in Fds, NEW id, peer[fd] = "backend", Idle, UNCHANGED todo,
         table' = Remaining(id), UnregisterAndEnd(fd),
         Conforming => fd \in DOMAIN connections /\ connections[fd] = id
  PROVE  IInv'
<1>1. WellFormed(table)
  BY DEF IInv, TypeOK, WellFormed
<1>2. /\ WellFormed(table')
      /\ \A i \in DOMAIN table'.endpoints :
           \E j \in DOMAIN table.endpoints :
             /\ table'.endpoints[i] = table.endpoints[j]
             /\ table.endpoints[j].backend # id
  BY <1>1, RemainingEndpoints
<1>3. /\ announced' \in [Fds -> SUBSET BackendIds]
      /\ announced'[fd] = {}
      /\ \A other \in Fds \ {fd} : announced'[other] = announced[other]
  BY DEF UnregisterAndEnd, IInv, TypeOK
<1>4. /\ peer' \in [Fds -> Peers]
      /\ peer'[fd] = IF fd \in DOMAIN connections THEN "free" ELSE "leaked"
      /\ \A other \in Fds \ {fd} : peer'[other] = peer[other]
  BY DEF UnregisterAndEnd, IInv, TypeOK, Peers
<1>5. /\ connections' \in [DOMAIN connections' -> BackendIds]
      /\ DOMAIN connections' = DOMAIN connections \ {fd}
      /\ \A other \in DOMAIN connections' : connections'[other] = connections[other]
  <2>1. connections \in [DOMAIN connections -> BackendIds]
    BY DEF IInv, TypeOK
  <2>2. connections' = [other \in DOMAIN connections \ {fd} |-> connections[other]]
    <3>1. CASE fd \in DOMAIN connections
      BY <3>1 DEF UnregisterAndEnd, Without
    <3>2. CASE fd \notin DOMAIN connections
      BY <2>1, <3>2 DEF UnregisterAndEnd
    <3> QED BY <3>1, <3>2
  <2> QED BY <2>1, <2>2
<1>6. /\ descriptors' \in [DOMAIN descriptors' -> Fds]
      /\ DOMAIN descriptors' \subseteq DOMAIN descriptors
      /\ \A x \in DOMAIN descriptors' : descriptors'[x] = descriptors[x]
      /\ Conforming => DOMAIN descriptors' = DOMAIN descriptors \ {id}
  <2>1. descriptors \in [DOMAIN descriptors -> Fds]
    BY DEF IInv, TypeOK
  <2>2. CASE fd \in DOMAIN connections
    <3>1. descriptors' = [x \in DOMAIN descriptors \ {connections[fd]} |-> descriptors[x]]
      BY <2>2 DEF UnregisterAndEnd, Without
    <3>2. DOMAIN descriptors' = DOMAIN descriptors \ {connections[fd]}
      BY <3>1
    <3> QED BY <2>1, <3>1, <3>2
  <2>3. CASE fd \notin DOMAIN connections
    BY <2>1, <2>3 DEF UnregisterAndEnd
  <2> QED BY <2>2, <2>3
<1>7. todo' = << >> /\ todo' \in Seq(Definitions)
  BY DEF Idle, IInv, TypeOK
<1>8. TypeOK'
  BY <1>2, <1>3, <1>4, <1>5, <1>6, <1>7 DEF IInv, TypeOK, WellFormed
<1>9. ConnectionsOpen'
  BY <1>4, <1>5 DEF IInv, TypeOK, ConnectionsOpen
<1>10. Fresh'
  BY <1>3, <1>4 DEF IInv, Fresh
<1>11. ASSUME Conforming PROVE Known' /\ Faithful' /\ Backed'
  <2>1. \A x \in DOMAIN descriptors' : descriptors[x] \in Fds \ {fd}
    BY <1>6, <1>11 DEF IInv, TypeOK, Known
  <2>2. Known'
    BY <1>3, <1>4, <1>5, <1>6, <1>11, <2>1 DEF IInv, Known, Open
  <2>3. Faithful'
    BY <1>3, <1>4, <1>5, <1>11 DEF IInv, Faithful
  <2>4. Backed'
    BY <1>2, <1>6, <1>7, <1>11 DEF IInv, Backed
  <2> QED BY <2>2, <2>3, <2>4
<1> QED BY <1>2, <1>8, <1>9, <1>10, <1>11 DEF IInv, WellFormed

LEMMA UnregistrationStep ==
  ASSUME IInv, NEW fd \in Fds, NEW id \in BackendIds, Unregistration(fd, id)
  PROVE  IInv'
<1>1. Conforming => fd \in DOMAIN connections /\ connections[fd] = id
  BY DEF Unregistration, IInv, Faithful
<1> QED BY <1>1, EndStep DEF Unregistration

LEMMA LostStep ==
  ASSUME IInv, NEW fd \in Fds, Lost(fd)
  PROVE  IInv'
<1>1. CASE \E id \in DOMAIN descriptors :
             /\ descriptors[id] = fd
             /\ table' = Remaining(id)
             /\ UnregisterAndEnd(fd)
  <2>1. PICK id \in DOMAIN descriptors :
               /\ descriptors[id] = fd
               /\ table' = Remaining(id)
               /\ UnregisterAndEnd(fd)
    BY <1>1
  <2>2. Conforming => fd \in DOMAIN connections /\ connections[fd] = id
    BY <2>1 DEF IInv, Known
  <2> QED BY <2>1, <2>2, EndStep DEF Lost
<1>2. CASE /\ \A id \in DOMAIN descriptors : descriptors[id] # fd
           /\ EndOnly(fd)
  <2>1. /\ peer' = [peer EXCEPT ![fd] = "leaked"]
        /\ UNCHANGED << table, connections, descriptors, announced, todo >>
    BY <1>2 DEF EndOnly, Lost
  <2>2. TypeOK'
    BY <2>1 DEF IInv, TypeOK, Peers
  <2>3. ConnectionsOpen' /\ Fresh'
    BY <2>1 DEF IInv, TypeOK, ConnectionsOpen, Fresh
  <2>4. Conforming => Known' /\ Faithful' /\ Backed'
    BY <1>2, <2>1 DEF IInv, TypeOK, Known, Faithful, Backed, Open
  <2> QED BY <2>1, <2>2, <2>3, <2>4 DEF IInv
<1> QED BY <1>1, <1>2 DEF Lost

(* What a handler leaves behind when it dies of an exception is what the   *)
(* invariant allows: the connection stays open, its entries and routes     *)
(* stay, and endpoints that were not entered yet never are.                *)
LEMMA DiesStep ==
  ASSUME IInv, NEW fd \in Fds, Dies(fd)
  PROVE  IInv'
<1>1. /\ peer[fd] = "backend"
      /\ peer' = [peer EXCEPT ![fd] = "dead"]
      /\ todo' = << >>
      /\ UNCHANGED << table, connections, descriptors, announced >>
  BY DEF Dies
<1>2. TypeOK'
  BY <1>1 DEF IInv, TypeOK, Peers
<1>3. ConnectionsOpen' /\ Fresh'
  BY <1>1 DEF IInv, TypeOK, ConnectionsOpen, Fresh
<1>4. Conforming => Known' /\ Faithful' /\ Backed'
  BY <1>1 DEF IInv, TypeOK, Known, Faithful, Backed, Open
<1> QED BY <1>1, <1>2, <1>3, <1>4 DEF IInv

LEMMA StutterStep ==
  ASSUME IInv, UNCHANGED vars
  PROVE  IInv'
  BY DEF vars, IInv, TypeOK, ConnectionsOpen, Fresh, Known, Faithful, Backed, Open

(* Every step keeps the invariant.                                         *)
LEMMA NextIInv == IInv /\ [Next]_vars => IInv'
  BY AcceptStep, CloseClientStep, RegistrationStep, EnterEndpointStep,
     UnregistrationStep, LostStep, DiesStep, StutterStep DEF Next

(* The maps, the table and the descriptors agree in every reachable state. *)
THEOREM Invariance == Spec => []IInv
  BY InitIInv, NextIInv, PTL DEF Spec

-----------------------------------------------------------------------------
(* The maps and the table of the listener have the types the class gives   *)
(* them, whatever order registrations and disconnections come in.          *)
THEOREM TypeCorrect == Spec => []TypeOK
<1>1. IInv => TypeOK
  BY DEF IInv
<1> QED BY <1>1, Invariance, PTL

(* No entry of m_stdnsBackendConnections outlives its descriptor, whether  *)
(* or not backends keep to one identifier.                                 *)
THEOREM ConnectionsAreOpen == Spec => []ConnectionsOpen
<1>1. IInv => ConnectionsOpen
  BY DEF IInv
<1> QED BY <1>1, Invariance, PTL

(* When backends keep to one identifier per connection, every endpoint in  *)
(* the table resolves to an open connection of its own backend, deaths of  *)
(* handlers included.                                                      *)
THEOREM RoutesReach == Spec => []RoutesReachTheirBackend
<1>1. IInv => RoutesReachTheirBackend
  BY DEF IInv, Known, Backed, RoutesReachTheirBackend
<1> QED BY <1>1, Invariance, PTL

-----------------------------------------------------------------------------
(* What a step does to the order of the endpoints. *)

LEMMA RegisterKeepsOrder ==
  ASSUME WellFormed(table), NEW def \in Definitions
  PROVE  \A k \in DOMAIN table.index :
           /\ k \in DOMAIN RegisterEndpoint(table, def).index
           /\ RegisterEndpoint(table, def).index[k] = table.index[k]
<1> DEFINE route == GetRouteKey(def)
           after == RegisterEndpoint(table, def)
           new == Len(table.endpoints) + 1
<1>1. table = [endpoints |-> table.endpoints, index |-> table.index]
  BY DEF WellFormed, TableTyped
<1>2. CASE after = table
  BY <1>2
<1>3. CASE after = [table EXCEPT !.endpoints[table.index[route]] = def]
  BY <1>1, <1>3
<1>4. CASE /\ route \notin DOMAIN table.index
           /\ after.index = [k \in DOMAIN table.index \cup {route} |->
                               IF k = route THEN new ELSE table.index[k]]
  BY <1>4
<1>5. \/ after = table
      \/ after = [table EXCEPT !.endpoints[table.index[route]] = def]
      \/ /\ route \notin DOMAIN table.index
         /\ after.index = [k \in DOMAIN table.index \cup {route} |->
                             IF k = route THEN new ELSE table.index[k]]
  BY DEF RegisterEndpoint
<1> QED BY <1>2, <1>3, <1>4, <1>5

LEMMA RemainingKeepsOrder ==
  ASSUME WellFormed(table), NEW id, NEW k1, NEW k2,
         k1 \in DOMAIN table.index \cap DOMAIN Remaining(id).index,
         k2 \in DOMAIN table.index \cap DOMAIN Remaining(id).index,
         table.index[k1] < table.index[k2]
  PROVE  Remaining(id).index[k1] < Remaining(id).index[k2]
<1> DEFINE after == RemoveEndpointsByBackend(table, id)
           kept == Kept(table, id)
           n == Len(table.endpoints)
           Key(i) == GetRouteKey(table.endpoints[i])
<1>1. /\ DOMAIN after.index = {Key(i) : i \in kept}
      /\ \A i \in kept : after.index[Key(i)] = Rank(kept, i)
  BY RemoveKeepsOthers
<1>2. n \in Nat /\ kept \in SUBSET (1..n)
  BY DEF WellFormed, TableTyped, Kept
<1>3. \A i \in kept : table.index[Key(i)] = i
  BY <1>2 DEF WellFormed, TableConsistent, TableTyped
<1>4. \A i, j \in kept : i < j => Rank(kept, i) < Rank(kept, j)
  BY <1>2, RankMonotonic
<1>5. Remaining(id) = after
  BY DEF Remaining
<1> HIDE DEF after, kept, n
<1>6. PICK i \in kept : k1 = Key(i)
  BY <1>1, <1>5
<1>7. PICK j \in kept : k2 = Key(j)
  BY <1>1, <1>5
<1>8. i < j
  BY <1>3, <1>6, <1>7
<1> QED BY <1>1, <1>4, <1>5, <1>6, <1>7, <1>8

(* Two endpoints that stay registered keep their order, so which of two    *)
(* overlapping patterns wins does not depend on who came and went.         *)
THEOREM PrecedenceIsStable == Spec => PrecedenceStable
<1> DEFINE Stable ==
      \A k1, k2 \in DOMAIN table.index \cap DOMAIN table'.index :
        table.index[k1] < table.index[k2] => table'.index[k1] < table'.index[k2]
<1>1. ASSUME IInv, [Next]_vars PROVE [Stable]_table
  <2>1. WellFormed(table)
    BY <1>1 DEF IInv, TypeOK, WellFormed
  <2>2. CASE UNCHANGED table
    BY <2>2
  <2>3. CASE EnterEndpoint
    <3>1. Head(todo) \in Definitions
      BY <1>1, <2>3 DEF EnterEndpoint, IInv, TypeOK
    <3>2. table' = RegisterEndpoint(table, Head(todo))
      BY <2>3 DEF EnterEndpoint
    <3> QED BY <2>1, <3>1, <3>2, RegisterKeepsOrder
  <2>4. CASE \E id : table' = Remaining(id)
    <3>1. PICK id : table' = Remaining(id)
      BY <2>4
    <3> QED BY <2>1, <3>1, RemainingKeepsOrder
  <2>5. UNCHANGED table \/ EnterEndpoint \/ \E id : table' = Remaining(id)
    BY <1>1 DEF vars, Next, Accept, CloseClient, Registration, Unregistration, Lost, EndOnly, Dies
  <2> QED BY <2>2, <2>3, <2>4, <2>5
<1> QED BY <1>1, Invariance, PTL DEF Spec, PrecedenceStable

(* When the handler of a conforming backend's connection comes to its end, *)
(* it takes the backend's endpoints with it, unless another open           *)
(* connection of the same backend answers for them.                        *)
THEOREM DisconnectsRemoveRoutes == Spec => DisconnectRemovesRoutes
<1> DEFINE Gone(fd) == peer[fd] = "backend" /\ ~Open(fd)'
           Answered(fd) ==
             \A i \in DOMAIN table'.endpoints :
               LET id == table'.endpoints[i].backend
               IN  id \in announced[fd] =>
                     \E other \in Fds \ {fd} : Open(other) /\ id \in announced[other]
           Answers == Conforming => \A fd \in Fds : Gone(fd) => Answered(fd)
<1>1. ASSUME IInv, [Next]_vars PROVE [Answers]_vars
  <2> SUFFICES ASSUME Conforming, NEW fd \in Fds, Gone(fd) PROVE Answered(fd)
    OBVIOUS
  <2>1. ASSUME NEW id, announced[fd] = {id}, table' = Remaining(id) PROVE Answered(fd)
    <3>1. WellFormed(table)
      BY <1>1 DEF IInv, TypeOK, WellFormed
    <3>2. \A i \in DOMAIN table'.endpoints : table'.endpoints[i].backend # id
      BY <2>1, <3>1, RemainingEndpoints
    <3> QED BY <2>1, <3>2
  <2>2. CASE \E id \in BackendIds : Unregistration(fd, id)
    <3>1. PICK id \in BackendIds : Unregistration(fd, id)
      BY <2>2
    <3> QED BY <2>1, <3>1 DEF Unregistration
  <2>3. CASE Lost(fd)
    <3>1. CASE \E id \in DOMAIN descriptors : descriptors[id] = fd /\ table' = Remaining(id)
      <4>1. PICK id \in DOMAIN descriptors : descriptors[id] = fd /\ table' = Remaining(id)
        BY <3>1
      <4>2. announced[fd] = {id}
        BY <1>1, <4>1 DEF IInv, Known
      <4> QED BY <2>1, <4>1, <4>2
    <3>2. CASE table' = table /\ \A id \in DOMAIN descriptors : descriptors[id] # fd
      BY <1>1, <3>2 DEF IInv, TypeOK, Known, Backed
    <3> QED BY <2>3, <3>1, <3>2 DEF Lost, EndOnly
  <2>4. (\E id \in BackendIds : Unregistration(fd, id)) \/ Lost(fd)
    BY <1>1 DEF vars, Next, Accept, LowestFree, CloseClient, Registration, EnterEndpoint,
                Unregistration, UnregisterAndEnd, Lost, EndOnly, Dies, IInv, TypeOK, Open
  <2> QED BY <2>2, <2>3, <2>4
<1> QED BY <1>1, Invariance, PTL DEF Spec, DisconnectRemovesRoutes

(* The handler of a connection that an identifier of a conforming backend  *)
(* leads to closes its descriptor when it comes to its end: the two maps   *)
(* agree about it.                                                         *)
THEOREM ServedConnectionsAreClosed == Spec => ServedConnectionsClose
<1> DEFINE Leaks(fd) == peer[fd] = "backend" /\ peer'[fd] = "leaked"
           Forgotten(fd) == \A id \in DOMAIN descriptors : descriptors[id] # fd
           OnlyForgotten == Conforming => \A fd \in Fds : Leaks(fd) => Forgotten(fd)
<1>1. ASSUME IInv, [Next]_vars PROVE [OnlyForgotten]_vars
  <2> SUFFICES ASSUME Conforming, NEW fd \in Fds, Leaks(fd), ~Forgotten(fd) PROVE FALSE
    OBVIOUS
  <2>1. fd \in DOMAIN connections
    BY <1>1 DEF IInv, Known
  <2>2. ASSUME UnregisterAndEnd(fd) PROVE FALSE
    BY <1>1, <2>1, <2>2 DEF UnregisterAndEnd, IInv, TypeOK
  <2>3. (\E id \in BackendIds : Unregistration(fd, id)) \/ Lost(fd)
    BY <1>1 DEF vars, Next, Accept, LowestFree, CloseClient, Registration, EnterEndpoint,
                Unregistration, UnregisterAndEnd, Lost, EndOnly, Dies, IInv, TypeOK
  <2> QED BY <2>2, <2>3 DEF Unregistration, Lost
<1> QED BY <1>1, Invariance, PTL DEF Spec, ServedConnectionsClose

-----------------------------------------------------------------------------
EngineTyped == Engine!TypeOK

LastTyped ==
  \/ last \in [answer : {"None", "Backend not available"}]
  \/ last \in [answer : {"Delivered"}, endpoint : Definitions,
              fd : Fds, bearer : Engine!Texts \cup {NoToken}]

GatewayIInv ==
  /\ IInv
  /\ EngineTyped
  /\ LastTyped
  /\ DeliveredWhereIssued
  /\ NeverUnavailable

-----------------------------------------------------------------------------
(* The endpoint that a lookup finds is one of the table.                   *)
LEMMA RouteInTable ==
  ASSUME WellFormed(table), NEW request, Route(request).found
  PROVE  \E i \in DOMAIN table.endpoints : Route(request).endpoint = table.endpoints[i]
<1> DEFINE method == request.method
           path == request.path
           k == << method, path >>
           some == Candidates(table, method, path)
           first == CHOOSE i \in some : \A j \in some : i <= j
<1>1. CASE k \in DOMAIN table.index
  <2>1. Route(request).endpoint = table.endpoints[table.index[k]]
    BY <1>1 DEF Route, FindEndpoint
  <2> QED BY <1>1, <2>1 DEF WellFormed, TableTyped
<1>2. CASE k \notin DOMAIN table.index
  <2>1. some # {} /\ Route(request).endpoint = table.endpoints[first]
    BY <1>2 DEF Route, FindEndpoint
  <2>2. Len(table.endpoints) \in Nat /\ some \in SUBSET (1..Len(table.endpoints))
    BY DEF WellFormed, TableTyped, Candidates
  <2>3. first \in some
    BY <2>1, <2>2, LeastExists
  <2> QED BY <2>1, <2>3 DEF Candidates
<1> QED BY <1>1, <1>2

LEMMA RouteTyped ==
  ASSUME TypeOK, TableConsistent(table), NEW request, Route(request).found
  PROVE  /\ Route(request).endpoint \in Definitions
         /\ Route(request).endpoint.backend \in BackendIds
<1>1. WellFormed(table)
  BY DEF TypeOK, WellFormed
<1>2. PICK i \in DOMAIN table.endpoints : Route(request).endpoint = table.endpoints[i]
  BY <1>1, RouteInTable
<1>3. table.endpoints[i] \in Definitions
  BY <1>1 DEF WellFormed, TableTyped
<1> QED BY <1>2, <1>3 DEF Definitions

(* In a conforming system that endpoint's backend is connected.            *)
LEMMA RouteConnected ==
  ASSUME IInv, Conforming, NEW request, Route(request).found
  PROVE  LET id == Route(request).endpoint.backend
         IN  /\ id \in BackendIds
             /\ id \in DOMAIN descriptors
             /\ descriptors[id] \in Fds
             /\ Open(descriptors[id])
             /\ announced[descriptors[id]] = {id}
<1>1. WellFormed(table)
  BY DEF IInv, TypeOK, WellFormed
<1>2. PICK i \in DOMAIN table.endpoints : Route(request).endpoint = table.endpoints[i]
  BY <1>1, RouteInTable
<1>3. table.endpoints[i].backend \in DOMAIN descriptors
  BY DEF IInv, Backed
<1> QED BY <1>2, <1>3 DEF IInv, Known, TypeOK

-----------------------------------------------------------------------------
(* The token engine. *)

LEMMA TwoMore ==
  ASSUME NEW S, NEW s \in Seq(S), NEW a \in S, NEW b \in S
  PROVE  /\ s \o << a, b >> \in Seq(S)
         /\ DOMAIN s \subseteq DOMAIN (s \o << a, b >>)
         /\ \A i \in DOMAIN s : (s \o << a, b >>)[i] = s[i]
         /\ \A i \in DOMAIN (s \o << a, b >>) \ DOMAIN s :
              (s \o << a, b >>)[i] \in {a, b}
  OBVIOUS

Parents == {Engine!NoParent} \cup (Nat \X Spellings)

LEMMA PairTyped ==
  ASSUME EngineTyped, key # NoKey, NEW server \in BackendIds, NEW user \in Users,
         NEW parent \in Parents, NEW now \in Nat
  PROVE  /\ Engine!Token("Access", server, user, parent, now) \in Engine!Tokens
         /\ Engine!Token("Refresh", server, user, parent, now) \in Engine!Tokens
  BY GatewayAssumption
  DEF EngineTyped, Engine!TypeOK, Engine!Token, Engine!Tokens, Engine!TokenType,
      Engine!Lifetime, Parents

(* Whatever is issued is typed, lives as long as its type says and carries *)
(* the parent it was issued for.                                           *)
LEMMA GeneratedTyped ==
  ASSUME EngineTyped, NEW server \in BackendIds, NEW user \in Users,
         NEW parent \in Parents, NEW now \in Nat,
         Engine!GenerateTokenPair(server, user, parent, now)
  PROVE  /\ issued' \in Seq(Engine!Tokens)
         /\ DOMAIN issued \subseteq DOMAIN issued'
         /\ \A token \in DOMAIN issued' :
              issued'[token].expiry = issued'[token].creation + Engine!Lifetime(issued'[token].type)
         /\ \A new \in DOMAIN issued' \ DOMAIN issued : issued'[new].parent = parent
<1>1. CASE UNCHANGED issued
  BY <1>1 DEF EngineTyped, Engine!TypeOK, Engine!Lifetime
<1>2. CASE /\ key # NoKey
           /\ issued' = issued \o Engine!Pair(server, user, parent, now)
  <2> DEFINE a == Engine!Token("Access", server, user, parent, now)
             b == Engine!Token("Refresh", server, user, parent, now)
  <2>1. a \in Engine!Tokens /\ b \in Engine!Tokens
    BY <1>2, PairTyped
  <2>2. /\ a.parent = parent /\ a.expiry = a.creation + Engine!Lifetime(a.type)
        /\ b.parent = parent /\ b.expiry = b.creation + Engine!Lifetime(b.type)
    BY DEF Engine!Token
  <2>3. issued \in Seq(Engine!Tokens) /\ issued' = issued \o << a, b >>
    BY <1>2 DEF EngineTyped, Engine!TypeOK, Engine!Pair
  <2> HIDE DEF a, b
  <2>4. /\ issued' \in Seq(Engine!Tokens)
        /\ DOMAIN issued \subseteq DOMAIN issued'
        /\ \A i \in DOMAIN issued : issued'[i] = issued[i]
        /\ \A i \in DOMAIN issued' \ DOMAIN issued : issued'[i] \in {a, b}
    BY <2>1, <2>3, TwoMore
  <2>5. ASSUME NEW token \in DOMAIN issued'
        PROVE  issued'[token].expiry = issued'[token].creation + Engine!Lifetime(issued'[token].type)
    <3>1. CASE token \in DOMAIN issued
      BY <2>4, <3>1 DEF EngineTyped, Engine!TypeOK
    <3>2. CASE token \notin DOMAIN issued
      BY <2>2, <2>4, <3>2
    <3> QED BY <3>1, <3>2
  <2> QED BY <2>2, <2>4, <2>5
<1> QED BY <1>1, <1>2 DEF Engine!GenerateTokenPair

(* A refresh that is granted: what it spends and what it issues.           *)
LEMMA RefreshTyped ==
  ASSUME EngineTyped, NEW text \in Engine!Texts, NEW server \in BackendIds,
         Engine!RefreshTokenPair(text, server)
  PROVE  /\ EngineTyped'
         /\ revoked' = revoked \cup {text}
         /\ Engine!Content(text).type = "Refresh"
         /\ Engine!Content(text).server = server
         /\ \A new \in DOMAIN issued' \ DOMAIN issued : issued'[new].parent = text
<1> DEFINE user == Engine!Content(text).user
<1>1. /\ Engine!Valid(text, "Refresh", server)
      /\ revoked' = revoked \cup {text}
      /\ Engine!GenerateTokenPair(server, user, text, clock')
      /\ clock' \in Engine!Instants
      /\ UNCHANGED << key, life >>
  BY DEF Engine!RefreshTokenPair, Engine!Rotate
<1>2. text[1] \in DOMAIN issued /\ text \in (DOMAIN issued) \X Spellings
  BY DEF Engine!Texts
<1>3. Engine!Content(text) \in Engine!Tokens /\ text[1] \in Nat
  BY <1>2 DEF EngineTyped, Engine!TypeOK, Engine!Content
<1>4. user \in Users /\ text \in Parents /\ clock' \in Nat
  BY <1>1, <1>2, <1>3, GatewayAssumption DEF Engine!Tokens, Engine!Instants, Parents
<1> HIDE DEF user
<1>5. /\ issued' \in Seq(Engine!Tokens)
      /\ DOMAIN issued \subseteq DOMAIN issued'
      /\ \A t \in DOMAIN issued' :
           issued'[t].expiry = issued'[t].creation + Engine!Lifetime(issued'[t].type)
      /\ \A new \in DOMAIN issued' \ DOMAIN issued : issued'[new].parent = text
  BY <1>1, <1>4, GeneratedTyped
<1>6. revoked' \subseteq Engine!Texts'
  BY <1>1, <1>5 DEF EngineTyped, Engine!TypeOK, Engine!Texts
<1>7. EngineTyped'
  BY <1>1, <1>4, <1>5, <1>6 DEF EngineTyped, Engine!TypeOK, Engine!Lifetime
<1> QED BY <1>1, <1>5, <1>7 DEF Engine!Valid, Engine!ValidAt

-----------------------------------------------------------------------------
LEMMA GatewayInitIInv == GatewayInit => GatewayIInv
<1> SUFFICES ASSUME GatewayInit PROVE GatewayIInv
  OBVIOUS
<1>1. IInv
  BY InitIInv DEF GatewayInit
<1>2. EngineTyped
  BY DEF GatewayInit, Engine!Init, EngineTyped, Engine!TypeOK, Engine!Texts
<1>3. last = NoRequest
  BY DEF GatewayInit
<1> QED BY <1>1, <1>2, <1>3
        DEF GatewayIInv, LastTyped, DeliveredWhereIssued, NeverUnavailable, NoRequest

(* What a request does to the engine and what is remembered of it.         *)
Handled(request) ==
  \/ /\ UNCHANGED engineVars
     /\ last' = NoRequest
  \/ /\ request.refresh \in Engine!Texts
     /\ Engine!RefreshTokenPair(request.refresh, Route(request).endpoint.backend)
     /\ Route(request).found
     /\ last' = NoRequest
  \/ /\ Route(request).found
     /\ Authorized(request, Route(request).endpoint, clock)
     /\ Forward(request, Route(request).endpoint)

LEMMA RouteRequestCases ==
  ASSUME NEW request \in Requests, RouteRequest(request)
  PROVE  UNCHANGED vars /\ Handled(request)
<1> DEFINE endpoint == Route(request).endpoint
           Passes(now) == Route(request).found /\ Authorized(request, endpoint, now)
<1>1. UNCHANGED vars
  BY DEF RouteRequest
<1>2. ASSUME NEW answer, Refuse(answer)
      PROVE  Handled(request)
  BY <1>2 DEF Refuse, Handled
<1>3. ASSUME RefreshHere(request, endpoint), request.refresh # NoToken,
             {earlier \in Engine!Instants : Passes(earlier)} # {}
      PROVE  Handled(request)
  <2>1. request.refresh \in Engine!Texts
    BY <1>3 DEF Requests
  <2>2. Route(request).found
    BY <1>3
  <2> QED BY <1>3, <2>1, <2>2 DEF RefreshHere, Handled
<1>4. ASSUME Forward(request, endpoint), Passes(clock)
      PROVE  Handled(request)
  BY <1>4 DEF Handled
<1> QED BY <1>1, <1>2, <1>3, <1>4 DEF RouteRequest

(* A step after which no request is remembered.                            *)
LEMMA NothingKeeps ==
  ASSUME IInv', EngineTyped', last' = NoRequest
  PROVE  GatewayIInv'
  BY DEF NoRequest, LastTyped, GatewayIInv, DeliveredWhereIssued, NeverUnavailable

LEMMA RouteRequestStep ==
  ASSUME GatewayIInv, NEW request \in Requests, RouteRequest(request)
  PROVE  GatewayIInv'
<1> DEFINE endpoint == Route(request).endpoint
<1>1. UNCHANGED vars /\ Handled(request)
  BY RouteRequestCases
<1>2. IInv'
  BY <1>1, StutterStep DEF GatewayIInv
<1>3. CASE UNCHANGED engineVars /\ last' = NoRequest
  <2>1. EngineTyped'
    BY <1>3 DEF GatewayIInv, engineVars, EngineTyped, Engine!TypeOK, Engine!Lifetime, Engine!Texts
  <2> QED BY <1>2, <1>3, <2>1, NothingKeeps
<1>4. CASE /\ request.refresh \in Engine!Texts
           /\ Engine!RefreshTokenPair(request.refresh, endpoint.backend)
           /\ Route(request).found
           /\ last' = NoRequest
  <2>1. endpoint.backend \in BackendIds
    BY <1>4, RouteTyped DEF GatewayIInv, IInv
  <2>2. EngineTyped'
    BY <1>4, <2>1, RefreshTyped DEF GatewayIInv
  <2> QED BY <1>2, <1>4, <2>2, NothingKeeps
<1>5. CASE /\ Route(request).found
           /\ Authorized(request, endpoint, clock)
           /\ Forward(request, endpoint)
  <2>1. /\ UNCHANGED engineVars
        /\ last' = IF endpoint.backend \in DOMAIN descriptors
                   THEN Delivery(request, endpoint, descriptors[endpoint.backend])
                   ELSE Unavailable
    BY <1>5 DEF Forward
  <2>2. EngineTyped'
    BY <2>1 DEF GatewayIInv, engineVars, EngineTyped, Engine!TypeOK, Engine!Lifetime, Engine!Texts
  <2>3. LastTyped'
    <3>1. CASE endpoint.backend \in DOMAIN descriptors
      <4>1. descriptors[endpoint.backend] \in Fds
        BY <3>1 DEF GatewayIInv, IInv, TypeOK
      <4>2. endpoint \in Definitions
        BY <1>5, RouteTyped DEF GatewayIInv, IInv
      <4>3. request.bearer \in Engine!Texts' \cup {NoToken}
        BY <2>1 DEF Requests, engineVars, Engine!Texts
      <4> HIDE DEF endpoint
      <4> QED BY <2>1, <3>1, <4>1, <4>2, <4>3 DEF LastTyped, Delivery
    <3>2. CASE endpoint.backend \notin DOMAIN descriptors
      BY <2>1, <3>2 DEF LastTyped, Unavailable
    <3> QED BY <3>1, <3>2
  <2>4. CASE ~Conforming
    BY <1>2, <2>2, <2>4, <2>3 DEF GatewayIInv, DeliveredWhereIssued, NeverUnavailable
  <2>5. CASE Conforming
    <3>1. /\ endpoint.backend \in DOMAIN descriptors
          /\ Open(descriptors[endpoint.backend])
          /\ announced[descriptors[endpoint.backend]] = {endpoint.backend}
      BY <1>5, <2>5, RouteConnected DEF GatewayIInv
    <3>2. /\ last'.answer = "Delivered"
          /\ last'.endpoint = endpoint
          /\ last'.fd = descriptors[endpoint.backend]
          /\ last'.bearer = request.bearer
      BY <2>1, <3>1 DEF Delivery
    <3>3. endpoint.auth =>
            LET token == Engine!Content(request.bearer)
            IN  /\ request.bearer # NoToken
                /\ token.type = "Access"
                /\ token.server = endpoint.backend
                /\ token.key = key
                /\ token.expiry > clock
      BY <1>5 DEF Authorized, Engine!ValidAt, Engine!Decrypts
    <3>4. UNCHANGED << key, clock, issued, peer, announced >>
      BY <1>1, <2>1 DEF vars, engineVars
    <3> HIDE DEF endpoint
    <3>5. DeliveredWhereIssued'
      BY <3>1, <3>2, <3>3, <3>4 DEF DeliveredWhereIssued, Engine!Content, Open
    <3>6. NeverUnavailable'
      BY <3>2 DEF NeverUnavailable
    <3> QED BY <1>2, <2>2, <2>3, <3>5, <3>6 DEF GatewayIInv
  <2> QED BY <2>4, <2>5
<1> QED BY <1>1, <1>3, <1>4, <1>5 DEF Handled

LEMMA RegistryStepIInv ==
  ASSUME GatewayIInv, RegistryStep
  PROVE  GatewayIInv'
<1>1. IInv'
  BY NextIInv DEF GatewayIInv, RegistryStep
<1>2. UNCHANGED engineVars /\ last' = NoRequest
  BY DEF RegistryStep
<1>3. EngineTyped'
  BY <1>2 DEF GatewayIInv, engineVars, EngineTyped, Engine!TypeOK, Engine!Lifetime, Engine!Texts
<1> QED BY <1>1, <1>2, <1>3, NothingKeeps

LEMMA TokenStepIInv ==
  ASSUME GatewayIInv, TokenStep
  PROVE  GatewayIInv'
<1>1. UNCHANGED vars /\ last' = NoRequest
  BY DEF TokenStep
<1>2. IInv'
  BY <1>1, StutterStep DEF GatewayIInv
<1>3. EngineTyped'
  <2>1. CASE \E server \in BackendIds, user \in Users : Engine!Login(server, user)
    <3>1. PICK server \in BackendIds, user \in Users : Engine!Login(server, user)
      BY <2>1
    <3>2. /\ Engine!GenerateTokenPair(server, user, Engine!NoParent, clock)
          /\ UNCHANGED << key, revoked, clock, life >>
          /\ Engine!NoParent \in Parents /\ clock \in Nat
      BY <3>1 DEF Engine!Login, Parents, GatewayIInv, EngineTyped, Engine!TypeOK
    <3>3. /\ issued' \in Seq(Engine!Tokens)
          /\ DOMAIN issued \subseteq DOMAIN issued'
          /\ \A t \in DOMAIN issued' :
               issued'[t].expiry = issued'[t].creation + Engine!Lifetime(issued'[t].type)
      BY <3>2, GeneratedTyped DEF GatewayIInv
    <3> QED BY <3>2, <3>3 DEF GatewayIInv, EngineTyped, Engine!TypeOK, Engine!Lifetime, Engine!Texts
  <2>2. CASE Engine!Tick \/ Engine!SetBack
    <3>1. clock' \in Nat /\ UNCHANGED << key, revoked, life, issued >>
      BY <2>2 DEF GatewayIInv, EngineTyped, Engine!TypeOK, Engine!Tick, Engine!SetBack
    <3> QED BY <3>1 DEF GatewayIInv, EngineTyped, Engine!TypeOK, Engine!Lifetime, Engine!Texts
  <2> QED BY <2>1, <2>2 DEF TokenStep
<1> QED BY <1>1, <1>2, <1>3, NothingKeeps

LEMMA RestartIInv ==
  ASSUME GatewayIInv, Restart
  PROVE  GatewayIInv'
<1>1. Init'
  BY DEF Restart, Init
<1>2. IInv'
  <2>1. (Init => IInv)'
    BY InitIInv, PTL
  <2> QED BY <1>1, <2>1
<1>3. /\ Engine!Restart
      /\ last' = NoRequest
  BY DEF Restart
<1>4. EngineTyped'
  BY <1>3 DEF GatewayIInv, EngineTyped, Engine!TypeOK, Engine!Lifetime, Engine!Restart, Engine!Texts
<1> QED BY <1>2, <1>3, <1>4, NothingKeeps

LEMMA GatewayStutter ==
  ASSUME GatewayIInv, UNCHANGED gatewayVars
  PROVE  GatewayIInv'
<1>1. UNCHANGED vars /\ UNCHANGED engineVars /\ UNCHANGED last
  BY DEF gatewayVars
<1>2. IInv'
  BY <1>1, StutterStep DEF GatewayIInv
<1> QED BY <1>1, <1>2
    DEF GatewayIInv, vars, engineVars, EngineTyped, Engine!TypeOK, Engine!Lifetime, Engine!Texts,
        LastTyped, DeliveredWhereIssued, NeverUnavailable, Engine!Content, Open

(* The invariant of the registry holds in the composition too, although    *)
(* its steps are not the only ones, and what was answered agrees with it.  *)
THEOREM GatewayInvariance == GatewaySpec => []GatewayIInv
<1>1. GatewayIInv /\ [GatewayNext]_gatewayVars => GatewayIInv'
  BY RouteRequestStep, RegistryStepIInv, TokenStepIInv, RestartIInv, GatewayStutter
     DEF GatewayNext
<1> QED BY <1>1, GatewayInitIInv, PTL DEF GatewaySpec

-----------------------------------------------------------------------------
(* A request to a protected endpoint reaches only an open connection of    *)
(* the backend its live access token was issued for.                       *)
THEOREM DeliveriesAreWhereIssued == GatewaySpec => []DeliveredWhereIssued
<1>1. GatewayIInv => DeliveredWhereIssued
  BY DEF GatewayIInv
<1> QED BY <1>1, GatewayInvariance, PTL

(* With conforming backends the answer "Backend not available" is never    *)
(* given, although handlers may die and leave routes to connections that   *)
(* nobody handles.                                                         *)
THEOREM BackendsAreAvailable == GatewaySpec => []NeverUnavailable
<1>1. GatewayIInv => NeverUnavailable
  BY DEF GatewayIInv
<1> QED BY <1>1, GatewayInvariance, PTL

(* Refresh tokens are spent only while a connection of the backend they    *)
(* were issued for is open, and only their successors are issued for them. *)
THEOREM RefreshesNeedTheirBackend == GatewaySpec => RefreshNeedsItsBackend
<1> DEFINE Spends(text) ==
      /\ Engine!Content(text).type = "Refresh"
      /\ \E fd \in Fds : Open(fd) /\ announced[fd] = {Engine!Content(text).server}
      /\ \A new \in DOMAIN issued' \ DOMAIN issued : issued'[new].parent = text
    Step == Conforming /\ life' = life => \A text \in revoked' \ revoked : Spends(text)
<1>1. ASSUME GatewayIInv, [GatewayNext]_gatewayVars PROVE Step
  <2> SUFFICES ASSUME Conforming, life' = life, NEW text \in revoked' \ revoked
               PROVE  Spends(text)
    OBVIOUS
  <2>1. CASE \E request \in Requests : RouteRequest(request)
    <3>1. PICK request \in Requests : RouteRequest(request)
      BY <2>1
    <3> DEFINE endpoint == Route(request).endpoint
    <3>2. /\ request.refresh \in Engine!Texts
          /\ Engine!RefreshTokenPair(request.refresh, endpoint.backend)
          /\ Route(request).found
      BY <3>1, RouteRequestCases DEF Handled, Forward, engineVars
    <3>3. /\ endpoint.backend \in BackendIds
          /\ descriptors[endpoint.backend] \in Fds
          /\ Open(descriptors[endpoint.backend])
          /\ announced[descriptors[endpoint.backend]] = {endpoint.backend}
      BY <1>1, <3>2, RouteConnected DEF GatewayIInv
    <3> HIDE DEF endpoint
    <3>4. /\ revoked' = revoked \cup {request.refresh}
          /\ Engine!Content(request.refresh).type = "Refresh"
          /\ Engine!Content(request.refresh).server = endpoint.backend
          /\ \A new \in DOMAIN issued' \ DOMAIN issued : issued'[new].parent = request.refresh
      BY <1>1, <3>2, <3>3, RefreshTyped DEF GatewayIInv
    <3>5. text = request.refresh
      BY <3>4
    <3> QED BY <3>3, <3>4, <3>5
  <2>2. CASE RegistryStep \/ TokenStep \/ Restart \/ UNCHANGED gatewayVars
    <3>1. revoked' \subseteq revoked
      BY <2>2 DEF RegistryStep, TokenStep, Restart, gatewayVars, engineVars,
                  Engine!Login, Engine!Tick, Engine!SetBack, Engine!Restart
    <3> QED BY <3>1
  <2> QED BY <1>1, <2>1, <2>2 DEF GatewayNext
<1> QED BY <1>1, GatewayInvariance, PTL DEF RefreshNeedsItsBackend, GatewaySpec

-----------------------------------------------------------------------------
(* Whatever requests, backends and restarts do, what happens to the keys   *)
(* and tokens is what TokenEngine describes: RouteRequest never touches    *)
(* the engine but by a refresh for a backend's identifier.                 *)
THEOREM EngineImplemented == GatewaySpec => Engine!Spec
<1>1. GatewayInit => Engine!Init
  BY DEF GatewayInit
<1>2. ASSUME GatewayIInv, [GatewayNext]_gatewayVars PROVE [Engine!Next]_engineVars
  <2>1. ASSUME NEW request \in Requests, RouteRequest(request)
        PROVE  Engine!Next \/ UNCHANGED engineVars
    <3>1. CASE /\ request.refresh \in Engine!Texts
               /\ Engine!RefreshTokenPair(request.refresh, Route(request).endpoint.backend)
               /\ Route(request).found
      <4>1. Route(request).endpoint.backend \in BackendIds
        BY <1>2, <3>1, RouteTyped DEF GatewayIInv, IInv
      <4> QED BY <3>1, <4>1 DEF Engine!Next
    <3> QED BY <2>1, <3>1, RouteRequestCases DEF Handled, Forward
  <2>2. CASE RegistryStep \/ UNCHANGED gatewayVars
    BY <2>2 DEF RegistryStep, gatewayVars
  <2>3. CASE TokenStep
    BY <2>3 DEF TokenStep, Engine!Next
  <2>4. CASE Restart
    BY <2>4 DEF Restart, Engine!Next
  <2> QED BY <1>2, <2>1, <2>2, <2>3, <2>4 DEF GatewayNext
<1>3. engineVars = Engine!vars
  BY DEF engineVars, Engine!vars
<1>4. GatewayIInv /\ [GatewayNext]_gatewayVars => [Engine!Next]_(Engine!vars)
  BY <1>2, <1>3 DEF engineVars, Engine!vars
<1> QED BY <1>1, <1>4, GatewayInvariance, PTL DEF GatewaySpec, Engine!Spec
=============================================================================
