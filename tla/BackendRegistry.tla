-------------------------- MODULE BackendRegistry --------------------------
(***************************************************************************)
(* Who serves what: the connection maps of UnixSocketListener, the routing *)
(* table, and the handler coroutine of each backend connection             *)
(* (GatewayServer::HandleBackendConnection), which is the only code that   *)
(* changes either.  File descriptors are numbers the kernel hands out      *)
(* again once they are closed, to HTTP clients as well as to backends.     *)
(*                                                                         *)
(* The gateway is one thread.  A handler runs from one await to the next   *)
(* without interruption; the only loop inside such a stretch, over the     *)
(* endpoints of a registration, takes one step per endpoint, and todo # << *)
(* >> keeps everything else out until it is done.  How a frame reaches     *)
(* the handler is the subject of the module Forwarding.                    *)
(***************************************************************************)
EXTENDS Endpoints

CONSTANTS
  MaxFd,          (* descriptors 1..MaxFd are those the process may have    *)
  Announcements,  (* the endpoint arrays a registration may carry           *)
  Conforming      (* does every connection keep to one identifier?          *)

ASSUME RegistryAssumption ==
  /\ MaxFd \in Nat
  /\ Conforming \in BOOLEAN
  /\ Announcements \subseteq Seq([path : Paths, method : Methods, auth : BOOLEAN])

Fds == 1..MaxFd

VARIABLES
  table,        (* m_sRoutingTable                                          *)
  connections,  (* m_stdnsBackendConnections: fd -> identifier              *)
  descriptors,  (* m_stdsznBackendFileDescriptors: identifier -> fd         *)
  peer,         (* what each descriptor is: see Peers                       *)
  announced,    (* history: the identifiers registered over a connection    *)
  todo          (* endpoints of the registration frame still to be entered  *)

vars == << table, connections, descriptors, peer, announced, todo >>

(* "leaked" and "dead" are still open, but nobody handles them: the        *)
(* handler coroutine has ended by itself, or of an exception.              *)
Peers == {"free", "client", "backend", "leaked", "dead"}

NoFunction == [x \in {} |-> 0]

Without(f, x) == [y \in DOMAIN f \ {x} |-> f[y]]

With(f, x, v) == [y \in DOMAIN f \cup {x} |-> IF y = x THEN v ELSE f[y]]

Init ==
  /\ table = EmptyTable
  /\ connections = NoFunction
  /\ descriptors = NoFunction
  /\ peer = [fd \in Fds |-> "free"]
  /\ announced = [fd \in Fds |-> {}]
  /\ todo = << >>

Idle == todo = << >>

-----------------------------------------------------------------------------
(* Descriptors come and go. *)

LowestFree(fd) ==
  peer[fd] = "free" /\ \A other \in Fds : other < fd => peer[other] # "free"

Accept(fd, kind) ==
  /\ Idle
  /\ LowestFree(fd)
  /\ peer' = [peer EXCEPT ![fd] = kind]
  /\ UNCHANGED << table, connections, descriptors, announced, todo >>

CloseClient(fd) ==
  /\ Idle
  /\ peer[fd] = "client"
  /\ peer' = [peer EXCEPT ![fd] = "free"]
  /\ UNCHANGED << table, connections, descriptors, announced, todo >>

(* the descriptor is closed and handed out again, the maps stay as they are *)
CloseAndEnd(fd) ==
  /\ announced' = [announced EXCEPT ![fd] = {}]
  /\ peer' = [peer EXCEPT ![fd] = IF fd \in DOMAIN connections THEN "free" ELSE "leaked"]
  /\ UNCHANGED << connections, descriptors >>

(* the entries are erased, the descriptor is not closed                    *)
UnregisterAndLeak(fd) ==
  /\ announced' = [announced EXCEPT ![fd] = {}]
  /\ peer' = [peer EXCEPT ![fd] = "leaked"]
  /\ IF fd \in DOMAIN connections
     THEN /\ descriptors' = Without(descriptors, connections[fd])
          /\ connections' = Without(connections, fd)
     ELSE UNCHANGED << connections, descriptors >>

(* UnixSocketListener::UnregisterBackend and the end of the handler: a     *)
(* descriptor without an entry in m_stdnsBackendConnections stays open.    *)
UnregisterAndEnd(fd) ==
  /\ announced' = [announced EXCEPT ![fd] = {}]
  /\ IF fd \in DOMAIN connections
     THEN /\ descriptors' = Without(descriptors, connections[fd])
          /\ connections' = Without(connections, fd)
          /\ peer' = [peer EXCEPT ![fd] = "free"]
     ELSE /\ peer' = [peer EXCEPT ![fd] = "leaked"]
          /\ UNCHANGED << connections, descriptors >>

EndOnly(fd) ==
  /\ peer' = [peer EXCEPT ![fd] = "leaked"]
  /\ UNCHANGED << table, connections, descriptors, announced >>

(* RemoveEndpointsByBackend is not called *)
RemoveNothing(backend) == table

(* the index is not rebuilt *)
RemoveWithoutReindex(backend) ==
  [RemoveEndpointsByBackend(table, backend) EXCEPT !.index = table.index]

(* the survivors are copied from the back of the vector *)
RemoveFromTheBack(backend) ==
  LET t == RemoveEndpointsByBackend(table, backend)
      n == Len(t.endpoints)
  IN  [endpoints |-> [i \in 1..n |-> t.endpoints[n + 1 - i]],
       index     |-> [k \in DOMAIN t.index |-> n + 1 - t.index[k]]]

Remaining(backend) == RemoveEndpointsByBackend(table, backend)

-----------------------------------------------------------------------------
(* Frames, as the handler takes them.  Frames of other types, and payloads *)
(* whose parse fails, change nothing here; a parse may also throw (Dies).  *)

(* FrameType::Registration: RegisterBackend, then the endpoints.           *)
Registration(fd, id, endpoints) ==
  /\ Idle
  /\ peer[fd] = "backend"
  /\ Conforming => announced[fd] \subseteq {id}
  /\ connections' = With(connections, fd, id)
  /\ descriptors' = With(descriptors, id, fd)
  /\ announced' = [announced EXCEPT ![fd] = @ \cup {id}]
  /\ todo' = [i \in DOMAIN endpoints |->
                [path |-> endpoints[i].path, method |-> endpoints[i].method,
                 backend |-> id, auth |-> endpoints[i].auth]]
  /\ UNCHANGED << table, peer >>

(* One turn of the loop over the endpoints.                                *)
EnterEndpoint ==
  /\ todo # << >>
  /\ table' = RegisterEndpoint(table, Head(todo))
  /\ todo' = Tail(todo)
  /\ UNCHANGED << connections, descriptors, peer, announced >>

(* FrameType::Unregistration: the identifier is the payload's.             *)
Unregistration(fd, id) ==
  /\ Idle
  /\ peer[fd] = "backend"
  /\ Conforming => announced[fd] = {id}
  /\ table' = Remaining(id)
  /\ UnregisterAndEnd(fd)
  /\ UNCHANGED todo

(* FrameType::Error, which ReceiveFrame returns at the end of the stream:  *)
(* the handler looks for an identifier that maps to its descriptor and     *)
(* takes the first that the unordered map yields.                          *)
Lost(fd) ==
  /\ Idle
  /\ peer[fd] = "backend"
  /\ \/ \E id \in DOMAIN descriptors :
          /\ descriptors[id] = fd
          /\ table' = Remaining(id)
          /\ UnregisterAndEnd(fd)
     \/ /\ \A id \in DOMAIN descriptors : descriptors[id] # fd
        /\ EndOnly(fd)
  /\ UNCHANGED todo

(* JsonParser throws at a number that does not fit and at a bad \u escape, *)
(* in the payload of a Registration or an Unregistration, or, once entries *)
(* have been made, in the text an endpoint is turned into and parsed       *)
(* again.  The coroutine keeps the exception for nobody and ends; what is  *)
(* open, mapped or in the table stays as it is.                            *)
Dies(fd) ==
  /\ peer[fd] = "backend"
  /\ todo # << >> => descriptors[Head(todo).backend] = fd
  /\ peer' = [peer EXCEPT ![fd] = "dead"]
  /\ todo' = << >>
  /\ UNCHANGED << table, connections, descriptors, announced >>

Next ==
  \/ \E fd \in Fds : Accept(fd, "backend")
  \/ \E fd \in Fds : Accept(fd, "client")
  \/ \E fd \in Fds : CloseClient(fd)
  \/ \E fd \in Fds, id \in BackendIds, eps \in Announcements : Registration(fd, id, eps)
  \/ EnterEndpoint
  \/ \E fd \in Fds, id \in BackendIds : Unregistration(fd, id)
  \/ \E fd \in Fds : Lost(fd)
  \/ \E fd \in Fds : Dies(fd)

Spec == Init /\ [][Next]_vars

-----------------------------------------------------------------------------
(* The types of the maps and of the table, whose index always points into  *)
(* its vector.                                                             *)
TypeOK ==
  /\ TableTyped(table)
  /\ connections \in [DOMAIN connections -> BackendIds]
  /\ DOMAIN connections \subseteq Fds
  /\ descriptors \in [DOMAIN descriptors -> Fds]
  /\ DOMAIN descriptors \subseteq BackendIds
  /\ peer \in [Fds -> Peers]
  /\ announced \in [Fds -> SUBSET BackendIds]
  /\ todo \in Seq(Definitions)

Open(fd) == peer[fd] \in {"backend", "dead"}

(* A connection the listener knows is open: no sequence of registrations,  *)
(* reconnections, unregistrations and deaths of handlers leaves an entry   *)
(* whose descriptor was closed, and may since belong to somebody else.     *)
ConnectionsOpen ==
  \A fd \in DOMAIN connections : peer[fd] \in {"backend", "dead", "leaked"}

(* With backends that keep to one identifier per connection, and however   *)
(* many connections share an identifier, an endpoint in the table always   *)
(* resolves (HasBackend, GetBackendFileDescriptor) to an open connection   *)
(* that registered as the endpoint's backend and nothing else.  It is      *)
(* still being handled, unless its handler died of a payload; then nobody  *)
(* ever takes the route away.                                              *)
RoutesReachTheirBackend ==
  Conforming =>
    \A i \in DOMAIN table.endpoints :
      LET id == table.endpoints[i].backend
      IN  /\ id \in DOMAIN descriptors
          /\ Open(descriptors[id])
          /\ announced[descriptors[id]] = {id}

(* The order of two endpoints in the vector, which decides between         *)
(* overlapping patterns, never flips while both stay registered: not when  *)
(* one is updated, nor when endpoints around them come and go.             *)
PrecedenceStable ==
  [][\A k1, k2 \in DOMAIN table.index \cap DOMAIN table'.index :
       table.index[k1] < table.index[k2] => table'.index[k1] < table'.index[k2]]_table

(* With such backends, once the handler of a connection has come to its    *)
(* end, no endpoint remains of a backend that no other open connection     *)
(* registered.  A handler that dies of an exception removes nothing.       *)
DisconnectRemovesRoutes ==
  [][Conforming =>
       \A fd \in Fds : peer[fd] = "backend" /\ ~Open(fd)' =>
         \A i \in DOMAIN table'.endpoints :
           LET id == table'.endpoints[i].backend
           IN  id \in announced[fd] =>
                 \E other \in Fds \ {fd} : Open(other) /\ id \in announced[other]]_vars

(* A connection that still serves an identifier does not lose its          *)
(* descriptor when its handler comes to its end: of conforming backends,   *)
(* the handler leaves open only those connections that no identifier leads *)
(* to, because they registered nothing or because another connection has   *)
(* taken over.  PROTOCOL.md says of every disconnect that its descriptor   *)
(* is cleaned up; it is not then, nor when a handler dies.                 *)
ServedConnectionsClose ==
  [][Conforming =>
       \A fd \in Fds : peer[fd] = "backend" /\ peer'[fd] = "leaked" =>
         \A id \in DOMAIN descriptors : descriptors[id] # fd]_vars
=============================================================================
