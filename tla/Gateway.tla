------------------------------ MODULE Gateway ------------------------------
(***************************************************************************)
(* GatewayServer::RouteRequest over the components it decides with: the    *)
(* routing table and the listener's maps (BackendRegistry) and the token   *)
(* engine (TokenEngine), which change while clients keep asking.           *)
(*                                                                         *)
(* Between FindEndpoint and the first byte sent to a backend nothing is    *)
(* awaited, so a request is judged, and its connection chosen, in one      *)
(* step.  What happens on the connection then is the module Forwarding.    *)
(***************************************************************************)
EXTENDS BackendRegistry

CONSTANTS
  Users, Spellings, TooLong, Keys, NoKey, AccessExpiry, RefreshExpiry,
  MaxTime, MaxIssued, MaxLogins, MaxLives   (* see TokenEngine              *)

ASSUME GatewayAssumption ==
  /\ NoKey \notin Keys
  /\ {AccessExpiry, RefreshExpiry, MaxTime} \subseteq Nat

VARIABLES
  key, revoked, clock, life, issued,   (* see TokenEngine                   *)
  last                                 (* history: the request the step     *)
                                       (* just taken chose a backend for    *)

(* Tokens are issued for the backends' identifiers; nothing calls          *)
(* RevokeToken from outside the engine.                                    *)
Engine == INSTANCE TokenEngine WITH Servers <- BackendIds, MaxRevoked <- 0

engineVars == << key, revoked, clock, life, issued >>

gatewayVars == << vars, engineVars, last >>

NoToken == << >>

IsRefresh(request) ==
  request.path = << "", "auth", "refresh" >> /\ request.method = "POST"

(* What RouteRequest looks at: the path, the method, the text after        *)
(* "Bearer ", what ValidateRequest makes of query and body (it finds no    *)
(* error, some, or the parser throws), and, on the refresh path and if it  *)
(* comes to that, what the body has for "refresh_token".                   *)
Requests ==
  {request \in [path : Paths, method : Methods, bearer : Engine!Texts \cup {NoToken},
                body : {"valid", "invalid", "throws"},
                refresh : Engine!Texts \cup {NoToken}] :
     request.refresh # NoToken => IsRefresh(request) /\ request.body = "valid"}

NoRequest == [answer |-> "None"]

Unavailable == [answer |-> "Backend not available"]

Delivery(request, endpoint, fd) ==
  [answer |-> "Delivered", endpoint |-> endpoint, fd |-> fd, bearer |-> request.bearer]

GatewayInit ==
  /\ Engine!Init
  /\ Init
  /\ last = NoRequest

-----------------------------------------------------------------------------
(* The stages of RouteRequest. *)

Route(request) == FindEndpoint(table, request.method, request.path)

(* a request without a token is let through *)
AuthorizedWhenSilent(request, endpoint, now) ==
  endpoint.auth /\ request.bearer # NoToken =>
    Engine!ValidAt(request.bearer, "Access", endpoint.backend, now)

Authorized(request, endpoint, now) ==
  endpoint.auth =>
    /\ request.bearer # NoToken
    /\ Engine!ValidAt(request.bearer, "Access", endpoint.backend, now)

(* An answer that is not "Backend not available" is not remembered.        *)
Refuse(answer) ==
  /\ last' = NoRequest
  /\ UNCHANGED engineVars

(* the token may be for any server *)
RefreshAnywhere(request, endpoint) ==
  /\ \E server \in BackendIds : Engine!RefreshTokenPair(request.refresh, server)
  /\ last' = NoRequest

(* ForwardTokenRefreshRequest: no backend is asked, but the token has to   *)
(* be for the backend whose endpoint matched.  The answer is the new pair, *)
(* or "Unauthorized" when the generation fails.                            *)
RefreshHere(request, endpoint) ==
  /\ Engine!RefreshTokenPair(request.refresh, endpoint.backend)
  /\ last' = NoRequest

(* ForwardRequest up to its first await: HasBackend and                    *)
(* GetBackendFileDescriptor.                                               *)
Forward(request, endpoint) ==
  /\ last' = IF endpoint.backend \in DOMAIN descriptors
             THEN Delivery(request, endpoint, descriptors[endpoint.backend])
             ELSE Unavailable
  /\ UNCHANGED engineVars

(* A refusal of an access token needs no reason that shows here: the       *)
(* kernel may refuse to decrypt it (Valid).  The same goes for a refresh   *)
(* token; the access token was judged at an earlier reading of the clock   *)
(* then.  An exception ends the client's coroutine without an answer.      *)
RouteRequest(request) ==
  LET route == Route(request)
      Passes(now) == route.found /\ Authorized(request, route.endpoint, now)
  IN  /\ Idle
      /\ UNCHANGED vars
      /\ \/ /\ ~route.found
            /\ Refuse("Not found")
         \/ /\ route.found /\ route.endpoint.auth
            /\ Refuse("Unauthorized")
         \/ /\ Passes(clock)
            /\ request.body = "throws"
            /\ Refuse("No answer")
         \/ /\ Passes(clock)
            /\ \/ request.body = "invalid"
               \/ request.body = "valid" /\ IsRefresh(request) /\ request.refresh = NoToken
            /\ Refuse("Bad request")
         \/ /\ request.refresh # NoToken
            /\ {earlier \in Engine!Instants : Passes(earlier)} # {}
            /\ RefreshHere(request, route.endpoint) \/ Refuse("Unauthorized")
         \/ /\ Passes(clock)
            /\ request.body = "valid" /\ ~IsRefresh(request)
            /\ Forward(request, route.endpoint)

-----------------------------------------------------------------------------
(* Everything else that happens in between. *)

(* The handlers of the backend connections.                                *)
RegistryStep ==
  /\ Next
  /\ last' = NoRequest
  /\ UNCHANGED engineVars

(* Pairs come from ForwardLoginRequest, which RouteRequest does not call:  *)
(* from the point of view of this process they are issued by somebody else *)
(* who holds its key, and time passes.                                     *)
TokenStep ==
  /\ \/ \E server \in BackendIds, user \in Users : Engine!Login(server, user)
     \/ Engine!Tick
     \/ Engine!SetBack
  /\ last' = NoRequest
  /\ UNCHANGED vars

(* The gateway is started again and knows nothing: the descriptors of a    *)
(* process are closed with it.  The tokens its clients hold remain.        *)
Restart ==
  /\ Engine!Restart
  /\ table' = EmptyTable
  /\ connections' = NoFunction
  /\ descriptors' = NoFunction
  /\ peer' = [fd \in Fds |-> "free"]
  /\ announced' = [fd \in Fds |-> {}]
  /\ todo' = << >>
  /\ last' = NoRequest

GatewayNext ==
  \/ \E request \in Requests : RouteRequest(request)
  \/ RegistryStep
  \/ TokenStep
  \/ Restart

GatewaySpec == GatewayInit /\ [][GatewayNext]_gatewayVars

-----------------------------------------------------------------------------
(* README.md, "A token issued for user-service cannot be used to access    *)
(* endpoints registered by order-service", over the whole way from the     *)
(* token to the socket: a request to a protected endpoint is written only  *)
(* to an open connection of a backend, one that announced itself as the    *)
(* server the client's live access token was issued for, however backends  *)
(* come, go, reconnect, die and take over each other's routes meanwhile.   *)
DeliveredWhereIssued ==
  Conforming /\ last.answer = "Delivered" =>
    /\ Open(last.fd)
    /\ announced[last.fd] = {last.endpoint.backend}
    /\ last.endpoint.auth =>
         LET token == Engine!Content(last.bearer)
         IN  /\ last.bearer # NoToken
             /\ token.type = "Access"
             /\ token.server = last.endpoint.backend
             /\ token.key = key
             /\ token.expiry > clock

(* PROTOCOL.md says that a client whose backend has disconnected "between  *)
(* routing and forwarding" is answered "Backend not available".  As long   *)
(* as backends keep to one identifier the code has no such moment: no      *)
(* route outlives the entries that lead to a connection of its backend,    *)
(* in whatever order registrations, takeovers, disconnections, deaths of   *)
(* handlers and restarts come.                                             *)
NeverUnavailable == Conforming => last.answer # "Backend not available"

(* PROTOCOL.md has the gateway handle refreshes "entirely [...] without    *)
(* backend involvement"; in the code a refresh token is spent only while   *)
(* a connection of the backend it was issued for is open, and an endpoint  *)
(* of that backend matches POST /auth/refresh, and a request that spends   *)
(* one issues at most its successors; no other request touches the engine. *)
RefreshNeedsItsBackend ==
  [][Conforming /\ life' = life =>
       \A text \in revoked' \ revoked :
         /\ Engine!Content(text).type = "Refresh"
         /\ \E fd \in Fds : Open(fd) /\ announced[fd] = {Engine!Content(text).server}
         /\ \A new \in DOMAIN issued' \ DOMAIN issued : issued'[new].parent = text]_gatewayVars
=============================================================================
