# Dynamic REST API gateway: specifications, model checking and proofs

The gateway accepts HTTP requests on a TCP port and forwards them, as binary
frames, to backends that connect to a Unix socket and register their endpoints
there. One thread runs everything: C++20 coroutines that wait for descriptors in
an epoll loop. This directory holds TLA+ specifications of it, the
configurations with which TLC checks them, and proofs that TLAPS checks.

All source paths below are relative to the repository.

## 1. Inventory

| Component | State | Operations | Hard to get right, hard to test |
|---|---|---|---|
| Event loop and coroutines (`src/core/EventLoop.cpp`, `include/gateway/core/Coroutine.h`) | epoll registrations (one per descriptor, one-shot, with a coroutine handle), queue of scheduled coroutines, running flag | `Run`, `ProcessPendingCoroutines`, `ScheduleCoroutine`, `EpollAwaiter::await_suspend` | two coroutines on one descriptor; handles that outlive their frame |
| Frame protocol (`src/transport/FrameProtocol.cpp`) | none: the caller's read buffer | `SendFrame`, `ReceiveFrame`, serialisation | partial reads and writes; the end of the stream becomes an Error frame |
| Backend listener (`src/transport/UnixSocketListener.cpp`) | descriptor -> identifier, identifier -> descriptor | accept loop, `RegisterBackend`, `UnregisterBackend`, lookups | the two maps are not inverse to each other; descriptor numbers are reused |
| Backend handler (`GatewayServer::HandleBackendConnection` in `src/main.cpp`) | one coroutine per connection, its read buffer | reactions to Registration, Unregistration, Heartbeat, Error and other frames | order of frames, connections sharing an identifier, disconnects, payloads at which the JSON parser throws |
| Routing table (`src/routing/RoutingTable.cpp`, `EndpointDefinition.cpp`) | vector of endpoints, index from keys to positions | register, unregister, remove by backend, clear, find | swap-and-pop and rebuild keep index and vector in step; precedence of overlapping patterns; capacity |
| Forwarder (`src/forwarding/BackendForwarder.cpp`, `RequestFormatter.cpp`) | a read buffer per descriptor | `ForwardRequest`, `SendAndReceive`, login, refresh | which response belongs to which request; state copied over an await |
| Token engine (`src/auth/TokenEngine.cpp`) | key, revoked tokens, clock | generate, validate, refresh (rotate), revoke | failure between revocation and generation, the clock's two readings in a rotation, several texts of one token, restarts |
| HTTP connections (`src/transport/TcpListener.cpp`, `HttpParser.cpp`, `GatewayServer::HandleClientConnection`) | one coroutine per connection: what was read, what was written | accept, read headers, read the body, route, write, close | requests cut into reads anywhere, clients that stop or vanish, texts that throw, descriptors that run out |
| Validation (`src/routing/ParameterSchema.cpp`, `src/validation/ValidationEngine.cpp`) | the schemas of an endpoint | parse a schema, validate a request | bounds, conversions between number types, what is reported together |
| Request routing (`GatewayServer::RouteRequest`) | none | find, authenticate, validate, refresh or forward | order of the stages; routes, connections and tokens that change from one request to the next |
| JSON parser (`src/validation/JsonParser.cpp`) | none: a value and a position | parse, serialise | what it accepts beyond JSON; keys that are there twice; numbers and escapes that throw |
| Configuration (`src/core/Configuration.cpp`) | the settings | environment, command line, files | the order of the sources; a value that is broken half-way |
| Logger (`src/logging/Logger.cpp`) | level, mutex, file | log an entry to stdout and to the file | entered again by a signal handler on the same thread; a buffer that nothing flushes |
| Startup, signals, shutdown (`src/main.cpp`) | the loop's running flag, listeners, the socket's file | `Initialize`, `Run`, `HandleSignal`, destructors | a failure at every stage; a signal between any two steps |
| AES-GCM, responses | none | encrypt, decrypt; format | |

How they interact: the two accept loops schedule a coroutine per connection with
the event loop. A client's coroutine calls the parser and `RouteRequest`, which
reads the routing table, asks the token engine and the validation engine, and
awaits the forwarder. The forwarder asks the backend listener for a descriptor
and then reads and writes it itself, while the handler of that backend's
connection, the only writer of the routing table and of the listener's maps,
waits on the same descriptor. The mutexes in the routing table, the token engine
and the forwarder protect nothing today, since there is one thread; every stretch
of a coroutine between two awaits is atomic.

The properties that make each component correct are those of section 3. The
hazards they were chosen for are listed, each at its line, in `PROJECT.json`
under `hazards`.

## 2. Modules

| Module | Models | State and actions |
|---|---|---|
| `Endpoints` | definitions, path matching and the operations of a routing table, as values | operators only; a path is the sequence of the pieces of its text between slashes |
| `RoutingTable` | the class as a state machine | `table` (vector and index); `Register`, `Unregister`, `RemoveBackend`, `Clear` |
| `RouteMap` | the abstract specification: a bounded map from keys to definitions | `routes`; `Put`, `Drop...` |
| `BackendRegistry` | the listener's maps, the routing table and what each descriptor of the process is | `connections`, `descriptors`, `table`, `peer`; one action per frame type, `EnterEndpoint` for the loop over a registration's endpoints, `Lost` for the end of the stream, `Dies` for a payload at which the parser throws (the peer is `dead`: its descriptor, entries and endpoints stay), clients that come and go |
| `RequestService` | the abstract specification of forwarding: asked, served, answered | `status`; `Ask`, `Serve`, `Deliver`, `Refuse` (too large for a frame), `Drop` (the response cannot be parsed) (`Safety`), with their fairness (`Spec`) |
| `Forwarding` | handler and forwarded requests on shared descriptors, under the epoll loop | `armed`, `batch`, `running`, a `pc` and buffers per coroutine, both directions of each stream; one action per stretch between awaits, cut further at each read and write; `Oversized` requests are refused, `Unreadable` payloads end the coroutine that parses them (`Die`); backends as environment |
| `TokenEngine` | issue, validation, rotation, revocation, clock, restart | `key`, `revoked` (texts), `clock`, `issued` (history); a text is a token and one of its spellings; the clock may move between the two readings of a rotation |
| `ClientConnection` | the life of an HTTP connection, and its client | a `pc` per connection, pieces sent, read, routed, written; where a text throws, the coroutine is dead and its descriptor stays; the client's own steps as environment |
| `JsonText` | the JSON parser, over tokens; the grammar of JSON, for reference | operators only; the parsing functions, which call each other, are one recursive function of which and where; two kinds of token throw, an `Unreadable` number and a `Misspelt` escape |
| `RequestValidation` | schemas as parsed, and the errors of a request | `declared` (history), `schemas`, `request`, `errors`, `outcome`; `Declare`, `Validate` |
| `RequestFormatter` | what is forwarded of a request's body | operators only; `Serialize` is recursive like the code, and so is what `EscapeJsonString` leaves of an unparsable body's control bytes |
| `Gateway` | `RouteRequest`, over `BackendRegistry` and `TokenEngine`, with restarts | theirs, and `last`, what the last step did with a request; `RouteRequest`, `RegistryStep`, `TokenStep`, `Restart` |
| `Configuration` | the sources of settings and what they do to them; what a setting ought to be | operators only; a file is settings, `Malformed` (no JSON object: reported) or `Garbled` (the parser throws: the process aborts) |
| `Lifecycle` | one run of the process: startup, logger, loop, signals, exit | the thread as a `stack` of frames, each a list of instructions; a signal pushes a frame between any two of them; an entry goes to the stream's buffer (`written.file`) and at some time to the disk (`written.disk`); a launch says whether its socket path fits into `sun_path` |
| `Endpoints_proofs`, `RoutingTable_proofs`, `TokenEngine_proofs`, `Gateway_proofs` (with those of `BackendRegistry`), `ClientConnection_proofs`, `Forwarding_proofs`, `Lifecycle_proofs`, `RequestValidation_proofs` (with those of `JsonText`) | the proofs | |
| `MC...` | constants for TLC | |

Composition: `RoutingTable`, `RouteMap` and `BackendRegistry` are built on the
operators of `Endpoints`; `RoutingTable` implements `RouteMap` (the map that a
table stands for is `Routes`, the refinement mapping). `Forwarding` keeps of the
registry whether a backend is registered, and takes up what `BackendRegistry`
leaves open, namely how frames reach the handler. `ClientConnection` leaves open
how a routed request is answered (`Respond`), which is what `Forwarding` is about.
`Gateway` extends `BackendRegistry` and instantiates `TokenEngine` with the
backends as its servers: every step of either is a step of it, beside the
requests, which read both. `Forwarding` implements `RequestService` under the
conditions of `forwarding_sequential`. `RequestValidation` extends `JsonText`, and
`RequestFormatter` extends it with what is forwarded of the requests it lets
through; `Lifecycle` extends `Configuration`.

`Gateway` takes from `RequestValidation` only whether a request is valid, and
ends where `Forwarding` begins: nothing is awaited between `FindEndpoint` and
the choice of the connection, so all of that is one step. No request logs
anybody in: `RouteRequest` does not call `ForwardLoginRequest`, so that in the
program as it is the first token pair of a session comes from somewhere else
(`TokenStep`).

What is abstracted. Frames travel in two pieces, requests and responses in a few,
so that every read and write may be partial; their texts are not modelled. A text
in `RequestValidation` is its length and what `strtoll` and `strtod` make of it; a
body is a sequence of tokens, punctuation marks, blanks and scalars, and what is
below a token (the digits of a number, the escapes of a string) is left out, but
for what makes `std::stoll`, `std::stod` and `std::stoul` throw and for whether a
string has raw control bytes. `Configuration` keeps five settings, one of each
kind; the others are parsed by the same code. A key is two halves, so that it may
break off in between. `Lifecycle` leaves the coroutines out but for the entries
they log. Tokens are known by their order of issue: texts that decode to none the
gateway issued are left out. A token has several spellings, since
`Base64UrlDecode` stops at a padding sign and ignores the last bits; the
revocation set holds spellings. A token decrypts under no key but the one that
encrypted it, and under that one unless the kernel refuses at the moment (no
descriptor left, no memory), so that validation may fail for a token with which
nothing is wrong. A frame's header and payload are told apart because a reader
that comes in the middle of a frame finds a payload where it expects a header.

A limit of the whole: the accept loops destroy the coroutine of a connection
before it is resumed (finding `clients_owned`), which is undefined behaviour. A
build dies on the first connection. `ClientConnection` has both outcomes; the
other modules describe the program from there on under the outcome that the frame
survives, which is what a repaired program does. The disagreements that
`Forwarding` reports were also observed in such a repaired build.

## 3. Runs

| Run | Shows | Bounds, and why they are enough |
|---|---|---|
| `routing` | `IndexConsistent`, `RemovalSparesOthers`, `ImplementsRouteMap` for all sequences of operations | five paths (two overlapping patterns, a literal both match, the literal with a trailing slash, the empty text), two backends, three places for four keys: full tables, updates in full tables and moves into every position happen |
| `gateway` | a protected request is written only to the connection of the backend its live access token was issued for (`DeliveredWhereIssued`); whatever backend a request is routed to has an entry that leads to an open connection (`NeverUnavailable`: the answer "Backend not available" does not happen); a refresh token is spent only while its backend is connected and buys only its successors (`RefreshNeedsItsBackend`) | two backends on two descriptors that announce overlapping endpoints, one protected; handlers that die of payloads; a login and a rotation, or two logins; clocks; a restart; 174 thousand states |
| `lifecycle` | each setting is what the documented precedence says, unless a `--config` after a flag gives it again (`EffectiveSettings`); the key is whole unless a later one broke off (`KeyWholeUnlessBroken`); the file's stream gets what stdout gets, the disk a beginning of it, and all of it when the process ends by itself (`LogsAgree`); a signal can block the thread only at a level that lets its entries through (`QuietSignalsNeverBlock`); a process that ends leaves no listener and, if its socket path fits into `sun_path`, no socket file (`LeavesNothingBehind`); a signal that reaches the loop ends it, or the thread is stuck (`StopsWhenAsked`) | four environments and all command lines of up to two arguments of twelve, six of them files (one malformed, one at which the parser throws), so that any two sources disagree on any setting; both signals, in two launches, with a socket path that fits and one that does not; one entry of a coroutine; 786 thousand states |
| `registry` | routes lead to an open connection of their backend (`RoutesReachTheirBackend`), entries to open descriptors (`ConnectionsOpen`), a handler that comes to its end removes the routes of its connection (`DisconnectRemovesRoutes`) and, while an identifier leads to it, closes its descriptor (`ServedConnectionsClose`), precedence never flips (`PrecedenceStable`) | three descriptors: two connections of one backend beside another descriptor; announcements of one and of two endpoints, four keys for three places, so that the table refuses, and endpoints are removed before, between and after those that stay; payloads that kill a handler at any time; 130 thousand states |
| `forwarding_sequential` | with one request at a time per backend, no heartbeats and no disconnects: `AnswersMatch`, and the refinement `ImplementsService`, by which every request is answered once, but for the one whose response cannot be parsed | two backends, four requests: one backend serves two requests in a row while the other works; one request is too large for a frame, one response throws, and one backend's registration may; 216 thousand states |
| `forwarding_any` | whatever happens: wake-ups are sound (`WakeupsSound`), no response goes to two clients (`ResponsesNotShared`), no connection inherits bytes (`NoInheritedBytes`) | one backend, two connections in a row, two concurrent requests, one heartbeat, error frames, disconnects at any time, a handler and a request that may die of a payload; 361 thousand states |
| `forwarding_concurrent` | finding: a client gets another client's response | two concurrent requests |
| `forwarding_disconnect` | finding: after a forwarded request a disconnect is not noticed | one request |
| `tokens` | one spelling of a refresh token buys one pair (`RefreshOnce`), rotation never widens a session (`RotationKeepsSession`), a text rejected for what it is stays rejected (`RejectedForGood`) | six tokens: a login and two rotations, or two logins; two spellings of each; a refresh token that outlives its access token; a clock that moves between two readings and is set back; kernels that refuse; a restart; 452 thousand states |
| `clients` | `RoutedAsSent`, `ClosedAfterResponse`, `EventuallyClosed`, `EventuallyAccepted` | two clients for one descriptor, eight texts: headers in one or two pieces, every kind of Content-Length, a request line that does not parse, a query and a JSON body at which a parser throws; responses of two writes |
| `clients_owned` | finding: the coroutine of a connection is destroyed before it runs | one connection |
| `validation` | for declarations that the code reads as they are written, the errors are exactly the parameters not met (`ErrorsExact`); over tokens, the parser accepts what starts with a value of the grammar and containers cut short, and throws only at two kinds of token (`ParsesExactly`); the backend gets what was validated, and complete JSON unless a body that does not parse has control bytes other than `\n`, `\r` and `\t` (`ForwardsWhatItJudged`) | all pairs of fourteen declarations (an endpoint may have the same name in two places), texts on, below and above each bound; for endpoints without parameters all bodies of up to four tokens of fifteen, and every cut, change and omission of a token of five longer ones; 227 thousand states |

The bounds on heartbeats, connections, requests in flight, time, tokens and
lives are constants named `Max...`, each used in the guards of the environment's
actions only (or, for `MaxIssued`, where a longer history would begin).
`MaxEndpoints` and `MaxFd` are limits of the program itself.

Deadlock checking is off where a behaviour may end: all requests answered, all
descriptors leaked, the process dead, the clock at its bound.

Conditions that runs set as constants: `Settled` makes clients of
`forwarding_sequential` wait for a backend whose handler has sent its
acknowledgment; before that, a request and the handler compete for the
descriptor, and the acknowledgment can be lost. `Conforming` keeps a connection
to one identifier, as PROTOCOL.md describes; the properties that need it say so,
the others hold without it.

### Fairness

`Forwarding`: the event loop is a thread that never blocks except in `epoll_wait`
with a timeout, so it is weakly fair as a whole; nothing is assumed about which of
the ready coroutines it resumes first. Backends register, read and answer.
`ClientConnection`: each coroutine that can go on does (only it waits on its
descriptor); accepting is strongly fair per client because the kernel's queue of
connections is first come, first served, while descriptors come and go. Clients
read what they are sent, and send what they announced or leave: the gateway has no
timeouts (the configured ones are never applied), so a silent client holds its
connection for ever. `EventuallyClosed` speaks of texts at which no parser throws,
in the request or in the response (`Harmless`), and takes for granted that such a
request is answered once routed; `Forwarding` shows when that is so
(`ImplementsService`), and that with two concurrent requests it may not be.
`EventuallyAccepted` excepts the case that every descriptor is held by a coroutine
that an exception ended. `Lifecycle`: the thread executes; `epoll_wait` returns
within 100 ms. Coroutines need not log, and signals need not arrive.

## 4. Findings

Three runs end in a violation of something the repository's documents say; each is
listed in `PROJECT.json` with the sentence it contradicts. The accept loop
destroys the coroutine it schedules (`clients_owned`); concurrent requests to one
backend get each other's responses (`forwarding_concurrent`); disconnects go
unnoticed once a request has been forwarded (`forwarding_disconnect`).

Other differences between documents and code. The models contain them as the
code has them. Where a property of a passing run would follow the documents and
the code does not, the property says which case it leaves out (the operator is
named below); none of them states the opposite of a document.

Exceptions. The JSON parser throws at an integer that 64 bits do not hold
(`JsonParser.cpp:551`, `:556`) and at a `\u` without hexadecimal digits (`:627`);
`UrlDecode` throws at a `%` without them (`HttpParser.cpp:261`); so does the
conversion of a Content-Length. `Coroutine.h:258` swallows the exception and the
coroutine ends where it is.

- A backend's handler that dies of a Registration or an Unregistration
  (`main.cpp:359`, `:417`) leaves its routes, its entries and its descriptor:
  lines 447-466 are not reached (`Dies`). PROTOCOL.md:348-352 says that they are
  cleaned up when the backend goes. `DisconnectRemovesRoutes` and
  `ServedConnectionsClose` speak of handlers that come to their end.
- A client gets neither an answer nor a close if its query, its body or the
  response to it throws (`BackendForwarder.cpp:301`). PROTOCOL.md:202 has a response
  that is not JSON returned as it is (`Harmless`, `Drop`).
- A configuration file at which the parser throws aborts the process
  (`Garbled`).

Backends.

- A connection that no identifier leads to, because it registered nothing or
  because another connection took its identifier over, is not closed when it
  ends (`peer = "leaked"`); PROTOCOL.md:351 says that the descriptor is cleaned
  up. `ServedConnectionsClose` states what does hold.
- PROTOCOL.md:354 describes the answer "Backend not available". With backends that
  keep to one identifier it is never given (`NeverUnavailable`): nothing is
  awaited between routing and forwarding, and what stays in the table after a
  handler's death stays in the maps as well.

Tokens.

- README.md:412-413 and DEPLOYMENT.md:558 say that a refresh token that was used is
  rejected. Its text is; the same token with a padding sign, or with other
  bits at its end, is another text, and buys another pair. `RefreshOnce` speaks of
  texts.
- A token pair is never issued: PROTOCOL.md:204-245 describes a login that no
  request reaches (`BackendForwarder::ForwardLoginRequest` has no caller).
- POST `/auth/refresh` is answered by the gateway alone only if some backend
  registered an endpoint that matches it, and for the tokens of that backend
  only; PROTOCOL.md:275 has it handled without the backends.

Requests and validation.

- A request whose headers come in two reads gets a 400, though ARCHITECTURE.md:75 says
  that incomplete requests are buffered and parsed again.
- The bounds of a float parameter are stored as integer bounds
  (`ParameterSchema.cpp:152`), which the validation of floats does not read;
  API_VALIDATION.md:121-122 says they are compared, and :338 quotes the error
  (`ReadWhole`). Lengths are cut to 32 bits, and an integer's bound that is no
  integer is read as 0.
- A body must be a JSON object (API_VALIDATION.md:233); one that is another value, is
  cut short, or has more text after it is accepted. The constraints of an empty
  string in a body are not checked (`LookedAt`).
- The parser accepts a text that ends right after a bracket or a comma of its
  outermost container, and ignores what follows a value.
- A body is not included "as-is" (`RequestFormatter.cpp:180`): it is written out
  from its value, with six significant digits of a float and without what
  followed the value. A body that does not parse is sent as a string in which
  only five characters are escaped (`RequestFormatter.cpp:199-235`), as are paths
  and query texts; with another control byte in it the payload is not JSON.
- `x-authenticated-user` is added to the request (`main.cpp:271`) and then
  filtered out (`RequestFormatter.cpp:160-164`); PROTOCOL.md:191 says it is
  forwarded.

The process.

- A file overrides the flags before `--config`; CONFIGURATION.md:3-9 and :154-155 and
  README.md:93-95 order flags above files wherever they stand (`FlagsLast`).
- A key that breaks off at a wrong digit leaves its first bytes in the key in
  use; CONFIGURATION.md:111 and :162 have it rejected (`KeyWholeUnlessBroken`).
- A port is cut to 16 bits, where CONFIGURATION.md:160 has it be valid.
- A socket path longer than `sun_path` is bound cut off (`UnixSocketListener.cpp:43`)
  and unlinked whole (`:36`, `:134`), so that the file stays, and the next start
  cannot bind; CONFIGURATION.md:161 has it removed (`launch.fits`).
- ARCHITECTURE.md:319-320 promises a graceful shutdown on SIGINT and SIGTERM: a
  signal that comes while an entry is being written deadlocks the thread with
  itself, and one that comes before the loop's first line is lost.
- The log file is written without a flush, which only happens when the buffer
  is full or the process ends by itself: `Logger::Flush` has no caller. A process
  that is killed or stuck leaves a file that lacks any number of the last entries.

## 5. Proofs

TLC checks the instances above; the theorems hold for every value of the
constants that the named assumptions allow. What these say:

| Assumption | Says | Why |
|---|---|---|
| `EndpointsAssumption` | the capacity is a natural number | a constant of the program |
| `RegistryAssumption` | so is the number of descriptors; announcements are sequences of paths, methods and flags | what the parsed JSON of a registration can be |
| `TokenAssumption` | expiry times and bounds are natural numbers; `NoKey` is no key; what is too long to be accepted is some triples of server, user and spelling | unsigned in the code; an engine without key has none |
| `ClientAssumption` | sizes are natural numbers above zero, texts are records of them | bytes of a request, a buffer, a response |
| `ForwardingAssumption` | coroutines are told apart, bounds are natural numbers, backends are finitely many, what is oversized or unreadable is among the requests and the backends | the batch of an `epoll_wait` is a sequence of the ready registrations, which there must be finitely many of; descriptors are |
| `ConfigurationAssumption` | a port has at least one value; `Malformed` is no number and not the default address, nor is it `Garbled` | `Malformed` stands for texts that are neither |
| `GatewayAssumption` | expiry times are natural numbers; `NoKey` is no key | as for the token engine, which is instantiated |
| `ValidationAssumption` | declarations, texts and bodies are of the forms given there: a body is a sequence of tokens, of any length; a numeral has at least one character; `Word` is above zero | what the parsed JSON of a registration, a request line and a read body can be |
| `LifecycleAssumption` | each text of an environment, a file or a command line is of its setting's form, or `Malformed`, a file's also `Garbled`; no variable gives `stdout`, and any text is an address; the socket path fits into `sun_path` or it does not | what `getenv`, `argv` and a parsed file can give; an empty socket path is left out, and the disk takes what it is given |

### The routing table, the registry, tokens and their composition

- `Endpoints_proofs`: each operation of a routing table, as lemmas about the
  operators. `RegisterEndpoint`, `UnregisterEndpoint` and
  `RemoveEndpointsByBackend` keep `TableTyped` and `TableConsistent`; the rank of
  a survivor is a bijection onto the positions of the rebuilt vector, and keeps
  the order; what they do to the map that the table stands for.
- `RoutingTable_proofs`: `TableTyped /\ TableConsistent` is inductive. Neither
  half is on its own: `UnregisterEndpoint` fills the hole that the index names,
  which is the right one only if the index agrees with the vector, and a rebuilt
  index stays within the vector only if positions did before. From it follow
  `TypeCorrect`, `IndexAgrees`, `RemovalSpares` and `Refinement`, the
  implementation of `RouteMap`.
- `Gateway_proofs`, the registry: `RoutesReachTheirBackend` is not inductive: a
  connection may share its identifier with another that ends first. The invariant
  `IInv` adds that an identifier resolves to a connection that announced it, that
  entries and announcements agree on every connection, and that endpoints still to
  be entered belong to a registered backend. A handler that is dead counts as one
  that is still there (`Known`): its descriptor is open and its entries stay with
  it. Theorems: `TypeCorrect`, `ConnectionsAreOpen`, `RoutesReach`,
  `PrecedenceIsStable`, `DisconnectsRemoveRoutes`, `ServedConnectionsAreClosed`.
- `TokenEngine_proofs`: that a text buys one pair needs what `RefreshOnce`
  does not say, namely that an exchanged text stays revoked as long as the
  process lives, and that no token comes from a later life (`Spent`); `IInv` is
  `TypeOK`, `Spent` and `RefreshOnce`. The lemma `IssueStep` covers logins and
  rotations at once. `RotationKeepsSession` and `RejectedForGood` are properties of a
  step: the first compares the parent with the clock before the step and the
  pair with the clock after it, between which it may have moved; the second
  speaks of what no later step makes acceptable. Theorems: `TypeCorrect`,
  `RefreshedOnce`, `SessionKept`, `StaysRejected`.
- `Gateway_proofs`, the composition: the invariants of the registry and of the
  token engine hold together, since a step of one leaves the other alone and a
  restart establishes the registry's anew; the engine's facts are proved here for
  the instance. With them, `DeliveriesAreWhereIssued` follows from what the
  lookups find at the moment of the request, `BackendsAreAvailable` from the
  registry's invariant, `RefreshesNeedTheirBackend` from both. `Conforming` is a
  hypothesis of all three properties. `EngineImplemented`: the composition
  implements `TokenEngine`, a refresh being the one thing a request does to it.
  That a dead handler's routes lead somewhere is part of the registry's invariant,
  so that `BackendsAreAvailable` holds through deaths too.

### Connections

`ClientConnection_proofs`. `RoutedAsSent` speaks of the moment of routing, when the
handler has left the loop that reads the body. The invariant adds what is
true within it: all headers were read, a length was announced, and the body is
not complete (`BodyAwaited`); nothing was read before the first read (`Unread`);
and a handle is pending once, of a coroutine that has not started (`Queued`), so
that no connection is handled twice. Theorems: `TypeCorrectness`,
`RequestsRoutedAsSent`, `WholeResponseBeforeClose`.

### Forwarding

`Forwarding_proofs` needs four invariants, each resting on those before it.

1. `Scheduling` is about epoll alone. That a wake-up is sound (`WakeupsAreSound`)
   says nothing of how registrations change hands: an `EPOLL_CTL_MOD` by a request
   silently replaces the handler's. The invariant says so: whenever a request was
   resumed by the descriptor, the handler of the connection waits and nothing will
   resume it (`Lost`); a coroutine that an exception ended waits for nothing. From
   this `NothingInherited` follows by a detour: bytes are left in the forwarder's
   buffer only where a request has read, a connection on which one has read is
   never closed again, and so its descriptor is not reused. It is the bug of
   `forwarding_disconnect` that makes `NoInheritedBytes` true.
2. `StreamsTyped`: every stream and buffer holds pieces of frames (`TypesKept`).
3. `OneCurrent /\ Ledger`, for `ResponsesKeptApart`. A request's frame, the
   backend's debt and its response are one thing that is in one place at a time:
   still with the request, on its way, with the backend, on its way back, or
   taken (`Exclusive`). A response is copied when a request copies the
   forwarder's buffer before an await; the two copies are not two responses
   because at most one request per connection reads with a live copy, and
   the other's is replaced (`OneCurrent`, `Live`).
4. `Sequential`, under `OneAtATime`, the constants of `forwarding_sequential` but
   for the sets: the bytes of a connection, from the handler's buffer through both
   streams to the request's buffer, are exactly what its stage says (`Joining`,
   `Acknowledging`, `Acknowledged`, `Serving`, or `Perished` where the
   registration killed the handler; and `Asked`, `Pending`, `Replied`), and a
   request that is over has its response or a reason to have none (`Ended`).
   `EveryAnswerMatches` follows: each answer is the response to its own request.
   `ServiceImplemented`, with backends that answer with responses, is the safety
   half of `ImplementsService`: a step moves at most one request, by one stage.
   `OneAtATime` is a hypothesis and not a property of the gateway, which bounds
   nothing; without it the first is false (`forwarding_concurrent`).

The bounds `MaxHeartbeats` and `MaxConnections` are any natural numbers here, and
so is `MaxInFlight` but for 4.

### The life of the process

`Lifecycle_proofs`. What is true of the settings, the listeners or the log
depends on how far the thread is, and a signal may have put a handler over it
anywhere. The invariant `IInv` therefore says where in its program each frame
is (`MainFrame`, `HandlerFrame`): what is left of `WriteLogEntry`, then calls of
the logger, then what is left of the program; and what main's place says of the
rest of the state (`Reached`): which listeners may be open, whether handlers are
installed, how many sources have been applied. `Mutex` says that the frame
inside `lock_guard` holds the mutex and no other, `Ledger` that the file's stream
has what stdout has but for the entry that is between the two, and the disk a
beginning of it, `Ended` what is left when the process is no more.

- `SettingsAsGiven`, `KeyFromWholeText`: the settings after n sources are what
  the first n say (`SettingsUpTo`), by induction over the steps of the program
  and not over the data: a source changes the last giver of a setting, or
  nothing (`SettingStep`, `KeyStep`). That the last of them is the one that the
  documented precedence names, when no file follows a flag for the same setting,
  is a fact about sequences of sources (`LastSource`, by well-founded induction on
  the sources from a place on, `PrecedenceIsOrder`). The command line may have any
  length.
- `FileFollowsStdout` is `Ledger` with `Ended`, since a beginning stays one when
  entries are added (`PrefixStays`); `NothingLeftBehind` is part of `IInv`.
- `QuietNeverStuck`: main does not wait for a mutex that it holds itself, so the
  one that waits is a handler, and a handler writes only entries of level info.
- `TypeCorrectness`: that the thread has at most two handlers over main rests on
  each of the two signals having at most one frame, which the invariant carries
  (in the model a signal arrives once; in the program it is blocked while its
  handler runs).

TLC cannot evaluate this `IInv`, which quantifies over sequences; it checks what
follows from it, on the run `lifecycle`.

### JSON texts and validation

`RequestValidation_proofs`. What the parser makes of a text, and what the grammar
says of it, are recursive functions. The theorems hold for texts of any length
and depth, so they need induction, and the library's induction theorems cannot
be used (they take an operator as a parameter). It is done with sets instead: the
numbers where a claim fails would have a least one (`LeastNatural`), which
the step of the induction refutes. `FromZero` and `FromTheEnd` say so for the two
directions that occur.

1. The definitions have a solution (`ParserEquation`, `GrammarEquation`). What a
   parsing function makes of a place depends only on what the others make of less
   text: a container starts with a value, so it counts for more (`Left`,
   `ParseLocal`). Hence `SolvedAll`: for every n there is a function that is
   the parser where less than n of the text is left. The same goes for the
   grammar by the width of the part (`Width`, `DerivedAll`).
2. Soundness, from the end of the text to its start (`SoundEverywhere`): what
   is read as a value is one, or is cut short; what is read as a list ends at its
   bracket, or with the text. `AcceptsOnlyValues` is this at the first place.
3. Completeness (`CompleteEverywhere`), in the same direction: where the grammar
   finds a value or a list, the parser reads up to its end, unless it meets a
   token that throws, a number that does not fit or a misspelt escape; it throws
   only there (`ThrowsOnlyThere`). `AcceptsAllValues`.
4. What `GetMember` finds. `Written` names the value of a key by brackets, without
   the parser: the last key of that name at depth one. That this is what
   the parser keeps needs that values are balanced, so that the keys of
   inner objects are not at depth one (`BalancedAt`, by width), that each member
   read has one such key (`MembersMatchEverywhere`), and that adding the members
   one after the other leaves the last value of each name, and each name once
   (`SetMembersLast`). `WrittenIsMember`.
5. `IInv`: schemas are those of the declarations, with 32-bit lengths, and the
   request is one that a client can send; `SchemaErrors`, that the errors are
   those of the schemas. `ErrorsExact` is about declarations as they were written,
   so that a third step compares the two: a declaration that is read whole says
   what its schema says (`ReadAs`, `WholeObeys`, `WholeMeets`, `SchemasDecide`).
   The errors of a text or of a field of the body are that its parameter is not
   met (`TextErrors`, `FieldErrors`, `BodyErrors`, type by type in `TextObeys` and
   `FieldObeys`), by 2 to 4 for what the body gives. Theorems:
   `RequestTypeCorrect`, `ParserExact`, `ErrorsAreExact`.

`ValidationAssumption` has numerals not be empty because the code leaves fields
whose text is empty unchecked, whatever their type.

### Only model-checked

Liveness: `EventuallyClosed`, `EventuallyAccepted`, `StopsWhenAsked`, and of
`ImplementsService` that what is asked is answered; TLAPS does not do fairness.
`ForwardsWhatItJudged`: `Serialize` goes down a value, which is of no set that a
recursive function could have for its domain, so it is a `RECURSIVE` operator, and
the installed provers do not take these. The run `validation` checks it over
its bounded texts.

## 6. Not modelled

AES-GCM (nothing decrypts under another key; what the kernel may refuse is in the
model) and the formatting of HTTP responses. Of the
JSON parser, what is below a token: it takes `[01]`, `[1.]` and raw control
characters in strings, reads an escape that starts with a hexadecimal digit, and
`ParsesExactly` says nothing of these. Of the forwarded payload, all but the body.
The scanning of the request line, of headers and of query strings, but for
whether it succeeds. `ForwardLoginRequest` with its two frames,
`HttpParser::IsRequestComplete`, `EventLoop::ModifyFileDescriptor`, the event
loop's callbacks and `Logger::Flush` have no caller; of the login only its effect
on the token engine is modelled (`Login`), although no request reaches it today.
`AddFileDescriptor` registers a listening socket with its number where the loop
expects a coroutine; the accept loops replace that registration before the first
`epoll_wait`, so it is left out. Of signals: what a handler does to the allocator,
and signals that arrive after the event loop is gone.

## 7. Plan

The routing table came first, because everything else reads it; then the
registry that writes it; then forwarding, the program's purpose and its hardest
concurrency; then tokens, connections, validation; then their composition, the
JSON texts, and the life of the process; then the proofs, until every safety
property but `ForwardsWhatItJudged` was a theorem. Left:

1. Login (`HandleLoginResponse` with its two frames), which would share a
   descriptor in the same way if it were reached.
