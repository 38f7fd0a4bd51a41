----------------------------- MODULE Forwarding -----------------------------
(***************************************************************************)
(* Two kinds of coroutine share the descriptor of a backend connection:    *)
(* the connection's handler (GatewayServer::HandleBackendConnection), and  *)
(* the requests being forwarded over it (BackendForwarder::ForwardRequest  *)
(* and SendAndReceive).  Both wait with EpollAwaiter, which keeps ONE      *)
(* one-shot registration per descriptor: whoever waits last replaces the   *)
(* handle of whoever waited before.                                        *)
(*                                                                         *)
(* The event loop is one thread.  It takes a batch of ready registrations  *)
(* from epoll_wait and resumes their coroutines one after the other; a     *)
(* resumed coroutine runs until it waits or ends.  running is the          *)
(* coroutine that runs, and its stretch between two waits is cut into the  *)
(* steps below.  Backends and HTTP clients run concurrently with it.       *)
(*                                                                         *)
(* A coroutine is named by its backend (the handler of its connection) or  *)
(* by its request.  The bytes of a frame travel in two pieces, so that     *)
(* reads and writes may be partial.                                        *)
(***************************************************************************)
EXTENDS Naturals, Sequences, FiniteSets, SequencesExt

CONSTANTS
  Backends,        (* backends, each with one connection at a time          *)
  Requests,        (* HTTP requests that clients send                       *)
  Nobody,          (* no coroutine                                          *)
  MaxInFlight,     (* bound: requests at a time that clients send a backend *)
  MaxHeartbeats,   (* bound: heartbeats a backend sends                     *)
  MaxConnections,  (* bound: connections a backend makes                    *)
  ReplyTypes,      (* frame types a backend answers a request with          *)
  Oversized,       (* requests too large for a frame                        *)
  Unreadable,      (* requests whose response has a payload that the JSON   *)
                   (* parser throws at, and backends whose registrations    *)
                   (* and unregistrations may                               *)
  MayLeave,        (* may a backend unregister or close its connection?     *)
  Settled          (* do clients wait for the registration to be settled?   *)

ASSUME ForwardingAssumption ==
  /\ IsFiniteSet(Backends)
  /\ Backends \cap Requests = {}
  /\ Nobody \notin Backends \cup Requests
  /\ {MaxInFlight, MaxHeartbeats, MaxConnections} \subseteq Nat
  /\ ReplyTypes \subseteq {"Response", "Error"}
  /\ Oversized \subseteq Requests
  /\ Unreadable \subseteq Backends \cup Requests
  /\ {MayLeave, Settled} \subseteq BOOLEAN

Coroutines == Backends \cup Requests

VARIABLES
  armed,       (* epoll: per descriptor, who waits for what                 *)
  batch,       (* coroutines of this epoll_wait still to be resumed         *)
  running,     (* the coroutine that runs, or Nobody                        *)
  pc,          (* where each coroutine stands                               *)
  target,      (* the backend a request is routed to                        *)
  sending,     (* SendFrame: pieces not yet written                         *)
  buffer,      (* the coroutine's own read buffer                           *)
  saved,       (* m_stdsznReadBuffers: the forwarder's buffer per fd        *)
  answer,      (* what a request was answered with                          *)
  registered,  (* is the backend in the routing table and the maps?         *)
  input,       (* per connection, pieces the gateway has not read           *)
  output,      (* per connection, pieces the backend has not read           *)
  peer,        (* the backend's end: "closed", "connected", ... "leaving"   *)
  owed,        (* requests the backend has received and not answered        *)
  beats,       (* heartbeats the backend has sent                           *)
  made         (* connections the backend has made                          *)

gateway == << armed, batch, running, pc, sending, buffer, saved, answer, registered >>
backend == << peer, owed, beats, made >>
vars == << gateway, target, input, output, backend >>

-----------------------------------------------------------------------------
(* Frames and streams. *)

FrameTypes == {"Registration", "Unregistration", "Request", "Response", "Heartbeat", "Error"}

Frame(type, request) == [type |-> type, request |-> request]

(* SerializeFrame appends a piece too many *)
ThreePieces(frame) == [i \in 1..3 |-> [frame |-> frame, part |-> i]]

Pieces(frame) == [i \in 1..2 |-> [frame |-> frame, part |-> i]]

(* HasCompleteFrame: the buffer starts with a header and holds as many     *)
(* bytes as that header asks for.  A buffer that starts within a payload   *)
(* never does: JSON text read as a length is above msc_un32MaxPayloadSize. *)
HasCompleteFrame(buf) == Len(buf) >= 2 /\ buf[1].part = 1

(* DeserializeFrame: type and request are the header's, the payload is     *)
(* whatever follows.                                                       *)
DeserializeFrame(buf) ==
  [frame |-> buf[1].frame, intact |-> buf[2] = Pieces(buf[1].frame)[2]]

DropFirst(seq, n) == SubSeq(seq, n + 1, Len(seq))

(* erase(0, un32BytesConsumed) *)
Rest(buf) == DropFirst(buf, 2)

NoWait == [who |-> Nobody, mode |-> "none"]

Unanswered == [status |-> "none", frame |-> Frame("none", Nobody), intact |-> TRUE]
Failed(status) == [Unanswered EXCEPT !.status = status]
Dropped == Failed("dropped")
Answered(got) == [status |-> "answered", frame |-> got.frame, intact |-> got.intact]

Init ==
  /\ armed = [b \in Backends |-> NoWait]
  /\ batch = << >>
  /\ running = Nobody
  /\ pc = [c \in Coroutines |-> IF c \in Backends THEN "none" ELSE "idle"]
  /\ target \in [Requests -> Backends]
  /\ sending = [c \in Coroutines |-> << >>]
  /\ buffer = [c \in Coroutines |-> << >>]
  /\ saved = [b \in Backends |-> << >>]
  /\ answer = [r \in Requests |-> Unanswered]
  /\ registered = [b \in Backends |-> FALSE]
  /\ input = [b \in Backends |-> << >>]
  /\ output = [b \in Backends |-> << >>]
  /\ peer = [b \in Backends |-> "closed"]
  /\ owed = [b \in Backends |-> {}]
  /\ beats = [b \in Backends |-> 0]
  /\ made = [b \in Backends |-> 0]

(* The backend connection that a coroutine works on.                       *)
Wire(c) == IF c \in Backends THEN c ELSE target[c]

-----------------------------------------------------------------------------
(* EpollAwaiter, and how a running coroutine goes on. *)

(* the handle is registered, and resumed once more in this batch           *)
SuspendTwice(c, mode) ==
  /\ armed' = [armed EXCEPT ![Wire(c)] = [who |-> c, mode |-> mode]]
  /\ batch' = Append(batch, c)
  /\ pc' = [pc EXCEPT ![c] = mode]
  /\ running' = Nobody

(* await_suspend: EPOLL_CTL_MOD, or ADD for a descriptor epoll does not    *)
(* know, with EPOLLONESHOT and the coroutine's handle.                     *)
Suspend(c, mode) ==
  /\ armed' = [armed EXCEPT ![Wire(c)] = [who |-> c, mode |-> mode]]
  /\ pc' = [pc EXCEPT ![c] = mode]
  /\ running' = Nobody
  /\ UNCHANGED batch

Continue(c, at) ==
  /\ pc' = [pc EXCEPT ![c] = at]
  /\ UNCHANGED << armed, batch, running >>

(* The coroutine ends; a closed descriptor leaves epoll by itself.         *)
End(c, at, closes) ==
  /\ pc' = [pc EXCEPT ![c] = at]
  /\ running' = Nobody
  /\ armed' = IF closes THEN [armed EXCEPT ![Wire(c)] = NoWait] ELSE armed
  /\ UNCHANGED batch

(* SendFrame: serialise, then wait until the descriptor is writable.       *)
StartSend(c, frame) ==
  /\ sending' = [sending EXCEPT ![c] = Pieces(frame)]
  /\ Suspend(c, "write")

(* One turn of SendFrame's loop: write takes n of the pieces that remain.  *)
WriteSome(c, n) ==
  /\ peer[Wire(c)] # "closed"
  /\ output' = [output EXCEPT ![Wire(c)] = @ \o SubSeq(sending[c], 1, n)]
  /\ sending' = [sending EXCEPT ![c] = DropFirst(@, n)]
  /\ IF n < Len(sending[c]) THEN Suspend(c, "write") ELSE Continue(c, "frame")

(* the one-shot registration is not renewed after a partial read *)
AwaitFrameOnce(c) ==
  /\ pc[c] = "frame"
  /\ ~HasCompleteFrame(buffer[c])
  /\ IF buffer[c] = << >>
     THEN Suspend(c, "read")
     ELSE pc' = [pc EXCEPT ![c] = "read"] /\ running' = Nobody /\ UNCHANGED << armed, batch >>
  /\ UNCHANGED << target, sending, buffer, saved, answer, registered, input, output, backend >>

(* ReceiveFrame without a complete frame in the buffer.                    *)
AwaitFrame(c) ==
  /\ pc[c] = "frame"
  /\ ~HasCompleteFrame(buffer[c])
  /\ Suspend(c, "read")
  /\ UNCHANGED << target, sending, buffer, saved, answer, registered, input, output, backend >>

(* read takes n pieces; with n = 0 it is EAGAIN, somebody else having read *)
(* what woke this coroutine.                                               *)
ReadSome(c) ==
  /\ pc[c] = "read"
  /\ input[Wire(c)] # << >> \/ peer[Wire(c)] # "closed"
  /\ \E n \in 0..Len(input[Wire(c)]) :
       /\ n = 0 <=> input[Wire(c)] = << >>
       /\ buffer' = [buffer EXCEPT ![c] = @ \o SubSeq(input[Wire(c)], 1, n)]
       /\ input' = [input EXCEPT ![Wire(c)] = DropFirst(@, n)]
  /\ Continue(c, "frame")
  /\ UNCHANGED << target, sending, saved, answer, registered, output, backend >>

EndOfStream(c) ==
  pc[c] = "read" /\ input[Wire(c)] = << >> /\ peer[Wire(c)] = "closed"

-----------------------------------------------------------------------------
(* The handler of backend b's connection. *)

(* RemoveEndpointsByBackend and UnregisterBackend, which closes the        *)
(* descriptor of a registered backend only, and the end of the handler.    *)
Unregister(b) ==
  /\ registered' = [registered EXCEPT ![b] = FALSE]
  /\ End(b, IF registered[b] THEN "none" ELSE "leaked", registered[b])
  /\ IF registered[b]
     THEN /\ peer' = [peer EXCEPT ![b] = "closed"]
          /\ owed' = [owed EXCEPT ![b] = {}]
          /\ input' = [input EXCEPT ![b] = << >>]
          /\ output' = [output EXCEPT ![b] = << >>]
     ELSE UNCHANGED << peer, owed, input, output >>
  /\ UNCHANGED << target, sending, saved, answer, beats, made >>

(* The parser throws at a payload.  The coroutine keeps the exception for  *)
(* nobody and ends; what it registered by then stays.                      *)
Die(b, type) ==
  /\ \/ UNCHANGED registered
     \/ type = "Registration" /\ registered' = [registered EXCEPT ![b] = TRUE]
  /\ End(b, "leaked", FALSE)
  /\ UNCHANGED << target, sending, saved, answer, input, output, backend >>

HandleFrame(b) ==
  LET got  == DeserializeFrame(buffer[b])
      type == got.frame.type
  IN  /\ pc[b] = "frame"
      /\ HasCompleteFrame(buffer[b])
      /\ \/ /\ type = "Registration" /\ got.intact
            /\ buffer' = [buffer EXCEPT ![b] = Rest(@)]
            /\ registered' = [registered EXCEPT ![b] = TRUE]
            /\ StartSend(b, Frame("Response", Nobody))
            /\ UNCHANGED << target, saved, answer, input, output, backend >>
         \/ /\ type = "Heartbeat"
            /\ buffer' = [buffer EXCEPT ![b] = Rest(@)]
            /\ StartSend(b, Frame("Heartbeat", Nobody))
            /\ UNCHANGED << target, saved, answer, registered, input, output, backend >>
         \/ /\ type = "Error" \/ (type = "Unregistration" /\ got.intact)
            /\ buffer' = [buffer EXCEPT ![b] = << >>]
            /\ Unregister(b)
         \/ /\ type \in {"Registration", "Unregistration"}
            /\ b \in Unreadable \/ ~got.intact
            /\ buffer' = [buffer EXCEPT ![b] = << >>]
            /\ Die(b, type)
         \/ /\ \/ type = "Response"
               \/ type \in {"Registration", "Unregistration"} /\ ~got.intact
            /\ buffer' = [buffer EXCEPT ![b] = Rest(@)]
            /\ Continue(b, "frame")
            /\ UNCHANGED << target, sending, saved, answer, registered, input, output, backend >>

HandleEndOfStream(b) ==
  /\ EndOfStream(b)
  /\ buffer' = [buffer EXCEPT ![b] = << >>]
  /\ Unregister(b)

(* The handler ignores the result of SendFrame.                            *)
HandlerWrite(b) ==
  /\ pc[b] = "write"
  /\ \/ \E n \in 1..Len(sending[b]) : WriteSome(b, n)
     \/ /\ peer[b] = "closed"
        /\ sending' = [sending EXCEPT ![b] = << >>]
        /\ Continue(b, "frame")
        /\ UNCHANGED output
  /\ UNCHANGED << target, buffer, saved, answer, registered, input, backend >>

Handler(b) ==
  HandleFrame(b) \/ HandleEndOfStream(b) \/ HandlerWrite(b) \/ AwaitFrame(b) \/ ReadSome(b)

-----------------------------------------------------------------------------
(* A request: routed, then forwarded with SendAndReceive. *)

(* the request gives the descriptor back to the handler it took it from *)
FinishAndRearm(r, result) ==
  /\ answer' = [answer EXCEPT ![r] = result]
  /\ pc' = [pc EXCEPT ![r] = "done"]
  /\ running' = Nobody
  /\ armed' = IF pc[target[r]] = "read"
              THEN [armed EXCEPT ![target[r]] = [who |-> target[r], mode |-> "read"]]
              ELSE armed
  /\ UNCHANGED batch

Finish(r, result) ==
  /\ answer' = [answer EXCEPT ![r] = result]
  /\ End(r, "done", FALSE)

(* SendFrame sends nothing, and does not wait, when the payload is too     *)
(* large to be serialised.                                                 *)
Route(r) ==
  /\ pc[r] = "start"
  /\ \/ /\ registered[target[r]] /\ r \notin Oversized
        /\ StartSend(r, Frame("Request", r))
        /\ UNCHANGED answer
     \/ /\ ~registered[target[r]] \/ r \in Oversized
        /\ Finish(r, Failed(IF registered[target[r]] THEN "500" ELSE "404"))
        /\ UNCHANGED sending
  /\ UNCHANGED << target, buffer, saved, registered, input, output, backend >>

(* When the frame is out, the request works on a copy of the descriptor's  *)
(* buffer; "Failed to send request to backend" otherwise.                  *)
RequestWrite(r) ==
  /\ pc[r] = "write"
  /\ \/ \E n \in 1..Len(sending[r]) :
          /\ WriteSome(r, n)
          /\ buffer' = IF n = Len(sending[r])
                       THEN [buffer EXCEPT ![r] = saved[target[r]]]
                       ELSE buffer
          /\ UNCHANGED answer
     \/ /\ peer[target[r]] = "closed"
        /\ Finish(r, Failed("500"))
        /\ sending' = [sending EXCEPT ![r] = << >>]
        /\ UNCHANGED << buffer, output >>
  /\ UNCHANGED << target, saved, registered, input, backend >>

(* What becomes of a request with the frame it takes.  The payload of a    *)
(* Response is parsed; the parser may throw at a mixture of two frames,    *)
(* too.  The exception ends the request's coroutine and its client's,      *)
(* which waits for it: nobody is answered.                                 *)
Outcomes(got) ==
  CASE got.frame.type = "Error" -> {Failed("500")}
    [] got.frame.type = "Response" /\ got.intact ->
         {IF got.frame.request \in Unreadable THEN Dropped ELSE Answered(got)}
    [] got.frame.type = "Response" /\ ~got.intact -> {Answered(got), Dropped}
    [] got.frame.type \notin {"Error", "Response"} -> {Answered(got)}

(* the bytes of the response are not erased from the buffer *)
TakeFrameAndKeep(r) ==
  LET got == DeserializeFrame(buffer[r])
  IN  /\ pc[r] = "frame"
      /\ HasCompleteFrame(buffer[r])
      /\ saved' = [saved EXCEPT ![target[r]] = buffer[r]]
      /\ buffer' = [buffer EXCEPT ![r] = << >>]
      /\ \E result \in Outcomes(got) : Finish(r, result)
      /\ UNCHANGED << target, sending, registered, input, output, backend >>

(* Whatever frame is complete is taken for the response; what is left of   *)
(* the copy becomes the descriptor's buffer.                               *)
TakeFrame(r) ==
  LET got == DeserializeFrame(buffer[r])
  IN  /\ pc[r] = "frame"
      /\ HasCompleteFrame(buffer[r])
      /\ saved' = [saved EXCEPT ![target[r]] = Rest(buffer[r])]
      /\ buffer' = [buffer EXCEPT ![r] = << >>]
      /\ \E result \in Outcomes(got) : Finish(r, result)
      /\ UNCHANGED << target, sending, registered, input, output, backend >>

(* ReceiveFrame's Error frame: "Backend returned an error".                *)
RequestEndOfStream(r) ==
  /\ EndOfStream(r)
  /\ saved' = [saved EXCEPT ![target[r]] = buffer[r]]
  /\ buffer' = [buffer EXCEPT ![r] = << >>]
  /\ Finish(r, Failed("500"))
  /\ UNCHANGED << target, sending, registered, input, output, backend >>

Request(r) ==
  Route(r) \/ RequestWrite(r) \/ TakeFrame(r) \/ RequestEndOfStream(r) \/ AwaitFrame(r) \/ ReadSome(r)

-----------------------------------------------------------------------------
(* EventLoop::Run. *)

Ready(b) ==
  CASE armed[b].mode = "read"  -> input[b] # << >> \/ peer[b] = "closed"
    [] armed[b].mode = "write" -> TRUE
    [] armed[b].mode = "none"  -> FALSE

(* The accept loop takes a connection, whatever its backend has sent by    *)
(* then, and schedules its handler, ...                                    *)
AcceptConnection(b) ==
  /\ running = Nobody
  /\ pc[b] = "none"
  /\ peer[b] # "closed"
  /\ pc' = [pc EXCEPT ![b] = "scheduled"]
  /\ UNCHANGED << armed, batch, running, target, sending, buffer, saved, answer,
                  registered, input, output, backend >>

(* ... which starts before the next epoll_wait.                            *)
ProcessPendingCoroutines(b) ==
  /\ running = Nobody
  /\ batch = << >>
  /\ pc[b] = "scheduled"
  /\ pc' = [pc EXCEPT ![b] = "frame"]
  /\ running' = b
  /\ UNCHANGED << armed, batch, target, sending, buffer, saved, answer,
                  registered, input, output, backend >>

(* epoll_wait returns every registration that is ready, in any order, and  *)
(* disarms it.  A request that arrived is ready on its client's own        *)
(* descriptor, where nobody else waits.                                    *)
EpollWait ==
  LET wires    == {b \in Backends : Ready(b)}
      arrivals == {r \in Requests : pc[r] = "arrived"}
  IN  /\ running = Nobody
      /\ batch = << >>
      /\ \A b \in Backends : pc[b] # "scheduled"
      /\ batch' \in SetToSeqs({armed[b].who : b \in wires} \cup arrivals) \ {<< >>}
      /\ armed' = [b \in Backends |-> IF b \in wires THEN NoWait ELSE armed[b]]
      /\ pc' = [c \in Coroutines |-> IF c \in arrivals THEN "start" ELSE pc[c]]
      /\ UNCHANGED << running, target, sending, buffer, saved, answer,
                      registered, input, output, backend >>

Resume ==
  /\ running = Nobody
  /\ batch # << >>
  /\ running' = Head(batch)
  /\ batch' = Tail(batch)
  /\ UNCHANGED << armed, pc, target, sending, buffer, saved, answer,
                  registered, input, output, backend >>

Run ==
  \/ running \in Backends /\ Handler(running)
  \/ running \in Requests /\ Request(running)

EventLoop ==
  \/ \E b \in Backends : AcceptConnection(b) \/ ProcessPendingCoroutines(b)
  \/ EpollWait
  \/ Resume
  \/ Run

-----------------------------------------------------------------------------
(* Clients and backends. *)

InFlight(b) == {r \in Requests : target[r] = b /\ pc[r] \notin {"idle", "done"}}

Arrive(r) ==
  /\ pc[r] = "idle"
  /\ Cardinality(InFlight(target[r])) < MaxInFlight
  /\ Settled => registered[target[r]] /\ pc[target[r]] = "read"
  /\ pc' = [pc EXCEPT ![r] = "arrived"]
  /\ UNCHANGED << armed, batch, running, target, sending, buffer, saved, answer,
                  registered, input, output, backend >>

Say(b, frame) == input' = [input EXCEPT ![b] = @ \o Pieces(frame)]

Connect(b) ==
  /\ peer[b] = "closed"
  /\ pc[b] = "none"
  /\ made[b] < MaxConnections
  /\ peer' = [peer EXCEPT ![b] = "connected"]
  /\ made' = [made EXCEPT ![b] = @ + 1]
  /\ UNCHANGED << gateway, target, input, output, owed, beats >>

Register(b) ==
  /\ peer[b] = "connected"
  /\ peer' = [peer EXCEPT ![b] = "serving"]
  /\ Say(b, Frame("Registration", Nobody))
  /\ UNCHANGED << gateway, target, output, owed, beats, made >>

Receive(b) ==
  LET got == DeserializeFrame(output[b])
  IN  /\ peer[b] = "serving"
      /\ HasCompleteFrame(output[b])
      /\ output' = [output EXCEPT ![b] = Rest(@)]
      /\ owed' = IF got.frame.type = "Request" /\ got.intact
                 THEN [owed EXCEPT ![b] = @ \cup {got.frame.request}]
                 ELSE owed
      /\ UNCHANGED << gateway, target, input, peer, beats, made >>

Reply(b) ==
  /\ peer[b] = "serving"
  /\ \E r \in owed[b], type \in ReplyTypes :
       /\ Say(b, Frame(type, r))
       /\ owed' = [owed EXCEPT ![b] = @ \ {r}]
  /\ UNCHANGED << gateway, target, output, peer, beats, made >>

Heartbeat(b) ==
  /\ peer[b] = "serving"
  /\ beats[b] < MaxHeartbeats
  /\ beats' = [beats EXCEPT ![b] = @ + 1]
  /\ Say(b, Frame("Heartbeat", Nobody))
  /\ UNCHANGED << gateway, target, output, peer, owed, made >>

SayGoodbye(b) ==
  /\ MayLeave
  /\ peer[b] = "serving"
  /\ peer' = [peer EXCEPT ![b] = "leaving"]
  /\ Say(b, Frame("Unregistration", Nobody))
  /\ UNCHANGED << gateway, target, output, owed, beats, made >>

Leave(b) ==
  /\ MayLeave
  /\ peer[b] # "closed"
  /\ pc[b] # "none"
  /\ peer' = [peer EXCEPT ![b] = "closed"]
  /\ owed' = [owed EXCEPT ![b] = {}]
  /\ output' = [output EXCEPT ![b] = << >>]
  /\ UNCHANGED << gateway, target, input, beats, made >>

Environment ==
  \/ \E r \in Requests : Arrive(r)
  \/ \E b \in Backends : \/ Connect(b) \/ Register(b) \/ Receive(b) \/ Reply(b)
                          \/ Heartbeat(b) \/ SayGoodbye(b) \/ Leave(b)

Next == EventLoop \/ Environment

(* The loop is a thread of its own: it keeps running, and accepts.  A      *)
(* backend that serves keeps reading requests and answering them.          *)
Fairness ==
  /\ WF_vars(EventLoop)
  /\ \A b \in Backends : WF_vars(Register(b)) /\ WF_vars(Receive(b)) /\ WF_vars(Reply(b))

Spec == Init /\ [][Next]_vars

FairSpec == Spec /\ Fairness

-----------------------------------------------------------------------------
Waits == {"read", "write"}

Piece == [frame : [type : FrameTypes, request : Requests \cup {Nobody}], part : 1..2]

(* The types; in particular all that travels are the two pieces of frames. *)
TypeOK ==
  /\ armed \in [Backends -> [who : Coroutines \cup {Nobody}, mode : Waits \cup {"none"}]]
  /\ batch \in Seq(Coroutines)
  /\ running \in Coroutines \cup {Nobody}
  /\ pc \in [Coroutines -> Waits \cup {"none", "scheduled", "leaked", "idle", "arrived",
                                      "start", "frame", "done"}]
  /\ target \in [Requests -> Backends]
  /\ sending \in [Coroutines -> Seq(Piece)]
  /\ buffer \in [Coroutines -> Seq(Piece)]
  /\ saved \in [Backends -> Seq(Piece)]
  /\ registered \in [Backends -> BOOLEAN]
  /\ owed \in [Backends -> SUBSET Requests]

(* A handle that epoll or the current batch holds is the handle of a       *)
(* coroutine that is suspended, and it is held once: the loop never        *)
(* resumes a coroutine that ended, that runs, or twice for one wait.       *)
Holders(c) ==
  {<< "epoll", b >> : b \in {b \in Backends : armed[b].who = c}}
    \cup {<< "batch", i >> : i \in {i \in DOMAIN batch : batch[i] = c}}

WakeupsSound ==
  \A c \in Coroutines : Holders(c) # {} =>
    /\ Cardinality(Holders(c)) = 1
    /\ running # c
    /\ pc[c] \in Waits \cup {"start"}
    /\ \A b \in Backends : armed[b].who = c => armed[b].mode = pc[c]

(* However the handler and several requests interleave, and whatever they  *)
(* lose, no response frame becomes the answer of two requests.             *)
ResponsesNotShared ==
  \A r1, r2 \in Requests :
    /\ r1 # r2
    /\ answer[r1].status = "answered" /\ answer[r1].intact
    /\ answer[r1].frame.type = "Response"
    => answer[r1] # answer[r2]

(* The forwarder's buffers are keyed by descriptor and never cleared, yet  *)
(* a connection that gets a descriptor again does not inherit bytes of the *)
(* connection before it: a buffer is only written once a request has been  *)
(* answered, and from then on nothing closes the descriptor.               *)
NoInheritedBytes ==
  \A b \in Backends : pc[b] \in {"none", "scheduled"} => saved[b] = << >>

(* Every answered request got its own response, whole, or an error.        *)
AnswersMatch ==
  \A r \in Requests :
    answer[r].status = "answered" => answer[r] = Answered([frame |-> Frame("Response", r), intact |-> TRUE])

(* How far a request is, as its client and its backend see it: "served"    *)
(* once the backend's response is on its way; then the client is answered, *)
(* or dropped or refused for its payload, and "astray" if anything else.   *)
Progress(r) ==
  LET responded == Pieces(Frame("Response", r))[2] \in Range(buffer[r] \o input[target[r]])
      own == Answered([frame |-> Frame("Response", r), intact |-> TRUE])
  IN  CASE pc[r] = "idle" -> "unsent"
        [] pc[r] = "done" ->
             CASE answer[r] = own -> "answered"
               [] answer[r] = Dropped -> "dropped"
               [] answer[r] = Failed("500") /\ r \in Oversized -> "refused"
               [] OTHER -> "astray"
        [] pc[r] \notin {"idle", "done"} -> IF responded THEN "served" ELSE "asked"

Service == INSTANCE RequestService WITH status <- [r \in Requests |-> Progress(r)]

(* With the bytes, the partial reads and writes, the one registration per  *)
(* descriptor and the coroutine that takes it over, forwarding is the      *)
(* service that RequestService describes: a request is answered once, with *)
(* its own response, and every request that arrives is answered, but for   *)
(* those that are too large and those whose response cannot be parsed; and *)
(* a request that ends in an exception does the next ones no harm.         *)
ImplementsService == Service!Spec

(* ARCHITECTURE.md: backend disconnects are detected, and the endpoints of *)
(* the backend are removed.                                                *)
DisconnectDetected ==
  \A b \in Backends : (registered[b] /\ peer[b] = "closed") ~> ~registered[b]
=============================================================================
