-------------------------- MODULE ClientConnection --------------------------
(***************************************************************************)
(* The life of an HTTP connection: TcpListener's accept loop, the          *)
(* coroutine GatewayServer::HandleClientConnection that it starts for each *)
(* connection, and the client at the other end.  The gateway answers one   *)
(* request per connection and closes it.                                   *)
(*                                                                         *)
(* Only the handler waits on its client's descriptor, so a coroutine that  *)
(* may go on stays so until it does, and each stretch between two awaits   *)
(* is one step.  How a routed request is answered is left open here        *)
(* (Respond): the module Forwarding is about that.                         *)
(*                                                                         *)
(* A request is counted in pieces: those of its request line and headers,  *)
(* then those of its body.  Clients send, and the gateway reads, any       *)
(* number of pieces at a time.                                             *)
(***************************************************************************)
EXTENDS Naturals, Sequences, FiniteSets

CONSTANTS
  Clients,       (* HTTP clients, each with one connection                  *)
  Texts,         (* what they send                                          *)
  NotANumber,    (* a Content-Length that std::stoul throws on              *)
  Word,          (* 2^32: the width of m_un32ContentLength                  *)
  MaxFd,         (* descriptors the process may open for connections        *)
  MaxRead,       (* pieces that fit into one read: max_request_body_size    *)
  ResponseSize,  (* pieces of a response                                    *)
  Window         (* pieces of a response that the kernel takes unread       *)

(* valid: the request line parses; escapes: the percent escapes of its     *)
(* query are numbers; readable: the parser gets through the JSON of the    *)
(* body, and of the response.                                              *)
Text == [head : Nat \ {0}, body : Nat, valid : BOOLEAN, length : Nat \cup {NotANumber},
         escapes : BOOLEAN, readable : BOOLEAN]

ASSUME ClientAssumption ==
  /\ NotANumber \notin Nat
  /\ Texts \subseteq Text
  /\ {MaxFd, MaxRead, ResponseSize, Word, Window} \subseteq Nat \ {0}

VARIABLES
  text,      (* what each client means to send                              *)
  client,    (* the client's end: see ClientStates                          *)
  sent,      (* pieces the client has sent                                  *)
  taken,     (* pieces of the response the client has read                  *)
  pc,        (* where the handler of the client's connection stands         *)
  pending,   (* m_stdstdPendingCoroutines                                   *)
  frame,     (* the coroutine frame of the handler                          *)
  raw,       (* szRawRequest: pieces the handler has read                   *)
  routed,    (* the body, in pieces, that RouteRequest was called with      *)
  written,   (* un64TotalWritten: pieces of the response written            *)
  up         (* does the process run?                                       *)

peers == << text, client, sent, taken >>
vars == << peers, pc, pending, frame, raw, routed, written, up >>

(* "ended": the client sends no more, and reads; "gone": it closed.        *)
ClientStates == {"new", "open", "ended", "gone"}

Init ==
  /\ text \in [Clients -> Texts]
  /\ client = [c \in Clients |-> "new"]
  /\ sent = [c \in Clients |-> 0]
  /\ taken = [c \in Clients |-> 0]
  /\ pc = [c \in Clients |-> "none"]
  /\ pending = << >>
  /\ frame = [c \in Clients |-> "none"]
  /\ raw = [c \in Clients |-> 0]
  /\ routed = [c \in Clients |-> {}]
  /\ written = [c \in Clients |-> 0]
  /\ up = TRUE

Size(c) == text[c].head + text[c].body

(* Connections that hold a descriptor of the process; "dead": an exception *)
(* ended the coroutine before its close.                                   *)
Held == {c \in Clients : pc[c] \in {"scheduled", "first", "more", "routing", "write", "dead"}}

Go(c, at) == pc' = [pc EXCEPT ![c] = at]

-----------------------------------------------------------------------------
(* HttpParser::Parse on the first n pieces. *)

HeadersComplete(c, n) == n >= text[c].head

Parses(c, n) == HeadersComplete(c, n) /\ text[c].valid

(* stoul throws at the length, stoi at an escape                           *)
Throws(c, n) == Parses(c, n) /\ (text[c].length = NotANumber \/ ~text[c].escapes)

(* stoul yields 64 bits, the cast keeps 32 of them.                        *)
ContentLength(c) == text[c].length % Word

(* the length is compared with all that was read, headers included *)
CountsTheHeaders(c, n) == ContentLength(c) = 0 \/ n >= ContentLength(c)

IsComplete(c, n) ==
  ContentLength(c) = 0 \/ n - text[c].head >= ContentLength(c)

(* m_szBody stays empty as long as the body is not complete, and then is   *)
(* the first ContentLength pieces of what follows the headers.             *)
Body(c, n) ==
  LET there == n - text[c].head
  IN  CASE ~IsComplete(c, n) -> 0
        [] IsComplete(c, n) /\ there >= ContentLength(c) -> ContentLength(c)
        [] IsComplete(c, n) /\ there < ContentLength(c) -> there

-----------------------------------------------------------------------------
(* The accept loop and the event loop. *)

(* AcceptLoop: accept, make the coroutine, schedule its handle, and leave  *)
(* the block in which stdTask lives: ~Task destroys the frame.  Without a  *)
(* free descriptor accept fails, and is tried again.                       *)
AcceptLoop(c) ==
  /\ up
  /\ client[c] # "new"
  /\ pc[c] = "none"
  /\ Cardinality(Held) < MaxFd
  /\ pending' = Append(pending, c)
  /\ frame' = [frame EXCEPT ![c] = "destroyed"]
  /\ Go(c, "scheduled")
  /\ UNCHANGED << peers, raw, routed, written, up >>

(* ProcessPendingCoroutines resumes the handles it finds.  To resume a     *)
(* frame that was destroyed is undefined: the process dies, or the memory  *)
(* still holds the frame and the coroutine runs.                           *)
ProcessPendingCoroutines ==
  /\ up
  /\ pending # << >>
  /\ \/ up' = FALSE
        /\ UNCHANGED << pc, pending >>
     \/ Go(Head(pending), "first")
        /\ pending' = Tail(pending)
        /\ UNCHANGED up
  /\ UNCHANGED << peers, frame, raw, routed, written >>

-----------------------------------------------------------------------------
(* HandleClientConnection. *)

(* ReadFromClient yields data, ...                                         *)
Arrived(c) ==
  {n \in raw[c] + 1 .. sent[c] : n - raw[c] <= MaxRead}

(* ... or the empty string at the end of the stream, or on an error, which *)
(* may overtake data when the client is gone.                              *)
ReadsNothing(c) ==
  client[c] = "gone" \/ (client[c] = "ended" /\ raw[c] = sent[c])

RouteOrReadOn(c, n) ==
  IF IsComplete(c, n)
  THEN routed' = [routed EXCEPT ![c] = {Body(c, n)}] /\ Go(c, "routing")
  ELSE Go(c, "more") /\ UNCHANGED routed

(* an empty read is tried again *)
RetryFirstRead(c) ==
  /\ pc[c] = "first"
  /\ \E n \in Arrived(c) :
       /\ raw' = [raw EXCEPT ![c] = n]
       /\ \/ ~Parses(c, n) /\ Go(c, "write") /\ UNCHANGED routed
          \/ Throws(c, n) /\ Go(c, "dead") /\ UNCHANGED routed
          \/ Parses(c, n) /\ ~Throws(c, n) /\ RouteOrReadOn(c, n)
  /\ UNCHANGED << pending, frame, written >>

(* The first read: what it yields must hold all headers.                   *)
FirstRead(c) ==
  /\ pc[c] = "first"
  /\ \/ \E n \in Arrived(c) :
          /\ raw' = [raw EXCEPT ![c] = n]
          /\ \/ ~Parses(c, n) /\ Go(c, "write") /\ UNCHANGED routed
             \/ Throws(c, n) /\ Go(c, "dead") /\ UNCHANGED routed
             \/ Parses(c, n) /\ ~Throws(c, n) /\ RouteOrReadOn(c, n)
     \/ ReadsNothing(c) /\ Go(c, "closed") /\ UNCHANGED << raw, routed >>
  /\ UNCHANGED << pending, frame, written >>

(* the end of the stream does not leave the loop *)
RereadAtTheEnd(c) ==
  /\ pc[c] = "more"
  /\ \E n \in Arrived(c) : raw' = [raw EXCEPT ![c] = n] /\ RouteOrReadOn(c, n)
  /\ UNCHANGED << pending, frame, written >>

(* The loop for the rest of the body, which everything read so far is      *)
(* parsed for again; at the end of the stream the request goes as it is.   *)
ReadMore(c) ==
  /\ pc[c] = "more"
  /\ \/ \E n \in Arrived(c) : raw' = [raw EXCEPT ![c] = n] /\ RouteOrReadOn(c, n)
     \/ /\ ReadsNothing(c)
        /\ routed' = [routed EXCEPT ![c] = {Body(c, raw[c])}]
        /\ Go(c, "routing")
        /\ UNCHANGED raw
  /\ UNCHANGED << pending, frame, written >>

(* RouteRequest returns, and the response is built; or RouteRequest, or    *)
(* what it waits for, throws at JSON.                                      *)
Respond(c) ==
  /\ pc[c] = "routing"
  /\ Go(c, "write") \/ (~text[c].readable /\ Go(c, "dead"))
  /\ UNCHANGED << pending, frame, raw, routed, written >>

InFlight(c) == written[c] - taken[c]

(* one write, whatever it wrote *)
WriteOnce(c) ==
  /\ pc[c] = "write"
  /\ \E n \in 1..(Window - InFlight(c)) :
       /\ written[c] + n <= ResponseSize
       /\ written' = [written EXCEPT ![c] = @ + n]
  /\ Go(c, "closed")
  /\ UNCHANGED << pending, frame, raw, routed >>

(* a write is taken to write everything *)
WriteUnchecked(c) ==
  /\ pc[c] = "write"
  /\ InFlight(c) < Window
  /\ written' = [written EXCEPT ![c] = ResponseSize]
  /\ Go(c, "closed")
  /\ UNCHANGED << pending, frame, raw, routed >>

(* WriteToClient, until all is written or a write fails, and close.        *)
WriteToClient(c) ==
  /\ pc[c] = "write"
  /\ \/ \E n \in 1..(Window - InFlight(c)) :
          /\ written[c] + n <= ResponseSize
          /\ written' = [written EXCEPT ![c] = @ + n]
          /\ IF written[c] + n = ResponseSize THEN Go(c, "closed") ELSE UNCHANGED pc
     \/ client[c] = "gone" /\ Go(c, "closed") /\ UNCHANGED written
  /\ UNCHANGED << pending, frame, raw, routed >>

Handler(c) ==
  /\ up
  /\ FirstRead(c) \/ ReadMore(c) \/ Respond(c) \/ WriteToClient(c)
  /\ UNCHANGED << peers, up >>

-----------------------------------------------------------------------------
(* Clients. *)

ClientMoves == UNCHANGED << text, pc, pending, frame, raw, routed, written, up >>

Connect(c) ==
  /\ client[c] = "new"
  /\ client' = [client EXCEPT ![c] = "open"]
  /\ UNCHANGED << sent, taken >> /\ ClientMoves

Send(c) ==
  /\ client[c] = "open"
  /\ sent[c] < Size(c)
  /\ sent' = [sent EXCEPT ![c] = @ + 1]
  /\ UNCHANGED << client, taken >> /\ ClientMoves

Read(c) ==
  /\ client[c] \in {"open", "ended"}
  /\ taken[c] < written[c]
  /\ taken' = [taken EXCEPT ![c] = @ + 1]
  /\ UNCHANGED << client, sent >> /\ ClientMoves

EndStream(c) ==
  /\ client[c] = "open"
  /\ client' = [client EXCEPT ![c] = "ended"]
  /\ UNCHANGED << sent, taken >> /\ ClientMoves

Leave(c) ==
  /\ client[c] \in {"open", "ended"}
  /\ client' = [client EXCEPT ![c] = "gone"]
  /\ UNCHANGED << sent, taken >> /\ ClientMoves

Client(c) == Connect(c) \/ Send(c) \/ Read(c) \/ EndStream(c) \/ Leave(c)

Next ==
  \/ \E c \in Clients : AcceptLoop(c) \/ Handler(c) \/ Client(c)
  \/ ProcessPendingCoroutines

(* The loop takes everything that is ready in turn; requests are answered; *)
(* the kernel queues connections in the order they came.  Clients read     *)
(* what they get, and send what they announced or leave: nothing in the    *)
(* gateway makes up for those that do not.                                 *)
Fairness ==
  /\ WF_vars(ProcessPendingCoroutines)
  /\ \A c \in Clients : /\ SF_vars(AcceptLoop(c))
                        /\ WF_vars(Handler(c))
                        /\ WF_vars(Send(c))
                        /\ WF_vars(Read(c))
                        /\ WF_vars(sent[c] = Size(c) /\ EndStream(c))

Spec == Init /\ [][Next]_vars

FairSpec == Spec /\ Fairness

-----------------------------------------------------------------------------
(* Besides the types: nothing is read that was not sent, and no more is    *)
(* written than the response has and the kernel takes.                     *)
TypeOK ==
  /\ text \in [Clients -> Texts]
  /\ client \in [Clients -> ClientStates]
  /\ pc \in [Clients -> {"none", "scheduled", "first", "more", "routing", "write", "closed", "dead"}]
  /\ pending \in Seq(Clients)
  /\ frame \in [Clients -> {"none", "alive", "destroyed"}]
  /\ \A c \in Clients :
       /\ raw[c] \in 0..sent[c] /\ sent[c] \in 0..Size(c)
       /\ taken[c] \in 0..written[c] /\ written[c] \in 0..ResponseSize
       /\ InFlight(c) <= Window
  /\ routed \in [Clients -> SUBSET Nat]
  /\ up \in BOOLEAN

(* A request is routed with the body it announced, however it was cut into *)
(* reads; only a client that ends the stream before its body is sent, or   *)
(* announces 2^32 bytes or more, has another body routed for it.           *)
RoutedAsSent ==
  \A c \in Clients : \A body \in routed[c] :
    \/ body = text[c].length
    \/ text[c].length >= Word
    \/ client[c] \in {"ended", "gone"} /\ (client[c] = "ended" => sent[c] < text[c].head + text[c].length)

(* A connection is closed under a client that is still there only after a  *)
(* whole response, or when the client ended its stream without a request.  *)
ClosedAfterResponse ==
  \A c \in Clients : pc[c] = "closed" /\ client[c] \in {"open", "ended"} =>
    written[c] = ResponseSize \/ (client[c] = "ended" /\ sent[c] = 0)

(* Nothing that client c sends, or is sent, makes its handler throw.       *)
Harmless(c) == text[c].length # NotANumber /\ text[c].escapes /\ text[c].readable

(* A connection that is being handled is closed in the end, unless the     *)
(* text is one that a parser throws at: a length that is no number, a bad  *)
(* escape in the query, a number that 64 bits do not hold in the JSON.     *)
(* The process may have died first.                                        *)
EventuallyClosed ==
  \A c \in Clients : (pc[c] = "first" /\ Harmless(c)) ~> (pc[c] = "closed" \/ ~up)

(* A client that connects is served, unless every descriptor is held by a  *)
(* coroutine that an exception ended.                                      *)
EventuallyAccepted ==
  \A c \in Clients :
    (client[c] # "new" /\ pc[c] = "none")
      ~> (pc[c] # "none" \/ ~up \/ Cardinality({d \in Clients : pc[d] = "dead"}) = MaxFd)

(* ARCHITECTURE.md: "Each client connection is represented by a Task<void> *)
(* coroutine that owns: the client file descriptor (closed on coroutine    *)
(* exit)".                                                                 *)
ConnectionOwned ==
  \A c \in Held : frame[c] = "alive"
=============================================================================
