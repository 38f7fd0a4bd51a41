----------------------- MODULE ClientConnection_proofs -----------------------
(***************************************************************************)
(* The theorems about ClientConnection, for any number of clients, texts,  *)
(* descriptors and pieces per read.                                        *)
(***************************************************************************)
EXTENDS ClientConnection, TLAPS

Typed ==
  /\ text \in [Clients -> Texts]
  /\ client \in [Clients -> ClientStates]
  /\ pc \in [Clients -> {"none", "scheduled", "first", "more", "routing", "write", "closed", "dead"}]
  /\ pending \in Seq(Clients)
  /\ frame \in [Clients -> {"none", "alive", "destroyed"}]
  /\ {raw, sent, taken, written} \subseteq [Clients -> Nat]
  /\ routed \in [Clients -> SUBSET Nat]
  /\ up \in BOOLEAN

(* A handle that is pending is that of a coroutine that has not started,   *)
(* and it is pending once.                                                 *)
Queued ==
  /\ \A i \in DOMAIN pending : pc[pending[i]] = "scheduled"
  /\ \A i, j \in DOMAIN pending : pending[i] = pending[j] => i = j

(* The rest is said of one connection.                                     *)
Transfers(c) ==
  /\ raw[c] <= sent[c] /\ sent[c] <= Size(c)
  /\ taken[c] <= written[c] /\ written[c] <= ResponseSize
  /\ InFlight(c) <= Window

(* Nothing is read before the handler runs, nor without a connection.      *)
Unread(c) ==
  /\ pc[c] # "none" => client[c] # "new"
  /\ pc[c] \in {"none", "scheduled", "first"} => raw[c] = 0

(* The loop for the rest of the body is entered with all headers, and      *)
(* stays only while the body is not complete.                              *)
BodyAwaited(c) ==
  pc[c] = "more" =>
    /\ raw[c] >= text[c].head
    /\ text[c].length \in Nat
    /\ ~IsComplete(c, raw[c])

AsSent(c) ==
  \A body \in routed[c] :
    \/ body = text[c].length
    \/ text[c].length >= Word
    \/ client[c] \in {"ended", "gone"} /\ (client[c] = "ended" => sent[c] < text[c].head + text[c].length)

Answered(c) ==
  pc[c] = "closed" /\ client[c] \in {"open", "ended"} =>
    written[c] = ResponseSize \/ (client[c] = "ended" /\ sent[c] = 0)

Sound(c) == Transfers(c) /\ Unread(c) /\ BodyAwaited(c) /\ AsSent(c) /\ Answered(c)

IInv == Typed /\ Queued /\ \A c \in Clients : Sound(c)

-----------------------------------------------------------------------------
(* The texts.                                                              *)
LEMMA TextTyped ==
  ASSUME Typed, NEW c \in Clients
  PROVE  /\ text[c].head \in Nat \ {0} /\ text[c].body \in Nat
         /\ text[c].length \in Nat \cup {NotANumber}
         /\ Size(c) \in Nat
  BY ClientAssumption DEF Typed, Text, Size

(* A remainder, and the only one below the divisor.                        *)
LEMMA Remainder ==
  ASSUME NEW a \in Nat, NEW b \in Nat \ {0}
  PROVE  /\ a % b \in Nat
         /\ a % b <= a
         /\ a < b => a % b = a
  OBVIOUS

(* A step of one connection leaves the others sound.                       *)
LEMMA OthersSound ==
  ASSUME IInv, NEW c \in Clients,
         \A d \in Clients \ {c} :
           /\ text'[d] = text[d] /\ client'[d] = client[d] /\ sent'[d] = sent[d]
           /\ taken'[d] = taken[d] /\ pc'[d] = pc[d] /\ raw'[d] = raw[d]
           /\ routed'[d] = routed[d] /\ written'[d] = written[d]
  PROVE  \A d \in Clients \ {c} : Sound(d)'
  BY DEF IInv, Sound, Transfers, Unread, BodyAwaited, AsSent, Answered, Size, InFlight,
         IsComplete, ContentLength

LEMMA InitIInv == Init => IInv
<1> SUFFICES ASSUME Init PROVE IInv
  OBVIOUS
<1>1. Typed
  BY DEF Init, Typed, ClientStates
<1>2. Queued
  BY DEF Init, Queued
<1>3. ASSUME NEW c \in Clients PROVE Sound(c)
  BY <1>1, TextTyped, ClientAssumption
     DEF Init, Sound, Transfers, Unread, BodyAwaited, AsSent, Answered, InFlight
<1> QED BY <1>1, <1>2, <1>3 DEF IInv

-----------------------------------------------------------------------------
(* The body that is routed for n pieces of which all headers are there: a  *)
(* complete one is what was announced, modulo 2^32.                        *)
LEMMA RoutedBody ==
  ASSUME Typed, NEW c \in Clients, text[c].length \in Nat,
         NEW n \in Nat, n >= text[c].head
  PROVE  /\ Body(c, n) \in Nat
         /\ IsComplete(c, n) => Body(c, n) = text[c].length \/ text[c].length >= Word
         /\ ~IsComplete(c, n) => n < text[c].head + text[c].length
<1>1. /\ text[c].head \in Nat /\ text[c].length \in Nat
      /\ Word \in Nat \ {0}
  BY TextTyped, ClientAssumption
<1>2. /\ ContentLength(c) \in Nat
      /\ ContentLength(c) <= text[c].length
      /\ text[c].length < Word => ContentLength(c) = text[c].length
  BY <1>1, Remainder DEF ContentLength
<1>3. n - text[c].head \in Nat
  BY <1>1
<1>4. CASE IsComplete(c, n)
  <2>1. Body(c, n) = ContentLength(c)
    BY <1>2, <1>3, <1>4 DEF Body, IsComplete
  <2> QED BY <1>1, <1>2, <1>4, <2>1
<1>5. CASE ~IsComplete(c, n)
  <2>1. Body(c, n) = 0
    BY <1>5 DEF Body
  <2> QED BY <1>1, <1>2, <1>3, <1>5, <2>1 DEF IsComplete
<1> QED BY <1>4, <1>5

(* What every step of a handler leaves alone.                              *)
LEMMA HandlerLeaves ==
  ASSUME NEW c \in Clients, Handler(c)
  PROVE  UNCHANGED << text, client, sent, taken, pending, frame, up >>
  BY DEF Handler, FirstRead, ReadMore, Respond, WriteToClient, peers

(* A handler that runs is not in the queue.                                *)
LEMMA QueuedKept ==
  ASSUME IInv, UNCHANGED pending, NEW c \in Clients, pc[c] # "scheduled",
         \A d \in Clients \ {c} : pc'[d] = pc[d]
  PROVE  Queued'
<1>1. \A i \in DOMAIN pending : pending[i] \in Clients /\ pending[i] # c
  BY DEF IInv, Typed, Queued
<1> QED BY <1>1 DEF IInv, Queued

(* Data was read, all headers are there, and the request is routed or      *)
(* waits for more.                                                         *)
LEMMA RouteOrReadOnStep ==
  ASSUME IInv, NEW c \in Clients, NEW n \in Arrived(c), pc[c] \in {"first", "more"},
         n >= text[c].head, text[c].length \in Nat,
         raw' = [raw EXCEPT ![c] = n], RouteOrReadOn(c, n),
         UNCHANGED << text, client, sent, taken, pending, frame, up, written >>
  PROVE  IInv'
<1>1. n \in Nat /\ n <= sent[c]
  BY DEF Arrived, IInv, Typed
<1>2. /\ Body(c, n) \in Nat
      /\ IsComplete(c, n) => Body(c, n) = text[c].length \/ text[c].length >= Word
  BY <1>1, RoutedBody DEF IInv
<1>3. CASE /\ IsComplete(c, n)
           /\ routed' = [routed EXCEPT ![c] = {Body(c, n)}]
           /\ pc' = [pc EXCEPT ![c] = "routing"]
  <2>1. Typed'
    BY <1>1, <1>2, <1>3 DEF IInv, Typed
  <2>2. Sound(c)'
    BY <1>1, <1>2, <1>3
       DEF IInv, Typed, Sound, Transfers, Unread, BodyAwaited, AsSent, Answered, Size, InFlight
  <2> QED BY <2>1, <2>2, <1>3, OthersSound, QueuedKept DEF IInv, Typed
<1>4. CASE /\ ~IsComplete(c, n)
           /\ pc' = [pc EXCEPT ![c] = "more"]
           /\ UNCHANGED routed
  <2>1. Typed'
    BY <1>1, <1>4 DEF IInv, Typed
  <2>2. ~IsComplete(c, n)'
    BY <1>4 DEF IsComplete, ContentLength
  <2>3. Sound(c)'
    BY <1>1, <1>4, <2>2
       DEF IInv, Typed, Sound, Transfers, Unread, BodyAwaited, AsSent, Answered, Size, InFlight,
           IsComplete, ContentLength
  <2> QED BY <2>1, <2>3, <1>4, OthersSound, QueuedKept DEF IInv, Typed
<1> QED BY <1>3, <1>4 DEF RouteOrReadOn, Go

LEMMA FirstReadStep ==
  ASSUME IInv, NEW c \in Clients, Handler(c), FirstRead(c)
  PROVE  IInv'
<1>1. UNCHANGED << text, client, sent, taken, pending, frame, up, written >>
  BY HandlerLeaves DEF FirstRead
<1>2. ASSUME NEW n \in Arrived(c), raw' = [raw EXCEPT ![c] = n], UNCHANGED routed,
             NEW at \in {"write", "dead"}, pc' = [pc EXCEPT ![c] = at]
      PROVE  IInv'
  <2>1. n \in Nat /\ n <= sent[c]
    BY DEF Arrived, IInv, Typed
  <2>2. Typed'
    BY <1>1, <1>2, <2>1 DEF IInv, Typed
  <2>3. Sound(c)'
    BY <1>1, <1>2, <2>1
       DEF FirstRead, IInv, Typed, Sound, Transfers, Unread, BodyAwaited, AsSent, Answered, Size, InFlight
  <2> QED BY <1>1, <1>2, <2>2, <2>3, OthersSound, QueuedKept DEF FirstRead, IInv, Typed
<1>3. ASSUME NEW n \in Arrived(c), raw' = [raw EXCEPT ![c] = n],
             Parses(c, n), ~Throws(c, n), RouteOrReadOn(c, n)
      PROVE  IInv'
  <2>1. n >= text[c].head /\ text[c].length \in Nat
    BY <1>3, TextTyped DEF IInv, Parses, HeadersComplete, Throws
  <2> QED BY <1>1, <1>3, <2>1, RouteOrReadOnStep DEF FirstRead
<1>4. ASSUME ReadsNothing(c), pc' = [pc EXCEPT ![c] = "closed"], UNCHANGED << raw, routed >>
      PROVE  IInv'
  <2>1. Typed'
    BY <1>1, <1>4 DEF IInv, Typed
  <2>2. client[c] \in {"open", "ended"} => client[c] = "ended" /\ sent[c] = 0
    BY <1>4 DEF FirstRead, ReadsNothing, IInv, Sound, Unread
  <2>3. Sound(c)'
    BY <1>1, <1>4, <2>2
       DEF FirstRead, IInv, Typed, Sound, Transfers, Unread, BodyAwaited, AsSent, Answered, Size, InFlight
  <2> QED BY <1>1, <1>4, <2>1, <2>3, OthersSound, QueuedKept DEF FirstRead, IInv, Typed
<1> QED BY <1>2, <1>3, <1>4 DEF FirstRead, Go

LEMMA ReadMoreStep ==
  ASSUME IInv, NEW c \in Clients, Handler(c), ReadMore(c)
  PROVE  IInv'
<1>1. UNCHANGED << text, client, sent, taken, pending, frame, up, written >>
  BY HandlerLeaves DEF ReadMore
<1>2. /\ pc[c] = "more" /\ raw[c] \in Nat /\ text[c].head \in Nat
      /\ raw[c] >= text[c].head /\ text[c].length \in Nat
  BY TextTyped DEF ReadMore, IInv, Typed, Sound, BodyAwaited
<1>3. ASSUME NEW n \in Arrived(c), raw' = [raw EXCEPT ![c] = n], RouteOrReadOn(c, n)
      PROVE  IInv'
  <2>1. n >= text[c].head
    BY <1>2 DEF Arrived, IInv, Typed
  <2> QED BY <1>1, <1>2, <1>3, <2>1, RouteOrReadOnStep
<1>4. ASSUME ReadsNothing(c), routed' = [routed EXCEPT ![c] = {Body(c, raw[c])}],
             pc' = [pc EXCEPT ![c] = "routing"], UNCHANGED raw
      PROVE  IInv'
  <2>1. /\ Body(c, raw[c]) \in Nat
        /\ raw[c] < text[c].head + text[c].length
    BY <1>2, RoutedBody DEF IInv, Sound, BodyAwaited
  <2>2. /\ client[c] \in {"ended", "gone"}
        /\ client[c] = "ended" => sent[c] < text[c].head + text[c].length
    BY <1>4, <2>1 DEF ReadsNothing
  <2>3. Typed'
    BY <1>1, <1>4, <2>1 DEF IInv, Typed
  <2>4. Sound(c)'
    BY <1>1, <1>2, <1>4, <2>2
       DEF IInv, Typed, Sound, Transfers, Unread, BodyAwaited, AsSent, Answered, Size, InFlight
  <2> QED BY <1>1, <1>2, <1>4, <2>3, <2>4, OthersSound, QueuedKept DEF IInv, Typed
<1> QED BY <1>3, <1>4 DEF ReadMore, Go

(* The rest of the handler: neither the reads nor the routed body change.  *)
LEMMA AnswerStep ==
  ASSUME IInv, NEW c \in Clients, Handler(c), Respond(c) \/ WriteToClient(c)
  PROVE  IInv'
<1>1. UNCHANGED << text, client, sent, taken, pending, frame, up, raw, routed >>
  BY HandlerLeaves DEF Respond, WriteToClient
<1>2. CASE Respond(c)
  <2>1. /\ pc[c] = "routing" /\ UNCHANGED written
        /\ \E at \in {"write", "dead"} : pc' = [pc EXCEPT ![c] = at]
    BY <1>2 DEF Respond, Go
  <2>2. Typed'
    BY <1>1, <2>1 DEF IInv, Typed
  <2>3. Sound(c)'
    BY <1>1, <2>1
       DEF IInv, Typed, Sound, Transfers, Unread, BodyAwaited, AsSent, Answered, Size, InFlight
  <2> QED BY <1>1, <2>1, <2>2, <2>3, OthersSound, QueuedKept DEF IInv, Typed
<1>3. ASSUME pc[c] = "write", NEW n \in 1..(Window - InFlight(c)), written[c] + n <= ResponseSize,
             written' = [written EXCEPT ![c] = @ + n],
             IF written[c] + n = ResponseSize THEN Go(c, "closed") ELSE UNCHANGED pc
      PROVE  IInv'
  <2>1. n \in Nat /\ InFlight(c) + n <= Window
    BY ClientAssumption DEF IInv, Typed, InFlight
  <2>2. pc' = [pc EXCEPT ![c] = IF written[c] + n = ResponseSize THEN "closed" ELSE "write"]
    BY <1>3 DEF Go, IInv, Typed
  <2>3. Typed'
    BY <1>1, <1>3, <2>1, <2>2 DEF IInv, Typed
  <2>4. Sound(c)'
    BY <1>1, <1>3, <2>1, <2>2
       DEF IInv, Typed, Sound, Transfers, Unread, BodyAwaited, AsSent, Answered, Size, InFlight
  <2> QED BY <1>1, <1>3, <2>2, <2>3, <2>4, OthersSound, QueuedKept DEF IInv, Typed
<1>4. ASSUME pc[c] = "write", client[c] = "gone", Go(c, "closed"), UNCHANGED written
      PROVE  IInv'
  <2>1. Typed'
    BY <1>1, <1>4 DEF Go, IInv, Typed
  <2>2. Sound(c)'
    BY <1>1, <1>4
       DEF Go, IInv, Typed, Sound, Transfers, Unread, BodyAwaited, AsSent, Answered, Size, InFlight
  <2> QED BY <1>1, <1>4, <2>1, <2>2, OthersSound, QueuedKept DEF Go, IInv, Typed
<1> QED BY <1>2, <1>3, <1>4 DEF WriteToClient

LEMMA HandlerStep ==
  ASSUME IInv, NEW c \in Clients, Handler(c)
  PROVE  IInv'
  BY FirstReadStep, ReadMoreStep, AnswerStep DEF Handler

-----------------------------------------------------------------------------
(* The accept loop, the queue and the clients.                             *)

LEMMA AcceptLoopStep ==
  ASSUME IInv, NEW c \in Clients, AcceptLoop(c)
  PROVE  IInv'
<1>1. /\ pc[c] = "none" /\ client[c] # "new"
      /\ pending' = Append(pending, c)
      /\ frame' = [frame EXCEPT ![c] = "destroyed"]
      /\ pc' = [pc EXCEPT ![c] = "scheduled"]
      /\ UNCHANGED << text, client, sent, taken, raw, routed, written, up >>
  BY DEF AcceptLoop, Go, peers
<1>2. Typed'
  BY <1>1 DEF IInv, Typed
<1>3. Queued'
  <2>1. /\ pending \in Seq(Clients)
        /\ \A i \in DOMAIN pending : pending[i] \in Clients /\ pending[i] # c
    BY <1>1 DEF IInv, Typed, Queued
  <2>2. \A i \in DOMAIN pending' :
          pending'[i] = IF i \in DOMAIN pending THEN pending[i] ELSE c
    BY <1>1, <2>1
  <2>3. \A i, j \in DOMAIN pending' : i \notin DOMAIN pending /\ j \notin DOMAIN pending => i = j
    BY <1>1, <2>1
  <2>4. /\ \A i \in DOMAIN pending : pc[pending[i]] = "scheduled"
        /\ \A i, j \in DOMAIN pending : pending[i] = pending[j] => i = j
    BY DEF IInv, Queued
  <2>5. \A d \in Clients : pc'[d] = IF d = c THEN "scheduled" ELSE pc[d]
    BY <1>1 DEF IInv, Typed
  <2>6. \A i \in DOMAIN pending' : pc'[pending'[i]] = "scheduled"
    BY <2>1, <2>2, <2>4, <2>5
  <2>7. \A i, j \in DOMAIN pending' : pending'[i] = pending'[j] => i = j
    BY <2>1, <2>2, <2>3, <2>4
  <2> QED BY <2>6, <2>7 DEF Queued
<1>4. Sound(c)'
  BY <1>1 DEF IInv, Typed, Sound, Transfers, Unread, BodyAwaited, AsSent, Answered, Size, InFlight
<1> QED BY <1>1, <1>2, <1>3, <1>4, OthersSound DEF IInv, Typed

(* The first handle of the queue is resumed, if the process survives it.   *)
LEMMA ProcessPendingCoroutinesStep ==
  ASSUME IInv, ProcessPendingCoroutines
  PROVE  IInv'
<1>1. UNCHANGED << text, client, sent, taken, frame, raw, routed, written >>
  BY DEF ProcessPendingCoroutines, peers
<1>2. CASE up' = FALSE /\ UNCHANGED << pc, pending >>
  <2>1. Typed' /\ Queued'
    BY <1>1, <1>2 DEF IInv, Typed, Queued
  <2>2. \A d \in Clients : Sound(d)'
    BY <1>1, <1>2
       DEF IInv, Sound, Transfers, Unread, BodyAwaited, AsSent, Answered, Size, InFlight,
           IsComplete, ContentLength
  <2> QED BY <2>1, <2>2 DEF IInv
<1>3. CASE Go(Head(pending), "first") /\ pending' = Tail(pending) /\ UNCHANGED up
  <2>0. /\ pending \in Seq(Clients) /\ pending # << >>
        /\ Head(pending) = pending[1] /\ 1 \in DOMAIN pending /\ pending[1] \in Clients
    BY DEF ProcessPendingCoroutines, IInv, Typed
  <2>1. PICK c \in Clients : c = Head(pending) /\ c = pending[1]
    BY <2>0
  <2>2. pc[c] = "scheduled" /\ pc' = [pc EXCEPT ![c] = "first"]
    BY <1>3, <2>0, <2>1 DEF Go, IInv, Queued
  <2>3. /\ pending' \in Seq(Clients)
        /\ \A i \in DOMAIN pending' :
             /\ i \in Nat \ {0} /\ i + 1 \in DOMAIN pending
             /\ pending'[i] = pending[i + 1]
    BY <1>3, <2>0
  <2>4. Typed'
    BY <1>1, <1>3, <2>1, <2>2, <2>3 DEF IInv, Typed
  <2>5. Queued'
    <3>1. \A i \in DOMAIN pending' : pending[i + 1] # c /\ pending[i + 1] \in Clients
      BY <2>0, <2>1, <2>3 DEF IInv, Queued
    <3>2. \A d \in Clients \ {c} : pc'[d] = pc[d]
      BY <2>2 DEF IInv, Typed
    <3>3. \A i \in DOMAIN pending' : pc'[pending'[i]] = "scheduled"
      BY <2>3, <3>1, <3>2 DEF IInv, Queued
    <3>4. \A i, j \in DOMAIN pending' : pending'[i] = pending'[j] => i = j
      <4>1. ASSUME NEW i \in DOMAIN pending', NEW j \in DOMAIN pending', pending'[i] = pending'[j]
            PROVE  i + 1 = j + 1
        BY <2>3, <4>1 DEF IInv, Queued
      <4> QED BY <2>3, <4>1
    <3> QED BY <3>3, <3>4 DEF Queued
  <2>6. Sound(c)'
    BY <1>1, <2>1, <2>2
       DEF IInv, Typed, Sound, Transfers, Unread, BodyAwaited, AsSent, Answered, Size, InFlight
  <2>7. \A d \in Clients \ {c} : Sound(d)'
    <3>1. \A d \in Clients \ {c} : pc'[d] = pc[d]
      BY <2>2 DEF IInv, Typed
    <3> QED BY <1>1, <2>1, <3>1, OthersSound
  <2> QED BY <2>4, <2>5, <2>6, <2>7 DEF IInv
<1> QED BY <1>2, <1>3 DEF ProcessPendingCoroutines

LEMMA ClientStep ==
  ASSUME IInv, NEW c \in Clients, Client(c)
  PROVE  IInv'
<1>1. UNCHANGED << text, pc, pending, frame, raw, routed, written, up >>
  BY DEF Client, Connect, Send, Read, EndStream, Leave, ClientMoves
<1>2. Queued'
  BY <1>1 DEF IInv, Queued
<1>3. Size(c) \in Nat /\ text[c].head \in Nat
  BY TextTyped DEF IInv
<1>4. CASE Connect(c)
  <2>1. client[c] = "new" /\ client' = [client EXCEPT ![c] = "open"] /\ UNCHANGED << sent, taken >>
    BY <1>4 DEF Connect
  <2>2. Typed'
    BY <1>1, <2>1 DEF IInv, Typed, ClientStates
  <2>3. Sound(c)'
    BY <1>1, <2>1
       DEF IInv, Typed, Sound, Transfers, Unread, BodyAwaited, AsSent, Answered, Size, InFlight
  <2> QED BY <1>1, <1>2, <2>1, <2>2, <2>3, OthersSound DEF IInv, Typed
<1>5. CASE Send(c)
  <2>1. /\ client[c] = "open" /\ sent[c] < Size(c)
        /\ sent' = [sent EXCEPT ![c] = @ + 1] /\ UNCHANGED << client, taken >>
    BY <1>5 DEF Send
  <2>2. Typed'
    BY <1>1, <2>1 DEF IInv, Typed
  <2>3. Sound(c)'
    BY <1>1, <1>3, <2>1
       DEF IInv, Typed, Sound, Transfers, Unread, BodyAwaited, AsSent, Answered, Size, InFlight,
           IsComplete, ContentLength
  <2> QED BY <1>1, <1>2, <2>1, <2>2, <2>3, OthersSound DEF IInv, Typed
<1>6. CASE Read(c)
  <2>1. /\ taken[c] < written[c] /\ taken' = [taken EXCEPT ![c] = @ + 1]
        /\ UNCHANGED << client, sent >>
    BY <1>6 DEF Read
  <2>2. Typed'
    BY <1>1, <2>1 DEF IInv, Typed
  <2>3. Sound(c)'
    BY <1>1, <2>1, ClientAssumption
       DEF IInv, Typed, Sound, Transfers, Unread, BodyAwaited, AsSent, Answered, Size, InFlight,
           IsComplete, ContentLength
  <2> QED BY <1>1, <1>2, <2>1, <2>2, <2>3, OthersSound DEF IInv, Typed
<1>7. CASE EndStream(c) \/ Leave(c)
  <2>1. PICK to \in {"ended", "gone"} :
          /\ client' = [client EXCEPT ![c] = to]
          /\ client[c] = "open" \/ (client[c] = "ended" /\ to = "gone")
    BY <1>7 DEF EndStream, Leave
  <2>2. UNCHANGED << sent, taken >>
    BY <1>7 DEF EndStream, Leave
  <2>3. Typed'
    BY <1>1, <2>1, <2>2 DEF IInv, Typed, ClientStates
  <2>4. Sound(c)'
    BY <1>1, <2>1, <2>2
       DEF IInv, Typed, Sound, Transfers, Unread, BodyAwaited, AsSent, Answered, Size, InFlight,
           IsComplete, ContentLength
  <2> QED BY <1>1, <1>2, <2>1, <2>2, <2>3, <2>4, OthersSound DEF IInv, Typed
<1> QED BY <1>4, <1>5, <1>6, <1>7 DEF Client

LEMMA StutterStep ==
  ASSUME IInv, UNCHANGED vars
  PROVE  IInv'
  BY DEF IInv, vars, peers, Typed, Queued, Sound, Transfers, Unread, BodyAwaited, AsSent, Answered,
         Size, InFlight, IsComplete, ContentLength

LEMMA NextIInv == IInv /\ [Next]_vars => IInv'
  BY HandlerStep, AcceptLoopStep, ProcessPendingCoroutinesStep, ClientStep, StutterStep DEF Next

(* However requests are cut into reads, clients leave, the queue fills and *)
(* descriptors run out.                                                    *)
THEOREM Invariance == Spec => []IInv
  BY InitIInv, NextIInv, PTL DEF Spec

-----------------------------------------------------------------------------
(* Nothing is read that was not sent, and no more is written than the      *)
(* response has and the kernel takes.                                      *)
THEOREM TypeCorrectness == Spec => []TypeOK
<1>1. IInv => TypeOK
  <2> SUFFICES ASSUME IInv PROVE TypeOK
    OBVIOUS
  <2>1. ASSUME NEW c \in Clients
        PROVE  /\ raw[c] \in 0..sent[c] /\ sent[c] \in 0..Size(c)
               /\ taken[c] \in 0..written[c] /\ written[c] \in 0..ResponseSize
               /\ InFlight(c) <= Window
    BY TextTyped, ClientAssumption DEF IInv, Typed, Sound, Transfers
  <2> QED BY <2>1 DEF IInv, Typed, TypeOK
<1> QED BY <1>1, Invariance, PTL

(* A request is routed with the body it announced, unless its client ended *)
(* the stream before, or announced 2^32 bytes or more.                     *)
THEOREM RequestsRoutedAsSent == Spec => []RoutedAsSent
<1>1. IInv => RoutedAsSent
  BY DEF IInv, Sound, AsSent, RoutedAsSent
<1> QED BY <1>1, Invariance, PTL

(* A client that is still there gets the whole response before the close.  *)
THEOREM WholeResponseBeforeClose == Spec => []ClosedAfterResponse
<1>1. IInv => ClosedAfterResponse
  BY DEF IInv, Sound, Answered, ClosedAfterResponse
<1> QED BY <1>1, Invariance, PTL
=============================================================================
