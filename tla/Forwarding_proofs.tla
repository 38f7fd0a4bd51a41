-------------------------- MODULE Forwarding_proofs --------------------------
(***************************************************************************)
(* The theorems about Forwarding, for any number of backends, requests,    *)
(* connections and heartbeats, and whatever backends and clients do.       *)
(***************************************************************************)
EXTENDS Forwarding, FiniteSetTheorems, SequenceTheorems, TLAPS

(* The part of the state that decides who is resumed.                      *)
SchedulerTyped ==
  /\ armed \in [Backends -> [who : Coroutines \cup {Nobody}, mode : Waits \cup {"none"}]]
  /\ batch \in Seq(Coroutines)
  /\ running \in Coroutines \cup {Nobody}
  /\ pc \in [Coroutines -> Waits \cup {"none", "scheduled", "leaked", "idle", "arrived",
                                      "start", "frame", "done"}]
  /\ \A r \in Requests : pc[r] \notin {"none", "scheduled", "leaked"}
  /\ target \in [Requests -> Backends]
  /\ registered \in [Backends -> BOOLEAN]

InBatch(c) == \E i \in DOMAIN batch : batch[i] = c

(* A registration is of a coroutine that waits for just that, on its own   *)
(* connection, and that nothing else is about to resume.                   *)
ArmedSound ==
  \A b \in Backends :
    /\ armed[b].who = Nobody => armed[b].mode = "none"
    /\ armed[b].who # Nobody =>
         /\ Wire(armed[b].who) = b
         /\ armed[b].mode = pc[armed[b].who]
         /\ armed[b].mode \in Waits
         /\ running # armed[b].who
         /\ ~InBatch(armed[b].who)

BatchSound ==
  /\ \A i \in DOMAIN batch : pc[batch[i]] \in Waits \cup {"start"} /\ running # batch[i]
  /\ \A i, j \in DOMAIN batch : batch[i] = batch[j] => i = j

RunningSound ==
  /\ running # Nobody => pc[running] \in Waits \cup {"start", "frame"}
  /\ \A c \in Coroutines : pc[c] = "frame" => running = c

(* A registered backend's handler has not ended but of an exception, and   *)
(* only its connection is ever taken over by a request.                    *)
RegisteredSound ==
  \A b \in Backends :
    /\ registered[b] => pc[b] \in Waits \cup {"frame", "leaked"}
    /\ armed[b].who \in Requests => registered[b]

(* The handler waits, and nothing will ever resume it, or it has died.     *)
Lost(b) ==
  /\ pc[b] \in Waits \cup {"leaked"}
  /\ running # b /\ armed[b].who # b /\ ~InBatch(b)
  /\ registered[b]

(* The request was resumed by its backend's descriptor at least once.      *)
Woken(r) ==
  \/ pc[r] \in {"read", "frame"}
  \/ pc[r] = "write" /\ (running = r \/ InBatch(r))

(* A request that is resumed by the descriptor has taken the handler's     *)
(* registration, which nobody gives back.                                  *)
Overtaken ==
  /\ \A r \in Requests, b \in Backends : target[r] = b /\ Woken(r) => Lost(b)
  /\ \A b \in Backends : saved[b] # << >> => Lost(b)

Active == {r \in Requests : pc[r] \notin {"idle", "done"}}

Scheduling ==
  /\ SchedulerTyped
  /\ ArmedSound
  /\ BatchSound
  /\ RunningSound
  /\ RegisteredSound
  /\ Overtaken
  /\ IsFiniteSet(Active)

-----------------------------------------------------------------------------
(* How the scheduling changes when the running coroutine waits, goes on or *)
(* ends.                                                                   *)

LEMMA Apart ==
  /\ \A b \in Backends : b \in Coroutines /\ b \notin Requests /\ b # Nobody
  /\ \A r \in Requests : r \in Coroutines /\ r \notin Backends /\ r # Nobody
  /\ \A c \in Coroutines : c \in Backends \/ c \in Requests
  BY ForwardingAssumption DEF Coroutines

LEMMA WireTyped ==
  ASSUME SchedulerTyped, NEW c \in Coroutines
  PROVE  /\ Wire(c) \in Backends
         /\ c \in Backends => Wire(c) = c
         /\ c \in Requests => Wire(c) = target[c]
  BY Apart DEF Wire, SchedulerTyped

(* The running coroutine waits.                                            *)
LEMMA SuspendKeeps ==
  ASSUME Scheduling, NEW c \in Coroutines, running = c, NEW mode \in Waits, Suspend(c, mode),
         c \in Requests => registered[target[c]] /\ (mode = "read" => Woken(c)),
         UNCHANGED << target, saved >>, registered' \in [Backends -> BOOLEAN],
         \A b \in Backends : registered[b] => registered'[b],
         \A b \in Backends : registered'[b] # registered[b] => b = c
  PROVE  Scheduling'
<1> DEFINE w == Wire(c)
<1>1. /\ w \in Backends
      /\ c \in Backends => w = c
      /\ c \in Requests => w = target[c]
  BY WireTyped DEF Scheduling
<1> HIDE DEF w
<1>2. /\ armed' = [armed EXCEPT ![w] = [who |-> c, mode |-> mode]]
      /\ pc' = [pc EXCEPT ![c] = mode]
      /\ running' = Nobody
      /\ UNCHANGED batch
  BY DEF Suspend, w
<1>3. SchedulerTyped'
  BY <1>1, <1>2, Apart DEF Scheduling, SchedulerTyped, Waits
<1>4. /\ \A d \in Coroutines : InBatch(d)' <=> InBatch(d)
      /\ ~InBatch(c)
  BY <1>2 DEF InBatch, Scheduling, BatchSound
<1>5. \A b \in Backends : armed[b].who # c
  BY Apart DEF Scheduling, ArmedSound
<1>6. ArmedSound'
  BY <1>1, <1>2, <1>4, <1>5, <1>3, Apart DEF ArmedSound, Scheduling, SchedulerTyped, Wire, Waits
<1>7. BatchSound'
  BY <1>2, <1>4, Apart DEF BatchSound, Scheduling, SchedulerTyped, InBatch
<1>8. RunningSound'
  BY <1>2 DEF RunningSound, Scheduling, SchedulerTyped, Waits
<1>9. RegisteredSound'
  BY <1>1, <1>2, Apart DEF RegisteredSound, Scheduling, SchedulerTyped
<1>10. Overtaken'
  BY <1>1, <1>2, <1>4, Apart DEF Overtaken, Scheduling, SchedulerTyped, Woken, Lost, Waits
<1>11. IsFiniteSet(Active')
  <2>1. Active' \subseteq Active
    BY <1>2, Apart DEF Active, Scheduling, SchedulerTyped, RunningSound, Waits
  <2> QED BY <2>1, FS_Subset DEF Scheduling
<1> QED BY <1>3, <1>6, <1>7, <1>8, <1>9, <1>10, <1>11 DEF Scheduling

(* The running coroutine goes on.                                          *)
LEMMA ContinueKeeps ==
  ASSUME Scheduling, NEW c \in Coroutines, running = c, Continue(c, "frame"),
         c \in Requests => Woken(c),
         UNCHANGED << target, saved, registered >>
  PROVE  Scheduling'
<1>1. pc' = [pc EXCEPT ![c] = "frame"] /\ UNCHANGED << armed, batch, running >>
  BY DEF Continue
<1>2. SchedulerTyped'
  BY <1>1, Apart DEF Scheduling, SchedulerTyped
<1>3. \A d \in Coroutines : InBatch(d)' <=> InBatch(d)
  BY <1>1 DEF InBatch
<1>4. ~InBatch(c) /\ \A b \in Backends : armed[b].who # c
  BY Apart DEF InBatch, Scheduling, ArmedSound, BatchSound
<1>5. ArmedSound'
  BY <1>1, <1>3, <1>4, Apart DEF ArmedSound, Scheduling, SchedulerTyped, Wire, Waits
<1>6. BatchSound'
  BY <1>1, <1>4, Apart DEF BatchSound, Scheduling, SchedulerTyped, InBatch
<1>7. RunningSound'
  BY <1>1, Apart DEF RunningSound, Scheduling, SchedulerTyped
<1>8. RegisteredSound'
  BY <1>1, Apart DEF RegisteredSound, Scheduling, SchedulerTyped
<1>9. Overtaken'
  BY <1>1, <1>3, <1>4, Apart DEF Overtaken, Scheduling, SchedulerTyped, Woken, Lost, Waits
<1>10. IsFiniteSet(Active')
  <2>1. Active' \subseteq Active
    BY <1>1, Apart DEF Active, Scheduling, SchedulerTyped, RunningSound, Waits
  <2> QED BY <2>1, FS_Subset DEF Scheduling
<1> QED BY <1>2, <1>5, <1>6, <1>7, <1>8, <1>9, <1>10 DEF Scheduling

(* A request is over.                                                      *)
LEMMA FinishKeeps ==
  ASSUME Scheduling, NEW r \in Requests, running = r, End(r, "done", FALSE),
         UNCHANGED << target, registered >>,
         \/ UNCHANGED saved
         \/ Woken(r) /\ \A b \in Backends \ {target[r]} : saved'[b] = saved[b]
  PROVE  Scheduling'
<1>1. pc' = [pc EXCEPT ![r] = "done"] /\ running' = Nobody /\ UNCHANGED << armed, batch >>
  BY DEF End
<1>2. SchedulerTyped'
  BY <1>1, Apart DEF Scheduling, SchedulerTyped
<1>3. \A d \in Coroutines : InBatch(d)' <=> InBatch(d)
  BY <1>1 DEF InBatch
<1>4. ~InBatch(r) /\ \A b \in Backends : armed[b].who # r
  BY Apart DEF InBatch, Scheduling, ArmedSound, BatchSound
<1>5. ArmedSound'
  BY <1>1, <1>2, <1>3, <1>4, Apart DEF ArmedSound, Scheduling, SchedulerTyped, Wire, Waits
<1>6. BatchSound'
  BY <1>1, <1>4, Apart DEF BatchSound, Scheduling, SchedulerTyped, InBatch
<1>7. RunningSound'
  BY <1>1, Apart DEF RunningSound, Scheduling, SchedulerTyped
<1>8. RegisteredSound'
  BY <1>1, Apart DEF RegisteredSound, Scheduling, SchedulerTyped
<1>9. Overtaken'
  <2>1. \A b \in Backends : Lost(b) => Lost(b)'
    BY <1>1, <1>3, Apart DEF Scheduling, SchedulerTyped, Lost
  <2>2. \A q \in Requests : Woken(q)' => Woken(q)
    BY <1>1, <1>3, Apart DEF Scheduling, SchedulerTyped, Woken
  <2>3. target[r] \in Backends /\ (Woken(r) => Lost(target[r]))
    BY DEF Scheduling, SchedulerTyped, Overtaken
  <2> QED BY <1>2, <2>1, <2>2, <2>3 DEF Scheduling, SchedulerTyped, Overtaken
<1>10. IsFiniteSet(Active')
  <2>1. Active' \subseteq Active
    BY <1>1, Apart DEF Active, Scheduling, SchedulerTyped, Waits
  <2> QED BY <2>1, FS_Subset DEF Scheduling
<1> QED BY <1>2, <1>5, <1>6, <1>7, <1>8, <1>9, <1>10 DEF Scheduling

(* A handler is over, and with it its registered connection.               *)
LEMMA UnregisterKeeps ==
  ASSUME Scheduling, NEW b \in Backends, running = b, Unregister(b)
  PROVE  Scheduling'
<1> DEFINE at == IF registered[b] THEN "none" ELSE "leaked"
<1>1. /\ registered' = [registered EXCEPT ![b] = FALSE]
      /\ pc' = [pc EXCEPT ![b] = at]
      /\ running' = Nobody
      /\ armed' = IF registered[b] THEN [armed EXCEPT ![b] = NoWait] ELSE armed
      /\ UNCHANGED << batch, target, saved >>
  BY DEF Unregister, End, Wire
<1>2. at \in {"none", "leaked"}
  OBVIOUS
<1> HIDE DEF at
<1>3. SchedulerTyped'
  BY <1>1, <1>2, Apart DEF Scheduling, SchedulerTyped, NoWait
<1>4. \A d \in Coroutines : InBatch(d)' <=> InBatch(d)
  BY <1>1 DEF InBatch
<1>5. ~InBatch(b) /\ \A d \in Backends : armed[d].who # b
  BY Apart DEF InBatch, Scheduling, ArmedSound, BatchSound
<1>6. ArmedSound'
  BY <1>1, <1>2, <1>3, <1>4, <1>5, Apart
     DEF ArmedSound, Scheduling, SchedulerTyped, Wire, Waits, NoWait
<1>7. BatchSound'
  BY <1>1, <1>5, Apart DEF BatchSound, Scheduling, SchedulerTyped, InBatch
<1>8. RunningSound'
  BY <1>1, <1>2, Apart DEF RunningSound, Scheduling, SchedulerTyped
<1>9. RegisteredSound'
  BY <1>1, <1>2, Apart DEF RegisteredSound, Scheduling, SchedulerTyped, NoWait
<1>10. Overtaken'
  BY <1>1, <1>2, <1>4, <1>5, Apart
     DEF Overtaken, Scheduling, SchedulerTyped, Woken, Lost, Waits, NoWait
<1>11. IsFiniteSet(Active')
  <2>1. Active' \subseteq Active
    BY <1>1, <1>2, Apart DEF Active, Scheduling, SchedulerTyped, Waits
  <2> QED BY <2>1, FS_Subset DEF Scheduling
<1> QED BY <1>3, <1>6, <1>7, <1>8, <1>9, <1>10, <1>11 DEF Scheduling

(* A handler dies, registered or not, and leaves everything as it is.      *)
LEMMA DieKeeps ==
  ASSUME Scheduling, NEW b \in Backends, running = b, NEW type, Die(b, type)
  PROVE  Scheduling'
<1>1. /\ registered' = registered \/ registered' = [registered EXCEPT ![b] = TRUE]
      /\ pc' = [pc EXCEPT ![b] = "leaked"]
      /\ running' = Nobody
      /\ UNCHANGED << armed, batch, target, saved >>
  BY DEF Die, End
<1>2. SchedulerTyped'
  BY <1>1, Apart DEF Scheduling, SchedulerTyped
<1>3. \A d \in Coroutines : InBatch(d)' <=> InBatch(d)
  BY <1>1 DEF InBatch
<1>4. ~InBatch(b) /\ \A d \in Backends : armed[d].who # b
  BY Apart DEF InBatch, Scheduling, ArmedSound, BatchSound
<1>5. ArmedSound'
  BY <1>1, <1>2, <1>3, <1>4, Apart DEF ArmedSound, Scheduling, SchedulerTyped, Wire, Waits
<1>6. BatchSound'
  BY <1>1, <1>4, Apart DEF BatchSound, Scheduling, SchedulerTyped, InBatch
<1>7. RunningSound'
  BY <1>1, Apart DEF RunningSound, Scheduling, SchedulerTyped
<1>8. RegisteredSound'
  BY <1>1, Apart DEF RegisteredSound, Scheduling, SchedulerTyped
<1>9. Overtaken'
  BY <1>1, <1>3, <1>4, Apart DEF Overtaken, Scheduling, SchedulerTyped, Woken, Lost, Waits
<1>10. IsFiniteSet(Active')
  <2>1. Active' \subseteq Active
    BY <1>1, Apart DEF Active, Scheduling, SchedulerTyped, Waits
  <2> QED BY <2>1, FS_Subset DEF Scheduling
<1> QED BY <1>2, <1>5, <1>6, <1>7, <1>8, <1>9, <1>10 DEF Scheduling

(* Nothing that the scheduling is about changes.                           *)
LEMMA SchedulingStutter ==
  ASSUME Scheduling, UNCHANGED << armed, batch, running, pc, target, saved, registered >>
  PROVE  Scheduling'
  BY DEF Scheduling, SchedulerTyped, ArmedSound, BatchSound, RunningSound, RegisteredSound,
         Overtaken, Active, InBatch, Wire, Lost, Woken, Waits

-----------------------------------------------------------------------------
(* The event loop.                                                         *)

LEMMA SetToSeqsMembers ==
  ASSUME NEW S, IsFiniteSet(S), NEW s \in SetToSeqs(S)
  PROVE  /\ s \in Seq(S)
         /\ \A i, j \in DOMAIN s : s[i] = s[j] => i = j
<1>1. Cardinality(S) \in Nat
  BY FS_CardinalityType
<1>2. /\ s \in [1..Cardinality(S) -> S]
      /\ \A i, j \in 1..Cardinality(S) : i # j => s[i] # s[j]
  BY DEF SetToSeqs
<1>3. s \in Seq(S)
  BY <1>1, <1>2
<1> QED BY <1>2, <1>3

LEMMA ReadyWaits ==
  ASSUME SchedulerTyped, NEW b \in Backends, Ready(b)
  PROVE  armed[b].mode \in Waits
<1>1. armed[b].mode \in {"read", "write", "none"}
  BY DEF SchedulerTyped, Waits
<1>2. CASE armed[b].mode = "none"
  <2>1. Ready(b) = FALSE
    BY <1>2 DEF Ready
  <2> QED BY <2>1
<1> QED BY <1>1, <1>2 DEF Waits

LEMMA AcceptConnectionKeeps ==
  ASSUME Scheduling, NEW b \in Backends, AcceptConnection(b)
  PROVE  Scheduling'
<1>1. /\ pc[b] = "none" /\ pc' = [pc EXCEPT ![b] = "scheduled"]
      /\ UNCHANGED << armed, batch, running, target, saved, registered >>
  BY DEF AcceptConnection
<1>2. ~InBatch(b) /\ running # b /\ \A d \in Backends : armed[d].who # b
  BY <1>1, Apart DEF Scheduling, ArmedSound, BatchSound, RunningSound, InBatch, Waits
<1>3. \A d \in Coroutines : InBatch(d)' <=> InBatch(d)
  BY <1>1 DEF InBatch
<1>4. SchedulerTyped' /\ ArmedSound' /\ BatchSound' /\ RunningSound' /\ RegisteredSound'
  BY <1>1, <1>2, <1>3, Apart
     DEF Scheduling, SchedulerTyped, ArmedSound, BatchSound, RunningSound, RegisteredSound,
         InBatch, Wire, Waits
<1>5. Overtaken'
  BY <1>1, <1>2, <1>3, Apart DEF Overtaken, Scheduling, SchedulerTyped, Woken, Lost, Waits
<1>6. Active' = Active
  BY <1>1, Apart DEF Active, Scheduling, SchedulerTyped
<1> QED BY <1>4, <1>5, <1>6 DEF Scheduling

LEMMA ProcessPendingCoroutinesKeeps ==
  ASSUME Scheduling, NEW b \in Backends, ProcessPendingCoroutines(b)
  PROVE  Scheduling'
<1>1. /\ running = Nobody /\ pc[b] = "scheduled"
      /\ pc' = [pc EXCEPT ![b] = "frame"] /\ running' = b
      /\ UNCHANGED << armed, batch, target, saved, registered >>
  BY DEF ProcessPendingCoroutines
<1>2. ~InBatch(b) /\ \A d \in Backends : armed[d].who # b
  BY <1>1, Apart DEF Scheduling, ArmedSound, BatchSound, InBatch, Waits
<1>3. \A d \in Coroutines : InBatch(d)' <=> InBatch(d)
  BY <1>1 DEF InBatch
<1>4. SchedulerTyped' /\ BatchSound' /\ RunningSound' /\ RegisteredSound'
  BY <1>1, <1>2, <1>3, Apart
     DEF Scheduling, SchedulerTyped, BatchSound, RunningSound, RegisteredSound, InBatch, Waits
<1>5. ArmedSound'
  BY <1>1, <1>2, <1>3, Apart DEF Scheduling, SchedulerTyped, ArmedSound, Wire, Waits
<1>6. Overtaken'
  BY <1>1, <1>2, <1>3, Apart DEF Overtaken, Scheduling, SchedulerTyped, Woken, Lost, Waits
<1>7. Active' = Active
  BY <1>1, Apart DEF Active, Scheduling, SchedulerTyped
<1> QED BY <1>4, <1>5, <1>6, <1>7 DEF Scheduling

LEMMA ResumeKeeps ==
  ASSUME Scheduling, Resume
  PROVE  Scheduling'
<1>1. /\ running = Nobody /\ batch \in Seq(Coroutines) /\ batch # << >>
      /\ running' = Head(batch) /\ batch' = Tail(batch)
      /\ UNCHANGED << armed, pc, target, saved, registered >>
  BY DEF Resume, Scheduling, SchedulerTyped
<1>2. /\ batch' \in Seq(Coroutines)
      /\ 1 \in DOMAIN batch /\ running' = batch[1] /\ running' \in Coroutines
      /\ \A i \in DOMAIN batch' :
           /\ i \in Nat \ {0} /\ i + 1 \in DOMAIN batch
           /\ batch'[i] = batch[i + 1]
  BY <1>1
<1>3. /\ pc[running'] \in Waits \cup {"start"}
      /\ InBatch(running')
      /\ \A i \in DOMAIN batch' : batch'[i] # running'
  BY <1>2 DEF Scheduling, BatchSound, InBatch
<1>4. \A c \in Coroutines : InBatch(c)' => InBatch(c)
  BY <1>2 DEF InBatch
<1>5. SchedulerTyped' /\ RegisteredSound'
  BY <1>1, <1>2, Apart DEF Scheduling, SchedulerTyped, RegisteredSound
<1>6. ArmedSound'
  BY <1>1, <1>3, <1>4, Apart DEF Scheduling, SchedulerTyped, ArmedSound, Wire
<1>7. BatchSound'
  <2>1. \A i \in DOMAIN batch' : pc[batch'[i]] \in Waits \cup {"start"}
    BY <1>2 DEF Scheduling, BatchSound
  <2>2. ASSUME NEW i \in DOMAIN batch', NEW j \in DOMAIN batch', batch'[i] = batch'[j]
        PROVE  i = j
    <3>1. i + 1 = j + 1
      BY <1>2, <2>2 DEF Scheduling, BatchSound
    <3> QED BY <1>2, <3>1
  <2> QED BY <1>1, <1>3, <2>1, <2>2 DEF BatchSound
<1>8. RunningSound'
  BY <1>1, <1>2, <1>3, Apart DEF Scheduling, RunningSound, Waits
<1>9. Overtaken'
  <2>1. \A b \in Backends : Lost(b) => Lost(b)'
    BY <1>1, <1>3, <1>4, Apart DEF Lost
  <2>2. \A r \in Requests : Woken(r)' => Woken(r)
    BY <1>1, <1>3, <1>4, Apart DEF Woken
  <2> QED BY <1>1, <2>1, <2>2 DEF Scheduling, Overtaken
<1>10. Active' = Active
  BY <1>1 DEF Active
<1> QED BY <1>5, <1>6, <1>7, <1>8, <1>9, <1>10 DEF Scheduling

(* What epoll_wait returns is waited for and not returned again.           *)
LEMMA EpollWaitKeeps ==
  ASSUME Scheduling, EpollWait
  PROVE  Scheduling'
<1> DEFINE wires    == {b \in Backends : Ready(b)}
           arrivals == {r \in Requests : pc[r] = "arrived"}
           ready    == {armed[b].who : b \in wires} \cup arrivals
<1>1. /\ running = Nobody /\ batch = << >>
      /\ batch' \in SetToSeqs(ready)
      /\ armed' = [b \in Backends |-> IF b \in wires THEN NoWait ELSE armed[b]]
      /\ pc' = [c \in Coroutines |-> IF c \in arrivals THEN "start" ELSE pc[c]]
      /\ UNCHANGED << running, target, saved, registered >>
  BY DEF EpollWait
<1>2. \A b \in wires : /\ armed[b].who \in Coroutines
                       /\ Wire(armed[b].who) = b
                       /\ pc[armed[b].who] \in Waits
  BY ReadyWaits, Apart DEF Scheduling, SchedulerTyped, ArmedSound, Waits, Coroutines
<1>3. ready \subseteq Coroutines /\ IsFiniteSet(ready)
  <2>1. IsFiniteSet(wires)
    BY FS_Subset, ForwardingAssumption
  <2>2. IsFiniteSet({armed[b].who : b \in wires})
    <3> DEFINE T == {armed[b].who : b \in wires}
               f == [b \in wires |-> armed[b].who]
    <3>1. f \in Surjection(wires, T)
      BY DEF Surjection
    <3> QED BY <2>1, <3>1, FS_Surjection
  <2>3. IsFiniteSet(arrivals)
    <3>1. arrivals \subseteq Active
      BY DEF Active
    <3> QED BY <3>1, FS_Subset DEF Scheduling
  <2>4. IsFiniteSet(ready)
    BY <2>2, <2>3, FS_Union
  <2> QED BY <1>2, <2>4, Apart
<1>4. /\ batch' \in Seq(ready)
      /\ \A i, j \in DOMAIN batch' : batch'[i] = batch'[j] => i = j
  BY <1>1, <1>3, SetToSeqsMembers
<1>5. \A i \in DOMAIN batch' :
        \/ batch'[i] \in arrivals
        \/ \E b \in wires : batch'[i] = armed[b].who
  BY <1>4
<1>6. batch' \in Seq(Coroutines)
  BY <1>3, <1>4
<1> HIDE DEF wires, ready
<1>7. SchedulerTyped'
  BY <1>1, <1>6, Apart DEF Scheduling, SchedulerTyped, NoWait, wires
<1>8. \A c \in Coroutines : InBatch(c)' => c \in arrivals \/ \E b \in wires : c = armed[b].who
  BY <1>5 DEF InBatch
<1>9. ArmedSound'
  <2> SUFFICES ASSUME NEW b \in Backends, b \notin wires, armed[b].who # Nobody
               PROVE  /\ Wire(armed[b].who)' = b
                      /\ armed[b].mode = pc'[armed[b].who]
                      /\ armed[b].mode \in Waits
                      /\ ~InBatch(armed[b].who)'
    BY <1>1 DEF ArmedSound, NoWait, Scheduling
  <2> DEFINE c == armed[b].who
  <2>1. /\ c \in Coroutines /\ Wire(c) = b
        /\ armed[b].mode = pc[c] /\ pc[c] \in Waits
    BY DEF Scheduling, SchedulerTyped, ArmedSound
  <2>2. c \notin arrivals
    BY <2>1 DEF Waits
  <2>3. ~ \E d \in wires : c = armed[d].who
    BY <1>2, <2>1
  <2> QED BY <1>1, <1>8, <2>1, <2>2, <2>3 DEF Wire
<1>10. BatchSound'
  <2>1. ASSUME NEW i \in DOMAIN batch' PROVE pc'[batch'[i]] \in Waits \cup {"start"} /\ Nobody # batch'[i]
    BY <1>1, <1>2, <1>5, Apart
  <2> QED BY <1>1, <1>4, <2>1 DEF BatchSound
<1>11. RunningSound'
  BY <1>1 DEF Scheduling, RunningSound
<1>12. RegisteredSound'
  BY <1>1, Apart DEF Scheduling, RegisteredSound, SchedulerTyped, NoWait
<1>13. Overtaken'
  <2>1. ASSUME NEW b \in Backends, Lost(b) PROVE Lost(b)'
    <3>1. b \notin arrivals /\ ~ \E d \in wires : b = armed[d].who
      BY <1>2, <2>1, Apart DEF Lost, Wire
    <3>2. armed'[b].who # b
      BY <1>1, <2>1, Apart DEF Lost, NoWait
    <3> QED BY <1>1, <1>8, <2>1, <3>1, <3>2, Apart DEF Lost
  <2>2. ASSUME NEW r \in Requests, NEW b \in Backends, target[r] = b, Woken(r)' PROVE Lost(b)'
    <3>1. CASE Woken(r)
      BY <2>1, <2>2, <3>1 DEF Scheduling, Overtaken
    <3>2. CASE ~Woken(r)
      <4>1. pc'[r] = "write" /\ InBatch(r)'
        BY <1>1, <2>2, <3>2, Apart DEF Woken
      <4>2. r \notin arrivals
        BY <1>1, <4>1, Apart
      <4>3. PICK d \in wires : r = armed[d].who
        BY <1>8, <4>1, <4>2, Apart
      <4>4. d = b
        BY <1>2, <2>2, <4>3, Apart DEF Wire
      <4>5. /\ armed[b].who = r /\ b \in wires
            /\ registered[b] /\ pc[b] \in Waits \cup {"leaked"}
        BY <1>1, <4>3, <4>4, Apart DEF Scheduling, RegisteredSound, RunningSound
      <4>6. ~InBatch(b)'
        <5>1. b \notin arrivals
          BY Apart
        <5>2. ~ \E e \in wires : b = armed[e].who
          BY <1>2, <4>5, Apart DEF Wire
        <5> QED BY <1>8, <5>1, <5>2, Apart
      <4> QED BY <1>1, <4>5, <4>6, Apart DEF Lost, NoWait
    <3> QED BY <3>1, <3>2
  <2> QED BY <1>1, <2>1, <2>2 DEF Scheduling, Overtaken
<1>14. Active' = Active
  BY <1>1, Apart DEF Active
<1> QED BY <1>7, <1>9, <1>10, <1>11, <1>12, <1>13, <1>14 DEF Scheduling

-----------------------------------------------------------------------------
(* The coroutines.                                                         *)

LEMMA HandleFrameKeeps ==
  ASSUME Scheduling, NEW b \in Backends, running = b, HandleFrame(b)
  PROVE  Scheduling'
<1>1. CASE \E frame : /\ StartSend(b, frame)
                      /\ UNCHANGED << target, saved >>
                      /\ registered' = [registered EXCEPT ![b] = TRUE] \/ UNCHANGED registered
  <2>1. Suspend(b, "write")
    BY <1>1 DEF StartSend
  <2>2. /\ registered' \in [Backends -> BOOLEAN]
        /\ \A d \in Backends : registered[d] => registered'[d]
        /\ \A d \in Backends : registered'[d] # registered[d] => d = b
    BY <1>1 DEF Scheduling, SchedulerTyped
  <2> QED BY <1>1, <2>1, <2>2, SuspendKeeps, Apart DEF Waits
<1>2. CASE Unregister(b)
  BY <1>2, UnregisterKeeps
<1>3. CASE Continue(b, "frame") /\ UNCHANGED << target, saved, registered >>
  BY <1>3, ContinueKeeps, Apart
<1>4. CASE \E type : Die(b, type)
  BY <1>4, DieKeeps
<1> QED BY <1>1, <1>2, <1>3, <1>4 DEF HandleFrame

LEMMA HandlerWriteKeeps ==
  ASSUME Scheduling, NEW b \in Backends, running = b, HandlerWrite(b)
  PROVE  Scheduling'
<1>1. UNCHANGED << target, saved, registered >>
  BY DEF HandlerWrite
<1>2. registered \in [Backends -> BOOLEAN]
  BY DEF Scheduling, SchedulerTyped
<1>3. Suspend(b, "write") \/ Continue(b, "frame")
  BY DEF HandlerWrite, WriteSome
<1> QED BY <1>1, <1>2, <1>3, SuspendKeeps, ContinueKeeps, Apart DEF Waits

(* Both kinds of coroutine read alike.                                     *)
LEMMA AwaitFrameKeeps ==
  ASSUME Scheduling, NEW c \in Coroutines, running = c, AwaitFrame(c)
  PROVE  Scheduling'
<1>1. /\ pc[c] = "frame" /\ Suspend(c, "read")
      /\ UNCHANGED << target, saved, registered >>
  BY DEF AwaitFrame
<1>2. registered \in [Backends -> BOOLEAN]
  BY DEF Scheduling, SchedulerTyped
<1>3. c \in Requests => Woken(c) /\ registered[target[c]]
  BY <1>1 DEF Scheduling, SchedulerTyped, Overtaken, Woken, Lost
<1> QED BY <1>1, <1>2, <1>3, SuspendKeeps DEF Waits

LEMMA ReadSomeKeeps ==
  ASSUME Scheduling, NEW c \in Coroutines, running = c, ReadSome(c)
  PROVE  Scheduling'
<1>1. /\ pc[c] = "read" /\ Continue(c, "frame")
      /\ UNCHANGED << target, saved, registered >>
  BY DEF ReadSome
<1> QED BY <1>1, ContinueKeeps DEF Woken

LEMMA HandlerKeeps ==
  ASSUME Scheduling, NEW b \in Backends, running = b, Handler(b)
  PROVE  Scheduling'
<1>1. CASE HandleEndOfStream(b)
  BY <1>1, UnregisterKeeps DEF HandleEndOfStream
<1> QED BY <1>1, HandleFrameKeeps, HandlerWriteKeeps, AwaitFrameKeeps, ReadSomeKeeps, Apart DEF Handler

LEMMA RouteKeeps ==
  ASSUME Scheduling, NEW r \in Requests, running = r, Route(r)
  PROVE  Scheduling'
<1>1. UNCHANGED << target, saved, registered >>
  BY DEF Route
<1>2. registered \in [Backends -> BOOLEAN]
  BY DEF Scheduling, SchedulerTyped
<1>3. CASE registered[target[r]] /\ StartSend(r, Frame("Request", r))
  BY <1>1, <1>2, <1>3, SuspendKeeps, Apart DEF StartSend, Waits
<1>4. CASE \E result : Finish(r, result)
  BY <1>1, <1>4, FinishKeeps DEF Finish
<1> QED BY <1>3, <1>4 DEF Route

LEMMA RequestWriteKeeps ==
  ASSUME Scheduling, NEW r \in Requests, running = r, RequestWrite(r)
  PROVE  Scheduling'
<1>1. pc[r] = "write" /\ UNCHANGED << target, saved, registered >>
  BY DEF RequestWrite
<1>2. registered \in [Backends -> BOOLEAN] /\ Woken(r) /\ registered[target[r]]
  BY <1>1 DEF Scheduling, SchedulerTyped, Overtaken, Woken, Lost
<1>3. Suspend(r, "write") \/ Continue(r, "frame") \/ End(r, "done", FALSE)
  BY DEF RequestWrite, WriteSome, Finish
<1> QED BY <1>1, <1>2, <1>3, SuspendKeeps, ContinueKeeps, FinishKeeps, Apart DEF Waits

LEMMA RequestEndKeeps ==
  ASSUME Scheduling, NEW r \in Requests, running = r, TakeFrame(r) \/ RequestEndOfStream(r)
  PROVE  Scheduling'
<1>1. /\ pc[r] \in {"read", "frame"} /\ End(r, "done", FALSE)
      /\ UNCHANGED << target, registered >>
  BY DEF TakeFrame, RequestEndOfStream, EndOfStream, Finish
<1>2. \A b \in Backends \ {target[r]} : saved'[b] = saved[b]
  <2>1. \E left : saved' = [saved EXCEPT ![target[r]] = left]
    BY DEF TakeFrame, RequestEndOfStream
  <2> QED BY <2>1
<1> QED BY <1>1, <1>2, FinishKeeps DEF Woken

LEMMA RequestKeeps ==
  ASSUME Scheduling, NEW r \in Requests, running = r, Request(r)
  PROVE  Scheduling'
  BY RouteKeeps, RequestWriteKeeps, RequestEndKeeps, AwaitFrameKeeps, ReadSomeKeeps, Apart DEF Request

LEMMA ArriveKeeps ==
  ASSUME Scheduling, NEW r \in Requests, Arrive(r)
  PROVE  Scheduling'
<1>1. /\ pc[r] = "idle" /\ pc' = [pc EXCEPT ![r] = "arrived"]
      /\ UNCHANGED << armed, batch, running, target, saved, registered >>
  BY DEF Arrive
<1>2. ~InBatch(r) /\ running # r /\ \A d \in Backends : armed[d].who # r
  BY <1>1, Apart DEF Scheduling, ArmedSound, BatchSound, RunningSound, InBatch, Waits
<1>3. \A d \in Coroutines : InBatch(d)' <=> InBatch(d)
  BY <1>1 DEF InBatch
<1>4. SchedulerTyped' /\ ArmedSound' /\ BatchSound' /\ RunningSound' /\ RegisteredSound'
  BY <1>1, <1>2, <1>3, Apart
     DEF Scheduling, SchedulerTyped, ArmedSound, BatchSound, RunningSound, RegisteredSound,
         InBatch, Wire, Waits
<1>5. Overtaken'
  BY <1>1, <1>2, <1>3, Apart DEF Overtaken, Scheduling, SchedulerTyped, Woken, Lost, Waits
<1>6. IsFiniteSet(Active')
  <2>1. Active' = Active \cup {r}
    BY <1>1, Apart DEF Active, Scheduling, SchedulerTyped
  <2> QED BY <2>1, FS_AddElement DEF Scheduling
<1> QED BY <1>4, <1>5, <1>6 DEF Scheduling

(* A backend never touches the scheduling.                                 *)
BackendMoves(b) ==
  Connect(b) \/ Register(b) \/ Receive(b) \/ Reply(b) \/ Heartbeat(b) \/ SayGoodbye(b) \/ Leave(b)

LEMMA BackendLeaves ==
  ASSUME NEW b, BackendMoves(b)
  PROVE  UNCHANGED << gateway, target >>
  BY DEF BackendMoves, Connect, Register, Receive, Reply, Heartbeat, SayGoodbye, Leave

LEMMA SchedulingStep ==
  ASSUME Scheduling, [Next]_vars
  PROVE  Scheduling'
<1>1. CASE EventLoop
  BY <1>1, AcceptConnectionKeeps, ProcessPendingCoroutinesKeeps, EpollWaitKeeps, ResumeKeeps,
     HandlerKeeps, RequestKeeps DEF EventLoop, Run
<1>2. CASE \E r \in Requests : Arrive(r)
  BY <1>2, ArriveKeeps
<1>3. CASE \E b \in Backends : BackendMoves(b)
  BY <1>3, BackendLeaves, SchedulingStutter DEF gateway
<1>4. CASE UNCHANGED vars
  BY <1>4, SchedulingStutter DEF vars, gateway
<1> QED BY <1>1, <1>2, <1>3, <1>4 DEF Next, Environment, BackendMoves

LEMMA SchedulingInit ==
  ASSUME Init
  PROVE  Scheduling
<1>1. SchedulerTyped
  BY Apart DEF Init, SchedulerTyped, NoWait
<1>2. Active = {}
  BY Apart DEF Init, Active
<1>3. ArmedSound /\ BatchSound /\ RunningSound /\ RegisteredSound /\ Overtaken
  BY Apart DEF Init, ArmedSound, BatchSound, RunningSound, RegisteredSound, Overtaken, Woken, InBatch,
     NoWait
<1> QED BY <1>1, <1>2, <1>3, FS_EmptySet DEF Scheduling

(* Whatever interleaving of the handler and the requests, and whatever     *)
(* backends do.                                                            *)
THEOREM SchedulingInvariance == Spec => []Scheduling
<1>1. Init => Scheduling
  BY SchedulingInit
<1>2. Scheduling /\ [Next]_vars => Scheduling'
  BY SchedulingStep
<1> QED BY <1>1, <1>2, PTL DEF Spec

(* The loop resumes a coroutine once for a wait, and only one that waits.  *)
THEOREM WakeupsAreSound == Spec => []WakeupsSound
<1>1. Scheduling => WakeupsSound
  <2> SUFFICES ASSUME Scheduling, NEW c \in Coroutines, Holders(c) # {}
               PROVE  /\ Cardinality(Holders(c)) = 1
                      /\ running # c
                      /\ pc[c] \in Waits \cup {"start"}
                      /\ \A b \in Backends : armed[b].who = c => armed[b].mode = pc[c]
    BY DEF WakeupsSound
  <2>1. c # Nobody
    BY Apart
  <2>2. CASE \E b \in Backends : armed[b].who = c
    <3>1. PICK b \in Backends : armed[b].who = c
      BY <2>2
    <3>2. \A d \in Backends : armed[d].who = c => d = b
      BY <2>1, <3>1 DEF Scheduling, ArmedSound
    <3>3. {i \in DOMAIN batch : batch[i] = c} = {}
      BY <2>1, <3>1 DEF Scheduling, ArmedSound, InBatch
    <3>4. Holders(c) = {<< "epoll", b >>}
      BY <3>1, <3>2, <3>3 DEF Holders
    <3>5. Cardinality(Holders(c)) = 1
      BY <3>4, FS_Singleton
    <3> QED BY <2>1, <3>1, <3>2, <3>5 DEF Scheduling, ArmedSound
  <2>3. CASE ~ \E b \in Backends : armed[b].who = c
    <3>1. PICK i \in DOMAIN batch : batch[i] = c
      BY <2>3 DEF Holders
    <3>2. \A j \in DOMAIN batch : batch[j] = c => j = i
      BY <3>1 DEF Scheduling, BatchSound
    <3>3. Holders(c) = {<< "batch", i >>}
      BY <2>3, <3>1, <3>2 DEF Holders
    <3>4. Cardinality(Holders(c)) = 1
      BY <3>3, FS_Singleton
    <3> QED BY <2>3, <3>1, <3>4 DEF Scheduling, BatchSound
  <2> QED BY <2>2, <2>3
<1> QED BY <1>1, SchedulingInvariance, PTL

(* A descriptor that is used again starts with an empty buffer.            *)
THEOREM NothingInherited == Spec => []NoInheritedBytes
<1>1. Scheduling => NoInheritedBytes
  BY DEF Scheduling, Overtaken, Lost, NoInheritedBytes, Waits
<1> QED BY <1>1, SchedulingInvariance, PTL

-----------------------------------------------------------------------------
(* What travels.                                                           *)

(* Who asks is a request, and so is what a response answers.               *)
ToBackend   == {p \in Piece : p.frame.type = "Request" => p.frame.request \in Requests}
FromBackend == {p \in Piece : p.frame.type \in {"Response", "Error"} => p.frame.request \in Requests}

NamesRequest(a) ==
  a.status = "answered" /\ a.frame.type = "Response" => \E q \in Requests : a.frame = Frame("Response", q)

StreamsTyped ==
  /\ sending \in [Coroutines -> Seq(ToBackend)]
  /\ output \in [Backends -> Seq(ToBackend)]
  /\ buffer \in [Coroutines -> Seq(FromBackend)]
  /\ saved \in [Backends -> Seq(FromBackend)]
  /\ input \in [Backends -> Seq(FromBackend)]
  /\ owed \in [Backends -> SUBSET Requests]
  /\ DOMAIN answer = Requests
  /\ \A r \in Requests : NamesRequest(answer[r])

LEMMA EmptyTyped ==
  /\ << >> \in Seq(ToBackend)
  /\ << >> \in Seq(FromBackend)
  OBVIOUS

LEMMA SplitTyped ==
  ASSUME NEW S, NEW s \in Seq(S), NEW n \in 0..Len(s)
  PROVE  /\ SubSeq(s, 1, n) \in Seq(S) /\ Len(SubSeq(s, 1, n)) = n
         /\ \A i \in 1..n : SubSeq(s, 1, n)[i] = s[i]
         /\ DropFirst(s, n) \in Seq(S) /\ Len(DropFirst(s, n)) = Len(s) - n
         /\ \A i \in 1..(Len(s) - n) : DropFirst(s, n)[i] = s[n + i]
  BY DEF DropFirst

LEMMA PiecesTyped ==
  ASSUME NEW S, NEW frame, \A i \in 1..2 : [frame |-> frame, part |-> i] \in S
  PROVE  /\ Pieces(frame) \in Seq(S) /\ Len(Pieces(frame)) = 2
         /\ \A i \in 1..2 : Pieces(frame)[i] = [frame |-> frame, part |-> i]
  BY DEF Pieces

LEMMA CompleteFrame ==
  ASSUME NEW S, NEW buf \in Seq(S), HasCompleteFrame(buf)
  PROVE  /\ Len(buf) >= 2 /\ 1 \in DOMAIN buf /\ buf[1] \in S /\ buf[1].part = 1
         /\ Rest(buf) \in Seq(S) /\ Len(Rest(buf)) = Len(buf) - 2
         /\ \A i \in 1..(Len(buf) - 2) : Rest(buf)[i] = buf[2 + i]
         /\ DeserializeFrame(buf).frame = buf[1].frame
         /\ DeserializeFrame(buf).intact \in BOOLEAN
<1>1. Len(buf) \in Nat /\ Len(buf) >= 2 /\ 1 \in DOMAIN buf /\ buf[1] \in S /\ buf[1].part = 1
  BY DEF HasCompleteFrame
<1>2. /\ Rest(buf) \in Seq(S) /\ Len(Rest(buf)) = Len(buf) - 2
      /\ \A i \in 1..(Len(buf) - 2) : Rest(buf)[i] = buf[2 + i]
  BY <1>1, SplitTyped DEF Rest
<1>3. DeserializeFrame(buf).frame = buf[1].frame
  BY Zenon DEF DeserializeFrame
<1>4. DeserializeFrame(buf).intact \in BOOLEAN
  BY Zenon DEF DeserializeFrame
<1> QED BY <1>1, <1>2, <1>3, <1>4

LEMMA RequestTyped ==
  ASSUME NEW type \in FrameTypes, NEW who \in Requests \cup {Nobody}, NEW i \in 1..2
  PROVE  LET piece == [frame |-> Frame(type, who), part |-> i]
         IN  /\ (type = "Request" => who \in Requests) => piece \in ToBackend
             /\ (type \in {"Response", "Error"} => who \in Requests) => piece \in FromBackend
  BY DEF ToBackend, FromBackend, Piece, Frame

(* One lemma per step that moves bytes.                                    *)
LEMMA StartSendTyped ==
  ASSUME StreamsTyped, NEW c \in Coroutines, NEW type \in FrameTypes, NEW who \in Requests \cup {Nobody},
         type = "Request" => who \in Requests, StartSend(c, Frame(type, who))
  PROVE  sending' \in [Coroutines -> Seq(ToBackend)]
<1>1. \A i \in 1..2 : [frame |-> Frame(type, who), part |-> i] \in ToBackend
  BY RequestTyped
<1>2. Pieces(Frame(type, who)) \in Seq(ToBackend)
  BY <1>1, PiecesTyped
<1> QED BY <1>2 DEF StartSend, StreamsTyped

LEMMA WriteSomeTyped ==
  ASSUME StreamsTyped, SchedulerTyped, NEW c \in Coroutines, NEW n \in 1..Len(sending[c]), WriteSome(c, n)
  PROVE  /\ sending' \in [Coroutines -> Seq(ToBackend)]
         /\ output' \in [Backends -> Seq(ToBackend)]
<1>1. sending[c] \in Seq(ToBackend) /\ n \in 0..Len(sending[c])
  BY DEF StreamsTyped
<1>2. /\ SubSeq(sending[c], 1, n) \in Seq(ToBackend)
      /\ DropFirst(sending[c], n) \in Seq(ToBackend)
  BY <1>1, SplitTyped
<1>3. Wire(c) \in Backends /\ output[Wire(c)] \in Seq(ToBackend)
  BY WireTyped DEF StreamsTyped
<1>4. output[Wire(c)] \o SubSeq(sending[c], 1, n) \in Seq(ToBackend)
  BY <1>2, <1>3
<1> QED BY <1>2, <1>3, <1>4 DEF WriteSome, StreamsTyped

LEMMA ReadSomeTyped ==
  ASSUME StreamsTyped, SchedulerTyped, NEW c \in Coroutines, ReadSome(c)
  PROVE  StreamsTyped'
<1>1. Wire(c) \in Backends /\ input[Wire(c)] \in Seq(FromBackend) /\ buffer[c] \in Seq(FromBackend)
  BY WireTyped DEF StreamsTyped
<1>2. PICK n \in 0..Len(input[Wire(c)]) :
        /\ buffer' = [buffer EXCEPT ![c] = @ \o SubSeq(input[Wire(c)], 1, n)]
        /\ input' = [input EXCEPT ![Wire(c)] = DropFirst(@, n)]
  BY DEF ReadSome
<1>3. /\ SubSeq(input[Wire(c)], 1, n) \in Seq(FromBackend)
      /\ DropFirst(input[Wire(c)], n) \in Seq(FromBackend)
  BY <1>1, SplitTyped
<1>4. buffer[c] \o SubSeq(input[Wire(c)], 1, n) \in Seq(FromBackend)
  BY <1>1, <1>3
<1>5. UNCHANGED << sending, saved, answer, output, owed >>
  BY DEF ReadSome, backend
<1> QED BY <1>1, <1>2, <1>3, <1>4, <1>5 DEF StreamsTyped

LEMMA SayTyped ==
  ASSUME StreamsTyped, NEW b \in Backends, NEW type \in FrameTypes, NEW who \in Requests \cup {Nobody},
         type \in {"Response", "Error"} => who \in Requests, Say(b, Frame(type, who))
  PROVE  input' \in [Backends -> Seq(FromBackend)]
<1>1. \A i \in 1..2 : [frame |-> Frame(type, who), part |-> i] \in FromBackend
  BY RequestTyped
<1>2. Pieces(Frame(type, who)) \in Seq(FromBackend)
  BY <1>1, PiecesTyped
<1>3. input[b] \o Pieces(Frame(type, who)) \in Seq(FromBackend)
  BY <1>2 DEF StreamsTyped
<1> QED BY <1>3 DEF Say, StreamsTyped

LEMMA FailedTyped ==
  ASSUME NEW status \in {"404", "500", "dropped"}
  PROVE  NamesRequest(Failed(status)) /\ Failed(status).status = status
<1>1. Failed(status).status = status
  BY DEF Failed, Unanswered
<1> QED BY <1>1 DEF NamesRequest

LEMMA AnsweredTyped ==
  ASSUME NEW buf \in Seq(FromBackend), HasCompleteFrame(buf)
  PROVE  /\ NamesRequest(Answered(DeserializeFrame(buf)))
         /\ Answered(DeserializeFrame(buf)).status = "answered"
         /\ Answered(DeserializeFrame(buf)).frame = buf[1].frame
<1>1. /\ buf[1] \in FromBackend
      /\ DeserializeFrame(buf).frame = buf[1].frame
  BY CompleteFrame
<1>2. /\ Answered(DeserializeFrame(buf)).status = "answered"
      /\ Answered(DeserializeFrame(buf)).frame = DeserializeFrame(buf).frame
  BY Zenon DEF Answered
<1>3. buf[1].frame.type = "Response" => \E q \in Requests : buf[1].frame = Frame("Response", q)
  BY <1>1 DEF FromBackend, Piece, Frame
<1> QED BY <1>1, <1>2, <1>3 DEF NamesRequest

(* What becomes of a request: it fails, or has what it took.               *)
LEMMA OutcomesTyped ==
  ASSUME NEW got, NEW result \in Outcomes(got)
  PROVE  result \in {Failed("500"), Failed("dropped"), Answered(got)}
  BY DEF Outcomes, Dropped

LEMMA FinishTyped ==
  ASSUME StreamsTyped, NEW r \in Requests, NEW result, NamesRequest(result), Finish(r, result)
  PROVE  DOMAIN answer' = Requests /\ \A q \in Requests : NamesRequest(answer'[q])
  BY DEF Finish, StreamsTyped

LEMMA RestTyped ==
  ASSUME StreamsTyped, NEW c \in Coroutines, HasCompleteFrame(buffer[c])
  PROVE  /\ Rest(buffer[c]) \in Seq(FromBackend)
         /\ DeserializeFrame(buffer[c]).frame = buffer[c][1].frame
  BY CompleteFrame DEF StreamsTyped

LEMMA UnregisterTyped ==
  ASSUME StreamsTyped, NEW b \in Backends, Unregister(b), buffer' = [buffer EXCEPT ![b] = << >>]
  PROVE  StreamsTyped'
<1>1. /\ owed' \in [Backends -> SUBSET Requests]
      /\ input' \in [Backends -> Seq(FromBackend)]
      /\ output' \in [Backends -> Seq(ToBackend)]
      /\ UNCHANGED << sending, saved, answer >>
  BY EmptyTyped DEF Unregister, StreamsTyped
<1>2. buffer' \in [Coroutines -> Seq(FromBackend)]
  BY EmptyTyped, Apart DEF StreamsTyped
<1> QED BY <1>1, <1>2 DEF StreamsTyped

LEMMA HandlerTyped ==
  ASSUME StreamsTyped, SchedulerTyped, NEW b \in Backends, Handler(b)
  PROVE  StreamsTyped'
<1> b \in Coroutines
  BY Apart
<1>1. CASE HandleFrame(b)
  <2>1. HasCompleteFrame(buffer[b])
    BY <1>1 DEF HandleFrame
  <2>2. [buffer EXCEPT ![b] = Rest(@)] \in [Coroutines -> Seq(FromBackend)]
    BY <2>1, RestTyped DEF StreamsTyped
  <2>3. CASE /\ buffer' = [buffer EXCEPT ![b] = Rest(@)]
             /\ \E type \in {"Response", "Heartbeat"} : StartSend(b, Frame(type, Nobody))
             /\ UNCHANGED << saved, answer, input, output, backend >>
    <3>1. sending' \in [Coroutines -> Seq(ToBackend)]
      BY <2>3, StartSendTyped DEF FrameTypes
    <3> QED BY <2>2, <2>3, <3>1 DEF StreamsTyped, backend
  <2>4. CASE buffer' = [buffer EXCEPT ![b] = << >>] /\ Unregister(b)
    BY <2>4, UnregisterTyped
  <2>5. CASE /\ buffer' = [buffer EXCEPT ![b] = Rest(@)]
             /\ UNCHANGED << sending, saved, answer, input, output, backend >>
    BY <2>2, <2>5 DEF StreamsTyped, backend
  <2>6. CASE buffer' = [buffer EXCEPT ![b] = << >>] /\ \E type : Die(b, type)
    <3>1. buffer' \in [Coroutines -> Seq(FromBackend)]
      BY <2>6, EmptyTyped DEF StreamsTyped
    <3> QED BY <2>6, <3>1 DEF StreamsTyped, Die, backend
  <2> QED BY <1>1, <2>3, <2>4, <2>5, <2>6 DEF HandleFrame
<1>2. CASE HandleEndOfStream(b)
  BY <1>2, UnregisterTyped DEF HandleEndOfStream
<1>3. CASE HandlerWrite(b)
  <2>1. UNCHANGED << buffer, saved, answer, input, backend >>
    BY <1>3 DEF HandlerWrite
  <2>2. /\ sending' \in [Coroutines -> Seq(ToBackend)]
        /\ output' \in [Backends -> Seq(ToBackend)]
    <3>1. CASE \E n \in 1..Len(sending[b]) : WriteSome(b, n)
      BY <3>1, WriteSomeTyped
    <3>2. CASE sending' = [sending EXCEPT ![b] = << >>] /\ UNCHANGED output
      BY <3>2, EmptyTyped DEF StreamsTyped
    <3> QED BY <1>3, <3>1, <3>2 DEF HandlerWrite
  <2> QED BY <2>1, <2>2 DEF StreamsTyped, backend
<1>4. CASE AwaitFrame(b)
  BY <1>4 DEF AwaitFrame, StreamsTyped, backend
<1>5. CASE ReadSome(b)
  BY <1>5, ReadSomeTyped
<1> QED BY <1>1, <1>2, <1>3, <1>4, <1>5 DEF Handler

LEMMA RequestStepTyped ==
  ASSUME StreamsTyped, SchedulerTyped, NEW r \in Requests, Request(r)
  PROVE  StreamsTyped'
<1> r \in Coroutines /\ target[r] \in Backends
  BY Apart DEF SchedulerTyped
<1>1. CASE Route(r)
  <2>1. UNCHANGED << buffer, saved, input, output, owed >>
    BY <1>1 DEF Route, backend
  <2>2. CASE StartSend(r, Frame("Request", r)) /\ UNCHANGED answer
    BY <2>1, <2>2, StartSendTyped DEF StreamsTyped, FrameTypes
  <2>3. CASE (\E status \in {"404", "500"} : Finish(r, Failed(status))) /\ UNCHANGED sending
    BY <2>1, <2>3, FinishTyped, FailedTyped DEF StreamsTyped
  <2> QED BY <1>1, <2>2, <2>3 DEF Route
<1>2. CASE RequestWrite(r)
  <2>1. UNCHANGED << saved, input, owed >>
    BY <1>2 DEF RequestWrite, backend
  <2>2. CASE \E n \in 1..Len(sending[r]) :
               /\ WriteSome(r, n)
               /\ buffer' = IF n = Len(sending[r])
                            THEN [buffer EXCEPT ![r] = saved[target[r]]]
                            ELSE buffer
               /\ UNCHANGED answer
    <3>1. buffer' \in [Coroutines -> Seq(FromBackend)]
      BY <2>2 DEF StreamsTyped
    <3> QED BY <2>1, <2>2, <3>1, WriteSomeTyped DEF StreamsTyped
  <2>3. CASE /\ Finish(r, Failed("500"))
             /\ sending' = [sending EXCEPT ![r] = << >>]
             /\ UNCHANGED << buffer, output >>
    <3>1. sending' \in [Coroutines -> Seq(ToBackend)]
      BY <2>3, EmptyTyped DEF StreamsTyped
    <3> QED BY <2>1, <2>3, <3>1, FinishTyped, FailedTyped DEF StreamsTyped
  <2> QED BY <1>2, <2>2, <2>3 DEF RequestWrite
<1>3. CASE TakeFrame(r)
  <2>1. /\ UNCHANGED << sending, input, output, owed >>
        /\ HasCompleteFrame(buffer[r])
        /\ saved' = [saved EXCEPT ![target[r]] = Rest(buffer[r])]
        /\ buffer' = [buffer EXCEPT ![r] = << >>]
    BY <1>3 DEF TakeFrame, backend
  <2>2. Rest(buffer[r]) \in Seq(FromBackend) /\ buffer[r] \in Seq(FromBackend)
    BY <2>1, RestTyped DEF StreamsTyped
  <2>3. \/ \E status \in {"500", "dropped"} : Finish(r, Failed(status))
        \/ Finish(r, Answered(DeserializeFrame(buffer[r])))
    BY <1>3, OutcomesTyped DEF TakeFrame
  <2>4. DOMAIN answer' = Requests /\ \A q \in Requests : NamesRequest(answer'[q])
    BY <2>1, <2>2, <2>3, FinishTyped, FailedTyped, AnsweredTyped
  <2> QED BY <2>1, <2>2, <2>4, EmptyTyped DEF StreamsTyped
<1>4. CASE RequestEndOfStream(r)
  <2>1. /\ UNCHANGED << sending, input, output, owed >>
        /\ saved' = [saved EXCEPT ![target[r]] = buffer[r]]
        /\ buffer' = [buffer EXCEPT ![r] = << >>]
        /\ Finish(r, Failed("500"))
    BY <1>4 DEF RequestEndOfStream, backend
  <2> QED BY <2>1, FinishTyped, FailedTyped, EmptyTyped DEF StreamsTyped
<1>5. CASE AwaitFrame(r)
  BY <1>5 DEF AwaitFrame, StreamsTyped, backend
<1>6. CASE ReadSome(r)
  BY <1>6, ReadSomeTyped
<1> QED BY <1>1, <1>2, <1>3, <1>4, <1>5, <1>6 DEF Request

LEMMA BackendTyped ==
  ASSUME StreamsTyped, NEW b \in Backends, BackendMoves(b)
  PROVE  StreamsTyped'
<1>1. UNCHANGED << sending, buffer, saved, answer >>
  BY BackendLeaves DEF gateway
<1>2. CASE \E type \in FrameTypes, who \in Requests \cup {Nobody} :
             /\ type \in {"Response", "Error"} => who \in Requests
             /\ Say(b, Frame(type, who))
             /\ UNCHANGED output
             /\ owed' \in [Backends -> SUBSET Requests]
  BY <1>1, <1>2, SayTyped DEF StreamsTyped
<1>3. CASE Connect(b)
  BY <1>1, <1>3 DEF Connect, StreamsTyped
<1>4. CASE Register(b)
  <2>1. UNCHANGED << owed, output >> /\ Say(b, Frame("Registration", Nobody))
    BY <1>4 DEF Register
  <2> QED BY <1>2, <2>1 DEF StreamsTyped, FrameTypes
<1>5. CASE Receive(b)
  <2>1. /\ HasCompleteFrame(output[b])
        /\ output' = [output EXCEPT ![b] = Rest(@)]
        /\ \/ UNCHANGED owed
           \/ /\ DeserializeFrame(output[b]).frame.type = "Request"
              /\ owed' = [owed EXCEPT ![b] = @ \cup {DeserializeFrame(output[b]).frame.request}]
        /\ UNCHANGED input
    BY <1>5 DEF Receive
  <2>2. /\ output[b][1] \in ToBackend
        /\ Rest(output[b]) \in Seq(ToBackend)
        /\ DeserializeFrame(output[b]).frame = output[b][1].frame
    BY <2>1, CompleteFrame DEF StreamsTyped
  <2>3. DeserializeFrame(output[b]).frame.type = "Request" =>
          DeserializeFrame(output[b]).frame.request \in Requests
    BY <2>2 DEF ToBackend
  <2>4. UNCHANGED owed \/ \E q \in Requests : owed' = [owed EXCEPT ![b] = @ \cup {q}]
    BY Zenon, <2>1, <2>3
  <2>5. owed' \in [Backends -> SUBSET Requests]
    <3>1. owed \in [Backends -> SUBSET Requests]
      BY DEF StreamsTyped
    <3>2. \A q \in Requests : owed[b] \cup {q} \in SUBSET Requests
      BY <3>1
    <3> QED BY <2>4, <3>1, <3>2
  <2> QED BY <1>1, <2>1, <2>2, <2>5 DEF StreamsTyped
<1>6. CASE Reply(b)
  <2>1. PICK r \in owed[b], type \in ReplyTypes :
          /\ Say(b, Frame(type, r))
          /\ owed' = [owed EXCEPT ![b] = @ \ {r}]
          /\ UNCHANGED output
    BY <1>6 DEF Reply
  <2>2. r \in Requests /\ type \in FrameTypes /\ owed' \in [Backends -> SUBSET Requests]
    BY <2>1, ForwardingAssumption DEF StreamsTyped, FrameTypes
  <2> QED BY <1>2, <2>1, <2>2
<1>7. CASE Heartbeat(b)
  <2>1. UNCHANGED << owed, output >> /\ Say(b, Frame("Heartbeat", Nobody))
    BY <1>7 DEF Heartbeat
  <2> QED BY <1>2, <2>1 DEF StreamsTyped, FrameTypes
<1>8. CASE SayGoodbye(b)
  <2>1. UNCHANGED << owed, output >> /\ Say(b, Frame("Unregistration", Nobody))
    BY <1>8 DEF SayGoodbye
  <2> QED BY <1>2, <2>1 DEF StreamsTyped, FrameTypes
<1>9. CASE Leave(b)
  BY <1>1, <1>9, EmptyTyped DEF Leave, StreamsTyped
<1> QED BY <1>3, <1>4, <1>5, <1>6, <1>7, <1>8, <1>9 DEF BackendMoves

LEMMA StreamsStep ==
  ASSUME StreamsTyped, SchedulerTyped, [Next]_vars
  PROVE  StreamsTyped'
<1>1. CASE UNCHANGED << sending, output, buffer, saved, input, owed, answer >>
  BY <1>1 DEF StreamsTyped
<1>2. CASE Run
  BY <1>2, HandlerTyped, RequestStepTyped DEF Run
<1>3. CASE \E b \in Backends : BackendMoves(b)
  BY <1>3, BackendTyped
<1> QED BY <1>1, <1>2, <1>3
        DEF Next, EventLoop, Environment, BackendMoves, AcceptConnection, ProcessPendingCoroutines,
            EpollWait, Resume, Arrive, vars, gateway, backend

LEMMA StreamsInit ==
  ASSUME Init
  PROVE  StreamsTyped
<1>1. \A r \in Requests : NamesRequest(answer[r])
  BY DEF Init, NamesRequest, Unanswered
<1> QED BY <1>1, EmptyTyped DEF Init, StreamsTyped

(* All that travels are the pieces of frames; requests to backends and     *)
(* what answers them are about a request.                                  *)
THEOREM TypesKept == Spec => [](StreamsTyped /\ TypeOK)
<1>1. Init => StreamsTyped
  BY StreamsInit
<1>2. StreamsTyped /\ Scheduling /\ [Next]_vars => StreamsTyped'
  BY StreamsStep DEF Scheduling
<1>3. StreamsTyped /\ Scheduling => TypeOK
  <2> SUFFICES ASSUME StreamsTyped, Scheduling PROVE TypeOK
    OBVIOUS
  <2>1. /\ sending \in [Coroutines -> Seq(Piece)]
        /\ buffer \in [Coroutines -> Seq(Piece)]
        /\ saved \in [Backends -> Seq(Piece)]
    <3>1. ToBackend \subseteq Piece /\ FromBackend \subseteq Piece
      BY DEF ToBackend, FromBackend
    <3>2. Seq(ToBackend) \subseteq Seq(Piece) /\ Seq(FromBackend) \subseteq Seq(Piece)
      BY <3>1
    <3> QED BY <3>2 DEF StreamsTyped
  <2> QED BY <2>1 DEF TypeOK, StreamsTyped, Scheduling, SchedulerTyped
<1> QED BY <1>1, <1>2, <1>3, SchedulingInvariance, PTL DEF Spec

-----------------------------------------------------------------------------
(* Where the first piece of a frame is.                                    *)

Ask(q)  == [frame |-> Frame("Request", q), part |-> 1]
Resp(q) == [frame |-> Frame("Response", q), part |-> 1]

In(s, x)   == \E i \in DOMAIN s : s[i] = x
Once(s, x) == \A i, j \in DOMAIN s : s[i] = x /\ s[j] = x => i = j

(* x is once in s and t together, or nowhere                               *)
OneOf(s, t, x) == Once(s, x) /\ Once(t, x) /\ ~(In(s, x) /\ In(t, x))

(* t has x at most as often as s                                           *)
Fewer(t, s, x) == (In(t, x) => In(s, x)) /\ (Once(s, x) => Once(t, x))

LEMMA FewerTrivially ==
  ASSUME NEW s, NEW x
  PROVE  /\ Fewer(s, s, x) /\ Fewer(<< >>, s, x)
         /\ ~In(<< >>, x) /\ Once(<< >>, x)
         /\ ~In(s, x) => Once(s, x)
  BY DEF Fewer, In, Once

LEMMA FewerJoined ==
  ASSUME NEW S, NEW s \in Seq(S), NEW t \in Seq(S), NEW x
  PROVE  /\ In(s \o t, x) <=> In(s, x) \/ In(t, x)
         /\ OneOf(s, t, x) => Once(s \o t, x)
         /\ ~In(t, x) => Fewer(s \o t, s, x)
<1> DEFINE both == s \o t
           m == Len(s)
           n == Len(t)
<1>1. /\ DOMAIN s = 1..m /\ DOMAIN t = 1..n /\ DOMAIN both = 1..(m + n)
      /\ m \in Nat /\ n \in Nat
      /\ \A i \in 1..m : both[i] = s[i]
      /\ \A i \in 1..(m + n) : i > m => both[i] = t[i - m]
  OBVIOUS
<1> HIDE DEF both, m, n
<1>2. /\ \A i \in 1..m : i \in 1..(m + n) /\ ~(i > m)
      /\ \A i \in 1..n : m + i \in 1..(m + n) /\ m + i > m /\ (m + i) - m = i
      /\ \A i \in 1..(m + n) : i \in 1..m \/ (i > m /\ i - m \in 1..n)
  BY <1>1
<1>3. ASSUME In(both, x) PROVE In(s, x) \/ In(t, x)
  <2>1. PICK i \in 1..(m + n) : both[i] = x
    BY <1>1, <1>3 DEF In
  <2> QED BY <1>1, <1>2, <2>1 DEF In
<1>4. In(s, x) => In(both, x)
  BY <1>1, <1>2 DEF In
<1>5. ASSUME In(t, x) PROVE In(both, x)
  <2>1. PICK i \in 1..n : t[i] = x
    BY <1>1, <1>5 DEF In
  <2>2. both[m + i] = x /\ m + i \in DOMAIN both
    BY <1>1, <1>2, <2>1
  <2> QED BY <2>2 DEF In
<1>6. ASSUME OneOf(s, t, x) PROVE Once(both, x)
  <2> SUFFICES ASSUME NEW i \in 1..(m + n), NEW j \in 1..(m + n), both[i] = x, both[j] = x
               PROVE  i = j
    BY <1>1 DEF Once
  <2>1. CASE i \in 1..m /\ j \in 1..m
    BY <1>1, <1>6, <2>1 DEF OneOf, Once
  <2>2. CASE i > m /\ j > m
    <3>1. i - m = j - m
      BY <1>1, <1>2, <1>6, <2>2 DEF OneOf, Once
    <3> QED BY <1>1, <3>1
  <2>3. ASSUME NEW k \in 1..m, NEW l \in 1..(m + n), l > m, both[k] = x, both[l] = x PROVE FALSE
    <3>1. s[k] = x /\ k \in DOMAIN s
      BY <1>1, <2>3
    <3>2. t[l - m] = x /\ l - m \in DOMAIN t
      BY <1>1, <1>2, <2>3
    <3>3. In(s, x) /\ In(t, x)
      BY <3>1, <3>2 DEF In
    <3> QED BY <1>6, <3>3 DEF OneOf
  <2> QED BY <1>2, <2>1, <2>2, <2>3
<1>7. ASSUME ~In(t, x) PROVE Fewer(both, s, x)
  <2>1. Once(s, x) => OneOf(s, t, x)
    BY <1>7, FewerTrivially DEF OneOf
  <2> QED BY <1>3, <1>6, <1>7, <2>1 DEF Fewer
<1> QED BY <1>3, <1>4, <1>5, <1>6, <1>7 DEF both

LEMMA FewerSplit ==
  ASSUME NEW S, NEW s \in Seq(S), NEW n \in 0..Len(s), NEW x
  PROVE  /\ Fewer(SubSeq(s, 1, n), s, x) /\ Fewer(DropFirst(s, n), s, x)
         /\ Once(s, x) => OneOf(SubSeq(s, 1, n), DropFirst(s, n), x)
<1> DEFINE first == SubSeq(s, 1, n)
           rest  == DropFirst(s, n)
           k     == Len(s) - n
<1>1. /\ first \in Seq(S) /\ Len(first) = n
      /\ \A i \in 1..n : first[i] = s[i]
      /\ rest \in Seq(S) /\ Len(rest) = k
      /\ \A i \in 1..k : rest[i] = s[n + i]
  BY SplitTyped
<1>2. /\ \A i \in 1..n : i \in 1..Len(s)
      /\ \A i \in 1..k : n + i \in 1..Len(s)
      /\ \A i, j \in 1..k : n + i = n + j => i = j
      /\ \A i \in 1..n, j \in 1..k : i # n + j
  OBVIOUS
<1> HIDE DEF first, rest, k
<1>3. DOMAIN s = 1..Len(s) /\ DOMAIN first = 1..n /\ DOMAIN rest = 1..k
  BY <1>1
<1>4. (In(first, x) => In(s, x)) /\ (In(rest, x) => In(s, x))
  <2>1. ASSUME NEW i \in DOMAIN first, first[i] = x PROVE In(s, x)
    <3>1. i \in DOMAIN s /\ s[i] = x
      BY <1>1, <1>2, <1>3, <2>1, Zenon
    <3> QED BY <3>1, Zenon DEF In
  <2>2. ASSUME NEW i \in DOMAIN rest, rest[i] = x PROVE In(s, x)
    <3>1. n + i \in DOMAIN s /\ s[n + i] = x
      BY <1>1, <1>2, <1>3, <2>2, Zenon
    <3> QED BY <3>1, Zenon DEF In
  <2> QED BY <2>1, <2>2, Zenon DEF In
<1>5. ASSUME Once(s, x) PROVE Once(first, x) /\ Once(rest, x)
  <2>1. Once(first, x)
    BY <1>1, <1>2, <1>3, <1>5 DEF Once
  <2>2. ASSUME NEW i \in 1..k, NEW j \in 1..k, rest[i] = x, rest[j] = x PROVE i = j
    <3>1. s[n + i] = x /\ s[n + j] = x
      BY <1>1, <2>2
    <3>2. n + i = n + j
      BY <1>2, <1>3, <1>5, <3>1 DEF Once
    <3> QED BY <1>2, <3>2
  <2> QED BY <1>3, <2>1, <2>2 DEF Once
<1>6. ASSUME Once(s, x), In(first, x), In(rest, x) PROVE FALSE
  <2>1. PICK i \in 1..n : s[i] = x
    BY <1>1, <1>3, <1>6 DEF In
  <2>2. PICK j \in 1..k : s[n + j] = x
    BY <1>1, <1>3, <1>6 DEF In
  <2>3. i = n + j
    BY <1>2, <1>3, <1>6, <2>1, <2>2 DEF Once
  <2> QED BY <1>2, <2>3
<1> QED BY <1>4, <1>5, <1>6 DEF Fewer, OneOf, first, rest

(* A write or a read takes pieces from one stream to another.              *)
LEMMA Moved ==
  ASSUME NEW S, NEW s \in Seq(S), NEW t \in Seq(S), NEW n \in 0..Len(s), NEW x
  PROVE  LET u == DropFirst(s, n)
             v == t \o SubSeq(s, 1, n)
         IN  /\ In(u, x) => In(s, x)
             /\ In(v, x) => In(s, x) \/ In(t, x)
             /\ OneOf(s, t, x) => OneOf(u, v, x)
             /\ Fewer(u, s, x)
             /\ ~In(s, x) => Fewer(v, t, x)
<1> DEFINE first == SubSeq(s, 1, n)
           u == DropFirst(s, n)
           v == t \o first
<1>1. first \in Seq(S)
  BY SplitTyped
<1>2. /\ Fewer(first, s, x) /\ Fewer(u, s, x)
      /\ Once(s, x) => OneOf(first, u, x)
  BY FewerSplit
<1>3. /\ In(v, x) <=> In(t, x) \/ In(first, x)
      /\ OneOf(t, first, x) => Once(v, x)
      /\ ~In(first, x) => Fewer(v, t, x)
  BY <1>1, FewerJoined
<1> HIDE DEF first, u, v
<1>4. /\ In(u, x) => In(s, x)
      /\ In(v, x) => In(s, x) \/ In(t, x)
      /\ OneOf(s, t, x) => OneOf(u, v, x)
      /\ ~In(s, x) => Fewer(v, t, x)
  BY <1>2, <1>3 DEF Fewer, OneOf
<1> QED BY <1>2, <1>4 DEF first, u, v

LEMMA FirstPiece ==
  ASSUME NEW frame, NEW type, NEW who
  PROVE  LET x == [frame |-> Frame(type, who), part |-> 1]
         IN  In(Pieces(frame), x) => frame = Frame(type, who)
  BY DEF Pieces, In

LEMMA PiecesOnce ==
  ASSUME NEW frame, NEW x
  PROVE  Once(Pieces(frame), x)
  BY DEF Pieces, Once

LEMMA FramesDiffer ==
  ASSUME NEW t1, NEW t2, NEW w1, NEW w2, Frame(t1, w1) = Frame(t2, w2)
  PROVE  t1 = t2 /\ w1 = w2
  BY DEF Frame

(* The frame at the front is taken off.                                    *)
LEMMA FrontFrame ==
  ASSUME NEW buf, buf \in Seq(ToBackend) \/ buf \in Seq(FromBackend), HasCompleteFrame(buf),
         NEW x, x = [frame |-> buf[1].frame, part |-> 1]
  PROVE  In(buf, x) /\ (Once(buf, x) => ~In(Rest(buf), x))
<1>1. ToBackend \subseteq Piece /\ FromBackend \subseteq Piece
  BY DEF ToBackend, FromBackend
<1>2. /\ Len(buf) \in Nat /\ Len(buf) >= 2 /\ DOMAIN buf = 1..Len(buf)
      /\ buf[1] \in Piece /\ buf[1].part = 1
      /\ DOMAIN Rest(buf) = 1..(Len(buf) - 2)
      /\ \A i \in 1..(Len(buf) - 2) : Rest(buf)[i] = buf[2 + i]
  BY <1>1, CompleteFrame
<1>3. buf[1] = x
  BY <1>2 DEF Piece
<1>4. 1 \in DOMAIN buf /\ \A i \in 1..(Len(buf) - 2) : 2 + i \in DOMAIN buf /\ 2 + i # 1
  BY <1>2
<1>5. In(buf, x)
  BY <1>3, <1>4 DEF In
<1>6. ASSUME Once(buf, x), In(Rest(buf), x) PROVE FALSE
  <2>1. PICK i \in 1..(Len(buf) - 2) : Rest(buf)[i] = x
    BY <1>2, <1>6 DEF In
  <2>2. buf[2 + i] = x
    BY <1>2, <2>1
  <2> QED BY <1>3, <1>4, <1>6, <2>2 DEF Once
<1>7. Once(buf, x) => ~In(Rest(buf), x)
  BY <1>6
<1> QED BY Zenon, <1>5, <1>7

LEMMA FewerRest ==
  ASSUME NEW S, NEW buf \in Seq(S), HasCompleteFrame(buf), NEW x
  PROVE  Fewer(Rest(buf), buf, x)
<1>1. 2 \in 0..Len(buf)
  BY CompleteFrame
<1> QED BY <1>1, FewerSplit DEF Rest

-----------------------------------------------------------------------------
(* Who reads a connection.                                                 *)

(* The loop will resume the request, or does, to read or to write.         *)
Current(r) ==
  \/ pc[r] # "start" /\ (running = r \/ InBatch(r))
  \/ \E b \in Backends : target[r] = b /\ armed[b].who = r /\ armed[b].mode = "read"

OneCurrent ==
  \A r1, r2 \in Requests : Current(r1) /\ Current(r2) /\ target[r1] = target[r2] => r1 = r2

(* Its buffer is the connection's; that of a request which nobody will     *)
(* resume is lost.                                                         *)
Live(r) == Current(r) /\ pc[r] \in {"read", "frame"}

(* Of a step other than epoll_wait: nobody becomes current, and only the   *)
(* request that has written its frame begins to read.                      *)
Readers(writer) ==
  /\ \A r \in Requests : Current(r)' => Current(r)
  /\ \A r \in Requests : Live(r)' => Live(r) \/ r = writer

LEMMA RunningReads ==
  ASSUME Scheduling, NEW r \in Requests, running = r, pc[r] # "start"
  PROVE  Current(r) /\ (pc[r] # "write" => Live(r))
  BY Apart DEF Current, Live, Scheduling, RunningSound, Waits

LEMMA SuspendReaders ==
  ASSUME Scheduling, NEW c \in Coroutines, running = c, NEW mode \in Waits, Suspend(c, mode), UNCHANGED target,
         c \in Requests /\ mode = "read" => pc[c] = "frame"
  PROVE  Readers(Nobody)
<1>1. /\ Wire(c) \in Backends
      /\ c \in Requests => Wire(c) = target[c]
  BY WireTyped DEF Scheduling
<1>2. /\ armed' = [armed EXCEPT ![Wire(c)] = [who |-> c, mode |-> mode]]
      /\ pc' = [pc EXCEPT ![c] = mode]
      /\ running' = Nobody
      /\ UNCHANGED batch
  BY DEF Suspend
<1>3. \A d \in Coroutines : InBatch(d)' <=> InBatch(d)
  BY <1>2 DEF InBatch
<1>4. ~InBatch(c)
  BY DEF Scheduling, BatchSound, InBatch
<1>5. ASSUME NEW r \in Requests, Current(r)' PROVE Current(r) /\ (r = c => mode = "read" /\ pc[c] = "frame")
  <2>1. CASE r = c
    <3>1. mode = "read"
      BY <1>1, <1>2, <1>3, <1>4, <1>5, <2>1, Apart DEF Current, Scheduling, SchedulerTyped
    <3> QED BY <2>1, <3>1, RunningReads
  <2>2. CASE r # c
    BY <1>1, <1>2, <1>3, <1>5, <2>2, Apart DEF Current, Scheduling, SchedulerTyped
  <2> QED BY <2>1, <2>2
<1>6. \A r \in Requests : Live(r)' => Live(r)
  BY <1>2, <1>5, Apart DEF Live, Scheduling, SchedulerTyped
<1> QED BY <1>5, <1>6 DEF Readers

LEMMA ContinueReaders ==
  ASSUME Scheduling, NEW c \in Coroutines, running = c, Continue(c, "frame"), UNCHANGED target,
         c \in Requests => pc[c] # "start"
  PROVE  Readers(IF pc[c] = "write" THEN c ELSE Nobody)
<1>1. pc' = [pc EXCEPT ![c] = "frame"] /\ UNCHANGED << armed, batch, running >>
  BY DEF Continue
<1>2. \A d \in Coroutines : InBatch(d)' <=> InBatch(d)
  BY <1>1 DEF InBatch
<1>3. c \in Requests => Current(c) /\ (pc[c] # "write" => Live(c))
  BY RunningReads
<1>4. \A r \in Requests : Current(r)' => Current(r)
  BY <1>1, <1>2, <1>3, Apart DEF Current, Scheduling, SchedulerTyped
<1>5. \A r \in Requests : Live(r)' /\ r # c => Live(r)
  BY <1>1, <1>4, Apart DEF Live, Scheduling, SchedulerTyped
<1> QED BY <1>3, <1>4, <1>5 DEF Readers

LEMMA EndReaders ==
  ASSUME Scheduling, NEW c \in Coroutines, NEW at, NEW closes \in BOOLEAN, running = c, End(c, at, closes),
         UNCHANGED target, at \notin {"read", "frame"}
  PROVE  Readers(Nobody)
<1>1. /\ pc' = [pc EXCEPT ![c] = at] /\ running' = Nobody /\ UNCHANGED batch
      /\ armed' = armed \/ armed' = [armed EXCEPT ![Wire(c)] = NoWait]
  BY DEF End
<1>2. \A d \in Coroutines : InBatch(d)' <=> InBatch(d)
  BY <1>1 DEF InBatch
<1>3. ~InBatch(c) /\ \A b \in Backends : armed[b].who # c
  BY Apart DEF InBatch, Scheduling, ArmedSound, BatchSound
<1>4. \A b \in Backends : armed'[b].mode = "read" => armed'[b] = armed[b]
  BY <1>1 DEF NoWait, Scheduling, SchedulerTyped
<1>5. \A r \in Requests : Current(r)' => Current(r) /\ r # c
  BY <1>1, <1>2, <1>3, <1>4, Apart DEF Current, Scheduling, SchedulerTyped
<1>6. \A r \in Requests : Live(r)' => Live(r)
  BY <1>1, <1>5, Apart DEF Live, Scheduling, SchedulerTyped
<1> QED BY <1>5, <1>6 DEF Readers

LEMMA HandlerReaders ==
  ASSUME Scheduling, NEW b \in Backends, running = b, Handler(b)
  PROVE  Readers(Nobody)
<1> b \in Coroutines /\ b \notin Requests
  BY Apart
<1>1. UNCHANGED target
  BY DEF Handler, HandleFrame, HandleEndOfStream, HandlerWrite, AwaitFrame, ReadSome, Unregister, Die
<1>2. CASE \E mode \in Waits : Suspend(b, mode)
  BY <1>1, <1>2, SuspendReaders
<1>3. CASE Continue(b, "frame")
  <2>1. Readers(b) \/ Readers(Nobody)
    BY <1>1, <1>3, ContinueReaders
  <2> QED BY <2>1 DEF Readers
<1>4. CASE Unregister(b)
  <2>1. CASE registered[b]
    BY <1>1, <1>4, <2>1, EndReaders DEF Unregister
  <2>2. CASE ~registered[b]
    <3>1. End(b, "leaked", FALSE)
      BY <1>4, <2>2 DEF Unregister, End
    <3> QED BY <1>1, <3>1, EndReaders
  <2> QED BY <2>1, <2>2
<1>5. CASE \E type : Die(b, type)
  <2>1. End(b, "leaked", FALSE)
    BY <1>5 DEF Die
  <2> QED BY <1>1, <2>1, EndReaders
<1> QED BY <1>2, <1>3, <1>4, <1>5
        DEF Handler, HandleFrame, HandleEndOfStream, HandlerWrite, AwaitFrame, ReadSome, StartSend,
            WriteSome, Waits

LEMMA RequestReaders ==
  ASSUME Scheduling, NEW r \in Requests, running = r, Request(r)
  PROVE  \/ Readers(Nobody)
         \/ RequestWrite(r) /\ Continue(r, "frame") /\ Readers(r)
<1> r \in Coroutines
  BY Apart
<1>1. UNCHANGED target
  BY DEF Request, Route, RequestWrite, TakeFrame, RequestEndOfStream, AwaitFrame, ReadSome
<1>2. CASE Suspend(r, "write")
  BY <1>1, <1>2, SuspendReaders DEF Waits
<1>3. CASE AwaitFrame(r)
  BY <1>1, <1>3, SuspendReaders DEF AwaitFrame, Waits
<1>4. CASE ReadSome(r)
  BY <1>1, <1>4, ContinueReaders DEF ReadSome
<1>5. CASE RequestWrite(r) /\ Continue(r, "frame")
  <2>1. pc[r] = "write"
    BY <1>5 DEF RequestWrite
  <2> QED BY <1>1, <1>5, <2>1, ContinueReaders
<1>6. CASE End(r, "done", FALSE)
  BY <1>1, <1>6, EndReaders
<1> QED BY <1>2, <1>3, <1>4, <1>5, <1>6
        DEF Request, Route, RequestWrite, TakeFrame, RequestEndOfStream, StartSend, WriteSome, Finish

LEMMA LoopReaders ==
  ASSUME Scheduling, \E b \in Backends : AcceptConnection(b) \/ ProcessPendingCoroutines(b)
  PROVE  Readers(Nobody)
<1>1. PICK b \in Backends : AcceptConnection(b) \/ ProcessPendingCoroutines(b)
  OBVIOUS
<1>2. /\ \E at : pc' = [pc EXCEPT ![b] = at]
      /\ running' \in {running, b}
      /\ UNCHANGED << armed, batch, target >>
  BY <1>1 DEF AcceptConnection, ProcessPendingCoroutines
<1>3. \A d \in Coroutines : InBatch(d)' <=> InBatch(d)
  BY <1>2 DEF InBatch
<1> QED BY <1>2, <1>3, Apart DEF Readers, Current, Live, Scheduling, SchedulerTyped

LEMMA ResumeReaders ==
  ASSUME Scheduling, Resume
  PROVE  Readers(Nobody)
<1>1. /\ batch \in Seq(Coroutines) /\ batch # << >>
      /\ running' = Head(batch) /\ batch' = Tail(batch)
      /\ UNCHANGED << armed, pc, target >>
  BY DEF Resume, Scheduling, SchedulerTyped
<1>2. /\ 1 \in DOMAIN batch /\ running' = batch[1]
      /\ \A i \in DOMAIN batch' : i + 1 \in DOMAIN batch /\ batch'[i] = batch[i + 1]
  BY <1>1
<1>3. \A c \in Coroutines : InBatch(c)' \/ running' = c => InBatch(c)
  BY <1>2 DEF InBatch
<1> QED BY <1>1, <1>3, Apart DEF Readers, Current, Live

LEMMA ArriveReaders ==
  ASSUME Scheduling, NEW q \in Requests, Arrive(q)
  PROVE  Readers(Nobody)
<1>1. /\ pc[q] = "idle" /\ pc' = [pc EXCEPT ![q] = "arrived"]
      /\ UNCHANGED << armed, batch, running, target >>
  BY DEF Arrive
<1>2. \A d \in Coroutines : InBatch(d)' <=> InBatch(d)
  BY <1>1 DEF InBatch
<1> QED BY <1>1, <1>2, Apart DEF Readers, Current, Live, Scheduling, SchedulerTyped

LEMMA SameReaders ==
  ASSUME UNCHANGED << armed, batch, running, pc, target >>
  PROVE  Readers(Nobody)
  BY DEF Readers, Current, Live, InBatch

(* A descriptor has one registration: it wakes one coroutine.              *)
LEMMA EpollWaitReaders ==
  ASSUME Scheduling, EpollWait
  PROVE  OneCurrent' /\ \A r \in Requests : Live(r)' => Live(r)
<1> DEFINE wires    == {b \in Backends : Ready(b)}
           arrivals == {r \in Requests : pc[r] = "arrived"}
           ready    == {armed[b].who : b \in wires} \cup arrivals
<1>1. /\ running = Nobody /\ running' = Nobody
      /\ batch' \in SetToSeqs(ready)
      /\ armed' = [b \in Backends |-> IF b \in wires THEN NoWait ELSE armed[b]]
      /\ pc' = [c \in Coroutines |-> IF c \in arrivals THEN "start" ELSE pc[c]]
      /\ target' = target
  BY DEF EpollWait
<1>2. \A i \in DOMAIN batch' :
        \/ batch'[i] \in arrivals
        \/ \E b \in wires : batch'[i] = armed[b].who
  BY <1>1 DEF SetToSeqs
<1> HIDE DEF wires, ready
<1>3. ASSUME NEW r \in Requests, NEW b \in Backends, target[r] = b, Current(r)'
      PROVE  /\ armed[b].who = r /\ pc'[r] = pc[r]
             /\ pc[r] = "read" => armed[b].mode = "read"
  <2>1. CASE pc'[r] # "start" /\ InBatch(r)'
    <3>1. r \notin arrivals
      BY <1>1, <2>1, Apart
    <3>2. PICK d \in Backends : r = armed[d].who
      BY <1>2, <2>1, <3>1 DEF InBatch, wires
    <3>3. d = b
      BY <1>3, <3>2, Apart DEF Scheduling, ArmedSound, Wire
    <3> QED BY <1>1, <3>1, <3>2, <3>3, Apart DEF Scheduling, ArmedSound
  <2>2. CASE armed'[b].who = r
    <3>1. armed[b].who = r
      BY <1>1, <2>2, Apart DEF NoWait
    <3>2. r \notin arrivals
      BY <3>1, Apart DEF Scheduling, ArmedSound, Waits
    <3> QED BY <1>1, <3>1, <3>2, Apart DEF Scheduling, ArmedSound
  <2> QED BY <1>1, <1>3, <2>1, <2>2, Apart DEF Current
<1>4. OneCurrent'
  BY <1>1, <1>3 DEF OneCurrent, Scheduling, SchedulerTyped
<1>5. ASSUME NEW r \in Requests, Live(r)' PROVE Live(r)
  <2>1. PICK b \in Backends : target[r] = b
    BY DEF Scheduling, SchedulerTyped
  <2>2. pc'[r] \in {"read", "frame"} /\ armed[b].who = r /\ pc[r] = pc'[r]
        /\ (pc[r] = "read" => armed[b].mode = "read")
    BY <1>3, <1>5, <2>1 DEF Live
  <2>3. pc[r] = "read"
    BY <1>1, <2>2, Apart DEF Scheduling, RunningSound
  <2> QED BY <2>1, <2>2, <2>3 DEF Live, Current
<1> QED BY <1>4, <1>5

LEMMA ReadersStep ==
  ASSUME Scheduling, OneCurrent, [Next]_vars
  PROVE  /\ OneCurrent'
         /\ \/ \A r \in Requests : Live(r)' => Live(r)
            \/ \E r \in Requests : running = r /\ RequestWrite(r) /\ Continue(r, "frame") /\ Readers(r)
<1>1. CASE EpollWait
  BY <1>1, EpollWaitReaders
<1>2. CASE ~EpollWait
  <2>1. \/ Readers(Nobody)
        \/ \E r \in Requests : running = r /\ RequestWrite(r) /\ Continue(r, "frame") /\ Readers(r)
    <3>1. CASE Run
      BY <3>1, HandlerReaders, RequestReaders DEF Run
    <3>2. CASE \E b \in Backends : BackendMoves(b)
      BY <3>2, BackendLeaves, SameReaders DEF gateway
    <3>3. CASE UNCHANGED vars
      BY <3>3, SameReaders DEF vars, gateway
    <3> QED BY <1>2, <3>1, <3>2, <3>3, LoopReaders, ResumeReaders, ArriveReaders
            DEF Next, EventLoop, Environment, BackendMoves
  <2>2. UNCHANGED target
    BY DEF Next, EventLoop, AcceptConnection, ProcessPendingCoroutines, EpollWait, Resume, Run,
           Handler, HandleFrame, HandleEndOfStream, HandlerWrite, AwaitFrame, ReadSome, Unregister, Die,
           Request, Route, RequestWrite, TakeFrame, RequestEndOfStream, Environment, Arrive,
           Connect, Register, Receive, Reply, Heartbeat, SayGoodbye, Leave, vars
  <2>3. OneCurrent'
    BY <2>1, <2>2 DEF OneCurrent, Readers
  <2> QED BY <2>1, <2>3, Apart DEF Readers
<1> QED BY <1>1, <1>2

-----------------------------------------------------------------------------
(* Every request's frame, the backend's debt and its response are one      *)
(* thing, that is in one place at a time: with the request, on its way to  *)
(* the backend, with the backend, on its way back, or an answer.           *)

Early(q)  == pc[q] \in {"idle", "arrived", "start"}
Asking(q) == In(sending[q], Ask(q)) \/ In(output[target[q]], Ask(q))
Owed(q)   == q \in owed[target[q]]

Traveling(q) ==
  \/ In(saved[target[q]], Resp(q))
  \/ In(input[target[q]], Resp(q))
  \/ \E r \in Requests : Live(r) /\ In(buffer[r], Resp(q))

Takes(r, q) == answer[r].status = "answered" /\ answer[r].frame = Frame("Response", q)

(* It is on its own connection, and there once: a request that reads works *)
(* on a copy of saved, which its buffer replaces.                          *)
AskSide(q) ==
  /\ \A c \in Coroutines : In(sending[c], Ask(q)) => c = q
  /\ \A b \in Backends : b # target[q] => ~In(output[b], Ask(q)) /\ q \notin owed[b]
  /\ OneOf(sending[q], output[target[q]], Ask(q))

RespSide(q) ==
  /\ \A b \in Backends : b # target[q] => ~In(saved[b], Resp(q)) /\ ~In(input[b], Resp(q))
  /\ \A r \in Requests : In(buffer[r], Resp(q)) => target[r] = target[q]
  /\ OneOf(saved[target[q]], input[target[q]], Resp(q))
  /\ \A r \in Requests : Live(r) => OneOf(buffer[r], input[target[q]], Resp(q))

TakenOnce(q) == \A r1, r2 \in Requests : Takes(r1, q) /\ Takes(r2, q) => r1 = r2

Exclusive(q) ==
  /\ Early(q) => ~Asking(q)
  /\ Early(q) \/ Asking(q) => ~Owed(q)
  /\ Early(q) \/ Asking(q) \/ Owed(q) => ~Traveling(q)
  /\ Early(q) \/ Asking(q) \/ Owed(q) \/ Traveling(q) => \A r \in Requests : ~Takes(r, q)

Entry(q) == AskSide(q) /\ RespSide(q) /\ TakenOnce(q) /\ Exclusive(q)

Ledger == \A q \in Requests : Entry(q)

(* Nothing moves on.                                                       *)
AskKept(q)   == AskSide(q)' /\ (Asking(q)' => Asking(q)) /\ (Owed(q)' => Owed(q))
RespKept(q)  == RespSide(q)' /\ (Traveling(q)' => Traveling(q))
TakesKept(q) == \A r \in Requests : Takes(r, q)' => Takes(r, q)
EarlyKept(q) == Early(q)' => Early(q)

LEMMA EntryKept ==
  ASSUME NEW q \in Requests, Entry(q), AskKept(q), RespKept(q), TakesKept(q), EarlyKept(q)
  PROVE  Entry(q)'
  BY DEF Entry, AskKept, RespKept, TakesKept, EarlyKept, TakenOnce, Exclusive

LEMMA AskFewer ==
  ASSUME NEW q \in Requests, AskSide(q), SchedulerTyped, target' = target,
         \A c \in Coroutines : Fewer(sending'[c], sending[c], Ask(q)),
         \A b \in Backends : Fewer(output'[b], output[b], Ask(q)),
         \A b \in Backends : q \in owed'[b] => q \in owed[b]
  PROVE  AskKept(q)
<1>1. q \in Coroutines /\ target[q] \in Backends
  BY Apart DEF SchedulerTyped
<1> QED BY <1>1 DEF AskSide, AskKept, Asking, Owed, Fewer, OneOf

LEMMA RespFewer ==
  ASSUME NEW q \in Requests, RespSide(q), SchedulerTyped, target' = target,
         \A r \in Requests : Live(r)' => Live(r),
         \A b \in Backends : Fewer(saved'[b], saved[b], Resp(q)),
         \A b \in Backends : Fewer(input'[b], input[b], Resp(q)),
         \A r \in Requests : Fewer(buffer'[r], buffer[r], Resp(q))
  PROVE  RespKept(q)
<1>1. target[q] \in Backends
  BY DEF SchedulerTyped
<1> QED BY <1>1 DEF RespSide, RespKept, Traveling, Fewer, OneOf

LEMMA AskSame ==
  ASSUME NEW q \in Requests, AskSide(q), SchedulerTyped, UNCHANGED << target, sending, output, owed >>
  PROVE  AskKept(q)
  BY AskFewer, FewerTrivially

LEMMA RespSame ==
  ASSUME NEW q \in Requests, RespSide(q), SchedulerTyped, target' = target, UNCHANGED << saved, input >>,
         \A r \in Requests : buffer'[r] = buffer[r],
         \A r \in Requests : Live(r)' => Live(r)
  PROVE  RespKept(q)
  BY RespFewer, FewerTrivially

LEMMA TakesSame ==
  ASSUME UNCHANGED answer
  PROVE  \A q \in Requests : TakesKept(q)
  BY DEF TakesKept, Takes

(* A frame, or some of it, is written.                                     *)
LEMMA AskWritten ==
  ASSUME NEW q \in Requests, AskSide(q), SchedulerTyped, StreamsTyped, UNCHANGED << target, owed >>,
         NEW c \in Coroutines, NEW n \in 1..Len(sending[c]), WriteSome(c, n)
  PROVE  AskKept(q)
<1> DEFINE w == Wire(c)
<1>1. /\ w \in Backends
      /\ c \in Requests => w = target[c]
  BY WireTyped
<1>2. target[q] \in Backends /\ q \in Coroutines
  BY Apart DEF SchedulerTyped
<1>3. /\ sending[c] \in Seq(ToBackend) /\ output[w] \in Seq(ToBackend)
      /\ n \in 0..Len(sending[c])
      /\ sending' = [sending EXCEPT ![c] = DropFirst(@, n)]
      /\ output' = [output EXCEPT ![w] = @ \o SubSeq(sending[c], 1, n)]
      /\ sending \in [Coroutines -> Seq(ToBackend)]
      /\ output \in [Backends -> Seq(ToBackend)]
  BY <1>1 DEF WriteSome, StreamsTyped
<1> HIDE DEF w
<1>4. /\ sending'[c] = DropFirst(sending[c], n)
      /\ output'[w] = output[w] \o SubSeq(sending[c], 1, n)
      /\ \A d \in Coroutines \ {c} : sending'[d] = sending[d]
      /\ \A b \in Backends \ {w} : output'[b] = output[b]
  BY <1>1, <1>3
<1>5. /\ In(sending'[c], Ask(q)) => In(sending[c], Ask(q))
      /\ In(output'[w], Ask(q)) => In(sending[c], Ask(q)) \/ In(output[w], Ask(q))
      /\ OneOf(sending[c], output[w], Ask(q)) => OneOf(sending'[c], output'[w], Ask(q))
      /\ Fewer(sending'[c], sending[c], Ask(q))
      /\ ~In(sending[c], Ask(q)) => Fewer(output'[w], output[w], Ask(q))
  BY <1>3, <1>4, Moved
<1>6. CASE c = q
  BY <1>1, <1>2, <1>4, <1>5, <1>6 DEF AskSide, AskKept, Asking, Owed
<1>7. CASE c # q
  <2>1. ~In(sending[c], Ask(q))
    BY <1>7 DEF AskSide
  <2>2. /\ \A d \in Coroutines : Fewer(sending'[d], sending[d], Ask(q))
        /\ \A b \in Backends : Fewer(output'[b], output[b], Ask(q))
    BY <1>4, <1>5, <2>1, FewerTrivially
  <2> QED BY <2>2, AskFewer
<1> QED BY <1>6, <1>7

(* What is read leaves the connection; what a request reads, it holds.     *)
LEMMA RespRead ==
  ASSUME NEW q \in Requests, RespSide(q), Scheduling, StreamsTyped,
         NEW c \in Coroutines, running = c, ReadSome(c), \A r \in Requests : Live(r)' => Live(r)
  PROVE  RespKept(q)
<1> DEFINE w == Wire(c)
<1>1. /\ w \in Backends /\ target[q] \in Backends
      /\ c \in Requests => w = target[c] /\ Live(c)
  BY WireTyped, RunningReads DEF ReadSome, Scheduling, SchedulerTyped
<1>2. PICK n \in 0..Len(input[w]) :
        /\ buffer' = [buffer EXCEPT ![c] = @ \o SubSeq(input[w], 1, n)]
        /\ input' = [input EXCEPT ![w] = DropFirst(@, n)]
  BY DEF ReadSome
<1>3. /\ UNCHANGED << saved, target >>
      /\ buffer \in [Coroutines -> Seq(FromBackend)] /\ input \in [Backends -> Seq(FromBackend)]
  BY DEF ReadSome, StreamsTyped
<1> HIDE DEF w
<1>4. /\ input'[w] = DropFirst(input[w], n)
      /\ buffer'[c] = buffer[c] \o SubSeq(input[w], 1, n)
      /\ \A d \in Coroutines \ {c} : buffer'[d] = buffer[d]
      /\ \A b \in Backends \ {w} : input'[b] = input[b]
      /\ input[w] \in Seq(FromBackend) /\ buffer[c] \in Seq(FromBackend)
  BY <1>1, <1>2, <1>3
<1>5. /\ In(buffer'[c], Resp(q)) => In(input[w], Resp(q)) \/ In(buffer[c], Resp(q))
      /\ OneOf(input[w], buffer[c], Resp(q)) => OneOf(input'[w], buffer'[c], Resp(q))
      /\ Fewer(input'[w], input[w], Resp(q))
      /\ ~In(input[w], Resp(q)) => Fewer(buffer'[c], buffer[c], Resp(q))
  BY <1>4, Moved
<1>6. \A b \in Backends : Fewer(input'[b], input[b], Resp(q))
  BY <1>4, <1>5, FewerTrivially
<1>7. CASE c \in Requests /\ w = target[q]
  <2>1. OneOf(buffer'[c], input'[w], Resp(q))
    BY <1>1, <1>5, <1>7 DEF RespSide, OneOf
  <2>2. \A r \in Requests : Live(r)' => OneOf(buffer'[r], input'[w], Resp(q))
    <3>1. ASSUME NEW r \in Requests, r # c, Live(r) PROVE OneOf(buffer'[r], input'[w], Resp(q))
      <4>1. buffer'[r] = buffer[r] /\ OneOf(buffer[r], input[w], Resp(q))
        BY <1>4, <1>7, <3>1, Apart DEF RespSide
      <4> QED BY <1>5, <4>1 DEF OneOf, Fewer
    <3> QED BY <2>1, <3>1
  <2>3. OneOf(saved[w], input'[w], Resp(q))
    BY <1>1, <1>6, <1>7 DEF RespSide, OneOf, Fewer
  <2>4. \A r \in Requests : In(buffer'[r], Resp(q)) => target[r] = target[q]
    BY <1>1, <1>4, <1>7, Apart DEF RespSide
  <2>5. Traveling(q)' => Traveling(q)
    <3>1. ASSUME NEW r \in Requests, Live(r)', In(buffer'[r], Resp(q)) PROVE Traveling(q)
      <4>1. CASE r = c
        BY <1>1, <1>5, <1>7, <3>1, <4>1 DEF Traveling
      <4>2. CASE r # c
        BY <1>4, <3>1, <4>2, Apart DEF Traveling
      <4> QED BY <4>1, <4>2
    <3>2. In(saved'[w], Resp(q)) \/ In(input'[w], Resp(q)) => Traveling(q)
      BY <1>3, <1>5, <1>7 DEF Traveling, Fewer
    <3> QED BY <1>3, <1>7, <3>1, <3>2 DEF Traveling
  <2>6. RespSide(q)'
    BY <1>3, <1>4, <1>6, <1>7, <2>2, <2>3, <2>4 DEF RespSide, Fewer
  <2> QED BY <2>5, <2>6 DEF RespKept
<1>8. CASE c \in Requests /\ w # target[q]
  <2>1. ~In(input[w], Resp(q))
    BY <1>1, <1>8 DEF RespSide
  <2>2. \A r \in Requests : Fewer(buffer'[r], buffer[r], Resp(q))
    BY <1>4, <1>5, <2>1, FewerTrivially, Apart
  <2> QED BY <1>3, <1>6, <2>2, RespFewer, FewerTrivially DEF Scheduling
<1>9. CASE c \notin Requests
  <2>1. \A r \in Requests : Fewer(buffer'[r], buffer[r], Resp(q))
    BY <1>4, <1>9, FewerTrivially, Apart
  <2> QED BY <1>3, <1>6, <2>1, RespFewer, FewerTrivially DEF Scheduling
<1> QED BY <1>7, <1>8, <1>9

(* The writer begins to read a copy of saved.                              *)
LEMMA RespCopied ==
  ASSUME NEW q \in Requests, RespSide(q), SchedulerTyped, StreamsTyped, UNCHANGED << target, saved, input >>,
         NEW r \in Requests, \A d \in Requests : Live(d)' => Live(d) \/ d = r,
         buffer' = [buffer EXCEPT ![r] = saved[target[r]]]
  PROVE  RespKept(q)
<1>1. /\ buffer'[r] = saved[target[r]]
      /\ \A d \in Requests \ {r} : buffer'[d] = buffer[d]
      /\ target[r] \in Backends /\ target[q] \in Backends
  BY Apart DEF StreamsTyped, SchedulerTyped
<1>2. In(buffer'[r], Resp(q)) => target[r] = target[q] /\ In(saved[target[q]], Resp(q))
  BY <1>1 DEF RespSide
<1>3. OneOf(buffer'[r], input[target[q]], Resp(q))
  <2>1. CASE target[r] = target[q]
    BY <1>1, <2>1 DEF RespSide
  <2>2. CASE target[r] # target[q]
    BY <1>2, <2>2, FewerTrivially DEF RespSide, OneOf
  <2> QED BY <2>1, <2>2
<1>4. RespSide(q)'
  BY <1>1, <1>2, <1>3 DEF RespSide
<1>5. Traveling(q)' => Traveling(q)
  BY <1>1, <1>2 DEF Traveling
<1> QED BY <1>4, <1>5 DEF RespKept

(* A request that ends leaves the connection what it holds, or the rest of *)
(* that.                                                                   *)
LEMMA RespLeft ==
  ASSUME NEW q \in Requests, RespSide(q), SchedulerTyped, StreamsTyped, UNCHANGED << target, input >>,
         NEW r \in Requests, Live(r), \A d \in Requests : Live(d)' => Live(d),
         NEW left, Fewer(left, buffer[r], Resp(q)),
         saved' = [saved EXCEPT ![target[r]] = left],
         buffer' = [buffer EXCEPT ![r] = << >>]
  PROVE  RespKept(q)
<1>1. /\ buffer'[r] = << >> /\ saved'[target[r]] = left
      /\ \A d \in Requests \ {r} : buffer'[d] = buffer[d]
      /\ \A b \in Backends \ {target[r]} : saved'[b] = saved[b]
      /\ target[r] \in Backends /\ target[q] \in Backends
  BY Apart DEF StreamsTyped, SchedulerTyped
<1>2. \A d \in Requests : Fewer(buffer'[d], buffer[d], Resp(q))
  BY <1>1, FewerTrivially
<1>3. OneOf(buffer[r], input[target[q]], Resp(q))
  BY DEF RespSide
<1>4. OneOf(saved'[target[q]], input[target[q]], Resp(q))
  <2>1. CASE target[r] = target[q]
    BY <1>1, <1>3, <2>1 DEF OneOf, Fewer
  <2>2. CASE target[r] # target[q]
    BY <1>1, <2>2 DEF RespSide
  <2> QED BY <2>1, <2>2
<1>5. RespSide(q)'
  BY <1>1, <1>2, <1>4 DEF RespSide, Fewer, OneOf
<1>6. Traveling(q)' => Traveling(q)
  BY <1>1, <1>2 DEF Traveling, Fewer
<1> QED BY <1>5, <1>6 DEF RespKept

LEMMA EarlyStep ==
  ASSUME Scheduling, [Next]_vars, NEW q \in Requests
  PROVE  EarlyKept(q)
<1>1. CASE \E r \in Requests : running = r /\ Request(r)
  <2>1. PICK r \in Requests : running = r /\ Request(r)
    BY <1>1
  <2>2. \E at \in {"write", "read", "frame", "done"} : pc' = [pc EXCEPT ![r] = at]
    BY <2>1 DEF Request, Route, RequestWrite, TakeFrame, RequestEndOfStream, AwaitFrame, ReadSome,
                StartSend, WriteSome, Suspend, Continue, Finish, End
  <2> QED BY <2>2, Apart DEF EarlyKept, Early, Scheduling, SchedulerTyped
<1>2. CASE \E b \in Backends : running = b /\ Handler(b)
  <2>1. PICK b \in Backends : Handler(b)
    BY <1>2
  <2>2. \E at : pc' = [pc EXCEPT ![b] = at]
    BY <2>1 DEF Handler, HandleFrame, HandleEndOfStream, HandlerWrite, AwaitFrame, ReadSome,
                StartSend, WriteSome, Suspend, Continue, Unregister, Die, End
  <2> QED BY <2>2, Apart DEF EarlyKept, Early, Scheduling, SchedulerTyped
<1>3. CASE \E b \in Backends : AcceptConnection(b) \/ ProcessPendingCoroutines(b)
  <2>1. PICK b \in Backends : AcceptConnection(b) \/ ProcessPendingCoroutines(b)
    BY <1>3
  <2>2. \E at : pc' = [pc EXCEPT ![b] = at]
    BY <2>1 DEF AcceptConnection, ProcessPendingCoroutines
  <2> QED BY <2>2, Apart DEF EarlyKept, Early, Scheduling, SchedulerTyped
<1>4. CASE EpollWait
  <2>1. pc' = [c \in Coroutines |-> IF c \in {r \in Requests : pc[r] = "arrived"} THEN "start" ELSE pc[c]]
    BY <1>4 DEF EpollWait
  <2> QED BY <2>1, Apart DEF EarlyKept, Early
<1>5. CASE \E r \in Requests : Arrive(r)
  <2>1. PICK r \in Requests : pc[r] = "idle" /\ pc' = [pc EXCEPT ![r] = "arrived"]
    BY <1>5 DEF Arrive
  <2> QED BY <2>1, Apart DEF EarlyKept, Early, Scheduling, SchedulerTyped
<1>6. CASE UNCHANGED pc
  BY <1>6 DEF EarlyKept, Early
<1>7. CASE \E b \in Backends : BackendMoves(b)
  BY <1>6, <1>7, BackendLeaves DEF gateway
<1> QED BY <1>1, <1>2, <1>3, <1>4, <1>5, <1>6, <1>7
        DEF Next, EventLoop, Run, Resume, Environment, BackendMoves, vars, gateway

-----------------------------------------------------------------------------
(* The ledger, step by step.                                               *)

LEMMA HandlerEntry ==
  ASSUME Scheduling, StreamsTyped, NEW b \in Backends, running = b, Handler(b),
         NEW q \in Requests, Entry(q), EarlyKept(q), \A r \in Requests : Live(r)' => Live(r)
  PROVE  Entry(q)'
<1> /\ b \in Coroutines /\ b \notin Requests
    /\ SchedulerTyped /\ AskSide(q) /\ RespSide(q)
  BY Apart DEF Scheduling, Entry
<1>1. UNCHANGED << target, saved, answer >>
  BY DEF Handler, HandleFrame, HandleEndOfStream, HandlerWrite, AwaitFrame, ReadSome, Unregister, Die
<1>2. TakesKept(q)
  BY <1>1, TakesSame
<1>3. CASE /\ \E left : buffer' = [buffer EXCEPT ![b] = left]
           /\ \E type \in {"Response", "Heartbeat"} : StartSend(b, Frame(type, Nobody))
           /\ UNCHANGED << input, output, backend >>
  <2>1. \A r \in Requests : buffer'[r] = buffer[r]
    BY <1>3, Apart DEF StreamsTyped
  <2>2. PICK type \in {"Response", "Heartbeat"} : StartSend(b, Frame(type, Nobody))
    BY <1>3
  <2>3. sending' = [sending EXCEPT ![b] = Pieces(Frame(type, Nobody))]
    BY <2>2 DEF StartSend
  <2>4. ~In(Pieces(Frame(type, Nobody)), Ask(q))
    BY FirstPiece, FramesDiffer DEF Ask
  <2>5. \A c \in Coroutines : Fewer(sending'[c], sending[c], Ask(q))
    <3> TAKE c \in Coroutines
    <3>1. CASE c = b
      BY <2>3, <2>4, <3>1, PiecesOnce DEF Fewer, StreamsTyped
    <3>2. CASE c # b
      BY <2>3, <3>2, FewerTrivially DEF StreamsTyped
    <3> QED BY <3>1, <3>2
  <2>6. AskKept(q)
    BY <1>1, <1>3, <2>5, AskFewer, FewerTrivially DEF backend
  <2>7. RespKept(q)
    BY <1>1, <1>3, <2>1, RespSame
  <2> QED BY <1>2, <2>6, <2>7, EntryKept
<1>4. CASE buffer' = [buffer EXCEPT ![b] = << >>] /\ Unregister(b)
  <2>1. \A r \in Requests : buffer'[r] = buffer[r]
    BY <1>4, Apart DEF StreamsTyped
  <2>2. /\ \A d \in Backends : output'[d] = output[d] \/ output'[d] = << >>
        /\ \A d \in Backends : input'[d] = input[d] \/ input'[d] = << >>
        /\ \A d \in Backends : q \in owed'[d] => q \in owed[d]
        /\ UNCHANGED sending
    BY <1>4 DEF Unregister, StreamsTyped
  <2>3. AskKept(q)
    BY <1>1, <2>2, AskFewer, FewerTrivially
  <2>4. RespKept(q)
    BY <1>1, <2>1, <2>2, RespFewer, FewerTrivially
  <2> QED BY <1>2, <2>3, <2>4, EntryKept
<1>5. CASE /\ UNCHANGED buffer \/ \E left : buffer' = [buffer EXCEPT ![b] = left]
           /\ UNCHANGED << sending, input, output, backend >>
  <2>1. \A r \in Requests : buffer'[r] = buffer[r]
    BY <1>5, Apart DEF StreamsTyped
  <2>2. AskKept(q) /\ RespKept(q)
    BY <1>1, <1>5, <2>1, AskSame, RespSame DEF backend
  <2> QED BY <1>2, <2>2, EntryKept
<1>6. CASE HandlerWrite(b)
  <2>1. UNCHANGED << buffer, input, owed >>
    BY <1>6 DEF HandlerWrite, backend
  <2>2. RespKept(q)
    BY <1>1, <2>1, RespSame
  <2>3. CASE \E n \in 1..Len(sending[b]) : WriteSome(b, n)
    BY <1>1, <1>2, <2>1, <2>2, <2>3, AskWritten, EntryKept
  <2>4. CASE sending' = [sending EXCEPT ![b] = << >>] /\ UNCHANGED output
    <3>1. \A c \in Coroutines : sending'[c] = sending[c] \/ sending'[c] = << >>
      BY <2>4 DEF StreamsTyped
    <3>2. AskKept(q)
      BY <1>1, <2>1, <2>4, <3>1, AskFewer, FewerTrivially
    <3> QED BY <1>2, <2>2, <3>2, EntryKept
  <2> QED BY <1>6, <2>3, <2>4 DEF HandlerWrite
<1>7. CASE ReadSome(b)
  <2>1. UNCHANGED << sending, output, owed >>
    BY <1>7 DEF ReadSome, backend
  <2> QED BY <1>1, <1>2, <1>7, <2>1, AskSame, RespRead, EntryKept
<1> QED BY <1>3, <1>4, <1>5, <1>6, <1>7 DEF Handler, HandleFrame, HandleEndOfStream, AwaitFrame, Die

LEMMA RouteEntry ==
  ASSUME Scheduling, StreamsTyped, NEW r \in Requests, Route(r),
         NEW q \in Requests, Entry(q), EarlyKept(q), \A d \in Requests : Live(d)' => Live(d)
  PROVE  Entry(q)'
<1> /\ r \in Coroutines /\ q \in Coroutines
    /\ SchedulerTyped /\ AskSide(q) /\ RespSide(q)
  BY Apart DEF Scheduling, Entry
<1>1. /\ pc[r] = "start"
      /\ UNCHANGED << target, buffer, saved, input, output, owed >>
  BY DEF Route, backend
<1>2. RespKept(q)
  BY <1>1, RespSame
<1>3. CASE (\E status \in {"404", "500"} : Finish(r, Failed(status))) /\ UNCHANGED sending
  <2>1. AskKept(q)
    BY <1>1, <1>3, AskSame
  <2>2. TakesKept(q)
    BY <1>3, FailedTyped DEF Finish, TakesKept, Takes, StreamsTyped
  <2> QED BY <1>2, <2>1, <2>2, EntryKept
<1>4. CASE StartSend(r, Frame("Request", r)) /\ UNCHANGED answer
  <2>1. /\ sending'[r] = Pieces(Frame("Request", r))
        /\ \A c \in Coroutines \ {r} : sending'[c] = sending[c]
        /\ pc' = [pc EXCEPT ![r] = "write"]
    BY <1>4 DEF StartSend, Suspend, StreamsTyped
  <2>2. TakesKept(q)
    BY <1>4, TakesSame
  <2>3. CASE r # q
    <3>1. ~In(Pieces(Frame("Request", r)), Ask(q))
      BY <2>3, FirstPiece, FramesDiffer DEF Ask
    <3>2. Fewer(sending'[r], sending[r], Ask(q))
      BY <2>1, <3>1, PiecesOnce DEF Fewer
    <3>3. \A c \in Coroutines : Fewer(sending'[c], sending[c], Ask(q))
      BY <2>1, <3>2, FewerTrivially
    <3>4. AskKept(q)
      BY <1>1, <3>3, AskFewer, FewerTrivially
    <3> QED BY <1>2, <2>2, <3>4, EntryKept
  <2>4. CASE r = q
    <3>1. Early(q) /\ ~Early(q)'
      BY <1>1, <2>1, <2>4 DEF Early, SchedulerTyped
    <3>2. /\ ~Asking(q) /\ ~Owed(q) /\ ~Traveling(q)
          /\ \A d \in Requests : ~Takes(d, q)
      BY <3>1 DEF Entry, Exclusive
    <3>3. AskSide(q)'
      <4>1. OneOf(sending'[q], output[target[q]], Ask(q))
        BY <2>1, <2>4, <3>2, PiecesOnce, FewerTrivially DEF Asking, OneOf
      <4>2. \A c \in Coroutines : In(sending'[c], Ask(q)) => c = q
        BY <2>1, <2>4 DEF AskSide
      <4> QED BY <1>1, <4>1, <4>2 DEF AskSide
    <3>4. ~Owed(q)'
      BY <1>1, <3>2 DEF Owed
    <3> QED BY <1>2, <2>2, <3>1, <3>2, <3>3, <3>4
            DEF Entry, RespKept, TakesKept, TakenOnce, Exclusive
  <2> QED BY <2>3, <2>4
<1>5. (IF registered[target[r]] THEN "500" ELSE "404") \in {"404", "500"}
  OBVIOUS
<1> QED BY <1>3, <1>4, <1>5 DEF Route

LEMMA RequestWriteEntry ==
  ASSUME Scheduling, StreamsTyped, NEW r \in Requests, RequestWrite(r),
         NEW q \in Requests, Entry(q), EarlyKept(q),
         \/ \A d \in Requests : Live(d)' => Live(d)
         \/ Continue(r, "frame") /\ Readers(r)
  PROVE  Entry(q)'
<1> /\ r \in Coroutines
    /\ SchedulerTyped /\ AskSide(q) /\ RespSide(q)
  BY Apart DEF Scheduling, Entry
<1>1. UNCHANGED << target, saved, input, owed >> /\ pc[r] = "write" /\ target[r] \in Backends
  BY DEF RequestWrite, backend, SchedulerTyped
<1>2. \A d \in Requests : Live(d)' => Live(d) \/ d = r
  BY DEF Readers
<1>3. ASSUME NEW n \in 1..Len(sending[r]), WriteSome(r, n),
             buffer' = IF n = Len(sending[r])
                       THEN [buffer EXCEPT ![r] = saved[target[r]]]
                       ELSE buffer,
             UNCHANGED answer
      PROVE  Entry(q)'
  <2>1. AskKept(q) /\ TakesKept(q)
    BY <1>1, <1>3, AskWritten, TakesSame
  <2>2. CASE n = Len(sending[r])
    <3>1. RespKept(q)
      BY <1>1, <1>2, <1>3, <2>2, RespCopied
    <3> QED BY <2>1, <3>1, EntryKept
  <2>3. CASE n # Len(sending[r])
    <3>1. pc' = [pc EXCEPT ![r] = "write"]
      BY <1>3, <2>3 DEF WriteSome, Suspend, StreamsTyped
    <3>2. \A d \in Requests : Live(d)' => Live(d)
      BY <1>2, <3>1 DEF Live, SchedulerTyped
    <3>3. RespKept(q)
      BY <1>1, <1>3, <2>3, <3>2, RespSame
    <3> QED BY <2>1, <3>3, EntryKept
  <2> QED BY <2>2, <2>3
<1>4. CASE /\ Finish(r, Failed("500"))
           /\ sending' = [sending EXCEPT ![r] = << >>]
           /\ UNCHANGED << buffer, output >>
  <2>1. \A c \in Coroutines : sending'[c] = sending[c] \/ sending'[c] = << >>
    BY <1>4 DEF StreamsTyped
  <2>2. AskKept(q)
    BY <1>1, <1>4, <2>1, AskFewer, FewerTrivially
  <2>3. TakesKept(q)
    BY <1>4, FailedTyped DEF Finish, TakesKept, Takes, StreamsTyped
  <2>4. \A d \in Requests : Live(d)' => Live(d)
    BY <1>2, <1>4 DEF Live, Finish, End, SchedulerTyped
  <2>5. RespKept(q)
    BY <1>1, <1>4, <2>4, RespSame
  <2> QED BY <2>2, <2>3, <2>5, EntryKept
<1> QED BY <1>3, <1>4 DEF RequestWrite

(* The response leaves the buffer and becomes an answer, for good.         *)
LEMMA TakeFrameEntry ==
  ASSUME Scheduling, StreamsTyped, OneCurrent, NEW r \in Requests, running = r, TakeFrame(r),
         NEW q \in Requests, Entry(q), EarlyKept(q), \A d \in Requests : Live(d)' => Live(d)
  PROVE  Entry(q)'
<1> DEFINE got  == DeserializeFrame(buffer[r])
           left == Rest(buffer[r])
<1> /\ r \in Coroutines
    /\ SchedulerTyped /\ AskSide(q) /\ RespSide(q)
  BY Apart DEF Scheduling, Entry
<1>1. /\ UNCHANGED << target, sending, output, input, owed >>
      /\ pc[r] = "frame" /\ HasCompleteFrame(buffer[r])
      /\ saved' = [saved EXCEPT ![target[r]] = left]
      /\ buffer' = [buffer EXCEPT ![r] = << >>]
      /\ buffer[r] \in Seq(FromBackend)
  BY DEF TakeFrame, backend, StreamsTyped
<1>2. \/ \E status \in {"500", "dropped"} : Finish(r, Failed(status))
      \/ Finish(r, Answered(got))
  <2>1. PICK result \in Outcomes(got) : Finish(r, result)
    BY DEF TakeFrame
  <2>2. result \in {Failed("500"), Failed("dropped"), Answered(got)}
    BY OutcomesTyped
  <2> QED BY <2>1, <2>2
<1>3. Live(r)
  BY <1>1, RunningReads
<1>4. Fewer(left, buffer[r], Resp(q))
  BY <1>1, FewerRest
<1>5. /\ AskKept(q)
      /\ RespKept(q)
  BY <1>1, <1>3, <1>4, AskSame, RespLeft
<1>6. /\ \A d \in Requests : Takes(d, q)' => Takes(d, q) \/ d = r
      /\ Takes(r, q)' => buffer[r][1].frame = Frame("Response", q)
  BY <1>1, <1>2, FailedTyped, AnsweredTyped DEF Finish, Takes, StreamsTyped
<1>7. CASE ~Takes(r, q)'
  <2>1. TakesKept(q)
    BY <1>6, <1>7 DEF TakesKept
  <2> QED BY <1>5, <2>1, EntryKept
<1>8. CASE Takes(r, q)'
  <2>1. Resp(q) = [frame |-> buffer[r][1].frame, part |-> 1]
    BY <1>6, <1>8 DEF Resp
  <2>2. /\ In(buffer[r], Resp(q))
        /\ Once(buffer[r], Resp(q)) => ~In(left, Resp(q))
    BY <1>1, <2>1, FrontFrame
  <2>3. /\ Traveling(q) /\ target[r] = target[q]
        /\ OneOf(buffer[r], input[target[q]], Resp(q))
    BY <1>3, <2>2 DEF Traveling, RespSide
  <2>4. ~In(left, Resp(q)) /\ ~In(input[target[q]], Resp(q))
    BY <2>2, <2>3 DEF OneOf
  <2>5. ~Traveling(q)'
    <3>1. saved'[target[q]] = left
      BY <1>1, <2>3 DEF StreamsTyped, SchedulerTyped
    <3>2. ASSUME NEW d \in Requests, Live(d)' PROVE ~In(buffer'[d], Resp(q))
      <4>1. pc'[r] = "done"
        BY <1>2 DEF Finish, End, SchedulerTyped
      <4>2. d # r /\ Live(d)
        BY <3>2, <4>1 DEF Live
      <4>3. target[d] # target[q]
        BY <1>3, <2>3, <4>2 DEF OneCurrent, Live
      <4>4. buffer'[d] = buffer[d]
        BY <1>1, <4>2, Apart DEF StreamsTyped
      <4> QED BY <4>3, <4>4 DEF RespSide
    <3> QED BY <1>1, <2>4, <3>1, <3>2 DEF Traveling
  <2>6. /\ ~Early(q) /\ ~Asking(q) /\ ~Owed(q)
        /\ \A d \in Requests : ~Takes(d, q)
    BY <2>3 DEF Entry, Exclusive
  <2>7. TakenOnce(q)'
    BY <1>6, <2>6 DEF TakenOnce
  <2> QED BY <1>5, <2>5, <2>6, <2>7 DEF Entry, AskKept, RespKept, EarlyKept, Exclusive
<1> QED BY <1>7, <1>8

LEMMA RequestEntry ==
  ASSUME Scheduling, StreamsTyped, OneCurrent, NEW r \in Requests, running = r, Request(r),
         NEW q \in Requests, Entry(q), EarlyKept(q),
         \/ \A d \in Requests : Live(d)' => Live(d)
         \/ RequestWrite(r) /\ Continue(r, "frame") /\ Readers(r)
  PROVE  Entry(q)'
<1> /\ r \in Coroutines /\ q \in Requests
    /\ SchedulerTyped /\ AskSide(q) /\ RespSide(q)
  BY Apart DEF Scheduling, Entry
<1>1. CASE RequestWrite(r)
  BY <1>1, RequestWriteEntry
<1>2. CASE ~RequestWrite(r)
  <2>1. \A d \in Requests : Live(d)' => Live(d)
    BY <1>2
  <2>2. CASE RequestEndOfStream(r)
    <3>1. /\ UNCHANGED << target, sending, output, input, owed >>
          /\ pc[r] = "read"
          /\ saved' = [saved EXCEPT ![target[r]] = buffer[r]]
          /\ buffer' = [buffer EXCEPT ![r] = << >>]
          /\ Finish(r, Failed("500"))
      BY <2>2 DEF RequestEndOfStream, EndOfStream, backend
    <3>2. Live(r)
      BY <3>1, RunningReads
    <3>3. AskKept(q) /\ RespKept(q)
      BY <2>1, <3>1, <3>2, AskSame, RespLeft, FewerTrivially
    <3>4. TakesKept(q)
      BY <3>1, FailedTyped DEF Finish, TakesKept, Takes, StreamsTyped
    <3> QED BY <3>3, <3>4, EntryKept
  <2>3. CASE AwaitFrame(r)
    <3>1. UNCHANGED << target, sending, buffer, saved, answer, input, output, owed >>
      BY <2>3 DEF AwaitFrame, backend
    <3> QED BY <2>1, <3>1, AskSame, RespSame, TakesSame, EntryKept
  <2>4. CASE ReadSome(r)
    <3>1. UNCHANGED << target, sending, answer, output, owed >>
      BY <2>4 DEF ReadSome, backend
    <3> QED BY <2>1, <2>4, <3>1, AskSame, RespRead, TakesSame, EntryKept
  <2> QED BY <1>2, <2>1, <2>2, <2>3, <2>4, RouteEntry, TakeFrameEntry DEF Request
<1> QED BY <1>1, <1>2

(* What a backend says moves no response on, unless it is one.             *)
LEMMA SaidOther ==
  ASSUME StreamsTyped, NEW b \in Backends, NEW type \in FrameTypes, NEW who \in Requests \cup {Nobody},
         Say(b, Frame(type, who)), NEW q, type # "Response" \/ who # q
  PROVE  \A d \in Backends : Fewer(input'[d], input[d], Resp(q))
<1>1. ~In(Pieces(Frame(type, who)), Resp(q))
  BY FirstPiece, FramesDiffer DEF Resp
<1>2. Pieces(Frame(type, who)) \in Seq(Piece)
  <2>1. \A i \in 1..2 : [frame |-> Frame(type, who), part |-> i] \in Piece
    BY DEF Piece, Frame
  <2> QED BY <2>1, PiecesTyped
<1>3. input[b] \in Seq(Piece)
  <2>1. FromBackend \subseteq Piece
    BY DEF FromBackend
  <2> QED BY <2>1 DEF StreamsTyped
<1>4. Fewer(input[b] \o Pieces(Frame(type, who)), input[b], Resp(q))
  BY <1>1, <1>2, <1>3, FewerJoined
<1> QED BY <1>4, FewerTrivially DEF Say, StreamsTyped

LEMMA ReceiveEntry ==
  ASSUME Scheduling, StreamsTyped, NEW b \in Backends, Receive(b),
         NEW q \in Requests, Entry(q), EarlyKept(q), RespKept(q), TakesKept(q), target' = target
  PROVE  Entry(q)'
<1> SchedulerTyped /\ AskSide(q) /\ q \in Coroutines
  BY Apart DEF Scheduling, Entry
<1> DEFINE got == DeserializeFrame(output[b])
<1>1. /\ HasCompleteFrame(output[b]) /\ output[b] \in Seq(ToBackend)
      /\ output' = [output EXCEPT ![b] = Rest(@)]
      /\ UNCHANGED sending
  BY BackendLeaves DEF Receive, StreamsTyped, gateway, BackendMoves
<1>2. /\ output'[b] = Rest(output[b])
      /\ \A d \in Backends \ {b} : output'[d] = output[d]
  BY <1>1 DEF StreamsTyped
<1>3. \A d \in Backends : Fewer(output'[d], output[d], Ask(q))
  BY <1>1, <1>2, FewerRest, FewerTrivially
<1>4. CASE \A d \in Backends : q \in owed'[d] => q \in owed[d]
  <2>1. AskKept(q)
    BY <1>1, <1>3, <1>4, AskFewer, FewerTrivially
  <2> QED BY <2>1, EntryKept
<1>5. CASE \E d \in Backends : q \in owed'[d] /\ q \notin owed[d]
  <2>1. got.frame = output[b][1].frame /\ output[b][1] \in ToBackend
    BY <1>1, CompleteFrame
  <2>2. \/ UNCHANGED owed
        \/ /\ got.frame.type = "Request"
           /\ owed' = [owed EXCEPT ![b] = @ \cup {got.frame.request}]
    BY DEF Receive
  <2>3. /\ got.frame.type = "Request" /\ got.frame.request = q
        /\ \A d \in Backends \ {b} : owed'[d] = owed[d]
    <3>1. PICK who : /\ who = got.frame.request
                     /\ UNCHANGED owed \/ owed' = [owed EXCEPT ![b] = @ \cup {who}]
                     /\ UNCHANGED owed \/ got.frame.type = "Request"
      BY <2>2
    <3>2. owed' = [owed EXCEPT ![b] = owed[b] \cup {who}]
      BY <1>5, <3>1
    <3>3. owed'[b] = owed[b] \cup {who} /\ \A d \in Backends \ {b} : owed'[d] = owed[d]
      BY <3>2 DEF StreamsTyped
    <3>4. q = who
      BY <1>5, <3>3
    <3> QED BY <1>5, <3>1, <3>3, <3>4
  <2>4. output[b][1].frame = Frame("Request", q)
    BY <2>1, <2>3 DEF ToBackend, Piece, Frame
  <2>5. Ask(q) = [frame |-> output[b][1].frame, part |-> 1]
    BY <2>4 DEF Ask
  <2>6. /\ In(output[b], Ask(q))
        /\ Once(output[b], Ask(q)) => ~In(output'[b], Ask(q))
    BY <1>1, <1>2, <2>5, FrontFrame
  <2>7. b = target[q]
    BY <2>6 DEF AskSide
  <2>8. Asking(q) /\ ~Asking(q)'
    BY <1>1, <2>6, <2>7 DEF Asking, AskSide, OneOf
  <2>9. AskSide(q)'
    <3>1. \A d \in Backends : d # target[q] => ~In(output'[d], Ask(q)) /\ q \notin owed'[d]
      BY <1>2, <2>3, <2>7 DEF AskSide
    <3>2. OneOf(sending[q], output'[target[q]], Ask(q))
      BY <1>3, <2>7 DEF AskSide, OneOf, Fewer
    <3> QED BY <1>1, <3>1, <3>2 DEF AskSide
  <2> QED BY <2>8, <2>9 DEF Entry, RespKept, TakesKept, EarlyKept, TakenOnce, Exclusive
<1> QED BY <1>4, <1>5

LEMMA ReplyEntry ==
  ASSUME Scheduling, StreamsTyped, NEW b \in Backends, Reply(b),
         NEW q \in Requests, Entry(q), EarlyKept(q), TakesKept(q),
         \A r \in Requests : Live(r)' => Live(r), target' = target
  PROVE  Entry(q)'
<1> SchedulerTyped /\ AskSide(q) /\ RespSide(q) /\ target[q] \in Backends
  BY DEF Scheduling, Entry, SchedulerTyped
<1>1. PICK r \in owed[b], type \in ReplyTypes :
        /\ Say(b, Frame(type, r))
        /\ owed' = [owed EXCEPT ![b] = @ \ {r}]
  BY DEF Reply
<1>2. r \in Requests /\ type \in FrameTypes
  BY ForwardingAssumption DEF StreamsTyped, FrameTypes
<1>3. UNCHANGED << sending, buffer, saved, output >>
  BY BackendLeaves DEF Reply, gateway, BackendMoves
<1>4. \A d \in Backends : q \in owed'[d] => q \in owed[d]
  BY <1>1 DEF StreamsTyped
<1>5. AskKept(q)
  BY <1>3, <1>4, AskFewer, FewerTrivially
<1>6. CASE type # "Response" \/ r # q
  <2>1. \A d \in Backends : Fewer(input'[d], input[d], Resp(q))
    BY <1>1, <1>2, <1>6, SaidOther
  <2>2. RespKept(q)
    BY <1>3, <2>1, RespFewer, FewerTrivially
  <2> QED BY <1>5, <2>2, EntryKept
<1>7. CASE type = "Response" /\ r = q
  <2> DEFINE said == Pieces(Frame("Response", q))
  <2>1. /\ b = target[q] /\ Owed(q)
    BY <1>7 DEF AskSide, Owed
  <2>2. /\ ~Early(q) /\ ~Asking(q) /\ ~Traveling(q)
        /\ \A d \in Requests : ~Takes(d, q)
    BY <2>1 DEF Entry, Exclusive
  <2>3. /\ ~In(saved[b], Resp(q)) /\ ~In(input[b], Resp(q))
        /\ \A d \in Requests : Live(d) => ~In(buffer[d], Resp(q))
    BY <2>1, <2>2 DEF Traveling
  <2>4. /\ input'[b] = input[b] \o said
        /\ \A d \in Backends \ {b} : input'[d] = input[d]
    BY <1>1, <1>7 DEF Say, StreamsTyped
  <2>5. input[b] \in Seq(FromBackend) /\ said \in Seq(FromBackend)
    <3>1. \A i \in 1..2 : [frame |-> Frame("Response", q), part |-> i] \in FromBackend
      BY <1>2, <1>7, RequestTyped
    <3> QED BY <3>1, PiecesTyped DEF StreamsTyped
  <2>6. OneOf(input[b], said, Resp(q))
    BY <2>3, FewerTrivially, PiecesOnce DEF OneOf
  <2>7. Once(input'[b], Resp(q))
    BY <2>4, <2>5, <2>6, FewerJoined
  <2>8. RespSide(q)'
    <3>1. OneOf(saved[b], input'[b], Resp(q))
      BY <2>3, <2>7, FewerTrivially DEF OneOf
    <3>2. ASSUME NEW d \in Requests, Live(d)' PROVE OneOf(buffer[d], input'[b], Resp(q))
      <4>1. ~In(buffer[d], Resp(q))
        BY <2>3, <3>2
      <4> QED BY <2>7, <4>1, FewerTrivially DEF OneOf
    <3> QED BY <1>3, <2>1, <2>4, <3>1, <3>2 DEF RespSide
  <2>9. ~Owed(q)'
    BY <1>1, <1>7, <2>1 DEF Owed, StreamsTyped
  <2> QED BY <1>5, <2>2, <2>8, <2>9 DEF Entry, AskKept, TakesKept, EarlyKept, TakenOnce, Exclusive
<1> QED BY <1>6, <1>7

LEMMA BackendEntry ==
  ASSUME Scheduling, StreamsTyped, NEW b \in Backends, BackendMoves(b),
         NEW q \in Requests, Entry(q), EarlyKept(q), \A r \in Requests : Live(r)' => Live(r)
  PROVE  Entry(q)'
<1> SchedulerTyped /\ AskSide(q) /\ RespSide(q)
  BY DEF Scheduling, Entry
<1>1. UNCHANGED << sending, buffer, saved, answer, target >>
  BY BackendLeaves DEF gateway
<1>2. TakesKept(q)
  BY <1>1, TakesSame
<1>3. CASE /\ \E type \in {"Registration", "Heartbeat", "Unregistration"} : Say(b, Frame(type, Nobody))
           /\ UNCHANGED << output, owed >>
  <2>1. \A d \in Backends : Fewer(input'[d], input[d], Resp(q))
    BY <1>3, SaidOther DEF FrameTypes
  <2>2. AskKept(q) /\ RespKept(q)
    BY <1>1, <1>3, <2>1, AskSame, RespFewer, FewerTrivially
  <2> QED BY <1>2, <2>2, EntryKept
<1>4. CASE Receive(b)
  <2>1. RespKept(q)
    BY <1>1, <1>4, RespSame DEF Receive
  <2> QED BY <1>1, <1>2, <1>4, <2>1, ReceiveEntry
<1>5. CASE Reply(b)
  BY <1>1, <1>2, <1>5, ReplyEntry
<1>6. CASE Leave(b) \/ Connect(b)
  <2>1. /\ UNCHANGED input
        /\ \A d \in Backends : output'[d] = output[d] \/ output'[d] = << >>
        /\ \A d \in Backends : q \in owed'[d] => q \in owed[d]
    BY <1>6 DEF Leave, Connect, StreamsTyped
  <2>2. AskKept(q) /\ RespKept(q)
    BY <1>1, <2>1, AskFewer, RespSame, FewerTrivially
  <2> QED BY <1>2, <2>2, EntryKept
<1> QED BY <1>3, <1>4, <1>5, <1>6 DEF BackendMoves, Register, Heartbeat, SayGoodbye

LEMMA LedgerStep ==
  ASSUME Scheduling, StreamsTyped, OneCurrent, Ledger, [Next]_vars
  PROVE  OneCurrent' /\ Ledger'
<1> SUFFICES ASSUME NEW q \in Requests PROVE Entry(q)'
  BY ReadersStep DEF Ledger
<1>1. Entry(q) /\ EarlyKept(q)
  BY EarlyStep DEF Ledger
<1>2. CASE UNCHANGED << sending, buffer, saved, answer, input, output, owed, target >>
  <2>1. SchedulerTyped /\ AskSide(q) /\ RespSide(q)
    BY <1>1 DEF Entry, Scheduling
  <2>2. CASE \A r \in Requests : Live(r)' => Live(r)
    BY <1>1, <1>2, <2>1, <2>2, AskSame, RespSame, TakesSame, EntryKept
  <2>3. CASE \E r \in Requests : running = r /\ RequestWrite(r) /\ Continue(r, "frame") /\ Readers(r)
    BY <1>1, <2>3, RequestWriteEntry
  <2> QED BY <2>2, <2>3, ReadersStep
<1>3. CASE \E b \in Backends : BackendMoves(b)
  <2>1. \A r \in Requests : Live(r)' => Live(r)
    BY <1>3, BackendLeaves, SameReaders, Apart DEF gateway, Readers
  <2> QED BY <1>1, <1>3, <2>1, BackendEntry
<1>4. CASE \E b \in Backends : running = b /\ Handler(b)
  <2>1. \A r \in Requests : Live(r)' => Live(r)
    BY <1>4, HandlerReaders, Apart DEF Readers
  <2> QED BY <1>1, <1>4, <2>1, HandlerEntry
<1>5. CASE \E r \in Requests : running = r /\ Request(r)
  <2>1. PICK r \in Requests : running = r /\ Request(r)
    BY <1>5
  <2>2. \/ \A d \in Requests : Live(d)' => Live(d)
        \/ RequestWrite(r) /\ Continue(r, "frame") /\ Readers(r)
    BY <2>1, RequestReaders, Apart DEF Readers
  <2> QED BY <1>1, <2>1, <2>2, RequestEntry
<1> QED BY <1>2, <1>3, <1>4, <1>5
        DEF Next, EventLoop, Run, AcceptConnection, ProcessPendingCoroutines, EpollWait, Resume,
            Environment, Arrive, BackendMoves, vars, gateway, backend

LEMMA LedgerInit ==
  ASSUME Init
  PROVE  OneCurrent /\ Ledger
<1>1. \A r \in Requests : ~Current(r) /\ ~Live(r) /\ answer[r].status = "none"
  BY Apart DEF Init, Current, Live, InBatch, NoWait, Unanswered
<1>2. ASSUME NEW q \in Requests PROVE Entry(q)
  <2>1. /\ \A c \in Coroutines : sending[c] = << >> /\ buffer[c] = << >>
        /\ \A b \in Backends : output[b] = << >> /\ input[b] = << >> /\ saved[b] = << >> /\ owed[b] = {}
        /\ target[q] \in Backends /\ q \in Coroutines
    BY Apart DEF Init
  <2>2. AskSide(q) /\ RespSide(q)
    BY <1>1, <2>1, FewerTrivially, Apart DEF AskSide, RespSide, OneOf
  <2>3. ~Asking(q) /\ ~Owed(q) /\ ~Traveling(q) /\ \A r \in Requests : ~Takes(r, q)
    BY <1>1, <2>1, FewerTrivially DEF Asking, Owed, Traveling, Takes
  <2> QED BY <2>2, <2>3 DEF Entry, TakenOnce, Exclusive
<1> QED BY <1>1, <1>2 DEF OneCurrent, Ledger

(* Whatever overtakes, is lost or is partial, and whoever leaves.          *)
THEOREM LedgerInvariance == Spec => [](OneCurrent /\ Ledger)
<1>1. Init => OneCurrent /\ Ledger
  BY LedgerInit
<1>2. Scheduling /\ StreamsTyped /\ OneCurrent /\ Ledger /\ [Next]_vars => (OneCurrent /\ Ledger)'
  BY LedgerStep
<1> QED BY <1>1, <1>2, SchedulingInvariance, TypesKept, PTL DEF Spec

(* No response is the answer of two requests.                              *)
THEOREM ResponsesKeptApart == Spec => []ResponsesNotShared
<1>1. StreamsTyped /\ Ledger => ResponsesNotShared
  <2> SUFFICES ASSUME StreamsTyped, Ledger, NEW r1 \in Requests, NEW r2 \in Requests,
                      r1 # r2, answer[r1].status = "answered", answer[r1].frame.type = "Response",
                      answer[r1] = answer[r2]
               PROVE  FALSE
    BY DEF ResponsesNotShared
  <2>1. PICK q \in Requests : answer[r1].frame = Frame("Response", q)
    BY DEF StreamsTyped, NamesRequest
  <2>2. Takes(r1, q) /\ Takes(r2, q)
    BY <2>1 DEF Takes
  <2> QED BY <2>2 DEF Ledger, Entry, TakenOnce
<1> QED BY <1>1, TypesKept, LedgerInvariance, PTL

-----------------------------------------------------------------------------
(* What frames look like while they are written and read in parts.         *)

(* What is written and what is not make up the same stream.                *)
LEMMA WriteKeepsStream ==
  ASSUME NEW S, NEW s \in Seq(S), NEW t \in Seq(S), NEW n \in 0..Len(s)
  PROVE  /\ (t \o SubSeq(s, 1, n)) \o DropFirst(s, n) = t \o s
         /\ DropFirst(s, n) = << >> <=> n = Len(s)
<1> DEFINE a == SubSeq(s, 1, n)
           d == DropFirst(s, n)
<1>1. /\ a \in Seq(S)
      /\ d \in Seq(S) /\ Len(d) = Len(s) - n
      /\ Len(s) \in Nat
  BY SplitTyped
<1>2. a \o d = SubSeq(s, 1, Len(s))
  <2>1. 1 \in 1..(Len(s) + 1) /\ n \in (1 - 1)..Len(s) /\ Len(s) \in n..Len(s)
    BY <1>1
  <2> QED BY <2>1, ConcatAdjacentSubSeq DEF DropFirst
<1>3. SubSeq(s, 1, Len(s)) = s
  BY SubSeqFull
<1>5. d = << >> <=> n = Len(s)
  BY <1>1, EmptySeq
<1> HIDE DEF a, d
<1>4. (t \o a) \o d = t \o (a \o d)
  <2>1. ASSUME NEW x \in Seq(S), NEW y \in Seq(S), NEW z \in Seq(S)
        PROVE  (x \o y) \o z = x \o (y \o z)
    BY ConcatAssociative, SMTT(40)
  <2>2. a \in Seq(S) /\ d \in Seq(S)
    BY <1>1
  <2> QED BY <2>1, <2>2, Zenon
<1>6. (t \o a) \o d = t \o s
  BY <1>4, <1>2, <1>3, Zenon
<1> QED BY <1>6, <1>5, Zenon DEF a, d

LEMMA DropOfJoined ==
  ASSUME NEW S, NEW t \in Seq(S), NEW s \in Seq(S), NEW n \in 0..Len(t)
  PROVE  DropFirst(t, n) \o s = DropFirst(t \o s, n)
<1> DEFINE d == DropFirst(t, n)
           j == t \o s
<1>0. Len(t) \in Nat /\ Len(s) \in Nat
  OBVIOUS
<1>1. /\ j \in Seq(S) /\ Len(j) = Len(t) + Len(s)
      /\ \A i \in 1..(Len(t) + Len(s)) : j[i] = IF i <= Len(t) THEN t[i] ELSE s[i - Len(t)]
  BY ConcatProperties
<1>2. /\ d \in Seq(S) /\ Len(d) = Len(t) - n
      /\ \A i \in 1..(Len(t) - n) : d[i] = t[n + i]
  BY SplitTyped
<1> HIDE DEF d, j
<1> DEFINE l == d \o s
           g == DropFirst(j, n)
<1>3. /\ l \in Seq(S) /\ Len(l) = Len(d) + Len(s)
      /\ \A i \in 1..(Len(d) + Len(s)) : l[i] = IF i <= Len(d) THEN d[i] ELSE s[i - Len(d)]
  BY <1>2, ConcatProperties
<1>6. n \in 0..Len(j)
  BY <1>0, <1>1
<1>4. /\ g \in Seq(S) /\ Len(g) = Len(j) - n
      /\ \A i \in 1..(Len(j) - n) : g[i] = j[n + i]
  BY <1>1, <1>6, SplitTyped
<1> HIDE DEF l, g
<1>5. ASSUME NEW i \in 1..Len(l)
      PROVE  l[i] = g[i]
  <2>1. CASE i <= Len(d)
    BY <2>1, <1>0, <1>1, <1>2, <1>3, <1>4
  <2>2. CASE ~(i <= Len(d))
    <3>1. l[i] = s[i - Len(d)]
      BY <2>2, <1>3
    <3>2. g[i] = j[n + i] /\ n + i \in 1..(Len(t) + Len(s)) /\ ~(n + i <= Len(t))
      BY <2>2, <1>0, <1>1, <1>2, <1>3, <1>4
    <3>3. j[n + i] = s[(n + i) - Len(t)]
      BY <3>2, <1>1
    <3>4. (n + i) - Len(t) = i - Len(d)
      BY <1>0, <1>2
    <3> QED BY <3>1, <3>2, <3>3, <3>4
  <2> QED BY <2>1, <2>2
<1>7. Len(l) = Len(g)
  BY <1>0, <1>1, <1>2, <1>3, <1>4
<1>8. l = g
  BY <1>3, <1>4, <1>5, <1>7, SeqEqual
<1> QED BY <1>8, Zenon DEF l, g, d, j

LEMMA TwoPieces ==
  ASSUME NEW frame
  PROVE  /\ Len(Pieces(frame)) = 2
         /\ Pieces(frame)[1] = [frame |-> frame, part |-> 1]
         /\ Pieces(frame)[2] = [frame |-> frame, part |-> 2]
         /\ Rest(Pieces(frame)) = << >>
  BY SubSeqEmpty DEF Pieces, Rest, DropFirst

LEMMA WholeFrame ==
  ASSUME NEW frame
  PROVE  /\ HasCompleteFrame(Pieces(frame))
         /\ DeserializeFrame(Pieces(frame)).frame = frame
         /\ DeserializeFrame(Pieces(frame)).intact
<1> DEFINE p == Pieces(frame)
<1>1. p[1] = [frame |-> frame, part |-> 1] /\ Len(p) = 2
  BY TwoPieces, Zenon
<1>2. /\ DeserializeFrame(p).frame = p[1].frame
      /\ DeserializeFrame(p).intact <=> p[2] = Pieces(p[1].frame)[2]
  BY Zenon DEF DeserializeFrame
<1> HIDE DEF p
<1>3. p[1].part = 1 /\ p[1].frame = frame
  BY <1>1
<1>4. HasCompleteFrame(p)
  BY <1>1, <1>3 DEF HasCompleteFrame
<1>5. DeserializeFrame(p).frame = frame
  BY <1>2, <1>3
<1>6. Pieces(p[1].frame)[2] = p[2]
  BY <1>3, Zenon DEF p
<1>7. DeserializeFrame(p).intact
  BY <1>2, <1>6, Zenon
<1> QED BY <1>4, <1>5, <1>7, Zenon DEF p

(* Two parts of one frame: only the whole is complete.                     *)
LEMMA PartsOfFrame ==
  ASSUME NEW S, NEW t \in Seq(S), NEW s \in Seq(S), NEW frame, t \o s = Pieces(frame),
         HasCompleteFrame(t)
  PROVE  t = Pieces(frame) /\ s = << >>
<1> DEFINE p == Pieces(frame)
<1>1. Len(p) = 2
  BY TwoPieces, Zenon
<1> HIDE DEF p
<1>2. t \o s = p /\ Len(t \o s) = Len(t) + Len(s) /\ Len(t) \in Nat /\ Len(s) \in Nat
  BY ConcatProperties DEF p
<1>3. Len(s) = 0
  BY <1>1, <1>2 DEF HasCompleteFrame
<1>4. s = << >>
  BY <1>3, EmptySeq
<1>5. t = p
  BY <1>2, <1>4, ConcatEmptySeq
<1> QED BY <1>4, <1>5 DEF p

(* Two parts of two frames: what is complete first is the first.           *)
LEMMA PartsOfTwoFrames ==
  ASSUME NEW S, NEW t \in Seq(S), NEW s \in Seq(S), NEW f, NEW g,
         Pieces(f) \in Seq(S), Pieces(g) \in Seq(S),
         t \o s = Pieces(f) \o Pieces(g), HasCompleteFrame(t)
  PROVE  /\ Rest(t) \o s = Pieces(g) /\ Rest(t) \in Seq(S)
         /\ DeserializeFrame(t).frame = f
<1> DEFINE p == Pieces(f)
           q == Pieces(g)
<1>1. /\ Len(t) \in Nat /\ 2 \in 0..Len(t) /\ 1 \in 1..Len(t)
      /\ Rest(t) \in Seq(S) /\ DeserializeFrame(t).frame = t[1].frame
  BY CompleteFrame
<1>2. Len(p) = 2 /\ p[1] = [frame |-> f, part |-> 1] /\ Rest(p) = << >>
  BY TwoPieces, Zenon
<1>3. p \in Seq(S) /\ q \in Seq(S) /\ t \o s = p \o q
  OBVIOUS
<1> HIDE DEF p, q
<1>4. DropFirst(t, 2) \o s = DropFirst(t \o s, 2)
  BY <1>1, DropOfJoined, Zenon
<1>5. 2 \in 0..Len(p)
  BY <1>2
<1>6. DropFirst(p, 2) \o q = DropFirst(p \o q, 2)
  BY <1>3, <1>5, DropOfJoined, Zenon
<1>7. << >> \o q = q
  BY <1>3, ConcatEmptySeq
<1>8. Rest(t) \o s = q
  BY <1>2, <1>3, <1>4, <1>6, <1>7, Zenon DEF Rest
<1>9. t[1] = p[1]
  <2>1. t[1] = (t \o s)[1]
    BY <1>1, ConcatProperties
  <2>2. p[1] = (p \o q)[1]
    <3>1. \A i \in 1..(Len(p) + Len(q)) : (p \o q)[i] = IF i <= Len(p) THEN p[i] ELSE q[i - Len(p)]
      BY <1>3, ConcatProperties
    <3>2. 1 \in 1..(Len(p) + Len(q)) /\ 1 <= Len(p)
      BY <1>2, <1>3
    <3> QED BY <3>1, <3>2
  <2> QED BY <2>1, <2>2, <1>3
<1>10. t[1].frame = f
  BY <1>2, <1>9
<1> QED BY <1>1, <1>8, <1>10 DEF q

-----------------------------------------------------------------------------
(* One request at a time.                                                  *)

(* Clients send a backend one request at a time, and none before its       *)
(* handler waits; backends send nothing but replies, and stay.             *)
OneAtATime ==
  /\ MaxInFlight = 1
  /\ Settled = TRUE
  /\ MaxHeartbeats = 0
  /\ MayLeave = FALSE

Registration      == Pieces(Frame("Registration", Nobody))
Acknowledgement   == Pieces(Frame("Response", Nobody))
Inquiry(r)        == Pieces(Frame("Request", r))
Result(type, r)   == Pieces(Frame(type, r))
Own(r)            == Answered([frame |-> Frame("Response", r), intact |-> TRUE])

Free(r)    == pc[r] \in {"idle", "done"}
Sending(r) == pc[r] = "write"
Reading(r) == pc[r] \in {"read", "frame"}

Asleep(b) == running # b /\ ~InBatch(b)

(* Nothing is under way on the connection, unless the acknowledgement of   *)
(* its registration.                                                       *)
Quiet(b) == output[b] \in {<< >>, Acknowledgement} /\ input[b] = << >> /\ owed[b] = {}

Idle(b)  == \A r \in Requests : target[r] = b => Free(r)
Alone(b) == \A q, r \in Requests : target[q] = b /\ target[r] = b /\ ~Free(q) /\ ~Free(r) => q = r

(* How far the connection is: its backend makes it and registers, ...      *)
Joining(b) ==
  /\ ~registered[b] /\ Idle(b)
  /\ pc[b] \in {"none", "scheduled", "frame", "read"}
  /\ sending[b] = << >> /\ output[b] = << >> /\ owed[b] = {}
  /\ \/ peer[b] = "closed" /\ pc[b] = "none" /\ buffer[b] = << >> /\ input[b] = << >>
     \/ peer[b] = "connected" /\ buffer[b] = << >> /\ input[b] = << >>
     \/ peer[b] = "serving" /\ buffer[b] \o input[b] = Registration

Joined(b) == registered[b] /\ peer[b] = "serving" /\ buffer[b] = << >>

(* ... its handler acknowledges, ...                                       *)
Acknowledging(b) ==
  /\ Joined(b) /\ Idle(b)
  /\ pc[b] = "write" /\ sending[b] # << >> /\ output[b] \o sending[b] = Acknowledgement
  /\ input[b] = << >> /\ owed[b] = {}

Acknowledged(b) ==
  /\ Joined(b) /\ Idle(b)
  /\ pc[b] = "frame" /\ sending[b] = << >> /\ Quiet(b)

(* ... and waits ever after, while requests come one by one.               *)
Serving(b) ==
  /\ Joined(b)
  /\ pc[b] = "read" /\ sending[b] = << >> /\ Asleep(b)
  /\ (\A r \in Requests : target[r] = b => ~Sending(r) /\ ~Reading(r)) => Quiet(b)

(* A handler that died at the registration leaves a connection that nobody *)
(* uses: its descriptor stays open, no request is sent to it.              *)
Perished(b) ==
  /\ Idle(b)
  /\ pc[b] = "leaked" /\ peer[b] = "serving"
  /\ sending[b] = << >> /\ buffer[b] = << >>
  /\ output[b] = << >> /\ input[b] = << >> /\ owed[b] = {}

(* How far a request is: on its way to the backend, behind what is left    *)
(* of the acknowledgement, ...                                             *)
Asked(r) ==
  LET b == target[r]
  IN  /\ output[b] \o sending[r] \in {Acknowledgement \o Inquiry(r), Inquiry(r)}
      /\ owed[b] = {} /\ input[b] = << >> /\ buffer[r] = << >>

(* ... with the backend, ...                                               *)
Pending(r) ==
  LET b == target[r]
  IN  output[b] = << >> /\ owed[b] = {r} /\ input[b] = << >> /\ buffer[r] = << >>

(* ... or answered, and its answer is all there is to read.                *)
Replied(r) ==
  LET b == target[r]
  IN  /\ output[b] = << >> /\ owed[b] = {}
      /\ \E type \in ReplyTypes : buffer[r] \o input[b] = Result(type, r)

(* In the end it has its own response, or failed for a reason.             *)
Ended(r) ==
  \/ answer[r] = Own(r) /\ r \notin Oversized \cup Unreadable
  \/ answer[r] = Dropped /\ r \in Unreadable
  \/ answer[r] = Failed("500") /\ (r \in Oversized \/ "Error" \in ReplyTypes)

Turn(r) ==
  /\ Sending(r) \/ Reading(r) => r \notin Oversized
  /\ Sending(r) => sending[r] # << >> /\ Asked(r)
  /\ Reading(r) => sending[r] = << >> /\ (Asked(r) \/ Pending(r) \/ Replied(r))
  /\ ~Sending(r) /\ ~Reading(r) => sending[r] = << >> /\ buffer[r] = << >>
  /\ pc[r] # "done" => answer[r] = Unanswered
  /\ pc[r] = "done" => Ended(r)

Wired(b) ==
  /\ saved[b] = << >> /\ beats[b] = 0
  /\ Alone(b)
  /\ \A r \in Requests : target[r] = b => Turn(r)
  /\ Joining(b) \/ Acknowledging(b) \/ Acknowledged(b) \/ Serving(b) \/ Perished(b)

PeersTyped ==
  /\ peer \in [Backends -> {"closed", "connected", "serving", "leaving"}]
  /\ beats \in [Backends -> Nat]

Sequential == PeersTyped /\ \A b \in Backends : Wired(b)

LEMMA FramesTyped ==
  /\ Registration \in Seq(FromBackend) /\ Acknowledgement \in Seq(ToBackend)
  /\ \A r \in Requests : Inquiry(r) \in Seq(ToBackend)
  /\ \A r \in Requests, type \in ReplyTypes : Result(type, r) \in Seq(FromBackend)
<1>1. ReplyTypes \subseteq {"Response", "Error"}
  BY ForwardingAssumption
<1>2. \A i \in 1..2 :
        /\ [frame |-> Frame("Registration", Nobody), part |-> i] \in FromBackend
        /\ [frame |-> Frame("Response", Nobody), part |-> i] \in ToBackend
        /\ \A r \in Requests : [frame |-> Frame("Request", r), part |-> i] \in ToBackend
        /\ \A r \in Requests, type \in ReplyTypes : [frame |-> Frame(type, r), part |-> i] \in FromBackend
  BY <1>1, RequestTyped DEF FrameTypes
<1>3. Registration \in Seq(FromBackend) /\ Acknowledgement \in Seq(ToBackend)
  BY <1>2, PiecesTyped DEF Registration, Acknowledgement
<1>4. ASSUME NEW r \in Requests PROVE Inquiry(r) \in Seq(ToBackend)
  BY <1>2, PiecesTyped DEF Inquiry
<1>5. ASSUME NEW r \in Requests, NEW type \in ReplyTypes PROVE Result(type, r) \in Seq(FromBackend)
  BY <1>2, PiecesTyped DEF Result
<1> QED BY <1>3, <1>4, <1>5

LEMMA NotEmpty ==
  ASSUME NEW frame
  PROVE  Pieces(frame) # << >>
<1> DEFINE p == Pieces(frame)
<1>1. Len(p) = 2
  BY TwoPieces, Zenon
<1> HIDE DEF p
<1>2. p # << >>
  BY <1>1
<1> QED BY <1>2 DEF p

(* What a step that is about another connection leaves alone; the event    *)
(* loop may turn to a request that arrived.                                *)
Untouched(b) ==
  /\ saved'[b] = saved[b] /\ beats'[b] = beats[b] /\ registered'[b] = registered[b]
  /\ pc'[b] = pc[b] /\ sending'[b] = sending[b] /\ buffer'[b] = buffer[b]
  /\ peer'[b] = peer[b] /\ input'[b] = input[b] /\ output'[b] = output[b] /\ owed'[b] = owed[b]
  /\ Serving(b) => Asleep(b)'
  /\ \A r \in Requests : target[r] = b =>
       /\ sending'[r] = sending[r] /\ buffer'[r] = buffer[r] /\ answer'[r] = answer[r]
       /\ pc'[r] = pc[r] \/ (pc[r] = "arrived" /\ pc'[r] = "start")

LEMMA UntouchedKeeps ==
  ASSUME NEW b \in Backends, Wired(b), Untouched(b), UNCHANGED target
  PROVE  Wired(b)'
<1>1. ASSUME NEW r \in Requests, target[r] = b
      PROVE  /\ (Free(r)' <=> Free(r)) /\ (Sending(r)' <=> Sending(r)) /\ (Reading(r)' <=> Reading(r))
             /\ pc'[r] = "done" <=> pc[r] = "done"
  BY <1>1 DEF Untouched, Free, Sending, Reading
<1>2. ASSUME NEW r \in Requests, target[r] = b
      PROVE  Turn(r)'
  <2>1. (Asked(r)' <=> Asked(r)) /\ (Pending(r)' <=> Pending(r)) /\ (Replied(r)' <=> Replied(r))
    BY <1>2 DEF Untouched, Asked, Pending, Replied
  <2>2. Turn(r)
    BY <1>2 DEF Wired
  <2>3. sending'[r] = sending[r] /\ buffer'[r] = buffer[r] /\ answer'[r] = answer[r]
    BY <1>2 DEF Untouched
  <2> QED BY <1>1, <1>2, <2>1, <2>2, <2>3 DEF Turn, Ended
<1>3. Alone(b)' /\ (Idle(b) => Idle(b)')
  BY <1>1 DEF Wired, Alone, Idle
<1>4. (Quiet(b)' <=> Quiet(b)) /\ (Joined(b)' <=> Joined(b))
  BY DEF Untouched, Quiet, Joined
<1>5. CASE Joining(b)
  BY <1>2, <1>3, <1>5 DEF Wired, Joining, Untouched
<1>6. CASE Acknowledging(b)
  BY <1>2, <1>3, <1>4, <1>6 DEF Wired, Acknowledging, Untouched
<1>7. CASE Acknowledged(b)
  BY <1>2, <1>3, <1>4, <1>7 DEF Wired, Acknowledged, Untouched
<1>8. CASE Serving(b)
  <2>1. Serving(b)'
    BY <1>1, <1>4, <1>8 DEF Serving, Untouched
  <2> QED BY <1>2, <1>3, <2>1 DEF Wired, Untouched
<1>9. CASE Perished(b)
  BY <1>2, <1>3, <1>9 DEF Wired, Perished, Untouched
<1> QED BY <1>5, <1>6, <1>7, <1>8, <1>9 DEF Wired

LEMMA SleepsOn ==
  ASSUME NEW b \in Backends, batch' = batch, running' \in {running, Nobody}
  PROVE  Asleep(b) => Asleep(b)'
  BY Apart DEF Asleep, InBatch

LEMMA PeersStep ==
  ASSUME PeersTyped, [Next]_vars
  PROVE  PeersTyped' /\ UNCHANGED target
<1>1. CASE \E b \in Backends : BackendMoves(b)
  BY <1>1 DEF BackendMoves, Connect, Register, Receive, Reply, Heartbeat, SayGoodbye, Leave, PeersTyped
<1>2. CASE \E b \in Backends : Unregister(b)
  BY <1>2 DEF Unregister, PeersTyped
<1>4. CASE \E b \in Backends : \E type : Die(b, type)
  BY <1>4 DEF Die, PeersTyped, backend
<1>3. CASE UNCHANGED << peer, beats, target >>
  BY <1>3 DEF PeersTyped
<1> QED BY <1>1, <1>2, <1>3, <1>4
        DEF Next, EventLoop, AcceptConnection, ProcessPendingCoroutines, EpollWait, Resume, Run,
            Handler, HandleFrame, HandleEndOfStream, HandlerWrite, AwaitFrame, ReadSome,
            Request, Route, RequestWrite, TakeFrame, RequestEndOfStream, Environment, Arrive,
            BackendMoves, backend, vars

(* What the running coroutine does, it does to its own connection.         *)
LEMMA RunElsewhere ==
  ASSUME Scheduling, StreamsTyped, PeersTyped, NEW c \in Coroutines,
         (c \in Backends /\ Handler(c)) \/ (c \in Requests /\ Request(c)),
         NEW d \in Backends, d # Wire(c)
  PROVE  Untouched(d)
<1> DEFINE w == Wire(c)
<1>1. w \in Backends /\ (c \in Backends => w = c) /\ (c \in Requests => w = target[c])
  BY WireTyped DEF Scheduling
<1> HIDE DEF w
<1>2. /\ batch' = batch /\ running' \in {running, Nobody}
      /\ \E at : pc' = [pc EXCEPT ![c] = at]
  BY DEF Handler, HandleFrame, HandleEndOfStream, HandlerWrite, AwaitFrame, ReadSome, Unregister, Die,
         Request, Route, RequestWrite, TakeFrame, RequestEndOfStream, Finish, End,
         Continue, Suspend, StartSend, WriteSome
<1> DEFINE Elsewhere ==
             /\ UNCHANGED beats
             /\ \A b \in Backends : b # w =>
                  /\ saved'[b] = saved[b] /\ input'[b] = input[b] /\ output'[b] = output[b]
                  /\ registered'[b] = registered[b] /\ peer'[b] = peer[b] /\ owed'[b] = owed[b]
             /\ \A x \in Coroutines : x # c => sending'[x] = sending[x] /\ buffer'[x] = buffer[x]
             /\ \A r \in Requests : r # c => answer'[r] = answer[r]
<1>3. ASSUME c \in Backends, Handler(c) PROVE Elsewhere
  <2>0. Elsewhere \/ HandleFrame(c) \/ HandlerWrite(c) \/ ReadSome(c) \/ HandleEndOfStream(c)
    BY <1>3 DEF Handler, AwaitFrame, backend
  <2>1. CASE HandleFrame(c)
    <3>1. \E left : buffer' = [buffer EXCEPT ![c] = left]
      BY <2>1 DEF HandleFrame
    <3>2. \A x \in Coroutines : x # c => buffer'[x] = buffer[x]
      BY <3>1 DEF StreamsTyped
    <3>3. UNCHANGED << beats, saved, answer >>
      BY <2>1 DEF HandleFrame, Unregister, Die, backend
    <3>4. \A b \in Backends : b # w => registered'[b] = registered[b]
      <4>1. registered' = registered \/ \E value : registered' = [registered EXCEPT ![c] = value]
        BY <2>1 DEF HandleFrame, Unregister, Die
      <4> QED BY <1>1, <1>3, <4>1 DEF Scheduling, SchedulerTyped
    <3>5. \A b \in Backends : b # w => /\ input'[b] = input[b] /\ output'[b] = output[b]
                                       /\ peer'[b] = peer[b] /\ owed'[b] = owed[b]
      <4>1. CASE Unregister(c)
        BY <1>1, <1>3, <4>1 DEF Unregister, StreamsTyped, PeersTyped
      <4>2. CASE UNCHANGED << input, output, backend >>
        BY <4>2 DEF backend
      <4> QED BY <2>1, <4>1, <4>2 DEF HandleFrame, Die
    <3>6. \A x \in Coroutines : x # c => sending'[x] = sending[x]
      <4>1. sending' = sending \/ \E frame : sending' = [sending EXCEPT ![c] = Pieces(frame)]
        BY <2>1 DEF HandleFrame, Unregister, Die, StartSend
      <4> QED BY <4>1 DEF StreamsTyped
    <3> QED BY <3>2, <3>3, <3>4, <3>5, <3>6
  <2>2. CASE HandlerWrite(c)
    BY <1>1, <1>3, <2>2 DEF HandlerWrite, WriteSome, StreamsTyped, Scheduling, SchedulerTyped, backend, w
  <2>3. CASE ReadSome(c)
    BY <1>1, <1>3, <2>3 DEF ReadSome, StreamsTyped, Scheduling, SchedulerTyped, backend, w
  <2>4. CASE HandleEndOfStream(c)
    BY <1>1, <1>3, <2>4, SMTT(40) DEF HandleEndOfStream, Unregister, StreamsTyped, PeersTyped, Scheduling, SchedulerTyped
  <2> QED BY <2>0, <2>1, <2>2, <2>3, <2>4
<1>4. ASSUME c \in Requests, Request(c) PROVE Elsewhere
  <2>0. Elsewhere \/ Route(c) \/ RequestWrite(c) \/ ReadSome(c) \/ TakeFrame(c) \/ RequestEndOfStream(c)
    BY <1>4 DEF Request, AwaitFrame, backend
  <2>1. CASE Route(c)
    BY <1>1, <1>4, <2>1 DEF Route, StartSend, Finish, StreamsTyped, Scheduling, SchedulerTyped, backend
  <2>2. CASE RequestWrite(c)
    <3>1. CASE \E n \in 1..Len(sending[c]) :
                  /\ WriteSome(c, n)
                  /\ buffer' = IF n = Len(sending[c])
                               THEN [buffer EXCEPT ![c] = saved[target[c]]]
                               ELSE buffer
                  /\ UNCHANGED answer
      BY <1>1, <1>4, <2>2, <3>1 DEF RequestWrite, WriteSome, StreamsTyped, Scheduling, SchedulerTyped, backend, w
    <3>2. CASE /\ Finish(c, Failed("500"))
               /\ sending' = [sending EXCEPT ![c] = << >>]
               /\ UNCHANGED << buffer, output >>
      BY <1>4, <2>2, <3>2 DEF RequestWrite, Finish, StreamsTyped, Scheduling, SchedulerTyped, backend
    <3> QED BY <2>2, <3>1, <3>2 DEF RequestWrite
  <2>3. CASE ReadSome(c)
    BY <1>1, <1>4, <2>3 DEF ReadSome, StreamsTyped, Scheduling, SchedulerTyped, backend, w
  <2>4. CASE TakeFrame(c)
    BY <1>1, <1>4, <2>4 DEF TakeFrame, Finish, StreamsTyped, Scheduling, SchedulerTyped, backend
  <2>5. CASE RequestEndOfStream(c)
    BY <1>1, <1>4, <2>5 DEF RequestEndOfStream, Finish, StreamsTyped, Scheduling, SchedulerTyped, backend
  <2> QED BY <2>0, <2>1, <2>2, <2>3, <2>4, <2>5
<1>5. Serving(d) => Asleep(d)'
  BY <1>2, SleepsOn DEF Serving
<1>6. d # c /\ d # w /\ \A r \in Requests : target[r] = d => r # c
  BY <1>1, Apart DEF w
<1>7. Elsewhere
  BY <1>3, <1>4
<1> QED BY <1>1, <1>2, <1>5, <1>6, <1>7, Apart DEF Untouched, Scheduling, SchedulerTyped

LEMMA BackendElsewhere ==
  ASSUME StreamsTyped, PeersTyped, NEW b \in Backends, BackendMoves(b), NEW d \in Backends, d # b
  PROVE  Untouched(d)
<1>1. UNCHANGED gateway
  BY BackendLeaves
<1>2. Serving(d) => Asleep(d)'
  BY <1>1 DEF Serving, Asleep, InBatch, gateway
<1>3. /\ beats'[d] = beats[d] /\ peer'[d] = peer[d] /\ input'[d] = input[d]
      /\ output'[d] = output[d] /\ owed'[d] = owed[d]
  BY DEF BackendMoves, Connect, Register, Receive, Reply, Heartbeat, SayGoodbye, Leave, Say,
         StreamsTyped, PeersTyped
<1> QED BY <1>1, <1>2, <1>3 DEF Untouched, gateway

(* A request that exchanges nothing does not depend on the connection.     *)
LEMMA TurnKept ==
  ASSUME NEW r \in Requests, Turn(r), ~Sending(r), ~Reading(r),
         sending'[r] = sending[r], buffer'[r] = buffer[r], answer'[r] = answer[r],
         pc'[r] = pc[r]
  PROVE  Turn(r)'
  BY DEF Turn, Ended, Sending, Reading

(* The backend makes its connection and registers.                         *)
LEMMA JoiningWired ==
  ASSUME StreamsTyped, PeersTyped, NEW b \in Backends, Wired(b), Connect(b) \/ Register(b)
  PROVE  Wired(b)'
<1>1. UNCHANGED gateway /\ UNCHANGED << target, output, owed, beats >>
  BY DEF Connect, Register
<1>2. Joining(b)
  BY DEF Connect, Register, Wired, Acknowledging, Acknowledged, Serving, Joined, Perished
<1>3. ASSUME NEW r \in Requests, target[r] = b PROVE Turn(r)' /\ Free(r)'
  <2>1. Turn(r) /\ Free(r)
    BY <1>2, <1>3 DEF Wired, Joining, Idle
  <2>2. ~Sending(r) /\ ~Reading(r)
    BY <2>1 DEF Free, Sending, Reading
  <2> QED BY <1>1, <2>1, <2>2, TurnKept DEF gateway, Free
<1>4. Alone(b)' /\ Idle(b)'
  BY <1>1, <1>3 DEF Alone, Idle
<1>5. Joining(b)'
  <2>1. CASE Connect(b)
    BY <1>1, <1>2, <1>4, <2>1 DEF Connect, Joining, PeersTyped, gateway
  <2>2. CASE Register(b)
    <3>1. peer[b] = "connected" /\ peer'[b] = "serving" /\ input'[b] = input[b] \o Registration
      BY <2>2 DEF Register, Say, Registration, PeersTyped, StreamsTyped
    <3>2. buffer'[b] = << >> /\ input[b] = << >>
      BY <1>1, <1>2, <3>1 DEF Joining, gateway
    <3>3. << >> \o (<< >> \o Registration) = Registration
      BY FramesTyped, ConcatEmptySeq
    <3>4. buffer'[b] \o input'[b] = Registration
      BY <3>1, <3>2, <3>3
    <3> QED BY <1>1, <1>2, <1>4, <3>1, <3>4 DEF Joining, gateway
  <2> QED BY <2>1, <2>2
<1> QED BY <1>1, <1>3, <1>4, <1>5 DEF Wired, gateway

LEMMA FramesRead ==
  /\ \A frame : Rest(Pieces(frame)) = << >>
  /\ \A frame : DeserializeFrame(Pieces(frame)).frame = frame
<1>1. \A frame : Rest(Pieces(frame)) = << >>
  BY TwoPieces, Zenon
<1>2. \A frame : DeserializeFrame(Pieces(frame)).frame = frame
  BY WholeFrame, Zenon
<1> QED BY <1>1, <1>2, Zenon

LEMMA AcknowledgementRead ==
  /\ Rest(Acknowledgement) = << >>
  /\ DeserializeFrame(Acknowledgement).frame.type = "Response"
  BY FramesRead DEF Acknowledgement, Frame

LEMMA InquiryRead ==
  ASSUME NEW r
  PROVE  /\ Rest(Inquiry(r)) = << >>
         /\ DeserializeFrame(Inquiry(r)).frame.type = "Request"
         /\ DeserializeFrame(Inquiry(r)).frame.request = r
         /\ DeserializeFrame(Inquiry(r)).intact
<1>1. Rest(Inquiry(r)) = << >>
  BY FramesRead DEF Inquiry
<1>2. /\ DeserializeFrame(Inquiry(r)).frame.type = "Request"
      /\ DeserializeFrame(Inquiry(r)).frame.request = r
  BY FramesRead DEF Inquiry, Frame
<1>3. DeserializeFrame(Inquiry(r)).intact
  BY WholeFrame, Zenon DEF Inquiry
<1> QED BY <1>1, <1>2, <1>3, Zenon

LEMMA ResponseType ==
  Frame("Response", Nobody).type = "Response"
  BY DEF Frame

LEMMA NothingComplete ==
  ~HasCompleteFrame(<< >>)
  BY DEF HasCompleteFrame

(* The backend reads what the gateway has sent.                            *)
LEMMA ReceiveWired ==
  ASSUME StreamsTyped, NEW b \in Backends, Wired(b), Receive(b)
  PROVE  Wired(b)'
<1> DEFINE got == DeserializeFrame(output[b])
<1>1. /\ UNCHANGED gateway /\ UNCHANGED << target, input, peer, beats >>
      /\ HasCompleteFrame(output[b])
      /\ output'[b] = Rest(output[b])
      /\ got.frame.type = "Request" /\ got.intact => owed'[b] = owed[b] \cup {got.frame.request}
      /\ got.frame.type # "Request" => owed'[b] = owed[b]
  BY DEF Receive, StreamsTyped
<1> HIDE DEF got
<1>2. output[b] \in Seq(ToBackend) /\ \A c \in Coroutines : sending[c] \in Seq(ToBackend)
  BY DEF StreamsTyped
<1>3. output[b] # << >>
  BY <1>1, NothingComplete
<1>4. ASSUME NEW r \in Requests, target[r] = b, ~Sending(r), ~Reading(r) PROVE Turn(r)'
  BY <1>1, <1>4, TurnKept DEF Wired, gateway
<1>5. Alone(b)' /\ (Idle(b) => Idle(b)')
  BY <1>1 DEF Wired, Alone, Idle, Free, gateway
<1>6. Quiet(b) => Quiet(b)'
  <2> HAVE Quiet(b)
  <2>1. output[b] = Acknowledgement
    BY <1>3 DEF Quiet
  <2>2. got.frame.type = "Response" /\ Rest(output[b]) = << >>
    BY <2>1, AcknowledgementRead DEF got
  <2> QED BY <1>1, <2>2 DEF Quiet
<1>7. CASE Joining(b)
  BY <1>3, <1>7 DEF Joining
<1>8. CASE Acknowledging(b)
  <2>1. output[b] \o sending[b] = Pieces(Frame("Response", Nobody)) /\ sending[b] # << >>
    BY <1>8 DEF Acknowledging, Acknowledgement
  <2> QED BY <1>1, <1>2, <2>1, PartsOfFrame, Apart
<1>9. CASE Acknowledged(b)
  <2>1. Acknowledged(b)'
    BY <1>1, <1>5, <1>6, <1>9 DEF Acknowledged, Joined, gateway
  <2>2. \A r \in Requests : target[r] = b => Turn(r)'
    BY <1>4, <1>9 DEF Acknowledged, Idle, Free, Sending, Reading
  <2> QED BY <1>1, <1>5, <2>1, <2>2 DEF Wired, gateway
<1>10. CASE Serving(b)
  <2>1. CASE \A r \in Requests : target[r] = b => ~Sending(r) /\ ~Reading(r)
    <3>1. Serving(b)'
      BY <1>1, <1>6, <1>10, <2>1 DEF Serving, Joined, Asleep, InBatch, gateway
    <3> QED BY <1>1, <1>4, <1>5, <2>1, <3>1 DEF Wired, gateway
  <2>2. CASE \E r \in Requests : target[r] = b /\ (Sending(r) \/ Reading(r))
    <3>1. PICK r \in Requests : target[r] = b /\ (Sending(r) \/ Reading(r))
      BY <2>2
    <3>2. Serving(b)'
      BY <1>1, <1>10, <3>1 DEF Serving, Joined, Asleep, InBatch, Sending, Reading, gateway
    <3>3. ASSUME NEW q \in Requests, target[q] = b, q # r PROVE Turn(q)'
      <4>1. ~Sending(q) /\ ~Reading(q)
        BY <3>1, <3>3 DEF Wired, Alone, Free, Sending, Reading
      <4> QED BY <1>4, <3>3, <4>1
    <3>4. Turn(r) /\ output[b] \o sending[r] \in {Acknowledgement \o Inquiry(r), Inquiry(r)} /\ Asked(r)
      <4>1. Turn(r) /\ (Asked(r) \/ Pending(r) \/ Replied(r))
        BY <3>1 DEF Wired, Turn
      <4> QED BY <1>3, <3>1, <4>1 DEF Asked, Pending, Replied
    <3>5. sending[r] \in Seq(ToBackend) /\ Acknowledgement \in Seq(ToBackend) /\ Inquiry(r) \in Seq(ToBackend)
      BY <1>2, FramesTyped, Apart
    <3>6. CASE output[b] \o sending[r] = Acknowledgement \o Inquiry(r)
      <4>1. /\ Rest(output[b]) \o sending[r] = Inquiry(r)
            /\ got.frame = Frame("Response", Nobody)
        <5>1. /\ output[b] \o sending[r] = Pieces(Frame("Response", Nobody)) \o Pieces(Frame("Request", r))
              /\ Pieces(Frame("Response", Nobody)) \in Seq(ToBackend)
              /\ Pieces(Frame("Request", r)) \in Seq(ToBackend)
              /\ output[b] \in Seq(ToBackend) /\ sending[r] \in Seq(ToBackend)
              /\ HasCompleteFrame(output[b])
          BY <1>1, <1>2, <3>5, <3>6 DEF Acknowledgement, Inquiry
        <5>2. /\ Rest(output[b]) \o sending[r] = Pieces(Frame("Request", r))
              /\ DeserializeFrame(output[b]).frame = Frame("Response", Nobody)
          BY <5>1, PartsOfTwoFrames, ZenonT(40)
        <5> QED BY <5>2, Zenon DEF Inquiry, got
      <4>2. got.frame.type = "Response"
        BY <4>1, ResponseType
      <4>3. Asked(r)'
        BY <1>1, <3>1, <3>4, <4>1, <4>2 DEF Asked, gateway
      <4>4. Turn(r)'
        BY <1>1, <3>1, <3>4, <4>3 DEF Turn, Sending, Reading, gateway
      <4> QED BY <1>1, <1>5, <3>2, <3>3, <4>4 DEF Wired, gateway
    <3>7. CASE output[b] \o sending[r] = Inquiry(r)
      <4>1. output[b] = Inquiry(r) /\ sending[r] = << >>
        BY <1>1, <1>2, <3>5, <3>7, PartsOfFrame, Zenon DEF Inquiry
      <4>2. Rest(output[b]) = << >> /\ got.frame.type = "Request" /\ got.frame.request = r
        BY <4>1, InquiryRead DEF got
      <4>6. got.intact
        BY <4>1, InquiryRead, Zenon DEF got
      <4>3. owed'[b] = {r} /\ output'[b] = << >>
        BY <1>1, <3>1, <3>4, <4>2, <4>6 DEF Asked
      <4>4. Pending(r)'
        BY <1>1, <3>1, <3>4, <4>3 DEF Asked, Pending, gateway
      <4>5. Turn(r)'
        BY <1>1, <3>1, <3>4, <4>1, <4>4 DEF Turn, Sending, Reading, gateway
      <4> QED BY <1>1, <1>5, <3>2, <3>3, <4>5 DEF Wired, gateway
    <3> QED BY <3>4, <3>6, <3>7
  <2> QED BY <2>1, <2>2
<1> QED BY <1>3, <1>7, <1>8, <1>9, <1>10 DEF Wired, Perished

(* The backend replies to the one request it has.                          *)
LEMMA ReplyWired ==
  ASSUME StreamsTyped, NEW b \in Backends, Wired(b), Reply(b)
  PROVE  Wired(b)'
<1>1. PICK r \in owed[b], type \in ReplyTypes :
        /\ input'[b] = input[b] \o Result(type, r)
        /\ owed'[b] = owed[b] \ {r}
  BY DEF Reply, Say, StreamsTyped, Result
<1>2. UNCHANGED gateway /\ UNCHANGED << target, output, peer, beats >>
  BY DEF Reply
<1>3. Serving(b)
  BY <1>1 DEF Wired, Joining, Acknowledging, Acknowledged, Perished, Quiet
<1>4. PICK q \in Requests : target[q] = b /\ (Sending(q) \/ Reading(q))
  BY <1>1, <1>3 DEF Serving, Quiet
<1>5. Turn(q) /\ ~Asked(q) /\ ~Replied(q)
  BY <1>1, <1>4 DEF Wired, Asked, Replied
<1>6. Pending(q) /\ Reading(q) /\ sending[q] = << >>
  BY <1>4, <1>5 DEF Turn, Sending, Reading
<1>7. q = r /\ owed'[b] = {} /\ output'[b] = << >> /\ buffer'[q] = << >> /\ input[b] = << >>
  BY <1>1, <1>2, <1>4, <1>6 DEF Pending, gateway
<1>8. << >> \o (<< >> \o Result(type, q)) = Result(type, q)
  BY FramesTyped, ConcatEmptySeq
<1>9. Replied(q)'
  BY <1>1, <1>2, <1>4, <1>7, <1>8 DEF Replied
<1>10. Turn(q)'
  BY <1>2, <1>4, <1>5, <1>6, <1>9 DEF Turn, Sending, Reading, gateway
<1>11. ASSUME NEW p \in Requests, target[p] = b, p # q PROVE Turn(p)'
  <2>1. ~Sending(p) /\ ~Reading(p) /\ Turn(p)
    BY <1>4, <1>11 DEF Wired, Alone, Free, Sending, Reading
  <2> QED BY <1>2, <2>1, TurnKept DEF gateway
<1>12. Serving(b)'
  BY <1>2, <1>3, <1>4 DEF Serving, Joined, Asleep, InBatch, Sending, Reading, gateway
<1>13. Alone(b)'
  BY <1>2 DEF Wired, Alone, Free, gateway
<1> QED BY <1>2, <1>10, <1>11, <1>12, <1>13 DEF Wired, gateway

LEMMA BackendWired ==
  ASSUME OneAtATime, StreamsTyped, PeersTyped, NEW b \in Backends, Wired(b), BackendMoves(b)
  PROVE  Wired(b)'
<1>1. ~Heartbeat(b) /\ ~SayGoodbye(b) /\ ~Leave(b)
  BY DEF OneAtATime, Heartbeat, SayGoodbye, Leave, Wired
<1> QED BY <1>1, JoiningWired, ReceiveWired, ReplyWired DEF BackendMoves

(* The accept loop takes the connection and starts its handler.            *)
LEMMA AcceptWired ==
  ASSUME Scheduling, NEW b \in Backends, Wired(b), AcceptConnection(b) \/ ProcessPendingCoroutines(b)
  PROVE  Wired(b)'
<1>1. UNCHANGED << saved, beats, target, registered, sending, buffer, peer, input, output, owed, answer >>
  BY DEF AcceptConnection, ProcessPendingCoroutines, backend
<1>2. /\ pc[b] \in {"none", "scheduled"} /\ pc'[b] \in {"scheduled", "frame"}
      /\ \A r \in Requests : pc'[r] = pc[r]
      /\ pc[b] = "none" => peer[b] # "closed"
  BY Apart DEF AcceptConnection, ProcessPendingCoroutines, Scheduling, SchedulerTyped
<1>3. Joining(b)
  BY <1>2 DEF Wired, Acknowledging, Acknowledged, Serving, Perished
<1>4. ASSUME NEW r \in Requests, target[r] = b PROVE Turn(r)' /\ Free(r)'
  <2>1. Turn(r) /\ Free(r) /\ ~Sending(r) /\ ~Reading(r)
    BY <1>3, <1>4 DEF Wired, Joining, Idle, Free, Sending, Reading
  <2> QED BY <1>1, <1>2, <2>1, TurnKept DEF Free
<1>5. Alone(b)' /\ Idle(b)'
  BY <1>1, <1>4 DEF Alone, Idle
<1>6. Joining(b)'
  BY <1>1, <1>2, <1>3, <1>5 DEF Joining
<1> QED BY <1>1, <1>4, <1>5, <1>6 DEF Wired

(* A request arrives where no other is under way.                          *)
LEMMA ArriveWired ==
  ASSUME OneAtATime, Scheduling, NEW r \in Requests, Arrive(r), NEW b \in Backends, Wired(b), target[r] = b
  PROVE  Wired(b)'
<1>1. /\ UNCHANGED << batch, running, saved, beats, target, registered, sending, buffer, peer, input,
                      output, owed, answer >>
      /\ registered[b] /\ pc[b] = "read" /\ pc[r] = "idle" /\ Cardinality(InFlight(b)) < 1
      /\ pc' = [pc EXCEPT ![r] = "arrived"]
  BY DEF Arrive, OneAtATime, backend
<1>2. pc'[b] = pc[b] /\ pc'[r] = "arrived" /\ \A q \in Requests : q # r => pc'[q] = pc[q]
  BY <1>1, Apart DEF Scheduling, SchedulerTyped
<1>3. Serving(b)
  BY <1>1 DEF Wired, Joining, Acknowledging, Acknowledged, Perished
<1>4. InFlight(b) = {}
  <2>1. InFlight(b) \subseteq Active
    BY DEF InFlight, Active
  <2>2. IsFiniteSet(InFlight(b))
    BY <2>1, FS_Subset DEF Scheduling
  <2>3. Cardinality(InFlight(b)) = 0
    BY <1>1, <2>2, FS_CardinalityType
  <2> QED BY <2>2, <2>3, FS_EmptySet
<1>5. \A q \in Requests : target[q] = b => Free(q)
  BY <1>4 DEF InFlight, Free
<1>6. ASSUME NEW q \in Requests, target[q] = b PROVE Turn(q)'
  <2>1. Turn(q) /\ ~Sending(q) /\ ~Reading(q)
    BY <1>5, <1>6 DEF Wired, Free, Sending, Reading
  <2>2. CASE q # r
    BY <1>1, <1>2, <2>1, <2>2, TurnKept
  <2>3. CASE q = r
    BY <1>1, <1>2, <2>1, <2>3 DEF Turn, Sending, Reading
  <2> QED BY <2>2, <2>3
<1>7. Alone(b)'
  BY <1>1, <1>2, <1>5 DEF Alone, Free
<1>8. Serving(b)'
  BY <1>1, <1>2, <1>3, <1>5 DEF Serving, Joined, Asleep, InBatch, Quiet, Free, Sending, Reading
<1> QED BY <1>1, <1>6, <1>7, <1>8 DEF Wired

(* Reads and writes, however partial, keep what travels.                   *)
LEMMA ReadKeeps ==
  ASSUME StreamsTyped, NEW c \in Coroutines, NEW w \in Backends, Wire(c) = w, ReadSome(c)
  PROVE  /\ buffer'[c] \o input'[w] = buffer[c] \o input[w]
         /\ buffer[c] = << >> /\ input[w] = << >> => buffer'[c] = << >> /\ input'[w] = << >>
<1>1. buffer[c] \in Seq(FromBackend) /\ input[w] \in Seq(FromBackend)
  BY DEF StreamsTyped
<1>2. PICK n \in 0..Len(input[w]) :
        /\ buffer'[c] = buffer[c] \o SubSeq(input[w], 1, n)
        /\ input'[w] = DropFirst(input[w], n)
  BY DEF ReadSome, StreamsTyped
<1>3. buffer'[c] \o input'[w] = buffer[c] \o input[w]
  BY <1>1, <1>2, WriteKeepsStream, ZenonT(40)
<1>4. ASSUME buffer[c] = << >>, input[w] = << >> PROVE buffer'[c] = << >> /\ input'[w] = << >>
  <2>1. << >> \o << >> = << >>
    BY <1>1, <1>4, ConcatEmptySeq
  <2>2. buffer'[c] \o input'[w] = << >>
    BY <1>3, <1>4, <2>1
  <2>3. buffer'[c] \in Seq(FromBackend) /\ input'[w] \in Seq(FromBackend)
    <3>1. SubSeq(input[w], 1, n) \in Seq(FromBackend) /\ DropFirst(input[w], n) \in Seq(FromBackend)
      BY <1>1, SplitTyped
    <3> QED BY <1>1, <1>2, <3>1
  <2> QED BY <2>2, <2>3, ConcatEqualIffEmpty
<1> QED BY <1>3, <1>4

LEMMA WriteKeeps ==
  ASSUME StreamsTyped, NEW c \in Coroutines, NEW w \in Backends, Wire(c) = w,
         NEW n \in 1..Len(sending[c]), WriteSome(c, n)
  PROVE  /\ output'[w] \o sending'[c] = output[w] \o sending[c]
         /\ sending'[c] = << >> <=> n = Len(sending[c])
         /\ sending'[c] = << >> => output'[w] = output[w] \o sending[c]
<1>1. output[w] \in Seq(ToBackend) /\ sending[c] \in Seq(ToBackend) /\ n \in 0..Len(sending[c])
  BY DEF StreamsTyped
<1>2. /\ output'[w] = output[w] \o SubSeq(sending[c], 1, n)
      /\ sending'[c] = DropFirst(sending[c], n)
  BY DEF WriteSome, StreamsTyped
<1>3. /\ output'[w] \o sending'[c] = output[w] \o sending[c]
      /\ sending'[c] = << >> <=> n = Len(sending[c])
  BY <1>1, <1>2, WriteKeepsStream, ZenonT(40)
<1>4. output'[w] \in Seq(ToBackend)
  <2>1. SubSeq(sending[c], 1, n) \in Seq(ToBackend)
    BY <1>1, SplitTyped
  <2> QED BY <1>1, <1>2, <2>1
<1>5. output'[w] \o << >> = output'[w]
  BY <1>4, ConcatEmptySeq
<1> QED BY <1>3, <1>5

(* What the handler does.                                                  *)
LEMMA RegistrationHandled ==
  ASSUME Scheduling, StreamsTyped, NEW b \in Backends, Wired(b), HandleFrame(b)
  PROVE  Wired(b)'
<1> b \in Coroutines
  BY Apart
<1> DEFINE got == DeserializeFrame(buffer[b])
<1>1. pc[b] = "frame" /\ HasCompleteFrame(buffer[b])
  BY DEF HandleFrame
<1>2. buffer[b] # << >>
  BY <1>1, NothingComplete
<1>3. Joining(b) /\ peer[b] = "serving" /\ buffer[b] \o input[b] = Registration
  BY <1>1, <1>2 DEF Wired, Acknowledging, Acknowledged, Serving, Perished, Joined, Joining
<1>4. buffer[b] \in Seq(FromBackend) /\ input[b] \in Seq(FromBackend)
  BY DEF StreamsTyped
<1>5. buffer[b] = Registration /\ input[b] = << >>
  BY <1>1, <1>3, <1>4, PartsOfFrame, Zenon DEF Registration
<1>6. Rest(buffer[b]) = << >> /\ got.frame.type = "Registration" /\ got.intact
  <2>1. Rest(buffer[b]) = << >> /\ got.frame.type = "Registration"
    BY <1>5, FramesRead DEF Registration, Frame
  <2>2. got.intact
    BY <1>5, WholeFrame, Zenon DEF Registration
  <2> QED BY <2>1, <2>2
<1> HIDE DEF got
<1>7. ASSUME NEW r \in Requests, target[r] = b, pc'[r] = pc[r],
             UNCHANGED << sending[r], buffer[r], answer[r] >>
      PROVE  Turn(r)' /\ Free(r)'
  <2>1. Turn(r) /\ Free(r) /\ ~Sending(r) /\ ~Reading(r)
    BY <1>3, <1>7 DEF Wired, Joining, Idle, Free, Sending, Reading
  <2> QED BY <1>7, <2>1, TurnKept DEF Free
<1>8. CASE /\ buffer' = [buffer EXCEPT ![b] = Rest(@)]
           /\ registered' = [registered EXCEPT ![b] = TRUE]
           /\ StartSend(b, Frame("Response", Nobody))
           /\ UNCHANGED << target, saved, answer, input, output, backend >>
  <2>1. /\ sending'[b] = Acknowledgement /\ pc'[b] = "write" /\ registered'[b] /\ buffer'[b] = << >>
        /\ \A r \in Requests : sending'[r] = sending[r] /\ buffer'[r] = buffer[r] /\ pc'[r] = pc[r]
    BY <1>6, <1>8, Apart DEF StartSend, Suspend, Acknowledgement, StreamsTyped, Scheduling, SchedulerTyped
  <2>2. Acknowledgement # << >> /\ << >> \o Acknowledgement = Acknowledgement
    <3>1. Acknowledgement # << >>
      BY NotEmpty, Zenon DEF Acknowledgement
    <3> QED BY <3>1, FramesTyped, ConcatEmptySeq
  <2>3. \A r \in Requests : target[r] = b => Turn(r)' /\ Free(r)'
    BY <1>7, <1>8, <2>1
  <2>4. Alone(b)' /\ Idle(b)'
    BY <1>8, <2>3 DEF Alone, Idle
  <2>5. Acknowledging(b)'
    BY <1>3, <1>5, <1>8, <2>1, <2>2, <2>4 DEF Acknowledging, Joined, Joining, backend
  <2> QED BY <1>8, <2>3, <2>4, <2>5 DEF Wired, backend
<1>9. CASE /\ buffer' = [buffer EXCEPT ![b] = << >>]
           /\ \E type : Die(b, type)
  <2>1. /\ pc' = [pc EXCEPT ![b] = "leaked"]
        /\ UNCHANGED << target, sending, saved, answer, input, output, backend >>
    BY <1>9 DEF Die, End
  <2>2. /\ pc'[b] = "leaked" /\ buffer'[b] = << >>
        /\ \A r \in Requests : buffer'[r] = buffer[r] /\ pc'[r] = pc[r]
    BY <1>9, <2>1, Apart DEF StreamsTyped, Scheduling, SchedulerTyped
  <2>3. \A r \in Requests : target[r] = b => Turn(r)' /\ Free(r)'
    BY <1>7, <2>1, <2>2
  <2>4. Alone(b)' /\ Idle(b)'
    BY <2>1, <2>3 DEF Alone, Idle
  <2>5. Perished(b)'
    BY <1>3, <1>5, <2>1, <2>2, <2>4 DEF Perished, Joining, backend
  <2> QED BY <2>1, <2>3, <2>4, <2>5 DEF Wired, backend
<1>10. HandleFrame(b)
       => \/ /\ buffer' = [buffer EXCEPT ![b] = Rest(@)]
             /\ registered' = [registered EXCEPT ![b] = TRUE]
             /\ StartSend(b, Frame("Response", Nobody))
             /\ UNCHANGED << target, saved, answer, input, output, backend >>
          \/ /\ buffer' = [buffer EXCEPT ![b] = << >>]
             /\ \E type : Die(b, type)
          \/ ~got.intact
  BY <1>6 DEF HandleFrame, got
<1> QED BY <1>6, <1>8, <1>9, <1>10

LEMMA AcknowledgementWritten ==
  ASSUME Scheduling, StreamsTyped, NEW b \in Backends, Wired(b), HandlerWrite(b)
  PROVE  Wired(b)'
<1> b \in Coroutines /\ Wire(b) = b
  BY Apart DEF Wire
<1>1. Acknowledging(b)
  BY DEF HandlerWrite, Wired, Joining, Acknowledged, Serving, Perished
<1>2. PICK n \in 1..Len(sending[b]) : WriteSome(b, n)
  BY <1>1 DEF HandlerWrite, Acknowledging, Joined
<1>3. /\ output'[b] \o sending'[b] = Acknowledgement
      /\ sending'[b] = << >> <=> n = Len(sending[b])
      /\ sending'[b] = << >> => output'[b] = Acknowledgement
  BY <1>1, <1>2, WriteKeeps DEF Acknowledging
<1>4. UNCHANGED << target, buffer, saved, answer, registered, input, peer, owed, beats >>
  BY DEF HandlerWrite, backend
<1>5. /\ \A r \in Requests : sending'[r] = sending[r] /\ pc'[r] = pc[r]
      /\ n < Len(sending[b]) => pc'[b] = "write"
      /\ n >= Len(sending[b]) => pc'[b] = "frame"
  BY <1>2, Apart, SMTT(40) DEF WriteSome, Suspend, Continue, StreamsTyped, Scheduling, SchedulerTyped
<1>6. sending[b] \in Seq(ToBackend)
  BY DEF StreamsTyped
<1>7. IF sending'[b] = << >> THEN pc'[b] = "frame" ELSE pc'[b] = "write"
  BY <1>3, <1>5, <1>6
<1>8. ASSUME NEW r \in Requests, target[r] = b PROVE Turn(r)' /\ Free(r)'
  <2>1. Turn(r) /\ Free(r) /\ ~Sending(r) /\ ~Reading(r)
    BY <1>1, <1>8 DEF Wired, Acknowledging, Idle, Free, Sending, Reading
  <2> QED BY <1>4, <1>5, <2>1, TurnKept DEF Free
<1>9. Alone(b)' /\ Idle(b)'
  BY <1>4, <1>8 DEF Alone, Idle
<1>10. Acknowledging(b)' \/ Acknowledged(b)'
  BY <1>1, <1>3, <1>4, <1>7, <1>9 DEF Acknowledging, Acknowledged, Joined, Quiet
<1> QED BY <1>4, <1>8, <1>9, <1>10 DEF Wired

LEMMA HandlerWaits ==
  ASSUME Scheduling, NEW b \in Backends, running = b, Wired(b), AwaitFrame(b)
  PROVE  Wired(b)'
<1>1. /\ UNCHANGED << batch, target, sending, buffer, saved, answer, registered, input, output, peer, owed, beats >>
      /\ running' = Nobody /\ pc[b] = "frame" /\ pc'[b] = "read" /\ \A r \in Requests : pc'[r] = pc[r]
  BY Apart DEF AwaitFrame, Suspend, backend, Scheduling, SchedulerTyped
<1>2. Asleep(b)'
  BY <1>1, Apart DEF Asleep, InBatch, Scheduling, BatchSound
<1>3. Joining(b) \/ Acknowledged(b)
  BY <1>1 DEF Wired, Acknowledging, Serving, Perished
<1>4. ASSUME NEW r \in Requests, target[r] = b PROVE Turn(r)' /\ Free(r)'
  <2>1. Turn(r) /\ Free(r) /\ ~Sending(r) /\ ~Reading(r)
    BY <1>3, <1>4 DEF Wired, Joining, Acknowledged, Idle, Free, Sending, Reading
  <2> QED BY <1>1, <2>1, TurnKept DEF Free
<1>5. Alone(b)' /\ Idle(b)'
  BY <1>1, <1>4 DEF Alone, Idle
<1>6. Joining(b)' \/ Serving(b)'
  BY <1>1, <1>2, <1>3, <1>5 DEF Joining, Acknowledged, Serving, Joined, Quiet
<1> QED BY <1>1, <1>4, <1>5, <1>6 DEF Wired

LEMMA HandlerReads ==
  ASSUME Scheduling, StreamsTyped, NEW b \in Backends, running = b, Wired(b), ReadSome(b)
  PROVE  Wired(b)'
<1> b \in Coroutines /\ Wire(b) = b
  BY Apart DEF Wire
<1>1. /\ UNCHANGED << batch, running, target, sending, saved, answer, registered, output, peer, owed, beats >>
      /\ pc[b] = "read" /\ pc'[b] = "frame"
      /\ \A r \in Requests : pc'[r] = pc[r] /\ buffer'[r] = buffer[r]
  <2>1. /\ UNCHANGED << batch, running, target, sending, saved, answer, registered, output, peer, owed, beats >>
        /\ pc[b] = "read" /\ pc' = [pc EXCEPT ![b] = "frame"]
        /\ \E n : buffer' = [buffer EXCEPT ![b] = @ \o SubSeq(input[b], 1, n)]
    BY DEF ReadSome, Continue, backend
  <2> QED BY <2>1, Apart, SMTT(40) DEF Scheduling, SchedulerTyped, StreamsTyped
<1>2. Joining(b)
  BY <1>1 DEF Wired, Acknowledging, Acknowledged, Serving, Perished, Asleep
<1>3. /\ buffer'[b] \o input'[b] = buffer[b] \o input[b]
      /\ buffer[b] = << >> /\ input[b] = << >> => buffer'[b] = << >> /\ input'[b] = << >>
  BY ReadKeeps
<1>4. ASSUME NEW r \in Requests, target[r] = b PROVE Turn(r)' /\ Free(r)'
  <2>1. Turn(r) /\ Free(r) /\ ~Sending(r) /\ ~Reading(r)
    BY <1>2, <1>4 DEF Wired, Joining, Idle, Free, Sending, Reading
  <2> QED BY <1>1, <2>1, TurnKept DEF Free
<1>5. Alone(b)' /\ Idle(b)'
  BY <1>1, <1>4 DEF Alone, Idle
<1>6. Joining(b)'
  BY <1>1, <1>2, <1>3, <1>5 DEF Joining
<1> QED BY <1>1, <1>4, <1>5, <1>6 DEF Wired

LEMMA HandlerWired ==
  ASSUME Scheduling, StreamsTyped, NEW b \in Backends, running = b, Wired(b), Handler(b)
  PROVE  Wired(b)'
<1>1. ~HandleEndOfStream(b)
  BY DEF HandleEndOfStream, EndOfStream, Wire, Wired, Joining, Acknowledging, Acknowledged, Serving, Perished, Joined
<1> QED BY <1>1, RegistrationHandled, AcknowledgementWritten, HandlerWaits, HandlerReads DEF Handler

(* A request under way has its connection for itself, ...                  *)
LEMMA OneUnderWay ==
  ASSUME NEW b \in Backends, Wired(b), NEW r \in Requests, target[r] = b, ~Free(r)
  PROVE  /\ Serving(b) /\ Turn(r)
         /\ \A q \in Requests : target[q] = b /\ q # r => Turn(q) /\ Free(q) /\ ~Sending(q) /\ ~Reading(q)
         /\ ~Sending(r) /\ ~Reading(r) => Quiet(b)
<1>1. Serving(b)
  BY DEF Wired, Joining, Acknowledging, Acknowledged, Perished, Idle
<1>2. ASSUME NEW q \in Requests, target[q] = b, q # r
      PROVE  Turn(q) /\ Free(q) /\ ~Sending(q) /\ ~Reading(q)
  BY <1>2 DEF Wired, Alone, Free, Sending, Reading
<1> QED BY <1>1, <1>2 DEF Serving, Wired

(* ... and so what it does is what happens there.                          *)
LEMMA RequestMoves ==
  ASSUME NEW b \in Backends, Wired(b), NEW r \in Requests, target[r] = b, ~Free(r),
         UNCHANGED << target, batch, registered, peer, beats >>, running' \in {running, Nobody},
         saved'[b] = << >>,
         \A c \in Coroutines : c # r => pc'[c] = pc[c] /\ sending'[c] = sending[c] /\ buffer'[c] = buffer[c],
         \A q \in Requests : q # r => answer'[q] = answer[q],
         Turn(r)', ~Sending(r)' /\ ~Reading(r)' => Quiet(b)'
  PROVE  Wired(b)'
<1>1. pc'[b] = pc[b] /\ sending'[b] = sending[b] /\ buffer'[b] = buffer[b]
  BY Apart
<1>2. ASSUME NEW q \in Requests, target[q] = b, q # r PROVE Turn(q)' /\ Free(q)'
  <2>1. Turn(q) /\ Free(q) /\ ~Sending(q) /\ ~Reading(q)
    BY <1>2, OneUnderWay
  <2>2. pc'[q] = pc[q] /\ sending'[q] = sending[q] /\ buffer'[q] = buffer[q] /\ answer'[q] = answer[q]
    BY <1>2, Apart
  <2> QED BY <2>1, <2>2, TurnKept DEF Free
<1>3. Alone(b)'
  BY <1>2 DEF Alone
<1>4. Serving(b) /\ Asleep(b)'
  BY OneUnderWay, SleepsOn DEF Serving
<1>5. Serving(b)'
  BY <1>1, <1>4 DEF Serving, Joined
<1> QED BY <1>2, <1>3, <1>5 DEF Wired

LEMMA RouteWired ==
  ASSUME Scheduling, StreamsTyped, NEW b \in Backends, Wired(b), NEW r \in Requests, target[r] = b, Route(r)
  PROVE  Wired(b)'
<1> r \in Coroutines
  BY Apart
<1>1. pc[r] = "start" /\ ~Free(r) /\ ~Sending(r) /\ ~Reading(r)
  BY DEF Route, Free, Sending, Reading
<1>2. Serving(b) /\ Turn(r) /\ Quiet(b)
  BY <1>1, OneUnderWay
<1>3. UNCHANGED << target, buffer, saved, registered, input, output, backend >> /\ registered[b]
  BY <1>2 DEF Route, Serving, Joined
<1>4. CASE StartSend(r, Frame("Request", r)) /\ UNCHANGED answer /\ r \notin Oversized
  <2>1. /\ pc' = [pc EXCEPT ![r] = "write"] /\ sending' = [sending EXCEPT ![r] = Inquiry(r)]
        /\ UNCHANGED batch /\ running' = Nobody
    BY <1>4 DEF StartSend, Suspend, Inquiry
  <2>2. /\ pc'[r] = "write" /\ sending'[r] = Inquiry(r)
        /\ \A c \in Coroutines : c # r => pc'[c] = pc[c] /\ sending'[c] = sending[c]
    BY <2>1 DEF Scheduling, SchedulerTyped, StreamsTyped
  <2>3. Inquiry(r) # << >> /\ << >> \o Inquiry(r) = Inquiry(r)
    <3>1. Inquiry(r) # << >>
      BY NotEmpty, Zenon DEF Inquiry
    <3> QED BY <3>1, FramesTyped, ConcatEmptySeq
  <2>4. Asked(r)'
    BY <1>1, <1>2, <1>3, <2>2, <2>3 DEF Asked, Quiet, Turn, backend
  <2>5. Turn(r)' /\ Sending(r)'
    BY <1>1, <1>2, <1>3, <1>4, <2>2, <2>3, <2>4 DEF Turn, Sending, Reading
  <2> QED BY <1>1, <1>3, <1>4, <2>1, <2>2, <2>5, RequestMoves DEF Wired, backend
<1>5. CASE Finish(r, Failed("500")) /\ UNCHANGED sending /\ r \in Oversized
  <2>1. /\ pc'[r] = "done" /\ answer'[r] = Failed("500") /\ UNCHANGED batch /\ running' = Nobody
        /\ \A c \in Coroutines : c # r => pc'[c] = pc[c]
        /\ \A q \in Requests : q # r => answer'[q] = answer[q]
    BY <1>5 DEF Finish, End, Scheduling, SchedulerTyped, StreamsTyped
  <2>2. Turn(r)'
    BY <1>1, <1>2, <1>3, <1>5, <2>1 DEF Turn, Ended, Sending, Reading
  <2>3. Quiet(b)'
    BY <1>2, <1>3 DEF Quiet, backend
  <2> QED BY <1>1, <1>3, <1>5, <2>1, <2>2, <2>3, RequestMoves DEF Wired, backend
<1> QED BY <1>3, <1>4, <1>5 DEF Route

LEMMA InquiryWritten ==
  ASSUME Scheduling, StreamsTyped, NEW b \in Backends, Wired(b), NEW r \in Requests, target[r] = b,
         RequestWrite(r)
  PROVE  Wired(b)'
<1> r \in Coroutines /\ Wire(r) = b
  BY Apart DEF Wire
<1>1. pc[r] = "write" /\ ~Free(r) /\ Sending(r) /\ ~Reading(r)
  BY DEF RequestWrite, Free, Sending, Reading
<1>2. Serving(b) /\ Turn(r) /\ saved[b] = << >>
  BY <1>1, OneUnderWay DEF Wired
<1>3. PICK n \in 1..Len(sending[r]) :
        /\ WriteSome(r, n)
        /\ buffer' = IF n = Len(sending[r]) THEN [buffer EXCEPT ![r] = saved[target[r]]] ELSE buffer
        /\ UNCHANGED answer
  BY <1>2 DEF RequestWrite, Serving, Joined
<1>4. Asked(r) /\ buffer[r] = << >>
  BY <1>1, <1>2 DEF Turn, Asked
<1>5. /\ output'[b] \o sending'[r] = output[b] \o sending[r]
      /\ sending'[r] = << >> <=> n = Len(sending[r])
  BY <1>3, WriteKeeps
<1>6. UNCHANGED << target, saved, registered, input, backend, batch >> /\ running' \in {running, Nobody}
  BY <1>3 DEF RequestWrite, WriteSome, Suspend, Continue
<1>7. buffer'[r] = << >> /\ \A c \in Coroutines : c # r => buffer'[c] = buffer[c]
  BY <1>2, <1>3, <1>4 DEF StreamsTyped
<1>8. /\ \A c \in Coroutines : c # r => pc'[c] = pc[c] /\ sending'[c] = sending[c]
      /\ n < Len(sending[r]) => pc'[r] = "write"
      /\ n >= Len(sending[r]) => pc'[r] = "frame"
  BY <1>3 DEF WriteSome, Suspend, Continue, StreamsTyped, Scheduling, SchedulerTyped
<1>9. sending[r] \in Seq(ToBackend)
  BY DEF StreamsTyped
<1>10. IF sending'[r] = << >> THEN pc'[r] = "frame" ELSE pc'[r] = "write"
  BY <1>5, <1>8, <1>9
<1>11. Asked(r)'
  BY <1>4, <1>5, <1>6, <1>7 DEF Asked, backend
<1>12. Turn(r)' /\ (Sending(r)' \/ Reading(r)')
  BY <1>1, <1>2, <1>3, <1>10, <1>11 DEF Turn, Sending, Reading
<1> QED BY <1>1, <1>2, <1>3, <1>6, <1>7, <1>8, <1>12, RequestMoves DEF backend

LEMMA RequestWaits ==
  ASSUME Scheduling, StreamsTyped, NEW b \in Backends, Wired(b), NEW r \in Requests, target[r] = b,
         AwaitFrame(r) \/ ReadSome(r)
  PROVE  Wired(b)'
<1> r \in Coroutines /\ Wire(r) = b
  BY Apart DEF Wire
<1>1. Reading(r) /\ ~Free(r) /\ ~Sending(r)
  BY DEF AwaitFrame, ReadSome, Free, Sending, Reading
<1>2. Serving(b) /\ Turn(r) /\ saved[b] = << >>
  BY <1>1, OneUnderWay DEF Wired
<1>3. /\ UNCHANGED << target, sending, saved, answer, registered, output, backend, batch >>
      /\ running' \in {running, Nobody}
      /\ \E at \in {"read", "frame"} : pc' = [pc EXCEPT ![r] = at]
  BY DEF AwaitFrame, ReadSome, Suspend, Continue
<1>4. pc'[r] \in {"read", "frame"} /\ \A c \in Coroutines : c # r => pc'[c] = pc[c]
  BY <1>3 DEF Scheduling, SchedulerTyped
<1>5. \A c \in Coroutines : c # r => buffer'[c] = buffer[c]
  <2>1. buffer' = buffer \/ \E n : buffer' = [buffer EXCEPT ![r] = @ \o SubSeq(input[b], 1, n)]
    BY DEF AwaitFrame, ReadSome
  <2> QED BY <2>1 DEF StreamsTyped
<1>6. /\ buffer'[r] \o input'[b] = buffer[r] \o input[b]
      /\ buffer[r] = << >> /\ input[b] = << >> => buffer'[r] = << >> /\ input'[b] = << >>
  BY ReadKeeps DEF AwaitFrame
<1>7. Asked(r)' \/ Pending(r)' \/ Replied(r)'
  <2>1. CASE Asked(r)
    BY <1>3, <1>6, <2>1 DEF Asked, backend
  <2>2. CASE Pending(r)
    BY <1>3, <1>6, <2>2 DEF Pending, backend
  <2>3. CASE Replied(r)
    BY <1>3, <1>6, <2>3 DEF Replied, backend
  <2> QED BY <1>1, <1>2, <2>1, <2>2, <2>3 DEF Turn
<1>8. Turn(r)' /\ Reading(r)'
  BY <1>1, <1>2, <1>3, <1>4, <1>7 DEF Turn, Sending, Reading
<1> QED BY <1>1, <1>2, <1>3, <1>4, <1>5, <1>8, RequestMoves DEF backend

LEMMA ResultRead ==
  ASSUME NEW r, NEW type, NEW buf, buf = Result(type, r)
  PROVE  /\ Rest(buf) = << >>
         /\ DeserializeFrame(buf).frame.type = type
         /\ DeserializeFrame(buf).frame.request = r /\ DeserializeFrame(buf).intact
         /\ type = "Response" => Answered(DeserializeFrame(buf)) = Own(r)
<1>1. Rest(buf) = << >> /\ DeserializeFrame(buf).frame = Frame(type, r)
  BY FramesRead DEF Result
<1>2. Frame(type, r).type = type /\ Frame(type, r).request = r
  BY DEF Frame
<1>3. ASSUME type = "Response" PROVE Answered(DeserializeFrame(buf)) = Own(r)
  <2> DEFINE f == Frame("Response", r)
  <2>1. DeserializeFrame(buf).frame = f
    BY <1>1, <1>3
  <2>2. DeserializeFrame(buf).intact
    BY WholeFrame, Zenon DEF Result
  <2>3. DeserializeFrame(buf).intact = TRUE
    <3>1. DeserializeFrame(buf).intact \in BOOLEAN
      BY Zenon DEF DeserializeFrame
    <3> QED BY <2>2, <3>1, Zenon
  <2>4. Own(r) = [status |-> "answered", frame |-> f, intact |-> TRUE]
    BY Zenon DEF Own, Answered
  <2> HIDE DEF f
  <2>5. Answered(DeserializeFrame(buf)) = [status |-> "answered", frame |-> f, intact |-> TRUE]
    BY <2>1, <2>3, Zenon DEF Answered
  <2> QED BY <2>4, <2>5, Zenon
<1>4. DeserializeFrame(buf).intact
  BY WholeFrame, Zenon DEF Result
<1> QED BY <1>1, <1>2, <1>3, <1>4

(* What the request takes for the response is the reply to it.             *)
LEMMA ReplyOutcome ==
  ASSUME StreamsTyped, NEW b \in Backends, NEW r \in Requests, target[r] = b, TakeFrame(r), Replied(r)
  PROVE  /\ Rest(buffer[r]) = << >> /\ input[b] = << >>
         /\ \E type \in ReplyTypes :
              answer'[r] = IF type = "Error" THEN Failed("500")
                           ELSE IF r \in Unreadable THEN Dropped ELSE Own(r)
<1> r \in Coroutines
  BY Apart
<1> DEFINE got == DeserializeFrame(buffer[r])
<1>1. HasCompleteFrame(buffer[r])
  BY DEF TakeFrame
<1>2. PICK type \in ReplyTypes : buffer[r] \o input[b] = Result(type, r)
  BY DEF Replied
<1>3. buffer[r] = Result(type, r) /\ input[b] = << >>
  <2>1. buffer[r] \in Seq(FromBackend) /\ input[b] \in Seq(FromBackend)
    BY DEF StreamsTyped
  <2> QED BY <1>1, <1>2, <2>1, PartsOfFrame, Zenon DEF Result
<1>4. /\ Rest(buffer[r]) = << >> /\ got.frame.type = type
      /\ got.frame.request = r /\ got.intact
      /\ type = "Response" => Answered(got) = Own(r)
  BY <1>3, ResultRead
<1>5. PICK result \in Outcomes(got) : Finish(r, result)
  BY DEF TakeFrame
<1> HIDE DEF got
<1>6. answer'[r] = result
  BY <1>5 DEF Finish, StreamsTyped
<1>7. type \in {"Response", "Error"}
  BY ForwardingAssumption
<1>8. CASE type = "Error"
  <2>1. result = Failed("500")
    BY <1>4, <1>8 DEF Outcomes
  <2> QED BY <1>3, <1>4, <1>6, <1>8, <2>1
<1>9. CASE type = "Response"
  <2>1. result = IF r \in Unreadable THEN Dropped ELSE Answered(got)
    BY <1>4, <1>9 DEF Outcomes
  <2> QED BY <1>3, <1>4, <1>6, <1>9, <2>1
<1> QED BY <1>7, <1>8, <1>9

LEMMA ReplyTaken ==
  ASSUME Scheduling, StreamsTyped, NEW b \in Backends, Wired(b), NEW r \in Requests, target[r] = b,
         TakeFrame(r)
  PROVE  Wired(b)'
<1> r \in Coroutines
  BY Apart
<1>1. pc[r] = "frame" /\ HasCompleteFrame(buffer[r]) /\ ~Free(r) /\ Reading(r) /\ ~Sending(r)
  BY DEF TakeFrame, Free, Sending, Reading
<1>2. Serving(b) /\ Turn(r)
  BY <1>1, OneUnderWay
<1>3. buffer[r] # << >>
  BY <1>1, NothingComplete
<1>4. Replied(r) /\ sending[r] = << >> /\ r \notin Oversized
  BY <1>1, <1>2, <1>3 DEF Turn, Asked, Pending
<1>5. PICK result :
        /\ saved' = [saved EXCEPT ![b] = Rest(buffer[r])]
        /\ buffer' = [buffer EXCEPT ![r] = << >>]
        /\ Finish(r, result)
        /\ UNCHANGED << target, sending, registered, input, output, backend >>
  BY DEF TakeFrame
<1>6. /\ Rest(buffer[r]) = << >> /\ input[b] = << >>
      /\ \E type \in ReplyTypes :
           answer'[r] = IF type = "Error" THEN Failed("500")
                        ELSE IF r \in Unreadable THEN Dropped ELSE Own(r)
  BY <1>4, ReplyOutcome
<1>7. /\ saved'[b] = << >> /\ buffer'[r] = << >>
      /\ \A c \in Coroutines : c # r => buffer'[c] = buffer[c]
  BY <1>5, <1>6 DEF StreamsTyped
<1>8. /\ pc'[r] = "done" /\ running' = Nobody /\ UNCHANGED batch
      /\ \A c \in Coroutines : c # r => pc'[c] = pc[c]
      /\ \A q \in Requests : q # r => answer'[q] = answer[q]
  BY <1>5 DEF Finish, End, Scheduling, SchedulerTyped, StreamsTyped
<1>9. Ended(r)'
  BY <1>4, <1>6 DEF Ended
<1>10. Turn(r)'
  BY <1>4, <1>5, <1>7, <1>8, <1>9 DEF Turn, Sending, Reading
<1>11. Quiet(b)'
  BY <1>4, <1>5, <1>6 DEF Quiet, Replied, backend
<1> QED BY <1>1, <1>5, <1>7, <1>8, <1>10, <1>11, RequestMoves DEF backend

LEMMA RequestWired ==
  ASSUME Scheduling, StreamsTyped, NEW b \in Backends, Wired(b), NEW r \in Requests, target[r] = b,
         Request(r)
  PROVE  Wired(b)'
<1>1. ~RequestEndOfStream(r)
  <2> SUFFICES ASSUME RequestEndOfStream(r) PROVE FALSE
    OBVIOUS
  <2>1. pc[r] = "read" /\ peer[b] = "closed" /\ ~Free(r)
    BY Apart DEF RequestEndOfStream, EndOfStream, Wire, Free
  <2> QED BY <2>1, OneUnderWay DEF Serving, Joined
<1> QED BY <1>1, RouteWired, InquiryWritten, RequestWaits, ReplyTaken DEF Request

(* The descriptor of a connection whose handler waits and to which no      *)
(* request speaks is not ready: nothing wakes the handler.                 *)
LEMMA EpollWaitElsewhere ==
  ASSUME Scheduling, NEW b \in Backends, Wired(b), EpollWait
  PROVE  Untouched(b)
<1> DEFINE wires    == {d \in Backends : Ready(d)}
           arrivals == {r \in Requests : pc[r] = "arrived"}
           ready    == {armed[d].who : d \in wires} \cup arrivals
<1>1. /\ running = Nobody /\ running' = Nobody
      /\ batch' \in SetToSeqs(ready)
      /\ pc' = [c \in Coroutines |-> IF c \in arrivals THEN "start" ELSE pc[c]]
      /\ UNCHANGED << target, sending, buffer, saved, answer, registered, input, output, backend >>
  BY DEF EpollWait
<1>2. \A i \in DOMAIN batch' :
        \/ batch'[i] \in arrivals
        \/ \E d \in wires : batch'[i] = armed[d].who
  BY <1>1 DEF SetToSeqs
<1>3. /\ pc'[b] = pc[b]
      /\ \A r \in Requests : pc'[r] = pc[r] \/ (pc[r] = "arrived" /\ pc'[r] = "start")
  BY <1>1, Apart
<1>4. ASSUME Serving(b), InBatch(b)' PROVE FALSE
  <2>1. PICK d \in wires : armed[d].who = b
    BY <1>2, <1>4, Apart DEF InBatch
  <2>2. d = b /\ armed[b].mode = "read"
    BY <1>4, <2>1, Apart DEF Scheduling, ArmedSound, Wire, Serving
  <2>3. input[b] # << >> \/ peer[b] = "closed"
    BY <2>1, <2>2 DEF Ready
  <2>4. \A r \in Requests : target[r] = b => ~Woken(r)
    BY <2>1, <2>2 DEF Scheduling, Overtaken, Lost
  <2>5. input[b] = << >>
    <3>1. CASE \A r \in Requests : target[r] = b => ~Sending(r) /\ ~Reading(r)
      BY <1>4, <3>1 DEF Serving, Quiet
    <3>2. CASE \E r \in Requests : target[r] = b /\ Sending(r)
      BY <3>2 DEF Wired, Turn, Asked
    <3>3. CASE \E r \in Requests : target[r] = b /\ Reading(r)
      BY <2>4, <3>3 DEF Reading, Woken
    <3> QED BY <3>1, <3>2, <3>3
  <2> QED BY <1>4, <2>3, <2>5 DEF Serving, Joined
<1>5. Serving(b) => Asleep(b)'
  BY <1>1, <1>4, Apart DEF Asleep
<1> QED BY <1>1, <1>3, <1>5 DEF Untouched, backend

LEMMA ResumeElsewhere ==
  ASSUME Scheduling, NEW b \in Backends, Wired(b), Resume
  PROVE  Untouched(b)
<1>1. /\ batch # << >> /\ running' = Head(batch) /\ batch' = Tail(batch)
      /\ UNCHANGED << pc, target, sending, buffer, saved, answer, registered, input, output, backend >>
  BY DEF Resume
<1>2. batch \in Seq(Coroutines)
  BY DEF Scheduling, SchedulerTyped
<1>3. /\ 1 \in DOMAIN batch /\ Head(batch) = batch[1]
      /\ \A i \in DOMAIN Tail(batch) : i + 1 \in DOMAIN batch /\ Tail(batch)[i] = batch[i + 1]
  BY <1>1, <1>2
<1>4. Asleep(b) => Asleep(b)'
  BY <1>1, <1>3 DEF Asleep, InBatch
<1> QED BY <1>1, <1>4 DEF Untouched, Serving, backend

(* A step is about one connection, or about none.                          *)
Touches(b) ==
  \/ BackendMoves(b)
  \/ AcceptConnection(b) \/ ProcessPendingCoroutines(b)
  \/ running = b /\ Handler(b)
  \/ \E r \in Requests : target[r] = b /\ (Arrive(r) \/ (running = r /\ Request(r)))

LEMMA ArriveElsewhere ==
  ASSUME Scheduling, NEW d \in Backends,
         \/ \E b \in Backends : b # d /\ (AcceptConnection(b) \/ ProcessPendingCoroutines(b))
         \/ \E r \in Requests : target[r] # d /\ Arrive(r)
  PROVE  Untouched(d)
<1>1. PICK c \in Coroutines :
        /\ c # d /\ (c \in Requests => target[c] # d)
        /\ \E at : pc' = [pc EXCEPT ![c] = at]
        /\ running' \in {running, c}
        /\ UNCHANGED << batch, saved, beats, registered, sending, buffer, peer, input, output, owed, answer >>
  BY Apart DEF AcceptConnection, ProcessPendingCoroutines, Arrive, backend
<1>2. Asleep(d) => Asleep(d)'
  BY <1>1 DEF Asleep, InBatch
<1> QED BY <1>1, <1>2, Apart DEF Untouched, Serving, Scheduling, SchedulerTyped

LEMMA StepTouches ==
  ASSUME Scheduling, StreamsTyped, Sequential, [Next]_vars
  PROVE  \/ \A d \in Backends : Untouched(d)
         \/ \E b \in Backends : Touches(b) /\ \A d \in Backends : d # b => Untouched(d)
<1>1. PeersTyped /\ \A b \in Backends : Wired(b)
  BY DEF Sequential
<1>2. CASE \E b \in Backends : BackendMoves(b)
  BY <1>1, <1>2, BackendElsewhere DEF Touches
<1>3. CASE \E b \in Backends : AcceptConnection(b) \/ ProcessPendingCoroutines(b)
  BY <1>3, ArriveElsewhere DEF Touches
<1>4. CASE EpollWait
  BY <1>1, <1>4, EpollWaitElsewhere
<1>5. CASE Resume
  BY <1>1, <1>5, ResumeElsewhere
<1>6. CASE \E b \in Backends : running = b /\ Handler(b)
  <2>1. PICK b \in Backends : running = b /\ Handler(b)
    BY <1>6
  <2>2. b \in Coroutines /\ Wire(b) = b
    BY Apart DEF Wire
  <2>3. \A d \in Backends : d # b => Untouched(d)
    BY <1>1, <2>1, <2>2, RunElsewhere
  <2> QED BY <2>1, <2>3 DEF Touches
<1>7. CASE \E r \in Requests : running = r /\ Request(r)
  <2>1. PICK r \in Requests : running = r /\ Request(r)
    BY <1>7
  <2>2. r \in Coroutines /\ Wire(r) = target[r] /\ target[r] \in Backends
    BY Apart DEF Wire, Scheduling, SchedulerTyped
  <2>3. \A d \in Backends : d # target[r] => Untouched(d)
    BY <1>1, <2>1, <2>2, RunElsewhere
  <2> QED BY <2>1, <2>2, <2>3 DEF Touches
<1>8. CASE \E r \in Requests : Arrive(r)
  <2>1. PICK r \in Requests : Arrive(r)
    BY <1>8
  <2>2. target[r] \in Backends
    BY DEF Scheduling, SchedulerTyped
  <2>3. \A d \in Backends : d # target[r] => Untouched(d)
    BY <2>1, ArriveElsewhere
  <2> QED BY <2>1, <2>2, <2>3 DEF Touches
<1>9. CASE UNCHANGED vars
  BY <1>9 DEF Untouched, Serving, Asleep, InBatch, vars, gateway, backend
<1> QED BY <1>2, <1>3, <1>4, <1>5, <1>6, <1>7, <1>8, <1>9
        DEF Next, EventLoop, Run, Environment, BackendMoves

LEMMA TouchedWired ==
  ASSUME OneAtATime, Scheduling, StreamsTyped, PeersTyped, NEW b \in Backends, Wired(b), Touches(b)
  PROVE  Wired(b)'
  BY BackendWired, AcceptWired, HandlerWired, RequestWired, ArriveWired DEF Touches

LEMMA SequentialStep ==
  ASSUME OneAtATime, Scheduling, StreamsTyped, Sequential, [Next]_vars
  PROVE  Sequential'
<1>1. PeersTyped /\ PeersTyped' /\ UNCHANGED target
  BY PeersStep DEF Sequential
<1>2. ASSUME NEW b \in Backends PROVE Wired(b)'
  <2>1. Wired(b) /\ (Untouched(b) \/ Touches(b))
    BY StepTouches DEF Sequential
  <2> QED BY <1>1, <2>1, UntouchedKeeps, TouchedWired
<1> QED BY <1>1, <1>2 DEF Sequential

LEMMA SequentialInit ==
  ASSUME Init
  PROVE  Sequential
<1>1. PeersTyped
  BY DEF Init, PeersTyped
<1>2. ASSUME NEW b \in Backends PROVE Wired(b)
  <2>1. /\ saved[b] = << >> /\ beats[b] = 0 /\ pc[b] = "none" /\ peer[b] = "closed" /\ ~registered[b]
        /\ sending[b] = << >> /\ buffer[b] = << >> /\ input[b] = << >> /\ output[b] = << >> /\ owed[b] = {}
    BY Apart DEF Init
  <2>2. ASSUME NEW r \in Requests
        PROVE  pc[r] = "idle" /\ sending[r] = << >> /\ buffer[r] = << >> /\ answer[r] = Unanswered
    BY Apart DEF Init
  <2>3. \A r \in Requests : Turn(r) /\ Free(r)
    BY <2>2 DEF Turn, Free, Sending, Reading
  <2>4. Alone(b) /\ Idle(b)
    BY <2>3 DEF Alone, Idle
  <2> QED BY <2>1, <2>3, <2>4 DEF Wired, Joining
<1> QED BY <1>1, <1>2 DEF Sequential

(* However reads and writes are cut, and whatever becomes of the handler's *)
(* registration, one request at a time has the connection for itself.      *)
THEOREM SequentialInvariance == ASSUME OneAtATime PROVE Spec => []Sequential
<1>1. Init => Sequential
  BY SequentialInit
<1>2. Scheduling /\ StreamsTyped /\ Sequential /\ [Next]_vars => Sequential'
  BY SequentialStep
<1> QED BY <1>1, <1>2, SchedulingInvariance, TypesKept, PTL DEF Spec

(* As long as clients send a backend one request at a time, none before    *)
(* its handler waits, and backends send nothing but replies, every answer  *)
(* is the response of the very request.                                    *)
THEOREM EveryAnswerMatches == ASSUME OneAtATime PROVE Spec => []AnswersMatch
<1>1. SchedulerTyped /\ Sequential => AnswersMatch
  <2> SUFFICES ASSUME SchedulerTyped, Sequential, NEW r \in Requests, answer[r].status = "answered"
               PROVE  answer[r] = Own(r)
    BY DEF AnswersMatch, Own
  <2>1. Turn(r)
    BY DEF Sequential, Wired, SchedulerTyped
  <2>2. Unanswered.status # "answered" /\ Failed("500").status # "answered" /\ Dropped.status # "answered"
    BY DEF Unanswered, Failed, Dropped
  <2> QED BY <2>1, <2>2 DEF Turn, Ended
<1> QED BY <1>1, SequentialInvariance, SchedulingInvariance, PTL DEF Scheduling

-----------------------------------------------------------------------------
(* The service.                                                            *)

Served(r) == Reading(r) /\ Replied(r)

Stage(r) ==
  IF pc[r] = "idle" THEN "unsent"
  ELSE IF pc[r] = "done" THEN
    IF answer[r] = Own(r) THEN "answered" ELSE IF answer[r] = Dropped THEN "dropped" ELSE "refused"
  ELSE IF Served(r) THEN "served" ELSE "asked"

LEMMA NothingReplied ==
  \A r \in Requests, type \in ReplyTypes : << >> \o << >> # Result(type, r)
<1>1. << >> \o << >> = << >>
  BY EmptyTyped, ConcatEmptySeq
<1>2. ASSUME NEW r \in Requests, NEW type \in ReplyTypes PROVE Result(type, r) # << >>
  BY NotEmpty, Zenon DEF Result
<1> QED BY <1>1, <1>2

LEMMA NotYet ==
  ASSUME NEW r \in Requests, buffer[r] = << >>, input[target[r]] = << >>
  PROVE  ~Replied(r)
  BY NothingReplied DEF Replied

LEMMA SecondPiece ==
  ASSUME NEW frame
  PROVE  Pieces(frame)[2] \in Range(Pieces(frame))
<1>1. 2 \in DOMAIN Pieces(frame)
  BY DEF Pieces
<1> QED BY <1>1, Zenon DEF Range

(* Progress, which reads the bytes, tells the stages.                      *)
LEMMA ProgressStage ==
  ASSUME ReplyTypes = {"Response"}, SchedulerTyped, Sequential, NEW r \in Requests
  PROVE  Progress(r) = Stage(r)
<1> DEFINE b == target[r]
           responded == Pieces(Frame("Response", r))[2] \in Range(buffer[r] \o input[b])
<1>1. b \in Backends /\ Wired(b) /\ Turn(r)
  BY DEF SchedulerTyped, Sequential, Wired
<1>2. CASE pc[r] = "idle"
  BY <1>2 DEF Progress, Stage
<1>3. CASE pc[r] = "done"
  <2>1. Ended(r) /\ "Error" \notin ReplyTypes
    BY <1>1, <1>3 DEF Turn
  <2>2. /\ Own(r) = Answered([frame |-> Frame("Response", r), intact |-> TRUE])
        /\ Own(r).status = "answered" /\ Dropped.status = "dropped" /\ Failed("500").status = "500"
    <3>1. Own(r).status = "answered"
      BY Zenon DEF Own, Answered
    <3>2. Dropped.status = "dropped" /\ Failed("500").status = "500"
      BY FailedTyped DEF Dropped
    <3> QED BY <3>1, <3>2, Zenon DEF Own
  <2>3. Own(r) # Dropped /\ Own(r) # Failed("500") /\ Dropped # Failed("500")
    BY <2>2
  <2>4. Progress(r) = CASE answer[r] = Own(r) -> "answered"
                        [] answer[r] = Dropped -> "dropped"
                        [] answer[r] = Failed("500") /\ r \in Oversized -> "refused"
                        [] OTHER -> "astray"
    BY <1>3, <2>2 DEF Progress
  <2>5. CASE answer[r] = Own(r)
    BY <1>3, <2>3, <2>4, <2>5 DEF Stage
  <2>6. CASE answer[r] = Dropped
    BY <1>3, <2>3, <2>4, <2>6 DEF Stage
  <2>7. CASE answer[r] = Failed("500") /\ r \in Oversized
    BY <1>3, <2>3, <2>4, <2>7 DEF Stage
  <2> QED BY <2>1, <2>5, <2>6, <2>7 DEF Ended
<1>4. CASE ~Free(r)
  <2>1. Progress(r) = IF responded THEN "served" ELSE "asked"
    BY <1>4, Zenon DEF Progress, Free
  <2>2. CASE Served(r)
    <3>1. buffer[r] \o input[b] = Pieces(Frame("Response", r))
      BY <2>2 DEF Served, Replied, Result
    <3>2. responded
      BY <3>1, SecondPiece, Zenon
    <3> QED BY <1>4, <2>1, <2>2, <3>2 DEF Stage, Free
  <2>3. CASE ~Served(r)
    <3>1. buffer[r] = << >> /\ input[b] = << >>
      <4>1. CASE Sending(r) \/ Reading(r)
        BY <1>1, <2>3, <4>1 DEF Turn, Served, Asked, Pending
      <4>2. CASE ~Sending(r) /\ ~Reading(r)
        BY <1>1, <1>4, <4>2, OneUnderWay DEF Turn, Quiet
      <4> QED BY <4>1, <4>2
    <3>2. Range(<< >> \o << >>) = {}
      <4>1. << >> \o << >> = << >>
        BY EmptyTyped, ConcatEmptySeq
      <4> QED BY <4>1 DEF Range
    <3>3. ~responded
      BY <3>1, <3>2
    <3> QED BY <1>4, <2>1, <2>3, <3>3 DEF Stage, Free
  <2> QED BY <2>2, <2>3
<1> QED BY <1>2, <1>3, <1>4 DEF Free

LEMMA FreeStage ==
  ASSUME NEW r \in Requests, Free(r), pc'[r] = pc[r], answer'[r] = answer[r]
  PROVE  Stage(r)' = Stage(r)
  BY DEF Stage, Free

LEMMA UntouchedStage ==
  ASSUME NEW b \in Backends, Untouched(b), UNCHANGED target, NEW r \in Requests, target[r] = b
  PROVE  Stage(r)' = Stage(r)
<1>1. Replied(r)' <=> Replied(r)
  BY DEF Replied, Untouched
<1>2. /\ Reading(r)' <=> Reading(r)
      /\ pc'[r] = "idle" <=> pc[r] = "idle"
      /\ pc'[r] = "done" <=> pc[r] = "done"
      /\ answer'[r] = answer[r]
  BY DEF Reading, Untouched
<1> QED BY <1>1, <1>2 DEF Stage, Served

(* A request that moves on, with its connection for itself.                *)
Onward(r) ==
  \/ Stage(r) = "unsent" /\ Stage(r)' = "asked"
  \/ r \in Oversized /\ Stage(r) = "asked" /\ Stage(r)' = "refused"
  \/ r \notin Oversized /\ Stage(r) = "asked" /\ Stage(r)' = "served"
  \/ r \in Unreadable /\ Stage(r) = "served" /\ Stage(r)' = "dropped"
  \/ r \notin Unreadable /\ Stage(r) = "served" /\ Stage(r)' = "answered"

OneMoves(b) ==
  \E r \in Requests :
    /\ target[r] = b
    /\ Onward(r) \/ Stage(r)' = Stage(r)
    /\ \A q \in Requests : target[q] = b /\ q # r => Stage(q)' = Stage(q)

NoneMoves(b) == \A q \in Requests : target[q] = b => Stage(q)' = Stage(q)

LEMMA ReceiveStages ==
  ASSUME NEW b \in Backends, Wired(b), Receive(b)
  PROVE  NoneMoves(b)
<1> SUFFICES ASSUME NEW r \in Requests, target[r] = b PROVE Stage(r)' = Stage(r)
  BY DEF NoneMoves
<1>1. UNCHANGED << pc, target, buffer, input, answer >> /\ output[b] # << >>
  BY NothingComplete DEF Receive, gateway
<1>2. CASE ~Reading(r)
  BY <1>1, <1>2 DEF Stage, Served, Reading
<1>3. CASE Reading(r)
  <2>1. buffer[r] = << >> /\ input[b] = << >>
    BY <1>1, <1>3 DEF Wired, Turn, Asked, Pending, Replied
  <2>2. ~Replied(r) /\ ~Replied(r)'
    BY <1>1, <2>1, NothingReplied DEF Replied
  <2> QED BY <1>1, <1>3, <2>2 DEF Stage, Served, Reading
<1> QED BY <1>2, <1>3

LEMMA ReplyStages ==
  ASSUME NEW b \in Backends, Wired(b), Wired(b)', Reply(b)
  PROVE  OneMoves(b)
<1>1. UNCHANGED << pc, target, buffer, output, answer >> /\ owed[b] # {}
  BY DEF Reply, gateway
<1>2. Serving(b)
  BY <1>1 DEF Wired, Joining, Acknowledging, Acknowledged, Perished, Quiet
<1>3. PICK r \in Requests : target[r] = b /\ (Sending(r) \/ Reading(r))
  BY <1>1, <1>2 DEF Serving, Quiet
<1>4. Pending(r) /\ ~Replied(r) /\ Reading(r) /\ r \notin Oversized
  BY <1>1, <1>3 DEF Wired, Turn, Asked, Replied, Pending
<1>5. Stage(r) = "asked"
  BY <1>4 DEF Stage, Served, Reading
<1>6. Stage(r)' = "served" \/ Stage(r)' = Stage(r)
  BY <1>1, <1>4, <1>5 DEF Stage, Reading
<1>7. ASSUME NEW q \in Requests, target[q] = b, q # r PROVE Stage(q)' = Stage(q)
  BY <1>1, <1>3, <1>7, FreeStage DEF Wired, Alone, Free, Sending, Reading
<1> QED BY <1>3, <1>4, <1>5, <1>6, <1>7 DEF OneMoves, Onward

(* A handler that runs has no request under way; the one that waits for    *)
(* requests is asleep.                                                     *)
LEMMA HandlerStages ==
  ASSUME Scheduling, NEW b \in Backends, Wired(b),
         running = b \/ pc[b] \in {"none", "scheduled"},
         answer' = answer, \A r \in Requests : pc'[r] = pc[r]
  PROVE  NoneMoves(b)
<1>1. \A r \in Requests : target[r] = b => Free(r)
  BY DEF Wired, Joining, Acknowledging, Acknowledged, Serving, Perished, Asleep, Idle
<1> QED BY <1>1, FreeStage DEF NoneMoves

LEMMA ArriveStages ==
  ASSUME Scheduling, NEW r \in Requests, Arrive(r)
  PROVE  OneMoves(target[r])
<1>1. /\ UNCHANGED << target, buffer, input, output, owed, answer >>
      /\ pc[r] = "idle" /\ pc' = [pc EXCEPT ![r] = "arrived"]
  BY DEF Arrive, backend
<1>2. pc'[r] = "arrived" /\ \A q \in Requests : q # r => pc'[q] = pc[q]
  BY <1>1, Apart DEF Scheduling, SchedulerTyped
<1>3. Stage(r) = "unsent" /\ Stage(r)' = "asked"
  BY <1>1, <1>2 DEF Stage, Served, Reading
<1>4. ASSUME NEW q \in Requests, q # r PROVE Stage(q)' = Stage(q)
  <2>1. Replied(q)' <=> Replied(q)
    BY <1>1 DEF Replied
  <2> QED BY <1>1, <1>2, <1>4, <2>1 DEF Stage, Served, Reading
<1> QED BY <1>3, <1>4 DEF OneMoves, Onward

LEMMA RequestStages ==
  ASSUME ReplyTypes = {"Response"}, Scheduling, StreamsTyped, NEW b \in Backends, Wired(b), Wired(b)',
         NEW r \in Requests, target[r] = b, Request(r)
  PROVE  OneMoves(b)
<1> r \in Coroutines /\ Wire(r) = b
  BY Apart DEF Wire
<1>1. /\ ~Free(r) /\ UNCHANGED target
      /\ \A q \in Requests : q # r => pc'[q] = pc[q] /\ answer'[q] = answer[q]
  <2>1. \E at : pc' = [pc EXCEPT ![r] = at]
    BY DEF Request, Route, RequestWrite, TakeFrame, RequestEndOfStream, AwaitFrame, ReadSome, Finish, End,
           Continue, Suspend, StartSend, WriteSome
  <2>2. ~Free(r) /\ UNCHANGED target
    BY DEF Free, Request, Route, RequestWrite, TakeFrame, RequestEndOfStream, EndOfStream, AwaitFrame, ReadSome
  <2>3. answer' = answer \/ \E result : answer' = [answer EXCEPT ![r] = result]
    BY DEF Request, Route, RequestWrite, TakeFrame, RequestEndOfStream, AwaitFrame, ReadSome, Finish
  <2> QED BY <2>1, <2>2, <2>3, Apart DEF Scheduling, SchedulerTyped, StreamsTyped
<1>2. \A q \in Requests : target[q] = b /\ q # r => Stage(q)' = Stage(q)
  BY <1>1, OneUnderWay, FreeStage
<1>3. Turn(r) /\ Turn(r)' /\ Serving(b) /\ (~Sending(r) /\ ~Reading(r) => Quiet(b))
  BY <1>1, OneUnderWay DEF Wired
<1>4. CASE Route(r)
  <2>1. pc[r] = "start" /\ registered[b]
    BY <1>3, <1>4 DEF Route, Serving, Joined
  <2>2. Stage(r) = "asked"
    BY <2>1 DEF Stage, Served, Reading
  <2>3. CASE pc'[r] = "write"
    <3>1. Stage(r)' = Stage(r)
      BY <2>2, <2>3 DEF Stage, Served, Reading
    <3> QED BY <1>2, <3>1 DEF OneMoves
  <2>4. CASE r \in Oversized /\ pc'[r] = "done" /\ answer'[r] = Failed("500")
    <3>1. Own(r).status = "answered" /\ Dropped.status = "dropped" /\ Failed("500").status = "500"
      <4>1. Own(r).status = "answered"
        BY Zenon DEF Own, Answered
      <4>2. Dropped.status = "dropped" /\ Failed("500").status = "500"
        BY FailedTyped DEF Dropped
      <4> QED BY <4>1, <4>2
    <3>2. Failed("500") # Own(r) /\ Failed("500") # Dropped
      BY <3>1
    <3>3. Stage(r)' = "refused"
      BY <2>4, <3>2 DEF Stage
    <3> QED BY <1>2, <2>2, <2>4, <3>3 DEF OneMoves, Onward
  <2>5. pc'[r] = "write" \/ (r \in Oversized /\ pc'[r] = "done" /\ answer'[r] = Failed("500"))
    BY <1>4, <2>1 DEF Route, StartSend, Suspend, Finish, End, Scheduling, SchedulerTyped, StreamsTyped
  <2> QED BY <2>3, <2>4, <2>5
<1>5. CASE RequestWrite(r)
  <2>1. pc[r] = "write" /\ Asked(r) /\ saved[b] = << >> /\ UNCHANGED input
    BY <1>3, <1>5 DEF RequestWrite, Turn, Sending, Wired
  <2>2. PICK n \in 1..Len(sending[r]) :
          /\ WriteSome(r, n)
          /\ buffer' = IF n = Len(sending[r]) THEN [buffer EXCEPT ![r] = saved[target[r]]] ELSE buffer
    BY <1>3, <1>5 DEF RequestWrite, Serving, Joined
  <2>3. buffer'[r] = << >> /\ input'[b] = << >> /\ pc'[r] \in {"write", "frame"}
    BY <2>1, <2>2 DEF WriteSome, Suspend, Continue, Asked, StreamsTyped, Scheduling, SchedulerTyped
  <2>4. ~Replied(r)'
    BY <1>1, <2>3, NothingReplied DEF Replied
  <2>5. Stage(r)' = Stage(r)
    BY <2>1, <2>3, <2>4 DEF Stage, Served, Reading
  <2> QED BY <1>2, <2>5 DEF OneMoves
<1>6. CASE AwaitFrame(r) \/ ReadSome(r)
  <2>1. Reading(r) /\ Reading(r)' /\ UNCHANGED << output, owed >>
    BY <1>6 DEF AwaitFrame, ReadSome, Suspend, Continue, backend, Reading, Scheduling, SchedulerTyped
  <2>2. /\ buffer'[r] \o input'[b] = buffer[r] \o input[b]
        /\ buffer[r] = << >> /\ input[b] = << >> => buffer'[r] = << >> /\ input'[b] = << >>
    BY <1>6, ReadKeeps DEF AwaitFrame
  <2>3. Replied(r)' <=> Replied(r)
    BY <1>1, <2>1, <2>2 DEF Replied
  <2>4. Stage(r)' = Stage(r)
    BY <2>1, <2>3 DEF Stage, Served, Reading
  <2> QED BY <1>2, <2>4 DEF OneMoves
<1>7. CASE TakeFrame(r)
  <2>1. Reading(r) /\ buffer[r] # << >> /\ pc'[r] = "done"
    BY <1>7, NothingComplete DEF TakeFrame, Finish, End, Reading, Scheduling, SchedulerTyped
  <2>2. Replied(r)
    BY <1>3, <2>1 DEF Turn, Asked, Pending
  <2>3. Stage(r) = "served"
    BY <2>1, <2>2 DEF Stage, Served, Reading
  <2>4. Own(r) # Dropped
    <3>1. Own(r).status = "answered"
      BY Zenon DEF Own, Answered
    <3>2. Dropped.status = "dropped"
      BY FailedTyped DEF Dropped
    <3> QED BY <3>1, <3>2
  <2>5. IF r \in Unreadable THEN answer'[r] = Dropped ELSE answer'[r] = Own(r)
    BY <1>7, <2>2, ReplyOutcome
  <2>6. Stage(r)' = IF r \in Unreadable THEN "dropped" ELSE "answered"
    BY <2>1, <2>4, <2>5 DEF Stage
  <2> QED BY <1>2, <2>3, <2>6 DEF OneMoves, Onward
<1>8. ~RequestEndOfStream(r)
  BY <1>3 DEF RequestEndOfStream, EndOfStream, Serving, Joined
<1> QED BY <1>4, <1>5, <1>6, <1>7, <1>8 DEF Request

LEMMA StagesStep ==
  ASSUME OneAtATime, ReplyTypes = {"Response"}, Scheduling, StreamsTyped, Sequential, [Next]_vars
  PROVE  \/ \A q \in Requests : Stage(q)' = Stage(q)
         \/ \E r \in Requests : Onward(r) /\ \A q \in Requests : q # r => Stage(q)' = Stage(q)
<1>1. PeersTyped /\ UNCHANGED target /\ (\A b \in Backends : Wired(b)) /\ \A b \in Backends : Wired(b)'
  BY PeersStep, SequentialStep DEF Sequential
<1>2. \A q \in Requests : target[q] \in Backends
  BY DEF Scheduling, SchedulerTyped
<1>3. CASE \A d \in Backends : Untouched(d)
  BY <1>1, <1>2, <1>3, UntouchedStage
<1>4. CASE \E b \in Backends : Touches(b) /\ \A d \in Backends : d # b => Untouched(d)
  <2>1. PICK b \in Backends : Touches(b) /\ \A d \in Backends : d # b => Untouched(d)
    BY <1>4
  <2>2. \A q \in Requests : target[q] # b => Stage(q)' = Stage(q)
    BY <1>1, <1>2, <2>1, UntouchedStage
  <2>3. NoneMoves(b) \/ OneMoves(b)
    <3>1. CASE BackendMoves(b)
      <4>1. ~Heartbeat(b) /\ ~SayGoodbye(b) /\ ~Leave(b)
        BY <1>1 DEF OneAtATime, Heartbeat, SayGoodbye, Leave, Wired
      <4>2. CASE Connect(b) \/ Register(b)
        <5>1. Joining(b) /\ UNCHANGED << pc, answer >>
          BY <1>1, <4>2 DEF Connect, Register, Wired, Acknowledging, Acknowledged, Serving, Perished, Joined, gateway
        <5> QED BY <5>1, FreeStage DEF Joining, Idle, NoneMoves
      <4> QED BY <1>1, <3>1, <4>1, <4>2, ReceiveStages, ReplyStages DEF BackendMoves
    <3>2. CASE AcceptConnection(b) \/ ProcessPendingCoroutines(b)
      <4>1. pc[b] \in {"none", "scheduled"} /\ answer' = answer /\ \A r \in Requests : pc'[r] = pc[r]
        BY <3>2, Apart DEF AcceptConnection, ProcessPendingCoroutines, Scheduling, SchedulerTyped
      <4> QED BY <1>1, <4>1, HandlerStages
    <3>3. CASE running = b /\ Handler(b)
      <4>1. \E at : pc' = [pc EXCEPT ![b] = at]
        BY <3>3 DEF Handler, HandleFrame, HandleEndOfStream, HandlerWrite, AwaitFrame, ReadSome, Unregister, Die,
                    End, Continue, Suspend, StartSend, WriteSome
      <4>2. \A r \in Requests : pc'[r] = pc[r]
        BY <4>1, Apart DEF Scheduling, SchedulerTyped
      <4>3. answer' = answer
        BY <3>3 DEF Handler, HandleFrame, HandleEndOfStream, HandlerWrite, AwaitFrame, ReadSome, Unregister, Die
      <4> QED BY <1>1, <3>3, <4>2, <4>3, HandlerStages
    <3>4. CASE \E r \in Requests : target[r] = b /\ (Arrive(r) \/ (running = r /\ Request(r)))
      BY <1>1, <3>4, ArriveStages, RequestStages
    <3> QED BY <2>1, <3>1, <3>2, <3>3, <3>4 DEF Touches
  <2> QED BY <2>2, <2>3 DEF NoneMoves, OneMoves
<1> QED BY <1>3, <1>4, StepTouches

(* With the bytes, the partial reads and writes and the one registration   *)
(* per descriptor, what clients see is the service: each request is asked, *)
(* served and answered, in that order and once, with its own response, but *)
(* for those refused for their size and those whose response cannot be     *)
(* parsed; and these disturb no other.                                     *)
THEOREM ServiceImplemented ==
  ASSUME OneAtATime, ReplyTypes = {"Response"}
  PROVE  Spec => Service!Safety
<1> DEFINE status == [r \in Requests |-> Progress(r)]
           stages == [r \in Requests |-> Stage(r)]
<1>1. SchedulerTyped /\ Sequential => status = stages
  BY ProgressStage
<1>2. Init => Service!Init
  BY Apart DEF Init, Service!Init, Progress
<1>3. ASSUME Scheduling, StreamsTyped, Sequential, [Next]_vars, status = stages, (status = stages)'
      PROVE  [Service!Next]_status
  <2>1. CASE \A q \in Requests : Stage(q)' = Stage(q)
    BY <1>3, <2>1
  <2>2. CASE \E r \in Requests : Onward(r) /\ \A q \in Requests : q # r => Stage(q)' = Stage(q)
    <3>1. PICK r \in Requests : Onward(r) /\ \A q \in Requests : q # r => Stage(q)' = Stage(q)
      BY <2>2
    <3>2. stages' = [stages EXCEPT ![r] = Stage(r)'] /\ stages[r] = Stage(r)
      BY <3>1
    <3>3. Service!Ask(r) \/ Service!Refuse(r) \/ Service!Serve(r) \/ Service!Drop(r) \/ Service!Deliver(r)
      BY <1>3, <3>1, <3>2 DEF Onward, Service!Ask, Service!Refuse, Service!Serve, Service!Drop,
                              Service!Deliver, Service!Move
    <3> QED BY <3>3 DEF Service!Next
  <2> QED BY <2>1, <2>2, <1>3, StagesStep
<1>4. Scheduling /\ StreamsTyped /\ Sequential /\ [Next]_vars /\ status = stages /\ (status = stages)'
      => [Service!Next]_status
  BY <1>3
<1> QED BY <1>1, <1>2, <1>4, SequentialInvariance, SchedulingInvariance, TypesKept, PTL
        DEF Spec, Service!Safety, Scheduling
=============================================================================
