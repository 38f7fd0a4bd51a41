--------------------------- MODULE RequestService ---------------------------
(***************************************************************************)
(* What the gateway promises the clients of backends that keep serving: a  *)
(* request is answered by its backend, then its client gets that answer,   *)
(* each once.  A request too large for a frame is refused, and the client  *)
(* whose response the gateway cannot parse gets nothing.                   *)
(***************************************************************************)
CONSTANTS Requests, Oversized, Unreadable

(* "unsent", "asked", "served", and in the end "answered", "dropped" or    *)
(* "refused"                                                               *)
VARIABLE status

Init == status = [r \in Requests |-> "unsent"]

Move(r, from, to) ==
  /\ status[r] = from
  /\ status' = [status EXCEPT ![r] = to]

Ask(r)     == Move(r, "unsent", "asked")
Refuse(r)  == r \in Oversized /\ Move(r, "asked", "refused")
Serve(r)   == r \notin Oversized /\ Move(r, "asked", "served")
Drop(r)    == r \in Unreadable /\ Move(r, "served", "dropped")
Deliver(r) == r \notin Unreadable /\ Move(r, "served", "answered")

Next == \E r \in Requests : Ask(r) \/ Refuse(r) \/ Serve(r) \/ Drop(r) \/ Deliver(r)

(* What was asked comes to its end; clients need not ask.                  *)
Fairness ==
  \A r \in Requests :
    /\ WF_status(Refuse(r)) /\ WF_status(Serve(r))
    /\ WF_status(Drop(r)) /\ WF_status(Deliver(r))

Safety == Init /\ [][Next]_status

Spec == Safety /\ Fairness
=============================================================================
