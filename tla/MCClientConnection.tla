------------------------- MODULE MCClientConnection -------------------------
(***************************************************************************)
(* ClientConnection on requests whose headers come in one piece or two,    *)
(* with a body, with a body and more, without one, with a length that is   *)
(* not a number, with one that wraps around, with a query that cannot be   *)
(* decoded, with JSON that the parser may throw at, and one with a request *)
(* line that does not parse.                                               *)
(***************************************************************************)
EXTENDS ClientConnection

Sends(head, body, length) ==
  [head |-> head, body |-> body, valid |-> TRUE, length |-> length, escapes |-> TRUE, readable |-> TRUE]

MCTexts ==
  { Sends(1, 2, 2), Sends(2, 2, 1), Sends(1, 0, 0), Sends(1, 0, NotANumber), Sends(1, 1, Word + 1),
    [Sends(1, 0, 0) EXCEPT !.valid = FALSE], [Sends(1, 0, 0) EXCEPT !.escapes = FALSE],
    [Sends(1, 0, 0) EXCEPT !.readable = FALSE] }
=============================================================================
