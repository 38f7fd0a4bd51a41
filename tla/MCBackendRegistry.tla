------------------------- MODULE MCBackendRegistry -------------------------
(***************************************************************************)
(* BackendRegistry with four keys, two of them overlapping, and a table of *)
(* three places: endpoints are removed before, between and after others,   *)
(* and a full table refuses.  Backends may announce the same key.          *)
(***************************************************************************)
EXTENDS BackendRegistry, TLC

Pattern == << "", "users", "{id}" >>
Literal == << "", "users", "me" >>
Orders  == << "", "orders" >>
Health  == << "", "health" >>

MCPaths == {Pattern, Literal, Orders, Health}
MCPlaceholders == {"{id}"}
MCMethods == {"GET"}
MCSymmetry == Permutations(BackendIds)

Endpoint(path) == [path |-> path, method |-> "GET", auth |-> FALSE]

MCAnnouncements ==
  { << Endpoint(Pattern) >>,
    << Endpoint(Literal), Endpoint(Orders) >>,
    << Endpoint(Health), Endpoint(Pattern) >> }
=============================================================================
