----------------------------- MODULE MCGateway -----------------------------
(***************************************************************************)
(* Gateway with two servers.  Both announce the refresh endpoint, one by   *)
(* its path and one by a pattern, and a protected endpoint under one key,  *)
(* so that either may take over the route of the other.                    *)
(***************************************************************************)
EXTENDS Gateway, TLC

Refresh == << "", "auth", "refresh" >>
Pattern == << "", "auth", "{op}" >>

MCPaths == {Refresh, Pattern}
MCPlaceholders == {"{op}"}
MCMethods == {"POST"}
MCTooLong == {}
MCSymmetry == Permutations(BackendIds)

MCAnnouncements ==
  { << [path |-> Refresh, method |-> "POST", auth |-> FALSE] >>,
    << [path |-> Pattern, method |-> "POST", auth |-> TRUE] >> }
=============================================================================
