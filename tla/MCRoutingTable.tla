--------------------------- MODULE MCRoutingTable ---------------------------
(***************************************************************************)
(* RoutingTable on five paths: two overlapping patterns, a literal that    *)
(* both match, the same literal with a trailing slash (another key, the    *)
(* same segments) and the empty text, which is not valid.                  *)
(***************************************************************************)
EXTENDS RoutingTable

MCPaths == { <<"", "users", "{id}">>, <<"", "users", "{name}">>,
             <<"", "users", "me">>, <<"", "users", "me", "">>, <<"">> }
MCPlaceholders == {"{id}", "{name}"}
MCMethods == {"GET", "Unknown"}
=============================================================================
