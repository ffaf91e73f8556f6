---------------------------- MODULE MCMembership ----------------------------
(* A small instance of Membership for TLC. *)
EXTENDS Membership, TLC

CONSTANTS a, b, c, x, y

\* a and b are configured with each other; c joins them.
MCPeerList == a :> <<b>> @@ b :> <<a>> @@ c :> <<a, b>>

\* Two virtual nodes each, and keys that start at different places.
MCPlace == a :> {0, 3} @@ b :> {1, 2} @@ c :> {4, 6}
MCHashOf == x :> 3 @@ y :> 4
=============================================================================
