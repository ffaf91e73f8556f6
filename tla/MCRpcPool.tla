----------------------------- MODULE MCRpcPool ------------------------------
(* Small instances of RpcPool for TLC. *)
EXTENDS RpcPool, TLC

CONSTANTS a, b, c, r1, r2, r3, r4

\* Two requests at each of two nodes with pools of two threads.
MCEntry == r1 :> a @@ r2 :> a @@ r3 :> b @@ r4 :> b
MCPlan == r1 :> <<b, c>> @@ r2 :> <<b>> @@ r3 :> <<a, c>> @@ r4 :> <<c, a>>
=============================================================================
