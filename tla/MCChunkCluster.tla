--------------------------- MODULE MCChunkCluster ---------------------------
(* Small instances of ChunkCluster for TLC. *)
EXTENDS ChunkCluster, TLC

CONSTANTS a, b, c, w1, w2, x, cut, hx, hcut

\* One content beside the truncated one, each with a ring order of its own.
MCSha256 == x :> hx @@ cut :> hcut
MCPreference == hx :> <<b, c, a>> @@ hcut :> <<c, a, b>>

\* One thread on each of two nodes; two threads of one node.
HomeApart == w1 :> a @@ w2 :> b
HomeShared == w1 :> a @@ w2 :> a
=============================================================================
