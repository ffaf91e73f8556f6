--------------------------- MODULE MCHttpExchange ---------------------------
(* A small instance of BodyCodecs for TLC. *)
EXTENDS BodyCodecs, TLC

x == <<"x", 0>>
y == <<"y", 0>>

\* Bodies of no, few and many tokens, with and without empty lines in them.
MCBodies == {<<>>, <<x>>, <<NL, NL>>, <<x, NL, NL, y>>, <<x, y, x, x, y, y, x, y, x>>}

Lines(t) == <<<<"token", t>>>>
MCRequests ==
  {[route |-> "put", lines |-> Lines("admin"), body |-> b] : b \in MCBodies}
  \cup {[route |-> r, lines |-> Lines(t), body |-> <<x>>] :
          r \in {"put", "metrics", "nowhere"}, t \in {"reader", "admin", "unknown"}}
  \cup {[route |-> "put", lines |-> Lines("admin") \o [i \in 1 .. 6 |-> <<"fill", 0>>], body |-> <<x>>]}

MCPermission == ("put" :> "write" @@ "metrics" :> Nil)
MCGranted == ("admin" :> {"admin"} @@ "reader" :> {"read"})
MCReplies == {[status |-> 201, body |-> <<>>], [status |-> 201, body |-> <<x, NL, NL, y>>],
              [status |-> 500, body |-> <<x>>]}
=============================================================================
