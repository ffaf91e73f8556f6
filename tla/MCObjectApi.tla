---------------------------- MODULE MCObjectApi -----------------------------
(* Small instances of ObjectApi for TLC. *)
EXTENDS ObjectApi, TLC

CONSTANTS a, w1, w2, c1, c2

\* Two bodies that share their first chunk.
MCContents == {<<c1>>, <<c1, c2>>}

HomeShared == w1 :> a @@ w2 :> a

\* Threads of one node, and keys, are interchangeable.
Symmetry == Permutations(Workers) \cup Permutations(Keys)

\* What the actions and the invariants of ObjectConcurrent look at: neither gone,
\* nor what a finished handler leaves in its locals beside the bytes it read.
Seen ==
  <<committed, working, inTx, changes, wal, ended, walGood, up, stored,
    [w \in Workers |-> IF job[w].pc = "done"
                       THEN Done([Idle EXCEPT !.op = job[w].op, !.key = job[w].key,
                                              !.out = job[w].out], job[w].status)
                       ELSE job[w]],
    calls, faults, crashes, requested, undone, marred, mixed>>
=============================================================================
