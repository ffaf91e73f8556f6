------------------------------- MODULE MCRaft -------------------------------
(* Small instances of Raft for TLC. *)
EXTENDS Raft, TLC

\* ballots is a history for the proofs.  No action reads it, and no property but
\* its conjunct of TypeOK, so states that differ in nothing else count once.
NoBallots ==
  <<role, term, votedFor, log, commitIndex, votesReceived, nextIndex, matchIndex, request,
    asked, elected>>

NodeSymmetry == Permutations(Nodes)
=============================================================================
