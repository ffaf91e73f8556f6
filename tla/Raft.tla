-------------------------------- MODULE Raft --------------------------------
(***************************************************************************)
(* RaftNode of cluster/raft.{h,cpp}: one state machine per node, and the   *)
(* caller that carries requests and responses between them.                *)
(*                                                                         *)
(* RaftNode has no transport.  Its caller, as the tests show it, keeps the *)
(* VoteRequest start_election returned, shows it to each peer once, and    *)
(* hands every response to the node before it does anything else with that *)
(* node.  A response may get lost; between two exchanges every node may    *)
(* act.                                                                    *)
(***************************************************************************)
EXTENDS Integers, Sequences, FiniteSets

CONSTANTS
  Nodes,       \* node ids
  Commands,    \* client commands
  Nil,         \* std::nullopt
  MaxTerm,     \* bound on terms
  MaxLog       \* bound on the length of a log

ASSUME RaftNodesAssumption == IsFiniteSet(Nodes) /\ Nil \notin Nodes

ASSUME RaftBoundsAssumption == MaxTerm \in Nat /\ MaxLog \in Nat

VARIABLES
  role, term, votedFor, log, commitIndex, votesReceived, \* fields of RaftNode
  nextIndex,   \* nextIndex[n][m], Nil when the map has no entry for m
  matchIndex,  \* matchIndex[n][m], Nil when the map has no entry for m
  request,     \* caller: the VoteRequest of n's last election, or Nil
  asked,       \* caller: the peers that have been shown request[n]
  elected,     \* history: <<n, t>> when n became leader of term t
  ballots      \* history: <<m, t, n>> when n counted m's vote in its election of term t

vars == <<role, term, votedFor, log, commitIndex, votesReceived, nextIndex, matchIndex,
          request, asked, elected, ballots>>

Roles == {"follower", "candidate", "leader"}

Entry == [index : Nat \ {0}, term : Nat, command : Commands]

VoteRequest == [term : Nat, lastLogIndex : Nat, lastLogTerm : Nat]

TypeOK ==
  /\ role \in [Nodes -> Roles]
  /\ term \in [Nodes -> Nat]
  /\ votedFor \in [Nodes -> Nodes \cup {Nil}]
  /\ log \in [Nodes -> Seq(Entry)]
  /\ commitIndex \in [Nodes -> Nat]
  /\ votesReceived \in [Nodes -> Nat]
  /\ nextIndex \in [Nodes -> [Nodes -> Nat \cup {Nil}]]
  /\ matchIndex \in [Nodes -> [Nodes -> Nat \cup {Nil}]]
  /\ request \in [Nodes -> VoteRequest \cup {Nil}]
  /\ asked \in [Nodes -> SUBSET Nodes]
  /\ elected \subseteq Nodes \X Nat
  /\ ballots \subseteq Nodes \X Nat \X Nodes

Init ==
  /\ role = [n \in Nodes |-> "follower"]
  /\ term = [n \in Nodes |-> 0]
  /\ votedFor = [n \in Nodes |-> Nil]
  /\ log = [n \in Nodes |-> <<>>]
  /\ commitIndex = [n \in Nodes |-> 0]
  /\ votesReceived = [n \in Nodes |-> 0]
  /\ nextIndex = [n \in Nodes |-> [m \in Nodes |-> Nil]]
  /\ matchIndex = [n \in Nodes |-> [m \in Nodes |-> Nil]]
  /\ request = [n \in Nodes |-> Nil]
  /\ asked = [n \in Nodes |-> {}]
  /\ elected = {}
  /\ ballots = {}

ClusterSize == Cardinality(Nodes)

\* log_.empty() ? 0 : log_.back().index, and the same for the term
LastIndex(l) == IF l = <<>> THEN 0 ELSE l[Len(l)].index
LastTerm(l) == IF l = <<>> THEN 0 ELSE l[Len(l)].term

\* A response with a higher term makes its receiver n a follower.
StepDown(n, t) ==
  /\ term' = [term EXCEPT ![n] = t]
  /\ role' = [role EXCEPT ![n] = "follower"]
  /\ votedFor' = [votedFor EXCEPT ![n] = Nil]

-----------------------------------------------------------------------------
(* Elections *)

\* start_election; the caller keeps the request.
StartElection(n) ==
  /\ term[n] < MaxTerm
  /\ role' = [role EXCEPT ![n] = "candidate"]
  /\ term' = [term EXCEPT ![n] = @ + 1]
  /\ votedFor' = [votedFor EXCEPT ![n] = n]
  /\ votesReceived' = [votesReceived EXCEPT ![n] = 1]
  /\ request' = [request EXCEPT ![n] = [term |-> term[n] + 1,
                                        lastLogIndex |-> LastIndex(log[n]),
                                        lastLogTerm |-> LastTerm(log[n])]]
  /\ asked' = [asked EXCEPT ![n] = {}]
  /\ ballots' = ballots \cup {<<n, term[n] + 1, n>>}
  /\ UNCHANGED <<log, commitIndex, nextIndex, matchIndex, elected>>

\* candidate_log_is_fresh on node m
CandidateLogIsFresh(m, q) ==
  \/ q.lastLogTerm > LastTerm(log[m])
  \/ q.lastLogTerm = LastTerm(log[m]) /\ q.lastLogIndex >= LastIndex(log[m])

\* !voted_for_.has_value() || voted_for_.value() == request.candidate_id, once
\* a higher term has cleared the vote.  The variant forgets earlier votes.
AvailableAlways(m, n, q) == TRUE
Available(m, n, q) == q.term > term[m] \/ votedFor[m] \in {Nil, n}

\* What request_vote on m answers to the request q of n.
Grants(m, n, q) ==
  q.term >= term[m] /\ Available(m, n, q) /\ CandidateLogIsFresh(m, q)

VoteTerm(m, q) == IF q.term > term[m] THEN q.term ELSE term[m]

\* votes_received_ > cluster_size / 2; the division is an integer one.
Majority(votes) == votes > ClusterSize \div 2

\* m's fields after request_vote.
VoteRole(m, q) == IF q.term > term[m] THEN "follower" ELSE role[m]
VoteFor(m, n, q) ==
  IF Grants(m, n, q) THEN n ELSE IF q.term > term[m] THEN Nil ELSE votedFor[m]

\* observe_vote on a node that has a majority now.
BecomeLeader(n) ==
  /\ nextIndex' = [nextIndex EXCEPT ![n] =
       [m \in Nodes |-> IF nextIndex[n][m] = Nil THEN Nil ELSE LastIndex(log[n]) + 1]]
  /\ matchIndex' = [matchIndex EXCEPT ![n] =
       [m \in Nodes |-> IF matchIndex[n][m] = Nil THEN Nil ELSE 0]]
  /\ elected' = elected \cup {<<n, term[n]>>}

\* The caller shows n's request to m, and m's answer is lost.
AskVoteLost(n, m) ==
  LET q == request[n] IN
  /\ m # n /\ q # Nil /\ m \notin asked[n]
  /\ asked' = [asked EXCEPT ![n] = @ \cup {m}]
  /\ term' = [term EXCEPT ![m] = VoteTerm(m, q)]
  /\ role' = [role EXCEPT ![m] = VoteRole(m, q)]
  /\ votedFor' = [votedFor EXCEPT ![m] = VoteFor(m, n, q)]
  /\ UNCHANGED <<log, commitIndex, votesReceived, nextIndex, matchIndex, request, elected, ballots>>

\* The caller shows n's request to m and m's answer to n: request_vote, then
\* observe_vote.
AskVote(n, m) ==
  LET q == request[n]
      higher == VoteTerm(m, q) > term[n]
      counted == ~higher /\ role[n] = "candidate" /\ Grants(m, n, q)
      votes == IF counted THEN votesReceived[n] + 1 ELSE votesReceived[n]
      wins == ~higher /\ role[n] = "candidate" /\ Majority(votes) IN
  /\ m # n /\ q # Nil /\ m \notin asked[n]
  /\ asked' = [asked EXCEPT ![n] = @ \cup {m}]
  /\ term' = [term EXCEPT ![m] = VoteTerm(m, q), ![n] = IF higher THEN VoteTerm(m, q) ELSE @]
  /\ role' = [role EXCEPT ![m] = VoteRole(m, q),
                          ![n] = IF higher THEN "follower" ELSE IF wins THEN "leader" ELSE @]
  /\ votedFor' = [votedFor EXCEPT ![m] = VoteFor(m, n, q), ![n] = IF higher THEN Nil ELSE @]
  /\ votesReceived' = [votesReceived EXCEPT ![n] = votes]
  /\ IF wins THEN BecomeLeader(n) ELSE UNCHANGED <<nextIndex, matchIndex, elected>>
  /\ ballots' = IF counted THEN ballots \cup {<<m, term[n], n>>} ELSE ballots
  /\ UNCHANGED <<log, commitIndex, request>>

-----------------------------------------------------------------------------
(* Log replication *)

\* make_append_entries(follower m) on n
NextFor(n, m) == IF nextIndex[n][m] = Nil THEN LastIndex(log[n]) + 1 ELSE nextIndex[n][m]

\* The entries whose index is at least next.  The i-th entry of a log has index
\* i (LogIndexed), so they are its tail from there.
EntriesFrom(l, next) == SubSeq(l, IF next = 0 THEN 1 ELSE next, Len(l))

MakeAppendEntries(n, m) ==
  LET next == NextFor(n, m)
      prev == IF next = 0 THEN 0 ELSE next - 1 IN
  [term         |-> term[n],
   prevLogIndex |-> prev,
   prevLogTerm  |-> IF prev = 0 \/ Len(log[n]) < prev THEN 0 ELSE log[n][prev].term,
   leaderCommit |-> commitIndex[n],
   entries      |-> EntriesFrom(log[n], next)]

\* The log of m holds the entry before the new ones.  The variant compares no
\* terms.
HoldsIndexOnly(m, q) == Len(log[m]) >= q.prevLogIndex
HoldsPrevious(m, q) ==
  q.prevLogIndex > 0 =>
    Len(log[m]) >= q.prevLogIndex /\ log[m][q.prevLogIndex].term = q.prevLogTerm

\* The loop over request.entries.  Their indexes are consecutive, so only the
\* first one can cut the log back.  The variants cut one entry too few and one
\* too many.
SpliceLate(l, entries) ==
  IF entries = <<>> THEN l
  ELSE SubSeq(l, 1, IF Len(l) >= entries[1].index THEN entries[1].index ELSE Len(l)) \o entries
SpliceEarly(l, entries) ==
  IF entries = <<>> THEN l
  ELSE SubSeq(l, 1, entries[1].index - 2) \o entries
Splice(l, entries) ==
  IF entries = <<>> THEN l
  ELSE SubSeq(l, 1, IF Len(l) >= entries[1].index THEN entries[1].index - 1 ELSE Len(l)) \o entries

\* The two loops as they are written: that of make_append_entries collects the
\* entries of the log from next on,
Collect(l, next) ==
  LET out[i \in 0 .. Len(l)] ==
        IF i = 0 THEN <<>>
        ELSE IF l[i].index >= next THEN Append(out[i - 1], l[i]) ELSE out[i - 1] IN
  out[Len(l)]

\* and that of append_entries cuts the log back to just before each entry if it is
\* that long, and appends the entry.
AppendOne(l, e) ==
  Append(IF Len(l) >= e.index THEN SubSeq(l, 1, e.index - 1) ELSE l, e)
AppendEach(l, entries) ==
  LET out[i \in 0 .. Len(entries)] ==
        IF i = 0 THEN l ELSE AppendOne(out[i - 1], entries[i]) IN
  out[Len(entries)]

\* std::min(request.leader_commit, index of the last entry)
FollowerCommit(leaderCommit, l) ==
  IF leaderCommit < LastIndex(l) THEN leaderCommit ELSE LastIndex(l)

\* A node that is sent entries of its term or a higher one follows.  The variant
\* stays what it was.
RoleKept(m) == role[m]
RoleAfterAppend(m) == "follower"

Accepts(m, q) == q.term >= term[m] /\ HoldsPrevious(m, q)

\* append_entries on m, without the fields the leader n shares with it.
AppendEntriesLog(m, q) ==
  IF Accepts(m, q)
  THEN LET l == Splice(log[m], q.entries) IN
       /\ log' = [log EXCEPT ![m] = l]
       /\ commitIndex' = [commitIndex EXCEPT ![m] = FollowerCommit(q.leaderCommit, l)]
  ELSE UNCHANGED <<log, commitIndex>>

\* Exchange an append-entries call between the leader n and m; the answer is
\* lost.
ReplicateLost(n, m) ==
  LET q == MakeAppendEntries(n, m) IN
  /\ role[n] = "leader" /\ m # n
  /\ AppendEntriesLog(m, q)
  /\ IF q.term >= term[m]
     THEN /\ term' = [term EXCEPT ![m] = q.term]
          /\ role' = [role EXCEPT ![m] = RoleAfterAppend(m)]
          /\ votedFor' = [votedFor EXCEPT ![m] = n]
     ELSE UNCHANGED <<term, role, votedFor>>
  /\ UNCHANGED <<votesReceived, nextIndex, matchIndex, request, asked, elected, ballots>>

\* if (next > 1) next--, on a map entry that is created as 0 when missing.  The
\* variant has no test.
NextDecremented(next) == (IF next = Nil THEN 0 ELSE next) - 1
NextAfterReject(next) == IF next = Nil THEN 0 ELSE IF next > 1 THEN next - 1 ELSE next

\* The highest index above the commit index that a majority is known to hold
\* and whose entry is of the current term.
CommitAfterAck(n, matched) ==
  LET last == LastIndex(log[n])
      replicated(i) == 1 + Cardinality({p \in Nodes : matched[p] # Nil /\ matched[p] >= i})
      ready == {i \in commitIndex[n] + 1 .. last :
                  Majority(replicated(i)) /\ log[n][i].term = term[n]} IN
  IF ready = {} THEN commitIndex[n] ELSE CHOOSE i \in ready : \A k \in ready : k <= i

\* append_entries on m, then observe_append_entries_response on n.
Replicate(n, m) ==
  LET q == MakeAppendEntries(n, m)
      last == LastIndex(log[n])
      matched == [matchIndex[n] EXCEPT ![m] = last] IN
  /\ role[n] = "leader" /\ m # n
  /\ \/ /\ q.term < term[m]
        /\ StepDown(n, term[m])
        /\ UNCHANGED <<log, commitIndex, nextIndex, matchIndex>>
     \/ /\ q.term >= term[m]
        /\ term' = [term EXCEPT ![m] = q.term]
        /\ role' = [role EXCEPT ![m] = RoleAfterAppend(m)]
        /\ votedFor' = [votedFor EXCEPT ![m] = n]
        /\ \/ /\ ~HoldsPrevious(m, q)
              /\ nextIndex' = [nextIndex EXCEPT ![n][m] = NextAfterReject(@)]
              /\ UNCHANGED <<log, commitIndex, matchIndex>>
           \/ /\ HoldsPrevious(m, q)
              /\ LET l == Splice(log[m], q.entries) IN
                 /\ log' = [log EXCEPT ![m] = l]
                 /\ commitIndex' = [commitIndex EXCEPT
                                      ![m] = FollowerCommit(q.leaderCommit, l),
                                      ![n] = CommitAfterAck(n, matched)]
              /\ matchIndex' = [matchIndex EXCEPT ![n] = matched]
              /\ nextIndex' = [nextIndex EXCEPT ![n][m] = last + 1]
  /\ UNCHANGED <<votesReceived, request, asked, elected, ballots>>

\* append_client_command: the leader counts its new entry as committed.  The
\* variant leaves that to the acknowledgements.
CommitUnmoved(n, index) == commitIndex[n]
CommitOnAppend(n, index) == index

AppendClientCommand(n, c) ==
  LET entry == [index |-> LastIndex(log[n]) + 1, term |-> term[n], command |-> c] IN
  /\ role[n] = "leader"
  /\ Len(log[n]) < MaxLog
  /\ log' = [log EXCEPT ![n] = Append(@, entry)]
  /\ commitIndex' = [commitIndex EXCEPT ![n] = CommitOnAppend(n, entry.index)]
  /\ UNCHANGED <<role, term, votedFor, votesReceived, nextIndex, matchIndex, request, asked,
                 elected, ballots>>

-----------------------------------------------------------------------------
(* Configuration *)

\* configure_cluster on every node, each with all the others as its peers; the
\* caller wires the cluster, if at all, before the first election.
ConfigureCluster ==
  /\ \A n \in Nodes : term[n] = 0
  /\ nextIndex' = [n \in Nodes |-> [m \in Nodes |->
                     IF m = n THEN nextIndex[n][m] ELSE LastIndex(log[n]) + 1]]
  /\ matchIndex' = [n \in Nodes |-> [m \in Nodes |-> IF m = n THEN matchIndex[n][m] ELSE 0]]
  /\ UNCHANGED <<role, term, votedFor, log, commitIndex, votesReceived, request, asked, elected,
                 ballots>>

-----------------------------------------------------------------------------

Next ==
  \/ ConfigureCluster
  \/ \E n \in Nodes : \/ StartElection(n)
                      \/ \E c \in Commands : AppendClientCommand(n, c)
  \/ \E n, m \in Nodes : \/ AskVote(n, m) \/ AskVoteLost(n, m)
                         \/ Replicate(n, m) \/ ReplicateLost(n, m)

Spec == Init /\ [][Next]_vars

-----------------------------------------------------------------------------
(* Properties *)

\* Election safety: no term ever has two leaders, however votes, lost answers
\* and appends from other leaders interleave.
ElectionSafety == \A d, e \in elected : d[2] = e[2] => d[1] = e[1]

\* Two logs that hold an entry of the same index and term agree up to it.
LogMatching ==
  \A n, m \in Nodes : \A i \in DOMAIN log[n] \cap DOMAIN log[m] :
     log[n][i].term = log[m][i].term => SubSeq(log[n], 1, i) = SubSeq(log[m], 1, i)

\* The i-th entry of a log has index i: the code takes the index of the last
\* entry for the size of the log and addresses log_[index - 1].
LogIndexed == \A n \in Nodes : \A i \in DOMAIN log[n] : log[n][i].index = i

\* No node counts more entries as committed than it has.
CommitWithinLog == \A n \in Nodes : commitIndex[n] <= Len(log[n])

\* A leader never drops or overwrites an entry of its own log.
LeaderAppendOnly ==
  [][\A n \in Nodes :
       role[n] = "leader" /\ role'[n] = "leader"
         => Len(log'[n]) >= Len(log[n]) /\ SubSeq(log'[n], 1, Len(log[n])) = log[n]]_vars

\* What a leader has marked as matched is in the log of the follower, as long as
\* the follower is of the leader's term: match_index_ is set from the leader's
\* log of the moment and not from the request that was acknowledged, and commits
\* rest on it.
MatchedIsReplicated ==
  \A n, m \in Nodes :
     role[n] = "leader" /\ matchIndex[n][m] # Nil /\ term[m] = term[n] =>
       \A i \in 1 .. matchIndex[n][m] : i \in DOMAIN log[m] /\ log[m][i] = log[n][i]

\* EntriesFrom and Splice together compute what the two loops compute, that of
\* make_append_entries over the leader's log and that of append_entries over the
\* entries it chose, for every request a leader can send to every peer.
SpliceIsTheLoop ==
  \A n, m \in Nodes :
     LET q == MakeAppendEntries(n, m) IN
     role[n] = "leader" /\ Accepts(m, q)
       => Splice(log[m], q.entries) = AppendEach(log[m], Collect(log[n], NextFor(n, m)))

\* "majority commit advancement": what a leader counts as committed in its own
\* term is in the logs of a majority.
MajorityCommit ==
  \A n \in Nodes : \A i \in 1 .. commitIndex[n] :
     role[n] = "leader" /\ log[n][i].term = term[n] =>
       Majority(Cardinality({m \in Nodes : i \in DOMAIN log[m] /\ log[m][i] = log[n][i]}))
=============================================================================
