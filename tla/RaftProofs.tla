----------------------------- MODULE RaftProofs -----------------------------
(***************************************************************************)
(* What RaftNode keeps true, for every number of nodes, commands, terms    *)
(* and entries, and however answers are lost, when the caller shows each   *)
(* request to each peer once and hands over the answers in order.          *)
(*                                                                         *)
(* Elections: no term has two leaders.  A leader has counted the votes of  *)
(* a majority; a node's vote in a term is counted by one candidate only;   *)
(* two majorities meet.  The middle part is not obvious in this code,      *)
(* because append_entries overwrites voted_for_ with the leader's id in    *)
(* the same term: a node may vote twice in a term, but the second time     *)
(* only for a leader that is elected already and does not count it.        *)
(*                                                                         *)
(* Logs: a follower that accepts a call holds the whole log of the leader  *)
(* afterwards (Delivered): a call carries everything from next_index_ on,  *)
(* and what comes before is equal by log matching.  So a log changes in    *)
(* two ways only: its leader appends to it, or it becomes the leader's.    *)
(* That two logs agree then rests on election safety: entries of a term    *)
(* are made by the one leader of that term, whose log is the longest that  *)
(* holds any of them (LeaderHolds).                                        *)
(*                                                                         *)
(* Loops: the two loops over log entries compute the closed forms the      *)
(* actions use, by induction over the entries they have gone through.      *)
(***************************************************************************)
EXTENDS Raft, Iteration, FiniteSetTheorems, SequenceTheorems

-----------------------------------------------------------------------------
(* Elections *)

Voters(n, t) == {m \in Nodes : <<m, t, n>> \in ballots}

ElectionTypes ==
  /\ role \in [Nodes -> Roles]
  /\ term \in [Nodes -> Nat]
  /\ votedFor \in [Nodes -> Nodes \cup {Nil}]
  /\ votesReceived \in [Nodes -> Nat]
  /\ asked \in [Nodes -> SUBSET Nodes]
  /\ request = [n \in Nodes |-> request[n]]
  /\ \A n \in Nodes : request[n] # Nil => request[n].term \in Nat
  /\ elected \subseteq Nodes \X Nat
  /\ ballots \subseteq Nodes \X Nat \X Nodes

\* A candidate's votes are those of the peers it has asked, and its own.
CandidateCounts(n) ==
  role[n] = "candidate" =>
    /\ request[n].term = term[n]
    /\ <<n, term[n]>> \notin elected
    /\ votesReceived[n] <= Cardinality(Voters(n, term[n]) \cap (asked[n] \cup {n}))

\* Whoever leads was elected, and whoever was elected has a majority.
LeaderElected(n) == role[n] = "leader" => <<n, term[n]>> \in elected

ElectedByMajority ==
  \A n \in Nodes, t \in Nat :
     <<n, t>> \in elected => term[n] >= t /\ Majority(Cardinality(Voters(n, t)))

OneBallot ==
  \A m, n, p \in Nodes, t \in Nat :
     <<m, t, n>> \in ballots /\ <<m, t, p>> \in ballots => n = p

\* A node whose vote of term t was counted remembers it as long as it is in
\* term t, or follows the leader of that term.
BallotKept ==
  \A m, n \in Nodes, t \in Nat :
     <<m, t, n>> \in ballots =>
       \/ term[m] > t
       \/ term[m] = t /\ (votedFor[m] = n \/ <<votedFor[m], t>> \in elected)

ElectionInv ==
  /\ ElectionTypes
  /\ \A n \in Nodes : CandidateCounts(n) /\ LeaderElected(n)
  /\ ElectedByMajority
  /\ OneBallot
  /\ BallotKept

-----------------------------------------------------------------------------
(* Votes and majorities *)

\* Sets of nodes are finite and their cardinalities are monotonic.
LEMMA NodeSets ==
  /\ ClusterSize \in Nat
  /\ \A S \in SUBSET Nodes : IsFiniteSet(S) /\ Cardinality(S) \in Nat
  /\ \A S, R \in SUBSET Nodes : S \subseteq R => Cardinality(S) <= Cardinality(R)
<1>1. ClusterSize \in Nat
  BY RaftNodesAssumption, FS_CardinalityType DEF ClusterSize
<1>2. \A S \in SUBSET Nodes : IsFiniteSet(S)
  BY RaftNodesAssumption, FS_Subset
<1>3. \A S \in SUBSET Nodes : Cardinality(S) \in Nat
  BY <1>2, FS_CardinalityType
<1>4. \A S, R \in SUBSET Nodes : S \subseteq R => Cardinality(S) <= Cardinality(R)
  BY <1>2, FS_Subset
<1> QED BY <1>1, <1>2, <1>3, <1>4

\* Two sets of nodes that each are more than half of them have a common node.
LEMMA MajoritiesMeet ==
  ASSUME NEW S \in SUBSET Nodes, NEW R \in SUBSET Nodes,
         Majority(Cardinality(S)), Majority(Cardinality(R))
  PROVE  \E m \in Nodes : m \in S /\ m \in R
<1>1. Cardinality(S) \in Nat /\ Cardinality(R) \in Nat /\ ClusterSize \in Nat
  BY NodeSets
<1>2. Cardinality(S) + Cardinality(R) > Cardinality(Nodes)
  BY <1>1 DEF Majority, ClusterSize
<1>3. S \cap R # {}
  BY <1>2, RaftNodesAssumption, FS_MajoritiesIntersect
<1> QED BY <1>3

\* The voters of an election are nodes.
LEMMA VotersAreNodes == \A n \in Nodes, t \in Nat : Voters(n, t) \in SUBSET Nodes
BY DEF Voters

\* The invariant implies election safety.
LEMMA ElectionInvSafe == ElectionInv => ElectionSafety
<1> SUFFICES ASSUME ElectionInv, NEW d \in elected, NEW e \in elected, d[2] = e[2]
             PROVE  d[1] = e[1]
  BY DEF ElectionSafety
<1>1. /\ d = <<d[1], d[2]>> /\ d[1] \in Nodes /\ d[2] \in Nat
      /\ e = <<e[1], e[2]>> /\ e[1] \in Nodes
  BY DEF ElectionInv, ElectionTypes
<1>2. Majority(Cardinality(Voters(d[1], d[2]))) /\ Majority(Cardinality(Voters(e[1], d[2])))
  BY <1>1 DEF ElectionInv, ElectedByMajority
<1>3. PICK m \in Nodes : m \in Voters(d[1], d[2]) /\ m \in Voters(e[1], d[2])
  BY <1>1, <1>2, MajoritiesMeet, VotersAreNodes
<1> QED BY <1>1, <1>3 DEF Voters, ElectionInv, OneBallot

\* The invariant holds of the initial states.
LEMMA ElectionInit == Init => ElectionInv
<1> SUFFICES ASSUME Init PROVE ElectionInv
  OBVIOUS
<1>1. ElectionTypes
  BY DEF Init, ElectionTypes, Roles
<1>2. \A n \in Nodes : CandidateCounts(n) /\ LeaderElected(n)
  BY DEF Init, CandidateCounts, LeaderElected
<1> QED BY <1>1, <1>2 DEF Init, ElectionInv, ElectedByMajority, OneBallot, BallotKept

\* A step in which nobody wins and no vote is counted: nodes only move to
\* higher terms as followers, stop being candidates or leaders, cast a first
\* vote or turn to a leader.
Quiet ==
  /\ UNCHANGED <<votesReceived, request, elected, ballots>>
  /\ \A p \in Nodes : asked[p] \subseteq asked'[p]
  /\ \A p \in Nodes :
       \/ /\ term'[p] = term[p]
          /\ role'[p] \in {role[p], "follower"}
          /\ votedFor'[p] = votedFor[p] \/ votedFor[p] = Nil \/ <<votedFor'[p], term[p]>> \in elected
       \/ term'[p] > term[p] /\ role'[p] = "follower"

\* A quiet step keeps the invariant.
LEMMA QuietStep ==
  ASSUME ElectionInv, ElectionTypes', Quiet
  PROVE  ElectionInv'
<1>0. ElectionTypes
  BY DEF ElectionInv
<1>a. \A n \in Nodes, t \in Nat : Voters(n, t)' = Voters(n, t)
  BY DEF Quiet, Voters
<1>b. \A p \in Nodes : term'[p] \in Nat /\ term[p] \in Nat /\ term'[p] >= term[p]
  <2>1. \A p \in Nodes : term'[p] \in Nat /\ term[p] \in Nat
    BY <1>0 DEF ElectionTypes
  <2>2. \A p \in Nodes : term'[p] = term[p] \/ term'[p] > term[p]
    BY DEF Quiet
  <2> QED BY <2>1, <2>2
<1>1. ASSUME NEW n \in Nodes
      PROVE  CandidateCounts(n)'
  <2> SUFFICES ASSUME role'[n] = "candidate"
               PROVE  /\ request'[n].term = term'[n]
                      /\ <<n, term'[n]>> \notin elected'
                      /\ votesReceived'[n] <= Cardinality(Voters(n, term[n])' \cap (asked'[n] \cup {n}))
    BY <1>b DEF CandidateCounts, Quiet, Voters
  <2>1. role[n] = "candidate" /\ term'[n] = term[n]
    BY DEF Quiet
  <2>2. CandidateCounts(n)
    BY DEF ElectionInv
  <2> DEFINE S == Voters(n, term[n]) \cap (asked[n] \cup {n})
             R == Voters(n, term[n]) \cap (asked'[n] \cup {n})
  <2>3. S \in SUBSET Nodes /\ R \in SUBSET Nodes /\ S \subseteq R
    BY <1>0, <1>b, VotersAreNodes DEF ElectionTypes, Quiet
  <2>4. Cardinality(S) <= Cardinality(R) /\ Cardinality(S) \in Nat /\ Cardinality(R) \in Nat
    BY <2>3, NodeSets
  <2>5. Voters(n, term[n])' = Voters(n, term[n])
    BY <2>1 DEF Voters, Quiet
  <2>6. votesReceived'[n] <= Cardinality(R)
    <3>1. votesReceived'[n] <= Cardinality(S)
      BY <2>1, <2>2 DEF CandidateCounts, Quiet
    <3>2. votesReceived'[n] \in Nat
      BY DEF ElectionTypes
    <3> HIDE DEF S, R
    <3> QED BY <2>4, <3>1, <3>2
  <2> QED BY <2>1, <2>2, <2>5, <2>6 DEF CandidateCounts, Quiet
<1>2. ASSUME NEW n \in Nodes
      PROVE  LeaderElected(n)'
  BY DEF Quiet, ElectionInv, LeaderElected
<1>3. ElectedByMajority'
  <2> SUFFICES ASSUME NEW n \in Nodes, NEW t \in Nat, <<n, t>> \in elected'
               PROVE  term'[n] >= t /\ Majority(Cardinality(Voters(n, t)'))
    BY DEF ElectedByMajority, Majority, ClusterSize
  <2>1. term[n] >= t /\ Majority(Cardinality(Voters(n, t)))
    BY DEF Quiet, ElectionInv, ElectedByMajority
  <2> QED BY <1>a, <1>b, <2>1
<1>4. OneBallot'
  BY DEF Quiet, ElectionInv, OneBallot
<1>5. BallotKept'
  <2> SUFFICES ASSUME NEW m \in Nodes, NEW n \in Nodes, NEW t \in Nat, <<m, t, n>> \in ballots
               PROVE  \/ term'[m] > t
                      \/ term'[m] = t /\ (votedFor'[m] = n \/ <<votedFor'[m], t>> \in elected)
    BY DEF BallotKept, Quiet
  <2>1. \/ term[m] > t
        \/ term[m] = t /\ (votedFor[m] = n \/ <<votedFor[m], t>> \in elected)
    BY DEF ElectionInv, BallotKept
  <2>2. CASE term[m] > t \/ term'[m] > term[m]
    BY <1>b, <2>1, <2>2
  <2>3. CASE term[m] = t /\ ~(term'[m] > term[m])
    <3>1. /\ term'[m] = t
          /\ votedFor'[m] = votedFor[m] \/ votedFor[m] = Nil \/ <<votedFor'[m], t>> \in elected
      BY <1>b, <2>3 DEF Quiet
    <3>2. votedFor[m] # Nil
      BY <1>0, <2>1, <2>3, RaftNodesAssumption DEF ElectionTypes
    <3> QED BY <2>1, <2>3, <3>1, <3>2
  <2> QED BY <1>b, <2>1, <2>2, <2>3
<1> QED BY <1>1, <1>2, <1>3, <1>4, <1>5 DEF ElectionInv

-----------------------------------------------------------------------------
(* The steps *)

\* What request_vote does to the voter m keeps to Quiet.
LEMMA VoterMoves ==
  ASSUME ElectionInv, NEW n \in Nodes, NEW m \in Nodes, request[n] # Nil
  PROVE  LET q == request[n] IN
         /\ q.term \in Nat
         /\ VoteTerm(m, q) \in Nat
         /\ VoteRole(m, q) \in Roles
         /\ VoteFor(m, n, q) \in Nodes \cup {Nil}
         /\ \/ /\ VoteTerm(m, q) = term[m]
               /\ VoteRole(m, q) = role[m]
               /\ VoteFor(m, n, q) = votedFor[m] \/ votedFor[m] = Nil
            \/ VoteTerm(m, q) > term[m] /\ VoteRole(m, q) = "follower"
         /\ Grants(m, n, q) => VoteTerm(m, q) = q.term /\ VoteFor(m, n, q) = n
<1> DEFINE q == request[n]
<1>1. q.term \in Nat /\ term[m] \in Nat /\ role[m] \in Roles /\ votedFor[m] \in Nodes \cup {Nil}
  BY DEF ElectionInv, ElectionTypes
<1>a. VoteFor(m, n, q) =
        IF Grants(m, n, q) THEN n ELSE IF q.term > term[m] THEN Nil ELSE votedFor[m]
  BY DEF VoteFor
<1>b. Grants(m, n, q) => VoteFor(m, n, q) = n
  BY <1>a
<1>2. CASE q.term > term[m]
  <2>1. VoteFor(m, n, q) \in Nodes \cup {Nil}
    BY <1>2, <1>a
  <2>2. VoteTerm(m, q) = q.term /\ VoteRole(m, q) = "follower" /\ VoteRole(m, q) \in Roles
    BY <1>2 DEF VoteTerm, VoteRole, Roles
  <2> QED BY <1>1, <1>2, <1>b, <2>1, <2>2
<1>3. CASE ~(q.term > term[m])
  <2>1. Grants(m, n, q) => votedFor[m] \in {Nil, n} /\ q.term = term[m]
    BY <1>1, <1>3 DEF Grants, Available
  <2>2. VoteTerm(m, q) = term[m] /\ VoteRole(m, q) = role[m]
    BY <1>3 DEF VoteTerm, VoteRole
  <2>3. VoteFor(m, n, q) = votedFor[m] \/ votedFor[m] = Nil
    BY <1>3, <1>a, <2>1
  <2>4. VoteFor(m, n, q) \in Nodes \cup {Nil}
    BY <1>1, <1>3, <1>a
  <2> QED BY <1>1, <1>b, <2>1, <2>2, <2>3, <2>4
<1> QED BY <1>2, <1>3

\* A vote that is cast and whose answer is lost is a quiet step.
LEMMA LostVoteStep ==
  ASSUME ElectionInv, NEW n \in Nodes, NEW m \in Nodes, AskVoteLost(n, m)
  PROVE  ElectionInv'
<1> DEFINE q == request[n]
<1>0. ElectionTypes
  BY DEF ElectionInv
<1>1. /\ q # Nil
      /\ asked' = [asked EXCEPT ![n] = @ \cup {m}]
      /\ term' = [term EXCEPT ![m] = VoteTerm(m, q)]
      /\ role' = [role EXCEPT ![m] = VoteRole(m, q)]
      /\ votedFor' = [votedFor EXCEPT ![m] = VoteFor(m, n, q)]
      /\ UNCHANGED <<votesReceived, request, elected, ballots>>
  BY DEF AskVoteLost
<1>2. /\ VoteTerm(m, q) \in Nat
      /\ VoteRole(m, q) \in Roles
      /\ VoteFor(m, n, q) \in Nodes \cup {Nil}
      /\ \/ /\ VoteTerm(m, q) = term[m]
            /\ VoteRole(m, q) = role[m]
            /\ VoteFor(m, n, q) = votedFor[m] \/ votedFor[m] = Nil
         \/ VoteTerm(m, q) > term[m] /\ VoteRole(m, q) = "follower"
  BY <1>1, VoterMoves
<1> HIDE DEF q
<1>3. ElectionTypes'
  BY <1>0, <1>1, <1>2 DEF ElectionTypes
<1>4. Quiet
  BY <1>0, <1>1, <1>2 DEF ElectionTypes, Quiet
<1> QED BY <1>3, <1>4, QuietStep

\* A new election starts with the candidate's own vote in a term in which it has
\* neither voted nor led.
LEMMA StartElectionStep ==
  ASSUME ElectionInv, NEW n \in Nodes, StartElection(n)
  PROVE  ElectionInv'
<1> DEFINE T == term[n] + 1
<1>0. ElectionTypes
  BY DEF ElectionInv
<1>1. /\ role' = [role EXCEPT ![n] = "candidate"]
      /\ term' = [term EXCEPT ![n] = T]
      /\ votedFor' = [votedFor EXCEPT ![n] = n]
      /\ votesReceived' = [votesReceived EXCEPT ![n] = 1]
      /\ asked' = [asked EXCEPT ![n] = {}]
      /\ ballots' = ballots \cup {<<n, T, n>>}
      /\ elected' = elected
  BY DEF StartElection
<1>2. /\ request' = [n0 \in Nodes |-> request'[n0]]
      /\ request'[n].term = T
      /\ \A p \in Nodes : p # n => request'[p] = request[p]
  BY <1>0 DEF StartElection, ElectionTypes
<1>3. term[n] \in Nat /\ T \in Nat
  BY <1>0 DEF ElectionTypes
<1> HIDE DEF T
<1>4. ElectionTypes'
  <2>1. /\ role' \in [Nodes -> Roles] /\ term' \in [Nodes -> Nat]
        /\ votedFor' \in [Nodes -> Nodes \cup {Nil}] /\ votesReceived' \in [Nodes -> Nat]
        /\ asked' \in [Nodes -> SUBSET Nodes]
    BY <1>0, <1>1, <1>3 DEF ElectionTypes, Roles
  <2>2. elected' \subseteq Nodes \X Nat /\ ballots' \subseteq Nodes \X Nat \X Nodes
    BY <1>0, <1>1, <1>3 DEF ElectionTypes
  <2>3. \A p \in Nodes : request'[p] # Nil => request'[p].term \in Nat
    BY <1>0, <1>2, <1>3 DEF ElectionTypes
  <2> QED BY <1>2, <2>1, <2>2, <2>3 DEF ElectionTypes
<1>a. \A p \in Nodes : p # n => /\ role'[p] = role[p] /\ term'[p] = term[p]
                                /\ votedFor'[p] = votedFor[p] /\ asked'[p] = asked[p]
                                /\ votesReceived'[p] = votesReceived[p]
  BY <1>0, <1>1 DEF ElectionTypes
<1>b. /\ role'[n] = "candidate" /\ term'[n] = T /\ votedFor'[n] = n
      /\ asked'[n] = {} /\ votesReceived'[n] = 1
  BY <1>0, <1>1 DEF ElectionTypes
<1>c. T > term[n] /\ <<n, T>> \notin elected
  BY <1>3 DEF T, ElectionInv, ElectedByMajority
<1>d. \A p \in Nodes : <<n, T, p>> \notin ballots
  <2> SUFFICES ASSUME NEW p \in Nodes, <<n, T, p>> \in ballots PROVE FALSE
    OBVIOUS
  <2>1. term[n] > T \/ term[n] = T
    BY <1>3 DEF ElectionInv, BallotKept
  <2> QED BY <1>3, <1>c, <2>1
<1>5. CandidateCounts(n)'
  <2>1. Voters(n, term[n])' \cap (asked'[n] \cup {n}) = {n}
    BY <1>1, <1>b DEF Voters
  <2>2. Cardinality({n}) = 1
    BY FS_Singleton
  <2>3. votesReceived'[n] <= Cardinality(Voters(n, term[n])' \cap (asked'[n] \cup {n}))
    BY <1>b, <2>1, <2>2
  <2>4. request'[n].term = term'[n] /\ <<n, term'[n]>> \notin elected'
    BY <1>1, <1>2, <1>b, <1>c
  <2> QED BY <2>3, <2>4 DEF CandidateCounts
<1>6. ASSUME NEW p \in Nodes, p # n
      PROVE  CandidateCounts(p)'
  <2>1. Voters(p, term[p])' = Voters(p, term[p])
    BY <1>1, <1>a, <1>6 DEF Voters
  <2> QED BY <1>1, <1>2, <1>a, <1>6, <2>1 DEF CandidateCounts, ElectionInv
<1>7. \A p \in Nodes : LeaderElected(p)'
  BY <1>1, <1>a, <1>b DEF LeaderElected, ElectionInv
<1>8. ElectedByMajority'
  <2> SUFFICES ASSUME NEW p \in Nodes, NEW t \in Nat, <<p, t>> \in elected
               PROVE  term'[p] >= t /\ Majority(Cardinality(Voters(p, t)'))
    BY <1>1 DEF ElectedByMajority, Majority, ClusterSize
  <2>1. term[p] >= t /\ Majority(Cardinality(Voters(p, t)))
    BY DEF ElectionInv, ElectedByMajority
  <2>2. Voters(p, t)' = Voters(p, t)
    BY <1>1, <1>c DEF Voters
  <2>3. term'[p] >= t
    BY <1>0, <1>3, <1>a, <1>b, <1>c, <2>1 DEF ElectionTypes
  <2> QED BY <2>1, <2>2, <2>3
<1>9. OneBallot'
  BY <1>1, <1>d DEF OneBallot, ElectionInv
<1>10. BallotKept'
  <2> SUFFICES ASSUME NEW m \in Nodes, NEW p \in Nodes, NEW t \in Nat, <<m, t, p>> \in ballots'
               PROVE  \/ term'[m] > t
                      \/ term'[m] = t /\ (votedFor'[m] = p \/ <<votedFor'[m], t>> \in elected)
    BY <1>1 DEF BallotKept
  <2>1. CASE <<m, t, p>> = <<n, T, n>>
    BY <1>b, <2>1
  <2>2. CASE <<m, t, p>> \in ballots
    <3>1. \/ term[m] > t
          \/ term[m] = t /\ (votedFor[m] = p \/ <<votedFor[m], t>> \in elected)
      BY <2>2 DEF ElectionInv, BallotKept
    <3>2. CASE m = n
      BY <1>3, <1>b, <1>c, <3>1, <3>2
    <3>3. CASE m # n
      BY <1>a, <3>1, <3>3
    <3> QED BY <3>2, <3>3
  <2> QED BY <1>1, <2>1, <2>2
<1> QED BY <1>4, <1>5, <1>6, <1>7, <1>8, <1>9, <1>10 DEF ElectionInv

\* A candidate n handles the answer of m: it may count m's vote, and it may win.
Answered(n, m, votes) ==
  /\ m # n /\ m \notin asked[n] /\ role[n] = "candidate" /\ request[n] # Nil
  /\ \/ votes = votesReceived[n] /\ ballots' = ballots
     \/ /\ Grants(m, n, request[n])
        /\ votes = votesReceived[n] + 1
        /\ ballots' = ballots \cup {<<m, term[n], n>>}
  /\ \/ role'[n] = "leader" /\ Majority(votes) /\ elected' = elected \cup {<<n, term[n]>>}
     \/ role'[n] = "candidate" /\ elected' = elected
  /\ request' = request
  /\ term'[n] = term[n] /\ votedFor'[n] = votedFor[n]
  /\ asked'[n] = asked[n] \cup {m} /\ votesReceived'[n] = votes
  /\ term'[m] = VoteTerm(m, request[n])
  /\ role'[m] = VoteRole(m, request[n])
  /\ votedFor'[m] = VoteFor(m, n, request[n])
  /\ \A p \in Nodes : p # n => asked'[p] = asked[p] /\ votesReceived'[p] = votesReceived[p]
  /\ \A p \in Nodes : p # n /\ p # m => /\ term'[p] = term[p]
                                        /\ role'[p] = role[p]
                                        /\ votedFor'[p] = votedFor[p]

\* Counting a vote, and winning by it, keeps the invariant: m was not asked
\* before, and it has voted for nobody else in this term.
LEMMA AnsweredStep ==
  ASSUME ElectionInv, ElectionTypes', NEW n \in Nodes, NEW m \in Nodes, NEW votes \in Nat,
         Answered(n, m, votes)
  PROVE  ElectionInv'
<1> DEFINE T == term[n]
           q == request[n]
           S == Voters(n, T) \cap (asked[n] \cup {n})
           V == {p \in Nodes : <<p, T, n>> \in ballots'}
           R == V \cap (asked'[n] \cup {n})
<1>0. ElectionTypes
  BY DEF ElectionInv
<1>1. /\ T \in Nat
      /\ votesReceived[n] \in Nat
      /\ q.term = T
      /\ <<n, T>> \notin elected
      /\ votesReceived[n] <= Cardinality(S)
  BY <1>0 DEF ElectionTypes, Answered, ElectionInv, CandidateCounts
<1>2. /\ VoteTerm(m, q) \in Nat
      /\ \/ /\ VoteTerm(m, q) = term[m]
            /\ VoteRole(m, q) = role[m]
            /\ VoteFor(m, n, q) = votedFor[m] \/ votedFor[m] = Nil
         \/ VoteTerm(m, q) > term[m] /\ VoteRole(m, q) = "follower"
      /\ Grants(m, n, q) => VoteTerm(m, q) = T /\ VoteFor(m, n, q) = n
  <2>1. q # Nil
    BY DEF Answered
  <2> QED BY <1>1, <2>1, VoterMoves
<1>3. \A p \in Nodes, t \in Nat, k \in Nodes :
         <<p, t, k>> \in ballots'
           => <<p, t, k>> \in ballots \/ (p = m /\ t = T /\ k = n /\ Grants(m, n, q))
  BY DEF Answered
<1>4. \A p \in Nodes, t \in Nat :
         <<p, t>> \in elected'
           => <<p, t>> \in elected \/ (p = n /\ t = T /\ Majority(votes) /\ role'[n] = "leader")
  BY DEF Answered
<1>5. elected \subseteq elected' /\ ballots \subseteq ballots'
  BY DEF Answered
<1>6. \A p \in Nodes : /\ term[p] \in Nat /\ term'[p] \in Nat
                       /\ term'[p] = term[p] \/ term'[p] > term[p]
  <2>1. \A p \in Nodes : term[p] \in Nat /\ term'[p] \in Nat
    BY <1>0 DEF ElectionTypes
  <2>2. \A p \in Nodes : term'[p] = term[p] \/ term'[p] > term[p]
    BY <1>2 DEF Answered
  <2> QED BY <2>1, <2>2
<1>7. votes <= Cardinality(R) /\ Cardinality(R) <= Cardinality(V) /\ Cardinality(V) \in Nat
      /\ Cardinality(R) \in Nat
  <2>1. S \in SUBSET Nodes /\ R \in SUBSET Nodes /\ V \in SUBSET Nodes /\ R \subseteq V
    BY <1>0 DEF ElectionTypes, Voters
  <2>2. S \subseteq R
    BY <1>0, <1>5 DEF Voters, Answered, ElectionTypes
  <2>3. Cardinality(S) \in Nat /\ Cardinality(R) \in Nat /\ Cardinality(V) \in Nat
        /\ Cardinality(S) <= Cardinality(R) /\ Cardinality(R) <= Cardinality(V)
    BY <2>1, <2>2, NodeSets
  <2>4. CASE votes = votesReceived[n] /\ ballots' = ballots
    <3> HIDE DEF S, R, V
    <3> QED BY <1>1, <2>3, <2>4
  <2>5. CASE votes = votesReceived[n] + 1 /\ ballots' = ballots \cup {<<m, T, n>>}
    <3>1. m \notin S
      BY DEF Answered
    <3>2. m \in R
      BY <2>5 DEF Answered
    <3>3. S \cup {m} \in SUBSET Nodes /\ S \cup {m} \subseteq R
      BY <2>1, <2>2, <3>2
    <3> HIDE DEF S, R, V
    <3>4. Cardinality(S \cup {m}) = Cardinality(S) + 1
      BY <2>1, <3>1, NodeSets, FS_AddElement
    <3>5. Cardinality(S \cup {m}) <= Cardinality(R)
      BY <2>1, <3>3, NodeSets
    <3> QED BY <1>1, <2>3, <2>5, <3>4, <3>5
  <2> QED BY <2>4, <2>5 DEF Answered
<1>8. CandidateCounts(n)'
  <2>1. Voters(n, term[n])' = V
    BY DEF Voters, Answered
  <2>2. role'[n] = "candidate" => elected' = elected
    BY DEF Answered
  <2>3. request'[n].term = term'[n] /\ term'[n] = T /\ votesReceived'[n] = votes
    BY <1>1 DEF Answered
  <2> QED BY <1>1, <1>7, <2>1, <2>2, <2>3 DEF CandidateCounts
<1>9. ASSUME NEW p \in Nodes, p # n
      PROVE  CandidateCounts(p)'
  <2> SUFFICES ASSUME role'[p] = "candidate"
               PROVE  CandidateCounts(p)'
    BY DEF CandidateCounts
  <2>1. term'[p] = term[p] /\ role[p] = "candidate"
    BY <1>2, <1>9 DEF Answered
  <2>2. /\ request'[p] = request[p] /\ asked'[p] = asked[p]
        /\ votesReceived'[p] = votesReceived[p]
    BY <1>9 DEF Answered
  <2>3. Voters(p, term[p])' = Voters(p, term[p])
    BY <1>3, <1>5, <1>6, <1>9, <2>1 DEF Voters
  <2>4. <<p, term[p]>> \notin elected'
    BY <1>4, <1>6, <1>9, <2>1 DEF ElectionInv, CandidateCounts
  <2> QED BY <2>1, <2>2, <2>3, <2>4 DEF CandidateCounts, ElectionInv
<1>10. ASSUME NEW p \in Nodes
       PROVE  LeaderElected(p)'
  <2>1. CASE p = n
    BY <2>1 DEF LeaderElected, Answered
  <2>2. CASE p # n
    <3>1. role'[p] = "leader" => role[p] = "leader" /\ term'[p] = term[p]
      BY <1>2, <2>2 DEF Answered
    <3> QED BY <1>5, <3>1 DEF LeaderElected, ElectionInv
  <2> QED BY <2>1, <2>2
<1>11. ElectedByMajority'
  <2> SUFFICES ASSUME NEW p \in Nodes, NEW t \in Nat, <<p, t>> \in elected'
               PROVE  term'[p] >= t /\ Majority(Cardinality(Voters(p, t)'))
    BY DEF ElectedByMajority, Majority, ClusterSize
  <2>1. CASE <<p, t>> \in elected
    <3>1. term[p] >= t /\ Majority(Cardinality(Voters(p, t)))
      BY <2>1 DEF ElectionInv, ElectedByMajority
    <3>2. /\ Voters(p, t) \in SUBSET Nodes /\ Voters(p, t)' \in SUBSET Nodes
          /\ Voters(p, t) \subseteq Voters(p, t)'
      BY <1>5 DEF Voters
    <3>3. /\ Cardinality(Voters(p, t)) \in Nat /\ Cardinality(Voters(p, t)') \in Nat
          /\ Cardinality(Voters(p, t)) <= Cardinality(Voters(p, t)')
      BY <3>2, NodeSets
    <3>4. Majority(Cardinality(Voters(p, t)'))
      BY <3>1, <3>3, NodeSets DEF Majority
    <3> QED BY <1>6, <3>1, <3>4
  <2>2. CASE p = n /\ t = T /\ Majority(votes)
    <3>1. Voters(p, t)' = V
      BY <2>2 DEF Voters
    <3> HIDE DEF V, R
    <3>2. Majority(Cardinality(V))
      BY <1>7, <2>2, NodeSets DEF Majority
    <3>3. term'[p] >= t
      BY <1>1, <2>2 DEF Answered
    <3> QED BY <3>1, <3>2, <3>3
  <2> QED BY <1>4, <2>1, <2>2
<1>12. ASSUME NEW p \in Nodes, <<m, T, p>> \in ballots, Grants(m, n, q)
       PROVE  p = n
  <2>1. (T >= term[m] /\ votedFor[m] \in {Nil, n}) \/ T > term[m]
    BY <1>1, <1>12 DEF Grants, Available
  <2>2. \/ term[m] > T
        \/ term[m] = T /\ (votedFor[m] = p \/ <<votedFor[m], T>> \in elected)
    BY <1>1, <1>12 DEF ElectionInv, BallotKept
  <2>3. votedFor[m] = p \/ <<votedFor[m], T>> \in elected
    BY <1>1, <1>6, <2>1, <2>2
  <2>4. votedFor[m] \in {Nil, n}
    BY <1>1, <1>6, <2>1, <2>2
  <2>5. <<Nil, T>> \notin elected
    BY <1>0, RaftNodesAssumption DEF ElectionTypes
  <2> QED BY <1>1, <2>3, <2>4, <2>5, RaftNodesAssumption
<1>13. OneBallot'
  <2> SUFFICES ASSUME NEW v \in Nodes, NEW k \in Nodes, NEW p \in Nodes, NEW t \in Nat,
                      <<v, t, k>> \in ballots', <<v, t, p>> \in ballots'
               PROVE  k = p
    BY DEF OneBallot
  <2>1. CASE <<v, t, k>> \in ballots /\ <<v, t, p>> \in ballots
    BY <2>1 DEF ElectionInv, OneBallot
  <2> QED BY <1>3, <1>12, <2>1
<1>14. BallotKept'
  <2> SUFFICES ASSUME NEW v \in Nodes, NEW p \in Nodes, NEW t \in Nat, <<v, t, p>> \in ballots'
               PROVE  \/ term'[v] > t
                      \/ term'[v] = t /\ (votedFor'[v] = p \/ <<votedFor'[v], t>> \in elected')
    BY DEF BallotKept
  <2>1. CASE v = m /\ t = T /\ p = n /\ Grants(m, n, q)
    BY <1>2, <2>1 DEF Answered
  <2>2. CASE <<v, t, p>> \in ballots
    <3>1. \/ term[v] > t
          \/ term[v] = t /\ (votedFor[v] = p \/ <<votedFor[v], t>> \in elected)
      BY <2>2 DEF ElectionInv, BallotKept
    <3>2. CASE term[v] > t \/ term'[v] > term[v]
      BY <1>6, <3>1, <3>2
    <3>3. CASE term[v] = t /\ term'[v] = term[v]
      <4>1. votedFor[v] # Nil
        BY <1>0, <3>1, <3>3, RaftNodesAssumption DEF ElectionTypes
      <4>2. votedFor'[v] = votedFor[v]
        BY <1>2, <1>6, <3>3, <4>1 DEF Answered
      <4> QED BY <1>5, <3>1, <3>3, <4>2
    <3> QED BY <1>6, <3>1, <3>2, <3>3
  <2> QED BY <1>3, <2>1, <2>2
<1> QED BY <1>8, <1>9, <1>10, <1>11, <1>13, <1>14 DEF ElectionInv

\* A vote that is asked for and answered: an answer of a higher term, or to a
\* node that is no candidate any more, is a quiet step.
LEMMA AskVoteStep ==
  ASSUME ElectionInv, NEW n \in Nodes, NEW m \in Nodes, AskVote(n, m)
  PROVE  ElectionInv'
<1> DEFINE q == request[n]
           higher == VoteTerm(m, q) > term[n]
           counted == ~higher /\ role[n] = "candidate" /\ Grants(m, n, q)
           votes == IF counted THEN votesReceived[n] + 1 ELSE votesReceived[n]
           wins == ~higher /\ role[n] = "candidate" /\ Majority(votes)
<1>0. ElectionTypes
  BY DEF ElectionInv
<1>1. /\ m # n /\ q # Nil /\ m \notin asked[n]
      /\ asked' = [asked EXCEPT ![n] = @ \cup {m}]
      /\ term' = [term EXCEPT ![m] = VoteTerm(m, q), ![n] = IF higher THEN VoteTerm(m, q) ELSE @]
      /\ role' = [role EXCEPT ![m] = VoteRole(m, q),
                              ![n] = IF higher THEN "follower" ELSE IF wins THEN "leader" ELSE @]
      /\ votedFor' = [votedFor EXCEPT ![m] = VoteFor(m, n, q), ![n] = IF higher THEN Nil ELSE @]
      /\ votesReceived' = [votesReceived EXCEPT ![n] = votes]
      /\ elected' = IF wins THEN elected \cup {<<n, term[n]>>} ELSE elected
      /\ ballots' = IF counted THEN ballots \cup {<<m, term[n], n>>} ELSE ballots
      /\ request' = request
  BY DEF AskVote, BecomeLeader
<1>2. /\ VoteTerm(m, q) \in Nat
      /\ VoteRole(m, q) \in Roles
      /\ VoteFor(m, n, q) \in Nodes \cup {Nil}
      /\ \/ /\ VoteTerm(m, q) = term[m]
            /\ VoteRole(m, q) = role[m]
            /\ VoteFor(m, n, q) = votedFor[m] \/ votedFor[m] = Nil
         \/ VoteTerm(m, q) > term[m] /\ VoteRole(m, q) = "follower"
  BY <1>1, VoterMoves
<1>3. term[n] \in Nat /\ votesReceived[n] \in Nat /\ votes \in Nat
  BY <1>0 DEF ElectionTypes
<1>4. \A p \in Nodes : p # n => asked'[p] = asked[p] /\ votesReceived'[p] = votesReceived[p]
  BY <1>0, <1>1 DEF ElectionTypes
<1>5. \A p \in Nodes : p # n /\ p # m => /\ term'[p] = term[p]
                                         /\ role'[p] = role[p]
                                         /\ votedFor'[p] = votedFor[p]
  BY <1>0, <1>1 DEF ElectionTypes
<1>6. /\ term'[m] = VoteTerm(m, q) /\ role'[m] = VoteRole(m, q)
      /\ votedFor'[m] = VoteFor(m, n, q)
  BY <1>0, <1>1 DEF ElectionTypes
<1>7. asked'[n] = asked[n] \cup {m} /\ votesReceived'[n] = votes
  BY <1>0, <1>1 DEF ElectionTypes
<1>8. /\ term'[n] = IF higher THEN VoteTerm(m, q) ELSE term[n]
      /\ role'[n] = IF higher THEN "follower" ELSE IF wins THEN "leader" ELSE role[n]
      /\ votedFor'[n] = IF higher THEN Nil ELSE votedFor[n]
  BY <1>0, <1>1 DEF ElectionTypes
<1>9. ElectionTypes'
  <2>1. role' \in [Nodes -> Roles]
    BY <1>0, <1>1, <1>2 DEF ElectionTypes, Roles
  <2>2. term' \in [Nodes -> Nat]
    BY <1>0, <1>1, <1>2 DEF ElectionTypes
  <2>3. votedFor' \in [Nodes -> Nodes \cup {Nil}]
    BY <1>0, <1>1, <1>2 DEF ElectionTypes
  <2>4. votesReceived' \in [Nodes -> Nat] /\ asked' \in [Nodes -> SUBSET Nodes]
    BY <1>0, <1>1, <1>3 DEF ElectionTypes
  <2>5. elected' \subseteq Nodes \X Nat /\ ballots' \subseteq Nodes \X Nat \X Nodes
    BY <1>0, <1>1, <1>3 DEF ElectionTypes
  <2> QED BY <1>0, <1>1, <2>1, <2>2, <2>3, <2>4, <2>5 DEF ElectionTypes
<1>10. CASE higher
  <2>1. ~counted /\ ~wins /\ votes = votesReceived[n]
    BY <1>10
  <2>2. UNCHANGED <<votesReceived, request, elected, ballots>>
    BY <1>0, <1>1, <2>1 DEF ElectionTypes
  <2>3. term'[n] > term[n] /\ role'[n] = "follower"
    BY <1>8, <1>10
  <2> HIDE DEF higher, counted, votes, wins
  <2>4. Quiet
    BY <1>2, <1>4, <1>5, <1>6, <1>7, <2>2, <2>3 DEF Quiet
  <2> QED BY <1>9, <2>4, QuietStep
<1>11. CASE ~higher /\ role[n] # "candidate"
  <2>1. ~counted /\ ~wins /\ votes = votesReceived[n]
    BY <1>11
  <2>2. UNCHANGED <<votesReceived, request, elected, ballots>>
    BY <1>0, <1>1, <2>1 DEF ElectionTypes
  <2>3. term'[n] = term[n] /\ role'[n] = role[n] /\ votedFor'[n] = votedFor[n]
    BY <1>8, <1>11, <2>1
  <2> HIDE DEF higher, counted, votes, wins
  <2>4. Quiet
    BY <1>2, <1>4, <1>5, <1>6, <1>7, <2>2, <2>3 DEF Quiet
  <2> QED BY <1>9, <2>4, QuietStep
<1>12. CASE ~higher /\ role[n] = "candidate"
  <2>1. \/ votes = votesReceived[n] /\ ballots' = ballots
        \/ /\ Grants(m, n, q)
           /\ votes = votesReceived[n] + 1
           /\ ballots' = ballots \cup {<<m, term[n], n>>}
    <3>1. CASE counted
      BY <1>1, <3>1
    <3>2. CASE ~counted
      BY <1>1, <3>2
    <3> QED BY <3>1, <3>2
  <2>2. \/ role'[n] = "leader" /\ Majority(votes) /\ elected' = elected \cup {<<n, term[n]>>}
        \/ role'[n] = "candidate" /\ elected' = elected
    <3>1. CASE wins
      BY <1>1, <1>8, <1>12, <3>1
    <3>2. CASE ~wins
      BY <1>1, <1>8, <1>12, <3>2
    <3> QED BY <3>1, <3>2
  <2>3. term'[n] = term[n] /\ votedFor'[n] = votedFor[n]
    BY <1>8, <1>12
  <2> HIDE DEF higher, counted, votes, wins
  <2>4. Answered(n, m, votes)
    BY <1>1, <1>4, <1>5, <1>6, <1>7, <1>12, <2>1, <2>2, <2>3 DEF Answered
  <2> QED BY <1>3, <1>9, <2>4, AnsweredStep
<1> QED BY <1>10, <1>11, <1>12

\* An append-entries exchange is a quiet step: the follower m turns to n, which
\* is an elected leader, or n steps down to a higher term.
LEMMA ExchangeStep ==
  ASSUME ElectionInv, NEW n \in Nodes, NEW m \in Nodes, Replicate(n, m) \/ ReplicateLost(n, m)
  PROVE  ElectionInv'
<1>0. ElectionTypes
  BY DEF ElectionInv
<1>1. /\ role[n] = "leader" /\ m # n
      /\ UNCHANGED <<votesReceived, request, asked, elected, ballots>>
  BY DEF Replicate, ReplicateLost
<1>2. \/ /\ term[n] >= term[m]
         /\ term' = [term EXCEPT ![m] = term[n]]
         /\ role' = [role EXCEPT ![m] = "follower"]
         /\ votedFor' = [votedFor EXCEPT ![m] = n]
      \/ term[n] < term[m] /\ StepDown(n, term[m])
      \/ UNCHANGED <<term, role, votedFor>>
  BY DEF Replicate, ReplicateLost, MakeAppendEntries, RoleAfterAppend
<1>3. <<n, term[n]>> \in elected
  BY <1>1 DEF ElectionInv, LeaderElected
<1>4. CASE /\ term[n] >= term[m]
           /\ term' = [term EXCEPT ![m] = term[n]]
           /\ role' = [role EXCEPT ![m] = "follower"]
           /\ votedFor' = [votedFor EXCEPT ![m] = n]
  <2>1. ElectionTypes'
    BY <1>0, <1>1, <1>4 DEF ElectionTypes, Roles
  <2>2. \A p \in Nodes : p # m => /\ term'[p] = term[p] /\ role'[p] = role[p]
                                  /\ votedFor'[p] = votedFor[p]
    BY <1>0, <1>4 DEF ElectionTypes
  <2>3. /\ term'[m] = term[n] /\ role'[m] = "follower" /\ votedFor'[m] = n
        /\ term[m] \in Nat /\ term[n] \in Nat
    BY <1>0, <1>4 DEF ElectionTypes
  <2>4. term'[m] = term[m] \/ term'[m] > term[m]
    BY <1>4, <2>3
  <2>5. Quiet
    BY <1>1, <1>3, <2>2, <2>3, <2>4 DEF Quiet
  <2> QED BY <2>1, <2>5, QuietStep
<1>5. CASE term[n] < term[m] /\ StepDown(n, term[m])
  <2>1. ElectionTypes'
    BY <1>0, <1>1, <1>5 DEF ElectionTypes, Roles, StepDown
  <2>2. /\ \A p \in Nodes : p # n => /\ term'[p] = term[p] /\ role'[p] = role[p]
                                     /\ votedFor'[p] = votedFor[p]
        /\ term'[n] = term[m] /\ role'[n] = "follower"
        /\ term[m] \in Nat /\ term[n] \in Nat
    BY <1>0, <1>5 DEF ElectionTypes, StepDown
  <2>3. Quiet
    BY <1>1, <1>5, <2>2 DEF Quiet
  <2> QED BY <2>1, <2>3, QuietStep
<1>6. CASE UNCHANGED <<term, role, votedFor>>
  <2>1. ElectionTypes' /\ Quiet
    BY <1>0, <1>1, <1>6 DEF ElectionTypes, Quiet
  <2> QED BY <2>1, QuietStep
<1> QED BY <1>2, <1>4, <1>5, <1>6

\* A step that leaves roles, terms and votes alone keeps the invariant.
LEMMA UnchangedStep ==
  ASSUME ElectionInv,
         UNCHANGED <<role, term, votedFor, votesReceived, request, asked, elected, ballots>>
  PROVE  ElectionInv'
<1>1. ElectionTypes' /\ Quiet
  BY DEF ElectionInv, ElectionTypes, Quiet
<1> QED BY <1>1, QuietStep

\* Every step of the specification keeps the invariant.
LEMMA ElectionStep ==
  ASSUME ElectionInv, [Next]_vars
  PROVE  ElectionInv'
<1>1. CASE UNCHANGED vars
  BY <1>1, UnchangedStep DEF vars
<1>2. CASE ConfigureCluster
  BY <1>2, UnchangedStep DEF ConfigureCluster
<1>3. ASSUME NEW n \in Nodes, NEW c \in Commands, AppendClientCommand(n, c)
      PROVE  ElectionInv'
  BY <1>3, UnchangedStep DEF AppendClientCommand
<1> QED BY <1>1, <1>2, <1>3, StartElectionStep, AskVoteStep, LostVoteStep,
           ExchangeStep DEF Next

\* Election safety holds in every reachable state, for every finite set of
\* nodes and every bound: raft.cpp elects at most one leader per term as long
\* as each answer is handed over before its candidate starts again.
THEOREM ElectionsAreSafe == Spec => []ElectionSafety
<1>1. Init => ElectionInv
  BY ElectionInit
<1>2. ElectionInv /\ [Next]_vars => ElectionInv'
  BY ElectionStep
<1>3. ElectionInv => ElectionSafety
  BY ElectionInvSafe
<1> QED BY <1>1, <1>2, <1>3, PTL DEF Spec

-----------------------------------------------------------------------------
(* What is true of the logs *)

\* LogMatching, entry by entry.
Agreement ==
  \A n, m \in Nodes : \A i \in DOMAIN log[n] \cap DOMAIN log[m] :
     log[n][i].term = log[m][i].term => \A k \in 1 .. i : log[n][k] = log[m][k]

\* Every entry is of a term that has had a leader.
EntryElected ==
  \A n \in Nodes : \A i \in DOMAIN log[n] : \E p \in Nodes : <<p, log[n][i].term>> \in elected

\* No log holds an entry of the leader's term beyond the end of the leader's.
LeaderHolds(n) ==
  role[n] = "leader" =>
    \A m \in Nodes : \A i \in DOMAIN log[m] : log[m][i].term = term[n] => i <= Len(log[n])

\* A leader never takes a follower to be ahead of its own log.
NextFits(n, m) ==
  role[n] = "leader" /\ m # n /\ nextIndex[n][m] # Nil => nextIndex[n][m] <= Len(log[n]) + 1

\* MatchedIsReplicated, with what keeps it true: a follower that has matched is
\* not behind in its term, and no leader has an entry for itself.
MatchFits(n, m) ==
  /\ m = n => matchIndex[n][m] = Nil
  /\ role[n] = "leader" /\ matchIndex[n][m] # Nil =>
       /\ matchIndex[n][m] <= Len(log[n])
       /\ matchIndex[n][m] > 0 => term[m] >= term[n]
       /\ term[m] = term[n] =>
            \A i \in 1 .. matchIndex[n][m] : i \in DOMAIN log[m] /\ log[m][i] = log[n][i]

LogInv ==
  /\ ElectionInv
  /\ TypeOK
  /\ LogIndexed
  /\ CommitWithinLog
  /\ Agreement
  /\ EntryElected
  /\ \A n \in Nodes : LeaderHolds(n)
  /\ \A n, m \in Nodes : NextFits(n, m) /\ MatchFits(n, m)

-----------------------------------------------------------------------------
(* Logs *)

\* The last index of a log is its length.
LEMMA LastIsLength ==
  ASSUME NEW l \in Seq(Entry), \A i \in 1 .. Len(l) : l[i].index = i
  PROVE  LastIndex(l) = Len(l) /\ Len(l) \in Nat
BY DEF LastIndex

\* What a call carries: the leader's log from first on, if there is any.
LEMMA EntriesFromFacts ==
  ASSUME NEW l \in Seq(Entry), NEW next \in 0 .. Len(l) + 1
  PROVE  LET first == IF next = 0 THEN 1 ELSE next
             es == EntriesFrom(l, next) IN
         /\ es \in Seq(Entry)
         /\ Len(es) = Len(l) + 1 - first
         /\ \A i \in 1 .. Len(l) + 1 - first : es[i] = l[i + first - 1]
<1> DEFINE first == IF next = 0 THEN 1 ELSE next
<1>1. first \in 1 .. Len(l) + 1 /\ Len(l) \in Nat
  OBVIOUS
<1>2. EntriesFrom(l, next) = SubSeq(l, first, Len(l))
  BY DEF EntriesFrom
<1> HIDE DEF first
<1>3. CASE first <= Len(l)
  <2>1. first \in 1 .. Len(l) + 1 /\ Len(l) \in first - 1 .. Len(l)
    BY <1>1
  <2>2. /\ SubSeq(l, first, Len(l)) \in Seq(Entry)
        /\ Len(SubSeq(l, first, Len(l))) = Len(l) - first + 1
        /\ \A i \in 1 .. Len(l) - first + 1 : SubSeq(l, first, Len(l))[i] = l[first + i - 1]
    BY <2>1, SubSeqProperties
  <2> QED BY <1>1, <1>2, <2>2 DEF first
<1>4. CASE first = Len(l) + 1
  <2> DEFINE es == EntriesFrom(l, next)
  <2>1. SubSeq(l, first, Len(l)) = <<>>
    BY <1>1, <1>4, SubSeqEmpty
  <2>2. es = <<>>
    BY <1>2, <2>1
  <2> HIDE DEF es
  <2>3. es \in Seq(Entry) /\ Len(es) = 0
    BY <2>2
  <2>4. Len(l) + 1 - first = 0
    BY <1>1, <1>4
  <2>5. \A i \in 1 .. Len(l) + 1 - first : es[i] = l[i + first - 1]
    BY <2>4
  <2> QED BY <2>3, <2>4, <2>5 DEF es, first
<1> QED BY <1>1, <1>3, <1>4

\* The tail of a log k, put behind what a log l shares with it, makes l that
\* log.
LEMMA SpliceFacts ==
  ASSUME NEW l \in Seq(Entry), NEW k \in Seq(Entry), NEW first \in 1 .. Len(k),
         NEW es \in Seq(Entry),
         \A i \in 1 .. Len(k) : k[i].index = i,
         Len(es) = Len(k) + 1 - first,
         \A i \in 1 .. Len(k) + 1 - first : es[i] = k[i + first - 1],
         Len(l) >= first - 1,
         \A i \in 1 .. first - 1 : l[i] = k[i]
  PROVE  Splice(l, es) = k
<1>1. Len(k) \in Nat /\ Len(l) \in Nat /\ Len(es) \in Nat /\ Len(es) > 0
  OBVIOUS
<1>2. es # <<>> /\ es[1] = k[first] /\ es[1].index = first
  BY <1>1
<1>3. (IF Len(l) >= first THEN first - 1 ELSE Len(l)) = first - 1
  BY <1>1
<1> DEFINE h == SubSeq(l, 1, first - 1)
<1>4. Splice(l, es) = h \o es
  BY <1>2, <1>3 DEF Splice
<1>5. h \in Seq(Entry) /\ Len(h) = first - 1 /\ \A i \in 1 .. first - 1 : h[i] = l[i]
  BY <1>1
<1> HIDE DEF h
<1>6. /\ h \o es \in Seq(Entry) /\ Len(h \o es) = Len(h) + Len(es)
      /\ \A i \in 1 .. Len(h) + Len(es) :
           (h \o es)[i] = IF i <= Len(h) THEN h[i] ELSE es[i - Len(h)]
  BY <1>5, ConcatProperties
<1>7. Len(h \o es) = Len(k)
  BY <1>1, <1>5, <1>6
<1>8. ASSUME NEW i \in 1 .. Len(k)
      PROVE  (h \o es)[i] = k[i]
  <2>1. CASE i <= first - 1
    BY <1>1, <1>5, <1>6, <2>1
  <2>2. CASE i > first - 1
    <3> DEFINE j == i - (first - 1)
    <3>1. j \in 1 .. Len(k) + 1 - first /\ j + first - 1 = i /\ i - Len(h) = j
      BY <1>1, <1>5, <2>2
    <3>2. (h \o es)[i] = es[i - Len(h)]
      BY <1>1, <1>5, <1>6, <2>2
    <3> HIDE DEF j
    <3>3. es[j] = k[j + first - 1]
      BY <3>1
    <3> QED BY <3>1, <3>2, <3>3
  <2>3. i <= first - 1 \/ i > first - 1
    OBVIOUS
  <2> QED BY <2>1, <2>2, <2>3, Zenon
<1> DEFINE s == h \o es
<1>9. s \in Seq(Entry) /\ Len(s) = Len(k) /\ \A i \in 1 .. Len(k) : s[i] = k[i]
  BY <1>6, <1>7, <1>8
<1> HIDE DEF s
<1>10. s = k
  BY <1>9
<1> QED BY <1>4, <1>10 DEF s

\* The logs of a state that keeps the invariant.
LEMMA LogFacts ==
  ASSUME LogInv, NEW n \in Nodes
  PROVE  /\ log[n] \in Seq(Entry) /\ Len(log[n]) \in Nat /\ DOMAIN log[n] = 1 .. Len(log[n])
         /\ \A i \in 1 .. Len(log[n]) : log[n][i].index = i
         /\ LastIndex(log[n]) = Len(log[n])
         /\ \A i \in 1 .. Len(log[n]) : log[n][i] \in Entry /\ log[n][i].term \in Nat
<1>1. log[n] \in Seq(Entry)
  BY DEF LogInv, TypeOK
<1>2. Len(log[n]) \in Nat /\ DOMAIN log[n] = 1 .. Len(log[n])
  BY <1>1
<1>3. \A i \in 1 .. Len(log[n]) : log[n][i].index = i
  BY <1>2 DEF LogInv, LogIndexed
<1>4. LastIndex(log[n]) = Len(log[n])
  BY <1>1, <1>3, LastIsLength
<1>5. \A i \in 1 .. Len(log[n]) : log[n][i] \in Entry
  BY <1>1
<1>6. \A i \in 1 .. Len(log[n]) : log[n][i].term \in Nat
  BY <1>5 DEF Entry
<1> QED BY <1>1, <1>2, <1>3, <1>4, <1>5, <1>6

\* The call a leader makes to a follower starts inside its log or just behind it.
LEMMA CallFacts ==
  ASSUME LogInv, NEW n \in Nodes, NEW m \in Nodes, role[n] = "leader", m # n
  PROVE  /\ NextFor(n, m) \in 0 .. Len(log[n]) + 1
         /\ MakeAppendEntries(n, m).term = term[n]
         /\ MakeAppendEntries(n, m).leaderCommit = commitIndex[n]
         /\ MakeAppendEntries(n, m).entries = EntriesFrom(log[n], NextFor(n, m))
         /\ MakeAppendEntries(n, m).prevLogIndex =
              IF NextFor(n, m) = 0 THEN 0 ELSE NextFor(n, m) - 1
         /\ \A i \in 1 .. Len(log[n]) :
              i = NextFor(n, m) - 1 => MakeAppendEntries(n, m).prevLogTerm = log[n][i].term
<1>1. LastIndex(log[n]) = Len(log[n]) /\ Len(log[n]) \in Nat
  BY LogFacts
<1>2. nextIndex[n][m] \in Nat \cup {Nil}
  BY DEF LogInv, TypeOK
<1>3. nextIndex[n][m] # Nil => nextIndex[n][m] <= Len(log[n]) + 1
  BY DEF LogInv, NextFits
<1>4. NextFor(n, m) \in 0 .. Len(log[n]) + 1
  <2>1. CASE nextIndex[n][m] = Nil
    BY <1>1, <2>1 DEF NextFor
  <2>2. CASE nextIndex[n][m] # Nil
    BY <1>1, <1>2, <1>3, <2>2 DEF NextFor
  <2> QED BY <2>1, <2>2
<1>5. ASSUME NEW i \in 1 .. Len(log[n]), i = NextFor(n, m) - 1
      PROVE  MakeAppendEntries(n, m).prevLogTerm = log[n][i].term
  <2> DEFINE next == NextFor(n, m)
             prev == IF next = 0 THEN 0 ELSE next - 1
  <2>1. prev = i
    BY <1>4, <1>5
  <2>2. ~(prev = 0 \/ Len(log[n]) < prev)
    BY <1>1, <2>1
  <2> QED BY <2>1, <2>2 DEF MakeAppendEntries
<1> QED BY <1>4, <1>5 DEF MakeAppendEntries

\* A follower that accepts a call holds all of the leader's log: it takes over
\* that log, or the call carries nothing and it held it before.
LEMMA Delivered ==
  ASSUME LogInv, NEW n \in Nodes, NEW m \in Nodes, role[n] = "leader", m # n,
         HoldsPrevious(m, MakeAppendEntries(n, m))
  PROVE  LET l == Splice(log[m], MakeAppendEntries(n, m).entries) IN
         /\ l \in {log[n], log[m]}
         /\ Len(l) >= Len(log[n])
         /\ \A i \in 1 .. Len(log[n]) : l[i] = log[n][i]
<1> DEFINE q == MakeAppendEntries(n, m)
           next == NextFor(n, m)
           first == IF next = 0 THEN 1 ELSE next
           es == EntriesFrom(log[n], next)
<1>1. /\ log[n] \in Seq(Entry) /\ Len(log[n]) \in Nat /\ DOMAIN log[n] = 1 .. Len(log[n])
      /\ \A i \in 1 .. Len(log[n]) : log[n][i].index = i
  BY LogFacts
<1>2. log[m] \in Seq(Entry) /\ Len(log[m]) \in Nat /\ DOMAIN log[m] = 1 .. Len(log[m])
  BY LogFacts
<1>3. /\ next \in 0 .. Len(log[n]) + 1
      /\ q.entries = es
      /\ q.prevLogIndex = IF next = 0 THEN 0 ELSE next - 1
      /\ \A i \in 1 .. Len(log[n]) : i = next - 1 => q.prevLogTerm = log[n][i].term
  BY CallFacts
<1>4. first \in 1 .. Len(log[n]) + 1 /\ q.prevLogIndex = first - 1
  BY <1>1, <1>3
<1>5. /\ es \in Seq(Entry) /\ Len(es) = Len(log[n]) + 1 - first
      /\ \A i \in 1 .. Len(log[n]) + 1 - first : es[i] = log[n][i + first - 1]
  BY <1>1, <1>3, EntriesFromFacts
<1>6. HoldsPrevious(m, q)
  OBVIOUS
<1>7. \A i \in 1 .. Len(log[n]) : i = first - 1 => q.prevLogTerm = log[n][i].term
  BY <1>3
<1> HIDE DEF q, es, first, next
<1>8. Len(log[m]) >= first - 1 /\ \A i \in 1 .. first - 1 : log[m][i] = log[n][i]
  <2>1. CASE first = 1
    BY <1>2, <2>1
  <2>2. CASE first > 1
    <3> DEFINE p == first - 1
    <3>1. p > 0 /\ p \in 1 .. Len(log[n]) /\ q.prevLogIndex = p
      BY <1>1, <1>4, <2>2
    <3>2. Len(log[m]) >= p /\ log[m][p].term = q.prevLogTerm
      BY <1>6, <3>1 DEF HoldsPrevious
    <3>3. q.prevLogTerm = log[n][p].term
      BY <1>7, <3>1
    <3>4. p \in DOMAIN log[m] \cap DOMAIN log[n]
      BY <1>1, <1>2, <3>1, <3>2
    <3>5. \A k \in 1 .. p : log[m][k] = log[n][k]
      BY <3>2, <3>3, <3>4 DEF LogInv, Agreement
    <3> QED BY <3>2, <3>5
  <2> QED BY <1>4, <2>1, <2>2
<1> DEFINE l == Splice(log[m], es)
<1>9. CASE first <= Len(log[n])
  <2>1. first \in 1 .. Len(log[n])
    BY <1>1, <1>4, <1>9
  <2>2. l = log[n]
    <3>1. /\ Len(es) = Len(log[n]) + 1 - first
          /\ \A i \in 1 .. Len(log[n]) + 1 - first : es[i] = log[n][i + first - 1]
          /\ \A i \in 1 .. first - 1 : log[m][i] = log[n][i]
          /\ \A i \in 1 .. Len(log[n]) : log[n][i].index = i
          /\ Len(log[m]) >= first - 1
      BY <1>1, <1>5, <1>8
    <3>2. log[m] \in Seq(Entry) /\ log[n] \in Seq(Entry) /\ es \in Seq(Entry)
      BY <1>1, <1>2, <1>5
    <3>3. Splice(log[m], es) = log[n]
      BY <2>1, <3>1, <3>2, SpliceFacts, Zenon
    <3> QED BY <3>3
  <2> HIDE DEF l
  <2>3. /\ l \in {log[n], log[m]} /\ Len(l) >= Len(log[n])
        /\ \A i \in 1 .. Len(log[n]) : l[i] = log[n][i]
    BY <1>1, <2>2
  <2> QED BY <1>3, <2>3 DEF l, q
<1>10. CASE first = Len(log[n]) + 1
  <2>1. es = <<>>
    BY <1>1, <1>5, <1>10
  <2>2. l = log[m]
    BY <2>1 DEF Splice
  <2> HIDE DEF l
  <2>3. first - 1 = Len(log[n])
    BY <1>1, <1>10
  <2>4. Len(log[m]) >= Len(log[n]) /\ \A i \in 1 .. Len(log[n]) : log[m][i] = log[n][i]
    BY <1>8, <2>3, Zenon
  <2>5. /\ l \in {log[n], log[m]} /\ Len(l) >= Len(log[n])
        /\ \A i \in 1 .. Len(log[n]) : l[i] = log[n][i]
    BY <2>2, <2>4, Zenon
  <2> QED BY <1>3, <2>5 DEF l, q
<1> QED BY <1>1, <1>4, <1>9, <1>10

-----------------------------------------------------------------------------
(* The kinds of steps *)

\* No term has two leaders at a time.
LEMMA OneLeader ==
  ASSUME ElectionInv, NEW n \in Nodes, NEW p \in Nodes,
         role[n] = "leader", role[p] = "leader", term[n] = term[p]
  PROVE  n = p
<1> DEFINE d == <<n, term[n]>>
           e == <<p, term[p]>>
<1>1. d \in elected /\ e \in elected
  BY DEF ElectionInv, LeaderElected
<1>2. ElectionSafety
  BY ElectionInvSafe
<1>3. d[2] = e[2] /\ d[1] = n /\ e[1] = p
  OBVIOUS
<1> HIDE DEF d, e
<1> QED BY <1>1, <1>2, <1>3 DEF ElectionSafety

\* A step that leaves the logs alone: whoever leads after it led before in the
\* same term, or was elected by it.
LEMMA KeptStep ==
  ASSUME LogInv, ElectionInv', TypeOK', log' = log, commitIndex' = commitIndex,
         elected \subseteq elected',
         \A p \in Nodes : term'[p] >= term[p],
         \A p \in Nodes : role'[p] = "leader" =>
            (role[p] = "leader" /\ term'[p] = term[p]) \/ <<p, term'[p]>> \notin elected,
         \A p, k \in Nodes : role'[p] = "leader" =>
            \/ matchIndex'[p][k] \in {Nil, 0}
            \/ role[p] = "leader" /\ term'[p] = term[p] /\ matchIndex'[p][k] = matchIndex[p][k],
         \A p \in Nodes : matchIndex'[p][p] = Nil,
         \A p, k \in Nodes : role'[p] = "leader" /\ k # p /\ nextIndex'[p][k] # Nil =>
            nextIndex'[p][k] <= Len(log[p]) + 1
  PROVE  LogInv'
<1>1. LogIndexed' /\ CommitWithinLog' /\ Agreement'
  BY DEF LogInv, LogIndexed, CommitWithinLog, Agreement
<1>2. EntryElected'
  BY DEF LogInv, EntryElected
<1>3. ASSUME NEW p \in Nodes
      PROVE  LeaderHolds(p)'
  <2> SUFFICES ASSUME role'[p] = "leader", NEW k \in Nodes, NEW i \in DOMAIN log[k],
                      log[k][i].term = term'[p]
               PROVE  i <= Len(log[p])
    BY DEF LeaderHolds
  <2>1. CASE role[p] = "leader" /\ term'[p] = term[p]
    BY <2>1 DEF LogInv, LeaderHolds
  <2>2. CASE <<p, term'[p]>> \notin elected
    <3>1. PICK v \in Nodes : <<v, term'[p]>> \in elected
      BY DEF LogInv, EntryElected
    <3> DEFINE d == <<v, term'[p]>>
               e == <<p, term'[p]>>
    <3>2. d \in elected' /\ e \in elected'
      BY <3>1 DEF ElectionInv, LeaderElected
    <3>3. ElectionSafety'
      <4>1. (ElectionInv => ElectionSafety)'
        BY ElectionInvSafe, PTL
      <4> QED BY <4>1
    <3>4. d[2] = e[2] /\ d[1] = v /\ e[1] = p
      OBVIOUS
    <3> HIDE DEF d, e
    <3>5. v = p
      BY <3>2, <3>3, <3>4 DEF ElectionSafety
    <3> QED BY <2>2, <3>1, <3>5
  <2> QED BY <2>1, <2>2
<1>4. ASSUME NEW p \in Nodes, NEW k \in Nodes
      PROVE  NextFits(p, k)'
  BY DEF NextFits
<1>5. ASSUME NEW p \in Nodes, NEW k \in Nodes
      PROVE  MatchFits(p, k)'
  <2> SUFFICES ASSUME role'[p] = "leader", matchIndex'[p][k] # Nil
               PROVE  /\ matchIndex'[p][k] <= Len(log[p])
                      /\ matchIndex'[p][k] > 0 => term'[k] >= term'[p]
                      /\ term'[k] = term'[p] =>
                           \A i \in 1 .. matchIndex'[p][k] :
                              i \in DOMAIN log[k] /\ log[k][i] = log[p][i]
    BY DEF MatchFits
  <2>0. Len(log[p]) \in Nat
    BY LogFacts
  <2>1. CASE matchIndex'[p][k] = 0
    BY <2>0, <2>1
  <2>2. CASE /\ role[p] = "leader" /\ term'[p] = term[p] /\ matchIndex'[p][k] = matchIndex[p][k]
             /\ matchIndex'[p][k] # 0
    <3>1. /\ matchIndex[p][k] # Nil /\ matchIndex[p][k] \in Nat /\ matchIndex[p][k] > 0
          /\ term[k] \in Nat /\ term[p] \in Nat /\ term'[k] \in Nat
      BY <2>2 DEF LogInv, TypeOK
    <3>2. /\ matchIndex[p][k] <= Len(log[p])
          /\ matchIndex[p][k] > 0 => term[k] >= term[p]
          /\ term[k] = term[p] =>
               \A i \in 1 .. matchIndex[p][k] : i \in DOMAIN log[k] /\ log[k][i] = log[p][i]
      BY <2>2, <3>1 DEF LogInv, MatchFits
    <3>3. term[k] >= term[p] /\ term'[k] >= term[k]
      BY <3>1, <3>2
    <3>4. term'[k] = term[p] => term[k] = term[p]
      BY <3>1, <3>3
    <3>5. term'[k] >= term[p]
      BY <3>1, <3>3
    <3> QED BY <2>2, <3>2, <3>4, <3>5
  <2> QED BY <2>1, <2>2
<1> QED BY <1>1, <1>2, <1>3, <1>4, <1>5 DEF LogInv

\* A step in which m takes over or confirms the log of the leader n.
LEMMA CopiedStep ==
  ASSUME LogInv, ElectionInv', TypeOK', NEW n \in Nodes, NEW m \in Nodes,
         role[n] = "leader", m # n, term[n] >= term[m],
         NEW l \in {log[n], log[m]}, Len(l) >= Len(log[n]),
         \A i \in 1 .. Len(log[n]) : l[i] = log[n][i],
         log' = [log EXCEPT ![m] = l], term' = [term EXCEPT ![m] = term[n]],
         role' = [role EXCEPT ![m] = "follower"], elected' = elected,
         \A p \in Nodes : commitIndex'[p] <= Len(log'[p]),
         \A p, k \in Nodes : role[p] = "leader" /\ k # p /\ nextIndex'[p][k] # Nil =>
            nextIndex'[p][k] <= Len(log[p]) + 1,
         \A p, k \in Nodes :
            \/ matchIndex'[p][k] = matchIndex[p][k]
            \/ p = n /\ k = m /\ matchIndex'[p][k] = Len(log[n])
  PROVE  LogInv'
<1>0. /\ log \in [Nodes -> Seq(Entry)] /\ term \in [Nodes -> Nat] /\ role \in [Nodes -> Roles]
      /\ matchIndex \in [Nodes -> [Nodes -> Nat \cup {Nil}]]
  BY DEF LogInv, TypeOK
<1>1. \A p \in Nodes : \E k \in Nodes : log'[p] = log[k]
  BY <1>0
<1>2. /\ log'[m] = l /\ term'[m] = term[n] /\ role'[m] = "follower"
      /\ \A p \in Nodes : p # m => log'[p] = log[p] /\ term'[p] = term[p] /\ role'[p] = role[p]
  BY <1>0
<1>3. LogIndexed'
  <2> SUFFICES ASSUME NEW p \in Nodes, NEW i \in DOMAIN log'[p] PROVE log'[p][i].index = i
    BY DEF LogIndexed
  <2> QED BY <1>1 DEF LogInv, LogIndexed
<1>4. CommitWithinLog'
  BY DEF CommitWithinLog
<1>5. Agreement'
  <2> SUFFICES ASSUME NEW p \in Nodes, NEW k \in Nodes,
                      NEW i \in DOMAIN log'[p] \cap DOMAIN log'[k],
                      log'[p][i].term = log'[k][i].term
               PROVE  \A j \in 1 .. i : log'[p][j] = log'[k][j]
    BY DEF Agreement
  <2>1. PICK u \in Nodes : log'[p] = log[u]
    BY <1>1
  <2>2. PICK v \in Nodes : log'[k] = log[v]
    BY <1>1
  <2> QED BY <2>1, <2>2 DEF LogInv, Agreement
<1>6. EntryElected'
  <2> SUFFICES ASSUME NEW p \in Nodes, NEW i \in DOMAIN log'[p]
               PROVE  \E v \in Nodes : <<v, log'[p][i].term>> \in elected
    BY DEF EntryElected
  <2>1. PICK u \in Nodes : log'[p] = log[u]
    BY <1>1
  <2> QED BY <2>1 DEF LogInv, EntryElected
<1>7. ASSUME NEW p \in Nodes
      PROVE  LeaderHolds(p)'
  <2> SUFFICES ASSUME role'[p] = "leader", NEW k \in Nodes, NEW i \in DOMAIN log'[k],
                      log'[k][i].term = term'[p]
               PROVE  i <= Len(log'[p])
    BY DEF LeaderHolds
  <2>1. p # m /\ role[p] = "leader" /\ log'[p] = log[p] /\ term'[p] = term[p]
    BY <1>2
  <2>2. PICK u \in Nodes : log'[k] = log[u]
    BY <1>1
  <2> QED BY <2>1, <2>2 DEF LogInv, LeaderHolds
<1>8. ASSUME NEW p \in Nodes, NEW k \in Nodes
      PROVE  NextFits(p, k)'
  BY <1>2 DEF NextFits
<1>9. ASSUME NEW p \in Nodes, NEW k \in Nodes
      PROVE  MatchFits(p, k)'
  <2>1. k = p => matchIndex'[p][k] = Nil
    BY DEF LogInv, MatchFits
  <2> SUFFICES ASSUME role'[p] = "leader", matchIndex'[p][k] # Nil
               PROVE  /\ matchIndex'[p][k] <= Len(log'[p])
                      /\ matchIndex'[p][k] > 0 => term'[k] >= term'[p]
                      /\ term'[k] = term'[p] =>
                           \A i \in 1 .. matchIndex'[p][k] :
                              i \in DOMAIN log'[k] /\ log'[k][i] = log'[p][i]
    BY <2>1 DEF MatchFits
  <2>2. /\ p # m /\ role[p] = "leader" /\ log'[p] = log[p] /\ term'[p] = term[p]
        /\ term[p] \in Nat /\ term[k] \in Nat /\ term[n] \in Nat /\ term[m] \in Nat
    BY <1>0, <1>2
  <2>3. matchIndex[p][k] # Nil =>
          /\ matchIndex[p][k] \in Nat
          /\ matchIndex[p][k] <= Len(log[p])
          /\ matchIndex[p][k] > 0 => term[k] >= term[p]
          /\ term[k] = term[p] =>
               \A i \in 1 .. matchIndex[p][k] : i \in DOMAIN log[k] /\ log[k][i] = log[p][i]
    BY <1>0, <2>2 DEF LogInv, MatchFits
  <2>4. CASE k # m
    <3>1. matchIndex'[p][k] = matchIndex[p][k] /\ term'[k] = term[k] /\ log'[k] = log[k]
      BY <1>2, <2>4
    <3> QED BY <2>2, <2>3, <3>1
  <2>5. CASE k = m /\ p = n
    <3>1. /\ log[n] \in Seq(Entry) /\ Len(log[n]) \in Nat /\ l \in Seq(Entry) /\ Len(l) \in Nat
          /\ DOMAIN l = 1 .. Len(l)
      BY <1>0
    <3>2. matchIndex'[p][k] \in Nat /\ matchIndex'[p][k] <= Len(log[n])
      BY <2>3, <2>5, <3>1
    <3>3. \A i \in 1 .. matchIndex'[p][k] : i \in 1 .. Len(log[n]) /\ i \in 1 .. Len(l)
      BY <3>1, <3>2
    <3>4. \A i \in 1 .. matchIndex'[p][k] : i \in DOMAIN l /\ l[i] = log[n][i]
      BY <3>1, <3>3
    <3> QED BY <1>2, <2>2, <2>5, <3>2, <3>4
  <2>6. CASE k = m /\ p # n
    <3>1. matchIndex'[p][k] = matchIndex[p][k] /\ term'[k] = term[n]
      BY <1>2, <2>6
    <3>2. term[n] # term[p]
      BY <2>2, <2>6, OneLeader DEF LogInv
    <3>3. matchIndex[p][k] > 0 => term[n] >= term[p]
      BY <2>2, <2>3, <2>6, <3>1
    <3> QED BY <2>2, <2>3, <3>1, <3>2, <3>3
  <2> QED BY <2>4, <2>5, <2>6
<1> QED BY <1>3, <1>4, <1>5, <1>6, <1>7, <1>8, <1>9 DEF LogInv

\* TypeOK from the types the election proofs keep and those of the logs.
LEMMA TypesTogether ==
  ASSUME ElectionInv', log' \in [Nodes -> Seq(Entry)], commitIndex' \in [Nodes -> Nat],
         nextIndex' \in [Nodes -> [Nodes -> Nat \cup {Nil}]],
         matchIndex' \in [Nodes -> [Nodes -> Nat \cup {Nil}]],
         request' \in [Nodes -> VoteRequest \cup {Nil}]
  PROVE  TypeOK'
BY DEF ElectionInv, ElectionTypes, TypeOK

\* A leader appends a command: no other log has an entry of its term there.
LEMMA AppendStep ==
  ASSUME LogInv, ElectionInv', NEW n \in Nodes, NEW c \in Commands, AppendClientCommand(n, c)
  PROVE  LogInv'
<1> DEFINE N == Len(log[n]) + 1
           entry == [index |-> N, term |-> term[n], command |-> c]
           l == Append(log[n], entry)
<1>1. /\ log[n] \in Seq(Entry) /\ Len(log[n]) \in Nat /\ DOMAIN log[n] = 1 .. Len(log[n])
      /\ LastIndex(log[n]) = Len(log[n])
  BY LogFacts
<1>2. /\ role[n] = "leader"
      /\ log' = [log EXCEPT ![n] = l]
      /\ commitIndex' = [commitIndex EXCEPT ![n] = N]
      /\ UNCHANGED <<role, term, nextIndex, matchIndex, request, elected>>
  BY <1>1 DEF AppendClientCommand, CommitOnAppend
<1>3. /\ log \in [Nodes -> Seq(Entry)] /\ commitIndex \in [Nodes -> Nat]
      /\ nextIndex \in [Nodes -> [Nodes -> Nat \cup {Nil}]]
      /\ matchIndex \in [Nodes -> [Nodes -> Nat \cup {Nil}]]
      /\ request \in [Nodes -> VoteRequest \cup {Nil}] /\ term \in [Nodes -> Nat]
  BY DEF LogInv, TypeOK
<1>4. entry \in Entry /\ entry.index = N /\ entry.term = term[n] /\ N \in Nat /\ N > Len(log[n])
  BY <1>1, <1>3 DEF Entry
<1> HIDE DEF entry
<1>5. /\ l \in Seq(Entry) /\ Len(l) = N /\ DOMAIN l = 1 .. N /\ l[N] = entry
      /\ \A i \in 1 .. Len(log[n]) : l[i] = log[n][i]
  BY <1>1, <1>4, AppendProperties
<1> HIDE DEF l
<1>6. /\ log'[n] = l /\ commitIndex'[n] = N
      /\ \A p \in Nodes : p # n => log'[p] = log[p] /\ commitIndex'[p] = commitIndex[p]
  BY <1>2, <1>3
<1>7. TypeOK'
  <2>1. log' \in [Nodes -> Seq(Entry)] /\ commitIndex' \in [Nodes -> Nat]
    BY <1>2, <1>3, <1>4, <1>5
  <2> QED BY <1>2, <1>3, <2>1, TypesTogether
<1>8. ASSUME NEW p \in Nodes, NEW i \in DOMAIN log'[p]
      PROVE  (p = n /\ i = N /\ log'[p][i] = entry) \/ (i \in DOMAIN log[p] /\ log'[p][i] = log[p][i])
  <2>1. CASE p = n
    <3>1. i \in 1 .. N
      BY <1>5, <1>6, <2>1
    <3>2. CASE i = N
      BY <1>5, <1>6, <2>1, <3>2
    <3>3. CASE i # N
      <4>1. i \in 1 .. Len(log[n])
        BY <1>1, <3>1, <3>3
      <4> QED BY <1>1, <1>5, <1>6, <2>1, <4>1
    <3> QED BY <3>2, <3>3
  <2> QED BY <1>6, <2>1
<1>9. LogIndexed'
  <2> SUFFICES ASSUME NEW p \in Nodes, NEW i \in DOMAIN log'[p] PROVE log'[p][i].index = i
    BY DEF LogIndexed
  <2> QED BY <1>4, <1>8 DEF LogInv, LogIndexed
<1>10. CommitWithinLog'
  <2> SUFFICES ASSUME NEW p \in Nodes PROVE commitIndex'[p] <= Len(log'[p])
    BY DEF CommitWithinLog
  <2>1. CASE p = n
    BY <1>4, <1>5, <1>6, <2>1
  <2>2. CASE p # n
    BY <1>6, <2>2 DEF LogInv, CommitWithinLog
  <2> QED BY <2>1, <2>2
<1>11. ASSUME NEW p \in Nodes, p # n, N \in DOMAIN log[p]
       PROVE  log[p][N].term # term[n]
  <2>1. log[p][N].term = term[n] => N <= Len(log[n])
    BY <1>2, <1>11 DEF LogInv, LeaderHolds
  <2> QED BY <1>1, <1>4, <2>1
<1>12. Agreement'
  <2> SUFFICES ASSUME NEW p \in Nodes, NEW k \in Nodes,
                      NEW i \in DOMAIN log'[p] \cap DOMAIN log'[k],
                      log'[p][i].term = log'[k][i].term,
                      NEW j \in 1 .. i
               PROVE  log'[p][j] = log'[k][j]
    BY DEF Agreement
  <2>0. i \in DOMAIN log'[p] /\ i \in DOMAIN log'[k]
    OBVIOUS
  <2>1. CASE p = k
    BY <2>1
  <2>2. CASE p # k /\ i \in DOMAIN log[p] /\ i \in DOMAIN log[k]
    <3>1. log'[p][i] = log[p][i] /\ log'[k][i] = log[k][i]
      <4>1. ~(p = n /\ i = N) /\ ~(k = n /\ i = N)
        BY <1>1, <1>4, <2>2
      <4> QED BY <1>8, <2>0, <4>1
    <3>2. log[p][j] = log[k][j]
      BY <2>2, <3>1 DEF LogInv, Agreement
    <3>3. ASSUME NEW u \in Nodes, i \in DOMAIN log[u]
          PROVE  log'[u][j] = log[u][j]
      <4>1. CASE u = n
        <5>1. j \in 1 .. Len(log[n])
          BY <1>1, <3>3, <4>1
        <5> QED BY <1>5, <1>6, <4>1, <5>1
      <4> QED BY <1>6, <4>1
    <3> QED BY <2>2, <3>2, <3>3
  <2>3. CASE p = n /\ k # n /\ i = N /\ i \notin DOMAIN log[p]
    BY <1>4, <1>5, <1>6, <1>11, <2>0, <2>3
  <2>4. CASE k = n /\ p # n /\ i = N /\ i \notin DOMAIN log[k]
    BY <1>4, <1>5, <1>6, <1>11, <2>0, <2>4
  <2>5. i \in DOMAIN log[p] \/ (p = n /\ i = N)
    BY <1>8, <2>0
  <2>6. i \in DOMAIN log[k] \/ (k = n /\ i = N)
    BY <1>8, <2>0
  <2> QED BY <2>1, <2>2, <2>3, <2>4, <2>5, <2>6
<1>13. EntryElected'
  <2> SUFFICES ASSUME NEW p \in Nodes, NEW i \in DOMAIN log'[p]
               PROVE  \E v \in Nodes : <<v, log'[p][i].term>> \in elected
    BY <1>2 DEF EntryElected
  <2>1. <<n, term[n]>> \in elected
    BY <1>2 DEF LogInv, ElectionInv, LeaderElected
  <2>2. CASE log'[p][i] = entry
    BY <1>4, <2>1, <2>2
  <2>3. CASE i \in DOMAIN log[p] /\ log'[p][i] = log[p][i]
    BY <2>3 DEF LogInv, EntryElected
  <2> QED BY <1>8, <2>2, <2>3
<1>14. ASSUME NEW p \in Nodes PROVE Len(log[p]) <= Len(log'[p])
  <2>1. Len(log[p]) \in Nat
    BY <1>3
  <2> QED BY <1>1, <1>4, <1>5, <1>6, <2>1
<1>15. ASSUME NEW p \in Nodes PROVE LeaderHolds(p)'
  <2> SUFFICES ASSUME role[p] = "leader", NEW k \in Nodes, NEW i \in DOMAIN log'[k],
                      log'[k][i].term = term[p]
               PROVE  i <= Len(log'[p])
    BY <1>2 DEF LeaderHolds
  <2>1. CASE k = n /\ i = N /\ log'[k][i] = entry
    <3>1. p = n
      BY <1>2, <1>4, <2>1, OneLeader DEF LogInv
    <3> QED BY <1>4, <1>5, <1>6, <2>1, <3>1
  <2>2. CASE i \in DOMAIN log[k] /\ log'[k][i] = log[k][i]
    <3>1. i <= Len(log[p])
      BY <2>2 DEF LogInv, LeaderHolds
    <3>2. i \in Nat /\ Len(log[p]) \in Nat /\ Len(log'[p]) \in Nat
      <4>1. log[k] \in Seq(Entry) /\ log[p] \in Seq(Entry) /\ log'[p] \in Seq(Entry)
        BY <1>3, <1>7 DEF TypeOK
      <4> QED BY <2>2, <4>1
    <3> QED BY <1>14, <3>1, <3>2
  <2> QED BY <1>8, <2>1, <2>2
<1>16. ASSUME NEW p \in Nodes, NEW k \in Nodes PROVE NextFits(p, k)'
  <2> SUFFICES ASSUME role[p] = "leader", k # p, nextIndex[p][k] # Nil
               PROVE  nextIndex[p][k] <= Len(log'[p]) + 1
    BY <1>2 DEF NextFits
  <2>1. nextIndex[p][k] <= Len(log[p]) + 1 /\ nextIndex[p][k] \in Nat
    BY <1>3 DEF LogInv, NextFits
  <2>2. Len(log[p]) \in Nat /\ Len(log'[p]) \in Nat
    <3>1. log[p] \in Seq(Entry) /\ log'[p] \in Seq(Entry)
      BY <1>3, <1>7 DEF TypeOK
    <3> QED BY <3>1
  <2> QED BY <1>14, <2>1, <2>2
<1>17. ASSUME NEW p \in Nodes, NEW k \in Nodes PROVE MatchFits(p, k)'
  <2>1. k = p => matchIndex'[p][k] = Nil
    BY <1>2 DEF LogInv, MatchFits
  <2> SUFFICES ASSUME role[p] = "leader", matchIndex[p][k] # Nil
               PROVE  /\ matchIndex[p][k] <= Len(log'[p])
                      /\ matchIndex[p][k] > 0 => term[k] >= term[p]
                      /\ term[k] = term[p] =>
                           \A i \in 1 .. matchIndex[p][k] :
                              i \in DOMAIN log'[k] /\ log'[k][i] = log'[p][i]
    BY <1>2, <2>1 DEF MatchFits
  <2>2. /\ matchIndex[p][k] \in Nat
        /\ matchIndex[p][k] <= Len(log[p])
        /\ matchIndex[p][k] > 0 => term[k] >= term[p]
        /\ term[k] = term[p] =>
             \A i \in 1 .. matchIndex[p][k] : i \in DOMAIN log[k] /\ log[k][i] = log[p][i]
    BY <1>3 DEF LogInv, MatchFits
  <2>3. Len(log[p]) \in Nat /\ Len(log'[p]) \in Nat /\ DOMAIN log[p] = 1 .. Len(log[p])
    <3>1. log[p] \in Seq(Entry) /\ log'[p] \in Seq(Entry)
      BY <1>3, <1>7 DEF TypeOK
    <3> QED BY <3>1
  <2>4. matchIndex[p][k] <= Len(log'[p])
    BY <1>14, <2>2, <2>3
  <2>5. ASSUME NEW u \in Nodes, NEW i \in DOMAIN log[u]
        PROVE  i \in DOMAIN log'[u] /\ log'[u][i] = log[u][i]
    <3>1. CASE u = n
      <4>1. i \in 1 .. Len(log[n]) /\ i \in 1 .. N
        BY <1>1, <1>4, <3>1
      <4> QED BY <1>5, <1>6, <3>1, <4>1
    <3> QED BY <1>6, <3>1
  <2>6. ASSUME term[k] = term[p], NEW i \in 1 .. matchIndex[p][k]
        PROVE  i \in DOMAIN log'[k] /\ log'[k][i] = log'[p][i]
    <3>1. i \in DOMAIN log[k] /\ log[k][i] = log[p][i] /\ i \in DOMAIN log[p]
      BY <2>2, <2>3, <2>6
    <3> QED BY <2>5, <3>1
  <2> QED BY <2>2, <2>4, <2>6
<1> QED BY <1>7, <1>9, <1>10, <1>12, <1>13, <1>15, <1>16, <1>17 DEF LogInv

-----------------------------------------------------------------------------
(* The actions *)

\* The types of what elections leave alone, for short.
LEMMA LogTypes ==
  ASSUME LogInv
  PROVE  /\ role \in [Nodes -> Roles] /\ term \in [Nodes -> Nat]
         /\ log \in [Nodes -> Seq(Entry)] /\ commitIndex \in [Nodes -> Nat]
         /\ nextIndex \in [Nodes -> [Nodes -> Nat \cup {Nil}]]
         /\ matchIndex \in [Nodes -> [Nodes -> Nat \cup {Nil}]]
         /\ request \in [Nodes -> VoteRequest \cup {Nil}]
         /\ \A p \in Nodes : matchIndex[p][p] = Nil
         /\ \A p, k \in Nodes : role[p] = "leader" /\ k # p /\ nextIndex[p][k] # Nil =>
              nextIndex[p][k] <= Len(log[p]) + 1
BY DEF LogInv, TypeOK, MatchFits, NextFits

\* Steps that leave the logs and what leaders know of followers alone, and make
\* nobody a leader.
LEMMA NoLeaderStep ==
  ASSUME LogInv, ElectionInv', UNCHANGED <<log, commitIndex, nextIndex, matchIndex, elected>>,
         request' \in [Nodes -> VoteRequest \cup {Nil}],
         \A p \in Nodes : term'[p] >= term[p],
         \A p \in Nodes : role'[p] = "leader" => role[p] = "leader" /\ term'[p] = term[p]
  PROVE  LogInv'
<1>1. TypeOK'
  BY LogTypes, TypesTogether
<1>2. /\ \A p \in Nodes : matchIndex'[p][p] = Nil
      /\ \A p, k \in Nodes : role'[p] = "leader" /\ k # p /\ nextIndex'[p][k] # Nil =>
           nextIndex'[p][k] <= Len(log[p]) + 1
  BY LogTypes
<1> QED BY <1>1, <1>2, KeptStep

\* start_election.
LEMMA StartStep ==
  ASSUME LogInv, ElectionInv', NEW n \in Nodes, StartElection(n)
  PROVE  LogInv'
<1>1. /\ role' = [role EXCEPT ![n] = "candidate"]
      /\ term' = [term EXCEPT ![n] = @ + 1]
      /\ request' = [request EXCEPT ![n] = [term |-> term[n] + 1,
                                            lastLogIndex |-> LastIndex(log[n]),
                                            lastLogTerm |-> LastTerm(log[n])]]
      /\ UNCHANGED <<log, commitIndex, nextIndex, matchIndex, elected>>
  BY DEF StartElection
<1>2. LastIndex(log[n]) \in Nat /\ LastTerm(log[n]) \in Nat
  <2>1. Len(log[n]) \in Nat /\ LastIndex(log[n]) = Len(log[n])
    BY LogFacts
  <2>2. CASE log[n] = <<>>
    BY <2>1, <2>2 DEF LastTerm
  <2>3. CASE log[n] # <<>>
    <3>1. Len(log[n]) \in 1 .. Len(log[n])
      <4>1. log[n] \in Seq(Entry)
        BY LogTypes
      <4> QED BY <2>3, <4>1
    <3> QED BY <2>1, <2>3, <3>1, LogFacts DEF LastTerm
  <2> QED BY <2>2, <2>3
<1>3. request' \in [Nodes -> VoteRequest \cup {Nil}]
  BY <1>1, <1>2, LogTypes DEF VoteRequest
<1>4. \A p \in Nodes : term'[p] >= term[p]
  BY <1>1, LogTypes
<1>5. \A p \in Nodes : role'[p] = "leader" => role[p] = "leader" /\ term'[p] = term[p]
  BY <1>1, LogTypes
<1> QED BY <1>1, <1>3, <1>4, <1>5, NoLeaderStep

\* configure_cluster.
LEMMA ConfigureStep ==
  ASSUME LogInv, ElectionInv', ConfigureCluster
  PROVE  LogInv'
<1>1. /\ nextIndex' = [n \in Nodes |-> [m \in Nodes |->
                         IF m = n THEN nextIndex[n][m] ELSE LastIndex(log[n]) + 1]]
      /\ matchIndex' = [n \in Nodes |-> [m \in Nodes |-> IF m = n THEN matchIndex[n][m] ELSE 0]]
      /\ UNCHANGED <<role, term, log, commitIndex, request, elected>>
  BY DEF ConfigureCluster
<1>2. \A n \in Nodes : LastIndex(log[n]) = Len(log[n]) /\ Len(log[n]) \in Nat
  BY LogFacts
<1>3. /\ nextIndex' \in [Nodes -> [Nodes -> Nat \cup {Nil}]]
      /\ matchIndex' \in [Nodes -> [Nodes -> Nat \cup {Nil}]]
  BY <1>1, <1>2, LogTypes
<1>4. TypeOK'
  BY <1>1, <1>3, LogTypes, TypesTogether
<1>5. \A p, k \in Nodes : matchIndex'[p][k] \in {Nil, 0} /\ matchIndex'[p][p] = Nil
  BY <1>1, LogTypes
<1>6. \A p, k \in Nodes : k # p => nextIndex'[p][k] = Len(log[p]) + 1
  BY <1>1, <1>2
<1>7. \A p, k \in Nodes : k # p => nextIndex'[p][k] <= Len(log[p]) + 1
  BY <1>2, <1>6
<1>8. \A p \in Nodes : term'[p] >= term[p]
  BY <1>1, LogTypes
<1> QED BY <1>1, <1>4, <1>5, <1>7, <1>8, KeptStep

\* request_vote, when the answer is lost.
LEMMA VoteLostStep ==
  ASSUME LogInv, ElectionInv', NEW n \in Nodes, NEW m \in Nodes, AskVoteLost(n, m)
  PROVE  LogInv'
<1> DEFINE q == request[n]
<1>1. /\ q # Nil
      /\ term' = [term EXCEPT ![m] = VoteTerm(m, q)]
      /\ role' = [role EXCEPT ![m] = VoteRole(m, q)]
      /\ UNCHANGED <<log, commitIndex, nextIndex, matchIndex, request, elected>>
  BY DEF AskVoteLost
<1>2. /\ VoteTerm(m, q) \in Nat
      /\ \/ VoteTerm(m, q) = term[m] /\ VoteRole(m, q) = role[m]
         \/ VoteTerm(m, q) > term[m] /\ VoteRole(m, q) = "follower"
  BY <1>1, VoterMoves DEF LogInv
<1> HIDE DEF q
<1>3. \A p \in Nodes : term'[p] >= term[p]
  BY <1>1, <1>2, LogTypes
<1>4. \A p \in Nodes : role'[p] = "leader" => role[p] = "leader" /\ term'[p] = term[p]
  BY <1>1, <1>2, LogTypes
<1> QED BY <1>1, <1>3, <1>4, LogTypes, NoLeaderStep

\* request_vote and observe_vote: a candidate that wins forgets what it knew of
\* its followers.
LEMMA VoteStep ==
  ASSUME LogInv, ElectionInv', NEW n \in Nodes, NEW m \in Nodes, AskVote(n, m)
  PROVE  LogInv'
<1> DEFINE q == request[n]
           higher == VoteTerm(m, q) > term[n]
           counted == ~higher /\ role[n] = "candidate" /\ Grants(m, n, q)
           votes == IF counted THEN votesReceived[n] + 1 ELSE votesReceived[n]
           wins == ~higher /\ role[n] = "candidate" /\ Majority(votes)
<1>1. /\ m # n /\ q # Nil
      /\ term' = [term EXCEPT ![m] = VoteTerm(m, q), ![n] = IF higher THEN VoteTerm(m, q) ELSE @]
      /\ role' = [role EXCEPT ![m] = VoteRole(m, q),
                              ![n] = IF higher THEN "follower" ELSE IF wins THEN "leader" ELSE @]
      /\ IF wins THEN BecomeLeader(n) ELSE UNCHANGED <<nextIndex, matchIndex, elected>>
      /\ UNCHANGED <<log, commitIndex, request>>
  BY DEF AskVote
<1>2. /\ VoteTerm(m, q) \in Nat
      /\ \/ VoteTerm(m, q) = term[m] /\ VoteRole(m, q) = role[m]
         \/ VoteTerm(m, q) > term[m] /\ VoteRole(m, q) = "follower"
  BY <1>1, VoterMoves DEF LogInv
<1>3. /\ term'[m] = VoteTerm(m, q) /\ role'[m] = VoteRole(m, q)
      /\ term'[n] = IF higher THEN VoteTerm(m, q) ELSE term[n]
      /\ role'[n] = IF higher THEN "follower" ELSE IF wins THEN "leader" ELSE role[n]
      /\ \A p \in Nodes : p # n /\ p # m => term'[p] = term[p] /\ role'[p] = role[p]
  BY <1>1, LogTypes
<1>4. \A p \in Nodes : term'[p] >= term[p]
  <2>1. term'[m] >= term[m]
    BY <1>2, <1>3, LogTypes
  <2>2. term'[n] >= term[n]
    BY <1>2, <1>3, LogTypes
  <2>3. \A p \in Nodes : term[p] \in Nat
    BY LogTypes
  <2> QED BY <1>3, <2>1, <2>2, <2>3
<1>5. \A p \in Nodes : p # n /\ role'[p] = "leader" => role[p] = "leader" /\ term'[p] = term[p]
  BY <1>2, <1>3
<1>6. CASE ~wins
  <2>1. role'[n] = "leader" => role[n] = "leader" /\ term'[n] = term[n]
    BY <1>3, <1>6
  <2> QED BY <1>1, <1>4, <1>5, <1>6, <2>1, LogTypes, NoLeaderStep
<1>7. CASE wins
  <2>1. /\ nextIndex' = [nextIndex EXCEPT ![n] =
             [k \in Nodes |-> IF nextIndex[n][k] = Nil THEN Nil ELSE LastIndex(log[n]) + 1]]
        /\ matchIndex' = [matchIndex EXCEPT ![n] =
             [k \in Nodes |-> IF matchIndex[n][k] = Nil THEN Nil ELSE 0]]
        /\ elected \subseteq elected'
        /\ UNCHANGED <<log, commitIndex, request>>
        /\ term'[n] = term[n] /\ role[n] = "candidate"
    BY <1>1, <1>3, <1>7 DEF BecomeLeader
  <2> HIDE DEF wins, votes, counted, higher, q
  <2>2. LastIndex(log[n]) = Len(log[n]) /\ Len(log[n]) \in Nat
    BY LogFacts
  <2>3. nextIndex' \in [Nodes -> [Nodes -> Nat \cup {Nil}]]
    BY <2>1, <2>2, LogTypes
  <2>4. matchIndex' \in [Nodes -> [Nodes -> Nat \cup {Nil}]]
    BY <2>1, LogTypes
  <2>5. TypeOK'
    BY <2>1, <2>3, <2>4, LogTypes, TypesTogether
  <2>6. <<n, term'[n]>> \notin elected
    BY <2>1 DEF LogInv, ElectionInv, CandidateCounts
  <2>7. /\ \A k \in Nodes : matchIndex'[n][k] \in {Nil, 0}
        /\ matchIndex'[n][n] = Nil
        /\ \A p \in Nodes : p # n => matchIndex'[p] = matchIndex[p] /\ nextIndex'[p] = nextIndex[p]
    BY <2>1, LogTypes
  <2>8. \A k \in Nodes : nextIndex'[n][k] # Nil => nextIndex'[n][k] <= Len(log[n]) + 1
    BY <2>1, <2>2, LogTypes
  <2>9. \A p, k \in Nodes : role'[p] = "leader" =>
          \/ matchIndex'[p][k] \in {Nil, 0}
          \/ role[p] = "leader" /\ term'[p] = term[p] /\ matchIndex'[p][k] = matchIndex[p][k]
    BY <1>5, <2>7
  <2>10. \A p, k \in Nodes : role'[p] = "leader" /\ k # p /\ nextIndex'[p][k] # Nil =>
           nextIndex'[p][k] <= Len(log[p]) + 1
    <3> SUFFICES ASSUME NEW p \in Nodes, NEW k \in Nodes, role'[p] = "leader", k # p,
                        nextIndex'[p][k] # Nil
                 PROVE  nextIndex'[p][k] <= Len(log[p]) + 1
      OBVIOUS
    <3>1. CASE p = n
      BY <2>8, <3>1
    <3>2. CASE p # n
      <4>1. role[p] = "leader" /\ nextIndex'[p][k] = nextIndex[p][k]
        BY <1>5, <2>7, <3>2
      <4> QED BY <4>1, LogTypes
    <3> QED BY <3>1, <3>2
  <2>11. \A p \in Nodes : matchIndex'[p][p] = Nil
    <3>1. \A p \in Nodes : matchIndex[p][p] = Nil
      BY LogTypes
    <3> QED BY <2>7, <3>1
  <2>12. \A p \in Nodes : role'[p] = "leader" =>
           (role[p] = "leader" /\ term'[p] = term[p]) \/ <<p, term'[p]>> \notin elected
    BY <1>5, <2>6
  <2> QED BY <1>4, <2>1, <2>5, <2>9, <2>10, <2>11, <2>12, KeptStep
<1> QED BY <1>6, <1>7

\* A follower commits no more than it holds.
LEMMA FollowerCommits ==
  ASSUME LogInv, NEW n \in Nodes, NEW p \in Nodes, NEW l, l = log[p]
  PROVE  /\ FollowerCommit(commitIndex[n], l) \in Nat
         /\ FollowerCommit(commitIndex[n], l) <= Len(l)
<1>1. LastIndex(l) = Len(l) /\ Len(l) \in Nat
  BY LogFacts
<1>2. commitIndex[n] \in Nat
  BY LogTypes
<1> QED BY <1>1, <1>2 DEF FollowerCommit

\* A leader commits no more than it holds, whatever it takes as matched.
LEMMA LeaderCommits ==
  ASSUME LogInv, NEW n \in Nodes, NEW matched
  PROVE  CommitAfterAck(n, matched) \in Nat /\ CommitAfterAck(n, matched) <= Len(log[n])
<1> DEFINE last == LastIndex(log[n])
           replicated(i) == 1 + Cardinality({p \in Nodes : matched[p] # Nil /\ matched[p] >= i})
           ready == {i \in commitIndex[n] + 1 .. last :
                       Majority(replicated(i)) /\ log[n][i].term = term[n]}
<1>1. last = Len(log[n]) /\ Len(log[n]) \in Nat
  BY LogFacts
<1>2. commitIndex[n] \in Nat /\ commitIndex[n] <= Len(log[n])
  BY LogTypes DEF LogInv, CommitWithinLog
<1>3. ready \subseteq 1 .. Len(log[n])
  BY <1>1, <1>2
<1>4. CommitAfterAck(n, matched) =
        IF ready = {} THEN commitIndex[n] ELSE CHOOSE i \in ready : \A k \in ready : k <= i
  BY DEF CommitAfterAck
<1> HIDE DEF ready
<1>5. CASE ready = {}
  BY <1>2, <1>4, <1>5
<1>6. CASE ready # {}
  <2>1. \E i \in ready : \A k \in ready : k <= i
    BY <1>1, <1>3, <1>6, GreatestNumber
  <2>2. CommitAfterAck(n, matched) \in ready
    BY <1>4, <1>6, <2>1
  <2> DEFINE a == CommitAfterAck(n, matched)
  <2>3. a \in 1 .. Len(log[n])
    BY <1>3, <2>2
  <2> HIDE DEF a
  <2>4. a \in Nat /\ a <= Len(log[n])
    BY <1>1, <2>3
  <2> QED BY <2>4 DEF a
<1> QED BY <1>5, <1>6

\* A call that is accepted, with or without the answer: CopiedStep for the
\* fields the two actions change.
LEMMA AcceptStep ==
  ASSUME LogInv, ElectionInv', NEW n \in Nodes, NEW m \in Nodes, role[n] = "leader", m # n,
         term[n] >= term[m], HoldsPrevious(m, MakeAppendEntries(n, m)),
         log' = [log EXCEPT ![m] = Splice(log[m], MakeAppendEntries(n, m).entries)],
         term' = [term EXCEPT ![m] = term[n]],
         role' = [role EXCEPT ![m] = "follower"], elected' = elected, request' = request,
         NEW c \in {commitIndex[n], CommitAfterAck(n, [matchIndex[n] EXCEPT ![m] = LastIndex(log[n])])},
         commitIndex' = [commitIndex EXCEPT
                           ![m] = FollowerCommit(commitIndex[n],
                                    Splice(log[m], MakeAppendEntries(n, m).entries)),
                           ![n] = c],
         nextIndex' \in {nextIndex, [nextIndex EXCEPT ![n][m] = LastIndex(log[n]) + 1]},
         matchIndex' \in {matchIndex,
                          [matchIndex EXCEPT ![n] = [matchIndex[n] EXCEPT ![m] = LastIndex(log[n])]]}
  PROVE  LogInv'
<1> DEFINE l == Splice(log[m], MakeAppendEntries(n, m).entries)
           matched == [matchIndex[n] EXCEPT ![m] = LastIndex(log[n])]
<1>1. l \in {log[n], log[m]} /\ Len(l) >= Len(log[n]) /\ \A i \in 1 .. Len(log[n]) : l[i] = log[n][i]
  BY Delivered
<1> HIDE DEF l
<1>2. LastIndex(log[n]) = Len(log[n]) /\ Len(log[n]) \in Nat
  BY LogFacts
<1>3. FollowerCommit(commitIndex[n], l) \in Nat /\ FollowerCommit(commitIndex[n], l) <= Len(l)
  BY <1>1, FollowerCommits
<1>4. c \in Nat /\ c <= Len(log[n])
  <2>1. commitIndex[n] \in Nat /\ commitIndex[n] <= Len(log[n])
    BY LogTypes DEF LogInv, CommitWithinLog
  <2> HIDE DEF matched
  <2>2. CommitAfterAck(n, matched) \in Nat /\ CommitAfterAck(n, matched) <= Len(log[n])
    BY LeaderCommits
  <2> QED BY <2>1, <2>2 DEF matched
<1> DEFINE f == FollowerCommit(commitIndex[n], l)
<1>5. /\ log' = [log EXCEPT ![m] = l]
      /\ commitIndex' = [commitIndex EXCEPT ![m] = f, ![n] = c]
  BY DEF l
<1> HIDE DEF f
<1>6. TypeOK'
  <2>1. log' \in [Nodes -> Seq(Entry)]
    BY <1>1, <1>5, LogTypes
  <2>2. commitIndex' \in [Nodes -> Nat]
    BY <1>3, <1>4, <1>5, LogTypes DEF f
  <2>3. nextIndex' \in [Nodes -> [Nodes -> Nat \cup {Nil}]]
    <3>1. nextIndex \in [Nodes -> [Nodes -> Nat \cup {Nil}]] /\ LastIndex(log[n]) + 1 \in Nat
      BY <1>2, LogTypes
    <3> DEFINE e == LastIndex(log[n]) + 1
    <3>2. nextIndex' \in {nextIndex, [nextIndex EXCEPT ![n][m] = e]}
      OBVIOUS
    <3> HIDE DEF e
    <3>3. [nextIndex EXCEPT ![n][m] = e] \in [Nodes -> [Nodes -> Nat \cup {Nil}]]
      BY <3>1 DEF e
    <3> QED BY <3>1, <3>2, <3>3
  <2>4. matchIndex' \in [Nodes -> [Nodes -> Nat \cup {Nil}]]
    <3>1. matchIndex \in [Nodes -> [Nodes -> Nat \cup {Nil}]] /\ LastIndex(log[n]) \in Nat
      BY <1>2, LogTypes
    <3>2. matched \in [Nodes -> Nat \cup {Nil}]
      BY <3>1
    <3> HIDE DEF matched
    <3>3. [matchIndex EXCEPT ![n] = matched] \in [Nodes -> [Nodes -> Nat \cup {Nil}]]
      BY <3>1, <3>2
    <3> QED BY <3>1, <3>3 DEF matched
  <2> QED BY <2>1, <2>2, <2>3, <2>4, LogTypes, TypesTogether
<1>7. \A p \in Nodes : commitIndex'[p] <= Len(log'[p])
  <2>1. /\ log'[m] = l /\ \A p \in Nodes : p # m => log'[p] = log[p]
        /\ commitIndex'[m] = f /\ commitIndex'[n] = c
        /\ \A p \in Nodes : p # m /\ p # n => commitIndex'[p] = commitIndex[p]
    BY <1>5, LogTypes
  <2>2. \A p \in Nodes : commitIndex[p] <= Len(log[p])
    BY DEF LogInv, CommitWithinLog
  <2> QED BY <1>3, <1>4, <2>1, <2>2 DEF f
<1>8. \A p, k \in Nodes : role[p] = "leader" /\ k # p /\ nextIndex'[p][k] # Nil =>
        nextIndex'[p][k] <= Len(log[p]) + 1
  <2> SUFFICES ASSUME NEW p \in Nodes, NEW k \in Nodes, role[p] = "leader", k # p,
                      nextIndex'[p][k] # Nil
               PROVE  nextIndex'[p][k] <= Len(log[p]) + 1
    OBVIOUS
  <2>1. \/ nextIndex'[p][k] = nextIndex[p][k]
        \/ p = n /\ nextIndex'[p][k] = Len(log[n]) + 1
    BY <1>2, LogTypes
  <2>2. CASE nextIndex'[p][k] = nextIndex[p][k]
    BY <2>2, LogTypes
  <2>3. CASE p = n /\ nextIndex'[p][k] = Len(log[n]) + 1
    BY <1>2, <2>3
  <2> QED BY <2>1, <2>2, <2>3
<1>9. \A p, k \in Nodes : \/ matchIndex'[p][k] = matchIndex[p][k]
                          \/ p = n /\ k = m /\ matchIndex'[p][k] = Len(log[n])
  BY <1>2, LogTypes
<1> QED BY <1>1, <1>5, <1>6, <1>7, <1>8, <1>9, CopiedStep

\* append_entries, when the answer is lost.
LEMMA LostAppendStep ==
  ASSUME LogInv, ElectionInv', NEW n \in Nodes, NEW m \in Nodes, ReplicateLost(n, m)
  PROVE  LogInv'
<1> DEFINE q == MakeAppendEntries(n, m)
<1>1. /\ role[n] = "leader" /\ m # n
      /\ AppendEntriesLog(m, q)
      /\ IF q.term >= term[m]
         THEN /\ term' = [term EXCEPT ![m] = q.term]
              /\ role' = [role EXCEPT ![m] = "follower"]
         ELSE UNCHANGED <<term, role>>
      /\ UNCHANGED <<nextIndex, matchIndex, request, elected>>
  BY DEF ReplicateLost, RoleAfterAppend
<1>2. q.term = term[n] /\ q.leaderCommit = commitIndex[n]
  BY <1>1, CallFacts
<1>3. CASE Accepts(m, q)
  <2> DEFINE l == Splice(log[m], q.entries)
  <2>1. term[n] >= term[m] /\ HoldsPrevious(m, q)
    BY <1>2, <1>3 DEF Accepts
  <2>2. /\ log' = [log EXCEPT ![m] = l]
        /\ commitIndex' = [commitIndex EXCEPT ![m] = FollowerCommit(commitIndex[n], l)]
    BY <1>1, <1>2, <1>3 DEF AppendEntriesLog
  <2>3. term' = [term EXCEPT ![m] = term[n]] /\ role' = [role EXCEPT ![m] = "follower"]
    BY <1>1, <1>2, <2>1
  <2> DEFINE f == FollowerCommit(commitIndex[n], l)
  <2>4. commitIndex' = [commitIndex EXCEPT ![m] = f, ![n] = commitIndex[n]]
    <3>1. commitIndex' = [commitIndex EXCEPT ![m] = f]
      BY <2>2
    <3> HIDE DEF f
    <3> QED BY <1>1, <3>1, LogTypes
  <2> QED BY <1>1, <2>1, <2>2, <2>3, <2>4, AcceptStep
<1>4. CASE ~Accepts(m, q)
  <2>1. UNCHANGED <<log, commitIndex>>
    BY <1>1, <1>4 DEF AppendEntriesLog
  <2>2. \A p \in Nodes : term'[p] >= term[p]
    <3>1. CASE q.term >= term[m]
      <4>1. /\ term' = [term EXCEPT ![m] = term[n]] /\ term[n] >= term[m]
            /\ term \in [Nodes -> Nat]
        BY <1>1, <1>2, <3>1, LogTypes
      <4> QED BY <4>1
    <3>2. CASE ~(q.term >= term[m])
      <4>1. term' = term /\ \A p \in Nodes : term[p] \in Nat
        BY <1>1, <3>2, LogTypes
      <4> QED BY <4>1
    <3> QED BY <3>1, <3>2
  <2>3. \A p \in Nodes : role'[p] = "leader" => role[p] = "leader" /\ term'[p] = term[p]
    BY <1>1, <1>2, LogTypes
  <2> QED BY <1>1, <2>1, <2>2, <2>3, LogTypes, NoLeaderStep
<1> QED BY <1>3, <1>4

\* append_entries and observe_append_entries_response.
LEMMA AppendAnsweredStep ==
  ASSUME LogInv, ElectionInv', NEW n \in Nodes, NEW m \in Nodes, Replicate(n, m)
  PROVE  LogInv'
<1> DEFINE q == MakeAppendEntries(n, m)
           last == LastIndex(log[n])
           matched == [matchIndex[n] EXCEPT ![m] = last]
<1>1. role[n] = "leader" /\ m # n /\ UNCHANGED <<request, elected>>
  BY DEF Replicate
<1>2. q.term = term[n] /\ q.leaderCommit = commitIndex[n]
  BY <1>1, CallFacts
<1>3. CASE term[n] < term[m] /\ StepDown(n, term[m])
           /\ UNCHANGED <<log, commitIndex, nextIndex, matchIndex>>
  <2>1. term' = [term EXCEPT ![n] = term[m]] /\ role' = [role EXCEPT ![n] = "follower"]
    BY <1>3 DEF StepDown
  <2>2. \A p \in Nodes : term'[p] >= term[p]
    BY <1>3, <2>1, LogTypes
  <2>3. \A p \in Nodes : role'[p] = "leader" => role[p] = "leader" /\ term'[p] = term[p]
    BY <2>1, LogTypes
  <2> QED BY <1>1, <1>3, <2>2, <2>3, LogTypes, NoLeaderStep
<1>4. CASE /\ term[n] >= term[m]
           /\ term' = [term EXCEPT ![m] = term[n]]
           /\ role' = [role EXCEPT ![m] = "follower"]
           /\ nextIndex' = [nextIndex EXCEPT ![n][m] = NextAfterReject(@)]
           /\ UNCHANGED <<log, commitIndex, matchIndex>>
  <2> DEFINE next == nextIndex[n][m]
             new == NextAfterReject(next)
  <2>1. Len(log[n]) \in Nat /\ next \in Nat \cup {Nil} /\ (next # Nil => next <= Len(log[n]) + 1)
    BY <1>1, LogFacts, LogTypes
  <2> HIDE DEF next
  <2>2. new \in Nat /\ new <= Len(log[n]) + 1
    BY <2>1 DEF NextAfterReject
  <2>3. nextIndex' = [nextIndex EXCEPT ![n][m] = new]
    BY <1>4 DEF next
  <2> HIDE DEF new
  <2>4. nextIndex' \in [Nodes -> [Nodes -> Nat \cup {Nil}]]
    BY <2>2, <2>3, LogTypes
  <2>5. TypeOK'
    BY <1>1, <1>4, <2>4, LogTypes, TypesTogether
  <2>6. \A p \in Nodes : term'[p] >= term[p]
    BY <1>4, LogTypes
  <2>7. \A p \in Nodes : role'[p] = "leader" => role[p] = "leader" /\ term'[p] = term[p]
    BY <1>4, LogTypes
  <2>8. \A p, k \in Nodes : role'[p] = "leader" /\ k # p /\ nextIndex'[p][k] # Nil =>
          nextIndex'[p][k] <= Len(log[p]) + 1
    <3> SUFFICES ASSUME NEW p \in Nodes, NEW k \in Nodes, role'[p] = "leader", k # p,
                        nextIndex'[p][k] # Nil
                 PROVE  nextIndex'[p][k] <= Len(log[p]) + 1
      OBVIOUS
    <3>1. nextIndex'[p][k] = nextIndex[p][k] \/ (p = n /\ nextIndex'[p][k] = new)
      BY <2>3, LogTypes
    <3> QED BY <2>2, <2>7, <3>1, LogTypes
  <2>9. \A p \in Nodes : matchIndex'[p][p] = Nil
    BY <1>4, LogTypes
  <2> QED BY <1>1, <1>4, <2>5, <2>6, <2>7, <2>8, <2>9, KeptStep
<1>5. CASE /\ term[n] >= term[m] /\ HoldsPrevious(m, q)
           /\ term' = [term EXCEPT ![m] = term[n]]
           /\ role' = [role EXCEPT ![m] = "follower"]
           /\ log' = [log EXCEPT ![m] = Splice(log[m], q.entries)]
           /\ commitIndex' = [commitIndex EXCEPT
                                ![m] = FollowerCommit(commitIndex[n], Splice(log[m], q.entries)),
                                ![n] = CommitAfterAck(n, matched)]
           /\ matchIndex' = [matchIndex EXCEPT ![n] = matched]
           /\ nextIndex' = [nextIndex EXCEPT ![n][m] = last + 1]
  BY <1>1, <1>5, AcceptStep
<1> QED BY <1>1, <1>2, <1>3, <1>4, <1>5 DEF Replicate, RoleAfterAppend

-----------------------------------------------------------------------------
(* The invariant *)

\* The initial states keep it.
LEMMA LogInit == Init => LogInv
<1> SUFFICES ASSUME Init PROVE LogInv
  OBVIOUS
<1>1. ElectionInv
  BY ElectionInit
<1>2. log \in [Nodes -> Seq(Entry)] /\ \A n \in Nodes : log[n] = <<>> /\ DOMAIN log[n] = {}
  BY DEF Init
<1>3. /\ commitIndex \in [Nodes -> Nat]
      /\ nextIndex \in [Nodes -> [Nodes -> Nat \cup {Nil}]]
      /\ matchIndex \in [Nodes -> [Nodes -> Nat \cup {Nil}]]
      /\ request \in [Nodes -> VoteRequest \cup {Nil}]
  BY DEF Init
<1>4. TypeOK
  BY <1>1, <1>2, <1>3 DEF ElectionInv, ElectionTypes, TypeOK
<1>5. LogIndexed /\ Agreement /\ EntryElected
  BY <1>2 DEF LogIndexed, Agreement, EntryElected
<1>6. CommitWithinLog
  BY <1>2 DEF CommitWithinLog, Init
<1>7. \A n, m \in Nodes : LeaderHolds(n) /\ NextFits(n, m) /\ MatchFits(n, m)
  BY DEF Init, LeaderHolds, NextFits, MatchFits
<1> QED BY <1>1, <1>4, <1>5, <1>6, <1>7 DEF LogInv

\* Every step keeps it.
LEMMA LogStep == LogInv /\ [Next]_vars => LogInv'
<1> SUFFICES ASSUME LogInv, [Next]_vars PROVE LogInv'
  OBVIOUS
<1>1. ElectionInv'
  BY ElectionStep DEF LogInv
<1>2. CASE UNCHANGED vars
  <2>1. UNCHANGED <<log, commitIndex, nextIndex, matchIndex, elected, request, term, role>>
    BY <1>2 DEF vars
  <2>2. \A p \in Nodes : term'[p] >= term[p]
    BY <2>1, LogTypes
  <2> QED BY <1>1, <2>1, <2>2, LogTypes, NoLeaderStep
<1> QED BY <1>1, <1>2, ConfigureStep, StartStep, AppendStep, VoteStep, VoteLostStep,
           AppendAnsweredStep, LostAppendStep DEF Next

\* The invariant holds in every reachable state.
LEMMA LogInvHolds == Spec => []LogInv
BY LogInit, LogStep, PTL DEF Spec

-----------------------------------------------------------------------------
(* What follows for the code *)

\* Agreement is log matching.
LEMMA AgreementMatches == LogInv => LogMatching
<1> SUFFICES ASSUME LogInv, NEW n \in Nodes, NEW m \in Nodes,
                    NEW i \in DOMAIN log[n] \cap DOMAIN log[m],
                    log[n][i].term = log[m][i].term
             PROVE  SubSeq(log[n], 1, i) = SubSeq(log[m], 1, i)
  BY DEF LogMatching
<1>1. /\ log[n] \in Seq(Entry) /\ log[m] \in Seq(Entry)
      /\ i \in 1 .. Len(log[n]) /\ i \in 1 .. Len(log[m])
  BY LogFacts
<1>2. \A k \in 1 .. i : log[n][k] = log[m][k]
  BY DEF LogInv, Agreement
<1> DEFINE s == SubSeq(log[n], 1, i)
           t == SubSeq(log[m], 1, i)
<1>3. s \in Seq(Entry) /\ Len(s) = i /\ \A k \in 1 .. i : s[k] = log[n][k]
  BY <1>1
<1>4. t \in Seq(Entry) /\ Len(t) = i /\ \A k \in 1 .. i : t[k] = log[m][k]
  BY <1>1
<1> HIDE DEF s, t
<1>5. s = t
  BY <1>2, <1>3, <1>4
<1> QED BY <1>5 DEF s, t

\* Every field of every node keeps its type: no index or term that raft.cpp
\* computes is negative, and next_index_ never passes below 0.
THEOREM RaftTypesKept == Spec => []TypeOK
<1>1. LogInv => TypeOK
  BY DEF LogInv
<1> QED BY <1>1, LogInvHolds, PTL

\* Log matching: append_entries and append_client_command keep two logs that
\* hold an entry of the same index and term equal up to it.
THEOREM LogsMatch == Spec => []LogMatching
BY AgreementMatches, LogInvHolds, PTL

\* The index of an entry is its place in the log, which raft.cpp relies on when
\* it addresses log_[index - 1] and takes log_.back().index for the size.
THEOREM IndexesArePlaces == Spec => []LogIndexed
<1>1. LogInv => LogIndexed
  BY DEF LogInv
<1> QED BY <1>1, LogInvHolds, PTL

\* No commit index runs past the end of its node's log, though a follower's log
\* is cut back and a leader counts what it appends at once.
THEOREM CommitsStayWithin == Spec => []CommitWithinLog
<1>1. LogInv => CommitWithinLog
  BY DEF LogInv
<1> QED BY <1>1, LogInvHolds, PTL

\* match_index_, which observe_append_entries_response takes from the leader's
\* log of the moment, never exceeds what the follower holds of it.
THEOREM MatchesAreReplicated == Spec => []MatchedIsReplicated
<1>1. LogInv => MatchedIsReplicated
  BY DEF LogInv, MatchFits, MatchedIsReplicated
<1> QED BY <1>1, LogInvHolds, PTL

\* A node that stays leader only appends to its log: whoever accepts the entries
\* of another leader becomes a follower in the same call.
THEOREM LeadersAppendOnly == Spec => LeaderAppendOnly
<1> DEFINE Extends ==
      \A n \in Nodes :
        role[n] = "leader" /\ role'[n] = "leader"
          => Len(log'[n]) >= Len(log[n]) /\ SubSeq(log'[n], 1, Len(log[n])) = log[n]
<1>1. LogInv /\ [Next]_vars => [Extends]_vars
  <2> SUFFICES ASSUME LogInv, [Next]_vars, NEW n \in Nodes,
                      role[n] = "leader", role'[n] = "leader"
               PROVE  Len(log'[n]) >= Len(log[n]) /\ SubSeq(log'[n], 1, Len(log[n])) = log[n]
    OBVIOUS
  <2>1. log[n] \in Seq(Entry) /\ LastIndex(log[n]) = Len(log[n]) /\ Len(log[n]) \in Nat
    BY LogFacts
  <2>2. \/ log'[n] = log[n]
        \/ \E c \in Commands : AppendClientCommand(n, c)
    <3>1. CASE UNCHANGED log
      BY <3>1
    <3>2. ASSUME NEW p \in Nodes, NEW c \in Commands, AppendClientCommand(p, c)
          PROVE  log'[n] = log[n] \/ AppendClientCommand(n, c)
      BY <3>2, LogTypes DEF AppendClientCommand
    <3>3. ASSUME NEW p \in Nodes, NEW m \in Nodes, Replicate(p, m)
          PROVE  log'[n] = log[n]
      BY <3>3, LogTypes DEF Replicate, RoleAfterAppend
    <3>4. ASSUME NEW p \in Nodes, NEW m \in Nodes, ReplicateLost(p, m)
          PROVE  log'[n] = log[n]
      BY <3>4, LogTypes DEF ReplicateLost, AppendEntriesLog, Accepts, RoleAfterAppend
    <3>5. \/ UNCHANGED log
          \/ \E p \in Nodes, c \in Commands : AppendClientCommand(p, c)
          \/ \E p \in Nodes, m \in Nodes : Replicate(p, m) \/ ReplicateLost(p, m)
      BY DEF Next, vars, ConfigureCluster, StartElection, AskVote,
             AskVoteLost
    <3> QED BY <3>1, <3>2, <3>3, <3>4, <3>5
  <2>3. CASE log'[n] = log[n]
    BY <2>1, <2>3
  <2>4. ASSUME NEW c \in Commands, AppendClientCommand(n, c)
        PROVE  Len(log'[n]) >= Len(log[n]) /\ SubSeq(log'[n], 1, Len(log[n])) = log[n]
    <3> DEFINE entry == [index |-> LastIndex(log[n]) + 1, term |-> term[n], command |-> c]
               l == Append(log[n], entry)
               s == SubSeq(l, 1, Len(log[n]))
    <3>1. log'[n] = l
      BY <2>4, LogTypes DEF AppendClientCommand
    <3>2. entry \in Entry
      BY <2>1, LogTypes DEF Entry
    <3> HIDE DEF entry
    <3>3. /\ l \in Seq(Entry) /\ Len(l) = Len(log[n]) + 1
          /\ \A i \in 1 .. Len(log[n]) : l[i] = log[n][i]
      BY <2>1, <3>2, AppendProperties
    <3> HIDE DEF l
    <3>4. s \in Seq(Entry) /\ Len(s) = Len(log[n]) /\ \A i \in 1 .. Len(log[n]) : s[i] = l[i]
      BY <2>1, <3>3
    <3> HIDE DEF s
    <3>5. s = log[n]
      BY <2>1, <3>3, <3>4
    <3>6. Len(l) >= Len(log[n])
      BY <2>1, <3>3
    <3> QED BY <3>1, <3>5, <3>6 DEF s
  <2> QED BY <2>2, <2>3, <2>4
<1> HIDE DEF Extends
<1>2. Spec => [][Extends]_vars
  BY <1>1, LogInvHolds, PTL DEF Spec
<1> QED BY <1>2 DEF Extends, LeaderAppendOnly

-----------------------------------------------------------------------------
(* The loops over log entries *)

\* The entries whose index is at least next are the tail of the log from there.
LEMMA CollectIsTail ==
  ASSUME NEW l \in Seq(Entry), \A i \in 1 .. Len(l) : l[i].index = i, NEW next \in Nat
  PROVE  Collect(l, next) = EntriesFrom(l, next)
<1> DEFINE n == Len(l)
           first == IF next = 0 THEN 1 ELSE next
           g == [i \in 0 .. n |-> SubSeq(l, first, i)]
           F(r) == r = [i \in 0 .. n |-> IF i = 0 THEN <<>>
                                         ELSE IF l[i].index >= next THEN Append(r[i - 1], l[i]) ELSE r[i - 1]]
           out == CHOOSE r : F(r)
<1>1. n \in Nat /\ first \in Nat \ {0} /\ \A i \in 1 .. n : l[i].index = i
  OBVIOUS
<1>2. g[0] = <<>> /\ 0 \in 0 .. n
  <2>1. 0 \in 0 .. n /\ first > 0
    BY <1>1
  <2> HIDE DEF first
  <2>2. SubSeq(l, first, 0) = <<>>
    BY <1>1, <2>1, SubSeqEmpty
  <2> QED BY <2>1, <2>2
<1>3. ASSUME NEW i \in 1 .. n
      PROVE  g[i] = IF l[i].index >= next THEN Append(g[i - 1], l[i]) ELSE g[i - 1]
  <2>1. i \in 0 .. n /\ i - 1 \in 0 .. n /\ l[i].index = i /\ i \in Nat
    BY <1>1
  <2>2. g[i] = SubSeq(l, first, i) /\ g[i - 1] = SubSeq(l, first, i - 1)
    BY <2>1
  <2> HIDE DEF g
  <2>3. CASE i >= next
    <3>1. first <= i
      BY <2>1, <2>3
    <3> HIDE DEF first
    <3>2. SubSeq(l, first, i) = Append(SubSeq(l, first, i - 1), l[i])
      <4>1. /\ SubSeq(l, first, i) \in Seq(Entry) /\ Len(SubSeq(l, first, i)) = i - first + 1
            /\ \A j \in 1 .. i - first + 1 : SubSeq(l, first, i)[j] = l[first + j - 1]
        <5>1. first \in 1 .. Len(l) + 1 /\ i \in first - 1 .. Len(l)
          BY <1>1, <3>1
        <5> QED BY <5>1, SubSeqProperties
      <4>2. /\ SubSeq(l, first, i - 1) \in Seq(Entry) /\ Len(SubSeq(l, first, i - 1)) = i - first
            /\ \A j \in 1 .. i - first : SubSeq(l, first, i - 1)[j] = l[first + j - 1]
        <5>1. first \in 1 .. Len(l) + 1 /\ i - 1 \in first - 1 .. Len(l) /\ (i - 1) - first + 1 = i - first
          BY <1>1, <2>1, <3>1
        <5> QED BY <5>1, SubSeqProperties
      <4> DEFINE s == SubSeq(l, first, i)
                 t == SubSeq(l, first, i - 1)
      <4>3. l[i] \in Entry
        OBVIOUS
      <4> HIDE DEF s, t, n
      <4>4. /\ Append(t, l[i]) \in Seq(Entry) /\ Len(Append(t, l[i])) = i - first + 1
            /\ \A j \in 1 .. i - first : Append(t, l[i])[j] = l[first + j - 1]
            /\ Append(t, l[i])[i - first + 1] = l[i]
        BY <1>1, <2>1, <3>1, <4>2, <4>3, AppendProperties DEF t
      <4>5. \A j \in 1 .. i - first + 1 : s[j] = Append(t, l[i])[j]
        <5> SUFFICES ASSUME NEW j \in 1 .. i - first + 1 PROVE s[j] = Append(t, l[i])[j]
          OBVIOUS
        <5>1. CASE j = i - first + 1
          <6>1. first + j - 1 = i
            BY <1>1, <2>1, <5>1
          <6> QED BY <4>1, <4>4, <5>1, <6>1 DEF s
        <5>2. CASE j # i - first + 1
          <6>1. j \in 1 .. i - first
            BY <1>1, <2>1, <5>2
          <6> QED BY <4>1, <4>4, <6>1 DEF s
        <5> QED BY <5>1, <5>2
      <4>6. s \in Seq(Entry) /\ Len(s) = i - first + 1
        BY <4>1 DEF s
      <4>7. s = Append(t, l[i])
        BY <4>4, <4>5, <4>6, SeqEqual
      <4> QED BY <4>7 DEF s, t
    <3> QED BY <2>1, <2>2, <2>3, <3>2
  <2>4. CASE ~(i >= next)
    <3>1. i < first /\ i - 1 < first
      BY <2>1, <2>4
    <3> HIDE DEF first
    <3>2. SubSeq(l, first, i) = <<>> /\ SubSeq(l, first, i - 1) = <<>>
      BY <1>1, <2>1, <3>1, SubSeqEmpty
    <3> QED BY <2>1, <2>2, <2>4, <3>2
  <2> QED BY <2>3, <2>4
<1>4. F(g)
  <2>1. g = [i \in 0 .. n |-> g[i]]
    OBVIOUS
  <2> HIDE DEF g
  <2>2. ASSUME NEW i \in 0 .. n
        PROVE  g[i] = IF i = 0 THEN <<>> ELSE IF l[i].index >= next THEN Append(g[i - 1], l[i]) ELSE g[i - 1]
    <3>1. CASE i = 0
      BY <1>2, <3>1
    <3>2. CASE i # 0
      <4>1. i \in 1 .. n
        BY <1>1, <3>2
      <4> QED BY <1>3, <3>2, <4>1
    <3> QED BY <3>1, <3>2
  <2> QED BY <2>1, <2>2
<1>5. Collect(l, next) = out[n]
  BY DEF Collect
<1>6. F(out)
  <2> HIDE DEF F
  <2> QED BY <1>4
<1>7. g[n] = EntriesFrom(l, next)
  BY <1>1 DEF EntriesFrom
<1> HIDE DEF out, g, n
<1> DEFINE T == {i \in 0 .. n : out[i] = g[i]}
<1>8. 0 \in T
  BY <1>2, <1>6
<1>9. ASSUME NEW i \in 0 .. n - 1, i \in T PROVE i + 1 \in T
  <2>1. i + 1 \in 1 .. n /\ i + 1 \in 0 .. n /\ i + 1 # 0 /\ (i + 1) - 1 = i /\ out[i] = g[i]
    BY <1>1, <1>9
  <2>2. out[i + 1] = IF l[i + 1].index >= next THEN Append(out[i], l[i + 1]) ELSE out[i]
    BY <1>6, <2>1
  <2>3. g[i + 1] = IF l[i + 1].index >= next THEN Append(g[i], l[i + 1]) ELSE g[i]
    BY <1>3, <2>1
  <2>4. out[i + 1] = g[i + 1]
    BY <2>1, <2>2, <2>3
  <2> QED BY <2>1, <2>4
<1>10. 0 .. n \subseteq T
  <2> HIDE DEF T
  <2> QED BY <1>1, <1>8, <1>9, BoundedInduction
<1>11. out[n] = g[n]
  BY <1>1, <1>10
<1> QED BY <1>5, <1>7, <1>11

\* One more entry of a sequence behind h.
LEMMA OneMore ==
  ASSUME NEW h \in Seq(Entry), NEW es \in Seq(Entry), NEW i \in 1 .. Len(es)
  PROVE  /\ h \o SubSeq(es, 1, i) = Append(h \o SubSeq(es, 1, i - 1), es[i])
         /\ h \o SubSeq(es, 1, i - 1) \in Seq(Entry)
         /\ Len(h \o SubSeq(es, 1, i - 1)) = Len(h) + i - 1
<1> DEFINE s == SubSeq(es, 1, i - 1)
           t == SubSeq(es, 1, i)
<1>1. Len(h) \in Nat /\ Len(es) \in Nat /\ i \in Nat /\ es[i] \in Entry
  OBVIOUS
<1>2. s \in Seq(Entry) /\ Len(s) = i - 1 /\ \A j \in 1 .. i - 1 : s[j] = es[j]
  BY <1>1
<1>3. t \in Seq(Entry) /\ Len(t) = i /\ \A j \in 1 .. i : t[j] = es[j]
  BY <1>1
<1> HIDE DEF s, t
<1>4. t = Append(s, es[i])
  <2>1. /\ Append(s, es[i]) \in Seq(Entry) /\ Len(Append(s, es[i])) = i
        /\ \A j \in 1 .. i - 1 : Append(s, es[i])[j] = s[j]
        /\ Append(s, es[i])[i] = es[i]
    BY <1>1, <1>2, AppendProperties
  <2>2. \A j \in 1 .. i : t[j] = Append(s, es[i])[j]
    <3> SUFFICES ASSUME NEW j \in 1 .. i PROVE t[j] = Append(s, es[i])[j]
      OBVIOUS
    <3>1. CASE j = i
      BY <1>3, <2>1, <3>1
    <3>2. CASE j # i
      <4>1. j \in 1 .. i - 1
        BY <1>1, <3>2
      <4> QED BY <1>2, <1>3, <2>1, <4>1
    <3> QED BY <3>1, <3>2
  <2> QED BY <1>3, <2>1, <2>2, SeqEqual
<1>5. Append(s, es[i]) = s \o <<es[i]>> /\ <<es[i]>> \in Seq(Entry)
  <2>1. Append(s, es[i]) = s \o <<es[i]>>
    BY <1>1, <1>2, AppendIsConcat
  <2>2. <<es[i]>> \in Seq(Entry)
    <3> DEFINE x == es[i]
    <3>1. x \in Entry
      BY <1>1
    <3> HIDE DEF x
    <3>2. <<x>> \in Seq(Entry)
      BY <3>1
    <3> QED BY <3>2 DEF x
  <2> QED BY <2>1, <2>2
<1>6. h \o s \in Seq(Entry) /\ Len(h \o s) = Len(h) + Len(s)
  BY <1>2, ConcatProperties
<1>7. Append(h \o s, es[i]) = (h \o s) \o <<es[i]>>
  BY <1>1, <1>6, AppendIsConcat
<1> DEFINE e == <<es[i]>>
<1> HIDE DEF e
<1>8. (h \o s) \o e = h \o (s \o e)
  BY <1>2, <1>5, ConcatAssociative DEF e
<1>9. h \o t = Append(h \o s, es[i])
  BY <1>4, <1>5, <1>7, <1>8 DEF e
<1> QED BY <1>1, <1>2, <1>6, <1>9 DEF s, t

\* Entries of consecutive indexes: only the first one can cut the log back.
LEMMA AppendEachIsSplice ==
  ASSUME NEW l \in Seq(Entry), NEW es \in Seq(Entry), NEW f \in Nat \ {0},
         \A i \in 1 .. Len(es) : es[i].index = f + i - 1
  PROVE  AppendEach(l, es) = Splice(l, es)
<1> DEFINE n == Len(es)
           c == IF Len(l) >= f THEN f - 1 ELSE Len(l)
           h == SubSeq(l, 1, c)
           g == [i \in 0 .. n |-> IF i = 0 THEN l ELSE h \o SubSeq(es, 1, i)]
           F(r) == r = [i \in 0 .. n |-> IF i = 0 THEN l ELSE AppendOne(r[i - 1], es[i])]
           out == CHOOSE r : F(r)
<1>1. n \in Nat /\ Len(l) \in Nat /\ c \in Nat /\ c <= Len(l) /\ c <= f - 1
  OBVIOUS
<1>2. h \in Seq(Entry) /\ Len(h) = c
  <2> HIDE DEF c
  <2> QED BY <1>1
<1>3. h = IF Len(l) >= f THEN SubSeq(l, 1, f - 1) ELSE l
  <2>1. SubSeq(l, 1, Len(l)) = l
    BY SubSeqFull
  <2> QED BY <2>1
<1>4. ASSUME NEW i \in 1 .. n PROVE g[i] = AppendOne(g[i - 1], es[i])
  <2>1. i \in 0 .. n /\ i - 1 \in 0 .. n /\ i # 0 /\ es[i].index = f + i - 1
    BY <1>1
  <2>2. g[i] = h \o SubSeq(es, 1, i) /\ g[i - 1] = IF i - 1 = 0 THEN l ELSE h \o SubSeq(es, 1, i - 1)
    BY <2>1
  <2> HIDE DEF g, h, c
  <2>3. /\ h \o SubSeq(es, 1, i) = Append(h \o SubSeq(es, 1, i - 1), es[i])
        /\ Len(h \o SubSeq(es, 1, i - 1)) = c + i - 1
    BY <1>2, OneMore
  <2>4. CASE i = 1
    <3>1. SubSeq(es, 1, i - 1) = <<>>
      BY <2>4, SubSeqEmpty
    <3>2. h \o SubSeq(es, 1, i - 1) = h
      BY <1>2, <3>1, ConcatEmptySeq
    <3>3. g[i - 1] = l /\ es[i].index = f
      BY <2>1, <2>2, <2>4
    <3>4. AppendOne(l, es[i]) = Append(h, es[i])
      BY <1>3, <3>3 DEF AppendOne
    <3> QED BY <2>2, <2>3, <3>2, <3>3, <3>4
  <2>5. CASE i # 1
    <3> DEFINE w == h \o SubSeq(es, 1, i - 1)
    <3>1. g[i - 1] = w
      BY <2>1, <2>2, <2>5
    <3>2. Len(w) = c + i - 1
      BY <2>3
    <3>3. g[i] = Append(w, es[i])
      BY <2>2, <2>3
    <3> HIDE DEF w
    <3>4. ~(Len(w) >= es[i].index)
      BY <1>1, <2>1, <3>2
    <3>5. AppendOne(w, es[i]) = Append(w, es[i])
      BY <3>4 DEF AppendOne
    <3> QED BY <3>1, <3>3, <3>5
  <2> QED BY <2>4, <2>5
<1>5. g[0] = l /\ 0 \in 0 .. n
  BY <1>1
<1>6. F(g)
  <2>1. g = [i \in 0 .. n |-> g[i]]
    OBVIOUS
  <2> HIDE DEF g
  <2>2. ASSUME NEW i \in 0 .. n PROVE g[i] = IF i = 0 THEN l ELSE AppendOne(g[i - 1], es[i])
    <3>1. CASE i = 0
      BY <1>5, <3>1
    <3>2. CASE i # 0
      <4>1. i \in 1 .. n
        BY <1>1, <3>2
      <4> QED BY <1>4, <3>2, <4>1
    <3> QED BY <3>1, <3>2
  <2> QED BY <2>1, <2>2
<1>7. AppendEach(l, es) = out[n]
  BY DEF AppendEach
<1>8. F(out)
  <2> HIDE DEF F
  <2> QED BY <1>6
<1>9. g[n] = Splice(l, es)
  <2>1. n \in 0 .. n /\ (es = <<>> <=> n = 0)
    BY <1>1, EmptySeq
  <2>2. CASE n = 0
    BY <1>5, <2>1, <2>2 DEF Splice
  <2>3. CASE n # 0
    <3>1. es[1].index = f
      BY <1>1, <2>3
    <3>2. g[n] = h \o SubSeq(es, 1, n)
      BY <2>1, <2>3
    <3>3. SubSeq(es, 1, n) = es
      BY SubSeqFull
    <3>4. Splice(l, es) = h \o es
      BY <2>1, <2>3, <3>1 DEF Splice
    <3> QED BY <3>2, <3>3, <3>4
  <2> QED BY <2>2, <2>3
<1> HIDE DEF out, g, n
<1> DEFINE T == {i \in 0 .. n : out[i] = g[i]}
<1>10. 0 \in T
  BY <1>5, <1>8
<1>11. ASSUME NEW i \in 0 .. n - 1, i \in T PROVE i + 1 \in T
  <2>1. i + 1 \in 1 .. n /\ i + 1 \in 0 .. n /\ i + 1 # 0 /\ (i + 1) - 1 = i /\ out[i] = g[i]
    BY <1>1, <1>11
  <2>2. out[i + 1] = AppendOne(out[i], es[i + 1])
    BY <1>8, <2>1
  <2>3. g[i + 1] = AppendOne(g[i], es[i + 1])
    BY <1>4, <2>1
  <2> QED BY <2>1, <2>2, <2>3
<1>12. 0 .. n \subseteq T
  <2> HIDE DEF T
  <2> QED BY <1>1, <1>10, <1>11, BoundedInduction
<1>13. out[n] = g[n]
  BY <1>1, <1>12
<1> QED BY <1>7, <1>9, <1>13

\* Whatever a leader sends to whoever accepts it, the two loops and the closed forms
\* of the model make the same log of it.
THEOREM LoopsSplice == Spec => []SpliceIsTheLoop
<1>1. ASSUME LogInv PROVE SpliceIsTheLoop
  <2> SUFFICES ASSUME NEW n \in Nodes, NEW m \in Nodes
               PROVE  Splice(log[m], MakeAppendEntries(n, m).entries)
                        = AppendEach(log[m], Collect(log[n], NextFor(n, m)))
    BY DEF SpliceIsTheLoop
  <2> DEFINE l == log[n]
             next == NextFor(n, m)
             es == EntriesFrom(l, next)
             f == IF next = 0 THEN 1 ELSE next
  <2>1. /\ l \in Seq(Entry) /\ log[m] \in Seq(Entry) /\ Len(l) \in Nat
        /\ \A i \in 1 .. Len(l) : l[i].index = i
    BY <1>1 DEF LogInv, TypeOK, LogIndexed
  <2>2. next \in Nat
    BY <1>1, <2>1, LastIsLength DEF LogInv, TypeOK, NextFor
  <2>3. MakeAppendEntries(n, m).entries = es
    BY DEF MakeAppendEntries
  <2> HIDE DEF l, next
  <2>4. Collect(l, next) = es
    BY <2>1, <2>2, CollectIsTail
  <2>5. f \in Nat \ {0} /\ es = SubSeq(l, f, Len(l))
    BY <2>2 DEF EntriesFrom
  <2> HIDE DEF f, es
  <2>6. es \in Seq(Entry) /\ \A i \in 1 .. Len(es) : es[i].index = f + i - 1
    <3>1. CASE f <= Len(l)
      <4>1. /\ es \in Seq(Entry) /\ Len(es) = Len(l) - f + 1
            /\ \A i \in 1 .. Len(l) - f + 1 : es[i] = l[f + i - 1]
        BY <2>1, <2>5, <3>1, SubSeqProperties
      <4>2. \A i \in 1 .. Len(l) - f + 1 : f + i - 1 \in 1 .. Len(l)
        BY <2>1, <2>5, <3>1
      <4> QED BY <2>1, <4>1, <4>2
    <3>2. CASE ~(f <= Len(l))
      <4>1. es = <<>>
        BY <2>1, <2>5, <3>2, SubSeqEmpty
      <4> QED BY <4>1
    <3> QED BY <3>1, <3>2
  <2>7. AppendEach(log[m], es) = Splice(log[m], es)
    BY <2>1, <2>5, <2>6, AppendEachIsSplice
  <2> QED BY <2>3, <2>4, <2>7 DEF l, next
<1> QED BY <1>1, LogInvHolds, PTL
=============================================================================
