----------------------------- MODULE Membership -----------------------------
(***************************************************************************)
(* Who each node takes for a member, and where it places chunks: the       *)
(* ClusterState of every node, the HeartbeatWorker that tells a node's     *)
(* configured peers of it, POST /v1/heartbeat at the receiver, the         *)
(* refresh that precedes every chunk operation, and the consistent hash    *)
(* ring that write_plan builds of the known members.                       *)
(*                                                                         *)
(* Nobody passes on what it hears, and nothing is persisted: a restarted   *)
(* node knows itself and its configured peers.  One exchange with a peer   *)
(* is one step.  Time is the passing of last_seen beyond the timeout.      *)
(***************************************************************************)
EXTENDS Integers, Sequences, FiniteSets

CONSTANTS
  Nodes,              \* node ids
  PeerList,           \* PeerList[n]: the peers in n's configuration file, in order
  Keys,               \* chunk ids
  RingSize,           \* number of hash values
  Place,              \* Place[i]: the ring positions of i's virtual nodes
  HashOf,             \* HashOf[k]: hash64(k)
  ReplicationFactor,  \* from the configuration file
  MaxCrashes          \* bound on process crashes in a behaviour

Peers(n) == {PeerList[n][i] : i \in DOMAIN PeerList[n]}

\* Of any two nodes one is in the other's configuration: the shipped files list
\* everybody, and a node that joins lists those that are there.
ASSUME PeersAssumption ==
  /\ IsFiniteSet(Nodes)
  /\ \A n \in Nodes : PeerList[n] \in Seq(Nodes \ {n})
  /\ \A n, m \in Nodes : n = m \/ m \in Peers(n) \/ n \in Peers(m)

\* Virtual nodes of different members do not collide on the ring.
ASSUME RingAssumption ==
  /\ RingSize \in Nat \ {0}
  /\ HashOf \in [Keys -> 0 .. RingSize - 1]
  /\ \A n \in Nodes : Place[n] \in (SUBSET (0 .. RingSize - 1)) \ {{}}
  /\ \A n, m \in Nodes : n # m => Place[n] \cap Place[m] = {}
  /\ ReplicationFactor \in Nat \ {0}
  /\ MaxCrashes \in Nat

VARIABLES
  up,       \* the nodes whose process runs
  known,    \* known[n]: the ids in nodes_ of n's ClusterState
  remote,   \* remote[n]: those of them whose address is "remote"
  stale,    \* stale[n]: those of them last seen longer ago than the timeout
  at,       \* at[n]: position of n's heartbeat worker in its peers
  crashes   \* how many processes have died

view == <<known, remote, stale>>
vars == <<up, known, remote, stale, at, crashes>>

Init ==
  /\ up = {}
  /\ known = [n \in Nodes |-> {}]
  /\ remote = [n \in Nodes |-> {}]
  /\ stale = [n \in Nodes |-> {}]
  /\ at = [n \in Nodes |-> 1]
  /\ crashes = 0

-----------------------------------------------------------------------------
(* ClusterState and the ring *)

\* heartbeat(node) for every id of S in n's state, with the addresses of n's
\* configuration.
Refresh(n, S) ==
  /\ known' = [known EXCEPT ![n] = @ \cup S]
  /\ remote' = [remote EXCEPT ![n] = @ \ S]
  /\ stale' = [stale EXCEPT ![n] = @ \ S]

\* How far the walk around the ring from k comes before position p.
Distance(p, k) == (p - HashOf[k]) % RingSize

\* <<i, j, k>> when the walk from k meets a virtual node of i before any of j.
Ahead ==
  {t \in {<<i, j, k>> : i \in Nodes, j \in Nodes, k \in Keys} :
     \E p \in Place[t[1]] : \A q \in Place[t[2]] : Distance(p, t[3]) < Distance(q, t[3])}

\* locate: the first replication_factor distinct members the walk meets.  The
\* variants count virtual nodes instead of members, and stop one member late.
LocateVirtual(M, k) ==
  {i \in M : \E p \in Place[i] :
     Cardinality({q \in UNION {Place[j] : j \in M} : Distance(q, k) < Distance(p, k)})
       < ReplicationFactor}
LocateOneMore(M, k) == {i \in M : Cardinality({j \in M : <<j, i, k>> \in Ahead}) <= ReplicationFactor}
Locate(M, k) == {i \in M : Cardinality({j \in M : <<j, i, k>> \in Ahead}) < ReplicationFactor}

\* The loop of locate as it is written: from lower_bound(hash64(k)) to the end of the
\* ring and on from its beginning, until there are enough distinct members; after one
\* round every member has been seen, and the loop ends as well.  Whoever heartbeat
\* files is marked healthy, so the loop's test of healthy holds of every member that
\* write_plan puts on the ring.
WalkRing(M, k) ==
  LET Visit(out, p) ==
        IF Cardinality(out) < ReplicationFactor THEN out \cup {i \in M : p \in Place[i]} ELSE out
      met[d \in 0 .. RingSize] ==
        IF d = 0 THEN {} ELSE Visit(met[d - 1], (HashOf[k] + d - 1) % RingSize) IN
  met[RingSize]

\* The members write_plan puts on its ring: known_nodes.
OnRing(n) == known[n]

\* The targets of write_plan, read_plan and migration_targets on n.
Plan(n, k) == Locate(OnRing(n), k)

-----------------------------------------------------------------------------
(* The process and its threads *)

\* main: the node itself and the configured peers, before anybody is heard of.
Start(n) ==
  /\ n \notin up
  /\ up' = up \cup {n}
  /\ Refresh(n, {n} \cup Peers(n))
  /\ UNCHANGED <<at, crashes>>

Crash(n) ==
  /\ n \in up
  /\ crashes < MaxCrashes
  /\ crashes' = crashes + 1
  /\ up' = up \ {n}
  /\ known' = [known EXCEPT ![n] = {}]
  /\ remote' = [remote EXCEPT ![n] = {}]
  /\ stale' = [stale EXCEPT ![n] = {}]
  /\ at' = [at EXCEPT ![n] = 1]

\* The address POST /v1/heartbeat on m files the sender n under.  The variant
\* looks nobody up.
FiledRemoteAlways(m, n) == TRUE
FiledRemote(m, n) == n \notin Peers(m)

\* The peer n's worker calls next, and the step to the one after it.  The variant
\* leaves out every second peer.
Turn(n) == PeerList[n][at[n]]
AdvanceByTwo(n) == at' = [at EXCEPT ![n] = @ + 2]
Advance(n) == at' = [at EXCEPT ![n] = @ + 1]

\* One round of the worker's loop: POST /v1/heartbeat files the sender n on m, and
\* when the answer arrives the worker files m on n.
Heartbeat(n, m, answered) ==
  LET heard == IF answered THEN {m} ELSE {} IN
  /\ n \in up /\ m \in up
  /\ at[n] \in DOMAIN PeerList[n] /\ m = Turn(n)
  /\ known' = [known EXCEPT ![m] = @ \cup {n}, ![n] = @ \cup heard]
  /\ remote' = [remote EXCEPT ![m] = IF FiledRemote(m, n) THEN @ \cup {n} ELSE @ \ {n},
                              ![n] = @ \ heard]
  /\ stale' = [stale EXCEPT ![m] = @ \ {n}, ![n] = @ \ heard]
  /\ Advance(n)
  /\ UNCHANGED <<up, crashes>>

\* The peer is not reached.
HeartbeatFails(n) ==
  /\ n \in up
  /\ at[n] \in DOMAIN PeerList[n]
  /\ Advance(n)
  /\ UNCHANGED <<up, view, crashes>>

\* sleep_for(interval_), and the task again.
NextRound(n) ==
  /\ n \in up
  /\ at[n] = Len(PeerList[n]) + 1
  /\ PeerList[n] # <<>>
  /\ at' = [at EXCEPT ![n] = 1]
  /\ UNCHANGED <<up, view, crashes>>

\* refresh_seed_members, at the beginning of every put, get and remove: the
\* configured members count as seen, whether they run or not.
ServiceCall(n) ==
  /\ n \in up
  /\ Refresh(n, {n} \cup Peers(n))
  /\ UNCHANGED <<up, at, crashes>>

\* Nothing is heard of i for longer than the timeout.
Silence(n, i) ==
  /\ n \in up
  /\ i \in known[n]
  /\ stale' = [stale EXCEPT ![n] = @ \cup {i}]
  /\ UNCHANGED <<up, known, remote, at, crashes>>

-----------------------------------------------------------------------------

Worker(n) ==
  \/ \E m \in Nodes : Heartbeat(n, m, TRUE) \/ Heartbeat(n, m, FALSE)
  \/ HeartbeatFails(n) \/ NextRound(n)

Next ==
  \/ \E n \in Nodes : Start(n) \/ Crash(n) \/ Worker(n) \/ ServiceCall(n)
  \/ \E n, i \in Nodes : Silence(n, i)

\* A worker thread goes on; a running peer that is called again and again
\* answers at last.  Nobody has to start, or to call the service.
Fairness ==
  /\ \A n \in Nodes : WF_vars(Worker(n))
  /\ \A n \in Nodes : \A m \in Peers(n) : SF_vars(Heartbeat(n, m, TRUE))

Spec == Init /\ [][Next]_vars /\ Fairness

-----------------------------------------------------------------------------
(* Properties *)

\* A running node keeps a usable address of every configured peer, whatever it
\* hears: chunks and hints for it never go to "remote".
PeersAddressed == \A n \in up : Peers(n) \subseteq known[n] \ remote[n]

\* Placement moves with those who join, and with nobody else: while a node runs,
\* its plan of a key takes in no member but one it did not know, and gives up at
\* most one member for each of those.  Silent members keep their places
\* (WritePlanUsesKnownMembersEvenWithoutFreshTimeoutChecks), so a member that is
\* away for a while is still asked for what it holds.
OnlyJoinersMove ==
  [][\A n \in up \cap up', k \in Keys :
       LET joined == known'[n] \ known[n]
           old == Plan(n, k)
           new == Plan(n, k)' IN
       new \ old \subseteq joined /\ Cardinality(old \ new) <= Cardinality(joined)]_vars

\* "Placement excludes stale nodes": no plan has a member in it that has not been
\* heard of for longer than the timeout.  The configured peers and the node itself
\* count as heard of at the beginning of every operation.
PlacementExcludesStale ==
  \A n \in up, k \in Keys : Plan(n, k) \cap (stale[n] \ (Peers(n) \cup {n})) = {}

\* Two nodes that disagree about d members disagree about at most d targets of
\* a key: what one of them writes the other one looks for.
PlansOverlap ==
  \A n, m \in up, k \in Keys :
     LET more == known[n] \ known[m]
         less == known[m] \ known[n] IN
     Cardinality(Plan(n, k) \ Plan(m, k)) <= Cardinality(more) + Cardinality(less)

\* Locate computes what the loop computes, for every set of members a node comes
\* to know.
LocateIsTheWalk == \A n \in up, k \in Keys : Locate(known[n], k) = WalkRing(known[n], k)

\* Running nodes find each other, although only one of two may have the other in
\* its configuration and a restart forgets everybody else.
MembersFound == <>[](\A n, m \in up : m \in known[n])
=============================================================================
