-------------------------- MODULE MembershipProofs --------------------------
(***************************************************************************)
(* What Membership's runs check on three nodes, for every cluster, every   *)
(* configuration and every ring: the addresses of configured peers stay    *)
(* usable, and placement moves no further than membership does.            *)
(*                                                                         *)
(* The second part is about the ring alone.  The walk from a key meets the *)
(* members in a total order (Near), so that a member's place in a plan is  *)
(* the number of members ahead of it; two plans differ in no more members  *)
(* than the sets they were made of.  That plans are what the loop of       *)
(* locate makes is shown by induction over the positions it passes: it has *)
(* met the members nearer than some distance, and stops when there are     *)
(* enough of them.                                                         *)
(***************************************************************************)
EXTENDS Membership, Iteration, FiniteSetTheorems

-----------------------------------------------------------------------------
(* The order in which the walk from a key meets the members *)

\* The walk goes once around the ring: it ends where it began, and meets every
\* position once.
LEMMA DistanceFacts ==
  ASSUME NEW k \in Keys
  PROVE  /\ \A p \in 0 .. RingSize - 1 : Distance(p, k) \in 0 .. RingSize - 1
         /\ \A p, q \in 0 .. RingSize - 1 : Distance(p, k) = Distance(q, k) => p = q
<1> DEFINE h == HashOf[k]
<1>1. RingSize \in Nat \ {0} /\ h \in 0 .. RingSize - 1
  BY RingAssumption
<1>2. \A p \in 0 .. RingSize - 1 : 
        Distance(p, k) = IF p >= h THEN p - h ELSE p - h + RingSize
  <2> SUFFICES ASSUME NEW p \in 0 .. RingSize - 1
               PROVE  (p - h) % RingSize = IF p >= h THEN p - h ELSE p - h + RingSize
    BY DEF Distance
  <2> HIDE DEF h
  <2>1. CASE p >= h
    BY <1>1, <2>1
  <2>2. CASE p < h
    BY <1>1, <2>2
  <2> QED BY <1>1, <2>1, <2>2
<1> HIDE DEF h
<1> QED BY <1>1, <1>2

\* How far the walk from k comes before it meets member i for the first time.
Near(i, k) ==
  CHOOSE d \in {Distance(p, k) : p \in Place[i]} :
     \A e \in {Distance(p, k) : p \in Place[i]} : d <= e

\* Every member is met, each of them at a distance of its own.
LEMMA NearFacts ==
  ASSUME NEW k \in Keys
  PROVE  /\ \A i \in Nodes : Near(i, k) \in 0 .. RingSize - 1
         /\ \A i \in Nodes : \E p \in Place[i] : Near(i, k) = Distance(p, k)
         /\ \A i \in Nodes : \A p \in Place[i] : Near(i, k) <= Distance(p, k)
         /\ \A i, j \in Nodes : Near(i, k) = Near(j, k) => i = j
<1>1. \A i \in Nodes : Place[i] \in SUBSET (0 .. RingSize - 1) /\ Place[i] # {}
  BY RingAssumption
<1>2. ASSUME NEW i \in Nodes
      PROVE  /\ Near(i, k) \in {Distance(p, k) : p \in Place[i]}
             /\ \A e \in {Distance(p, k) : p \in Place[i]} : Near(i, k) <= e
  <2> DEFINE D == {Distance(p, k) : p \in Place[i]}
  <2>1. D \in SUBSET Nat /\ D # {}
    BY <1>1, DistanceFacts, RingAssumption
  <2>2. \E d \in D : \A e \in D : d <= e
    <3> HIDE DEF D
    <3> QED BY <2>1, LeastNumber
  <2>3. Near(i, k) = CHOOSE d \in D : \A e \in D : d <= e
    BY DEF Near
  <2>4. Near(i, k) \in D /\ \A e \in D : Near(i, k) <= e
    <3> HIDE DEF D
    <3> QED BY <2>2, <2>3
  <2> QED BY <2>4
<1>3. \A i \in Nodes : \E p \in Place[i] : Near(i, k) = Distance(p, k)
  BY <1>2
<1>4. \A i \in Nodes : \A p \in Place[i] : Near(i, k) <= Distance(p, k)
  BY <1>2
<1>5. \A i \in Nodes : Near(i, k) \in 0 .. RingSize - 1
  BY <1>1, <1>3, DistanceFacts
<1>6. ASSUME NEW i \in Nodes, NEW j \in Nodes, Near(i, k) = Near(j, k)
      PROVE  i = j
  <2>1. PICK p \in Place[i] : Near(i, k) = Distance(p, k)
    BY <1>3
  <2>2. PICK q \in Place[j] : Near(j, k) = Distance(q, k)
    BY <1>3
  <2>3. p = q
    BY <1>1, <1>6, <2>1, <2>2, DistanceFacts
  <2> QED BY <2>3, RingAssumption
<1> QED BY <1>3, <1>4, <1>5, <1>6

\* Ahead is the order of first meetings.
LEMMA AheadIsNearer ==
  ASSUME NEW k \in Keys, NEW i \in Nodes, NEW j \in Nodes
  PROVE  <<i, j, k>> \in Ahead <=> Near(i, k) < Near(j, k)
<1>1. <<i, j, k>> \in Ahead <=>
        \E p \in Place[i] : \A q \in Place[j] : Distance(p, k) < Distance(q, k)
  BY DEF Ahead
<1>2. /\ \A p \in Place[i] : Distance(p, k) \in Nat
      /\ \A q \in Place[j] : Distance(q, k) \in Nat
  BY DistanceFacts, RingAssumption
<1>3. Near(i, k) \in Nat /\ Near(j, k) \in Nat
  BY NearFacts, RingAssumption
<1>4. ASSUME NEW p \in Place[i], \A q \in Place[j] : Distance(p, k) < Distance(q, k)
      PROVE  Near(i, k) < Near(j, k)
  <2>1. PICK q \in Place[j] : Near(j, k) = Distance(q, k)
    BY NearFacts
  <2>2. Near(i, k) <= Distance(p, k) /\ Distance(p, k) < Distance(q, k)
    BY <1>4, NearFacts
  <2> QED BY <1>2, <1>3, <2>1, <2>2
<1>5. ASSUME Near(i, k) < Near(j, k)
      PROVE  \E p \in Place[i] : \A q \in Place[j] : Distance(p, k) < Distance(q, k)
  <2>1. PICK p \in Place[i] : Near(i, k) = Distance(p, k)
    BY NearFacts
  <2>2. \A q \in Place[j] : Near(j, k) <= Distance(q, k)
    BY NearFacts
  <2>3. \A q \in Place[j] : Distance(p, k) < Distance(q, k)
    BY <1>2, <1>3, <1>5, <2>1, <2>2
  <2> QED BY <2>3
<1> QED BY <1>1, <1>4, <1>5

-----------------------------------------------------------------------------
(* Plans *)

\* The members of M that the walk from k meets before i.
Before(M, i, k) == {j \in M : <<j, i, k>> \in Ahead}

\* A set of members has a first and a last one on the walk from k.
LEMMA FirstAndLast ==
  ASSUME NEW k \in Keys, NEW S \in SUBSET Nodes, S # {}
  PROVE  /\ \E f \in S : \A i \in S : <<i, f, k>> \notin Ahead
         /\ \E l \in S : \A i \in S \ {l} : <<i, l, k>> \in Ahead
<1> DEFINE N == {Near(i, k) : i \in S}
           F == {RingSize - 1 - Near(i, k) : i \in S}
<1>0. RingSize \in Nat \ {0} /\ \A i \in S : Near(i, k) \in 0 .. RingSize - 1
  BY NearFacts, RingAssumption
<1>1. N \in SUBSET Nat /\ N # {} /\ F \in SUBSET Nat /\ F # {}
  BY <1>0
<1>2. PICK f \in S : \A i \in S : Near(f, k) <= Near(i, k)
  <2>1. PICK m \in N : \A n \in N : m <= n
    <3> HIDE DEF N
    <3> QED BY <1>1, LeastNumber
  <2> QED BY <2>1
<1>3. PICK l \in S : \A i \in S : RingSize - 1 - Near(l, k) <= RingSize - 1 - Near(i, k)
  <2>1. PICK m \in F : \A n \in F : m <= n
    <3> HIDE DEF F
    <3> QED BY <1>1, LeastNumber
  <2> QED BY <2>1
<1>4. \A i \in S : <<i, f, k>> \notin Ahead
  BY <1>0, <1>2, AheadIsNearer
<1>5. ASSUME NEW i \in S \ {l}
      PROVE  <<i, l, k>> \in Ahead
  <2>1. Near(i, k) # Near(l, k)
    BY NearFacts
  <2>2. Near(i, k) <= Near(l, k)
    BY <1>0, <1>3
  <2> QED BY <1>0, <2>1, <2>2, AheadIsNearer
<1> QED BY <1>4, <1>5

\* Sets of nodes are finite.
LEMMA FiniteMembers ==
  ASSUME NEW S \in SUBSET Nodes
  PROVE  IsFiniteSet(S) /\ Cardinality(S) \in Nat
BY PeersAssumption, FS_Subset, FS_CardinalityType

\* Two sets of members agree on a plan but for as many members as they differ in:
\* who is in both and in the plan of M only has been pushed out by a member
\* that M does not have.
LEMMA PushedOut ==
  ASSUME NEW k \in Keys, NEW M \in SUBSET Nodes, NEW N \in SUBSET Nodes
  PROVE  Cardinality((Locate(M, k) \ Locate(N, k)) \cap N) <= Cardinality(N \ M)
<1> DEFINE A == (Locate(M, k) \ Locate(N, k)) \cap N
<1>1. A \subseteq M \cap N
  BY DEF Locate
<1>2. \A i \in A : /\ Cardinality(Before(M, i, k)) < ReplicationFactor
                   /\ ~(Cardinality(Before(N, i, k)) < ReplicationFactor)
  BY DEF Locate, Before
<1> HIDE DEF A
<1>3. CASE A = {}
  BY <1>3, FiniteMembers, FS_EmptySet DEF A
<1>4. CASE A # {}
  <2>1. PICK f \in A : \A i \in A : <<i, f, k>> \notin Ahead
    BY <1>1, <1>4, FirstAndLast
  <2>2. PICK l \in A : \A i \in A \ {l} : <<i, l, k>> \in Ahead
    BY <1>1, <1>4, FirstAndLast
  <2> DEFINE C == Before(M \cap N, f, k)
             G == Before(N \ M, f, k)
  <2>3. C \in SUBSET Nodes /\ G \in SUBSET Nodes /\ A \in SUBSET Nodes
    BY <1>1 DEF Before
  <2>4. Before(N, f, k) = C \cup G /\ C \cap G = {}
    BY DEF Before
  <2>5. C \cup (A \ {l}) \subseteq Before(M, l, k) /\ C \cap (A \ {l}) = {}
    <3>1. C \subseteq Before(M, l, k)
      <4> SUFFICES ASSUME NEW j \in C
                   PROVE  <<j, l, k>> \in Ahead
        BY DEF Before
      <4>1. j \in Nodes /\ <<j, f, k>> \in Ahead
        BY <2>3 DEF Before
      <4>2. f \in Nodes /\ l \in Nodes /\ (f = l \/ <<f, l, k>> \in Ahead)
        BY <1>1, <2>2
      <4>3. Near(j, k) \in Int /\ Near(f, k) \in Int /\ Near(l, k) \in Int
        BY <4>1, <4>2, NearFacts, RingAssumption
      <4> QED BY <4>1, <4>2, <4>3, AheadIsNearer
    <3>2. A \ {l} \subseteq Before(M, l, k)
      BY <1>1, <2>2 DEF Before
    <3> QED BY <2>1, <3>1, <3>2 DEF Before
  <2>6. /\ IsFiniteSet(C) /\ IsFiniteSet(G) /\ IsFiniteSet(A) /\ IsFiniteSet(A \ {l})
        /\ Cardinality(C) \in Nat /\ Cardinality(G) \in Nat /\ Cardinality(A) \in Nat
        /\ Cardinality(A \ {l}) = Cardinality(A) - 1
    BY <2>3, FiniteMembers, FS_RemoveElement
  <2>7. Cardinality(Before(N, f, k)) = Cardinality(C) + Cardinality(G)
    <3> HIDE DEF C, G
    <3>1. Cardinality(C \cup G) = Cardinality(C) + Cardinality(G) - Cardinality(C \cap G)
      BY <2>6, FS_Union
    <3>2. Cardinality(C \cap G) = 0
      BY <2>4, FS_EmptySet
    <3> QED BY <2>4, <2>6, <3>1, <3>2
  <2>8. Cardinality(C \cup (A \ {l})) = Cardinality(C) + Cardinality(A) - 1
    <3> DEFINE B == A \ {l}
    <3> HIDE DEF B, C
    <3>1. Cardinality(C \cup B) = Cardinality(C) + Cardinality(B) - Cardinality(C \cap B)
      BY <2>6, FS_Union DEF B
    <3>2. Cardinality(C \cap B) = 0
      BY <2>5, FS_EmptySet DEF B
    <3> QED BY <2>6, <3>1, <3>2 DEF B
  <2>9. Cardinality(C \cup (A \ {l})) <= Cardinality(Before(M, l, k))
    <3>1. Before(M, l, k) \in SUBSET Nodes
      BY DEF Before
    <3> HIDE DEF C
    <3> QED BY <2>5, <3>1, FiniteMembers, FS_Subset
  <2>10. Cardinality(G) <= Cardinality(N \ M)
    <3>1. G \subseteq N \ M /\ N \ M \in SUBSET Nodes
      BY DEF Before
    <3> HIDE DEF G
    <3> QED BY <3>1, FiniteMembers, FS_Subset
  <2>11. /\ Cardinality(Before(M, l, k)) \in Nat
         /\ Cardinality(Before(N, f, k)) \in Nat
         /\ Cardinality(N \ M) \in Nat
    <3>1. Before(M, l, k) \in SUBSET Nodes /\ Before(N, f, k) \in SUBSET Nodes
      BY DEF Before
    <3> QED BY <3>1, FiniteMembers
  <2>12. /\ Cardinality(Before(M, l, k)) < ReplicationFactor
         /\ ~(Cardinality(Before(N, f, k)) < ReplicationFactor)
         /\ ReplicationFactor \in Nat
    BY <1>2, RingAssumption
  <2> HIDE DEF C, G
  <2> QED BY <2>6, <2>7, <2>8, <2>9, <2>10, <2>11, <2>12 DEF A
<1> QED BY <1>3, <1>4

\* A larger set of members gives nobody a place in the plan who did not have it,
\* but for those it has more.
LEMMA NobodyMovesIn ==
  ASSUME NEW k \in Keys, NEW M \in SUBSET Nodes, NEW N \in SUBSET Nodes, M \subseteq N
  PROVE  Locate(N, k) \ Locate(M, k) \subseteq N \ M
<1> SUFFICES ASSUME NEW i \in M, i \in Locate(N, k)
             PROVE  i \in Locate(M, k)
  BY DEF Locate
<1>1. Before(M, i, k) \subseteq Before(N, i, k) /\ Before(N, i, k) \in SUBSET Nodes
  BY DEF Before
<1>2. /\ Cardinality(Before(M, i, k)) \in Nat
      /\ Cardinality(Before(N, i, k)) \in Nat
      /\ Cardinality(Before(M, i, k)) <= Cardinality(Before(N, i, k))
  BY <1>1, FiniteMembers, FS_Subset
<1>3. Cardinality(Before(N, i, k)) < ReplicationFactor /\ ReplicationFactor \in Nat
  BY RingAssumption DEF Locate, Before
<1>4. Cardinality(Before(M, i, k)) < ReplicationFactor
  BY <1>2, <1>3
<1> QED BY <1>4 DEF Locate, Before

-----------------------------------------------------------------------------
(* The behaviours of the cluster *)

\* Nodes know of nobody but nodes, and a running one has every configured peer
\* under the address of its configuration.
Inv ==
  /\ up \subseteq Nodes
  /\ known \in [Nodes -> SUBSET Nodes]
  /\ remote \in [Nodes -> SUBSET Nodes]
  /\ PeersAddressed

\* The peers of a configuration are other nodes.
LEMMA PeersAreOthers ==
  ASSUME NEW n \in Nodes
  PROVE  /\ Peers(n) \subseteq Nodes \ {n}
         /\ \A i \in DOMAIN PeerList[n] : PeerList[n][i] \in Peers(n)
<1>1. PeerList[n] \in Seq(Nodes \ {n})
  BY PeersAssumption
<1>2. \A i \in DOMAIN PeerList[n] : PeerList[n][i] \in Nodes \ {n}
  BY <1>1
<1> QED BY <1>2 DEF Peers

\* The configured members, the node itself among them, are filed under their
\* addresses; what else the node knows stays as it is.
LEMMA RefreshKeeps ==
  ASSUME Inv, NEW n \in Nodes, Refresh(n, {n} \cup Peers(n)), up' \subseteq up \cup {n}
  PROVE  Inv'
<1>1. {n} \cup Peers(n) \subseteq Nodes
  BY PeersAreOthers
<1>2. known' \in [Nodes -> SUBSET Nodes] /\ remote' \in [Nodes -> SUBSET Nodes]
  BY <1>1 DEF Inv, Refresh
<1>3. ASSUME NEW m \in up'
      PROVE  Peers(m) \subseteq known'[m] \ remote'[m]
  <2>1. CASE m = n
    BY <2>1, PeersAreOthers DEF Inv, Refresh
  <2>2. CASE m # n
    BY <2>2 DEF Inv, Refresh, PeersAddressed
  <2> QED BY <2>1, <2>2
<1>4. up' \subseteq Nodes
  BY DEF Inv
<1> QED BY <1>2, <1>3, <1>4 DEF Inv, PeersAddressed, Peers

\* Every step keeps the invariant.
LEMMA StepKeeps == ASSUME Inv, [Next]_vars PROVE Inv'
<1>1. ASSUME NEW n \in Nodes, Start(n)
      PROVE  Inv'
  BY <1>1, RefreshKeeps DEF Start
<1>2. ASSUME NEW n \in Nodes, Crash(n)
      PROVE  Inv'
  BY <1>2 DEF Inv, Crash, PeersAddressed, Peers
<1>3. ASSUME NEW n \in Nodes, NEW m \in Nodes, NEW answered \in BOOLEAN, Heartbeat(n, m, answered)
      PROVE  Inv'
  <2>1. m \in Peers(n) /\ m # n /\ up' = up
    BY <1>3, PeersAreOthers DEF Heartbeat, Turn
  <2>2. known' \in [Nodes -> SUBSET Nodes] /\ remote' \in [Nodes -> SUBSET Nodes]
    BY <1>3, <2>1 DEF Inv, Heartbeat
  <2>3. known'[m] = known[m] \cup {n} /\ remote'[m] \subseteq remote[m] \cup {n}
    BY <1>3, <2>1 DEF Inv, Heartbeat
  <2>4. n \in Peers(m) => n \notin remote'[m]
    BY <1>3, <2>1 DEF Inv, Heartbeat, FiledRemote
  <2>5. known[n] \subseteq known'[n] /\ remote'[n] \subseteq remote[n]
    BY <1>3, <2>1 DEF Inv, Heartbeat
  <2>6. \A i \in Nodes \ {m, n} : known'[i] = known[i] /\ remote'[i] = remote[i]
    BY <1>3, <2>1 DEF Inv, Heartbeat
  <2>7. ASSUME NEW i \in up
        PROVE  Peers(i) \subseteq known'[i] \ remote'[i]
    BY <2>3, <2>4, <2>5, <2>6 DEF Inv, PeersAddressed
  <2> QED BY <2>1, <2>2, <2>7 DEF Inv, PeersAddressed, Peers
<1>4. ASSUME NEW n \in Nodes, HeartbeatFails(n) \/ NextRound(n)
      PROVE  Inv'
  BY <1>4 DEF Inv, HeartbeatFails, NextRound, view, PeersAddressed, Peers
<1>5. ASSUME NEW n \in Nodes, ServiceCall(n)
      PROVE  Inv'
  BY <1>5, RefreshKeeps DEF ServiceCall
<1>6. ASSUME NEW n \in Nodes, NEW i \in Nodes, Silence(n, i)
      PROVE  Inv'
  BY <1>6 DEF Inv, Silence, PeersAddressed, Peers
<1>7. ASSUME UNCHANGED vars
      PROVE  Inv'
  BY <1>7 DEF Inv, vars, PeersAddressed, Peers
<1> QED BY <1>1, <1>2, <1>3, <1>4, <1>5, <1>6, <1>7 DEF Next, Worker

\* The invariant holds in every reachable state.
LEMMA Reachable == Spec => []Inv
<1>1. Init => Inv
  BY DEF Init, Inv, PeersAddressed
<1> QED BY <1>1, StepKeeps, PTL DEF Spec

\* Every running node keeps a usable address of each configured peer: no heartbeat,
\* crash or refresh files one under "remote", in any cluster.
THEOREM PeersStayAddressed == Spec => []PeersAddressed
BY Reachable, PTL DEF Inv

\* For every ring and every pair of running nodes, write_plan differs in at most as
\* many targets as the nodes' knowledge of members does.
THEOREM PlansStayClose == Spec => []PlansOverlap
<1>1. Inv => PlansOverlap
  <2> SUFFICES ASSUME Inv, NEW n \in up, NEW m \in up, NEW k \in Keys
               PROVE  Cardinality(Plan(n, k) \ Plan(m, k)) <=
                        Cardinality(known[n] \ known[m]) + Cardinality(known[m] \ known[n])
    BY DEF PlansOverlap
  <2> DEFINE M == known[n]
             N == known[m]
             D == Locate(M, k) \ Locate(N, k)
  <2>1. M \in SUBSET Nodes /\ N \in SUBSET Nodes
    BY DEF Inv
  <2>2. Plan(n, k) \ Plan(m, k) = D
    BY DEF Plan, OnRing
  <2>3. D \subseteq (D \cap N) \cup (M \ N)
    BY DEF Locate
  <2>4. Cardinality(D \cap N) <= Cardinality(N \ M)
    <3> HIDE DEF M, N
    <3> QED BY <2>1, PushedOut
  <2> HIDE DEF D
  <2>5. D \in SUBSET Nodes
    BY <2>1 DEF D, Locate
  <2> HIDE DEF M, N
  <2>6. /\ IsFiniteSet(D \cap N) /\ IsFiniteSet(M \ N) /\ IsFiniteSet(N \ M)
        /\ IsFiniteSet((D \cap N) \cap (M \ N)) /\ IsFiniteSet(D)
        /\ IsFiniteSet((D \cap N) \cup (M \ N))
    BY <2>1, <2>5, FiniteMembers
  <2>7. Cardinality(D) <= Cardinality((D \cap N) \cup (M \ N))
    BY <2>3, <2>6, FS_Subset
  <2>8. Cardinality((D \cap N) \cup (M \ N)) =
          Cardinality(D \cap N) + Cardinality(M \ N) - Cardinality((D \cap N) \cap (M \ N))
    BY <2>6, FS_Union
  <2>9. /\ Cardinality(D) \in Nat /\ Cardinality(D \cap N) \in Nat
        /\ Cardinality(M \ N) \in Nat /\ Cardinality(N \ M) \in Nat
        /\ Cardinality((D \cap N) \cap (M \ N)) \in Nat
    BY <2>6, FS_CardinalityType
  <2>10. Cardinality(D) <= Cardinality(M \ N) + Cardinality(N \ M)
    BY <2>4, <2>7, <2>8, <2>9
  <2> QED BY <2>2, <2>10 DEF M, N
<1> QED BY <1>1, Reachable, PTL

\* A running node never forgets a member.
LEMMA KnownGrows ==
  ASSUME Inv, [Next]_vars, NEW n \in up \cap up'
  PROVE  known[n] \subseteq known'[n]
<1>1. ASSUME NEW m \in Nodes, Start(m) \/ Crash(m) \/ ServiceCall(m) \/ HeartbeatFails(m) \/ NextRound(m)
      PROVE  known[n] \subseteq known'[n]
  BY <1>1 DEF Inv, Start, Crash, ServiceCall, HeartbeatFails, NextRound, Refresh, view
<1>2. ASSUME NEW m \in Nodes, NEW i \in Nodes, NEW answered \in BOOLEAN, Heartbeat(m, i, answered)
      PROVE  known[n] \subseteq known'[n]
  BY <1>2 DEF Inv, Heartbeat
<1>3. ASSUME NEW m \in Nodes, NEW i \in Nodes, Silence(m, i)
      PROVE  known[n] \subseteq known'[n]
  BY <1>3 DEF Inv, Silence
<1>4. ASSUME UNCHANGED vars
      PROVE  known[n] \subseteq known'[n]
  BY <1>4 DEF vars
<1> QED BY <1>1, <1>2, <1>3, <1>4 DEF Next, Worker

\* No step of any cluster moves a chunk between members a running node knew
\* already: its plans take in joiners only, and give up at most one target for each.
THEOREM PlacementMovesWithJoiners == Spec => OnlyJoinersMove
<1> DEFINE Moves ==
      \A n \in up \cap up', k \in Keys :
        LET joined == known'[n] \ known[n]
            old == Plan(n, k)
            new == Plan(n, k)' IN
        new \ old \subseteq joined /\ Cardinality(old \ new) <= Cardinality(joined)
<1>1. ASSUME Inv, Inv', [Next]_vars
      PROVE  Moves
  <2> SUFFICES ASSUME NEW n \in up \cap up', NEW k \in Keys
               PROVE  /\ Plan(n, k)' \ Plan(n, k) \subseteq known'[n] \ known[n]
                      /\ Cardinality(Plan(n, k) \ Plan(n, k)') <= Cardinality(known'[n] \ known[n])
    OBVIOUS
  <2> DEFINE M == known[n]
             N == known'[n]
  <2>1. M \in SUBSET Nodes /\ N \in SUBSET Nodes /\ M \subseteq N
    BY <1>1, KnownGrows DEF Inv
  <2>2. Plan(n, k) = Locate(M, k) /\ Plan(n, k)' = Locate(N, k)
    BY DEF Plan, OnRing, Locate, Ahead, Distance
  <2>3. (Locate(M, k) \ Locate(N, k)) \cap N = Locate(M, k) \ Locate(N, k)
    BY <2>1 DEF Locate
  <2> HIDE DEF M, N
  <2>4. Locate(N, k) \ Locate(M, k) \subseteq N \ M
    BY <2>1, NobodyMovesIn
  <2>5. Cardinality((Locate(M, k) \ Locate(N, k)) \cap N) <= Cardinality(N \ M)
    BY <2>1, PushedOut
  <2>6. Cardinality(Locate(M, k) \ Locate(N, k)) <= Cardinality(N \ M)
    BY <2>3, <2>5
  <2> QED BY <2>2, <2>4, <2>6 DEF M, N
<1>2. Inv /\ Inv' /\ [Next]_vars => [Moves]_vars
  BY <1>1
<1>3. Spec => [][Moves]_vars
  BY <1>2, Reachable, PTL DEF Spec
<1> QED BY <1>3 DEF OnlyJoinersMove

-----------------------------------------------------------------------------
(* The loop of locate *)

\* The members the walk from k has met after d positions.
Met(M, k, d) == {i \in M : Near(i, k) < d}

\* The position after d others is at distance d, and no other one is.
LEMMA PositionAt ==
  ASSUME NEW k \in Keys, NEW d \in 0 .. RingSize - 1
  PROVE  LET p == (HashOf[k] + d) % RingSize IN
         /\ p \in 0 .. RingSize - 1 /\ Distance(p, k) = d
         /\ \A q \in 0 .. RingSize - 1 : Distance(q, k) = d => q = p
<1> DEFINE h == HashOf[k]
           R == RingSize
           p == (h + d) % R
<1>1. R \in Nat \ {0} /\ h \in 0 .. R - 1 /\ d \in 0 .. R - 1
  BY RingAssumption
<1> HIDE DEF R
<1>2. p = IF h + d < R THEN h + d ELSE h + d - R
  <2> HIDE DEF h
  <2>1. CASE h + d < R
    BY <1>1, <2>1
  <2>2. CASE ~(h + d < R)
    BY <1>1, <2>2
  <2> QED BY <2>1, <2>2
<1>3. p \in 0 .. R - 1
  BY <1>1, <1>2
<1>4. (p - h) % R = d
  <2> HIDE DEF h, p
  <2>1. CASE h + d < R
    <3>1. p - h = d
      BY <1>1, <1>2, <2>1
    <3> QED BY <1>1, <3>1
  <2>2. CASE ~(h + d < R)
    <3>1. p - h = d - R
      BY <1>1, <1>2, <2>2
    <3>2. (d - R) % R = d
      BY <1>1
    <3> QED BY <3>1, <3>2
  <2> QED BY <2>1, <2>2
<1>5. Distance(p, k) = d
  BY <1>4 DEF Distance, R
<1>6. \A q \in 0 .. R - 1 : Distance(q, k) = d => q = p
  <2> HIDE DEF p
  <2> QED BY <1>3, <1>5, DistanceFacts DEF R
<1> QED BY <1>3, <1>5, <1>6 DEF R

\* Another position adds the member it belongs to, if it is new: at most one.
LEMMA MetNext ==
  ASSUME NEW k \in Keys, NEW M \in SUBSET Nodes, NEW d \in 0 .. RingSize - 1
  PROVE  LET there == {i \in M : (HashOf[k] + d) % RingSize \in Place[i]} IN
         /\ Met(M, k, d + 1) = Met(M, k, d) \cup there
         /\ Cardinality(Met(M, k, d + 1)) <= Cardinality(Met(M, k, d)) + 1
<1> DEFINE p == (HashOf[k] + d) % RingSize
           there == {i \in M : p \in Place[i]}
           A == Met(M, k, d)
           B == Met(M, k, d + 1)
<1>1. RingSize \in Nat \ {0} /\ d \in Nat
  BY RingAssumption
<1>2. /\ Distance(p, k) = d
      /\ \A q \in 0 .. RingSize - 1 : Distance(q, k) = d => q = p
  BY PositionAt
<1>3. \A i \in M : Near(i, k) \in Nat
  BY NearFacts, RingAssumption
<1> HIDE DEF p
<1>4. ASSUME NEW i \in M, Near(i, k) = d PROVE i \in there
  <2>1. PICK q \in Place[i] : Near(i, k) = Distance(q, k)
    BY NearFacts
  <2>2. q \in 0 .. RingSize - 1
    BY <2>1, RingAssumption
  <2>3. q = p
    BY <1>2, <1>4, <2>1, <2>2
  <2> QED BY <2>1, <2>3
<1>5. ASSUME NEW i \in there PROVE i \in B
  <2>1. i \in M /\ Near(i, k) <= d
    BY <1>2, NearFacts
  <2> QED BY <1>1, <1>3, <2>1 DEF Met
<1>6. A \subseteq B
  BY <1>1, <1>3 DEF Met
<1>7. B \subseteq A \cup there
  <2> SUFFICES ASSUME NEW i \in B PROVE i \in A \cup there
    OBVIOUS
  <2>1. i \in M /\ Near(i, k) < d + 1 /\ Near(i, k) \in Nat
    BY <1>3 DEF Met
  <2>2. CASE Near(i, k) < d
    BY <2>1, <2>2 DEF Met
  <2>3. CASE Near(i, k) = d
    BY <1>4, <2>1, <2>3
  <2> QED BY <1>1, <2>1, <2>2, <2>3
<1>8. B = A \cup there
  BY <1>5, <1>6, <1>7
<1>9. Cardinality(B) <= Cardinality(A) + 1
  <2>1. IsFiniteSet(A) /\ A \subseteq Nodes
    <3>1. A \subseteq Nodes
      BY DEF Met
    <3> QED BY <3>1, FS_Subset, PeersAssumption
  <2>2. CASE there = {}
    <3>1. B = A
      BY <1>8, <2>2
    <3> HIDE DEF A, B
    <3> QED BY <2>1, <3>1, FS_CardinalityType
  <2>3. CASE there # {}
    <3>1. PICK i : i \in there
      BY <2>3
    <3>2. \A j \in there : j = i
      BY <3>1, RingAssumption
    <3>3. B = A \cup {i}
      BY <1>8, <3>1, <3>2
    <3> HIDE DEF A, B, there
    <3>4. Cardinality(A \cup {i}) = IF i \in A THEN Cardinality(A) ELSE Cardinality(A) + 1
      BY <2>1, FS_AddElement
    <3> QED BY <2>1, <3>3, <3>4, FS_CardinalityType
  <2> QED BY <2>2, <2>3
<1> QED BY <1>8, <1>9 DEF p

\* The loop stops after e positions, with the members it has met by then.
Stops(M, k, d, S, e) ==
  /\ e \in 0 .. d /\ S = Met(M, k, e) /\ Cardinality(S) <= ReplicationFactor
  /\ e = d \/ Cardinality(S) = ReplicationFactor

\* What the loop has met when it ends are the members Locate names.
LEMMA FirstOfTheWalk ==
  ASSUME NEW k \in Keys, NEW M \in SUBSET Nodes, NEW S, NEW e, Stops(M, k, RingSize, S, e)
  PROVE  S = Locate(M, k)
<1>1. /\ RingSize \in Nat \ {0} /\ ReplicationFactor \in Nat \ {0} /\ e \in 0 .. RingSize
      /\ S = Met(M, k, e) /\ Cardinality(S) <= ReplicationFactor
      /\ e = RingSize \/ Cardinality(S) = ReplicationFactor
  BY RingAssumption DEF Stops
<1>2. \A i \in M : Near(i, k) \in 0 .. RingSize - 1
  BY NearFacts
<1>3. \A i \in M : IsFiniteSet(Before(M, i, k)) /\ Before(M, i, k) \subseteq M
  <2>1. ASSUME NEW i \in M PROVE Before(M, i, k) \subseteq M
    BY DEF Before
  <2>2. IsFiniteSet(M)
    BY FS_Subset, PeersAssumption
  <2> QED BY <2>1, <2>2, FS_Subset
<1>4. S \subseteq M /\ IsFiniteSet(S)
  <2>1. S \subseteq M
    BY <1>1 DEF Met
  <2> QED BY <2>1, FS_Subset, PeersAssumption
<1>5. ASSUME NEW i \in S PROVE Cardinality(Before(M, i, k)) < ReplicationFactor
  <2>1. i \in M /\ Near(i, k) < e /\ Near(i, k) \in Nat
    BY <1>1, <1>2, <1>4 DEF Met
  <2>2. ASSUME NEW j \in Before(M, i, k) PROVE j \in S \ {i}
    <3>1. j \in M /\ <<j, i, k>> \in Ahead
      BY DEF Before
    <3>2. Near(j, k) < Near(i, k)
      BY <2>1, <3>1, AheadIsNearer
    <3>3. Near(j, k) \in Nat /\ Near(j, k) < e /\ j # i
      BY <1>1, <1>2, <2>1, <3>1, <3>2
    <3> QED BY <1>1, <3>1, <3>3 DEF Met
  <2>3. Before(M, i, k) \subseteq S \ {i} /\ IsFiniteSet(S \ {i})
    BY <1>4, <2>2, FS_RemoveElement
  <2>4. Cardinality(Before(M, i, k)) <= Cardinality(S \ {i})
    BY <2>3, FS_Subset
  <2>5. Cardinality(S \ {i}) = Cardinality(S) - 1
    BY <1>4, FS_RemoveElement
  <2>6. Cardinality(S) \in Nat /\ Cardinality(Before(M, i, k)) \in Nat
    BY <1>3, <1>4, <2>1, FS_CardinalityType
  <2> QED BY <1>1, <2>4, <2>5, <2>6
<1>6. ASSUME NEW i \in M, i \notin S PROVE ~(Cardinality(Before(M, i, k)) < ReplicationFactor)
  <2>1. ~(Near(i, k) < e)
    BY <1>1, <1>6 DEF Met
  <2>2. Cardinality(S) = ReplicationFactor
    BY <1>1, <1>2, <2>1
  <2>3. ASSUME NEW j \in S PROVE j \in Before(M, i, k)
    <3>1. j \in M /\ Near(j, k) < e
      BY <1>1 DEF Met
    <3>2. Near(j, k) < Near(i, k)
      BY <1>1, <1>2, <2>1, <3>1
    <3> QED BY <3>1, <3>2, AheadIsNearer DEF Before
  <2>4. Cardinality(S) <= Cardinality(Before(M, i, k))
    BY <1>3, <2>3, FS_Subset
  <2>5. Cardinality(Before(M, i, k)) \in Nat
    BY <1>3, FS_CardinalityType
  <2> QED BY <1>1, <2>2, <2>4, <2>5
<1>7. Locate(M, k) = {i \in M : Cardinality(Before(M, i, k)) < ReplicationFactor}
  BY DEF Locate, Before
<1> QED BY <1>4, <1>5, <1>6, <1>7

\* The loop of locate computes Locate, for every set of members and every ring.
LEMMA WalkIsLocate ==
  ASSUME NEW k \in Keys, NEW M \in SUBSET Nodes
  PROVE  WalkRing(M, k) = Locate(M, k)
<1> DEFINE R == RingSize
           P == SUBSET M
           Add(d, X) == IF Cardinality(X) < ReplicationFactor
                        THEN X \cup {i \in M : (HashOf[k] + d - 1) % RingSize \in Place[i]} ELSE X
           F(r) == r = [d \in 0 .. R |-> IF d = 0 THEN {} ELSE Add(d, r[d - 1])]
           met == CHOOSE r : F(r)
<1>1. R \in Nat \ {0} /\ ReplicationFactor \in Nat \ {0} /\ HashOf[k] \in Nat
  BY RingAssumption
<1>2. WalkRing(M, k) = met[R]
  BY DEF WalkRing
<1>3. \E g : F(g)
  <2> DEFINE step == [d \in 1 .. R |-> [X \in P |-> Add(d, X)]]
  <2>1. \A d \in 1 .. R : \A X \in P : Add(d, X) \in P
    OBVIOUS
  <2> HIDE DEF Add
  <2>2. step \in [1 .. R -> [P -> P]]
    BY <2>1
  <2>3. \A d \in 1 .. R : \A X \in P : step[d][X] = Add(d, X)
    OBVIOUS
  <2> HIDE DEF step
  <2>4. {} \in P
    OBVIOUS
  <2> HIDE DEF P
  <2>5. PICK g : Runs(P, {}, step, R, g)
    BY <1>1, <2>2, <2>4, LoopExists, Zenon
  <2>6. /\ g \in [0 .. R -> P] /\ g[0] = {}
        /\ \A d \in 1 .. R : g[d] = step[d][g[d - 1]]
    BY <2>5 DEF Runs
  <2>7. ASSUME NEW d \in 0 .. R PROVE g[d] = IF d = 0 THEN {} ELSE Add(d, g[d - 1])
    <3>1. CASE d = 0
      BY <2>6, <3>1
    <3>2. CASE d # 0
      <4>1. d \in 1 .. R /\ d - 1 \in 0 .. R
        BY <1>1, <3>2
      <4>2. g[d - 1] \in P
        BY <2>6, <4>1
      <4> QED BY <2>3, <2>6, <3>2, <4>1, <4>2
    <3> QED BY <3>1, <3>2
  <2>8. g = [d \in 0 .. R |-> g[d]]
    BY <2>6
  <2>9. F(g)
    BY <2>7, <2>8
  <2> QED BY <2>9
<1>4. F(met)
  <2> HIDE DEF F
  <2> QED BY <1>3
<1> HIDE DEF met
<1> DEFINE T == {d \in 0 .. R : \E e : Stops(M, k, d, met[d], e)}
<1>5. 0 \in T
  <2>1. met[0] = {} /\ 0 \in 0 .. R
    BY <1>1, <1>4
  <2>2. Met(M, k, 0) = {}
    <3>1. \A i \in M : Near(i, k) \in Nat
      BY NearFacts, <1>1
    <3> QED BY <3>1 DEF Met
  <2>3. Cardinality({}) = 0
    BY FS_EmptySet
  <2>4. Stops(M, k, 0, met[0], 0)
    BY <1>1, <2>1, <2>2, <2>3 DEF Stops
  <2> QED BY <2>1, <2>4
<1>6. ASSUME NEW d \in 0 .. R - 1, d \in T PROVE d + 1 \in T
  <2>1. PICK e : Stops(M, k, d, met[d], e)
    BY <1>6
  <2>2. /\ d + 1 \in 0 .. R /\ d + 1 # 0 /\ (d + 1) - 1 = d /\ d \in Nat
        /\ HashOf[k] + (d + 1) - 1 = HashOf[k] + d
    BY <1>1
  <2>3. met[d + 1] = Add(d + 1, met[d])
    <3> HIDE DEF Add
    <3> QED BY <1>4, <2>2
  <2>4. /\ e \in 0 .. d /\ met[d] = Met(M, k, e) /\ Cardinality(met[d]) <= ReplicationFactor
        /\ e = d \/ Cardinality(met[d]) = ReplicationFactor
    BY <2>1 DEF Stops
  <2>5. CASE Cardinality(met[d]) < ReplicationFactor
    <3>1. e = d
      BY <1>1, <2>4, <2>5
    <3>2. met[d + 1] = met[d] \cup {i \in M : (HashOf[k] + d) % RingSize \in Place[i]}
      BY <2>2, <2>3, <2>5
    <3>3. /\ Met(M, k, d + 1) = Met(M, k, d) \cup {i \in M : (HashOf[k] + d) % RingSize \in Place[i]}
          /\ Cardinality(Met(M, k, d + 1)) <= Cardinality(Met(M, k, d)) + 1
      BY MetNext
    <3>4. met[d + 1] = Met(M, k, d + 1)
      BY <2>4, <3>1, <3>2, <3>3
    <3>5. Cardinality(Met(M, k, d)) \in Nat /\ Cardinality(Met(M, k, d + 1)) \in Nat
      <4>1. Met(M, k, d) \in SUBSET Nodes /\ Met(M, k, d + 1) \in SUBSET Nodes
        BY DEF Met
      <4> QED BY <4>1, FiniteMembers
    <3>6. Cardinality(met[d + 1]) <= ReplicationFactor
      BY <1>1, <2>4, <2>5, <3>1, <3>3, <3>4, <3>5
    <3>7. Stops(M, k, d + 1, met[d + 1], d + 1)
      BY <2>2, <3>4, <3>6 DEF Stops
    <3> QED BY <2>2, <3>7
  <2>6. CASE ~(Cardinality(met[d]) < ReplicationFactor)
    <3>1. met[d + 1] = met[d]
      BY <2>3, <2>6
    <3>2. Cardinality(met[d]) \in Nat
      <4>1. met[d] \in SUBSET Nodes
        BY <2>4 DEF Met
      <4> QED BY <4>1, FiniteMembers
    <3>3. e \in 0 .. d + 1 /\ Cardinality(met[d]) = ReplicationFactor
      BY <1>1, <2>2, <2>4, <2>6, <3>2
    <3>4. Stops(M, k, d + 1, met[d + 1], e)
      BY <2>4, <3>1, <3>3 DEF Stops
    <3> QED BY <2>2, <3>4
  <2> QED BY <2>5, <2>6
<1>7. 0 .. R \subseteq T
  <2>1. R \in Nat
    BY <1>1
  <2> HIDE DEF T, R
  <2> QED BY <1>5, <1>6, <2>1, BoundedInduction
<1>8. PICK e : Stops(M, k, R, met[R], e)
  BY <1>1, <1>7
<1> QED BY <1>2, <1>8, FirstOfTheWalk

\* In every cluster and on every ring, the plans of the model are the ones the loop
\* of locate makes.
THEOREM PlansAreTheWalk == Spec => []LocateIsTheWalk
<1>1. Inv => LocateIsTheWalk
  BY WalkIsLocate DEF Inv, LocateIsTheWalk
<1> QED BY <1>1, Reachable, PTL
=============================================================================
