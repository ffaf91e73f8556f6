---------------------------- MODULE ChunkCluster ----------------------------
(***************************************************************************)
(* The storage plane: every node's ChunkStore (files and LRU cache), its   *)
(* HintedHandoffQueue, and the worker threads that run the operations of   *)
(* DistributedChunkService (put, get, remove, replay_hinted_handoff)       *)
(* against the stores of the node itself and, through NodeClient, of its   *)
(* peers.                                                                  *)
(*                                                                         *)
(* Granularity.  ChunkStore::put and remove hold mu_ and are one step.     *)
(* ChunkStore::get reads a file that put publishes with rename, so it sees *)
(* a whole file or none and is one step too.  One HTTP exchange with a     *)
(* peer is one step: the calling thread only waits, and the peer's handler *)
(* takes effect at one point.  Between two of these steps of a worker      *)
(* every other worker and every crash may intervene.                       *)
(***************************************************************************)
EXTENDS LruCache, FiniteSets

CONSTANTS
  Nodes,              \* the storage nodes of the cluster
  Workers,            \* pool threads that run service operations
  Home,               \* Home[w]: the node whose process worker w belongs to
  Bytes,              \* chunk contents
  Cut,                \* the content a truncated file or reply body has
  Checksums,          \* names of contents
  Sha256,             \* Sha256[b]: the checksum of content b
  Preference,         \* Preference[k]: the nodes in ring order from hash64(k)
  ReplicationFactor, WriteQuorum, ReadQuorum, \* from the configuration file
  CacheCapacity,      \* entries the LRU cache of a store holds
  Nil,                \* "no file", "no value"
  MaxCalls,           \* bound on put, get and remove calls in a behaviour
  MaxFaults,          \* bound on failing file operations in a behaviour
  MaxCuts,            \* bound on truncated reply bodies in a behaviour
  MaxCrashes,         \* bound on process crashes in a behaviour
  MaxFailures         \* bound on failing file operations and truncated bodies together

ASSUME NodesAssumption == IsFiniteSet(Nodes) /\ Nil \notin Nodes

ASSUME HomeAssumption == Home \in [Workers -> Nodes]

\* SHA-256 is taken to be free of collisions on the contents in play.
ASSUME HashAssumption ==
  /\ Cut \in Bytes
  /\ Nil \notin Bytes \cup Checksums
  /\ Sha256 \in [Bytes -> Checksums]
  /\ \A d, e \in Bytes : Sha256[d] = Sha256[e] => d = e

\* Nil is no answer of the service either.
ASSUME NilAssumption ==
  Nil \notin [ok : BOOLEAN, key : Checksums \cup {Nil}, data : Bytes \cup {Nil}]

\* Walking the ring from any key meets every member exactly once before it
\* repeats one: the set "seen" of locate.
ASSUME PreferenceAssumption ==
  \A k \in Checksums :
     /\ Preference[k] \in [1 .. Cardinality(Nodes) -> Nodes]
     /\ \A i, j \in 1 .. Cardinality(Nodes) : Preference[k][i] = Preference[k][j] => i = j

ASSUME QuorumAssumption ==
  /\ ReplicationFactor \in Nat \ {0}
  /\ WriteQuorum \in Nat \ {0}
  /\ ReadQuorum \in Nat \ {0}
  /\ CacheCapacity \in Nat \ {0}

ASSUME BoundsAssumption ==
  /\ MaxCalls \in Nat
  /\ MaxFaults \in Nat
  /\ MaxCuts \in Nat
  /\ MaxCrashes \in Nat
  /\ MaxFailures \in Nat

VARIABLES
  disk,      \* disk[n][k]: content of the file chunks/<prefix>/k on node n
  cache,     \* cache[n]: the LRU list of node n's chunk store
  handoff,   \* handoff[n]: the lines of node n's hinted-handoff.log
  job,       \* job[w]: the service operation worker w is executing
  calls, faults, cuts, crashes,   \* how much of each bound is used
  acked,     \* history: <<n, k>> when a put of k answered success on node n
  removed,   \* history: the checksums whose replicas some remove deletes
  mixed      \* history: the nodes where a hint was queued during a replay

stores  == <<disk, cache>>
budgets == <<calls, faults, cuts, crashes>>
vars    == <<disk, cache, handoff, job, calls, faults, cuts, crashes, acked, removed, mixed>>

\* A line "id address checksum size" of the queue file and how far it got: to
\* its end, or, when its writing was cut short, into the address, into the
\* checksum ("name"), to the end of the checksum ("named") or into the size.
\* Only the last line of a file can lack its end.  A line whose address or
\* checksum is not that of a hint names no chunk.
Parts == {"address", "name", "named", "size", "line"}
Hint == [node : Nodes, key : Checksums, part : Parts]
          \cup [node : {Nil}, key : {Nil}, part : Parts]

\* The locals of a service operation.  "at" is the position in the loop the
\* operation is in, "acks" its acknowledgements, responses or delivered
\* counter, "failed" its failed_replicas, "rest" its remaining hints.
Idle == [pc |-> "idle", key |-> Nil, data |-> Nil, at |-> 1, acks |-> 0,
         failed |-> <<>>, hints |-> <<>>, rest |-> <<>>, status |-> "none"]

Job == [pc     : {"idle", "put", "hint", "get", "repair", "remove", "replay", "send", "done"},
        key    : Checksums \cup {Nil},
        data   : Bytes \cup {Nil},
        at     : Nat \ {0},
        acks   : Nat,
        failed : Seq(Nodes),
        hints  : Seq(Hint),
        rest   : Seq(Hint),
        status : {"none", "ok", "error"}]

\* An operation has returned: its result is left for the caller.
Done(ok, k, d) ==
  [Idle EXCEPT !.pc = "done", !.status = IF ok THEN "ok" ELSE "error", !.key = k, !.data = d]

TypeOK ==
  /\ disk \in [Nodes -> [Checksums -> Bytes \cup {Nil}]]
  /\ cache \in [Nodes -> Seq([key : Checksums, value : Bytes])]
  /\ handoff \in [Nodes -> Seq(Hint)]
  /\ job \in [Workers -> Job]
  /\ calls \in Nat /\ faults \in Nat /\ cuts \in Nat /\ crashes \in Nat
  /\ acked \subseteq Nodes \X Checksums
  /\ removed \subseteq Checksums
  /\ mixed \subseteq Nodes

Init ==
  /\ disk = [n \in Nodes |-> [k \in Checksums |-> Nil]]
  /\ cache = [n \in Nodes |-> <<>>]
  /\ handoff = [n \in Nodes |-> <<>>]
  /\ job = [w \in Workers |-> Idle]
  /\ calls = 0 /\ faults = 0 /\ cuts = 0 /\ crashes = 0
  /\ acked = {}
  /\ removed = {}
  /\ mixed = {}

-----------------------------------------------------------------------------
(* Placement: ClusterState::write_plan and ConsistentHashRing::locate.     *)
(* Every member is known and marked healthy (refresh_seed_members runs     *)
(* before each plan), so the plan is the first replication_factor members  *)
(* in ring order.                                                          *)

PlanSize ==
  IF ReplicationFactor < Cardinality(Nodes) THEN ReplicationFactor ELSE Cardinality(Nodes)

Target(k, i) == Preference[k][i]

Targets(k) == {Target(k, i) : i \in 1 .. PlanSize}

-----------------------------------------------------------------------------
(* ChunkStore *)

Exists(n, k) == disk[n][k] # Nil

\* What get accepts from disk: the file opens and its content has the
\* checksum it is named by.  The two variants drop one test each.
ReadableUnverified(n, k) == Exists(n, k)
ReadableUnopened(n, k) == TRUE
Readable(n, k) == Exists(n, k) /\ Sha256[disk[n][k]] = k

WriteFile(n, k, b) == disk' = [disk EXCEPT ![n][k] = b]

CacheChunk(n, k, b) ==
  cache' = [cache EXCEPT ![n] = LruPut(cache[n], k, b, CacheCapacity)]

\* One more truncated body or failing file operation, and one more of the latter.
Failure == faults + cuts < MaxFailures
Fault == Failure /\ faults < MaxFaults /\ faults' = faults + 1

\* put(bytes) on node n, answering success or not.  A file that already
\* exists is reused as it is.  The stream is tested before it is closed: what
\* the close fails to flush leaves a truncated file behind an OK.
StorePut(n, b, ok) ==
  LET k == Sha256[b] IN
  \/ /\ ok
     /\ Exists(n, k)
     /\ CacheChunk(n, k, b)
     /\ UNCHANGED <<disk, faults>>
  \/ /\ ok
     /\ ~Exists(n, k)
     /\ \/ WriteFile(n, k, b) /\ UNCHANGED faults
        \/ WriteFile(n, k, Cut) /\ Fault
     /\ CacheChunk(n, k, b)
  \/ /\ ~ok
     /\ ~Exists(n, k)
     /\ Fault
     /\ UNCHANGED stores

\* get(checksum) on node n; r is the content or Nil.  A cached value is
\* returned as it is, a file only after its checksum has been compared.
StoreGet(n, k, r) ==
  \/ /\ LruContains(cache[n], k)
     /\ r = LruValue(cache[n], k)
     /\ cache' = [cache EXCEPT ![n] = LruTouch(cache[n], k)]
  \/ /\ ~LruContains(cache[n], k)
     /\ Readable(n, k)
     /\ r = disk[n][k]
     /\ CacheChunk(n, k, r)
  \/ /\ ~LruContains(cache[n], k)
     /\ ~Readable(n, k)
     /\ r = Nil
     /\ UNCHANGED cache

\* remove_if_unreferenced(checksum, 0): removing an absent file is no error.
\* The cache keeps its entry.
StoreRemove(n, k, ok) ==
  \/ ok /\ WriteFile(n, k, Nil) /\ UNCHANGED faults
  \/ ~ok /\ Fault /\ UNCHANGED disk

-----------------------------------------------------------------------------
(* NodeClient and the peer's /v1/chunks/ handlers.  An exchange succeeds,  *)
(* fails before the peer acts, or fails after it.                          *)

\* put_chunk: the peer stores the body first, under the name its content has,
\* and compares names afterwards.  The variant stores it under the name asked for.
RemotePutNamed(m, k, b, ok) ==
  \/ ~ok /\ UNCHANGED <<disk, cache, faults>>
  \/ WriteFile(m, k, b) /\ CacheChunk(m, k, b) /\ UNCHANGED faults
RemotePut(m, k, b, ok) ==
  \/ ~ok /\ UNCHANGED <<disk, cache, faults>>
  \/ StorePut(m, b, TRUE) /\ (ok => Sha256[b] = k)

\* get_chunk: the reply may be lost, and a body cut short by a lost
\* connection is taken for the whole body.
RemoteGet(m, k, r) ==
  \/ r = Nil /\ UNCHANGED <<cache, cuts>>
  \/ StoreGet(m, k, r) /\ UNCHANGED cuts
  \/ /\ \E whole \in Bytes : StoreGet(m, k, whole)
     /\ \/ r = Nil /\ UNCHANGED cuts
        \/ r = Cut /\ Failure /\ cuts < MaxCuts /\ cuts' = cuts + 1

\* delete_chunk
RemoteRemove(m, k, ok) ==
  \/ ~ok /\ UNCHANGED <<disk, faults>>
  \/ WriteFile(m, k, Nil) /\ UNCHANGED faults

-----------------------------------------------------------------------------
(* HintedHandoffQueue: the file is appended to, read and rewritten as text. *)

Garbled(part) == [node |-> Nil, key |-> Nil, part |-> part]

\* What is left of line h when its writing is cut short.  A cut inside the id
\* is as good as nothing written: load skips the line, the next one written
\* is read under another id, and nobody looks at ids.
Torn(h) == {Garbled("address"), Garbled("name"), [h EXCEPT !.part = "named"], [h EXCEPT !.part = "size"]}

Open(q) == q # <<>> /\ q[Len(q)].part # "line"

\* What is written after a line without end continues it.  Behind the checksum
\* it is lost; before that, the address or the checksum of the one line runs
\* into the other.
Joined(l, h) ==
  LET ends == h.part = "line" IN
  IF l.part = "size" THEN [l EXCEPT !.part = IF ends THEN "line" ELSE "size"]
                     ELSE Garbled(IF ends THEN "line" ELSE "name")

AppendLine(q, h) ==
  IF Open(q) THEN [q EXCEPT ![Len(q)] = Joined(q[Len(q)], h)] ELSE Append(q, h)

\* enqueue when only a part of the line is written.
TornAppends(q, h) == {AppendLine(q, t) : t \in Torn(h)}

\* load: a line without a checksum is skipped, one with a part of it gives a
\* hint whose chunk no store has.
Read(l) == IF l.part = "address" THEN <<>> ELSE <<[l EXCEPT !.part = "line"]>>

Loaded(q) == IF Open(q) THEN SubSeq(q, 1, Len(q) - 1) \o Read(q[Len(q)]) ELSE q

\* replace truncates the file and writes the lines; it can stop anywhere.
TornRewrites(q) ==
  {SubSeq(q, 1, i) : i \in 0 .. Len(q)}
  \cup (UNION {{Append(SubSeq(q, 1, i - 1), t) : t \in Torn(q[i])} : i \in 1 .. Len(q)})

-----------------------------------------------------------------------------
(* DistributedChunkService::put *)

Call == calls < MaxCalls /\ calls' = calls + 1

\* The locals of put once the local store has answered.  The variant goes on
\* to the peers when it has failed.
PutFromAnyway(b, ok) ==
  [Idle EXCEPT !.pc = "put", !.key = Sha256[b], !.data = b, !.acks = IF ok THEN 1 ELSE 0]
PutFrom(b, ok) ==
  IF ok THEN [Idle EXCEPT !.pc = "put", !.key = Sha256[b], !.data = b, !.acks = 1]
        ELSE Done(FALSE, Nil, Nil)

\* put(bytes): the local store takes the chunk whatever the plan says, and
\* that copy is the first acknowledgement.
CallPut(w, b) ==
  /\ job[w] = Idle
  /\ Call
  /\ \E ok \in BOOLEAN :
       /\ StorePut(Home[w], b, ok)
       /\ job' = [job EXCEPT ![w] = PutFrom(b, ok)]
  /\ UNCHANGED <<handoff, cuts, crashes, acked, removed, mixed>>

PutSkipSelf(w) ==
  /\ job[w].pc = "put"
  /\ job[w].at <= PlanSize
  /\ Target(job[w].key, job[w].at) = Home[w]
  /\ job' = [job EXCEPT ![w].at = @ + 1]
  /\ UNCHANGED <<disk, cache, handoff, budgets, acked, removed, mixed>>

\* One round of the replication loop.  After a failed exchange the peer may
\* have stored the chunk all the same.
PutReplica(w) ==
  LET j == job[w]
      m == Target(j.key, j.at) IN
  /\ j.pc = "put"
  /\ j.at <= PlanSize
  /\ m # Home[w]
  /\ \E ok \in BOOLEAN :
       /\ RemotePut(m, j.key, j.data, ok)
       /\ job' = [job EXCEPT ![w] =
                    IF ok THEN [j EXCEPT !.at = j.at + 1, !.acks = j.acks + 1]
                          ELSE [j EXCEPT !.pc = "hint"]]
  /\ UNCHANGED <<handoff, calls, cuts, crashes, acked, removed, mixed>>

\* The hint an operation queues for the target it is at.
HintOf(j) == [node |-> Target(j.key, j.at), key |-> j.key, part |-> "line"]

\* The replays that are between their load and their replace on node n.
Replaying(n) == {w \in Workers : Home[w] = n /\ job[w].pc \in {"replay", "send"}}

\* handoff_->enqueue(node, ref); its result is not looked at.  A write that
\* fails may have written a part of the line.
PutEnqueue(w) ==
  LET j == job[w]
      n == Home[w] IN
  /\ j.pc = "hint"
  /\ \/ /\ handoff' = [handoff EXCEPT ![n] = AppendLine(@, HintOf(j))]
        /\ UNCHANGED faults
     \/ Fault /\ UNCHANGED handoff
     \/ /\ Fault
        /\ \E q \in TornAppends(handoff[n], HintOf(j)) : handoff' = [handoff EXCEPT ![n] = q]
  /\ job' = [job EXCEPT ![w] = [j EXCEPT !.pc = "put", !.at = j.at + 1]]
  /\ mixed' = IF Replaying(n) = {} THEN mixed ELSE mixed \cup {n}
  /\ UNCHANGED <<disk, cache, calls, cuts, crashes, acked, removed>>

\* acknowledgements < write_quorum_ fails the write; the variant is off by one.
QuorumMissedByOne(acks) == acks + 1 >= WriteQuorum
QuorumReached(acks) == acks >= WriteQuorum

PutReturn(w) ==
  LET ok == QuorumReached(job[w].acks) IN
  /\ job[w].pc = "put"
  /\ job[w].at > PlanSize
  /\ job' = [job EXCEPT ![w] = Done(ok, job[w].key, Nil)]
  /\ acked' = IF ok THEN acked \cup {<<Home[w], job[w].key>>} ELSE acked
  /\ UNCHANGED <<disk, cache, handoff, budgets, removed, mixed>>

-----------------------------------------------------------------------------
(* DistributedChunkService::get *)

CallGet(w, k) ==
  /\ job[w] = Idle
  /\ Call
  /\ job' = [job EXCEPT ![w] = [Idle EXCEPT !.pc = "get", !.key = k]]
  /\ UNCHANGED <<disk, cache, handoff, faults, cuts, crashes, acked, removed, mixed>>

\* One round of the read loop.  The last answer is the one that is kept; when
\* the quorum is complete the replicas that failed so far are repaired.
GetReplica(w) ==
  LET j == job[w]
      m == Target(j.key, j.at) IN
  /\ j.pc = "get"
  /\ j.at <= PlanSize
  /\ \E r \in Bytes \cup {Nil} :
       /\ IF m = Home[w] THEN StoreGet(m, j.key, r) /\ UNCHANGED cuts
                         ELSE RemoteGet(m, j.key, r)
       /\ job' = [job EXCEPT ![w] =
            IF r = Nil
            THEN [j EXCEPT !.at = j.at + 1, !.failed = Append(j.failed, m)]
            ELSE IF j.acks + 1 >= ReadQuorum
            THEN [j EXCEPT !.pc = "repair", !.at = 1, !.acks = j.acks + 1, !.data = r]
            ELSE [j EXCEPT !.at = j.at + 1, !.acks = j.acks + 1, !.data = r]]
  /\ UNCHANGED <<disk, handoff, calls, faults, crashes, acked, removed, mixed>>

\* Read repair of one failed replica; the outcome is not looked at.
GetRepair(w, ok) ==
  LET m == job[w].failed[job[w].at] IN
  /\ job[w].pc = "repair"
  /\ job[w].at <= Len(job[w].failed)
  /\ IF m = Home[w] THEN StorePut(m, job[w].data, ok)
                    ELSE RemotePut(m, job[w].key, job[w].data, ok)
  /\ job' = [job EXCEPT ![w].at = @ + 1]
  /\ UNCHANGED <<handoff, calls, cuts, crashes, acked, removed, mixed>>

GetReturn(w) ==
  /\ job[w].pc = "repair"
  /\ job[w].at > Len(job[w].failed)
  /\ job' = [job EXCEPT ![w] = Done(TRUE, job[w].key, job[w].data)]
  /\ UNCHANGED <<disk, cache, handoff, budgets, acked, removed, mixed>>

\* No quorum: the local copy is still good enough for a read quorum of one.
GetFallback(w) ==
  /\ job[w].pc = "get"
  /\ job[w].at > PlanSize
  /\ \E r \in Bytes \cup {Nil} :
       LET ok == r # Nil /\ ReadQuorum <= 1 IN
       /\ StoreGet(Home[w], job[w].key, r)
       /\ job' = [job EXCEPT ![w] = Done(ok, job[w].key, IF ok THEN r ELSE Nil)]
  /\ UNCHANGED <<disk, handoff, budgets, acked, removed, mixed>>

-----------------------------------------------------------------------------
(* DistributedChunkService::remove *)

\* remove(checksum, references) returns at once while there are references.
CallRemove(w, k, references) ==
  /\ job[w] = Idle
  /\ Call
  /\ IF references > 0
     THEN /\ job' = [job EXCEPT ![w] = Done(TRUE, k, Nil)]
          /\ UNCHANGED removed
     ELSE /\ job' = [job EXCEPT ![w] = [Idle EXCEPT !.pc = "remove", !.key = k]]
          /\ removed' = removed \cup {k}
  /\ UNCHANGED <<disk, cache, handoff, faults, cuts, crashes, acked, mixed>>

RemoveReplica(w) ==
  LET j == job[w]
      m == Target(j.key, j.at) IN
  /\ j.pc = "remove"
  /\ j.at <= PlanSize
  /\ \E ok \in BOOLEAN :
       /\ IF m = Home[w] THEN StoreRemove(m, j.key, ok)
                         ELSE RemoteRemove(m, j.key, ok)
       /\ job' = [job EXCEPT ![w] =
                    IF ok THEN [j EXCEPT !.at = j.at + 1, !.acks = j.acks + 1]
                          ELSE [j EXCEPT !.at = j.at + 1]]
  /\ UNCHANGED <<cache, handoff, calls, cuts, crashes, acked, removed, mixed>>

RemoveReturn(w) ==
  /\ job[w].pc = "remove"
  /\ job[w].at > PlanSize
  /\ job' = [job EXCEPT ![w] =
               Done(job[w].acks >= WriteQuorum \/ job[w].acks >= PlanSize, job[w].key, Nil)]
  /\ UNCHANGED <<disk, cache, handoff, budgets, acked, removed, mixed>>

-----------------------------------------------------------------------------
(* DistributedChunkService::replay_hinted_handoff *)

\* handoff_->load().  A file that cannot be opened loads as an empty queue.
CallReplay(w) ==
  /\ job[w] = Idle
  /\ \/ /\ job' = [job EXCEPT ![w] = [Idle EXCEPT !.pc = "replay", !.hints = Loaded(handoff[Home[w]])]]
        /\ UNCHANGED faults
     \/ /\ Fault
        /\ job' = [job EXCEPT ![w] = [Idle EXCEPT !.pc = "replay"]]
  /\ UNCHANGED <<disk, cache, handoff, calls, cuts, crashes, acked, removed, mixed>>

\* remaining.push_back(hint); the variant forgets the hint.
Forget(rest, hint) == rest
Remain(rest, hint) == Append(rest, hint)

\* local_.get(hint.checksum): a hint whose chunk is not here stays queued, and
\* a garbled name is the name of no chunk.
ReplayRead(w) ==
  LET j == job[w]
      hint == j.hints[j.at] IN
  /\ j.pc = "replay"
  /\ j.at <= Len(j.hints)
  /\ \E r \in Bytes \cup {Nil} :
       /\ IF hint.key = Nil THEN r = Nil /\ UNCHANGED cache
                            ELSE StoreGet(Home[w], hint.key, r)
       /\ job' = [job EXCEPT ![w] =
                    IF r = Nil THEN [j EXCEPT !.at = j.at + 1, !.rest = Remain(j.rest, hint)]
                               ELSE [j EXCEPT !.pc = "send", !.data = r]]
  /\ UNCHANGED <<disk, handoff, budgets, acked, removed, mixed>>

\* client_.put_chunk(target, ...): a hint that is not delivered stays queued.
ReplaySend(w, ok) ==
  LET j == job[w]
      hint == j.hints[j.at] IN
  /\ j.pc = "send"
  /\ RemotePut(hint.node, hint.key, j.data, ok)
  /\ job' = [job EXCEPT ![w] =
               IF ok THEN [j EXCEPT !.pc = "replay", !.at = j.at + 1, !.acks = j.acks + 1]
                     ELSE [j EXCEPT !.pc = "replay", !.at = j.at + 1,
                                    !.rest = Remain(j.rest, hint)]]
  /\ UNCHANGED <<handoff, calls, cuts, crashes, acked, removed, mixed>>

\* handoff_->replace(remaining): what was queued since load() is overwritten.
\* When the file does not open it stays as it is; what is not written after
\* it has been truncated goes unnoticed.
ReplayReplace(w) ==
  /\ job[w].pc = "replay"
  /\ job[w].at > Len(job[w].hints)
  /\ \/ /\ handoff' = [handoff EXCEPT ![Home[w]] = job[w].rest]
        /\ job' = [job EXCEPT ![w] = Done(TRUE, Nil, Nil)]
        /\ UNCHANGED faults
     \/ /\ Fault
        /\ job' = [job EXCEPT ![w] = Done(FALSE, Nil, Nil)]
        /\ UNCHANGED handoff
     \/ /\ Fault
        /\ \E q \in TornRewrites(job[w].rest) : handoff' = [handoff EXCEPT ![Home[w]] = q]
        /\ job' = [job EXCEPT ![w] = Done(TRUE, Nil, Nil)]
  /\ UNCHANGED <<disk, cache, calls, cuts, crashes, acked, removed, mixed>>

-----------------------------------------------------------------------------
(* The caller takes the result; a process crashes and is started again.    *)

\* RepairWorker::repair_bucket, on which rebalance rests: what get returned is
\* put again, under the name its content has.
RepairPut(w) ==
  LET read == job[w].data IN
  /\ job[w].pc = "done" /\ job[w].status = "ok" /\ read # Nil
  /\ \E ok \in BOOLEAN :
       /\ StorePut(Home[w], read, ok)
       /\ job' = [job EXCEPT ![w] = PutFrom(read, ok)]
  /\ UNCHANGED <<handoff, calls, cuts, crashes, acked, removed, mixed>>

Return(w) ==
  /\ job[w].pc = "done"
  /\ job' = [job EXCEPT ![w] = Idle]
  /\ UNCHANGED <<disk, cache, handoff, budgets, acked, removed, mixed>>

\* The queue file a crash of node n can leave: the process may die inside the
\* write of enqueue or of replace.
QueueAfterCrash(n) ==
  {handoff[n]}
  \cup (UNION {TornAppends(handoff[n], HintOf(job[w])) :
                 w \in {v \in Workers : Home[v] = n /\ job[v].pc = "hint"}})
  \cup (UNION {TornRewrites(job[w].rest) :
                 w \in {v \in Replaying(n) : job[v].pc = "replay" /\ job[v].at > Len(job[v].hints)}})

\* The process of n dies at any point and starts again: its threads and its
\* cache are gone, its files are not.  While it is down its peers only see
\* failed exchanges, which they may see at any time.
Crash(n) ==
  /\ crashes < MaxCrashes
  /\ crashes' = crashes + 1
  /\ cache' = [cache EXCEPT ![n] = <<>>]
  /\ job' = [w \in Workers |-> IF Home[w] = n THEN Idle ELSE job[w]]
  /\ \E q \in QueueAfterCrash(n) : handoff' = [handoff EXCEPT ![n] = q]
  /\ UNCHANGED <<disk, calls, faults, cuts, acked, removed, mixed>>

-----------------------------------------------------------------------------

\* Callers put whole contents, and ask for the names put gave them.
Whole == Bytes \ {Cut}
Named == {Sha256[b] : b \in Whole}

CallAny(w) ==
  \/ \E b \in Whole : CallPut(w, b)
  \/ \E k \in Named : CallGet(w, k)
  \/ \E k \in Named, references \in {0, 1} : CallRemove(w, k, references)
  \/ CallReplay(w)

\* The steps of an operation that has been called.
Step(w) ==
  \/ PutSkipSelf(w) \/ PutReplica(w) \/ PutEnqueue(w) \/ PutReturn(w)
  \/ GetReplica(w) \/ GetRepair(w, TRUE) \/ GetRepair(w, FALSE)
  \/ GetReturn(w) \/ GetFallback(w)
  \/ RemoveReplica(w) \/ RemoveReturn(w)
  \/ ReplayRead(w) \/ ReplaySend(w, TRUE) \/ ReplaySend(w, FALSE) \/ ReplayReplace(w)
  \/ RepairPut(w) \/ Return(w)

Next ==
  \/ \E w \in Workers : CallAny(w) \/ Step(w)
  \/ \E n \in Nodes : Crash(n)

Spec == Init /\ [][Next]_vars

\* The hint of chunk k for peer m is being sent, and arrives.
Delivers(w, m, k) ==
  /\ job[w].pc = "send"
  /\ job[w].hints[job[w].at].node = m /\ job[w].hints[job[w].at].key = k
  /\ ReplaySend(w, TRUE)

\* A pool thread keeps running what it has started; the operator posts
\* /v1/admin/handoff/replay again and again; a peer that is sent the same chunk
\* again and again answers at last.
FairSpec ==
  /\ Spec
  /\ \A w \in Workers : /\ WF_vars(Step(w))
                        /\ WF_vars(CallReplay(w))
                        /\ \A m \in Nodes, k \in Named : SF_vars(Delivers(w, m, k))

-----------------------------------------------------------------------------
(* Properties *)

\* What the cache of a store holds under a checksum hashes to that checksum:
\* damaged files and truncated replies never enter it under a wrong name, so
\* the cached path of ChunkStore::get, which compares nothing, is safe.
CacheVerified ==
  \A n \in Nodes : \A i \in DOMAIN cache[n] :
     Sha256[cache[n][i].value] = cache[n][i].key

\* As long as no reply body was cut short, a get that answers success returns
\* the content its checksum names, whatever happened to the files.
ReadsVerified ==
  cuts = 0 =>
    \A w \in Workers :
       job[w].pc = "done" /\ job[w].status = "ok" /\ job[w].data # Nil
         => Sha256[job[w].data] = job[w].key

\* The replica of k on n is on disk and matches its name.
Intact(n, k) == disk[n][k] # Nil /\ Sha256[disk[n][k]] = k

\* A put answers success only if, from then on until somebody removes the
\* chunk, write_quorum of the chunk's ring targets have its file: "The write
\* succeeds only after the configured write quorum acknowledges."  Crashes and
\* failing file operations are included, hints that were never written among
\* them; that the files also hold the content takes that none failed.
AckedOnQuorum ==
  \A p \in acked :
     p[2] \notin removed =>
       /\ Cardinality({m \in Targets(p[2]) : disk[m][p[2]] # Nil}) >= WriteQuorum
       /\ faults = 0 => Cardinality({m \in Targets(p[2]) : Intact(m, p[2])}) >= WriteQuorum

Hinted(n, m, k) ==
  \E i \in DOMAIN handoff[n] : handoff[n][i] = [node |-> m, key |-> k, part |-> "line"]

\* Every target that lacks chunk k has its hint in the queue of node n.
StoredOrHinted(n, k) == \A m \in Targets(k) : disk[m][k] # Nil \/ Hinted(n, m, k)

\* "Failed writes to unavailable replicas are recorded as hinted handoff
\* entries": while no file operation fails and no process crashes, a target
\* that lacks an acknowledged chunk has its hint queued where the write was
\* acknowledged.
HintsRecorded ==
  faults = 0 /\ crashes = 0 =>
    \A p \in acked : p[2] \notin removed => StoredOrHinted(p[1], p[2])

\* The same, with the one thing that loses a hint named: it holds on every node
\* where no hint was queued between the load and the replace of a replay,
\* however many threads put, get, repair, remove and replay there and elsewhere.
HandoffComplete ==
  faults = 0 /\ crashes = 0 =>
    \A p \in acked : p[1] \notin mixed /\ p[2] \notin removed => StoredOrHinted(p[1], p[2])

\* A queued hint reaches its target, unless the chunk is removed: replay keeps
\* what it cannot deliver and forgets nothing else.
HandoffDelivered ==
  \A n, m \in Nodes, k \in Checksums :
     Hinted(n, m, k) ~> (disk[m][k] # Nil \/ k \in removed \/ n \in mixed)

\* Whatever the queue file went through, lines cut short by a failing write or
\* a crash and lines glued to them included, load reads hints replay can work
\* on: each names a target of its chunk other than the node itself, and the
\* chunk is in the node's own store unless somebody removed it; or its fields
\* have run together and it names no chunk at all.  No damage to the file pairs
\* a chunk with a node that is not to have it.
HintsServable ==
  \A n \in Nodes :
     LET queue == Loaded(handoff[n]) IN
     \A i \in DOMAIN queue :
       queue[i].key # Nil =>
         /\ queue[i].node \in Targets(queue[i].key) \ {n}
         /\ disk[n][queue[i].key] # Nil \/ queue[i].key \in removed

\* The files whose content does not match their name.
Damaged == {f \in Nodes \X Checksums : Exists(f[1], f[2]) /\ ~Intact(f[1], f[2])}

\* Damage does not spread: there are never more files with a wrong content than
\* file operations that failed.  Reads from damaged replicas, replies cut
\* short, read repair, repair of a bucket and replay may all go on meanwhile;
\* what they write is named by the content it has.
DamageContained == Cardinality(Damaged) <= faults

-----------------------------------------------------------------------------
(* The service these nodes provide together. *)

AnswerOf(w) ==
  IF job[w].pc = "done"
  THEN [ok |-> job[w].status = "ok", key |-> job[w].key, data |-> job[w].data]
  ELSE Nil

\* A write quorum of the targets of k have the content k names.
OnQuorum(k) ==
  \E d \in Bytes :
     /\ Sha256[d] = k
     /\ Cardinality({i \in 1 .. PlanSize : disk[Target(k, i)][k] = d}) >= WriteQuorum

Service == INSTANCE ChunkService WITH
  stored   <- {k \in Checksums : OnQuorum(k)},
  promised <- {p[2] : p \in acked},
  retired  <- removed,
  answer   <- [w \in Workers |-> AnswerOf(w)],
  durable  <- faults = 0,
  whole    <- cuts = 0

\* DistributedChunkService with all its replicas, lost replies, hints, repairs
\* and crashes implements a store without replicas: what was acknowledged is
\* stored, what is stored is lost only by a remove, and what is handed out is
\* what the checksum names.
ImplementsService == Service!ServiceSpec
=============================================================================
