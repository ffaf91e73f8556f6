# A TLA+ model of dstore

dstore is a replicated, content-addressed object store in C++: every node serves
objects over HTTP, cuts them into chunks named by SHA-256, replicates the chunks
to its peers, and keeps the object metadata in its own SQLite file. This
directory holds TLA+ modules translated from that code, TLC configurations that
check them on small instances, and proofs checked by TLAPS.

## The system

| Component | State it keeps | Operations | Hard about it | What makes it correct |
|---|---|---|---|---|
| Chunk store (`chunk_store.cpp`) and LRU cache (`lru_cache.h`) | one file per chunk, a cache of contents | `put`, `get`, `remove_if_unreferenced` | files that are damaged or cut short, a cache that is not verified | a cached value has the checksum it is filed under |
| Distributed chunk service (`distributed_chunk_service.cpp`) | none; locals of the operations | `put`, `get` with read repair, `remove`, `replay_hinted_handoff` | lost requests and replies, other threads and crashes between two peers | an acknowledged write is on a quorum; reads return what was asked for |
| Hinted handoff (`hinted_handoff.cpp`) | a file of hints per node | `enqueue`, `load`, `replace` | replay and writes at the same time, lines cut by a crash or a full disk | whatever a target lacks is hinted; hints arrive at last, and nowhere else |
| Membership and placement (`replication.cpp`, `consistent_hash.cpp`, `background_worker.cpp`) | known members with the time of their heartbeat, the worker's loop | `heartbeat`, `write_plan`, `read_plan`, `locate`, periodic heartbeats | views that differ, silent and restarted members, members that join | plans move with joining members only; running nodes find each other |
| Raft (`raft.cpp`) | role, term, vote, log, indexes | the methods of `RaftNode` | lost and late answers, log conflicts | one leader per term, matching logs, commit by majority |
| Object routes (`server/main.cpp`) | none; locals of the handlers | `PUT`, `GET`, `DELETE /v1/objects/`, `GET /v1/metadata/` | several threads, three stores written one after the other | reads are whole; no object loses its chunks; what is deleted stays deleted |
| Metadata store (`metadata_store.cpp`) | tables `objects` and `chunks`, one connection | `put_object`, `get_object`, `delete_object`, `chunk_ref_count`, `list_objects` | one connection shared by all threads | an object's rows change as a whole |
| Write-ahead log (`wal.cpp`) | a file of records | `append`, `replay` | concurrent appends, failed writes, restart | a mutation is logged before it is committed |
| HTTP and thread pool (`http_server.cpp`, `thread_pool.*`) | a FIFO of connections, a fixed set of threads | accept, take a job, `parse_request`, `serialize`, `http_request` | handlers wait for peers without a timeout; handlers that throw; messages cut into pieces and connections that break | every accepted connection is answered once; bodies arrive as they were sent |
| Repair and rebalance (`repair_worker.cpp`) | none | `repair_bucket` | races with `DELETE`, damaged copies | damage does not spread |
| Authorisation (`auth.cpp`) | tokens and their permissions | `authorize` | none | a handler that asks for a permission runs only for a token that has it |
| Codecs (`wire.cpp`, `sha256.cpp`, `chunk_bytes`) | none | cut, pad, frame, decode | lengths at boundaries and beyond their fields | the bytes come back, or are refused |

A request enters through the HTTP server, runs on a pool thread, and calls the
metadata store, the log and the chunk service of its own node directly. The chunk
service reaches the stores of the peers through `NodeClient` and their
`/v1/chunks/` routes, that is, through their HTTP servers and pools. Raft is a
library with no caller in the server. Configuration, logging, metrics, the client
and the benchmarks keep no state that matters here.

The hazards, each at its line and with the properties that would show it going
wrong, are listed in `PROJECT.json`.

## Modules

| Module | Models | Extended by |
|---|---|---|
| `LruCache` | `LruCache<Key, Value>` as functions of its list | `ChunkCluster` |
| `ChunkCluster` | storage plane: stores, caches, handoff queues, service operations of all nodes | `MCChunkCluster`, `ChunkClusterProofs` |
| `ChunkService` | abstract: what the chunk service promises its callers; implemented by `ChunkCluster` | |
| `Membership` | `ClusterState`, the hash ring, the heartbeat workers and `POST /v1/heartbeat` | `MCMembership`, `MembershipProofs` |
| `Raft` | `RaftNode` with a synchronous caller | `MCRaft`, `RaftProofs` |
| `ObjectApi` | object routes, repair, metadata tables, log | `MCObjectApi`, `ObjectApiProofs` |
| `RpcPool` | HTTP servers, pools and the calls between them | `MCRpcPool`, `RpcPoolProofs` |
| `HttpExchange` | one connection: `parse_request`, dispatch and authorisation, `http_request` | `BodyCodecs` |
| `ByteCodecs` | `chunk_bytes`, the padding of `Sha256`, `encode_frame` and `decode_frame` | `BodyCodecs`, `CodecProofs` |
| `BodyCodecs` | the codecs applied to what a connection delivers | `MCHttpExchange`, `HttpExchangeProofs` |
| `Iteration` | induction and loops, for the proofs | `RaftProofs`, `MembershipProofs`, `CodecProofs` |
| `MC...` | values for the constants | |
| `...Proofs` | theorems about the module they extend | |

### ChunkCluster

`disk[n][k]` is the file of chunk `k` on node `n`, `cache[n]` the LRU list,
`handoff[n]` the lines of the queue file, `job[w]` the locals of the operation
thread `w` runs: `at` is the loop position, `acks` the counter, `failed` the
`failed_replicas`, `hints` and `rest` the loaded and the `remaining` hints. One
action is what a thread does between two points where others can intervene: a
call on the local store, one exchange with a peer, one operation on the queue
file. `ChunkStore::put` holds its mutex; `get` reads a file that is published
with `rename`. An exchange succeeds, fails before the peer acted or fails after
it; a body may be cut short, because `http_request` reads until the connection
ends and does not look at `Content-Length`. A crash loses the cache and the
threads of a node and keeps its files.

`RepairPut` is the inner loop of `repair_bucket`: what a get has returned is put
again, under the name its content has. `put` with a local store that fails returns
at once (`PutFrom`). Callers put whole contents and ask for the names they were
given (`Whole`, `Named`); content that was cut short only enters through a failing
file or a broken connection.

The queue file is text. A line is an id, an address, a checksum and a size; writing
it can stop anywhere (a full disk, a crash), in `enqueue` as well as in `replace`, and
what is written next continues the same line. Each line of `handoff[n]` therefore has
a `part`, how far it got: into the address, into the checksum, to the end of the
checksum, into the size, or to its end. `Torn` are the lines a cut can leave, `Joined`
is a line that was glued to one, `Loaded` what `load` makes of the file: it skips a
line without a checksum, and takes one with half a checksum, or with fields of two
lines run together, for a hint. Such a hint names no chunk (`Garbled`): `local_.get`
does not find it and it stays queued. A cut right behind the checksum or inside the
size leaves a hint that is as good as before.

`mixed` is history: the nodes where a hint was queued between the `load` and the
`replace` of a replay.

Abstractions. The ring is an order of the nodes per key (`Preference`), any
order; `Membership` has the ring itself. All members are known:
`refresh_seed_members` runs before every plan. A node that is down is a node whose
exchanges fail. SHA-256 has no collisions on the contents in play. A crash is one of
the process, not of the machine, so what was written to a file is there. A cut inside
the id of a queue line is as good as nothing written, since nobody looks at ids. The
cache holds `CacheCapacity` entries, where the code passes 64 Mi. Chunk sizes are left
out: nothing decides on them.

### ChunkService, and how ChunkCluster implements it

`ChunkService` has no nodes. A chunk is stored or not; it is lost only after
somebody asked to remove it; an answer of success to a write is a promise that the
chunk is stored (or was removed since); an answer with content has the content the
checksum names. `durable` and `whole` say that no file operation has failed and no
reply was cut short: the promise is made under the first, the content under the
second. `ChunkCluster` instantiates it with

| `ChunkService` | in `ChunkCluster` |
|---|---|
| `stored` | the checksums of which a write quorum of the targets has an intact file |
| `promised` | the checksums in `acked` |
| `retired` | `removed` |
| `answer[w]` | the result left in `job[w]` when the operation has returned |
| `durable`, `whole` | `faults = 0`, `cuts = 0` |

and `ImplementsService` is its specification under that mapping. A write that
reaches its quorum, a read repair, a replayed hint and a repair all become `Keep`;
each deletion of a replica that takes a chunk below the quorum becomes `Drop`; most
steps stutter. `ObjectApi` uses the service in this form.

### Membership

`known[n]` are the ids in the `ClusterState` of node `n`, `remote[n]` those filed
under the address `"remote"`, `stale[n]` those last seen longer ago than the
timeout, `at[n]` the position of the heartbeat worker in its peers. `Heartbeat` is
one exchange: `POST /v1/heartbeat` files the sender at the receiver and, when the
answer arrives, the worker files the receiver at the sender. `ServiceCall` is
`refresh_seed_members`, `Silence` the passing of time. A restart keeps nothing.

The ring has `RingSize` positions, and every node a set of virtual nodes on it.
`Locate` is stated by order on the ring, which is how plans are reasoned about;
`WalkRing` is the loop of `locate` as it is written, and `LocateIsTheWalk` says that
the two agree on every view. Assumed: of any two nodes one is
configured with the other (otherwise nobody would ever tell them of each other),
and virtual nodes of different members do not collide.

"Placement excludes stale nodes." (`docs/architecture.md:50`, and in other words
`docs/architecture.md:42` and `docs/design-decisions.md:17`) is not what the code does:
`write_plan` uses `known_nodes`. The run `StalePlacement` shows it, with
`PlacementExcludesStale` leaving aside the configured peers, which
`refresh_seed_members` counts as heard of. The test
`WritePlanUsesKnownMembersEvenWithoutFreshTimeoutChecks` (`tests/replication_test.cpp`)
wants it as it is, and `OnlyJoinersMove` and `PlansOverlap` state what follows from
that choice. The loop of `locate` also tests `healthy`, and would not end if fewer
members were healthy than replicas are asked for; every caller in the server adds
members that are marked healthy, so `WalkRing` has no such test.

### Raft

The variables are the fields of `RaftNode`. `request[n]` and `asked[n]` belong to
the caller: the vote request of the last election, and who has been shown it.
`elected` and `ballots` are history. The code has no transport; its tests hand an
answer over at once. `AskVote` and `Replicate` are such exchanges,
`AskVoteLost` and `ReplicateLost` are exchanges whose answer is lost.
`become_leader_for_single_node`, a shortcut that only a benchmark calls, is left out.
`RaftNode` persists nothing, so there is no restart: a node
that restarts would be a new node under an old name, and nothing in the code
claims to handle it. The actions use `Splice`, a closed form of what the loops of
`make_append_entries` and `append_entries` leave in the follower's log; the loops
themselves are `Collect` and `AppendEach`, and `SpliceIsTheLoop` compares them. Terms
and log lengths are bounded by `MaxTerm` and `MaxLog`.

### ObjectApi

`committed[n]` is what is in the database file, `working[n]` what the connection
sees; they differ inside a transaction. The chunk rows of an object are a set of
`<<position, checksum>>`, so that rows another thread has deleted leave gaps and a
violated primary key is one of a position. SQLite is external: a statement by any
thread belongs to the open transaction of the connection or commits by itself,
`BEGIN` inside a transaction fails, a crash falls back to `committed`. A statement
that fails (`Failed`) is undone alone, or, as SQLite does on an I/O error, without
memory or on a full disk, together with the whole transaction that is open,
whichever thread opened it; the handler that had opened it goes on outside of one.
Each statement, each row of a `SELECT`, each `append`, each chunk that is stored,
read or removed is an action.

`wal[n]` has whole records and `Torn` lines, and `ended[n]` says whether the last line
has its newline. `append` has no lock, so while two threads are in it a record may be
whole, cut, mixed with another or lost (the data race is a choice between these). A
write that fails, or a crash inside `append`, which writes a long record in several
pieces, leaves nothing, a part of the record or all of it but the newline
(`CutAppend`); the next record is glued to it. Restart replays the log and refuses to
serve when a line is torn.

Three histories name what the properties except: `undone` (a failing statement rolled
back a transaction on the node), `marred` (an append raced, failed or was cut), `mixed`
(the node handled a PUT and a DELETE at the same time).

The chunk service is a set here, `stored`: a put stores or fails, possibly leaving
copies; a get answers an error, the chunk or damaged data; a remove may or may not
have an effect. A content is a nonempty sequence of chunks (`chunk_bytes` gives an
empty body one empty chunk) and stands for its checksum as well. A statement whose
step fails is what the code takes it for: a missing object, the end of the rows, a
count of 0.

GET, `/v1/metadata/`, DELETE and repair begin with the same two `SELECT`s
(`SelectObject`, `SelectRow`) and part in `Described`. Repair lists the objects in
one step, since only a failing `SELECT` and not another thread shows in its result,
and takes them in any order, where the code takes them by key; rebalance is the same
code.

### RpcPool

`queue[n]` is the pool's FIFO, `phase[r]` and `call[r]` say where client request
`r` and the call its handler is waiting for are. A thread is busy from taking a
job to the end of its handler, waiting for a peer included. `HandlerThrows` is an
exception in a handler: `packaged_task` keeps it, the thread lives on, the socket
stays open.

### HttpExchange and ByteCodecs

One connection: `up` and `down` are the bytes under way, as tokens; every `recv`
takes some of them, at most `RecvMax`. A route asks for a permission or, like
`/metrics` and `/healthz`, for none. `NL` is CR LF, and two of them end a header
wherever they are, in a body as well. `Break` loses the rest of what is under way in
either direction. `send` is not looked at: on a broken connection it does nothing or
SIGPIPE ends the process (`killed`). A handler that throws (`dropped`) skips the rest of
the task: nothing is sent and the socket stays open. Left out: header lines that are malformed, and
a `Content-Length` that is no number, which `http_request` never writes.

`ByteCodecs` has functions only, with the widths and block sizes as parameters, so
that the limits of 16 and 32 bits and of a block are within reach. `BodyCodecs` puts
the two together: the codecs are checked on every body, or part of one, that the
connection delivers, for every chunk size in `ChunkSizes`.

## Runs

Passing runs:

| Run | Instance | Shows |
|---|---|---|
| `ChunkQuorum` | 3 nodes, RF 3, W 2, R 2 (the shipped configuration), a thread on each of two nodes, 1 content, 2 calls, a failing file operation or a cut reply, and a crash | `AckedOnQuorum`, `HandoffComplete`, `HintsServable`, `CacheVerified`, `ReadsVerified`, `DamageContained`, `ImplementsService` |
| `ChunkDelivered` | two threads of one node, 1 call and any number of replays, lost exchanges and no other failures, with fairness | `HandoffComplete`, `HandoffDelivered` |
| `RaftSafety` | 3 nodes, 2 terms, logs of 2, symmetric nodes | `ElectionSafety`, `LogMatching`, `LogIndexed`, `CommitWithinLog`, `MatchedIsReplicated`, `LeaderAppendOnly`, and that `Splice` is the loop of `append_entries` |
| `ObjectConcurrent` | 2 threads of a node, 2 objects, two bodies that share a chunk, 3 calls, repairs among them, 1 failing operation, 1 crash; symmetric threads and keys | `ReadsWhole`, `PutsAtomic`, `LoggedFirst`, `ChunksKept` |
| `Pool` | 3 nodes, 2 threads each, 4 requests, 1 exception, with fairness | `ServedOnce`, `RequestsAnswered` |
| `Members` | 2 nodes configured with each other and one that joins, RF 2, 2 keys, 2 crashes, with fairness | `PeersAddressed`, `OnlyJoinersMove`, `PlansOverlap`, `LocateIsTheWalk`, `MembersFound` |
| `Framing` | requests with bodies of 0 to 9 tokens, empty lines in them, three tokens, a route without one, one header beyond the limit, a handler that may throw; `recv` of at most 3; with fairness | `RequestExact`, `ReplyExact`, `SuccessIsHandled`, `ExchangeEnds`; `ChunksJoin`, `PaddedRight`, `WireExact` |

Runs that show where the code does not do what a document or a test says; each is
a finding in `PROJECT.json` with the quoted line:

| Run | What happens |
|---|---|
| `HandoffLostUpdate` | replay loads the queue; a write on another thread queues a hint; replay replaces the file and the hint is gone |
| `RaftCommit` | the leader counts a new entry as committed at once |
| `RefCountRace` | DELETE of one object removes a chunk that an overlapping PUT has just stored |
| `DeleteUndone` | the statements of a DELETE join another thread's transaction; it is answered 204, the process dies before the COMMIT, and the object is there again |
| `StalePlacement` | a member that joined and fell silent stays in the plans |

`HandoffComplete` and `ChunksKept` are what is left of the properties of
`HandoffLostUpdate` and `RefCountRace` (`HintsRecorded`, `NoDangling`) once the overlap
that breaks them is named: they say that nothing else does, with any number of threads.

`RequestsAnswered` names its two exceptions: a handler that threw, and `Wedged`, a
set of nodes all of whose threads wait for each other in `recv` without a timeout
(`http_server.cpp:188`). The run reaches both; without either
disjunct the property fails, and the property says that there is no third way to lose
a request. `ExchangeEnds` has the first of them as well.

The conditions of the passing runs matter elsewhere, too. This is a change
of constants away from a run above, and the code then does not keep the property:

* `ChunkQuorum` with `ReplicationFactor = 2`: `put` counts the coordinator's own
  copy as an acknowledgement even when the coordinator is not a target
  (`distributed_chunk_service.cpp:36`), so `AckedOnQuorum` fails.

Other properties except what the code does not survive, by a history that the run
reaches; without the exception they fail:

* `PutsAtomic` outside `undone`: when any thread's statement fails with an I/O error,
  SQLite rolls back the put that has the transaction open; its remaining statements
  commit one by one, and the file holds the checksum of one content with rows of
  another (`metadata_store.cpp:82` and the other steps).
* `LoggedFirst` outside `marred`: appends that race (`wal.cpp:23`), fail or are cut by a
  crash leave a record torn, or glue the next one to it; the next start then refuses
  to serve (`wal.cpp:46`), which the design accepts ("can reject torn or corrupt
  records").
* `ChunksKept` outside `mixed` (that is `RefCountRace`), but for chunks other nodes store
  too (references are counted in one node's database, `metadata_store.cpp:120`, and the
  chunk is removed everywhere), and without a failing operation (a count that cannot
  be read is 0, `metadata_store.cpp:122`).

What a DELETE answers can be wrong with two threads, because `sqlite3_changes` may
already tell of another thread's statement (`metadata_store.cpp:112`), and with a
failing `DELETE` on `objects`, whose result is not looked at; no document says
otherwise, so no property does.

A caller of Raft that hands over a vote after its candidate has started another
election elects two leaders of a term (`raft.cpp:68` compares no terms); the model,
like the tests, hands answers over at once.

More behaviours of the code are in the model, and the properties are stated around
them: `replace` truncates the queue in place, so a crash there loses hints
(`HandoffComplete` is about behaviours without a crash; that the rest of the queue,
lines cut and glued included, is usable and that the write does not depend on it is
`HintsServable` and `AckedOnQuorum`); `put` keeps a file that exists, so read repair reports success on a
damaged file and leaves it (`AckedOnQuorum` asks for intact files only without a
failing file operation); `delete_object` is two statements that commit by themselves,
so a crash between them leaves an object row without chunk rows (`PutsAtomic` is about
objects nobody deletes; `ReadsWhole` says that no GET answers 200 from such a row); a
repair that races with a DELETE, and a PUT over an object, leave chunks behind that
nothing refers to; a member that is not configured is filed under `"remote"`, and what
is placed on it becomes hints that stay queued.

### Bounds

Three nodes are the shipped cluster and the smallest with a quorum that is neither
all nor one. Two threads are enough for every race found; each property relates
at most two operations. In `ChunkQuorum` two calls put two operations side by side,
and replays and repairs, which are not counted, come on top. `MaxFailures` bounds
failing file operations and cut replies together; a crash may come before or after
either, which is what it takes to read a damaged file behind a cache that had the good
bytes. `ChunkDelivered` has two threads of one node, so that a put and replays, or two
replays, overlap there; one call queues two hints. Two contents
sharing a chunk are needed for deduplication to matter. One crash and
one failing operation each happen at every point. Raft needs two terms for stale
leaders and entries and logs of two for a conflict. `Members` has both ways
two nodes can be configured (with each other, or only one with the other)
and two restarts, so that a
node can forget and be forgotten; a ring of seven positions with two virtual nodes
each gives views for which the walk wraps. In `Framing` a byte has two values, blocks
have 8 of them with a length of 6, and the fields of a frame are 1, 1 and 3 wide:
bodies of up to nine tokens then run over every one of these limits. `ChunkSizes` are
0 (the default is taken) to 4: smaller than a body, equal to one and larger.
`RaftSafety` leaves the history `ballots` out of its view: only the proofs read it
(and `TypeOK`, whose conjunct about it is proved step by step as part of
`ElectionInv`). `ObjectConcurrent` leaves `gone` out of its view, and what a finished
handler has in its locals beside its answer: no action and no invariant of the run
reads either (`TypeOK` does, and is proved).
`MaxCalls`, `MaxFaults`, `MaxCuts`, `MaxCrashes`, `MaxFailures`, `MaxThrows`,
`MaxTerm` and `MaxLog` are all the bounds there are, each in the guard of the actions it
limits (`RecvMax` and `HeaderLimit` are limits of the code, scaled down). Deadlock
checking is off where the bounds, or a node that refuses to
restart, let a behaviour end; `ChunkCluster` never ends, because replay may always
be called again.

### Fairness

`ChunkCluster!FairSpec`: a pool thread keeps running what it has started (weak
fairness of its steps); the operator posts `/v1/admin/handoff/replay` again and
again, which is an assumption on the operator, as nothing in the code calls it by
itself; a peer that is sent the same chunk again and again answers at last (strong fairness of
`Delivers`, per thread, peer and chunk). Calls of clients and crashes are not fair.
`RpcPool!Spec`: threads that can go on do, and a free thread takes a queued job
(`notify_one` under the mutex). Clients need not come, and connections need not be
refused; there is no timeout in the code, so none is assumed.
`Membership!Spec`: a worker thread goes on, and a running peer that is called again
and again answers at last (strong fairness of the answered `Heartbeat`). That every
exchange ends is an assumption: the worker has one thread for all peers and no
timeout, so a peer that accepts and stays silent would stop it
(`background_worker.cpp:38`). Starting, calling the service and falling silent are
not fair. `HttpExchange!Spec`: both threads go on while there is something to receive
or the connection has ended; a connection need not break.

## Proofs

`ChunkClusterProofs`, for every finite set of nodes, every set of threads, every
ring order, replication factor and quorum, and every bound:

* `TypeCorrect`: `Spec => []TypeOK`;
* `CacheIsVerified`: `Spec => []CacheVerified`;
* `ReadsAreVerified`: `Spec => []ReadsVerified`.

They follow from one inductive invariant, `Basic` (theorem `BasicInvariant`).
`ReadsVerified` is not inductive: a read passes through several steps before it
returns, the bytes it has so far come from a peer's file, a peer's cache or the
own one, and replay and repair write the bytes an operation holds into other
stores. `Basic` therefore says, besides the types, that every cache entry is
verified, that files match their names as long as no file operation failed, that a
put holds bytes that match its key, that a read does unless a reply was cut short,
and that positions and hints are within their sequences. The
lemmas about `LruCache` say that a list only ever contains entries it was given.

Five more theorems of the module add to `Basic` what the operations under way owe:

* `HintsStayServable`: `Spec => []HintsServable`. `HintsFit` says that a put under way
  has its chunk in its own node's files, unless it was removed, so that what it
  queues is a hint replay can work on, and that the two lists a replay holds (what it
  loaded, what it keeps) are as good as the queue they will be written over. The rest
  is about text: every way of cutting a line, of gluing one to it, of loading the file
  and of stopping a rewrite leads from lines that fit to lines that fit
  (`QueueFitsOps`).
* `DamageStaysContained`: `Spec => []DamageContained`. A step damages a file only if a
  file operation fails in it, and then one file (`DamageStep`): every other write
  names the content by its checksum, whatever the operation holds.
* `AckedStayOnQuorum`: `Spec => []AckedOnQuorum`, if every node is a target of every
  chunk (`FullReplication`). `AcksHeld` says that the counter of a put is at most the
  number of nodes it has asked so far that hold the file, itself included. Without
  the hypothesis the property is false: the local copy is the first acknowledgement
  whether or not the node is in the plan.
* `HandoffStaysComplete`: `Spec => []HandoffComplete`, for any number of threads.
  `HandoffKept` says that, on a node outside `mixed`, each target a put has passed is
  accounted for: the file is there, the hint is queued or the chunk was removed. A
  replay that comes to its `replace` has sent or kept everything it had loaded, and
  outside `mixed` nothing was queued since, so what it writes over is accounted for;
  two replays may overlap, since what one has delivered the other may only send again.
  The run `HandoffLostUpdate` is the counterexample inside `mixed`.
* `ClusterImplementsService`: `Spec => ImplementsService`, if every node is a target.
  Initial states map to initial states, and every step is a stutter or one of the
  steps of `ChunkService`; that a success may be promised follows from `AcksHeld` and
  from the files being verified while no file operation failed, that an answer has
  the content it names from `Basic` and from the freedom from collisions.

`ChunkQuorum` satisfies the hypothesis. A crash forgets the operations of a node but
not its files, which is why each of these invariants speaks of files and queues on
the one hand and of the locals of the operations on the other. Lemmas about the
steps (`Acts`: a step moves one thread, or is a crash; `Moves`: what it may do to
files, queues and locals) are shared by all of them.

Used: `NodesAssumption`, `HomeAssumption`, `HashAssumption`, `NilAssumption` (no
answer is the absent one), `PreferenceAssumption` and `QuorumAssumption`.

`RaftProofs`, for every finite set of nodes: `ElectionsAreSafe`,
`Spec => []ElectionSafety`. The invariant `ElectionInv` says that a candidate's
counter is at most the number of peers whose ballot it holds, that whoever was
elected holds the ballots of a majority, that a node's ballot of a term is held by
one candidate, and (`BallotKept`) that a node which gave its ballot remembers it
for the rest of the term or follows the leader of that term. The last disjunct is
what this code needs: `append_entries` overwrites `voted_for_` in the same term,
so a node can forget its vote, but only for a leader that is elected already. Two
majorities meet, by cardinality. The synchrony of the caller is necessary: with votes
that arrive late the theorem is false.

The same module has the log, for every set of commands and every bound on terms and
logs: `RaftTypesKept` (`TypeOK`), `LogsMatch` (`LogMatching`),
`IndexesArePlaces` (`LogIndexed`), `CommitsStayWithin` (`CommitWithinLog`),
`MatchesAreReplicated` (`MatchedIsReplicated`) and the action property `LeadersAppendOnly`
(`LeaderAppendOnly`). Log matching is not inductive. `LogInv` adds to `ElectionInv`
that every entry belongs to a term with an elected leader (`EntryElected`), that no
log has an entry of a leader's term beyond the end of the leader's (`LeaderHolds`),
and that `next_index_` and `match_index_` point into the leader's log and to entries
the follower has (`NextFits`, `MatchFits`). The key step is the lemma `Delivered`:
after an accepted `append_entries` the follower's log *is* the leader's, so a log
changes only by its leader's append or by becoming a copy. `LoopsSplice`
(`SpliceIsTheLoop`) justifies the closed form those proofs use: by induction on the
passes, the first loop has collected the tail of what it has seen (`CollectIsTail`;
this is where `IndexesArePlaces` is needed), and the second one, whose entries adjoin,
truncates at its first pass only (`OneMore`, `AppendEachIsSplice`). Used:
`RaftNodesAssumption`, `RaftBoundsAssumption`.

`MembershipProofs`, for every cluster, configuration and ring: `PeersStayAddressed`
(`PeersAddressed`), `PlansStayClose` (`PlansOverlap`) and the action property
`PlacementMovesWithJoiners` (`OnlyJoinersMove`). The invariant itself is small: nodes
know of nodes only, and file a configured peer under its address. The rest is about
the ring: the walk from a key meets the members in a total order, so a member's place
in a plan is the number of members in front of it, and two plans differ in no more
members than the sets they were made of. `PlansAreTheWalk` (`LocateIsTheWalk`) says
that the loop of `locate` finds these plans, wrapping included. Its loop invariant
(`Stops`): after every pass the loop has met exactly the members nearer to the key
than some distance, which is the number of passes until there are enough of them
and stays where it is from then on; since virtual nodes do not collide, a pass adds
one member at most, and it cannot overshoot. Used: `PeersAssumption`, `RingAssumption`.

`RpcPoolProofs`: `ConnectionsServedOnce` (`ServedOnce`), for every number of nodes,
threads and requests. `ServedOnce` counts places in queues; the invariant says instead
that a queue holds no job twice and holds a job exactly while its connection waits
there, and ties a call under way to a handler that has not moved on. Used:
`PoolAssumption`.

`HttpExchangeProofs`: `HandlersGetTheRequest` (`RequestExact`), `ClientsGetTheReply`
(`ReplyExact`) and `SuccessMeansHandled` (`SuccessIsHandled`), for every request and
reply and every size of `recv`. The invariant: what was received and what is under
way are adjoining segments of what was sent (`Upward`, `Downward`). What the server
then makes of its buffer depends on where the first empty line is; the lemmas
about `Message` show that it is the end of the header, whatever the body holds. Used:
`ExchangeAssumption` (requests and replies are well formed; no header line is empty or
takes the place of the request line) and `NilAssumption`. `BodiesJoin` (`ChunksJoin`),
`BodiesPadded` (`PaddedRight`) and `BodiesFramed` (`WireExact`) apply the theorems of
`CodecProofs` to what a connection has delivered at any time, a sequence of bytes
(`GotSeq`); used as well: `CodecAssumption`, `SizesAssumption`.

`CodecProofs`, for every input and every width, block size and byte:

* `FramesComeBack`: `decode_frame` gives back what `encode_frame` was given if the
  lengths fit into their fields, and refuses the frame if not. A number below
  `Power[n]` survives `Put` and `Get` in `n` bytes, and a larger one comes back as its
  remainder (by induction on the bytes). The header is cut where it was put together.
  If a length was cut to its field, the sum of the lengths that are read cannot be the length of the
  frame.
* `ChunksComeTogether`: the chunks of `chunk_bytes` give back the input; all but the
  last have the configured size. After `i` chunks their concatenation is the prefix of
  the input that ends where chunk `i` ends.
* `PaddingIsStandard`: the blocks given to the compression function are those of the
  standard padding. The state after any `update` depends on all the bytes so far and
  not on the calls they came in (`UpdateGiven`); `digest` then completes whole
  blocks. The bit count wraps at its width, as the length in the padding does.

Used: `CodecAssumption`.

`Iteration` is what the proofs about loops and recursive functions stand on. The
library's induction theorems take an operator and cannot be instantiated by the
provers here; its `WFMin` is about sets, and gives induction for sets of numbers
(`SetInduction`, `BoundedInduction`). That a recursive definition defines a function
(it is a `CHOOSE`) follows from `IterationExists` and `LoopExists`: a loop is a function
from state to state, its runs of length `n` exist and agree for every `n`. A closed
form is then shown to be the loop by induction over the passes.

`ObjectApiProofs`, for every number of nodes and threads, with failing operations and
crashes: `ApiTypesKept` (`TypeOK`), `ReadsStayWhole` (`ReadsWhole`) and `PutsStayAtomic`
(`PutsAtomic`), from `ApiInvariant`. `ApiInv` says that the locals of a handler fit its
phase (`Fits`), that what it has in hand and what the tables hold was asked for
(`Asked`, `Known`), that the tables of the connection and of the file are equal
outside a transaction, and, on a node outside `undone`, that a put inside its transaction is the only one
(`Owned`) and what the open transaction has changed so far (`Written`). `Owned` is
where `BEGIN IMMEDIATE` enters: it fails inside a transaction. The statements that
other threads slip into an open transaction are those of deletes, which is why
`PutsAtomic` excludes objects somebody deletes. Used: `ApiAssumption`,
`ApiBoundsAssumption`.

Two more invariants are built on it, with no hypothesis on threads or faults:

* `MutationsLoggedFirst` (`LoggedFirst`) from `LogInvariant`. `LogInv` says that, outside
  `marred`, the log ends with a newline, both tables of the node are covered by it,
  and so is the object of every put that is past `append`. Both tables only ever
  come from each other or from a put's statement (`Derived`), which is how rollbacks,
  crashes and other threads' statements are dealt with at once. Used as well:
  `TornAssumption`.
* `ObjectsKeepTheirChunks` (`ChunksKept`) from `KeepInvariant`. `KeepInv` says where rows
  and chunk lists come from (`Origins`: the node was asked to store those chunks), that
  outside `mixed` no PUT and DELETE are under way together (`Apart`), that a
  transaction belongs to a put that is inside of it (`Led`), and that, while nothing failed, every row of both
  tables, and every chunk a put has stored so far, is stored or shared with another
  node, and a delete that is about to remove a chunk has found no row with it
  (`ChunksSafe`).

The exceptions in these properties are necessary, as said under "Runs".

Only model-checked: liveness (`HandoffDelivered`, `RequestsAnswered`, `MembersFound`,
`ExchangeEnds`), since the prover handles neither fairness nor `ENABLED`.

## Plan

Done: the storage plane with its abstract specification, membership, Raft, the object
plane with repair, the pool, one connection and the codecs, with the runs and the
theorems above. Every safety property of a passing run has its theorem; what is left,
liveness, is out of the prover's reach. An asynchronous transport for Raft would be the
next thing to model, once the repository has one.

## Not modelled

Configuration (constants here), logging and metrics (output only), the client and the
benchmarks (one `http_request` each), the compression function of SHA-256 (assumed
free of collisions), `become_leader_for_single_node` (only a benchmark calls it),
`elect_leader` and `ConsistentHashRing::remove_node` (tests are
their only callers), the shutdown of the pool and of the workers (the server never
returns from `run`), malformed header lines, and snapshot manifests, which the
documents mention and the code does not have. `PROJECT.json` gives the reason for
each.

## Running

    tlc -workers 2 -config ChunkQuorum.cfg MCChunkCluster
    tlapm ChunkClusterProofs.tla

The module of every run is in `PROJECT.json`.
