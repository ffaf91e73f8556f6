----------------------------- MODULE ObjectApi ------------------------------
(***************************************************************************)
(* The object plane of each node: the PUT, GET and DELETE /v1/objects/,    *)
(* GET /v1/metadata/ and POST /v1/admin/repair/ handlers of                *)
(* server/main.cpp on the threads of the pool, the metadata tables behind  *)
(* them, and the write-ahead log.  /v1/admin/rebalance/ runs the same code *)
(* as repair.                                                              *)
(*                                                                         *)
(* All threads of a node share one SQLite connection.  Every statement is  *)
(* a step; outside a transaction it commits by itself, and inside one it   *)
(* belongs to that transaction whichever thread runs it.  A statement that *)
(* fails may roll back the open transaction, whichever thread opened it.   *)
(*                                                                         *)
(* The chunk service below is the one of ChunkService: a chunk is stored   *)
(* or it is not.  A content is the sequence of its chunks (chunk_bytes     *)
(* cuts at fixed offsets), and its checksum names it uniquely.             *)
(***************************************************************************)
EXTENDS Integers, Sequences, FiniteSets

CONSTANTS
  Nodes,       \* the nodes, each with its own metadata and log
  Workers,     \* pool threads
  Home,        \* Home[w]: the node whose process thread w belongs to
  Keys,        \* <bucket>/<key>
  Checksums,   \* chunks, by name
  Contents,    \* object bodies: nonempty sequences of chunks
  Damaged,     \* chunk data that is not what its name says
  Torn,        \* a log line that is not a whole record
  Nil,         \* "no row", "no value"
  MaxCalls,    \* bound on requests in a behaviour
  MaxFaults,   \* bound on failing file and database operations in a behaviour
  MaxCrashes   \* bound on process crashes in a behaviour

ASSUME ApiAssumption ==
  /\ Home \in [Workers -> Nodes]
  /\ Contents \subseteq Seq(Checksums) \ {<<>>}
  /\ Damaged \notin Checksums
  /\ Nil \notin Contents \cup Keys

ASSUME ApiBoundsAssumption == MaxCalls \in Nat /\ MaxFaults \in Nat /\ MaxCrashes \in Nat

VARIABLES
  committed,   \* committed[n]: the tables in the database file of n
  working,     \* working[n]: the tables as n's connection sees them
  inTx,        \* inTx[n]: the connection is inside a transaction
  changes,     \* changes[n]: sqlite3_changes, 0 or 1 for "some"
  wal,         \* wal[n]: the lines of n's wal.log
  ended,       \* ended[n]: wal.log of n is empty or ends with a newline
  walGood,     \* walGood[n]: out_ of n's log has not failed
  up,          \* up[n]: the process of n serves requests
  stored,      \* the chunks the chunk service can read back
  job,         \* job[w]: the request thread w is handling
  calls, faults, crashes,  \* how much of each bound is used
  requested,   \* history: <<n, k, o>> when n was asked to PUT o to k, or, o = Nil, to DELETE k
  gone,        \* history: <<n, k>> while nothing was PUT since a DELETE was answered 204
  undone,      \* history: the nodes where a failing statement rolled back a transaction
  marred,      \* history: the nodes where an append raced, failed or was cut by a crash
  mixed        \* history: the nodes that handled a PUT and a DELETE at the same time

tables == <<committed, working, inTx, changes>>
log == <<wal, ended, marred>>
vars == <<committed, working, inTx, changes, wal, ended, walGood, up, stored, job,
          calls, faults, crashes, requested, gone, undone, marred, mixed>>

\* The tables objects (its checksum column) and chunks: rows <<position, checksum>>.
Tables == [objects : [Keys -> Contents \cup {Nil}],
           rows : [Keys -> SUBSET ((Nat \ {0}) \X Checksums)]]

\* The rows a content is described by.
RowsOf(o) == {<<i, o[i]>> : i \in DOMAIN o}

Line == [key : Keys, content : Contents \cup {Nil}]

ASSUME TornAssumption == Torn \notin Line

\* The locals of a handler: "content" is the body of a PUT or the checksum read
\* from the objects table, "meta" the chunk list read, "out" the bytes read.
\* "todo" are the objects a repair has listed and not seen yet.
Idle == [pc |-> "idle", op |-> "none", key |-> Nil, content |-> Nil, meta |-> <<>>,
         out |-> <<>>, at |-> 1, todo |-> {}, status |-> "none"]

Job == [pc      : {"idle", "log", "store", "begin", "upsert", "clear", "insert", "commit",
                   "rollback", "select", "rows", "read", "delrows", "delobj", "changes",
                   "count", "remove", "list", "pick", "fetch", "rewrite", "done"},
        op      : {"none", "put", "get", "metadata", "delete", "repair"},
        key     : Keys \cup {Nil},
        content : Contents \cup {Nil},
        meta    : Seq(Checksums),
        out     : Seq(Checksums \cup {Damaged}),
        at      : Nat \ {0},
        todo    : SUBSET Keys,
        status  : {"none", "ok", "error"}]

\* The next loop starts at its first position.  The variant starts one too low.
RewindLow(j, pc) == [j EXCEPT !.pc = pc, !.at = 0]
Rewind(j, pc) == [j EXCEPT !.pc = pc, !.at = 1]

\* The handler has an answer; what it has read stays visible.
Done(j, status) == [j EXCEPT !.pc = "done", !.status = status]

TypeOK ==
  /\ committed \in [Nodes -> Tables]
  /\ working \in [Nodes -> Tables]
  /\ inTx \in [Nodes -> BOOLEAN]
  /\ changes \in [Nodes -> {0, 1}]
  /\ wal \in [Nodes -> Seq(Line \cup {Torn})]
  /\ ended \in [Nodes -> BOOLEAN]
  /\ walGood \in [Nodes -> BOOLEAN]
  /\ up \in [Nodes -> BOOLEAN]
  /\ stored \subseteq Checksums
  /\ job \in [Workers -> Job]
  /\ calls \in Nat /\ faults \in Nat /\ crashes \in Nat
  /\ requested \subseteq Nodes \X Keys \X (Contents \cup {Nil})
  /\ gone \subseteq Nodes \X Keys
  /\ undone \subseteq Nodes /\ marred \subseteq Nodes /\ mixed \subseteq Nodes

NoTables == [objects |-> [k \in Keys |-> Nil], rows |-> [k \in Keys |-> {}]]

Init ==
  /\ committed = [n \in Nodes |-> NoTables]
  /\ working = [n \in Nodes |-> NoTables]
  /\ inTx = [n \in Nodes |-> FALSE]
  /\ changes = [n \in Nodes |-> 0]
  /\ wal = [n \in Nodes |-> <<>>]
  /\ ended = [n \in Nodes |-> TRUE]
  /\ walGood = [n \in Nodes |-> TRUE]
  /\ up = [n \in Nodes |-> TRUE]
  /\ stored = {}
  /\ job = [w \in Workers |-> Idle]
  /\ calls = 0 /\ faults = 0 /\ crashes = 0
  /\ requested = {}
  /\ gone = {}
  /\ undone = {} /\ marred = {} /\ mixed = {}

Goto(w, j) == job' = [job EXCEPT ![w] = j]

\* One more failing file or database operation.
Fault == faults < MaxFaults /\ faults' = faults + 1

-----------------------------------------------------------------------------
(* The SQLite connection (external) *)

\* A statement by any thread of n: it takes effect in the open transaction, or
\* commits by itself.  "some" is 0 when it changed no row.
Execute(n, t, some) ==
  /\ working' = [working EXCEPT ![n] = t]
  /\ committed' = IF inTx[n] THEN committed ELSE [committed EXCEPT ![n] = t]
  /\ changes' = [changes EXCEPT ![n] = some]
  /\ UNCHANGED inTx

WithObject(n, k, o) == [working[n] EXCEPT !.objects[k] = o]
WithRows(n, k, r) == [working[n] EXCEPT !.rows[k] = r]

\* BEGIN IMMEDIATE fails when the connection is in a transaction already.  The
\* variant leaves every statement to commit by itself.
BeginNothing(n) == ~inTx[n] /\ UNCHANGED <<committed, working, inTx, changes>>
BeginImmediate(n) ==
  /\ ~inTx[n]
  /\ inTx' = [inTx EXCEPT ![n] = TRUE]
  /\ UNCHANGED <<committed, working, changes>>

CommitTx(n) ==
  /\ committed' = [committed EXCEPT ![n] = working[n]]
  /\ inTx' = [inTx EXCEPT ![n] = FALSE]
  /\ UNCHANGED <<working, changes>>

RollbackTx(n) ==
  /\ working' = [working EXCEPT ![n] = committed[n]]
  /\ inTx' = [inTx EXCEPT ![n] = FALSE]
  /\ UNCHANGED <<committed, changes>>

\* A statement of any thread of n fails.  SQLite undoes the statement alone, or
\* (an I/O error, no memory, a full disk) the whole transaction that is open.
Failed(n) ==
  /\ Fault
  /\ \/ UNCHANGED <<tables, undone>>
     \/ inTx[n] /\ RollbackTx(n) /\ undone' = undone \cup {n}

-----------------------------------------------------------------------------
(* Requests *)

Call == calls < MaxCalls /\ calls' = calls + 1

Accept(w, op, pc, k, o) ==
  /\ job[w] = Idle
  /\ up[Home[w]]
  /\ Goto(w, [Idle EXCEPT !.pc = pc, !.op = op, !.key = k, !.content = o])
  /\ UNCHANGED <<tables, log, walGood, up, stored, faults, crashes, undone>>

\* Requests of kind op that n is handling.
Under(n, op) == {w \in Workers : Home[w] = n /\ job[w].op = op /\ job[w].pc # "done"}

CallPut(w, k, o) ==
  /\ Accept(w, "put", "log", k, o)
  /\ Call
  /\ requested' = requested \cup {<<Home[w], k, o>>}
  /\ gone' = gone \ {<<Home[w], k>>}
  /\ mixed' = IF Under(Home[w], "delete") = {} THEN mixed ELSE mixed \cup {Home[w]}

CallGet(w, k) ==
  /\ Accept(w, "get", "select", k, Nil)
  /\ Call
  /\ UNCHANGED <<requested, gone, mixed>>

CallMetadata(w, k) ==
  /\ Accept(w, "metadata", "select", k, Nil)
  /\ Call
  /\ UNCHANGED <<requested, gone, mixed>>

CallRepair(w) ==
  /\ Accept(w, "repair", "list", Nil, Nil)
  /\ Call
  /\ UNCHANGED <<requested, gone, mixed>>

CallDelete(w, k) ==
  /\ Accept(w, "delete", "select", k, Nil)
  /\ Call
  /\ requested' = requested \cup {<<Home[w], k, Nil>>}
  /\ mixed' = IF Under(Home[w], "put") = {} THEN mixed ELSE mixed \cup {Home[w]}
  /\ UNCHANGED gone

\* The caller gets its answer and the thread is free again.
Return(w) ==
  /\ job[w].pc = "done"
  /\ Goto(w, Idle)
  /\ UNCHANGED <<tables, log, walGood, up, stored, calls, faults, crashes, requested, gone,
                 undone, mixed>>

-----------------------------------------------------------------------------
(* WriteAheadLog::append *)

\* append takes no lock: two threads inside it write to the same stream.
Racing(w) == \E v \in Workers \ {w} : Home[v] = Home[w] /\ job[v].pc = "log"

LineOf(j) == [key |-> j.key, content |-> IF j.op = "put" THEN j.content ELSE Nil]

\* The file after text has been written that makes up a line: it goes below the
\* last line, or is glued to one that has no newline.  The variant drops it.
LoggedNothing(lines, fresh, line) == lines
Logged(lines, fresh, line) ==
  IF fresh THEN Append(lines, line) ELSE [lines EXCEPT ![Len(lines)] = Torn]

\* "newline" tells whether the text ends with one.
WriteLine(n, line, newline) ==
  /\ wal' = [wal EXCEPT ![n] = Logged(@, ended[n], line)]
  /\ ended' = [ended EXCEPT ![n] = newline]

\* A record of which only the beginning reaches the file: nothing, a part of it,
\* or all of it but the newline.
CutAppend(n, line) ==
  /\ \/ UNCHANGED <<wal, ended>>
     \/ \E l \in {Torn, line} : WriteLine(n, l, FALSE)
  /\ marred' = marred \cup {n}

\* The handler stops when append reports an error.  Threads that race may cut or
\* mix their records and notice nothing; a write that fails may have written the
\* beginning of the record, and the stream refuses every later append.
Log(w) ==
  LET n == Home[w]
      j == job[w] IN
  /\ j.pc = "log"
  /\ \/ /\ walGood[n]
        /\ \/ /\ WriteLine(n, LineOf(j), TRUE)
              /\ marred' = IF Racing(w) THEN marred \cup {n} ELSE marred
           \/ Racing(w) /\ CutAppend(n, LineOf(j))
           \/ Racing(w) /\ WriteLine(n, Torn, TRUE) /\ marred' = marred \cup {n}
        /\ Goto(w, [j EXCEPT !.pc = IF j.op = "put" THEN "store" ELSE "delrows"])
        /\ UNCHANGED <<walGood, faults>>
     \/ /\ walGood[n]
        /\ Fault
        /\ CutAppend(n, LineOf(j))
        /\ walGood' = [walGood EXCEPT ![n] = FALSE]
        /\ Goto(w, Done(j, "error"))
     \/ /\ ~walGood[n]
        /\ Goto(w, Done(j, "error"))
        /\ UNCHANGED <<log, walGood, faults>>
  /\ UNCHANGED <<tables, up, stored, calls, crashes, requested, gone, undone, mixed>>

\* replay: one line that is not a record fails the whole replay.
WalReplays(n) == \A i \in DOMAIN wal[n] : wal[n][i] # Torn

-----------------------------------------------------------------------------
(* PUT: chunks.put of every part, then MetadataStore::put_object *)

\* Without a write quorum the request fails, and copies may stay behind.
StoreChunk(w) ==
  LET j == job[w]
      c == j.content[j.at] IN
  /\ j.pc = "store"
  /\ \/ /\ stored' = stored \cup {c}
        /\ Goto(w, IF j.at = Len(j.content) THEN Rewind(j, "begin")
                                            ELSE [j EXCEPT !.at = j.at + 1])
     \/ /\ stored' \in {stored, stored \cup {c}}
        /\ Goto(w, Done(j, "error"))
  /\ UNCHANGED <<tables, log, walGood, up, calls, faults, crashes, requested, gone, undone, mixed>>

PutBegin(w) ==
  LET n == Home[w]
      j == job[w] IN
  /\ j.pc = "begin"
  /\ \/ BeginImmediate(n) /\ Goto(w, [j EXCEPT !.pc = "upsert"]) /\ UNCHANGED faults
     \/ inTx[n] /\ Goto(w, Done(j, "error")) /\ UNCHANGED <<tables, faults>>
     \/ Fault /\ Goto(w, Done(j, "error")) /\ UNCHANGED tables
  /\ UNCHANGED <<log, walGood, up, stored, calls, crashes, requested, gone, undone, mixed>>

\* INSERT OR REPLACE INTO objects
PutUpsert(w) ==
  LET n == Home[w]
      j == job[w] IN
  /\ j.pc = "upsert"
  /\ \/ /\ Execute(n, WithObject(n, j.key, j.content), 1)
        /\ Goto(w, [j EXCEPT !.pc = "clear"])
        /\ UNCHANGED <<faults, undone>>
     \/ Failed(n) /\ Goto(w, [j EXCEPT !.pc = "rollback"])
  /\ UNCHANGED <<log, walGood, up, stored, calls, crashes, requested, gone, mixed>>

\* DELETE FROM chunks; nobody looks at its result.
DeleteRowsOf(w, next) ==
  LET n == Home[w]
      k == job[w].key IN
  /\ \/ /\ Execute(n, WithRows(n, k, {}), IF working[n].rows[k] = {} THEN 0 ELSE 1)
        /\ UNCHANGED <<faults, undone>>
     \/ Failed(n)
  /\ Goto(w, [job[w] EXCEPT !.pc = next])
  /\ UNCHANGED <<log, walGood, up, stored, calls, crashes, requested, gone, mixed>>

PutClear(w) == job[w].pc = "clear" /\ DeleteRowsOf(w, "insert")

\* INSERT INTO chunks at one position; a row that is there already is a
\* violated primary key.
PutInsert(w) ==
  LET n == Home[w]
      j == job[w]
      rows == working[n].rows[j.key] IN
  /\ j.pc = "insert"
  /\ \/ /\ \A r \in rows : r[1] # j.at
        /\ Execute(n, WithRows(n, j.key, rows \cup {<<j.at, j.content[j.at]>>}), 1)
        /\ Goto(w, IF j.at = Len(j.content) THEN [j EXCEPT !.pc = "commit"]
                                            ELSE [j EXCEPT !.at = j.at + 1])
        /\ UNCHANGED <<faults, undone>>
     \/ /\ \E r \in rows : r[1] = j.at
        /\ Goto(w, [j EXCEPT !.pc = "rollback"])
        /\ UNCHANGED <<tables, faults, undone>>
     \/ Failed(n) /\ Goto(w, [j EXCEPT !.pc = "rollback"])
  /\ UNCHANGED <<log, walGood, up, stored, calls, crashes, requested, gone, mixed>>

\* COMMIT is refused when there is no transaction; when it fails it leaves the
\* transaction open or rolls it back.
PutCommit(w) ==
  LET n == Home[w]
      j == job[w] IN
  /\ j.pc = "commit"
  /\ \/ inTx[n] /\ CommitTx(n) /\ Goto(w, Done(j, "ok")) /\ UNCHANGED faults
     \/ ~inTx[n] /\ Goto(w, Done(j, "error")) /\ UNCHANGED <<tables, faults>>
     \/ Fault /\ Goto(w, Done(j, "error")) /\ (UNCHANGED tables \/ RollbackTx(n))
  /\ UNCHANGED <<log, walGood, up, stored, calls, crashes, requested, gone, undone, mixed>>

\* ROLLBACK ends the open transaction, if there is one.
PutRollback(w) ==
  /\ job[w].pc = "rollback"
  /\ RollbackTx(Home[w])
  /\ Goto(w, Done(job[w], "error"))
  /\ UNCHANGED <<log, walGood, up, stored, calls, faults, crashes, requested, gone, undone, mixed>>

-----------------------------------------------------------------------------
(* MetadataStore::get_object, two SELECTs, and the rest of GET *)

\* An object that is not there, or cannot be read: a repair passes over it.
Missed(j) == IF j.op = "repair" THEN [j EXCEPT !.pc = "pick"] ELSE Done(j, "error")

\* What a handler does with the metadata it has read.
Described(j) ==
  CASE j.op = "get"      -> Rewind(j, "read")
    [] j.op = "metadata" -> Done(j, "ok")
    [] j.op = "delete"   -> Rewind(j, "log")
    [] j.op = "repair"   -> Rewind(j, "fetch")

SelectObject(w) ==
  LET n == Home[w]
      j == job[w]
      o == working[n].objects[j.key] IN
  /\ j.pc = "select"
  /\ \/ /\ Goto(w, IF o = Nil THEN Missed(j) ELSE [j EXCEPT !.pc = "rows", !.content = o])
        /\ UNCHANGED <<tables, faults, undone>>
     \/ Failed(n) /\ Goto(w, Missed(j))
  /\ UNCHANGED <<log, walGood, up, stored, calls, crashes, requested, gone, mixed>>

\* One sqlite3_step of the SELECT over the chunk rows, in order of position: the
\* first row behind the last one read.  A step that fails is taken for the end.
SelectRow(w) ==
  LET n == Home[w]
      j == job[w]
      later == {r \in working[n].rows[j.key] : r[1] >= j.at} IN
  /\ j.pc = "rows"
  /\ \/ /\ \E r \in later :
             /\ \A q \in later : r[1] <= q[1]
             /\ Goto(w, [j EXCEPT !.at = r[1] + 1, !.meta = Append(j.meta, r[2])])
        /\ UNCHANGED <<tables, faults, undone>>
     \/ later = {} /\ Goto(w, Described(j)) /\ UNCHANGED <<tables, faults, undone>>
     \/ Failed(n) /\ Goto(w, Described(j))
  /\ UNCHANGED <<log, walGood, up, stored, calls, crashes, requested, gone, mixed>>

\* chunks.get: an error, the chunk (a cache may still know one that was
\* removed), or data that was cut short on the way.
ReadChunk(w) ==
  LET j == job[w] IN
  /\ j.pc = "read"
  /\ j.at <= Len(j.meta)
  /\ \/ Goto(w, Done(j, "error"))
     \/ \E r \in {j.meta[j.at], Damaged} :
          Goto(w, [j EXCEPT !.at = j.at + 1, !.out = Append(j.out, r)])
  /\ UNCHANGED <<tables, log, walGood, up, stored, calls, faults, crashes, requested, gone,
                 undone, mixed>>

\* Sha256::hex(out) == meta.checksum; the variant compares nothing.
MatchesAnything(out, content) == TRUE
Matches(out, content) == out = content

GetReturn(w) ==
  LET j == job[w] IN
  /\ j.pc = "read"
  /\ j.at > Len(j.meta)
  /\ Goto(w, Done(j, IF Matches(j.out, j.content) THEN "ok" ELSE "error"))
  /\ UNCHANGED <<tables, log, walGood, up, stored, calls, faults, crashes, requested, gone,
                 undone, mixed>>

-----------------------------------------------------------------------------
(* MetadataStore::delete_object and the rest of DELETE *)

DeleteRows(w) == job[w].pc = "delrows" /\ DeleteRowsOf(w, "delobj")

\* DELETE FROM objects; nobody looks at its result.
DeleteObject(w) ==
  LET n == Home[w]
      j == job[w] IN
  /\ j.pc = "delobj"
  /\ \/ /\ Execute(n, WithObject(n, j.key, Nil),
                   IF working[n].objects[j.key] = Nil THEN 0 ELSE 1)
        /\ UNCHANGED <<faults, undone>>
     \/ Failed(n)
  /\ Goto(w, [j EXCEPT !.pc = "changes"])
  /\ UNCHANGED <<log, walGood, up, stored, calls, crashes, requested, gone, mixed>>

\* sqlite3_changes(db_) tells whether the answer is "object not found".
DeleteChanges(w) ==
  LET j == job[w] IN
  /\ j.pc = "changes"
  /\ Goto(w, IF changes[Home[w]] = 0 THEN Done(j, "error") ELSE [j EXCEPT !.pc = "count"])
  /\ UNCHANGED <<tables, log, walGood, up, stored, calls, faults, crashes, requested, gone,
                 undone, mixed>>

\* SELECT COUNT(*) FROM chunks WHERE checksum=? is not 0.  The variant looks at
\* the first chunk of an object only.
ReferencedFirst(n, c) == \E k \in Keys : <<1, c>> \in working[n].rows[k]
Referenced(n, c) == \E k \in Keys : \E r \in working[n].rows[k] : r[2] = c

\* chunk_ref_count takes a count that cannot be read for 0; chunks.remove does
\* nothing while there are references.
DeleteCount(w) ==
  LET n == Home[w]
      j == job[w]
      kept == [j EXCEPT !.at = j.at + 1]
      dropped == [j EXCEPT !.pc = "remove"] IN
  /\ j.pc = "count"
  /\ j.at <= Len(j.meta)
  /\ \/ /\ Goto(w, IF Referenced(n, j.meta[j.at]) THEN kept ELSE dropped)
        /\ UNCHANGED <<tables, faults, undone>>
     \/ Failed(n) /\ Goto(w, dropped)
  /\ UNCHANGED <<log, walGood, up, stored, calls, crashes, requested, gone, mixed>>

\* chunks.remove(checksum, 0); nobody looks at its result.
DeleteChunk(w) ==
  LET j == job[w] IN
  /\ j.pc = "remove"
  /\ stored' \in {stored, stored \ {j.meta[j.at]}}
  /\ Goto(w, [j EXCEPT !.pc = "count", !.at = j.at + 1])
  /\ UNCHANGED <<tables, log, walGood, up, calls, faults, crashes, requested, gone, undone, mixed>>

\* A PUT of k is being handled on n.
Putting(n, k) == \E w \in Workers : Home[w] = n /\ job[w].op = "put" /\ job[w].key = k

DeleteReturn(w) ==
  LET j == job[w]
      p == <<Home[w], j.key>> IN
  /\ j.pc = "count"
  /\ j.at > Len(j.meta)
  /\ Goto(w, Done(j, "ok"))
  /\ gone' = IF Putting(Home[w], j.key) THEN gone ELSE gone \cup {p}
  /\ UNCHANGED <<tables, log, walGood, up, stored, calls, faults, crashes, requested, undone,
                 mixed>>

-----------------------------------------------------------------------------
(* RepairWorker::repair_bucket *)

\* MetadataStore::list_objects; a step that fails ends the list.
ListObjects(w) ==
  LET n == Home[w]
      there == {k \in Keys : working[n].objects[k] # Nil} IN
  /\ job[w].pc = "list"
  /\ \E listed \in SUBSET there :
       /\ \/ listed = there /\ UNCHANGED <<tables, faults, undone>>
          \/ Failed(n)
       /\ Goto(w, [job[w] EXCEPT !.pc = "pick", !.todo = listed])
  /\ UNCHANGED <<log, walGood, up, stored, calls, crashes, requested, gone, mixed>>

\* The next object, with locals of its own.
RepairNext(w) ==
  LET j == job[w] IN
  /\ j.pc = "pick"
  /\ \/ \E k \in j.todo :
          Goto(w, [Idle EXCEPT !.pc = "select", !.op = j.op, !.key = k, !.todo = j.todo \ {k}])
     \/ j.todo = {} /\ Goto(w, Done(j, "ok"))
  /\ UNCHANGED <<tables, log, walGood, up, stored, calls, faults, crashes, requested, gone,
                 undone, mixed>>

\* chunks_.get; a chunk that cannot be read is passed over.
RepairRead(w) ==
  LET j == job[w] IN
  /\ j.pc = "fetch"
  /\ \/ j.at > Len(j.meta) /\ Goto(w, [j EXCEPT !.pc = "pick"])
     \/ /\ j.at <= Len(j.meta)
        /\ \/ Goto(w, [j EXCEPT !.at = j.at + 1])
           \/ \E r \in {j.meta[j.at], Damaged} :
                Goto(w, [j EXCEPT !.pc = "rewrite", !.out = <<r>>])
  /\ UNCHANGED <<tables, log, walGood, up, stored, calls, faults, crashes, requested, gone,
                 undone, mixed>>

\* chunks_.put of what was read: damaged data has a name of its own, and a put
\* that fails may have stored the chunk.
RepairWrite(w) ==
  LET j == job[w] IN
  /\ j.pc = "rewrite"
  /\ stored' \in {stored, stored \cup {c \in Checksums : c = j.out[1]}}
  /\ Goto(w, [j EXCEPT !.pc = "fetch", !.at = j.at + 1, !.out = <<>>])
  /\ UNCHANGED <<tables, log, walGood, up, calls, faults, crashes, requested, gone, undone, mixed>>

-----------------------------------------------------------------------------
(* The process *)

\* The process of n dies: what its connection had not committed is lost, and a
\* record that was being appended may be cut.
Crash(n) ==
  /\ up[n]
  /\ crashes < MaxCrashes
  /\ crashes' = crashes + 1
  /\ up' = [up EXCEPT ![n] = FALSE]
  /\ working' = [working EXCEPT ![n] = committed[n]]
  /\ inTx' = [inTx EXCEPT ![n] = FALSE]
  /\ changes' = [changes EXCEPT ![n] = 0]
  /\ \/ UNCHANGED log
     \/ /\ walGood[n]
        /\ \E w \in Workers : Home[w] = n /\ job[w].pc = "log" /\ CutAppend(n, LineOf(job[w]))
  /\ job' = [w \in Workers |-> IF Home[w] = n THEN Idle ELSE job[w]]
  /\ UNCHANGED <<committed, walGood, stored, calls, faults, requested, gone, undone, mixed>>

\* main: open the metadata and the log, replay the log, and serve; the process
\* exits when the replay fails.
Restart(n) ==
  /\ ~up[n]
  /\ WalReplays(n)
  /\ up' = [up EXCEPT ![n] = TRUE]
  /\ walGood' = [walGood EXCEPT ![n] = TRUE]
  /\ UNCHANGED <<tables, log, stored, job, calls, faults, crashes, requested, gone, undone, mixed>>

-----------------------------------------------------------------------------

Step(w) ==
  \/ Log(w) \/ StoreChunk(w) \/ PutBegin(w) \/ PutUpsert(w) \/ PutClear(w) \/ PutInsert(w)
  \/ PutCommit(w) \/ PutRollback(w)
  \/ SelectObject(w) \/ SelectRow(w) \/ ReadChunk(w) \/ GetReturn(w)
  \/ DeleteRows(w) \/ DeleteObject(w) \/ DeleteChanges(w) \/ DeleteCount(w) \/ DeleteChunk(w)
  \/ DeleteReturn(w)
  \/ ListObjects(w) \/ RepairNext(w) \/ RepairRead(w) \/ RepairWrite(w)
  \/ Return(w)

Next ==
  \/ \E w \in Workers :
       \/ \E k \in Keys : \/ CallGet(w, k) \/ CallMetadata(w, k) \/ CallDelete(w, k)
                         \/ \E o \in Contents : CallPut(w, k, o)
       \/ CallRepair(w)
       \/ Step(w)
  \/ \E n \in Nodes : Crash(n) \/ Restart(n)

Spec == Init /\ [][Next]_vars

-----------------------------------------------------------------------------
(* Properties *)

\* A GET that answers 200 returns a content somebody PUT under that key on that
\* node, although the object row and the chunk rows are read in several
\* statements between which other threads replace and delete them.
ReadsWhole ==
  \A w \in Workers :
     LET j == job[w] IN
     j.pc = "done" /\ j.op = "get" /\ j.status = "ok"
       => <<Home[w], j.key, j.out>> \in requested

\* A PUT replaces the metadata of an object as a whole: whatever the other
\* threads, refused and failing statements and crashes do, the database file
\* never holds the checksum of one content and the chunks of another, for an
\* object that nobody deletes, on a node where no failing statement made SQLite
\* roll back the transaction that all threads share.
PutsAtomic ==
  \A n \in Nodes \ undone, k \in Keys :
     LET o == committed[n].objects[k] IN
     o # Nil /\ <<n, k, Nil>> \notin requested => committed[n].rows[k] = RowsOf(o)

\* The chunks an object refers to are stored: dedup must not cost an object its
\* chunks when another object that shares them is deleted.
NoDangling ==
  \A n \in Nodes, k \in Keys : \A r \in committed[n].rows[k] : r[2] \in stored

\* Another node was asked to store the chunk too: its deletes do not see n's rows.
Shared(n, c) ==
  \E q \in requested : q[1] # n /\ q[3] # Nil /\ \E i \in DOMAIN q[3] : q[3][i] = c

\* Deletes keep the chunks that the remaining objects refer to, however PUTs
\* overlap with PUTs, DELETEs with DELETEs, and both with readers, repairs and
\* crashes: an object can only miss a chunk that other nodes store too, or where
\* a PUT and a DELETE overlapped, or after a failing operation.
ChunksKept ==
  faults = 0 => \A n \in Nodes \ mixed, k \in Keys : \A r \in committed[n].rows[k] :
                   r[2] \in stored \/ Shared(n, r[2])

\* "Object mutations are logged before metadata commit": the log of n has a
\* whole record of every object in its tables, whatever fails or dies later, if
\* no append to it raced with another one, failed or was cut by a crash.
LoggedFirst ==
  \A n \in Nodes \ marred, k \in Keys :
     LET o == committed[n].objects[k] IN
     o # Nil => \E i \in DOMAIN wal[n] : wal[n][i] = [key |-> k, content |-> o]

\* "Returns `204 No Content` when deleted": an object that was deleted stays
\* deleted until somebody PUTs it again.
DeletedStaysDeleted == \A p \in gone : working[p[1]].objects[p[2]] = Nil
=============================================================================
