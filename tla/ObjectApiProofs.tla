-------------------------- MODULE ObjectApiProofs --------------------------
(***************************************************************************)
(* What the object handlers keep true of the metadata tables and the log,  *)
(* for every number of nodes, threads, keys and contents.                  *)
(*                                                                         *)
(* The threads of a node share one connection.  The argument for puts is   *)
(* that a put inside its transaction is the only one on its node (Owned):  *)
(* BEGIN fails while a transaction is open, and one that a failed COMMIT   *)
(* leaves open is never committed.  What other threads write into it are   *)
(* deletes, which have been asked for.  All of it ends on a node where a   *)
(* failing statement has rolled the transaction back under the put.        *)
(*                                                                         *)
(* The log (LogInv) and the chunks (KeepInv) each have an invariant of     *)
(* their own.  Both rest on where the contents of the tables come from     *)
(* (Derived): the old tables, or a put that is at the statement.           *)
(***************************************************************************)
EXTENDS ObjectApi, SequenceTheorems, TLAPS

-----------------------------------------------------------------------------
(* Jobs *)

Phases == {"idle", "log", "store", "begin", "upsert", "clear", "insert", "commit",
           "rollback", "select", "rows", "read", "delrows", "delobj", "changes",
           "count", "remove", "list", "pick", "fetch", "rewrite", "done"}

Statuses == {"none", "ok", "error"}

Locals == {"pc", "op", "key", "content", "meta", "out", "at", "todo", "status"}

\* r differs from j in the locals of S at most.
Alike(r, j, S) == \A f \in Locals \ S : r[f] = j[f]

\* The phases a put is inside its transaction.
TxPhases == {"upsert", "clear", "insert", "commit", "rollback"}

\* Which handler is in which phase.
PhasesOf ==
  [none     |-> {"idle"},
   put      |-> {"log", "store", "begin", "done"} \cup TxPhases,
   get      |-> {"select", "rows", "read", "done"},
   metadata |-> {"select", "rows", "done"},
   delete   |-> {"select", "rows", "log", "delrows", "delobj", "changes", "count", "remove",
                 "done"},
   repair   |-> {"list", "pick", "select", "rows", "fetch", "rewrite", "done"}]

\* The locals of a handler fit its phase.
Fits(j) ==
  /\ j.pc \in PhasesOf[j.op]
  /\ j.op \notin {"none", "repair"} \/ j.pc \in {"select", "rows"} => j.key \in Keys
  /\ j.op = "put" \/ j.pc \in {"rows", "read"} => j.content \in Contents
  /\ j.pc \in {"log", "begin", "upsert", "clear"} => j.at = 1
  /\ j.pc \in {"store", "insert"} => j.at <= Len(j.content)
  /\ j.pc = "remove" => j.at <= Len(j.meta)
  /\ j.pc = "done" /\ j.op = "get" /\ j.status = "ok" => j.out = j.content /\ j.content \in Contents

\* What every handler's locals are.
LEMMA JobFields ==
  ASSUME NEW j \in Job
  PROVE  /\ j.pc \in Phases /\ j.key \in Keys \cup {Nil} /\ j.content \in Contents \cup {Nil}
         /\ j.op \in {"none", "put", "get", "metadata", "delete", "repair"}
         /\ j.meta \in Seq(Checksums) /\ j.out \in Seq(Checksums \cup {Damaged})
         /\ j.at \in Nat \ {0} /\ j.todo \in SUBSET Keys
         /\ j.status \in {"none", "ok", "error"}
BY DEF Job, Phases

\* The assignments the handlers make to their locals, and what they leave.
WithPc(j, p) == [j EXCEPT !.pc = p]
WithAt(j, x) == [j EXCEPT !.at = x]
WithPcAt(j, p, x) == [j EXCEPT !.pc = p, !.at = x]
WithPcStatus(j, p, s) == [j EXCEPT !.pc = p, !.status = s]
WithPcContent(j, p, o) == [j EXCEPT !.pc = p, !.content = o]
WithAtMeta(j, x, m) == [j EXCEPT !.at = x, !.meta = m]
WithAtOut(j, x, u) == [j EXCEPT !.at = x, !.out = u]
WithPcTodo(j, p, T) == [j EXCEPT !.pc = p, !.todo = T]
WithPcOut(j, p, u) == [j EXCEPT !.pc = p, !.out = u]
WithPcAtOut(j, p, x, u) == [j EXCEPT !.pc = p, !.at = x, !.out = u]

\* Assigning pc.
LEMMA PcUpdate ==
  ASSUME NEW j \in Job, NEW p \in Phases
  PROVE  /\ WithPc(j, p) \in Job
         /\ Alike(WithPc(j, p), j, {"pc"})
         /\ WithPc(j, p).pc = p
<1>1. WithPc(j, p) \in Job
  BY DEF Job, Phases, Statuses, WithPc
<1>2. Alike(WithPc(j, p), j, {"pc"})
  BY DEF Job, Alike, Locals, WithPc
<1>3. WithPc(j, p).pc = p
  BY DEF Job, WithPc
<1> QED BY <1>1, <1>2, <1>3

\* Assigning at.
LEMMA AtUpdate ==
  ASSUME NEW j \in Job, NEW x \in Nat \ {0}
  PROVE  /\ WithAt(j, x) \in Job
         /\ Alike(WithAt(j, x), j, {"at"})
         /\ WithAt(j, x).at = x
<1>1. WithAt(j, x) \in Job
  BY DEF Job, Phases, Statuses, WithAt
<1>2. Alike(WithAt(j, x), j, {"at"})
  BY DEF Job, Alike, Locals, WithAt
<1>3. WithAt(j, x).at = x
  BY DEF Job, WithAt
<1> QED BY <1>1, <1>2, <1>3

\* Assigning pc, at.
LEMMA PcAtUpdate ==
  ASSUME NEW j \in Job, NEW p \in Phases, NEW x \in Nat \ {0}
  PROVE  /\ WithPcAt(j, p, x) \in Job
         /\ Alike(WithPcAt(j, p, x), j, {"pc", "at"})
         /\ WithPcAt(j, p, x).pc = p /\ WithPcAt(j, p, x).at = x
<1>1. WithPcAt(j, p, x) \in Job
  BY DEF Job, Phases, Statuses, WithPcAt
<1>2. Alike(WithPcAt(j, p, x), j, {"pc", "at"})
  BY DEF Job, Alike, Locals, WithPcAt
<1>3. WithPcAt(j, p, x).pc = p /\ WithPcAt(j, p, x).at = x
  BY DEF Job, WithPcAt
<1> QED BY <1>1, <1>2, <1>3

\* Assigning pc, status.
LEMMA PcStatusUpdate ==
  ASSUME NEW j \in Job, NEW p \in Phases, NEW s \in Statuses
  PROVE  /\ WithPcStatus(j, p, s) \in Job
         /\ Alike(WithPcStatus(j, p, s), j, {"pc", "status"})
         /\ WithPcStatus(j, p, s).pc = p /\ WithPcStatus(j, p, s).status = s
<1>1. WithPcStatus(j, p, s) \in Job
  BY DEF Job, Phases, Statuses, WithPcStatus
<1>2. Alike(WithPcStatus(j, p, s), j, {"pc", "status"})
  BY DEF Job, Alike, Locals, WithPcStatus
<1>3. WithPcStatus(j, p, s).pc = p /\ WithPcStatus(j, p, s).status = s
  BY DEF Job, WithPcStatus
<1> QED BY <1>1, <1>2, <1>3

\* Assigning pc, content.
LEMMA PcContentUpdate ==
  ASSUME NEW j \in Job, NEW p \in Phases, NEW o \in Contents \cup {Nil}
  PROVE  /\ WithPcContent(j, p, o) \in Job
         /\ Alike(WithPcContent(j, p, o), j, {"pc", "content"})
         /\ WithPcContent(j, p, o).pc = p /\ WithPcContent(j, p, o).content = o
<1>1. WithPcContent(j, p, o) \in Job
  BY DEF Job, Phases, Statuses, WithPcContent
<1>2. Alike(WithPcContent(j, p, o), j, {"pc", "content"})
  BY DEF Job, Alike, Locals, WithPcContent
<1>3. WithPcContent(j, p, o).pc = p /\ WithPcContent(j, p, o).content = o
  BY DEF Job, WithPcContent
<1> QED BY <1>1, <1>2, <1>3

\* Assigning at, meta.
LEMMA AtMetaUpdate ==
  ASSUME NEW j \in Job, NEW x \in Nat \ {0}, NEW m \in Seq(Checksums)
  PROVE  /\ WithAtMeta(j, x, m) \in Job
         /\ Alike(WithAtMeta(j, x, m), j, {"at", "meta"})
         /\ WithAtMeta(j, x, m).at = x /\ WithAtMeta(j, x, m).meta = m
<1>1. WithAtMeta(j, x, m) \in Job
  BY DEF Job, Phases, Statuses, WithAtMeta
<1>2. Alike(WithAtMeta(j, x, m), j, {"at", "meta"})
  BY DEF Job, Alike, Locals, WithAtMeta
<1>3. WithAtMeta(j, x, m).at = x /\ WithAtMeta(j, x, m).meta = m
  BY DEF Job, WithAtMeta
<1> QED BY <1>1, <1>2, <1>3

\* Assigning at, out.
LEMMA AtOutUpdate ==
  ASSUME NEW j \in Job, NEW x \in Nat \ {0}, NEW u \in Seq(Checksums \cup {Damaged})
  PROVE  /\ WithAtOut(j, x, u) \in Job
         /\ Alike(WithAtOut(j, x, u), j, {"at", "out"})
         /\ WithAtOut(j, x, u).at = x /\ WithAtOut(j, x, u).out = u
<1>1. WithAtOut(j, x, u) \in Job
  BY DEF Job, Phases, Statuses, WithAtOut
<1>2. Alike(WithAtOut(j, x, u), j, {"at", "out"})
  BY DEF Job, Alike, Locals, WithAtOut
<1>3. WithAtOut(j, x, u).at = x /\ WithAtOut(j, x, u).out = u
  BY DEF Job, WithAtOut
<1> QED BY <1>1, <1>2, <1>3

\* Assigning pc, todo.
LEMMA PcTodoUpdate ==
  ASSUME NEW j \in Job, NEW p \in Phases, NEW T \in SUBSET Keys
  PROVE  /\ WithPcTodo(j, p, T) \in Job
         /\ Alike(WithPcTodo(j, p, T), j, {"pc", "todo"})
         /\ WithPcTodo(j, p, T).pc = p /\ WithPcTodo(j, p, T).todo = T
<1>1. WithPcTodo(j, p, T) \in Job
  BY DEF Job, Phases, Statuses, WithPcTodo
<1>2. Alike(WithPcTodo(j, p, T), j, {"pc", "todo"})
  BY DEF Job, Alike, Locals, WithPcTodo
<1>3. WithPcTodo(j, p, T).pc = p /\ WithPcTodo(j, p, T).todo = T
  BY DEF Job, WithPcTodo
<1> QED BY <1>1, <1>2, <1>3

\* Assigning pc, out.
LEMMA PcOutUpdate ==
  ASSUME NEW j \in Job, NEW p \in Phases, NEW u \in Seq(Checksums \cup {Damaged})
  PROVE  /\ WithPcOut(j, p, u) \in Job
         /\ Alike(WithPcOut(j, p, u), j, {"pc", "out"})
         /\ WithPcOut(j, p, u).pc = p /\ WithPcOut(j, p, u).out = u
<1>1. WithPcOut(j, p, u) \in Job
  BY DEF Job, Phases, Statuses, WithPcOut
<1>2. Alike(WithPcOut(j, p, u), j, {"pc", "out"})
  BY DEF Job, Alike, Locals, WithPcOut
<1>3. WithPcOut(j, p, u).pc = p /\ WithPcOut(j, p, u).out = u
  BY DEF Job, WithPcOut
<1> QED BY <1>1, <1>2, <1>3

\* Assigning pc, at, out.
LEMMA PcAtOutUpdate ==
  ASSUME NEW j \in Job, NEW p \in Phases, NEW x \in Nat \ {0}, NEW u \in Seq(Checksums \cup {Damaged})
  PROVE  /\ WithPcAtOut(j, p, x, u) \in Job
         /\ Alike(WithPcAtOut(j, p, x, u), j, {"pc", "at", "out"})
         /\ WithPcAtOut(j, p, x, u).pc = p /\ WithPcAtOut(j, p, x, u).at = x /\ WithPcAtOut(j, p, x, u).out = u
<1>1. WithPcAtOut(j, p, x, u) \in Job
  BY DEF Job, Phases, Statuses, WithPcAtOut
<1>2. Alike(WithPcAtOut(j, p, x, u), j, {"pc", "at", "out"})
  BY DEF Job, Alike, Locals, WithPcAtOut
<1>3. WithPcAtOut(j, p, x, u).pc = p /\ WithPcAtOut(j, p, x, u).at = x /\ WithPcAtOut(j, p, x, u).out = u
  BY DEF Job, WithPcAtOut
<1> QED BY <1>1, <1>2, <1>3

\* The locals of a thread that waits.
LEMMA IdleFits ==
  Idle \in Job /\ Fits(Idle) /\ Idle.pc = "idle" /\ Idle.content = Nil /\ Idle.op = "none"
<1>1. Idle \in Job /\ Idle.pc = "idle" /\ Idle.content = Nil /\ Idle.op = "none"
  BY DEF Idle, Job
<1>2. Fits(Idle)
  BY DEF Fits, Idle, PhasesOf
<1> QED BY <1>1, <1>2

Ops == {"put", "get", "metadata", "delete", "repair"}

\* The locals of a thread that has just been given a request.
Given(p, op, k, o) == [Idle EXCEPT !.pc = p, !.op = op, !.key = k, !.content = o]

\* They are well typed.
LEMMA FreshCall ==
  ASSUME NEW p \in Phases, NEW op \in Ops, NEW k \in Keys \cup {Nil},
         NEW o \in Contents \cup {Nil}
  PROVE  /\ Given(p, op, k, o) \in Job
         /\ Alike(Given(p, op, k, o), Idle, {"pc", "op", "key", "content"})
         /\ Given(p, op, k, o).pc = p /\ Given(p, op, k, o).op = op
         /\ Given(p, op, k, o).key = k /\ Given(p, op, k, o).content = o
<1> DEFINE r == [Idle EXCEPT !.pc = p, !.op = op, !.key = k, !.content = o]
           g == [Idle EXCEPT !.pc = p]
           h == [g EXCEPT !.op = op]
<1>1. g \in Job
  BY IdleFits, PcUpdate DEF WithPc
<1>2. r = [h EXCEPT !.key = k, !.content = o]
  OBVIOUS
<1>3. Alike(r, Idle, {"pc", "op", "key", "content"}) /\ r.pc = p /\ r.op = op /\ r.key = k /\ r.content = o
  BY IdleFits DEF Job, Alike, Locals
<1> HIDE DEF g
<1>4. h \in Job
  BY <1>1 DEF Job, Ops
<1> HIDE DEF h, r
<1>5. [h EXCEPT !.key = k, !.content = o] \in Job
  BY <1>4 DEF Job
<1>6. Given(p, op, k, o) = r
  BY DEF r, Given
<1> QED BY <1>2, <1>3, <1>5, <1>6

\* The locals of a repair that takes up an object.
Picked(op, k, T) == [Idle EXCEPT !.pc = "select", !.op = op, !.key = k, !.todo = T]

\* They are well typed.
LEMMA FreshPick ==
  ASSUME NEW op \in Ops, NEW k \in Keys, NEW T \in SUBSET Keys
  PROVE  /\ Picked(op, k, T) \in Job
         /\ Alike(Picked(op, k, T), Idle, {"pc", "op", "key", "todo"})
         /\ Picked(op, k, T).pc = "select" /\ Picked(op, k, T).op = op
         /\ Picked(op, k, T).key = k /\ Picked(op, k, T).todo = T
<1> DEFINE r == [Idle EXCEPT !.pc = "select", !.op = op, !.key = k, !.todo = T]
           h == [Idle EXCEPT !.pc = "select", !.op = op]
<1>1. h \in Job
  BY IdleFits DEF Job, Ops
<1>2. r = [h EXCEPT !.key = k, !.todo = T]
  OBVIOUS
<1>3. Alike(r, Idle, {"pc", "op", "key", "todo"}) /\ r.pc = "select" /\ r.op = op /\ r.key = k /\ r.todo = T
  BY IdleFits DEF Job, Alike, Locals
<1> HIDE DEF h, r
<1>4. [h EXCEPT !.key = k, !.todo = T] \in Job
  BY <1>1 DEF Job
<1>5. Picked(op, k, T) = r
  BY DEF r, Picked
<1> QED BY <1>2, <1>3, <1>4, <1>5

-----------------------------------------------------------------------------
(* The invariant *)

\* What a handler has in hand was asked for; req is requested, n its node.
Asked(n, j, req) ==
  /\ j.content # Nil => <<n, j.key, j.content>> \in req
  /\ j.op = "delete" => <<n, j.key, Nil>> \in req

\* The contents in a table t of node n were asked for.
Known(n, t, req) == \A k \in Keys : t.objects[k] # Nil => <<n, k, t.objects[k]>> \in req

\* The rows of the first i chunks of a content, and of an object or of none.
Prefix(o, i) == {<<p, o[p]>> : p \in 1 .. i}
Wanted(o) == IF o = Nil THEN {} ELSE RowsOf(o)

\* An object nobody deletes has the chunks of its checksum.
Whole(n, t, req) ==
  \A k \in Keys : <<n, k, Nil>> \notin req => t.rows[k] = Wanted(t.objects[k])

\* The transaction of the put j on node n: t is the tables as the connection
\* sees them, c those of the file.  They differ in the put's own key and in
\* keys that somebody deletes.  A DELETE FROM chunks that failed leaves the row
\* of the first chunk, which the first INSERT runs into.
Written(n, j, t, c, req) ==
  /\ \A k \in Keys : k # j.key /\ <<n, k, Nil>> \notin req =>
       t.objects[k] = c.objects[k] /\ t.rows[k] = c.rows[k]
  /\ <<n, j.key, Nil>> \notin req =>
       /\ j.pc \in {"upsert", "clear"} => t.rows[j.key] = c.rows[j.key]
       /\ j.pc \in {"clear", "insert", "commit"} => t.objects[j.key] = j.content
       /\ j.pc = "insert" => \/ t.rows[j.key] = Prefix(j.content, j.at - 1)
                             \/ j.at = 1 /\ \E r \in t.rows[j.key] : r[1] = 1
       /\ j.pc = "commit" => t.rows[j.key] = RowsOf(j.content)

\* A put inside its transaction is the only one on its node.
Owned ==
  \A v, w \in Workers :
     /\ Home[v] = Home[w] /\ Home[w] \notin undone
     /\ job[v].pc \in TxPhases /\ job[w].pc \in TxPhases
     => v = w

ApiInv ==
  /\ TypeOK
  /\ \A w \in Workers : Fits(job[w]) /\ Asked(Home[w], job[w], requested)
  /\ \A n \in Nodes : Known(n, committed[n], requested) /\ Known(n, working[n], requested)
  /\ \A n \in Nodes : ~inTx[n] => working[n] = committed[n]
  /\ \A w \in Workers : Home[w] \notin undone /\ job[w].pc \in TxPhases =>
       /\ inTx[Home[w]]
       /\ Written(Home[w], job[w], working[Home[w]], committed[Home[w]], requested)
  /\ Owned
  /\ \A n \in Nodes \ undone : Whole(n, committed[n], requested)

TableTypes ==
  /\ committed \in [Nodes -> Tables] /\ working \in [Nodes -> Tables]
  /\ inTx \in [Nodes -> BOOLEAN] /\ changes \in [Nodes -> {0, 1}]
  /\ undone \subseteq Nodes

RestTypes ==
  /\ wal \in [Nodes -> Seq(Line \cup {Torn})]
  /\ ended \in [Nodes -> BOOLEAN]
  /\ walGood \in [Nodes -> BOOLEAN]
  /\ up \in [Nodes -> BOOLEAN]
  /\ stored \subseteq Checksums
  /\ calls \in Nat /\ faults \in Nat /\ crashes \in Nat
  /\ requested \subseteq Nodes \X Keys \X (Contents \cup {Nil})
  /\ gone \subseteq Nodes \X Keys
  /\ marred \subseteq Nodes /\ mixed \subseteq Nodes

\* TypeOK in three parts.
LEMMA TypesSplit == TypeOK <=> TableTypes /\ RestTypes /\ job \in [Workers -> Job]
BY DEF TypeOK, TableTypes, RestTypes

\* The three parts hold.
LEMMA Types ==
  ASSUME ApiInv
  PROVE  TableTypes /\ RestTypes /\ job \in [Workers -> Job]
BY TypesSplit DEF ApiInv

\* More requests break nothing.
LEMMA Monotone ==
  ASSUME NEW req, NEW more, req \subseteq more
  PROVE  \A n, j, t, c :
           /\ Asked(n, j, req) => Asked(n, j, more)
           /\ Known(n, t, req) => Known(n, t, more)
           /\ Whole(n, t, req) => Whole(n, t, more)
           /\ Written(n, j, t, c, req) => Written(n, j, t, c, more)
BY DEF Asked, Known, Whole, Written

\* No statement of this step takes effect: the tables of n stay, or a failing
\* statement has rolled the open transaction back.
Still(n) ==
  \/ UNCHANGED <<tables, undone>>
  \/ RollbackTx(n) /\ undone' = undone \cup {n}

\* What such a step leaves of the tables.
LEMMA StillTables ==
  ASSUME ApiInv, NEW n \in Nodes, Still(n)
  PROVE  /\ TableTypes' /\ committed' = committed /\ undone \subseteq undone'
         /\ \A p \in Nodes : \/ working'[p] = working[p] /\ inTx'[p] = inTx[p]
                             \/ p = n /\ working'[p] = committed[p] /\ ~inTx'[p] /\ p \in undone'
<1>1. TableTypes
  BY Types
<1>2. CASE UNCHANGED <<tables, undone>>
  BY <1>1, <1>2 DEF TableTypes, tables
<1>3. CASE RollbackTx(n) /\ undone' = undone \cup {n}
  BY <1>1, <1>3 DEF TableTypes, RollbackTx
<1> QED BY <1>2, <1>3 DEF Still

\* A thread moves on and no statement takes effect.
LEMMA MoveStep ==
  ASSUME ApiInv, NEW w \in Workers, NEW j \in Job, job' = [job EXCEPT ![w] = j],
         Still(Home[w]), RestTypes', requested \subseteq requested',
         Fits(j), Asked(Home[w], j, requested'),
         j.pc \in TxPhases =>
           /\ job[w].pc \in TxPhases
           /\ Home[w] \notin undone =>
                Written(Home[w], j, working[Home[w]], committed[Home[w]], requested)
  PROVE  ApiInv'
<1>1. job \in [Workers -> Job] /\ Home[w] \in Nodes
  BY Types, ApiAssumption
<1>2. /\ TableTypes' /\ committed' = committed /\ undone \subseteq undone'
      /\ \A p \in Nodes :
           \/ working'[p] = working[p] /\ inTx'[p] = inTx[p]
           \/ p = Home[w] /\ working'[p] = committed[p] /\ ~inTx'[p] /\ p \in undone'
  BY <1>1, StillTables
<1>3. job'[w] = j /\ \A v \in Workers : v # w => job'[v] = job[v]
  BY <1>1
<1>4. job' \in [Workers -> Job]
  BY <1>1
<1>5. TypeOK'
  BY <1>2, <1>4 DEF TypeOK, TableTypes, RestTypes
<1>6. \A v \in Workers : Fits(job'[v]) /\ Asked(Home[v], job'[v], requested')
  BY <1>3, Monotone DEF ApiInv
<1>7. \A n \in Nodes : Known(n, committed'[n], requested') /\ Known(n, working'[n], requested')
                       /\ (n \notin undone' => Whole(n, committed'[n], requested'))
  BY <1>2, Monotone DEF ApiInv
<1>8. \A n \in Nodes : ~inTx'[n] => working'[n] = committed'[n]
  BY <1>2 DEF ApiInv
<1>9. ASSUME NEW v \in Workers, job'[v].pc \in TxPhases, Home[v] \notin undone'
      PROVE  /\ inTx'[Home[v]]
             /\ Written(Home[v], job'[v], working'[Home[v]], committed'[Home[v]], requested')
  <2>1. job[v].pc \in TxPhases /\ Home[v] \notin undone /\ Home[v] \in Nodes
    BY <1>2, <1>3, <1>9, ApiAssumption
  <2>2. inTx[Home[v]] /\ Written(Home[v], job[v], working[Home[v]], committed[Home[v]], requested)
    BY <2>1 DEF ApiInv
  <2>3. Written(Home[v], job'[v], working[Home[v]], committed[Home[v]], requested)
    BY <1>3, <1>9, <2>1, <2>2
  <2>4. working'[Home[v]] = working[Home[v]] /\ inTx'[Home[v]] = inTx[Home[v]]
    BY <1>2, <1>9, <2>1
  <2> QED BY <1>2, <2>2, <2>3, <2>4, Monotone
<1>10. Owned'
  <2>1. \A v \in Workers : job'[v].pc \in TxPhases => job[v].pc \in TxPhases
    BY <1>3
  <2> QED BY <1>2, <2>1 DEF ApiInv, Owned
<1> QED BY <1>5, <1>6, <1>7, <1>8, <1>9, <1>10 DEF ApiInv

\* A thread w of node n moves on and n's tables become t for the connection and
\* c in the file.
TableMove(w, j, t, c, tx) ==
  LET n == Home[w] IN
  /\ job' = [job EXCEPT ![w] = j]
  /\ working' = [working EXCEPT ![n] = t]
  /\ committed' = [committed EXCEPT ![n] = c]
  /\ inTx' = [inTx EXCEPT ![n] = tx]
  /\ changes' \in [Nodes -> {0, 1}]
  /\ undone' = undone
  /\ UNCHANGED <<wal, ended, walGood, up, stored, calls, crashes, requested, gone, marred, mixed>>
  /\ faults' \in Nat

\* After it the put j of thread w is in its transaction properly, and so are the
\* puts of the other threads.
OwnPut(w, j, t, c, tx) ==
  Home[w] \notin undone /\ j.pc \in TxPhases =>
     /\ tx /\ Written(Home[w], j, t, c, requested)
     /\ job[w].pc \in TxPhases \/ ~inTx[Home[w]]
OtherPuts(w, t, c, tx) ==
  Home[w] \notin undone =>
     \A v \in Workers : v # w /\ Home[v] = Home[w] /\ job[v].pc \in TxPhases =>
        tx /\ Written(Home[w], job[v], t, c, requested)

\* Such a step, if no transaction is open or its statement belongs to it.
LEMMA TableStep ==
  ASSUME ApiInv, NEW w \in Workers, NEW j \in Job, NEW t \in Tables, NEW c \in Tables,
         NEW tx \in BOOLEAN, TableMove(w, j, t, c, tx),
         Fits(j), Asked(Home[w], j, requested),
         Known(Home[w], t, requested), Known(Home[w], c, requested),
         Home[w] \notin undone => Whole(Home[w], c, requested),
         ~tx => t = c, OwnPut(w, j, t, c, tx), OtherPuts(w, t, c, tx)
  PROVE  ApiInv'
<1> DEFINE n == Home[w]
<1>1. job \in [Workers -> Job] /\ TableTypes /\ RestTypes
  BY Types
<1>2. n \in Nodes
  BY ApiAssumption
<1>3. /\ job'[w] = j /\ \A v \in Workers : v # w => job'[v] = job[v]
      /\ working'[n] = t /\ committed'[n] = c /\ inTx'[n] = tx
      /\ \A p \in Nodes : p # n => /\ working'[p] = working[p] /\ committed'[p] = committed[p]
                                   /\ inTx'[p] = inTx[p]
      /\ requested' = requested /\ undone' = undone
  BY <1>1, <1>2 DEF TableMove, TableTypes
<1>4. TypeOK'
  <2>1. job' \in [Workers -> Job]
    BY <1>1 DEF TableMove
  <2>2. TableTypes'
    BY <1>1, <1>2 DEF TableMove, TableTypes
  <2>3. RestTypes'
    BY <1>1 DEF TableMove, RestTypes
  <2> QED BY <2>1, <2>2, <2>3 DEF TypeOK, TableTypes, RestTypes
<1> HIDE DEF n
<1>5. \A v \in Workers : Fits(job'[v]) /\ Asked(Home[v], job'[v], requested')
  BY <1>3 DEF ApiInv
<1>6. \A p \in Nodes : Known(p, committed'[p], requested') /\ Known(p, working'[p], requested')
  BY <1>3 DEF ApiInv, n
<1>7. \A p \in Nodes \ undone' : Whole(p, committed'[p], requested')
  BY <1>3 DEF ApiInv, n
<1>8. \A p \in Nodes : ~inTx'[p] => working'[p] = committed'[p]
  BY <1>3 DEF ApiInv
<1>9. ASSUME NEW v \in Workers, job'[v].pc \in TxPhases, Home[v] \notin undone'
      PROVE  /\ inTx'[Home[v]]
             /\ Written(Home[v], job'[v], working'[Home[v]], committed'[Home[v]], requested')
  <2>0. Home[v] \in Nodes /\ Home[v] \notin undone
    BY <1>3, <1>9, ApiAssumption
  <2>1. CASE v = w
    BY <1>3, <1>9, <2>0, <2>1 DEF n, OwnPut
  <2>2. CASE v # w /\ Home[v] = n
    BY <1>3, <1>9, <2>0, <2>2 DEF n, OtherPuts
  <2>3. CASE v # w /\ Home[v] # n
    BY <1>3, <1>9, <2>0, <2>3 DEF ApiInv
  <2> QED BY <2>1, <2>2, <2>3
<1>10. Owned'
  <2> SUFFICES ASSUME NEW u \in Workers, NEW v \in Workers, Home[u] = Home[v], u # v,
                      Home[v] \notin undone',
                      job'[u].pc \in TxPhases, job'[v].pc \in TxPhases
               PROVE  FALSE
    BY DEF Owned
  <2>1. u # w /\ v # w => FALSE
    BY <1>3 DEF ApiInv, Owned
  <2>2. ASSUME NEW z \in Workers, z # w, Home[z] = Home[w], job'[z].pc \in TxPhases,
               job'[w].pc \in TxPhases, Home[w] \notin undone'
        PROVE  FALSE
    <3>1. job[z].pc \in TxPhases /\ j.pc \in TxPhases /\ Home[w] \notin undone
      BY <1>3, <2>2
    <3>2. inTx[Home[w]]
      BY <2>2, <3>1 DEF ApiInv
    <3>3. job[w].pc \in TxPhases
      BY <3>1, <3>2 DEF OwnPut
    <3> QED BY <2>2, <3>1, <3>3 DEF ApiInv, Owned
  <2> QED BY <2>1, <2>2
<1> QED BY <1>4, <1>5, <1>6, <1>7, <1>8, <1>9, <1>10 DEF ApiInv

-----------------------------------------------------------------------------
(* The handlers *)

\* What a step of thread w finds.
LEMMA Here ==
  ASSUME ApiInv, NEW w \in Workers
  PROVE  /\ job[w] \in Job /\ Fits(job[w]) /\ Asked(Home[w], job[w], requested)
         /\ Home[w] \in Nodes
         /\ TableTypes /\ RestTypes /\ job \in [Workers -> Job]
BY Types, ApiAssumption DEF ApiInv

\* Which handler is in a phase.
LEMMA Handler ==
  ASSUME NEW j \in Job, Fits(j)
  PROVE  /\ j.pc \in {"store", "begin"} \cup TxPhases => j.op = "put"
         /\ j.pc = "log" => j.op \in {"put", "delete"}
         /\ j.pc \in {"delrows", "delobj", "changes", "count", "remove"} => j.op = "delete"
         /\ j.pc = "read" => j.op = "get"
         /\ j.pc \in {"list", "pick", "fetch", "rewrite"} => j.op = "repair"
         /\ j.pc \in {"select", "rows"} => j.op \in {"get", "metadata", "delete", "repair"}
         /\ j.op = "none" => j.pc = "idle"
<1>1. j.op \in {"none", "put", "get", "metadata", "delete", "repair"}
  BY JobFields
<1>2. j.pc \in PhasesOf[j.op]
  BY DEF Fits
<1> QED BY <1>1, <1>2 DEF PhasesOf, TxPhases

\* Giving an answer.
LEMMA DoneMove ==
  ASSUME NEW j \in Job, Fits(j), j.op # "none", NEW s \in {"ok", "error"},
         j.op = "get" /\ s = "ok" => j.out = j.content /\ j.content \in Contents
  PROVE  /\ Done(j, s) \in Job /\ Fits(Done(j, s))
         /\ Alike(Done(j, s), j, {"pc", "status"})
         /\ Done(j, s).pc = "done" /\ Done(j, s).status = s
         /\ \A n, req : Asked(n, j, req) => Asked(n, Done(j, s), req)
<1> DEFINE r == Done(j, s)
<1>1. r \in Job /\ Alike(r, j, {"pc", "status"}) /\ r.pc = "done" /\ r.status = s
  <2>1. "done" \in Phases /\ s \in Statuses
    BY DEF Phases, Statuses
  <2>2. r = WithPcStatus(j, "done", s)
    BY DEF Done, WithPcStatus
  <2> HIDE DEF r
  <2> QED BY <2>1, <2>2, PcStatusUpdate
<1> HIDE DEF r
<1>2. r.op = j.op /\ r.key = j.key /\ r.content = j.content /\ r.out = j.out
  BY <1>1 DEF Alike, Locals
<1>3. r.pc \in PhasesOf[r.op]
  <2>1. j.op \in Ops
    BY JobFields DEF Ops
  <2> QED BY <1>1, <1>2, <2>1 DEF PhasesOf, Ops
<1>4. Fits(r)
  BY <1>1, <1>2, <1>3 DEF Fits
<1>5. \A n, req : Asked(n, j, req) => Asked(n, r, req)
  BY <1>2 DEF Asked
<1> QED BY <1>1, <1>4, <1>5 DEF r

\* Moves that keep the operation, its key and its content keep what was asked.
LEMMA SameAsked ==
  ASSUME NEW j, NEW r, r.op = j.op, r.key = j.key, r.content = j.content
  PROVE  \A n, req : Asked(n, j, req) => Asked(n, r, req)
BY DEF Asked

\* A step that answers and changes no table.
LEMMA AnswerStep ==
  ASSUME ApiInv, NEW w \in Workers, job[w].op # "none", NEW s \in {"ok", "error"},
         job' = [job EXCEPT ![w] = Done(job[w], s)],
         Still(Home[w]), requested' = requested, RestTypes',
         job[w].op = "get" /\ s = "ok" => job[w].out = job[w].content /\ job[w].content \in Contents
  PROVE  ApiInv'
<1> DEFINE r == Done(job[w], s)
<1>1. job[w] \in Job /\ Fits(job[w]) /\ Asked(Home[w], job[w], requested)
  BY Here
<1>2. r \in Job /\ Fits(r) /\ r.pc = "done" /\ Asked(Home[w], r, requested)
  BY <1>1, DoneMove
<1> HIDE DEF r
<1>3. r.pc \notin TxPhases
  BY <1>2 DEF TxPhases
<1>4. job' = [job EXCEPT ![w] = r] /\ requested \subseteq requested' /\ requested' = requested
  BY DEF r
<1> QED BY <1>2, <1>3, <1>4, MoveStep

\* A step that moves on within the handler and changes no table.
LEMMA GoStep ==
  ASSUME ApiInv, NEW w \in Workers, NEW r \in Job, job' = [job EXCEPT ![w] = r],
         Still(Home[w]), requested' = requested, RestTypes',
         r.op = job[w].op, r.key = job[w].key, r.content = job[w].content,
         Fits(r), r.pc \notin TxPhases
  PROVE  ApiInv'
<1>1. Asked(Home[w], r, requested')
  BY Here, SameAsked
<1> QED BY <1>1, MoveStep

\* The requests.
LEMMA CallStep ==
  ASSUME ApiInv, NEW w \in Workers, NEW p \in {"log", "select", "list"},
         NEW op \in Ops, NEW k \in Keys \cup {Nil},
         NEW o \in Contents \cup {Nil}, Accept(w, op, p, k, o), Call,
         requested \subseteq requested', RestTypes',
         p \in PhasesOf[op], op # "repair" => k \in Keys,
         op = "put" => o \in Contents /\ <<Home[w], k, o>> \in requested',
         op # "put" => o = Nil /\ p # "log", p = "select" => op # "repair",
         op = "delete" => <<Home[w], k, Nil>> \in requested'
  PROVE  ApiInv'
<1> DEFINE r == Given(p, op, k, o)
<1>1. job' = [job EXCEPT ![w] = r] /\ Still(Home[w])
  BY DEF Accept, Goto, Given, Still
<1>2. /\ r \in Job /\ Alike(r, Idle, {"pc", "op", "key", "content"})
      /\ r.pc = p /\ r.op = op /\ r.key = k /\ r.content = o
  <2>1. p \in Phases
    BY DEF Phases
  <2> QED BY <2>1, FreshCall
<1> HIDE DEF r
<1>3. r.status = "none" /\ r.at = 1
  BY <1>2 DEF Alike, Locals, Idle
<1>4. Fits(r) /\ r.pc \notin TxPhases
  BY <1>2, <1>3 DEF Fits, TxPhases
<1>5. Asked(Home[w], r, requested')
  BY <1>2, ApiAssumption DEF Asked
<1> QED BY <1>1, <1>2, <1>4, <1>5, MoveStep

\* A content is a sequence of at least one chunk.
LEMMA ContentFacts ==
  ASSUME NEW o \in Contents
  PROVE  o \in Seq(Checksums) /\ Len(o) \in Nat /\ Len(o) >= 1 /\ o # Nil
<1>1. o \in Seq(Checksums) /\ o # <<>> /\ o # Nil
  BY ApiAssumption
<1> QED BY <1>1

\* What an append leaves is lines.
LEMMA AppendTypes ==
  ASSUME RestTypes, NEW n \in Nodes, NEW l \in Line \cup {Torn}, NEW e \in BOOLEAN
  PROVE  /\ WriteLine(n, l, e) =>
              /\ wal' \in [Nodes -> Seq(Line \cup {Torn})]
              /\ ended' \in [Nodes -> BOOLEAN]
         /\ l \in Line /\ CutAppend(n, l) =>
              /\ wal' \in [Nodes -> Seq(Line \cup {Torn})]
              /\ ended' \in [Nodes -> BOOLEAN] /\ marred' = marred \cup {n}
<1> DEFINE S == Line \cup {Torn}
           L == wal[n]
<1>1. wal \in [Nodes -> Seq(S)] /\ ended \in [Nodes -> BOOLEAN] /\ L \in Seq(S) /\ Torn \in S
  BY DEF RestTypes
<1> HIDE DEF S, L
<1>2. ASSUME NEW m \in S, NEW f \in BOOLEAN
      PROVE  Logged(L, f, m) \in Seq(S)
  <2>1. Append(L, m) \in Seq(S)
    BY <1>1, AppendProperties
  <2>2. [L EXCEPT ![Len(L)] = Torn] \in Seq(S)
    <3>1. L \in [1 .. Len(L) -> S] /\ Len(L) \in Nat
      BY <1>1
    <3>2. [L EXCEPT ![Len(L)] = Torn] \in [1 .. Len(L) -> S]
      BY <1>1, <3>1
    <3> QED BY <3>1, <3>2, SeqDef
  <2> QED BY <2>1, <2>2 DEF Logged
<1>3. ASSUME NEW m \in S, NEW f \in BOOLEAN, WriteLine(n, m, f)
      PROVE  wal' \in [Nodes -> Seq(S)] /\ ended' \in [Nodes -> BOOLEAN]
  <2>1. wal' = [wal EXCEPT ![n] = Logged(L, ended[n], m)] /\ ended' = [ended EXCEPT ![n] = f]
    BY <1>3 DEF WriteLine, L
  <2>2. Logged(L, ended[n], m) \in Seq(S)
    BY <1>1, <1>2
  <2> QED BY <1>1, <2>1, <2>2
<1>4. ASSUME CutAppend(n, l), l \in Line
      PROVE  wal' \in [Nodes -> Seq(S)] /\ ended' \in [Nodes -> BOOLEAN] /\ marred' = marred \cup {n}
  <2>1. l \in S /\ Torn \in S /\ FALSE \in BOOLEAN
    BY DEF S
  <2> QED BY <1>1, <1>3, <1>4, <2>1 DEF CutAppend
<1>5. l \in S
  BY DEF S
<1> QED BY <1>3, <1>4, <1>5 DEF S

\* The record of a request.
LEMMA LineTyped ==
  ASSUME NEW j \in Job, Fits(j), j.pc = "log"
  PROVE  LineOf(j) \in Line /\ j.op \in {"put", "delete"} /\ j.key \in Keys /\ j.at = 1
         /\ (j.op = "put" => j.content \in Contents)
<1>1. j.op \in {"put", "delete"} /\ j.key \in Keys /\ j.at = 1
      /\ (j.op = "put" => j.content \in Contents)
  BY Handler DEF Fits
<1> QED BY <1>1 DEF LineOf, Line

\* append to the log, or the error it reports.
LEMMA LogAction ==
  ASSUME ApiInv, NEW w \in Workers, Log(w)
  PROVE  ApiInv'
<1> DEFINE n == Home[w]
           j == job[w]
           line == LineOf(j)
           p == IF j.op = "put" THEN "store" ELSE "delrows"
<1>1. /\ j \in Job /\ Fits(j) /\ n \in Nodes /\ TableTypes /\ RestTypes
  BY Here
<1>2. j.pc = "log" /\ Still(n) /\ requested' = requested
  BY DEF Log, Still
<1>3. j.op \in {"put", "delete"} /\ j.key \in Keys /\ j.at = 1
      /\ (j.op = "put" => j.content \in Contents) /\ line \in Line
  BY <1>1, <1>2, LineTyped
<1>4. RestTypes'
  <2> HIDE DEF line
  <2>1. line \in Line \cup {Torn} /\ Torn \in Line \cup {Torn} /\ TRUE \in BOOLEAN
    BY <1>3
  <2>2. \/ WriteLine(n, line, TRUE) /\ marred' \in {marred, marred \cup {n}}
        \/ CutAppend(n, line)
        \/ WriteLine(n, Torn, TRUE) /\ marred' = marred \cup {n}
        \/ UNCHANGED log
    BY DEF Log, line
  <2>3. wal' \in [Nodes -> Seq(Line \cup {Torn})] /\ ended' \in [Nodes -> BOOLEAN]
        /\ marred' \in {marred, marred \cup {n}}
    <3>1. CASE UNCHANGED log
      BY <1>1, <3>1 DEF log, RestTypes
    <3>2. CASE WriteLine(n, line, TRUE) /\ marred' \in {marred, marred \cup {n}}
      BY <1>1, <2>1, <3>2, AppendTypes
    <3>3. CASE WriteLine(n, Torn, TRUE) /\ marred' = marred \cup {n}
      BY <1>1, <2>1, <3>3, AppendTypes
    <3>4. CASE CutAppend(n, line)
      BY <1>1, <1>3, <2>1, <3>4, AppendTypes
    <3> QED BY <2>2, <3>1, <3>2, <3>3, <3>4
  <2>6. walGood' \in [Nodes -> BOOLEAN] /\ faults' \in Nat
    <3>1. walGood' \in {walGood, [walGood EXCEPT ![n] = FALSE]}
      BY DEF Log
    <3>2. faults' \in {faults, faults + 1}
      BY DEF Log, Fault
    <3>3. walGood \in [Nodes -> BOOLEAN] /\ faults \in Nat
      BY <1>1 DEF RestTypes
    <3>4. walGood' \in [Nodes -> BOOLEAN]
      BY <1>1, <3>1, <3>3
    <3>5. faults' \in Nat
      BY <3>2, <3>3
    <3> QED BY <3>4, <3>5
  <2>7. UNCHANGED <<up, stored, calls, crashes, requested, gone, mixed>>
    BY DEF Log
  <2>8. marred' \subseteq Nodes /\ mixed' \subseteq Nodes
    BY <1>1, <2>3, <2>7 DEF RestTypes
  <2> QED BY <1>1, <2>3, <2>6, <2>7, <2>8 DEF RestTypes
<1>5. job' = [job EXCEPT ![w] = WithPc(j, p)] \/ job' = [job EXCEPT ![w] = Done(j, "error")]
  BY DEF Log, Goto, WithPc
<1>6. CASE job' = [job EXCEPT ![w] = WithPc(j, p)]
  <2> DEFINE r == WithPc(j, p)
  <2>1. p \in Phases
    BY DEF Phases
  <2>2. r \in Job /\ Alike(r, j, {"pc"}) /\ r.pc = p
    BY <1>1, <2>1, PcUpdate
  <2> HIDE DEF r
  <2>3. /\ r.op = j.op /\ r.key = j.key /\ r.content = j.content /\ r.at = j.at
        /\ r.status = j.status /\ r.out = j.out
    BY <2>2 DEF Alike, Locals
  <2>4. j.op = "put" => j.at <= Len(j.content)
    BY <1>3, ContentFacts
  <2>5. Fits(r) /\ r.pc \notin TxPhases
    <3>1. CASE j.op = "put"
      BY <1>3, <2>2, <2>3, <2>4, <3>1 DEF Fits, PhasesOf, TxPhases
    <3>2. CASE j.op = "delete"
      BY <1>3, <2>2, <2>3, <3>2 DEF Fits, PhasesOf, TxPhases
    <3> QED BY <1>3, <3>1, <3>2
  <2> QED BY <1>2, <1>4, <1>6, <2>2, <2>3, <2>5, GoStep DEF r
<1>7. CASE job' = [job EXCEPT ![w] = Done(j, "error")]
  BY <1>2, <1>3, <1>4, <1>7, AnswerStep
<1> QED BY <1>5, <1>6, <1>7

\* chunks.put of one part.
LEMMA StoreAction ==
  ASSUME ApiInv, NEW w \in Workers, StoreChunk(w)
  PROVE  ApiInv'
<1> DEFINE j == job[w]
           c == j.content[j.at]
<1>1. j \in Job /\ Fits(j) /\ RestTypes
  BY Here
<1>2. j.pc = "store" /\ Still(Home[w]) /\ requested' = requested
  BY DEF StoreChunk, Still
<1>3. j.op = "put" /\ j.key \in Keys /\ j.content \in Contents /\ j.at <= Len(j.content)
      /\ j.at \in Nat \ {0}
  BY <1>1, <1>2, Handler, JobFields DEF Fits
<1>4. j.content \in Seq(Checksums) /\ Len(j.content) \in Nat /\ Len(j.content) >= 1
  BY <1>3, ContentFacts
<1>5. c \in Checksums
  <2>1. j.at \in 1 .. Len(j.content)
    BY <1>3, <1>4
  <2> QED BY <1>4, <2>1
<1> HIDE DEF c
<1>6. RestTypes'
  <2>1. stored' \in {stored, stored \cup {c}}
    BY DEF StoreChunk, c
  <2>2. UNCHANGED <<wal, ended, walGood, up, calls, faults, crashes, requested, gone, marred, mixed>>
    BY DEF StoreChunk, log
  <2> QED BY <1>1, <1>5, <2>1, <2>2 DEF RestTypes
<1>7. \/ job' = [job EXCEPT ![w] = WithPcAt(j, "begin", 1)]
      \/ j.at # Len(j.content) /\ job' = [job EXCEPT ![w] = WithAt(j, j.at + 1)]
      \/ job' = [job EXCEPT ![w] = Done(j, "error")]
  BY DEF StoreChunk, Goto, Rewind, WithPcAt, WithAt
<1>8. CASE job' = [job EXCEPT ![w] = WithPcAt(j, "begin", 1)]
  <2> DEFINE r == WithPcAt(j, "begin", 1)
  <2>1. "begin" \in Phases /\ 1 \in Nat \ {0}
    BY DEF Phases
  <2>2. r \in Job /\ Alike(r, j, {"pc", "at"}) /\ r.pc = "begin" /\ r.at = 1
    BY <1>1, <2>1, PcAtUpdate
  <2> HIDE DEF r
  <2>3. r.op = j.op /\ r.key = j.key /\ r.content = j.content
    BY <2>2 DEF Alike, Locals
  <2>4. Fits(r) /\ r.pc \notin TxPhases
    BY <1>3, <2>2, <2>3 DEF Fits, PhasesOf, TxPhases
  <2> QED BY <1>2, <1>6, <1>8, <2>2, <2>3, <2>4, GoStep DEF r
<1>9. CASE j.at # Len(j.content) /\ job' = [job EXCEPT ![w] = WithAt(j, j.at + 1)]
  <2> DEFINE x == j.at + 1
             r == WithAt(j, x)
  <2>1. x \in Nat \ {0} /\ x <= Len(j.content)
    BY <1>3, <1>4, <1>9
  <2> HIDE DEF x
  <2>2. r \in Job /\ Alike(r, j, {"at"}) /\ r.at = x
    BY <1>1, <2>1, AtUpdate
  <2>3. job' = [job EXCEPT ![w] = r]
    BY <1>9 DEF x
  <2> HIDE DEF r
  <2>4. r.op = j.op /\ r.key = j.key /\ r.content = j.content /\ r.pc = j.pc
    BY <2>2 DEF Alike, Locals
  <2>5. Fits(r) /\ r.pc \notin TxPhases
    BY <1>2, <1>3, <2>1, <2>2, <2>4 DEF Fits, PhasesOf, TxPhases
  <2> QED BY <1>2, <1>6, <2>2, <2>3, <2>4, <2>5, GoStep
<1>10. CASE job' = [job EXCEPT ![w] = Done(j, "error")]
  BY <1>2, <1>3, <1>6, <1>10, AnswerStep
<1> QED BY <1>7, <1>8, <1>9, <1>10

-----------------------------------------------------------------------------
(* Statements *)

\* Rows of the chunks table.
Row == (Nat \ {0}) \X Checksums

PutObject(t, k, o) == [t EXCEPT !.objects[k] = o]
PutRows(t, k, r) == [t EXCEPT !.rows[k] = r]

\* A row of the objects table is written.
LEMMA ObjectWritten ==
  ASSUME NEW t \in Tables, NEW k \in Keys, NEW o \in Contents \cup {Nil}
  PROVE  /\ PutObject(t, k, o) \in Tables
         /\ PutObject(t, k, o).objects[k] = o
         /\ \A q \in Keys : q # k => PutObject(t, k, o).objects[q] = t.objects[q]
         /\ PutObject(t, k, o).rows = t.rows
<1> DEFINE f == [t.objects EXCEPT ![k] = o]
           u == [t EXCEPT !.objects = f]
<1>1. t.objects \in [Keys -> Contents \cup {Nil}] /\ t.rows \in [Keys -> SUBSET Row]
  BY DEF Tables, Row
<1>2. f \in [Keys -> Contents \cup {Nil}] /\ f[k] = o
      /\ \A q \in Keys : q # k => f[q] = t.objects[q]
  BY <1>1
<1>3. PutObject(t, k, o) = u
  BY DEF PutObject
<1> HIDE DEF f
<1>4. u \in Tables /\ u.objects = f /\ u.rows = t.rows
  BY <1>1, <1>2 DEF Tables, Row
<1> QED BY <1>2, <1>3, <1>4

\* The rows of a key in the chunks table are written.
LEMMA RowsWritten ==
  ASSUME NEW t \in Tables, NEW k \in Keys, NEW r \in SUBSET Row
  PROVE  /\ PutRows(t, k, r) \in Tables
         /\ PutRows(t, k, r).rows[k] = r
         /\ \A q \in Keys : q # k => PutRows(t, k, r).rows[q] = t.rows[q]
         /\ PutRows(t, k, r).objects = t.objects
<1> DEFINE f == [t.rows EXCEPT ![k] = r]
           u == [t EXCEPT !.rows = f]
<1>1. t.objects \in [Keys -> Contents \cup {Nil}] /\ t.rows \in [Keys -> SUBSET Row]
  BY DEF Tables, Row
<1>2. f \in [Keys -> SUBSET Row] /\ f[k] = r
      /\ \A q \in Keys : q # k => f[q] = t.rows[q]
  BY <1>1
<1>3. PutRows(t, k, r) = u
  BY DEF PutRows
<1> HIDE DEF f
<1>4. u \in Tables /\ u.rows = f /\ u.objects = t.objects
  BY <1>1, <1>2 DEF Tables, Row
<1> QED BY <1>2, <1>3, <1>4

\* The rest of a handler that runs a statement.
Untouched ==
  UNCHANGED <<wal, ended, walGood, up, stored, calls, crashes, requested, gone, marred, mixed>>

\* A statement of thread w, as a step of its node's tables.
LEMMA ExecuteMove ==
  ASSUME ApiInv, NEW w \in Workers, NEW r, NEW t \in Tables, NEW some \in {0, 1},
         Execute(Home[w], t, some), job' = [job EXCEPT ![w] = r],
         UNCHANGED <<faults, undone>>, Untouched
  PROVE  TableMove(w, r, t, IF inTx[Home[w]] THEN committed[Home[w]] ELSE t, inTx[Home[w]])
<1> DEFINE n == Home[w]
           c == IF inTx[n] THEN committed[n] ELSE t
<1>1. n \in Nodes /\ TableTypes /\ RestTypes
  BY Here
<1>2. committed' = [committed EXCEPT ![n] = c]
  <2>1. CASE inTx[n]
    BY <1>1, <2>1 DEF Execute, TableTypes
  <2>2. CASE ~inTx[n]
    BY <1>1, <2>2 DEF Execute, TableTypes
  <2> QED BY <2>1, <2>2
<1>3. inTx' = [inTx EXCEPT ![n] = inTx[n]] /\ changes' \in [Nodes -> {0, 1}]
      /\ working' = [working EXCEPT ![n] = t]
  BY <1>1 DEF Execute, TableTypes
<1>4. faults' \in Nat
  BY <1>1 DEF RestTypes
<1> HIDE DEF c, n
<1>5. TableMove(w, r, t, c, inTx[n])
  BY <1>2, <1>3, <1>4 DEF TableMove, Untouched, n
<1> QED BY <1>5 DEF c, n

\* A statement of a put inside its transaction, or of one whose transaction was
\* rolled back under it.
LEMMA PutStatement ==
  ASSUME ApiInv, NEW w \in Workers, job[w].pc \in TxPhases,
         NEW r \in Job, job' = [job EXCEPT ![w] = r], r.pc \in TxPhases,
         Fits(r), Asked(Home[w], r, requested),
         NEW t \in Tables, NEW some \in {0, 1}, Execute(Home[w], t, some),
         Known(Home[w], t, requested), UNCHANGED <<faults, undone>>, Untouched,
         Home[w] \notin undone => Written(Home[w], r, t, committed[Home[w]], requested)
  PROVE  ApiInv'
<1> DEFINE n == Home[w]
           c == IF inTx[n] THEN committed[n] ELSE t
           tx == inTx[n]
<1>1. tx \in BOOLEAN /\ committed[n] \in Tables /\ n \in Nodes
  BY Here DEF TableTypes
<1>2. TableMove(w, r, t, c, tx)
  BY ExecuteMove
<1>3. n \notin undone => inTx[n]
  BY DEF ApiInv
<1>4. Known(n, c, requested) /\ (n \notin undone => Whole(n, c, requested)) /\ c \in Tables
  BY <1>1, <1>3 DEF ApiInv
<1>5. n \notin undone =>
        \A v \in Workers : v # w /\ Home[v] = Home[w] => job[v].pc \notin TxPhases
  BY DEF ApiInv, Owned
<1>6. OwnPut(w, r, t, c, tx)
  BY <1>3 DEF OwnPut
<1>7. OtherPuts(w, t, c, tx)
  BY <1>5 DEF OtherPuts
<1>8. ~tx => t = c
  OBVIOUS
<1> HIDE DEF c, tx, n
<1> QED BY <1>1, <1>2, <1>4, <1>6, <1>7, <1>8, TableStep DEF n

\* t is the tables of n without the object of k, or without its rows.
Removes(n, k, t) ==
  /\ t.objects[k] \in {working[n].objects[k], Nil}
  /\ \A q \in Keys : q # k => /\ t.objects[q] = working[n].objects[q]
                              /\ t.rows[q] = working[n].rows[q]

\* A statement of a delete, inside whichever transaction is open.
LEMMA DeleteStatement ==
  ASSUME ApiInv, NEW w \in Workers, job[w].op = "delete", job[w].key \in Keys,
         NEW r \in Job, job' = [job EXCEPT ![w] = r], r.pc \notin TxPhases,
         Fits(r), Asked(Home[w], r, requested),
         NEW t \in Tables, NEW some \in {0, 1}, Execute(Home[w], t, some),
         UNCHANGED <<faults, undone>>, Untouched,
         Removes(Home[w], job[w].key, t)
  PROVE  ApiInv'
<1> DEFINE n == Home[w]
           k == job[w].key
           c == IF inTx[n] THEN committed[n] ELSE t
<1>1. inTx[n] \in BOOLEAN /\ committed[n] \in Tables /\ n \in Nodes
  BY Here DEF TableTypes
<1>2. TableMove(w, r, t, c, inTx[n])
  BY ExecuteMove
<1>3. <<n, k, Nil>> \in requested
  BY Here DEF Asked
<1>4. Known(n, t, requested)
  BY <1>1 DEF Known, ApiInv, Removes
<1>5. Known(n, c, requested)
  BY <1>1, <1>4 DEF ApiInv
<1>6. ASSUME n \notin undone
      PROVE  Whole(n, c, requested)
  <2>1. CASE inTx[n]
    BY <1>1, <1>6, <2>1 DEF ApiInv
  <2>2. CASE ~inTx[n]
    <3>1. working[n] = committed[n] /\ Whole(n, committed[n], requested)
      BY <1>1, <1>6, <2>2 DEF ApiInv
    <3> QED BY <1>3, <2>2, <3>1 DEF Whole, Removes
  <2> QED BY <2>1, <2>2
<1>7. ASSUME NEW v \in Workers, Home[v] = Home[w], job[v].pc \in TxPhases, n \notin undone
      PROVE  inTx[n] /\ Written(n, job[v], t, c, requested)
  <2>1. inTx[n] /\ Written(n, job[v], working[n], committed[n], requested)
    BY <1>7 DEF ApiInv
  <2>2. job[v].key \in Keys
    BY <1>7, Here, Handler DEF Fits
  <2> QED BY <1>3, <2>1, <2>2 DEF Written, Removes
<1>8. c \in Tables /\ (~inTx[n] => t = c)
  BY <1>1
<1>9. OwnPut(w, r, t, c, inTx[n]) /\ OtherPuts(w, t, c, inTx[n])
  BY <1>7 DEF OwnPut, OtherPuts
<1> HIDE DEF c
<1> QED BY <1>1, <1>2, <1>4, <1>5, <1>6, <1>8, <1>9, TableStep

-----------------------------------------------------------------------------
(* PUT *)

\* What a put inside its transaction, or about to begin it, finds.
LEMMA PutFacts ==
  ASSUME ApiInv, NEW w \in Workers, job[w].pc \in {"begin"} \cup TxPhases
  PROVE  LET j == job[w]
             n == Home[w] IN
         /\ j \in Job /\ Fits(j) /\ Asked(n, j, requested) /\ n \in Nodes
         /\ j.op = "put" /\ j.key \in Keys /\ j.content \in Contents /\ j.at \in Nat \ {0}
         /\ <<n, j.key, j.content>> \in requested
         /\ working[n] \in Tables /\ committed[n] \in Tables
         /\ Known(n, working[n], requested) /\ Known(n, committed[n], requested)
         /\ n \notin undone => Whole(n, committed[n], requested)
         /\ n \notin undone /\ j.pc \in TxPhases =>
              inTx[n] /\ Written(n, j, working[n], committed[n], requested)
<1> DEFINE j == job[w]
           n == Home[w]
<1>1. j \in Job /\ Fits(j) /\ Asked(n, j, requested) /\ n \in Nodes /\ TableTypes
  BY Here
<1>2. j.op = "put"
  BY <1>1, Handler
<1>3. j.key \in Keys /\ j.content \in Contents /\ j.at \in Nat \ {0}
  BY <1>1, <1>2, JobFields DEF Fits
<1>4. <<n, j.key, j.content>> \in requested
  BY <1>1, <1>3, ContentFacts DEF Asked
<1>5. working[n] \in Tables /\ committed[n] \in Tables
  BY <1>1 DEF TableTypes
<1>6. /\ Known(n, working[n], requested) /\ Known(n, committed[n], requested)
      /\ n \notin undone => Whole(n, committed[n], requested)
      /\ n \notin undone /\ j.pc \in TxPhases =>
           inTx[n] /\ Written(n, j, working[n], committed[n], requested)
  BY <1>1 DEF ApiInv
<1> QED BY <1>1, <1>2, <1>3, <1>4, <1>5, <1>6

\* A step of a put to another phase, at position x.
LEMMA PutMove ==
  ASSUME NEW j \in Job, Fits(j), j.op = "put", NEW p \in TxPhases,
         p \in {"upsert", "clear"} => j.at = 1,
         p = "insert" => j.at <= Len(j.content)
  PROVE  /\ WithPc(j, p) \in Job /\ Fits(WithPc(j, p)) /\ Alike(WithPc(j, p), j, {"pc"})
         /\ WithPc(j, p).pc = p /\ WithPc(j, p).key = j.key
         /\ WithPc(j, p).content = j.content /\ WithPc(j, p).at = j.at
         /\ WithPc(j, p).op = j.op
         /\ \A n, req : Asked(n, j, req) => Asked(n, WithPc(j, p), req)
<1> DEFINE r == WithPc(j, p)
<1>1. r \in Job /\ Alike(r, j, {"pc"}) /\ r.pc = p
  <2>1. p \in Phases
    BY DEF Phases, TxPhases
  <2> QED BY <2>1, PcUpdate
<1> HIDE DEF r
<1>2. r.op = j.op /\ r.key = j.key /\ r.content = j.content /\ r.at = j.at
  BY <1>1 DEF Alike, Locals
<1>3. r.pc \in PhasesOf[r.op]
  BY <1>1, <1>2 DEF PhasesOf
<1>5. Fits(r)
  BY <1>1, <1>2, <1>3 DEF Fits, TxPhases
<1>6. \A n, req : Asked(n, j, req) => Asked(n, r, req)
  BY <1>2, SameAsked
<1> QED BY <1>1, <1>2, <1>5, <1>6 DEF r

\* The rows of an object are none, or begin with its first chunk.
LEMMA WantedRows ==
  ASSUME NEW o \in Contents \cup {Nil}, NEW u
  PROVE  Wanted(o) = Prefix(u, 0) \/ \E q \in Wanted(o) : q[1] = 1
<1>1. CASE o = Nil
  BY <1>1 DEF Wanted, Prefix
<1>2. CASE o # Nil
  <2>1. 1 \in DOMAIN o
    BY <1>2, ContentFacts
  <2>2. <<1, o[1]>> \in Wanted(o)
    BY <1>2, <2>1 DEF Wanted, RowsOf
  <2> QED BY <2>2
<1> QED BY <1>1, <1>2

\* A fault counts.
LEMMA FaultTypes ==
  ASSUME RestTypes, faults' \in {faults, faults + 1}, Untouched
  PROVE  RestTypes'
<1>1. faults' \in Nat
  BY DEF RestTypes
<1> QED BY <1>1 DEF RestTypes, Untouched

\* A put inside its transaction goes to another phase without a statement.
LEMMA PutGoes ==
  ASSUME ApiInv, NEW w \in Workers, job[w].pc \in TxPhases,
         NEW p \in {"insert", "rollback"}, p = "insert" => job[w].pc = "clear",
         job' = [job EXCEPT ![w] = WithPc(job[w], p)], Still(Home[w]),
         faults' \in {faults, faults + 1}, Untouched
  PROVE  ApiInv'
<1> DEFINE j == job[w]
           n == Home[w]
           r == WithPc(j, p)
<1>1. /\ j \in Job /\ Fits(j) /\ Asked(n, j, requested) /\ j.op = "put"
      /\ j.content \in Contents /\ j.key \in Keys /\ committed[n] \in Tables
      /\ n \notin undone => /\ Written(n, j, working[n], committed[n], requested)
                            /\ Whole(n, committed[n], requested)
  BY PutFacts
<1>2. p \in TxPhases
  BY DEF TxPhases
<1>3. p = "insert" => j.at = 1 /\ j.at <= Len(j.content)
  BY <1>1, ContentFacts DEF Fits
<1>4. /\ r \in Job /\ Fits(r) /\ r.pc = p /\ r.key = j.key /\ r.content = j.content
      /\ r.at = j.at /\ Asked(n, r, requested)
  BY <1>1, <1>2, <1>3, PutMove
<1> HIDE DEF r
<1>5. ASSUME n \notin undone
      PROVE  Written(n, r, working[n], committed[n], requested)
  <2>1. CASE p = "rollback"
    BY <1>1, <1>4, <1>5, <2>1 DEF Written
  <2>2. CASE p = "insert"
    <3>1. ASSUME <<n, j.key, Nil>> \notin requested
          PROVE  \/ working[n].rows[j.key] = Prefix(j.content, 0)
                 \/ \E q \in working[n].rows[j.key] : q[1] = 1
      <4>1. working[n].rows[j.key] = Wanted(committed[n].objects[j.key])
        BY <1>1, <1>5, <2>2, <3>1 DEF Written, Whole
      <4>2. committed[n].objects[j.key] \in Contents \cup {Nil}
        BY <1>1 DEF Tables
      <4> QED BY <4>1, <4>2, WantedRows
    <3>2. r.at - 1 = 0 /\ r.at = 1
      BY <1>3, <1>4, <2>2
    <3> QED BY <1>1, <1>4, <1>5, <2>2, <3>1, <3>2 DEF Written
  <2> QED BY <2>1, <2>2
<1>6. RestTypes' /\ requested' = requested
  BY FaultTypes, Here DEF Untouched
<1>7. job' = [job EXCEPT ![w] = r] /\ requested \subseteq requested'
  BY <1>6 DEF r
<1> QED BY <1>4, <1>5, <1>6, <1>7, MoveStep

\* A put gives up, or a DELETE or read ends, with no statement: an answer.
LEMMA Answers ==
  ASSUME ApiInv, NEW w \in Workers, job[w].op # "none", NEW s \in {"ok", "error"},
         job' = [job EXCEPT ![w] = Done(job[w], s)], Still(Home[w]),
         faults' \in {faults, faults + 1}, Untouched,
         job[w].op = "get" => s = "error"
  PROVE  ApiInv'
<1>1. RestTypes' /\ requested' = requested
  BY FaultTypes, Here DEF Untouched
<1> QED BY <1>1, AnswerStep

\* A put ends its transaction, or begins it: the tables are t for the connection
\* and in the file.
LEMMA PutTurns ==
  ASSUME ApiInv, NEW w \in Workers, NEW t \in Tables, NEW tx \in BOOLEAN, NEW r \in Job,
         TableMove(w, r, t, t, tx), Fits(r), Asked(Home[w], r, requested),
         Known(Home[w], t, requested), Home[w] \notin undone => Whole(Home[w], t, requested),
         job[w].pc \in TxPhases \/ ~inTx[Home[w]],
         r.pc \in TxPhases => tx /\ r.pc = "upsert"
  PROVE  ApiInv'
<1>1. OwnPut(w, r, t, t, tx)
  BY DEF OwnPut, Written
<1>2. Home[w] \notin undone =>
        \A v \in Workers : v # w /\ Home[v] = Home[w] => job[v].pc \notin TxPhases
  BY DEF ApiInv, Owned
<1>3. OtherPuts(w, t, t, tx)
  BY <1>2 DEF OtherPuts
<1> QED BY <1>1, <1>3, TableStep

\* BEGIN IMMEDIATE.
LEMMA BeginAction ==
  ASSUME ApiInv, NEW w \in Workers, PutBegin(w)
  PROVE  ApiInv'
<1> DEFINE j == job[w]
           n == Home[w]
           t == committed[n]
<1>1. j.pc = "begin" /\ Untouched
  BY DEF PutBegin, Untouched, log
<1>2. /\ j \in Job /\ Fits(j) /\ Asked(n, j, requested) /\ j.op = "put" /\ n \in Nodes
      /\ t \in Tables /\ Known(n, t, requested)
      /\ (n \notin undone => Whole(n, t, requested))
      /\ TableTypes /\ RestTypes
  BY <1>1, PutFacts, Here
<1>3. CASE job' = [job EXCEPT ![w] = Done(j, "error")] /\ Still(n)
           /\ faults' \in {faults, faults + 1}
  BY <1>1, <1>2, <1>3, Answers
<1>4. CASE BeginImmediate(n) /\ Goto(w, [j EXCEPT !.pc = "upsert"]) /\ UNCHANGED faults
  <2> DEFINE r == WithPc(j, "upsert")
  <2>1. job' = [job EXCEPT ![w] = r]
    BY <1>4 DEF Goto, WithPc
  <2>2. "upsert" \in TxPhases /\ j.at = 1
    BY <1>1, <1>2 DEF TxPhases, Fits
  <2>3. r \in Job /\ Fits(r) /\ r.pc = "upsert" /\ Asked(n, r, requested)
    BY <1>2, <2>2, PutMove
  <2>4. ~inTx[n] /\ working[n] = t
    BY <1>2, <1>4 DEF BeginImmediate, ApiInv
  <2>5. /\ working' = [working EXCEPT ![n] = t] /\ committed' = [committed EXCEPT ![n] = t]
        /\ inTx' = [inTx EXCEPT ![n] = TRUE] /\ changes' \in [Nodes -> {0, 1}]
        /\ faults' \in Nat /\ undone' = undone
    BY <1>2, <1>4, <2>4 DEF PutBegin, BeginImmediate, TableTypes, RestTypes
  <2> HIDE DEF r, t
  <2>6. TableMove(w, r, t, t, TRUE)
    BY <1>1, <2>1, <2>5 DEF TableMove, Untouched
  <2> QED BY <1>2, <2>2, <2>3, <2>4, <2>6, PutTurns
<1> QED BY <1>3, <1>4 DEF PutBegin, Goto, Fault, Still

\* INSERT OR REPLACE INTO objects.
LEMMA UpsertAction ==
  ASSUME ApiInv, NEW w \in Workers, PutUpsert(w)
  PROVE  ApiInv'
<1> DEFINE j == job[w]
           n == Home[w]
           t == PutObject(working[n], j.key, j.content)
<1>1. j.pc = "upsert" /\ Untouched /\ j.pc \in TxPhases
  BY DEF PutUpsert, Untouched, TxPhases, log
<1>2. /\ j \in Job /\ Fits(j) /\ Asked(n, j, requested) /\ j.op = "put" /\ n \in Nodes
      /\ j.key \in Keys /\ j.content \in Contents /\ <<n, j.key, j.content>> \in requested
      /\ working[n] \in Tables /\ Known(n, working[n], requested)
      /\ (n \notin undone => Written(n, j, working[n], committed[n], requested))
  BY <1>1, PutFacts
<1>3. CASE job' = [job EXCEPT ![w] = WithPc(j, "rollback")] /\ Still(n)
           /\ faults' = faults + 1
  BY <1>1, <1>3, PutGoes
<1>4. CASE Execute(n, WithObject(n, j.key, j.content), 1) /\ Goto(w, [j EXCEPT !.pc = "clear"])
           /\ UNCHANGED <<faults, undone>>
  <2> DEFINE r == WithPc(j, "clear")
  <2>1. job' = [job EXCEPT ![w] = r] /\ Execute(n, t, 1) /\ UNCHANGED <<faults, undone>>
    BY <1>4 DEF Goto, WithPc, WithObject, PutObject
  <2>2. "clear" \in TxPhases /\ j.at = 1
    BY <1>1, <1>2 DEF TxPhases, Fits
  <2>3. /\ r \in Job /\ Fits(r) /\ r.pc = "clear" /\ r.key = j.key /\ r.content = j.content
        /\ Asked(n, r, requested)
    BY <1>2, <2>2, PutMove
  <2>4. /\ t \in Tables /\ t.objects[j.key] = j.content /\ t.rows = working[n].rows
        /\ \A q \in Keys : q # j.key => t.objects[q] = working[n].objects[q]
    BY <1>2, ObjectWritten
  <2> HIDE DEF r, t
  <2>5. Known(n, t, requested)
    BY <1>2, <2>4 DEF Known
  <2>6. n \notin undone => Written(n, r, t, committed[n], requested)
    BY <1>1, <1>2, <2>3, <2>4 DEF Written
  <2> QED BY <1>1, <2>1, <2>2, <2>3, <2>4, <2>5, <2>6, PutStatement
<1> QED BY <1>3, <1>4 DEF PutUpsert, Goto, Failed, Fault, Still, WithPc

\* DELETE FROM chunks, inside the transaction of the put.
LEMMA ClearAction ==
  ASSUME ApiInv, NEW w \in Workers, PutClear(w)
  PROVE  ApiInv'
<1> DEFINE j == job[w]
           n == Home[w]
           e == {}
           t == PutRows(working[n], j.key, e)
           some == IF working[n].rows[j.key] = {} THEN 0 ELSE 1
           r == WithPc(j, "insert")
<1>1. j.pc = "clear" /\ Untouched /\ j.pc \in TxPhases /\ job' = [job EXCEPT ![w] = r]
  BY DEF PutClear, DeleteRowsOf, Untouched, TxPhases, Goto, WithPc, log
<1>2. /\ j \in Job /\ Fits(j) /\ Asked(n, j, requested) /\ j.op = "put" /\ n \in Nodes
      /\ j.key \in Keys /\ j.content \in Contents
      /\ working[n] \in Tables /\ Known(n, working[n], requested)
      /\ (n \notin undone => Written(n, j, working[n], committed[n], requested))
  BY <1>1, PutFacts
<1>3. CASE Still(n) /\ faults' = faults + 1
  BY <1>1, <1>3, PutGoes
<1>4. CASE Execute(n, WithRows(n, j.key, {}), some) /\ UNCHANGED <<faults, undone>>
  <2>1. Execute(n, t, some) /\ UNCHANGED <<faults, undone>> /\ some \in {0, 1}
    BY <1>4 DEF WithRows, PutRows
  <2>2. "insert" \in TxPhases /\ j.at = 1 /\ j.at <= Len(j.content)
    BY <1>1, <1>2, ContentFacts DEF TxPhases, Fits
  <2>3. /\ r \in Job /\ Fits(r) /\ r.pc = "insert" /\ r.key = j.key /\ r.content = j.content
        /\ r.at = 1 /\ Asked(n, r, requested)
    BY <1>2, <2>2, PutMove
  <2>4. /\ t \in Tables /\ t.objects = working[n].objects /\ t.rows[j.key] = Prefix(j.content, 0)
        /\ \A q \in Keys : q # j.key => t.rows[q] = working[n].rows[q]
    <3>1. e \in SUBSET Row /\ e = Prefix(j.content, 0)
      BY DEF Prefix
    <3> HIDE DEF e
    <3> QED BY <1>2, <3>1, RowsWritten
  <2> HIDE DEF r, t, some, e
  <2>5. Known(n, t, requested)
    BY <1>2, <2>4 DEF Known
  <2>6. r.at - 1 = 0
    BY <2>3
  <2>7. n \notin undone => Written(n, r, t, committed[n], requested)
    BY <1>1, <1>2, <2>3, <2>4, <2>6 DEF Written
  <2>8. r.pc \in TxPhases /\ t \in Tables
    BY <2>2, <2>3, <2>4
  <2> QED BY <1>1, <2>1, <2>3, <2>5, <2>7, <2>8, PutStatement
<1> QED BY <1>3, <1>4 DEF PutClear, DeleteRowsOf, Failed, Fault, Still

\* INSERT INTO chunks at one position.
LEMMA InsertAction ==
  ASSUME ApiInv, NEW w \in Workers, PutInsert(w)
  PROVE  ApiInv'
<1> DEFINE j == job[w]
           n == Home[w]
           o == j.content
           x == j.at
           old == working[n].rows[j.key]
           new == old \cup {<<x, o[x]>>}
           t == PutRows(working[n], j.key, new)
<1>1. j.pc = "insert" /\ Untouched /\ j.pc \in TxPhases
  BY DEF PutInsert, Untouched, TxPhases, log
<1>2. /\ j \in Job /\ Fits(j) /\ Asked(n, j, requested) /\ j.op = "put" /\ n \in Nodes
      /\ j.key \in Keys /\ o \in Contents /\ x \in Nat \ {0}
      /\ working[n] \in Tables /\ Known(n, working[n], requested)
      /\ (n \notin undone => Written(n, j, working[n], committed[n], requested))
  BY <1>1, PutFacts
<1>3. o \in Seq(Checksums) /\ x \in 1 .. Len(o) /\ Len(o) \in Nat
  BY <1>1, <1>2, ContentFacts DEF Fits
<1>4. old \in SUBSET Row
  BY <1>2 DEF Tables, Row
<1>5. CASE /\ \A q \in old : q[1] # x
           /\ Execute(n, WithRows(n, j.key, new), 1) /\ UNCHANGED <<faults, undone>>
           /\ Goto(w, IF x = Len(o) THEN [j EXCEPT !.pc = "commit"] ELSE [j EXCEPT !.at = x + 1])
  <2>1. new \in SUBSET Row
    <3>1. o[x] \in Checksums
      BY <1>3
    <3> HIDE DEF old
    <3> QED BY <1>2, <1>4, <3>1 DEF Row
  <2>2. n \notin undone /\ <<n, j.key, Nil>> \notin requested => new = Prefix(o, x)
    <3> SUFFICES ASSUME n \notin undone, <<n, j.key, Nil>> \notin requested
                 PROVE  new = Prefix(o, x)
      OBVIOUS
    <3>1. old = Prefix(o, x - 1)
      BY <1>1, <1>2, <1>5 DEF Written
    <3> HIDE DEF old, o, x
    <3>2. 1 .. x = (1 .. x - 1) \cup {x}
      BY <1>3
    <3> QED BY <3>1, <3>2 DEF Prefix
  <2>3. /\ t \in Tables /\ t.objects = working[n].objects /\ t.rows[j.key] = new
        /\ \A q \in Keys : q # j.key => t.rows[q] = working[n].rows[q]
    <3> HIDE DEF new
    <3> QED BY <1>2, <2>1, RowsWritten
  <2>4. Execute(n, t, 1) /\ UNCHANGED <<faults, undone>>
    BY <1>5 DEF WithRows, PutRows
  <2> HIDE DEF t, new, old
  <2>5. Known(n, t, requested)
    BY <1>2, <2>3 DEF Known
  <2>6. CASE x = Len(o)
    <3> DEFINE r == WithPc(j, "commit")
    <3>1. job' = [job EXCEPT ![w] = r]
      BY <1>5, <2>6 DEF Goto, WithPc
    <3>2. "commit" \in TxPhases
      BY DEF TxPhases
    <3>3. /\ r \in Job /\ Fits(r) /\ r.pc = "commit" /\ r.key = j.key /\ r.content = o
          /\ Asked(n, r, requested)
      BY <1>2, <3>2, PutMove
    <3> HIDE DEF r
    <3>4. Prefix(o, x) = RowsOf(o)
      <4> HIDE DEF o, x
      <4> QED BY <1>3, <2>6 DEF Prefix, RowsOf
    <3>5. n \notin undone => Written(n, r, t, committed[n], requested)
      BY <1>1, <1>2, <2>2, <2>3, <3>3, <3>4 DEF Written
    <3> QED BY <1>1, <2>3, <2>4, <2>5, <3>1, <3>2, <3>3, <3>5, PutStatement
  <2>7. CASE x # Len(o)
    <3> DEFINE y == x + 1
               r == WithAt(j, y)
    <3>1. job' = [job EXCEPT ![w] = r]
      BY <1>5, <2>7 DEF Goto, WithAt
    <3>2. y \in Nat \ {0} /\ y <= Len(o) /\ y - 1 = x
      BY <1>3, <2>7
    <3> HIDE DEF y
    <3>3. r \in Job /\ Alike(r, j, {"at"}) /\ r.at = y
      BY <1>2, <3>2, AtUpdate
    <3> HIDE DEF r
    <3>4. r.pc = "insert" /\ r.op = j.op /\ r.key = j.key /\ r.content = o
      BY <1>1, <3>3 DEF Alike, Locals
    <3>5. Fits(r)
      BY <1>2, <3>2, <3>3, <3>4 DEF Fits, PhasesOf, TxPhases
    <3>6. Asked(n, r, requested)
      BY <1>2, <3>4, SameAsked
    <3>7. n \notin undone => Written(n, r, t, committed[n], requested)
      BY <1>1, <1>2, <2>2, <2>3, <3>2, <3>3, <3>4 DEF Written
    <3>8. r.pc \in TxPhases
      BY <3>4 DEF TxPhases
    <3> QED BY <1>1, <2>3, <2>4, <2>5, <3>1, <3>3, <3>5, <3>6, <3>7, <3>8, PutStatement
  <2> QED BY <2>6, <2>7
<1>6. CASE job' = [job EXCEPT ![w] = WithPc(j, "rollback")] /\ Still(n)
           /\ faults' \in {faults, faults + 1}
  BY <1>1, <1>6, PutGoes
<1> QED BY <1>5, <1>6 DEF PutInsert, Goto, Failed, Fault, Still, WithPc

\* A put ends its transaction with an answer, as TableMove.
LEMMA TurnMove ==
  ASSUME ApiInv, NEW w \in Workers, NEW r, job' = [job EXCEPT ![w] = r], Untouched,
         faults' \in {faults, faults + 1}, undone' = undone
  PROVE  /\ CommitTx(Home[w]) =>
              TableMove(w, r, working[Home[w]], working[Home[w]], FALSE)
         /\ RollbackTx(Home[w]) =>
              TableMove(w, r, committed[Home[w]], committed[Home[w]], FALSE)
<1> DEFINE n == Home[w]
<1>1. n \in Nodes /\ TableTypes /\ RestTypes
  BY Here
<1>2. faults' \in Nat
  BY <1>1 DEF RestTypes
<1>3. CommitTx(n) \/ RollbackTx(n) =>
        changes' \in [Nodes -> {0, 1}] /\ inTx' = [inTx EXCEPT ![n] = FALSE]
  BY <1>1 DEF CommitTx, RollbackTx, TableTypes
<1>4. ASSUME CommitTx(n) PROVE TableMove(w, r, working[n], working[n], FALSE)
  <2>1. working' = [working EXCEPT ![n] = working[n]] /\ committed' = [committed EXCEPT ![n] = working[n]]
    BY <1>1, <1>4 DEF CommitTx, TableTypes
  <2>2. changes' \in [Nodes -> {0, 1}] /\ inTx' = [inTx EXCEPT ![n] = FALSE]
    BY <1>3, <1>4
  <2>3. TableMove(w, r, working[n], working[n], FALSE)
    BY <1>2, <2>1, <2>2 DEF TableMove, Untouched
  <2> QED BY <2>3
<1>5. ASSUME RollbackTx(n) PROVE TableMove(w, r, committed[n], committed[n], FALSE)
  <2>1. working' = [working EXCEPT ![n] = committed[n]] /\ committed' = [committed EXCEPT ![n] = committed[n]]
    BY <1>1, <1>5 DEF RollbackTx, TableTypes
  <2>2. changes' \in [Nodes -> {0, 1}] /\ inTx' = [inTx EXCEPT ![n] = FALSE]
    BY <1>3, <1>5
  <2>3. TableMove(w, r, committed[n], committed[n], FALSE)
    BY <1>2, <2>1, <2>2 DEF TableMove, Untouched
  <2> QED BY <2>3
<1> HIDE DEF n
<1>6. /\ CommitTx(n) => TableMove(w, r, working[n], working[n], FALSE)
      /\ RollbackTx(n) => TableMove(w, r, committed[n], committed[n], FALSE)
  BY <1>4, <1>5
<1> QED BY <1>6 DEF n

\* The end of the transaction of a put.
LEMMA EndAction ==
  ASSUME ApiInv, NEW w \in Workers, NEW s \in {"ok", "error"},
         job[w].pc \in {"commit", "rollback"}, Untouched,
         job' = [job EXCEPT ![w] = Done(job[w], s)], faults' \in {faults, faults + 1},
         undone' = undone,
         (job[w].pc = "commit" /\ CommitTx(Home[w])) \/ RollbackTx(Home[w])
  PROVE  ApiInv'
<1> DEFINE j == job[w]
           n == Home[w]
           r == Done(j, s)
<1>1. j.pc \in TxPhases
  BY DEF TxPhases
<1>2. /\ j \in Job /\ Fits(j) /\ Asked(n, j, requested) /\ j.op = "put" /\ n \in Nodes
      /\ j.key \in Keys /\ j.content \in Contents /\ working[n] \in Tables /\ committed[n] \in Tables
      /\ Known(n, working[n], requested) /\ Known(n, committed[n], requested)
      /\ n \notin undone => /\ Whole(n, committed[n], requested)
                            /\ Written(n, j, working[n], committed[n], requested)
  BY <1>1, PutFacts
<1>3. r \in Job /\ Fits(r) /\ Asked(n, r, requested) /\ r.pc = "done"
  BY <1>2, DoneMove
<1>4. job' = [job EXCEPT ![w] = r]
  OBVIOUS
<1> HIDE DEF r
<1>5. r.pc \notin TxPhases
  BY <1>3 DEF TxPhases
<1>6. /\ CommitTx(n) => TableMove(w, r, working[n], working[n], FALSE)
      /\ RollbackTx(n) => TableMove(w, r, committed[n], committed[n], FALSE)
  BY <1>4, TurnMove
<1>7. CASE j.pc = "commit" /\ CommitTx(n)
  <2>1. n \notin undone => Whole(n, working[n], requested)
    <3>1. j.content # Nil
      BY <1>2, ContentFacts
    <3> QED BY <1>2, <1>7, <3>1 DEF Whole, Written, Wanted
  <2> QED BY <1>1, <1>2, <1>3, <1>5, <1>6, <1>7, <2>1, PutTurns
<1>8. CASE RollbackTx(n)
  BY <1>1, <1>2, <1>3, <1>5, <1>6, <1>8, PutTurns
<1> QED BY <1>7, <1>8

\* COMMIT, and a COMMIT that fails.
LEMMA CommitAction ==
  ASSUME ApiInv, NEW w \in Workers, PutCommit(w)
  PROVE  ApiInv'
<1> DEFINE j == job[w]
           n == Home[w]
<1>1. j.pc = "commit" /\ Untouched /\ undone' = undone /\ j.pc \in {"commit", "rollback"} /\ j.pc \in TxPhases
  BY DEF PutCommit, Untouched, TxPhases, log
<1>2. j.op = "put"
  BY <1>1, PutFacts
<1>3. CASE CommitTx(n) /\ Goto(w, Done(j, "ok")) /\ UNCHANGED faults
  BY <1>1, <1>3, EndAction DEF Goto
<1>4. CASE Goto(w, Done(j, "error")) /\ UNCHANGED tables /\ faults' \in {faults, faults + 1}
  BY <1>1, <1>2, <1>4, Answers DEF Goto, Still
<1>5. CASE Fault /\ Goto(w, Done(j, "error")) /\ RollbackTx(n)
  BY <1>1, <1>5, EndAction DEF Goto, Fault
<1> QED BY <1>3, <1>4, <1>5 DEF PutCommit, Fault

\* ROLLBACK.
LEMMA RollbackAction ==
  ASSUME ApiInv, NEW w \in Workers, PutRollback(w)
  PROVE  ApiInv'
<1> DEFINE j == job[w]
           n == Home[w]
<1>1. /\ j.pc = "rollback" /\ Untouched /\ RollbackTx(n) /\ faults' = faults
      /\ undone' = undone
      /\ job' = [job EXCEPT ![w] = Done(j, "error")]
  BY DEF PutRollback, Untouched, Goto, log
<1> QED BY <1>1, EndAction

-----------------------------------------------------------------------------
(* GET, GET /v1/metadata and the reads of DELETE and repair *)

\* A handler goes to phase p and rewinds; its other locals stay.
LEMMA RewindStep ==
  ASSUME ApiInv, NEW w \in Workers, NEW p \in Phases, NEW x \in Nat \ {0},
         job' = [job EXCEPT ![w] = WithPcAt(job[w], p, x)],
         Still(Home[w]), requested' = requested, RestTypes',
         p \in PhasesOf[job[w].op], p \notin TxPhases \cup {"done", "store"},
         p \in {"select", "rows"} => job[w].key \in Keys,
         p \in {"rows", "read"} => job[w].content \in Contents,
         p \in {"log", "begin"} => x = 1,
         p = "remove" => x <= Len(job[w].meta)
  PROVE  ApiInv'
<1> DEFINE j == job[w]
           r == WithPcAt(j, p, x)
<1>1. j \in Job /\ Fits(j)
  BY Here
<1>2. r \in Job /\ Alike(r, j, {"pc", "at"}) /\ r.pc = p /\ r.at = x
  BY <1>1, PcAtUpdate
<1>3. job' = [job EXCEPT ![w] = r]
  OBVIOUS
<1> HIDE DEF r
<1>4. r.op = j.op /\ r.key = j.key /\ r.content = j.content /\ r.meta = j.meta
  BY <1>2 DEF Alike, Locals
<1>5. Fits(r)
  BY <1>1, <1>2, <1>4 DEF Fits, TxPhases
<1>6. r.pc \notin TxPhases
  BY <1>2
<1> QED BY <1>2, <1>3, <1>4, <1>5, <1>6, GoStep

\* A handler goes to phase p; its other locals stay.
LEMMA PhaseStep ==
  ASSUME ApiInv, NEW w \in Workers, NEW p \in Phases,
         job' = [job EXCEPT ![w] = WithPc(job[w], p)],
         Still(Home[w]), requested' = requested, RestTypes',
         p \in PhasesOf[job[w].op], p \notin TxPhases \cup {"done", "store", "log", "begin"},
         p \in {"select", "rows"} => job[w].key \in Keys,
         p \in {"rows", "read"} => job[w].content \in Contents,
         p = "remove" => job[w].at <= Len(job[w].meta)
  PROVE  ApiInv'
<1> DEFINE j == job[w]
           x == j.at
<1>1. j \in Job /\ x \in Nat \ {0}
  BY Here, JobFields
<1>2. WithPc(j, p) = WithPcAt(j, p, x)
  BY <1>1 DEF WithPc, WithPcAt, Job
<1> HIDE DEF x
<1>3. job' = [job EXCEPT ![w] = WithPcAt(j, p, x)]
  BY <1>2
<1>4. p = "remove" => x <= Len(j.meta)
  BY DEF x
<1> QED BY <1>1, <1>3, <1>4, RewindStep

\* An object that cannot be read.
LEMMA MissedStep ==
  ASSUME ApiInv, NEW w \in Workers, job[w].pc = "select",
         job' = [job EXCEPT ![w] = Missed(job[w])], Still(Home[w]),
         faults' \in {faults, faults + 1}, Untouched
  PROVE  ApiInv'
<1> DEFINE j == job[w]
<1>1. j \in Job /\ Fits(j) /\ j.op \in {"get", "metadata", "delete", "repair"}
  BY Here, Handler
<1>2. RestTypes' /\ requested' = requested
  BY FaultTypes, Here DEF Untouched
<1>3. CASE j.op = "repair"
  <2>1. job' = [job EXCEPT ![w] = WithPc(j, "pick")]
    BY <1>3 DEF Missed, WithPc
  <2>2. "pick" \in Phases /\ "pick" \in PhasesOf[j.op] /\ "pick" \notin TxPhases
    BY <1>3 DEF Phases, PhasesOf, TxPhases
  <2> QED BY <1>2, <2>1, <2>2, PhaseStep
<1>4. CASE j.op # "repair"
  <2>1. job' = [job EXCEPT ![w] = Done(j, "error")]
    BY <1>4 DEF Missed
  <2> QED BY <1>1, <2>1, Answers
<1> QED BY <1>3, <1>4

\* SELECT FROM objects.
LEMMA SelectAction ==
  ASSUME ApiInv, NEW w \in Workers, SelectObject(w)
  PROVE  ApiInv'
<1> DEFINE j == job[w]
           n == Home[w]
           o == working[n].objects[j.key]
<1>1. j.pc = "select" /\ Untouched /\ Still(Home[w]) /\ faults' \in {faults, faults + 1}
  BY DEF SelectObject, Untouched, Failed, Fault, Still, log
<1>2. j \in Job /\ Fits(j) /\ n \in Nodes /\ Asked(n, j, requested) /\ TableTypes /\ RestTypes
      /\ j.key \in Keys /\ j.op \in {"get", "metadata", "delete", "repair"}
  BY <1>1, Here, Handler DEF Fits
<1>3. RestTypes' /\ requested' = requested
  BY <1>1, <1>2, FaultTypes DEF Untouched
<1>4. CASE job' = [job EXCEPT ![w] = Missed(j)]
  BY <1>1, <1>4, MissedStep
<1>5. CASE o # Nil /\ job' = [job EXCEPT ![w] = WithPcContent(j, "rows", o)]
  <2> DEFINE r == WithPcContent(j, "rows", o)
  <2>1. o \in Contents \cup {Nil}
    <3>1. working[n] \in Tables
      BY <1>2 DEF TableTypes
    <3> QED BY <1>2, <3>1 DEF Tables
  <2>2. <<n, j.key, o>> \in requested
    BY <1>2, <1>5 DEF ApiInv, Known
  <2> HIDE DEF o
  <2>3. r \in Job /\ Alike(r, j, {"pc", "content"}) /\ r.pc = "rows" /\ r.content = o
    <3>1. "rows" \in Phases
      BY DEF Phases
    <3> QED BY <1>2, <2>1, <3>1, PcContentUpdate
  <2>4. job' = [job EXCEPT ![w] = r]
    BY <1>5
  <2> HIDE DEF r
  <2>5. r.op = j.op /\ r.key = j.key
    BY <2>3 DEF Alike, Locals
  <2>6. o \in Contents
    BY <1>5, <2>1
  <2>7. r.pc \in PhasesOf[r.op] /\ r.pc \notin TxPhases
    BY <1>2, <2>3, <2>5 DEF PhasesOf, TxPhases
  <2>8. Fits(r)
    BY <1>2, <2>3, <2>5, <2>6, <2>7 DEF Fits
  <2>9. Asked(n, r, requested')
    BY <1>2, <1>3, <2>2, <2>3, <2>5 DEF Asked
  <2>10. requested \subseteq requested'
    BY <1>3
  <2> QED BY <1>1, <1>3, <2>3, <2>4, <2>7, <2>8, <2>9, <2>10, MoveStep
<1> QED BY <1>4, <1>5 DEF SelectObject, Goto, WithPcContent

\* What follows the metadata.
LEMMA DescribedStep ==
  ASSUME ApiInv, NEW w \in Workers, job[w].pc = "rows",
         job' = [job EXCEPT ![w] = Described(job[w])], Still(Home[w]),
         faults' \in {faults, faults + 1}, Untouched
  PROVE  ApiInv'
<1> DEFINE j == job[w]
<1>1. j \in Job /\ Fits(j) /\ j.op \in {"get", "metadata", "delete", "repair"}
      /\ j.content \in Contents /\ j.key \in Keys
  BY Here, Handler DEF Fits
<1>2. RestTypes' /\ requested' = requested /\ 1 \in Nat \ {0}
  BY FaultTypes, Here DEF Untouched
<1>3. CASE j.op = "get"
  <2>1. job' = [job EXCEPT ![w] = WithPcAt(j, "read", 1)]
    BY <1>3 DEF Described, Rewind, WithPcAt
  <2>2. "read" \in Phases /\ "read" \in PhasesOf[j.op] /\ "read" \notin TxPhases
    BY <1>3 DEF Phases, PhasesOf, TxPhases
  <2> QED BY <1>1, <1>2, <2>1, <2>2, RewindStep
<1>4. CASE j.op = "metadata"
  <2>1. job' = [job EXCEPT ![w] = Done(j, "ok")]
    BY <1>4 DEF Described
  <2> QED BY <1>1, <1>4, <2>1, Answers
<1>5. CASE j.op = "delete"
  <2>1. job' = [job EXCEPT ![w] = WithPcAt(j, "log", 1)]
    BY <1>5 DEF Described, Rewind, WithPcAt
  <2>2. "log" \in Phases /\ "log" \in PhasesOf[j.op] /\ "log" \notin TxPhases
    BY <1>5 DEF Phases, PhasesOf, TxPhases
  <2> QED BY <1>1, <1>2, <2>1, <2>2, RewindStep
<1>6. CASE j.op = "repair"
  <2>1. job' = [job EXCEPT ![w] = WithPcAt(j, "fetch", 1)]
    BY <1>6 DEF Described, Rewind, WithPcAt
  <2>2. "fetch" \in Phases /\ "fetch" \in PhasesOf[j.op] /\ "fetch" \notin TxPhases
    BY <1>6 DEF Phases, PhasesOf, TxPhases
  <2> QED BY <1>1, <1>2, <2>1, <2>2, RewindStep
<1> QED BY <1>1, <1>3, <1>4, <1>5, <1>6

\* One row of SELECT FROM chunks.
LEMMA RowAction ==
  ASSUME ApiInv, NEW w \in Workers, SelectRow(w)
  PROVE  ApiInv'
<1> DEFINE j == job[w]
           n == Home[w]
           rows == working[n].rows[j.key]
<1>1. j.pc = "rows" /\ Untouched /\ Still(Home[w]) /\ faults' \in {faults, faults + 1}
  BY DEF SelectRow, Untouched, Failed, Fault, Still, log
<1>2. j \in Job /\ Fits(j) /\ n \in Nodes /\ TableTypes /\ RestTypes
      /\ j.key \in Keys /\ j.op \in {"get", "metadata", "delete", "repair"}
      /\ j.at \in Nat \ {0} /\ j.meta \in Seq(Checksums)
  BY <1>1, Here, Handler, JobFields DEF Fits
<1>3. RestTypes' /\ requested' = requested
  BY <1>1, <1>2, FaultTypes DEF Untouched
<1>4. CASE job' = [job EXCEPT ![w] = Described(j)]
  BY <1>1, <1>4, DescribedStep
<1>5. ASSUME NEW q \in rows,
             job' = [job EXCEPT ![w] = WithAtMeta(j, q[1] + 1, Append(j.meta, q[2]))]
      PROVE  ApiInv'
  <2> DEFINE m == Append(j.meta, q[2])
             x == q[1] + 1
             r == WithAtMeta(j, x, m)
  <2>1. rows \in SUBSET Row
    <3>1. working[n] \in Tables
      BY <1>2 DEF TableTypes
    <3> QED BY <1>2, <3>1 DEF Tables, Row
  <2>2. q[1] \in Nat /\ q[2] \in Checksums
    <3> HIDE DEF rows
    <3> QED BY <1>5, <2>1 DEF Row
  <2>3. m \in Seq(Checksums) /\ x \in Nat \ {0}
    BY <1>2, <2>2, AppendProperties
  <2> HIDE DEF m, x
  <2>4. r \in Job /\ Alike(r, j, {"at", "meta"}) /\ r.at = x /\ r.meta = m
    BY <1>2, <2>3, AtMetaUpdate
  <2>5. job' = [job EXCEPT ![w] = r]
    BY <1>5 DEF r, m, x
  <2> HIDE DEF r
  <2>6. r.op = j.op /\ r.key = j.key /\ r.content = j.content /\ r.pc = "rows"
    BY <1>1, <2>4 DEF Alike, Locals
  <2>7. Fits(r) /\ r.pc \notin TxPhases
    BY <1>1, <1>2, <2>6 DEF Fits, TxPhases
  <2> QED BY <1>1, <1>3, <2>4, <2>5, <2>6, <2>7, GoStep
<1> QED BY <1>4, <1>5 DEF SelectRow, Goto, WithAtMeta

\* chunks.get of one chunk.
LEMMA ReadAction ==
  ASSUME ApiInv, NEW w \in Workers, ReadChunk(w)
  PROVE  ApiInv'
<1> DEFINE j == job[w]
           n == Home[w]
           x == j.at + 1
<1>1. /\ j.pc = "read" /\ Untouched /\ Still(Home[w]) /\ faults' \in {faults, faults + 1}
      /\ j.at <= Len(j.meta)
  BY DEF ReadChunk, Untouched, Still, log
<1>2. j \in Job /\ Fits(j) /\ RestTypes /\ j.op = "get" /\ j.at \in Nat \ {0}
      /\ j.meta \in Seq(Checksums) /\ j.out \in Seq(Checksums \cup {Damaged})
  BY <1>1, Here, Handler, JobFields
<1>3. RestTypes' /\ requested' = requested
  BY <1>1, <1>2, FaultTypes DEF Untouched
<1>4. CASE job' = [job EXCEPT ![w] = Done(j, "error")]
  BY <1>1, <1>2, <1>4, Answers
<1>5. ASSUME NEW d \in {j.meta[j.at], Damaged},
             job' = [job EXCEPT ![w] = WithAtOut(j, x, Append(j.out, d))]
      PROVE  ApiInv'
  <2> DEFINE u == Append(j.out, d)
             r == WithAtOut(j, x, u)
  <2>1. d \in Checksums \cup {Damaged}
    <3>1. j.at \in 1 .. Len(j.meta)
      BY <1>1, <1>2
    <3>2. j.meta[j.at] \in Checksums
      BY <1>2, <3>1
    <3> QED BY <1>5, <3>2
  <2>2. u \in Seq(Checksums \cup {Damaged}) /\ x \in Nat \ {0}
    BY <1>2, <2>1, AppendProperties
  <2> HIDE DEF u, x
  <2>3. r \in Job /\ Alike(r, j, {"at", "out"}) /\ r.at = x /\ r.out = u
    BY <1>2, <2>2, AtOutUpdate
  <2>4. job' = [job EXCEPT ![w] = r]
    BY <1>5 DEF u
  <2> HIDE DEF r
  <2>5. r.op = j.op /\ r.key = j.key /\ r.content = j.content /\ r.pc = "read"
    BY <1>1, <2>3 DEF Alike, Locals
  <2>6. Fits(r) /\ r.pc \notin TxPhases
    BY <1>1, <1>2, <2>5 DEF Fits, TxPhases
  <2> QED BY <1>1, <1>3, <2>3, <2>4, <2>5, <2>6, GoStep
<1> QED BY <1>4, <1>5 DEF ReadChunk, Goto, WithAtOut

\* The checksum of what was read decides the answer.
LEMMA GetReturnAction ==
  ASSUME ApiInv, NEW w \in Workers, GetReturn(w)
  PROVE  ApiInv'
<1> DEFINE j == job[w]
           s == IF Matches(j.out, j.content) THEN "ok" ELSE "error"
<1>1. /\ j.pc = "read" /\ Untouched /\ Still(Home[w]) /\ faults' \in {faults, faults + 1}
      /\ job' = [job EXCEPT ![w] = Done(j, s)]
  BY DEF GetReturn, Untouched, Goto, Still, log
<1>2. j \in Job /\ Fits(j) /\ RestTypes /\ j.op = "get" /\ j.content \in Contents
  BY <1>1, Here, Handler DEF Fits
<1>3. RestTypes' /\ requested' = requested
  BY <1>1, <1>2, FaultTypes DEF Untouched
<1>4. s \in {"ok", "error"} /\ (s = "ok" => j.out = j.content)
  BY DEF Matches
<1> HIDE DEF s
<1> QED BY <1>1, <1>2, <1>3, <1>4, AnswerStep

-----------------------------------------------------------------------------
(* DELETE *)

\* What a delete finds.
LEMMA DeleteFacts ==
  ASSUME ApiInv, NEW w \in Workers,
         job[w].pc \in {"delrows", "delobj", "changes", "count", "remove"}
  PROVE  /\ job[w] \in Job /\ Fits(job[w]) /\ Asked(Home[w], job[w], requested)
         /\ Home[w] \in Nodes /\ RestTypes /\ working[Home[w]] \in Tables
         /\ job[w].op = "delete" /\ job[w].key \in Keys
         /\ job[w].at \in Nat \ {0} /\ job[w].meta \in Seq(Checksums)
<1>1. job[w] \in Job /\ Fits(job[w]) /\ Asked(Home[w], job[w], requested)
      /\ Home[w] \in Nodes /\ RestTypes /\ TableTypes
  BY Here
<1>2. job[w].op = "delete"
  BY <1>1, Handler
<1>3. working[Home[w]] \in Tables
  BY <1>1 DEF TableTypes
<1>4. job[w].at \in Nat \ {0} /\ job[w].meta \in Seq(Checksums)
  BY <1>1, JobFields
<1>5. job[w].key \in Keys
  BY <1>1, <1>2 DEF Fits
<1> QED BY <1>1, <1>2, <1>3, <1>4, <1>5

\* DELETE FROM chunks.
LEMMA DeleteRowsAction ==
  ASSUME ApiInv, NEW w \in Workers, DeleteRows(w)
  PROVE  ApiInv'
<1> DEFINE j == job[w]
           n == Home[w]
           k == j.key
           e == {}
           t == PutRows(working[n], k, e)
           some == IF working[n].rows[k] = {} THEN 0 ELSE 1
           r == WithPc(j, "delobj")
<1>1. j.pc = "delrows" /\ Untouched /\ job' = [job EXCEPT ![w] = r]
  BY DEF DeleteRows, DeleteRowsOf, Untouched, Goto, WithPc, log
<1>2. /\ j \in Job /\ Fits(j) /\ Asked(n, j, requested) /\ j.op = "delete" /\ n \in Nodes
      /\ k \in Keys /\ working[n] \in Tables /\ RestTypes
  BY <1>1, DeleteFacts
<1>3. "delobj" \in Phases /\ "delobj" \in PhasesOf[j.op] /\ "delobj" \notin TxPhases
  BY <1>2 DEF Phases, PhasesOf, TxPhases
<1>4. CASE Still(n) /\ faults' = faults + 1
  <2>1. RestTypes' /\ requested' = requested
    BY <1>1, <1>2, <1>4, FaultTypes DEF Untouched
  <2> QED BY <1>1, <1>3, <1>4, <2>1, PhaseStep
<1>5. CASE Execute(n, WithRows(n, k, {}), some) /\ UNCHANGED <<faults, undone>>
  <2>1. Execute(n, t, some) /\ UNCHANGED <<faults, undone>> /\ some \in {0, 1}
    BY <1>5 DEF WithRows, PutRows
  <2>2. /\ t \in Tables /\ t.objects = working[n].objects
        /\ \A q \in Keys : q # k => t.rows[q] = working[n].rows[q]
    <3>1. e \in SUBSET Row
      OBVIOUS
    <3> HIDE DEF e
    <3> QED BY <1>2, <3>1, RowsWritten
  <2>3. r \in Job /\ Alike(r, j, {"pc"}) /\ r.pc = "delobj"
    BY <1>2, <1>3, PcUpdate
  <2> HIDE DEF r, t, some, e
  <2>4. r.op = j.op /\ r.key = j.key /\ r.content = j.content
    BY <2>3 DEF Alike, Locals
  <2>5. Fits(r) /\ r.pc \notin TxPhases
    BY <1>2, <1>3, <2>3, <2>4 DEF Fits
  <2>6. Asked(n, r, requested)
    BY <1>2, <2>4, SameAsked
  <2>7. Removes(n, k, t) /\ t \in Tables
    BY <2>2 DEF Removes
  <2> QED BY <1>1, <1>2, <2>1, <2>3, <2>5, <2>6, <2>7, DeleteStatement
<1> QED BY <1>4, <1>5 DEF DeleteRows, DeleteRowsOf, Failed, Fault, Still

\* DELETE FROM objects.
LEMMA DeleteObjectAction ==
  ASSUME ApiInv, NEW w \in Workers, DeleteObject(w)
  PROVE  ApiInv'
<1> DEFINE j == job[w]
           n == Home[w]
           k == j.key
           t == PutObject(working[n], k, Nil)
           some == IF working[n].objects[k] = Nil THEN 0 ELSE 1
           r == WithPc(j, "changes")
<1>1. j.pc = "delobj" /\ Untouched /\ job' = [job EXCEPT ![w] = r]
  BY DEF DeleteObject, Untouched, Goto, WithPc, log
<1>2. /\ j \in Job /\ Fits(j) /\ Asked(n, j, requested) /\ j.op = "delete" /\ n \in Nodes
      /\ k \in Keys /\ working[n] \in Tables /\ RestTypes
  BY <1>1, DeleteFacts
<1>3. "changes" \in Phases /\ "changes" \in PhasesOf[j.op] /\ "changes" \notin TxPhases
  BY <1>2 DEF Phases, PhasesOf, TxPhases
<1>4. CASE Still(n) /\ faults' = faults + 1
  <2>1. RestTypes' /\ requested' = requested
    BY <1>1, <1>2, <1>4, FaultTypes DEF Untouched
  <2> QED BY <1>1, <1>3, <1>4, <2>1, PhaseStep
<1>5. CASE Execute(n, WithObject(n, k, Nil), some) /\ UNCHANGED <<faults, undone>>
  <2>1. Execute(n, t, some) /\ UNCHANGED <<faults, undone>> /\ some \in {0, 1}
    BY <1>5 DEF WithObject, PutObject
  <2>2. /\ t \in Tables /\ t.rows = working[n].rows /\ t.objects[k] = Nil
        /\ \A q \in Keys : q # k => t.objects[q] = working[n].objects[q]
    <3>1. Nil \in Contents \cup {Nil}
      OBVIOUS
    <3> QED BY <1>2, <3>1, ObjectWritten
  <2> HIDE DEF some
  <2>3. r \in Job /\ Alike(r, j, {"pc"}) /\ r.pc = "changes"
    BY <1>2, <1>3, PcUpdate
  <2> HIDE DEF r, t
  <2>5. r.op = j.op /\ r.key = j.key /\ r.content = j.content
    BY <2>3 DEF Alike, Locals
  <2>6. Fits(r) /\ r.pc \notin TxPhases
    BY <1>2, <1>3, <2>3, <2>5 DEF Fits
  <2>7. Asked(n, r, requested)
    BY <1>2, <2>5, SameAsked
  <2>8. Removes(n, k, t) /\ t \in Tables
    BY <2>2 DEF Removes
  <2> QED BY <1>1, <1>2, <2>1, <2>3, <2>6, <2>7, <2>8, DeleteStatement
<1> QED BY <1>4, <1>5 DEF DeleteObject, Failed, Fault, Still

\* sqlite3_changes.
LEMMA ChangesAction ==
  ASSUME ApiInv, NEW w \in Workers, DeleteChanges(w)
  PROVE  ApiInv'
<1> DEFINE j == job[w]
<1>1. /\ j.pc = "changes" /\ Untouched /\ Still(Home[w]) /\ faults' \in {faults, faults + 1}
  BY DEF DeleteChanges, Untouched, Still, log
<1>2. j.op = "delete" /\ RestTypes
  BY <1>1, DeleteFacts
<1>3. CASE job' = [job EXCEPT ![w] = Done(j, "error")]
  BY <1>1, <1>2, <1>3, Answers
<1>4. CASE job' = [job EXCEPT ![w] = WithPc(j, "count")]
  <2>1. "count" \in Phases /\ "count" \in PhasesOf[j.op] /\ "count" \notin TxPhases
    BY <1>2 DEF Phases, PhasesOf, TxPhases
  <2>2. RestTypes' /\ requested' = requested
    BY <1>1, <1>2, FaultTypes DEF Untouched
  <2> QED BY <1>1, <1>4, <2>1, <2>2, PhaseStep
<1> QED BY <1>3, <1>4 DEF DeleteChanges, Goto, WithPc

\* chunk_ref_count of one chunk.
LEMMA CountAction ==
  ASSUME ApiInv, NEW w \in Workers, DeleteCount(w)
  PROVE  ApiInv'
<1> DEFINE j == job[w]
           x == j.at + 1
<1>1. /\ j.pc = "count" /\ Untouched /\ Still(Home[w]) /\ faults' \in {faults, faults + 1}
      /\ j.at <= Len(j.meta)
  BY DEF DeleteCount, Untouched, Failed, Fault, Still, log
<1>2. j \in Job /\ j.op = "delete" /\ RestTypes /\ j.at \in Nat \ {0}
  BY <1>1, DeleteFacts
<1>3. RestTypes' /\ requested' = requested
  BY <1>1, <1>2, FaultTypes DEF Untouched
<1>4. CASE job' = [job EXCEPT ![w] = WithPc(j, "remove")]
  <2>1. "remove" \in Phases /\ "remove" \in PhasesOf[j.op] /\ "remove" \notin TxPhases
    BY <1>2 DEF Phases, PhasesOf, TxPhases
  <2> QED BY <1>1, <1>3, <1>4, <2>1, PhaseStep
<1>5. CASE job' = [job EXCEPT ![w] = WithAt(j, j.at + 1)]
  <2>1. "count" \in Phases /\ "count" \in PhasesOf[j.op] /\ "count" \notin TxPhases
        /\ x \in Nat \ {0}
    BY <1>2 DEF Phases, PhasesOf, TxPhases
  <2>2. WithAt(j, x) = WithPcAt(j, "count", x)
    BY <1>1, <1>2 DEF WithAt, WithPcAt, Job
  <2> HIDE DEF x
  <2>3. job' = [job EXCEPT ![w] = WithPcAt(j, "count", x)]
    BY <1>5, <2>2 DEF x
  <2> QED BY <1>1, <1>3, <2>1, <2>3, RewindStep
<1> QED BY <1>4, <1>5 DEF DeleteCount, Goto, WithPc, WithAt

\* chunks.remove of one chunk.
LEMMA RemoveAction ==
  ASSUME ApiInv, NEW w \in Workers, DeleteChunk(w)
  PROVE  ApiInv'
<1> DEFINE j == job[w]
           x == j.at + 1
<1>1. /\ j.pc = "remove" /\ Still(Home[w]) /\ requested' = requested
      /\ job' = [job EXCEPT ![w] = WithPcAt(j, "count", x)]
  BY DEF DeleteChunk, Goto, WithPcAt, Still
<1>2. j.op = "delete" /\ RestTypes /\ j.at \in Nat \ {0}
  BY <1>1, DeleteFacts
<1>3. RestTypes'
  BY <1>2 DEF DeleteChunk, RestTypes, log
<1>4. "count" \in Phases /\ "count" \in PhasesOf[j.op] /\ "count" \notin TxPhases
      /\ x \in Nat \ {0}
  BY <1>2 DEF Phases, PhasesOf, TxPhases
<1> HIDE DEF x
<1> QED BY <1>1, <1>3, <1>4, RewindStep

\* 204.
LEMMA DeleteReturnAction ==
  ASSUME ApiInv, NEW w \in Workers, DeleteReturn(w)
  PROVE  ApiInv'
<1> DEFINE j == job[w]
<1>1. /\ j.pc = "count" /\ Still(Home[w]) /\ requested' = requested
      /\ job' = [job EXCEPT ![w] = Done(j, "ok")]
  BY DEF DeleteReturn, Goto, Still
<1>2. j.op = "delete" /\ RestTypes /\ Home[w] \in Nodes /\ j.key \in Keys
  BY <1>1, DeleteFacts
<1>3. RestTypes'
  <2>1. gone' \in {gone, gone \cup {<<Home[w], j.key>>}}
        /\ UNCHANGED <<wal, ended, walGood, up, stored, calls, faults, crashes, requested, marred,
                       mixed>>
    BY DEF DeleteReturn, log
  <2> QED BY <1>2, <2>1 DEF RestTypes
<1> QED BY <1>1, <1>2, <1>3, AnswerStep

-----------------------------------------------------------------------------
(* Repair *)

\* What a repair finds.
LEMMA RepairFacts ==
  ASSUME ApiInv, NEW w \in Workers, job[w].pc \in {"list", "pick", "fetch", "rewrite"}
  PROVE  /\ job[w] \in Job /\ Fits(job[w]) /\ RestTypes
         /\ job[w].op = "repair" /\ job[w].at \in Nat \ {0} /\ job[w].meta \in Seq(Checksums)
         /\ job[w].todo \in SUBSET Keys /\ job[w].out \in Seq(Checksums \cup {Damaged})
BY Here, Handler, JobFields

\* list_objects.
LEMMA ListAction ==
  ASSUME ApiInv, NEW w \in Workers, ListObjects(w)
  PROVE  ApiInv'
<1> DEFINE j == job[w]
<1>1. /\ j.pc = "list" /\ Untouched /\ Still(Home[w]) /\ faults' \in {faults, faults + 1}
  BY DEF ListObjects, Untouched, Failed, Fault, Still, log
<1>2. j \in Job /\ Fits(j) /\ j.op = "repair" /\ RestTypes
  BY <1>1, RepairFacts
<1>3. RestTypes' /\ requested' = requested
  BY <1>1, <1>2, FaultTypes DEF Untouched
<1>4. PICK T \in SUBSET Keys : job' = [job EXCEPT ![w] = WithPcTodo(j, "pick", T)]
  BY DEF ListObjects, Goto, WithPcTodo
<1> DEFINE r == WithPcTodo(j, "pick", T)
<1>5. r \in Job /\ Alike(r, j, {"pc", "todo"}) /\ r.pc = "pick"
  <2>1. "pick" \in Phases
    BY DEF Phases
  <2> QED BY <1>2, <2>1, PcTodoUpdate
<1>6. job' = [job EXCEPT ![w] = r]
  BY <1>4
<1> HIDE DEF r
<1>7. r.op = j.op /\ r.key = j.key /\ r.content = j.content
  BY <1>5 DEF Alike, Locals
<1>8. Fits(r) /\ r.pc \notin TxPhases
  BY <1>2, <1>5, <1>7 DEF Fits, PhasesOf, TxPhases
<1> QED BY <1>1, <1>3, <1>5, <1>6, <1>7, <1>8, GoStep

\* The next object of a repair.
LEMMA PickAction ==
  ASSUME ApiInv, NEW w \in Workers, RepairNext(w)
  PROVE  ApiInv'
<1> DEFINE j == job[w]
<1>1. /\ j.pc = "pick" /\ Untouched /\ Still(Home[w]) /\ faults' \in {faults, faults + 1}
  BY DEF RepairNext, Untouched, Still, log
<1>2. j \in Job /\ Fits(j) /\ j.op = "repair" /\ RestTypes /\ j.todo \in SUBSET Keys
  BY <1>1, RepairFacts
<1>3. RestTypes' /\ requested' = requested
  BY <1>1, <1>2, FaultTypes DEF Untouched
<1>4. CASE job' = [job EXCEPT ![w] = Done(j, "ok")]
  BY <1>1, <1>2, <1>4, Answers
<1>5. ASSUME NEW k \in j.todo, job' = [job EXCEPT ![w] = Picked(j.op, k, j.todo \ {k})]
      PROVE  ApiInv'
  <2> DEFINE T == j.todo \ {k}
             op == j.op
             r == Picked(op, k, T)
  <2>1. op \in Ops /\ k \in Keys /\ T \in SUBSET Keys /\ op = "repair"
    BY <1>2, <1>5 DEF Ops
  <2> HIDE DEF T, op
  <2>2. /\ r \in Job /\ Alike(r, Idle, {"pc", "op", "key", "todo"})
        /\ r.pc = "select" /\ r.op = op /\ r.key = k
    BY <2>1, FreshPick
  <2>3. job' = [job EXCEPT ![w] = r]
    BY <1>5 DEF T, op
  <2> HIDE DEF r
  <2>4. r.content = Nil
    BY <2>2, IdleFits DEF Alike, Locals
  <2>5. Fits(r) /\ r.pc \notin TxPhases
    BY <2>1, <2>2 DEF Fits, PhasesOf, TxPhases
  <2>6. Asked(Home[w], r, requested') /\ requested \subseteq requested'
    BY <1>3, <2>1, <2>2, <2>4 DEF Asked
  <2> QED BY <1>1, <1>3, <2>2, <2>3, <2>5, <2>6, MoveStep
<1> QED BY <1>4, <1>5 DEF RepairNext, Goto, Picked

\* chunks_.get of one chunk.
LEMMA FetchAction ==
  ASSUME ApiInv, NEW w \in Workers, RepairRead(w)
  PROVE  ApiInv'
<1> DEFINE j == job[w]
           x == j.at + 1
<1>1. /\ j.pc = "fetch" /\ Untouched /\ Still(Home[w]) /\ faults' \in {faults, faults + 1}
  BY DEF RepairRead, Untouched, Still, log
<1>2. j \in Job /\ Fits(j) /\ j.op = "repair" /\ RestTypes /\ j.at \in Nat \ {0}
      /\ j.meta \in Seq(Checksums)
  BY <1>1, RepairFacts
<1>3. RestTypes' /\ requested' = requested
  BY <1>1, <1>2, FaultTypes DEF Untouched
<1>4. CASE job' = [job EXCEPT ![w] = WithPc(j, "pick")]
  <2>1. "pick" \in Phases /\ "pick" \in PhasesOf[j.op] /\ "pick" \notin TxPhases
    BY <1>2 DEF Phases, PhasesOf, TxPhases
  <2> QED BY <1>1, <1>3, <1>4, <2>1, PhaseStep
<1>5. CASE job' = [job EXCEPT ![w] = WithAt(j, j.at + 1)]
  <2>1. "fetch" \in Phases /\ "fetch" \in PhasesOf[j.op] /\ "fetch" \notin TxPhases
        /\ x \in Nat \ {0}
    BY <1>2 DEF Phases, PhasesOf, TxPhases
  <2>2. WithAt(j, x) = WithPcAt(j, "fetch", x)
    BY <1>1, <1>2 DEF WithAt, WithPcAt, Job
  <2> HIDE DEF x
  <2>3. job' = [job EXCEPT ![w] = WithPcAt(j, "fetch", x)]
    BY <1>5, <2>2 DEF x
  <2> QED BY <1>1, <1>3, <2>1, <2>3, RewindStep
<1>6. ASSUME NEW d \in {j.meta[j.at], Damaged}, j.at <= Len(j.meta),
             job' = [job EXCEPT ![w] = WithPcOut(j, "rewrite", <<d>>)]
      PROVE  ApiInv'
  <2> DEFINE u == <<d>>
             r == WithPcOut(j, "rewrite", u)
  <2>1. d \in Checksums \cup {Damaged}
    <3>1. j.at \in 1 .. Len(j.meta)
      BY <1>2, <1>6
    <3>2. j.meta[j.at] \in Checksums
      BY <1>2, <3>1
    <3> QED BY <1>6, <3>2
  <2>2. u \in Seq(Checksums \cup {Damaged}) /\ "rewrite" \in Phases
    BY <2>1 DEF Phases
  <2> HIDE DEF u
  <2>3. r \in Job /\ Alike(r, j, {"pc", "out"}) /\ r.pc = "rewrite"
    BY <1>2, <2>2, PcOutUpdate
  <2>4. job' = [job EXCEPT ![w] = r]
    BY <1>6 DEF u
  <2> HIDE DEF r
  <2>5. r.op = j.op /\ r.key = j.key /\ r.content = j.content
    BY <2>3 DEF Alike, Locals
  <2>6. Fits(r) /\ r.pc \notin TxPhases
    BY <1>2, <2>3, <2>5 DEF Fits, PhasesOf, TxPhases
  <2> QED BY <1>1, <1>3, <2>3, <2>4, <2>5, <2>6, GoStep
<1> QED BY <1>4, <1>5, <1>6 DEF RepairRead, Goto, WithPc, WithAt, WithPcOut

\* chunks_.put of what was read.
LEMMA RewriteAction ==
  ASSUME ApiInv, NEW w \in Workers, RepairWrite(w)
  PROVE  ApiInv'
<1> DEFINE j == job[w]
           x == j.at + 1
           e == <<>>
           r == WithPcAtOut(j, "fetch", x, e)
<1>1. /\ j.pc = "rewrite" /\ Still(Home[w]) /\ requested' = requested
      /\ job' = [job EXCEPT ![w] = r]
  BY DEF RepairWrite, Goto, WithPcAtOut, Still
<1>2. j \in Job /\ Fits(j) /\ j.op = "repair" /\ RestTypes /\ j.at \in Nat \ {0}
  BY <1>1, RepairFacts
<1>3. RestTypes'
  BY <1>2 DEF RepairWrite, RestTypes, log
<1>4. "fetch" \in Phases /\ x \in Nat \ {0} /\ e \in Seq(Checksums \cup {Damaged})
  BY <1>2 DEF Phases
<1> HIDE DEF x, e
<1>5. r \in Job /\ Alike(r, j, {"pc", "at", "out"}) /\ r.pc = "fetch"
  BY <1>2, <1>4, PcAtOutUpdate
<1> HIDE DEF r
<1>6. r.op = j.op /\ r.key = j.key /\ r.content = j.content
  BY <1>5 DEF Alike, Locals
<1>7. Fits(r) /\ r.pc \notin TxPhases
  BY <1>2, <1>5, <1>6 DEF Fits, PhasesOf, TxPhases
<1> QED BY <1>1, <1>3, <1>5, <1>6, <1>7, GoStep

-----------------------------------------------------------------------------
(* Requests and processes *)

\* A request is well typed.
LEMMA CallTypes ==
  ASSUME RestTypes, NEW w \in Workers, NEW op, NEW p, NEW k, NEW o, Accept(w, op, p, k, o), Call,
         requested' \subseteq Nodes \X Keys \X (Contents \cup {Nil}), gone' \subseteq gone,
         mixed' \in {mixed, mixed \cup {Home[w]}}
  PROVE  RestTypes'
<1>1. calls' \in Nat
  BY DEF Call, RestTypes
<1>2. UNCHANGED <<wal, ended, walGood, up, stored, faults, crashes, marred>>
  BY DEF Accept, log
<1>3. mixed' \subseteq Nodes
  BY ApiAssumption DEF RestTypes
<1> QED BY <1>1, <1>2, <1>3 DEF RestTypes

\* The five requests.
LEMMA CallActions ==
  ASSUME ApiInv, NEW w \in Workers,
         \/ \E k \in Keys : \/ CallGet(w, k) \/ CallMetadata(w, k) \/ CallDelete(w, k)
                            \/ \E o \in Contents : CallPut(w, k, o)
         \/ CallRepair(w)
  PROVE  ApiInv'
<1>1. RestTypes /\ Home[w] \in Nodes
  BY Here
<1>2. ASSUME NEW k \in Keys, NEW o \in Contents, CallPut(w, k, o)
      PROVE  ApiInv'
  <2>1. Accept(w, "put", "log", k, o) /\ Call /\ gone' \subseteq gone
        /\ mixed' \in {mixed, mixed \cup {Home[w]}}
    BY <1>2 DEF CallPut
  <2>2. /\ <<Home[w], k, o>> \in requested' /\ requested \subseteq requested'
        /\ requested' \subseteq Nodes \X Keys \X (Contents \cup {Nil})
    BY <1>1, <1>2 DEF CallPut, RestTypes
  <2>3. RestTypes'
    BY <1>1, <2>1, <2>2, CallTypes
  <2>4. "put" \in Ops /\ "log" \in PhasesOf["put"]
    BY DEF Ops, PhasesOf
  <2> QED BY <2>1, <2>2, <2>3, <2>4, CallStep
<1>3. ASSUME NEW k \in Keys, NEW op \in {"get", "metadata"},
             Accept(w, op, "select", k, Nil), Call, UNCHANGED <<requested, gone, mixed>>
      PROVE  ApiInv'
  <2>1. RestTypes' /\ requested \subseteq requested'
    BY <1>1, <1>3, CallTypes DEF RestTypes
  <2>2. op \in Ops /\ "select" \in PhasesOf[op]
    BY DEF Ops, PhasesOf
  <2> QED BY <1>3, <2>1, <2>2, CallStep
<1>4. ASSUME NEW k \in Keys, CallDelete(w, k)
      PROVE  ApiInv'
  <2>1. Accept(w, "delete", "select", k, Nil) /\ Call /\ gone' \subseteq gone
        /\ mixed' \in {mixed, mixed \cup {Home[w]}}
    BY <1>4 DEF CallDelete
  <2>2. /\ <<Home[w], k, Nil>> \in requested' /\ requested \subseteq requested'
        /\ requested' \subseteq Nodes \X Keys \X (Contents \cup {Nil})
    BY <1>1, <1>4 DEF CallDelete, RestTypes
  <2>3. RestTypes'
    BY <1>1, <2>1, <2>2, CallTypes
  <2>4. "delete" \in Ops /\ "select" \in PhasesOf["delete"]
    BY DEF Ops, PhasesOf
  <2> QED BY <2>1, <2>2, <2>3, <2>4, CallStep
<1>5. ASSUME CallRepair(w)
      PROVE  ApiInv'
  <2>1. Accept(w, "repair", "list", Nil, Nil) /\ Call /\ UNCHANGED <<requested, gone, mixed>>
    BY <1>5 DEF CallRepair
  <2>2. RestTypes' /\ requested \subseteq requested'
    BY <1>1, <2>1, CallTypes DEF RestTypes
  <2>3. "repair" \in Ops /\ "list" \in PhasesOf["repair"]
    BY DEF Ops, PhasesOf
  <2> QED BY <2>1, <2>2, <2>3, CallStep
<1> QED BY <1>2, <1>3, <1>4, <1>5 DEF CallGet, CallMetadata

\* The caller has its answer.
LEMMA ReturnAction ==
  ASSUME ApiInv, NEW w \in Workers, Return(w)
  PROVE  ApiInv'
<1>1. job' = [job EXCEPT ![w] = Idle] /\ Still(Home[w]) /\ requested' = requested
  BY DEF Return, Goto, Still
<1>2. RestTypes'
  BY Here DEF Return, RestTypes, log
<1>3. Idle \in Job /\ Fits(Idle) /\ Idle.pc \notin TxPhases
  BY IdleFits DEF TxPhases
<1>4. Asked(Home[w], Idle, requested')
  BY IdleFits DEF Asked
<1> QED BY <1>1, <1>2, <1>3, <1>4, MoveStep

\* A process dies.
LEMMA CrashAction ==
  ASSUME ApiInv, NEW n \in Nodes, Crash(n)
  PROVE  ApiInv'
<1>1. job \in [Workers -> Job] /\ TableTypes /\ RestTypes
  BY Types
<1>2. /\ committed' = committed /\ requested' = requested /\ undone' = undone
      /\ working' = [working EXCEPT ![n] = committed[n]]
      /\ inTx' = [inTx EXCEPT ![n] = FALSE]
      /\ job' = [w \in Workers |-> IF Home[w] = n THEN Idle ELSE job[w]]
  BY DEF Crash
<1>3. \A w \in Workers : job'[w] = IF Home[w] = n THEN Idle ELSE job[w]
  BY <1>2
<1>4. Idle \in Job /\ Fits(Idle) /\ Idle.pc \notin TxPhases /\ \A p, req : Asked(p, Idle, req)
  BY IdleFits DEF TxPhases, Asked
<1>5. TypeOK'
  <2>1. job' \in [Workers -> Job]
    <3> QED BY <1>1, <1>2, <1>4
  <2>2. TableTypes'
    BY <1>1 DEF Crash, TableTypes
  <2>3. RestTypes'
    <3>1. UNCHANGED log \/ \E w \in Workers : Home[w] = n /\ job[w].pc = "log"
                                               /\ CutAppend(n, LineOf(job[w]))
      BY DEF Crash
    <3>2. wal' \in [Nodes -> Seq(Line \cup {Torn})] /\ ended' \in [Nodes -> BOOLEAN]
          /\ marred' \subseteq Nodes
      <4>1. CASE UNCHANGED log
        BY <1>1, <4>1 DEF RestTypes, log
      <4>2. ASSUME NEW w \in Workers, job[w].pc = "log", CutAppend(n, LineOf(job[w]))
            PROVE  /\ wal' \in [Nodes -> Seq(Line \cup {Torn})] /\ ended' \in [Nodes -> BOOLEAN]
                   /\ marred' \subseteq Nodes
        <5>1. LineOf(job[w]) \in Line
          BY <4>2, Here, LineTyped
        <5>2. marred' = marred \cup {n} /\ wal' \in [Nodes -> Seq(Line \cup {Torn})]
              /\ ended' \in [Nodes -> BOOLEAN]
          <6> DEFINE l == LineOf(job[w])
          <6>1. l \in Line /\ l \in Line \cup {Torn} /\ CutAppend(n, l) /\ TRUE \in BOOLEAN
            BY <4>2, <5>1
          <6> HIDE DEF l
          <6> QED BY <1>1, <6>1, AppendTypes
        <5> QED BY <1>1, <5>2 DEF RestTypes
      <4> QED BY <3>1, <4>1, <4>2
    <3>3. UNCHANGED <<walGood, stored, calls, faults, requested, gone, mixed>>
          /\ crashes' = crashes + 1 /\ up' = [up EXCEPT ![n] = FALSE]
      BY DEF Crash
    <3> QED BY <1>1, <3>2, <3>3 DEF RestTypes
  <2> QED BY <2>1, <2>2, <2>3, TypesSplit DEF TypeOK, TableTypes, RestTypes
<1>6. \A w \in Workers : Fits(job'[w]) /\ Asked(Home[w], job'[w], requested')
  BY <1>2, <1>3, <1>4 DEF ApiInv
<1>7. \A p \in Nodes : working'[p] = IF p = n THEN committed[n] ELSE working[p]
  BY <1>1, <1>2 DEF TableTypes
<1>8. \A p \in Nodes : inTx'[p] = IF p = n THEN FALSE ELSE inTx[p]
  BY <1>1, <1>2 DEF TableTypes
<1>9. \A p \in Nodes : /\ Known(p, committed'[p], requested') /\ Known(p, working'[p], requested')
                       /\ (p \notin undone' => Whole(p, committed'[p], requested'))
                       /\ (~inTx'[p] => working'[p] = committed'[p])
  BY <1>2, <1>7, <1>8 DEF ApiInv
<1>10. ASSUME NEW w \in Workers, job'[w].pc \in TxPhases, Home[w] \notin undone'
       PROVE  /\ Home[w] # n /\ job[w].pc \in TxPhases
              /\ inTx'[Home[w]]
              /\ Written(Home[w], job'[w], working'[Home[w]], committed'[Home[w]], requested')
  <2>1. Home[w] # n /\ job'[w] = job[w] /\ Home[w] \in Nodes
    BY <1>3, <1>4, <1>10, ApiAssumption
  <2>2. inTx[Home[w]] /\ Written(Home[w], job[w], working[Home[w]], committed[Home[w]], requested)
    BY <1>2, <1>10, <2>1 DEF ApiInv
  <2> QED BY <1>2, <1>7, <1>8, <1>10, <2>1, <2>2
<1>11. Owned'
  BY <1>2, <1>10 DEF ApiInv, Owned
<1> QED BY <1>5, <1>6, <1>9, <1>10, <1>11 DEF ApiInv

\* A process starts again.
LEMMA RestartAction ==
  ASSUME ApiInv, NEW n \in Nodes, Restart(n)
  PROVE  ApiInv'
<1>1. job' = job /\ committed' = committed /\ working' = working /\ inTx' = inTx
      /\ changes' = changes /\ requested' = requested /\ undone' = undone
  BY DEF Restart, tables
<1>2. TypeOK'
  BY <1>1, Types DEF Restart, TypeOK, TableTypes, RestTypes, log
<1> QED BY <1>1, <1>2 DEF ApiInv, Owned

\* A stuttering step.
LEMMA StutterAction ==
  ASSUME ApiInv, UNCHANGED vars
  PROVE  ApiInv'
BY DEF ApiInv, Owned, TypeOK, vars

\* A step of a handler.
LEMMA StepAction ==
  ASSUME ApiInv, NEW w \in Workers, Step(w)
  PROVE  ApiInv'
BY LogAction, StoreAction, BeginAction, UpsertAction, ClearAction, InsertAction, CommitAction,
   RollbackAction, SelectAction, RowAction, ReadAction, GetReturnAction, DeleteRowsAction,
   DeleteObjectAction, ChangesAction, CountAction, RemoveAction, DeleteReturnAction,
   ListAction, PickAction, FetchAction, RewriteAction, ReturnAction
DEF Step

\* The invariant holds at the start.
LEMMA ApiStart == Init => ApiInv
<1> SUFFICES ASSUME Init PROVE ApiInv
  OBVIOUS
<1>1. NoTables \in Tables /\ \A k \in Keys : NoTables.objects[k] = Nil /\ NoTables.rows[k] = {}
  BY DEF NoTables, Tables
<1>2. TypeOK
  BY <1>1, IdleFits DEF Init, TypeOK
<1>3. \A w \in Workers : job[w] = Idle /\ Home[w] \in Nodes
  BY ApiAssumption DEF Init
<1>4. \A n \in Nodes : committed[n] = NoTables /\ working[n] = NoTables
  BY DEF Init
<1>5. \A w \in Workers : Fits(job[w]) /\ Asked(Home[w], job[w], requested)
                         /\ job[w].pc \notin TxPhases
  BY <1>3, IdleFits DEF Asked, TxPhases
<1>6. \A n \in Nodes : /\ Known(n, committed[n], requested) /\ Known(n, working[n], requested)
                       /\ Whole(n, committed[n], requested)
  BY <1>1, <1>4 DEF Known, Whole, Wanted
<1> QED BY <1>2, <1>4, <1>5, <1>6 DEF ApiInv, Owned

\* Every step keeps it.
LEMMA ApiStep ==
  ASSUME ApiInv, [Next]_vars
  PROVE  ApiInv'
BY CallActions, StepAction, CrashAction, RestartAction, StutterAction DEF Next

\* The invariant of the object plane: what every handler has in hand was asked
\* for, and a put inside its transaction is the only one on its node, unless a
\* failing statement has rolled a transaction of that node back.
THEOREM ApiInvariant == Spec => []ApiInv
<1>1. Init => ApiInv
  BY ApiStart
<1>2. ApiInv /\ [Next]_vars => ApiInv'
  BY ApiStep
<1> QED BY <1>1, <1>2, PTL DEF Spec

\* The state of the handlers, the tables and the log is well typed in every
\* reachable state: a handler's positions stay inside the content and the chunk
\* list it walks.
THEOREM ApiTypesKept == Spec => []TypeOK
<1>1. ApiInv => TypeOK
  BY DEF ApiInv
<1> QED BY <1>1, ApiInvariant, PTL

\* However many threads replace and delete an object while it is read row by
\* row, GET answers 200 only with a content that was PUT under that key on that
\* node.
THEOREM ReadsStayWhole == Spec => []ReadsWhole
<1>1. ApiInv => ReadsWhole
  <2> SUFFICES ASSUME ApiInv, NEW w \in Workers, job[w].pc = "done", job[w].op = "get",
                      job[w].status = "ok"
               PROVE  <<Home[w], job[w].key, job[w].out>> \in requested
    BY DEF ReadsWhole
  <2>1. job[w].out = job[w].content /\ job[w].content \in Contents
    BY Here DEF Fits
  <2>2. job[w].content # Nil
    BY <2>1, ContentFacts
  <2> QED BY <2>1, <2>2, Here DEF Asked
<1> QED BY <1>1, ApiInvariant, PTL

\* A PUT replaces the metadata of an object as a whole, whatever the other
\* threads, refused and failing statements and crashes do, on every node where
\* no failing statement has rolled the shared transaction back.
THEOREM PutsStayAtomic == Spec => []PutsAtomic
<1>1. ApiInv => PutsAtomic
  BY DEF ApiInv, Whole, Wanted, PutsAtomic
<1> QED BY <1>1, ApiInvariant, PTL
-----------------------------------------------------------------------------
(* Where the contents of the tables come from *)

\* The objects and the rows in t were in the tables of n, or a put of n is at
\* the statement that writes them.
From(n, t) ==
  \A k \in Keys :
     /\ \/ t.objects[k] \in {working[n].objects[k], committed[n].objects[k], Nil}
        \/ \E w \in Workers : /\ Home[w] = n /\ job[w].pc = "upsert" /\ job[w].key = k
                              /\ t.objects[k] = job[w].content
     /\ \A r \in t.rows[k] :
          \/ r \in working[n].rows[k] \cup committed[n].rows[k]
          \/ \E w \in Workers : /\ Home[w] = n /\ job[w].pc = "insert"
                                /\ r[2] = job[w].content[job[w].at]

\* So it is for the tables of every node after this step.
Derived == \A n \in Nodes : From(n, working'[n]) /\ From(n, committed'[n])

\* The tables stay, or become those of the connection or of the file.
LEMMA TurnDerived ==
  ASSUME \A n \in Nodes : /\ working'[n] \in {working[n], committed[n]}
                          /\ committed'[n] \in {working[n], committed[n]}
  PROVE  Derived
BY DEF Derived, From

\* A statement takes effect.
LEMMA StatementDerived ==
  ASSUME ApiInv, NEW n \in Nodes, NEW t, NEW some, Execute(n, t, some), From(n, t)
  PROVE  Derived
<1>1. TableTypes
  BY Types
<1>2. working'[n] = t /\ committed'[n] \in {committed[n], t}
  BY <1>1 DEF TableTypes, Execute
<1>3. \A p \in Nodes : p # n => working'[p] = working[p] /\ committed'[p] = committed[p]
  BY <1>1 DEF TableTypes, Execute
<1>4. \A p \in Nodes : From(p, working[p]) /\ From(p, committed[p])
  BY DEF From
<1> QED BY <1>2, <1>3, <1>4 DEF Derived

\* The tables change by a statement of a put or a delete, or by a turn of the
\* transaction.
LEMMA StepTables ==
  ASSUME ApiInv, NEW w \in Workers, Step(w)
  PROVE  LET n == Home[w]
             j == job[w]
             t == working[n] IN
         \/ j.pc = "upsert" /\ Execute(n, PutObject(t, j.key, j.content), 1)
         \/ j.pc = "insert" /\ Execute(n, PutRows(t, j.key, t.rows[j.key] \cup {<<j.at, j.content[j.at]>>}), 1)
         \/ j.pc \in {"clear", "delrows"} /\ \E some : Execute(n, PutRows(t, j.key, {}), some)
         \/ j.pc = "delobj" /\ \E some : Execute(n, PutObject(t, j.key, Nil), some)
         \/ BeginImmediate(n) \/ CommitTx(n) \/ RollbackTx(n) \/ UNCHANGED tables
<1>1. CASE PutUpsert(w)
  BY <1>1 DEF PutUpsert, Failed, WithObject, PutObject
<1>2. CASE PutInsert(w)
  BY <1>2 DEF PutInsert, Failed, WithRows, PutRows
<1>3. CASE PutClear(w) \/ DeleteRows(w)
  BY <1>3 DEF PutClear, DeleteRows, DeleteRowsOf, Failed, WithRows, PutRows
<1>4. CASE DeleteObject(w)
  BY <1>4 DEF DeleteObject, Failed, WithObject, PutObject
<1>5. CASE PutBegin(w) \/ PutCommit(w) \/ PutRollback(w)
  BY <1>5 DEF PutBegin, PutCommit, PutRollback
<1>6. CASE SelectObject(w) \/ SelectRow(w) \/ DeleteCount(w) \/ ListObjects(w)
  BY <1>6 DEF SelectObject, SelectRow, DeleteCount, ListObjects, Failed
<1>7. CASE \/ Log(w) \/ StoreChunk(w) \/ ReadChunk(w) \/ GetReturn(w) \/ DeleteChanges(w)
           \/ DeleteChunk(w) \/ DeleteReturn(w) \/ RepairNext(w) \/ RepairRead(w)
           \/ RepairWrite(w) \/ Return(w)
  BY <1>7 DEF Log, StoreChunk, ReadChunk, GetReturn, DeleteChanges, DeleteChunk, DeleteReturn,
              RepairNext, RepairRead, RepairWrite, Return
<1> QED BY <1>1, <1>2, <1>3, <1>4, <1>5, <1>6, <1>7 DEF Step

\* A handler that runs a statement has a key, a put a content.
LEMMA StatementFacts ==
  ASSUME ApiInv, NEW w \in Workers,
         job[w].pc \in {"upsert", "insert", "clear", "delrows", "delobj"}
  PROVE  /\ job[w].key \in Keys
         /\ job[w].pc \in {"upsert", "insert", "clear"} => job[w].content \in Contents
         /\ job[w].pc = "insert" => job[w].at \in 1 .. Len(job[w].content)
<1>1. job[w] \in Job /\ Fits(job[w])
  BY Here
<1>2. job[w].op \in {"put", "delete"}
      /\ (job[w].pc \in {"upsert", "insert", "clear"} => job[w].op = "put")
  BY <1>1, Handler DEF TxPhases
<1>3. job[w].key \in Keys
      /\ (job[w].pc \in {"upsert", "insert", "clear"} => job[w].content \in Contents)
  BY <1>1, <1>2 DEF Fits
<1>4. ASSUME job[w].pc = "insert"
      PROVE  job[w].at \in 1 .. Len(job[w].content)
  BY <1>1, <1>3, <1>4, JobFields, ContentFacts DEF Fits
<1> QED BY <1>3, <1>4

\* Every step of a handler writes what its put has in hand, or nothing new.
LEMMA StepDerived ==
  ASSUME ApiInv, NEW w \in Workers, Step(w)
  PROVE  Derived
<1> DEFINE n == Home[w]
           j == job[w]
           t == working[n]
           new == t.rows[j.key] \cup {<<j.at, j.content[j.at]>>}
<1>1. n \in Nodes /\ TableTypes /\ t \in Tables
  BY Here DEF TableTypes
<1>2. ASSUME j.pc \in {"upsert", "delobj"}, NEW o \in Contents \cup {Nil}, NEW some,
             Execute(n, PutObject(t, j.key, o), some),
             j.pc = "upsert" => o = j.content, j.pc = "delobj" => o = Nil
      PROVE  Derived
  <2> DEFINE u == PutObject(t, j.key, o)
  <2>1. /\ u.objects[j.key] = o /\ u.rows = t.rows
        /\ \A q \in Keys : q # j.key => u.objects[q] = t.objects[q]
    BY <1>1, <1>2, StatementFacts, ObjectWritten
  <2>2. Execute(n, u, some)
    BY <1>2
  <2> HIDE DEF u
  <2>3. From(n, u)
    BY <1>2, <2>1 DEF From
  <2> QED BY <1>1, <2>2, <2>3, StatementDerived
<1>3. ASSUME NEW r \in SUBSET Row, NEW some, Execute(n, PutRows(t, j.key, r), some),
             j.pc \in {"insert", "clear", "delrows"},
             \A q \in r : q \in t.rows[j.key] \/ (j.pc = "insert" /\ q[2] = j.content[j.at])
      PROVE  Derived
  <2> DEFINE u == PutRows(t, j.key, r)
  <2>1. /\ u.rows[j.key] = r /\ u.objects = t.objects
        /\ \A q \in Keys : q # j.key => u.rows[q] = t.rows[q]
    BY <1>1, <1>3, StatementFacts, RowsWritten
  <2>2. Execute(n, u, some)
    BY <1>3
  <2> HIDE DEF u
  <2>3. From(n, u)
    BY <1>3, <2>1 DEF From
  <2> QED BY <1>1, <2>2, <2>3, StatementDerived
<1>4. CASE BeginImmediate(n) \/ CommitTx(n) \/ RollbackTx(n) \/ UNCHANGED tables
  <2>1. \A p \in Nodes : /\ working'[p] \in {working[p], committed[p]}
                         /\ committed'[p] \in {working[p], committed[p]}
    BY <1>1, <1>4 DEF BeginImmediate, CommitTx, RollbackTx, tables, TableTypes
  <2> QED BY <2>1, TurnDerived
<1>5. CASE j.pc = "insert" /\ Execute(n, PutRows(t, j.key, new), 1)
  <2>1. j.key \in Keys /\ j.content \in Seq(Checksums) /\ j.at \in 1 .. Len(j.content)
    BY <1>5, StatementFacts, ContentFacts
  <2>2. new \in SUBSET Row
    <3>1. j.content[j.at] \in Checksums /\ j.at \in Nat \ {0} /\ t.rows[j.key] \in SUBSET Row
      BY <1>1, <2>1 DEF Tables, Row
    <3> QED BY <3>1 DEF Row
  <2>3. \A q \in new : q \in t.rows[j.key] \/ (j.pc = "insert" /\ q[2] = j.content[j.at])
    BY <1>5
  <2> HIDE DEF new
  <2> QED BY <1>3, <1>5, <2>2, <2>3
<1>6. CASE j.pc \in {"clear", "delrows"} /\ \E some : Execute(n, PutRows(t, j.key, {}), some)
  <2>1. {} \in SUBSET Row
    OBVIOUS
  <2> QED BY <1>3, <1>6, <2>1
<1>7. CASE j.pc = "upsert" /\ Execute(n, PutObject(t, j.key, j.content), 1)
  <2>1. j.content \in Contents \cup {Nil}
    BY <1>7, StatementFacts
  <2> QED BY <1>2, <1>7, <2>1
<1>8. CASE j.pc = "delobj" /\ \E some : Execute(n, PutObject(t, j.key, Nil), some)
  <2>1. Nil \in Contents \cup {Nil}
    OBVIOUS
  <2> QED BY <1>2, <1>8, <2>1
<1> QED BY <1>4, <1>5, <1>6, <1>7, <1>8, StepTables

\* A request that is accepted.
Calls(w) ==
  \/ \E k \in Keys : \/ CallGet(w, k) \/ CallMetadata(w, k) \/ CallDelete(w, k)
                     \/ \E o \in Contents : CallPut(w, k, o)
  \/ CallRepair(w)

\* Every step of the system, as the proofs below split it.
LEMMA NextCases ==
  ASSUME [Next]_vars
  PROVE  \/ \E w \in Workers : Calls(w) \/ Step(w)
         \/ \E n \in Nodes : Crash(n) \/ Restart(n)
         \/ UNCHANGED vars
BY DEF Next, Calls

\* Calls, restarts and stuttering leave the tables, a crash those of the file.
LEMMA NextDerived ==
  ASSUME ApiInv, [Next]_vars
  PROVE  Derived
<1>1. TableTypes
  BY Types
<1>2. CASE \E w \in Workers : Step(w)
  BY <1>2, StepDerived
<1>3. CASE \E n \in Nodes : Crash(n)
  <2>1. \A p \in Nodes : working'[p] \in {working[p], committed[p]} /\ committed'[p] = committed[p]
    BY <1>1, <1>3 DEF Crash, TableTypes
  <2> QED BY <2>1, TurnDerived
<1>4. CASE UNCHANGED tables
  BY <1>4, TurnDerived DEF tables
<1>5. (\E w \in Workers : Calls(w)) \/ (\E n \in Nodes : Restart(n)) \/ UNCHANGED vars
      => UNCHANGED tables
  BY DEF Calls, CallGet, CallMetadata, CallDelete, CallPut, CallRepair, Accept, Restart, vars, tables
<1> QED BY <1>2, <1>3, <1>4, <1>5, NextCases

-----------------------------------------------------------------------------
(* What a step does to its thread *)

\* r is j in phase p at position x, with the same request and chunks in hand.
Same(r, j, p, x) ==
  /\ r.op = j.op /\ r.key = j.key /\ r.content = j.content /\ r.meta = j.meta
  /\ r.pc = p /\ r.at = x

\* Which locals the assignments of the handlers keep.
LEMMA KeptLocals ==
  ASSUME NEW j \in Job, NEW p, NEW x, NEW y
  PROVE  /\ Same(WithPc(j, p), j, p, j.at)
         /\ Same(WithAt(j, x), j, j.pc, x)
         /\ Same(WithPcAt(j, p, x), j, p, x)
         /\ Same(WithPcStatus(j, p, y), j, p, j.at)
         /\ Same(WithAtOut(j, x, y), j, j.pc, x)
         /\ Same(WithPcTodo(j, p, y), j, p, j.at)
         /\ Same(WithPcOut(j, p, y), j, p, j.at)
         /\ Same(WithPcAtOut(j, p, x, y), j, p, x)
<1>1. Same(WithPc(j, p), j, p, j.at)
  BY DEF Job, Same, WithPc
<1>2. Same(WithAt(j, x), j, j.pc, x)
  BY DEF Job, Same, WithAt
<1>3. Same(WithPcAt(j, p, x), j, p, x)
  BY DEF Job, Same, WithPcAt
<1>4. Same(WithPcStatus(j, p, y), j, p, j.at)
  BY DEF Job, Same, WithPcStatus
<1>5. Same(WithAtOut(j, x, y), j, j.pc, x)
  BY DEF Job, Same, WithAtOut
<1>6. Same(WithPcTodo(j, p, y), j, p, j.at)
  BY DEF Job, Same, WithPcTodo
<1>7. Same(WithPcOut(j, p, y), j, p, j.at)
  BY DEF Job, Same, WithPcOut
<1>8. Same(WithPcAtOut(j, p, x, y), j, p, x)
  BY DEF Job, Same, WithPcAtOut
<1> QED BY <1>1, <1>2, <1>3, <1>4, <1>5, <1>6, <1>7, <1>8

\* The chunks in hand after a step of w were in hand, or in a row of the tables.
Carried(w) ==
  \A i \in DOMAIN job'[w].meta :
     \/ \E h \in DOMAIN job[w].meta : job[w].meta[h] = job'[w].meta[i]
     \/ Referenced(Home[w], job'[w].meta[i])

\* A thread that reads the metadata, reads chunks or repairs.
Reads(w) ==
  \/ SelectObject(w) \/ SelectRow(w) \/ ReadChunk(w) \/ GetReturn(w)
  \/ ListObjects(w) \/ RepairNext(w) \/ RepairRead(w) \/ RepairWrite(w)

\* What a reading step does to the locals j of its thread.
ReaderMove(j, r) ==
  /\ r.op = j.op /\ j.op # "put" /\ j.pc # "done"
  /\ j.op = "delete" => r.pc \in {"rows", "log", "done"}

\* The reads, one by one.
LEMMA ReaderMoves ==
  ASSUME ApiInv, NEW w \in Workers, Reads(w)
  PROVE  ReaderMove(job[w], job'[w]) /\ Carried(w)
<1> DEFINE j == job[w]
           r == job'[w]
<1>1. j \in Job /\ Fits(j) /\ job \in [Workers -> Job]
  BY Here
<1>2. \A p, x : Same(r, j, p, x) => Carried(w)
  BY DEF Same, Carried
<1>3. CASE SelectObject(w)
  <2>1. j.pc = "select" /\ j.op \in {"get", "metadata", "delete", "repair"}
    BY <1>1, <1>3, Handler DEF SelectObject
  <2>2. \/ \E o : r = WithPcContent(j, "rows", o)
        \/ r = WithPc(j, "pick") /\ j.op = "repair"
        \/ r = WithPcStatus(j, "done", "error")
    BY <1>1, <1>3 DEF SelectObject, Goto, Missed, WithPcContent, WithPc, WithPcStatus, Done
  <2>3. ASSUME NEW o, r = WithPcContent(j, "rows", o)
        PROVE  r.op = j.op /\ r.pc = "rows" /\ r.meta = j.meta
    BY <1>1, <2>3 DEF WithPcContent, Job
  <2>4. \/ r.op = j.op /\ r.pc = "rows" /\ r.meta = j.meta
        \/ Same(r, j, "pick", j.at) /\ j.op = "repair"
        \/ Same(r, j, "done", j.at)
    BY <1>1, <2>2, <2>3, KeptLocals
  <2> QED BY <2>1, <2>4 DEF ReaderMove, Same, Carried
<1>4. CASE SelectRow(w)
  <2>1. j.pc = "rows" /\ j.op \in {"get", "metadata", "delete", "repair"} /\ j.key \in Keys
    BY <1>1, <1>4, Handler DEF SelectRow, Fits
  <2>2. \/ r = Described(j)
        \/ \E q \in working[Home[w]].rows[j.key] : r = WithAtMeta(j, q[1] + 1, Append(j.meta, q[2]))
    BY <1>1, <1>4 DEF SelectRow, Goto, WithAtMeta
  <2>3. ASSUME r = Described(j)
        PROVE  ReaderMove(j, r) /\ Carried(w)
    <3>1. j.op = "get" => Described(j) = WithPcAt(j, "read", 1)
      BY DEF Described, Rewind, WithPcAt
    <3>2. j.op = "metadata" => Described(j) = WithPcStatus(j, "done", "ok")
      BY DEF Described, Done, WithPcStatus
    <3>3. j.op = "delete" => Described(j) = WithPcAt(j, "log", 1)
      BY DEF Described, Rewind, WithPcAt
    <3>4. j.op = "repair" => Described(j) = WithPcAt(j, "fetch", 1)
      BY DEF Described, Rewind, WithPcAt
    <3>5. \E p, x : Same(r, j, p, x) /\ (j.op = "delete" => p = "log")
      BY <1>1, <2>1, <2>3, <3>1, <3>2, <3>3, <3>4, KeptLocals
    <3> QED BY <1>2, <2>1, <3>5 DEF ReaderMove, Same
  <2>4. ASSUME NEW q \in working[Home[w]].rows[j.key],
               r = WithAtMeta(j, q[1] + 1, Append(j.meta, q[2]))
        PROVE  ReaderMove(j, r) /\ Carried(w)
    <3> DEFINE m == Append(j.meta, q[2])
               c == q[2]
    <3>1. r.op = j.op /\ r.pc = j.pc /\ r.meta = m
      BY <1>1, <2>4 DEF WithAtMeta, Job
    <3>2. j.meta \in Seq(Checksums) /\ c \in Checksums
      <4>1. working[Home[w]] \in Tables
        BY Here DEF TableTypes
      <4> QED BY <1>1, <2>1, <4>1, JobFields DEF Tables
    <3>3. Referenced(Home[w], c)
      BY <2>1 DEF Referenced
    <3>4. \A i \in DOMAIN m : (i \in DOMAIN j.meta /\ m[i] = j.meta[i]) \/ m[i] = c
      <4> HIDE DEF c
      <4>1. /\ Len(m) = Len(j.meta) + 1 /\ m[Len(j.meta) + 1] = c /\ Len(j.meta) \in Nat
            /\ \A i \in 1 .. Len(j.meta) : m[i] = j.meta[i]
            /\ m \in Seq(Checksums)
        BY <3>2, AppendProperties DEF c
      <4>2. DOMAIN m = 1 .. Len(j.meta) + 1 /\ DOMAIN j.meta = 1 .. Len(j.meta)
        BY <3>2, <4>1
      <4> HIDE DEF m
      <4> QED BY <4>1, <4>2
    <3> HIDE DEF c, m
    <3> QED BY <2>1, <3>1, <3>3, <3>4 DEF ReaderMove, Carried
  <2> QED BY <2>2, <2>3, <2>4
<1>5. CASE ReadChunk(w) \/ GetReturn(w)
  <2>1. j.pc = "read" /\ j.op = "get"
    BY <1>1, <1>5, Handler DEF ReadChunk, GetReturn
  <2>2. \/ \E x, u : r = WithAtOut(j, x, u)
        \/ \E t : r = WithPcStatus(j, "done", t)
    BY <1>1, <1>5 DEF ReadChunk, GetReturn, Goto, WithAtOut, WithPcStatus, Done
  <2>3. \E p, x : Same(r, j, p, x)
    BY <1>1, <2>2, KeptLocals
  <2> QED BY <1>2, <2>1, <2>3 DEF ReaderMove, Same
<1>6. CASE RepairNext(w)
  <2>1. j.op = "repair" /\ j.pc = "pick"
    BY <1>1, <1>6, Handler DEF RepairNext
  <2>2. \/ \E k \in j.todo : r = Picked(j.op, k, j.todo \ {k})
        \/ r = WithPcStatus(j, "done", "ok")
    BY <1>1, <1>6 DEF RepairNext, Goto, WithPcStatus, Done, Picked
  <2>3. ASSUME NEW k \in j.todo, r = Picked(j.op, k, j.todo \ {k})
        PROVE  r.op = j.op /\ r.meta = <<>>
    <3>1. j.op \in Ops /\ k \in Keys /\ j.todo \ {k} \in SUBSET Keys
      BY <1>1, <2>1, <2>3, JobFields DEF Ops
    <3>2. Alike(r, Idle, {"pc", "op", "key", "todo"}) /\ r.op = j.op
      BY <2>3, <3>1, FreshPick
    <3> QED BY <3>2 DEF Alike, Locals, Idle
  <2>4. ASSUME r = WithPcStatus(j, "done", "ok")
        PROVE  r.op = j.op /\ Carried(w)
    BY <1>1, <1>2, <2>4, KeptLocals DEF Same
  <2>5. r.meta = <<>> => Carried(w)
    BY DEF Carried
  <2> QED BY <2>1, <2>2, <2>3, <2>4, <2>5 DEF ReaderMove
<1>7. CASE ListObjects(w) \/ RepairRead(w) \/ RepairWrite(w)
  <2>1. j.op = "repair" /\ j.pc # "done"
    BY <1>1, <1>7, Handler DEF ListObjects, RepairRead, RepairWrite
  <2>2. \/ \E T : r = WithPcTodo(j, "pick", T)
        \/ r = WithPc(j, "pick")
        \/ \E x : r = WithAt(j, x)
        \/ \E u : r = WithPcOut(j, "rewrite", u)
        \/ \E x : r = WithPcAtOut(j, "fetch", x, <<>>)
    BY <1>1, <1>7 DEF ListObjects, RepairRead, RepairWrite, Goto, WithPcTodo, WithPc,
                      WithAt, WithPcOut, WithPcAtOut
  <2>3. \E p, x : Same(r, j, p, x)
    BY <1>1, <2>2, KeptLocals
  <2> QED BY <1>2, <2>1, <2>3 DEF ReaderMove, Same
<1> QED BY <1>3, <1>4, <1>5, <1>6, <1>7 DEF Reads

\* A step of a put that is past append.
PutStep(w) ==
  \/ StoreChunk(w) \/ PutBegin(w) \/ PutUpsert(w) \/ PutClear(w) \/ PutInsert(w)
  \/ PutCommit(w) \/ PutRollback(w)

\* The phases of such a put.
Writing == {"store", "begin"} \cup TxPhases

\* Where it goes on.
LEMMA PutMoves ==
  ASSUME ApiInv, NEW w \in Workers, PutStep(w)
  PROVE  LET j == job[w]
             r == job'[w] IN
         /\ j.op = "put" /\ j.pc \in Writing
         /\ \E p, x : Same(r, j, p, x)
         /\ j.pc = "store" => \/ r.pc = "done"
                              \/ r.pc = "store" /\ r.at = j.at + 1
                              \/ r.pc = "begin" /\ j.at = Len(j.content)
         /\ j.pc \in {"begin"} \cup TxPhases => r.pc \in {"done"} \cup TxPhases
<1> DEFINE j == job[w]
           r == job'[w]
<1>1. j \in Job /\ Fits(j) /\ job \in [Workers -> Job]
  BY Here
<1>2. j.pc \in Writing
  BY DEF PutStep, StoreChunk, PutBegin, PutUpsert, PutClear, PutInsert, PutCommit, PutRollback,
         TxPhases, Writing
<1>3. j.op = "put"
  BY <1>1, <1>2, Handler DEF Writing
<1>4. CASE StoreChunk(w)
  <2>1. j.pc = "store" /\ j.pc \notin {"begin"} \cup TxPhases
    BY <1>4 DEF StoreChunk, TxPhases
  <2>2. \/ r = WithPcAt(j, "begin", 1) /\ j.at = Len(j.content)
        \/ r = WithAt(j, j.at + 1)
        \/ r = WithPcStatus(j, "done", "error")
    BY <1>1, <1>4 DEF StoreChunk, Goto, Rewind, Done, WithPcAt, WithAt, WithPcStatus
  <2>3. \/ Same(r, j, "begin", 1) /\ j.at = Len(j.content)
        \/ Same(r, j, "store", j.at + 1)
        \/ Same(r, j, "done", j.at)
    BY <1>1, <2>1, <2>2, KeptLocals
  <2> QED BY <1>2, <1>3, <2>1, <2>3 DEF Same
<1>5. CASE ~StoreChunk(w)
  <2>1. j.pc \in {"begin"} \cup TxPhases /\ j.pc # "store"
    BY <1>5 DEF PutStep, PutBegin, PutUpsert, PutClear, PutInsert, PutCommit, PutRollback, TxPhases
  <2>2. \/ \E p \in TxPhases : r = WithPc(j, p)
        \/ j.pc = "insert" /\ \E x : r = WithAt(j, x)
        \/ \E x : r = WithPcStatus(j, "done", x)
    <3>1. CASE PutBegin(w)
      BY <1>1, <3>1 DEF PutBegin, Goto, Done, WithPc, WithPcStatus, TxPhases
    <3>2. CASE PutUpsert(w) \/ PutClear(w)
      BY <1>1, <3>2 DEF PutUpsert, PutClear, DeleteRowsOf, Goto, WithPc, TxPhases
    <3>3. CASE PutInsert(w)
      BY <1>1, <3>3 DEF PutInsert, Goto, WithPc, WithAt, TxPhases
    <3>4. CASE PutCommit(w) \/ PutRollback(w)
      BY <1>1, <3>4 DEF PutCommit, PutRollback, Goto, Done, WithPcStatus
    <3> QED BY <1>5, <3>1, <3>2, <3>3, <3>4 DEF PutStep
  <2>3. \E x : \/ \E p \in TxPhases : Same(r, j, p, x)
               \/ j.pc = "insert" /\ Same(r, j, j.pc, x)
               \/ Same(r, j, "done", x)
    BY <1>1, <2>2, KeptLocals
  <2>4. r.pc \in {"done"} \cup TxPhases
    BY <2>3 DEF Same, TxPhases
  <2> QED BY <1>2, <1>3, <2>1, <2>3, <2>4
<1> QED BY <1>4, <1>5

\* A step of a delete that is past append.
DeleteStep(w) ==
  \/ DeleteRows(w) \/ DeleteObject(w) \/ DeleteChanges(w) \/ DeleteCount(w) \/ DeleteChunk(w)
  \/ DeleteReturn(w)

\* It removes a chunk after a count of 0, if the count could be read.
LEMMA DeleteMoves ==
  ASSUME ApiInv, NEW w \in Workers, DeleteStep(w)
  PROVE  LET j == job[w]
             r == job'[w] IN
         /\ j.op = "delete" /\ j.pc # "done"
         /\ \E p, x : Same(r, j, p, x)
         /\ r.pc = "remove" =>
              /\ r.at = j.at
              /\ \/ faults' = faults + 1
                 \/ UNCHANGED tables /\ ~Referenced(Home[w], j.meta[j.at])
<1> DEFINE j == job[w]
           r == job'[w]
<1>1. j \in Job /\ Fits(j) /\ job \in [Workers -> Job]
  BY Here
<1>2. j.op = "delete" /\ j.pc # "done"
  <2>1. j.pc \in {"delrows", "delobj", "changes", "count", "remove"}
    BY DEF DeleteStep, DeleteRows, DeleteObject, DeleteChanges, DeleteCount, DeleteChunk,
           DeleteReturn
  <2> QED BY <1>1, <2>1, Handler
<1>3. CASE DeleteCount(w)
  <2>1. j.pc = "count"
    BY <1>3 DEF DeleteCount
  <2>2. \/ r = WithAt(j, j.at + 1)
        \/ /\ r = WithPc(j, "remove")
           /\ faults' = faults + 1 \/ (UNCHANGED tables /\ ~Referenced(Home[w], j.meta[j.at]))
    BY <1>1, <1>3 DEF DeleteCount, Goto, Failed, Fault, WithPc, WithAt
  <2>3. \/ Same(r, j, "count", j.at + 1)
        \/ /\ Same(r, j, "remove", j.at)
           /\ faults' = faults + 1 \/ (UNCHANGED tables /\ ~Referenced(Home[w], j.meta[j.at]))
    BY <1>1, <2>1, <2>2, KeptLocals
  <2> QED BY <1>2, <2>3 DEF Same
<1>4. CASE ~DeleteCount(w)
  <2>1. \/ \E p \in {"delobj", "changes", "count"} : r = WithPc(j, p)
        \/ \E x : r = WithPcAt(j, "count", x)
        \/ \E x : r = WithPcStatus(j, "done", x)
    <3>1. CASE DeleteRows(w) \/ DeleteObject(w)
      BY <1>1, <3>1 DEF DeleteRows, DeleteRowsOf, DeleteObject, Goto, WithPc
    <3>2. CASE DeleteChanges(w)
      BY <1>1, <3>2 DEF DeleteChanges, Goto, Done, WithPc, WithPcStatus
    <3>3. CASE DeleteChunk(w)
      BY <1>1, <3>3 DEF DeleteChunk, Goto, WithPcAt
    <3>4. CASE DeleteReturn(w)
      BY <1>1, <3>4 DEF DeleteReturn, Goto, Done, WithPcStatus
    <3> QED BY <1>4, <3>1, <3>2, <3>3, <3>4 DEF DeleteStep
  <2>2. \E p \in {"delobj", "changes", "count", "done"} : \E x : Same(r, j, p, x)
    BY <1>1, <2>1, KeptLocals
  <2> QED BY <1>2, <2>2 DEF Same
<1> QED BY <1>3, <1>4

\* append, or the error it reports.
LEMMA LogMoves ==
  ASSUME ApiInv, NEW w \in Workers, Log(w)
  PROVE  LET j == job[w]
             r == job'[w] IN
         /\ j.pc = "log" /\ j.at = 1 /\ j.op \in {"put", "delete"}
         /\ \/ Same(r, j, "store", j.at) /\ j.op = "put"
            \/ Same(r, j, "delrows", j.at) /\ j.op = "delete"
            \/ Same(r, j, "done", j.at)
<1> DEFINE j == job[w]
           r == job'[w]
<1>1. j \in Job /\ Fits(j) /\ job \in [Workers -> Job] /\ j.pc = "log"
  BY Here DEF Log
<1>2. j.op \in {"put", "delete"} /\ j.at = 1
  BY <1>1, LineTyped
<1>3. r = WithPc(j, IF j.op = "put" THEN "store" ELSE "delrows") \/ r = WithPcStatus(j, "done", "error")
  BY <1>1 DEF Log, Goto, Done, WithPc, WithPcStatus
<1> QED BY <1>1, <1>2, <1>3, KeptLocals

\* A request is given to a thread that waits.
LEMMA CallMoves ==
  ASSUME ApiInv, NEW w \in Workers, Calls(w)
  PROVE  /\ job[w] = Idle /\ job'[w].pc \in {"log", "select", "list"} /\ job'[w].meta = <<>>
         /\ UNCHANGED <<tables, log, stored, faults>>
         /\ requested \subseteq requested' /\ mixed \subseteq mixed'
         /\ \A v \in Workers : v # w => job'[v] = job[v]
         /\ job'[w].op = "put" =>
              (Home[w] \notin mixed' => Under(Home[w], "delete") = {})
         /\ job'[w].op = "delete" =>
              (Home[w] \notin mixed' => Under(Home[w], "put") = {})
<1>1. job \in [Workers -> Job]
  BY Here
<1>2. ASSUME NEW op \in Ops, NEW p \in {"log", "select", "list"}, NEW k \in Keys \cup {Nil},
             NEW o \in Contents \cup {Nil}, Accept(w, op, p, k, o)
      PROVE  /\ job[w] = Idle /\ job'[w].pc = p /\ job'[w].op = op /\ job'[w].meta = <<>>
             /\ UNCHANGED <<tables, log, stored, faults>>
             /\ \A v \in Workers : v # w => job'[v] = job[v]
  <2> DEFINE g == Given(p, op, k, o)
  <2>1. job' = [job EXCEPT ![w] = g] /\ UNCHANGED <<tables, log, stored, faults>>
        /\ job[w] = Idle
    BY <1>2 DEF Accept, Goto, Given
  <2>2. p \in Phases
    BY DEF Phases
  <2>3. Alike(g, Idle, {"pc", "op", "key", "content"}) /\ g.pc = p /\ g.op = op
    BY <2>2, FreshCall
  <2> HIDE DEF g
  <2>4. g.meta = <<>>
    BY <2>3 DEF Alike, Locals, Idle
  <2>5. job'[w] = g /\ \A v \in Workers : v # w => job'[v] = job[v]
    BY <1>1, <2>1
  <2> QED BY <2>1, <2>3, <2>4, <2>5
<1>3. ASSUME NEW k \in Keys, NEW o \in Contents, CallPut(w, k, o)
      PROVE  /\ Accept(w, "put", "log", k, o)
             /\ requested \subseteq requested' /\ mixed \subseteq mixed'
             /\ Home[w] \notin mixed' => Under(Home[w], "delete") = {}
  BY <1>3 DEF CallPut
<1>4. ASSUME NEW k \in Keys, CallGet(w, k) \/ CallMetadata(w, k)
      PROVE  /\ \E op \in {"get", "metadata"} : Accept(w, op, "select", k, Nil)
             /\ requested \subseteq requested' /\ mixed \subseteq mixed'
  BY <1>4 DEF CallGet, CallMetadata
<1>5. ASSUME NEW k \in Keys, CallDelete(w, k)
      PROVE  /\ Accept(w, "delete", "select", k, Nil)
             /\ requested \subseteq requested' /\ mixed \subseteq mixed'
             /\ Home[w] \notin mixed' => Under(Home[w], "put") = {}
  BY <1>5 DEF CallDelete
<1>6. ASSUME CallRepair(w)
      PROVE  /\ Accept(w, "repair", "list", Nil, Nil)
             /\ requested \subseteq requested' /\ mixed \subseteq mixed'
  BY <1>6 DEF CallRepair
<1> QED BY <1>2, <1>3, <1>4, <1>5, <1>6 DEF Calls, Ops

\* A step of a handler leaves the other threads alone.
LEMMA StepAlone ==
  ASSUME ApiInv, NEW w \in Workers, Step(w)
  PROVE  \A v \in Workers : v # w => job'[v] = job[v]
<1>1. job \in [Workers -> Job]
  BY Here
<1>2. \E r : job' = [job EXCEPT ![w] = r]
  BY DEF Step, Log, StoreChunk, PutBegin, PutUpsert, PutClear, PutInsert, PutCommit, PutRollback,
         SelectObject, SelectRow, ReadChunk, GetReturn, DeleteRows, DeleteRowsOf, DeleteObject,
         DeleteChanges, DeleteCount, DeleteChunk, DeleteReturn, ListObjects, RepairNext,
         RepairRead, RepairWrite, Return, Goto
<1> QED BY <1>1, <1>2

\* The steps of a handler, by kind.
LEMMA StepCases ==
  ASSUME NEW w \in Workers, Step(w)
  PROVE  Log(w) \/ PutStep(w) \/ Reads(w) \/ DeleteStep(w) \/ Return(w)
BY DEF Step, PutStep, Reads, DeleteStep

-----------------------------------------------------------------------------
(* The log *)

\* The log l has a whole record of content o under key k.
Has(l, k, o) == \E i \in DOMAIN l : l[i] = [key |-> k, content |-> o]

\* The log l has a record of every object in the tables t.
Recorded(t, l) == \A k \in Keys : t.objects[k] # Nil => Has(l, k, t.objects[k])

\* A log that no append marred ends with a newline and has a record of every
\* object of its node, and of every put that is past append.
LogInv ==
  \A n \in Nodes \ marred :
     /\ ended[n]
     /\ Recorded(committed[n], wal[n]) /\ Recorded(working[n], wal[n])
     /\ \A w \in Workers : Home[w] = n /\ job[w].pc \in Writing
                           => Has(wal[n], job[w].key, job[w].content)

\* Records stay in the log.
LEMMA LogGrows ==
  ASSUME NEW S, NEW l \in Seq(S), NEW x \in S
  PROVE  /\ \A k, o : Has(l, k, o) => Has(Append(l, x), k, o)
         /\ \A k, o : x = [key |-> k, content |-> o] => Has(Append(l, x), k, o)
<1> DEFINE m == Append(l, x)
<1>1. /\ m \in Seq(S) /\ Len(m) = Len(l) + 1 /\ m[Len(l) + 1] = x /\ Len(l) \in Nat
      /\ \A i \in 1 .. Len(l) : m[i] = l[i]
  BY AppendProperties
<1>2. DOMAIN m = 1 .. Len(l) + 1 /\ DOMAIN l = 1 .. Len(l)
  BY <1>1
<1> HIDE DEF m
<1>3. \A k, o : Has(l, k, o) => Has(m, k, o)
  BY <1>1, <1>2 DEF Has
<1>4. \A k, o : x = [key |-> k, content |-> o] => Has(m, k, o)
  BY <1>1, <1>2 DEF Has
<1> QED BY <1>3, <1>4 DEF m

\* What happens to the log of n: nothing, or its last line is marred, or thread
\* w has appended its record.
Kept(n) == wal'[n] = wal[n] /\ ended'[n] = ended[n]
Appended(w) ==
  /\ wal'[Home[w]] = Logged(wal[Home[w]], ended[Home[w]], LineOf(job[w]))
  /\ ended'[Home[w]]

\* append by thread w.
LEMMA LogWrites ==
  ASSUME ApiInv, NEW w \in Workers, Log(w)
  PROVE  /\ marred \subseteq marred'
         /\ \A p \in Nodes : p # Home[w] => Kept(p)
         /\ \/ Home[w] \in marred'
            \/ Appended(w)
            \/ Kept(Home[w]) /\ job'[w].pc = "done"
<1> DEFINE n == Home[w]
           j == job[w]
<1>1. n \in Nodes /\ job \in [Workers -> Job] /\ RestTypes /\ j \in Job
  BY Here
<1>2. ASSUME NEW l, NEW e, WriteLine(n, l, e)
      PROVE  /\ \A p \in Nodes : p # n => Kept(p)
             /\ wal'[n] = Logged(wal[n], ended[n], l) /\ ended'[n] = e
  BY <1>1, <1>2 DEF WriteLine, RestTypes, Kept
<1>3. ASSUME CutAppend(n, LineOf(j))
      PROVE  /\ marred' = marred \cup {n}
             /\ \A p \in Nodes : p # n => Kept(p)
  BY <1>2, <1>3 DEF CutAppend, Kept
<1>4. CASE walGood[n] /\ WriteLine(n, LineOf(j), TRUE) /\ marred' \in {marred, marred \cup {n}}
  BY <1>2, <1>4 DEF Appended
<1>5. CASE CutAppend(n, LineOf(j))
  BY <1>3, <1>5
<1>6. CASE WriteLine(n, Torn, TRUE) /\ marred' = marred \cup {n}
  BY <1>2, <1>6
<1>7. CASE UNCHANGED log /\ Goto(w, Done(j, "error"))
  <2>1. job'[w] = WithPcStatus(j, "done", "error")
    BY <1>1, <1>7 DEF Goto, Done, WithPcStatus
  <2>2. job'[w].pc = "done"
    BY <1>1, <2>1, KeptLocals DEF Same
  <2> QED BY <1>7, <2>2 DEF log, Kept
<1> QED BY <1>4, <1>5, <1>6, <1>7 DEF Log

\* Only append and a crash inside of it touch a log.
LEMMA LogsElsewhere ==
  ASSUME ApiInv, [Next]_vars, ~\E w \in Workers : Log(w)
  PROVE  marred \subseteq marred' /\ \A n \in Nodes \ marred' : Kept(n)
<1>1. CASE UNCHANGED log
  BY <1>1 DEF log, Kept
<1>2. ASSUME NEW n \in Nodes, Crash(n)
      PROVE  marred \subseteq marred' /\ \A p \in Nodes \ marred' : Kept(p)
  <2>1. CASE \E w \in Workers : CutAppend(n, LineOf(job[w]))
    <3>1. marred' = marred \cup {n} /\ \A p \in Nodes : p # n => Kept(p)
      <4>1. RestTypes
        BY Types
      <4> QED BY <2>1, <4>1 DEF CutAppend, WriteLine, Kept, RestTypes
    <3> QED BY <3>1
  <2> QED BY <1>1, <1>2, <2>1 DEF Crash
<1>3. ASSUME NEW w \in Workers, Step(w)
      PROVE  UNCHANGED log
  <2>1. PutStep(w) \/ Reads(w) \/ DeleteStep(w) \/ Return(w)
    BY <1>3, StepCases
  <2>2. CASE PutStep(w)
    BY <2>2 DEF PutStep, StoreChunk, PutBegin, PutUpsert, PutClear, DeleteRowsOf, PutInsert,
                PutCommit, PutRollback
  <2>3. CASE Reads(w)
    BY <2>3 DEF Reads, SelectObject, SelectRow, ReadChunk, GetReturn, ListObjects, RepairNext,
                RepairRead, RepairWrite
  <2>4. CASE DeleteStep(w)
    BY <2>4 DEF DeleteStep, DeleteRows, DeleteRowsOf, DeleteObject, DeleteChanges, DeleteCount,
                DeleteChunk, DeleteReturn
  <2>5. CASE Return(w)
    BY <2>5 DEF Return
  <2> QED BY <2>1, <2>2, <2>3, <2>4, <2>5
<1>4. (\E w \in Workers : Calls(w)) \/ (\E n \in Nodes : Restart(n)) \/ UNCHANGED vars
      => UNCHANGED log
  BY CallMoves DEF Restart, vars, log
<1> QED BY <1>1, <1>2, <1>3, <1>4, NextCases

\* A thread that is past append was there before this step, with the same
\* request, or its append has just returned.
LEMMA WritingBefore ==
  ASSUME ApiInv, [Next]_vars, NEW v \in Workers, job'[v].pc \in Writing
  PROVE  /\ job'[v].key = job[v].key /\ job'[v].content = job[v].content
         /\ \/ job[v].pc \in Writing
            \/ Log(v) /\ job[v].op = "put" /\ job'[v].pc # "done"
<1> DEFINE Goal == /\ job'[v].key = job[v].key /\ job'[v].content = job[v].content
                   /\ \/ job[v].pc \in Writing
                      \/ Log(v) /\ job[v].op = "put" /\ job'[v].pc # "done"
<1>1. CASE job'[v] = job[v]
  BY <1>1
<1>2. job'[v] # Idle /\ job'[v].pc \notin {"done", "log", "select", "list", "delrows"}
  BY IdleFits DEF Writing, TxPhases
<1>3. ASSUME Calls(v)
      PROVE  FALSE
  BY <1>2, <1>3, CallMoves
<1>4. ASSUME Step(v)
      PROVE  Goal
  <2>1. CASE Log(v)
    <3>1. \/ Same(job'[v], job[v], "store", job[v].at) /\ job[v].op = "put"
          \/ Same(job'[v], job[v], "delrows", job[v].at)
          \/ Same(job'[v], job[v], "done", job[v].at)
      BY <2>1, LogMoves
    <3> QED BY <1>2, <2>1, <3>1 DEF Same
  <2>2. CASE PutStep(v)
    BY <2>2, PutMoves DEF Same
  <2>3. CASE Reads(v) \/ DeleteStep(v)
    <3>1. job'[v].op # "put"
      BY <2>3, ReaderMoves, DeleteMoves DEF ReaderMove, Same
    <3>2. ApiInv'
      BY ApiStep
    <3>3. job'[v] \in Job /\ Fits(job'[v])
      BY <3>2 DEF ApiInv, TypeOK
    <3> QED BY <3>1, <3>3, Handler DEF Writing
  <2>4. CASE Return(v)
    BY <1>2, <2>4, Here DEF Return, Goto
  <2> QED BY <1>4, <2>1, <2>2, <2>3, <2>4, StepCases
<1>5. ASSUME NEW w \in Workers, w # v, Calls(w) \/ Step(w)
      PROVE  job'[v] = job[v]
  BY <1>5, CallMoves, StepAlone
<1>6. ASSUME NEW n \in Nodes, Crash(n)
      PROVE  job'[v] = job[v]
  BY <1>2, <1>6 DEF Crash
<1>7. (\E n \in Nodes : Restart(n)) \/ UNCHANGED vars => job'[v] = job[v]
  BY DEF Restart, vars
<1> QED BY <1>1, <1>3, <1>4, <1>5, <1>6, <1>7, NextCases

\* A log that stays unmarred keeps its records, and has one of every put that is
\* past append.
LEMMA LogStep ==
  ASSUME ApiInv, LogInv, [Next]_vars
  PROVE  LogInv'
<1> SUFFICES ASSUME NEW n \in Nodes \ marred'
             PROVE  /\ ended'[n]
                    /\ Recorded(committed'[n], wal'[n]) /\ Recorded(working'[n], wal'[n])
                    /\ \A w \in Workers : Home[w] = n /\ job'[w].pc \in Writing
                                          => Has(wal'[n], job'[w].key, job'[w].content)
  BY DEF LogInv
<1>1. n \in Nodes /\ n \notin marred
  BY LogWrites, LogsElsewhere
<1>2. /\ ended[n]
      /\ Recorded(committed[n], wal[n]) /\ Recorded(working[n], wal[n])
      /\ \A w \in Workers : Home[w] = n /\ job[w].pc \in Writing
                            => Has(wal[n], job[w].key, job[w].content)
  BY <1>1 DEF LogInv
<1>3. ASSUME NEW w \in Workers, Home[w] = n, job[w].pc = "log", Appended(w)
      PROVE  /\ ended'[n] /\ \A k, o : Has(wal[n], k, o) => Has(wal'[n], k, o)
             /\ job[w].op = "put" => Has(wal'[n], job[w].key, job[w].content)
  <2> DEFINE line == LineOf(job[w])
  <2>1. line \in Line \cup {Torn}
    BY <1>3, Here, LineTyped
  <2>2. wal[n] \in Seq(Line \cup {Torn})
    BY <1>1, Types DEF RestTypes
  <2>3. job[w].op = "put" => line = [key |-> job[w].key, content |-> job[w].content]
    BY DEF LineOf
  <2>4. wal'[n] = Append(wal[n], line) /\ ended'[n]
    BY <1>2, <1>3 DEF Appended, Logged
  <2> HIDE DEF line
  <2> QED BY <2>1, <2>2, <2>3, <2>4, LogGrows
<1>4. ended'[n] /\ \A k, o : Has(wal[n], k, o) => Has(wal'[n], k, o)
  <2>1. CASE Kept(n)
    BY <1>2, <2>1 DEF Kept
  <2>2. ASSUME NEW w \in Workers, Log(w), ~Kept(n)
        PROVE  Home[w] = n /\ Appended(w) /\ job[w].pc = "log"
    BY <1>1, <2>2, LogWrites, LogMoves
  <2> QED BY <1>3, <2>1, <2>2, LogsElsewhere
<1>5. ASSUME NEW w \in Workers, Home[w] = n, job[w].pc \in Writing
      PROVE  Has(wal'[n], job[w].key, job[w].content)
  BY <1>2, <1>4, <1>5
<1>6. ASSUME NEW t, From(n, t)
      PROVE  Recorded(t, wal'[n])
  <2> SUFFICES ASSUME NEW k \in Keys, t.objects[k] # Nil
               PROVE  Has(wal'[n], k, t.objects[k])
    BY DEF Recorded
  <2>1. \/ t.objects[k] \in {working[n].objects[k], committed[n].objects[k]}
        \/ \E w \in Workers : /\ Home[w] = n /\ job[w].pc = "upsert" /\ job[w].key = k
                              /\ t.objects[k] = job[w].content
    BY <1>6 DEF From
  <2>2. "upsert" \in Writing
    BY DEF Writing, TxPhases
  <2> QED BY <1>2, <1>4, <1>5, <2>1, <2>2 DEF Recorded
<1>7. Recorded(committed'[n], wal'[n]) /\ Recorded(working'[n], wal'[n])
  BY <1>1, <1>6, NextDerived DEF Derived
<1>8. ASSUME NEW w \in Workers, Home[w] = n, job'[w].pc \in Writing
      PROVE  Has(wal'[n], job'[w].key, job'[w].content)
  <2>1. job'[w].key = job[w].key /\ job'[w].content = job[w].content
    BY <1>8, WritingBefore
  <2>2. CASE job[w].pc \in Writing
    BY <1>5, <1>8, <2>1, <2>2
  <2>3. CASE Log(w) /\ job[w].op = "put" /\ job'[w].pc # "done"
    <3>1. Appended(w) /\ job[w].pc = "log"
      BY <1>8, <2>3, LogWrites, LogMoves
    <3> QED BY <1>3, <1>8, <2>1, <2>3, <3>1
  <2> QED BY <1>8, <2>2, <2>3, WritingBefore
<1> QED BY <1>4, <1>7, <1>8

\* The invariant of the log.
THEOREM LogInvariant == Spec => []LogInv
<1>1. Init => LogInv
  <2> SUFFICES ASSUME Init PROVE LogInv
    OBVIOUS
  <2>1. \A k \in Keys : NoTables.objects[k] = Nil
    BY DEF NoTables
  <2>2. \A w \in Workers : job[w].pc \notin Writing
    BY IdleFits DEF Init, Writing, TxPhases
  <2> QED BY <2>1, <2>2 DEF Init, LogInv, Recorded
<1>2. ApiInv /\ LogInv /\ [Next]_vars => LogInv'
  BY LogStep
<1> QED BY <1>1, <1>2, ApiInvariant, PTL DEF Spec

\* "Object mutations are logged before metadata commit": whatever the other
\* threads of the node do, whatever statements fail and whenever processes die,
\* the log has a whole record of every object in the tables, unless an append to
\* it raced with another one, failed or was cut by a crash.
THEOREM MutationsLoggedFirst == Spec => []LoggedFirst
<1>1. LogInv => LoggedFirst
  BY DEF LogInv, Recorded, Has, LoggedFirst
<1> QED BY <1>1, LogInvariant, PTL

-----------------------------------------------------------------------------
(* The chunks of the remaining objects *)

\* Node n was asked to store chunk c.
Origin(n, c) ==
  \E q \in requested : q[1] = n /\ q[3] # Nil /\ \E i \in DOMAIN q[3] : q[3][i] = c

\* The chunk c is stored, or n's deletes are not the only ones that count.
Safe(n, c) == c \in stored \/ Shared(n, c)

\* Chunk c is in a row of the connection or of the file of n.
Rowed(n, c) ==
  \E k \in Keys : \E r \in working[n].rows[k] \cup committed[n].rows[k] : r[2] = c

\* A put has stored the chunk at position i.
Filled(j, i) == (j.pc = "store" /\ i < j.at) \/ j.pc \in {"begin"} \cup TxPhases

\* The rows and the chunk lists of a node hold chunks it was asked to store.
Origins ==
  /\ \A n \in Nodes : \A c : Rowed(n, c) => Origin(n, c)
  /\ \A w \in Workers : \A i \in DOMAIN job[w].meta : Origin(Home[w], job[w].meta[i])

\* On a node that never mixed them there are only puts or only deletes.
Apart == \A n \in Nodes \ mixed : Under(n, "put") = {} \/ Under(n, "delete") = {}

\* A transaction belongs to a put that is inside of it.
Led ==
  faults = 0 => \A n \in Nodes : inTx[n] =>
                   \E w \in Workers : Home[w] = n /\ job[w].pc \in TxPhases

\* Rows refer to chunks that are safe, a put's stored chunks are safe, and what
\* a delete is about to remove is in no row.
ChunksSafe ==
  faults = 0 => \A n \in Nodes \ mixed :
     /\ \A c : Rowed(n, c) => Safe(n, c)
     /\ \A w \in Workers : Home[w] = n =>
          /\ job[w].op = "put" =>
               \A i \in DOMAIN job[w].content : Filled(job[w], i) => Safe(n, job[w].content[i])
          /\ job[w].pc = "remove" => ~Rowed(n, job[w].meta[job[w].at])

KeepInv == Origins /\ Apart /\ Led /\ ChunksSafe

\* Histories and the count of faults only grow.
LEMMA HistoriesGrow ==
  ASSUME ApiInv, [Next]_vars
  PROVE  /\ requested \subseteq requested' /\ mixed \subseteq mixed'
         /\ faults' = 0 => faults = 0 /\ faults' = faults
<1>1. faults \in Nat
  BY Types DEF RestTypes
<1>2. ASSUME faults' \in {faults, faults + 1}
      PROVE  faults' = 0 => faults = 0 /\ faults' = faults
  BY <1>1, <1>2
<1>3. ASSUME NEW w \in Workers, Step(w)
      PROVE  UNCHANGED <<requested, mixed>> /\ faults' \in {faults, faults + 1}
  <2>1. CASE PutStep(w)
    BY <2>1 DEF PutStep, StoreChunk, PutBegin, PutUpsert, PutClear, DeleteRowsOf, PutInsert,
                PutCommit, PutRollback, Failed, Fault
  <2>2. CASE Reads(w)
    BY <2>2 DEF Reads, SelectObject, SelectRow, ReadChunk, GetReturn, ListObjects, RepairNext,
                RepairRead, RepairWrite, Failed, Fault
  <2>3. CASE DeleteStep(w)
    BY <2>3 DEF DeleteStep, DeleteRows, DeleteRowsOf, DeleteObject, DeleteChanges, DeleteCount,
                DeleteChunk, DeleteReturn, Failed, Fault
  <2>4. CASE Log(w) \/ Return(w)
    BY <2>4 DEF Log, Return, Fault
  <2> QED BY <1>3, <2>1, <2>2, <2>3, <2>4, StepCases
<1>4. ASSUME NEW w \in Workers, Calls(w)
      PROVE  requested \subseteq requested' /\ mixed \subseteq mixed' /\ faults' = faults
  BY <1>4, CallMoves
<1>5. (\E n \in Nodes : Crash(n) \/ Restart(n)) \/ UNCHANGED vars
      => UNCHANGED <<requested, mixed, faults>>
  BY DEF Crash, Restart, vars
<1> QED BY <1>2, <1>3, <1>4, <1>5, NextCases

\* Requests stay known.
LEMMA OriginKept ==
  ASSUME requested \subseteq requested'
  PROVE  /\ \A n, c : Origin(n, c) => Origin(n, c)'
         /\ \A n, c : Shared(n, c) => Shared(n, c)'
BY DEF Origin, Shared

\* The rows after a step: the old ones, and one of a put at its insert.
LEMMA RowedBefore ==
  ASSUME ApiInv, [Next]_vars, NEW n \in Nodes, NEW c, Rowed(n, c)'
  PROVE  \/ Rowed(n, c)
         \/ \E w \in Workers : /\ Home[w] = n /\ job[w].pc = "insert"
                               /\ c = job[w].content[job[w].at]
<1>1. From(n, working'[n]) /\ From(n, committed'[n])
  BY NextDerived DEF Derived
<1>2. PICK k \in Keys : \E r \in working'[n].rows[k] \cup committed'[n].rows[k] : r[2] = c
  BY DEF Rowed
<1>3. PICK r \in working'[n].rows[k] \cup committed'[n].rows[k] : r[2] = c
  BY <1>2
<1>4. \/ r \in working[n].rows[k] \cup committed[n].rows[k]
      \/ \E w \in Workers : /\ Home[w] = n /\ job[w].pc = "insert"
                            /\ r[2] = job[w].content[job[w].at]
  BY <1>1, <1>3 DEF From
<1> QED BY <1>3, <1>4 DEF Rowed

\* What a put inserts was asked for, and stored.
LEMMA InsertFacts ==
  ASSUME ApiInv, NEW w \in Workers, job[w].pc = "insert"
  PROVE  /\ job[w].op = "put" /\ job[w].at \in DOMAIN job[w].content
         /\ Filled(job[w], job[w].at)
         /\ Origin(Home[w], job[w].content[job[w].at])
<1>1. job[w] \in Job /\ Fits(job[w]) /\ Asked(Home[w], job[w], requested)
  BY Here
<1>2. job[w].op = "put" /\ job[w].content \in Contents /\ job[w].at \in 1 .. Len(job[w].content)
  BY <1>1, StatementFacts, Handler DEF TxPhases
<1>3. job[w].content # Nil /\ DOMAIN job[w].content = 1 .. Len(job[w].content)
  BY <1>2, ContentFacts
<1>4. <<Home[w], job[w].key, job[w].content>> \in requested
  BY <1>1, <1>3 DEF Asked
<1>5. Origin(Home[w], job[w].content[job[w].at])
  BY <1>2, <1>3, <1>4 DEF Origin
<1>6. Filled(job[w], job[w].at)
  BY DEF Filled, TxPhases
<1> QED BY <1>2, <1>3, <1>5, <1>6

\* A thread's chunks after a step.
LEMMA NextCarried ==
  ASSUME ApiInv, [Next]_vars, NEW v \in Workers
  PROVE  Carried(v)
<1>1. CASE job'[v].meta = job[v].meta \/ job'[v].meta = <<>>
  BY <1>1 DEF Carried
<1>2. ASSUME Calls(v) PROVE job'[v].meta = <<>>
  BY <1>2, CallMoves
<1>3. ASSUME Step(v) PROVE job'[v].meta = <<>> \/ job'[v].meta = job[v].meta \/ Carried(v)
  <2>1. CASE Log(v)
    BY <2>1, LogMoves DEF Same
  <2>2. CASE PutStep(v)
    BY <2>2, PutMoves DEF Same
  <2>3. CASE DeleteStep(v)
    BY <2>3, DeleteMoves DEF Same
  <2>4. CASE Reads(v)
    BY <2>4, ReaderMoves
  <2>5. CASE Return(v)
    BY <2>5, Here DEF Return, Goto, Idle
  <2> QED BY <1>3, <2>1, <2>2, <2>3, <2>4, <2>5, StepCases
<1>4. ASSUME NEW w \in Workers, w # v, Calls(w) \/ Step(w)
      PROVE  job'[v] = job[v]
  BY <1>4, CallMoves, StepAlone
<1>5. ASSUME NEW n \in Nodes, Crash(n)
      PROVE  job'[v] = job[v] \/ job'[v].meta = <<>>
  BY <1>5 DEF Crash, Idle
<1>6. (\E n \in Nodes : Restart(n)) \/ UNCHANGED vars => job'[v] = job[v]
  BY DEF Restart, vars
<1> QED BY <1>1, <1>2, <1>3, <1>4, <1>5, <1>6, NextCases

\* Rows and chunk lists keep to what the node was asked to store.
LEMMA OriginsStep ==
  ASSUME ApiInv, Origins, [Next]_vars
  PROVE  Origins'
<1>1. \A n, c : Origin(n, c) => Origin(n, c)'
  BY HistoriesGrow, OriginKept
<1>2. ASSUME NEW n \in Nodes, NEW c, Rowed(n, c)'
      PROVE  Origin(n, c)'
  <2>1. Origin(n, c)
    BY <1>2, RowedBefore, InsertFacts DEF Origins
  <2> QED BY <1>1, <2>1
<1>3. ASSUME NEW w \in Workers, NEW i \in DOMAIN job'[w].meta
      PROVE  Origin(Home[w], job[w].meta[i])'
  <2>1. PICK c : c = job'[w].meta[i]
    OBVIOUS
  <2>2. \/ \E h \in DOMAIN job[w].meta : job[w].meta[h] = c
        \/ Referenced(Home[w], c)
    BY <1>3, <2>1, NextCarried DEF Carried
  <2>3. Referenced(Home[w], c) => Rowed(Home[w], c)
    BY DEF Referenced, Rowed
  <2>4. Origin(Home[w], c)
    BY <2>2, <2>3, Here DEF Origins
  <2>5. Origin(Home[w], c)'
    BY <1>1, <2>4
  <2> QED BY <2>1, <2>5 DEF Origin
<1> QED BY <1>2, <1>3 DEF Origins

\* A put or a delete that is under way was so before, or has just been accepted.
LEMMA UnderBefore ==
  ASSUME ApiInv, [Next]_vars, NEW v \in Workers,
         job'[v].op \in {"put", "delete"}, job'[v].pc # "done"
  PROVE  \/ job[v].op = job'[v].op /\ job[v].pc # "done"
         \/ Calls(v)
<1>1. CASE job'[v] = job[v]
  BY <1>1
<1>2. job'[v] # Idle
  BY IdleFits
<1>3. ASSUME Step(v) PROVE job[v].op = job'[v].op /\ job[v].pc # "done"
  <2>1. CASE Log(v)
    BY <2>1, LogMoves DEF Same
  <2>2. CASE PutStep(v)
    BY <2>2, PutMoves DEF Same, Writing, TxPhases
  <2>3. CASE DeleteStep(v)
    BY <2>3, DeleteMoves DEF Same
  <2>4. CASE Reads(v)
    BY <2>4, ReaderMoves DEF ReaderMove
  <2>5. CASE Return(v)
    BY <1>2, <2>5, Here DEF Return, Goto
  <2> QED BY <1>3, <2>1, <2>2, <2>3, <2>4, <2>5, StepCases
<1>4. ASSUME NEW w \in Workers, w # v, Calls(w) \/ Step(w)
      PROVE  job'[v] = job[v]
  BY <1>4, CallMoves, StepAlone
<1>5. ASSUME NEW n \in Nodes, Crash(n)
      PROVE  job'[v] = job[v]
  BY <1>2, <1>5 DEF Crash
<1>6. (\E n \in Nodes : Restart(n)) \/ UNCHANGED vars => job'[v] = job[v]
  BY DEF Restart, vars
<1> QED BY <1>1, <1>3, <1>4, <1>5, <1>6, NextCases

\* Puts and deletes stay apart, or the node is mixed.
LEMMA ApartStep ==
  ASSUME ApiInv, Apart, [Next]_vars
  PROVE  Apart'
<1> SUFFICES ASSUME NEW n \in Nodes, n \notin mixed', NEW u \in Workers, NEW v \in Workers,
                    Home[u] = n, job'[u].op = "put", job'[u].pc # "done",
                    Home[v] = n, job'[v].op = "delete", job'[v].pc # "done"
             PROVE  FALSE
  BY DEF Apart, Under
<1>1. n \notin mixed
  BY HistoriesGrow
<1>2. (job[u].op = "put" /\ job[u].pc # "done") \/ Calls(u)
  BY UnderBefore
<1>3. (job[v].op = "delete" /\ job[v].pc # "done") \/ Calls(v)
  BY UnderBefore
<1>4. ~(job[u].op = "put" /\ job[u].pc # "done" /\ job[v].op = "delete" /\ job[v].pc # "done")
  BY <1>1 DEF Apart, Under
<1>5. CASE Calls(u)
  <2>1. Under(n, "delete") = {} /\ job'[v] = job[v]
    BY <1>5, CallMoves
  <2> QED BY <2>1 DEF Under
<1>6. CASE Calls(v)
  <2>1. Under(n, "put") = {} /\ job'[u] = job[u]
    BY <1>6, CallMoves
  <2> QED BY <2>1 DEF Under
<1> QED BY <1>2, <1>3, <1>4, <1>5, <1>6

\* Without faults a put opens a transaction, and ends it before it leaves.
LEMMA TxBefore ==
  ASSUME ApiInv, NEW w \in Workers, Step(w), faults' = faults, NEW p \in Nodes, inTx'[p]
  PROVE  \/ p = Home[w] /\ job'[w].pc \in TxPhases
         \/ inTx[p] /\ (p = Home[w] => job[w].pc \notin TxPhases)
<1> DEFINE n == Home[w]
           j == job[w]
<1>1. n \in Nodes /\ TableTypes /\ j \in Job /\ job \in [Workers -> Job] /\ faults \in Nat
  BY Here DEF RestTypes
<1>2. faults' # faults + 1
  BY <1>1
<1>3. CASE PutBegin(w)
  <2>1. j.pc \notin TxPhases
    BY <1>3 DEF PutBegin, TxPhases
  <2>2. CASE BeginImmediate(n) /\ Goto(w, [j EXCEPT !.pc = "upsert"])
    <3>1. job'[w] = WithPc(j, "upsert")
      BY <1>1, <2>2 DEF Goto, WithPc
    <3>2. job'[w].pc \in TxPhases
      BY <1>1, <3>1, KeptLocals DEF Same, TxPhases
    <3>3. p # n => inTx'[p] = inTx[p]
      BY <1>1, <2>2 DEF BeginImmediate, TableTypes
    <3> QED BY <3>2, <3>3
  <2>3. CASE UNCHANGED tables
    BY <2>1, <2>3 DEF tables
  <2> QED BY <1>3, <2>2, <2>3 DEF PutBegin
<1>4. CASE PutUpsert(w) \/ PutClear(w) \/ PutInsert(w)
  <2>1. inTx' = inTx
    BY <1>2, <1>4 DEF PutUpsert, PutClear, DeleteRowsOf, PutInsert, Failed, Fault, Execute, tables
  <2>2. \/ \E q \in TxPhases : job'[w] = WithPc(j, q)
        \/ j.pc = "insert" /\ \E x : job'[w] = WithAt(j, x)
    BY <1>1, <1>4 DEF PutUpsert, PutClear, DeleteRowsOf, PutInsert, Goto, WithPc, WithAt, TxPhases
  <2>3. \E x : \/ \E q \in TxPhases : Same(job'[w], j, q, x)
               \/ j.pc = "insert" /\ Same(job'[w], j, j.pc, x)
    BY <1>1, <2>2, KeptLocals
  <2>4. job'[w].pc \in TxPhases
    BY <2>3 DEF Same, TxPhases
  <2> QED BY <2>1, <2>4
<1>5. CASE PutCommit(w) \/ PutRollback(w)
  <2>1. CommitTx(n) \/ RollbackTx(n) \/ (~inTx[n] /\ UNCHANGED tables)
    BY <1>2, <1>5 DEF PutCommit, PutRollback, Fault
  <2>2. ~inTx'[n] /\ \A q \in Nodes : q # n => inTx'[q] = inTx[q]
    BY <1>1, <2>1 DEF CommitTx, RollbackTx, tables, TableTypes
  <2> QED BY <2>2
<1>6. CASE StoreChunk(w)
  BY <1>6 DEF StoreChunk, tables, TxPhases
<1>7. CASE Reads(w)
  BY <1>2, <1>7 DEF Reads, SelectObject, SelectRow, ReadChunk, GetReturn, ListObjects, RepairNext,
                    RepairRead, RepairWrite, Failed, Fault, tables, TxPhases
<1>8. CASE DeleteStep(w)
  BY <1>2, <1>8 DEF DeleteStep, DeleteRows, DeleteRowsOf, DeleteObject, DeleteChanges, DeleteCount,
                    DeleteChunk, DeleteReturn, Failed, Fault, Execute, tables, TxPhases
<1>9. CASE Log(w) \/ Return(w)
  BY <1>9 DEF Log, Return, tables, TxPhases
<1> QED BY <1>3, <1>4, <1>5, <1>6, <1>7, <1>8, <1>9, StepCases DEF PutStep

\* An open transaction keeps its put.
LEMMA LedStep ==
  ASSUME ApiInv, Led, [Next]_vars
  PROVE  Led'
<1> SUFFICES ASSUME faults' = 0, NEW n \in Nodes, inTx'[n]
             PROVE  \E w \in Workers : Home[w] = n /\ job'[w].pc \in TxPhases
  BY DEF Led
<1>1. faults = 0 /\ faults' = faults
  BY HistoriesGrow
<1>2. ASSUME NEW w \in Workers, Step(w)
      PROVE  \E v \in Workers : Home[v] = n /\ job'[v].pc \in TxPhases
  <2>1. CASE n = Home[w] /\ job'[w].pc \in TxPhases
    BY <2>1
  <2>2. CASE inTx[n] /\ (n = Home[w] => job[w].pc \notin TxPhases)
    <3>1. PICK v \in Workers : Home[v] = n /\ job[v].pc \in TxPhases
      BY <1>1, <2>2 DEF Led
    <3>2. job'[v] = job[v]
      BY <1>2, <2>2, <3>1, StepAlone
    <3> QED BY <3>1, <3>2
  <2> QED BY <1>1, <1>2, <2>1, <2>2, TxBefore
<1>3. ASSUME NEW w \in Workers, Calls(w)
      PROVE  \E v \in Workers : Home[v] = n /\ job'[v].pc \in TxPhases
  <2>1. inTx' = inTx /\ job[w] = Idle
    BY <1>3, CallMoves DEF tables
  <2>2. PICK v \in Workers : Home[v] = n /\ job[v].pc \in TxPhases
    BY <1>1, <2>1 DEF Led
  <2>3. v # w
    BY <2>1, <2>2, IdleFits DEF TxPhases
  <2> QED BY <1>3, <2>2, <2>3, CallMoves
<1>4. ASSUME NEW p \in Nodes, Crash(p)
      PROVE  \E v \in Workers : Home[v] = n /\ job'[v].pc \in TxPhases
  <2>1. p # n /\ inTx[n]
    BY <1>4, Types DEF Crash, TableTypes
  <2>2. PICK v \in Workers : Home[v] = n /\ job[v].pc \in TxPhases
    BY <1>1, <2>1 DEF Led
  <2> QED BY <1>4, <2>1, <2>2 DEF Crash
<1>5. ASSUME UNCHANGED <<inTx, job>>
      PROVE  \E v \in Workers : Home[v] = n /\ job'[v].pc \in TxPhases
  BY <1>1, <1>5 DEF Led
<1>6. (\E p \in Nodes : Restart(p)) \/ UNCHANGED vars => UNCHANGED <<inTx, job>>
  BY DEF Restart, vars, tables
<1> QED BY <1>2, <1>3, <1>4, <1>5, <1>6, NextCases

\* Chunks are removed by a delete that is at that step.
LEMMA StoredBefore ==
  ASSUME ApiInv, [Next]_vars
  PROVE  \/ stored \subseteq stored'
         \/ \E w \in Workers : job[w].pc = "remove" /\ stored \ {job[w].meta[job[w].at]} \subseteq stored'
<1>1. ASSUME NEW w \in Workers, Step(w)
      PROVE  \/ stored \subseteq stored'
             \/ job[w].pc = "remove" /\ stored \ {job[w].meta[job[w].at]} \subseteq stored'
  <2>1. CASE PutStep(w)
    BY <2>1 DEF PutStep, StoreChunk, PutBegin, PutUpsert, PutClear, DeleteRowsOf, PutInsert,
                PutCommit, PutRollback
  <2>2. CASE Reads(w)
    BY <2>2 DEF Reads, SelectObject, SelectRow, ReadChunk, GetReturn, ListObjects, RepairNext,
                RepairRead, RepairWrite
  <2>3. CASE DeleteStep(w)
    BY <2>3 DEF DeleteStep, DeleteRows, DeleteRowsOf, DeleteObject, DeleteChanges, DeleteCount,
                DeleteChunk, DeleteReturn
  <2>4. CASE Log(w) \/ Return(w)
    BY <2>4 DEF Log, Return
  <2> QED BY <1>1, <2>1, <2>2, <2>3, <2>4, StepCases
<1>2. (\E w \in Workers : Calls(w)) \/ (\E n \in Nodes : Crash(n) \/ Restart(n)) \/ UNCHANGED vars
      => stored' = stored
  BY CallMoves DEF Crash, Restart, vars
<1> QED BY <1>1, <1>2, NextCases

\* What a put has stored after a step, it had stored, or stores now.
LEMMA FilledBefore ==
  ASSUME ApiInv, [Next]_vars, NEW v \in Workers, NEW i \in DOMAIN job'[v].content,
         Filled(job[v], i)'
  PROVE  /\ job'[v].content = job[v].content
         /\ \/ Filled(job[v], i) /\ job[v].op = "put" /\ job[v].pc # "done"
            \/ job[v].content[i] \in stored'
<1>1. job'[v].pc \in Writing /\ Filled(job'[v], i)
  BY DEF Filled, Writing
<1>2. job'[v].content = job[v].content /\ (job[v].pc \in Writing \/ Log(v))
  BY <1>1, WritingBefore
<1>3. job[v] \in Job /\ Fits(job[v])
  BY Here
<1>4. CASE job'[v] = job[v]
  BY <1>1, <1>2, <1>3, <1>4, Handler DEF Writing, TxPhases
<1>5. CASE Log(v)
  <2>1. job[v].at = 1 /\ job[v].op \in {"put", "delete"} /\ job'[v].at = 1 /\ job'[v].pc = "store"
    BY <1>1, <1>5, LogMoves DEF Same, Writing, TxPhases
  <2>2. job[v].op = "put" /\ job[v].pc = "log"
    BY <1>1, <1>5, LogMoves DEF Same, Writing, TxPhases
  <2>3. job[v].content \in Contents
    BY <1>3, <2>2 DEF Fits
  <2>4. i \in 1 .. Len(job[v].content)
    BY <1>2, <2>3, ContentFacts
  <2>5. ~(i < 1)
    BY <2>3, <2>4, ContentFacts
  <2> QED BY <1>1, <2>1, <2>5 DEF Filled, TxPhases
<1>6. CASE job[v].pc \in Writing /\ job'[v] # job[v]
  <2>1. job[v].op = "put" /\ job[v].pc # "done" /\ job[v].content \in Contents /\ job[v] # Idle
    BY <1>3, <1>6, Handler, IdleFits DEF Writing, TxPhases, Fits
  <2>2. PutStep(v)
    <3>1. ASSUME NEW w \in Workers, w # v, Calls(w) \/ Step(w)
          PROVE  job'[v] = job[v]
      BY <3>1, CallMoves, StepAlone
    <3>2. ASSUME NEW n \in Nodes, Crash(n)
          PROVE  job'[v] = job[v]
      <4>1. job'[v] # Idle
        BY <1>1, IdleFits DEF Writing, TxPhases
      <4> QED BY <3>2, <4>1 DEF Crash
    <3>3. (\E n \in Nodes : Restart(n)) \/ UNCHANGED vars => job'[v] = job[v]
      BY DEF Restart, vars
    <3>4. ~Calls(v)
      BY <2>1, CallMoves
    <3>5. ~Log(v) /\ ~Return(v)
      BY <1>6 DEF Log, Return, Writing, TxPhases
    <3>6. ~Reads(v) /\ ~DeleteStep(v)
      BY <2>1, ReaderMoves, DeleteMoves DEF ReaderMove
    <3> QED BY <1>6, <3>1, <3>2, <3>3, <3>4, <3>5, <3>6, NextCases, StepCases
  <2>3. CASE job[v].pc = "store"
    <3>1. /\ job[v].at \in Nat \ {0} /\ job[v].at <= Len(job[v].content)
          /\ job[v].content \in Seq(Checksums) /\ i \in 1 .. Len(job[v].content)
      BY <1>2, <1>3, <2>1, <2>3, JobFields, ContentFacts DEF Fits
    <3>2. StoreChunk(v)
      BY <2>2, <2>3 DEF PutStep, PutBegin, PutUpsert, PutClear, PutInsert, PutCommit, PutRollback
    <3>3. \/ job'[v].pc = "store" /\ job'[v].at = job[v].at + 1
          \/ job'[v].pc = "begin" /\ job[v].at = Len(job[v].content)
      BY <1>1, <2>2, <2>3, PutMoves DEF Writing, TxPhases
    <3>4. job[v].content[job[v].at] \in stored'
      <4>1. job'[v] # Done(job[v], "error")
        <5>1. Done(job[v], "error").pc = "done"
          BY <1>3 DEF Done, Job
        <5> QED BY <3>3, <5>1
      <4>2. job \in [Workers -> Job]
        BY Here
      <4> QED BY <3>2, <4>1, <4>2 DEF StoreChunk, Goto
    <3>5. i < job[v].at \/ i = job[v].at
      <4>1. CASE job'[v].pc = "store" /\ job'[v].at = job[v].at + 1
        <5>1. i < job[v].at + 1
          BY <1>1, <4>1 DEF Filled, TxPhases
        <5> QED BY <3>1, <5>1
      <4>2. CASE job[v].at = Len(job[v].content)
        BY <3>1, <4>2
      <4> QED BY <3>3, <4>1, <4>2
    <3> QED BY <1>2, <2>1, <2>3, <3>4, <3>5 DEF Filled
  <2>4. CASE job[v].pc # "store"
    BY <1>2, <1>6, <2>1, <2>4 DEF Filled, Writing
  <2> QED BY <2>3, <2>4
<1> QED BY <1>2, <1>4, <1>5, <1>6

\* A delete that is about to remove a chunk was so before, or has counted 0.
LEMMA RemoveBefore ==
  ASSUME ApiInv, [Next]_vars, faults' = faults, NEW v \in Workers, job'[v].pc = "remove"
  PROVE  /\ job[v].op = "delete" /\ job[v].pc # "done"
         /\ job'[v].meta = job[v].meta /\ job'[v].at = job[v].at
         /\ \/ job[v].pc = "remove"
            \/ UNCHANGED tables /\ ~Referenced(Home[v], job[v].meta[job[v].at])
<1>1. job[v] \in Job /\ Fits(job[v]) /\ faults \in Nat
  BY Here DEF RestTypes
<1>2. CASE job'[v] = job[v]
  BY <1>1, <1>2, Handler
<1>3. job'[v] # Idle
  BY IdleFits
<1>4. ASSUME Calls(v) PROVE FALSE
  BY <1>4, CallMoves
<1>5. ASSUME Step(v)
      PROVE  /\ job[v].op = "delete" /\ job[v].pc # "done"
             /\ job'[v].meta = job[v].meta /\ job'[v].at = job[v].at
             /\ UNCHANGED tables /\ ~Referenced(Home[v], job[v].meta[job[v].at])
  <2>1. CASE DeleteStep(v)
    <3>1. faults' # faults + 1
      BY <1>1
    <3> QED BY <2>1, <3>1, DeleteMoves DEF Same
  <2>2. CASE Log(v)
    BY <2>2, LogMoves DEF Same
  <2>3. CASE PutStep(v)
    BY <2>3, PutMoves DEF Writing, TxPhases
  <2>4. CASE Reads(v)
    <3>1. job'[v].op = job[v].op /\ (job[v].op = "delete" => job'[v].pc \in {"rows", "log", "done"})
      BY <2>4, ReaderMoves DEF ReaderMove
    <3>2. job'[v] \in Job /\ Fits(job'[v])
      BY ApiStep DEF ApiInv, TypeOK
    <3> QED BY <3>1, <3>2, Handler
  <2>5. CASE Return(v)
    BY <1>3, <2>5, Here DEF Return, Goto
  <2> QED BY <1>5, <2>1, <2>2, <2>3, <2>4, <2>5, StepCases
<1>6. ASSUME NEW w \in Workers, w # v, Calls(w) \/ Step(w)
      PROVE  job'[v] = job[v]
  BY <1>6, CallMoves, StepAlone
<1>7. ASSUME NEW n \in Nodes, Crash(n)
      PROVE  job'[v] = job[v]
  BY <1>3, <1>7 DEF Crash
<1>8. (\E n \in Nodes : Restart(n)) \/ UNCHANGED vars => job'[v] = job[v]
  BY DEF Restart, vars
<1> QED BY <1>2, <1>4, <1>5, <1>6, <1>7, <1>8, NextCases

\* A chunk stays safe for n, unless a delete of n is removing it.
LEMMA SafeKept ==
  ASSUME ApiInv, Origins, [Next]_vars, NEW n \in Nodes, NEW c, Safe(n, c),
         \A w \in Workers : Home[w] = n /\ job[w].pc = "remove" => job[w].meta[job[w].at] # c
  PROVE  Safe(n, c)'
<1>1. Shared(n, c) => Shared(n, c)'
  BY HistoriesGrow, OriginKept
<1>2. CASE stored \subseteq stored'
  BY <1>1, <1>2 DEF Safe
<1>3. ASSUME NEW w \in Workers, job[w].pc = "remove",
             stored \ {job[w].meta[job[w].at]} \subseteq stored'
      PROVE  Safe(n, c)'
  <2>1. CASE job[w].meta[job[w].at] # c
    BY <1>1, <1>3, <2>1 DEF Safe
  <2>2. CASE job[w].meta[job[w].at] = c
    <3>1. Home[w] # n
      BY <1>3, <2>2
    <3>2. job[w].at \in DOMAIN job[w].meta
      <4>1. job[w] \in Job /\ Fits(job[w])
        BY Here
      <4>2. job[w].at \in Nat \ {0} /\ job[w].meta \in Seq(Checksums) /\ job[w].at <= Len(job[w].meta)
        BY <1>3, <4>1, JobFields DEF Fits
      <4> QED BY <4>2
    <3>3. Origin(Home[w], c)
      BY <2>2, <3>2 DEF Origins
    <3>4. Shared(n, c)
      BY <3>1, <3>3 DEF Origin, Shared
    <3> QED BY <1>1, <3>4 DEF Safe
  <2> QED BY <2>1, <2>2
<1> QED BY <1>2, <1>3, StoredBefore

\* The chunks of the remaining objects stay safe.
LEMMA ChunksSafeStep ==
  ASSUME ApiInv, KeepInv, [Next]_vars
  PROVE  ChunksSafe'
<1> SUFFICES ASSUME faults' = 0, NEW n \in Nodes, n \notin mixed'
             PROVE  /\ \A c : Rowed(n, c)' => Safe(n, c)'
                    /\ \A w \in Workers : Home[w] = n =>
                         /\ job'[w].op = "put" =>
                              \A i \in DOMAIN job'[w].content :
                                 Filled(job[w], i)' => Safe(n, job[w].content[i])'
                         /\ job'[w].pc = "remove" => ~Rowed(n, job[w].meta[job[w].at])'
  BY DEF ChunksSafe
<1>1. faults = 0 /\ faults' = faults /\ n \notin mixed
  BY HistoriesGrow
<1>2. Origins /\ Led
  BY DEF KeepInv
<1>3. /\ \A c : Rowed(n, c) => Safe(n, c)
      /\ \A w \in Workers : Home[w] = n =>
           /\ job[w].op = "put" =>
                \A i \in DOMAIN job[w].content : Filled(job[w], i) => Safe(n, job[w].content[i])
           /\ job[w].pc = "remove" => ~Rowed(n, job[w].meta[job[w].at])
  BY <1>1 DEF KeepInv, ChunksSafe
<1>4. ASSUME NEW u \in Workers, Home[u] = n, job[u].op = "put", job[u].pc # "done",
             NEW v \in Workers, Home[v] = n, job[v].op = "delete", job[v].pc # "done"
      PROVE  FALSE
  BY <1>1, <1>4 DEF KeepInv, Apart, Under
<1>5. \A v \in Workers : job[v].pc = "remove" => job[v].op = "delete" /\ job[v].pc # "done"
  BY Here, Handler
<1>6. \A v \in Workers : job[v].pc \in TxPhases => job[v].op = "put" /\ job[v].pc # "done"
  BY Here, Handler DEF TxPhases
<1>7. ASSUME NEW u \in Workers, Home[u] = n, job[u].op = "put", job[u].pc # "done",
             NEW i \in DOMAIN job[u].content, Filled(job[u], i),
             NEW c, c = job[u].content[i]
      PROVE  Safe(n, c)'
  <2>1. Safe(n, c)
    BY <1>3, <1>7
  <2>2. \A w \in Workers : Home[w] = n => job[w].pc # "remove"
    BY <1>4, <1>5, <1>7
  <2> QED BY <1>2, <2>1, <2>2, SafeKept
<1>8. ASSUME NEW c, Rowed(n, c)'
      PROVE  Safe(n, c)'
  <2>1. CASE Rowed(n, c)
    <3>1. \A w \in Workers : Home[w] = n /\ job[w].pc = "remove" => job[w].meta[job[w].at] # c
      BY <1>3, <2>1
    <3> QED BY <1>2, <1>3, <2>1, <3>1, SafeKept
  <2>2. ASSUME NEW u \in Workers, Home[u] = n, job[u].pc = "insert",
               c = job[u].content[job[u].at]
        PROVE  Safe(n, c)'
    BY <1>7, <2>2, InsertFacts
  <2> QED BY <1>8, <2>1, <2>2, RowedBefore
<1>9. ASSUME NEW v \in Workers, Home[v] = n, NEW i \in DOMAIN job'[v].content, Filled(job[v], i)'
      PROVE  Safe(n, job[v].content[i])'
  <2>1. /\ job'[v].content = job[v].content
        /\ \/ Filled(job[v], i) /\ job[v].op = "put" /\ job[v].pc # "done"
           \/ job[v].content[i] \in stored'
    BY <1>9, FilledBefore
  <2>2. PICK c : c = job[v].content[i]
    OBVIOUS
  <2>3. Safe(n, c)'
    BY <1>7, <1>9, <2>1, <2>2 DEF Safe
  <2> QED BY <2>1, <2>2, <2>3 DEF Safe, Shared
<1>10. ASSUME NEW v \in Workers, Home[v] = n, job'[v].pc = "remove"
       PROVE  ~Rowed(n, job[v].meta[job[v].at])'
  <2>1. /\ job[v].op = "delete" /\ job[v].pc # "done"
        /\ job'[v].meta = job[v].meta /\ job'[v].at = job[v].at
        /\ \/ job[v].pc = "remove"
           \/ UNCHANGED tables /\ ~Referenced(n, job[v].meta[job[v].at])
    BY <1>1, <1>10, RemoveBefore
  <2>2. PICK c : c = job[v].meta[job[v].at]
    OBVIOUS
  <2>3. ~Rowed(n, c)
    <3>1. CASE job[v].pc = "remove"
      BY <1>3, <1>10, <2>2, <3>1
    <3>2. CASE ~Referenced(n, c)
      <4>1. ~inTx[n]
        BY <1>1, <1>2, <1>4, <1>6, <1>10, <2>1 DEF Led
      <4>2. working[n] = committed[n]
        BY <4>1 DEF ApiInv
      <4> QED BY <3>2, <4>2 DEF Referenced, Rowed
    <3> QED BY <2>1, <2>2, <3>1, <3>2
  <2>4. \A u \in Workers : Home[u] = n => job[u].pc # "insert"
    BY <1>4, <1>6, <1>10, <2>1 DEF TxPhases
  <2>5. ~Rowed(n, c)'
    BY <2>3, <2>4, RowedBefore
  <2> QED BY <2>1, <2>2, <2>5 DEF Rowed
<1> QED BY <1>8, <1>9, <1>10

\* The invariant of the chunks.
THEOREM KeepInvariant == Spec => []KeepInv
<1>1. Init => KeepInv
  <2> SUFFICES ASSUME Init PROVE KeepInv
    OBVIOUS
  <2>1. \A w \in Workers : job[w] = Idle
    BY DEF Init
  <2>2. \A n \in Nodes : ~inTx[n] /\ \A c : ~Rowed(n, c)
    BY DEF Init, NoTables, Rowed
  <2>3. Idle.op = "none" /\ Idle.pc = "idle" /\ Idle.meta = <<>>
    BY DEF Idle
  <2>4. Origins
    BY <2>1, <2>2, <2>3 DEF Origins
  <2>5. Apart
    BY <2>1, <2>3 DEF Apart, Under
  <2>6. Led /\ ChunksSafe
    BY <2>1, <2>2, <2>3 DEF Led, ChunksSafe
  <2> QED BY <2>4, <2>5, <2>6 DEF KeepInv
<1>2. ApiInv /\ KeepInv /\ [Next]_vars => KeepInv'
  BY OriginsStep, ApartStep, LedStep, ChunksSafeStep DEF KeepInv
<1> QED BY <1>1, <1>2, ApiInvariant, PTL DEF Spec

\* For any number of threads on any number of nodes, and crashes at any step:
\* deletes keep the chunks that the remaining objects refer to, unless other
\* nodes store the chunk too, a PUT and a DELETE of the node overlapped, or a
\* file or database operation failed.
THEOREM ObjectsKeepTheirChunks == Spec => []ChunksKept
<1>1. KeepInv => ChunksKept
  BY DEF KeepInv, ChunksSafe, Rowed, Safe, ChunksKept
<1> QED BY <1>1, KeepInvariant, PTL
=============================================================================
