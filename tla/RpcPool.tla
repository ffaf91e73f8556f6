------------------------------ MODULE RpcPool -------------------------------
(***************************************************************************)
(* HttpServer and its ThreadPool on every node, and http_request between   *)
(* them.  A connection becomes a job in the FIFO queue of the pool.  The   *)
(* handlers of client requests call the peers of the replica plan one      *)
(* after the other and keep their thread while they wait; the /v1/chunks/  *)
(* handlers that serve those calls need a thread of the peer's pool, and   *)
(* call nobody.  There is no timeout on either side.                       *)
(***************************************************************************)
EXTENDS Integers, Sequences, FiniteSets

CONSTANTS
  Nodes,      \* the nodes
  Requests,   \* client requests of a behaviour
  Entry,      \* Entry[r]: the node r is sent to
  Plan,       \* Plan[r]: the peers r's handler calls, in order
  PoolSize,   \* threads of a pool: std::thread::hardware_concurrency()
  MaxThrows   \* bound on handlers that throw in a behaviour

ASSUME PoolAssumption ==
  /\ IsFiniteSet(Requests)
  /\ Entry \in [Requests -> Nodes]
  /\ Plan \in [Requests -> Seq(Nodes)]
  /\ \A r \in Requests : \A i \in DOMAIN Plan[r] : Plan[r][i] # Entry[r]
  /\ PoolSize \in Nat \ {0}
  /\ MaxThrows \in Nat

VARIABLES
  queue,   \* queue[n]: jobs_ of n's pool
  phase,   \* phase[r]: new, queued, running, waiting, answered or dropped
  left,    \* left[r]: the peers r's handler still has to call
  call,    \* call[r]: the call to Head(left[r]) that r's handler waits for: none,
           \* queued, running, answered or dropped
  throws   \* how many handlers have thrown

vars == <<queue, phase, left, call, throws>>

\* A connection: the one a client opened, or the one r's handler opened.
Job(of, r) == [of |-> of, request |-> r]

Init ==
  /\ queue = [n \in Nodes |-> <<>>]
  /\ phase = [r \in Requests |-> "new"]
  /\ left = Plan
  /\ call = [r \in Requests |-> "none"]
  /\ throws = 0

\* The threads of n's pool that hold a job: handlers of client requests, waiting
\* ones included, and the handlers of their calls.
Busy(n) ==
  Cardinality({r \in Requests : Entry[r] = n /\ phase[r] \in {"running", "waiting"}})
  + Cardinality({r \in Requests : call[r] = "running" /\ Head(left[r]) = n})

\* A thread waits in cv_.wait.  The variant starts one thread too few.
FreeThreadButOne(n) == Busy(n) + 1 < PoolSize
FreeThread(n) == Busy(n) < PoolSize

\* accept and pool_.submit
Connect(r) ==
  /\ phase[r] = "new"
  /\ phase' = [phase EXCEPT ![r] = "queued"]
  /\ queue' = [queue EXCEPT ![Entry[r]] = Append(@, Job("client", r))]
  /\ UNCHANGED <<left, call, throws>>

\* jobs_.pop(); the variant leaves the job in the queue.
NotPopped(jobs) == jobs
Popped(jobs) == Tail(jobs)

\* A free thread takes the first job.
Take(n) ==
  LET job == Head(queue[n]) IN
  /\ queue[n] # <<>>
  /\ FreeThread(n)
  /\ queue' = [queue EXCEPT ![n] = Popped(@)]
  /\ \/ /\ job.of = "client"
        /\ phase' = [phase EXCEPT ![job.request] = "running"]
        /\ UNCHANGED call
     \/ /\ job.of = "handler"
        /\ call' = [call EXCEPT ![job.request] = "running"]
        /\ UNCHANGED phase
  /\ UNCHANGED <<left, throws>>

\* http_request to the next peer: the peer accepts, and the thread waits in recv.
CallPeer(r) ==
  /\ phase[r] = "running"
  /\ left[r] # <<>>
  /\ phase' = [phase EXCEPT ![r] = "waiting"]
  /\ call' = [call EXCEPT ![r] = "queued"]
  /\ queue' = [queue EXCEPT ![Head(left[r])] = Append(@, Job("handler", r))]
  /\ UNCHANGED <<left, throws>>

\* The connection is refused; the handler goes on without that peer.
CallRefused(r) ==
  /\ phase[r] = "running"
  /\ left[r] # <<>>
  /\ left' = [left EXCEPT ![r] = Tail(@)]
  /\ UNCHANGED <<queue, phase, call, throws>>

\* The peer's handler answers; its thread is free again.
AnswerCall(r) ==
  /\ call[r] = "running"
  /\ call' = [call EXCEPT ![r] = "answered"]
  /\ UNCHANGED <<queue, phase, left, throws>>

\* recv returns; the handler goes on with the next peer.
Resume(r) ==
  /\ phase[r] = "waiting"
  /\ call[r] = "answered"
  /\ phase' = [phase EXCEPT ![r] = "running"]
  /\ call' = [call EXCEPT ![r] = "none"]
  /\ left' = [left EXCEPT ![r] = Tail(@)]
  /\ UNCHANGED <<queue, throws>>

Answer(r) ==
  /\ phase[r] = "running"
  /\ left[r] = <<>>
  /\ phase' = [phase EXCEPT ![r] = "answered"]
  /\ UNCHANGED <<queue, left, call, throws>>

\* A handler throws (a file operation without an error_code): the packaged_task
\* of submit keeps the exception, the thread is free again, and the connection
\* is neither answered nor closed.
HandlerThrows(r) ==
  /\ throws < MaxThrows
  /\ throws' = throws + 1
  /\ \/ /\ phase[r] = "running"
        /\ phase' = [phase EXCEPT ![r] = "dropped"]
        /\ UNCHANGED call
     \/ /\ call[r] = "running"
        /\ call' = [call EXCEPT ![r] = "dropped"]
        /\ UNCHANGED phase
  /\ UNCHANGED <<queue, left>>

Next ==
  \/ \E r \in Requests : \/ Connect(r) \/ CallPeer(r) \/ CallRefused(r)
                         \/ AnswerCall(r) \/ Resume(r) \/ Answer(r)
                         \/ HandlerThrows(r)
  \/ \E n \in Nodes : Take(n)

\* A thread that has something to do does it, a job that is notified is taken by
\* some free thread; clients come when they like.
Fairness ==
  /\ \A n \in Nodes : WF_vars(Take(n))
  /\ \A r \in Requests : /\ WF_vars(CallPeer(r) \/ CallRefused(r))
                         /\ WF_vars(AnswerCall(r))
                         /\ WF_vars(Resume(r))
                         /\ WF_vars(Answer(r))

Spec == Init /\ [][Next]_vars /\ Fairness

-----------------------------------------------------------------------------
(* Properties *)

\* How often a job is in the queue of n.
InQueue(n, job) == Cardinality({i \in DOMAIN queue[n] : queue[n][i] = job})

\* Every connection is served once: it is in the queue it belongs to exactly once
\* until a thread takes it, and nowhere afterwards.
ServedOnce ==
  \A n \in Nodes, r \in Requests :
     /\ InQueue(n, Job("client", r)) = IF n = Entry[r] /\ phase[r] = "queued" THEN 1 ELSE 0
     /\ InQueue(n, Job("handler", r)) =
          IF call[r] = "queued" /\ n = Head(left[r]) THEN 1 ELSE 0

\* The handler of r, or of a call it made, threw.
Dropped(r) == phase[r] = "dropped" \/ call[r] = "dropped"

\* r's handler keeps its thread and waits for an answer that no thread of the
\* nodes S will give.
WaitsOn(r, S) ==
  /\ phase[r] = "waiting"
  /\ call[r] = "dropped" \/ (call[r] = "queued" /\ Head(left[r]) \in S)

\* All the threads of some nodes wait for each other.
Wedged ==
  \E S \in (SUBSET Nodes) \ {{}} : \A n \in S :
     Cardinality({r \in Requests : Entry[r] = n /\ WaitsOn(r, S)}) = PoolSize

\* Every connection a server accepted is answered, with two exceptions and no
\* other: its own handler or one it called threw, or some nodes have all their
\* threads wait for each other, which takes a full pool on each of them.  A
\* refused peer, a long queue, or a connection that was dropped elsewhere keeps
\* nobody from an answer.
RequestsAnswered ==
  \A r \in Requests : phase[r] = "queued" ~> (phase[r] = "answered" \/ Dropped(r) \/ Wedged)
=============================================================================
