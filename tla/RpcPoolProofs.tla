--------------------------- MODULE RpcPoolProofs ----------------------------
(***************************************************************************)
(* Every connection is served once, for every number of nodes, requests    *)
(* and threads, and whatever the requests call.                            *)
(*                                                                         *)
(* ServedOnce counts the places of a job in a queue, which no step is easy *)
(* to follow by.  The invariant says the same with two facts that a step   *)
(* keeps one by one: no queue holds a job twice, and a job is in a queue   *)
(* exactly while its connection waits there.  It also has to say where a   *)
(* handler is while it waits: what Head(left[r]) means for a call depends  *)
(* on the handler not moving on before the call is answered.               *)
(***************************************************************************)
EXTENDS RpcPool, FiniteSetTheorems, TLAPS

Jobs == [of : {"client", "handler"}, request : Requests]

\* The jobs in a queue.
Held(jobs) == {jobs[i] : i \in DOMAIN jobs}

Distinct(jobs) == \A i, j \in DOMAIN jobs : jobs[i] = jobs[j] => i = j

TypeInv ==
  /\ queue \in [Nodes -> Seq(Jobs)]
  /\ phase \in [Requests -> {"new", "queued", "running", "waiting", "answered", "dropped"}]
  /\ left \in [Requests -> Seq(Nodes)]
  /\ call \in [Requests -> {"none", "queued", "running", "answered", "dropped"}]

\* A handler has a call exactly while it waits, and then the peer is still the
\* first of those left.
CallsFit ==
  \A r \in Requests : /\ call[r] # "none" <=> phase[r] = "waiting"
                      /\ call[r] # "none" => left[r] # <<>>

ClientQueued(n, r) == n = Entry[r] /\ phase[r] = "queued"
CallQueued(n, r) == call[r] = "queued" /\ n = Head(left[r])

QueuesFit ==
  \A n \in Nodes :
     /\ Distinct(queue[n])
     /\ \A r \in Requests : /\ Job("client", r) \in Held(queue[n]) <=> ClientQueued(n, r)
                            /\ Job("handler", r) \in Held(queue[n]) <=> CallQueued(n, r)

Inv == TypeInv /\ CallsFit /\ QueuesFit

-----------------------------------------------------------------------------
(* Jobs and queues *)

\* A job is known by its connection.
LEMMA JobFacts ==
  /\ \A r \in Requests : Job("client", r) \in Jobs /\ Job("handler", r) \in Jobs
  /\ \A r, q : Job("client", r) # Job("handler", q)
  /\ \A o, r, q : Job(o, r) = Job(o, q) => r = q
  /\ \A job \in Jobs : \/ job.of = "client" /\ job = Job("client", job.request)
                       \/ job.of = "handler" /\ job = Job("handler", job.request)
  /\ \A job \in Jobs : job.request \in Requests
BY DEF Jobs, Job

\* submit adds the job at the end, and holds what was held.
LEMMA Submitted ==
  ASSUME NEW jobs \in Seq(Jobs), NEW job \in Jobs
  PROVE  /\ Append(jobs, job) \in Seq(Jobs)
         /\ Held(Append(jobs, job)) = Held(jobs) \cup {job}
         /\ Distinct(jobs) /\ job \notin Held(jobs) => Distinct(Append(jobs, job))
<1>1. /\ Append(jobs, job) \in Seq(Jobs)
      /\ DOMAIN Append(jobs, job) = DOMAIN jobs \cup {Len(jobs) + 1}
      /\ Len(jobs) + 1 \notin DOMAIN jobs
  OBVIOUS
<1>2. /\ \A i \in DOMAIN jobs : Append(jobs, job)[i] = jobs[i]
      /\ Append(jobs, job)[Len(jobs) + 1] = job
  OBVIOUS
<1> HIDE DEF Jobs
<1> QED BY <1>1, <1>2 DEF Held, Distinct

\* jobs_.pop() removes the first job; a queue without duplicates does not hold it
\* any more.
LEMMA Taken ==
  ASSUME NEW jobs \in Seq(Jobs), jobs # <<>>, Distinct(jobs)
  PROVE  /\ Head(jobs) \in Jobs
         /\ Popped(jobs) \in Seq(Jobs)
         /\ Held(Popped(jobs)) = Held(jobs) \ {Head(jobs)}
         /\ Head(jobs) \in Held(jobs)
         /\ Distinct(Popped(jobs))
<1> HIDE DEF Jobs
<1>1. /\ Len(jobs) \in Nat \ {0} /\ DOMAIN jobs = 1 .. Len(jobs) /\ Head(jobs) = jobs[1]
      /\ Head(jobs) \in Jobs
  OBVIOUS
<1>2. /\ Tail(jobs) \in Seq(Jobs)
      /\ DOMAIN Tail(jobs) = 1 .. Len(jobs) - 1
      /\ \A i \in 1 .. Len(jobs) - 1 : Tail(jobs)[i] = jobs[i + 1]
  OBVIOUS
<1>3. ASSUME NEW job \in Held(jobs), job # Head(jobs)
      PROVE  job \in Held(Tail(jobs))
  <2>1. PICK i \in 1 .. Len(jobs) : job = jobs[i]
    BY <1>1 DEF Held
  <2>2. i - 1 \in 1 .. Len(jobs) - 1
    BY <1>1, <1>3, <2>1
  <2>3. Tail(jobs)[i - 1] = job
    BY <1>2, <2>1, <2>2
  <2> QED BY <1>2, <2>2, <2>3 DEF Held
<1>4. ASSUME NEW job \in Held(Tail(jobs))
      PROVE  job \in Held(jobs) /\ job # Head(jobs)
  <2>1. PICK i \in 1 .. Len(jobs) - 1 : job = jobs[i + 1]
    BY <1>2, <1>4 DEF Held
  <2>2. i + 1 \in 1 .. Len(jobs) /\ 1 \in 1 .. Len(jobs) /\ i + 1 # 1
    BY <1>1, <2>1
  <2> QED BY <1>1, <2>1, <2>2 DEF Held, Distinct
<1>5. Distinct(Tail(jobs))
  <2> SUFFICES ASSUME NEW i \in 1 .. Len(jobs) - 1, NEW j \in 1 .. Len(jobs) - 1,
                      jobs[i + 1] = jobs[j + 1]
               PROVE  i = j
    BY <1>2 DEF Distinct
  <2> QED BY <1>1 DEF Distinct
<1>6. Head(jobs) \in Held(jobs)
  BY <1>1 DEF Held
<1> QED BY <1>1, <1>2, <1>3, <1>4, <1>5, <1>6 DEF Popped

-----------------------------------------------------------------------------
(* The steps *)

\* The invariant holds at the start.
LEMMA InitOK == Init => Inv
<1> SUFFICES ASSUME Init PROVE Inv
  OBVIOUS
<1>1. TypeInv
  BY PoolAssumption DEF Init, TypeInv
<1>2. CallsFit
  BY DEF Init, CallsFit
<1>3. QueuesFit
  BY DEF Init, QueuesFit, Distinct, Held, ClientQueued, CallQueued
<1> QED BY <1>1, <1>2, <1>3 DEF Inv

\* Handlers that step without touching a queue: the jobs that wait are the same.
LEMMA QueuesStay ==
  ASSUME Inv, UNCHANGED queue,
         \A r \in Requests : /\ phase'[r] = "queued" <=> phase[r] = "queued"
                             /\ call'[r] = "queued" <=> call[r] = "queued"
                             /\ call[r] = "queued" => left'[r] = left[r]
  PROVE  QueuesFit'
BY DEF Inv, QueuesFit, ClientQueued, CallQueued, Distinct, Held

\* A connection is submitted to the pool of n.
LEMMA SubmitOK ==
  ASSUME Inv, NEW n \in Nodes, NEW job \in Jobs, job \notin Held(queue[n]),
         queue' = [queue EXCEPT ![n] = Append(@, job)],
         \A m \in Nodes, r \in Requests :
            (m = Entry[r] /\ phase'[r] = "queued") <=>
               ClientQueued(m, r) \/ (m = n /\ job = Job("client", r)),
         \A m \in Nodes, r \in Requests :
            (call'[r] = "queued" /\ m = Head(left'[r])) <=>
               CallQueued(m, r) \/ (m = n /\ job = Job("handler", r))
  PROVE  QueuesFit'
<1>1. /\ queue[n] \in Seq(Jobs) /\ Distinct(queue[n])
      /\ queue'[n] = Append(queue[n], job)
      /\ \A m \in Nodes \ {n} : queue'[m] = queue[m]
  BY DEF Inv, TypeInv, QueuesFit
<1>2. Held(queue'[n]) = Held(queue[n]) \cup {job} /\ Distinct(queue'[n])
  BY <1>1, Submitted
<1>3. ASSUME NEW m \in Nodes, NEW r \in Requests
      PROVE  /\ Distinct(queue'[m])
             /\ Job("client", r) \in Held(queue'[m]) <=> (m = Entry[r] /\ phase'[r] = "queued")
             /\ Job("handler", r) \in Held(queue'[m]) <=> (call'[r] = "queued" /\ m = Head(left'[r]))
  <2>1. CASE m = n
    BY <1>2, <2>1 DEF Inv, QueuesFit
  <2>2. CASE m # n
    BY <1>1, <2>2 DEF Inv, QueuesFit
  <2> QED BY <2>1, <2>2
<1>4. \A m \in Nodes : Distinct(queue'[m])
  BY <1>1, <1>2 DEF Inv, QueuesFit
<1> QED BY <1>3, <1>4 DEF QueuesFit, Distinct, Held, Job, ClientQueued, CallQueued

\* A thread of n takes the first job of its queue.
LEMMA TakeOK == ASSUME Inv, NEW n \in Nodes, Take(n) PROVE Inv'
<1> DEFINE job == Head(queue[n])
           r == job.request
<1>1. queue[n] \in Seq(Jobs) /\ queue[n] # <<>> /\ Distinct(queue[n])
  BY DEF Inv, TypeInv, QueuesFit, Take
<1>2. /\ job \in Jobs /\ job \in Held(queue[n])
      /\ queue'[n] = Popped(queue[n])
      /\ queue'[n] \in Seq(Jobs) /\ Distinct(queue'[n])
      /\ Held(queue'[n]) = Held(queue[n]) \ {job}
      /\ \A m \in Nodes \ {n} : queue'[m] = queue[m]
      /\ queue' \in [Nodes -> Seq(Jobs)]
  BY <1>1, Taken DEF Take, Inv, TypeInv
<1>3. r \in Requests /\ job = Job(job.of, r) /\ job.of \in {"client", "handler"}
  BY <1>2, JobFacts
<1>4. job.of = "client" => ClientQueued(n, r)
  BY <1>2, <1>3 DEF Inv, QueuesFit
<1>5. job.of = "handler" => CallQueued(n, r)
  BY <1>2, <1>3 DEF Inv, QueuesFit
<1> HIDE DEF job
<1>6. /\ job.of = "client" => phase' = [phase EXCEPT ![r] = "running"] /\ UNCHANGED call
      /\ job.of = "handler" => call' = [call EXCEPT ![r] = "running"] /\ UNCHANGED phase
      /\ UNCHANGED left
  BY DEF Take, job
<1>7. TypeInv'
  BY <1>2, <1>3, <1>6 DEF Inv, TypeInv
<1>8. CallsFit'
  BY <1>3, <1>4, <1>5, <1>6 DEF Inv, TypeInv, CallsFit, ClientQueued, CallQueued
<1>9. ASSUME NEW m \in Nodes, NEW q \in Requests
      PROVE  /\ ClientQueued(m, q)' <=> ClientQueued(m, q) /\ ~(m = n /\ job = Job("client", q))
             /\ CallQueued(m, q)' <=> CallQueued(m, q) /\ ~(m = n /\ job = Job("handler", q))
  <2>1. CASE job.of = "client"
    BY <1>3, <1>4, <1>6, <2>1, JobFacts DEF Inv, TypeInv, ClientQueued, CallQueued
  <2>2. CASE job.of = "handler"
    BY <1>3, <1>5, <1>6, <2>2, JobFacts DEF Inv, TypeInv, ClientQueued, CallQueued
  <2> QED BY <1>3, <2>1, <2>2
<1>10. ASSUME NEW m \in Nodes, NEW q \in Requests
      PROVE  /\ Job("client", q) \in Held(queue'[m]) <=> ClientQueued(m, q)'
             /\ Job("handler", q) \in Held(queue'[m]) <=> CallQueued(m, q)'
  BY <1>2, <1>9 DEF Inv, QueuesFit
<1>11. \A m \in Nodes : Distinct(queue'[m])
  BY <1>2 DEF Inv, QueuesFit
<1>12. QueuesFit'
  BY <1>10, <1>11 DEF QueuesFit, Distinct, Held, Job
<1> QED BY <1>7, <1>8, <1>12 DEF Inv

\* A client connects.
LEMMA ConnectOK == ASSUME Inv, NEW r \in Requests, Connect(r) PROVE Inv'
<1> DEFINE n == Entry[r]
           job == Job("client", r)
<1>1. n \in Nodes
  BY PoolAssumption
<1>2. job \in Jobs /\ job \notin Held(queue[n])
  BY <1>1, JobFacts DEF Inv, QueuesFit, ClientQueued, Connect
<1>3. TypeInv'
  BY <1>1, <1>2, Submitted DEF Inv, TypeInv, Connect
<1>4. CallsFit'
  BY DEF Inv, TypeInv, CallsFit, Connect
<1>5. \A m \in Nodes, q \in Requests :
        (m = Entry[q] /\ phase'[q] = "queued") <=>
           ClientQueued(m, q) \/ (m = n /\ job = Job("client", q))
  BY JobFacts DEF Inv, TypeInv, ClientQueued, CallQueued, Connect
<1>6. \A m \in Nodes, q \in Requests :
        (call'[q] = "queued" /\ m = Head(left'[q])) <=>
           CallQueued(m, q) \/ (m = n /\ job = Job("handler", q))
  BY JobFacts DEF Inv, TypeInv, ClientQueued, CallQueued, Connect
<1>7. queue' = [queue EXCEPT ![n] = Append(@, job)]
  BY DEF Connect
<1>8. QueuesFit'
  <2> HIDE DEF n, job
  <2> QED BY <1>1, <1>2, <1>5, <1>6, <1>7, SubmitOK
<1> QED BY <1>3, <1>4, <1>8 DEF Inv

\* A handler calls the next peer of its plan.
LEMMA CallPeerOK == ASSUME Inv, NEW r \in Requests, CallPeer(r) PROVE Inv'
<1> DEFINE n == Head(left[r])
<1>1. n \in Nodes /\ call[r] = "none"
  BY DEF Inv, TypeInv, CallsFit, CallPeer
<1>2. Job("handler", r) \in Jobs /\ Job("handler", r) \notin Held(queue[n])
  BY <1>1, JobFacts DEF Inv, QueuesFit, CallQueued
<1>3. TypeInv'
  BY <1>1, <1>2, Submitted DEF Inv, TypeInv, CallPeer
<1>4. CallsFit'
  BY DEF Inv, TypeInv, CallsFit, CallPeer
<1>5. \A m \in Nodes, q \in Requests :
        (m = Entry[q] /\ phase'[q] = "queued") <=>
           ClientQueued(m, q) \/ (m = n /\ Job("handler", r) = Job("client", q))
  BY <1>1, JobFacts DEF Inv, TypeInv, ClientQueued, CallQueued, CallPeer
<1>6. \A m \in Nodes, q \in Requests :
        (call'[q] = "queued" /\ m = Head(left'[q])) <=>
           CallQueued(m, q) \/ (m = n /\ Job("handler", r) = Job("handler", q))
  BY <1>1, JobFacts DEF Inv, TypeInv, ClientQueued, CallQueued, CallPeer
<1>7. queue' = [queue EXCEPT ![n] = Append(@, Job("handler", r))]
  BY DEF CallPeer
<1>8. QueuesFit'
  <2> HIDE DEF n
  <2> QED BY <1>1, <1>2, <1>5, <1>6, <1>7, SubmitOK
<1> QED BY <1>3, <1>4, <1>8 DEF Inv

\* The steps of a handler that submit nothing.
LEMMA HandlerOK ==
  ASSUME Inv, NEW r \in Requests,
         CallRefused(r) \/ AnswerCall(r) \/ Resume(r) \/ Answer(r) \/ HandlerThrows(r)
  PROVE  Inv'
<1>1. left[r] # <<>> => Tail(left[r]) \in Seq(Nodes)
  BY DEF Inv, TypeInv
<1>2. CASE CallRefused(r)
  <2>1. call[r] = "none"
    BY <1>2 DEF Inv, CallsFit, CallRefused
  <2>2. TypeInv' /\ CallsFit'
    BY <1>1, <1>2, <2>1 DEF Inv, TypeInv, CallsFit, CallRefused
  <2> QED BY <1>2, <2>1, <2>2, QueuesStay DEF Inv, TypeInv, CallRefused
<1>3. CASE AnswerCall(r)
  <2>1. TypeInv' /\ CallsFit'
    BY <1>3 DEF Inv, TypeInv, CallsFit, AnswerCall
  <2> QED BY <1>3, <2>1, QueuesStay DEF Inv, TypeInv, AnswerCall
<1>4. CASE Resume(r)
  <2>1. TypeInv' /\ CallsFit'
    BY <1>1, <1>4 DEF Inv, TypeInv, CallsFit, Resume
  <2> QED BY <1>4, <2>1, QueuesStay DEF Inv, TypeInv, Resume
<1>5. CASE Answer(r)
  <2>1. TypeInv' /\ CallsFit'
    BY <1>5 DEF Inv, TypeInv, CallsFit, Answer
  <2> QED BY <1>5, <2>1, QueuesStay DEF Inv, TypeInv, Answer
<1>6. CASE HandlerThrows(r)
  <2>1. TypeInv' /\ CallsFit'
    BY <1>6 DEF Inv, TypeInv, CallsFit, HandlerThrows
  <2> QED BY <1>6, <2>1, QueuesStay DEF Inv, TypeInv, HandlerThrows
<1> QED BY <1>2, <1>3, <1>4, <1>5, <1>6

-----------------------------------------------------------------------------
(* The theorem *)

\* The places of a job in a queue without duplicates are counted by whether it is
\* there.
LEMMA CountPlaces ==
  ASSUME Inv, NEW n \in Nodes, NEW job \in Jobs
  PROVE  InQueue(n, job) = IF job \in Held(queue[n]) THEN 1 ELSE 0
<1> DEFINE S == {i \in DOMAIN queue[n] : queue[n][i] = job}
<1>1. CASE job \in Held(queue[n])
  <2>1. PICK i \in DOMAIN queue[n] : queue[n][i] = job
    BY <1>1 DEF Held
  <2>2. S = {i}
    BY <2>1 DEF Inv, QueuesFit, Distinct
  <2>3. Cardinality(S) = 1
    BY <2>2, FS_Singleton
  <2> QED BY <1>1, <2>3 DEF InQueue
<1>2. CASE job \notin Held(queue[n])
  <2>1. S = {}
    BY <1>2 DEF Held
  <2>2. Cardinality(S) = 0
    BY <2>1, FS_EmptySet
  <2> QED BY <1>2, <2>2 DEF InQueue
<1> QED BY <1>1, <1>2

\* Whatever the cluster, the pools and the plans: a connection is in the queue it
\* belongs to exactly once until a thread of that pool takes it, and in no queue
\* before or after, so that no request and no peer call is handled twice or lost
\* by a pool.
THEOREM ConnectionsServedOnce == Spec => []ServedOnce
<1>1. Inv /\ [Next]_vars => Inv'
  <2> SUFFICES ASSUME Inv, [Next]_vars PROVE Inv'
    OBVIOUS
  <2>1. CASE Next
    BY <2>1, TakeOK, ConnectOK, CallPeerOK, HandlerOK DEF Next
  <2>2. CASE UNCHANGED vars
    BY <2>2 DEF vars, Inv, TypeInv, CallsFit, QueuesFit, ClientQueued, CallQueued, Distinct, Held
  <2> QED BY <2>1, <2>2
<1>2. Inv => ServedOnce
  BY CountPlaces, JobFacts DEF ServedOnce, Inv, QueuesFit, ClientQueued, CallQueued
<1> QED BY <1>1, <1>2, InitOK, PTL DEF Spec
=============================================================================
