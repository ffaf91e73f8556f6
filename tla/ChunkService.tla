---------------------------- MODULE ChunkService ----------------------------
(***************************************************************************)
(* What DistributedChunkService promises its callers, with no nodes,       *)
(* replicas or messages: chunks are stored, or they are not; a chunk that  *)
(* is stored stays so until somebody removes it; whoever is told that a    *)
(* chunk was written finds it stored, and whoever is given content is      *)
(* given what the checksum names.                                          *)
(*                                                                         *)
(* ObjectApi uses the service in this form (its variable stored).          *)
(* ChunkCluster implements it.                                             *)
(***************************************************************************)
CONSTANTS
  Workers,     \* the callers
  Checksums,   \* names of chunks
  Bytes,       \* contents
  Sha256,      \* Sha256[b]: the checksum of content b
  Nil          \* "no content", "no answer"

VARIABLES
  stored,      \* the chunks a write quorum holds
  promised,    \* the chunks whose write was answered with success
  retired,     \* the chunks somebody has asked to remove
  answer,      \* answer[w]: what w was told last and has not taken yet, or Nil
  durable,     \* no file operation has failed
  whole        \* no reply was cut short

Answer == [ok : BOOLEAN, key : Checksums \cup {Nil}, data : Bytes \cup {Nil}]

ServiceInit ==
  /\ stored = {}
  /\ promised = {}
  /\ retired = {}
  /\ answer = [w \in Workers |-> Nil]
  /\ durable = TRUE
  /\ whole = TRUE

\* A fault may come with any step; none is ever undone.
MayFail == (durable' => durable) /\ (whole' => whole)

\* A write, a repair or a hint has completed a quorum.
Keep(k) ==
  /\ UNCHANGED <<retired, answer, promised>>
  /\ stored' = stored \cup {k}

Retire(k) ==
  /\ retired' = retired \cup {k}
  /\ UNCHANGED <<answer, promised, stored>>

\* Only what somebody asked to remove is ever lost.
Drop(k) ==
  /\ k \in retired
  /\ UNCHANGED <<retired, answer, promised>>
  /\ stored' = stored \ {k}

\* w alone is told something.  Whoever was given content may go on with it
\* before being told something else.
Tell(w) ==
  /\ answer[w] = Nil \/ answer[w].data # Nil
  /\ answer'[w] \in Answer
  /\ answer' = [answer EXCEPT ![w] = answer'[w]]
  /\ UNCHANGED <<retired, stored>>

\* A write is answered with success.
Promise(w) ==
  LET k == answer'[w].key IN
  /\ Tell(w)
  /\ answer'[w] = [ok |-> TRUE, key |-> k, data |-> Nil]
  /\ durable => k \in stored \cup retired
  /\ promised' = promised \cup {k}

\* Any other answer.
Reply(w) ==
  LET r == answer'[w] IN
  /\ Tell(w)
  /\ r.data # Nil /\ whole => Sha256[r.data] = r.key
  /\ UNCHANGED promised

\* A repair writes again what it was given.
Rewrite(w) ==
  /\ answer[w] # Nil /\ answer[w].data # Nil
  /\ answer' = [answer EXCEPT ![w] = Nil]
  /\ UNCHANGED <<retired, promised>>
  /\ stored' = stored \cup {Sha256[answer[w].data]}

\* Callers take their answers, or die with them.
Take ==
  /\ UNCHANGED retired
  /\ answer' = [w \in Workers |-> IF answer'[w] = Nil THEN Nil ELSE answer[w]]
  /\ UNCHANGED <<promised, stored>>

ServiceNext ==
  /\ MayFail
  /\ \/ Take
     \/ \E k \in Checksums : Keep(k) \/ Retire(k) \/ Drop(k)
     \/ \E w \in Workers : Promise(w) \/ Reply(w) \/ Rewrite(w)

serviceVars == <<stored, promised, retired, answer, durable, whole>>

ServiceSpec == ServiceInit /\ [][ServiceNext]_serviceVars
=============================================================================
