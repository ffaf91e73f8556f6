------------------------- MODULE ChunkClusterProofs -------------------------
(***************************************************************************)
(* Proofs about ChunkCluster: type correctness, that caches and answers    *)
(* only ever hold verified content, what acknowledged writes and queued    *)
(* hints can be relied on for, and that the cluster implements             *)
(* ChunkService.                                                           *)
(***************************************************************************)
EXTENDS ChunkCluster, FiniteSetTheorems, TLAPS

-----------------------------------------------------------------------------
(* The LRU list *)

\* What the list operations below are put together of: the elements of a
\* concatenation are those of its parts.
LEMMA Concatenation ==
  ASSUME NEW S, NEW f \in Seq(S), NEW g \in Seq(S)
  PROVE  /\ f \o g \in Seq(S)
         /\ Len(f \o g) = Len(f) + Len(g)
         /\ \A i \in 1 .. Len(f) + Len(g) :
               (f \o g)[i] = IF i <= Len(f) THEN f[i] ELSE g[i - Len(f)]
OBVIOUS

\* Erasing a key from the list of the cache leaves only entries it held
\* before.
LEMMA EraseElements ==
  ASSUME NEW S, NEW e \in Seq(S), NEW k
  PROVE  /\ LruErase(e, k) \in Seq(S)
         /\ \A i \in DOMAIN LruErase(e, k) : \E j \in DOMAIN e : LruErase(e, k)[i] = e[j]
<1>1. CASE ~LruContains(e, k)
  BY <1>1 DEF LruErase
<1>2. CASE LruContains(e, k)
  <2> DEFINE p == LruPosition(e, k)
             f == SubSeq(e, 1, p - 1)
             g == SubSeq(e, p + 1, Len(e))
  <2>1. p \in 1 .. Len(e)
    BY <1>2 DEF LruContains, LruPosition
  <2>2. f \in Seq(S) /\ Len(f) = p - 1 /\ \A i \in 1 .. p - 1 : f[i] = e[i]
    BY <2>1
  <2>3. g \in Seq(S) /\ Len(g) = Len(e) - p /\ \A i \in 1 .. Len(e) - p : g[i] = e[p + i]
    BY <2>1
  <2>4. LruErase(e, k) = f \o g
    BY <1>2 DEF LruErase
  <2> HIDE DEF p, f, g
  <2>5. /\ f \o g \in Seq(S)
        /\ Len(f \o g) = Len(f) + Len(g)
        /\ \A i \in 1 .. Len(f) + Len(g) :
              (f \o g)[i] = IF i <= Len(f) THEN f[i] ELSE g[i - Len(f)]
    BY <2>2, <2>3, Concatenation
  <2>6. ASSUME NEW i \in DOMAIN (f \o g)
        PROVE  \E j \in DOMAIN e : (f \o g)[i] = e[j]
    <3>0. i \in 1 .. (p - 1) + (Len(e) - p) /\ p \in Int
      BY <2>1, <2>2, <2>3, <2>5
    <3>1. CASE i <= p - 1
      <4>1. (f \o g)[i] = f[i]
        BY <3>0, <3>1, <2>2, <2>3, <2>5
      <4>2. f[i] = e[i] /\ i \in DOMAIN e
        BY <3>0, <3>1, <2>1, <2>2
      <4> QED BY <4>1, <4>2
    <3>2. CASE i > p - 1
      <4>0. i - (p - 1) \in 1 .. Len(e) - p
        BY <3>0, <3>2, <2>1
      <4>1. (f \o g)[i] = g[i - (p - 1)]
        BY <3>0, <3>2, <2>2, <2>3, <2>5
      <4>2. g[i - (p - 1)] = e[p + (i - (p - 1))]
        BY <4>0, <2>3
      <4>3. p + (i - (p - 1)) \in DOMAIN e
        BY <3>0, <3>2, <2>1
      <4> QED BY <4>1, <4>2, <4>3
    <3> QED BY <3>0, <3>1, <3>2
  <2> QED BY <2>4, <2>5, <2>6
<1> QED BY <1>1, <1>2

\* After a put the list holds the new entry and entries it held before.
LEMMA PutElements ==
  ASSUME NEW S, NEW e \in Seq(S), NEW k, NEW v, LruEntry(k, v) \in S, NEW cap \in Nat
  PROVE  /\ LruPut(e, k, v, cap) \in Seq(S)
         /\ \A i \in DOMAIN LruPut(e, k, v, cap) :
               \/ LruPut(e, k, v, cap)[i] = LruEntry(k, v)
               \/ \E j \in DOMAIN e : LruPut(e, k, v, cap)[i] = e[j]
<1> DEFINE r == LruErase(e, k)
           t == <<LruEntry(k, v)>> \o r
<1>1. r \in Seq(S) /\ \A i \in DOMAIN r : \E j \in DOMAIN e : r[i] = e[j]
  BY EraseElements
<1>2. LruPut(e, k, v, cap) = IF Len(t) > cap THEN SubSeq(t, 1, cap) ELSE t
  BY DEF LruPut, LruEvict
<1> HIDE DEF r
<1>3. /\ t \in Seq(S)
      /\ Len(t) = Len(r) + 1
      /\ t[1] = LruEntry(k, v)
      /\ \A i \in 2 .. Len(t) : t[i] = r[i - 1]
  BY <1>1
<1> HIDE DEF t
<1>4. \A i \in DOMAIN t : t[i] = LruEntry(k, v) \/ \E j \in DOMAIN e : t[i] = e[j]
  <2> SUFFICES ASSUME NEW i \in DOMAIN t
               PROVE  t[i] = LruEntry(k, v) \/ \E j \in DOMAIN e : t[i] = e[j]
    OBVIOUS
  <2>1. CASE i = 1
    BY <2>1, <1>3
  <2>2. CASE i # 1
    <3>1. t[i] = r[i - 1] /\ i - 1 \in DOMAIN r
      BY <2>2, <1>1, <1>3
    <3> QED BY <3>1, <1>1
  <2> QED BY <2>1, <2>2
<1>5. CASE Len(t) <= cap
  BY <1>2, <1>3, <1>4, <1>5
<1>6. CASE Len(t) > cap
  <2>1. /\ SubSeq(t, 1, cap) \in Seq(S)
        /\ Len(SubSeq(t, 1, cap)) = cap
        /\ \A i \in 1 .. cap : SubSeq(t, 1, cap)[i] = t[i] /\ i \in DOMAIN t
    BY <1>3, <1>6
  <2> QED BY <2>1, <1>2, <1>4, <1>6
<1> QED BY <1>5, <1>6, <1>3

\* A hit returns an entry of the list and reorders the list.
LEMMA TouchElements ==
  ASSUME NEW S, NEW e \in Seq(S), NEW k, LruContains(e, k),
         \A i \in DOMAIN e : e[i] = LruEntry(e[i].key, e[i].value)
  PROVE  /\ \E j \in DOMAIN e : e[j].key = k /\ e[j].value = LruValue(e, k)
         /\ LruTouch(e, k) \in Seq(S)
         /\ \A i \in DOMAIN LruTouch(e, k) : \E j \in DOMAIN e : LruTouch(e, k)[i] = e[j]
<1> DEFINE r == LruErase(e, k)
           p == LruPosition(e, k)
<1>1. r \in Seq(S) /\ \A i \in DOMAIN r : \E j \in DOMAIN e : r[i] = e[j]
  BY EraseElements
<1>2. p \in DOMAIN e /\ e[p].key = k /\ e[p].value = LruValue(e, k)
  BY DEF LruContains, LruPosition, LruValue
<1>3. LruEntry(k, LruValue(e, k)) = e[p]
  BY <1>2
<1>4. LruTouch(e, k) = <<e[p]>> \o r
  BY <1>3 DEF LruTouch
<1> HIDE DEF r, p
<1>5. e[p] \in S
  BY <1>2
<1>6. <<e[p]>> \o r \in Seq(S)
  BY <1>1, <1>5
<1>7. \A i \in DOMAIN (<<e[p]>> \o r) : \E j \in DOMAIN e : (<<e[p]>> \o r)[i] = e[j]
  <2> SUFFICES ASSUME NEW i \in DOMAIN (<<e[p]>> \o r)
               PROVE  \E j \in DOMAIN e : (<<e[p]>> \o r)[i] = e[j]
    OBVIOUS
  <2>1. CASE i = 1
    BY <2>1, <1>1, <1>2, <1>5
  <2>2. CASE i # 1
    <3>1. (<<e[p]>> \o r)[i] = r[i - 1] /\ i - 1 \in DOMAIN r
      BY <2>2, <1>1, <1>5
    <3> QED BY <3>1, <1>1
  <2> QED BY <2>1, <2>2
<1> QED BY <1>2, <1>4, <1>6, <1>7

-----------------------------------------------------------------------------
(* The chunk stores *)

DiskType == [Nodes -> [Checksums -> Bytes \cup {Nil}]]
Entries == [key : Checksums, value : Bytes]
CacheType == [Nodes -> Seq(Entries)]

\* What the stores keep to: their types, the verified cache, and whole files
\* under the right names as long as no file operation has failed.
StoresOK ==
  /\ disk \in DiskType
  /\ cache \in CacheType
  /\ CacheVerified
  /\ faults \in Nat
  /\ faults = 0 => \A n \in Nodes, k \in Checksums : disk[n][k] # Nil => Sha256[disk[n][k]] = k

\* A step that takes no file away.
FilesStay == \A n \in Nodes, k \in Checksums : disk[n][k] # Nil => disk'[n][k] # Nil

\* Faults are never forgotten.
FaultsStay == faults' = 0 => faults = 0

\* Entering a verified chunk into the cache of a node keeps every cache verified.
LEMMA CacheChunkOK ==
  ASSUME StoresOK, NEW n \in Nodes, NEW k \in Checksums, NEW d \in Bytes,
         Sha256[d] = k, CacheChunk(n, k, d)
  PROVE  cache' \in CacheType /\ CacheVerified'
<1> DEFINE new == LruPut(cache[n], k, d, CacheCapacity)
<1>1. cache[n] \in Seq(Entries) /\ LruEntry(k, d) \in Entries /\ CacheCapacity \in Nat
  BY QuorumAssumption DEF StoresOK, CacheType, Entries, LruEntry
<1>2. /\ new \in Seq(Entries)
      /\ \A i \in DOMAIN new :
            new[i] = LruEntry(k, d) \/ \E j \in DOMAIN cache[n] : new[i] = cache[n][j]
  <2> DEFINE e == cache[n]
  <2>1. e \in Seq(Entries) /\ LruEntry(k, d) \in Entries /\ CacheCapacity \in Nat
    BY <1>1
  <2> HIDE DEF e
  <2>2. /\ LruPut(e, k, d, CacheCapacity) \in Seq(Entries)
        /\ \A i \in DOMAIN LruPut(e, k, d, CacheCapacity) :
            \/ LruPut(e, k, d, CacheCapacity)[i] = LruEntry(k, d)
            \/ \E j \in DOMAIN e : LruPut(e, k, d, CacheCapacity)[i] = e[j]
    BY <2>1, PutElements
  <2> QED BY <2>2 DEF e
<1>3. cache' = [cache EXCEPT ![n] = new]
  BY DEF CacheChunk
<1> HIDE DEF new
<1>4. \A i \in DOMAIN new : Sha256[new[i].value] = new[i].key
  BY <1>2 DEF StoresOK, CacheVerified, LruEntry
<1>5. \A m \in Nodes : cache'[m] = IF m = n THEN new ELSE cache[m]
  BY <1>3 DEF StoresOK, CacheType
<1>6. CacheVerified'
  BY <1>4, <1>5 DEF StoresOK, CacheVerified
<1>7. cache' \in CacheType
  BY <1>2, <1>3 DEF StoresOK, CacheType
<1> QED BY <1>6, <1>7

\* ChunkStore::put keeps the stores in order, takes no file away, and leaves a
\* file when it answers success.
LEMMA StorePutOK ==
  ASSUME StoresOK, NEW n \in Nodes, NEW d \in Bytes, NEW ok \in BOOLEAN, StorePut(n, d, ok)
  PROVE  /\ StoresOK'
         /\ FilesStay
         /\ FaultsStay
         /\ ok => disk'[n][Sha256[d]] # Nil
<1> DEFINE k == Sha256[d]
<1>0. k \in Checksums /\ Cut \in Bytes /\ Nil \notin Bytes
  BY HashAssumption
<1>1. CASE ok /\ Exists(n, k) /\ CacheChunk(n, k, d) /\ UNCHANGED <<disk, faults>>
  <2>1. cache' \in CacheType /\ CacheVerified'
    BY <1>0, <1>1, CacheChunkOK
  <2> QED BY <1>1, <2>1 DEF StoresOK, FilesStay, FaultsStay, Exists
<1>2. CASE /\ ok
           /\ ~Exists(n, k)
           /\ \/ WriteFile(n, k, d) /\ UNCHANGED faults
              \/ WriteFile(n, k, Cut) /\ Fault
           /\ CacheChunk(n, k, d)
  <2>1. cache' \in CacheType /\ CacheVerified'
    BY <1>0, <1>2, CacheChunkOK
  <2>2. CASE WriteFile(n, k, d) /\ UNCHANGED faults
    <3>1. \A m \in Nodes, j \in Checksums :
            disk'[m][j] = IF m = n /\ j = k THEN d ELSE disk[m][j]
      BY <2>2 DEF WriteFile, StoresOK, DiskType
    <3>2. disk' \in DiskType
      BY <1>0, <2>2 DEF WriteFile, StoresOK, DiskType
    <3> QED BY <1>0, <2>1, <2>2, <3>1, <3>2 DEF StoresOK, FilesStay, FaultsStay
  <2>3. CASE WriteFile(n, k, Cut) /\ Fault
    <3>1. \A m \in Nodes, j \in Checksums :
            disk'[m][j] = IF m = n /\ j = k THEN Cut ELSE disk[m][j]
      BY <2>3 DEF WriteFile, StoresOK, DiskType
    <3>2. disk' \in DiskType
      BY <1>0, <2>3 DEF WriteFile, StoresOK, DiskType
    <3>3. faults' \in Nat /\ faults' # 0
      BY <2>3 DEF Fault, StoresOK
    <3> QED BY <1>0, <2>1, <3>1, <3>2, <3>3 DEF StoresOK, FilesStay, FaultsStay
  <2> QED BY <1>2, <2>2, <2>3
<1>3. CASE ~ok /\ ~Exists(n, k) /\ Fault /\ UNCHANGED stores
  <2>1. faults' \in Nat /\ faults' # 0
    BY <1>3 DEF Fault, StoresOK
  <2> QED BY <1>3, <2>1 DEF StoresOK, FilesStay, FaultsStay, CacheVerified, stores
<1> QED BY <1>1, <1>2, <1>3 DEF StorePut

\* ChunkStore::get returns nothing or the content its checksum names.
LEMMA StoreGetOK ==
  ASSUME StoresOK, NEW n \in Nodes, NEW k \in Checksums, NEW r \in Bytes \cup {Nil},
         StoreGet(n, k, r)
  PROVE  /\ cache' \in CacheType
         /\ CacheVerified'
         /\ r # Nil => r \in Bytes /\ Sha256[r] = k
<1>0. cache[n] \in Seq(Entries)
  BY DEF StoresOK, CacheType
<1>1. CASE /\ LruContains(cache[n], k)
           /\ r = LruValue(cache[n], k)
           /\ cache' = [cache EXCEPT ![n] = LruTouch(cache[n], k)]
  <2> DEFINE new == LruTouch(cache[n], k)
  <2>0. \A i \in DOMAIN cache[n] : cache[n][i] \in Entries
    BY <1>0
  <2>1. \A i \in DOMAIN cache[n] : cache[n][i] = LruEntry(cache[n][i].key, cache[n][i].value)
    BY <2>0 DEF LruEntry, Entries
  <2>2. /\ \E j \in DOMAIN cache[n] : cache[n][j].key = k /\ cache[n][j].value = r
        /\ new \in Seq(Entries)
        /\ \A i \in DOMAIN new : \E j \in DOMAIN cache[n] : new[i] = cache[n][j]
    BY <1>0, <1>1, <2>1, TouchElements
  <2> HIDE DEF new
  <2>3. \A m \in Nodes : cache'[m] = IF m = n THEN new ELSE cache[m]
    BY <1>1 DEF StoresOK, CacheType, new
  <2>4. cache' \in CacheType
    BY <1>1, <2>2 DEF StoresOK, CacheType, new
  <2>5. CacheVerified'
    BY <2>2, <2>3 DEF StoresOK, CacheVerified
  <2>6. Sha256[r] = k
    BY <2>2 DEF StoresOK, CacheVerified
  <2>7. r \in Bytes
    BY <2>0, <2>2 DEF Entries
  <2> QED BY <2>4, <2>5, <2>6, <2>7
<1>2. CASE /\ ~LruContains(cache[n], k)
           /\ Readable(n, k)
           /\ r = disk[n][k]
           /\ CacheChunk(n, k, r)
  <2>1. r \in Bytes /\ Sha256[r] = k
    BY <1>2 DEF Readable, Exists
  <2> QED BY <1>2, <2>1, CacheChunkOK
<1>3. CASE ~LruContains(cache[n], k) /\ ~Readable(n, k) /\ r = Nil /\ UNCHANGED cache
  BY <1>3 DEF StoresOK, CacheVerified
<1> QED BY <1>1, <1>2, <1>3 DEF StoreGet

\* put_chunk: like a put on the peer, and a success means the peer has a file
\* under the name that was asked for.
LEMMA RemotePutOK ==
  ASSUME StoresOK, NEW n \in Nodes, NEW k \in Checksums, NEW d \in Bytes, NEW ok \in BOOLEAN,
         RemotePut(n, k, d, ok)
  PROVE  /\ StoresOK'
         /\ FilesStay
         /\ FaultsStay
         /\ ok => disk'[n][k] # Nil
<1>1. CASE ~ok /\ UNCHANGED <<disk, cache, faults>>
  BY <1>1 DEF StoresOK, FilesStay, FaultsStay, CacheVerified
<1>2. CASE StorePut(n, d, TRUE) /\ (ok => Sha256[d] = k)
  BY <1>2, StorePutOK
<1> QED BY <1>1, <1>2 DEF RemotePut

\* get_chunk: what arrives is nothing, the content the checksum names, or a
\* body that was cut short, which is counted.
LEMMA RemoteGetOK ==
  ASSUME StoresOK, NEW n \in Nodes, NEW k \in Checksums, NEW r \in Bytes \cup {Nil},
         cuts \in Nat, RemoteGet(n, k, r)
  PROVE  /\ cache' \in CacheType
         /\ CacheVerified'
         /\ cuts' \in Nat
         /\ cuts' = 0 => cuts = 0 /\ (r # Nil => Sha256[r] = k)
<1>1. CASE r = Nil /\ UNCHANGED <<cache, cuts>>
  BY <1>1 DEF StoresOK, CacheVerified
<1>2. CASE StoreGet(n, k, r) /\ UNCHANGED cuts
  BY <1>2, StoreGetOK
<1>3. CASE /\ \E whole \in Bytes : StoreGet(n, k, whole)
           /\ \/ r = Nil /\ UNCHANGED cuts
              \/ r = Cut /\ cuts < MaxCuts /\ cuts' = cuts + 1
  BY <1>3, StoreGetOK
<1> QED BY <1>1, <1>2, <1>3 DEF RemoteGet

-----------------------------------------------------------------------------
(* Types and verified content *)

\* What the locals of an operation keep to in each of its phases.
JobFits(w) ==
  /\ job[w].pc \in {"put", "hint", "get", "repair", "remove"} => job[w].key \in Checksums
  /\ job[w].pc \in {"put", "hint", "repair", "send"} => job[w].data \in Bytes
  /\ job[w].pc \in {"put", "hint"} => Sha256[job[w].data] = job[w].key
  /\ job[w].pc = "hint" =>
       job[w].at <= PlanSize /\ Target(job[w].key, job[w].at) # Home[w]
  /\ job[w].pc = "send" =>
       job[w].at <= Len(job[w].hints) /\ job[w].hints[job[w].at].key # Nil
  /\ job[w].pc = "remove" => job[w].key \in removed
  /\ cuts = 0 /\ job[w].pc \in {"get", "repair", "done"} /\ job[w].data # Nil
       => Sha256[job[w].data] = job[w].key

\* The types of what is neither a store nor a job.
RestOK ==
  /\ handoff \in [Nodes -> Seq(Hint)]
  /\ calls \in Nat /\ cuts \in Nat /\ crashes \in Nat
  /\ acked \subseteq Nodes \X Checksums
  /\ removed \subseteq Checksums
  /\ mixed \subseteq Nodes

Basic ==
  /\ StoresOK
  /\ RestOK
  /\ job \in [Workers -> Job]
  /\ \A w \in Workers : JobFits(w)

\* Neither a cut body nor a removal is ever forgotten.
HistoryStays == (cuts' = 0 => cuts = 0) /\ removed \subseteq removed'

\* A step of one operation leaves the other operations as they are.
LEMMA JobStep ==
  ASSUME Basic, NEW w \in Workers, NEW r \in Job, job' = [job EXCEPT ![w] = r],
         StoresOK', RestOK', HistoryStays, JobFits(w)'
  PROVE  Basic'
<1>1. job' \in [Workers -> Job]
  BY DEF Basic
<1>2. ASSUME NEW v \in Workers, v # w
      PROVE  JobFits(v)'
  <2>1. job'[v] = job[v]
    BY <1>2 DEF Basic
  <2> QED BY <2>1 DEF Basic, JobFits, HistoryStays
<1> QED BY <1>1, <1>2 DEF Basic

\* The size of a plan and the members of the ring.
LEMMA PlanFacts ==
  /\ Cardinality(Nodes) \in Nat
  /\ PlanSize \in Nat
  /\ PlanSize <= Cardinality(Nodes)
  /\ \A k \in Checksums, i \in 1 .. PlanSize : Target(k, i) \in Nodes
  /\ \A k \in Checksums, i, j \in 1 .. PlanSize : Target(k, i) = Target(k, j) => i = j
<1>1. Cardinality(Nodes) \in Nat
  BY NodesAssumption, FS_CardinalityType
<1>2. PlanSize \in Nat /\ PlanSize <= Cardinality(Nodes)
  BY <1>1, QuorumAssumption DEF PlanSize
<1>3. \A k \in Checksums, i \in 1 .. PlanSize : Target(k, i) \in Nodes
  BY <1>1, <1>2, PreferenceAssumption DEF Target
<1>4. \A k \in Checksums, i, j \in 1 .. PlanSize : Target(k, i) = Target(k, j) => i = j
  BY <1>1, <1>2, PreferenceAssumption DEF Target
<1> QED BY <1>1, <1>2, <1>3, <1>4

\* A thread that does nothing has well typed locals.
LEMMA IdleFits == Idle \in Job
BY DEF Idle, Job

\* The fields of a thread that does nothing.
LEMMA IdleFields ==
  /\ Idle.pc = "idle" /\ Idle.key = Nil /\ Idle.data = Nil /\ Idle.at = 1 /\ Idle.acks = 0
  /\ Idle.failed = <<>> /\ Idle.hints = <<>> /\ Idle.rest = <<>> /\ Idle.status = "none"
BY DEF Idle

Phases == {"idle", "put", "hint", "get", "repair", "remove", "replay", "send", "done"}

\* The fields of an operation's locals have their types.
LEMMA JobFields ==
  ASSUME NEW j \in Job
  PROVE  /\ j.pc \in Phases
         /\ j.key \in Checksums \cup {Nil}
         /\ j.data \in Bytes \cup {Nil}
         /\ j.at \in Nat \ {0}
         /\ j.acks \in Nat
         /\ j.failed \in Seq(Nodes)
         /\ j.hints \in Seq(Hint)
         /\ j.rest \in Seq(Hint)
BY DEF Job, Phases

\* Every assignment the operations make to their locals keeps them well typed.
LEMMA JobUpdates ==
  ASSUME NEW j \in Job
  PROVE  /\ \A x \in Nat \ {0} :
              [j EXCEPT !.at = x] \in Job
         /\ \A p \in Phases :
              [j EXCEPT !.pc = p] \in Job
         /\ \A p \in Phases, x \in Nat \ {0} :
              [j EXCEPT !.pc = p, !.at = x] \in Job
         /\ \A x \in Nat \ {0}, y \in Nat :
              [j EXCEPT !.at = x, !.acks = y] \in Job
         /\ \A p \in Phases, x \in Nat \ {0}, y \in Nat :
              [j EXCEPT !.pc = p, !.at = x, !.acks = y] \in Job
         /\ \A x \in Nat \ {0}, y \in Nat, d \in Bytes \cup {Nil} :
              [j EXCEPT !.at = x, !.acks = y, !.data = d] \in Job
         /\ \A p \in Phases, x \in Nat \ {0}, y \in Nat, d \in Bytes \cup {Nil} :
              [j EXCEPT !.pc = p, !.at = x, !.acks = y, !.data = d] \in Job
         /\ \A p \in Phases, d \in Bytes \cup {Nil} :
              [j EXCEPT !.pc = p, !.data = d] \in Job
         /\ \A x \in Nat \ {0}, f \in Seq(Nodes) :
              [j EXCEPT !.at = x, !.failed = f] \in Job
         /\ \A x \in Nat \ {0}, t \in Seq(Hint) :
              [j EXCEPT !.at = x, !.rest = t] \in Job
         /\ \A p \in Phases, x \in Nat \ {0}, t \in Seq(Hint) :
              [j EXCEPT !.pc = p, !.at = x, !.rest = t] \in Job
         /\ \A p \in Phases, k \in Checksums \cup {Nil} :
              [j EXCEPT !.pc = p, !.key = k] \in Job
         /\ \A p \in Phases, k \in Checksums \cup {Nil}, d \in Bytes \cup {Nil}, y \in Nat :
              [j EXCEPT !.pc = p, !.key = k, !.data = d, !.acks = y] \in Job
         /\ \A p \in Phases, h \in Seq(Hint) :
              [j EXCEPT !.pc = p, !.hints = h] \in Job
         /\ \A p \in Phases, s \in {"none", "ok", "error"}, k \in Checksums \cup {Nil}, d \in Bytes \cup {Nil} :
              [j EXCEPT !.pc = p, !.status = s, !.key = k, !.data = d] \in Job
<1>1. \A x \in Nat \ {0} :
         [j EXCEPT !.at = x] \in Job
  BY DEF Job, Phases
<1>2. \A p \in Phases :
         [j EXCEPT !.pc = p] \in Job
  BY DEF Job, Phases
<1>3. \A p \in Phases, x \in Nat \ {0} :
         [j EXCEPT !.pc = p, !.at = x] \in Job
  BY DEF Job, Phases
<1>4. \A x \in Nat \ {0}, y \in Nat :
         [j EXCEPT !.at = x, !.acks = y] \in Job
  BY DEF Job, Phases
<1>5. \A p \in Phases, x \in Nat \ {0}, y \in Nat :
         [j EXCEPT !.pc = p, !.at = x, !.acks = y] \in Job
  BY DEF Job, Phases
<1>6. \A x \in Nat \ {0}, y \in Nat, d \in Bytes \cup {Nil} :
         [j EXCEPT !.at = x, !.acks = y, !.data = d] \in Job
  BY DEF Job, Phases
<1>7. \A p \in Phases, x \in Nat \ {0}, y \in Nat, d \in Bytes \cup {Nil} :
         [j EXCEPT !.pc = p, !.at = x, !.acks = y, !.data = d] \in Job
  BY DEF Job, Phases
<1>8. \A p \in Phases, d \in Bytes \cup {Nil} :
         [j EXCEPT !.pc = p, !.data = d] \in Job
  BY DEF Job, Phases
<1>9. \A x \in Nat \ {0}, f \in Seq(Nodes) :
         [j EXCEPT !.at = x, !.failed = f] \in Job
  BY DEF Job, Phases
<1>10. \A x \in Nat \ {0}, t \in Seq(Hint) :
         [j EXCEPT !.at = x, !.rest = t] \in Job
  BY DEF Job, Phases
<1>11. \A p \in Phases, x \in Nat \ {0}, t \in Seq(Hint) :
         [j EXCEPT !.pc = p, !.at = x, !.rest = t] \in Job
  BY DEF Job, Phases
<1>12. \A p \in Phases, k \in Checksums \cup {Nil} :
         [j EXCEPT !.pc = p, !.key = k] \in Job
  BY DEF Job, Phases
<1>13. \A p \in Phases, k \in Checksums \cup {Nil}, d \in Bytes \cup {Nil}, y \in Nat :
         [j EXCEPT !.pc = p, !.key = k, !.data = d, !.acks = y] \in Job
  BY DEF Job, Phases
<1>14. \A p \in Phases, h \in Seq(Hint) :
         [j EXCEPT !.pc = p, !.hints = h] \in Job
  BY DEF Job, Phases
<1>15. \A p \in Phases, s \in {"none", "ok", "error"}, k \in Checksums \cup {Nil}, d \in Bytes \cup {Nil} :
         [j EXCEPT !.pc = p, !.status = s, !.key = k, !.data = d] \in Job
  BY DEF Job, Phases
<1> QED BY <1>1, <1>2, <1>3, <1>4, <1>5, <1>6, <1>7, <1>8, <1>9, <1>10, <1>11, <1>12, <1>13, <1>14, <1>15

\* The result an operation leaves behind is well typed.
LEMMA DoneFits ==
  ASSUME NEW ok \in BOOLEAN, NEW k \in Checksums \cup {Nil}, NEW d \in Bytes \cup {Nil}
  PROVE  /\ Done(ok, k, d) \in Job
         /\ Done(ok, k, d).pc = "done" /\ Done(ok, k, d).key = k /\ Done(ok, k, d).data = d
<1>1. (IF ok THEN "ok" ELSE "error") \in {"none", "ok", "error"} /\ "done" \in Phases
  BY DEF Phases
<1>2. Done(ok, k, d) \in Job
  BY <1>1, IdleFits, JobUpdates DEF Done
<1>3. Done(ok, k, d).pc = "done" /\ Done(ok, k, d).key = k /\ Done(ok, k, d).data = d
  BY IdleFits DEF Done, Job
<1> QED BY <1>2, <1>3

\* An operation that has returned fits when its value is verified or there is none.
LEMMA DoneStep ==
  ASSUME Basic, NEW w \in Workers, NEW ok \in BOOLEAN, NEW k \in Checksums \cup {Nil},
         NEW d \in Bytes \cup {Nil}, job' = [job EXCEPT ![w] = Done(ok, k, d)],
         cuts' = 0 /\ d # Nil => Sha256[d] = k,
         StoresOK', RestOK', HistoryStays
  PROVE  Basic'
<1> DEFINE r == Done(ok, k, d)
<1>1. r \in Job /\ r.pc = "done" /\ r.key = k /\ r.data = d
  BY DoneFits
<1> HIDE DEF r
<1>2. job' = [job EXCEPT ![w] = r]
  BY DEF r
<1>3. job'[w] = r
  BY <1>2 DEF Basic
<1>4. JobFits(w)'
  BY <1>1, <1>3 DEF JobFits
<1> QED BY <1>1, <1>2, <1>4, JobStep

-----------------------------------------------------------------------------
(* The queue file *)

\* Whatever is true of lines whether or not they are complete, and of garbled
\* ones: a set of lines that cutting and gluing does not leave.
LineSet(S) ==
  /\ S \subseteq Hint
  /\ \A p \in Parts : Garbled(p) \in S
  /\ \A h \in S, p \in Parts : [h EXCEPT !.part = p] \in S

\* The fields of a line.
LEMMA HintFields ==
  ASSUME NEW h \in Hint
  PROVE  /\ h.part \in Parts
         /\ h.key # Nil => h.node \in Nodes /\ h.key \in Checksums
         /\ h.key \in Checksums \cup {Nil}
         /\ \A p \in Parts :
              /\ [h EXCEPT !.part = p] \in Hint
              /\ [h EXCEPT !.part = p].node = h.node
              /\ [h EXCEPT !.part = p].key = h.key
              /\ [h EXCEPT !.part = p].part = p
<1>1. CASE h \in [node : Nodes, key : Checksums, part : Parts]
  BY <1>1 DEF Hint
<1>2. CASE h \in [node : {Nil}, key : {Nil}, part : Parts]
  BY <1>2 DEF Hint
<1> QED BY <1>1, <1>2 DEF Hint

\* The lines of all kinds are such a set.
LEMMA HintLines == LineSet(Hint)
<1>1. \A p \in Parts : Garbled(p) \in Hint
  BY DEF Garbled, Hint
<1> QED BY <1>1, HintFields DEF LineSet

\* What is left of a line that is cut short.
LEMMA TornLines ==
  ASSUME NEW S, LineSet(S), NEW h \in S
  PROVE  Torn(h) \subseteq S
<1>1. "address" \in Parts /\ "name" \in Parts /\ "named" \in Parts /\ "size" \in Parts
  BY DEF Parts
<1> QED BY <1>1 DEF Torn, LineSet

\* Writing after a queue, whether or not its last line has its end.
LEMMA AppendLineIn ==
  ASSUME NEW S, LineSet(S), NEW q \in Seq(S), NEW h \in S
  PROVE  AppendLine(q, h) \in Seq(S)
<1>1. "line" \in Parts /\ "name" \in Parts /\ "size" \in Parts
  BY DEF Parts
<1>2. \A l \in S : Joined(l, h) \in S
  BY <1>1 DEF Joined, LineSet
<1>3. CASE Open(q)
  <2>1. Len(q) \in DOMAIN q /\ q[Len(q)] \in S
    BY <1>3 DEF Open
  <2> DEFINE l == Joined(q[Len(q)], h)
  <2>2. l \in S
    BY <1>2, <2>1
  <2> HIDE DEF l
  <2>3. [q EXCEPT ![Len(q)] = l] \in Seq(S)
    BY <2>1, <2>2
  <2> QED BY <1>3, <2>3 DEF AppendLine, l
<1>4. CASE ~Open(q)
  BY <1>4 DEF AppendLine
<1> QED BY <1>3, <1>4

\* What the operations of the queue file make of lines of such a set.
LEMMA QueueOps ==
  ASSUME NEW S, LineSet(S), NEW q \in Seq(S)
  PROVE  /\ \A h \in S : TornAppends(q, h) \subseteq Seq(S)
         /\ Loaded(q) \in Seq(S)
         /\ TornRewrites(q) \subseteq Seq(S)
<1>1. \A h \in S : TornAppends(q, h) \subseteq Seq(S)
  BY TornLines, AppendLineIn DEF TornAppends
<1>2. Loaded(q) \in Seq(S)
  <2>1. CASE Open(q)
    <3> DEFINE l == q[Len(q)]
               f == SubSeq(q, 1, Len(q) - 1)
               e == [l EXCEPT !.part = "line"]
    <3>1. l \in S /\ f \in Seq(S)
      BY <2>1 DEF Open
    <3>2. e \in S
      BY <3>1 DEF LineSet, Parts
    <3> HIDE DEF e
    <3>3. Read(l) \in Seq(S)
      <4>1. <<>> \in Seq(S) /\ <<e>> \in Seq(S)
        BY <3>2
      <4> QED BY <4>1 DEF Read, e
    <3> HIDE DEF l, f
    <3>4. f \o Read(l) \in Seq(S)
      BY <3>1, <3>3
    <3> QED BY <2>1, <3>4 DEF Loaded, l, f
  <2>2. CASE ~Open(q)
    BY <2>2 DEF Loaded
  <2> QED BY <2>1, <2>2
<1>3. \A i \in 0 .. Len(q) : SubSeq(q, 1, i) \in Seq(S)
  OBVIOUS
<1>4. ASSUME NEW i \in 1 .. Len(q), NEW t \in Torn(q[i])
      PROVE  Append(SubSeq(q, 1, i - 1), t) \in Seq(S)
  <2>1. q[i] \in S /\ SubSeq(q, 1, i - 1) \in Seq(S)
    OBVIOUS
  <2>2. t \in S
    BY <2>1, TornLines
  <2> QED BY <2>1, <2>2
<1>5. ASSUME NEW t \in TornRewrites(q)
      PROVE  t \in Seq(S)
  <2>1. CASE t \in {SubSeq(q, 1, i) : i \in 0 .. Len(q)}
    BY <1>3, <2>1
  <2>2. CASE t \in UNION {{Append(SubSeq(q, 1, i - 1), u) : u \in Torn(q[i])} : i \in 1 .. Len(q)}
    <3>1. PICK i \in 1 .. Len(q) : t \in {Append(SubSeq(q, 1, i - 1), u) : u \in Torn(q[i])}
      BY <2>2, Zenon
    <3>2. PICK u \in Torn(q[i]) : t = Append(SubSeq(q, 1, i - 1), u)
      BY <3>1, Zenon
    <3> QED BY <1>4, <3>2
  <2> QED BY <2>1, <2>2, Zenon DEF TornRewrites
<1> QED BY <1>1, <1>2, <1>5

\* What a crash leaves of a queue file, by the operation it interrupts.
LEMMA CrashedQueue ==
  ASSUME NEW n, NEW q \in QueueAfterCrash(n)
  PROVE  \/ q = handoff[n]
         \/ \E w \in Workers :
              Home[w] = n /\ job[w].pc = "hint" /\ q \in TornAppends(handoff[n], HintOf(job[w]))
         \/ \E w \in Workers :
              Home[w] = n /\ job[w].pc = "replay" /\ q \in TornRewrites(job[w].rest)
<1> DEFINE A == {v \in Workers : Home[v] = n /\ job[v].pc = "hint"}
           B == {v \in Replaying(n) : job[v].pc = "replay" /\ job[v].at > Len(job[v].hints)}
<1>1. CASE q \in UNION {TornAppends(handoff[n], HintOf(job[w])) : w \in A}
  <2>1. PICK w \in A : q \in TornAppends(handoff[n], HintOf(job[w]))
    BY <1>1, Zenon
  <2> QED BY <2>1
<1>2. CASE q \in UNION {TornRewrites(job[w].rest) : w \in B}
  <2>1. PICK w \in B : q \in TornRewrites(job[w].rest)
    BY <1>2, Zenon
  <2>2. w \in Workers /\ Home[w] = n /\ job[w].pc = "replay"
    BY DEF Replaying
  <2> QED BY <2>1, <2>2
<1>3. CASE q \in {handoff[n]}
  BY <1>3
<1>4. \/ q \in {handoff[n]}
      \/ q \in UNION {TornAppends(handoff[n], HintOf(job[w])) : w \in A}
      \/ q \in UNION {TornRewrites(job[w].rest) : w \in B}
  BY Zenon DEF QueueAfterCrash
<1> HIDE DEF A, B
<1> QED BY <1>1, <1>2, <1>3, <1>4, Zenon

-----------------------------------------------------------------------------

\* The initial state satisfies Basic.
LEMMA BasicInit == Init => Basic
<1> SUFFICES ASSUME Init PROVE Basic
  OBVIOUS
<1>1. StoresOK
  BY DEF Init, StoresOK, DiskType, CacheType, CacheVerified
<1>2. RestOK
  BY DEF Init, RestOK
<1>3. job \in [Workers -> Job]
  BY IdleFits DEF Init
<1>4. \A w \in Workers : JobFits(w)
  BY DEF Init, Idle, JobFits
<1> QED BY <1>1, <1>2, <1>3, <1>4 DEF Basic

\* A put that has just asked the local store keeps Basic, whoever called it.
LEMMA PutFromOK ==
  ASSUME Basic, NEW w \in Workers, NEW d \in Bytes, NEW ok \in BOOLEAN,
         StorePut(Home[w], d, ok),
         job' = [job EXCEPT ![w] = PutFrom(d, ok)],
         calls' \in Nat,
         UNCHANGED <<handoff, cuts, crashes, acked, removed, mixed>>
  PROVE  Basic'
<1> DEFINE r == [Idle EXCEPT !.pc = "put", !.key = Sha256[d], !.data = d, !.acks = 1]
<1>1. Home[w] \in Nodes /\ StoresOK /\ RestOK
  BY HomeAssumption DEF Basic
<1>2. StoresOK'
  BY <1>1, StorePutOK
<1>3. RestOK' /\ HistoryStays
  BY <1>1 DEF RestOK, HistoryStays
<1>4. CASE ~ok
  BY <1>2, <1>3, <1>4, DoneStep DEF PutFrom
<1>5. CASE ok
  <2>1. Sha256[d] \in Checksums /\ 1 \in Nat /\ "put" \in Phases
    BY HashAssumption DEF Phases
  <2>2. r \in Job
    BY <2>1, IdleFits, JobUpdates
  <2>3. r.pc = "put" /\ r.key = Sha256[d] /\ r.data = d
    BY IdleFits DEF Job
  <2>4. job' = [job EXCEPT ![w] = r]
    BY <1>5 DEF PutFrom
  <2> HIDE DEF r
  <2>5. job'[w] = r
    BY <2>4 DEF Basic
  <2>6. JobFits(w)'
    BY <2>1, <2>3, <2>5 DEF JobFits
  <2> QED BY <1>2, <1>3, <2>2, <2>4, <2>6, JobStep
<1> QED BY <1>4, <1>5

\* What a put queues is a hint.
LEMMA HintOfType ==
  ASSUME Basic, NEW w \in Workers, job[w].pc = "hint"
  PROVE  HintOf(job[w]) \in Hint /\ HintOf(job[w]).part = "line"
<1>1. job[w] \in Job /\ JobFits(w)
  BY DEF Basic
<1>2. job[w].key \in Checksums /\ job[w].at \in 1 .. PlanSize
  BY <1>1, JobFields, PlanFacts DEF JobFits
<1>3. Target(job[w].key, job[w].at) \in Nodes
  BY <1>2, PlanFacts
<1> QED BY <1>2, <1>3 DEF HintOf, Hint, Parts

\* Every step of DistributedChunkService::put keeps Basic, and so does a repair
\* that puts what it has read.
LEMMA BasicPut ==
  ASSUME Basic, NEW w \in Workers,
         \/ \E d \in Whole : CallPut(w, d)
         \/ PutSkipSelf(w) \/ PutReplica(w) \/ PutEnqueue(w) \/ PutReturn(w)
         \/ RepairPut(w)
  PROVE  Basic'
<1> DEFINE j == job[w]
<1>0. j \in Job /\ Home[w] \in Nodes /\ JobFits(w) /\ StoresOK /\ RestOK
  BY HomeAssumption DEF Basic
<1>a. /\ j.at \in Nat \ {0} /\ j.at + 1 \in Nat \ {0} /\ j.acks \in Nat /\ j.acks + 1 \in Nat
      /\ "put" \in Phases /\ "hint" \in Phases
  BY <1>0, JobFields DEF Phases
<1>1. ASSUME NEW d \in Whole, CallPut(w, d)
      PROVE  Basic'
  <2>1. calls' \in Nat /\ UNCHANGED <<handoff, cuts, crashes, acked, removed, mixed>>
    BY <1>0, <1>1 DEF CallPut, Call, RestOK
  <2>2. d \in Bytes
    BY DEF Whole
  <2> QED BY <1>1, <2>1, <2>2, PutFromOK DEF CallPut
<1>6. CASE RepairPut(w)
  <2>1. j.data \in Bytes
    BY <1>0, <1>6, JobFields DEF RepairPut
  <2>2. calls' \in Nat /\ UNCHANGED <<handoff, cuts, crashes, acked, removed, mixed>>
    BY <1>0, <1>6 DEF RepairPut, RestOK
  <2> QED BY <1>6, <2>1, <2>2, PutFromOK DEF RepairPut
<1>2. CASE PutSkipSelf(w)
  <2> DEFINE r == [j EXCEPT !.at = j.at + 1]
  <2>1. StoresOK' /\ RestOK' /\ HistoryStays
    BY <1>0, <1>2 DEF PutSkipSelf, budgets, StoresOK, CacheVerified, RestOK, HistoryStays
  <2>2. r \in Job
    BY <1>0, <1>a, JobUpdates
  <2>3. job' = [job EXCEPT ![w] = r] /\ job'[w] = r
    BY <1>2 DEF PutSkipSelf, Basic
  <2>4. r.pc = j.pc /\ r.key = j.key /\ r.data = j.data /\ j.pc = "put"
    BY <1>0, <1>2 DEF Job, PutSkipSelf
  <2> HIDE DEF r
  <2>5. JobFits(w)'
    BY <1>0, <2>3, <2>4 DEF JobFits
  <2> QED BY <2>1, <2>2, <2>3, <2>5, JobStep
<1>3. CASE PutReplica(w)
  <2> DEFINE m == Target(j.key, j.at)
             r1 == [j EXCEPT !.at = j.at + 1, !.acks = j.acks + 1]
             r2 == [j EXCEPT !.pc = "hint"]
  <2>1. PICK ok \in BOOLEAN :
          /\ RemotePut(m, j.key, j.data, ok)
          /\ job' = [job EXCEPT ![w] = IF ok THEN r1 ELSE r2]
    BY <1>3 DEF PutReplica
  <2>2. /\ j.pc = "put" /\ j.key \in Checksums /\ j.data \in Bytes /\ Sha256[j.data] = j.key
        /\ j.at \in 1 .. PlanSize /\ m # Home[w]
    BY <1>0, <1>3, <1>a, PlanFacts DEF PutReplica, JobFits
  <2>3. m \in Nodes
    BY <2>2, PlanFacts
  <2>4. StoresOK'
    BY <1>0, <2>1, <2>2, <2>3, RemotePutOK
  <2>5. RestOK' /\ HistoryStays
    BY <1>0, <1>3 DEF PutReplica, RestOK, HistoryStays
  <2>6. r1 \in Job /\ r2 \in Job
    BY <1>0, <1>a, JobUpdates
  <2>7. /\ r1.pc = "put" /\ r1.key = j.key /\ r1.data = j.data
        /\ r2.pc = "hint" /\ r2.key = j.key /\ r2.data = j.data /\ r2.at = j.at
    BY <1>0, <2>2 DEF Job
  <2>8. CASE ok
    <3>1. job' = [job EXCEPT ![w] = r1]
      BY <2>1, <2>8
    <3> HIDE DEF r1
    <3>2. job'[w] = r1
      BY <3>1 DEF Basic
    <3>3. JobFits(w)'
      BY <2>2, <2>7, <3>2 DEF JobFits
    <3> QED BY <2>4, <2>5, <2>6, <3>1, <3>3, JobStep
  <2>9. CASE ~ok
    <3>1. job' = [job EXCEPT ![w] = r2]
      BY <2>1, <2>9
    <3> HIDE DEF r2
    <3>2. job'[w] = r2
      BY <3>1 DEF Basic
    <3>3. JobFits(w)'
      BY <2>2, <2>7, <3>2, PlanFacts DEF JobFits
    <3> QED BY <2>4, <2>5, <2>6, <3>1, <3>3, JobStep
  <2> QED BY <2>8, <2>9
<1>4. CASE PutEnqueue(w)
  <2> DEFINE r == [j EXCEPT !.pc = "put", !.at = j.at + 1]
             hint == HintOf(j)
             q == handoff[Home[w]]
  <2>1. /\ j.pc = "hint" /\ j.key \in Checksums /\ j.data \in Bytes /\ Sha256[j.data] = j.key
        /\ j.at \in 1 .. PlanSize
    BY <1>0, <1>4, <1>a, PlanFacts DEF PutEnqueue, JobFits
  <2>2. hint \in Hint
    BY <2>1, HintOfType
  <2> HIDE DEF hint, q
  <2>3. /\ UNCHANGED <<disk, cache, calls, cuts, crashes, acked, removed>>
        /\ faults' = faults \/ faults' = faults + 1
        /\ \/ handoff' = [handoff EXCEPT ![Home[w]] = AppendLine(q, hint)]
           \/ handoff' = handoff
           \/ \E t \in TornAppends(q, hint) : handoff' = [handoff EXCEPT ![Home[w]] = t]
        /\ mixed' = mixed \/ mixed' = mixed \cup {Home[w]}
        /\ job' = [job EXCEPT ![w] = r]
    BY <1>4 DEF PutEnqueue, Fault, hint, q
  <2>4. StoresOK'
    BY <1>0, <2>3 DEF StoresOK, CacheVerified
  <2>5. handoff' \in [Nodes -> Seq(Hint)]
    <3>1. q \in Seq(Hint)
      BY <1>0 DEF RestOK, q
    <3>2. AppendLine(q, hint) \in Seq(Hint) /\ TornAppends(q, hint) \subseteq Seq(Hint)
      BY <2>2, <3>1, HintLines, AppendLineIn, QueueOps
    <3> QED BY <1>0, <2>3, <3>2 DEF RestOK
  <2>6. RestOK' /\ HistoryStays
    BY <1>0, <2>3, <2>5 DEF RestOK, HistoryStays
  <2>7. r \in Job /\ r.pc = "put" /\ r.key = j.key /\ r.data = j.data
    <3>1. r \in Job
      BY <1>0, <1>a, JobUpdates
    <3> QED BY <1>0, <3>1 DEF Job
  <2> HIDE DEF r
  <2>8. job'[w] = r
    BY <2>3 DEF Basic
  <2>9. JobFits(w)'
    BY <2>1, <2>7, <2>8 DEF JobFits
  <2> QED BY <2>3, <2>4, <2>6, <2>7, <2>9, JobStep
<1>5. CASE PutReturn(w)
  <2>1. StoresOK'
    BY <1>0, <1>5 DEF PutReturn, budgets, StoresOK, CacheVerified
  <2>2. j.key \in Checksums
    BY <1>0, <1>5 DEF PutReturn, JobFits
  <2>3. RestOK' /\ HistoryStays
    BY <1>0, <1>5, <2>2 DEF PutReturn, budgets, RestOK, HistoryStays
  <2> DEFINE ok == QuorumReached(j.acks)
  <2>4. ok \in BOOLEAN
    BY DEF QuorumReached
  <2>5. job' = [job EXCEPT ![w] = Done(ok, j.key, Nil)]
    BY <1>5 DEF PutReturn
  <2> HIDE DEF ok
  <2> QED BY <2>1, <2>2, <2>3, <2>4, <2>5, DoneStep
<1> QED BY <1>1, <1>2, <1>3, <1>4, <1>5, <1>6

\* Every step of DistributedChunkService::get keeps Basic.
LEMMA BasicGet ==
  ASSUME Basic, NEW w \in Workers,
         \/ \E k \in Checksums : CallGet(w, k)
         \/ GetReplica(w) \/ GetRepair(w, TRUE) \/ GetRepair(w, FALSE)
         \/ GetReturn(w) \/ GetFallback(w)
  PROVE  Basic'
<1> DEFINE j == job[w]
<1>0. j \in Job /\ Home[w] \in Nodes /\ JobFits(w) /\ StoresOK /\ RestOK
  BY HomeAssumption DEF Basic
<1>a. /\ j.at \in Nat \ {0} /\ j.at + 1 \in Nat \ {0} /\ 1 \in Nat \ {0}
      /\ j.acks \in Nat /\ j.acks + 1 \in Nat /\ j.failed \in Seq(Nodes)
      /\ j.data \in Bytes \cup {Nil} /\ "get" \in Phases /\ "repair" \in Phases
  BY <1>0, JobFields DEF Phases
<1>1. ASSUME NEW k \in Checksums, CallGet(w, k)
      PROVE  Basic'
  <2> DEFINE r == [Idle EXCEPT !.pc = "get", !.key = k]
  <2>1. /\ job' = [job EXCEPT ![w] = r]
        /\ calls' = calls + 1
        /\ UNCHANGED <<disk, cache, handoff, faults, cuts, crashes, acked, removed, mixed>>
    BY <1>1 DEF CallGet, Call
  <2>2. StoresOK'
    BY <1>0, <2>1 DEF StoresOK, CacheVerified
  <2>3. RestOK' /\ HistoryStays
    BY <1>0, <2>1 DEF RestOK, HistoryStays
  <2>4. r \in Job
    BY <1>a, IdleFits, JobUpdates
  <2>5. r.pc = "get" /\ r.key = k /\ r.data = Nil
    BY IdleFits, IdleFields DEF Job
  <2> HIDE DEF r
  <2>6. job'[w] = r
    BY <2>1 DEF Basic
  <2>7. JobFits(w)'
    BY <2>5, <2>6 DEF JobFits
  <2> QED BY <2>1, <2>2, <2>3, <2>4, <2>7, JobStep
<1>2. CASE GetReplica(w)
  <2> DEFINE m == Target(j.key, j.at)
             r1(x) == [j EXCEPT !.at = j.at + 1, !.failed = Append(j.failed, m)]
             r2(x) == [j EXCEPT !.pc = "repair", !.at = 1, !.acks = j.acks + 1, !.data = x]
             r3(x) == [j EXCEPT !.at = j.at + 1, !.acks = j.acks + 1, !.data = x]
  <2>1. PICK x \in Bytes \cup {Nil} :
          /\ IF m = Home[w] THEN StoreGet(m, j.key, x) /\ UNCHANGED cuts
                            ELSE RemoteGet(m, j.key, x)
          /\ job' = [job EXCEPT ![w] = IF x = Nil THEN r1(x)
                                       ELSE IF j.acks + 1 >= ReadQuorum THEN r2(x) ELSE r3(x)]
    BY <1>2 DEF GetReplica
  <2>2. /\ j.pc = "get" /\ j.key \in Checksums /\ j.at \in 1 .. PlanSize
        /\ UNCHANGED <<disk, handoff, calls, faults, crashes, acked, removed, mixed>>
    <3>1. /\ j.pc = "get" /\ j.at <= PlanSize
          /\ UNCHANGED <<disk, handoff, calls, faults, crashes, acked, removed, mixed>>
      BY <1>2 DEF GetReplica
    <3> QED BY <1>0, <1>a, <3>1, PlanFacts DEF JobFits
  <2>3. m \in Nodes
    BY <2>2, PlanFacts
  <2>4. /\ cache' \in CacheType
        /\ CacheVerified'
        /\ cuts' \in Nat
        /\ cuts' = 0 => cuts = 0 /\ (x # Nil => Sha256[x] = j.key)
    <3>0. cuts \in Nat
      BY <1>0 DEF RestOK
    <3>1. CASE m = Home[w]
      BY <1>0, <2>1, <2>2, <2>3, <3>0, <3>1, StoreGetOK
    <3>2. CASE m # Home[w]
      BY <1>0, <2>1, <2>2, <2>3, <3>0, <3>2, RemoteGetOK
    <3> QED BY <3>1, <3>2
  <2>5. StoresOK'
    BY <1>0, <2>2, <2>4 DEF StoresOK
  <2>6. RestOK' /\ HistoryStays
    BY <1>0, <2>2, <2>4 DEF RestOK, HistoryStays
  <2>7. CASE x = Nil
    <3> DEFINE r == r1(x)
    <3>1. job' = [job EXCEPT ![w] = r]
      BY <2>1, <2>7
    <3>2. Append(j.failed, m) \in Seq(Nodes)
      BY <1>a, <2>3
    <3>3. r \in Job
      BY <1>0, <1>a, <3>2, JobUpdates
    <3>4. r.pc = "get" /\ r.key = j.key /\ r.data = j.data
      BY <1>0, <2>2 DEF Job
    <3> HIDE DEF r
    <3>5. job'[w] = r
      BY <3>1 DEF Basic
    <3>6. JobFits(w)'
      BY <1>0, <2>2, <2>4, <3>4, <3>5 DEF JobFits
    <3> QED BY <2>5, <2>6, <3>1, <3>3, <3>6, JobStep
  <2>8. CASE x # Nil /\ j.acks + 1 >= ReadQuorum
    <3> DEFINE r == r2(x)
    <3>1. job' = [job EXCEPT ![w] = r]
      BY <2>1, <2>8
    <3>2. r \in Job
      BY <1>0, <1>a, JobUpdates
    <3>3. r.pc = "repair" /\ r.key = j.key /\ r.data = x
      BY <1>0, <2>2 DEF Job
    <3> HIDE DEF r
    <3>4. job'[w] = r
      BY <3>1 DEF Basic
    <3>5. JobFits(w)'
      BY <2>2, <2>4, <2>8, <3>3, <3>4 DEF JobFits
    <3> QED BY <2>5, <2>6, <3>1, <3>2, <3>5, JobStep
  <2>9. CASE x # Nil /\ ~(j.acks + 1 >= ReadQuorum)
    <3> DEFINE r == r3(x)
    <3>1. job' = [job EXCEPT ![w] = r]
      BY <2>1, <2>9
    <3>2. r \in Job
      BY <1>0, <1>a, JobUpdates
    <3>3. r.pc = "get" /\ r.key = j.key /\ r.data = x
      BY <1>0, <2>2 DEF Job
    <3> HIDE DEF r
    <3>4. job'[w] = r
      BY <3>1 DEF Basic
    <3>5. JobFits(w)'
      BY <2>2, <2>4, <2>9, <3>3, <3>4 DEF JobFits
    <3> QED BY <2>5, <2>6, <3>1, <3>2, <3>5, JobStep
  <2> QED BY <2>7, <2>8, <2>9
<1>3. ASSUME NEW ok \in BOOLEAN, GetRepair(w, ok)
      PROVE  Basic'
  <2> DEFINE m == j.failed[j.at]
             r == [j EXCEPT !.at = j.at + 1]
  <2>1. /\ j.pc = "repair" /\ j.key \in Checksums /\ j.data \in Bytes
        /\ j.at \in 1 .. Len(j.failed)
        /\ UNCHANGED <<handoff, calls, cuts, crashes, acked, removed, mixed>>
    BY <1>0, <1>3, <1>a DEF GetRepair, JobFits
  <2>2. m \in Nodes
    BY <1>a, <2>1
  <2>3. StoresOK'
    <3>1. CASE m = Home[w]
      <4>1. StorePut(m, j.data, ok)
        BY <1>3, <3>1 DEF GetRepair
      <4> QED BY <1>0, <2>1, <2>2, <4>1, StorePutOK
    <3>2. CASE m # Home[w]
      <4>1. RemotePut(m, j.key, j.data, ok)
        BY <1>3, <3>2 DEF GetRepair
      <4> QED BY <1>0, <2>1, <2>2, <4>1, RemotePutOK
    <3> QED BY <3>1, <3>2
  <2>4. RestOK' /\ HistoryStays
    BY <1>0, <2>1 DEF RestOK, HistoryStays
  <2>5. r \in Job
    BY <1>0, <1>a, JobUpdates
  <2>6. job' = [job EXCEPT ![w] = r] /\ job'[w] = r
    BY <1>3 DEF GetRepair, Basic
  <2>7. r.pc = "repair" /\ r.key = j.key /\ r.data = j.data
    BY <1>0, <2>1 DEF Job
  <2> HIDE DEF r
  <2>8. JobFits(w)'
    BY <1>0, <2>1, <2>6, <2>7 DEF JobFits
  <2> QED BY <2>3, <2>4, <2>5, <2>6, <2>8, JobStep
<1>4. CASE GetReturn(w)
  <2>1. /\ j.pc = "repair" /\ j.key \in Checksums /\ j.data \in Bytes
        /\ cuts = 0 => Sha256[j.data] = j.key
        /\ UNCHANGED <<disk, cache, handoff, budgets, acked, removed, mixed>>
    BY <1>0, <1>4, HashAssumption DEF GetReturn, JobFits
  <2>2. StoresOK' /\ RestOK' /\ HistoryStays
    BY <1>0, <2>1 DEF budgets, StoresOK, CacheVerified, RestOK, HistoryStays
  <2>3. job' = [job EXCEPT ![w] = Done(TRUE, j.key, j.data)] /\ TRUE \in BOOLEAN
    BY <1>4 DEF GetReturn
  <2>4. cuts' = 0 /\ j.data # Nil => Sha256[j.data] = j.key
    BY <2>1 DEF budgets
  <2> QED BY <2>1, <2>2, <2>3, <2>4, DoneStep
<1>5. CASE GetFallback(w)
  <2>1. PICK x \in Bytes \cup {Nil} :
          LET ok == x # Nil /\ ReadQuorum <= 1 IN
          /\ StoreGet(Home[w], j.key, x)
          /\ job' = [job EXCEPT ![w] = Done(ok, j.key, IF ok THEN x ELSE Nil)]
    BY <1>5 DEF GetFallback
  <2>2. j.key \in Checksums /\ UNCHANGED <<disk, handoff, budgets, acked, removed, mixed>>
    BY <1>0, <1>5 DEF GetFallback, JobFits
  <2>3. cache' \in CacheType /\ CacheVerified' /\ (x # Nil => Sha256[x] = j.key)
    BY <1>0, <2>1, <2>2, StoreGetOK
  <2>4. StoresOK' /\ RestOK' /\ HistoryStays
    BY <1>0, <2>2, <2>3 DEF budgets, StoresOK, RestOK, HistoryStays
  <2> DEFINE ok == x # Nil /\ ReadQuorum <= 1
             d == IF ok THEN x ELSE Nil
  <2>5. ok \in BOOLEAN /\ d \in Bytes \cup {Nil} /\ (d # Nil => Sha256[d] = j.key)
    BY <2>3
  <2>6. job' = [job EXCEPT ![w] = Done(ok, j.key, d)]
    BY <2>1
  <2> HIDE DEF ok, d
  <2> QED BY <2>2, <2>4, <2>5, <2>6, DoneStep
<1> QED BY <1>1, <1>2, <1>3, <1>4, <1>5

\* Removing a file, here or on a peer, keeps the stores in order and touches
\* no other file.
LEMMA RemoveOK ==
  ASSUME StoresOK, NEW n \in Nodes, NEW k \in Checksums, NEW ok \in BOOLEAN,
         StoreRemove(n, k, ok) \/ RemoteRemove(n, k, ok), UNCHANGED cache
  PROVE  /\ StoresOK'
         /\ FaultsStay
         /\ \A m \in Nodes, i \in Checksums : i # k => disk'[m][i] = disk[m][i]
<1>1. CASE WriteFile(n, k, Nil) /\ UNCHANGED faults
  <2>1. \A m \in Nodes, i \in Checksums :
          disk'[m][i] = IF m = n /\ i = k THEN Nil ELSE disk[m][i]
    BY <1>1 DEF WriteFile, StoresOK, DiskType
  <2>2. disk' \in DiskType
    BY <1>1 DEF WriteFile, StoresOK, DiskType
  <2> QED BY <1>1, <2>1, <2>2 DEF StoresOK, CacheVerified, FaultsStay
<1>2. CASE Fault /\ UNCHANGED disk
  <2>1. faults' \in Nat /\ faults' # 0
    BY <1>2 DEF Fault, StoresOK
  <2> QED BY <1>2, <2>1 DEF StoresOK, CacheVerified, FaultsStay
<1>3. CASE UNCHANGED <<disk, faults>>
  BY <1>3 DEF StoresOK, CacheVerified, FaultsStay
<1> QED BY <1>1, <1>2, <1>3 DEF StoreRemove, RemoteRemove

\* Every step of DistributedChunkService::remove keeps Basic.
LEMMA BasicRemove ==
  ASSUME Basic, NEW w \in Workers,
         \/ \E k \in Checksums, references \in {0, 1} : CallRemove(w, k, references)
         \/ RemoveReplica(w) \/ RemoveReturn(w)
  PROVE  Basic'
<1> DEFINE j == job[w]
<1>0. j \in Job /\ Home[w] \in Nodes /\ JobFits(w) /\ StoresOK /\ RestOK
  BY HomeAssumption DEF Basic
<1>a. /\ j.at \in Nat \ {0} /\ j.at + 1 \in Nat \ {0}
      /\ j.acks \in Nat /\ j.acks + 1 \in Nat /\ "remove" \in Phases
  BY <1>0, JobFields DEF Phases
<1>1. ASSUME NEW k \in Checksums, NEW references \in {0, 1}, CallRemove(w, k, references)
      PROVE  Basic'
  <2> DEFINE r == [Idle EXCEPT !.pc = "remove", !.key = k]
  <2>1. calls' = calls + 1 /\ UNCHANGED <<disk, cache, handoff, faults, cuts, crashes, acked, mixed>>
    BY <1>1 DEF CallRemove, Call
  <2>2. StoresOK'
    BY <1>0, <2>1 DEF StoresOK, CacheVerified
  <2>3. CASE references > 0
    <3>1. job' = [job EXCEPT ![w] = Done(TRUE, k, Nil)] /\ removed' = removed
      BY <1>1, <2>3 DEF CallRemove
    <3>2. RestOK' /\ HistoryStays
      BY <1>0, <2>1, <3>1 DEF RestOK, HistoryStays
    <3> QED BY <2>2, <3>1, <3>2, DoneStep
  <2>4. CASE ~(references > 0)
    <3>1. job' = [job EXCEPT ![w] = r] /\ removed' = removed \cup {k}
      BY <1>1, <2>4 DEF CallRemove
    <3>2. RestOK' /\ HistoryStays
      BY <1>0, <2>1, <3>1 DEF RestOK, HistoryStays
    <3>3. r \in Job
      BY <1>a, IdleFits, JobUpdates
    <3>4. r.pc = "remove" /\ r.key = k /\ r.data = Nil
      BY IdleFits, IdleFields DEF Job
    <3> HIDE DEF r
    <3>5. job'[w] = r
      BY <3>1 DEF Basic
    <3>6. JobFits(w)'
      BY <3>1, <3>4, <3>5 DEF JobFits
    <3> QED BY <2>2, <3>1, <3>2, <3>3, <3>6, JobStep
  <2> QED BY <2>3, <2>4
<1>2. CASE RemoveReplica(w)
  <2> DEFINE m == Target(j.key, j.at)
             r1 == [j EXCEPT !.at = j.at + 1, !.acks = j.acks + 1]
             r2 == [j EXCEPT !.at = j.at + 1]
  <2>1. PICK ok \in BOOLEAN :
          /\ IF m = Home[w] THEN StoreRemove(m, j.key, ok) ELSE RemoteRemove(m, j.key, ok)
          /\ job' = [job EXCEPT ![w] = IF ok THEN r1 ELSE r2]
    BY <1>2 DEF RemoveReplica
  <2>2. /\ j.pc = "remove" /\ j.at <= PlanSize
        /\ UNCHANGED <<cache, handoff, calls, cuts, crashes, acked, removed, mixed>>
    BY <1>2 DEF RemoveReplica
  <2>3. j.key \in Checksums /\ j.key \in removed /\ j.at \in 1 .. PlanSize
    BY <1>0, <1>a, <2>2, PlanFacts DEF JobFits
  <2>4. m \in Nodes
    BY <2>3, PlanFacts
  <2>5. StoresOK'
    BY <1>0, <2>1, <2>2, <2>3, <2>4, RemoveOK
  <2>6. RestOK' /\ HistoryStays
    BY <1>0, <2>2 DEF RestOK, HistoryStays
  <2>7. r1 \in Job /\ r2 \in Job
    BY <1>0, <1>a, JobUpdates
  <2>8. r1.pc = "remove" /\ r1.key = j.key /\ r2.pc = "remove" /\ r2.key = j.key
    BY <1>0, <2>2 DEF Job
  <2> DEFINE r == IF ok THEN r1 ELSE r2
  <2>9. r \in Job /\ r.pc = "remove" /\ r.key = j.key /\ job' = [job EXCEPT ![w] = r]
    BY <2>1, <2>7, <2>8
  <2> HIDE DEF r
  <2>10. job'[w] = r
    BY <2>9 DEF Basic
  <2>11. JobFits(w)'
    BY <2>2, <2>3, <2>9, <2>10 DEF JobFits
  <2> QED BY <2>5, <2>6, <2>9, <2>11, JobStep
<1>3. CASE RemoveReturn(w)
  <2> DEFINE ok == j.acks >= WriteQuorum \/ j.acks >= PlanSize
  <2>1. /\ job' = [job EXCEPT ![w] = Done(ok, j.key, Nil)]
        /\ j.pc = "remove"
        /\ UNCHANGED <<disk, cache, handoff, budgets, acked, removed, mixed>>
    BY <1>3 DEF RemoveReturn
  <2>2. j.key \in Checksums /\ ok \in BOOLEAN
    BY <1>0, <2>1 DEF JobFits
  <2>3. StoresOK' /\ RestOK' /\ HistoryStays
    BY <1>0, <2>1 DEF budgets, StoresOK, CacheVerified, RestOK, HistoryStays
  <2> HIDE DEF ok
  <2> QED BY <2>1, <2>2, <2>3, DoneStep
<1> QED BY <1>1, <1>2, <1>3

\* Every step of DistributedChunkService::replay_hinted_handoff keeps Basic.
LEMMA BasicReplay ==
  ASSUME Basic, NEW w \in Workers,
         \/ CallReplay(w) \/ ReplayRead(w) \/ ReplaySend(w, TRUE) \/ ReplaySend(w, FALSE)
         \/ ReplayReplace(w)
  PROVE  Basic'
<1> DEFINE j == job[w]
<1>0. j \in Job /\ Home[w] \in Nodes /\ JobFits(w) /\ StoresOK /\ RestOK
  BY HomeAssumption DEF Basic
<1>a. /\ j.at \in Nat \ {0} /\ j.at + 1 \in Nat \ {0}
      /\ j.acks \in Nat /\ j.acks + 1 \in Nat
      /\ j.hints \in Seq(Hint) /\ j.rest \in Seq(Hint)
      /\ "replay" \in Phases /\ "send" \in Phases
  BY <1>0, JobFields DEF Phases
<1>b. /\ handoff[Home[w]] \in Seq(Hint) /\ <<>> \in Seq(Hint)
      /\ Loaded(handoff[Home[w]]) \in Seq(Hint)
  BY <1>0, HintLines, QueueOps DEF RestOK
<1>1. CASE CallReplay(w)
  <2> DEFINE r(q) == [Idle EXCEPT !.pc = "replay", !.hints = q]
  <2>1. PICK q \in Seq(Hint) : job' = [job EXCEPT ![w] = r(q)]
    <3>1. CASE job' = [job EXCEPT ![w] = r(Loaded(handoff[Home[w]]))]
      BY <1>b, <3>1
    <3>2. CASE job' = [job EXCEPT ![w] = [Idle EXCEPT !.pc = "replay"]]
      <4>1. [Idle EXCEPT !.pc = "replay"] = r(<<>>)
        BY IdleFits, IdleFields DEF Job
      <4> QED BY <1>b, <3>2, <4>1
    <3> QED BY <1>1, <3>1, <3>2 DEF CallReplay
  <2>2. /\ faults' = faults \/ faults' = faults + 1
        /\ UNCHANGED <<disk, cache, handoff, calls, cuts, crashes, acked, removed, mixed>>
    BY <1>1 DEF CallReplay, Fault
  <2>3. StoresOK'
    BY <1>0, <2>2 DEF StoresOK, CacheVerified
  <2>4. RestOK' /\ HistoryStays
    BY <1>0, <2>2 DEF RestOK, HistoryStays
  <2> DEFINE s == r(q)
  <2>5. s \in Job
    BY <1>a, IdleFits, JobUpdates
  <2>6. s.pc = "replay"
    BY IdleFits DEF Job
  <2>7. job' = [job EXCEPT ![w] = s]
    BY <2>1
  <2> HIDE DEF s
  <2>8. job'[w] = s
    BY <2>7 DEF Basic
  <2>9. JobFits(w)'
    BY <2>6, <2>8 DEF JobFits
  <2> QED BY <2>3, <2>4, <2>5, <2>7, <2>9, JobStep
<1>2. CASE ReplayRead(w)
  <2> DEFINE hint == j.hints[j.at]
             t == Remain(j.rest, hint)
             r1 == [j EXCEPT !.at = j.at + 1, !.rest = t]
             r2(x) == [j EXCEPT !.pc = "send", !.data = x]
  <2>1. PICK x \in Bytes \cup {Nil} :
          /\ IF hint.key = Nil THEN x = Nil /\ UNCHANGED cache
                               ELSE StoreGet(Home[w], hint.key, x)
          /\ job' = [job EXCEPT ![w] = IF x = Nil THEN r1 ELSE r2(x)]
    BY <1>2 DEF ReplayRead
  <2>2. /\ j.pc = "replay" /\ j.at <= Len(j.hints)
        /\ UNCHANGED <<disk, handoff, budgets, acked, removed, mixed>>
    BY <1>2 DEF ReplayRead
  <2>3. hint \in Hint
    BY <1>a, <2>2
  <2>4. (hint.key # Nil => hint.key \in Checksums) /\ t \in Seq(Hint)
    BY <1>a, <2>3, HintFields DEF Remain
  <2>5. cache' \in CacheType /\ CacheVerified'
    <3>1. CASE hint.key = Nil
      BY <1>0, <2>1, <3>1 DEF StoresOK, CacheVerified
    <3>2. CASE hint.key # Nil
      BY <1>0, <2>1, <2>4, <3>2, StoreGetOK
    <3> QED BY <3>1, <3>2
  <2>6. StoresOK' /\ RestOK' /\ HistoryStays
    BY <1>0, <2>2, <2>5 DEF budgets, StoresOK, RestOK, HistoryStays
  <2> HIDE DEF t
  <2>7. CASE x = Nil
    <3>1. job' = [job EXCEPT ![w] = r1]
      BY <2>1, <2>7
    <3>2. r1 \in Job
      BY <1>0, <1>a, <2>4, JobUpdates
    <3>3. r1.pc = "replay"
      BY <1>0, <2>2 DEF Job
    <3> HIDE DEF r1
    <3>4. job'[w] = r1
      BY <3>1 DEF Basic
    <3>5. JobFits(w)'
      BY <3>3, <3>4 DEF JobFits
    <3> QED BY <2>6, <3>1, <3>2, <3>5, JobStep
  <2>8. CASE x # Nil
    <3> DEFINE r == r2(x)
    <3>1. job' = [job EXCEPT ![w] = r]
      BY <2>1, <2>8
    <3>2. r \in Job
      BY <1>0, <1>a, JobUpdates
    <3>3. r.pc = "send" /\ r.data = x /\ r.at = j.at /\ r.hints = j.hints
      BY <1>0 DEF Job
    <3> HIDE DEF r
    <3>4. job'[w] = r
      BY <3>1 DEF Basic
    <3>5. JobFits(w)'
      BY <2>1, <2>2, <2>8, <3>3, <3>4 DEF JobFits
    <3> QED BY <2>6, <3>1, <3>2, <3>5, JobStep
  <2> QED BY <2>7, <2>8
<1>3. ASSUME NEW ok \in BOOLEAN, ReplaySend(w, ok)
      PROVE  Basic'
  <2> DEFINE hint == j.hints[j.at]
             t == Remain(j.rest, hint)
             r1 == [j EXCEPT !.pc = "replay", !.at = j.at + 1, !.acks = j.acks + 1]
             r2 == [j EXCEPT !.pc = "replay", !.at = j.at + 1, !.rest = t]
             r == IF ok THEN r1 ELSE r2
  <2>1. /\ j.pc = "send"
        /\ RemotePut(hint.node, hint.key, j.data, ok)
        /\ job' = [job EXCEPT ![w] = r]
        /\ UNCHANGED <<handoff, calls, cuts, crashes, acked, removed, mixed>>
    BY <1>3 DEF ReplaySend
  <2>2. j.data \in Bytes /\ j.at \in 1 .. Len(j.hints) /\ hint.key # Nil
    BY <1>0, <1>a, <2>1 DEF JobFits
  <2>3. hint \in Hint
    BY <1>a, <2>2
  <2>4. hint.key \in Checksums /\ hint.node \in Nodes /\ t \in Seq(Hint)
    BY <1>a, <2>2, <2>3, HintFields DEF Remain
  <2>5. StoresOK'
    BY <1>0, <2>1, <2>2, <2>4, RemotePutOK
  <2>6. RestOK' /\ HistoryStays
    BY <1>0, <2>1 DEF RestOK, HistoryStays
  <2> HIDE DEF t
  <2>7. r1 \in Job /\ r2 \in Job
    BY <1>0, <1>a, <2>4, JobUpdates
  <2>8. r1.pc = "replay" /\ r2.pc = "replay"
    BY <1>0 DEF Job
  <2>9. r \in Job /\ r.pc = "replay"
    BY <2>7, <2>8
  <2> HIDE DEF r
  <2>10. job'[w] = r
    BY <2>1 DEF Basic
  <2>11. JobFits(w)'
    BY <2>9, <2>10 DEF JobFits
  <2> QED BY <2>1, <2>5, <2>6, <2>9, <2>11, JobStep
<1>4. CASE ReplayReplace(w)
  <2>1. PICK ok \in BOOLEAN : job' = [job EXCEPT ![w] = Done(ok, Nil, Nil)]
    BY <1>4 DEF ReplayReplace
  <2>2. /\ faults' = faults \/ faults' = faults + 1
        /\ UNCHANGED <<disk, cache, calls, cuts, crashes, acked, removed, mixed>>
    BY <1>4 DEF ReplayReplace, Fault
  <2>3. PICK q \in Seq(Hint) : handoff' = handoff \/ handoff' = [handoff EXCEPT ![Home[w]] = q]
    <3>1. TornRewrites(j.rest) \subseteq Seq(Hint)
      BY <1>a, HintLines, QueueOps
    <3> QED BY <1>4, <1>a, <1>b, <3>1 DEF ReplayReplace
  <2>4. StoresOK'
    BY <1>0, <2>2 DEF StoresOK, CacheVerified
  <2>5. handoff' \in [Nodes -> Seq(Hint)]
    BY <1>0, <2>3 DEF RestOK
  <2>6. RestOK' /\ HistoryStays
    BY <1>0, <2>2, <2>5 DEF RestOK, HistoryStays
  <2> QED BY <2>1, <2>4, <2>6, DoneStep
<1> QED BY <1>1, <1>2, <1>3, <1>4

\* Handing a result to the caller, and a crash, keep Basic.
LEMMA BasicReturn ==
  ASSUME Basic, NEW w \in Workers, Return(w)
  PROVE  Basic'
<1>1. job' = [job EXCEPT ![w] = Idle] /\ UNCHANGED <<disk, cache, handoff, budgets, acked, removed, mixed>>
  BY DEF Return
<1>2. StoresOK' /\ RestOK' /\ HistoryStays
  BY <1>1 DEF Basic, budgets, StoresOK, CacheVerified, RestOK, HistoryStays
<1>3. job'[w] = Idle
  BY <1>1 DEF Basic
<1>4. JobFits(w)'
  BY <1>3, IdleFields DEF JobFits
<1> QED BY <1>1, <1>2, <1>4, IdleFits, JobStep

\* A crash keeps the invariant: it only empties caches, ends jobs and cuts the queue.
LEMMA BasicCrash ==
  ASSUME Basic, NEW n \in Nodes, Crash(n)
  PROVE  Basic'
<1>1. /\ UNCHANGED <<disk, calls, faults, cuts, acked, removed, mixed>>
      /\ crashes' = crashes + 1
      /\ cache' = [cache EXCEPT ![n] = <<>>]
      /\ job' = [w \in Workers |-> IF Home[w] = n THEN Idle ELSE job[w]]
  BY DEF Crash
<1>2. StoresOK'
  <2>1. cache' \in CacheType
    BY <1>1 DEF Basic, StoresOK, CacheType
  <2>2. \A m \in Nodes : cache'[m] = IF m = n THEN <<>> ELSE cache[m]
    BY <1>1 DEF Basic, StoresOK, CacheType
  <2>3. CacheVerified'
    BY <2>2 DEF Basic, StoresOK, CacheVerified
  <2> QED BY <1>1, <2>1, <2>3 DEF Basic, StoresOK
<1>3. PICK q \in QueueAfterCrash(n) : handoff' = [handoff EXCEPT ![n] = q]
  BY DEF Crash
<1>4. q \in Seq(Hint)
  <2>1. CASE q = handoff[n]
    BY <2>1 DEF Basic, RestOK
  <2>2. ASSUME NEW w \in Workers, q \in TornRewrites(job[w].rest)
        PROVE  q \in Seq(Hint)
    <3>1. job[w].rest \in Seq(Hint)
      BY JobFields DEF Basic
    <3> QED BY <2>2, <3>1, HintLines, QueueOps
  <2>3. ASSUME NEW w \in Workers, job[w].pc = "hint", q \in TornAppends(handoff[n], HintOf(job[w]))
        PROVE  q \in Seq(Hint)
    <3>1. HintOf(job[w]) \in Hint
      BY <2>3, HintOfType
    <3>2. handoff[n] \in Seq(Hint)
      BY DEF Basic, RestOK
    <3> QED BY <2>3, <3>1, <3>2, HintLines, QueueOps
  <2> QED BY <1>3, <2>1, <2>2, <2>3, CrashedQueue
<1>5. handoff' \in [Nodes -> Seq(Hint)]
  BY <1>3, <1>4 DEF Basic, RestOK
<1>6. RestOK'
  BY <1>1, <1>5 DEF Basic, RestOK
<1>7. job' \in [Workers -> Job]
  BY <1>1, IdleFits DEF Basic
<1>8. ASSUME NEW w \in Workers
      PROVE  JobFits(w)'
  <2>1. job'[w] = IF Home[w] = n THEN Idle ELSE job[w]
    BY <1>1
  <2>2. CASE Home[w] = n
    BY <2>1, <2>2, IdleFields DEF JobFits
  <2>3. CASE Home[w] # n
    BY <1>1, <2>1, <2>3 DEF Basic, JobFits
  <2> QED BY <2>2, <2>3
<1> QED BY <1>2, <1>6, <1>7, <1>8 DEF Basic

\* The names callers use are checksums.
LEMMA NamedType == Named \subseteq Checksums
BY HashAssumption DEF Named, Whole

\* Basic is an inductive invariant.
LEMMA BasicStep == Basic /\ [Next]_vars => Basic'
<1> SUFFICES ASSUME Basic, [Next]_vars PROVE Basic'
  OBVIOUS
<1>1. CASE UNCHANGED vars
  BY <1>1 DEF vars, Basic, StoresOK, CacheVerified, RestOK, JobFits
<1>2. ASSUME NEW w \in Workers, CallAny(w)
      PROVE  Basic'
  <2>1. CASE \E d \in Whole : CallPut(w, d)
    BY <2>1, BasicPut
  <2>2. CASE \E k \in Named : CallGet(w, k)
    BY <2>2, NamedType, BasicGet
  <2>3. CASE \E k \in Named, references \in {0, 1} : CallRemove(w, k, references)
    BY <2>3, NamedType, BasicRemove
  <2>4. CASE CallReplay(w)
    BY <2>4, BasicReplay
  <2> QED BY <1>2, <2>1, <2>2, <2>3, <2>4 DEF CallAny
<1>3. ASSUME NEW w \in Workers, Step(w)
      PROVE  Basic'
  BY <1>3, BasicPut, BasicGet, BasicRemove, BasicReplay, BasicReturn DEF Step
<1>4. ASSUME NEW n \in Nodes, Crash(n)
      PROVE  Basic'
  BY <1>4, BasicCrash
<1> QED BY <1>1, <1>2, <1>3, <1>4 DEF Next

\* The inductive invariant Basic (types, stores and the locals of every running
\* operation) holds in every reachable state of the storage plane.
THEOREM BasicInvariant == Spec => []Basic
BY BasicInit, BasicStep, PTL DEF Spec

\* The state of every store, queue and operation has its type in every
\* reachable state, for every cluster and every number of threads.
THEOREM TypeCorrect == Spec => []TypeOK
<1>1. Basic => TypeOK
  BY DEF Basic, StoresOK, DiskType, CacheType, Entries, RestOK, TypeOK
<1> QED BY <1>1, BasicInvariant, PTL

\* ChunkStore::get may return what is cached without hashing it: the cache of
\* every store only ever holds content under its own checksum.
THEOREM CacheIsVerified == Spec => []CacheVerified
<1>1. Basic => CacheVerified
  BY DEF Basic, StoresOK
<1> QED BY <1>1, BasicInvariant, PTL

\* The value DistributedChunkService::get returns hashes to the checksum that
\* was asked for, unless a reply body was cut short on the way.
THEOREM ReadsAreVerified == Spec => []ReadsVerified
<1>1. Basic => ReadsVerified
  <2> SUFFICES ASSUME Basic, cuts = 0, NEW w \in Workers,
                      job[w].pc = "done", job[w].data # Nil
               PROVE  Sha256[job[w].data] = job[w].key
    BY DEF ReadsVerified
  <2> QED BY DEF Basic, JobFits
<1> QED BY <1>1, BasicInvariant, PTL

-----------------------------------------------------------------------------
(* What steps do to files, queues and the locals of an operation *)

\* A file that exists is never written again: it stays as it is until somebody
\* removes the chunk.
FilesFixed == \A n \in Nodes, k \in Checksums : disk[n][k] # Nil => disk'[n][k] = disk[n][k]

\* No file of another chunk than k is touched.
OnlyFilesOf(k) == \A n \in Nodes, i \in Checksums : i # k => disk'[n][i] = disk[n][i]

\* ChunkStore::put writes at most the missing file of the chunk it is given, and
\* nothing when it fails.
LEMMA StorePutFiles ==
  ASSUME StoresOK, NEW n \in Nodes, NEW d \in Bytes, NEW ok \in BOOLEAN, StorePut(n, d, ok)
  PROVE  FilesFixed /\ OnlyFilesOf(Sha256[d]) /\ (~ok => disk' = disk)
<1> DEFINE k == Sha256[d]
<1>0. k \in Checksums /\ disk \in DiskType
  BY HashAssumption DEF StoresOK
<1>1. CASE UNCHANGED disk
  BY <1>1 DEF FilesFixed, OnlyFilesOf
<1>2. ASSUME NEW c \in Bytes, ok, ~Exists(n, k), WriteFile(n, k, c)
      PROVE  FilesFixed /\ OnlyFilesOf(k)
  <2>1. \A m \in Nodes, i \in Checksums :
          disk'[m][i] = IF m = n /\ i = k THEN c ELSE disk[m][i]
    BY <1>0, <1>2 DEF WriteFile, DiskType
  <2> QED BY <1>2, <2>1 DEF FilesFixed, OnlyFilesOf, Exists
<1> QED BY <1>1, <1>2, HashAssumption DEF StorePut, stores

\* So does a put on a peer, whether or not the answer arrives.
LEMMA RemotePutFiles ==
  ASSUME StoresOK, NEW n \in Nodes, NEW k, NEW d \in Bytes, NEW ok \in BOOLEAN,
         RemotePut(n, k, d, ok)
  PROVE  FilesFixed /\ OnlyFilesOf(Sha256[d])
<1>1. CASE UNCHANGED <<disk, cache, faults>>
  BY <1>1 DEF FilesFixed, OnlyFilesOf
<1>2. CASE StorePut(n, d, TRUE)
  BY <1>2, StorePutFiles
<1> QED BY <1>1, <1>2 DEF RemotePut

\* What no step undoes: the files of chunks nobody removes, removals, faults,
\* crashes and promises.
Kept ==
  /\ \A n \in Nodes, k \in Checksums :
        disk[n][k] # Nil => disk'[n][k] = disk[n][k] \/ k \in removed'
  /\ removed \subseteq removed'
  /\ FaultsStay
  /\ crashes' = 0 => crashes = 0
  /\ acked \subseteq acked'
  /\ mixed \subseteq mixed'

\* The steps of one thread, by what they do to its locals, the queue of its node
\* and the promises made.  First the steps of a put.
PutStarts(w) ==
  /\ job'[w].pc = "put" /\ job'[w].at = 1 /\ job'[w].acks = 1
  /\ disk'[Home[w]][job'[w].key] # Nil
  /\ UNCHANGED <<handoff, acked>>

\* The put has gone on to the next target.
PutMoves(w) ==
  /\ job[w].pc \in {"put", "hint"}
  /\ job'[w].pc = "put" /\ job'[w].key = job[w].key /\ job'[w].at = job[w].at + 1
  /\ job[w].at \in 1 .. PlanSize
  /\ acked' = acked

PutSkips(w) ==
  /\ PutMoves(w)
  /\ Target(job[w].key, job[w].at) = Home[w] /\ job'[w].acks = job[w].acks
  /\ UNCHANGED handoff

PutSent(w) ==
  /\ PutMoves(w)
  /\ Target(job[w].key, job[w].at) # Home[w] /\ job'[w].acks = job[w].acks + 1
  /\ disk'[Target(job[w].key, job[w].at)][job[w].key] # Nil
  /\ UNCHANGED handoff

PutQueued(w) ==
  /\ PutMoves(w)
  /\ Target(job[w].key, job[w].at) # Home[w] /\ job'[w].acks = job[w].acks
  /\ job[w].pc = "hint"
  /\ Replaying(Home[w]) # {} => Home[w] \in mixed'
  /\ \/ handoff' = [handoff EXCEPT ![Home[w]] = AppendLine(handoff[Home[w]], HintOf(job[w]))]
     \/ faults' # 0 /\ UNCHANGED handoff
     \/ /\ faults' # 0
        /\ \E q \in TornAppends(handoff[Home[w]], HintOf(job[w])) :
             handoff' = [handoff EXCEPT ![Home[w]] = q]

PutFails(w) ==
  /\ job[w].pc = "put" /\ job'[w].pc = "hint"
  /\ job'[w].key = job[w].key /\ job'[w].at = job[w].at /\ job'[w].acks = job[w].acks
  /\ UNCHANGED <<handoff, acked>>

PutEnds(w) ==
  /\ job[w].pc = "put" /\ job[w].at > PlanSize /\ job'[w].pc = "done"
  /\ UNCHANGED handoff
  /\ \/ UNCHANGED acked
     \/ job[w].acks >= WriteQuorum /\ acked' = acked \cup {<<Home[w], job[w].key>>}

\* The steps of a replay.
ReplayStarts(w) ==
  /\ job'[w].pc = "replay" /\ job'[w].at = 1 /\ job'[w].rest = <<>>
  /\ job'[w].hints = Loaded(handoff[Home[w]]) \/ (job'[w].hints = <<>> /\ faults' # 0)
  /\ UNCHANGED <<handoff, acked>>

\* The replay has gone on with its hints, or to the next one.
ReplayGoes(w) ==
  /\ job[w].pc \in {"replay", "send"} /\ job'[w].pc \in {"replay", "send"}
  /\ job[w].at \in 1 .. Len(job[w].hints) /\ job'[w].hints = job[w].hints
  /\ UNCHANGED <<handoff, acked>>

ReplayReads(w) == ReplayGoes(w) /\ job'[w].at = job[w].at /\ job'[w].rest = job[w].rest

ReplayDelivers(w) ==
  /\ ReplayGoes(w) /\ job'[w].at = job[w].at + 1 /\ job'[w].rest = job[w].rest
  /\ disk'[job[w].hints[job[w].at].node][job[w].hints[job[w].at].key] # Nil

ReplayRetains(w) ==
  /\ ReplayGoes(w) /\ job'[w].at = job[w].at + 1
  /\ job'[w].rest = Append(job[w].rest, job[w].hints[job[w].at])

ReplayEnds(w) ==
  /\ job[w].pc = "replay" /\ job[w].at > Len(job[w].hints) /\ job'[w].pc = "done"
  /\ UNCHANGED acked
  /\ \/ handoff' = [handoff EXCEPT ![Home[w]] = job[w].rest]
     \/ faults' # 0 /\ UNCHANGED handoff
     \/ /\ faults' # 0
        /\ \E q \in TornRewrites(job[w].rest) : handoff' = [handoff EXCEPT ![Home[w]] = q]

\* Whatever else a thread does.
Apart(w) ==
  /\ job'[w].pc \notin {"put", "hint", "replay", "send"}
  /\ UNCHANGED <<handoff, acked>>

Moves(w) ==
  \/ PutStarts(w) \/ PutSkips(w) \/ PutSent(w) \/ PutQueued(w) \/ PutFails(w) \/ PutEnds(w)
  \/ ReplayStarts(w) \/ ReplayReads(w) \/ ReplayDelivers(w) \/ ReplayRetains(w)
  \/ ReplayEnds(w) \/ Apart(w)

\* What a step of thread w does as far as the proofs below look at it.
Acts(w) ==
  /\ Kept /\ Moves(w) /\ UNCHANGED crashes
  /\ \A v \in Workers : v # w => job'[v] = job[v]

\* A put that has just asked the local store, whoever called it.
LEMMA ActsPutFrom ==
  ASSUME Basic, NEW w \in Workers, NEW d \in Bytes, NEW ok \in BOOLEAN,
         StorePut(Home[w], d, ok),
         job' = [job EXCEPT ![w] = PutFrom(d, ok)],
         UNCHANGED <<handoff, cuts, crashes, acked, removed, mixed>>
  PROVE  Acts(w)
<1>1. Home[w] \in Nodes /\ StoresOK
  BY HomeAssumption DEF Basic
<1>2. FilesFixed /\ FaultsStay /\ (ok => disk'[Home[w]][Sha256[d]] # Nil)
  BY <1>1, StorePutOK, StorePutFiles
<1>3. Kept
  BY <1>2 DEF Kept, FilesFixed
<1>4. job'[w] = PutFrom(d, ok) /\ \A v \in Workers : v # w => job'[v] = job[v]
  BY DEF Basic
<1>5. CASE ok
  <2> DEFINE r == [Idle EXCEPT !.pc = "put", !.key = Sha256[d], !.data = d, !.acks = 1]
  <2>1. r.pc = "put" /\ r.key = Sha256[d] /\ r.at = 1 /\ r.acks = 1
    BY DEF Idle
  <2>2. job'[w] = r
    BY <1>4, <1>5 DEF PutFrom
  <2> HIDE DEF r
  <2>3. PutStarts(w)
    BY <1>2, <1>5, <2>1, <2>2 DEF PutStarts
  <2> QED BY <1>3, <1>4, <2>3 DEF Acts, Moves
<1>6. CASE ~ok
  <2>1. job'[w] = Done(FALSE, Nil, Nil)
    BY <1>4, <1>6 DEF PutFrom
  <2>2. Done(FALSE, Nil, Nil).pc = "done"
    BY DEF Done, Idle
  <2>3. job'[w].pc = "done"
    BY <2>1, <2>2
  <2> QED BY <1>3, <1>4, <2>3 DEF Acts, Moves, Apart
<1> QED BY <1>5, <1>6

\* DistributedChunkService::put.
LEMMA ActsPut ==
  ASSUME Basic, NEW w \in Workers,
         \/ \E d \in Whole : CallPut(w, d)
         \/ PutSkipSelf(w) \/ PutReplica(w) \/ PutEnqueue(w) \/ PutReturn(w)
         \/ RepairPut(w)
  PROVE  Acts(w)
<1> DEFINE j == job[w]
<1>0. j \in Job /\ Home[w] \in Nodes /\ JobFits(w) /\ StoresOK /\ RestOK
  BY HomeAssumption DEF Basic
<1>a. j.at \in Nat \ {0} /\ j.acks \in Nat /\ PlanSize \in Nat
  BY <1>0, JobFields, PlanFacts
<1>1. ASSUME NEW d \in Whole, CallPut(w, d)
      PROVE  Acts(w)
  <2>1. d \in Bytes
    BY DEF Whole
  <2> QED BY <1>1, <2>1, ActsPutFrom DEF CallPut
<1>2. CASE RepairPut(w)
  <2>1. j.data \in Bytes
    BY <1>0, <1>2, JobFields DEF RepairPut
  <2> QED BY <1>2, <2>1, ActsPutFrom DEF RepairPut
<1>3. CASE PutSkipSelf(w)
  <2> DEFINE r == [j EXCEPT !.at = j.at + 1]
  <2>1. /\ j.pc = "put" /\ j.at \in 1 .. PlanSize /\ Target(j.key, j.at) = Home[w]
        /\ job' = [job EXCEPT ![w] = r]
        /\ UNCHANGED <<disk, handoff, faults, crashes, acked, removed, mixed>>
    BY <1>3, <1>a DEF PutSkipSelf, budgets
  <2>2. r.pc = j.pc /\ r.key = j.key /\ r.at = j.at + 1 /\ r.acks = j.acks
    BY <1>0 DEF Job
  <2> HIDE DEF r
  <2>3. job'[w] = r /\ \A v \in Workers : v # w => job'[v] = job[v]
    BY <2>1 DEF Basic
  <2>4. PutSkips(w)
    BY <2>1, <2>2, <2>3 DEF PutSkips, PutMoves
  <2> QED BY <2>1, <2>3, <2>4 DEF Acts, Moves, Kept, FaultsStay
<1>4. CASE PutReplica(w)
  <2> DEFINE m == Target(j.key, j.at)
             r1 == [j EXCEPT !.at = j.at + 1, !.acks = j.acks + 1]
             r2 == [j EXCEPT !.pc = "hint"]
  <2>1. PICK ok \in BOOLEAN :
          /\ RemotePut(m, j.key, j.data, ok)
          /\ job' = [job EXCEPT ![w] = IF ok THEN r1 ELSE r2]
    BY <1>4 DEF PutReplica
  <2>2. /\ j.pc = "put" /\ j.key \in Checksums /\ j.data \in Bytes
        /\ j.at \in 1 .. PlanSize /\ m # Home[w]
        /\ UNCHANGED <<handoff, crashes, acked, removed, mixed>>
    BY <1>0, <1>4, <1>a DEF PutReplica, JobFits
  <2>3. m \in Nodes
    BY <2>2, PlanFacts
  <2>4. FilesFixed /\ FaultsStay /\ (ok => disk'[m][j.key] # Nil)
    BY <1>0, <2>1, <2>2, <2>3, RemotePutOK, RemotePutFiles
  <2>5. Kept
    BY <2>2, <2>4 DEF Kept, FilesFixed
  <2>6. /\ r1.pc = "put" /\ r1.key = j.key /\ r1.at = j.at + 1 /\ r1.acks = j.acks + 1
        /\ r2.pc = "hint" /\ r2.key = j.key /\ r2.at = j.at /\ r2.acks = j.acks
    BY <1>0, <2>2 DEF Job
  <2> HIDE DEF r1, r2
  <2>7. job'[w] = (IF ok THEN r1 ELSE r2) /\ \A v \in Workers : v # w => job'[v] = job[v]
    BY <2>1 DEF Basic
  <2>8. CASE ok
    <3>1. PutSent(w)
      BY <2>2, <2>4, <2>6, <2>7, <2>8 DEF PutSent, PutMoves
    <3> QED BY <2>2, <2>5, <2>7, <3>1 DEF Acts, Moves
  <2>9. CASE ~ok
    <3>1. PutFails(w)
      BY <2>2, <2>6, <2>7, <2>9 DEF PutFails
    <3> QED BY <2>2, <2>5, <2>7, <3>1 DEF Acts, Moves
  <2> QED BY <2>8, <2>9
<1>5. CASE PutEnqueue(w)
  <2> DEFINE r == [j EXCEPT !.pc = "put", !.at = j.at + 1]
             n == Home[w]
  <2>1. /\ j.pc = "hint" /\ j.at \in 1 .. PlanSize /\ Target(j.key, j.at) # Home[w]
        /\ job' = [job EXCEPT ![w] = r]
        /\ UNCHANGED <<disk, crashes, acked, removed>>
    BY <1>0, <1>5, <1>a DEF PutEnqueue, JobFits
  <2>2. /\ \/ handoff' = [handoff EXCEPT ![n] = AppendLine(handoff[n], HintOf(j))]
           \/ faults' = faults + 1 /\ UNCHANGED handoff
           \/ /\ faults' = faults + 1
              /\ \E q \in TornAppends(handoff[n], HintOf(j)) : handoff' = [handoff EXCEPT ![n] = q]
        /\ faults' \in {faults, faults + 1}
    <3>1. handoff \in [Nodes -> Seq(Hint)]
      BY DEF Basic, RestOK
    <3> QED BY <1>5, <3>1 DEF PutEnqueue, Fault
  <2>9. mixed \subseteq mixed' /\ (Replaying(n) # {} => n \in mixed')
    BY <1>5 DEF PutEnqueue
  <2>3. r.pc = "put" /\ r.key = j.key /\ r.at = j.at + 1 /\ r.acks = j.acks
    BY <1>0 DEF Job
  <2> HIDE DEF r
  <2>4. job'[w] = r /\ \A v \in Workers : v # w => job'[v] = job[v]
    BY <2>1 DEF Basic
  <2>5. faults \in Nat
    BY <1>0 DEF StoresOK
  <2>6. PutMoves(w)
    BY <2>1, <2>3, <2>4 DEF PutMoves
  <2>a. faults' = faults + 1 => faults' # 0
    BY <2>5
  <2>7. PutQueued(w)
    BY <2>1, <2>2, <2>3, <2>4, <2>6, <2>9, <2>a DEF PutQueued
  <2>8. FaultsStay
    BY <2>2, <2>5 DEF FaultsStay
  <2> QED BY <2>1, <2>4, <2>7, <2>8, <2>9 DEF Acts, Moves, Kept
<1>6. CASE PutReturn(w)
  <2> DEFINE ok == QuorumReached(j.acks)
  <2>1. /\ j.pc = "put" /\ j.at > PlanSize
        /\ job' = [job EXCEPT ![w] = Done(ok, j.key, Nil)]
        /\ acked' = IF ok THEN acked \cup {<<Home[w], j.key>>} ELSE acked
        /\ UNCHANGED <<disk, handoff, faults, crashes, removed, mixed>>
    BY <1>6 DEF PutReturn, budgets
  <2>2. job'[w] = Done(ok, j.key, Nil) /\ \A v \in Workers : v # w => job'[v] = job[v]
    BY <2>1 DEF Basic
  <2>3. job'[w].pc = "done"
    BY <2>2 DEF Done, Idle
  <2>4. PutEnds(w)
    BY <2>1, <2>3 DEF PutEnds, QuorumReached
  <2> QED BY <2>1, <2>2, <2>4 DEF Acts, Moves, Kept, FaultsStay
<1> QED BY <1>1, <1>2, <1>3, <1>4, <1>5, <1>6

\* An operation that stays clear of puts and replays and touches no file.
LEMMA ActsApart ==
  ASSUME Basic, NEW w \in Workers, NEW r,
         job' = [job EXCEPT ![w] = r], r.pc \notin {"put", "hint", "replay", "send"},
         removed \subseteq removed', UNCHANGED <<disk, handoff, faults, crashes, acked, mixed>>
  PROVE  Acts(w)
<1>1. job'[w] = r /\ \A v \in Workers : v # w => job'[v] = job[v]
  BY DEF Basic
<1>2. Kept
  BY DEF Kept, FaultsStay
<1>3. Apart(w)
  BY <1>1 DEF Apart
<1> QED BY <1>1, <1>2, <1>3 DEF Acts, Moves

\* DistributedChunkService::get, and handing a result to the caller.
LEMMA ActsGet ==
  ASSUME Basic, NEW w \in Workers,
         \/ \E k \in Checksums : CallGet(w, k)
         \/ GetReplica(w) \/ GetRepair(w, TRUE) \/ GetRepair(w, FALSE)
         \/ GetReturn(w) \/ GetFallback(w) \/ Return(w)
  PROVE  Acts(w)
<1> DEFINE j == job[w]
<1>0. j \in Job /\ Home[w] \in Nodes /\ JobFits(w) /\ StoresOK /\ RestOK
  BY HomeAssumption DEF Basic
<1>a. j.at \in Nat \ {0} /\ j.failed \in Seq(Nodes) /\ j.key \in Checksums \cup {Nil}
      /\ j.data \in Bytes \cup {Nil}
  BY <1>0, JobFields
<1>1. ASSUME NEW k \in Checksums, CallGet(w, k)
      PROVE  Acts(w)
  <2> DEFINE r == [Idle EXCEPT !.pc = "get", !.key = k]
  <2>1. r.pc = "get"
    BY DEF Idle
  <2>2. /\ job' = [job EXCEPT ![w] = r]
        /\ UNCHANGED <<disk, handoff, faults, crashes, acked, removed, mixed>>
    BY <1>1 DEF CallGet
  <2> HIDE DEF r
  <2> QED BY <2>1, <2>2, ActsApart
<1>2. CASE GetReplica(w)
  <2> DEFINE m == Target(j.key, j.at)
             r1(x) == [j EXCEPT !.at = j.at + 1, !.failed = Append(j.failed, m)]
             r2(x) == [j EXCEPT !.pc = "repair", !.at = 1, !.acks = j.acks + 1, !.data = x]
             r3(x) == [j EXCEPT !.at = j.at + 1, !.acks = j.acks + 1, !.data = x]
             r(x) == IF x = Nil THEN r1(x) ELSE IF j.acks + 1 >= ReadQuorum THEN r2(x) ELSE r3(x)
  <2>1. PICK x \in Bytes \cup {Nil} : job' = [job EXCEPT ![w] = r(x)]
    BY <1>2 DEF GetReplica
  <2>2. j.pc = "get" /\ UNCHANGED <<disk, handoff, faults, crashes, acked, removed, mixed>>
    BY <1>2 DEF GetReplica
  <2>3. r1(x).pc = "get" /\ r2(x).pc = "repair" /\ r3(x).pc = "get"
    BY <1>0, <2>2 DEF Job
  <2> HIDE DEF r1, r2, r3
  <2>4. r(x).pc \in {"get", "repair"}
    BY <2>3
  <2> HIDE DEF r
  <2> QED BY <2>1, <2>2, <2>4, ActsApart
<1>3. ASSUME NEW ok \in BOOLEAN, GetRepair(w, ok)
      PROVE  Acts(w)
  <2> DEFINE m == j.failed[j.at]
             r == [j EXCEPT !.at = j.at + 1]
  <2>1. /\ j.pc = "repair" /\ j.key \in Checksums /\ j.data \in Bytes
        /\ j.at \in 1 .. Len(j.failed)
        /\ job' = [job EXCEPT ![w] = r]
        /\ UNCHANGED <<handoff, crashes, acked, removed, mixed>>
    BY <1>0, <1>3, <1>a DEF GetRepair, JobFits
  <2>2. m \in Nodes
    BY <1>a, <2>1
  <2>3. FilesFixed /\ FaultsStay
    <3>1. CASE m = Home[w]
      <4>1. StorePut(m, j.data, ok)
        BY <1>3, <3>1 DEF GetRepair
      <4> QED BY <1>0, <2>1, <2>2, <4>1, StorePutOK, StorePutFiles
    <3>2. CASE m # Home[w]
      <4>1. RemotePut(m, j.key, j.data, ok)
        BY <1>3, <3>2 DEF GetRepair
      <4> QED BY <1>0, <2>1, <2>2, <4>1, RemotePutOK, RemotePutFiles
    <3> QED BY <3>1, <3>2
  <2>4. r.pc = "repair"
    BY <1>0, <2>1 DEF Job
  <2> HIDE DEF r
  <2>5. job'[w] = r /\ \A v \in Workers : v # w => job'[v] = job[v]
    BY <2>1 DEF Basic
  <2>6. Apart(w)
    BY <2>1, <2>4, <2>5 DEF Apart
  <2>7. Kept
    BY <2>1, <2>3 DEF Kept, FilesFixed
  <2> QED BY <2>1, <2>5, <2>6, <2>7 DEF Acts, Moves
<1>4. CASE GetReturn(w)
  <2>1. /\ job' = [job EXCEPT ![w] = Done(TRUE, j.key, j.data)]
        /\ UNCHANGED <<disk, handoff, faults, crashes, acked, removed, mixed>>
    BY <1>4 DEF GetReturn, budgets
  <2>2. Done(TRUE, j.key, j.data).pc = "done"
    BY <1>a, DoneFits
  <2> QED BY <2>1, <2>2, ActsApart
<1>5. CASE GetFallback(w)
  <2> DEFINE ok(x) == x # Nil /\ ReadQuorum <= 1
             d(x) == IF ok(x) THEN x ELSE Nil
  <2>1. PICK x \in Bytes \cup {Nil} : job' = [job EXCEPT ![w] = Done(ok(x), j.key, d(x))]
    BY <1>5 DEF GetFallback
  <2>2. ok(x) \in BOOLEAN /\ d(x) \in Bytes \cup {Nil}
    OBVIOUS
  <2> HIDE DEF ok, d
  <2>3. UNCHANGED <<disk, handoff, faults, crashes, acked, removed, mixed>>
    BY <1>5 DEF GetFallback, budgets
  <2>4. Done(ok(x), j.key, d(x)).pc = "done"
    BY <1>a, <2>2, DoneFits
  <2> QED BY <2>1, <2>3, <2>4, ActsApart
<1>6. CASE Return(w)
  <2>1. job' = [job EXCEPT ![w] = Idle] /\ UNCHANGED <<disk, handoff, faults, crashes, acked, removed, mixed>>
    BY <1>6 DEF Return, budgets
  <2> QED BY <2>1, IdleFields, ActsApart
<1> QED BY <1>1, <1>2, <1>3, <1>4, <1>5, <1>6

\* DistributedChunkService::remove deletes only what is in "removed".
LEMMA ActsRemove ==
  ASSUME Basic, NEW w \in Workers,
         \/ \E k \in Checksums, references \in {0, 1} : CallRemove(w, k, references)
         \/ RemoveReplica(w) \/ RemoveReturn(w)
  PROVE  Acts(w)
<1> DEFINE j == job[w]
<1>0. j \in Job /\ Home[w] \in Nodes /\ JobFits(w) /\ StoresOK /\ RestOK
  BY HomeAssumption DEF Basic
<1>a. j.at \in Nat \ {0} /\ j.key \in Checksums \cup {Nil}
  BY <1>0, JobFields
<1>1. ASSUME NEW k \in Checksums, NEW references \in {0, 1}, CallRemove(w, k, references)
      PROVE  Acts(w)
  <2> DEFINE r1 == [Idle EXCEPT !.pc = "remove", !.key = k]
  <2>1. r1.pc = "remove" /\ Done(TRUE, k, Nil).pc = "done"
    BY DEF Idle, Done
  <2>2. /\ job' = [job EXCEPT ![w] = r1] \/ job' = [job EXCEPT ![w] = Done(TRUE, k, Nil)]
        /\ removed \subseteq removed'
        /\ UNCHANGED <<disk, handoff, faults, crashes, acked, mixed>>
    BY <1>1 DEF CallRemove
  <2> HIDE DEF r1
  <2> QED BY <2>1, <2>2, ActsApart
<1>2. CASE RemoveReplica(w)
  <2> DEFINE m == Target(j.key, j.at)
             r1 == [j EXCEPT !.at = j.at + 1, !.acks = j.acks + 1]
             r2 == [j EXCEPT !.at = j.at + 1]
  <2>1. PICK ok \in BOOLEAN :
          /\ IF m = Home[w] THEN StoreRemove(m, j.key, ok) ELSE RemoteRemove(m, j.key, ok)
          /\ job' = [job EXCEPT ![w] = IF ok THEN r1 ELSE r2]
    BY <1>2 DEF RemoveReplica
  <2>2. /\ j.pc = "remove" /\ j.at <= PlanSize
        /\ UNCHANGED <<cache, handoff, crashes, acked, removed, mixed>>
    BY <1>2 DEF RemoveReplica
  <2>3. j.key \in Checksums /\ j.key \in removed /\ j.at \in 1 .. PlanSize
    BY <1>0, <1>a, <2>2, PlanFacts DEF JobFits
  <2>4. m \in Nodes
    BY <2>3, PlanFacts
  <2>5. FaultsStay /\ \A n \in Nodes, i \in Checksums : i # j.key => disk'[n][i] = disk[n][i]
    BY <1>0, <2>1, <2>2, <2>3, <2>4, RemoveOK
  <2>6. Kept
    BY <2>2, <2>3, <2>5 DEF Kept
  <2>7. r1.pc = "remove" /\ r2.pc = "remove"
    BY <1>0, <2>2 DEF Job
  <2> HIDE DEF r1, r2
  <2>8. job'[w] = (IF ok THEN r1 ELSE r2) /\ \A v \in Workers : v # w => job'[v] = job[v]
    BY <2>1 DEF Basic
  <2>9. Apart(w)
    BY <2>2, <2>7, <2>8 DEF Apart
  <2> QED BY <2>2, <2>6, <2>8, <2>9 DEF Acts, Moves
<1>3. CASE RemoveReturn(w)
  <2> DEFINE ok == j.acks >= WriteQuorum \/ j.acks >= PlanSize
  <2>1. /\ job' = [job EXCEPT ![w] = Done(ok, j.key, Nil)]
        /\ UNCHANGED <<disk, handoff, faults, crashes, acked, removed, mixed>>
    BY <1>3 DEF RemoveReturn, budgets
  <2>2. ok \in BOOLEAN
    OBVIOUS
  <2> HIDE DEF ok
  <2>3. Done(ok, j.key, Nil).pc = "done"
    BY <1>a, <2>2, DoneFits
  <2> QED BY <2>1, <2>3, ActsApart
<1> QED BY <1>1, <1>2, <1>3

\* DistributedChunkService::replay_hinted_handoff.
LEMMA ActsReplay ==
  ASSUME Basic, NEW w \in Workers,
         \/ CallReplay(w) \/ ReplayRead(w) \/ ReplaySend(w, TRUE) \/ ReplaySend(w, FALSE)
         \/ ReplayReplace(w)
  PROVE  Acts(w)
<1> DEFINE j == job[w]
<1>0. j \in Job /\ Home[w] \in Nodes /\ JobFits(w) /\ StoresOK /\ RestOK
  BY HomeAssumption DEF Basic
<1>a. j.at \in Nat \ {0} /\ j.hints \in Seq(Hint) /\ j.rest \in Seq(Hint) /\ faults \in Nat
  BY <1>0, JobFields DEF StoresOK
<1>1. CASE CallReplay(w)
  <2> DEFINE l == Loaded(handoff[Home[w]])
             r1 == [Idle EXCEPT !.pc = "replay", !.hints = l]
             r2 == [Idle EXCEPT !.pc = "replay"]
  <2>1. /\ \/ job' = [job EXCEPT ![w] = r1] /\ faults' = faults
           \/ job' = [job EXCEPT ![w] = r2] /\ faults' = faults + 1
        /\ UNCHANGED <<disk, handoff, crashes, acked, removed, mixed>>
    BY <1>1 DEF CallReplay, Fault
  <2>2. /\ r1.pc = "replay" /\ r1.at = 1 /\ r1.rest = <<>> /\ r1.hints = l
        /\ r2.pc = "replay" /\ r2.at = 1 /\ r2.rest = <<>> /\ r2.hints = <<>>
    BY DEF Idle
  <2> HIDE DEF r1, r2
  <2>3. /\ \/ job'[w] = r1 /\ faults' = faults
           \/ job'[w] = r2 /\ faults' = faults + 1
        /\ \A v \in Workers : v # w => job'[v] = job[v]
    BY <2>1 DEF Basic
  <2>4. ReplayStarts(w)
    BY <1>a, <2>1, <2>2, <2>3 DEF ReplayStarts
  <2>5. Kept
    BY <1>a, <2>1, <2>3 DEF Kept, FaultsStay
  <2> QED BY <2>1, <2>3, <2>4, <2>5 DEF Acts, Moves
<1>2. CASE ReplayRead(w)
  <2> DEFINE hint == j.hints[j.at]
             r1 == [j EXCEPT !.at = j.at + 1, !.rest = Remain(j.rest, hint)]
             r2(x) == [j EXCEPT !.pc = "send", !.data = x]
  <2>1. PICK x \in Bytes \cup {Nil} : job' = [job EXCEPT ![w] = IF x = Nil THEN r1 ELSE r2(x)]
    BY <1>2 DEF ReplayRead
  <2>2. /\ j.pc = "replay" /\ j.at \in 1 .. Len(j.hints)
        /\ UNCHANGED <<disk, handoff, faults, crashes, acked, removed, mixed>>
    <3>1. /\ j.pc = "replay" /\ j.at <= Len(j.hints)
          /\ UNCHANGED <<disk, handoff, budgets, acked, removed, mixed>>
      BY <1>2 DEF ReplayRead
    <3> QED BY <1>a, <3>1 DEF budgets
  <2>3. /\ r1.pc = "replay" /\ r1.at = j.at + 1 /\ r1.hints = j.hints
        /\ r1.rest = Append(j.rest, hint)
        /\ r2(x).pc = "send" /\ r2(x).at = j.at /\ r2(x).hints = j.hints /\ r2(x).rest = j.rest
    BY <1>0, <2>2 DEF Job, Remain
  <2> HIDE DEF r1, r2
  <2>4. job'[w] = (IF x = Nil THEN r1 ELSE r2(x)) /\ \A v \in Workers : v # w => job'[v] = job[v]
    BY <2>1 DEF Basic
  <2>5. ReplayGoes(w)
    BY <2>2, <2>3, <2>4 DEF ReplayGoes
  <2>6. ReplayRetains(w) \/ ReplayReads(w)
    BY <2>3, <2>4, <2>5 DEF ReplayRetains, ReplayReads
  <2>7. Kept
    BY <2>2 DEF Kept, FaultsStay
  <2> QED BY <2>2, <2>4, <2>6, <2>7 DEF Acts, Moves
<1>3. ASSUME NEW ok \in BOOLEAN, ReplaySend(w, ok)
      PROVE  Acts(w)
  <2> DEFINE hint == j.hints[j.at]
             r1 == [j EXCEPT !.pc = "replay", !.at = j.at + 1, !.acks = j.acks + 1]
             r2 == [j EXCEPT !.pc = "replay", !.at = j.at + 1, !.rest = Remain(j.rest, hint)]
  <2>1. /\ j.pc = "send"
        /\ RemotePut(hint.node, hint.key, j.data, ok)
        /\ job' = [job EXCEPT ![w] = IF ok THEN r1 ELSE r2]
        /\ UNCHANGED <<handoff, crashes, acked, removed, mixed>>
    BY <1>3 DEF ReplaySend
  <2>2. j.data \in Bytes /\ j.at \in 1 .. Len(j.hints) /\ hint.key # Nil
    BY <1>0, <1>a, <2>1 DEF JobFits
  <2>3. hint \in Hint
    BY <1>a, <2>2
  <2>4. hint.key \in Checksums /\ hint.node \in Nodes
    BY <2>2, <2>3, HintFields
  <2>5. FilesFixed /\ FaultsStay /\ (ok => disk'[hint.node][hint.key] # Nil)
    BY <1>0, <2>1, <2>2, <2>4, RemotePutOK, RemotePutFiles
  <2>6. Kept
    BY <2>1, <2>5 DEF Kept, FilesFixed
  <2>7. /\ r1.pc = "replay" /\ r1.at = j.at + 1 /\ r1.hints = j.hints /\ r1.rest = j.rest
        /\ r2.pc = "replay" /\ r2.at = j.at + 1 /\ r2.hints = j.hints
        /\ r2.rest = Append(j.rest, hint)
    BY <1>0 DEF Job, Remain
  <2> HIDE DEF r1, r2
  <2>8. job'[w] = (IF ok THEN r1 ELSE r2) /\ \A v \in Workers : v # w => job'[v] = job[v]
    BY <2>1 DEF Basic
  <2>9. ReplayGoes(w)
    BY <2>1, <2>2, <2>7, <2>8 DEF ReplayGoes
  <2>10. ReplayDelivers(w) \/ ReplayRetains(w)
    BY <2>5, <2>7, <2>8, <2>9 DEF ReplayDelivers, ReplayRetains
  <2> QED BY <2>1, <2>6, <2>8, <2>10 DEF Acts, Moves
<1>4. CASE ReplayReplace(w)
  <2>1. PICK ok \in BOOLEAN : job' = [job EXCEPT ![w] = Done(ok, Nil, Nil)]
    BY <1>4 DEF ReplayReplace
  <2>2. /\ j.pc = "replay" /\ j.at > Len(j.hints)
        /\ UNCHANGED <<disk, crashes, acked, removed, mixed>>
    BY <1>4 DEF ReplayReplace
  <2>3. \/ handoff' = [handoff EXCEPT ![Home[w]] = j.rest] /\ faults' = faults
        \/ faults' = faults + 1 /\ UNCHANGED handoff
        \/ /\ faults' = faults + 1
           /\ \E q \in TornRewrites(j.rest) : handoff' = [handoff EXCEPT ![Home[w]] = q]
    BY <1>4 DEF ReplayReplace, Fault
  <2>4. job'[w] = Done(ok, Nil, Nil) /\ \A v \in Workers : v # w => job'[v] = job[v]
    BY <2>1 DEF Basic
  <2>5. job'[w].pc = "done"
    BY <2>4, DoneFits
  <2>6. ReplayEnds(w)
    BY <1>a, <2>2, <2>3, <2>5 DEF ReplayEnds
  <2>7. Kept
    BY <1>a, <2>2, <2>3 DEF Kept, FaultsStay
  <2> QED BY <2>2, <2>4, <2>6, <2>7 DEF Acts, Moves
<1> QED BY <1>1, <1>2, <1>3, <1>4

\* Every step is the action of one thread, or a crash.
LEMMA ActsNext ==
  ASSUME Basic, Next
  PROVE  (\E w \in Workers : Acts(w)) \/ (\E n \in Nodes : Crash(n))
<1>1. ASSUME NEW w \in Workers, CallAny(w)
      PROVE  Acts(w)
  BY <1>1, NamedType, ActsPut, ActsGet, ActsRemove, ActsReplay DEF CallAny
<1>2. ASSUME NEW w \in Workers, Step(w)
      PROVE  Acts(w)
  BY <1>2, ActsPut, ActsGet, ActsRemove, ActsReplay DEF Step
<1> QED BY <1>1, <1>2 DEF Next

-----------------------------------------------------------------------------
(* Queued hints *)

\* Hint h in a queue of node n, over files d and removals x: it names a target
\* other than n, and n has the chunk unless somebody removed it.
HintFits(d, x, n, h) ==
  /\ h.node \in Targets(h.key) \ {n}
  /\ d[n][h.key] # Nil \/ h.key \in x

\* The lines that are such hints, complete or not, and the garbled ones.
Fit(d, x, n) == {h \in Hint : h.key # Nil => HintFits(d, x, n, h)}

QueueFits(d, x, n, q) == q \in Seq(Fit(d, x, n))

\* Cutting and gluing does not leave them.
LEMMA FitLines ==
  ASSUME NEW d, NEW x, NEW n
  PROVE  LineSet(Fit(d, x, n))
<1>1. ASSUME NEW p \in Parts
      PROVE  Garbled(p) \in Fit(d, x, n)
  <2>1. Garbled(p) \in Hint /\ Garbled(p).key = Nil
    BY DEF Garbled, Hint
  <2> QED BY <2>1 DEF Fit
<1>2. ASSUME NEW h \in Fit(d, x, n), NEW p \in Parts
      PROVE  [h EXCEPT !.part = p] \in Fit(d, x, n)
  <2> DEFINE g == [h EXCEPT !.part = p]
  <2>1. h \in Hint /\ (h.key # Nil => HintFits(d, x, n, h))
    BY DEF Fit
  <2>2. g \in Hint /\ g.node = h.node /\ g.key = h.key
    BY <2>1, HintFields
  <2> HIDE DEF g
  <2>3. g \in Fit(d, x, n)
    BY <2>1, <2>2 DEF Fit, HintFits
  <2> QED BY <2>3 DEF g
<1> QED BY <1>1, <1>2 DEF LineSet, Fit

\* What makes HintsServable inductive: a put in progress has its chunk in the
\* local store, so that every hint it queues can be served, and the two lists a
\* replay holds are as good as the queue they came from and go back to.
HintsFit ==
  /\ \A n \in Nodes : QueueFits(disk, removed, n, handoff[n])
  /\ \A w \in Workers :
       /\ job[w].pc \in {"put", "hint"} =>
            disk[Home[w]][job[w].key] # Nil \/ job[w].key \in removed
       /\ job[w].pc \in {"replay", "send"} =>
            /\ QueueFits(disk, removed, Home[w], job[w].hints)
            /\ QueueFits(disk, removed, Home[w], job[w].rest)

\* A queue over a set of lines is one over every larger set.
LEMMA LargerSeq ==
  ASSUME NEW S, NEW T, S \subseteq T, NEW q \in Seq(S)
  PROVE  q \in Seq(T)
OBVIOUS

\* A queue that can be served stays so until it is changed.
LEMMA QueueStays ==
  ASSUME Kept, NEW n \in Nodes, NEW q, QueueFits(disk, removed, n, q)
  PROVE  QueueFits(disk', removed', n, q)
<1>1. ASSUME NEW h \in Fit(disk, removed, n)
      PROVE  h \in Fit(disk', removed', n)
  <2>1. h \in Hint /\ (h.key # Nil => HintFits(disk, removed, n, h) /\ h.key \in Checksums)
    BY HintFields DEF Fit
  <2>2. h.key # Nil => HintFits(disk', removed', n, h)
    BY <2>1 DEF HintFits, Kept
  <2> QED BY <2>1, <2>2 DEF Fit
<1> QED BY <1>1, LargerSeq DEF QueueFits

\* The hint a put queues can be served.
LEMMA QueuedFits ==
  ASSUME Basic, NEW d, NEW x, NEW w \in Workers, job[w].pc = "hint",
         d[Home[w]][job[w].key] # Nil \/ job[w].key \in x
  PROVE  HintOf(job[w]) \in Fit(d, x, Home[w])
<1> DEFINE h == HintOf(job[w])
<1>1. job[w].at \in 1 .. PlanSize /\ Target(job[w].key, job[w].at) # Home[w]
  BY JobFields, PlanFacts DEF Basic, JobFits
<1>2. h \in Hint
  BY HintOfType
<1>3. h.node = Target(job[w].key, job[w].at) /\ h.key = job[w].key
  BY DEF HintOf
<1> HIDE DEF h
<1>4. HintFits(d, x, Home[w], h)
  BY <1>1, <1>3 DEF HintFits, Targets
<1>5. h \in Fit(d, x, Home[w])
  BY <1>2, <1>4 DEF Fit
<1> QED BY <1>5 DEF h

\* Every operation on the queue file keeps it servable.
LEMMA QueueFitsOps ==
  ASSUME NEW d, NEW x, NEW n, NEW q, QueueFits(d, x, n, q)
  PROVE  /\ \A h \in Fit(d, x, n) :
              /\ QueueFits(d, x, n, AppendLine(q, h))
              /\ QueueFits(d, x, n, Append(q, h))
              /\ \A t \in TornAppends(q, h) : QueueFits(d, x, n, t)
         /\ QueueFits(d, x, n, Loaded(q))
         /\ \A t \in TornRewrites(q) : QueueFits(d, x, n, t)
<1> DEFINE S == Fit(d, x, n)
<1>1. LineSet(S) /\ q \in Seq(S)
  BY FitLines DEF QueueFits
<1> HIDE DEF S
<1>2. \A h \in S : AppendLine(q, h) \in Seq(S)
  BY <1>1, AppendLineIn
<1>3. \A h \in S : Append(q, h) \in Seq(S)
  BY <1>1
<1>4. /\ \A h \in S : TornAppends(q, h) \subseteq Seq(S)
      /\ Loaded(q) \in Seq(S) /\ TornRewrites(q) \subseteq Seq(S)
  BY <1>1, QueueOps, Zenon
<1> QED BY <1>2, <1>3, <1>4, Zenon DEF QueueFits, S

\* HintsFit is inductive: the step of a thread.
LEMMA HintsAct ==
  ASSUME Basic, HintsFit, Basic', NEW w \in Workers, Acts(w)
  PROVE  HintsFit'
<1> DEFINE j == job[w]
           n == Home[w]
           h == HintOf(j)
<1>0. /\ Kept /\ Moves(w) /\ n \in Nodes
      /\ handoff \in [Nodes -> Seq(Hint)] /\ j \in Job /\ job'[w] \in Job
  BY HomeAssumption DEF Acts, Basic, RestOK
<1>a. /\ j.hints \in Seq(Hint) /\ j.rest \in Seq(Hint)
      /\ job'[w].hints \in Seq(Hint) /\ job'[w].rest \in Seq(Hint)
      /\ j.at \in Nat
  BY <1>0, JobFields
<1>b. \A m \in Nodes : QueueFits(disk', removed', m, handoff[m])
  BY <1>0, QueueStays DEF HintsFit
<1>f. ASSUME NEW q, QueueFits(disk', removed', n, q), handoff' = [handoff EXCEPT ![n] = q]
      PROVE  \A m \in Nodes : QueueFits(disk', removed', m, handoff'[m])
  <2>1. \A m \in Nodes : handoff'[m] = IF m = n THEN q ELSE handoff[m]
    BY <1>0, <1>f
  <2> QED BY <1>b, <1>f, <2>1
<1>c. j.pc \in {"put", "hint"} =>
        /\ j.key \in Checksums
        /\ disk[n][j.key] # Nil \/ j.key \in removed
        /\ disk'[n][j.key] # Nil \/ j.key \in removed'
  <2> SUFFICES ASSUME j.pc \in {"put", "hint"}
               PROVE  /\ j.key \in Checksums
                      /\ disk[n][j.key] # Nil \/ j.key \in removed
                      /\ disk'[n][j.key] # Nil \/ j.key \in removed'
    OBVIOUS
  <2>1. j.key \in Checksums /\ (disk[n][j.key] # Nil \/ j.key \in removed)
    BY DEF Basic, JobFits, HintsFit
  <2> QED BY <1>0, <2>1 DEF Kept
<1>d. j.pc \in {"replay", "send"} =>
        /\ QueueFits(disk', removed', n, j.hints)
        /\ QueueFits(disk', removed', n, j.rest)
  BY <1>0, <1>a, QueueStays DEF HintsFit
<1>e. QueueFits(disk', removed', n, <<>>) /\ QueueFits(disk', removed', n, Loaded(handoff[n]))
  BY <1>0, <1>b, QueueFitsOps DEF QueueFits
<1>1. \A m \in Nodes : QueueFits(disk', removed', m, handoff'[m])
  <2>1. CASE UNCHANGED handoff
    BY <1>b, <2>1
  <2>2. CASE PutQueued(w) /\ handoff' # handoff
    <3>1. h \in Fit(disk', removed', n)
      BY <1>c, <2>2, QueuedFits DEF PutQueued
    <3>2. QueueFits(disk', removed', n, handoff[n])
      BY <1>0, <1>b
    <3> HIDE DEF h
    <3>3. PICK q : /\ q = AppendLine(handoff[n], h) \/ q \in TornAppends(handoff[n], h)
                   /\ handoff' = [handoff EXCEPT ![n] = q]
      BY <2>2 DEF PutQueued, h
    <3>4. QueueFits(disk', removed', n, q)
      BY <3>1, <3>2, <3>3, QueueFitsOps
    <3> QED BY <1>f, <3>3, <3>4
  <2>3. CASE ReplayEnds(w) /\ handoff' # handoff
    <3>1. QueueFits(disk', removed', n, j.rest)
      BY <1>d, <2>3 DEF ReplayEnds
    <3>2. PICK q : /\ q = j.rest \/ q \in TornRewrites(j.rest)
                   /\ handoff' = [handoff EXCEPT ![n] = q]
      BY <2>3 DEF ReplayEnds
    <3>3. QueueFits(disk', removed', n, q)
      BY <3>1, <3>2, QueueFitsOps
    <3> QED BY <1>f, <3>2, <3>3
  <2>7. CASE ~ReplayEnds(w) /\ ~PutQueued(w)
    BY <1>0, <2>1, <2>7 DEF Moves, PutStarts, PutSkips, PutSent, PutFails, PutEnds, ReplayStarts,
       ReplayGoes, ReplayReads, ReplayDelivers, ReplayRetains, Apart
  <2> QED BY <2>1, <2>2, <2>3, <2>7
<1>2. job'[w].pc \in {"put", "hint"} => disk'[n][job'[w].key] # Nil \/ job'[w].key \in removed'
  BY <1>0, <1>c DEF Moves, PutStarts, PutMoves, PutSkips, PutSent, PutQueued, PutFails, PutEnds,
     ReplayStarts, ReplayGoes, ReplayReads, ReplayDelivers, ReplayRetains, ReplayEnds, Apart
<1>3. job'[w].pc \in {"replay", "send"} =>
        /\ QueueFits(disk', removed', n, job'[w].hints)
        /\ QueueFits(disk', removed', n, job'[w].rest)
  <2>1. CASE ReplayStarts(w)
    BY <1>0, <1>b, <1>e, <2>1 DEF ReplayStarts
  <2>2. CASE ReplayReads(w) \/ ReplayDelivers(w)
    BY <1>d, <2>2 DEF ReplayGoes, ReplayReads, ReplayDelivers
  <2>3. CASE ReplayRetains(w)
    <3> DEFINE g == j.hints[j.at]
    <3>1. /\ job'[w].hints = j.hints /\ job'[w].rest = Append(j.rest, g)
          /\ j.at \in DOMAIN j.hints /\ j.pc \in {"replay", "send"}
      BY <1>a, <2>3 DEF ReplayGoes, ReplayRetains
    <3>2. g \in Fit(disk', removed', n)
      BY <1>a, <1>d, <3>1 DEF QueueFits
    <3> HIDE DEF g
    <3>3. QueueFits(disk', removed', n, Append(j.rest, g))
      BY <1>d, <3>1, <3>2, QueueFitsOps
    <3> QED BY <1>d, <3>1, <3>3
  <2>4. CASE ~(ReplayStarts(w) \/ ReplayReads(w) \/ ReplayDelivers(w) \/ ReplayRetains(w))
    BY <1>0, <2>4 DEF Moves, PutStarts, PutMoves, PutSkips, PutSent, PutQueued, PutFails, PutEnds,
       ReplayEnds, Apart
  <2> QED BY <2>1, <2>2, <2>3, <2>4
<1>4. ASSUME NEW v \in Workers, v # w
      PROVE  /\ job'[v].pc \in {"put", "hint"} =>
                  disk'[Home[v]][job'[v].key] # Nil \/ job'[v].key \in removed'
             /\ job'[v].pc \in {"replay", "send"} =>
                  /\ QueueFits(disk', removed', Home[v], job'[v].hints)
                  /\ QueueFits(disk', removed', Home[v], job'[v].rest)
  <2>1. job'[v] = job[v] /\ Home[v] \in Nodes /\ job[v] \in Job
    BY <1>4, HomeAssumption DEF Acts, Basic
  <2>2. job[v].hints \in Seq(Hint) /\ job[v].rest \in Seq(Hint)
    BY <2>1, JobFields
  <2>3. ASSUME job[v].pc \in {"put", "hint"}
        PROVE  disk'[Home[v]][job[v].key] # Nil \/ job[v].key \in removed'
    <3>1. job[v].key \in Checksums /\ (disk[Home[v]][job[v].key] # Nil \/ job[v].key \in removed)
      BY <2>3 DEF Basic, JobFits, HintsFit
    <3> QED BY <1>0, <2>1, <3>1 DEF Kept
  <2>4. ASSUME job[v].pc \in {"replay", "send"}
        PROVE  /\ QueueFits(disk', removed', Home[v], job[v].hints)
               /\ QueueFits(disk', removed', Home[v], job[v].rest)
    BY <1>0, <2>1, <2>2, <2>4, QueueStays DEF HintsFit
  <2> QED BY <2>1, <2>3, <2>4
<1> HIDE DEF j, n, h
<1>5. \A v \in Workers :
             /\ job'[v].pc \in {"put", "hint"} =>
                  disk'[Home[v]][job'[v].key] # Nil \/ job'[v].key \in removed'
             /\ job'[v].pc \in {"replay", "send"} =>
                  /\ QueueFits(disk', removed', Home[v], job'[v].hints)
                  /\ QueueFits(disk', removed', Home[v], job'[v].rest)
  BY <1>2, <1>3, <1>4 DEF n
<1> QED BY <1>1, <1>5 DEF HintsFit

\* What a crash of node n does: files stay, the threads of n are gone, and the
\* queue is the one it was, with a part of a hint written after it, or what
\* replace had written of a replay's rest.
LEMMA CrashFacts ==
  ASSUME Basic, NEW n \in Nodes, Crash(n)
  PROVE  /\ Kept /\ UNCHANGED <<disk, removed, acked, faults, cuts>> /\ crashes' # 0
         /\ \A w \in Workers : job'[w] = IF Home[w] = n THEN Idle ELSE job[w]
         /\ \A m \in Nodes : m # n => handoff'[m] = handoff[m]
         /\ \/ handoff'[n] = handoff[n]
            \/ \E w \in Workers :
                 /\ Home[w] = n /\ job[w].pc = "hint"
                 /\ handoff'[n] \in TornAppends(handoff[n], HintOf(job[w]))
            \/ \E w \in Workers :
                 /\ Home[w] = n /\ job[w].pc = "replay"
                 /\ handoff'[n] \in TornRewrites(job[w].rest)
<1>1. /\ UNCHANGED <<disk, calls, faults, cuts, acked, removed, mixed>>
      /\ crashes' = crashes + 1
      /\ job' = [w \in Workers |-> IF Home[w] = n THEN Idle ELSE job[w]]
  BY DEF Crash
<1>2. crashes \in Nat /\ handoff \in [Nodes -> Seq(Hint)]
  BY DEF Basic, RestOK
<1>3. Kept /\ crashes' # 0
  BY <1>1, <1>2 DEF Kept, FaultsStay
<1>4. \A w \in Workers : job'[w] = IF Home[w] = n THEN Idle ELSE job[w]
  BY <1>1
<1>5. PICK q \in QueueAfterCrash(n) : handoff' = [handoff EXCEPT ![n] = q]
  BY DEF Crash
<1>6. \A m \in Nodes : handoff'[m] = IF m = n THEN q ELSE handoff[m]
  BY <1>2, <1>5
<1>7. \/ q = handoff[n]
      \/ \E w \in Workers :
           Home[w] = n /\ job[w].pc = "hint" /\ q \in TornAppends(handoff[n], HintOf(job[w]))
      \/ \E w \in Workers : Home[w] = n /\ job[w].pc = "replay" /\ q \in TornRewrites(job[w].rest)
  BY <1>5, CrashedQueue
<1> QED BY <1>1, <1>3, <1>4, <1>6, <1>7

\* HintsFit is inductive: a crash.
LEMMA HintsCrash ==
  ASSUME Basic, HintsFit, NEW n \in Nodes, Crash(n)
  PROVE  HintsFit'
<1>0. handoff \in [Nodes -> Seq(Hint)] /\ job \in [Workers -> Job] /\ Home \in [Workers -> Nodes]
  BY HomeAssumption DEF Basic, RestOK
<1>1. UNCHANGED <<disk, removed>> /\ \A w \in Workers : job'[w] = IF Home[w] = n THEN Idle ELSE job[w]
  BY CrashFacts
<1>2. QueueFits(disk, removed, n, handoff'[n])
  <2>1. CASE handoff'[n] = handoff[n]
    BY <2>1 DEF HintsFit
  <2>2. ASSUME NEW w \in Workers, Home[w] = n, job[w].pc = "replay",
               handoff'[n] \in TornRewrites(job[w].rest)
        PROVE  QueueFits(disk, removed, n, handoff'[n])
    <3>1. QueueFits(disk, removed, n, job[w].rest)
      BY <2>2 DEF HintsFit
    <3> QED BY <2>2, <3>1, QueueFitsOps
  <2>3. ASSUME NEW w \in Workers, Home[w] = n, job[w].pc = "hint",
               handoff'[n] \in TornAppends(handoff[n], HintOf(job[w]))
        PROVE  QueueFits(disk, removed, n, handoff'[n])
    <3>1. HintOf(job[w]) \in Fit(disk, removed, n)
      BY <2>3, QueuedFits DEF HintsFit
    <3>2. QueueFits(disk, removed, n, handoff[n])
      BY DEF HintsFit
    <3> QED BY <2>3, <3>1, <3>2, QueueFitsOps
  <2> QED BY <2>1, <2>2, <2>3, CrashFacts
<1>3. \A m \in Nodes : QueueFits(disk', removed', m, handoff'[m])
  <2>1. \A m \in Nodes : m # n => handoff'[m] = handoff[m]
    BY CrashFacts
  <2> QED BY <1>1, <1>2, <2>1 DEF HintsFit
<1> QED BY <1>1, <1>3, IdleFields DEF HintsFit

\* HintsFit, together with Basic, holds in every reachable state.
THEOREM HintsInvariant == Spec => [](Basic /\ HintsFit)
<1>1. Init => HintsFit
  BY IdleFields DEF Init, HintsFit, QueueFits
<1>2. Basic /\ HintsFit /\ [Next]_vars => HintsFit'
  <2> SUFFICES ASSUME Basic, HintsFit, [Next]_vars PROVE HintsFit'
    OBVIOUS
  <2>1. CASE UNCHANGED vars
    BY <2>1 DEF vars, HintsFit
  <2>2. CASE Next
    BY <2>2, BasicStep, ActsNext, HintsAct, HintsCrash
  <2> QED BY <2>1, <2>2
<1> QED BY <1>1, <1>2, BasicInit, BasicStep, PTL DEF Spec

\* What load reads from any hinted-handoff.log are hints replay can work on, or
\* lines that name no chunk, whatever crashes, partial writes, glued lines and
\* concurrent replays the file went through.
THEOREM HintsStayServable == Spec => []HintsServable
<1>1. HintsFit => HintsServable
  <2> SUFFICES ASSUME HintsFit, NEW n \in Nodes, NEW i \in DOMAIN Loaded(handoff[n])
               PROVE  LET hint == Loaded(handoff[n])[i] IN
                      hint.key # Nil => HintFits(disk, removed, n, hint)
    BY DEF HintsServable, HintFits
  <2>1. Loaded(handoff[n]) \in Seq(Fit(disk, removed, n))
    BY QueueFitsOps DEF HintsFit, QueueFits
  <2>2. Loaded(handoff[n])[i] \in Fit(disk, removed, n)
    BY <2>1
  <2> QED BY <2>2 DEF Fit
<1> QED BY <1>1, HintsInvariant, PTL

-----------------------------------------------------------------------------
(* Acknowledged writes *)

\* The nodes a put of k on node n has asked before it comes to position i of its
\* plan: the node itself and the targets up to there.
Asked(n, k, i) == {m \in Nodes : m = n \/ \E l \in 1 .. PlanSize : l < i /\ Target(k, l) = m}

\* The nodes of S that have a file of k among the files d.
Holding(d, k, S) == {m \in S : d[m][k] # Nil}

\* What makes the quorum inductive: the counter of a put in progress is at most
\* the number of nodes it has asked that have the file.  An exchange that failed
\* after the peer had stored the chunk is not counted, so the counter may be less.
AcksHeld ==
  /\ \A w \in Workers :
       job[w].pc \in {"put", "hint"} /\ job[w].key \notin removed =>
         job[w].acks <= Cardinality(Holding(disk, job[w].key, Asked(Home[w], job[w].key, job[w].at)))
  /\ \A p \in acked :
       p[2] \notin removed =>
         Cardinality(Holding(disk, p[2], Targets(p[2]) \cup {p[1]})) >= WriteQuorum

\* More files and more nodes asked: the count does not go down.
LEMMA HoldingGrows ==
  ASSUME Kept, NEW k \in Checksums, k \notin removed',
         NEW S \in SUBSET Nodes, NEW T \in SUBSET Nodes, S \subseteq T
  PROVE  /\ IsFiniteSet(Holding(disk, k, S)) /\ IsFiniteSet(Holding(disk', k, T))
         /\ Cardinality(Holding(disk, k, S)) \in Nat
         /\ Cardinality(Holding(disk', k, T)) \in Nat
         /\ Cardinality(Holding(disk, k, S)) <= Cardinality(Holding(disk', k, T))
<1> DEFINE A == Holding(disk, k, S)
           B == Holding(disk', k, T)
<1>1. A \in SUBSET Nodes /\ B \in SUBSET Nodes /\ A \in SUBSET B
  BY DEF Holding, Kept
<1> HIDE DEF A, B
<1>2. IsFiniteSet(A) /\ IsFiniteSet(B)
  BY <1>1, NodesAssumption, FS_Subset
<1>3. Cardinality(A) \in Nat /\ Cardinality(B) \in Nat /\ Cardinality(A) <= Cardinality(B)
  BY <1>1, <1>2, FS_Subset, FS_CardinalityType
<1> QED BY <1>2, <1>3 DEF A, B

\* A node that had not been asked before adds one.
LEMMA HoldingAdds ==
  ASSUME Kept, NEW k \in Checksums, k \notin removed',
         NEW S \in SUBSET Nodes, NEW m \in Nodes \ S, disk'[m][k] # Nil
  PROVE  Cardinality(Holding(disk, k, S)) + 1 <= Cardinality(Holding(disk', k, S \cup {m}))
<1> DEFINE A == Holding(disk, k, S)
           B == Holding(disk', k, S \cup {m})
           C == A \cup {m}
<1>1. A \in SUBSET Nodes /\ B \in SUBSET Nodes /\ C \in SUBSET B /\ m \notin A
  BY DEF Holding, Kept
<1> HIDE DEF A, B
<1>2. IsFiniteSet(A) /\ IsFiniteSet(B)
  BY <1>1, NodesAssumption, FS_Subset
<1>3. Cardinality(C) = Cardinality(A) + 1
  BY <1>1, <1>2, FS_AddElement
<1> HIDE DEF C
<1>4. Cardinality(C) <= Cardinality(B)
  BY <1>1, <1>2, FS_Subset
<1> QED BY <1>3, <1>4 DEF A, B

\* The nodes asked are nodes; another position adds its target, and the whole
\* plan is the targets and the node itself.
LEMMA AskedFacts ==
  ASSUME NEW n \in Nodes, NEW k \in Checksums, NEW i \in Nat
  PROVE  /\ Asked(n, k, i) \in SUBSET Nodes
         /\ i \in 1 .. PlanSize => Asked(n, k, i + 1) = Asked(n, k, i) \cup {Target(k, i)}
         /\ i \in 1 .. PlanSize /\ Target(k, i) # n => Target(k, i) \in Nodes \ Asked(n, k, i)
         /\ i > PlanSize => Asked(n, k, i) = Targets(k) \cup {n}
         /\ n \in Asked(n, k, i)
         /\ Targets(k) \in SUBSET Nodes
<1>0. PlanSize \in Nat
  BY PlanFacts
<1>1. Asked(n, k, i) \in SUBSET Nodes /\ n \in Asked(n, k, i)
  BY DEF Asked
<1>2. ASSUME i \in 1 .. PlanSize
      PROVE  Asked(n, k, i + 1) = Asked(n, k, i) \cup {Target(k, i)}
  <2>1. Target(k, i) \in Nodes
    BY <1>2, PlanFacts
  <2>2. \A l \in 1 .. PlanSize : l < i + 1 <=> (l < i \/ l = i)
    BY <1>0, <1>2
  <2> QED BY <1>2, <2>1, <2>2 DEF Asked
<1>3. ASSUME i \in 1 .. PlanSize, Target(k, i) # n
      PROVE  Target(k, i) \in Nodes \ Asked(n, k, i)
  <2>1. Target(k, i) \in Nodes
    BY <1>3, PlanFacts
  <2>2. ASSUME NEW l \in 1 .. PlanSize, l < i, Target(k, l) = Target(k, i)
        PROVE  FALSE
    BY <1>3, <2>2, PlanFacts
  <2> QED BY <1>3, <2>1, <2>2 DEF Asked
<1>4. Targets(k) \in SUBSET Nodes
  BY PlanFacts DEF Targets
<1>5. ASSUME i > PlanSize
      PROVE  Asked(n, k, i) = Targets(k) \cup {n}
  <2>1. \A l \in 1 .. PlanSize : l < i
    BY <1>0, <1>5
  <2>2. Asked(n, k, i) = {m \in Nodes : m = n \/ m \in Targets(k)}
    BY <2>1 DEF Asked, Targets
  <2> QED BY <1>4, <2>2
<1> QED BY <1>1, <1>2, <1>3, <1>4, <1>5

\* AcksHeld is inductive: the counter of the thread that moves.
LEMMA AcksMove ==
  ASSUME Basic, AcksHeld, Basic', NEW w \in Workers, Acts(w),
         job'[w].pc \in {"put", "hint"}, job'[w].key \notin removed'
  PROVE  job'[w].acks <=
           Cardinality(Holding(disk', job'[w].key, Asked(Home[w], job'[w].key, job'[w].at)))
<1> DEFINE j == job[w]
           r == job'[w]
           n == Home[w]
           k == job'[w].key
<1>0. /\ Kept /\ Moves(w) /\ n \in Nodes /\ j \in Job /\ r \in Job /\ k \in Checksums
      /\ k \notin removed' /\ k \notin removed
  BY HomeAssumption DEF Acts, Basic, JobFits, Kept
<1>a. j.at \in Nat /\ r.at \in Nat /\ j.acks \in Nat /\ r.acks \in Nat
  BY <1>0, JobFields
<1>b. j.pc \in {"put", "hint"} /\ j.key = k =>
        j.acks <= Cardinality(Holding(disk, k, Asked(n, k, j.at)))
  BY <1>0 DEF AcksHeld
<1>1. CASE PutStarts(w)
  <2> DEFINE S == Asked(n, k, r.at)
  <2>1. r.acks = 1 /\ disk'[n][k] # Nil
    BY <1>1 DEF PutStarts
  <2>2. S \in SUBSET Nodes /\ n \in S
    BY <1>0, <1>a, AskedFacts
  <2> HIDE DEF S
  <2> DEFINE H == Holding(disk', k, S)
  <2>3. {n} \in SUBSET H /\ H \in SUBSET Nodes
    BY <2>1, <2>2 DEF Holding
  <2> HIDE DEF H
  <2>4. IsFiniteSet(H)
    BY <2>3, NodesAssumption, FS_Subset
  <2>5. Cardinality({n}) <= Cardinality(H) /\ Cardinality({n}) = 1
    BY <2>3, <2>4, FS_Subset, FS_Singleton
  <2> QED BY <2>1, <2>5 DEF H, S
<1>2. CASE PutMoves(w)
  <2>0. j.pc \in {"put", "hint"} /\ j.key = k /\ r.at = j.at + 1 /\ j.at \in 1 .. PlanSize
    BY <1>2 DEF PutMoves
  <2> DEFINE S == Asked(n, k, j.at)
             m == Target(k, j.at)
             a == Cardinality(Holding(disk, k, S))
             b == Cardinality(Holding(disk', k, S \cup {m}))
  <2>1. S \in SUBSET Nodes /\ Asked(n, k, r.at) = S \cup {m}
    BY <1>0, <1>a, <2>0, AskedFacts
  <2>2. m \in Nodes
    BY <1>0, <2>0, PlanFacts
  <2>3. m # n => m \notin S
    BY <1>0, <1>a, <2>0, AskedFacts
  <2>4. j.acks <= a
    BY <1>b, <2>0
  <2> HIDE DEF S, m
  <2>5. a \in Nat /\ b \in Nat /\ a <= b
    <3>1. S \cup {m} \in SUBSET Nodes /\ S \subseteq S \cup {m}
      BY <2>1, <2>2
    <3> QED BY <1>0, <2>1, <3>1, HoldingGrows
  <2>6. CASE r.acks = j.acks
    BY <1>a, <2>1, <2>4, <2>5, <2>6
  <2>7. CASE r.acks = j.acks + 1 /\ m # n /\ disk'[m][k] # Nil
    <3>1. m \in Nodes \ S
      BY <2>2, <2>3, <2>7
    <3>2. a + 1 <= b
      BY <1>0, <2>1, <2>7, <3>1, HoldingAdds
    <3> QED BY <1>a, <2>1, <2>4, <2>5, <2>7, <3>2
  <2>8. CASE PutSkips(w) \/ PutQueued(w)
    BY <2>6, <2>8 DEF PutSkips, PutQueued
  <2>9. CASE PutSent(w)
    BY <2>0, <2>7, <2>9 DEF PutSent, m
  <2>10. ~(PutStarts(w) \/ PutFails(w) \/ PutEnds(w)) => PutSkips(w) \/ PutQueued(w) \/ PutSent(w)
    BY <1>0 DEF Moves, ReplayStarts, ReplayGoes, ReplayReads, ReplayDelivers, ReplayRetains, ReplayEnds, Apart
  <2>11. ~(PutFails(w) \/ PutEnds(w))
    BY <1>2 DEF PutMoves, PutFails, PutEnds
  <2> QED BY <1>1, <2>8, <2>9, <2>10, <2>11
<1>3. CASE PutFails(w)
  <2>0. j.pc = "put" /\ j.key = k /\ r.at = j.at /\ r.acks = j.acks
    BY <1>3 DEF PutFails
  <2> DEFINE S == Asked(n, k, j.at)
  <2>1. S \in SUBSET Nodes
    BY <1>0, <1>a, AskedFacts
  <2>2. j.acks <= Cardinality(Holding(disk, k, S))
    BY <1>b, <2>0
  <2> HIDE DEF S
  <2>3. /\ Cardinality(Holding(disk, k, S)) \in Nat
        /\ Cardinality(Holding(disk', k, S)) \in Nat
        /\ Cardinality(Holding(disk, k, S)) <= Cardinality(Holding(disk', k, S))
    BY <1>0, <2>1, HoldingGrows
  <2>4. j.acks <= Cardinality(Holding(disk', k, S))
    BY <1>a, <2>2, <2>3
  <2> QED BY <2>0, <2>4 DEF S
<1>4. PutStarts(w) \/ PutMoves(w) \/ PutFails(w)
  BY <1>0 DEF Moves, PutSkips, PutSent, PutQueued, PutEnds, ReplayStarts, ReplayGoes, ReplayReads,
     ReplayDelivers, ReplayRetains, ReplayEnds, Apart
<1> QED BY <1>1, <1>2, <1>3, <1>4

\* A promise that was kept stays kept.
LEMMA PromiseStays ==
  ASSUME Basic, AcksHeld, Kept, NEW p \in acked, p[2] \notin removed'
  PROVE  Cardinality(Holding(disk', p[2], Targets(p[2]) \cup {p[1]})) >= WriteQuorum
<1> DEFINE n == p[1]
           k == p[2]
           S == Targets(k) \cup {n}
<1>1. n \in Nodes /\ k \in Checksums /\ k \notin removed /\ WriteQuorum \in Nat
  BY QuorumAssumption DEF Basic, RestOK, Kept
<1>2. Cardinality(Holding(disk, k, S)) >= WriteQuorum
  BY <1>1 DEF AcksHeld
<1>3. S \in SUBSET Nodes /\ S \subseteq S
  BY <1>1, PlanFacts DEF Targets
<1> HIDE DEF n, k, S
<1>4. /\ Cardinality(Holding(disk, k, S)) \in Nat
      /\ Cardinality(Holding(disk', k, S)) \in Nat
      /\ Cardinality(Holding(disk, k, S)) <= Cardinality(Holding(disk', k, S))
  <2>1. k \notin removed'
    BY DEF k
  <2> QED BY <1>1, <1>3, <2>1, HoldingGrows
<1>5. Cardinality(Holding(disk', k, S)) >= WriteQuorum
  BY <1>1, <1>2, <1>4
<1> QED BY <1>5 DEF n, k, S

\* The counter of a thread that does nothing stays right.
LEMMA AcksStay ==
  ASSUME Basic, AcksHeld, Kept, NEW v \in Workers, job'[v] = job[v],
         job[v].pc \in {"put", "hint"}, job[v].key \notin removed'
  PROVE  job[v].acks <=
           Cardinality(Holding(disk', job[v].key, Asked(Home[v], job[v].key, job[v].at)))
<1> DEFINE j == job[v]
           k == job[v].key
           S == Asked(Home[v], k, j.at)
<1>1. j \in Job /\ k \in Checksums /\ k \notin removed /\ Home[v] \in Nodes
  BY HomeAssumption DEF Basic, JobFits, Kept
<1>2. j.acks \in Nat /\ j.at \in Nat
  BY <1>1, JobFields
<1>3. j.acks <= Cardinality(Holding(disk, k, S))
  BY <1>1 DEF AcksHeld
<1>4. S \in SUBSET Nodes /\ S \subseteq S
  BY <1>1, <1>2, AskedFacts
<1> HIDE DEF S
<1>5. /\ Cardinality(Holding(disk, k, S)) \in Nat
      /\ Cardinality(Holding(disk', k, S)) \in Nat
      /\ Cardinality(Holding(disk, k, S)) <= Cardinality(Holding(disk', k, S))
  BY <1>1, <1>4, HoldingGrows
<1>6. j.acks <= Cardinality(Holding(disk', k, S))
  BY <1>2, <1>3, <1>5
<1> QED BY <1>6 DEF S

\* A put that ends with enough acknowledgements keeps what it promises.
LEMMA PromiseMade ==
  ASSUME Basic, AcksHeld, Kept, NEW w \in Workers, job[w].pc = "put", job[w].at > PlanSize,
         job[w].acks >= WriteQuorum, job[w].key \notin removed'
  PROVE  Cardinality(Holding(disk', job[w].key, Targets(job[w].key) \cup {Home[w]})) >= WriteQuorum
<1> DEFINE j == job[w]
           k == job[w].key
           S == Targets(k) \cup {Home[w]}
<1>1. j \in Job /\ k \in Checksums /\ k \notin removed /\ Home[w] \in Nodes
      /\ WriteQuorum \in Nat
  BY HomeAssumption, QuorumAssumption DEF Basic, JobFits, Kept
<1>2. j.acks \in Nat /\ j.at \in Nat
  BY <1>1, JobFields
<1>3. Asked(Home[w], k, j.at) = S /\ S \in SUBSET Nodes /\ S \subseteq S
  BY <1>1, <1>2, AskedFacts
<1>4. j.acks <= Cardinality(Holding(disk, k, S))
  BY <1>1, <1>3 DEF AcksHeld
<1> HIDE DEF S
<1>5. /\ Cardinality(Holding(disk, k, S)) \in Nat
      /\ Cardinality(Holding(disk', k, S)) \in Nat
      /\ Cardinality(Holding(disk, k, S)) <= Cardinality(Holding(disk', k, S))
  BY <1>1, <1>3, HoldingGrows
<1>6. Cardinality(Holding(disk', k, S)) >= WriteQuorum
  BY <1>1, <1>2, <1>4, <1>5
<1> QED BY <1>6 DEF S

\* AcksHeld is inductive.
LEMMA AcksStep == Basic /\ AcksHeld /\ Next /\ Basic' => AcksHeld'
<1> SUFFICES ASSUME Basic, AcksHeld, Next, Basic' PROVE AcksHeld'
  OBVIOUS
<1>1. ASSUME NEW w \in Workers, Acts(w)
      PROVE  AcksHeld'
  <2>0. Kept /\ Moves(w) /\ \A v \in Workers : v # w => job'[v] = job[v]
    BY <1>1 DEF Acts
  <2>1. ASSUME NEW v \in Workers, job'[v].pc \in {"put", "hint"}, job'[v].key \notin removed'
        PROVE  job'[v].acks <=
                 Cardinality(Holding(disk', job'[v].key, Asked(Home[v], job'[v].key, job'[v].at)))
    <3>1. CASE v = w
      BY <1>1, <2>1, <3>1, AcksMove
    <3>2. CASE v # w
      <4>1. job'[v] = job[v]
        BY <2>0, <3>2
      <4>2. job[v].pc \in {"put", "hint"} /\ job[v].key \notin removed'
        BY <2>1, <4>1
      <4>3. job[v].acks <=
              Cardinality(Holding(disk', job[v].key, Asked(Home[v], job[v].key, job[v].at)))
        BY <2>0, <4>1, <4>2, AcksStay
      <4> QED BY <4>1, <4>3
    <3> QED BY <3>1, <3>2
  <2>2. ASSUME NEW p \in acked', p[2] \notin removed'
        PROVE  Cardinality(Holding(disk', p[2], Targets(p[2]) \cup {p[1]})) >= WriteQuorum
    <3>1. CASE p \in acked
      BY <2>0, <2>2, <3>1, PromiseStays
    <3>2. CASE p \notin acked
      <4>1. PutEnds(w) /\ job[w].acks >= WriteQuorum /\ p = <<Home[w], job[w].key>>
        BY <2>0, <2>2, <3>2 DEF Moves, PutStarts, PutMoves, PutSkips, PutSent, PutQueued, PutFails,
           PutEnds, ReplayStarts, ReplayGoes, ReplayReads, ReplayDelivers, ReplayRetains, ReplayEnds, Apart
      <4>2. p[1] = Home[w] /\ p[2] = job[w].key
        BY <4>1
      <4>3. job[w].pc = "put" /\ job[w].at > PlanSize
        BY <4>1 DEF PutEnds
      <4>4. Cardinality(Holding(disk', job[w].key, Targets(job[w].key) \cup {Home[w]})) >= WriteQuorum
        BY <2>0, <2>2, <4>1, <4>2, <4>3, PromiseMade
      <4> QED BY <4>2, <4>4
    <3> QED BY <3>1, <3>2
  <2> QED BY <2>1, <2>2 DEF AcksHeld
<1>2. ASSUME NEW n \in Nodes, Crash(n)
      PROVE  AcksHeld'
  <2>1. /\ UNCHANGED <<disk, removed, acked>>
        /\ \A w \in Workers : job'[w] = IF Home[w] = n THEN Idle ELSE job[w]
    BY <1>2, CrashFacts
  <2>2. ASSUME NEW v \in Workers, job'[v].pc \in {"put", "hint"}, job'[v].key \notin removed'
        PROVE  job'[v].acks <=
                 Cardinality(Holding(disk', job'[v].key, Asked(Home[v], job'[v].key, job'[v].at)))
    <3>1. job'[v] = job[v]
      BY <2>1, <2>2, IdleFields
    <3> QED BY <2>1, <2>2, <3>1 DEF AcksHeld
  <2> QED BY <2>1, <2>2 DEF AcksHeld
<1> QED BY <1>1, <1>2, ActsNext

\* AcksHeld, together with Basic, holds in every reachable state.
THEOREM AcksInvariant == Spec => [](Basic /\ AcksHeld)
<1>1. Init => AcksHeld
  BY IdleFields DEF Init, AcksHeld
<1>2. Basic /\ AcksHeld /\ [Next]_vars => AcksHeld'
  <2>1. CASE UNCHANGED vars
    BY <2>1 DEF vars, AcksHeld
  <2>2. CASE Next
    BY <2>2, BasicStep, AcksStep
  <2> QED BY <2>1, <2>2
<1> QED BY <1>1, <1>2, BasicInit, BasicStep, PTL DEF Spec

\* Every node is a target of every chunk.
FullReplication == ReplicationFactor >= Cardinality(Nodes)

\* Then the plan of a chunk is all of the ring.
LEMMA AllTargets ==
  ASSUME FullReplication, NEW k \in Checksums
  PROVE  Targets(k) = Nodes
<1> DEFINE N == Cardinality(Nodes)
           f == Preference[k]
<1>1. N \in Nat /\ PlanSize = N
  BY PlanFacts, QuorumAssumption DEF FullReplication, PlanSize
<1>2. f \in Injection(1 .. N, Nodes)
  BY PreferenceAssumption DEF Injection, IsInjective
<1>3. Cardinality(1 .. N) = N
  BY <1>1, FS_Interval
<1> HIDE DEF f
<1>4. f \in Surjection(1 .. N, Nodes)
  BY <1>2, <1>3, NodesAssumption, FS_Injection
<1>5. \A m \in Nodes : \E i \in 1 .. N : f[i] = m
  BY <1>4 DEF Surjection
<1>6. \A i \in 1 .. N : f[i] \in Nodes
  BY <1>4 DEF Surjection
<1> QED BY <1>1, <1>5, <1>6 DEF Targets, Target, f

\* A put that answered success has its chunk on write_quorum of the chunk's
\* targets until somebody removes it, through crashes, failing file operations,
\* lost answers and repairs; and the files hold the content as long as no file
\* operation failed.  This takes that every node is a target: the local copy is
\* the first acknowledgement whether or not the node is in the plan.
THEOREM AckedStayOnQuorum == ASSUME FullReplication PROVE Spec => []AckedOnQuorum
<1>1. Basic /\ AcksHeld => AckedOnQuorum
  <2> SUFFICES ASSUME Basic, AcksHeld, NEW p \in acked, p[2] \notin removed
               PROVE  /\ Cardinality({m \in Targets(p[2]) : disk[m][p[2]] # Nil}) >= WriteQuorum
                      /\ faults = 0 => Cardinality({m \in Targets(p[2]) : Intact(m, p[2])}) >= WriteQuorum
    BY DEF AckedOnQuorum
  <2>1. p[1] \in Nodes /\ p[2] \in Checksums
    BY DEF Basic, RestOK
  <2>2. Targets(p[2]) = Nodes
    BY <2>1, AllTargets
  <2>3. Targets(p[2]) \cup {p[1]} = Targets(p[2])
    BY <2>1, <2>2
  <2>4. Cardinality(Holding(disk, p[2], Targets(p[2]))) >= WriteQuorum
    BY <2>3 DEF AcksHeld
  <2>5. Holding(disk, p[2], Targets(p[2])) = {m \in Targets(p[2]) : disk[m][p[2]] # Nil}
    BY DEF Holding
  <2>6. faults = 0 => {m \in Targets(p[2]) : Intact(m, p[2])} = {m \in Targets(p[2]) : disk[m][p[2]] # Nil}
    BY <2>1, <2>2 DEF Basic, StoresOK, Intact
  <2> QED BY <2>4, <2>5, <2>6
<1> QED BY <1>1, AcksInvariant, PTL

-----------------------------------------------------------------------------
(* Hints of acknowledged writes *)

HintFor(k, i) == [node |-> Target(k, i), key |-> k, part |-> "line"]

Queued(q, h) == \E i \in DOMAIN q : q[i] = h

\* A replay with locals j will write hint h back, or has yet to look at it.
Carried(j, h) == Queued(j.rest, h) \/ \E i \in DOMAIN j.hints : j.at <= i /\ j.hints[i] = h

\* The target of hint h has the chunk, or the hint is in the queue of node n and
\* in the hands of every replay that is about to rewrite that queue.
Accounted(n, h) ==
  \/ h.key \in removed
  \/ disk[h.node][h.key] # Nil
  \/ Queued(handoff[n], h) /\ \A v \in Replaying(n) : Carried(job[v], h)

\* The lines that have their end.
Lines == {h \in Hint : h.part = "line"}

\* What makes HandoffComplete inductive, while nothing failed: every queue and
\* every list of a replay has whole lines, and on a node where no hint was queued
\* during a replay the targets a put has passed are accounted for.
HandoffKept ==
  faults = 0 /\ crashes = 0 =>
    /\ \A n \in Nodes : handoff[n] \in Seq(Lines)
    /\ \A w \in Workers :
         /\ job[w].pc \in {"replay", "send"} =>
              job[w].hints \in Seq(Lines) /\ job[w].rest \in Seq(Lines)
         /\ job[w].pc \in {"put", "hint"} /\ Home[w] \notin mixed =>
              \A k \in Checksums, i \in 1 .. PlanSize :
                 job[w].key = k /\ i < job[w].at => Accounted(Home[w], HintFor(k, i))
    /\ \A p \in acked : p[1] \notin mixed =>
         \A i \in 1 .. PlanSize : Accounted(p[1], HintFor(p[2], i))

\* Adding a hint to a queue adds it and loses none.
LEMMA QueuedAppend ==
  ASSUME NEW q \in Seq(Lines), NEW g \in Lines, NEW h
  PROVE  /\ Queued(q, h) => Queued(Append(q, g), h)
         /\ Queued(Append(q, g), g)
<1>1. Append(q, g) \in Seq(Lines) /\ Len(Append(q, g)) = Len(q) + 1
  OBVIOUS
<1>2. \A i \in DOMAIN q : i \in DOMAIN Append(q, g) /\ Append(q, g)[i] = q[i]
  OBVIOUS
<1>3. Len(q) + 1 \in DOMAIN Append(q, g) /\ Append(q, g)[Len(q) + 1] = g
  OBVIOUS
<1> QED BY <1>2, <1>3 DEF Queued

\* The hints of a plan are complete lines.
LEMMA HintForType ==
  ASSUME NEW k \in Checksums, NEW i \in 1 .. PlanSize
  PROVE  HintFor(k, i) \in Lines /\ HintFor(k, i).node = Target(k, i) /\ HintFor(k, i).key = k
<1>1. Target(k, i) \in Nodes
  BY PlanFacts
<1> QED BY <1>1 DEF HintFor, Lines, Hint, Parts

\* A queue of complete lines is loaded as it is and appended to at its end.
LEMMA LinesWhole ==
  ASSUME NEW q \in Seq(Lines)
  PROVE  Loaded(q) = q /\ \A h : AppendLine(q, h) = Append(q, h)
<1>1. ~Open(q)
  <2> SUFFICES ASSUME q # <<>> PROVE q[Len(q)].part = "line"
    BY DEF Open
  <2>1. Len(q) \in DOMAIN q
    OBVIOUS
  <2>2. q[Len(q)] \in Lines
    BY <2>1
  <2> QED BY <2>2 DEF Lines
<1> QED BY <1>1 DEF Loaded, AppendLine

\* What a step of a thread does to queues and replays while nothing fails.
LEMMA LinesStay ==
  ASSUME Basic, Basic', HandoffKept, NEW w \in Workers, Acts(w),
         faults = 0, crashes = 0, faults' = 0
  PROVE  /\ \A n \in Nodes : handoff'[n] \in Seq(Lines)
         /\ \A v \in Workers : job'[v].pc \in {"replay", "send"} =>
              job'[v].hints \in Seq(Lines) /\ job'[v].rest \in Seq(Lines)
         /\ PutQueued(w) =>
              /\ \A n \in Nodes : n # Home[w] => handoff'[n] = handoff[n]
              /\ HintOf(job[w]) \in Lines
              /\ handoff'[Home[w]] = Append(handoff[Home[w]], HintOf(job[w]))
         /\ ReplayEnds(w) =>
              /\ \A n \in Nodes : n # Home[w] => handoff'[n] = handoff[n]
              /\ handoff'[Home[w]] = job[w].rest
         /\ ~PutQueued(w) /\ ~ReplayEnds(w) => handoff' = handoff
<1> DEFINE j == job[w]
           n == Home[w]
<1>0. /\ Moves(w) /\ n \in Nodes /\ handoff \in [Nodes -> Seq(Hint)] /\ j \in Job
      /\ \A v \in Workers : v # w => job'[v] = job[v]
      /\ \A m \in Nodes : handoff[m] \in Seq(Lines)
      /\ \A v \in Workers : job[v].pc \in {"replay", "send"} =>
           job[v].hints \in Seq(Lines) /\ job[v].rest \in Seq(Lines)
  BY HomeAssumption DEF Acts, Basic, RestOK, HandoffKept
<1>a. j.at \in Nat /\ j.hints \in Seq(Hint)
  BY <1>0, JobFields
<1>1. ASSUME PutQueued(w)
      PROVE  /\ \A m \in Nodes : m # n => handoff'[m] = handoff[m]
             /\ HintOf(j) \in Lines
             /\ handoff'[n] = Append(handoff[n], HintOf(j))
  <2> DEFINE h == HintOf(j)
  <2>1. h \in Lines
    BY <1>1, HintOfType DEF PutQueued, Lines
  <2>2. handoff' = [handoff EXCEPT ![n] = AppendLine(handoff[n], h)]
    BY <1>1 DEF PutQueued
  <2> HIDE DEF h
  <2>3. AppendLine(handoff[n], h) = Append(handoff[n], h)
    BY <1>0, LinesWhole
  <2>4. /\ \A m \in Nodes : m # n => handoff'[m] = handoff[m]
        /\ handoff'[n] = Append(handoff[n], h)
    BY <1>0, <2>2, <2>3
  <2> QED BY <2>1, <2>4 DEF h
<1>2. ASSUME ReplayEnds(w)
      PROVE  (\A m \in Nodes : m # n => handoff'[m] = handoff[m]) /\ handoff'[n] = j.rest
  <2>1. handoff' = [handoff EXCEPT ![n] = j.rest]
    BY <1>2 DEF ReplayEnds
  <2> QED BY <1>0, <2>1
<1>3. ASSUME ~PutQueued(w), ~ReplayEnds(w)
      PROVE  handoff' = handoff
  BY <1>0, <1>3 DEF Moves, PutStarts, PutSkips, PutSent, PutFails, PutEnds, ReplayStarts,
     ReplayGoes, ReplayReads, ReplayDelivers, ReplayRetains, Apart
<1>4. \A m \in Nodes : handoff'[m] \in Seq(Lines)
  <2>1. CASE PutQueued(w)
    <3> DEFINE h == HintOf(j)
    <3>1. /\ \A m \in Nodes : m # n => handoff'[m] = handoff[m]
          /\ h \in Lines /\ handoff'[n] = Append(handoff[n], h)
      BY <1>1, <2>1
    <3> HIDE DEF h
    <3>2. handoff'[n] \in Seq(Lines)
      BY <1>0, <3>1
    <3> QED BY <1>0, <3>1, <3>2
  <2>2. CASE ReplayEnds(w)
    BY <1>0, <1>2, <2>2 DEF ReplayEnds
  <2> QED BY <1>0, <1>3, <2>1, <2>2
<1>5. ASSUME job'[w].pc \in {"replay", "send"}
      PROVE  job'[w].hints \in Seq(Lines) /\ job'[w].rest \in Seq(Lines)
  <2>0. ReplayStarts(w) \/ ReplayReads(w) \/ ReplayDelivers(w) \/ ReplayRetains(w)
    BY <1>0, <1>5 DEF Moves, PutStarts, PutMoves, PutSkips, PutSent, PutQueued, PutFails, PutEnds,
       ReplayEnds, Apart
  <2>1. CASE ReplayStarts(w)
    <3>1. job'[w].hints = Loaded(handoff[n]) /\ job'[w].rest = <<>>
      BY <2>1 DEF ReplayStarts
    <3>2. Loaded(handoff[n]) \in Seq(Lines) /\ <<>> \in Seq(Lines)
      BY <1>0, LinesWhole
    <3> QED BY <3>1, <3>2
  <2>2. CASE ReplayReads(w) \/ ReplayDelivers(w)
    BY <1>0, <2>2 DEF ReplayReads, ReplayDelivers, ReplayGoes
  <2>3. CASE ReplayRetains(w)
    <3> DEFINE g == j.hints[j.at]
    <3>1. /\ j.hints \in Seq(Lines) /\ j.rest \in Seq(Lines) /\ j.at \in DOMAIN j.hints
          /\ job'[w].hints = j.hints /\ job'[w].rest = Append(j.rest, g)
      BY <1>0, <1>a, <2>3 DEF ReplayRetains, ReplayGoes
    <3>2. g \in Lines
      BY <3>1
    <3> QED BY <3>1, <3>2
  <2> QED BY <2>0, <2>1, <2>2, <2>3
<1>6. \A v \in Workers : job'[v].pc \in {"replay", "send"} =>
        job'[v].hints \in Seq(Lines) /\ job'[v].rest \in Seq(Lines)
  BY <1>0, <1>5
<1> QED BY <1>1, <1>2, <1>3, <1>4, <1>6

\* A replay that carries a hint goes on carrying it, delivers it, or ends with it
\* in its rest.
LEMMA CarriedStays ==
  ASSUME Basic, HandoffKept, NEW w \in Workers, Acts(w), faults = 0, crashes = 0,
         NEW h, job[w].pc \in {"replay", "send"}, Carried(job[w], h)
  PROVE  \/ job'[w].pc \in {"replay", "send"} /\ Carried(job'[w], h)
         \/ disk'[h.node][h.key] # Nil
         \/ ReplayEnds(w) /\ Queued(job[w].rest, h)
         \/ job'[w].pc \notin {"replay", "send"} /\ ~ReplayEnds(w)
         \/ ReplayStarts(w)
<1> DEFINE j == job[w]
           r == job'[w]
<1>0. Moves(w) /\ j \in Job /\ j.hints \in Seq(Lines) /\ j.rest \in Seq(Lines)
  BY DEF Acts, Basic, HandoffKept
<1>a. j.at \in Nat
  BY <1>0, JobFields
<1>1. CASE ReplayReads(w)
  BY <1>1 DEF ReplayReads, ReplayGoes, Carried
<1>2. CASE ReplayDelivers(w)
  <2>1. /\ r.pc \in {"replay", "send"} /\ r.hints = j.hints /\ r.rest = j.rest /\ r.at = j.at + 1
        /\ disk'[j.hints[j.at].node][j.hints[j.at].key] # Nil
    BY <1>2 DEF ReplayDelivers, ReplayGoes
  <2>2. CASE Queued(j.rest, h)
    BY <2>1, <2>2 DEF Carried
  <2>3. ASSUME NEW i \in DOMAIN j.hints, j.at <= i, j.hints[i] = h
        PROVE  Carried(r, h) \/ disk'[h.node][h.key] # Nil
    <3>1. i \in Nat
      BY <1>0
    <3>2. CASE i = j.at
      BY <2>1, <2>3, <3>2
    <3>3. CASE i # j.at
      <4>1. r.at <= i
        BY <1>a, <2>1, <2>3, <3>1, <3>3
      <4> QED BY <2>1, <2>3, <4>1 DEF Carried
    <3> QED BY <3>2, <3>3
  <2> QED BY <2>1, <2>2, <2>3 DEF Carried
<1>3. CASE ReplayRetains(w)
  <2> DEFINE g == j.hints[j.at]
  <2>1. /\ r.pc \in {"replay", "send"} /\ r.hints = j.hints /\ r.rest = Append(j.rest, g)
        /\ r.at = j.at + 1 /\ j.at \in DOMAIN j.hints
    BY <1>0, <1>a, <1>3 DEF ReplayRetains, ReplayGoes
  <2>2. g \in Lines
    BY <1>0, <2>1
  <2>3. \A f : Queued(j.rest, f) => Queued(r.rest, f)
    BY <1>0, <2>1, <2>2, QueuedAppend
  <2>4. Queued(r.rest, g)
    BY <1>0, <2>1, <2>2, QueuedAppend
  <2>5. ASSUME NEW i \in DOMAIN j.hints, j.at <= i, j.hints[i] = h
        PROVE  Carried(r, h)
    <3>1. i \in Nat
      BY <1>0
    <3>2. CASE i = j.at
      BY <2>4, <2>5, <3>2 DEF Carried
    <3>3. CASE i # j.at
      <4>1. r.at <= i
        BY <1>a, <2>1, <2>5, <3>1, <3>3
      <4> QED BY <2>1, <2>5, <4>1 DEF Carried
    <3> QED BY <3>2, <3>3
  <2> QED BY <2>1, <2>3, <2>5 DEF Carried
<1>4. CASE ReplayEnds(w)
  <2>1. j.at > Len(j.hints)
    BY <1>4 DEF ReplayEnds
  <2>2. \A i \in DOMAIN j.hints : ~(j.at <= i)
    BY <1>0, <1>a, <2>1
  <2> QED BY <1>4, <2>2 DEF Carried
<1>5. CASE ~(ReplayReads(w) \/ ReplayDelivers(w) \/ ReplayRetains(w) \/ ReplayEnds(w) \/ ReplayStarts(w))
  BY <1>0, <1>5 DEF Moves, PutStarts, PutMoves, PutSkips, PutSent, PutQueued, PutFails, PutEnds, Apart
<1> QED BY <1>1, <1>2, <1>3, <1>4, <1>5

\* A target that is accounted for stays so, whatever thread acts.
LEMMA AccountStays ==
  ASSUME Basic, Basic', HandoffKept, NEW w \in Workers, Acts(w),
         faults = 0, crashes = 0, faults' = 0,
         NEW n \in Nodes, NEW h \in Lines, h.key \in Checksums, h.node \in Nodes, Accounted(n, h)
  PROVE  Accounted(n, h)'
<1>0. /\ Kept /\ Moves(w) /\ Home[w] \in Nodes /\ \A v \in Workers : v # w => job'[v] = job[v]
      /\ job[w] \in Job
  BY HomeAssumption DEF Acts, Basic
<1>1. CASE h.key \in removed \/ disk[h.node][h.key] # Nil
  BY <1>0, <1>1 DEF Accounted, Kept
<1>2. CASE h.key \in removed' \/ disk'[h.node][h.key] # Nil
  BY <1>2 DEF Accounted
<1>3. CASE /\ ~(h.key \in removed \/ disk[h.node][h.key] # Nil)
           /\ ~(h.key \in removed' \/ disk'[h.node][h.key] # Nil)
  <2>0. Queued(handoff[n], h) /\ \A v \in Replaying(n) : Carried(job[v], h)
    BY <1>3 DEF Accounted
  <2>1. Queued(handoff'[n], h)
    <3>1. CASE PutQueued(w)
      <4>1. \/ handoff'[n] = handoff[n]
            \/ HintOf(job[w]) \in Lines /\ handoff'[n] = Append(handoff[n], HintOf(job[w]))
        BY <3>1, LinesStay
      <4>2. handoff[n] \in Seq(Lines)
        BY DEF HandoffKept
      <4> QED BY <2>0, <4>1, <4>2, QueuedAppend
    <3>2. CASE ReplayEnds(w)
      <4>1. \/ handoff'[n] = handoff[n]
            \/ n = Home[w] /\ handoff'[n] = job[w].rest
        BY <3>2, LinesStay
      <4>2. CASE n = Home[w] /\ handoff'[n] = job[w].rest
        <5>1. job[w].pc = "replay" /\ job[w].at > Len(job[w].hints)
          BY <3>2 DEF ReplayEnds
        <5>2. Carried(job[w], h)
          BY <2>0, <4>2, <5>1 DEF Replaying
        <5>3. \A i \in DOMAIN job[w].hints : ~(job[w].at <= i)
          <6>1. job[w].hints \in Seq(Hint) /\ job[w].at \in Nat
            BY <1>0, JobFields
          <6> QED BY <5>1, <6>1
        <5> QED BY <4>2, <5>2, <5>3 DEF Carried
      <4> QED BY <2>0, <4>1, <4>2
    <3>3. CASE ~PutQueued(w) /\ ~ReplayEnds(w)
      BY <2>0, <3>3, LinesStay
    <3> QED BY <3>1, <3>2, <3>3
  <2>2. ASSUME NEW v \in Workers, Home[v] = n, job'[v].pc \in {"replay", "send"}
        PROVE  Carried(job'[v], h)
    <3>1. CASE v # w
      <4>1. v \in Replaying(n) /\ job'[v] = job[v]
        BY <1>0, <2>2, <3>1 DEF Replaying
      <4> QED BY <2>0, <4>1
    <3>2. CASE v = w /\ ReplayStarts(w)
      <4>1. job'[w].hints = handoff[n] /\ job'[w].at = 1
        <5>1. job'[w].hints = Loaded(handoff[n]) /\ job'[w].at = 1
          BY <2>2, <3>2 DEF ReplayStarts
        <5>2. handoff[n] \in Seq(Lines)
          BY DEF HandoffKept
        <5> QED BY <5>1, <5>2, LinesWhole
      <4>2. PICK i \in DOMAIN handoff[n] : handoff[n][i] = h
        BY <2>0 DEF Queued
      <4>3. 1 <= i
        <5>1. handoff[n] \in Seq(Lines)
          BY DEF HandoffKept
        <5> QED BY <4>2, <5>1
      <4> QED BY <3>2, <4>1, <4>2, <4>3 DEF Carried
    <3>3. CASE v = w /\ ~ReplayStarts(w)
      <4>1. job[w].pc \in {"replay", "send"}
        BY <1>0, <2>2, <3>3 DEF Moves, PutStarts, PutMoves, PutSkips, PutSent, PutQueued, PutFails,
           PutEnds, ReplayGoes, ReplayReads, ReplayDelivers, ReplayRetains, ReplayEnds, Apart
      <4>2. Carried(job[w], h)
        BY <2>0, <2>2, <3>3, <4>1 DEF Replaying
      <4>3. ~ReplayEnds(w)
        BY <2>2, <3>3 DEF ReplayEnds
      <4> QED BY <1>3, <2>2, <3>3, <4>1, <4>2, <4>3, CarriedStays
    <3> QED BY <3>1, <3>2, <3>3
  <2> QED BY <2>1, <2>2 DEF Accounted, Replaying
<1> QED BY <1>1, <1>2, <1>3

\* A put that moves on accounts for the target it leaves behind.
LEMMA HandoffPut ==
  ASSUME Basic, HintsFit, HandoffKept, Basic', NEW w \in Workers, Acts(w),
         faults = 0, crashes = 0, faults' = 0,
         job'[w].pc \in {"put", "hint"}, Home[w] \notin mixed',
         NEW k \in Checksums, job'[w].key = k,
         NEW i \in 1 .. PlanSize, i < job'[w].at
  PROVE  Accounted(Home[w], HintFor(k, i))'
<1> DEFINE j == job[w]
           h == HintFor(k, i)
           n == Home[w]
<1>0. /\ Kept /\ Moves(w) /\ n \in Nodes /\ j \in Job /\ PlanSize \in Nat
      /\ n \notin mixed
  BY HomeAssumption, PlanFacts DEF Acts, Basic, JobFits, Kept
<1>a. h \in Lines /\ h.node = Target(k, i) /\ h.key = k /\ h.node \in Nodes /\ j.at \in Nat
  BY <1>0, HintForType, JobFields, PlanFacts
<1>1. PutStarts(w) \/ PutMoves(w) \/ PutFails(w)
  BY <1>0 DEF Moves, PutSkips, PutSent, PutQueued, PutEnds, ReplayStarts, ReplayGoes, ReplayReads,
     ReplayDelivers, ReplayRetains, ReplayEnds, Apart
<1>2. CASE PutStarts(w)
  BY <1>0, <1>2 DEF PutStarts
<1>3. \/ j.pc \in {"put", "hint"} /\ j.key = k /\ (i < j.at \/ (PutMoves(w) /\ i = j.at))
      \/ PutStarts(w)
  BY <1>1, <1>a DEF PutMoves, PutFails
<1>4. CASE j.pc \in {"put", "hint"} /\ j.key = k /\ i < j.at
  <2>1. Accounted(n, h)
    BY <1>0, <1>4 DEF HandoffKept
  <2> HIDE DEF h, n
  <2>2. Accounted(n, h)'
    BY <1>0, <1>a, <2>1, AccountStays
  <2> QED BY <2>2 DEF h, n
<1>5. CASE j.pc \in {"put", "hint"} /\ j.key = k /\ PutMoves(w) /\ i = j.at /\ ~PutStarts(w)
  <2>0. PutSkips(w) \/ PutSent(w) \/ PutQueued(w)
    BY <1>0, <1>5 DEF PutMoves, Moves, PutFails, PutEnds, ReplayStarts, ReplayGoes, ReplayReads,
       ReplayDelivers, ReplayRetains, ReplayEnds, Apart
  <2>1. CASE PutSkips(w)
    <3>1. disk[n][k] # Nil \/ k \in removed
      BY <1>5 DEF HintsFit
    <3>2. disk'[n][k] # Nil \/ k \in removed'
      BY <1>0, <3>1 DEF Kept
    <3>3. h.node = n
      BY <1>5, <1>a, <2>1 DEF PutSkips
    <3> QED BY <1>a, <3>2, <3>3 DEF Accounted
  <2>2. CASE PutSent(w)
    BY <1>5, <1>a, <2>2 DEF PutSent, Accounted
  <2>3. CASE PutQueued(w)
    <3>1. HintOf(j) = h
      BY <1>5 DEF HintOf, HintFor
    <3>2. handoff'[n] = Append(handoff[n], h)
      BY <2>3, <3>1, LinesStay
    <3>3. handoff[n] \in Seq(Lines)
      BY <1>0 DEF HandoffKept
    <3> HIDE DEF h
    <3>4. Queued(handoff'[n], h)
      BY <1>a, <3>2, <3>3, QueuedAppend
    <3>5. Replaying(n) = {}
      BY <2>3 DEF PutQueued
    <3>6. ASSUME NEW v \in Workers, Home[v] = n
          PROVE  job'[v].pc \notin {"replay", "send"}
      <4>1. CASE v = w
        BY <2>3, <4>1 DEF PutQueued, PutMoves
      <4>2. CASE v # w
        BY <3>5, <3>6, <4>2 DEF Acts, Replaying
      <4> QED BY <4>1, <4>2
    <3>7. Accounted(n, h)'
      BY <3>4, <3>6 DEF Accounted, Replaying
    <3> QED BY <3>7 DEF h
  <2> QED BY <2>0, <2>1, <2>2, <2>3
<1> QED BY <1>2, <1>3, <1>4, <1>5

\* The targets of an acknowledged chunk stay accounted for.
LEMMA HandoffAcked ==
  ASSUME Basic, Basic', HandoffKept, NEW w \in Workers, Acts(w),
         faults = 0, crashes = 0, faults' = 0,
         NEW p \in acked', p[1] \notin mixed', NEW i \in 1 .. PlanSize
  PROVE  Accounted(p[1], HintFor(p[2], i))'
<1>0. /\ Kept /\ Moves(w) /\ Home[w] \in Nodes /\ job[w] \in Job /\ PlanSize \in Nat
      /\ p[1] \notin mixed
  BY HomeAssumption, PlanFacts DEF Acts, Basic, Kept
<1>1. p[1] \in Nodes /\ p[2] \in Checksums /\ Accounted(p[1], HintFor(p[2], i))
  <2>1. CASE p \in acked
    BY <1>0, <2>1 DEF Basic, RestOK, HandoffKept
  <2>2. CASE p \notin acked
    <3>1. PutEnds(w) /\ p = <<Home[w], job[w].key>>
      BY <1>0, <2>2 DEF Moves, PutStarts, PutMoves, PutSkips, PutSent, PutQueued, PutFails, PutEnds,
         ReplayStarts, ReplayGoes, ReplayReads, ReplayDelivers, ReplayRetains, ReplayEnds, Apart
    <3>2. job[w].pc = "put" /\ job[w].at > PlanSize /\ job[w].key \in Checksums
      BY <3>1 DEF PutEnds, Basic, JobFits
    <3>3. i < job[w].at
      <4>1. job[w].at \in Nat
        BY <1>0, JobFields
      <4> QED BY <1>0, <3>2, <4>1
    <3>4. Accounted(Home[w], HintFor(job[w].key, i))
      BY <1>0, <3>1, <3>2, <3>3 DEF HandoffKept
    <3> QED BY <1>0, <3>1, <3>2, <3>4
  <2> QED BY <2>1, <2>2
<1> DEFINE h == HintFor(p[2], i)
           n == p[1]
<1>2. n \in Nodes /\ h \in Lines /\ h.key \in Checksums /\ h.node \in Nodes /\ Accounted(n, h)
  BY <1>1, HintForType, PlanFacts
<1> HIDE DEF h, n
<1>3. Accounted(n, h)'
  BY <1>2, AccountStays
<1> QED BY <1>3 DEF h, n

\* HandoffKept is inductive, together with Basic and HintsFit.
LEMMA HandoffStep ==
  ASSUME Basic, HintsFit, HandoffKept, Next, Basic'
  PROVE  HandoffKept'
<1> SUFFICES ASSUME faults' = 0, crashes' = 0 PROVE HandoffKept'
  BY DEF HandoffKept
<1>1. ASSUME NEW w \in Workers, Acts(w)
      PROVE  HandoffKept'
  <2>0. /\ faults = 0 /\ crashes = 0 /\ mixed \subseteq mixed'
        /\ \A v \in Workers : v # w => job'[v] = job[v]
    BY <1>1 DEF Acts, Kept, FaultsStay
  <2>1. /\ \A n \in Nodes : handoff'[n] \in Seq(Lines)
        /\ \A v \in Workers : job'[v].pc \in {"replay", "send"} =>
             job'[v].hints \in Seq(Lines) /\ job'[v].rest \in Seq(Lines)
    BY <1>1, <2>0, LinesStay
  <2>2. ASSUME NEW v \in Workers, job'[v].pc \in {"put", "hint"}, Home[v] \notin mixed',
               NEW k \in Checksums, job'[v].key = k, NEW i \in 1 .. PlanSize, i < job'[v].at
        PROVE  Accounted(Home[v], HintFor(k, i))'
    <3>1. CASE v = w
      BY <1>1, <2>0, <2>2, <3>1, HandoffPut
    <3>2. CASE v # w
      <4> DEFINE h == HintFor(k, i)
                 n == Home[v]
      <4>1. job'[v] = job[v] /\ n \in Nodes
        BY <2>0, <3>2, HomeAssumption
      <4>2. Accounted(n, h)
        BY <2>0, <2>2, <4>1 DEF HandoffKept
      <4>3. h \in Lines /\ h.key \in Checksums /\ h.node \in Nodes
        BY <4>1, HintForType, PlanFacts
      <4> HIDE DEF h, n
      <4>4. Accounted(n, h)'
        BY <1>1, <2>0, <4>1, <4>2, <4>3, AccountStays
      <4> QED BY <4>4 DEF h, n
    <3> QED BY <3>1, <3>2
  <2>3. \A p \in acked' : p[1] \notin mixed' =>
          \A i \in 1 .. PlanSize : Accounted(p[1], HintFor(p[2], i))'
    BY <1>1, <2>0, HandoffAcked
  <2> QED BY <2>1, <2>2, <2>3 DEF HandoffKept
<1>2. ASSUME NEW n \in Nodes, Crash(n)
      PROVE  FALSE
  BY <1>2, CrashFacts
<1> QED BY <1>1, <1>2, ActsNext

\* However many threads a node has and whatever they do, while no file operation
\* fails and no process crashes a target that lacks an acknowledged chunk has its
\* hint queued where the write was acknowledged, unless a hint was queued on that
\* node between the load and the replace of a replay.  Replays that overlap each
\* other lose nothing; that one overlap is all that can.
THEOREM HandoffStaysComplete == Spec => []HandoffComplete
<1>1. Init => HandoffKept
  BY IdleFields DEF Init, HandoffKept
<1>2. Basic /\ HintsFit /\ HandoffKept /\ [Next]_vars => HandoffKept'
  <2>1. CASE UNCHANGED vars
    BY <2>1 DEF vars, HandoffKept, Accounted, Replaying
  <2>2. CASE Next
    BY <2>2, BasicStep, HandoffStep
  <2> QED BY <2>1, <2>2
<1>3. Basic /\ HandoffKept => HandoffComplete
  <2> SUFFICES ASSUME Basic, HandoffKept, faults = 0, crashes = 0, NEW p \in acked,
                      p[1] \notin mixed, p[2] \notin removed, NEW m \in Targets(p[2])
               PROVE  disk[m][p[2]] # Nil \/ Hinted(p[1], m, p[2])
    BY DEF HandoffComplete, StoredOrHinted
  <2>1. p[2] \in Checksums
    BY DEF Basic, RestOK
  <2>2. PICK i \in 1 .. PlanSize : m = Target(p[2], i)
    BY DEF Targets
  <2>3. Accounted(p[1], HintFor(p[2], i))
    BY DEF HandoffKept
  <2>4. HintFor(p[2], i).key = p[2] /\ HintFor(p[2], i).node = m
    BY <2>1, <2>2, HintForType
  <2>5. HintFor(p[2], i) = [node |-> m, key |-> p[2], part |-> "line"]
    BY <2>2 DEF HintFor
  <2> QED BY <2>3, <2>4, <2>5 DEF Accounted, Queued, Hinted
<1> QED BY <1>1, <1>2, <1>3, HintsInvariant, PTL DEF Spec

-----------------------------------------------------------------------------
(* Damaged files *)

\* A step leaves no new damage behind, or one damaged file for one fault.
DamageStep ==
  \/ Damaged' \subseteq Damaged /\ faults' \in Nat /\ faults' >= faults
  \/ faults' = faults + 1 /\ \E f : Damaged' \subseteq Damaged \cup {f}

\* No file is written.
LEMMA DamageQuiet ==
  ASSUME StoresOK, disk' = disk, faults' = faults \/ faults' = faults + 1
  PROVE  DamageStep
<1>1. Damaged' = Damaged
  BY DEF Damaged, Exists, Intact
<1> QED BY <1>1 DEF StoresOK, DamageStep

\* One file is written, under the name its content has, or removed, or a write
\* that fails leaves it damaged.
LEMMA DamageFile ==
  ASSUME StoresOK, NEW n \in Nodes, NEW k \in Checksums, NEW c \in Bytes \cup {Nil},
         WriteFile(n, k, c),
         \/ faults' = faults /\ (c # Nil => Sha256[c] = k)
         \/ faults' = faults + 1
  PROVE  DamageStep
<1>1. \A m \in Nodes, i \in Checksums : disk'[m][i] = IF m = n /\ i = k THEN c ELSE disk[m][i]
  BY DEF WriteFile, StoresOK, DiskType
<1>2. \A f \in Nodes \X Checksums : f \in Damaged' => f \in Damaged \/ f = <<n, k>>
  <2> SUFFICES ASSUME NEW m \in Nodes, NEW i \in Checksums, <<m, i>> \in Damaged', <<m, i>> # <<n, k>>
               PROVE  <<m, i>> \in Damaged
    OBVIOUS
  <2>1. disk'[m][i] = disk[m][i]
    BY <1>1
  <2> QED BY <2>1 DEF Damaged, Exists, Intact
<1>3. c # Nil /\ Sha256[c] = k => <<n, k>> \notin Damaged'
  BY <1>1 DEF Damaged, Exists, Intact
<1>4. c = Nil => <<n, k>> \notin Damaged'
  BY <1>1 DEF Damaged, Exists, Intact
<1>5. Damaged' \subseteq Damaged \cup {<<n, k>>}
  BY <1>2 DEF Damaged
<1>6. faults \in Nat
  BY DEF StoresOK
<1>7. CASE faults' = faults /\ (c # Nil => Sha256[c] = k)
  BY <1>3, <1>4, <1>5, <1>6, <1>7 DEF DamageStep
<1>8. CASE faults' = faults + 1
  BY <1>5, <1>8 DEF DamageStep
<1> QED BY <1>7, <1>8

\* ChunkStore::put, and a put on a peer.
LEMMA DamagePut ==
  ASSUME StoresOK, NEW n \in Nodes, NEW d \in Bytes, NEW ok, StorePut(n, d, ok)
  PROVE  DamageStep
<1> DEFINE k == Sha256[d]
<1>0. k \in Checksums /\ Cut \in Bytes
  BY HashAssumption
<1>1. CASE UNCHANGED disk /\ (faults' = faults \/ faults' = faults + 1)
  BY <1>1, DamageQuiet
<1>2. CASE WriteFile(n, k, d) /\ faults' = faults
  BY <1>0, <1>2, DamageFile
<1>3. CASE WriteFile(n, k, Cut) /\ faults' = faults + 1
  BY <1>0, <1>3, DamageFile
<1> QED BY <1>1, <1>2, <1>3 DEF StorePut, stores, Fault

\* A put on a peer, whatever name it is asked for.
LEMMA DamageRemotePut ==
  ASSUME StoresOK, NEW n \in Nodes, NEW k, NEW d \in Bytes, NEW ok, RemotePut(n, k, d, ok)
  PROVE  DamageStep
<1>1. CASE UNCHANGED <<disk, cache, faults>>
  BY <1>1, DamageQuiet
<1>2. CASE StorePut(n, d, TRUE)
  BY <1>2, DamagePut
<1> QED BY <1>1, <1>2 DEF RemotePut

\* Every step of a put or of a repair.
LEMMA DamageOfPuts ==
  ASSUME Basic, NEW w \in Workers,
         \/ \E d \in Whole : CallPut(w, d)
         \/ PutSkipSelf(w) \/ PutReplica(w) \/ PutEnqueue(w) \/ PutReturn(w)
         \/ RepairPut(w)
  PROVE  DamageStep
<1> DEFINE j == job[w]
<1>0. j \in Job /\ Home[w] \in Nodes /\ JobFits(w) /\ StoresOK
  BY HomeAssumption DEF Basic
<1>a. j.at \in Nat \ {0} /\ j.data \in Bytes \cup {Nil}
  BY <1>0, JobFields
<1>1. ASSUME NEW d \in Whole, CallPut(w, d)
      PROVE  DamageStep
  BY <1>0, <1>1, DamagePut DEF CallPut, Whole
<1>2. CASE PutSkipSelf(w) \/ PutEnqueue(w) \/ PutReturn(w)
  <2>1. disk' = disk /\ (faults' = faults \/ faults' = faults + 1)
    BY <1>2 DEF PutSkipSelf, PutEnqueue, PutReturn, budgets, Fault
  <2> QED BY <1>0, <2>1, DamageQuiet
<1>3. CASE PutReplica(w)
  <2>1. j.key \in Checksums /\ j.data \in Bytes /\ j.at \in 1 .. PlanSize
    BY <1>0, <1>3, <1>a, PlanFacts DEF PutReplica, JobFits
  <2>2. Target(j.key, j.at) \in Nodes
    BY <2>1, PlanFacts
  <2> QED BY <1>0, <1>3, <2>1, <2>2, DamageRemotePut DEF PutReplica
<1>4. CASE RepairPut(w)
  BY <1>0, <1>4, <1>a, DamagePut DEF RepairPut
<1> QED BY <1>1, <1>2, <1>3, <1>4

\* Every step of a get, and handing over its result.
LEMMA DamageOfGets ==
  ASSUME Basic, NEW w \in Workers,
         \/ \E k \in Named : CallGet(w, k)
         \/ GetReplica(w) \/ GetRepair(w, TRUE) \/ GetRepair(w, FALSE)
         \/ GetReturn(w) \/ GetFallback(w) \/ Return(w)
  PROVE  DamageStep
<1> DEFINE j == job[w]
<1>0. j \in Job /\ Home[w] \in Nodes /\ JobFits(w) /\ StoresOK
  BY HomeAssumption DEF Basic
<1>a. j.at \in Nat \ {0} /\ j.failed \in Seq(Nodes)
  BY <1>0, JobFields
<1>1. CASE \/ \E k \in Named : CallGet(w, k)
           \/ GetReplica(w) \/ GetReturn(w) \/ GetFallback(w) \/ Return(w)
  <2>1. disk' = disk /\ faults' = faults
    BY <1>1 DEF CallGet, GetReplica, GetReturn, GetFallback, Return, budgets
  <2> QED BY <1>0, <2>1, DamageQuiet
<1>2. ASSUME NEW ok \in BOOLEAN, GetRepair(w, ok)
      PROVE  DamageStep
  <2> DEFINE m == j.failed[j.at]
  <2>1. j.data \in Bytes /\ m \in Nodes
    BY <1>0, <1>2, <1>a DEF GetRepair, JobFits
  <2>2. StorePut(m, j.data, ok) \/ RemotePut(m, j.key, j.data, ok)
    BY <1>2 DEF GetRepair
  <2> QED BY <1>0, <2>1, <2>2, DamagePut, DamageRemotePut
<1> QED BY <1>1, <1>2

\* Every step of a remove or of a replay.
LEMMA DamageOfOthers ==
  ASSUME Basic, NEW w \in Workers,
         \/ \E k \in Named, references \in {0, 1} : CallRemove(w, k, references)
         \/ RemoveReplica(w) \/ RemoveReturn(w) \/ CallReplay(w)
         \/ ReplayRead(w) \/ ReplaySend(w, TRUE) \/ ReplaySend(w, FALSE) \/ ReplayReplace(w)
  PROVE  DamageStep
<1> DEFINE j == job[w]
<1>0. j \in Job /\ Home[w] \in Nodes /\ JobFits(w) /\ StoresOK
  BY HomeAssumption DEF Basic
<1>a. j.at \in Nat \ {0} /\ j.hints \in Seq(Hint)
  BY <1>0, JobFields
<1>1. CASE \/ \E k \in Named, references \in {0, 1} : CallRemove(w, k, references)
           \/ RemoveReturn(w) \/ CallReplay(w) \/ ReplayRead(w) \/ ReplayReplace(w)
  <2>1. disk' = disk /\ (faults' = faults \/ faults' = faults + 1)
    BY <1>1 DEF CallRemove, RemoveReturn, CallReplay, ReplayRead, ReplayReplace, budgets, Fault
  <2> QED BY <1>0, <2>1, DamageQuiet
<1>2. CASE RemoveReplica(w)
  <2> DEFINE m == Target(j.key, j.at)
  <2>1. j.key \in Checksums /\ j.at \in 1 .. PlanSize
    BY <1>0, <1>2, <1>a, PlanFacts DEF RemoveReplica, JobFits
  <2>2. m \in Nodes
    BY <2>1, PlanFacts
  <2>3. \/ disk' = disk /\ (faults' = faults \/ faults' = faults + 1)
        \/ WriteFile(m, j.key, Nil) /\ faults' = faults
    BY <1>2 DEF RemoveReplica, StoreRemove, RemoteRemove, Fault
  <2> HIDE DEF m
  <2> QED BY <1>0, <2>1, <2>2, <2>3, DamageQuiet, DamageFile
<1>3. ASSUME NEW ok \in BOOLEAN, ReplaySend(w, ok)
      PROVE  DamageStep
  <2> DEFINE hint == j.hints[j.at]
  <2>1. j.pc = "send" /\ RemotePut(hint.node, hint.key, j.data, ok)
    BY <1>3 DEF ReplaySend
  <2>2. j.data \in Bytes /\ j.at \in 1 .. Len(j.hints) /\ hint.key # Nil
    BY <1>0, <1>a, <2>1 DEF JobFits
  <2>3. hint \in Hint
    BY <1>a, <2>2
  <2>4. hint.node \in Nodes
    BY <2>2, <2>3, HintFields
  <2> HIDE DEF hint
  <2> QED BY <1>0, <2>1, <2>2, <2>4, DamageRemotePut
<1> QED BY <1>1, <1>2, <1>3

\* However replicas are read, repaired, replayed and rewritten, and whatever
\* replies are cut short, there are never more files with a wrong content than
\* file operations that failed.
THEOREM DamageStaysContained == Spec => []DamageContained
<1> DEFINE Few == IsFiniteSet(Damaged) /\ Cardinality(Damaged) <= faults
<1>1. Init => Few
  <2> SUFFICES ASSUME Init PROVE Few
    OBVIOUS
  <2>1. Damaged = {}
    BY DEF Init, Damaged, Exists
  <2> QED BY <2>1, FS_EmptySet DEF Init
<1>2. ASSUME Basic, Few, [Next]_vars
      PROVE  Few'
  <2>0. faults \in Nat /\ Cardinality(Damaged) \in Nat
    BY <1>2, FS_CardinalityType DEF Basic, StoresOK
  <2>1. CASE UNCHANGED vars
    <3>1. Damaged' = Damaged /\ faults' = faults
      BY <2>1 DEF vars, Damaged, Exists, Intact
    <3> QED BY <1>2, <3>1
  <2>2. CASE Next
    <3>1. DamageStep
      <4>1. ASSUME NEW w \in Workers, CallAny(w)
            PROVE  DamageStep
        BY <1>2, <4>1, DamageOfPuts, DamageOfGets, DamageOfOthers DEF CallAny
      <4>2. ASSUME NEW w \in Workers, Step(w)
            PROVE  DamageStep
        BY <1>2, <4>2, DamageOfPuts, DamageOfGets, DamageOfOthers DEF Step
      <4>3. ASSUME NEW n \in Nodes, Crash(n)
            PROVE  DamageStep
        <5>1. disk' = disk /\ faults' = faults /\ StoresOK
          BY <1>2, <4>3 DEF Crash, Basic
        <5> QED BY <5>1, DamageQuiet
      <4> QED BY <2>2, <4>1, <4>2, <4>3 DEF Next
    <3>2. CASE Damaged' \subseteq Damaged /\ faults' \in Nat /\ faults' >= faults
      <4>1. /\ IsFiniteSet(Damaged') /\ Cardinality(Damaged') <= Cardinality(Damaged)
            /\ Cardinality(Damaged') \in Nat
        BY <1>2, <3>2, FS_Subset, FS_CardinalityType
      <4> QED BY <1>2, <2>0, <3>2, <4>1
    <3>3. ASSUME faults' = faults + 1, NEW f, Damaged' \subseteq Damaged \cup {f}
          PROVE  Few'
      <4> DEFINE S == Damaged \cup {f}
      <4>1. /\ IsFiniteSet(S) /\ Cardinality(S) <= Cardinality(Damaged) + 1
        BY <1>2, <2>0, FS_AddElement
      <4> HIDE DEF S
      <4>2. /\ IsFiniteSet(Damaged') /\ Cardinality(Damaged') <= Cardinality(S)
            /\ Cardinality(Damaged') \in Nat /\ Cardinality(S) \in Nat
        <5>1. Damaged' \subseteq S
          BY <3>3 DEF S
        <5> QED BY <4>1, <5>1, FS_Subset, FS_CardinalityType
      <4> QED BY <1>2, <2>0, <3>3, <4>1, <4>2
    <3> QED BY <3>1, <3>2, <3>3 DEF DamageStep
  <2> QED BY <1>2, <2>1, <2>2
<1>3. Few => DamageContained
  BY DEF DamageContained
<1> HIDE DEF Few
<1> QED BY <1>1, <1>2, <1>3, BasicInvariant, PTL DEF Spec

-----------------------------------------------------------------------------
(* The service: the values ChunkService sees of the cluster, and the step   *)
(* of the service that each step of the cluster is.                        *)

Stored == {k \in Checksums : OnQuorum(k)}
Promised == {p[2] : p \in acked}
Answers == [w \in Workers |-> AnswerOf(w)]

\* The replicas of k with content d, by their positions in the plan.
Copies(f, k, d) == {i \in 1 .. PlanSize : f[Target(k, i)][k] = d}

\* The copies of a chunk are finitely many.
LEMMA CopiesFinite ==
  ASSUME NEW f, NEW k, NEW d
  PROVE  IsFiniteSet(Copies(f, k, d)) /\ Cardinality(Copies(f, k, d)) \in Nat
<1>1. IsFiniteSet(1 .. PlanSize)
  BY PlanFacts, FS_Interval
<1>2. Copies(f, k, d) \in SUBSET (1 .. PlanSize)
  BY DEF Copies
<1> QED BY <1>1, <1>2, FS_Subset, FS_CardinalityType

\* A chunk is on a quorum when write_quorum of its replicas hold one content
\* its name fits.
LEMMA QuorumCopies ==
  ASSUME NEW k
  PROVE  OnQuorum(k) <=> \E d \in Bytes : Sha256[d] = k /\ Cardinality(Copies(disk, k, d)) >= WriteQuorum
BY DEF OnQuorum, Copies

\* A step that touches no file and gives no new answer is a step in which callers
\* at most take their answers: it covers crashes too.
LEMMA TakeStep ==
  ASSUME \A v \in Workers : job'[v].pc # "done" \/ job'[v] = job[v],
         UNCHANGED <<disk, removed, acked>>
  PROVE  Service!Take
<1>1. (Stored' = Stored) /\ (Promised' = Promised) /\ UNCHANGED removed
  BY DEF Stored, Promised, OnQuorum
<1>2. \A v \in Workers : AnswerOf(v)' = Nil \/ AnswerOf(v)' = AnswerOf(v)
  BY DEF AnswerOf
<1>3. Answers' = [w \in Workers |-> IF Answers'[w] = Nil THEN Nil ELSE Answers[w]]
  BY <1>2 DEF Answers
<1> QED BY <1>1, <1>3 DEF Service!Take, Stored, Promised, Answers

\* Files that stay as they are keep the quorums there are.
LEMMA QuorumStays ==
  ASSUME NEW k \in Checksums, OnQuorum(k),
         \A n \in Nodes : disk[n][k] # Nil => disk'[n][k] = disk[n][k]
  PROVE  OnQuorum(k)'
<1>1. PICK d \in Bytes : Sha256[d] = k /\ Cardinality(Copies(disk, k, d)) >= WriteQuorum
  BY QuorumCopies
<1>2. Copies(disk, k, d) \in SUBSET Copies(disk', k, d)
  BY PlanFacts, HashAssumption DEF Copies
<1>3. Cardinality(Copies(disk, k, d)) <= Cardinality(Copies(disk', k, d))
  BY <1>2, CopiesFinite, FS_Subset
<1>4. Cardinality(Copies(disk', k, d)) >= WriteQuorum
  BY <1>1, <1>3, CopiesFinite, QuorumAssumption
<1> QED BY <1>1, <1>4 DEF OnQuorum, Copies

\* Files that stay as they are or go make no quorum.
LEMMA QuorumGoes ==
  ASSUME NEW k \in Checksums, OnQuorum(k)',
         \A n \in Nodes : disk'[n][k] # Nil => disk'[n][k] = disk[n][k]
  PROVE  OnQuorum(k)
<1>1. PICK d \in Bytes : Sha256[d] = k /\ Cardinality(Copies(disk', k, d)) >= WriteQuorum
  BY DEF OnQuorum, Copies
<1>2. Copies(disk', k, d) \in SUBSET Copies(disk, k, d)
  BY PlanFacts, HashAssumption DEF Copies
<1>3. Cardinality(Copies(disk', k, d)) <= Cardinality(Copies(disk, k, d))
  BY <1>2, CopiesFinite, FS_Subset
<1>4. Cardinality(Copies(disk, k, d)) >= WriteQuorum
  BY <1>1, <1>3, CopiesFinite, QuorumAssumption
<1> QED BY <1>1, <1>4, QuorumCopies

\* A step that writes files of one chunk stores that chunk or none.
LEMMA StoredGrows ==
  ASSUME FilesFixed, NEW k \in Checksums, OnlyFilesOf(k)
  PROVE  Stored' = Stored \/ Stored' = Stored \cup {k}
<1>1. \A i \in Checksums : i # k => (OnQuorum(i)' <=> OnQuorum(i))
  BY QuorumStays, QuorumGoes DEF OnlyFilesOf
<1>2. OnQuorum(k) => OnQuorum(k)'
  BY QuorumStays DEF FilesFixed
<1> QED BY <1>1, <1>2 DEF Stored

\* A step that removes files of one chunk drops that chunk or none.
LEMMA StoredShrinks ==
  ASSUME NEW k \in Checksums, OnlyFilesOf(k),
         \A n \in Nodes : disk'[n][k] # Nil => disk'[n][k] = disk[n][k]
  PROVE  Stored' = Stored \/ Stored' = Stored \ {k}
<1>1. \A i \in Checksums : i # k => (OnQuorum(i)' <=> OnQuorum(i))
  BY QuorumStays, QuorumGoes DEF OnlyFilesOf
<1>2. OnQuorum(k)' => OnQuorum(k)
  BY QuorumGoes
<1> QED BY <1>1, <1>2 DEF Stored

\* A write, a repair or a hint stores a chunk on one more node.
LEMMA KeepStep ==
  ASSUME NEW k \in Checksums, FilesFixed, OnlyFilesOf(k), UNCHANGED <<removed, acked>>,
         \A v \in Workers : job'[v] = job[v] \/ (job'[v].pc # "done" /\ job[v].pc # "done")
  PROVE  Service!Take \/ Service!Keep(k)
<1>1. (Promised' = Promised) /\ (removed' = removed)
  BY DEF Promised
<1>2. \A v \in Workers : AnswerOf(v)' = AnswerOf(v)
  BY DEF AnswerOf
<1>3. Answers' = Answers
  BY <1>2 DEF Answers
<1>4. Answers' = [w \in Workers |-> IF Answers'[w] = Nil THEN Nil ELSE Answers[w]]
  BY <1>2 DEF Answers
<1>5. CASE Stored' = Stored
  BY <1>1, <1>4, <1>5 DEF Service!Take, Stored, Promised, Answers
<1>6. CASE Stored' = Stored \cup {k}
  BY <1>1, <1>3, <1>6 DEF Service!Keep, Stored, Promised, Answers
<1> QED BY <1>5, <1>6, StoredGrows

\* A remove deletes a file of a chunk somebody asked to remove.
LEMMA DropStep ==
  ASSUME NEW k \in Checksums, k \in removed, OnlyFilesOf(k), UNCHANGED <<removed, acked>>,
         \A n \in Nodes : disk'[n][k] # Nil => disk'[n][k] = disk[n][k],
         \A v \in Workers : job'[v] = job[v] \/ (job'[v].pc # "done" /\ job[v].pc # "done")
  PROVE  Service!Take \/ Service!Drop(k)
<1>1. (Promised' = Promised) /\ (removed' = removed)
  BY DEF Promised
<1>2. \A v \in Workers : AnswerOf(v)' = AnswerOf(v)
  BY DEF AnswerOf
<1>3. Answers' = Answers
  BY <1>2 DEF Answers
<1>4. Answers' = [w \in Workers |-> IF Answers'[w] = Nil THEN Nil ELSE Answers[w]]
  BY <1>2 DEF Answers
<1>5. CASE Stored' = Stored
  BY <1>1, <1>4, <1>5 DEF Service!Take, Stored, Promised, Answers
<1>6. CASE Stored' = Stored \ {k}
  BY <1>1, <1>3, <1>6 DEF Service!Drop, Stored, Promised, Answers
<1> QED BY <1>5, <1>6, StoredShrinks

\* A remove is asked for.
LEMMA RetireStep ==
  ASSUME NEW k \in Checksums, removed' = removed \cup {k}, UNCHANGED <<disk, acked>>,
         \A v \in Workers : job'[v] = job[v] \/ (job'[v].pc # "done" /\ job[v].pc # "done")
  PROVE  Service!Retire(k)
<1>1. (Stored' = Stored) /\ (Promised' = Promised)
  BY DEF Stored, Promised, OnQuorum
<1>2. \A v \in Workers : AnswerOf(v)' = AnswerOf(v)
  BY DEF AnswerOf
<1>3. Answers' = Answers
  BY <1>2 DEF Answers
<1> QED BY <1>1, <1>3 DEF Service!Retire, Stored, Promised, Answers

\* A repair writes what it was given.
LEMMA RewriteStep ==
  ASSUME Basic, NEW w \in Workers, job[w].pc = "done", job[w].data # Nil, job'[w].pc # "done",
         \A v \in Workers : v # w => job'[v] = job[v],
         FilesFixed, OnlyFilesOf(Sha256[job[w].data]), UNCHANGED <<removed, acked>>
  PROVE  Service!Take \/ Service!Rewrite(w)
<1> DEFINE k == Sha256[job[w].data]
<1>0. job[w] \in Job /\ job[w].data \in Bytes /\ k \in Checksums
  BY JobFields, HashAssumption DEF Basic
<1>1. (Promised' = Promised) /\ (removed' = removed)
  BY DEF Promised
<1>2. \A v \in Workers : v # w => AnswerOf(v)' = AnswerOf(v)
  BY DEF AnswerOf
<1>3. AnswerOf(w)' = Nil /\ AnswerOf(w).data = job[w].data /\ AnswerOf(w) # Nil
  <2>1. AnswerOf(w) = [ok |-> job[w].status = "ok", key |-> job[w].key, data |-> job[w].data]
    BY DEF AnswerOf
  <2>2. job[w].key \in Checksums \cup {Nil} /\ job[w].data \in Bytes \cup {Nil}
    BY <1>0, JobFields
  <2>3. AnswerOf(w) \in [ok : BOOLEAN, key : Checksums \cup {Nil}, data : Bytes \cup {Nil}]
    BY <2>1, <2>2
  <2> QED BY <2>1, <2>3, NilAssumption DEF AnswerOf
<1>4. Answers' = [Answers EXCEPT ![w] = Nil]
  BY <1>2, <1>3 DEF Answers
<1>5. Answers' = [v \in Workers |-> IF Answers'[v] = Nil THEN Nil ELSE Answers[v]]
  BY <1>2, <1>3 DEF Answers
<1>6. CASE Stored' = Stored
  BY <1>1, <1>5, <1>6 DEF Service!Take, Stored, Promised, Answers
<1>7. CASE Stored' = Stored \cup {k}
  <2>1. Answers[w] # Nil /\ Answers[w].data # Nil /\ Sha256[Answers[w].data] = k
    BY <1>3 DEF Answers
  <2> HIDE DEF k
  <2> QED BY <1>1, <1>4, <1>7, <2>1 DEF Service!Rewrite, Stored, Promised, Answers
<1>8. Stored' = Stored \/ Stored' = Stored \cup {k}
  BY <1>0, StoredGrows
<1> QED BY <1>6, <1>7, <1>8

\* An operation leaves an answer: what the abstract answer of its caller becomes.
LEMMA Told ==
  ASSUME Basic, Basic', NEW w \in Workers, job'[w].pc = "done",
         job[w].pc # "done" \/ job[w].data # Nil,
         \A v \in Workers : v # w => job'[v] = job[v],
         UNCHANGED <<disk, removed>>
  PROVE  /\ Service!Tell(w)
         /\ Answers'[w] = [ok |-> job'[w].status = "ok", key |-> job'[w].key, data |-> job'[w].data]
<1> DEFINE a == [ok |-> job'[w].status = "ok", key |-> job'[w].key, data |-> job'[w].data]
<1>1. job[w] \in Job /\ job'[w] \in Job
  BY DEF Basic
<1>2. job'[w].key \in Checksums \cup {Nil} /\ job'[w].data \in Bytes \cup {Nil}
  BY <1>1, JobFields
<1>3. a \in Service!Answer
  BY <1>2 DEF Service!Answer
<1>4. AnswerOf(w)' = a
  BY DEF AnswerOf
<1> HIDE DEF a
<1>5. \A v \in Workers : v # w => AnswerOf(v)' = AnswerOf(v)
  BY DEF AnswerOf
<1>6. AnswerOf(w) = Nil \/ AnswerOf(w).data # Nil
  BY DEF AnswerOf
<1>7. Answers'[w] = a /\ (Answers[w] = Nil \/ Answers[w].data # Nil)
  BY <1>4, <1>6 DEF Answers
<1>8. Answers' = [Answers EXCEPT ![w] = Answers'[w]]
  BY <1>5 DEF Answers
<1>9. (Stored' = Stored) /\ (removed' = removed)
  BY DEF Stored, OnQuorum
<1>10. Service!Tell(w)
  <2>1. Answers'[w] \in Service!Answer
    BY <1>3, <1>7
  <2> QED BY <1>7, <1>8, <1>9, <2>1 DEF Service!Tell, Stored, Answers
<1> QED BY <1>7, <1>10 DEF a

\* Any answer but a promise.
LEMMA ReplyStep ==
  ASSUME Basic, Basic', NEW w \in Workers, job'[w].pc = "done",
         job[w].pc # "done" \/ job[w].data # Nil,
         \A v \in Workers : v # w => job'[v] = job[v],
         UNCHANGED <<disk, removed, acked, cuts>>
  PROVE  Service!Reply(w)
<1> DEFINE a == Answers'[w]
<1>1. Service!Tell(w)
  BY Told
<1>2. a = [ok |-> job'[w].status = "ok", key |-> job'[w].key, data |-> job'[w].data]
  BY Told
<1>3. a.data # Nil /\ cuts = 0 => Sha256[a.data] = a.key
  <2>1. JobFits(w)' /\ cuts' = cuts
    BY DEF Basic
  <2> QED BY <1>2, <2>1 DEF JobFits
<1>4. Promised' = Promised
  BY DEF Promised
<1> QED BY <1>1, <1>3, <1>4 DEF Service!Reply, Answers, Promised

\* A write that reached its quorum: the targets have the content its name says.
LEMMA QuorumOfAcks ==
  ASSUME FullReplication, Basic, AcksHeld, NEW w \in Workers,
         job[w].pc = "put", job[w].at > PlanSize, job[w].acks >= WriteQuorum,
         faults = 0, job[w].key \notin removed
  PROVE  OnQuorum(job[w].key)
<1> DEFINE k == job[w].key
           d == job[w].data
           H == Holding(disk, k, Targets(k))
           C == Copies(disk, k, d)
           f == [i \in C |-> Target(k, i)]
<1>1. k \in Checksums /\ d \in Bytes /\ Sha256[d] = k /\ Home[w] \in Nodes /\ job[w] \in Job
  BY HomeAssumption DEF Basic, JobFits
<1>2. Targets(k) = Nodes /\ Targets(k) \cup {Home[w]} = Targets(k)
  BY <1>1, AllTargets
<1>3. job[w].at \in Nat /\ job[w].acks \in Nat /\ WriteQuorum \in Nat
  BY <1>1, JobFields, QuorumAssumption
<1>4. Asked(Home[w], k, job[w].at) = Targets(k)
  <2>1. Asked(Home[w], k, job[w].at) = Targets(k) \cup {Home[w]}
    BY <1>1, <1>3, AskedFacts
  <2> QED BY <1>2, <2>1
<1>5. job[w].acks <= Cardinality(H)
  BY <1>4 DEF AcksHeld
<1>6. \A m \in H : disk[m][k] = d
  <2> SUFFICES ASSUME NEW m \in H PROVE disk[m][k] = d
    OBVIOUS
  <2>1. m \in Nodes /\ disk[m][k] # Nil
    BY <1>2 DEF Holding
  <2>2. disk[m][k] \in Bytes
    BY <1>1, <2>1 DEF Basic, StoresOK, DiskType
  <2>3. Sha256[disk[m][k]] = k
    BY <1>1, <2>1 DEF Basic, StoresOK
  <2> QED BY <1>1, <2>2, <2>3, HashAssumption
<1>7. f \in Surjection(C, H)
  <2>1. \A i \in C : Target(k, i) \in H
    BY <1>1, HashAssumption DEF Copies, Holding, Targets
  <2>2. \A m \in H : \E i \in C : Target(k, i) = m
    <3> SUFFICES ASSUME NEW m \in H PROVE \E i \in C : Target(k, i) = m
      OBVIOUS
    <3>1. PICK i \in 1 .. PlanSize : Target(k, i) = m
      BY DEF Holding, Targets
    <3>2. disk[m][k] = d
      BY <1>6
    <3> QED BY <3>1, <3>2 DEF Copies
  <2> HIDE DEF C, H
  <2> QED BY <2>1, <2>2 DEF Surjection
<1>8. IsFiniteSet(C) /\ Cardinality(C) \in Nat
  BY CopiesFinite
<1> HIDE DEF f, C, H
<1>9. IsFiniteSet(H) /\ Cardinality(H) <= Cardinality(C)
  BY <1>7, <1>8, FS_Surjection
<1>10. Cardinality(H) \in Nat
  BY <1>9, FS_CardinalityType
<1>11. Cardinality(C) >= WriteQuorum
  BY <1>3, <1>5, <1>8, <1>9, <1>10
<1> QED BY <1>1, <1>11, QuorumCopies DEF C

\* A write is answered with success.
LEMMA PromiseStep ==
  ASSUME FullReplication, Basic, AcksHeld, Basic', NEW w \in Workers,
         job[w].pc = "put", job[w].at > PlanSize, job[w].acks >= WriteQuorum,
         job'[w].pc = "done", job'[w].status = "ok", job'[w].key = job[w].key, job'[w].data = Nil,
         \A v \in Workers : v # w => job'[v] = job[v],
         acked' = acked \cup {<<Home[w], job[w].key>>}, UNCHANGED <<disk, removed>>
  PROVE  Service!Promise(w)
<1> DEFINE k == job[w].key
           a == Answers'[w]
<1>0. k \in Checksums
  BY DEF Basic, JobFits
<1>1. job[w].pc # "done"
  OBVIOUS
<1>2. Service!Tell(w)
  BY <1>1, Told
<1>3. a = [ok |-> TRUE, key |-> k, data |-> Nil]
  BY <1>1, Told
<1>4. faults = 0 => k \in Stored \cup removed
  BY <1>0, QuorumOfAcks DEF Stored
<1>5. Promised' = Promised \cup {k}
  <2> DEFINE p == <<Home[w], k>>
  <2>1. p[2] = k /\ acked' = acked \cup {p}
    OBVIOUS
  <2> HIDE DEF p, k
  <2> QED BY <2>1 DEF Promised
<1>6. a.key = k
  BY <1>3
<1> HIDE DEF a, k
<1>7. a = [ok |-> TRUE, key |-> a.key, data |-> Nil]
  BY <1>3, <1>6
<1>8. faults = 0 => a.key \in Stored \cup removed
  BY <1>4, <1>6
<1>9. Promised' = Promised \cup {a.key}
  BY <1>5, <1>6
<1> QED BY <1>2, <1>7, <1>8, <1>9 DEF Service!Promise, Stored, Promised, Answers, a

\* The step of the service that a step of the cluster is.
Serves ==
  \/ Service!Take
  \/ \E k \in Checksums : Service!Keep(k) \/ Service!Retire(k) \/ Service!Drop(k)
  \/ \E w \in Workers : Service!Promise(w) \/ Service!Reply(w) \/ Service!Rewrite(w)

\* The status an operation leaves behind.
LEMMA DoneStatus ==
  ASSUME NEW ok \in BOOLEAN, NEW k, NEW d
  PROVE  Done(ok, k, d).status = IF ok THEN "ok" ELSE "error"
BY DEF Done, Idle

\* A step of an operation that returns nothing yet and touches no file.
LEMMA ServesQuietly ==
  ASSUME Basic, NEW w \in Workers, NEW r, job' = [job EXCEPT ![w] = r], r.pc # "done",
         UNCHANGED <<disk, removed, acked>>
  PROVE  Serves
<1>1. \A v \in Workers : job'[v].pc # "done" \/ job'[v] = job[v]
  BY DEF Basic
<1> QED BY <1>1, TakeStep DEF Serves

\* A step of an operation that returns something, touching no file.
LEMMA ServesReply ==
  ASSUME Basic, Basic', NEW w \in Workers, NEW ok \in BOOLEAN, NEW k \in Checksums \cup {Nil},
         NEW d \in Bytes \cup {Nil}, job' = [job EXCEPT ![w] = Done(ok, k, d)],
         job[w].pc # "done" \/ job[w].data # Nil,
         UNCHANGED <<disk, removed, acked, cuts>>
  PROVE  Serves
<1>1. job'[w] = Done(ok, k, d) /\ \A v \in Workers : v # w => job'[v] = job[v]
  BY DEF Basic
<1>2. job'[w].pc = "done"
  BY <1>1, DoneFits
<1>3. Service!Reply(w)
  BY <1>1, <1>2, ReplyStep
<1> QED BY <1>3 DEF Serves

\* A step of an operation that writes the file of a chunk.
LEMMA ServesFile ==
  ASSUME Basic, NEW w \in Workers, NEW r, job' = [job EXCEPT ![w] = r],
         job[w].pc # "done", r.pc # "done",
         NEW k \in Checksums, FilesFixed, OnlyFilesOf(k), UNCHANGED <<removed, acked>>
  PROVE  Serves
<1>1. \A v \in Workers : job'[v] = job[v] \/ (job'[v].pc # "done" /\ job[v].pc # "done")
  BY DEF Basic
<1>2. Service!Take \/ Service!Keep(k)
  BY <1>1, KeepStep
<1> QED BY <1>2 DEF Serves

\* DistributedChunkService::put.
LEMMA ServesPut ==
  ASSUME FullReplication, Basic, AcksHeld, Basic', NEW w \in Workers,
         \/ \E d \in Whole : CallPut(w, d)
         \/ PutSkipSelf(w) \/ PutReplica(w) \/ PutEnqueue(w) \/ PutReturn(w)
         \/ RepairPut(w)
  PROVE  Serves
<1> DEFINE j == job[w]
           start(d) == [Idle EXCEPT !.pc = "put", !.key = Sha256[d], !.data = d, !.acks = 1]
<1>0. j \in Job /\ Home[w] \in Nodes /\ JobFits(w) /\ StoresOK /\ RestOK
  BY HomeAssumption DEF Basic
<1>a. j.at \in Nat \ {0} /\ j.acks \in Nat /\ PlanSize \in Nat
  BY <1>0, JobFields, PlanFacts
<1>b. \A d \in Bytes : start(d).pc = "put" /\ Sha256[d] \in Checksums
  BY HashAssumption DEF Idle
<1>c. \A d \in Bytes : PutFrom(d, TRUE) = start(d) /\ PutFrom(d, FALSE) = Done(FALSE, Nil, Nil)
  BY DEF PutFrom
<1> HIDE DEF start
<1>1. ASSUME NEW d \in Whole, CallPut(w, d)
      PROVE  Serves
  <2>1. /\ j = Idle /\ UNCHANGED <<cuts, acked, removed, mixed>> /\ d \in Bytes
    BY <1>1 DEF CallPut, Whole
  <2>2. j.pc # "done"
    BY <2>1, IdleFields
  <2>3. PICK ok \in BOOLEAN : /\ StorePut(Home[w], d, ok)
                              /\ job' = [job EXCEPT ![w] = PutFrom(d, ok)]
    BY <1>1 DEF CallPut
  <2>4. FilesFixed /\ OnlyFilesOf(Sha256[d]) /\ (~ok => disk' = disk)
    BY <1>0, <2>1, <2>3, StorePutFiles
  <2>5. CASE ok
    <3>1. job' = [job EXCEPT ![w] = start(d)]
      BY <1>c, <2>1, <2>3, <2>5
    <3> QED BY <1>b, <2>1, <2>2, <2>4, <3>1, ServesFile
  <2>6. CASE ~ok
    <3>1. job' = [job EXCEPT ![w] = Done(FALSE, Nil, Nil)] /\ FALSE \in BOOLEAN
      BY <1>c, <2>1, <2>3, <2>6
    <3> QED BY <2>1, <2>2, <2>4, <2>6, <3>1, ServesReply
  <2> QED BY <2>5, <2>6
<1>2. CASE RepairPut(w)
  <2> DEFINE d == j.data
  <2>1. /\ j.pc = "done" /\ d # Nil /\ d \in Bytes /\ UNCHANGED <<cuts, acked, removed, mixed>>
    BY <1>0, <1>2, JobFields DEF RepairPut
  <2>2. PICK ok \in BOOLEAN : /\ StorePut(Home[w], d, ok)
                              /\ job' = [job EXCEPT ![w] = PutFrom(d, ok)]
    BY <1>2 DEF RepairPut
  <2>3. FilesFixed /\ OnlyFilesOf(Sha256[d]) /\ (~ok => disk' = disk)
    BY <1>0, <2>1, <2>2, StorePutFiles
  <2>4. CASE ok
    <3>1. job' = [job EXCEPT ![w] = start(d)]
      BY <1>c, <2>1, <2>2, <2>4
    <3>2. job'[w].pc # "done" /\ \A v \in Workers : v # w => job'[v] = job[v]
      BY <1>b, <2>1, <3>1 DEF Basic
    <3>3. Service!Take \/ Service!Rewrite(w)
      BY <2>1, <2>3, <3>2, RewriteStep
    <3> QED BY <3>3 DEF Serves
  <2>5. CASE ~ok
    <3>1. job' = [job EXCEPT ![w] = Done(FALSE, Nil, Nil)] /\ FALSE \in BOOLEAN
      BY <1>c, <2>1, <2>2, <2>5
    <3> QED BY <2>1, <2>3, <2>5, <3>1, ServesReply
  <2> QED BY <2>4, <2>5
<1>3. CASE PutSkipSelf(w)
  <2> DEFINE r == [j EXCEPT !.at = j.at + 1]
  <2>1. job' = [job EXCEPT ![w] = r] /\ j.pc = "put" /\ UNCHANGED <<disk, removed, acked>>
    BY <1>3 DEF PutSkipSelf
  <2>2. r.pc = "put"
    BY <1>0, <2>1 DEF Job
  <2> HIDE DEF r
  <2> QED BY <2>1, <2>2, ServesQuietly
<1>4. CASE PutReplica(w)
  <2> DEFINE m == Target(j.key, j.at)
             r1 == [j EXCEPT !.at = j.at + 1, !.acks = j.acks + 1]
             r2 == [j EXCEPT !.pc = "hint"]
             r(ok) == IF ok THEN r1 ELSE r2
  <2>1. PICK ok \in BOOLEAN :
          /\ RemotePut(m, j.key, j.data, ok)
          /\ job' = [job EXCEPT ![w] = r(ok)]
    BY <1>4 DEF PutReplica
  <2>2. /\ j.pc = "put" /\ j.key \in Checksums /\ j.data \in Bytes /\ Sha256[j.data] = j.key
        /\ j.at \in 1 .. PlanSize /\ UNCHANGED <<acked, removed, mixed>>
    BY <1>0, <1>4, <1>a DEF PutReplica, JobFits
  <2>3. m \in Nodes
    BY <2>2, PlanFacts
  <2>4. FilesFixed /\ OnlyFilesOf(j.key)
    BY <1>0, <2>1, <2>2, <2>3, RemotePutFiles
  <2>5. r1.pc = "put" /\ r2.pc = "hint"
    BY <1>0, <2>2 DEF Job
  <2> HIDE DEF r1, r2
  <2>6. r(ok).pc # "done"
    BY <2>5
  <2> HIDE DEF r
  <2> QED BY <2>1, <2>2, <2>4, <2>6, ServesFile
<1>5. CASE PutEnqueue(w)
  <2> DEFINE r == [j EXCEPT !.pc = "put", !.at = j.at + 1]
  <2>1. job' = [job EXCEPT ![w] = r] /\ UNCHANGED <<disk, removed, acked>>
    BY <1>5 DEF PutEnqueue
  <2>2. r.pc = "put"
    BY <1>0 DEF Job
  <2> HIDE DEF r
  <2> QED BY <2>1, <2>2, ServesQuietly
<1>6. CASE PutReturn(w)
  <2> DEFINE ok == QuorumReached(j.acks)
  <2>1. /\ j.pc = "put" /\ j.at > PlanSize
        /\ job' = [job EXCEPT ![w] = Done(ok, j.key, Nil)]
        /\ acked' = IF ok THEN acked \cup {<<Home[w], j.key>>} ELSE acked
        /\ UNCHANGED <<disk, removed, cuts>>
    BY <1>6 DEF PutReturn, budgets
  <2>2. ok \in BOOLEAN /\ j.key \in Checksums /\ (ok => j.acks >= WriteQuorum)
    BY <1>0, <2>1 DEF QuorumReached, JobFits
  <2> HIDE DEF ok
  <2>3. job'[w] = Done(ok, j.key, Nil) /\ \A v \in Workers : v # w => job'[v] = job[v]
    BY <2>1 DEF Basic
  <2>4. CASE ok
    <3>1. job'[w].pc = "done" /\ job'[w].key = j.key /\ job'[w].data = Nil
      BY <2>2, <2>3, DoneFits
    <3>2. job'[w].status = "ok"
      BY <2>2, <2>3, <2>4, DoneStatus
    <3>3. Service!Promise(w)
      BY <2>1, <2>2, <2>3, <2>4, <3>1, <3>2, PromiseStep
    <3> QED BY <3>3 DEF Serves
  <2>5. CASE ~ok
    <3>1. UNCHANGED <<disk, removed, acked, cuts>> /\ j.pc # "done"
      BY <2>1, <2>5
    <3> QED BY <2>1, <2>2, <3>1, ServesReply
  <2> QED BY <2>4, <2>5
<1> QED BY <1>1, <1>2, <1>3, <1>4, <1>5, <1>6

\* DistributedChunkService::get, and handing a result to the caller.
LEMMA ServesGet ==
  ASSUME Basic, Basic', NEW w \in Workers,
         \/ \E k \in Checksums : CallGet(w, k)
         \/ GetReplica(w) \/ GetRepair(w, TRUE) \/ GetRepair(w, FALSE)
         \/ GetReturn(w) \/ GetFallback(w) \/ Return(w)
  PROVE  Serves
<1> DEFINE j == job[w]
<1>0. j \in Job /\ Home[w] \in Nodes /\ JobFits(w) /\ StoresOK /\ RestOK
  BY HomeAssumption DEF Basic
<1>a. /\ j.at \in Nat \ {0} /\ j.failed \in Seq(Nodes) /\ j.key \in Checksums \cup {Nil}
      /\ j.data \in Bytes \cup {Nil}
  BY <1>0, JobFields
<1>1. ASSUME NEW k \in Checksums, CallGet(w, k)
      PROVE  Serves
  <2> DEFINE r == [Idle EXCEPT !.pc = "get", !.key = k]
  <2>1. r.pc = "get"
    BY DEF Idle
  <2>2. job' = [job EXCEPT ![w] = r] /\ UNCHANGED <<disk, removed, acked>>
    BY <1>1 DEF CallGet
  <2> HIDE DEF r
  <2> QED BY <2>1, <2>2, ServesQuietly
<1>2. CASE GetReplica(w)
  <2> DEFINE m == Target(j.key, j.at)
             r1(x) == [j EXCEPT !.at = j.at + 1, !.failed = Append(j.failed, m)]
             r2(x) == [j EXCEPT !.pc = "repair", !.at = 1, !.acks = j.acks + 1, !.data = x]
             r3(x) == [j EXCEPT !.at = j.at + 1, !.acks = j.acks + 1, !.data = x]
             r(x) == IF x = Nil THEN r1(x) ELSE IF j.acks + 1 >= ReadQuorum THEN r2(x) ELSE r3(x)
  <2>1. PICK x \in Bytes \cup {Nil} : job' = [job EXCEPT ![w] = r(x)]
    BY <1>2 DEF GetReplica
  <2>2. j.pc = "get" /\ UNCHANGED <<disk, removed, acked>>
    BY <1>2 DEF GetReplica
  <2>3. r1(x).pc = "get" /\ r2(x).pc = "repair" /\ r3(x).pc = "get"
    BY <1>0, <2>2 DEF Job
  <2> HIDE DEF r1, r2, r3
  <2>4. r(x).pc # "done"
    BY <2>3
  <2> HIDE DEF r
  <2> QED BY <2>1, <2>2, <2>4, ServesQuietly
<1>3. ASSUME NEW ok \in BOOLEAN, GetRepair(w, ok)
      PROVE  Serves
  <2> DEFINE m == j.failed[j.at]
             r == [j EXCEPT !.at = j.at + 1]
  <2>1. /\ j.pc = "repair" /\ j.key \in Checksums /\ j.data \in Bytes
        /\ j.at \in 1 .. Len(j.failed)
        /\ job' = [job EXCEPT ![w] = r]
        /\ UNCHANGED <<acked, removed, mixed>>
    BY <1>0, <1>3, <1>a DEF GetRepair, JobFits
  <2>2. m \in Nodes /\ Sha256[j.data] \in Checksums
    BY <1>a, <2>1, HashAssumption
  <2>3. FilesFixed /\ OnlyFilesOf(Sha256[j.data])
    <3>1. CASE m = Home[w]
      <4>1. StorePut(m, j.data, ok)
        BY <1>3, <3>1 DEF GetRepair
      <4> QED BY <1>0, <2>1, <2>2, <4>1, StorePutFiles
    <3>2. CASE m # Home[w]
      <4>1. RemotePut(m, j.key, j.data, ok)
        BY <1>3, <3>2 DEF GetRepair
      <4> QED BY <1>0, <2>1, <2>2, <4>1, RemotePutFiles
    <3> QED BY <3>1, <3>2
  <2>4. r.pc = "repair"
    BY <1>0, <2>1 DEF Job
  <2> HIDE DEF r
  <2> QED BY <2>1, <2>2, <2>3, <2>4, ServesFile
<1>4. CASE GetReturn(w)
  <2>1. /\ job' = [job EXCEPT ![w] = Done(TRUE, j.key, j.data)] /\ TRUE \in BOOLEAN
        /\ j.pc # "done" /\ UNCHANGED <<disk, removed, acked, cuts>>
    BY <1>4 DEF GetReturn, budgets
  <2> QED BY <1>a, <2>1, ServesReply
<1>5. CASE GetFallback(w)
  <2> DEFINE ok(x) == x # Nil /\ ReadQuorum <= 1
             d(x) == IF ok(x) THEN x ELSE Nil
  <2>1. PICK x \in Bytes \cup {Nil} : job' = [job EXCEPT ![w] = Done(ok(x), j.key, d(x))]
    BY <1>5 DEF GetFallback
  <2>2. ok(x) \in BOOLEAN /\ d(x) \in Bytes \cup {Nil}
    OBVIOUS
  <2> HIDE DEF ok, d
  <2>3. j.pc # "done" /\ UNCHANGED <<disk, removed, acked, cuts>>
    BY <1>5 DEF GetFallback, budgets
  <2> QED BY <1>a, <2>1, <2>2, <2>3, ServesReply
<1>6. CASE Return(w)
  <2>1. job' = [job EXCEPT ![w] = Idle] /\ UNCHANGED <<disk, removed, acked>>
    BY <1>6 DEF Return
  <2> QED BY <2>1, IdleFields, ServesQuietly
<1> QED BY <1>1, <1>2, <1>3, <1>4, <1>5, <1>6

\* A remove takes files of its chunk away and writes none.
LEMMA RemoveFiles ==
  ASSUME StoresOK, NEW n \in Nodes, NEW k \in Checksums, NEW ok \in BOOLEAN,
         StoreRemove(n, k, ok) \/ RemoteRemove(n, k, ok)
  PROVE  /\ OnlyFilesOf(k)
         /\ \A m \in Nodes : disk'[m][k] # Nil => disk'[m][k] = disk[m][k]
<1>1. CASE UNCHANGED disk
  BY <1>1 DEF OnlyFilesOf
<1>2. CASE WriteFile(n, k, Nil)
  <2>1. \A m \in Nodes, i \in Checksums :
          disk'[m][i] = IF m = n /\ i = k THEN Nil ELSE disk[m][i]
    BY <1>2 DEF WriteFile, StoresOK, DiskType
  <2> QED BY <2>1 DEF OnlyFilesOf
<1> QED BY <1>1, <1>2 DEF StoreRemove, RemoteRemove

\* DistributedChunkService::remove.
LEMMA ServesRemove ==
  ASSUME Basic, Basic', NEW w \in Workers,
         \/ \E k \in Checksums, references \in {0, 1} : CallRemove(w, k, references)
         \/ RemoveReplica(w) \/ RemoveReturn(w)
  PROVE  Serves
<1> DEFINE j == job[w]
<1>0. j \in Job /\ Home[w] \in Nodes /\ JobFits(w) /\ StoresOK /\ RestOK
  BY HomeAssumption DEF Basic
<1>a. j.at \in Nat \ {0} /\ j.key \in Checksums \cup {Nil}
  BY <1>0, JobFields
<1>1. ASSUME NEW k \in Checksums, NEW references \in {0, 1}, CallRemove(w, k, references)
      PROVE  Serves
  <2> DEFINE r == [Idle EXCEPT !.pc = "remove", !.key = k]
  <2>1. r.pc = "remove"
    BY DEF Idle
  <2>2. j = Idle /\ UNCHANGED <<disk, acked, cuts>>
    BY <1>1 DEF CallRemove
  <2>3. j.pc # "done"
    BY <2>2, IdleFields
  <2>4. \/ job' = [job EXCEPT ![w] = Done(TRUE, k, Nil)] /\ removed' = removed
        \/ job' = [job EXCEPT ![w] = r] /\ removed' = removed \cup {k}
    BY <1>1 DEF CallRemove
  <2> HIDE DEF r
  <2>5. CASE job' = [job EXCEPT ![w] = Done(TRUE, k, Nil)] /\ removed' = removed
    <3>1. TRUE \in BOOLEAN /\ Nil \in Bytes \cup {Nil}
      OBVIOUS
    <3> QED BY <2>2, <2>3, <2>5, <3>1, ServesReply
  <2>6. CASE job' = [job EXCEPT ![w] = r] /\ removed' = removed \cup {k}
    <3>1. \A v \in Workers : job'[v] = job[v] \/ (job'[v].pc # "done" /\ job[v].pc # "done")
      BY <2>1, <2>3, <2>6 DEF Basic
    <3>2. Service!Retire(k)
      BY <2>2, <2>6, <3>1, RetireStep
    <3> QED BY <3>2 DEF Serves
  <2> QED BY <2>4, <2>5, <2>6
<1>2. CASE RemoveReplica(w)
  <2> DEFINE m == Target(j.key, j.at)
             r1 == [j EXCEPT !.at = j.at + 1, !.acks = j.acks + 1]
             r2 == [j EXCEPT !.at = j.at + 1]
             r(ok) == IF ok THEN r1 ELSE r2
  <2>1. PICK ok \in BOOLEAN :
          /\ IF m = Home[w] THEN StoreRemove(m, j.key, ok) ELSE RemoteRemove(m, j.key, ok)
          /\ job' = [job EXCEPT ![w] = r(ok)]
    BY <1>2 DEF RemoveReplica
  <2>2. j.pc = "remove" /\ j.at <= PlanSize /\ UNCHANGED <<acked, removed, mixed>>
    BY <1>2 DEF RemoveReplica
  <2>3. j.key \in Checksums /\ j.key \in removed /\ j.at \in 1 .. PlanSize
    BY <1>0, <1>a, <2>2, PlanFacts DEF JobFits
  <2>4. m \in Nodes
    BY <2>3, PlanFacts
  <2>5. /\ OnlyFilesOf(j.key)
        /\ \A n \in Nodes : disk'[n][j.key] # Nil => disk'[n][j.key] = disk[n][j.key]
    BY <1>0, <2>1, <2>3, <2>4, RemoveFiles
  <2>6. r1.pc = "remove" /\ r2.pc = "remove"
    BY <1>0, <2>2 DEF Job
  <2> HIDE DEF r1, r2
  <2>7. r(ok).pc = "remove"
    BY <2>6
  <2> HIDE DEF r
  <2>8. \A v \in Workers : job'[v] = job[v] \/ (job'[v].pc # "done" /\ job[v].pc # "done")
    BY <2>1, <2>2, <2>7 DEF Basic
  <2>9. Service!Take \/ Service!Drop(j.key)
    BY <2>2, <2>3, <2>5, <2>8, DropStep
  <2> QED BY <2>3, <2>9 DEF Serves
<1>3. CASE RemoveReturn(w)
  <2> DEFINE ok == j.acks >= WriteQuorum \/ j.acks >= PlanSize
  <2>1. /\ job' = [job EXCEPT ![w] = Done(ok, j.key, Nil)] /\ j.pc # "done"
        /\ UNCHANGED <<disk, removed, acked, cuts>>
    BY <1>3 DEF RemoveReturn, budgets
  <2>2. ok \in BOOLEAN /\ Nil \in Bytes \cup {Nil}
    OBVIOUS
  <2> HIDE DEF ok
  <2> QED BY <1>a, <2>1, <2>2, ServesReply
<1> QED BY <1>1, <1>2, <1>3

\* DistributedChunkService::replay_hinted_handoff.
LEMMA ServesReplay ==
  ASSUME Basic, Basic', NEW w \in Workers,
         \/ CallReplay(w) \/ ReplayRead(w) \/ ReplaySend(w, TRUE) \/ ReplaySend(w, FALSE)
         \/ ReplayReplace(w)
  PROVE  Serves
<1> DEFINE j == job[w]
<1>0. j \in Job /\ Home[w] \in Nodes /\ JobFits(w) /\ StoresOK /\ RestOK
  BY HomeAssumption DEF Basic
<1>a. j.at \in Nat \ {0} /\ j.hints \in Seq(Hint)
  BY <1>0, JobFields
<1>1. CASE CallReplay(w)
  <2> DEFINE r1 == [Idle EXCEPT !.pc = "replay", !.hints = Loaded(handoff[Home[w]])]
             r2 == [Idle EXCEPT !.pc = "replay"]
  <2>1. /\ job' = [job EXCEPT ![w] = r1] \/ job' = [job EXCEPT ![w] = r2]
        /\ UNCHANGED <<disk, removed, acked>>
    BY <1>1 DEF CallReplay
  <2>2. r1.pc = "replay" /\ r2.pc = "replay"
    BY DEF Idle
  <2> HIDE DEF r1, r2
  <2> QED BY <2>1, <2>2, ServesQuietly
<1>2. CASE ReplayRead(w)
  <2> DEFINE r1 == [j EXCEPT !.at = j.at + 1, !.rest = Remain(j.rest, j.hints[j.at])]
             r2(x) == [j EXCEPT !.pc = "send", !.data = x]
             r(x) == IF x = Nil THEN r1 ELSE r2(x)
  <2>1. PICK x \in Bytes \cup {Nil} : job' = [job EXCEPT ![w] = r(x)]
    BY <1>2 DEF ReplayRead
  <2>2. j.pc = "replay" /\ UNCHANGED <<disk, removed, acked>>
    BY <1>2 DEF ReplayRead
  <2>3. r1.pc = "replay" /\ r2(x).pc = "send"
    BY <1>0, <2>2 DEF Job
  <2> HIDE DEF r1, r2
  <2>4. r(x).pc # "done"
    BY <2>3
  <2> HIDE DEF r
  <2> QED BY <2>1, <2>2, <2>4, ServesQuietly
<1>3. ASSUME NEW ok \in BOOLEAN, ReplaySend(w, ok)
      PROVE  Serves
  <2> DEFINE hint == j.hints[j.at]
             r1 == [j EXCEPT !.pc = "replay", !.at = j.at + 1, !.acks = j.acks + 1]
             r2 == [j EXCEPT !.pc = "replay", !.at = j.at + 1, !.rest = Remain(j.rest, hint)]
             r == IF ok THEN r1 ELSE r2
  <2>1. /\ j.pc = "send"
        /\ RemotePut(hint.node, hint.key, j.data, ok)
        /\ job' = [job EXCEPT ![w] = r]
        /\ UNCHANGED <<acked, removed, mixed>>
    BY <1>3 DEF ReplaySend
  <2>2. j.data \in Bytes /\ j.at \in 1 .. Len(j.hints) /\ hint.key # Nil
    BY <1>0, <1>a, <2>1 DEF JobFits
  <2>3. hint \in Hint
    BY <1>a, <2>2
  <2>4. hint.node \in Nodes /\ Sha256[j.data] \in Checksums
    BY <2>2, <2>3, HashAssumption, HintFields
  <2>5. FilesFixed /\ OnlyFilesOf(Sha256[j.data])
    BY <1>0, <2>1, <2>2, <2>4, RemotePutFiles
  <2>6. r1.pc = "replay" /\ r2.pc = "replay"
    BY <1>0 DEF Job
  <2> HIDE DEF r1, r2
  <2>7. r.pc # "done"
    BY <2>6
  <2> HIDE DEF r
  <2> QED BY <2>1, <2>4, <2>5, <2>7, ServesFile
<1>4. CASE ReplayReplace(w)
  <2>1. PICK ok \in BOOLEAN : job' = [job EXCEPT ![w] = Done(ok, Nil, Nil)]
    BY <1>4 DEF ReplayReplace
  <2>2. j.pc # "done" /\ UNCHANGED <<disk, removed, acked, cuts>>
    BY <1>4 DEF ReplayReplace
  <2> QED BY <2>1, <2>2, ServesReply
<1> QED BY <1>1, <1>2, <1>3, <1>4

\* Neither a fault nor a cut reply is ever undone.
LEMMA FailuresStay ==
  ASSUME Basic, Next
  PROVE  FaultsStay /\ (cuts' = 0 => cuts = 0)
<1>1. FaultsStay
  BY ActsNext, CrashFacts DEF Acts, Kept
<1>2. cuts \in Nat
  BY DEF Basic, RestOK
<1>3. ASSUME NEW w \in Workers, CallAny(w)
      PROVE  cuts' = cuts
  BY <1>3 DEF CallAny, CallPut, CallGet, CallRemove, CallReplay
<1>4. ASSUME NEW w \in Workers, Step(w), ~GetReplica(w)
      PROVE  cuts' = cuts
  <2>1. CASE PutSkipSelf(w) \/ PutReplica(w) \/ PutEnqueue(w) \/ PutReturn(w) \/ RepairPut(w) \/ Return(w)
    BY <2>1 DEF PutSkipSelf, PutReplica, PutEnqueue, PutReturn, RepairPut, Return, budgets
  <2>2. CASE GetRepair(w, TRUE) \/ GetRepair(w, FALSE) \/ GetReturn(w) \/ GetFallback(w)
    BY <2>2 DEF GetRepair, GetReturn, GetFallback, budgets
  <2>3. CASE RemoveReplica(w) \/ RemoveReturn(w)
    BY <2>3 DEF RemoveReplica, RemoveReturn, budgets
  <2>4. CASE ReplayRead(w) \/ ReplaySend(w, TRUE) \/ ReplaySend(w, FALSE) \/ ReplayReplace(w)
    BY <2>4 DEF ReplayRead, ReplaySend, ReplayReplace, budgets
  <2> QED BY <1>4, <2>1, <2>2, <2>3, <2>4 DEF Step
<1>5. ASSUME NEW w \in Workers, GetReplica(w)
      PROVE  cuts' = cuts \/ cuts' = cuts + 1
  BY <1>5 DEF GetReplica, RemoteGet
<1>6. ASSUME NEW n \in Nodes, Crash(n)
      PROVE  cuts' = cuts
  BY <1>6 DEF Crash
<1>7. cuts' = cuts \/ cuts' = cuts + 1
  BY <1>3, <1>4, <1>5, <1>6 DEF Next
<1> QED BY <1>1, <1>2, <1>7

\* Every step of the cluster is a step of the service.
LEMMA ServesNext ==
  ASSUME FullReplication, Basic, AcksHeld, Next, Basic'
  PROVE  Service!ServiceNext
<1>1. ASSUME NEW w \in Workers, CallAny(w)
      PROVE  Serves
  BY <1>1, NamedType, ServesPut, ServesGet, ServesRemove, ServesReplay DEF CallAny
<1>2. ASSUME NEW w \in Workers, Step(w)
      PROVE  Serves
  BY <1>2, ServesPut, ServesGet, ServesRemove, ServesReplay DEF Step
<1>3. ASSUME NEW n \in Nodes, Crash(n)
      PROVE  Serves
  <2>1. /\ UNCHANGED <<disk, removed, acked>>
        /\ \A w \in Workers : job'[w] = IF Home[w] = n THEN Idle ELSE job[w]
    BY <1>3, CrashFacts
  <2>2. \A w \in Workers : job'[w].pc # "done" \/ job'[w] = job[w]
    BY <2>1, IdleFields
  <2> QED BY <2>1, <2>2, TakeStep DEF Serves
<1>4. Serves
  BY <1>1, <1>2, <1>3 DEF Next
<1>5. Service!MayFail
  BY FailuresStay DEF Service!MayFail, FaultsStay
<1> QED BY <1>4, <1>5 DEF Serves, Service!ServiceNext

\* Initial states map to initial states.
LEMMA ServesInit == Init => Service!ServiceInit
<1> SUFFICES ASSUME Init PROVE Service!ServiceInit
  OBVIOUS
<1>1. ASSUME NEW k \in Checksums
      PROVE  ~OnQuorum(k)
  <2>1. \A d \in Bytes : Copies(disk, k, d) = {}
    BY PlanFacts, HashAssumption DEF Copies, Init
  <2>2. Cardinality({}) = 0
    BY FS_EmptySet
  <2> QED BY <2>1, <2>2, QuorumCopies, QuorumAssumption
<1>2. Stored = {} /\ Promised = {}
  BY <1>1 DEF Stored, Promised, Init
<1>3. Answers = [w \in Workers |-> Nil]
  BY IdleFields DEF Answers, AnswerOf, Init
<1>4. removed = {} /\ (faults = 0) = TRUE /\ (cuts = 0) = TRUE
  BY DEF Init
<1> QED BY <1>2, <1>3, <1>4 DEF Service!ServiceInit, Stored, Promised, Answers

\* DistributedChunkService with its replicas, lost answers, hints, repairs and
\* crashes implements a store without replicas, for every number of nodes and
\* threads, when every node is a target of every chunk.
THEOREM ClusterImplementsService == ASSUME FullReplication PROVE Spec => ImplementsService
<1>1. Init => Service!ServiceInit
  BY ServesInit
<1>2. Basic /\ AcksHeld /\ [Next]_vars => [Service!ServiceNext]_(Service!serviceVars)
  <2>1. CASE UNCHANGED vars
    BY <2>1 DEF vars, Service!serviceVars, OnQuorum, AnswerOf
  <2>2. CASE Next
    BY <2>2, BasicStep, ServesNext
  <2> QED BY <2>1, <2>2
<1> QED BY <1>1, <1>2, AcksInvariant, PTL DEF Spec, ImplementsService, Service!ServiceSpec
=============================================================================
