---------------------------- MODULE CodecProofs ----------------------------
(***************************************************************************)
(* What chunk_bytes, Sha256 and the frames compute, for every input and    *)
(* every width: what the runs of ByteCodecs check on the bodies of a small *)
(* instance.                                                               *)
(*                                                                         *)
(* Numbers: reading n bytes gives back the value modulo Power[n] (GetPut), *)
(* by induction over the bytes read.  Frames and chunks: pieces cut at     *)
(* known places come back.  Sha256: after any calls of update it is in the *)
(* state Given of all the bytes so far, the full blocks transformed and    *)
(* the rest in the buffer; digest adds what the standard adds.             *)
(***************************************************************************)
EXTENDS ByteCodecs, Iteration, SequenceTheorems

-----------------------------------------------------------------------------
(* Arithmetic *)

\* Quotient and remainder.
LEMMA DivMod ==
  ASSUME NEW a \in Nat, NEW b \in Nat \ {0}
  PROVE  /\ a \div b \in Nat /\ a % b \in Nat /\ a % b < b
         /\ a = b * (a \div b) + (a % b)
OBVIOUS

\* A number has one quotient and one remainder.
LEMMA DivModUnique ==
  ASSUME NEW a \in Nat, NEW b \in Nat \ {0}, NEW q \in Nat, NEW r \in Nat, r < b, a = b * q + r
  PROVE  a \div b = q /\ a % b = r
<1> DEFINE p == a \div b
           s == a % b
<1>1. p \in Nat /\ s \in Nat /\ s < b /\ a = b * p + s
  BY DivMod
<1> HIDE DEF p, s
<1>2. p = q
  <2>1. CASE p < q
    <3>1. b * (p + 1) <= b * q
      BY <1>1, <2>1
    <3> QED BY <1>1, <3>1
  <2>2. CASE q < p
    <3>1. b * (q + 1) <= b * p
      BY <1>1, <2>2
    <3> QED BY <1>1, <3>1
  <2> QED BY <1>1, <2>1, <2>2
<1>3. s = r
  BY <1>1, <1>2
<1> QED BY <1>2, <1>3 DEF p, s

\* Products of numbers are numbers.
LEMMA TimesNat == \A a, b \in Nat : a * b \in Nat
OBVIOUS

\* Products grow with their factors.
LEMMA TimesMonotonic == \A a, b, c \in Nat : a <= b => a * c <= b * c
OBVIOUS

\* Products of positive numbers are positive.
LEMMA TimesPositive == \A a, b \in Nat \ {0} : a * b \in Nat \ {0}
OBVIOUS

\* A digit r2 in front of the rest r.
LEMMA TwoDigits ==
  ASSUME NEW b \in Nat \ {0}, NEW m \in Nat \ {0}, NEW r \in Nat, r < b, NEW t \in Nat, t < m
  PROVE  b * t + r \in Nat /\ b * t + r < b * m
<1>1. b * t \in Nat
  OBVIOUS
<1>2. b * (t + 1) <= b * m
  OBVIOUS
<1>3. b * (t + 1) = b * t + b
  OBVIOUS
<1> QED BY <1>1, <1>2, <1>3

\* Dividing by a product is dividing by one factor and then by the other.
LEMMA DivDiv ==
  ASSUME NEW v \in Nat, NEW b \in Nat \ {0}, NEW m \in Nat \ {0}
  PROVE  v \div (b * m) = (v \div b) \div m
<1> DEFINE q == v \div b
           r == v % b
           p == q \div m
           t == q % m
<1>1. q \in Nat /\ r \in Nat /\ r < b /\ v = b * q + r
  BY DivMod
<1> HIDE DEF q, r
<1>2. p \in Nat /\ t \in Nat /\ t < m /\ q = m * p + t
  BY <1>1, DivMod
<1> HIDE DEF p, t
<1>3. b * t + r \in Nat /\ b * t + r < b * m
  BY <1>1, <1>2, TwoDigits
<1>4. v = (b * m) * p + (b * t + r)
  BY <1>1, <1>2
<1>5. b * m \in Nat \ {0}
  BY TimesPositive
<1>6. v \div (b * m) = p
  BY <1>2, <1>3, <1>4, <1>5, DivModUnique
<1> QED BY <1>6 DEF p, q

\* The last n + 1 digits of a number are the last n of what is in front of its last
\* digit, and that digit.
LEMMA ModDigit ==
  ASSUME NEW v \in Nat, NEW b \in Nat \ {0}, NEW m \in Nat \ {0}
  PROVE  v % (b * m) = ((v \div b) % m) * b + (v % b)
<1> DEFINE q == v \div b
           r == v % b
           p == q \div m
           t == q % m
<1>1. q \in Nat /\ r \in Nat /\ r < b /\ v = b * q + r
  BY DivMod
<1> HIDE DEF q, r
<1>2. p \in Nat /\ t \in Nat /\ t < m /\ q = m * p + t
  BY <1>1, DivMod
<1> HIDE DEF p, t
<1>3. b * t + r \in Nat /\ b * t + r < b * m
  BY <1>1, <1>2, TwoDigits
<1>4. v = (b * m) * p + (b * t + r)
  BY <1>1, <1>2
<1>5. b * m \in Nat \ {0}
  BY TimesPositive
<1>6. v % (b * m) = b * t + r
  BY <1>2, <1>3, <1>4, <1>5, DivModUnique
<1>7. b * t = t * b
  BY <1>2
<1> QED BY <1>6, <1>7 DEF t, q, r

-----------------------------------------------------------------------------
(* Numbers in bytes *)

\* Power is what its recursive definition says.
LEMMA PowerDef == Power = [n \in Nat |-> IF n = 0 THEN 1 ELSE Base * Power[n - 1]]
<1> DEFINE step == [n \in Nat |-> [v \in Nat |-> Base * v]]
<1>1. step \in [Nat -> [Nat -> Nat]]
  BY CodecAssumption
<1>2. 1 \in Nat
  OBVIOUS
<1>3. PICK f : Iterates(Nat, 1, step, f)
  <2> HIDE DEF step
  <2> QED BY <1>1, <1>2, IterationExists, Zenon
<1>4. f \in [Nat -> Nat] /\ f[0] = 1
  BY <1>3 DEF Iterates
<1>5. ASSUME NEW n \in Nat \ {0} PROVE f[n] = Base * f[n - 1]
  <2>1. f[n] = step[n][f[n - 1]]
    BY <1>3 DEF Iterates
  <2>2. n - 1 \in Nat /\ f[n - 1] \in Nat
    BY <1>4
  <2> QED BY <2>1, <2>2
<1>6. f = [n \in Nat |-> IF n = 0 THEN 1 ELSE Base * f[n - 1]]
  BY <1>4, <1>5
<1> QED BY <1>6 DEF Power

\* Another byte multiplies the number of values.
LEMMA PowerNext ==
  /\ Power[0] = 1
  /\ \A n \in Nat : Power[n + 1] = Base * Power[n]
BY PowerDef

\* There are values for every number of bytes.
LEMMA PowerType == \A n \in Nat : Power[n] \in Nat \ {0}
<1> DEFINE T == {n \in Nat : Power[n] \in Nat \ {0}}
<1>1. 0 \in T
  BY PowerNext
<1>2. ASSUME NEW n \in Nat, n \in T PROVE n + 1 \in T
  BY <1>2, PowerNext, TimesPositive, CodecAssumption
<1> HIDE DEF T
<1>3. Nat \subseteq T
  BY <1>1, <1>2, SetInduction
<1> QED BY <1>3 DEF T

\* The number in the bytes of v is what Put has not cut off: after i of the n bytes
\* the loop of Get has read what is left of v when the other ones are shifted out.
LEMMA GetPut == ASSUME NEW v \in Nat, NEW n \in Nat PROVE Get(Put(v, n)) = v % Power[n]
<1> DEFINE s == Put(v, n)
           g == [i \in 0 .. n |-> (v \div Power[n - i]) % Power[i]]
           F(r) == r = [i \in 0 .. n |-> IF i = 0 THEN 0 ELSE r[i - 1] * Base + s[i][2]]
           read == CHOOSE r : F(r)
<1>1. Len(s) = n /\ \A i \in 1 .. n : s[i][2] = (v \div Power[n - i]) % Base
  BY DEF Put, Digit
<1>2. ASSUME NEW i \in 0 .. n - 1
      PROVE  g[i + 1] = g[i] * Base + s[i + 1][2]
  <2> DEFINE b == Power[n - (i + 1)]
             q == v \div b
  <2>1. /\ n - (i + 1) \in Nat /\ n - i = (n - (i + 1)) + 1 /\ i \in Nat
        /\ i \in 0 .. n /\ i + 1 \in 1 .. n /\ i + 1 \in 0 .. n
    OBVIOUS
  <2>2. /\ b \in Nat \ {0} /\ Power[i] \in Nat \ {0} /\ Base \in Nat \ {0}
        /\ Power[n - i] = Base * b /\ Power[i + 1] = Base * Power[i]
    BY <2>1, PowerType, PowerNext, CodecAssumption
  <2>3. s[i + 1][2] = q % Base /\ g[i + 1] = q % Power[i + 1]
    BY <1>1, <2>1
  <2>4. g[i] = (v \div Power[n - i]) % Power[i]
    BY <2>1
  <2> HIDE DEF b
  <2>5. Base * b = b * Base
    BY <2>2
  <2>6. v \div Power[n - i] = q \div Base
    <3>1. v \div (b * Base) = (v \div b) \div Base
      BY <2>2, DivDiv
    <3> QED BY <2>2, <2>5, <3>1 DEF q
  <2>7. q \in Nat
    BY <2>2, DivMod
  <2> HIDE DEF q, g, s
  <2>8. q % (Base * Power[i]) = ((q \div Base) % Power[i]) * Base + (q % Base)
    BY <2>2, <2>7, ModDigit
  <2> QED BY <2>2, <2>3, <2>4, <2>6, <2>8
<1>3. g[0] = 0
  <2>1. n - 0 = n /\ 0 \in 0 .. n
    OBVIOUS
  <2>2. v \div Power[n] \in Nat
    BY PowerType, DivMod
  <2>3. (v \div Power[n]) % Power[0] = 0
    BY <2>2, PowerNext
  <2> QED BY <2>1, <2>3
<1>4. F(g)
  <2>1. DOMAIN g = 0 .. n /\ g = [i \in 0 .. n |-> g[i]]
    OBVIOUS
  <2> HIDE DEF g, s
  <2>2. ASSUME NEW i \in 0 .. n PROVE g[i] = IF i = 0 THEN 0 ELSE g[i - 1] * Base + s[i][2]
    <3>1. CASE i = 0
      BY <1>3, <3>1
    <3>2. CASE i # 0
      <4>1. i - 1 \in 0 .. n - 1 /\ (i - 1) + 1 = i
        BY <3>2
      <4> QED BY <1>2, <3>2, <4>1
    <3> QED BY <3>1, <3>2
  <2> QED BY <2>1, <2>2
<1>5. Get(s) = read[n]
  BY <1>1 DEF Get
<1>6. F(read)
  <2> HIDE DEF F
  <2> QED BY <1>4
<1> HIDE DEF read, g, s
<1> DEFINE T == {i \in 0 .. n : read[i] = g[i]}
<1>7. 0 \in T
  BY <1>3, <1>6
<1>8. ASSUME NEW i \in 0 .. n - 1, i \in T PROVE i + 1 \in T
  <2>1. i + 1 \in 0 .. n /\ i + 1 # 0 /\ (i + 1) - 1 = i /\ read[i] = g[i]
    BY <1>8
  <2>2. read[i + 1] = read[i] * Base + s[i + 1][2]
    BY <1>6, <2>1
  <2> QED BY <1>2, <2>1, <2>2
<1>9. 0 .. n \subseteq T
  <2> HIDE DEF T
  <2> QED BY <1>7, <1>8, BoundedInduction
<1>10. read[n] = g[n]
  BY <1>9
<1>11. g[n] = v % Power[n]
  <2>1. n - n = 0 /\ v \div 1 = v /\ n \in 0 .. n
    OBVIOUS
  <2> QED BY <2>1, PowerNext DEF g
<1> QED BY <1>5, <1>10, <1>11 DEF s

\* The tokens Put writes.
Bytes == {Digit(x) : x \in Nat}

\* Put writes as many bytes as it is told to.
LEMMA PutType ==
  ASSUME NEW v \in Nat, NEW n \in Nat
  PROVE  Put(v, n) \in Seq(Bytes) /\ Len(Put(v, n)) = n
<1>1. ASSUME NEW i \in 1 .. n PROVE (v \div Power[n - i]) % Base \in Nat
  <2>1. n - i \in Nat
    OBVIOUS
  <2> QED BY <2>1, PowerType, DivMod, CodecAssumption
<1>2. Put(v, n) \in [1 .. n -> Bytes]
  BY <1>1 DEF Put, Bytes
<1> QED BY <1>2

\* t is found in w where it stands
LEMMA Slice ==
  ASSUME NEW A, NEW w \in Seq(A), NEW t \in Seq(A), NEW k \in Nat, k + Len(t) <= Len(w),
         \A i \in 1 .. Len(t) : w[k + i] = t[i]
  PROVE  SubSeq(w, k + 1, k + Len(t)) = t
<1> DEFINE u == SubSeq(w, k + 1, k + Len(t))
<1>1. Len(t) \in Nat /\ Len(w) \in Nat
  OBVIOUS
<1>2. \A i \in k + 1 .. k + Len(t) : w[i] \in A
  BY <1>1
<1>3. u \in Seq(A) /\ Len(u) = Len(t) /\ \A i \in 1 .. Len(t) : u[i] = w[k + i]
  <2>1. /\ u \in Seq(A)
        /\ Len(u) = IF k + 1 <= k + Len(t) THEN (k + Len(t)) - (k + 1) + 1 ELSE 0
        /\ \A i \in 1 .. (k + Len(t)) - (k + 1) + 1 : u[i] = w[(k + 1) + i - 1]
    <3>1. k + 1 \in Int /\ k + Len(t) \in Int
      BY <1>1
    <3> QED BY <1>2, <3>1, SubSeqProperties
  <2>2. Len(u) = Len(t)
    BY <1>1, <2>1
  <2>3. ASSUME NEW i \in 1 .. Len(t) PROVE u[i] = w[k + i]
    <3>1. i \in 1 .. (k + Len(t)) - (k + 1) + 1 /\ (k + 1) + i - 1 = k + i
      BY <1>1
    <3> QED BY <2>1, <3>1
  <2> QED BY <2>1, <2>2, <2>3
<1> HIDE DEF u
<1>4. u = t
  BY <1>3, SeqEqual
<1> QED BY <1>4 DEF u

-----------------------------------------------------------------------------
(* Frames *)

\* w is s with t behind it.
Glued(A, s, t, w) ==
  /\ w \in Seq(A) /\ Len(s) \in Nat /\ Len(t) \in Nat
  /\ Len(w) = Len(s) + Len(t) /\ Len(w) \in Nat
  /\ \A i \in 1 .. Len(s) : w[i] = s[i]
  /\ \A i \in 1 .. Len(t) : w[Len(s) + i] = t[i]

\* Concatenation puts one sequence behind the other.
LEMMA Glue ==
  ASSUME NEW A, NEW s \in Seq(A), NEW t \in Seq(A)
  PROVE  Glued(A, s, t, s \o t)
<1>1. Len(s) \in Nat /\ Len(t) \in Nat
  OBVIOUS
<1>2. ASSUME NEW i \in 1 .. Len(t) PROVE (s \o t)[Len(s) + i] = t[i]
  BY <1>1, ConcatProperties
<1> QED BY <1>1, <1>2, ConcatProperties DEF Glued

\* The five parts of b.
Parts(A, p, q, r, x, y, b) ==
  /\ b \in Seq(A) /\ Len(b) = Len(p) + Len(q) + Len(r) + Len(x) + Len(y)
  /\ SubSeq(b, 1, Len(p)) = p
  /\ SubSeq(b, Len(p) + 1, Len(p) + Len(q)) = q
  /\ SubSeq(b, Len(p) + Len(q) + 1, Len(p) + Len(q) + Len(r)) = r
  /\ SubSeq(b, Len(p) + Len(q) + Len(r) + 1, Len(p) + Len(q) + Len(r) + Len(x)) = x
  /\ SubSeq(b, Len(p) + Len(q) + Len(r) + Len(x) + 1, Len(b)) = y

\* What is put together of five parts has them in their places.
LEMMA FiveParts ==
  ASSUME NEW A, NEW p \in Seq(A), NEW q \in Seq(A), NEW r \in Seq(A), NEW x \in Seq(A), NEW y \in Seq(A)
  PROVE  Parts(A, p, q, r, x, y, p \o q \o r \o x \o y)
<1> DEFINE b2 == p \o q
           b3 == b2 \o r
           b4 == b3 \o x
           b == b4 \o y
<1>1. Len(p) \in Nat /\ Len(q) \in Nat /\ Len(r) \in Nat /\ Len(x) \in Nat /\ Len(y) \in Nat
  OBVIOUS
<1>2. Glued(A, p, q, b2)
  BY Glue, Zenon
<1>3. /\ b2 \in Seq(A) /\ Len(b2) = Len(p) + Len(q) /\ Len(b2) \in Nat
      /\ \A i \in 1 .. Len(p) : b2[i] = p[i]
      /\ \A i \in 1 .. Len(q) : b2[Len(p) + i] = q[i]
  BY <1>2 DEF Glued
<1> HIDE DEF b2
<1>4. Glued(A, b2, r, b3)
  BY <1>3, Glue, Zenon
<1>5. /\ b3 \in Seq(A) /\ Len(b3) = Len(b2) + Len(r) /\ Len(b3) \in Nat
      /\ \A i \in 1 .. Len(b2) : b3[i] = b2[i]
      /\ \A i \in 1 .. Len(r) : b3[Len(b2) + i] = r[i]
  BY <1>4 DEF Glued
<1> HIDE DEF b3
<1>6. Glued(A, b3, x, b4)
  BY <1>5, Glue, Zenon
<1>7. /\ b4 \in Seq(A) /\ Len(b4) = Len(b3) + Len(x) /\ Len(b4) \in Nat
      /\ \A i \in 1 .. Len(b3) : b4[i] = b3[i]
      /\ \A i \in 1 .. Len(x) : b4[Len(b3) + i] = x[i]
  BY <1>6 DEF Glued
<1> HIDE DEF b4
<1>8. Glued(A, b4, y, b)
  BY <1>7, Glue, Zenon
<1>9. /\ b \in Seq(A) /\ Len(b) = Len(b4) + Len(y) /\ Len(b) \in Nat
      /\ \A i \in 1 .. Len(b4) : b[i] = b4[i]
      /\ \A i \in 1 .. Len(y) : b[Len(b4) + i] = y[i]
  BY <1>8 DEF Glued
<1> HIDE DEF b
<1>10. SubSeq(b, 1, Len(p)) = p
  <2>1. ASSUME NEW i \in 1 .. Len(p) PROVE b[0 + i] = p[i]
    <3>1. 0 + i = i /\ i \in 1 .. Len(b2) /\ i \in 1 .. Len(b3) /\ i \in 1 .. Len(b4)
      BY <1>1, <1>3, <1>5, <1>7
    <3> QED BY <1>3, <1>5, <1>7, <1>9, <3>1
  <2>2. 0 + Len(p) <= Len(b) /\ 0 + 1 = 1 /\ 0 + Len(p) = Len(p) /\ 0 \in Nat
    BY <1>1, <1>3, <1>5, <1>7, <1>9
  <2>3. SubSeq(b, 0 + 1, 0 + Len(p)) = p
    BY <1>9, <2>1, <2>2, Slice
  <2> QED BY <2>2, <2>3
<1>11. SubSeq(b, Len(p) + 1, Len(p) + Len(q)) = q
  <2>1. ASSUME NEW i \in 1 .. Len(q) PROVE b[Len(p) + i] = q[i]
    <3>1. Len(p) + i \in 1 .. Len(b2) /\ Len(p) + i \in 1 .. Len(b3) /\ Len(p) + i \in 1 .. Len(b4)
      BY <1>1, <1>3, <1>5, <1>7
    <3> QED BY <1>3, <1>5, <1>7, <1>9, <3>1
  <2>2. Len(p) + Len(q) <= Len(b)
    BY <1>1, <1>3, <1>5, <1>7, <1>9
  <2> QED BY <1>1, <1>9, <2>1, <2>2, Slice
<1>12. SubSeq(b, Len(b2) + 1, Len(b2) + Len(r)) = r
  <2>1. ASSUME NEW i \in 1 .. Len(r) PROVE b[Len(b2) + i] = r[i]
    <3>1. Len(b2) + i \in 1 .. Len(b3) /\ Len(b2) + i \in 1 .. Len(b4)
      BY <1>1, <1>3, <1>5, <1>7
    <3> QED BY <1>5, <1>7, <1>9, <3>1
  <2>2. Len(b2) + Len(r) <= Len(b)
    BY <1>1, <1>3, <1>5, <1>7, <1>9
  <2> QED BY <1>3, <1>9, <2>1, <2>2, Slice
<1>13. SubSeq(b, Len(b3) + 1, Len(b3) + Len(x)) = x
  <2>1. ASSUME NEW i \in 1 .. Len(x) PROVE b[Len(b3) + i] = x[i]
    <3>1. Len(b3) + i \in 1 .. Len(b4)
      BY <1>1, <1>5, <1>7
    <3> QED BY <1>7, <1>9, <3>1
  <2>2. Len(b3) + Len(x) <= Len(b)
    BY <1>1, <1>5, <1>7, <1>9
  <2> QED BY <1>5, <1>9, <2>1, <2>2, Slice
<1>14. SubSeq(b, Len(b4) + 1, Len(b4) + Len(y)) = y
  <2>1. Len(b4) + Len(y) <= Len(b)
    BY <1>1, <1>7, <1>9
  <2> QED BY <1>7, <1>9, <2>1, Slice
<1>15. /\ Len(b2) = Len(p) + Len(q) /\ Len(b3) = Len(p) + Len(q) + Len(r)
       /\ Len(b4) = Len(p) + Len(q) + Len(r) + Len(x)
       /\ Len(b) = Len(p) + Len(q) + Len(r) + Len(x) + Len(y)
  BY <1>3, <1>5, <1>7, <1>9
<1>16. Len(b4) + Len(y) = Len(b)
  BY <1>9
<1> QED BY <1>9, <1>10, <1>11, <1>12, <1>13, <1>14, <1>15, <1>16 DEF Parts, b, b4, b3, b2

\* An encoded frame has its fields where decode_frame looks for them.
LEMMA FrameParts ==
  ASSUME NEW A, Bytes \subseteq A, NEW f, f.type \in Nat, f.cid \in Seq(A), f.payload \in Seq(A)
  PROVE  LET b == EncodeFrame(f)
             c == Len(f.cid) IN
         /\ b \in Seq(A) /\ Len(b) = HeaderBytes + c + Len(f.payload)
         /\ SubSeq(b, 1, TypeBytes) = Put(f.type, TypeBytes)
         /\ SubSeq(b, TypeBytes + 1, TypeBytes + CidBytes) = Put(c, CidBytes)
         /\ SubSeq(b, TypeBytes + CidBytes + 1, HeaderBytes) = Put(Len(f.payload), PayloadBytes)
         /\ SubSeq(b, HeaderBytes + 1, HeaderBytes + c) = f.cid
         /\ SubSeq(b, HeaderBytes + c + 1, Len(b)) = f.payload
<1> DEFINE x == f.cid
           y == f.payload
           p == Put(f.type, TypeBytes)
           q == Put(Len(x), CidBytes)
           r == Put(Len(y), PayloadBytes)
<1>1. x \in Seq(A) /\ y \in Seq(A) /\ f.type \in Nat
  OBVIOUS
<1>2. EncodeFrame(f) = p \o q \o r \o x \o y
  BY DEF EncodeFrame
<1> HIDE DEF x, y
<1>3. TypeBytes \in Nat /\ CidBytes \in Nat /\ PayloadBytes \in Nat /\ Len(x) \in Nat /\ Len(y) \in Nat
  BY <1>1, CodecAssumption, LenProperties
<1>4. /\ p \in Seq(A) /\ Len(p) = TypeBytes
      /\ q \in Seq(A) /\ Len(q) = CidBytes
      /\ r \in Seq(A) /\ Len(r) = PayloadBytes
  BY <1>1, <1>3, PutType, SeqMonotonic
<1> HIDE DEF p, q, r
<1> DEFINE b == p \o q \o r \o x \o y
<1>5. Parts(A, p, q, r, x, y, b)
  BY <1>1, <1>4, FiveParts, Zenon
<1> HIDE DEF b
<1>6. HeaderBytes = Len(p) + Len(q) + Len(r)
  BY <1>4 DEF HeaderBytes
<1>7. EncodeFrame(f) = b
  BY <1>2 DEF b
<1>8. /\ b \in Seq(A) /\ Len(b) = HeaderBytes + Len(x) + Len(y)
      /\ SubSeq(b, 1, TypeBytes) = p
      /\ SubSeq(b, TypeBytes + 1, TypeBytes + CidBytes) = q
      /\ SubSeq(b, TypeBytes + CidBytes + 1, HeaderBytes) = r
      /\ SubSeq(b, HeaderBytes + 1, HeaderBytes + Len(x)) = x
      /\ SubSeq(b, HeaderBytes + Len(x) + 1, Len(b)) = y
  BY <1>4, <1>5, <1>6 DEF Parts
<1> QED BY <1>7, <1>8, Zenon DEF x, y, p, q, r

\* For every type, id and payload: decode_frame gives back the frame that was encoded
\* when its lengths fit into their fields, and refuses it otherwise.  A length that
\* encode_frame cuts to the width of its field never makes another frame of it.
THEOREM FramesComeBack ==
  ASSUME NEW A, NEW t \in 0 .. Power[TypeBytes] - 1, NEW x \in Seq(A), NEW y \in Seq(A)
  PROVE  LET f == [type |-> t, cid |-> x, payload |-> y] IN
         DecodeFrame(EncodeFrame(f)) = IF Fits(f) THEN f ELSE NoFrame
<1> DEFINE f == [type |-> t, cid |-> x, payload |-> y]
           b == EncodeFrame(f)
           U == A \cup Bytes
           c == Len(x) % Power[CidBytes]
           l == Len(y) % Power[PayloadBytes]
<1>1. /\ TypeBytes \in Nat /\ CidBytes \in Nat /\ PayloadBytes \in Nat
      /\ Power[TypeBytes] \in Nat \ {0} /\ Power[CidBytes] \in Nat \ {0} /\ Power[PayloadBytes] \in Nat \ {0}
      /\ Len(x) \in Nat /\ Len(y) \in Nat /\ HeaderBytes \in Nat /\ t \in Nat
  BY CodecAssumption, PowerType DEF HeaderBytes
<1>2. f.type = t /\ f.cid = x /\ f.payload = y
  OBVIOUS
<1>3. x \in Seq(U) /\ y \in Seq(U) /\ Bytes \subseteq U
  BY SeqMonotonic
<1> HIDE DEF U, f
<1>4. /\ b \in Seq(U) /\ Len(b) = HeaderBytes + Len(x) + Len(y)
      /\ SubSeq(b, 1, TypeBytes) = Put(t, TypeBytes)
      /\ SubSeq(b, TypeBytes + 1, TypeBytes + CidBytes) = Put(Len(x), CidBytes)
      /\ SubSeq(b, TypeBytes + CidBytes + 1, HeaderBytes) = Put(Len(y), PayloadBytes)
      /\ SubSeq(b, HeaderBytes + 1, HeaderBytes + Len(x)) = x
      /\ SubSeq(b, HeaderBytes + Len(x) + 1, Len(b)) = y
  BY <1>1, <1>2, <1>3, FrameParts
<1>5. /\ Get(SubSeq(b, TypeBytes + 1, TypeBytes + CidBytes)) = c
      /\ Get(SubSeq(b, TypeBytes + CidBytes + 1, HeaderBytes)) = l
      /\ Get(SubSeq(b, 1, TypeBytes)) = t
  <2>1. t % Power[TypeBytes] = t
    <3>1. \A a \in Nat, m \in Nat \ {0} : a < m => a % m = a
      OBVIOUS
    <3>2. t < Power[TypeBytes]
      BY <1>1
    <3> QED BY <1>1, <3>1, <3>2
  <2> QED BY <1>1, <1>4, <2>1, GetPut
<1>6. c \in Nat /\ c < Power[CidBytes] /\ l \in Nat /\ l < Power[PayloadBytes] /\ c <= Len(x) /\ l <= Len(y)
  <2>1. \A a \in Nat, m \in Nat \ {0} : a % m \in Nat /\ a % m < m /\ a % m <= a
    OBVIOUS
  <2> QED BY <1>1, <2>1
<1> HIDE DEF b
<1>7. Len(b) >= HeaderBytes
  BY <1>1, <1>4
<1>8. CASE Fits(f)
  <2>1. Len(x) < Power[CidBytes] /\ HeaderBytes + Len(x) + Len(y) < Power[PayloadBytes]
    BY <1>2, <1>8 DEF Fits
  <2>2. c = Len(x) /\ l = Len(y) /\ (HeaderBytes + Len(x) + Len(y)) % Power[PayloadBytes] = HeaderBytes + Len(x) + Len(y)
    <3>1. \A a \in Nat, m \in Nat \ {0} : a < m => a % m = a
      OBVIOUS
    <3>2. HeaderBytes + Len(x) + Len(y) \in Nat /\ Len(y) < Power[PayloadBytes]
      BY <1>1, <2>1
    <3> QED BY <1>1, <2>1, <3>1, <3>2
  <2> HIDE DEF c, l
  <2>3. ExactLength(Len(b), c, l)
    BY <1>4, <2>2 DEF ExactLength
  <2>4. DecodeFrame(b) = [type |-> t, cid |-> x, payload |-> y]
    <3>1. ~(Len(b) < HeaderBytes)
      BY <1>1, <1>4
    <3>2. /\ Get(SubSeq(b, TypeBytes + 1, TypeBytes + CidBytes)) = Len(x)
          /\ Get(SubSeq(b, TypeBytes + CidBytes + 1, HeaderBytes)) = Len(y)
          /\ ExactLength(Len(b), Len(x), Len(y))
      BY <1>5, <2>2, <2>3
    <3> QED BY <1>4, <1>5, <3>1, <3>2, Zenon DEF DecodeFrame
  <2> QED BY <1>8, <2>4 DEF f, b
<1>9. CASE ~Fits(f)
  <2>1. Len(x) >= Power[CidBytes] \/ HeaderBytes + Len(x) + Len(y) >= Power[PayloadBytes]
    BY <1>1, <1>2, <1>9 DEF Fits
  <2> DEFINE sum == (HeaderBytes + c + l) % Power[PayloadBytes]
  <2>2. sum \in Nat /\ sum < Power[PayloadBytes] /\ sum <= HeaderBytes + c + l
    <3>1. \A a \in Nat, m \in Nat \ {0} : a % m \in Nat /\ a % m < m /\ a % m <= a
      OBVIOUS
    <3>2. HeaderBytes + c + l \in Nat
      BY <1>1, <1>6
    <3> QED BY <1>1, <3>1, <3>2
  <2> HIDE DEF c, l, sum
  <2>3. Len(b) # sum
    BY <1>1, <1>4, <1>6, <2>1, <2>2
  <2>4. ~ExactLength(Len(b), c, l)
    BY <2>3 DEF ExactLength, sum
  <2>5. DecodeFrame(b) = NoFrame
    BY <1>5, <2>4 DEF DecodeFrame
  <2> QED BY <1>9, <2>5 DEF f, b
<1> QED BY <1>8, <1>9 DEF f

-----------------------------------------------------------------------------
(* Chunks *)

\* seqs are the n pieces input is cut into behind c[1], c[2] and so on.
Cuts(seqs, input, n, c) ==
  /\ c \in [0 .. n -> 0 .. Len(input)] /\ c[0] = 0 /\ Len(seqs) = n
  /\ \A i \in 1 .. n : c[i - 1] <= c[i] /\ seqs[i] = SubSeq(input, c[i - 1] + 1, c[i])

\* Pieces that are cut at c[1], c[2], ... give back what they were cut from.
LEMMA FlattenCut ==
  ASSUME NEW A, NEW input \in Seq(A), NEW n \in Nat \ {0}, NEW c, NEW seqs, Cuts(seqs, input, n, c)
  PROVE  FlattenSeq(seqs) = SubSeq(input, 1, c[n])
<1> DEFINE g == [i \in 1 .. n |-> SubSeq(input, 1, c[i])]
           F(r) == r = [i \in 1 .. n |-> IF i = 1 THEN seqs[i] ELSE r[i - 1] \o seqs[i]]
           flat == CHOOSE r : F(r)
<1>1. /\ c \in [0 .. n -> 0 .. Len(input)] /\ c[0] = 0 /\ Len(seqs) = n
      /\ \A i \in 1 .. n : c[i - 1] <= c[i] /\ seqs[i] = SubSeq(input, c[i - 1] + 1, c[i])
  BY DEF Cuts
<1>2. \A i \in 0 .. n : c[i] \in Nat /\ c[i] <= Len(input)
  BY <1>1
<1>3. ASSUME NEW i \in 1 .. n - 1
      PROVE  g[i + 1] = g[i] \o seqs[i + 1]
  <2>1. i \in 0 .. n /\ i \in 1 .. n /\ i + 1 \in 0 .. n /\ i + 1 \in 1 .. n /\ (i + 1) - 1 = i
    OBVIOUS
  <2>2. seqs[i + 1] = SubSeq(input, c[i] + 1, c[i + 1]) /\ c[i] <= c[i + 1]
    BY <1>1, <2>1
  <2>3. 1 \in 1 .. Len(input) + 1 /\ c[i] \in 1 - 1 .. Len(input) /\ c[i + 1] \in c[i] .. Len(input)
    BY <1>2, <2>1, <2>2
  <2>4. SubSeq(input, 1, c[i]) \o SubSeq(input, c[i] + 1, c[i + 1]) = SubSeq(input, 1, c[i + 1])
    BY <2>3, ConcatAdjacentSubSeq
  <2> QED BY <2>1, <2>2, <2>4
<1>4. g[1] = seqs[1]
  <2>1. 1 \in 1 .. n /\ 1 - 1 = 0 /\ 0 + 1 = 1
    OBVIOUS
  <2> QED BY <1>1, <2>1
<1>5. F(g)
  <2>1. g = [i \in 1 .. n |-> g[i]]
    OBVIOUS
  <2> HIDE DEF g
  <2>2. ASSUME NEW i \in 1 .. n PROVE g[i] = IF i = 1 THEN seqs[i] ELSE g[i - 1] \o seqs[i]
    <3>1. CASE i = 1
      BY <1>4, <3>1
    <3>2. CASE i # 1
      <4>1. i - 1 \in 1 .. n - 1 /\ (i - 1) + 1 = i
        BY <3>2
      <4> QED BY <1>3, <3>2, <4>1
    <3> QED BY <3>1, <3>2
  <2> QED BY <2>1, <2>2
<1>6. FlattenSeq(seqs) = flat[n]
  BY <1>1 DEF FlattenSeq
<1>7. F(flat)
  <2> HIDE DEF F
  <2> QED BY <1>5
<1> HIDE DEF flat, g
<1> DEFINE T == {i \in 0 .. n - 1 : flat[i + 1] = g[i + 1]}
<1>8. 0 \in T
  <2>1. 0 \in 0 .. n - 1 /\ 0 + 1 = 1 /\ 1 \in 1 .. n
    OBVIOUS
  <2>2. flat[1] = seqs[1]
    BY <1>7, <2>1
  <2> QED BY <1>4, <2>1, <2>2
<1>9. ASSUME NEW i \in 0 .. (n - 1) - 1, i \in T PROVE i + 1 \in T
  <2>1. /\ i + 1 \in 0 .. n - 1 /\ i + 1 \in 1 .. n - 1 /\ (i + 1) + 1 \in 1 .. n /\ (i + 1) + 1 # 1
        /\ ((i + 1) + 1) - 1 = i + 1 /\ flat[i + 1] = g[i + 1]
    BY <1>9
  <2>2. flat[(i + 1) + 1] = flat[i + 1] \o seqs[(i + 1) + 1]
    BY <1>7, <2>1
  <2>3. g[(i + 1) + 1] = g[i + 1] \o seqs[(i + 1) + 1]
    BY <1>3, <2>1
  <2> QED BY <2>1, <2>2, <2>3
<1>10. 0 .. n - 1 \subseteq T
  <2> HIDE DEF T
  <2>1. n - 1 \in Nat
    OBVIOUS
  <2> QED BY <1>8, <1>9, <2>1, BoundedInduction
<1>11. flat[n] = g[n]
  <2>1. n - 1 \in 0 .. n - 1 /\ (n - 1) + 1 = n
    OBVIOUS
  <2> QED BY <1>10, <2>1
<1>12. g[n] = SubSeq(input, 1, c[n])
  <2>1. n \in 1 .. n
    OBVIOUS
  <2> QED BY <2>1 DEF g
<1> QED BY <1>6, <1>11, <1>12

\* chunk_bytes cuts every input, of any length and for every configured size, into
\* chunks that give it back: there is one at least, none is longer than the size,
\* and only the last one is shorter.
THEOREM ChunksComeTogether ==
  ASSUME NEW A, NEW input \in Seq(A), NEW size \in Nat
  PROVE  JoinsTo(ChunkBytes(input, size), input, IF size = 0 THEN DefaultChunk ELSE size)
<1> DEFINE s == IF size = 0 THEN DefaultChunk ELSE size
           n == Rounds(Len(input), s)
           end(i) == IF i * s < Len(input) THEN i * s ELSE Len(input)
           chunks == ChunkBytes(input, size)
<1>1. s \in Nat \ {0} /\ Len(input) \in Nat
  BY CodecAssumption
<1>2. CASE input = <<>>
  <2>1. chunks = <<<<>>>>
    BY <1>2 DEF ChunkBytes
  <2>2. FlattenSeq(chunks) = <<>>
    <3> DEFINE c == [i \in 0 .. 1 |-> 0]
    <3>1. c \in [0 .. 1 -> 0 .. Len(input)] /\ c[0] = 0 /\ c[1] = 0
      BY <1>1
    <3>2. Len(chunks) = 1 /\ chunks[1] = <<>>
      BY <2>1
    <3>3. SubSeq(input, 1, 0) = <<>>
      BY SubSeqEmpty
    <3> HIDE DEF c, chunks
    <3>4. ASSUME NEW i \in 1 .. 1 PROVE c[i - 1] <= c[i] /\ chunks[i] = SubSeq(input, c[i - 1] + 1, c[i])
      <4>1. i = 1 /\ i - 1 = 0 /\ 0 + 1 = 1
        OBVIOUS
      <4>2. c[i - 1] = 0 /\ c[i] = 0 /\ chunks[i] = <<>>
        BY <3>1, <3>2, <4>1
      <4>3. SubSeq(input, c[i - 1] + 1, c[i]) = <<>>
        BY <3>3, <4>1, <4>2
      <4> QED BY <4>2, <4>3
    <3>5. Cuts(chunks, input, 1, c)
      BY <3>1, <3>2, <3>4 DEF Cuts
    <3>6. FlattenSeq(chunks) = SubSeq(input, 1, c[1])
      BY <3>5, FlattenCut
    <3> QED BY <3>1, <3>3, <3>6
  <2>3. Len(chunks) = 1 /\ DOMAIN chunks = 1 .. 1 /\ chunks # <<>> /\ \A i \in 1 .. 1 : Len(chunks[i]) = 0
    BY <2>1
  <2>4. 1 .. Len(chunks) - 1 = {}
    BY <2>3
  <2> HIDE DEF s, chunks
  <2>5. JoinsTo(chunks, input, s)
    BY <1>1, <1>2, <2>2, <2>3, <2>4 DEF JoinsTo
  <2> QED BY <2>5 DEF s, chunks
<1>3. CASE input # <<>>
  <2>1. Len(input) >= 1
    BY <1>3, EmptySeq
  <2> HIDE DEF s
  <2>2. chunks = [i \in 1 .. n |-> SubSeq(input, (i - 1) * s + 1, end(i))]
    BY <1>3 DEF ChunkBytes, s
  <2> HIDE DEF n
  <2>3. n \in Nat \ {0} /\ (n - 1) * s < Len(input) /\ Len(input) <= n * s
    <3> DEFINE k == Len(input) + s - 1
    <3>1. k \in Nat /\ k >= s
      BY <1>1, <2>1
    <3> HIDE DEF k
    <3>2. n = k \div s
      BY DEF n, Rounds, k
    <3>3. n \in Nat /\ k % s \in Nat /\ k % s < s /\ k = s * n + (k % s)
      BY <1>1, <3>1, <3>2, DivMod
    <3>4. n # 0
      <4>1. SUFFICES ASSUME n = 0 PROVE FALSE
        OBVIOUS
      <4>2. s * n = 0
        BY <1>1, <4>1
      <4> QED BY <1>1, <3>1, <3>3, <4>2
    <3>5. s * n = n * s /\ (n - 1) * s = n * s - s /\ n * s \in Nat
      BY <1>1, <3>3
    <3>6. k = Len(input) + s - 1
      BY DEF k
    <3> QED BY <1>1, <3>3, <3>4, <3>5, <3>6
  <2>4. \A i \in 0 .. n - 1 : i * s \in Nat /\ i * s < Len(input)
    <3>1. SUFFICES ASSUME NEW i \in 0 .. n - 1 PROVE i * s \in Nat /\ i * s < Len(input)
      OBVIOUS
    <3>2. i * s \in Nat
      BY <1>1, TimesNat
    <3>3. i * s <= (n - 1) * s
      BY <1>1, <2>3
    <3>4. (n - 1) * s \in Int
      BY <1>1, <2>3
    <3> QED BY <1>1, <2>3, <3>2, <3>3, <3>4
  <2> DEFINE c == [i \in 0 .. n |-> IF i = n THEN Len(input) ELSE i * s]
  <2>5. c \in [0 .. n -> 0 .. Len(input)] /\ c[0] = 0 /\ c[n] = Len(input)
    <3>1. ASSUME NEW i \in 0 .. n PROVE (IF i = n THEN Len(input) ELSE i * s) \in 0 .. Len(input)
      <4>1. CASE i = n
        BY <1>1, <4>1
      <4>2. CASE i # n
        <5>1. i \in 0 .. n - 1
          BY <2>3, <4>2
        <5> QED BY <1>1, <2>4, <4>2, <5>1
      <4> QED BY <4>1, <4>2
    <3>2. 0 * s = 0 /\ n # 0 /\ 0 \in 0 .. n /\ n \in 0 .. n
      BY <1>1, <2>3
    <3> QED BY <3>1, <3>2
  <2>6. ASSUME NEW i \in 1 .. n
        PROVE  c[i - 1] = (i - 1) * s /\ c[i] = end(i) /\ c[i - 1] <= c[i]
               /\ (i # n => c[i] = c[i - 1] + s) /\ c[i] <= c[i - 1] + s
    <3>1. i - 1 \in 0 .. n - 1 /\ i - 1 \in 0 .. n /\ i - 1 # n /\ i \in 0 .. n
      BY <2>3
    <3>2. c[i - 1] = (i - 1) * s /\ (i - 1) * s \in Nat /\ (i - 1) * s < Len(input)
      BY <2>4, <3>1
    <3>3. i * s = (i - 1) * s + s
      BY <1>1
    <3>4. CASE i = n
      <4>1. c[i] = Len(input) /\ ~(i * s < Len(input))
        BY <1>1, <2>3, <2>5, <3>4
      <4> QED BY <1>1, <2>3, <3>2, <3>3, <3>4, <4>1
    <3>5. CASE i # n
      <4>1. i \in 0 .. n - 1
        BY <2>3, <3>5
      <4>2. c[i] = i * s /\ i * s < Len(input)
        BY <2>4, <3>1, <3>5, <4>1
      <4> QED BY <1>1, <3>2, <3>3, <3>5, <4>2
    <3> QED BY <3>4, <3>5
  <2> HIDE DEF c, chunks
  <2>7. Len(chunks) = n /\ DOMAIN chunks = 1 .. n
    BY <2>2, <2>3
  <2>8. \A i \in 1 .. n : chunks[i] = SubSeq(input, c[i - 1] + 1, c[i])
    BY <2>2, <2>6
  <2>9. FlattenSeq(chunks) = input
    <3>1. Cuts(chunks, input, n, c)
      BY <2>5, <2>6, <2>7, <2>8 DEF Cuts
    <3>2. FlattenSeq(chunks) = SubSeq(input, 1, c[n])
      BY <2>3, <3>1, FlattenCut
    <3> QED BY <2>5, <3>2, SubSeqFull
  <2>10. ASSUME NEW i \in 1 .. n
         PROVE  Len(chunks[i]) = c[i] - c[i - 1]
    <3>1. i - 1 \in 0 .. n /\ i \in 0 .. n
      BY <2>3
    <3>2. c[i - 1] \in Nat /\ c[i] \in Nat /\ c[i - 1] <= c[i] /\ c[i] <= Len(input)
      <4>1. c[i - 1] \in 0 .. Len(input) /\ c[i] \in 0 .. Len(input)
        BY <2>5, <3>1
      <4> QED BY <1>1, <2>6, <4>1
    <3>3. \A j \in c[i - 1] + 1 .. c[i] : input[j] \in A
      BY <1>1, <3>2
    <3>4. Len(SubSeq(input, c[i - 1] + 1, c[i])) =
            IF c[i - 1] + 1 <= c[i] THEN c[i] - (c[i - 1] + 1) + 1 ELSE 0
      <4>1. c[i - 1] + 1 \in Int /\ c[i] \in Int
        BY <3>2
      <4> QED BY <3>3, <4>1, SubSeqProperties
    <3>5. chunks[i] = SubSeq(input, c[i - 1] + 1, c[i])
      BY <2>8
    <3>6. (IF c[i - 1] + 1 <= c[i] THEN c[i] - (c[i - 1] + 1) + 1 ELSE 0) = c[i] - c[i - 1]
      BY <3>2
    <3> QED BY <3>4, <3>5, <3>6
  <2>11. ASSUME NEW i \in 1 .. n PROVE Len(chunks[i]) <= s /\ (i # n => Len(chunks[i]) = s)
    <3>1. c[i - 1] \in Nat /\ c[i] \in Nat
      <4>1. i - 1 \in 0 .. n /\ i \in 0 .. n
        BY <2>3
      <4> QED BY <2>5, <4>1
    <3> QED BY <1>1, <2>6, <2>10, <3>1
  <2>12. chunks # <<>>
    BY <2>3, <2>7
  <2>13. \A i \in 1 .. Len(chunks) - 1 : i \in 1 .. n /\ i # n
    BY <2>3, <2>7
  <2>14. JoinsTo(chunks, input, s)
    BY <2>7, <2>9, <2>11, <2>12, <2>13 DEF JoinsTo
  <2> QED BY <2>14 DEF chunks, s
<1> QED BY <1>2, <1>3

-----------------------------------------------------------------------------
(* Sha256 *)

\* w stands in v behind the first o elements.
StandsIn(w, v, o) == o + Len(w) <= Len(v) /\ \A j \in 1 .. Len(w) : w[j] = v[o + j]

\* a and b delimit a piece of w.
Within(w, a, b) == a \in Nat /\ b \in Nat /\ 1 <= a /\ a <= b + 1 /\ b <= Len(w)

\* The piece of w is the one of v that is o further on.
SameSlice(A, w, v, o, a, b) ==
  SubSeq(w, a, b) = SubSeq(v, o + a, o + b) /\ SubSeq(w, a, b) \in Seq(A)

\* A piece of w is the piece of v at the place where w stands in v.
LEMMA SubShift ==
  ASSUME NEW A, NEW v \in Seq(A), NEW w \in Seq(A), NEW o \in Nat, StandsIn(w, v, o),
         NEW a, NEW b, Within(w, a, b)
  PROVE  SameSlice(A, w, v, o, a, b)
<1> DEFINE t == SubSeq(w, a, b)
<1>1. /\ Len(w) \in Nat /\ Len(v) \in Nat /\ o + Len(w) <= Len(v)
      /\ \A j \in 1 .. Len(w) : w[j] = v[o + j]
      /\ a \in Nat /\ b \in Nat /\ 1 <= a /\ a <= b + 1 /\ b <= Len(w)
  BY DEF StandsIn, Within
<1>2. \A i \in a .. b : w[i] \in A
  BY <1>1
<1>3. /\ t \in Seq(A)
      /\ Len(t) = IF a <= b THEN b - a + 1 ELSE 0
      /\ \A i \in 1 .. b - a + 1 : t[i] = w[a + i - 1]
  BY <1>1, <1>2, SubSeqProperties
<1> HIDE DEF t, SameSlice
<1>4. Len(t) = b + 1 - a /\ Len(t) \in Nat
  BY <1>1, <1>3
<1>5. ASSUME NEW i \in 1 .. Len(t) PROVE v[(o + a - 1) + i] = t[i]
  <2>1. i \in 1 .. b - a + 1 /\ a + i - 1 \in 1 .. Len(w) /\ o + (a + i - 1) = (o + a - 1) + i
    BY <1>1, <1>4
  <2> QED BY <1>1, <1>3, <2>1
<1>6. o + a - 1 \in Nat /\ (o + a - 1) + Len(t) <= Len(v)
  BY <1>1, <1>4
<1>7. SubSeq(v, (o + a - 1) + 1, (o + a - 1) + Len(t)) = t
  BY <1>3, <1>5, <1>6, Slice
<1>8. (o + a - 1) + 1 = o + a /\ (o + a - 1) + Len(t) = o + b
  BY <1>1, <1>4
<1> QED BY <1>3, <1>4, <1>7, <1>8 DEF t, SameSlice

\* What Sha256 has done with the bytes T it was given: their full blocks are
\* transformed, the rest is in the buffer.
Full(T) == Len(T) \div BlockSize
BlocksOf(T) == [i \in 1 .. Full(T) |-> SubSeq(T, (i - 1) * BlockSize + 1, i * BlockSize)]
LeftOver(T) == SubSeq(T, Full(T) * BlockSize + 1, Len(T))
Given(T, bits) == [buffer |-> LeftOver(T), bits |-> bits, blocks |-> BlocksOf(T)]

\* How many full blocks there are, and where they end.
LEMMA BlockBounds ==
  ASSUME NEW A, NEW T \in Seq(A)
  PROVE  /\ BlockSize \in Nat \ {0} /\ Len(T) \in Nat /\ Full(T) \in Nat
         /\ Full(T) * BlockSize \in Nat /\ Full(T) * BlockSize <= Len(T)
         /\ Len(T) % BlockSize \in Nat /\ Len(T) % BlockSize < BlockSize
         /\ Len(T) = Full(T) * BlockSize + (Len(T) % BlockSize)
         /\ \A i \in 1 .. Full(T) : /\ (i - 1) * BlockSize \in Nat
                                    /\ i * BlockSize = (i - 1) * BlockSize + BlockSize
                                    /\ i * BlockSize <= Full(T) * BlockSize
<1>1. BlockSize \in Nat \ {0} /\ Len(T) \in Nat
  BY CodecAssumption, LenProperties
<1>2. /\ Full(T) \in Nat /\ Len(T) % BlockSize \in Nat /\ Len(T) % BlockSize < BlockSize
      /\ Len(T) = BlockSize * Full(T) + (Len(T) % BlockSize)
  BY <1>1, DivMod DEF Full
<1>3. Full(T) * BlockSize \in Nat /\ Full(T) * BlockSize = BlockSize * Full(T)
  BY <1>1, <1>2
<1>4. ASSUME NEW i \in 1 .. Full(T)
      PROVE  /\ (i - 1) * BlockSize \in Nat
             /\ i * BlockSize = (i - 1) * BlockSize + BlockSize
             /\ i * BlockSize <= Full(T) * BlockSize
  <2>1. i - 1 \in Nat /\ i \in Nat /\ i <= Full(T)
    BY <1>2
  <2>2. (i - 1) * BlockSize \in Nat
    BY <1>1, <2>1, TimesNat
  <2>3. i * BlockSize = (i - 1) * BlockSize + BlockSize
    BY <1>1, <2>1
  <2>4. i * BlockSize <= Full(T) * BlockSize
    BY <1>1, <1>2, <2>1, TimesMonotonic
  <2> QED BY <2>2, <2>3, <2>4
<1>5. Full(T) * BlockSize <= Len(T) /\ Len(T) = Full(T) * BlockSize + (Len(T) % BlockSize)
  BY <1>2, <1>3
<1> QED BY <1>1, <1>2, <1>3, <1>4, <1>5

\* The full blocks are sequences of bytes.
LEMMA BlocksType ==
  ASSUME NEW A, NEW T \in Seq(A)
  PROVE  BlocksOf(T) \in Seq(Seq(A)) /\ Len(BlocksOf(T)) = Full(T)
<1>1. Full(T) \in Nat /\ Len(T) \in Nat
  BY BlockBounds
<1>2. ASSUME NEW i \in 1 .. Full(T)
      PROVE  SubSeq(T, (i - 1) * BlockSize + 1, i * BlockSize) \in Seq(A)
  <2> DEFINE a == (i - 1) * BlockSize
             b == i * BlockSize
  <2>1. a \in Nat /\ b \in Nat /\ b <= Len(T)
    <3>1. /\ a \in Nat /\ b = a + BlockSize /\ b <= Full(T) * BlockSize
          /\ Full(T) * BlockSize <= Len(T) /\ Full(T) * BlockSize \in Nat /\ BlockSize \in Nat
      BY BlockBounds
    <3> HIDE DEF a, b
    <3> QED BY <1>1, <3>1
  <2> HIDE DEF a, b
  <2>2. \A j \in a + 1 .. b : T[j] \in A
    BY <1>1, <2>1
  <2>3. a + 1 \in Int /\ b \in Int
    BY <2>1
  <2>4. SubSeq(T, a + 1, b) \in Seq(A)
    BY <2>2, <2>3, SubSeqProperties
  <2> QED BY <2>4 DEF a, b
<1>3. BlocksOf(T) \in [1 .. Full(T) -> Seq(A)]
  BY <1>2 DEF BlocksOf
<1> QED BY <1>1, <1>3

\* What is left over is what stands behind the full blocks.
LEMMA LeftOverType ==
  ASSUME NEW A, NEW T \in Seq(A)
  PROVE  /\ LeftOver(T) \in Seq(A) /\ Len(LeftOver(T)) = Len(T) - Full(T) * BlockSize
         /\ \A j \in 1 .. Len(T) - Full(T) * BlockSize : LeftOver(T)[j] = T[Full(T) * BlockSize + j]
<1> DEFINE a == Full(T) * BlockSize
<1>1. a \in Nat /\ Len(T) \in Nat /\ a <= Len(T)
  BY BlockBounds
<1> HIDE DEF a
<1>2. LeftOver(T) = SubSeq(T, a + 1, Len(T))
  BY DEF LeftOver, a
<1>3. /\ \A j \in a + 1 .. Len(T) : T[j] \in A
      /\ a + 1 \in Int /\ Len(T) \in Int
  BY <1>1
<1>4. /\ SubSeq(T, a + 1, Len(T)) \in Seq(A)
      /\ Len(SubSeq(T, a + 1, Len(T))) = IF a + 1 <= Len(T) THEN Len(T) - (a + 1) + 1 ELSE 0
      /\ \A j \in 1 .. Len(T) - (a + 1) + 1 : SubSeq(T, a + 1, Len(T))[j] = T[(a + 1) + j - 1]
  BY <1>3, SubSeqProperties
<1>5. Len(LeftOver(T)) = Len(T) - a
  BY <1>1, <1>2, <1>4
<1>6. ASSUME NEW j \in 1 .. Len(T) - a PROVE LeftOver(T)[j] = T[a + j]
  <2>1. j \in 1 .. Len(T) - (a + 1) + 1 /\ (a + 1) + j - 1 = a + j
    BY <1>1
  <2> QED BY <1>2, <1>4, <2>1
<1> QED BY <1>2, <1>4, <1>5, <1>6 DEF a

\* Consume goes on where the last call stopped.
LEMMA ConsumeGiven ==
  ASSUME NEW A, NEW T \in Seq(A), NEW x \in Seq(A), NEW u
  PROVE  Consume([buffer |-> LeftOver(T) \o x, bits |-> u, blocks |-> BlocksOf(T)]) = Given(T \o x, u)
<1> DEFINE B == BlockSize
           W == T \o x
           w == LeftOver(T) \o x
           k == Full(T)
           m == Len(w) \div B
           new == [i \in 1 .. m |-> SubSeq(w, (i - 1) * B + 1, i * B)]
           rest == SubSeq(w, m * B + 1, Len(w))
<1>1. /\ B \in Nat \ {0} /\ k \in Nat /\ k * B \in Nat /\ k * B <= Len(T) /\ Len(T) \in Nat /\ Len(x) \in Nat
  BY BlockBounds, LenProperties
<1>2. Glued(A, T, x, W)
  BY Glue, Zenon
<1>3. Glued(A, LeftOver(T), x, w)
  BY LeftOverType, Glue, Zenon
<1>4. /\ LeftOver(T) \in Seq(A) /\ Len(LeftOver(T)) = Len(T) - k * B
      /\ \A j \in 1 .. Len(T) - k * B : LeftOver(T)[j] = T[k * B + j]
  BY LeftOverType
<1>5. Consume([buffer |-> w, bits |-> u, blocks |-> BlocksOf(T)]) =
        [buffer |-> rest, bits |-> u, blocks |-> BlocksOf(T) \o new]
  <2> DEFINE s == [buffer |-> w, bits |-> u, blocks |-> BlocksOf(T)]
  <2>1. s.buffer = w /\ s.bits = u /\ s.blocks = BlocksOf(T)
    OBVIOUS
  <2>2. Consume(s) = [s EXCEPT !.blocks = s.blocks \o new, !.buffer = rest]
    BY DEF Consume
  <2> HIDE DEF w, new, rest
  <2> QED BY <2>1, <2>2
<1> HIDE DEF B, W, w, k, m, new, rest
<1>6. W \in Seq(A) /\ Len(W) = Len(T) + Len(x) /\ w \in Seq(A) /\ Len(w) = Len(T) - k * B + Len(x)
      /\ Len(w) \in Nat /\ Len(W) \in Nat
  BY <1>2, <1>3, <1>4 DEF Glued
<1>7. k * B + Len(w) = Len(W)
  BY <1>1, <1>6
<1>8. ASSUME NEW j \in 1 .. Len(w) PROVE w[j] = W[k * B + j]
  <2>1. CASE j <= Len(T) - k * B
    <3>1. j \in 1 .. Len(T) - k * B /\ k * B + j \in 1 .. Len(T) /\ j \in 1 .. Len(LeftOver(T))
      BY <1>1, <1>4, <1>6, <2>1
    <3> QED BY <1>2, <1>3, <1>4, <3>1 DEF Glued
  <2>2. CASE ~(j <= Len(T) - k * B)
    <3> DEFINE h == j - (Len(T) - k * B)
    <3>1. h \in 1 .. Len(x) /\ j = (Len(T) - k * B) + h /\ k * B + j = Len(T) + h
      BY <1>1, <1>6, <2>2
    <3> HIDE DEF h
    <3>2. w[(Len(T) - k * B) + h] = x[h] /\ W[Len(T) + h] = x[h]
      BY <1>2, <1>3, <1>4, <3>1 DEF Glued
    <3> QED BY <3>1, <3>2
  <2> QED BY <2>1, <2>2
<1>9. StandsIn(w, W, k * B)
  BY <1>6, <1>7, <1>8 DEF StandsIn
<1>10. /\ m \in Nat /\ Len(w) % B \in Nat /\ Len(w) % B < B /\ Len(w) = B * m + (Len(w) % B)
      /\ m * B = B * m /\ m * B \in Nat /\ m * B <= Len(w)
  <2>1. m \in Nat /\ Len(w) % B \in Nat /\ Len(w) % B < B /\ Len(w) = B * m + (Len(w) % B)
    BY <1>1, <1>6, DivMod DEF m
  <2>2. m * B = B * m /\ m * B \in Nat
    BY <1>1, <2>1
  <2> QED BY <1>6, <2>1, <2>2
<1>11. Full(W) = k + m
  <2>1. B * (k + m) = k * B + B * m
    BY <1>1, <1>10
  <2>2. Len(W) = B * (k + m) + (Len(w) % B)
    BY <1>1, <1>7, <1>10, <2>1
  <2>3. k + m \in Nat
    BY <1>1, <1>10
  <2>4. Len(W) \div B = k + m
    BY <1>1, <1>6, <1>10, <2>2, <2>3, DivModUnique
  <2> QED BY <2>4 DEF Full, B
<1>12. rest = LeftOver(W)
  <2>1. (k + m) * B = k * B + m * B
    BY <1>1, <1>10
  <2>2. SubSeq(w, m * B + 1, Len(w)) = SubSeq(W, k * B + (m * B + 1), k * B + Len(w))
    <3>1. /\ m * B + 1 \in Nat /\ 1 <= m * B + 1 /\ m * B + 1 <= Len(w) + 1
          /\ Len(w) <= Len(w)
      BY <1>6, <1>10
    <3>2. Within(w, m * B + 1, Len(w))
      BY <1>6, <3>1 DEF Within
    <3>3. SameSlice(A, w, W, k * B, m * B + 1, Len(w))
      BY <1>1, <1>6, <1>9, <3>2, SubShift, Zenon
    <3> QED BY <3>3, Zenon DEF SameSlice
  <2>3. k * B + (m * B + 1) = (k + m) * B + 1
    BY <1>1, <1>10, <2>1
  <2> QED BY <1>7, <1>11, <2>2, <2>3 DEF rest, LeftOver, B
<1>13. new \in Seq(Seq(A)) /\ Len(new) = m
       /\ \A i \in 1 .. m : new[i] = SubSeq(W, (k + i - 1) * B + 1, (k + i) * B)
  <2>1. ASSUME NEW i \in 1 .. m
        PROVE  /\ SubSeq(w, (i - 1) * B + 1, i * B) \in Seq(A)
               /\ SubSeq(w, (i - 1) * B + 1, i * B) = SubSeq(W, (k + i - 1) * B + 1, (k + i) * B)
    <3> DEFINE a == (i - 1) * B
               b == i * B
    <3>1. a \in Nat /\ b = a + B /\ b <= m * B
      <4>1. i - 1 \in Nat /\ i \in Nat /\ i <= m
        BY <1>10
      <4>2. (i - 1) * B \in Nat
        BY <1>1, <4>1, TimesNat
      <4>3. i * B = (i - 1) * B + B
        BY <1>1, <4>1
      <4>4. i * B <= m * B
        BY <1>1, <1>10, <4>1, TimesMonotonic
      <4> QED BY <4>2, <4>3, <4>4
    <3>2. (k + i - 1) * B = k * B + a /\ (k + i) * B = k * B + b
      BY <1>1, <1>10
    <3> HIDE DEF a, b
    <3>3. /\ a + 1 \in Nat /\ b \in Nat /\ 1 <= a + 1 /\ a + 1 <= b + 1 /\ b <= Len(w)
      BY <1>1, <1>6, <1>10, <3>1
    <3>4. SubSeq(w, a + 1, b) = SubSeq(W, k * B + (a + 1), k * B + b) /\ SubSeq(w, a + 1, b) \in Seq(A)
      <4>1. Within(w, a + 1, b)
        BY <3>3 DEF Within
      <4>2. SameSlice(A, w, W, k * B, a + 1, b)
        BY <1>1, <1>6, <1>9, <4>1, SubShift, Zenon
      <4> QED BY <4>2, Zenon DEF SameSlice
    <3>5. k * B + (a + 1) = (k + i - 1) * B + 1
      BY <1>1, <3>1, <3>2
    <3>6. /\ SubSeq(w, a + 1, b) \in Seq(A)
          /\ SubSeq(w, a + 1, b) = SubSeq(W, (k + i - 1) * B + 1, (k + i) * B)
      BY <3>2, <3>4, <3>5
    <3> QED BY <3>6 DEF a, b
  <2>2. new \in [1 .. m -> Seq(A)]
    BY <2>1 DEF new
  <2>3. \A i \in 1 .. m : new[i] = SubSeq(W, (k + i - 1) * B + 1, (k + i) * B)
    BY <2>1 DEF new
  <2> QED BY <1>10, <2>2, <2>3
<1>14. ASSUME NEW i \in 1 .. k PROVE BlocksOf(T)[i] = SubSeq(W, (i - 1) * B + 1, i * B)
  <2> DEFINE a == (i - 1) * B
             b == i * B
  <2>1. a \in Nat /\ b = a + B /\ b <= Len(T)
    <3>1. /\ (i - 1) * BlockSize \in Nat /\ i * BlockSize = (i - 1) * BlockSize + BlockSize
          /\ i * BlockSize <= Full(T) * BlockSize /\ Full(T) * BlockSize <= Len(T)
          /\ Full(T) * BlockSize \in Nat /\ Len(T) \in Nat /\ BlockSize \in Nat
      BY BlockBounds DEF k
    <3> QED BY <3>1 DEF B
  <2>2. BlocksOf(T)[i] = SubSeq(T, a + 1, b)
    BY DEF BlocksOf, k, B
  <2> HIDE DEF a, b
  <2>3. /\ a + 1 \in Nat /\ b \in Nat /\ 1 <= a + 1 /\ a + 1 <= b + 1 /\ 0 + Len(T) <= Len(W) /\ 0 \in Nat
    BY <1>1, <1>6, <2>1
  <2>4. ASSUME NEW j \in 1 .. Len(T) PROVE T[j] = W[0 + j]
    <3>1. 0 + j = j
      OBVIOUS
    <3> QED BY <1>2, <3>1 DEF Glued
  <2>5. SubSeq(T, a + 1, b) = SubSeq(W, 0 + (a + 1), 0 + b)
    <3>1. StandsIn(T, W, 0)
      BY <2>3, <2>4 DEF StandsIn
    <3>2. Within(T, a + 1, b)
      BY <2>1, <2>3 DEF Within
    <3>3. SameSlice(A, T, W, 0, a + 1, b)
      BY <1>6, <2>3, <3>1, <3>2, SubShift, Zenon
    <3> QED BY <3>3, Zenon DEF SameSlice
  <2>6. 0 + (a + 1) = a + 1 /\ 0 + b = b
    BY <2>3
  <2> QED BY <2>2, <2>5, <2>6 DEF a, b
<1>15. BlocksOf(T) \o new = BlocksOf(W)
  <2>1. BlocksOf(T) \in Seq(Seq(A)) /\ Len(BlocksOf(T)) = k
    BY BlocksType DEF k
  <2>2. BlocksOf(W) \in Seq(Seq(A)) /\ Len(BlocksOf(W)) = k + m
    BY <1>6, <1>11, BlocksType
  <2>3. Glued(Seq(A), BlocksOf(T), new, BlocksOf(T) \o new)
    BY <1>13, <2>1, Glue, Zenon
  <2> DEFINE both == BlocksOf(T) \o new
  <2> HIDE DEF both
  <2>4. /\ both \in Seq(Seq(A)) /\ Len(both) = k + m
        /\ \A i \in 1 .. k : both[i] = BlocksOf(T)[i]
        /\ \A i \in 1 .. m : both[k + i] = new[i]
    BY <1>13, <2>1, <2>3 DEF Glued, both
  <2>5. ASSUME NEW i \in 1 .. k + m PROVE both[i] = BlocksOf(W)[i]
    <3>1. BlocksOf(W)[i] = SubSeq(W, (i - 1) * B + 1, i * B)
      BY <1>11 DEF BlocksOf, B
    <3>2. CASE i <= k
      <4>1. i \in 1 .. k
        BY <1>1, <3>2
      <4> QED BY <1>14, <2>4, <3>1, <4>1
    <3>3. CASE ~(i <= k)
      <4> DEFINE h == i - k
      <4>1. h \in 1 .. m /\ i = k + h
        BY <1>1, <1>10, <3>3
      <4> HIDE DEF h
      <4>2. both[k + h] = new[h] /\ new[h] = SubSeq(W, (k + h - 1) * B + 1, (k + h) * B)
        BY <1>13, <2>4, <4>1
      <4>3. k + h = i /\ k + h - 1 = i - 1
        BY <1>1, <4>1
      <4>4. both[i] = SubSeq(W, (i - 1) * B + 1, i * B)
        BY <4>2, <4>3, Zenon
      <4> QED BY <3>1, <4>4
    <3> QED BY <3>2, <3>3
  <2>6. both = BlocksOf(W)
    BY <2>2, <2>4, <2>5, SeqEqual
  <2> QED BY <2>6 DEF both
<1> QED BY <1>5, <1>12, <1>15, Zenon DEF Given, W, w

\* What is left over fits into less than a block, and nothing is left over of full
\* blocks.
LEMMA LeftOverShort ==
  ASSUME NEW A, NEW T \in Seq(A)
  PROVE  /\ Len(LeftOver(T)) = Len(T) % BlockSize
         /\ Len(T) % BlockSize = 0 => LeftOver(T) = <<>>
<1>1. Len(LeftOver(T)) = Len(T) % BlockSize
  <2> DEFINE a == Full(T) * BlockSize
             r == Len(T) % BlockSize
  <2>1. a \in Nat /\ r \in Nat /\ Len(T) \in Nat /\ Len(T) = a + r
    BY BlockBounds
  <2>2. Len(LeftOver(T)) = Len(T) - a
    BY LeftOverType
  <2> HIDE DEF a, r
  <2>3. Len(LeftOver(T)) = r
    BY <2>1, <2>2
  <2> QED BY <2>3 DEF r
<1>2. LeftOver(T) \in Seq(A)
  BY LeftOverType
<1> QED BY <1>1, <1>2, EmptySeq

\* The blocks of full blocks are all of it.
LEMMA BlocksFlatten ==
  ASSUME NEW A, NEW T \in Seq(A), Len(T) # 0, Len(T) % BlockSize = 0
  PROVE  FlattenSeq(BlocksOf(T)) = T
<1> DEFINE n == Full(T)
           c == [i \in 0 .. n |-> i * BlockSize]
<1>1. BlockSize \in Nat \ {0} /\ n \in Nat /\ Len(T) \in Nat /\ n * BlockSize \in Nat
  BY BlockBounds
<1>2. Len(T) = n * BlockSize
  <2> DEFINE a == n * BlockSize
             r == Len(T) % BlockSize
  <2>1. Len(T) = a + r /\ a \in Nat /\ r = 0
    BY BlockBounds
  <2> HIDE DEF a, r
  <2>2. Len(T) = a
    BY <2>1
  <2> QED BY <2>2 DEF a
<1>3. n # 0
  <2>1. SUFFICES ASSUME n = 0 PROVE FALSE
    OBVIOUS
  <2>2. 0 * BlockSize = 0
    BY <1>1
  <2> QED BY <1>2, <2>1, <2>2
<1> HIDE DEF n
<1>4. ASSUME NEW i \in 0 .. n PROVE i * BlockSize \in Nat /\ i * BlockSize <= Len(T)
  BY <1>1, <1>2, TimesNat, TimesMonotonic
<1>5. c \in [0 .. n -> 0 .. Len(T)]
  <2>1. ASSUME NEW i \in 0 .. n PROVE i * BlockSize \in 0 .. Len(T)
    <3> DEFINE a == i * BlockSize
    <3>1. a \in Nat /\ a <= Len(T)
      BY <1>4
    <3> HIDE DEF a
    <3>2. a \in 0 .. Len(T)
      BY <1>1, <3>1
    <3> QED BY <3>2 DEF a
  <2> QED BY <2>1, Zenon
<1>6. c[0] = 0 /\ c[n] = Len(T)
  <2>1. 0 \in 0 .. n /\ n \in 0 .. n /\ 0 * BlockSize = 0
    BY <1>1
  <2> QED BY <1>2, <2>1
<1>7. ASSUME NEW i \in 1 .. n
      PROVE  c[i - 1] <= c[i] /\ BlocksOf(T)[i] = SubSeq(T, c[i - 1] + 1, c[i])
  <2>1. i - 1 \in 0 .. n /\ i \in 0 .. n
    BY <1>1
  <2>2. c[i - 1] = (i - 1) * BlockSize /\ c[i] = i * BlockSize
    BY <2>1
  <2>3. BlocksOf(T)[i] = SubSeq(T, (i - 1) * BlockSize + 1, i * BlockSize)
    BY DEF BlocksOf, n
  <2>4. (i - 1) * BlockSize <= i * BlockSize
    BY <1>1, <2>1, TimesMonotonic
  <2> HIDE DEF c
  <2> QED BY <2>2, <2>3, <2>4
<1> HIDE DEF c
<1>8. Len(BlocksOf(T)) = n
  BY BlocksType DEF n
<1>9. Cuts(BlocksOf(T), T, n, c)
  BY <1>5, <1>6, <1>7, <1>8 DEF Cuts
<1>10. FlattenSeq(BlocksOf(T)) = SubSeq(T, 1, c[n])
  BY <1>1, <1>3, <1>9, FlattenCut
<1> QED BY <1>6, <1>10, SubSeqFull

\* A remainder may be taken before or after adding.
LEMMA ModAdd ==
  ASSUME NEW a \in Nat, NEW b \in Nat, NEW m \in Nat \ {0}
  PROVE  ((a % m) + b) % m = (a + b) % m
<1> DEFINE q == a \div m
           r == a % m
           p == (r + b) \div m
           t == (r + b) % m
<1>1. q \in Nat /\ r \in Nat /\ a = m * q + r
  BY DivMod
<1> HIDE DEF q, r
<1>2. p \in Nat /\ t \in Nat /\ t < m /\ r + b = m * p + t
  BY <1>1, DivMod
<1> HIDE DEF p, t
<1>3. m * (q + p) = m * q + m * p /\ m * q \in Nat /\ m * p \in Nat
  BY <1>1, <1>2
<1>4. a + b = m * (q + p) + t /\ q + p \in Nat /\ a + b \in Nat
  BY <1>1, <1>2, <1>3
<1>5. (a + b) % m = t
  BY <1>2, <1>4, DivModUnique
<1> QED BY <1>5 DEF t, r

\* update and digest set the buffer of a state, and update its length.
Fed(s, d, u) == [s EXCEPT !.bits = u, !.buffer = d]
Refilled(s, d) == [s EXCEPT !.buffer = d]
Holding(s, a, b, c) == s = [buffer |-> a, bits |-> b, blocks |-> c]

\* The states that update and digest hand to the loop over full blocks.
LEMMA SetInput ==
  ASSUME NEW a, NEW b, NEW c, NEW s, Holding(s, a, b, c), NEW d, NEW u
  PROVE  Holding(Fed(s, d, u), d, u, c) /\ Holding(Refilled(s, d), d, b, c)
<1> DEFINE N == {"buffer", "bits", "blocks"}
           e == [s EXCEPT !.bits = u, !.buffer = d]
           r == [buffer |-> d, bits |-> u, blocks |-> c]
           f == [s EXCEPT !.buffer = d]
           q == [buffer |-> d, bits |-> b, blocks |-> c]
<1>1. /\ e = [i \in N |-> e[i]] /\ e.bits = u /\ e.buffer = d /\ e.blocks = c
      /\ r = [i \in N |-> r[i]] /\ r.bits = u /\ r.buffer = d /\ r.blocks = c
  BY DEF Holding
<1>2. /\ f = [i \in N |-> f[i]] /\ f.bits = b /\ f.buffer = d /\ f.blocks = c
      /\ q = [i \in N |-> q[i]] /\ q.bits = b /\ q.buffer = d /\ q.blocks = c
  BY DEF Holding
<1>3. e = r /\ f = q
  <2> HIDE DEF e, r, f, q
  <2>1. (\A i \in N : e[i] = r[i]) /\ (\A i \in N : f[i] = q[i])
    BY <1>1, <1>2
  <2> HIDE DEF N
  <2> QED BY <1>1, <1>2, <2>1
<1> QED BY <1>3, Zenon DEF Fed, Refilled, Holding

\* However update is called, the bytes count in the order in which they came.
LEMMA UpdateGiven ==
  ASSUME NEW A, NEW T \in Seq(A), NEW x \in Seq(A)
  PROVE  Update(Given(T, (Len(T) * 8) % Power[LengthBytes]), x)
           = Given(T \o x, (Len(T \o x) * 8) % Power[LengthBytes])
<1> DEFINE P == Power[LengthBytes]
           t == (Len(T) * 8) % P
           u == (t + Len(x) * 8) % P
           s == Given(T, t)
<1>1. LengthBytes \in Nat /\ P \in Nat \ {0} /\ Len(T) \in Nat /\ Len(x) \in Nat
  BY CodecAssumption, PowerType, LenProperties
<1>2. u = (Len(T \o x) * 8) % P
  <2>1. Len(T \o x) = Len(T) + Len(x)
    BY ConcatProperties
  <2>2. Len(T) * 8 \in Nat /\ Len(x) * 8 \in Nat /\ (Len(T) + Len(x)) * 8 = Len(T) * 8 + Len(x) * 8
    BY <1>1
  <2>3. (((Len(T) * 8) % P) + Len(x) * 8) % P = (Len(T) * 8 + Len(x) * 8) % P
    BY <1>1, <2>2, ModAdd
  <2> QED BY <2>1, <2>2, <2>3
<1> HIDE DEF u, t
<1>3. s.buffer = LeftOver(T) /\ s.bits = t /\ s.blocks = BlocksOf(T)
  BY DEF Given
<1>4. Fed(s, s.buffer \o x, u) = [buffer |-> LeftOver(T) \o x, bits |-> u, blocks |-> BlocksOf(T)]
  <2>1. Holding(s, LeftOver(T), t, BlocksOf(T))
    BY Zenon DEF Given, Holding
  <2>2. s.buffer \o x = LeftOver(T) \o x
    BY <1>3
  <2> HIDE DEF s
  <2>3. Holding(Fed(s, s.buffer \o x, u), s.buffer \o x, u, BlocksOf(T))
    BY <2>1, SetInput, Zenon
  <2> QED BY <2>2, <2>3, Zenon DEF Holding
<1>5. Update(s, x) = Consume([buffer |-> LeftOver(T) \o x, bits |-> u, blocks |-> BlocksOf(T)])
  <2>1. Update(s, x) = Consume(Fed(s, s.buffer \o x, (s.bits + Len(x) * 8) % P))
    BY Zenon DEF Update, P, Fed
  <2>2. (s.bits + Len(x) * 8) % P = u
    BY <1>3, Zenon DEF u
  <2> QED BY <1>4, <2>1, <2>2, Zenon
<1>6. Update(s, x) = Given(T \o x, u)
  BY <1>5, ConsumeGiven
<1> QED BY <1>2, <1>6 DEF t

\* A new Sha256 has been given nothing.
LEMMA NothingGiven == NewSha = Given(<<>>, (Len(<<>>) * 8) % Power[LengthBytes])
<1>1. Power[LengthBytes] \in Nat \ {0} /\ BlockSize \in Nat \ {0}
  BY CodecAssumption, PowerType
<1>2. Len(<<>>) = 0 /\ (0 * 8) % Power[LengthBytes] = 0
  BY <1>1
<1>3. Full(<<>>) = 0
  <2>1. 0 \div BlockSize = 0
    BY <1>1
  <2> QED BY <2>1 DEF Full
<1>4. BlocksOf(<<>>) = <<>>
  BY <1>3 DEF BlocksOf
<1>5. LeftOver(<<>>) = <<>>
  <2>1. <<>> \in Seq({})
    OBVIOUS
  <2>2. Len(<<>>) % BlockSize = 0
    BY <1>1
  <2> QED BY <2>1, <2>2, LeftOverShort
<1> QED BY <1>2, <1>4, <1>5 DEF NewSha, Given

\* The number of zeros that fill up the last block, counted from the length of the
\* buffer or from that of the message.
LEMMA ZerosFill ==
  ASSUME NEW n \in Nat
  PROVE  /\ Zeros(n) \in 0 .. BlockSize - 1
         /\ (n + Zeros(n) + LengthBytes) % BlockSize = 0
         /\ \A z \in 0 .. BlockSize - 1 : (n + z + LengthBytes) % BlockSize = 0 => z = Zeros(n)
<1> DEFINE B == BlockSize
           L == LengthBytes
           P(z) == (n + z) % B = B - L
<1>1. B \in Nat \ {0} /\ L \in Nat /\ L < B /\ 1 <= L
  BY CodecAssumption
<1> HIDE DEF B, L
<1>2. ASSUME NEW z \in 0 .. B - 1 PROVE P(z) <=> (n + z + L) % B = 0
  <2> DEFINE q == (n + z) \div B
             r == (n + z) % B
  <2>1. n + z \in Nat
    BY <1>1
  <2>2. q \in Nat /\ r \in Nat /\ r < B /\ n + z = B * q + r /\ B * q \in Nat
    BY <1>1, <2>1, DivMod, TimesNat
  <2> HIDE DEF q, r
  <2>3. CASE r = B - L
    <3>1. n + z + L = B * (q + 1) + 0 /\ q + 1 \in Nat /\ n + z + L \in Nat /\ 0 \in Nat /\ 0 < B
      BY <1>1, <2>1, <2>2, <2>3
    <3>2. (n + z + L) % B = 0
      BY <1>1, <3>1, DivModUnique
    <3> QED BY <2>3, <3>2 DEF r
  <2>4. CASE r # B - L
    <3>1. CASE r + L < B
      <4>1. n + z + L = B * q + (r + L) /\ r + L \in Nat /\ n + z + L \in Nat
        BY <1>1, <2>1, <2>2
      <4>2. (n + z + L) % B = r + L
        BY <1>1, <2>2, <3>1, <4>1, DivModUnique
      <4>3. r + L # 0
        BY <1>1, <2>2
      <4> QED BY <2>4, <4>2, <4>3 DEF r
    <3>2. CASE ~(r + L < B)
      <4>1. B * (q + 1) = B * q + B
        BY <1>1, <2>2
      <4>2. /\ n + z + L = B * (q + 1) + (r + L - B) /\ r + L - B \in Nat /\ r + L - B < B
            /\ n + z + L \in Nat /\ q + 1 \in Nat
        BY <1>1, <2>1, <2>2, <3>2, <4>1
      <4>3. (n + z + L) % B = r + L - B
        BY <1>1, <4>2, DivModUnique
      <4>4. r + L - B # 0
        BY <1>1, <2>2, <2>4
      <4> QED BY <2>4, <4>3, <4>4 DEF r
    <3> QED BY <3>1, <3>2
  <2> QED BY <2>3, <2>4
<1>3. \E z \in 0 .. B - 1 : P(z)
  <2> DEFINE q == n \div B
             r == n % B
  <2>1. q \in Nat /\ r \in Nat /\ r < B /\ n = B * q + r /\ B * q \in Nat
    BY <1>1, DivMod, TimesNat
  <2> HIDE DEF q, r
  <2>2. CASE r <= B - L
    <3>1. /\ (B - L) - r \in 0 .. B - 1 /\ n + ((B - L) - r) = B * q + (B - L)
          /\ B - L \in Nat /\ B - L < B /\ n + ((B - L) - r) \in Nat
      BY <1>1, <2>1, <2>2
    <3>2. (n + ((B - L) - r)) % B = B - L
      BY <1>1, <2>1, <3>1, DivModUnique
    <3> QED BY <3>1, <3>2
  <2>3. CASE ~(r <= B - L)
    <3>0. B * (q + 1) = B * q + B
      BY <1>1, <2>1
    <3>1. /\ (B - L) + B - r \in 0 .. B - 1 /\ n + ((B - L) + B - r) = B * (q + 1) + (B - L)
          /\ B - L \in Nat /\ B - L < B /\ n + ((B - L) + B - r) \in Nat /\ q + 1 \in Nat
      BY <1>1, <2>1, <2>3, <3>0
    <3>2. (n + ((B - L) + B - r)) % B = B - L
      BY <1>1, <3>1, DivModUnique
    <3> QED BY <3>1, <3>2
  <2> QED BY <2>2, <2>3
<1>4. Zeros(n) = CHOOSE z \in 0 .. B - 1 : P(z)
  BY DEF Zeros, B, L
<1>5. Zeros(n) \in 0 .. B - 1 /\ P(Zeros(n))
  <2> HIDE DEF P
  <2> QED BY <1>3, <1>4
<1>6. ASSUME NEW y \in 0 .. B - 1, NEW z \in 0 .. B - 1, P(y), P(z), y < z PROVE FALSE
  <2> DEFINE p == (n + y) \div B
             q == (n + z) \div B
  <2>1. n + y \in Nat /\ n + z \in Nat
    BY <1>1
  <2>2. /\ p \in Nat /\ q \in Nat
        /\ n + y = B * p + (B - L) /\ n + z = B * q + (B - L)
    <3>1. /\ p \in Nat /\ n + y = B * p + ((n + y) % B)
          /\ q \in Nat /\ n + z = B * q + ((n + z) % B)
      BY <1>1, <2>1, DivMod
    <3> QED BY <1>6, <3>1
  <2> HIDE DEF p, q
  <2>3. B * p \in Nat /\ B * q \in Nat /\ B * p < B * q /\ B * q < B * p + B
    BY <1>1, <1>6, <2>2, TimesNat
  <2>4. CASE q <= p
    <3>1. q * B <= p * B /\ q * B = B * q /\ p * B = B * p
      BY <1>1, <2>2, <2>4, TimesMonotonic
    <3> QED BY <2>3, <3>1
  <2>5. CASE ~(q <= p)
    <3>1. (p + 1) * B <= q * B
      BY <1>1, <2>2, <2>5, TimesMonotonic
    <3>2. (p + 1) * B = B * p + B /\ q * B = B * q
      BY <1>1, <2>2
    <3> QED BY <1>1, <2>3, <3>1, <3>2
  <2> QED BY <2>4, <2>5
<1>7. ASSUME NEW z \in 0 .. B - 1, (n + z + L) % B = 0 PROVE z = Zeros(n)
  <2>1. P(z)
    BY <1>2, <1>7
  <2> HIDE DEF P
  <2>2. ~(z < Zeros(n)) /\ ~(Zeros(n) < z)
    BY <1>5, <1>6, <2>1
  <2> QED BY <1>1, <1>5, <2>2
<1>8. (n + Zeros(n) + L) % B = 0
  BY <1>2, <1>5
<1> QED BY <1>5, <1>7, <1>8 DEF B, L

\* What digest appends to a message.
Trailer(z, t) == <<Digit(Base \div 2)>> \o [i \in 1 .. z |-> Digit(0)] \o Put(t, LengthBytes)

\* digest, which counts from the length of its buffer, appends as many zeros as the
\* standard, which counts from the length of the message.
LEMMA SameZeros ==
  ASSUME NEW n \in Nat
  PROVE  /\ Zeros((n % BlockSize) + 1) = CHOOSE z \in 0 .. BlockSize - 1 :
                                           (n + 1 + z + LengthBytes) % BlockSize = 0
         /\ Zeros((n % BlockSize) + 1) \in Nat
         /\ (n + 1 + Zeros((n % BlockSize) + 1) + LengthBytes) % BlockSize = 0
<1> DEFINE B == BlockSize
           L == LengthBytes
           r == (n % B) + 1
           P(z) == (n + 1 + z + L) % B = 0
<1>1. B \in Nat \ {0} /\ L \in Nat /\ n % B \in Nat /\ r \in Nat
  BY CodecAssumption, DivMod
<1>2. ASSUME NEW z \in 0 .. B - 1 PROVE P(z) <=> (r + z + L) % B = 0
  <2>1. 1 + z + L \in Nat /\ r + z + L = (n % B) + (1 + z + L) /\ n + 1 + z + L = n + (1 + z + L)
    BY <1>1
  <2>2. ((n % B) + (1 + z + L)) % B = (n + (1 + z + L)) % B
    BY <1>1, <2>1, ModAdd
  <2> QED BY <2>1, <2>2
<1>3. /\ Zeros(r) \in 0 .. B - 1 /\ (r + Zeros(r) + L) % B = 0
      /\ \A z \in 0 .. B - 1 : (r + z + L) % B = 0 => z = Zeros(r)
  BY <1>1, ZerosFill
<1> HIDE DEF r
<1>4. P(Zeros(r)) /\ \A z \in 0 .. B - 1 : P(z) => z = Zeros(r)
  BY <1>2, <1>3
<1>5. Zeros(r) = CHOOSE z \in 0 .. B - 1 : P(z)
  <2> HIDE DEF P, B
  <2> QED BY <1>3, <1>4
<1>6. Zeros(r) \in Nat
  BY <1>1, <1>3
<1> QED BY <1>4, <1>5, <1>6 DEF r

\* ab is b behind a.
Joined(a, b, ab) == ab = a \o b

\* Joining three sequences, from the left and from the right.
LEMMA Shift ==
  ASSUME NEW C, NEW a \in Seq(C), NEW b \in Seq(C), NEW c \in Seq(C), NEW ab, NEW bc, NEW abc,
         Joined(a, b, ab), Joined(b, c, bc), Joined(ab, c, abc)
  PROVE  Joined(a, bc, abc) /\ ab \in Seq(C)
BY ConcatAssociative, ConcatProperties DEF Joined

\* The same for four.
LEMMA Regroup ==
  ASSUME NEW C, NEW l \in Seq(C), NEW k \in Seq(C), NEW o \in Seq(C), NEW p \in Seq(C),
         NEW lk, Joined(l, k, lk), NEW lko, Joined(lk, o, lko), NEW ko, Joined(k, o, ko),
         NEW kop, Joined(ko, p, kop), NEW lkop, Joined(lko, p, lkop)
  PROVE  Joined(l, kop, lkop)
<1>1. Joined(l, ko, lko)
  BY Shift
<1>2. ko \in Seq(C)
  BY ConcatProperties DEF Joined
<1> QED BY <1>1, <1>2, Shift

\* The trailer is a one bit, zeros and the length.
LEMMA TrailerType ==
  ASSUME NEW z \in Nat, NEW t \in Nat
  PROVE  /\ Trailer(z, t) \in Seq(Bytes)
         /\ Len(Trailer(z, t)) = 1 + z + LengthBytes
<1> DEFINE m == <<Digit(Base \div 2)>>
           o == [i \in 1 .. z |-> Digit(0)]
           p == Put(t, LengthBytes)
<1>1. Base \div 2 \in Nat /\ LengthBytes \in Nat
  BY CodecAssumption, DivMod
<1>2. m \in Seq(Bytes) /\ Len(m) = 1
  <2>1. Digit(Base \div 2) \in Bytes
    BY <1>1 DEF Bytes
  <2> QED BY <2>1
<1>3. o \in Seq(Bytes) /\ Len(o) = z
  <2>1. Digit(0) \in Bytes
    BY DEF Bytes
  <2> QED BY <2>1
<1>4. p \in Seq(Bytes) /\ Len(p) = LengthBytes
  BY <1>1, PutType
<1>5. Trailer(z, t) = (m \o o) \o p
  BY Zenon DEF Trailer
<1> HIDE DEF m, o, p
<1>6. m \o o \in Seq(Bytes) /\ Len(m \o o) = 1 + z
  BY <1>2, <1>3, ConcatProperties
<1> QED BY <1>1, <1>4, <1>5, <1>6, ConcatProperties

\* digest closes the bytes given with the trailer.
LEMMA DigestGiven ==
  ASSUME NEW A, NEW T \in Seq(A), NEW t \in Nat
  PROVE  Digest(Given(T, t)) = Given(T \o Trailer(Zeros((Len(T) % BlockSize) + 1), t), t)
<1> DEFINE l == LeftOver(T)
           s == Given(T, t)
           z == Zeros((Len(T) % BlockSize) + 1)
           m == Digit(Base \div 2)
           o == [i \in 1 .. z |-> Digit(0)]
           p == Put(t, LengthBytes)
           C == A \cup Bytes
<1>1. l \in Seq(A) /\ Len(l) = Len(T) % BlockSize /\ Len(T) \in Nat
  BY LeftOverType, LeftOverShort
<1>2. z \in Nat
  BY <1>1, SameZeros
<1>3. s.buffer = l /\ s.bits = t /\ s = [buffer |-> l, bits |-> t, blocks |-> BlocksOf(T)]
  BY DEF Given
<1>4. Append(l, m) = l \o <<m>> /\ Len(Append(l, m)) = (Len(T) % BlockSize) + 1
  <2>1. l \in Seq(C) /\ m \in C
    <3>1. Base \div 2 \in Nat
      BY CodecAssumption, DivMod
    <3> QED BY <1>1, <3>1 DEF Bytes
  <2> HIDE DEF l, m, C
  <2>2. Append(l, m) = l \o <<m>> /\ Len(Append(l, m)) = Len(l) + 1
    BY <2>1, AppendIsConcat, AppendProperties
  <2> QED BY <1>1, <2>2
<1>5. Digest(s) = Consume(Refilled(s, (Append(s.buffer, m) \o [i \in 1 .. Zeros(Len(Append(s.buffer, m))) |-> Digit(0)])
                                      \o Put(s.bits, LengthBytes)))
  BY Zenon DEF Digest, Refilled
<1>6. Digest(s) = Consume(Refilled(s, ((l \o <<m>>) \o o) \o p))
  BY <1>3, <1>4, <1>5
<1>7. ((l \o <<m>>) \o o) \o p = l \o Trailer(z, t)
  <2>1. <<m>> \in Seq(Bytes) /\ o \in Seq(Bytes) /\ p \in Seq(Bytes)
    <3>1. Base \div 2 \in Nat /\ LengthBytes \in Nat
      BY CodecAssumption, DivMod
    <3>2. m \in Bytes /\ Digit(0) \in Bytes
      BY <3>1 DEF Bytes
    <3>3. p \in Seq(Bytes)
      BY <3>1, PutType
    <3> HIDE DEF m, z, p
    <3> QED BY <1>2, <3>2, <3>3
  <2>2. Trailer(z, t) = (<<m>> \o o) \o p
    BY Zenon DEF Trailer
  <2>3. l \in Seq(C) /\ <<m>> \in Seq(C) /\ o \in Seq(C) /\ p \in Seq(C)
    BY <1>1, <2>1
  <2> DEFINE k == <<m>>
  <2> HIDE DEF l, k, o, p, C
  <2>4. l \in Seq(C) /\ k \in Seq(C) /\ o \in Seq(C) /\ p \in Seq(C)
    BY <2>3 DEF k
  <2> DEFINE x1 == l \o k
             x2 == x1 \o o
             y1 == k \o o
             y2 == y1 \o p
             x3 == x2 \o p
  <2>5. /\ Joined(l, k, x1) /\ Joined(x1, o, x2) /\ Joined(k, o, y1) /\ Joined(y1, p, y2)
        /\ Joined(x2, p, x3)
    BY Zenon DEF Joined
  <2> HIDE DEF x1, x2, x3, y1, y2
  <2>6. Joined(l, y2, x3)
    BY <2>4, <2>5, Regroup
  <2> QED BY <2>2, <2>6 DEF k, Joined, x1, x2, x3, y1, y2
<1>8. Refilled(s, l \o Trailer(z, t)) = [buffer |-> l \o Trailer(z, t), bits |-> t, blocks |-> BlocksOf(T)]
  <2>1. Holding(s, l, t, BlocksOf(T))
    BY <1>3, Zenon DEF Holding
  <2> HIDE DEF s, l
  <2>2. Holding(Refilled(s, l \o Trailer(z, t)), l \o Trailer(z, t), t, BlocksOf(T))
    BY <2>1, SetInput, Zenon
  <2> QED BY <2>2, Zenon DEF Holding
<1>9. Trailer(z, t) \in Seq(C) /\ T \in Seq(C)
  <2>1. Trailer(z, t) \in Seq(Bytes)
    BY <1>2, TrailerType
  <2> HIDE DEF z
  <2> QED BY <2>1
<1>10. Digest(s) = Given(T \o Trailer(z, t), t)
  <2> HIDE DEF z
  <2> QED BY <1>6, <1>7, <1>8, <1>9, ConsumeGiven DEF l
<1> QED BY <1>10

\* Whatever is hashed, in however many calls of update it is given (two stand for
\* any number: see UpdateGiven), Sha256 compresses exactly the standard padding of
\* the message and keeps nothing in its buffer.
THEOREM PaddingIsStandard ==
  ASSUME NEW A, NEW x \in Seq(A), NEW y \in Seq(A)
  PROVE  LET s == Digest(Update(Update(NewSha, x), y)) IN
         s.buffer = <<>> /\ FlattenSeq(s.blocks) = StandardPadding(x \o y)
<1> DEFINE bits(T) == (Len(T) * 8) % Power[LengthBytes]
           m == x \o y
           t == bits(m)
           z == Zeros((Len(m) % BlockSize) + 1)
           W == m \o Trailer(z, t)
           C == A \cup Bytes
           s == Digest(Update(Update(NewSha, x), y))
<1>1. Update(Update(NewSha, x), y) = Given(m, t)
  <2>1. <<>> \in Seq(A) /\ <<>> \o x = x
    BY ConcatEmptySeq
  <2>2. Update(NewSha, x) = Given(x, bits(x))
    <3>1. Update(NewSha, x) = Given(<<>> \o x, bits(<<>> \o x))
      BY <2>1, NothingGiven, UpdateGiven
    <3> QED BY <2>1, <3>1
  <2> QED BY <2>2, UpdateGiven
<1>2. m \in Seq(A) /\ Len(m) \in Nat /\ t \in Nat
  <2>1. m \in Seq(A) /\ Len(m) \in Nat
    BY ConcatProperties, LenProperties
  <2>2. Power[LengthBytes] \in Nat \ {0} /\ Len(m) * 8 \in Nat
    BY <2>1, CodecAssumption, PowerType
  <2> QED BY <2>1, <2>2, DivMod
<1>3. s = Given(W, t)
  BY <1>1, <1>2, DigestGiven
<1>4. /\ z \in Nat /\ (Len(m) + 1 + z + LengthBytes) % BlockSize = 0
      /\ z = CHOOSE n \in 0 .. BlockSize - 1 : (Len(m) + 1 + n + LengthBytes) % BlockSize = 0
  BY <1>2, SameZeros
<1>5. LengthBytes \in Nat
  BY CodecAssumption
<1>6. Trailer(z, t) \in Seq(Bytes) /\ Len(Trailer(z, t)) = 1 + z + LengthBytes
  BY <1>2, <1>4, TrailerType
<1>7. StandardPadding(m) = W
  <2> DEFINE g == <<Digit(Base \div 2)>>
             o == [i \in 1 .. z |-> Digit(0)]
             p == Put(t, LengthBytes)
  <2>1. StandardPadding(m) = ((m \o g) \o o) \o p
    <3> HIDE DEF z, m
    <3> QED BY <1>4 DEF StandardPadding
  <2>2. g \in Seq(Bytes) /\ o \in Seq(Bytes) /\ p \in Seq(Bytes)
    <3>1. Base \div 2 \in Nat
      BY CodecAssumption, DivMod
    <3>2. Digit(Base \div 2) \in Bytes /\ Digit(0) \in Bytes
      BY <3>1 DEF Bytes
    <3>3. p \in Seq(Bytes)
      BY <1>2, <1>5, PutType
    <3>4. g \in Seq(Bytes)
      BY <3>2
    <3>5. o \in Seq(Bytes)
      <4> DEFINE d == Digit(0)
      <4>1. d \in Bytes
        BY <3>2
      <4> HIDE DEF z, d
      <4>2. z \in Nat
        BY <1>4
      <4>3. [i \in 1 .. z |-> d] \in Seq(Bytes)
        BY <4>1, <4>2
      <4> QED BY <4>3 DEF d
    <3> QED BY <3>3, <3>4, <3>5
  <2>3. Trailer(z, t) = (g \o o) \o p
    BY Zenon DEF Trailer
  <2> HIDE DEF g, o, p, m, C, t, z
  <2>4. m \in Seq(C) /\ g \in Seq(C) /\ o \in Seq(C) /\ p \in Seq(C)
    BY <1>2, <2>2 DEF C
  <2> DEFINE x1 == m \o g
             x2 == x1 \o o
             y1 == g \o o
             y2 == y1 \o p
             x3 == x2 \o p
  <2>5. /\ Joined(m, g, x1) /\ Joined(x1, o, x2) /\ Joined(g, o, y1) /\ Joined(y1, p, y2)
        /\ Joined(x2, p, x3)
    BY Zenon DEF Joined
  <2> HIDE DEF x1, x2, x3, y1, y2
  <2>6. Joined(m, y2, x3)
    BY <2>4, <2>5, Regroup
  <2> QED BY <2>1, <2>3, <2>6 DEF W, Joined, x1, x2, x3, y1, y2
<1>8. W \in Seq(C) /\ Len(W) = Len(m) + 1 + z + LengthBytes
  <2> DEFINE q == Trailer(z, t)
  <2>1. q \in Seq(Bytes) /\ Len(q) = 1 + z + LengthBytes
    BY <1>6
  <2> HIDE DEF m, q, z
  <2>2. m \in Seq(C) /\ q \in Seq(C)
    BY <1>2, <2>1
  <2>3. m \o q \in Seq(C) /\ Len(m \o q) = Len(m) + Len(q)
    BY <2>2, ConcatProperties
  <2>4. Len(m \o q) = Len(m) + 1 + z + LengthBytes
    BY <1>2, <1>4, <1>5, <2>1, <2>3
  <2> QED BY <2>3, <2>4 DEF q
<1> HIDE DEF W, m, z, t, s
<1>9. Len(W) # 0 /\ Len(W) % BlockSize = 0
  BY <1>2, <1>4, <1>5, <1>8
<1>10. LeftOver(W) = <<>> /\ FlattenSeq(BlocksOf(W)) = W
  BY <1>8, <1>9, LeftOverShort, BlocksFlatten
<1>11. s.buffer = LeftOver(W) /\ s.blocks = BlocksOf(W)
  BY <1>3 DEF Given
<1>12. s.buffer = <<>> /\ FlattenSeq(s.blocks) = StandardPadding(m)
  BY <1>7, <1>10, <1>11
<1> QED BY <1>12 DEF s, m
=============================================================================
