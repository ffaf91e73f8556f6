------------------------- MODULE HttpExchangeProofs -------------------------
(***************************************************************************)
(* What one connection delivers, for every request and reply, every size   *)
(* of the buffer of recv, and however the stream is cut or breaks.         *)
(*                                                                         *)
(* All that is received or under way is a segment of one message: the      *)
(* server's buffers and up lie next to each other in the request, raw and  *)
(* down in the reply.  The invariant keeps the two places where they meet  *)
(* (Upward, Downward); what handler and client are given follows from      *)
(* where the first empty line of a message is.                             *)
(***************************************************************************)
EXTENDS BodyCodecs, CodecProofs

\* The tokens of s behind the first i, up to the j-th.
Seg(s, i, j) == SubSeq(s, i + 1, j)

\* s is a sequence, of whatever it holds.
IsSeq(s) == s \in Seq(Range(s))

-----------------------------------------------------------------------------
(* Segments *)

\* The length and the elements of a segment.
LEMMA SegFacts ==
  ASSUME NEW S, NEW s \in Seq(S), NEW i \in 0 .. Len(s), NEW j \in i .. Len(s)
  PROVE  /\ Seg(s, i, j) \in Seq(S)
         /\ Len(Seg(s, i, j)) = j - i
         /\ \A n \in 1 .. j - i : Seg(s, i, j)[n] = s[i + n]
         /\ i = j => Seg(s, i, j) = <<>>
         /\ Seg(s, 0, Len(s)) = s
BY DEF Seg

\* Sequences are equal when they have the same length and elements.
LEMMA SameSeq ==
  ASSUME NEW S, NEW s \in Seq(S), NEW t \in Seq(S), Len(s) = Len(t),
         \A n \in 1 .. Len(s) : s[n] = t[n]
  PROVE  s = t
OBVIOUS

\* Adjacent segments join.
LEMMA SegJoin ==
  ASSUME NEW S, NEW s \in Seq(S), NEW i \in 0 .. Len(s), NEW j \in i .. Len(s), NEW k \in j .. Len(s)
  PROVE  Seg(s, i, j) \o Seg(s, j, k) = Seg(s, i, k)
<1> DEFINE t == Seg(s, i, j)
           u == Seg(s, j, k)
           v == Seg(s, i, k)
<1>1. Len(s) \in Nat /\ j \in 0 .. Len(s) /\ k \in i .. Len(s)
  OBVIOUS
<1>2. t \in Seq(S) /\ Len(t) = j - i /\ \A n \in 1 .. j - i : t[n] = s[i + n]
  BY SegFacts
<1>3. u \in Seq(S) /\ Len(u) = k - j /\ \A n \in 1 .. k - j : u[n] = s[j + n]
  BY <1>1, SegFacts
<1>4. v \in Seq(S) /\ Len(v) = k - i /\ \A n \in 1 .. k - i : v[n] = s[i + n]
  BY <1>1, SegFacts
<1> HIDE DEF t, u, v
<1>5. /\ t \o u \in Seq(S) /\ Len(t \o u) = Len(t) + Len(u)
      /\ \A n \in 1 .. Len(t) + Len(u) : (t \o u)[n] = IF n <= Len(t) THEN t[n] ELSE u[n - Len(t)]
  BY <1>2, <1>3, ConcatProperties
<1>6. ASSUME NEW n \in 1 .. k - i
      PROVE  (t \o u)[n] = v[n]
  <2>0. i \in Int /\ j \in Int /\ k \in Int /\ n \in 1 .. Len(t) + Len(u) /\ v[n] = s[i + n]
    BY <1>1, <1>2, <1>3, <1>4
  <2>1. CASE n <= j - i
    BY <1>2, <1>5, <2>0, <2>1
  <2>2. CASE n > j - i
    <3> DEFINE m == n - (j - i)
    <3>1. (t \o u)[n] = u[m]
      BY <1>2, <1>5, <2>0, <2>2
    <3>2. m \in 1 .. k - j /\ j + m = i + n
      BY <2>0, <2>2
    <3> HIDE DEF m
    <3>3. u[m] = s[j + m]
      BY <1>3, <3>2
    <3> QED BY <2>0, <3>1, <3>2, <3>3
  <2> QED BY <2>0, <2>1, <2>2
<1>7. Len(t \o u) = Len(v)
  BY <1>1, <1>2, <1>3, <1>4, <1>5
<1>8. t \o u = v
  BY <1>4, <1>5, <1>6, <1>7, SameSeq
<1> QED BY <1>8 DEF t, u, v

\* recv cuts a segment in two.
LEMMA SegCut ==
  ASSUME NEW S, NEW s \in Seq(S), NEW i \in 0 .. Len(s), NEW j \in i .. Len(s), NEW n \in 0 .. j - i
  PROVE  /\ First(Seg(s, i, j), n) = Seg(s, i, i + n)
         /\ Rest(Seg(s, i, j), n) = Seg(s, i + n, j)
<1> DEFINE t == Seg(s, i, j)
<1>1. t \in Seq(S) /\ Len(t) = j - i /\ \A m \in 1 .. j - i : t[m] = s[i + m]
  BY SegFacts
<1> HIDE DEF t
<1>2. /\ First(t, n) \in Seq(S) /\ Len(First(t, n)) = n
      /\ \A m \in 1 .. n : First(t, n)[m] = t[m]
  BY <1>1 DEF First
<1>3. /\ Rest(t, n) \in Seq(S) /\ Len(Rest(t, n)) = j - i - n
      /\ \A m \in 1 .. j - i - n : Rest(t, n)[m] = t[n + m]
  BY <1>1 DEF Rest
<1> DEFINE k == i + n
           f == Seg(s, i, k)
           r == Seg(s, k, j)
<1>4. /\ k \in i .. Len(s) /\ k \in 0 .. Len(s) /\ j \in k .. Len(s)
      /\ i \in Nat /\ j \in Nat /\ n \in Nat /\ k = i + n /\ k - i = n /\ j - k = j - i - n
  OBVIOUS
<1> HIDE DEF k
<1>5. f \in Seq(S) /\ Len(f) = n /\ \A m \in 1 .. n : f[m] = s[i + m]
  <2>1. f \in Seq(S) /\ Len(f) = k - i /\ \A m \in 1 .. k - i : f[m] = s[i + m]
    BY <1>4, SegFacts
  <2> QED BY <1>4, <2>1
<1>6. r \in Seq(S) /\ Len(r) = j - i - n /\ \A m \in 1 .. j - i - n : r[m] = s[k + m]
  <2>1. r \in Seq(S) /\ Len(r) = j - k /\ \A m \in 1 .. j - k : r[m] = s[k + m]
    BY <1>4, SegFacts
  <2> QED BY <1>4, <2>1
<1> HIDE DEF f, r
<1>7. First(t, n) = f
  <2>1. \A m \in 1 .. n : m \in 1 .. j - i
    BY <1>4
  <2>2. \A m \in 1 .. n : First(t, n)[m] = f[m]
    BY <1>1, <1>2, <1>5, <2>1
  <2> QED BY <1>2, <1>5, <2>2, SameSeq
<1>8. Rest(t, n) = r
  <2>1. ASSUME NEW m \in 1 .. j - i - n
        PROVE  Rest(t, n)[m] = r[m]
    <3>1. n + m \in 1 .. j - i /\ i + (n + m) = k + m
      BY <1>4
    <3> QED BY <1>1, <1>3, <1>6, <3>1
  <2>2. \A m \in 1 .. Len(r) : Rest(t, n)[m] = r[m]
    BY <1>6, <2>1
  <2> QED BY <1>3, <1>6, <2>2, SameSeq
<1> QED BY <1>7, <1>8 DEF t, f, r, k

-----------------------------------------------------------------------------
(* Messages *)

\* A message begins with its first line and ends with its length and the empty
\* line; no two line ends meet before that.
LEMMA MessageFacts ==
  ASSUME NEW S, NEW first \in S, NEW lines \in Seq(S), NEW body,
         NL \in S, <<"length", Len(body)>> \in S, <<"length", Len(body)>> # NL,
         first # NL, \A i \in 1 .. Len(lines) : lines[i] # NL
  PROVE  LET m == Message(first, lines, body) IN
         /\ m \in Seq(S)
         /\ Len(m) \in Nat /\ Len(m) >= 5
         /\ m[1] = first
         /\ m[Len(m) - 2] = <<"length", Len(body)>>
         /\ m[Len(m) - 1] = NL /\ m[Len(m)] = NL
         /\ \A i \in 2 .. Len(m) - 3 : m[i] = NL \/ m[i] \in Range(lines)
         /\ \A i \in 1 .. Len(m) - 2 : ~(m[i] = NL /\ m[i + 1] = NL)
<1> DEFINE n == Len(lines)
           a1 == <<first, NL>>
           a2 == OnLines(lines)
           a3 == <<<<"length", Len(body)>>, NL, NL>>
           m == a1 \o a2 \o a3
<1>1. n \in Nat /\ \A i \in 1 .. n : lines[i] \in S /\ lines[i] \in Range(lines)
  BY DEF Range
<1>2. /\ a1 \in Seq(S) /\ Len(a1) = 2 /\ a1[1] = first /\ a1[2] = NL
      /\ a3 \in Seq(S) /\ Len(a3) = 3
      /\ a3[1] = <<"length", Len(body)>> /\ a3[2] = NL /\ a3[3] = NL
  OBVIOUS
<1>3. /\ a2 \in Seq(S) /\ Len(a2) = 2 * n
      /\ \A i \in 1 .. 2 * n : a2[i] = IF i % 2 = 1 THEN lines[(i + 1) \div 2] ELSE NL
  <2>1. \A i \in 1 .. 2 * n : i % 2 = 1 => (i + 1) \div 2 \in 1 .. n
    BY <1>1
  <2> QED BY <1>1, <2>1 DEF OnLines
<1> HIDE DEF a1, a2, a3, n
<1> DEFINE c == a1 \o a2
           e == 2 + 2 * n
<1>4. /\ c \in Seq(S) /\ Len(c) = e /\ e \in Nat
      /\ \A i \in 1 .. e : c[i] = IF i <= 2 THEN a1[i] ELSE a2[i - 2]
  <2>1. /\ c \in Seq(S) /\ Len(c) = Len(a1) + Len(a2)
        /\ \A i \in 1 .. Len(a1) + Len(a2) : c[i] = IF i <= Len(a1) THEN a1[i] ELSE a2[i - Len(a1)]
    BY <1>2, <1>3, ConcatProperties
  <2>2. Len(a1) = 2 /\ Len(a1) + Len(a2) = e /\ e \in Nat
    BY <1>1, <1>2, <1>3
  <2> HIDE DEF c, e
  <2> QED BY <2>1, <2>2
<1>e. e = 2 + 2 * n /\ m = c \o a3
  OBVIOUS
<1> HIDE DEF c, e, m
<1>5. /\ m \in Seq(S) /\ Len(m) = e + 3
      /\ \A i \in 1 .. e + 3 : m[i] = IF i <= e THEN c[i] ELSE a3[i - e]
  <2>1. /\ m \in Seq(S) /\ Len(m) = Len(c) + Len(a3)
        /\ \A i \in 1 .. Len(c) + Len(a3) : m[i] = IF i <= Len(c) THEN c[i] ELSE a3[i - Len(c)]
    BY <1>2, <1>4, <1>e, ConcatProperties
  <2>2. Len(c) = e /\ Len(c) + Len(a3) = e + 3
    BY <1>2, <1>4
  <2> QED BY <2>1, <2>2
<1>5a. Len(m) = 2 * n + 5
  BY <1>1, <1>5, <1>e
<1>6. m[1] = first /\ m[2] = NL
  <2>1. 1 \in 1 .. e /\ 2 \in 1 .. e /\ 1 \in 1 .. e + 3 /\ 2 \in 1 .. e + 3 /\ 1 <= e /\ 2 <= e
    BY <1>1, <1>e
  <2>2. m[1] = c[1] /\ m[2] = c[2]
    BY <1>5, <2>1
  <2>3. c[1] = a1[1] /\ c[2] = a1[2]
    BY <1>4, <2>1
  <2> QED BY <1>2, <2>2, <2>3
<1>7. \A i \in 3 .. 2 + 2 * n : m[i] = IF i % 2 = 1 THEN lines[(i - 1) \div 2] ELSE NL
  <2> SUFFICES ASSUME NEW i \in 3 .. 2 + 2 * n
               PROVE  m[i] = IF i % 2 = 1 THEN lines[(i - 1) \div 2] ELSE NL
    OBVIOUS
  <2>1. i \in 1 .. e /\ i \in 1 .. e + 3 /\ i <= e /\ ~(i <= 2)
    BY <1>1, <1>e
  <2>2. m[i] = a2[i - 2]
    BY <1>4, <1>5, <2>1
  <2>3. /\ i - 2 \in 1 .. 2 * n /\ ((i - 2) % 2 = 1 <=> i % 2 = 1)
        /\ (i - 2) + 1 = i - 1
    BY <1>1
  <2> QED BY <1>3, <2>2, <2>3
<1>8. /\ m[2 * n + 3] = <<"length", Len(body)>> /\ m[2 * n + 4] = NL /\ m[2 * n + 5] = NL
  <2>1. /\ e + 1 \in 1 .. e + 3 /\ e + 2 \in 1 .. e + 3 /\ e + 3 \in 1 .. e + 3
        /\ ~(e + 1 <= e) /\ ~(e + 2 <= e) /\ ~(e + 3 <= e)
        /\ (e + 1) - e = 1 /\ (e + 2) - e = 2 /\ (e + 3) - e = 3
    BY <1>4
  <2>2. m[e + 1] = a3[1] /\ m[e + 2] = a3[2] /\ m[e + 3] = a3[3]
    BY <1>5, <2>1
  <2>3. e + 1 = 2 * n + 3 /\ e + 2 = 2 * n + 4 /\ e + 3 = 2 * n + 5
    BY <1>1, <1>e
  <2> QED BY <1>2, <2>2, <2>3
<1>9. \A i \in 3 .. 2 + 2 * n : i % 2 = 1 => (i - 1) \div 2 \in 1 .. n
  BY <1>1
<1>10. \A i \in 2 .. 2 + 2 * n : m[i] = NL \/ m[i] \in Range(lines)
  BY <1>1, <1>6, <1>7, <1>9
<1>11. ASSUME NEW i \in 1 .. 2 * n + 3, i % 2 = 1
       PROVE  m[i] # NL
  <2>1. CASE i = 1
    BY <1>6, <2>1
  <2>2. CASE i \in 3 .. 2 + 2 * n
    BY <1>7, <1>9, <1>11, <2>2 DEF n
  <2>3. CASE i = 2 * n + 3
    BY <1>8, <2>3
  <2>4. i = 1 \/ i \in 3 .. 2 + 2 * n \/ i = 2 * n + 3
    BY <1>1, <1>11
  <2> QED BY <2>1, <2>2, <2>3, <2>4
<1>12. ASSUME NEW i \in 1 .. 2 * n + 3
       PROVE  ~(m[i] = NL /\ m[i + 1] = NL)
  <2>1. CASE i % 2 = 1
    BY <1>11, <2>1
  <2>2. CASE i % 2 # 1
    <3>1. i + 1 \in 1 .. 2 * n + 3 /\ (i + 1) % 2 = 1
      BY <1>1, <2>2
    <3> QED BY <1>11, <3>1
  <2> QED BY <2>1, <2>2
<1>13. m = Message(first, lines, body)
  BY <1>e DEF c, a1, a2, a3, Message
<1>14. /\ Len(m) \in Nat /\ Len(m) >= 5 /\ Len(m) - 2 = 2 * n + 3 /\ Len(m) - 1 = 2 * n + 4
       /\ Len(m) - 3 = 2 + 2 * n
  BY <1>1, <1>5a
<1> QED BY <1>5, <1>5a, <1>6, <1>8, <1>10, <1>12, <1>13, <1>14

\* In a stream whose first empty line ends at h, those who have read j of it have
\* the end of the header when j has reached h, and take the stream apart there.
LEMMA HeaderRead ==
  ASSUME NEW S, NEW s \in Seq(S), NEW h \in 2 .. Len(s), s[h - 1] = NL, s[h] = NL,
         \A i \in 1 .. h - 2 : ~(s[i] = NL /\ s[i + 1] = NL),
         NEW j \in 0 .. Len(s)
  PROVE  /\ EmptyLines(Seg(s, 0, j)) = {} <=> j < h
         /\ j >= h => /\ HeaderOf(Seg(s, 0, j)) = Seg(s, 0, h - 2)
                      /\ AfterHeader(Seg(s, 0, j)) = Seg(s, h, j)
<1> DEFINE r == Seg(s, 0, j)
<1>0. Len(s) \in Nat /\ 0 \in 0 .. Len(s) /\ h \in Nat /\ j \in Nat
  OBVIOUS
<1>1. r \in Seq(S) /\ Len(r) = j /\ \A n \in 1 .. j : r[n] = s[n]
  BY <1>0, SegFacts
<1> HIDE DEF r
<1>2. EmptyLines(r) = {i \in 1 .. j - 1 : s[i] = NL /\ s[i + 1] = NL}
  BY <1>0, <1>1 DEF EmptyLines
<1>3. \A i \in EmptyLines(r) : i \in 1 .. j - 1 /\ h - 1 <= i
  BY <1>0, <1>2
<1>4. j >= h => h - 1 \in EmptyLines(r)
  BY <1>0, <1>2
<1>5. EmptyLines(r) = {} <=> j < h
  BY <1>0, <1>3, <1>4
<1>6. ASSUME j >= h
      PROVE  HeaderOf(r) = Seg(s, 0, h - 2) /\ AfterHeader(r) = Seg(s, h, j)
  <2>1. HeaderEnd(r) = h - 1
    BY <1>0, <1>3, <1>4, <1>6 DEF HeaderEnd
  <2>2. HeaderOf(r) = SubSeq(r, 1, h - 2) /\ AfterHeader(r) = SubSeq(r, h + 1, j)
    <3>1. HeaderEnd(r) - 1 = h - 2 /\ HeaderEnd(r) + 2 = h + 1 /\ Len(r) = j
      BY <1>0, <1>1, <2>1
    <3> QED BY <3>1, Zenon DEF HeaderOf, AfterHeader
  <2>3. SubSeq(r, 1, h - 2) = First(r, h - 2) /\ SubSeq(r, h + 1, j) = Rest(r, h)
    BY <1>1 DEF First, Rest
  <2>4. First(r, h - 2) = Seg(s, 0, h - 2)
    <3>1. h - 2 \in 0 .. j - 0 /\ j \in 0 .. Len(s) /\ 0 + (h - 2) = h - 2
      BY <1>0, <1>6
    <3> QED BY <1>0, <3>1, SegCut DEF r
  <2>5. Rest(r, h) = Seg(s, h, j)
    <3>1. h \in 0 .. j - 0 /\ j \in 0 .. Len(s) /\ 0 + h = h
      BY <1>0, <1>6
    <3> QED BY <1>0, <3>1, SegCut DEF r
  <2> QED BY <2>2, <2>3, <2>4, <2>5
<1> QED BY <1>5, <1>6 DEF r

\* A message and the body behind it: where the header ends in the stream of both.
LEMMA StreamFacts ==
  ASSUME NEW first, NEW lines, NEW body, IsSeq(lines), IsSeq(body),
         first # NL, \A l \in Range(lines) : l # NL
  PROVE  LET m == Message(first, lines, body)
             w == m \o body
             h == Len(m)
             S == {first, NL, <<"length", Len(body)>>} \cup Range(lines) \cup Range(body) IN
         /\ w \in Seq(S) /\ Len(w) \in Nat
         /\ h \in 5 .. Len(w) /\ Len(w) = h + Len(body)
         /\ Seg(w, 0, h) = m /\ Seg(w, h, Len(w)) = body
         /\ w[1] = first /\ w[h - 2] = <<"length", Len(body)>>
         /\ w[h - 1] = NL /\ w[h] = NL
         /\ \A i \in 2 .. h - 3 : w[i] = NL \/ w[i] \in Range(lines)
         /\ \A i \in 1 .. h - 2 : ~(w[i] = NL /\ w[i + 1] = NL)
<1> DEFINE m == Message(first, lines, body)
           w == m \o body
           h == Len(m)
           S == {first, NL, <<"length", Len(body)>>} \cup Range(lines) \cup Range(body)
<1>1. lines \in Seq(S) /\ body \in Seq(S) /\ Len(body) \in Nat
  <2>1. Range(lines) \subseteq S /\ Range(body) \subseteq S
    OBVIOUS
  <2> HIDE DEF S
  <2> QED BY <2>1, SeqMonotonic DEF IsSeq
<1>2. /\ first \in S /\ NL \in S /\ <<"length", Len(body)>> \in S
      /\ <<"length", Len(body)>> # NL
      /\ \A i \in 1 .. Len(lines) : lines[i] # NL
  <2>1. \A i \in 1 .. Len(lines) : lines[i] \in Range(lines)
    BY DEF IsSeq, Range
  <2> QED BY <2>1 DEF NL
<1> HIDE DEF S
<1>3. /\ m \in Seq(S)
      /\ Len(m) \in Nat /\ Len(m) >= 5
      /\ m[1] = first
      /\ m[Len(m) - 2] = <<"length", Len(body)>>
      /\ m[Len(m) - 1] = NL /\ m[Len(m)] = NL
      /\ \A i \in 2 .. Len(m) - 3 : m[i] = NL \/ m[i] \in Range(lines)
      /\ \A i \in 1 .. Len(m) - 2 : ~(m[i] = NL /\ m[i + 1] = NL)
  BY <1>1, <1>2, MessageFacts
<1> HIDE DEF m
<1>4. /\ w \in Seq(S) /\ Len(w) = h + Len(body)
      /\ \A i \in 1 .. h + Len(body) : w[i] = IF i <= h THEN m[i] ELSE body[i - h]
  BY <1>1, <1>3, ConcatProperties
<1> HIDE DEF w
<1>5. /\ Len(w) \in Nat /\ h \in 5 .. Len(w) /\ h \in 0 .. Len(w) /\ 0 \in 0 .. Len(w)
      /\ \A i \in 1 .. h : w[i] = m[i]
  BY <1>1, <1>3, <1>4
<1>6. Seg(w, 0, h) = m
  <2>1. /\ Seg(w, 0, h) \in Seq(S) /\ Len(Seg(w, 0, h)) = h - 0
        /\ \A n \in 1 .. h - 0 : Seg(w, 0, h)[n] = w[0 + n]
    <3> HIDE DEF h
    <3>1. w \in Seq(S) /\ 0 \in 0 .. Len(w) /\ h \in 0 .. Len(w)
      BY <1>4, <1>5
    <3> QED BY <3>1, SegFacts
  <2>2. Len(Seg(w, 0, h)) = h /\ \A n \in 1 .. h : Seg(w, 0, h)[n] = m[n]
    BY <1>3, <1>5, <2>1
  <2> QED BY <1>3, <2>1, <2>2, SameSeq
<1>7. Seg(w, h, Len(w)) = body
  <2> DEFINE e == Len(w)
  <2>1. e \in h .. Len(w) /\ h \in 0 .. Len(w) /\ e - h = Len(body) /\ e \in Nat /\ h \in Nat
    BY <1>1, <1>3, <1>4, <1>5
  <2> HIDE DEF e
  <2>2. /\ Seg(w, h, e) \in Seq(S) /\ Len(Seg(w, h, e)) = e - h
        /\ \A n \in 1 .. e - h : Seg(w, h, e)[n] = w[h + n]
    <3> HIDE DEF h
    <3>1. w \in Seq(S) /\ h \in 0 .. Len(w) /\ e \in h .. Len(w)
      BY <1>4, <2>1
    <3> QED BY <3>1, SegFacts
  <2>3. ASSUME NEW n \in 1 .. Len(body)
        PROVE  w[h + n] = body[n]
    <3>1. h + n \in 1 .. h + Len(body) /\ ~(h + n <= h) /\ (h + n) - h = n
      BY <1>1, <2>1
    <3> QED BY <1>4, <3>1
  <2>4. Seg(w, h, e) = body
    BY <1>1, <2>1, <2>2, <2>3, SameSeq
  <2> QED BY <2>4 DEF e
<1>8. /\ w[1] = first /\ w[h - 2] = <<"length", Len(body)>> /\ w[h - 1] = NL /\ w[h] = NL
  BY <1>3, <1>5
<1>9. \A i \in 2 .. h - 3 : w[i] = NL \/ w[i] \in Range(lines)
  <2>1. \A i \in 2 .. h - 3 : m[i] = NL \/ m[i] \in Range(lines)
    BY <1>3
  <2>2. \A i \in 1 .. h : w[i] = m[i]
    BY <1>5
  <2>3. h \in Nat
    BY <1>3
  <2> HIDE DEF w, m, h
  <2> SUFFICES ASSUME NEW i \in 2 .. h - 3
               PROVE  w[i] = NL \/ w[i] \in Range(lines)
    OBVIOUS
  <2>4. i \in 1 .. h
    BY <2>3
  <2>5. w[i] = m[i]
    BY <2>2, <2>4
  <2> QED BY <2>1, <2>5
<1>10. \A i \in 1 .. h - 2 : ~(w[i] = NL /\ w[i + 1] = NL)
  <2> SUFFICES ASSUME NEW i \in 1 .. h - 2
               PROVE  ~(w[i] = NL /\ w[i + 1] = NL)
    OBVIOUS
  <2>1. i \in 1 .. h /\ i + 1 \in 1 .. h
    BY <1>3
  <2> QED BY <1>3, <1>5, <2>1
<1> QED BY <1>4, <1>5, <1>6, <1>7, <1>8, <1>9, <1>10 DEF w, m, S

\* What the headers of a request say: its route, the length of its body, and a
\* token only if a line holds it.
LEMMA RequestFacts ==
  ASSUME NEW q \in Requests
  PROVE  LET w == HeadOf(q) \o q.body
             h == Len(HeadOf(q))
             hd == Seg(w, 0, h - 2)
             t == Header(hd, "token", Nil) IN
         /\ Header(hd, "route", Nil) = q.route
         /\ Header(hd, "length", 0) = Len(q.body)
         /\ t = Nil \/ <<"token", t>> \in Range(q.lines)
<1> DEFINE first == <<"route", q.route>>
           m == Message(first, q.lines, q.body)
           w == m \o q.body
           h == Len(m)
           hd == Seg(w, 0, h - 2)
           S == {first, NL, <<"length", Len(q.body)>>} \cup Range(q.lines) \cup Range(q.body)
<1>1. /\ IsSeq(q.lines) /\ IsSeq(q.body) /\ first # NL
      /\ \A l \in Range(q.lines) : l # NL /\ l = <<l[1], l[2]>> /\ l[1] # "route"
  BY ExchangeAssumption DEF IsSeq, NL
<1>2. /\ w \in Seq(S) /\ Len(w) \in Nat /\ h \in 5 .. Len(w)
      /\ w[1] = first /\ w[h - 2] = <<"length", Len(q.body)>>
      /\ \A i \in 2 .. h - 3 : w[i] = NL \/ w[i] \in Range(q.lines)
  <2> DEFINE ls == q.lines
             bd == q.body
  <2>1. IsSeq(ls) /\ IsSeq(bd) /\ first # NL /\ \A l \in Range(ls) : l # NL
    BY <1>1
  <2> HIDE DEF first, ls, bd
  <2>2. LET mm == Message(first, ls, bd)
            ww == mm \o bd
            hh == Len(mm) IN
        /\ ww \in Seq({first, NL, <<"length", Len(bd)>>} \cup Range(ls) \cup Range(bd))
        /\ Len(ww) \in Nat /\ hh \in 5 .. Len(ww)
        /\ ww[1] = first /\ ww[hh - 2] = <<"length", Len(bd)>>
        /\ \A i \in 2 .. hh - 3 : ww[i] = NL \/ ww[i] \in Range(ls)
    BY <2>1, StreamFacts
  <2> QED BY <2>2 DEF ls, bd
<1> HIDE DEF w, S, h
<1>3. DOMAIN hd = 1 .. h - 2 /\ \A i \in 1 .. h - 2 : hd[i] = w[i]
  <2> DEFINE e == h - 2
  <2>1. e \in 0 .. Len(w) /\ 0 \in 0 .. Len(w) /\ e - 0 = e /\ e \in Nat
    BY <1>2
  <2> HIDE DEF e
  <2>2. /\ Seg(w, 0, e) \in Seq(S) /\ Len(Seg(w, 0, e)) = e - 0
        /\ \A n \in 1 .. e - 0 : Seg(w, 0, e)[n] = w[0 + n]
    BY <1>2, <2>1, SegFacts
  <2>3. DOMAIN Seg(w, 0, e) = 1 .. e /\ \A n \in 1 .. e : Seg(w, 0, e)[n] = w[n]
    BY <2>1, <2>2
  <2> QED BY <2>3 DEF e
<1> HIDE DEF hd
<1>4. h - 2 \in Nat /\ 1 \in 1 .. h - 2 /\ h - 2 \in 1 .. h - 2 /\ h - 2 # 1
  BY <1>2
<1>5. \A i \in 1 .. h - 2 : i = 1 \/ i = h - 2 \/ i \in 2 .. h - 3
  BY <1>2
<1> DEFINE at(kind) == {i \in DOMAIN hd : hd[i][1] = kind}
<1>6. Header(hd, "route", Nil) = q.route
  <2>1. at("route") = {1}
    <3>1. hd[1][1] = "route"
      BY <1>2, <1>3, <1>4
    <3>2. hd[h - 2][1] # "route"
      BY <1>2, <1>3, <1>4
    <3>3. \A i \in 2 .. h - 3 : i \in 1 .. h - 2
      BY <1>2
    <3>4. \A i \in 2 .. h - 3 : hd[i][1] # "route"
      BY <1>1, <1>2, <1>3, <3>3 DEF NL
    <3> QED BY <1>3, <1>4, <1>5, <3>1, <3>2, <3>4
  <2>2. (CHOOSE i \in at("route") : \A k \in at("route") : k <= i) = 1
    BY <2>1
  <2> QED BY <1>2, <1>3, <1>4, <2>1, <2>2 DEF Header
<1>7. Header(hd, "length", 0) = Len(q.body)
  <2>1. h - 2 \in at("length") /\ hd[h - 2][2] = Len(q.body)
    BY <1>2, <1>3, <1>4
  <2>2. at("length") \subseteq 1 .. h - 2
    BY <1>3
  <2> HIDE DEF at
  <2>3. (CHOOSE i \in at("length") : \A k \in at("length") : k <= i) = h - 2
    BY <1>4, <2>1, <2>2
  <2> QED BY <2>1, <2>3 DEF Header, at
<1>8. Header(hd, "token", Nil) = Nil \/ <<"token", Header(hd, "token", Nil)>> \in Range(q.lines)
  <2>1. CASE at("token") = {}
    BY <2>1 DEF Header
  <2>2. CASE at("token") # {}
    <3>1. at("token") \subseteq 1 .. h - 2
      BY <1>3
    <3> DEFINE j == CHOOSE i \in at("token") : \A k \in at("token") : k <= i
    <3> HIDE DEF at
    <3>2. \E i \in at("token") : \A k \in at("token") : k <= i
      BY <1>4, <2>2, <3>1, GreatestNumber
    <3>3. j \in at("token")
      BY <3>2
    <3>4. Header(hd, "token", Nil) = hd[j][2]
      BY <2>2 DEF Header, at
    <3> HIDE DEF j
    <3>5. j \in 1 .. h - 2 /\ hd[j] = w[j] /\ w[j][1] = "token"
      BY <1>3, <3>3 DEF at
    <3>6. j # 1 /\ j # h - 2
      BY <1>2, <3>5
    <3>7. w[j] \in Range(q.lines)
      BY <1>2, <1>5, <3>5, <3>6 DEF NL
    <3>8. w[j] = <<"token", w[j][2]>>
      BY <1>1, <3>5, <3>7
    <3> QED BY <3>4, <3>5, <3>7, <3>8
  <2> QED BY <2>1, <2>2
<1> QED BY <1>6, <1>7, <1>8 DEF w, h, hd, HeadOf

\* A request and a reply as they go over the wire, and the length of their headers.
Whole(q) == HeadOf(q) \o q.body
HeadLen(q) == Len(HeadOf(q))
ReplyLen(r) == Len(Message(<<"status", r.status>>, <<>>, r.body))

\* A stream w of tokens of S whose header ends at h.
Framed(w, h, S) ==
  /\ w \in Seq(S) /\ Len(w) \in Nat /\ h \in 5 .. Len(w)
  /\ \A j \in 0 .. Len(w) :
       /\ EmptyLines(Seg(w, 0, j)) = {} <=> j < h
       /\ j >= h => /\ HeaderOf(Seg(w, 0, j)) = Seg(w, 0, h - 2)
                    /\ AfterHeader(Seg(w, 0, j)) = Seg(w, h, j)

\* Every message is framed, with its body behind the header.
LEMMA FramedMessage ==
  ASSUME NEW first, NEW lines, NEW body, IsSeq(lines), IsSeq(body),
         first # NL, \A l \in Range(lines) : l # NL
  PROVE  LET m == Message(first, lines, body)
             w == m \o body
             h == Len(m)
             S == {first, NL, <<"length", Len(body)>>} \cup Range(lines) \cup Range(body) IN
         /\ Framed(w, h, S)
         /\ Len(w) = h + Len(body) /\ Seg(w, 0, h) = m /\ Seg(w, h, Len(w)) = body
         /\ w[1] = first
<1> DEFINE m == Message(first, lines, body)
           w == m \o body
           h == Len(m)
           S == {first, NL, <<"length", Len(body)>>} \cup Range(lines) \cup Range(body)
<1>1. /\ w \in Seq(S) /\ Len(w) \in Nat
      /\ h \in 5 .. Len(w) /\ Len(w) = h + Len(body)
      /\ Seg(w, 0, h) = m /\ Seg(w, h, Len(w)) = body
      /\ w[1] = first
      /\ w[h - 1] = NL /\ w[h] = NL
      /\ \A i \in 1 .. h - 2 : ~(w[i] = NL /\ w[i + 1] = NL)
  BY StreamFacts
<1> HIDE DEF w, h, S
<1>2. h \in 2 .. Len(w)
  BY <1>1
<1>3. \A j \in 0 .. Len(w) :
        /\ EmptyLines(Seg(w, 0, j)) = {} <=> j < h
        /\ j >= h => /\ HeaderOf(Seg(w, 0, j)) = Seg(w, 0, h - 2)
                     /\ AfterHeader(Seg(w, 0, j)) = Seg(w, h, j)
  BY <1>1, <1>2, HeaderRead
<1>4. Framed(w, h, S)
  BY <1>1, <1>3 DEF Framed
<1> QED BY <1>1, <1>4 DEF w, h, S, m

\* The tokens of a request.
Tokens(q) == {<<"route", q.route>>, NL, <<"length", Len(q.body)>>} \cup Range(q.lines) \cup Range(q.body)

\* A request is framed.
LEMMA RequestFramed ==
  ASSUME NEW q \in Requests
  PROVE  /\ Framed(Whole(q), HeadLen(q), Tokens(q))
         /\ Len(Whole(q)) = HeadLen(q) + Len(q.body) /\ Len(q.body) \in Nat
         /\ Seg(Whole(q), 0, HeadLen(q)) = HeadOf(q)
         /\ Seg(Whole(q), HeadLen(q), Len(Whole(q))) = q.body
<1> DEFINE first == <<"route", q.route>>
           ls == q.lines
           bd == q.body
<1>1. IsSeq(ls) /\ IsSeq(bd) /\ first # NL /\ \A l \in Range(ls) : l # NL
  BY ExchangeAssumption DEF IsSeq, NL
<1>2. Len(bd) \in Nat
  BY <1>1 DEF IsSeq
<1> HIDE DEF first, ls, bd
<1>3. LET m == Message(first, ls, bd)
          w == m \o bd
          h == Len(m)
          S == {first, NL, <<"length", Len(bd)>>} \cup Range(ls) \cup Range(bd) IN
      /\ Framed(w, h, S)
      /\ Len(w) = h + Len(bd) /\ Seg(w, 0, h) = m /\ Seg(w, h, Len(w)) = bd
  BY <1>1, FramedMessage
<1>4. HeadOf(q) = Message(first, ls, bd)
  BY DEF HeadOf, first, ls, bd
<1>5. Tokens(q) = {first, NL, <<"length", Len(bd)>>} \cup Range(ls) \cup Range(bd)
  BY DEF Tokens, first, ls, bd
<1> QED BY <1>2, <1>3, <1>4, <1>5 DEF Whole, HeadLen, bd

\* The tokens of a reply.
ReplyTokens(r) == {<<"status", r.status>>, NL, <<"length", Len(r.body)>>} \cup Range(<<>>) \cup Range(r.body)

\* What a server answers has a status and a body.
LEMMA AnswerFacts ==
  ASSUME NEW r \in Answers
  PROVE  /\ r = [status |-> r.status, body |-> r.body]
         /\ r.status \in Nat /\ IsSeq(r.body)
         /\ r \in Replies \/ r.status >= 300
<1>1. CASE r \in Replies
  BY <1>1, ExchangeAssumption DEF IsSeq
<1>2. CASE r \notin Replies
  <2>1. PICK code \in {400, 401, 403, 404} : r = Error(code)
    BY <1>2 DEF Answers
  <2>2. r.status = code /\ r.body = <<<<"error", 0>>>> /\ r = [status |-> r.status, body |-> r.body]
    BY <2>1 DEF Error
  <2>3. IsSeq(<<<<"error", 0>>>>)
    BY DEF IsSeq, Range
  <2> QED BY <2>2, <2>3
<1> QED BY <1>1, <1>2

\* A reply is framed, and begins with its status.
LEMMA ReplyFramed ==
  ASSUME NEW r \in Answers
  PROVE  /\ Framed(Serialize(r), ReplyLen(r), ReplyTokens(r))
         /\ Seg(Serialize(r), ReplyLen(r), Len(Serialize(r))) = r.body
         /\ Len(Serialize(r)) = ReplyLen(r) + Len(r.body) /\ Len(r.body) \in Nat
         /\ Serialize(r)[1][2] = r.status
<1> DEFINE first == <<"status", r.status>>
           ls == <<>>
           bd == r.body
<1>1. IsSeq(ls) /\ IsSeq(bd) /\ first # NL /\ \A l \in Range(ls) : l # NL
  <2>1. IsSeq(<<>>)
    BY DEF IsSeq
  <2>2. DOMAIN <<>> = {}
    OBVIOUS
  <2>3. Range(<<>>) = {}
    BY <2>2 DEF Range
  <2> QED BY <2>1, <2>3, AnswerFacts DEF NL
<1>2. Len(bd) \in Nat /\ first[2] = r.status
  BY <1>1 DEF IsSeq
<1> HIDE DEF first, ls, bd
<1>3. LET m == Message(first, ls, bd)
          w == m \o bd
          h == Len(m)
          S == {first, NL, <<"length", Len(bd)>>} \cup Range(ls) \cup Range(bd) IN
      /\ Framed(w, h, S)
      /\ Len(w) = h + Len(bd) /\ Seg(w, 0, h) = m /\ Seg(w, h, Len(w)) = bd
      /\ w[1] = first
  BY <1>1, FramedMessage
<1>4. Serialize(r) = Message(first, ls, bd) \o bd /\ ReplyLen(r) = Len(Message(first, ls, bd))
  BY DEF Serialize, ReplyLen, first, ls, bd
<1>5. ReplyTokens(r) = {first, NL, <<"length", Len(bd)>>} \cup Range(ls) \cup Range(bd)
  BY DEF ReplyTokens, first, ls, bd
<1> QED BY <1>2, <1>3, <1>4, <1>5 DEF bd

-----------------------------------------------------------------------------
(* The invariant *)

TypeInv ==
  /\ request \in Requests
  /\ client \in {"head", "body", "reply", "done", "killed"}
  /\ server \in {"header", "body", "send", "free", "killed", "dropped"}
  /\ broken \in BOOLEAN

\* How much of the request has been sent.
Sent ==
  IF client = "head" THEN 0 ELSE IF client = "body" THEN HeadLen(request) ELSE Len(Whole(request))

\* The server has read the request up to its i-th token, and what is under way
\* goes on from there to the j-th.
UpAt(i, j) ==
  /\ i <= j
  /\ up = Seg(Whole(request), i, j)
  /\ ~broken => j = Sent
  /\ server = "header" => buffer = Seg(Whole(request), 0, i)
  /\ server = "body" =>
       /\ HeadLen(request) <= i
       /\ got = Seg(Whole(request), HeadLen(request), i)
       /\ HeaderOf(buffer) = Seg(Whole(request), 0, HeadLen(request) - 2)

Upward ==
  server \in {"header", "body"} => \E i, j \in 0 .. Len(Whole(request)) : UpAt(i, j)

\* The client has read the reply up to its i-th token, and what is under way goes
\* on from there to the j-th.
DownAt(i, j) ==
  /\ i <= j
  /\ raw = Seg(Serialize(response), 0, i)
  /\ down = Seg(Serialize(response), i, j)
  /\ ~broken => j = Len(Serialize(response))

Downward ==
  /\ ~Closed(server) => raw = <<>> /\ down = <<>>
  /\ Closed(server) => \E i, j \in 0 .. Len(Serialize(response)) : DownAt(i, j)
  /\ server = "killed" => broken

\* What the handler may have been given.
Givens ==
  [route : Routes, token : DOMAIN Granted \cup {Nil}, body : {q.body : q \in Requests}]

\* The handler has been given the request, and success is what it answered.
Answered ==
  /\ handled \in Givens \cup {Nil}
  /\ RequestExact
  /\ server \in {"header", "body"} => handled = Nil
  /\ server \in {"send", "free", "killed"} =>
       response \in Answers /\ (response.status < 300 => handled # Nil)

\* The client is done with all it will ever read.
Finished ==
  client = "done" => result = Reply(raw) /\ (broken \/ (Closed(server) /\ down = <<>>))

Inv == TypeInv /\ Upward /\ Downward /\ Answered /\ Finished

\* A request that nobody has begun to send.
LEMMA InitOK == Init => Inv
<1> SUFFICES ASSUME Init PROVE Inv
  OBVIOUS
<1>1. TypeInv
  BY DEF Init, TypeInv
<1>2. Upward
  <2>1. Framed(Whole(request), HeadLen(request), Tokens(request))
    BY RequestFramed DEF Init
  <2>2. Whole(request) \in Seq(Tokens(request)) /\ 0 \in 0 .. Len(Whole(request))
    BY <2>1 DEF Framed
  <2>3. Seg(Whole(request), 0, 0) = <<>>
    BY <2>2, SegFacts
  <2>4. UpAt(0, 0)
    BY <2>3 DEF Init, UpAt, Sent
  <2> QED BY <2>2, <2>4 DEF Upward
<1>3. Downward
  BY DEF Init, Downward, Closed
<1>4. Answered
  BY DEF Init, Answered, RequestExact
<1>5. Finished
  BY DEF Init, Finished
<1> QED BY <1>1, <1>2, <1>3, <1>4, <1>5 DEF Inv

-----------------------------------------------------------------------------
(* The client's steps *)

\* The reply is not touched by steps that leave both its ends alone.
LEMMA DownwardStays ==
  ASSUME Downward, UNCHANGED <<server, response, raw, down, broken>>
  PROVE  Downward'
BY DEF Downward, DownAt, Closed

\* Nor is what the handler was given.
LEMMA AnsweredStays ==
  ASSUME Answered, UNCHANGED <<server, response, handled, request>>
  PROVE  Answered'
BY DEF Answered, RequestExact

\* The client sends a part of the request.
LEMMA SendOK ==
  ASSUME Inv, SendHead \/ SendBody
  PROVE  Inv'
<1> DEFINE q == request
           w == Whole(request)
           h == HeadLen(request)
<1>1. /\ Framed(w, h, Tokens(q)) /\ Len(w) = h + Len(q.body) /\ Len(q.body) \in Nat
      /\ Seg(w, 0, h) = HeadOf(q) /\ Seg(w, h, Len(w)) = q.body
      /\ q \in Requests /\ IsSeq(q.body)
  BY RequestFramed, ExchangeAssumption DEF Inv, TypeInv, IsSeq
<1>2. /\ w \in Seq(Tokens(q)) /\ Len(w) \in Nat /\ h \in 5 .. Len(w)
  BY <1>1 DEF Framed
<1>3. UNCHANGED <<request, serverVars, down, broken, raw, result>>
  BY DEF SendHead, SendBody
<1>4. client' \in {"body", "reply", "killed"} /\ TypeInv'
  <2>1. CASE SendHead
    BY <1>3, <2>1 DEF SendHead, SendUp, Inv, TypeInv, serverVars
  <2>2. CASE SendBody
    BY <1>3, <2>2 DEF SendBody, SendUp, Inv, TypeInv, serverVars
  <2> QED BY <2>1, <2>2
<1>5. Downward' /\ Answered' /\ Finished'
  BY <1>3, <1>4, DownwardStays, AnsweredStays DEF Inv, Finished, serverVars
<1>6. ASSUME NEW i \in 0 .. Len(w), NEW j \in 0 .. Len(w), UpAt(i, j), server \in {"header", "body"}
      PROVE  Upward'
  <2>1. CASE broken
    <3>1. up' = up
      BY <2>1 DEF SendHead, SendBody, SendUp
    <3>2. UpAt(i, j)'
      BY <1>3, <1>6, <2>1, <3>1 DEF UpAt, serverVars
    <3> QED BY <1>3, <3>2 DEF Upward
  <2>2. CASE ~broken /\ SendHead
    <3>1. j = 0 /\ i = 0 /\ up = <<>>
      BY <1>2, <1>6, <2>2, SegFacts DEF UpAt, Sent, SendHead
    <3>2. up' = HeadOf(q) /\ client' = IF q.body = <<>> THEN "reply" ELSE "body"
      <4>1. HeadOf(q) \in Seq(Tokens(q))
        BY <1>1, <1>2, SegFacts
      <4> QED BY <2>2, <3>1, <4>1 DEF SendHead, SendUp
    <3>3. q.body = <<>> => h = Len(w)
      BY <1>1, <1>2
    <3>4. Sent' = h
      BY <1>3, <3>2, <3>3 DEF Sent
    <3>5. UpAt(0, h)'
      BY <1>1, <1>2, <1>3, <1>6, <2>2, <3>1, <3>2, <3>4 DEF UpAt, serverVars
    <3>6. 0 \in 0 .. Len(w) /\ h \in 0 .. Len(w)
      BY <1>2
    <3> QED BY <1>3, <3>5, <3>6 DEF Upward
  <2>3. CASE ~broken /\ SendBody
    <3>1. j = h /\ i <= h /\ up = Seg(w, i, h)
      BY <1>6, <2>3 DEF UpAt, Sent, SendBody
    <3>2. up' = up \o q.body /\ client' = "reply"
      BY <2>3 DEF SendBody, SendUp
    <3>3. i \in 0 .. Len(w) /\ h \in i .. Len(w) /\ Len(w) \in h .. Len(w)
      BY <1>2, <3>1
    <3>4. Seg(w, i, h) \o Seg(w, h, Len(w)) = Seg(w, i, Len(w))
      <4> HIDE DEF w, h
      <4> QED BY <1>2, <3>3, SegJoin
    <3>5. Sent' = Len(w)
      BY <1>3, <3>2 DEF Sent
    <3>6. UpAt(i, Len(w))'
      BY <1>1, <1>2, <1>3, <1>6, <2>3, <3>1, <3>2, <3>3, <3>4, <3>5 DEF UpAt, serverVars
    <3>7. Len(w) \in 0 .. Len(w)
      BY <1>2
    <3> QED BY <1>3, <3>6, <3>7 DEF Upward
  <2> QED BY <2>1, <2>2, <2>3
<1>7. Upward'
  BY <1>3, <1>6 DEF Inv, Upward, serverVars
<1> QED BY <1>4, <1>5, <1>7 DEF Inv

-----------------------------------------------------------------------------
(* The server's steps *)

\* The request as the server sees it.
LEMMA RequestSeen ==
  ASSUME Inv
  PROVE  /\ request \in Requests
         /\ Framed(Whole(request), HeadLen(request), Tokens(request))
         /\ Whole(request) \in Seq(Tokens(request)) /\ Len(Whole(request)) \in Nat
         /\ HeadLen(request) \in 5 .. Len(Whole(request))
         /\ Seg(Whole(request), HeadLen(request), Len(Whole(request))) = request.body
         /\ Len(Whole(request)) = HeadLen(request) + Len(request.body) /\ Len(request.body) \in Nat
BY RequestFramed DEF Inv, TypeInv, Framed

\* A recv takes a nonempty part of what is under way.
LEMMA Received ==
  ASSUME NEW S, NEW s \in Seq(S), NEW i \in 0 .. Len(s), NEW j \in i .. Len(s),
         NEW n \in Sizes(Seg(s, i, j))
  PROVE  n \in 1 .. j - i
<1>1. Len(Seg(s, i, j)) = j - i /\ j - i \in Nat
  BY SegFacts
<1> QED BY <1>1, ExchangeAssumption DEF Sizes

\* parse_request reads on in search of the end of the header.
LEMMA RecvHeaderOK == ASSUME Inv, RecvHeader PROVE Inv'
<1> DEFINE w == Whole(request)
           h == HeadLen(request)
<1>1. /\ Framed(w, h, Tokens(request)) /\ w \in Seq(Tokens(request)) /\ Len(w) \in Nat
      /\ h \in 5 .. Len(w)
  BY RequestSeen
<1>2. PICK i \in 0 .. Len(w), j \in 0 .. Len(w) : UpAt(i, j)
  BY DEF Inv, Upward, RecvHeader
<1>3. i <= j /\ up = Seg(w, i, j) /\ buffer = Seg(w, 0, i) /\ (~broken => j = Sent)
  BY <1>2 DEF UpAt, RecvHeader
<1>4. /\ server = "header" /\ handled = Nil
      /\ UNCHANGED <<request, client, raw, result, down, broken, handled>>
  BY DEF Inv, Answered, RecvHeader, clientVars
<1>5. PICK n \in Sizes(up) :
        LET b == buffer \o First(up, n) IN
        /\ up' = Rest(up, n)
        /\ buffer' = b
        /\ \/ Len(b) > HeaderLimit /\ Answer(Refusal) /\ UNCHANGED got
           \/ /\ Len(b) <= HeaderLimit
              /\ IF EmptyLines(b) = {} THEN UNCHANGED <<server, got>>
                                       ELSE server' = "body" /\ got' = AfterHeader(b)
              /\ UNCHANGED response
  BY DEF RecvHeader
<1> DEFINE k == i + n
<1>6. n \in 1 .. j - i /\ i \in 0 .. Len(w) /\ j \in i .. Len(w)
  <2>1. j \in i .. Len(w)
    BY <1>3
  <2> HIDE DEF w
  <2> QED BY <1>1, <1>3, <1>5, <2>1, Received
<1>7. /\ k \in 0 .. Len(w) /\ k \in i .. Len(w) /\ k <= j /\ n \in 0 .. j - i
      /\ 0 \in 0 .. Len(w) /\ i \in 0 .. Len(w)
  BY <1>1, <1>6
<1>8. First(up, n) = Seg(w, i, k) /\ up' = Seg(w, k, j)
  <2>1. First(Seg(w, i, j), n) = Seg(w, i, k) /\ Rest(Seg(w, i, j), n) = Seg(w, k, j)
    <3> HIDE DEF w
    <3> QED BY <1>1, <1>6, <1>7, SegCut
  <2> QED BY <1>3, <1>5, <2>1
<1> HIDE DEF w, h, k
<1>9. buffer' = Seg(w, 0, k)
  <2>1. Seg(w, 0, i) \o Seg(w, i, k) = Seg(w, 0, k)
    BY <1>1, <1>7, SegJoin
  <2> QED BY <1>3, <1>5, <1>8, <2>1
<1>10. \/ /\ server' = "send" /\ response' = Refusal
       \/ /\ EmptyLines(buffer') = {} /\ server' = "header" /\ UNCHANGED response
       \/ /\ EmptyLines(buffer') # {} /\ server' = "body" /\ got' = AfterHeader(buffer')
          /\ UNCHANGED response
  BY <1>4, <1>5 DEF Answer
<1>11. TypeInv'
  BY <1>4, <1>10 DEF Inv, TypeInv
<1>12. Refusal \in Answers /\ ~(Refusal.status < 300)
  BY DEF Refusal, Error, Answers
<1>13. Answered'
  BY <1>4, <1>10, <1>12 DEF Inv, Answered, RequestExact
<1>14. Downward' /\ Finished'
  BY <1>4, <1>10 DEF Inv, Downward, Finished, Closed
<1>15. Upward'
  <2>1. CASE server' = "send"
    BY <2>1 DEF Upward
  <2>2. CASE EmptyLines(buffer') = {} /\ server' = "header"
    <3>1. UpAt(k, j)'
      BY <1>3, <1>4, <1>7, <1>8, <1>9, <2>2 DEF UpAt, Sent, w
    <3> QED BY <1>4, <1>7, <3>1 DEF Upward, w
  <2>3. CASE EmptyLines(buffer') # {} /\ server' = "body" /\ got' = AfterHeader(buffer')
    <3>1. k >= h
      BY <1>1, <1>7, <1>9, <2>3 DEF Framed
    <3>2. HeaderOf(buffer') = Seg(w, 0, h - 2) /\ got' = Seg(w, h, k)
      BY <1>1, <1>7, <1>9, <2>3, <3>1 DEF Framed
    <3>3. h <= k
      BY <1>1, <1>7, <3>1
    <3>4. HeaderOf(buffer)' = HeaderOf(buffer')
      BY DEF HeaderOf, HeaderEnd, EmptyLines
    <3>5. UpAt(k, j)'
      BY <1>3, <1>4, <1>7, <1>8, <2>3, <3>2, <3>3, <3>4 DEF UpAt, Sent, w, h
    <3> QED BY <1>4, <1>7, <3>5 DEF Upward, w
  <2> QED BY <1>10, <2>1, <2>2, <2>3
<1> QED BY <1>11, <1>13, <1>14, <1>15 DEF Inv

\* parse_request reads the rest of the body.
LEMMA RecvBodyOK == ASSUME Inv, RecvBody PROVE Inv'
<1> DEFINE w == Whole(request)
           h == HeadLen(request)
<1>1. w \in Seq(Tokens(request)) /\ Len(w) \in Nat /\ h \in 5 .. Len(w)
  BY RequestSeen
<1>2. PICK i \in 0 .. Len(w), j \in 0 .. Len(w) : UpAt(i, j)
  BY DEF Inv, Upward, RecvBody
<1>3. /\ i <= j /\ up = Seg(w, i, j) /\ (~broken => j = Sent)
      /\ h <= i /\ got = Seg(w, h, i) /\ HeaderOf(buffer) = Seg(w, 0, h - 2)
  BY <1>2 DEF UpAt, RecvBody
<1>4. /\ server = "body"
      /\ UNCHANGED <<request, client, raw, result, server, down, broken, buffer, handled, response>>
  BY DEF RecvBody, clientVars
<1>5. PICK n \in Sizes(up) : up' = Rest(up, n) /\ got' = got \o First(up, n)
  BY DEF RecvBody
<1> DEFINE k == i + n
<1>6. n \in 1 .. j - i /\ i \in 0 .. Len(w) /\ j \in i .. Len(w)
  <2>1. j \in i .. Len(w)
    BY <1>3
  <2> HIDE DEF w
  <2> QED BY <1>1, <1>3, <1>5, <2>1, Received
<1>7. /\ k \in 0 .. Len(w) /\ k \in i .. Len(w) /\ k <= j /\ n \in 0 .. j - i
      /\ h \in 0 .. Len(w) /\ i \in h .. Len(w) /\ h <= k
  BY <1>1, <1>3, <1>6
<1>8. First(up, n) = Seg(w, i, k) /\ up' = Seg(w, k, j)
  <2>1. First(Seg(w, i, j), n) = Seg(w, i, k) /\ Rest(Seg(w, i, j), n) = Seg(w, k, j)
    <3> HIDE DEF w
    <3> QED BY <1>1, <1>6, <1>7, SegCut
  <2> QED BY <1>3, <1>5, <2>1
<1> HIDE DEF w, h, k
<1>9. got' = Seg(w, h, k)
  <2>1. Seg(w, h, i) \o Seg(w, i, k) = Seg(w, h, k)
    BY <1>1, <1>7, SegJoin
  <2> QED BY <1>3, <1>5, <1>8, <2>1
<1>10. HeaderOf(buffer)' = HeaderOf(buffer)
  BY <1>4 DEF HeaderOf, HeaderEnd, EmptyLines
<1>11. UpAt(k, j)'
  BY <1>3, <1>4, <1>7, <1>8, <1>9, <1>10 DEF UpAt, Sent, w, h
<1>12. Upward'
  BY <1>4, <1>7, <1>11 DEF Upward, w
<1>13. Downward' /\ Answered' /\ Finished' /\ TypeInv'
  BY <1>4, DownwardStays, AnsweredStays DEF Inv, Finished, TypeInv
<1> QED BY <1>12, <1>13 DEF Inv

\* parse_request gives up.
LEMMA RecvNothingOK == ASSUME Inv, RecvNothing PROVE Inv'
<1>1. /\ server \in {"header", "body"} /\ server' = "send" /\ response' = Refusal
      /\ UNCHANGED <<request, client, raw, result, up, down, broken, buffer, got, handled>>
  BY DEF RecvNothing, Answer, clientVars
<1>2. Refusal \in Answers /\ ~(Refusal.status < 300)
  BY DEF Refusal, Error, Answers
<1>3. TypeInv' /\ Upward'
  BY <1>1 DEF Inv, TypeInv, Upward
<1>4. Answered'
  BY <1>1, <1>2 DEF Inv, Answered, RequestExact
<1>5. Downward' /\ Finished'
  BY <1>1 DEF Inv, Downward, Finished, Closed
<1> QED BY <1>3, <1>4, <1>5 DEF Inv

\* The job of HttpServer::run finds the route, tests the token and runs the handler.
LEMMA DispatchOK == ASSUME Inv, Dispatch PROVE Inv'
<1> DEFINE q == request
           w == Whole(request)
           h == HeadLen(request)
           route == Header(HeaderOf(buffer), "route", Nil)
           token == Header(HeaderOf(buffer), "token", Nil)
           open == Permission[route] = Nil
           given == Body
           shown == IF open THEN Nil ELSE token
<1>1. /\ q \in Requests /\ w \in Seq(Tokens(q)) /\ Len(w) \in Nat /\ h \in 5 .. Len(w)
      /\ Seg(w, h, Len(w)) = q.body /\ Len(w) = h + Len(q.body) /\ Len(q.body) \in Nat
  BY RequestSeen
<1>2. PICK i \in 0 .. Len(w), j \in 0 .. Len(w) : UpAt(i, j)
  BY DEF Inv, Upward, Dispatch
<1>3. h <= i /\ got = Seg(w, h, i) /\ HeaderOf(buffer) = Seg(w, 0, h - 2)
  BY <1>2 DEF UpAt, Dispatch
<1>4. /\ route = q.route
      /\ Wanted = Len(q.body)
      /\ token = Nil \/ <<"token", token>> \in Range(q.lines)
  BY <1>1, <1>3, RequestFacts DEF Wanted, Whole, HeadLen
<1>5. i = Len(w) /\ got = q.body
  <2>1. h \in 0 .. Len(w) /\ i \in h .. Len(w)
    <3> HIDE DEF w, h, q
    <3> QED BY <1>1, <1>3
  <2>2. Len(got) = i - h
    <3>1. w \in Seq(Tokens(q)) /\ h \in 0 .. Len(w) /\ i \in h .. Len(w)
      BY <1>1, <2>1
    <3>2. got = Seg(w, h, i)
      BY <1>3
    <3> HIDE DEF w, h
    <3>3. Len(Seg(w, h, i)) = i - h
      BY <3>1, SegFacts
    <3> QED BY <3>2, <3>3
  <2>3. Len(got) >= Len(q.body)
    BY <1>4 DEF Dispatch, Complete
  <2>4. i = Len(w)
    <3> HIDE DEF w, h, q
    <3> QED BY <1>1, <1>3, <2>1, <2>2, <2>3
  <2> HIDE DEF w, h, q
  <2> QED BY <1>1, <1>3, <2>4
<1>6. given = q.body
  <2>1. q.body \in Seq(Range(q.body))
    BY <1>1, ExchangeAssumption
  <2>2. SubSeq(q.body, 1, Len(q.body)) = q.body
    BY <2>1, SubSeqFull
  <2> QED BY <1>1, <1>4, <1>5, <2>2 DEF Body
<1>7. /\ server = "body" /\ server' \in {"send", "dropped"} /\ handled = Nil
      /\ UNCHANGED <<request, client, raw, result, up, down, broken, buffer, got>>
  BY DEF Dispatch, Answer, clientVars, Inv, Answered
<1>8. TypeInv' /\ Upward'
  BY <1>7 DEF Inv, TypeInv, Upward
<1>9. Downward' /\ Finished'
  BY <1>7 DEF Inv, Downward, Finished, Closed
<1> HIDE DEF w, h, given
<1>10. \/ /\ route \notin Routes /\ response' = Error(404) /\ UNCHANGED handled
       \/ /\ response' = Error(IF token \in DOMAIN Granted THEN 403 ELSE 401) /\ UNCHANGED handled
       \/ /\ route \in Routes /\ (open \/ Authorized(token, Permission[route]))
          /\ response' \in Replies \/ server' = "dropped"
          /\ handled' = [route |-> route, token |-> shown, body |-> given]
  BY DEF Dispatch, Answer, given
<1> HIDE DEF shown
<1>11. CASE UNCHANGED handled /\ response' \in {Error(code) : code \in {404, 403, 401}}
  <2>1. response' \in Answers /\ ~(response'.status < 300)
    BY <1>11 DEF Error, Answers
  <2>2. Answered'
    BY <1>7, <1>11, <2>1 DEF Answered, RequestExact
  <2> QED BY <1>8, <1>9, <2>2 DEF Inv
<1>12. CASE /\ route \in Routes /\ (open \/ Authorized(token, Permission[route]))
            /\ response' \in Replies \/ server' = "dropped"
            /\ handled' = [route |-> route, token |-> shown, body |-> given]
  <2>1. ~open => token \in DOMAIN Granted /\ token # Nil /\ shown = token
    BY <1>12, NilAssumption DEF Authorized, shown
  <2>2. shown \in DOMAIN Granted \cup {Nil}
    BY <2>1 DEF shown
  <2>3. handled' \in Givens /\ handled' # Nil
    <3>1. given \in {p.body : p \in Requests}
      BY <1>1, <1>6
    <3>2. handled' \in Givens
      BY <1>12, <2>2, <3>1 DEF Givens
    <3> QED BY <3>2, NilAssumption DEF Givens
  <2>4. /\ handled'.route = q.route /\ handled'.body = q.body
        /\ Permission[q.route] # Nil =>
             /\ handled'.token = token /\ <<"token", token>> \in Range(q.lines)
             /\ Authorized(token, Permission[q.route])
    BY <1>4, <1>6, <1>12, <2>1
  <2>5. RequestExact'
    BY <1>7, <2>4 DEF RequestExact, Authorized
  <2>6. server' = "send" => response' \in Answers
    BY <1>12 DEF Answers
  <2>7. Answered'
    BY <1>7, <2>3, <2>5, <2>6 DEF Answered
  <2> QED BY <1>8, <1>9, <2>7 DEF Inv
<1> QED BY <1>10, <1>11, <1>12

\* The server sends its answer and is rid of the connection.
LEMMA SendReplyOK == ASSUME Inv, SendReply PROVE Inv'
<1> DEFINE v == Serialize(response)
           h == ReplyLen(response)
<1>1. /\ server = "send" /\ Closed(server') /\ raw = <<>> /\ down = <<>> /\ response \in Answers
      /\ UNCHANGED <<request, client, raw, result, up, broken, buffer, got, handled, response>>
  BY DEF SendReply, Inv, Downward, Answered, Closed, clientVars
<1>2. v \in Seq(ReplyTokens(response)) /\ Len(v) \in Nat
  BY <1>1, ReplyFramed DEF Framed
<1>3. 0 \in 0 .. Len(v) /\ Len(v) \in 0 .. Len(v)
  BY <1>2
<1>4. Seg(v, 0, 0) = <<>> /\ Seg(v, 0, Len(v)) = v
  <2> HIDE DEF v
  <2> QED BY <1>2, <1>3, SegFacts
<1>5. TypeInv' /\ Upward' /\ Answered'
  BY <1>1 DEF Inv, TypeInv, Upward, Answered, RequestExact, Closed
<1>6. Finished'
  BY <1>1 DEF Inv, Finished, Closed, SendReply
<1>7. CASE ~broken
  <2>1. down' = v /\ server' = "free"
    <3>1. <<>> \o v = v
      <4> HIDE DEF v
      <4> QED BY <1>2, ConcatEmptySeq
    <3> QED BY <1>1, <1>7, <3>1 DEF SendReply
  <2>2. DownAt(0, Len(v))'
    BY <1>1, <1>2, <1>4, <2>1 DEF DownAt
  <2>3. Downward'
    BY <1>1, <1>3, <2>1, <2>2 DEF Downward, Closed
  <2> QED BY <1>5, <1>6, <2>3 DEF Inv
<1>8. CASE broken
  <2>1. down' = <<>>
    BY <1>1, <1>8 DEF SendReply
  <2>2. DownAt(0, 0)'
    BY <1>1, <1>4, <1>8, <2>1 DEF DownAt
  <2>3. Downward'
    BY <1>1, <1>3, <1>8, <2>2 DEF Downward, Closed
  <2> QED BY <1>5, <1>6, <2>3 DEF Inv
<1> QED BY <1>1, <1>7, <1>8 DEF Inv, TypeInv

-----------------------------------------------------------------------------
(* The receiving half of the client, and the connection *)

\* The request as far as the server is concerned does not change.
LEMMA UpwardStays ==
  ASSUME Upward, UNCHANGED <<request, server, up, buffer, got>>,
         broken' \/ (Sent' = Sent /\ broken' = broken)
  PROVE  Upward'
<1>1. HeaderOf(buffer)' = HeaderOf(buffer)
  BY DEF HeaderOf, HeaderEnd, EmptyLines
<1>2. \A i, j \in 0 .. Len(Whole(request)) : UpAt(i, j) => UpAt(i, j)'
  BY <1>1 DEF UpAt
<1> QED BY <1>2 DEF Upward

\* What has arrived of a reply that is under way, in terms of the reply.
LEMMA ReplySeen ==
  ASSUME Inv, Closed(server)
  PROVE  /\ response \in Answers
         /\ Framed(Serialize(response), ReplyLen(response), ReplyTokens(response))
         /\ Serialize(response) \in Seq(ReplyTokens(response)) /\ Len(Serialize(response)) \in Nat
         /\ ReplyLen(response) \in 5 .. Len(Serialize(response))
         /\ \E i, j \in 0 .. Len(Serialize(response)) : DownAt(i, j)
<1>1. response \in Answers
  BY DEF Inv, Answered, Closed
<1> QED BY <1>1, ReplyFramed DEF Inv, Downward, Framed

\* http_request reads on.
LEMMA RecvReplyOK == ASSUME Inv, RecvReply PROVE Inv'
<1> DEFINE v == Serialize(response)
<1>1. /\ client = "reply"
      /\ UNCHANGED <<request, server, buffer, got, handled, response, client, up, broken, result>>
  BY DEF RecvReply, serverVars
<1>2. PICK n \in Sizes(down) : down' = Rest(down, n) /\ raw' = raw \o First(down, n)
  BY DEF RecvReply
<1>3. down # <<>>
  <2>1. Sizes(<<>>) = {}
    BY ExchangeAssumption DEF Sizes
  <2> QED BY <1>2, <2>1
<1>4. Closed(server)
  BY <1>3 DEF Inv, Downward
<1>5. v \in Seq(ReplyTokens(response)) /\ Len(v) \in Nat
  BY <1>4, ReplySeen
<1>6. PICK i \in 0 .. Len(v), j \in 0 .. Len(v) : DownAt(i, j)
  BY <1>4, ReplySeen
<1>7. i <= j /\ raw = Seg(v, 0, i) /\ down = Seg(v, i, j) /\ (~broken => j = Len(v))
  BY <1>6 DEF DownAt
<1> DEFINE k == i + n
<1>8. n \in 1 .. j - i /\ j \in i .. Len(v)
  <2>1. j \in i .. Len(v)
    BY <1>7
  <2> HIDE DEF v
  <2> QED BY <1>2, <1>5, <1>7, <2>1, Received
<1>9. /\ k \in 0 .. Len(v) /\ k \in i .. Len(v) /\ k <= j /\ n \in 0 .. j - i /\ 0 \in 0 .. Len(v)
  BY <1>5, <1>8
<1>10. First(down, n) = Seg(v, i, k) /\ down' = Seg(v, k, j)
  <2>1. First(Seg(v, i, j), n) = Seg(v, i, k) /\ Rest(Seg(v, i, j), n) = Seg(v, k, j)
    <3> HIDE DEF v
    <3> QED BY <1>5, <1>8, <1>9, SegCut
  <2> QED BY <1>2, <1>7, <2>1
<1> HIDE DEF v, k
<1>11. raw' = Seg(v, 0, k)
  <2>1. Seg(v, 0, i) \o Seg(v, i, k) = Seg(v, 0, k)
    BY <1>5, <1>9, SegJoin
  <2> QED BY <1>2, <1>7, <1>10, <2>1
<1>12. DownAt(k, j)'
  BY <1>1, <1>7, <1>9, <1>10, <1>11 DEF DownAt, v
<1>13. Downward'
  BY <1>1, <1>4, <1>9, <1>12 DEF Inv, Downward, v, Closed
<1>14. Sent' = Sent
  BY <1>1 DEF Sent
<1>15. TypeInv' /\ Upward' /\ Answered' /\ Finished'
  BY <1>1, <1>14, UpwardStays, AnsweredStays DEF Inv, TypeInv, Finished
<1> QED BY <1>13, <1>15 DEF Inv

\* http_request returns.
LEMMA ReplyEndsOK == ASSUME Inv, ReplyEnds PROVE Inv'
<1>1. /\ client = "reply" /\ client' = "done" /\ down = <<>> /\ (broken \/ Closed(server))
      /\ result' = Reply(raw)
      /\ UNCHANGED <<request, server, buffer, got, handled, response, up, down, broken, raw>>
  BY DEF ReplyEnds, serverVars
<1>2. Sent' = Sent
  BY <1>1 DEF Sent
<1>3. TypeInv' /\ Upward' /\ Answered' /\ Downward'
  BY <1>1, <1>2, UpwardStays, AnsweredStays, DownwardStays DEF Inv, TypeInv
<1>4. Finished'
  BY <1>1 DEF Finished, Reply, EmptyLines, AfterHeader, HeaderEnd, Closed
<1> QED BY <1>3, <1>4 DEF Inv

\* The connection breaks: what is under way loses its end.
LEMMA BreakOK == ASSUME Inv, Break PROVE Inv'
<1>1. /\ broken' = TRUE
      /\ UNCHANGED <<request, server, buffer, got, handled, response, client, raw, result>>
  BY DEF Break, serverVars, clientVars
<1>2. PICK a \in 0 .. Len(up) : up' = First(up, a)
  BY DEF Break
<1>3. PICK d \in 0 .. Len(down) : down' = First(down, d)
  BY DEF Break
<1>4. TypeInv' /\ Answered' /\ Finished'
  BY <1>1, AnsweredStays DEF Inv, TypeInv, Finished
<1>5. Upward'
  <2> SUFFICES ASSUME server \in {"header", "body"}
               PROVE  \E i, j \in 0 .. Len(Whole(request)) : UpAt(i, j)'
    BY <1>1 DEF Upward
  <2> DEFINE w == Whole(request)
  <2>1. PICK i \in 0 .. Len(w), j \in 0 .. Len(w) : UpAt(i, j)
    BY DEF Inv, Upward
  <2>2. w \in Seq(Tokens(request)) /\ Len(w) \in Nat
    BY RequestSeen
  <2>3. i <= j /\ j \in i .. Len(w) /\ up = Seg(w, i, j)
    BY <2>1 DEF UpAt
  <2>4. Len(up) = j - i
    <3> HIDE DEF w
    <3>1. i \in 0 .. Len(w) /\ j \in i .. Len(w)
      BY <2>3
    <3>2. Len(Seg(w, i, j)) = j - i
      BY <2>2, <3>1, SegFacts
    <3> QED BY <2>3, <3>2
  <2> DEFINE e == i + a
  <2>5. a \in 0 .. j - i /\ e \in 0 .. Len(w) /\ i <= e
    BY <2>2, <2>3, <2>4
  <2>6. up' = Seg(w, i, e)
    <3> HIDE DEF w
    <3> QED BY <1>2, <2>2, <2>3, <2>5, SegCut
  <2> HIDE DEF e
  <2>7. HeaderOf(buffer)' = HeaderOf(buffer)
    BY <1>1 DEF HeaderOf, HeaderEnd, EmptyLines
  <2>8. UpAt(i, e)'
    BY <1>1, <2>1, <2>5, <2>6, <2>7 DEF UpAt
  <2> QED BY <2>5, <2>8
<1>6. Downward'
  <2>1. CASE Closed(server)
    <3> DEFINE v == Serialize(response)
    <3>1. PICK i \in 0 .. Len(v), j \in 0 .. Len(v) : DownAt(i, j)
      BY <2>1 DEF Inv, Downward
    <3>2. v \in Seq(ReplyTokens(response)) /\ Len(v) \in Nat
      BY <2>1, ReplySeen
    <3>3. i <= j /\ j \in i .. Len(v) /\ down = Seg(v, i, j)
      BY <3>1 DEF DownAt
    <3>4. Len(down) = j - i
      <4> HIDE DEF v
      <4>1. i \in 0 .. Len(v) /\ j \in i .. Len(v)
        BY <3>3
      <4>2. Len(Seg(v, i, j)) = j - i
        BY <3>2, <4>1, SegFacts
      <4> QED BY <3>3, <4>2
    <3> DEFINE e == i + d
    <3>5. d \in 0 .. j - i /\ e \in 0 .. Len(v) /\ i <= e
      BY <3>2, <3>3, <3>4
    <3>6. down' = Seg(v, i, e)
      <4> HIDE DEF v
      <4> QED BY <1>3, <3>2, <3>3, <3>5, SegCut
    <3> HIDE DEF e
    <3>7. DownAt(i, e)'
      BY <1>1, <3>1, <3>5, <3>6 DEF DownAt
    <3> QED BY <1>1, <2>1, <3>5, <3>7 DEF Downward, Closed
  <2>2. CASE ~Closed(server)
    <3>1. down = <<>> /\ raw = <<>>
      BY <2>2 DEF Inv, Downward
    <3>2. down' = <<>>
      BY <1>3, <3>1 DEF First
    <3> QED BY <1>1, <2>2, <3>1, <3>2 DEF Downward, Closed
  <2> QED BY <2>1, <2>2
<1> QED BY <1>4, <1>5, <1>6 DEF Inv

-----------------------------------------------------------------------------
(* The theorems *)

\* Every step keeps the invariant.
LEMMA StepKeeps == ASSUME Inv, [Next]_vars PROVE Inv'
<1>1. CASE ClientStep
  BY <1>1, SendOK, RecvReplyOK, ReplyEndsOK DEF ClientStep
<1>2. CASE ServerStep
  BY <1>2, RecvHeaderOK, RecvBodyOK, RecvNothingOK, DispatchOK, SendReplyOK DEF ServerStep
<1>3. CASE Break
  BY <1>3, BreakOK
<1>4. CASE UNCHANGED vars
  <2>1. /\ UNCHANGED <<request, client, server, up, down, broken>>
        /\ UNCHANGED <<buffer, got, handled, response, raw, result>>
    BY <1>4 DEF vars
  <2>2. Sent' = Sent
    BY <2>1 DEF Sent
  <2>3. TypeInv' /\ Upward' /\ Answered' /\ Downward'
    BY <2>1, <2>2, UpwardStays, AnsweredStays, DownwardStays DEF Inv, TypeInv
  <2>4. Finished'
    BY <2>1 DEF Inv, Finished, Closed, Reply, EmptyLines, AfterHeader, HeaderEnd
  <2> QED BY <2>3, <2>4 DEF Inv
<1> QED BY <1>1, <1>2, <1>3, <1>4 DEF Next

\* The invariant holds in every reachable state.
LEMMA Reachable == Spec => []Inv
BY InitOK, StepKeeps, PTL DEF Spec

\* For every request, and however its stream is cut into pieces or breaks: a handler
\* that runs has been given the route and the body the client sent, whole, and, if
\* its route asks for a permission, a token among the client's lines that has it.
THEOREM HandlersGetTheRequest == Spec => []RequestExact
BY Reachable, PTL DEF Inv, Answered

\* What the client returns, in terms of the reply: nothing, or the reply's status
\* and the part of its body that has arrived.
LEMMA ResultIs ==
  ASSUME Inv, client = "done"
  PROVE  /\ result # Nil => /\ Closed(server) /\ response \in Answers
                            /\ result.status = response.status
                            /\ IsPrefix(result.body, response.body)
         /\ ~broken => result # Nil /\ result.body = response.body
<1> DEFINE v == Serialize(response)
           h == ReplyLen(response)
           r == [status |-> raw[1][2], body |-> AfterHeader(raw)]
<1>1. result = Reply(raw) /\ (broken \/ (Closed(server) /\ down = <<>>))
  BY DEF Inv, Finished
<1>2. CASE ~Closed(server)
  <2>1. raw = <<>>
    BY <1>2 DEF Inv, Downward
  <2>2. EmptyLines(raw) = {}
    BY <2>1 DEF EmptyLines
  <2> QED BY <1>1, <1>2, <2>2 DEF Reply
<1>3. CASE Closed(server)
  <2>1. /\ response \in Answers /\ Framed(v, h, ReplyTokens(response))
        /\ v \in Seq(ReplyTokens(response)) /\ Len(v) \in Nat /\ h \in 5 .. Len(v)
    BY <1>3, ReplySeen
  <2>2. /\ Seg(v, h, Len(v)) = response.body /\ v[1][2] = response.status
        /\ Len(v) = h + Len(response.body) /\ Len(response.body) \in Nat
    BY <2>1, ReplyFramed
  <2>3. PICK i \in 0 .. Len(v), j \in 0 .. Len(v) : DownAt(i, j)
    BY <1>3, ReplySeen
  <2>4. i <= j /\ raw = Seg(v, 0, i) /\ down = Seg(v, i, j) /\ (~broken => j = Len(v))
    BY <2>3 DEF DownAt
  <2>5. EmptyLines(raw) = {} <=> i < h
    BY <2>1, <2>4 DEF Framed
  <2>6. ASSUME i >= h
        PROVE  /\ result = r /\ r.status = response.status /\ r.body = Seg(v, h, i)
    <3>1. result = r
      BY <1>1, <2>1, <2>5, <2>6 DEF Reply
    <3>2. AfterHeader(raw) = Seg(v, h, i)
      BY <2>1, <2>4, <2>6 DEF Framed
    <3>3. raw[1] = v[1]
      <4>1. /\ Len(Seg(v, 0, i)) = i - 0 /\ \A n \in 1 .. i - 0 : Seg(v, 0, i)[n] = v[0 + n]
        <5>1. 0 \in 0 .. Len(v) /\ i \in 0 .. Len(v)
          BY <2>1
        <5> HIDE DEF v
        <5> QED BY <2>1, <5>1, SegFacts
      <4>2. 1 \in 1 .. i - 0 /\ 0 + 1 = 1
        BY <2>1, <2>6
      <4> QED BY <2>4, <4>1, <4>2
    <3> QED BY <2>2, <3>1, <3>2, <3>3
  <2>7. ASSUME i >= h
        PROVE  IsPrefix(Seg(v, h, i), response.body)
    <3> DEFINE u == response.body
               n == i - h
    <3>1. /\ h \in 0 .. Len(v) /\ Len(v) \in h .. Len(v) /\ n \in 0 .. Len(v) - h /\ h + n = i
          /\ i \in h .. Len(v) /\ n <= Len(u) /\ n \in Nat
      BY <2>1, <2>2, <2>7
    <3> HIDE DEF v, n, h
    <3>2. First(Seg(v, h, Len(v)), n) = Seg(v, h, h + n)
      BY <2>1, <3>1, SegCut
    <3>3. First(u, n) = Seg(v, h, i)
      BY <2>2, <3>1, <3>2
    <3>4. Len(Seg(v, h, i)) = i - h /\ Seg(v, h, i) \in Seq(ReplyTokens(response))
      BY <2>1, <3>1, SegFacts
    <3>5. Len(Seg(v, h, i)) = n
      BY <3>4 DEF n
    <3>6. SubSeq(Seg(v, h, i), 1, n) = Seg(v, h, i)
      BY <3>4, <3>5, SubSeqFull
    <3> QED BY <3>1, <3>3, <3>5, <3>6 DEF IsPrefix, First
  <2>8. ASSUME ~broken
        PROVE  i = Len(v)
    <3>1. down = <<>> /\ j = Len(v)
      BY <1>1, <2>4, <2>8
    <3>2. Len(Seg(v, i, j)) = j - i
      <4>1. j \in i .. Len(v)
        BY <2>4
      <4> HIDE DEF v
      <4> QED BY <2>1, <4>1, SegFacts
    <3> QED BY <2>1, <2>4, <3>1, <3>2
  <2>9. ASSUME ~broken
        PROVE  result # Nil /\ result.body = response.body
    <3>1. i >= h
      BY <2>1, <2>8, <2>9
    <3>2. result = r /\ r.status = response.status /\ r.body = response.body
      BY <2>2, <2>6, <2>8, <2>9, <3>1
    <3>3. result = response
      BY <2>1, <3>2, AnswerFacts
    <3> QED BY <2>1, <3>3, NilAssumption
  <2>10. ASSUME result # Nil
         PROVE  i >= h
    BY <1>1, <2>1, <2>5, <2>10 DEF Reply
  <2> QED BY <1>3, <2>1, <2>6, <2>7, <2>9, <2>10
<1> QED BY <1>2, <1>3

\* For every reply and every way the connection may end: the client returns an error,
\* or the server's status with a prefix of the server's body, and all of it unless
\* the connection broke.
THEOREM ClientsGetTheReply == Spec => []ReplyExact
<1>1. Inv => ReplyExact
  BY ResultIs DEF ReplyExact
<1> QED BY <1>1, Reachable, PTL

\* Whatever the handlers answer: a client that returns success has had its handler
\* run, broken connections included.
THEOREM SuccessMeansHandled == Spec => []SuccessIsHandled
<1>1. Inv => SuccessIsHandled
  BY ResultIs DEF SuccessIsHandled, Inv, Answered, Closed
<1> QED BY <1>1, Reachable, PTL

-----------------------------------------------------------------------------
(* The codecs on the bodies received *)

\* What parse_request has of the body is a part of the request.
InBody == server = "body" => got \in Seq(Tokens(request))

\* And what it has had of it, at any time.
GotSeq == got \in Seq(Tokens(request))

\* It stays so when the request has been refused or answered.
LEMMA GotStays == Spec => []GotSeq
<1>1. Inv => InBody
  <2> SUFFICES ASSUME Inv, server = "body" PROVE got \in Seq(Tokens(request))
    BY DEF InBody
  <2> DEFINE w == Whole(request)
             h == HeadLen(request)
  <2>1. w \in Seq(Tokens(request)) /\ Len(w) \in Nat /\ h \in 5 .. Len(w)
    BY RequestSeen
  <2>2. PICK i \in 0 .. Len(w), j \in 0 .. Len(w) : UpAt(i, j)
    BY DEF Inv, Upward
  <2>3. h <= i /\ got = Seg(w, h, i)
    BY <2>2 DEF UpAt
  <2>4. h \in 0 .. Len(w) /\ i \in h .. Len(w)
    BY <2>1, <2>3
  <2> HIDE DEF w, h
  <2> QED BY <2>1, <2>3, <2>4, SegFacts
<1>2. Init => GotSeq
  BY DEF Init, GotSeq
<1>3. GotSeq /\ InBody' /\ [Next]_vars => GotSeq'
  <2> SUFFICES ASSUME GotSeq, InBody', [Next]_vars PROVE GotSeq'
    OBVIOUS
  <2>1. request' = request
    BY DEF Next, ClientStep, ServerStep, SendHead, SendBody, RecvReply, ReplyEnds, RecvHeader, RecvBody,
           RecvNothing, Dispatch, SendReply, Break, vars
  <2>2. got' = got \/ server' = "body"
    BY DEF Next, ClientStep, ServerStep, SendHead, SendBody, RecvReply, ReplyEnds, RecvHeader, RecvBody,
           RecvNothing, Dispatch, SendReply, Break, vars, serverVars
  <2>3. Tokens(request)' = Tokens(request)
    BY <2>1 DEF Tokens
  <2> QED BY <2>2, <2>3 DEF GotSeq, InBody
<1> QED BY <1>1, <1>2, <1>3, Reachable, PTL DEF Spec

\* The two parts of what has been received are all of it.
LEMMA TwoParts ==
  ASSUME NEW S, NEW s \in Seq(S), NEW i \in 0 .. Len(s)
  PROVE  First(s, i) \in Seq(S) /\ Rest(s, i) \in Seq(S) /\ First(s, i) \o Rest(s, i) = s
<1>1. Len(s) \in Nat /\ 0 \in 0 .. Len(s) /\ i \in 0 .. Len(s) /\ Len(s) \in i .. Len(s)
  OBVIOUS
<1>2. First(s, i) = Seg(s, 0, i) /\ Rest(s, i) = Seg(s, i, Len(s))
  BY DEF First, Rest, Seg
<1>3. Seg(s, 0, i) \in Seq(S) /\ Seg(s, i, Len(s)) \in Seq(S) /\ Seg(s, 0, Len(s)) = s
  BY <1>1, SegFacts
<1>4. Seg(s, 0, i) \o Seg(s, i, Len(s)) = Seg(s, 0, Len(s))
  BY <1>1, SegJoin
<1> QED BY <1>2, <1>3, <1>4

\* Of every body a server may receive, in whole or in part, and for every chunk size,
\* chunk_bytes makes chunks whose concatenation is the body.
THEOREM BodiesJoin == Spec => []ChunksJoin
<1>1. GotSeq => ChunksJoin
  <2> SUFFICES ASSUME GotSeq, NEW size \in ChunkSizes
               PROVE  JoinsTo(ChunkBytes(got, size), got, IF size = 0 THEN DefaultChunk ELSE size)
    BY DEF ChunksJoin
  <2>1. size \in Nat /\ got \in Seq(Tokens(request))
    BY SizesAssumption DEF GotSeq
  <2> QED BY <2>1, ChunksComeTogether, Zenon
<1> QED BY <1>1, GotStays, PTL

\* Sha256 compresses the standard padding of every body a server may receive, wherever
\* the caller cuts it in two.
THEOREM BodiesPadded == Spec => []PaddedRight
<1>1. GotSeq => PaddedRight
  <2> SUFFICES ASSUME GotSeq, NEW i \in 0 .. Len(got)
               PROVE  LET s == Digest(Update(Update(NewSha, First(got, i)), Rest(got, i))) IN
                      s.buffer = <<>> /\ FlattenSeq(s.blocks) = StandardPadding(got)
    BY DEF PaddedRight
  <2> DEFINE f == First(got, i)
             r == Rest(got, i)
  <2>1. f \in Seq(Tokens(request)) /\ r \in Seq(Tokens(request)) /\ f \o r = got
    BY TwoParts DEF GotSeq
  <2> HIDE DEF f, r
  <2>2. LET s == Digest(Update(Update(NewSha, f), r)) IN
        s.buffer = <<>> /\ FlattenSeq(s.blocks) = StandardPadding(f \o r)
    BY <2>1, PaddingIsStandard
  <2> QED BY <2>1, <2>2 DEF f, r
<1> QED BY <1>1, GotStays, PTL

\* A frame of any id and payload that a body may be cut into is decoded as it was
\* encoded, or refused when a length does not fit.
THEOREM BodiesFramed == Spec => []WireExact
<1>1. GotSeq => WireExact
  <2> SUFFICES ASSUME GotSeq, NEW i \in 0 .. Len(got)
               PROVE  LET f == [type |-> 1, cid |-> First(got, i), payload |-> Rest(got, i)] IN
                      DecodeFrame(EncodeFrame(f)) = IF Fits(f) THEN f ELSE NoFrame
    BY DEF WireExact
  <2>1. First(got, i) \in Seq(Tokens(request)) /\ Rest(got, i) \in Seq(Tokens(request))
    BY TwoParts DEF GotSeq
  <2>2. 1 \in 0 .. Power[TypeBytes] - 1
    <3>1. /\ TypeBytes - 1 \in Nat /\ (TypeBytes - 1) + 1 = TypeBytes
          /\ Base \in Nat /\ Base >= 2
      BY CodecAssumption
    <3>2. Power[TypeBytes] = Base * Power[TypeBytes - 1] /\ Power[TypeBytes - 1] \in Nat \ {0}
      BY <3>1, PowerNext, PowerType
    <3>3. Base * 1 <= Base * Power[TypeBytes - 1]
      BY <3>1, <3>2
    <3>4. Power[TypeBytes] \in Nat /\ Power[TypeBytes] >= 2
      BY <3>1, <3>2, <3>3
    <3> QED BY <3>4
  <2> QED BY <2>1, <2>2, FramesComeBack, Zenon
<1> QED BY <1>1, GotStays, PTL
=============================================================================
