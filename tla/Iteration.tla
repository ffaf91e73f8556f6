----------------------------- MODULE Iteration -----------------------------
(***************************************************************************)
(* Induction over numbers, and the loops and recursive functions that need *)
(* it.  The library states induction for operators, which the provers do   *)
(* not instantiate; WFMin states it for sets, and that is enough: what is  *)
(* to be shown of every number is a set of numbers, and a step of a loop   *)
(* is a function.                                                          *)
(***************************************************************************)
EXTENDS Integers, Sequences, WellFoundedInduction, TLAPS

\* A nonempty set of numbers has a least one.
LEMMA LeastNumber ==
  ASSUME NEW T \in SUBSET Nat, T # {}
  PROVE  \E m \in T : \A k \in T : m <= k
<1> DEFINE R == OpToRel(<, Nat)
<1>1. IsWellFoundedOn(R, Nat)
  BY NatLessThanWellFounded
<1>2. \A x, y \in Nat : <<x, y>> \in R <=> x < y
  BY DEF OpToRel
<1> HIDE DEF R
<1>3. PICK x \in T : \A y \in T : ~ (<<y, x>> \in R)
  BY <1>1, WFMin
<1>4. ASSUME NEW y \in T PROVE x <= y
  <2>1. x \in Nat /\ y \in Nat /\ ~(<<y, x>> \in R)
    BY <1>3
  <2>2. ~(y < x)
    BY <1>2, <2>1
  <2> QED BY <2>1, <2>2
<1> QED BY <1>4

\* A nonempty set of numbers up to n has a greatest one.
LEMMA GreatestNumber ==
  ASSUME NEW n \in Nat, NEW T \in SUBSET (1 .. n), T # {}
  PROVE  \E i \in T : \A k \in T : k <= i
<1> DEFINE D == {n - i : i \in T}
<1>1. D \in SUBSET Nat /\ D # {}
  <2>1. PICK i \in T : TRUE
    OBVIOUS
  <2>2. n - i \in D
    BY <2>1
  <2>3. \A j \in T : j \in 1 .. n /\ n - j \in Nat
    OBVIOUS
  <2> QED BY <2>2, <2>3
<1>2. PICK d \in D : \A e \in D : d <= e
  <2> HIDE DEF D
  <2> QED BY <1>1, LeastNumber
<1>3. PICK i \in T : d = n - i
  OBVIOUS
<1>4. \A k \in T : k <= i
  <2> SUFFICES ASSUME NEW k \in T PROVE k <= i
    OBVIOUS
  <2>1. n - i <= n - k
    BY <1>2, <1>3
  <2> QED BY <2>1
<1> QED BY <1>4

\* Induction: a set that holds 0, and with every number the next one, holds them all.
LEMMA SetInduction ==
  ASSUME NEW S, 0 \in S, \A n \in Nat : n \in S => n + 1 \in S
  PROVE  Nat \subseteq S
<1> DEFINE T == Nat \ S
<1> SUFFICES ASSUME T # {} PROVE FALSE
  OBVIOUS
<1>1. PICK m \in T : \A k \in T : m <= k
  BY LeastNumber
<1>2. m - 1 \in Nat /\ m - 1 \in S
  BY <1>1
<1> QED BY <1>1, <1>2

\* g holds the states of a loop that starts in s0 and takes n steps: step[i] maps the
\* state before the i-th step to the one after it.
Runs(S, s0, step, n, g) ==
  /\ g \in [0 .. n -> S] /\ g[0] = s0
  /\ \A i \in 1 .. n : g[i] = step[i][g[i - 1]]

\* Two runs of the same loop agree as far as both of them go.
LEMMA RunsAgree ==
  ASSUME NEW S, NEW s0 \in S, NEW step \in [Nat -> [S -> S]], NEW n \in Nat, NEW m \in Nat,
         NEW g, NEW h, Runs(S, s0, step, n, g), Runs(S, s0, step, m, h)
  PROVE  \A i \in Nat : i <= n /\ i <= m => g[i] = h[i]
<1> DEFINE T == {i \in Nat : i <= n /\ i <= m => g[i] = h[i]}
<1>1. 0 \in T
  BY DEF Runs
<1>2. ASSUME NEW i \in Nat, i \in T PROVE i + 1 \in T
  <2> SUFFICES ASSUME i + 1 <= n, i + 1 <= m PROVE g[i + 1] = h[i + 1]
    OBVIOUS
  <2>1. g[i] = h[i]
    BY <1>2
  <2>2. i + 1 \in 1 .. n /\ i + 1 \in 1 .. m /\ i + 1 - 1 = i
    OBVIOUS
  <2> QED BY <2>1, <2>2 DEF Runs
<1> HIDE DEF T
<1>3. Nat \subseteq T
  BY <1>1, <1>2, SetInduction
<1> QED BY <1>3 DEF T

\* A loop can run any number of steps.
LEMMA RunsExist ==
  ASSUME NEW S, NEW s0 \in S, NEW step \in [Nat -> [S -> S]]
  PROVE  \A n \in Nat : \E g : Runs(S, s0, step, n, g)
<1> DEFINE T == {n \in Nat : \E g : Runs(S, s0, step, n, g)}
<1>1. 0 \in T
  <2>1. Runs(S, s0, step, 0, [i \in 0 .. 0 |-> s0])
    BY DEF Runs
  <2> QED BY <2>1
<1>2. ASSUME NEW n \in Nat, n \in T PROVE n + 1 \in T
  <2>1. PICK g : Runs(S, s0, step, n, g)
    BY <1>2
  <2> DEFINE h == [i \in 0 .. n + 1 |-> IF i = n + 1 THEN step[n + 1][g[n]] ELSE g[i]]
  <2>2. step[n + 1][g[n]] \in S
    BY <2>1 DEF Runs
  <2>3. h \in [0 .. n + 1 -> S] /\ h[0] = s0
    BY <2>1, <2>2 DEF Runs
  <2>4. ASSUME NEW i \in 1 .. n + 1 PROVE h[i] = step[i][h[i - 1]]
    <3>1. CASE i = n + 1
      BY <3>1
    <3>2. CASE i # n + 1
      <4>1. i \in 1 .. n /\ i \in 0 .. n + 1 /\ i - 1 \in 0 .. n + 1 /\ i - 1 # n + 1
        BY <3>2
      <4> QED BY <4>1, <2>1 DEF Runs
    <3> QED BY <3>1, <3>2
  <2> HIDE DEF h
  <2>5. Runs(S, s0, step, n + 1, h)
    BY <2>3, <2>4 DEF Runs
  <2> QED BY <2>5
<1> HIDE DEF T
<1>3. Nat \subseteq T
  BY <1>1, <1>2, SetInduction
<1> QED BY <1>3 DEF T

\* The same for a loop that does not end.
Iterates(S, s0, step, f) ==
  /\ f \in [Nat -> S] /\ f[0] = s0
  /\ \A n \in Nat \ {0} : f[n] = step[n][f[n - 1]]

\* Primitive recursion: every start and every step define a function on the numbers.
LEMMA IterationExists ==
  ASSUME NEW S, NEW s0 \in S, NEW step \in [Nat -> [S -> S]]
  PROVE  \E f : Iterates(S, s0, step, f)
<1> DEFINE G(n) == CHOOSE g : Runs(S, s0, step, n, g)
           f == [n \in Nat |-> G(n)[n]]
<1>1. \A n \in Nat : Runs(S, s0, step, n, G(n))
  BY RunsExist
<1> HIDE DEF G
<1>2. f \in [Nat -> S] /\ f[0] = s0
  BY <1>1 DEF Runs
<1>3. ASSUME NEW n \in Nat \ {0} PROVE f[n] = step[n][f[n - 1]]
  <2>1. n - 1 \in Nat /\ n \in 1 .. n /\ n \in Nat
    OBVIOUS
  <2>2. G(n)[n] = step[n][G(n)[n - 1]]
    BY <1>1, <2>1 DEF Runs
  <2>3. G(n)[n - 1] = G(n - 1)[n - 1]
    BY <1>1, <2>1, RunsAgree
  <2> QED BY <2>1, <2>2, <2>3
<1> HIDE DEF f
<1>4. Iterates(S, s0, step, f)
  BY <1>2, <1>3 DEF Iterates
<1> QED BY <1>4

\* Induction over the first n numbers.
LEMMA BoundedInduction ==
  ASSUME NEW n \in Nat, NEW T, 0 \in T, \A i \in 0 .. n - 1 : i \in T => i + 1 \in T
  PROVE  0 .. n \subseteq T
<1> DEFINE U == {i \in Nat : i <= n => i \in T}
<1>1. 0 \in U
  OBVIOUS
<1>2. \A i \in Nat : i \in U => i + 1 \in U
  OBVIOUS
<1> HIDE DEF U
<1>3. Nat \subseteq U
  BY <1>1, <1>2, SetInduction
<1> QED BY <1>3 DEF U

\* A loop of n steps has a run.
LEMMA LoopExists ==
  ASSUME NEW S, NEW s0 \in S, NEW n \in Nat, NEW step \in [1 .. n -> [S -> S]]
  PROVE  \E g : Runs(S, s0, step, n, g)
<1> DEFINE more == [i \in Nat |-> IF i \in 1 .. n THEN step[i] ELSE [v \in S |-> v]]
<1>1. more \in [Nat -> [S -> S]] /\ \A i \in 1 .. n : more[i] = step[i]
  OBVIOUS
<1> HIDE DEF more
<1>2. PICK g : Runs(S, s0, more, n, g)
  BY <1>1, RunsExist, Zenon
<1>3. Runs(S, s0, step, n, g)
  BY <1>1, <1>2 DEF Runs
<1> QED BY <1>3
=============================================================================
