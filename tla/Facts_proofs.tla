---------------------------- MODULE Facts_proofs ----------------------------
(***************************************************************************)
(* Facts about natural numbers, sums, functions that are computed step by  *)
(* step, and sequences that hold other ones, which the proofs of several   *)
(* modules rest on. Where one would use induction, the least               *)
(* counterexample is taken: the provers cannot be given an induction       *)
(* hypothesis as an operator.                                              *)
(***************************************************************************)
EXTENDS Integers, Sequences, SequenceTheorems, WellFoundedInduction, TLAPS

\* A set of natural numbers that is not empty has a least one.
LEMMA LeastNat ==
  ASSUME NEW T, T \subseteq Nat, T # {}
  PROVE  \E x \in T : \A y \in T : x <= y
<1> DEFINE R == OpToRel(<, Nat)
<1>1. IsWellFoundedOn(R, Nat)
  BY NatLessThanWellFounded
<1> HIDE DEF R
<1>2. PICK x \in T : \A y \in T : ~ (<<y, x>> \in R)
  BY <1>1, WFMin
<1>3. \A y \in T : ~ (y < x)
  BY <1>2 DEF R, OpToRel
<1> QED BY <1>2, <1>3

-----------------------------------------------------------------------------
(* Sums.                                                                   *)

\* The first n numbers of w together.
Sum(w, n) ==
  LET S[i \in 0 .. n] == IF i = 0 THEN 0 ELSE S[i - 1] + w[i]
  IN  S[n]

\* The numbers of a stack, from its bottom up.
Stacked(s) == Sum([k \in 1 .. Len(s) |-> s[Len(s) + 1 - k]], Len(s))

\* S has what there is after each of m numbers.
Runs(S, w, m) == S[0] = 0 /\ \A i \in 1 .. m : S[i] = S[i - 1] + w[i]

\* The first n numbers of w and of v are the same.
Agree(w, v, n) == \A i \in 1 .. n : w[i] = v[i]

\* A sum is computed by adding one number after the other.
LEMMA SumRuns ==
  ASSUME NEW w, NEW m \in Nat
  PROVE  \E S : Runs(S, w, m) /\ Sum(w, m) = S[m]
<1> DEFINE It(n, f) == f = [i \in 0 .. n |-> IF i = 0 THEN 0 ELSE f[i - 1] + w[i]]
           T == {n \in Nat : ~ \E f : It(n, f)}
<1>1. T = {}
  <2> SUFFICES ASSUME T # {} PROVE FALSE
    OBVIOUS
  <2>1. PICK n \in T : \A y \in T : n <= y
    BY LeastNat
  <2>2. CASE n = 0
    <3> DEFINE f == [i \in 0 .. 0 |-> 0]
    <3>1. It(0, f)
      OBVIOUS
    <3> QED BY <3>1, <2>2, <2>1
  <2>3. CASE n # 0
    <3>1. n - 1 \in Nat /\ n - 1 \notin T
      BY <2>1, <2>3
    <3>2. PICK f : It(n - 1, f)
      BY <3>1
    <3> DEFINE g == [i \in 0 .. n |-> IF i = n THEN f[n - 1] + w[n] ELSE f[i]]
    <3>3. ASSUME NEW i \in 0 .. n
          PROVE  g[i] = IF i = 0 THEN 0 ELSE g[i - 1] + w[i]
      <4>1. CASE i = n
        <5>1. g[i] = f[n - 1] + w[n]
          BY <4>1
        <5>2. n - 1 \in 0 .. n /\ n - 1 # n
          BY <2>1, <2>3
        <5>3. g[n - 1] = f[n - 1]
          BY <5>2
        <5> QED BY <5>1, <5>3, <4>1, <2>3
      <4>2. CASE i # n /\ i # 0
        <5>1. i \in 0 .. n - 1 /\ i - 1 \in 0 .. n /\ i - 1 # n
          BY <4>2, <2>1
        <5>2. f[i] = f[i - 1] + w[i]
          BY <5>1, <3>2, <4>2
        <5>3. g[i] = f[i] /\ g[i - 1] = f[i - 1]
          BY <5>1, <4>2
        <5> QED BY <5>2, <5>3, <4>2
      <4>3. CASE i = 0 /\ i # n
        <5>1. f[0] = 0
          BY <3>1, <3>2
        <5> QED BY <5>1, <4>3
      <4> QED BY <4>1, <4>2, <4>3
    <3>4. It(n, g)
      <4> HIDE DEF g
      <4>1. g = [i \in 0 .. n |-> g[i]]
        BY DEF g
      <4> QED BY <4>1, <3>3
    <3> QED BY <3>4, <2>1
  <2> QED BY <2>2, <2>3
<1>2. \E f : It(m, f)
  <2> HIDE DEF It
  <2> QED BY <1>1
<1> DEFINE S == CHOOSE f : It(m, f)
<1>3. It(m, S)
  BY <1>2
<1>4. Sum(w, m) = S[m]
  BY DEF Sum
<1>5. Runs(S, w, m)
  <2> SUFFICES S[0] = 0 /\ \A i \in 1 .. m : S[i] = S[i - 1] + w[i]
    BY DEF Runs
  <2> HIDE DEF S
  <2>1. \A i \in 0 .. m : S[i] = IF i = 0 THEN 0 ELSE S[i - 1] + w[i]
    BY <1>3
  <2> QED BY <2>1
<1> HIDE DEF S
<1> QED BY <1>4, <1>5

\* The sum of the same numbers is the same.
LEMMA SumSame ==
  ASSUME NEW w, NEW v, NEW n \in Nat, NEW m \in Nat, n <= m,
         Agree(w, v, n), NEW S, Runs(S, w, n),
         NEW R, Runs(R, v, m)
  PROVE  S[n] = R[n]
<1> DEFINE T == {i \in 0 .. n : S[i] # R[i]}
<1>1. T = {}
  <2> SUFFICES ASSUME T # {} PROVE FALSE
    OBVIOUS
  <2>1. PICK i \in T : \A j \in T : i <= j
    <3>1. T \subseteq Nat
      OBVIOUS
    <3> QED BY <3>1, LeastNat
  <2>2. i # 0 /\ i \in 1 .. n /\ i \in 1 .. m /\ i - 1 \in 0 .. n /\ i - 1 \notin T
    BY <2>1 DEF Runs
  <2>3. S[i - 1] = R[i - 1] /\ w[i] = v[i]
    BY <2>2 DEF Agree
  <2>4. S[i] = R[i]
    BY <2>2, <2>3 DEF Runs
  <2> QED BY <2>1, <2>4
<1> QED BY <1>1

\* The sum of no numbers, and of one more number.
LEMMA SumSteps ==
  ASSUME NEW w, NEW v, NEW n \in Nat, Agree(w, v, n)
  PROVE  /\ Sum(w, 0) = 0
         /\ Sum(w, n) = Sum(v, n)
         /\ Sum(v, n + 1) = Sum(w, n) + v[n + 1]
<1>1. PICK S : Runs(S, w, n) /\ Sum(w, n) = S[n]
  BY SumRuns
<1>2. PICK R : Runs(R, v, n) /\ Sum(v, n) = R[n]
  BY SumRuns
<1> DEFINE m == n + 1
<1>3. m \in Nat /\ n <= m /\ n <= n /\ m \in 1 .. m /\ m - 1 = n
  OBVIOUS
<1> HIDE DEF m
<1>4. PICK Q : Runs(Q, v, m) /\ Sum(v, m) = Q[m]
  BY <1>3, SumRuns
<1>5. S[n] = R[n]
  BY <1>1, <1>2, <1>3, SumSame
<1>6. S[n] = Q[n]
  BY <1>1, <1>4, <1>3, SumSame
<1>7. Q[m] = Q[n] + v[m]
  BY <1>3, <1>4 DEF Runs
<1>8. Sum(w, 0) = 0
  <2>1. PICK Z : Runs(Z, w, 0) /\ Sum(w, 0) = Z[0]
    BY SumRuns
  <2> QED BY <2>1 DEF Runs
<1> QED BY <1>1, <1>2, <1>4, <1>5, <1>6, <1>7, <1>8 DEF m

\* The sum of natural numbers is one.
LEMMA SumNat ==
  ASSUME NEW w, NEW n \in Nat, \A i \in 1 .. n : w[i] \in Nat
  PROVE  Sum(w, n) \in Nat
<1>1. PICK S : Runs(S, w, n) /\ Sum(w, n) = S[n]
  BY SumRuns
<1> DEFINE T == {i \in 0 .. n : S[i] \notin Nat}
<1>2. T = {}
  <2> SUFFICES ASSUME T # {} PROVE FALSE
    OBVIOUS
  <2>1. PICK i \in T : \A j \in T : i <= j
    <3>1. T \subseteq Nat
      OBVIOUS
    <3> QED BY <3>1, LeastNat
  <2>2. i # 0 /\ i \in 1 .. n /\ i - 1 \in 0 .. n /\ i - 1 \notin T
    BY <2>1, <1>1 DEF Runs
  <2>3. S[i - 1] \in Nat /\ w[i] \in Nat /\ S[i] = S[i - 1] + w[i]
    BY <2>2, <1>1 DEF Runs
  <2> QED BY <2>1, <2>3
<1> QED BY <1>1, <1>2

\* An empty stack has nothing, and one that is not has its top and the rest.
LEMMA StackedTop ==
  ASSUME NEW s \in Seq(Nat)
  PROVE  /\ Stacked(s) \in Nat
         /\ s = <<>> => Stacked(s) = 0
         /\ s # <<>> => Stacked(s) = s[1] + Stacked(Tail(s))
<1> DEFINE n == Len(s)
           w == [k \in 1 .. n |-> s[n + 1 - k]]
<1>1. n \in Nat /\ \A k \in 1 .. n : s[k] \in Nat
  OBVIOUS
<1>2. \A k \in 1 .. n : w[k] \in Nat
  <2> SUFFICES ASSUME NEW k \in 1 .. n PROVE w[k] \in Nat
    OBVIOUS
  <2>1. n + 1 - k \in 1 .. n
    BY <1>1
  <2> HIDE DEF n
  <2> QED BY <1>1, <2>1
<1>3. Stacked(s) = Sum(w, n)
  BY DEF Stacked
<1> HIDE DEF w, n
<1>4. Stacked(s) \in Nat
  BY <1>1, <1>2, <1>3, SumNat
<1>5. ASSUME s = <<>> PROVE Stacked(s) = 0
  <2>1. n = 0
    BY <1>5 DEF n
  <2>2. Sum(w, 0) = 0
    BY SumSteps DEF Agree
  <2> QED BY <1>3, <2>1, <2>2
<1>6. ASSUME s # <<>> PROVE Stacked(s) = s[1] + Stacked(Tail(s))
  <2> DEFINE t == Tail(s)
             m == n - 1
             v == [k \in 1 .. m |-> t[m + 1 - k]]
  <2>1. Len(t) = m /\ m \in Nat /\ n = m + 1 /\ \A k \in 1 .. m : t[k] = s[k + 1]
    BY <1>6 DEF n
  <2>2. Stacked(t) = Sum(v, m)
    BY <2>1 DEF Stacked
  <2> HIDE DEF t, m
  <2>3. Agree(v, w, m)
    <3> SUFFICES ASSUME NEW k \in 1 .. m PROVE v[k] = w[k]
      BY DEF Agree
    <3>1. m + 1 - k \in 1 .. m /\ (m + 1 - k) + 1 = n + 1 - k /\ k \in 1 .. n
      BY <2>1
    <3>2. v[k] = s[n + 1 - k]
      BY <3>1, <2>1
    <3> QED BY <3>1, <3>2 DEF w
  <2> HIDE DEF v
  <2>4. Sum(w, m + 1) = Sum(v, m) + w[m + 1]
    BY <2>1, <2>3, SumSteps
  <2>5. w[m + 1] = s[1]
    <3>1. n \in 1 .. n /\ n + 1 - n = 1 /\ m + 1 = n
      BY <2>1, <1>1
    <3> QED BY <3>1 DEF w
  <2>6. Stacked(t) \in Nat
    <3>1. t \in Seq(Nat)
      BY <1>6 DEF t
    <3>2. \A k \in 1 .. m : v[k] \in Nat
      <4> SUFFICES ASSUME NEW k \in 1 .. m PROVE v[k] \in Nat
        OBVIOUS
      <4>1. k \in 1 .. n
        BY <2>1
      <4> QED BY <4>1, <1>2, <2>3 DEF Agree
    <3> QED BY <2>1, <2>2, <3>2, SumNat
  <2>7. Stacked(s) = Stacked(t) + s[1]
    BY <1>3, <2>1, <2>2, <2>4, <2>5
  <2>8. s[1] \in Nat
    BY <1>6
  <2> QED BY <2>6, <2>7, <2>8 DEF t
<1> QED BY <1>4, <1>5, <1>6

-----------------------------------------------------------------------------
(* Functions that are computed step by step.                               *)

\* f begins with c and continues with what step makes of its last value, up to n.
Iterated(f, n, c, step) ==
  f[0] = c /\ \A i \in 1 .. n : f[i] = step[<<i, f[i - 1]>>]

\* There is such a function.
LEMMA IteratedTo ==
  ASSUME NEW S, NEW c \in S, NEW step \in [Nat \X S -> S], NEW n \in Nat
  PROVE  \E f \in [0 .. n -> S] : Iterated(f, n, c, step)
<1> DEFINE Good(m) == \E f \in [0 .. m -> S] : Iterated(f, m, c, step)
           T == {m \in Nat : ~ Good(m)}
<1>1. T = {}
  <2> SUFFICES ASSUME T # {} PROVE FALSE
    OBVIOUS
  <2> HIDE DEF Good
  <2>1. PICK m \in T : \A y \in T : m <= y
    BY LeastNat
  <2>2. CASE m = 0
    <3> DEFINE f == [i \in 0 .. 0 |-> c]
    <3>1. f \in [0 .. 0 -> S] /\ f[0] = c
      OBVIOUS
    <3> HIDE DEF f
    <3>2. Iterated(f, 0, c, step)
      BY <3>1 DEF Iterated
    <3>3. Good(0)
      BY <3>1, <3>2 DEF Good
    <3> QED BY <3>3, <2>1, <2>2
  <2>3. CASE m # 0
    <3>1. m - 1 \in Nat /\ m - 1 \notin T
      BY <2>1, <2>3
    <3>2. PICK f \in [0 .. m - 1 -> S] : Iterated(f, m - 1, c, step)
      BY <3>1 DEF Good
    <3> DEFINE v == step[<<m, f[m - 1]>>]
               g == [i \in 0 .. m |-> IF i = m THEN v ELSE f[i]]
    <3>3. m - 1 \in 0 .. m - 1 /\ m \in Nat
      BY <3>1, <2>1
    <3>4. v \in S
      BY <3>3
    <3>5. g \in [0 .. m -> S]
      BY <3>4, <3>3
    <3>6. g[m] = v /\ \A i \in 0 .. m - 1 : g[i] = f[i]
      BY <3>3
    <3> HIDE DEF g, v
    <3>7. ASSUME NEW i \in 1 .. m PROVE g[i] = step[<<i, g[i - 1]>>]
      <4>1. i - 1 \in 0 .. m - 1 /\ g[i - 1] = f[i - 1]
        BY <3>3, <3>6
      <4>2. CASE i = m
        BY <4>1, <4>2, <3>6 DEF v
      <4>3. CASE i # m
        <5>1. i \in 1 .. m - 1 /\ i \in 0 .. m - 1
          BY <4>3, <3>3
        <5>2. f[i] = step[<<i, f[i - 1]>>]
          BY <5>1, <3>2 DEF Iterated
        <5> QED BY <5>1, <5>2, <4>1, <3>6
      <4> QED BY <4>2, <4>3
    <3>8. g[0] = c
      <4>1. 0 \in 0 .. m - 1
        BY <3>1
      <4> QED BY <4>1, <3>6, <3>2 DEF Iterated
    <3>9. Good(m)
      BY <3>5, <3>7, <3>8 DEF Good, Iterated
    <3> QED BY <3>9, <2>1
  <2> QED BY <2>2, <2>3
<1> QED BY <1>1

\* There is only one.
LEMMA IteratedOnce ==
  ASSUME NEW c, NEW step, NEW n \in Nat, NEW m \in Nat, n <= m,
         NEW f, Iterated(f, n, c, step), NEW g, Iterated(g, m, c, step)
  PROVE  f[n] = g[n]
<1> DEFINE T == {i \in 0 .. n : f[i] # g[i]}
<1>1. T = {}
  <2> SUFFICES ASSUME T # {} PROVE FALSE
    OBVIOUS
  <2>1. PICK i \in T : \A j \in T : i <= j
    <3>1. T \subseteq Nat
      OBVIOUS
    <3> QED BY <3>1, LeastNat
  <2>2. i # 0 /\ i \in 1 .. n /\ i \in 1 .. m /\ i - 1 \in 0 .. n /\ i - 1 \notin T
    BY <2>1 DEF Iterated
  <2>3. f[i - 1] = g[i - 1]
    BY <2>2
  <2>4. f[i] = g[i]
    BY <2>2, <2>3 DEF Iterated
  <2> QED BY <2>1, <2>4
<1> QED BY <1>1

\* f goes on for all natural numbers.
Continued(f, c, step) ==
  f[0] = c /\ \A n \in Nat : f[n + 1] = step[<<n + 1, f[n]>>]

\* There is such a function, too.
LEMMA IteratedForever ==
  ASSUME NEW S, NEW c \in S, NEW step \in [Nat \X S -> S]
  PROVE  \E f \in [Nat -> S] : Continued(f, c, step)
<1> DEFINE G(n) == CHOOSE f : f \in [0 .. n -> S] /\ Iterated(f, n, c, step)
           h == [n \in Nat |-> G(n)[n]]
<1>1. ASSUME NEW n \in Nat PROVE G(n) \in [0 .. n -> S] /\ Iterated(G(n), n, c, step)
  BY IteratedTo
<1> HIDE DEF G
<1>2. h \in [Nat -> S]
  <2> SUFFICES ASSUME NEW n \in Nat PROVE G(n)[n] \in S
    OBVIOUS
  <2>1. n \in 0 .. n
    OBVIOUS
  <2> QED BY <2>1, <1>1
<1>3. h[0] = c
  BY <1>1 DEF Iterated
<1>4. ASSUME NEW n \in Nat PROVE h[n + 1] = step[<<n + 1, h[n]>>]
  <2> DEFINE m == n + 1
  <2>1. m \in Nat /\ n <= m /\ m \in 1 .. m /\ m - 1 = n
    OBVIOUS
  <2> HIDE DEF m
  <2>2. G(n)[n] = G(m)[n]
    BY <2>1, <1>1, IteratedOnce
  <2>3. G(m)[m] = step[<<m, G(m)[n]>>]
    BY <2>1, <1>1 DEF Iterated
  <2> QED BY <2>1, <2>2, <2>3 DEF m
<1> QED BY <1>2, <1>3, <1>4 DEF Continued

-----------------------------------------------------------------------------
(* Sequences that hold other ones.                                         *)

\* From place p on, a sequence holds another one.
Holds(big, p, small) ==
  /\ p \in Nat \ {0} /\ p + Len(small) <= Len(big) + 1
  /\ \A k \in 1 .. Len(small) : big[p + k - 1] = small[k]

\* What a sequence holds is held by what holds it.
LEMMA HoldsInside ==
  ASSUME NEW a, NEW b, NEW c, Len(a) \in Nat, Len(b) \in Nat, Len(c) \in Nat,
         NEW p, NEW q, Holds(a, p, b), Holds(b, q, c)
  PROVE  Holds(a, p + q - 1, c)
<1>1. p \in Nat \ {0} /\ q \in Nat \ {0} /\ p + Len(b) <= Len(a) + 1
      /\ q + Len(c) <= Len(b) + 1
  BY DEF Holds
<1>2. p + q - 1 \in Nat \ {0} /\ (p + q - 1) + Len(c) <= Len(a) + 1
  BY <1>1
<1>3. ASSUME NEW k \in 1 .. Len(c) PROVE a[(p + q - 1) + k - 1] = c[k]
  <2> DEFINE j == q + k - 1
  <2>1. j \in 1 .. Len(b) /\ p + j - 1 = (p + q - 1) + k - 1
    BY <1>1
  <2>2. b[j] = c[k]
    BY DEF Holds
  <2> HIDE DEF j
  <2>3. a[p + j - 1] = b[j]
    BY <2>1 DEF Holds
  <2> QED BY <2>1, <2>2, <2>3
<1> QED BY <1>2, <1>3 DEF Holds

\* A sequence holds what it is put together of.
LEMMA HoldsParts ==
  ASSUME NEW a \in Seq(Nat), NEW b \in Seq(Nat)
  PROVE  Holds(a \o b, 1, a) /\ Holds(a \o b, Len(a) + 1, b)
<1>1. Len(a) \in Nat /\ Len(b) \in Nat
  OBVIOUS
<1>2. Len(a \o b) = Len(a) + Len(b)
  BY ConcatProperties
<1>3. \A k \in 1 .. Len(a) + Len(b) :
        (a \o b)[k] = IF k <= Len(a) THEN a[k] ELSE b[k - Len(a)]
  BY ConcatProperties
<1> DEFINE l == Len(a)
           n == Len(b)
           ab == a \o b
<1> HIDE DEF l, n, ab
<1>4. \A k \in 1 .. l : ab[1 + k - 1] = a[k]
  <2> SUFFICES ASSUME NEW k \in 1 .. l PROVE ab[1 + k - 1] = a[k]
    OBVIOUS
  <2>1. k \in 1 .. l + n /\ k <= l /\ 1 + k - 1 = k
    BY <1>1 DEF l, n
  <2> QED BY <2>1, <1>3 DEF l, n, ab
<1>5. \A k \in 1 .. n : ab[(l + 1) + k - 1] = b[k]
  <2> SUFFICES ASSUME NEW k \in 1 .. n PROVE ab[(l + 1) + k - 1] = b[k]
    OBVIOUS
  <2> DEFINE j == (l + 1) + k - 1
  <2>1. j \in 1 .. l + n /\ ~ (j <= l) /\ j - l = k
    BY <1>1 DEF l, n
  <2> HIDE DEF j
  <2>2. ab[j] = b[j - l]
    BY <2>1, <1>3 DEF l, n, ab
  <2> QED BY <2>1, <2>2 DEF j
<1>6. /\ 1 \in Nat \ {0} /\ 1 + l <= (l + n) + 1
      /\ l + 1 \in Nat \ {0} /\ (l + 1) + n <= (l + n) + 1
  BY <1>1 DEF l, n
<1> QED BY <1>2, <1>4, <1>5, <1>6 DEF Holds, l, n, ab

\* F is put together of the sequences of G, one after the other.
Stages(F, G, m) ==
  /\ \A i \in 0 .. m : F[i] \in Seq(Nat)
  /\ \A i \in 1 .. m : G[i] \in Seq(Nat) /\ F[i] = F[i - 1] \o G[i]

\* The last stage holds all stages before it.
LEMMA StagesHold ==
  ASSUME NEW m \in Nat, NEW F, NEW G, Stages(F, G, m), NEW i \in 0 .. m
  PROVE  Holds(F[m], 1, F[i])
<1> DEFINE T == {k \in 0 .. m : ~ Holds(F[m], 1, F[m - k])}
<1>1. T = {}
  <2> SUFFICES ASSUME T # {} PROVE FALSE
    OBVIOUS
  <2>1. PICK k \in T : \A j \in T : k <= j
    <3>1. T \subseteq Nat
      OBVIOUS
    <3> QED BY <3>1, LeastNat
  <2>2. CASE k = 0
    <3>1. m - k = m /\ m \in 0 .. m
      BY <2>2
    <3>2. F[m] \in Seq(Nat)
      BY <3>1 DEF Stages
    <3>3. Holds(F[m], 1, F[m])
      <4>1. Len(F[m]) \in Nat
        BY <3>2
      <4>2. \A j \in 1 .. Len(F[m]) : 1 + j - 1 = j
        BY <4>1
      <4> QED BY <4>1, <4>2 DEF Holds
    <3> QED BY <3>1, <3>3, <2>1
  <2>3. CASE k # 0
    <3> DEFINE n == m - k
    <3>1. /\ k - 1 \in 0 .. m /\ k - 1 \notin T /\ m - (k - 1) = n + 1
          /\ n \in 0 .. m /\ n + 1 \in 1 .. m /\ (n + 1) - 1 = n
          /\ n + 1 \in 0 .. m /\ m \in 0 .. m
      BY <2>1, <2>3
    <3> HIDE DEF n
    <3>2. Holds(F[m], 1, F[n + 1])
      BY <3>1
    <3>3. /\ F[n] \in Seq(Nat) /\ G[n + 1] \in Seq(Nat) /\ F[n + 1] = F[n] \o G[n + 1]
          /\ F[n + 1] \in Seq(Nat) /\ F[m] \in Seq(Nat)
      BY <3>1 DEF Stages
    <3>4. Holds(F[n + 1], 1, F[n])
      BY <3>3, HoldsParts
    <3>5. Len(F[m]) \in Nat /\ Len(F[n + 1]) \in Nat /\ Len(F[n]) \in Nat
      BY <3>3, LenProperties
    <3>6. Holds(F[m], 1 + 1 - 1, F[n])
      BY <3>2, <3>4, <3>5, HoldsInside
    <3>7. 1 + 1 - 1 = 1
      OBVIOUS
    <3> QED BY <3>6, <3>7, <2>1 DEF n
  <2> QED BY <2>2, <2>3
<1>2. m - i \in 0 .. m /\ m - (m - i) = i
  OBVIOUS
<1> QED BY <1>1, <1>2

\* The last stage holds what was added for each.
LEMMA StageHeld ==
  ASSUME NEW m \in Nat, NEW F, NEW G, Stages(F, G, m), NEW i \in 1 .. m
  PROVE  /\ Len(F[i]) = Len(F[i - 1]) + Len(G[i])
         /\ Holds(F[m], Len(F[i - 1]) + 1, G[i])
<1>1. i \in 0 .. m /\ i - 1 \in 0 .. m /\ m \in 0 .. m
  OBVIOUS
<1>2. /\ F[i - 1] \in Seq(Nat) /\ G[i] \in Seq(Nat) /\ F[i] = F[i - 1] \o G[i]
      /\ F[i] \in Seq(Nat) /\ F[m] \in Seq(Nat)
  BY <1>1 DEF Stages
<1>3. Holds(F[m], 1, F[i])
  BY <1>1, StagesHold
<1>4. Holds(F[i], Len(F[i - 1]) + 1, G[i])
  BY <1>2, HoldsParts
<1>5. Len(F[i]) = Len(F[i - 1]) + Len(G[i])
  BY <1>2, ConcatProperties
<1> DEFINE p == Len(F[i - 1]) + 1
<1>6. /\ Len(F[m]) \in Nat /\ Len(F[i]) \in Nat /\ Len(G[i]) \in Nat
      /\ Len(F[i - 1]) \in Nat
  BY <1>2, LenProperties
<1>8. 1 + p - 1 = p
  BY <1>6
<1> HIDE DEF p
<1>7. Holds(F[m], 1 + p - 1, G[i])
  BY <1>3, <1>4, <1>6, HoldsInside DEF p
<1> QED BY <1>5, <1>7, <1>8 DEF p
=============================================================================
