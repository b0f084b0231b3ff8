----------------------------- MODULE Induction -----------------------------
(***************************************************************************)
(* Induction on the natural numbers and the existence of functions defined *)
(* by recursion on them, and from that what the proofs of the other        *)
(* modules need to know of sums, of sequences joined into one and of the   *)
(* elements of a sequence that are in a set.                               *)
(***************************************************************************)
EXTENDS SequencesExt, SequenceTheorems, Integers, WellFoundedInduction, TLAPS

(* A set of natural numbers that is not empty has a least element.         *)
LEMMA LeastElement ==
  ASSUME NEW T \in SUBSET Nat, T # {}
  PROVE  \E n \in T : \A m \in T : n <= m
<1> DEFINE R == {p \in Nat \X Nat : p[1] < p[2]}
<1>1. IsWellFoundedOn(R, Nat)
  BY NatLessThanWellFounded, Zenon DEF OpToRel
<1>2. \A n, m \in Nat : n < m => <<n, m>> \in R
  OBVIOUS
<1> HIDE DEF R
<1>3. PICK n \in T : \A m \in T : <<m, n>> \notin R
  BY <1>1, WFMin
<1>4. ASSUME NEW m \in T PROVE n <= m
  <2>1. m \in Nat /\ n \in Nat
    OBVIOUS
  <2>2. ~(m < n)
    BY <1>2, <1>3, <2>1, Zenon
  <2> QED  BY <2>1, <2>2
<1> QED  BY <1>4

(* Induction: a set that holds 0, and with every number of the first N the *)
(* next one, holds all of them.                                            *)
LEMMA InductionTo ==
  ASSUME NEW N \in Nat, NEW S, 0 \in S,
         \A n \in 0..(N - 1) : n \in S => n + 1 \in S
  PROVE  \A n \in 0..N : n \in S
<1> SUFFICES ASSUME (0..N) \ S # {} PROVE FALSE
  OBVIOUS
<1>1. (0..N) \ S \in SUBSET Nat
  OBVIOUS
<1>2. PICK n \in (0..N) \ S : \A m \in (0..N) \ S : n <= m
  BY <1>1, LeastElement
<1>3. n # 0 /\ n - 1 \in 0..(N - 1) /\ n - 1 \in 0..N
  BY <1>2
<1>4. n - 1 \in S
  BY <1>2, <1>3
<1> QED  BY <1>2, <1>3, <1>4

(* f is given on 0..N by its value at 0 and by how each value follows from *)
(* the one before.                                                         *)
Recurs(f, N, D, c, step) ==
  /\ f \in [0..N -> D] /\ f[0] = c
  /\ \A i \in 1..N : f[i] = step[i][f[i - 1]]

Steps(N, D) == [1..N -> [D -> D]]

LEMMA RecursionExists ==
  ASSUME NEW N \in Nat, NEW D, NEW c \in D, NEW step \in Steps(N, D)
  PROVE  \E f : Recurs(f, N, D, c, step)
<1> DEFINE S == {k \in 0..N : \E f : Recurs(f, k, D, c, step)}
<1>1. 0 \in S
  <2>1. Recurs([i \in 0..0 |-> c], 0, D, c, step)
    BY DEF Recurs
  <2>2. 0 \in 0..N
    OBVIOUS
  <2> QED  BY <2>1, <2>2
<1>2. ASSUME NEW k \in 0..(N - 1), k \in S PROVE k + 1 \in S
  <2>1. PICK f : Recurs(f, k, D, c, step)
    BY <1>2
  <2> DEFINE g == [i \in 0..(k + 1) |->
                     IF i <= k THEN f[i] ELSE step[k + 1][f[k]]]
  <2>2. k \in Nat /\ k + 1 \in 1..N /\ k \in 0..k /\ k + 1 - 1 = k
    OBVIOUS
  <2>3. f[k] \in D /\ step[k + 1][f[k]] \in D
    BY <2>1, <2>2 DEF Recurs, Steps
  <2>4. g \in [0..(k + 1) -> D] /\ g[0] = c
    BY <2>1, <2>2, <2>3 DEF Recurs
  <2>5. ASSUME NEW i \in 1..(k + 1) PROVE g[i] = step[i][g[i - 1]]
    <3>1. CASE i <= k
      <4>1. i \in 1..k /\ i - 1 \in 0..k /\ i - 1 <= k /\ i \in 0..k
        BY <2>2, <3>1
      <4>2. g[i] = f[i] /\ g[i - 1] = f[i - 1]
        BY <2>2, <4>1
      <4> HIDE DEF g
      <4> QED  BY <2>1, <4>1, <4>2 DEF Recurs
    <3>2. CASE ~(i <= k)
      <4>1. i = k + 1
        BY <2>2, <3>2
      <4>2. g[k + 1] = step[k + 1][f[k]] /\ g[k] = f[k]
        BY <2>2
      <4> HIDE DEF g
      <4> QED  BY <2>2, <4>1, <4>2
    <3> QED  BY <3>1, <3>2
  <2> HIDE DEF g
  <2>6. Recurs(g, k + 1, D, c, step)
    BY <2>4, <2>5 DEF Recurs
  <2> QED  BY <2>2, <2>6
<1> HIDE DEF S
<1>3. N \in S
  BY <1>1, <1>2, InductionTo, N \in 0..N
<1> QED  BY <1>3 DEF S

(* The partial sums of x[1], ..., x[N], by their recursive definition and  *)
(* by what follows from it.                                                *)
IsSumOf(f, N, x) ==
  f = [i \in 0..N |-> IF i = 0 THEN 0 ELSE f[i - 1] + x[i]]

Sums(f, N, x) ==
  /\ x \in [1..N -> Int] /\ f \in [0..N -> Int] /\ f[0] = 0
  /\ \A i \in 1..N : f[i] = f[i - 1] + x[i]

LEMMA SumExists ==
  ASSUME NEW N \in Nat, NEW x \in [1..N -> Int]
  PROVE  \E f : IsSumOf(f, N, x)
<1> DEFINE step == [i \in 1..N |-> [a \in Int |-> a + x[i]]]
<1>1. step \in Steps(N, Int)
  BY DEF Steps
<1>2. \A a \in Int, i \in 1..N : step[i][a] = a + x[i]
  OBVIOUS
<1> HIDE DEF step
<1>3. PICK f : Recurs(f, N, Int, 0, step)
  <2>1. 0 \in Int
    OBVIOUS
  <2> QED  BY <1>1, <2>1, RecursionExists
<1>4. ASSUME NEW i \in 0..N
      PROVE  f[i] = IF i = 0 THEN 0 ELSE f[i - 1] + x[i]
  <2>1. i # 0 => i \in 1..N /\ i - 1 \in 0..N
    OBVIOUS
  <2> QED  BY <1>2, <1>3, <2>1 DEF Recurs
<1>5. f = [i \in 0..N |-> f[i]]
  BY <1>3 DEF Recurs
<1> QED  BY <1>4, <1>5 DEF IsSumOf

LEMMA SumsOfIntegers ==
  ASSUME NEW N \in Nat, NEW x \in [1..N -> Int], NEW f, IsSumOf(f, N, x)
  PROVE  Sums(f, N, x)
<1>1. /\ f = [i \in 0..N |-> f[i]] /\ f[0] = 0
      /\ \A i \in 1..N : f[i] = f[i - 1] + x[i]
  <2>1. \A i \in 0..N : f[i] = IF i = 0 THEN 0 ELSE f[i - 1] + x[i]
    BY DEF IsSumOf
  <2> QED  BY <2>1 DEF IsSumOf
<1> DEFINE S == {n \in 0..N : f[n] \in Int}
<1>2. 0 \in S
  BY <1>1
<1>3. ASSUME NEW n \in 0..(N - 1), n \in S PROVE n + 1 \in S
  <2>1. n + 1 \in 1..N /\ n + 1 \in 0..N /\ (n + 1) - 1 = n
    OBVIOUS
  <2>2. f[n] \in Int /\ x[n + 1] \in Int
    BY <1>3, <2>1
  <2>3. f[n + 1] = f[n] + x[n + 1]
    BY <1>1, <2>1
  <2> QED  BY <2>1, <2>2, <2>3
<1> HIDE DEF S
<1>4. \A n \in 0..N : n \in S
  BY <1>2, <1>3, InductionTo
<1> QED  BY <1>1, <1>4 DEF S, Sums

LEMMA DifferencesAdd ==
  ASSUME NEW i \in Int, NEW j \in Int, NEW k \in Int, NEW l \in Int,
         NEW p \in Int, NEW q \in Int, NEW r \in Int, NEW s \in Int,
         i - j = k - l, p - q = r - s
  PROVE  (i + p) - (j + q) = (k + r) - (l + s)
OBVIOUS

(* Sums whose summands differ pairwise by the same have the same           *)
(* difference.                                                             *)
LEMMA SumsDiffer ==
  ASSUME NEW N \in Nat, NEW a, NEW b, NEW c, NEW d,
         NEW u, NEW v, NEW x, NEW y,
         Sums(a, N, u), Sums(b, N, v), Sums(c, N, x), Sums(d, N, y),
         \A i \in 1..N : u[i] - v[i] = x[i] - y[i]
  PROVE  a[N] - b[N] = c[N] - d[N]
<1> DEFINE S == {n \in 0..N : a[n] - b[n] = c[n] - d[n]}
<1>1. 0 \in S
  BY DEF Sums
<1>2. ASSUME NEW n \in 0..(N - 1), n \in S PROVE n + 1 \in S
  <2>1. n + 1 \in 1..N /\ n + 1 \in 0..N /\ (n + 1) - 1 = n /\ n \in 0..N
    OBVIOUS
  <2>2. /\ a[n] \in Int /\ b[n] \in Int /\ c[n] \in Int /\ d[n] \in Int
        /\ u[n + 1] \in Int /\ v[n + 1] \in Int
        /\ x[n + 1] \in Int /\ y[n + 1] \in Int
    BY <2>1 DEF Sums
  <2>3. /\ a[n + 1] = a[n] + u[n + 1] /\ b[n + 1] = b[n] + v[n + 1]
        /\ c[n + 1] = c[n] + x[n + 1] /\ d[n + 1] = d[n] + y[n + 1]
    BY <2>1 DEF Sums
  <2>4. a[n] - b[n] = c[n] - d[n]
    BY <1>2
  <2>5. u[n + 1] - v[n + 1] = x[n + 1] - y[n + 1]
    BY <2>1
  <2>6. a[n + 1] - b[n + 1] = c[n + 1] - d[n + 1]
    <3>1. (a[n] + u[n + 1]) - (b[n] + v[n + 1])
            = (c[n] + x[n + 1]) - (d[n] + y[n + 1])
      BY <2>2, <2>4, <2>5, DifferencesAdd
    <3> QED  BY <2>3, <3>1
  <2> QED  BY <2>1, <2>6
<1> HIDE DEF S
<1>3. N \in S
  BY <1>1, <1>2, InductionTo, N \in 0..N
<1> QED  BY <1>3 DEF S

-----------------------------------------------------------------------------
(* Sequences joined into one *)

(* f[i] joins the first i of N sequences over S.                           *)
Joins(f, N, S, ss) ==
  /\ ss \in [1..N -> Seq(S)] /\ f \in [0..N -> Seq(S)] /\ f[0] = <<>>
  /\ \A i \in 1..N : f[i] = f[i - 1] \o ss[i]

LEMMA JoinsExist ==
  ASSUME NEW N \in Nat, NEW S, NEW ss \in [1..N -> Seq(S)]
  PROVE  \E f : Joins(f, N, S, ss)
<1> DEFINE step == [i \in 1..N |-> [a \in Seq(S) |-> a \o ss[i]]]
<1>1. step \in Steps(N, Seq(S))
  <2>1. \A i \in 1..N : ss[i] \in Seq(S)
    OBVIOUS
  <2>2. \A a, b \in Seq(S) : a \o b \in Seq(S)
    BY ConcatProperties
  <2> QED  BY <2>1, <2>2 DEF Steps
<1>2. \A a \in Seq(S), i \in 1..N : step[i][a] = a \o ss[i]
  OBVIOUS
<1> HIDE DEF step
<1>3. PICK f : Recurs(f, N, Seq(S), <<>>, step)
  <2>1. <<>> \in Seq(S)
    OBVIOUS
  <2> QED  BY <1>1, <2>1, RecursionExists
<1>4. ASSUME NEW i \in 1..N PROVE f[i] = f[i - 1] \o ss[i]
  <2>1. f[i - 1] \in Seq(S) /\ f[i] = step[i][f[i - 1]]
    <3>1. i - 1 \in 0..N
      OBVIOUS
    <3> QED  BY <1>3, <3>1 DEF Recurs
  <2> QED  BY <1>2, <2>1
<1> QED  BY <1>3, <1>4 DEF Joins, Recurs

LEMMA FlattenIsJoin ==
  ASSUME NEW S, NEW ss \in Seq(Seq(S))
  PROVE  \E f : /\ Joins(f, Len(ss), S, ss)
                /\ FlattenSeq(ss) = f[Len(ss)]
<1> DEFINE N == Len(ss)
           Flat(g) == g = [i \in 1..N |->
                             IF i = 1 THEN ss[i] ELSE g[i - 1] \o ss[i]]
<1>1. N \in Nat /\ ss \in [1..N -> Seq(S)]
  OBVIOUS
<1>2. \A i \in 1..N : ss[i] \in Seq(S)
  BY <1>1
<1>3. FlattenSeq(ss) = IF N = 0 THEN ss ELSE (CHOOSE g : Flat(g))[N]
  BY DEF FlattenSeq
<1>4. PICK f : Joins(f, N, S, ss)
  BY <1>1, JoinsExist
<1>5. CASE N = 0
  <2>1. ss = <<>> /\ FlattenSeq(ss) = ss /\ f[0] = <<>>
    BY <1>3, <1>4, <1>5 DEF Joins
  <2> QED  BY <1>4, <1>5, <2>1
<1>6. CASE N # 0
  <2> DEFINE g == [i \in 1..N |-> f[i]]
  <2>1. Flat(g)
    <3>1. ASSUME NEW i \in 1..N
          PROVE  f[i] = IF i = 1 THEN ss[i] ELSE g[i - 1] \o ss[i]
      <4>1. CASE i = 1
        <5>1. f[1] = f[0] \o ss[1] /\ f[0] = <<>>
          <6>1. 1 \in 1..N /\ 1 - 1 = 0
            BY <1>1, <1>6
          <6>2. f[1] = f[1 - 1] \o ss[1] /\ f[0] = <<>>
            BY <1>4, <6>1 DEF Joins
          <6> QED  BY <6>1, <6>2
        <5>2. 1 \in 1..N /\ ss[1] \in Seq(S)
          BY <1>1, <1>2, <1>6
        <5>3. <<>> \o ss[1] = ss[1]
          BY <5>2, ConcatEmptySeq, Zenon
        <5>4. f[1] = ss[1]
          BY <5>1, <5>3, Zenon
        <5> QED  BY <4>1, <5>4
      <4>2. CASE i # 1
        <5>1. i - 1 \in 1..N
          BY <1>1, <4>2
        <5> QED  BY <1>4, <4>2, <5>1 DEF Joins
      <4> QED  BY <4>1, <4>2
    <3> QED  BY <3>1
  <2> HIDE DEF g, Flat
  <2>2. PICK h : Flat(h) /\ FlattenSeq(ss) = h[N]
    BY <1>3, <1>6, <2>1
  <2> DEFINE e == [i \in 0..N |-> IF i = 0 THEN <<>> ELSE h[i]]
  <2>3. \A i \in 1..N : h[i] = IF i = 1 THEN ss[i] ELSE h[i - 1] \o ss[i]
    BY <2>2 DEF Flat
  <2>4. e[0] = <<>> /\ \A i \in 1..N : e[i] = h[i]
    BY <1>1
  <2>5. DOMAIN e = 0..N /\ e = [i \in 0..N |-> e[i]]
    OBVIOUS
  <2> HIDE DEF e
  <2>6. ASSUME NEW i \in 1..N PROVE e[i] = e[i - 1] \o ss[i]
    <3>1. CASE i = 1
      <4>1. 1 \in 1..N /\ 1 - 1 = 0 /\ ss[1] \in Seq(S)
        BY <1>1, <1>2, <3>1
      <4>2. <<>> \o ss[1] = ss[1]
        BY <4>1, ConcatEmptySeq, Zenon
      <4>3. e[1] = ss[1] /\ e[0] = <<>>
        BY <2>3, <2>4, <4>1
      <4> QED  BY <3>1, <4>1, <4>2, <4>3
    <3>2. CASE i # 1
      <4>1. i - 1 \in 1..N
        BY <1>1, <3>2
      <4> QED  BY <2>3, <2>4, <3>2, <4>1
    <3> QED  BY <3>1, <3>2
  <2>7. \A n \in 0..N : e[n] \in Seq(S)
    <3> DEFINE T == {n \in 0..N : e[n] \in Seq(S)}
    <3>1. 0 \in T
      <4>1. <<>> \in Seq(S)
        OBVIOUS
      <4>2. e[0] \in Seq(S)
        BY <2>4, <4>1, Zenon
      <4> QED  BY <1>1, <4>2
    <3>2. ASSUME NEW n \in 0..(N - 1), n \in T PROVE n + 1 \in T
      <4>1. n + 1 \in 1..N /\ n + 1 \in 0..N /\ (n + 1) - 1 = n
        BY <1>1
      <4>2. e[n + 1] = e[n] \o ss[n + 1] /\ ss[n + 1] \in Seq(S)
        <5>1. e[n + 1] = e[(n + 1) - 1] \o ss[n + 1] /\ ss[n + 1] \in Seq(S)
          BY <1>2, <2>6, <4>1
        <5> QED  BY <4>1, <5>1
      <4>3. e[n] \in Seq(S)
        BY <3>2
      <4>4. e[n] \o ss[n + 1] \in Seq(S)
        BY <4>2, <4>3, ConcatProperties
      <4>5. e[n + 1] \in Seq(S)
        BY <4>2, <4>4, Zenon
      <4> QED  BY <4>1, <4>5
    <3> HIDE DEF T
    <3>3. \A n \in 0..N : n \in T
      BY <1>1, <3>1, <3>2, InductionTo
    <3> QED  BY <3>3 DEF T
  <2>8. Joins(e, N, S, ss)
    BY <1>1, <2>4, <2>5, <2>6, <2>7 DEF Joins
  <2>9. e[N] = FlattenSeq(ss)
    BY <1>1, <1>6, <2>2, <2>4
  <2> QED  BY <2>8, <2>9
<1> QED  BY <1>5, <1>6

(* r joins the first n sequences: each of its elements is from one of them *)
(* and they come in order, and none is missing.                            *)
Placed(r, o, n, ss) ==
  /\ o \in [1..Len(r) -> 1..n]
  /\ \A p \in 1..Len(r) : \E q \in 1..Len(ss[o[p]]) : r[p] = ss[o[p]][q]
  /\ \A p, q \in 1..Len(r) : p <= q => o[p] <= o[q]

Covers(r, n, ss) ==
  \A i \in 1..n : \A q \in 1..Len(ss[i]) : \E p \in 1..Len(r) : r[p] = ss[i][q]

LEMMA PlacedStep ==
  ASSUME NEW S, NEW n \in Nat, NEW r \in Seq(S), NEW o, NEW ss,
         ss[n + 1] \in Seq(S), Placed(r, o, n, ss), Covers(r, n, ss)
  PROVE  \E p : /\ Placed(r \o ss[n + 1], p, n + 1, ss)
                /\ Covers(r \o ss[n + 1], n + 1, ss)
<1> DEFINE s == ss[n + 1]
           t == r \o s
           u == [p \in 1..Len(t) |-> IF p <= Len(r) THEN o[p] ELSE n + 1]
<1>1. /\ Len(r) \in Nat /\ Len(s) \in Nat /\ Len(t) = Len(r) + Len(s)
      /\ \A p \in 1..Len(t) :
           t[p] = IF p <= Len(r) THEN r[p] ELSE s[p - Len(r)]
  BY ConcatProperties
<1> HIDE DEF s, t
<1>2. \A p \in 1..Len(t) : p <= Len(r) => p \in 1..Len(r) /\ t[p] = r[p] /\ u[p] = o[p]
  BY <1>1
<1>3. \A p \in 1..Len(t) : ~(p <= Len(r)) =>
        p - Len(r) \in 1..Len(s) /\ t[p] = s[p - Len(r)] /\ u[p] = n + 1
  BY <1>1
<1>4. \A p \in 1..Len(r) : o[p] \in 1..n
  BY DEF Placed
<1>5. u \in [1..Len(t) -> 1..(n + 1)]
  <2>1. \A p \in 1..Len(t) : u[p] \in 1..(n + 1)
    BY <1>2, <1>3, <1>4
  <2> QED  BY <2>1
<1> HIDE DEF u
<1>6. ASSUME NEW p \in 1..Len(t)
      PROVE  \E q \in 1..Len(ss[u[p]]) : t[p] = ss[u[p]][q]
  <2>1. CASE p <= Len(r)
    <3>1. p \in 1..Len(r) /\ t[p] = r[p] /\ u[p] = o[p]
      BY <1>2, <2>1
    <3>2. \E q \in 1..Len(ss[o[p]]) : r[p] = ss[o[p]][q]
      BY <3>1 DEF Placed
    <3> QED  BY <3>1, <3>2
  <2>2. CASE ~(p <= Len(r))
    <3>1. p - Len(r) \in 1..Len(s) /\ t[p] = s[p - Len(r)] /\ u[p] = n + 1
      BY <1>3, <2>2
    <3> QED  BY <3>1 DEF s
  <2> QED  BY <2>1, <2>2
<1>7. ASSUME NEW p \in 1..Len(t), NEW q \in 1..Len(t), p <= q
      PROVE  u[p] <= u[q]
  <2>1. CASE q <= Len(r)
    <3>1. p <= Len(r)
      BY <1>1, <1>7, <2>1
    <3>2. p \in 1..Len(r) /\ q \in 1..Len(r) /\ u[p] = o[p] /\ u[q] = o[q]
      BY <1>2, <2>1, <3>1
    <3>3. o[p] <= o[q]
      BY <1>7, <3>2 DEF Placed
    <3> QED  BY <3>2, <3>3
  <2>2. CASE ~(q <= Len(r))
    <3>1. u[q] = n + 1
      BY <1>3, <2>2
    <3>2. u[p] \in 1..(n + 1)
      BY <1>5
    <3> QED  BY <3>1, <3>2
  <2> QED  BY <2>1, <2>2
<1>8. ASSUME NEW i \in 1..(n + 1), NEW q \in 1..Len(ss[i])
      PROVE  \E p \in 1..Len(t) : t[p] = ss[i][q]
  <2>1. CASE i = n + 1
    <3>1. q \in 1..Len(s) /\ ss[i][q] = s[q]
      BY <2>1 DEF s
    <3>2. Len(r) + q \in 1..Len(t) /\ ~(Len(r) + q <= Len(r))
          /\ (Len(r) + q) - Len(r) = q
      BY <1>1, <3>1
    <3>3. t[Len(r) + q] = s[q]
      BY <1>3, <3>2
    <3> QED  BY <3>1, <3>2, <3>3
  <2>2. CASE i # n + 1
    <3>1. i \in 1..n
      BY <2>2
    <3>2. PICK p \in 1..Len(r) : r[p] = ss[i][q]
      BY <3>1 DEF Covers
    <3>3. p \in 1..Len(t) /\ p <= Len(r)
      BY <1>1
    <3> QED  BY <1>2, <3>2, <3>3
  <2> QED  BY <2>1, <2>2
<1>9. Placed(t, u, n + 1, ss)
  BY <1>5, <1>6, <1>7 DEF Placed
<1>10. Covers(t, n + 1, ss)
  BY <1>8 DEF Covers
<1> QED  BY <1>9, <1>10 DEF t, s

LEMMA FlattenPlaces ==
  ASSUME NEW S, NEW ss \in Seq(Seq(S))
  PROVE  /\ FlattenSeq(ss) \in Seq(S)
         /\ \E o : Placed(FlattenSeq(ss), o, Len(ss), ss)
         /\ Covers(FlattenSeq(ss), Len(ss), ss)
<1> DEFINE N == Len(ss)
<1>1. N \in Nat
  OBVIOUS
<1>2. PICK f : Joins(f, N, S, ss) /\ FlattenSeq(ss) = f[N]
  BY FlattenIsJoin
<1> DEFINE T == {n \in 0..N : /\ \E o : Placed(f[n], o, n, ss)
                              /\ Covers(f[n], n, ss)}
<1>3. 0 \in T
  <2>1. f[0] = <<>> /\ Len(f[0]) = 0
    BY <1>2 DEF Joins
  <2>2. Placed(f[0], [p \in 1..0 |-> 0], 0, ss)
    BY <2>1 DEF Placed
  <2>3. Covers(f[0], 0, ss)
    BY DEF Covers
  <2> QED  BY <1>1, <2>2, <2>3
<1>4. ASSUME NEW n \in 0..(N - 1), n \in T PROVE n + 1 \in T
  <2>1. /\ n \in Nat /\ n \in 0..N /\ n + 1 \in 1..N /\ n + 1 \in 0..N
        /\ (n + 1) - 1 = n
    BY <1>1
  <2>2. /\ f[n] \in Seq(S) /\ ss[n + 1] \in Seq(S)
        /\ f[n + 1] = f[(n + 1) - 1] \o ss[n + 1]
    BY <1>2, <2>1 DEF Joins
  <2>3. f[n + 1] = f[n] \o ss[n + 1]
    BY <2>1, <2>2
  <2>4. PICK o : Placed(f[n], o, n, ss)
    BY <1>4
  <2>5. Covers(f[n], n, ss)
    BY <1>4
  <2>6. \E p : /\ Placed(f[n] \o ss[n + 1], p, n + 1, ss)
               /\ Covers(f[n] \o ss[n + 1], n + 1, ss)
    BY <2>1, <2>2, <2>4, <2>5, PlacedStep
  <2> QED  BY <2>1, <2>3, <2>6
<1> HIDE DEF T
<1>5. N \in T
  BY <1>1, <1>3, <1>4, InductionTo, N \in 0..N
<1>6. f[N] \in Seq(S)
  <2>1. N \in 0..N
    BY <1>1
  <2> QED  BY <1>2, <2>1 DEF Joins
<1> QED  BY <1>2, <1>5, <1>6 DEF T

-----------------------------------------------------------------------------
(* The weights of the elements of a sequence *)

(* The weights of the elements of a sequence, added up.                    *)
Total(s, w) ==
  LET t[i \in 0..Len(s)] == IF i = 0 THEN 0 ELSE t[i - 1] + w[s[i]]
  IN t[Len(s)]

(* The weight of each element.                                             *)
Weights(s, w) == [i \in 1..Len(s) |-> w[s[i]]]

(* The total is the last of the partial sums of the weights.               *)
LEMMA TotalIsSum ==
  ASSUME NEW S, NEW w \in [S -> Int], NEW s \in Seq(S)
  PROVE  /\ \E f : Sums(f, Len(s), Weights(s, w)) /\ Total(s, w) = f[Len(s)]
         /\ Total(s, w) \in Int
<1> DEFINE N == Len(s)
           x == Weights(s, w)
           Upto(t) == t = [i \in 0..N |-> IF i = 0 THEN 0 ELSE t[i - 1] + w[s[i]]]
<1>1. N \in Nat /\ \A i \in 1..N : s[i] \in S
  OBVIOUS
<1>2. x \in [1..N -> Int] /\ \A i \in 1..N : x[i] = w[s[i]]
  BY <1>1 DEF Weights
<1> HIDE DEF x
<1>3. \A t : Upto(t) <=> IsSumOf(t, N, x)
  <2> SUFFICES ASSUME NEW t PROVE Upto(t) <=> IsSumOf(t, N, x)
    OBVIOUS
  <2>1. \A i \in 0..N : i = 0 \/ i \in 1..N
    BY <1>1
  <2>2. \A i \in 0..N : (IF i = 0 THEN 0 ELSE t[i - 1] + w[s[i]])
                          = (IF i = 0 THEN 0 ELSE t[i - 1] + x[i])
    BY <1>2, <2>1
  <2>3. [i \in 0..N |-> IF i = 0 THEN 0 ELSE t[i - 1] + w[s[i]]]
          = [i \in 0..N |-> IF i = 0 THEN 0 ELSE t[i - 1] + x[i]]
    BY <2>2
  <2> QED  BY <2>3 DEF IsSumOf
<1>4. Total(s, w) = (CHOOSE t : Upto(t))[N]
  BY DEF Total
<1> HIDE DEF Upto
<1>5. \E t : Upto(t)
  BY <1>1, <1>2, <1>3, SumExists
<1>6. Upto(CHOOSE t : Upto(t))
  BY <1>5
<1>7. PICK f : Upto(f) /\ Total(s, w) = f[N]
  BY <1>4, <1>6
<1>8. Sums(f, N, x)
  BY <1>1, <1>2, <1>3, <1>7, SumsOfIntegers
<1>9. f[N] \in Int
  BY <1>1, <1>8, N \in 0..N DEF Sums
<1> QED  BY <1>7, <1>8, <1>9 DEF x

(* Equal sums, of summands that are equal.                                 *)
LEMMA SumsEqual ==
  ASSUME NEW N \in Nat, NEW f, NEW g, NEW x, NEW y,
         Sums(f, N, x), Sums(g, N, y), \A i \in 1..N : x[i] = y[i]
  PROVE  \A i \in 0..N : f[i] = g[i]
<1> DEFINE T == {n \in 0..N : f[n] = g[n]}
<1>1. 0 \in T
  BY DEF Sums
<1>2. ASSUME NEW n \in 0..(N - 1), n \in T PROVE n + 1 \in T
  <2>1. n + 1 \in 1..N /\ n + 1 \in 0..N /\ (n + 1) - 1 = n
    BY <1>2
  <2>2. f[n + 1] = f[(n + 1) - 1] + x[n + 1] /\ g[n + 1] = g[(n + 1) - 1] + y[n + 1]
    BY <2>1 DEF Sums
  <2>3. f[n + 1] = f[n] + x[n + 1] /\ g[n + 1] = g[n] + y[n + 1]
    BY <2>1, <2>2
  <2>4. f[n] = g[n] /\ x[n + 1] = y[n + 1]
    BY <1>2, <2>1
  <2> QED  BY <2>1, <2>3, <2>4
<1> HIDE DEF T
<1>3. \A n \in 0..N : n \in T
  BY <1>1, <1>2, InductionTo
<1> QED  BY <1>3 DEF T

(* The weights of two sequences put together add up.                       *)
LEMMA TotalConcat ==
  ASSUME NEW S, NEW w \in [S -> Int], NEW a \in Seq(S), NEW b \in Seq(S)
  PROVE  Total(a \o b, w) = Total(a, w) + Total(b, w)
<1> DEFINE c == a \o b
           M == Len(a)
           N == Len(b)
<1>1. /\ c \in Seq(S) /\ M \in Nat /\ N \in Nat /\ Len(c) = M + N
      /\ \A i \in 1..(M + N) : c[i] = IF i <= M THEN a[i] ELSE b[i - M]
  BY ConcatProperties
<1> HIDE DEF c
<1>2. PICK f : Sums(f, M, Weights(a, w)) /\ Total(a, w) = f[M]
  BY TotalIsSum
<1>3. PICK g : Sums(g, N, Weights(b, w)) /\ Total(b, w) = g[N]
  BY TotalIsSum
<1>4. PICK h : Sums(h, M + N, Weights(c, w)) /\ Total(c, w) = h[M + N]
  BY <1>1, TotalIsSum
<1>5. \A i \in 1..M : i \in 1..(M + N) /\ Weights(c, w)[i] = Weights(a, w)[i]
  <2> SUFFICES ASSUME NEW i \in 1..M
               PROVE  i \in 1..(M + N) /\ Weights(c, w)[i] = Weights(a, w)[i]
    OBVIOUS
  <2>1. i \in 1..(M + N) /\ i <= M
    BY <1>1
  <2>2. c[i] = a[i]
    BY <1>1, <2>1
  <2> QED  BY <1>1, <2>1, <2>2 DEF Weights
<1>6. \A i \in 1..N : /\ M + i \in 1..(M + N)
                      /\ Weights(c, w)[M + i] = Weights(b, w)[i]
  <2> SUFFICES ASSUME NEW i \in 1..N
               PROVE  /\ M + i \in 1..(M + N)
                      /\ Weights(c, w)[M + i] = Weights(b, w)[i]
    OBVIOUS
  <2>1. M + i \in 1..(M + N) /\ ~(M + i <= M) /\ (M + i) - M = i
    BY <1>1
  <2>2. c[M + i] = b[i]
    BY <1>1, <2>1
  <2>3. Weights(c, w)[M + i] = w[c[M + i]] /\ Weights(b, w)[i] = w[b[i]]
    BY <1>1, <2>1 DEF Weights
  <2> QED  BY <2>1, <2>2, <2>3
<1>7. h[M] = f[M] /\ h[M] \in Int
  <2> DEFINE k == [i \in 0..M |-> h[i]]
  <2>1. \A i \in 0..M : i \in 0..(M + N) /\ h[i] \in Int
    <3>1. \A i \in 0..M : i \in 0..(M + N)
      BY <1>1
    <3>2. \A i \in 0..(M + N) : h[i] \in Int
      BY <1>4 DEF Sums
    <3> QED  BY <3>1, <3>2
  <2>2. Weights(a, w) \in [1..M -> Int]
    BY <1>2 DEF Sums
  <2>3. \A i \in 1..M : h[i] = h[i - 1] + Weights(a, w)[i]
    BY <1>4, <1>5 DEF Sums
  <2>4. 0 \in 0..M /\ M \in 0..M /\ \A i \in 1..M : i \in 0..M /\ i - 1 \in 0..M
    BY <1>1
  <2>5. k \in [0..M -> Int] /\ \A i \in 0..M : k[i] = h[i]
    BY <2>1
  <2> HIDE DEF k
  <2>6. k[0] = 0
    BY <1>4, <2>4, <2>5 DEF Sums
  <2>7. \A i \in 1..M : k[i] = k[i - 1] + Weights(a, w)[i]
    BY <2>3, <2>4, <2>5
  <2>8. Sums(k, M, Weights(a, w))
    BY <2>2, <2>5, <2>6, <2>7 DEF Sums
  <2>9. k[M] = f[M]
    BY <1>1, <1>2, <2>4, <2>8, SumsEqual
  <2> QED  BY <2>1, <2>4, <2>5, <2>9
<1> DEFINE T == {n \in 0..N : h[M + n] = h[M] + g[n]}
<1>9. 0 \in T
  <2>1. h[M] \in Int /\ g[0] = 0 /\ M + 0 = M
    BY <1>1, <1>3, <1>7 DEF Sums
  <2>2. h[M] + g[0] = h[M]
    BY <2>1
  <2> QED  BY <1>1, <2>1, <2>2
<1>10. ASSUME NEW n \in 0..(N - 1), n \in T PROVE n + 1 \in T
  <2>1. /\ n + 1 \in 1..N /\ n + 1 \in 0..N /\ (n + 1) - 1 = n /\ n \in 0..N
        /\ M + (n + 1) \in 1..(M + N) /\ (M + (n + 1)) - 1 = M + n
        /\ M \in 0..(M + N)
    <3>1. n \in Nat /\ n <= N - 1 /\ M \in Nat /\ N \in Nat
      BY <1>1
    <3> QED  BY <3>1
  <2>2. g[n + 1] = g[(n + 1) - 1] + Weights(b, w)[n + 1]
    BY <1>3, <2>1 DEF Sums
  <2>3. h[M + (n + 1)] = h[(M + (n + 1)) - 1] + Weights(c, w)[M + (n + 1)]
    BY <1>4, <2>1 DEF Sums
  <2>4. g[n + 1] = g[n] + Weights(b, w)[n + 1]
    BY <2>1, <2>2
  <2>5. h[M + (n + 1)] = h[M + n] + Weights(b, w)[n + 1]
    BY <1>6, <2>1, <2>3
  <2>6. h[M + n] = h[M] + g[n]
    BY <1>10
  <2>7. g[n] \in Int /\ Weights(b, w)[n + 1] \in Int /\ h[M] \in Int
    BY <1>3, <1>4, <2>1 DEF Sums
  <2>8. (h[M] + g[n]) + Weights(b, w)[n + 1] = h[M] + (g[n] + Weights(b, w)[n + 1])
    <3>1. ASSUME NEW p \in Int, NEW q \in Int, NEW r \in Int
          PROVE  (p + q) + r = p + (q + r)
      OBVIOUS
    <3> QED  BY <2>7, <3>1
  <2> QED  BY <2>1, <2>4, <2>5, <2>6, <2>8
<1> HIDE DEF T
<1>11. N \in T
  BY <1>1, <1>9, <1>10, InductionTo, N \in 0..N
<1>12. h[M + N] = h[M] + g[N]
  BY <1>11 DEF T
<1> QED  BY <1>2, <1>3, <1>4, <1>7, <1>12 DEF c

(* The total of no element and of one.                                     *)
LEMMA TotalShort ==
  ASSUME NEW S, NEW w \in [S -> Int], NEW s \in Seq(S)
  PROVE  /\ s = <<>> => Total(s, w) = 0
         /\ \A e \in S : s = <<e>> => Total(s, w) = w[e]
<1>1. PICK f : Sums(f, Len(s), Weights(s, w)) /\ Total(s, w) = f[Len(s)]
  BY TotalIsSum
<1>2. ASSUME s = <<>> PROVE Total(s, w) = 0
  <2>1. Len(s) = 0
    BY <1>2
  <2> QED  BY <1>1, <2>1 DEF Sums
<1>3. ASSUME NEW e \in S, s = <<e>> PROVE Total(s, w) = w[e]
  <2>1. Len(s) = 1 /\ s[1] = e
    BY <1>3
  <2>2. Weights(s, w)[1] = w[e]
    BY <2>1 DEF Weights
  <2>3. f[1] = f[1 - 1] + w[e] /\ f[0] = 0
    BY <1>1, <2>1, <2>2, 1 \in 1..1 DEF Sums
  <2>4. f[1 - 1] = f[0]
    OBVIOUS
  <2>5. f[1] = w[e]
    BY <2>3, <2>4
  <2> QED  BY <1>1, <2>1, <2>5
<1> QED  BY <1>2, <1>3

(* The total of sequences joined into one is the sum of their totals.      *)
LEMMA TotalFlatten ==
  ASSUME NEW S, NEW w \in [S -> Int], NEW ss \in Seq(Seq(S)),
         NEW x, x = [i \in 1..Len(ss) |-> Total(ss[i], w)]
  PROVE  \E g : Sums(g, Len(ss), x) /\ Total(FlattenSeq(ss), w) = g[Len(ss)]
<1> DEFINE N == Len(ss)
<1>1. N \in Nat /\ \A i \in 1..N : ss[i] \in Seq(S)
  OBVIOUS
<1>2. x \in [1..N -> Int] /\ \A i \in 1..N : x[i] = Total(ss[i], w)
  <2>1. \A i \in 1..N : Total(ss[i], w) \in Int
    BY <1>1, TotalIsSum
  <2> QED  BY <2>1
<1>3. PICK g : Sums(g, N, x)
  BY <1>1, <1>2, SumExists, SumsOfIntegers
<1>4. PICK f : Joins(f, N, S, ss) /\ FlattenSeq(ss) = f[N]
  BY FlattenIsJoin
<1> DEFINE T == {n \in 0..N : Total(f[n], w) = g[n]}
<1>5. 0 \in T
  <2>1. f[0] = <<>> /\ g[0] = 0
    BY <1>3, <1>4 DEF Joins, Sums
  <2>2. Total(<<>>, w) = 0
    BY <<>> \in Seq(S), TotalShort
  <2>3. 0 \in 0..N
    BY <1>1
  <2> QED  BY <2>1, <2>2, <2>3
<1>6. ASSUME NEW n \in 0..(N - 1), n \in T PROVE n + 1 \in T
  <2>1. n + 1 \in 1..N /\ n + 1 \in 0..N /\ (n + 1) - 1 = n /\ n \in 0..N
    <3>1. n \in Nat /\ n <= N - 1 /\ N \in Nat
      BY <1>1
    <3> QED  BY <3>1
  <2>2. f[n + 1] = f[(n + 1) - 1] \o ss[n + 1] /\ f[n] \in Seq(S)
    BY <1>4, <2>1 DEF Joins
  <2>3. f[n + 1] = f[n] \o ss[n + 1]
    BY <2>1, <2>2
  <2>4. Total(f[n + 1], w) = Total(f[n], w) + Total(ss[n + 1], w)
    BY <1>1, <2>1, <2>2, <2>3, TotalConcat
  <2>5. g[n + 1] = g[(n + 1) - 1] + x[n + 1]
    BY <1>3, <2>1 DEF Sums
  <2>6. g[n + 1] = g[n] + Total(ss[n + 1], w)
    BY <1>2, <2>1, <2>5
  <2>7. Total(f[n], w) = g[n]
    BY <1>6
  <2> QED  BY <2>1, <2>4, <2>6, <2>7
<1> HIDE DEF T
<1>7. N \in T
  BY <1>1, <1>5, <1>6, InductionTo, N \in 0..N
<1> QED  BY <1>3, <1>4, <1>7 DEF T

(* Where a run of summands is added up at its first place, and nothing at  *)
(* the places that continue it, the sum is the same. Runs holds the places *)
(* that continue a run.                                                    *)
Ends(runs, N, i, e) ==
  /\ e \in i..N
  /\ \A k \in (i + 1)..e : k \in runs
  /\ e < N => e + 1 \notin runs

(* Each summand of x is 0 in a run and, where one begins, what g gains in it.*)
Gathers(x, g, runs, N) ==
  \A i \in 1..N :
    \/ i \in runs /\ x[i] = 0
    \/ /\ i \notin runs
       /\ \E e : Ends(runs, N, i, e) /\ x[i] = g[e] - g[i - 1]

(* Where every run is gathered at its beginning, the sum is the same.      *)
LEMMA RunsAddUp ==
  ASSUME NEW N \in Nat, NEW runs, 1 \notin runs,
         NEW f, NEW g, NEW x, NEW y, Sums(f, N, x), Sums(g, N, y),
         Gathers(x, g, runs, N)
  PROVE  f[N] = g[N]
<1> DEFINE T == {i \in 0..N : \E e : Ends(runs, N, i, e) /\ f[i] = g[e]}
<1>1. 0 \in T
  <2>1. Ends(runs, N, 0, 0)
    BY DEF Ends
  <2>2. f[0] = g[0]
    BY DEF Sums
  <2> QED  BY <2>1, <2>2
<1>2. ASSUME NEW n \in 0..(N - 1), n \in T PROVE n + 1 \in T
  <2>1. n \in Nat /\ n + 1 \in 1..N /\ n + 1 \in 0..N /\ (n + 1) - 1 = n /\ n < N
    BY <1>2
  <2>2. PICK e : Ends(runs, N, n, e) /\ f[n] = g[e]
    BY <1>2
  <2>3. f[n + 1] = f[(n + 1) - 1] + x[n + 1]
    BY <2>1 DEF Sums
  <2>4. f[n + 1] = f[n] + x[n + 1]
    BY <2>1, <2>3
  <2>5. e \in Nat /\ n <= e /\ e <= N
    BY <2>1, <2>2 DEF Ends
  <2>6. \A j \in 0..N : g[j] \in Int
    BY DEF Sums
  <2>7. CASE n + 1 \in runs /\ x[n + 1] = 0
    <3>1. n # e
      BY <2>1, <2>2, <2>7 DEF Ends
    <3>2. e \in (n + 1)..N
      BY <2>1, <2>5, <3>1
    <3>3. \A k \in ((n + 1) + 1)..e : k \in (n + 1)..e
      BY <2>1, <2>5
    <3>4. Ends(runs, N, n + 1, e)
      BY <2>2, <3>2, <3>3 DEF Ends
    <3>5. f[n + 1] = g[e]
      <4>1. f[n + 1] = g[e] + 0
        BY <2>2, <2>4, <2>7
      <4>2. g[e] \in Int
        BY <2>5, <2>6, e \in 0..N
      <4> QED  BY <4>1, <4>2
    <3> QED  BY <2>1, <3>4, <3>5
  <2>8. CASE /\ n + 1 \notin runs
             /\ \E a : Ends(runs, N, n + 1, a)
                         /\ x[n + 1] = g[a] - g[(n + 1) - 1]
    <3>1. PICK a : Ends(runs, N, n + 1, a) /\ x[n + 1] = g[a] - g[(n + 1) - 1]
      BY <2>8
    <3>2. e = n
      <4>1. n + 1 \notin (n + 1)..e
        BY <2>2, <2>8 DEF Ends
      <4> QED  BY <2>1, <2>5, <4>1
    <3>3. f[n + 1] = g[n] + (g[a] - g[n])
      BY <2>1, <2>2, <2>4, <3>1, <3>2
    <3>4. a \in 0..N
      BY <2>1, <3>1 DEF Ends
    <3>5. g[a] \in Int /\ g[n] \in Int
      BY <2>6, <3>4, <2>1, n \in 0..N
    <3>6. f[n + 1] = g[a]
      BY <3>3, <3>5
    <3> QED  BY <2>1, <3>1, <3>6
  <2> QED  BY <2>1, <2>7, <2>8 DEF Gathers
<1> HIDE DEF T
<1>3. N \in T
  BY <1>1, <1>2, InductionTo, N \in 0..N
<1>4. PICK e : Ends(runs, N, N, e) /\ f[N] = g[e]
  BY <1>3 DEF T
<1>5. e = N
  BY <1>4 DEF Ends
<1> QED  BY <1>4, <1>5

(* Summands that are 1 count.                                              *)
LEMMA SumsCount ==
  ASSUME NEW N \in Nat, NEW f, NEW x, Sums(f, N, x),
         NEW i \in 0..N, NEW e \in i..N, \A k \in (i + 1)..e : x[k] = 1
  PROVE  f[e] - f[i] = e - i
<1> DEFINE T == {n \in 0..(e - i) : f[i + n] - f[i] = n}
<1>1. e - i \in Nat /\ i \in Nat /\ e \in Nat /\ e <= N
  OBVIOUS
<1>2. 0 \in T
  <2>1. f[i] \in Int /\ i + 0 = i
    BY <1>1 DEF Sums
  <2>2. f[i] - f[i] = 0
    BY <2>1
  <2> QED  BY <1>1, <2>1, <2>2
<1>3. ASSUME NEW n \in 0..((e - i) - 1), n \in T PROVE n + 1 \in T
  <2>1. /\ n + 1 \in 0..(e - i) /\ i + (n + 1) \in 1..N
        /\ (i + (n + 1)) - 1 = i + n /\ i + (n + 1) \in (i + 1)..e
        /\ i + n \in 0..N
    <3>1. n \in Nat /\ n <= (e - i) - 1
      BY <1>1
    <3> QED  BY <1>1, <3>1
  <2>2. f[i + (n + 1)] = f[(i + (n + 1)) - 1] + x[i + (n + 1)]
    BY <2>1 DEF Sums
  <2>3. f[i + (n + 1)] = f[i + n] + 1
    BY <2>1, <2>2
  <2>4. f[i + n] - f[i] = n /\ n \in Nat
    BY <1>1, <1>3
  <2>5. f[i + n] \in Int /\ f[i] \in Int
    BY <2>1 DEF Sums
  <2>6. (f[i + n] + 1) - f[i] = n + 1
    BY <2>4, <2>5
  <2> QED  BY <2>1, <2>3, <2>6
<1> HIDE DEF T
<1>4. e - i \in T
  BY <1>1, <1>2, <1>3, InductionTo, e - i \in 0..(e - i)
<1>5. i + (e - i) = e
  BY <1>1
<1> QED  BY <1>4, <1>5 DEF T

(* Where every weight is 1 the total is the number of elements.            *)
LEMMA TotalCounts ==
  ASSUME NEW S, NEW w \in [S -> Int], NEW s \in Seq(S),
         \A i \in 1..Len(s) : w[s[i]] = 1
  PROVE  Total(s, w) = Len(s)
<1>1. PICK f : Sums(f, Len(s), Weights(s, w)) /\ Total(s, w) = f[Len(s)]
  BY TotalIsSum
<1>2. Len(s) \in Nat /\ \A k \in 1..Len(s) : Weights(s, w)[k] = 1
  BY DEF Weights
<1>3. 0 \in 0..Len(s) /\ Len(s) \in 0..Len(s) /\ 0 + 1 = 1
  BY <1>2
<1>4. f[Len(s)] - f[0] = Len(s) - 0
  BY <1>1, <1>2, <1>3, SumsCount
<1>5. f[0] = 0 /\ f[Len(s)] \in Int
  BY <1>1, <1>3 DEF Sums
<1> QED  BY <1>1, <1>2, <1>4, <1>5

-----------------------------------------------------------------------------
(* The elements of a sequence that are in a set *)

(* The elements of s that are in X.                                        *)
Chosen(s, X) ==
  FlattenSeq([i \in DOMAIN s |-> IF s[i] \in X THEN <<s[i]>> ELSE <<>>])

(* Each element of s as a sequence, empty when it is not in X.             *)
Singles(s, X) == [i \in 1..Len(s) |-> IF s[i] \in X THEN <<s[i]>> ELSE <<>>]

(* The chosen elements are the choices joined into one.                    *)
LEMMA ChosenIsJoin ==
  ASSUME NEW S, NEW X, NEW s \in Seq(S)
  PROVE  /\ Chosen(s, X) = FlattenSeq(Singles(s, X))
         /\ Singles(s, X) \in Seq(Seq(S)) /\ Len(Singles(s, X)) = Len(s)
         /\ Chosen(s, X) \in Seq(S)
         /\ \E f : /\ Joins(f, Len(s), S, Singles(s, X))
                   /\ Chosen(s, X) = f[Len(s)]
<1> DEFINE c == Singles(s, X)
<1>1. /\ Len(s) \in Nat /\ DOMAIN s = 1..Len(s)
      /\ \A i \in 1..Len(s) : s[i] \in S
  OBVIOUS
<1>2. \A i \in 1..Len(s) :
        (IF s[i] \in X THEN <<s[i]>> ELSE <<>>) \in Seq(S)
  BY <1>1
<1>3. c \in Seq(Seq(S)) /\ Len(c) = Len(s)
  BY <1>1, <1>2 DEF Singles
<1>4. Chosen(s, X) = FlattenSeq(c)
  BY <1>1 DEF Chosen, Singles
<1> HIDE DEF c
<1>5. FlattenSeq(c) \in Seq(S)
  BY <1>3, FlattenPlaces
<1>6. PICK f : Joins(f, Len(c), S, c) /\ FlattenSeq(c) = f[Len(c)]
  BY <1>3, FlattenIsJoin
<1>7. Joins(f, Len(s), S, c) /\ Chosen(s, X) = f[Len(s)]
  BY <1>3, <1>4, <1>6
<1> QED  BY <1>3, <1>4, <1>5, <1>7 DEF c

(* What is chosen are elements of s that are in X.                         *)
LEMMA ChosenFrom ==
  ASSUME NEW S, NEW X, NEW s \in Seq(S)
  PROVE  \A p \in 1..Len(Chosen(s, X)) :
           /\ Chosen(s, X)[p] \in X
           /\ \E q \in 1..Len(s) : Chosen(s, X)[p] = s[q]
<1> DEFINE c == Singles(s, X)
           r == Chosen(s, X)
<1>1. /\ c \in Seq(Seq(S)) /\ Len(c) = Len(s) /\ r = FlattenSeq(c)
      /\ r \in Seq(S)
  BY ChosenIsJoin
<1> HIDE DEF r
<1>2. \A i \in 1..Len(s) : c[i] = IF s[i] \in X THEN <<s[i]>> ELSE <<>>
  BY DEF Singles
<1> HIDE DEF c
<1>3. PICK o : Placed(r, o, Len(c), c)
  BY <1>1, FlattenPlaces
<1>4. ASSUME NEW p \in 1..Len(r)
      PROVE  r[p] \in X /\ \E q \in 1..Len(s) : r[p] = s[q]
  <2>1. o[p] \in 1..Len(s)
    BY <1>1, <1>3 DEF Placed
  <2>2. PICK q \in 1..Len(c[o[p]]) : r[p] = c[o[p]][q]
    BY <1>3 DEF Placed
  <2>3. CASE s[o[p]] \notin X
    <3>1. c[o[p]] = <<>> /\ Len(<<>>) = 0
      BY <1>2, <2>1, <2>3
    <3> QED  BY <2>2, <3>1
  <2>4. CASE s[o[p]] \in X
    <3>1. c[o[p]] = <<s[o[p]]>>
      BY <1>2, <2>1, <2>4
    <3>2. Len(<<s[o[p]]>>) = 1 /\ <<s[o[p]]>>[1] = s[o[p]]
      OBVIOUS
    <3>3. q = 1 /\ r[p] = s[o[p]]
      BY <2>2, <3>1, <3>2
    <3> QED  BY <2>1, <2>4, <3>3
  <2> QED  BY <2>3, <2>4
<1> QED  BY <1>4 DEF r

(* Nothing is chosen from what has no element of X.                        *)
LEMMA ChosenNone ==
  ASSUME NEW S, NEW X, NEW s \in Seq(S), \A i \in 1..Len(s) : s[i] \notin X
  PROVE  Chosen(s, X) = <<>>
<1> DEFINE r == Chosen(s, X)
<1>1. r \in Seq(S)
  BY ChosenIsJoin
<1>2. \A p \in 1..Len(r) : r[p] \in X /\ \E q \in 1..Len(s) : r[p] = s[q]
  BY ChosenFrom
<1> HIDE DEF r
<1>3. Len(r) \in Nat /\ 1 \notin 1..Len(r)
  BY <1>1, <1>2
<1>4. Len(r) = 0
  BY <1>3
<1>5. r = <<>>
  BY <1>1, <1>4, EmptySeq
<1> QED  BY <1>5 DEF r

(* Joins over sequences that agree agree.                                  *)
LEMMA JoinsAgree ==
  ASSUME NEW S, NEW N \in Nat, NEW f, NEW g, NEW a, NEW b,
         Joins(f, N, S, a), Joins(g, N, S, b), \A i \in 1..N : a[i] = b[i]
  PROVE  f[N] = g[N]
<1> DEFINE T == {n \in 0..N : f[n] = g[n]}
<1>1. 0 \in T
  BY DEF Joins
<1>2. ASSUME NEW n \in 0..(N - 1), n \in T PROVE n + 1 \in T
  <2>1. n + 1 \in 1..N /\ n + 1 \in 0..N /\ (n + 1) - 1 = n
    BY <1>2
  <2>2. /\ f[n + 1] = f[(n + 1) - 1] \o a[n + 1]
        /\ g[n + 1] = g[(n + 1) - 1] \o b[n + 1]
    BY <2>1 DEF Joins
  <2>3. f[n] = g[n] /\ a[n + 1] = b[n + 1]
    BY <1>2, <2>1
  <2>4. f[n + 1] = f[n] \o a[n + 1] /\ g[n + 1] = g[n] \o b[n + 1]
    BY <2>1, <2>2
  <2>5. f[n + 1] = g[n + 1]
    BY <2>3, <2>4
  <2> QED  BY <2>1, <2>5
<1> HIDE DEF T
<1>3. N \in T
  BY <1>1, <1>2, InductionTo, N \in 0..N
<1> QED  BY <1>3 DEF T

(* What is chosen from no element and from one.                            *)
LEMMA ChosenShort ==
  ASSUME NEW S, NEW X, NEW s \in Seq(S)
  PROVE  /\ s = <<>> => Chosen(s, X) = <<>>
         /\ \A e \in S : s = <<e>> =>
              Chosen(s, X) = IF e \in X THEN <<e>> ELSE <<>>
<1>1. ASSUME s = <<>> PROVE Chosen(s, X) = <<>>
  <2>1. Len(s) = 0
    BY <1>1
  <2>2. \A i \in 1..Len(s) : s[i] \notin X
    BY <2>1
  <2> QED  BY <2>2, ChosenNone
<1>2. ASSUME NEW e \in S, s = <<e>>
      PROVE  Chosen(s, X) = IF e \in X THEN <<e>> ELSE <<>>
  <2> DEFINE one == IF e \in X THEN <<e>> ELSE <<>>
  <2>1. Len(s) = 1 /\ s[1] = e
    BY <1>2
  <2>2. one \in Seq(S)
    OBVIOUS
  <2>3. PICK f : Joins(f, Len(s), S, Singles(s, X)) /\ Chosen(s, X) = f[Len(s)]
    BY ChosenIsJoin
  <2>4. Singles(s, X)[1] = one
    BY <2>1 DEF Singles
  <2> HIDE DEF one
  <2>5. f[1] = f[1 - 1] \o one /\ f[0] = <<>>
    BY <2>1, <2>3, <2>4 DEF Joins
  <2>6. f[1 - 1] = f[0]
    OBVIOUS
  <2>7. f[1] = <<>> \o one
    BY <2>5, <2>6
  <2>8. <<>> \o one = one
    BY <2>2, ConcatEmptySeq
  <2> QED  BY <2>1, <2>3, <2>7, <2>8 DEF one
<1> QED  BY <1>1, <1>2

(* The law of ConcatAssociative under a name.                              *)
Associates(a, b, c) == (a \o b) \o c = a \o (b \o c)

LEMMA ConcatAssociates ==
  ASSUME NEW S, NEW a \in Seq(S), NEW b \in Seq(S), NEW c \in Seq(S)
  PROVE  Associates(a, b, c)
BY ConcatAssociative DEF Associates

(* To choose from two sequences put together is to choose from each.       *)
LEMMA ChosenConcat ==
  ASSUME NEW S, NEW X, NEW a \in Seq(S), NEW b \in Seq(S)
  PROVE  Chosen(a \o b, X) = Chosen(a, X) \o Chosen(b, X)
<1> DEFINE c == a \o b
           M == Len(a)
           N == Len(b)
           A == Singles(a, X)
           B == Singles(b, X)
           C == Singles(c, X)
<1>1. /\ c \in Seq(S) /\ M \in Nat /\ N \in Nat /\ Len(c) = M + N
      /\ \A i \in 1..(M + N) : c[i] = IF i <= M THEN a[i] ELSE b[i - M]
  BY ConcatProperties
<1> HIDE DEF c
<1>2. PICK f : Joins(f, M, S, A) /\ Chosen(a, X) = f[M]
  BY ChosenIsJoin
<1>3. PICK g : Joins(g, N, S, B) /\ Chosen(b, X) = g[N]
  BY ChosenIsJoin
<1>4. PICK h : Joins(h, M + N, S, C) /\ Chosen(c, X) = h[M + N]
  <2>1. c \in Seq(S) /\ Len(c) = M + N
    BY <1>1
  <2>2. PICK h : Joins(h, Len(c), S, C) /\ Chosen(c, X) = h[Len(c)]
    BY <2>1, ChosenIsJoin
  <2>3. Joins(h, M + N, S, C) /\ Chosen(c, X) = h[M + N]
    BY <2>1, <2>2, Zenon
  <2> QED  BY <2>3
<1>5. \A i \in 1..M : i \in 1..(M + N) /\ C[i] = A[i]
  <2> SUFFICES ASSUME NEW i \in 1..M
               PROVE  i \in 1..(M + N) /\ C[i] = A[i]
    OBVIOUS
  <2>1. i \in 1..(M + N) /\ i <= M
    BY <1>1
  <2>2. c[i] = a[i]
    BY <1>1, <2>1
  <2> QED  BY <1>1, <2>1, <2>2 DEF Singles
<1>6. \A i \in 1..N : M + i \in 1..(M + N) /\ C[M + i] = B[i]
  <2> SUFFICES ASSUME NEW i \in 1..N
               PROVE  M + i \in 1..(M + N) /\ C[M + i] = B[i]
    OBVIOUS
  <2>1. M + i \in 1..(M + N) /\ ~(M + i <= M) /\ (M + i) - M = i
    BY <1>1
  <2>2. c[M + i] = b[i]
    BY <1>1, <2>1
  <2> QED  BY <1>1, <2>1, <2>2 DEF Singles
<1> HIDE DEF A, B, C
<1>7. h[M] = f[M] /\ h[M] \in Seq(S)
  <2> DEFINE k == [i \in 0..M |-> h[i]]
  <2>0. \A i \in 0..(M + N) : h[i] \in Seq(S)
    BY <1>4 DEF Joins
  <2>1. \A i \in 0..M : i \in 0..(M + N) /\ h[i] \in Seq(S)
    <3>1. \A i \in 0..M : i \in 0..(M + N)
      BY <1>1
    <3> QED  BY <2>0, <3>1
  <2>2. A \in [1..M -> Seq(S)]
    BY <1>2 DEF Joins
  <2>3. \A i \in 1..M : h[i] = h[i - 1] \o A[i]
    BY <1>4, <1>5 DEF Joins
  <2>4. 0 \in 0..M /\ M \in 0..M /\ \A i \in 1..M : i \in 0..M /\ i - 1 \in 0..M
    BY <1>1
  <2>5. k \in [0..M -> Seq(S)] /\ \A i \in 0..M : k[i] = h[i]
    BY <2>1
  <2> HIDE DEF k
  <2>6. k[0] = <<>>
    BY <1>4, <2>4, <2>5 DEF Joins
  <2>7. \A i \in 1..M : k[i] = k[i - 1] \o A[i]
    BY <2>3, <2>4, <2>5
  <2>8. Joins(k, M, S, A)
    BY <2>2, <2>5, <2>6, <2>7 DEF Joins
  <2>9. k[M] = f[M]
    BY <1>1, <1>2, <2>8, JoinsAgree
  <2> QED  BY <2>1, <2>4, <2>5, <2>9
<1> DEFINE T == {n \in 0..N : h[M + n] = h[M] \o g[n]}
<1>8. 0 \in T
  <2>1. g[0] = <<>> /\ M + 0 = M
    BY <1>1, <1>3 DEF Joins
  <2>2. h[M] \o <<>> = h[M]
    BY <1>7, ConcatEmptySeq
  <2>3. 0 \in 0..N
    BY <1>1
  <2> QED  BY <2>1, <2>2, <2>3
<1>9. ASSUME NEW n \in 0..(N - 1), n \in T PROVE n + 1 \in T
  <2>1. /\ n + 1 \in 1..N /\ n + 1 \in 0..N /\ (n + 1) - 1 = n /\ n \in 0..N
        /\ M + (n + 1) \in 1..(M + N) /\ (M + (n + 1)) - 1 = M + n
    <3>1. n \in Nat /\ n <= N - 1 /\ M \in Nat /\ N \in Nat
      BY <1>1
    <3> QED  BY <3>1
  <2>2. g[n + 1] = g[(n + 1) - 1] \o B[n + 1]
    BY <1>3, <2>1 DEF Joins
  <2>3. h[M + (n + 1)] = h[(M + (n + 1)) - 1] \o C[M + (n + 1)]
    BY <1>4, <2>1 DEF Joins
  <2>4. g[n + 1] = g[n] \o B[n + 1]
    BY <2>1, <2>2
  <2>5. h[M + (n + 1)] = h[M + n] \o B[n + 1]
    BY <1>6, <2>1, <2>3
  <2>6. h[M + n] = h[M] \o g[n]
    BY <1>9
  <2>7. g[n] \in Seq(S) /\ B[n + 1] \in Seq(S) /\ h[M] \in Seq(S)
    BY <1>3, <1>7, <2>1 DEF Joins
  <2>8. (h[M] \o g[n]) \o B[n + 1] = h[M] \o (g[n] \o B[n + 1])
    <3>1. Associates(h[M], g[n], B[n + 1])
      BY <2>7, ConcatAssociates
    <3> QED  BY <3>1 DEF Associates
  <2>9. h[M + (n + 1)] = h[M] \o g[n + 1]
    BY <2>4, <2>5, <2>6, <2>8
  <2> QED  BY <2>1, <2>9
<1> HIDE DEF T
<1>10. N \in T
  BY <1>1, <1>8, <1>9, InductionTo, N \in 0..N
<1>11. h[M + N] = h[M] \o g[N]
  BY <1>10 DEF T
<1> QED  BY <1>2, <1>3, <1>4, <1>7, <1>11 DEF c

(* To choose from sequences joined is to join what is chosen from each.    *)
LEMMA ChosenFlatten ==
  ASSUME NEW S, NEW X, NEW ss \in Seq(Seq(S)), NEW tt \in Seq(Seq(S)),
         Len(ss) = Len(tt), \A i \in 1..Len(ss) : Chosen(ss[i], X) = tt[i]
  PROVE  Chosen(FlattenSeq(ss), X) = FlattenSeq(tt)
<1> DEFINE N == Len(ss)
<1>1. /\ N \in Nat /\ N = Len(tt)
      /\ \A i \in 1..N : ss[i] \in Seq(S) /\ tt[i] \in Seq(S)
  OBVIOUS
<1>2. PICK f : Joins(f, N, S, ss) /\ FlattenSeq(ss) = f[N]
  BY FlattenIsJoin
<1>3. PICK g : Joins(g, N, S, tt) /\ FlattenSeq(tt) = g[N]
  BY <1>1, FlattenIsJoin
<1>4. \A i \in 1..N : Chosen(ss[i], X) = tt[i]
  OBVIOUS
<1> HIDE DEF N
<1> DEFINE T == {n \in 0..N : Chosen(f[n], X) = g[n]}
<1>5. 0 \in T
  <2>1. f[0] = <<>> /\ g[0] = <<>>
    BY <1>2, <1>3 DEF Joins
  <2>2. f[0] \in Seq(S)
    BY <2>1
  <2>3. Chosen(f[0], X) = <<>>
    BY <2>1, <2>2, ChosenShort
  <2>4. 0 \in 0..N
    BY <1>1
  <2> QED  BY <2>1, <2>3, <2>4
<1>6. ASSUME NEW n \in 0..(N - 1), n \in T PROVE n + 1 \in T
  <2>1. n + 1 \in 1..N /\ n + 1 \in 0..N /\ (n + 1) - 1 = n /\ n \in 0..N
    <3>1. n \in Nat /\ n <= N - 1 /\ N \in Nat
      BY <1>1
    <3> QED  BY <3>1
  <2>2. /\ f[n + 1] = f[(n + 1) - 1] \o ss[n + 1] /\ f[n] \in Seq(S)
        /\ g[n + 1] = g[(n + 1) - 1] \o tt[n + 1]
    BY <1>2, <1>3, <2>1 DEF Joins
  <2>3. f[n + 1] = f[n] \o ss[n + 1] /\ g[n + 1] = g[n] \o tt[n + 1]
    BY <2>1, <2>2
  <2>4. Chosen(f[n + 1], X) = Chosen(f[n], X) \o Chosen(ss[n + 1], X)
    BY <1>1, <2>1, <2>2, <2>3, ChosenConcat
  <2>5. Chosen(f[n], X) = g[n] /\ Chosen(ss[n + 1], X) = tt[n + 1]
    BY <1>4, <1>6, <2>1
  <2>6. Chosen(f[n + 1], X) = g[n + 1]
    BY <2>3, <2>4, <2>5
  <2> QED  BY <2>1, <2>6
<1> HIDE DEF T
<1>7. N \in T
  BY <1>1, <1>5, <1>6, InductionTo, N \in 0..N
<1> QED  BY <1>2, <1>3, <1>7 DEF T
=============================================================================
