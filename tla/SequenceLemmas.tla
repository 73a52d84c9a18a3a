--------------------------- MODULE SequenceLemmas ---------------------------
(***************************************************************************)
(* What the sequence operators that the models use return, for sequences   *)
(* of any length.  Induction is over sets: the provers cannot instantiate  *)
(* an induction theorem for a predicate, but a set of numbers with no      *)
(* least element is empty (LeastElement), and that follows from the        *)
(* library's theorem that strict inclusion of finite sets is well-founded. *)
(* A function defined by recursion over an interval exists by RecursionTo, *)
(* which is proved with it.                                                *)
(***************************************************************************)
EXTENDS Integers, SequencesExt, FiniteSetTheorems, SequenceTheorems, TLAPS

\* Every non-empty set of naturals has a least element.
LEMMA LeastElement ==
  ASSUME NEW T, T \subseteq Nat, T # {}
  PROVE  \E n \in T : \A m \in T : n <= m
<1> DEFINE R == StrictSubsetOrdering(Nat)
           below(n) == 0..(n - 1)
           B == {below(n) : n \in T}
<1>1. IsWellFoundedOn(R, FiniteSubsetsOf(Nat))
  BY FS_StrictSubsetOrderingWellFounded
<1>2. \A n \in T : below(n) \in SUBSET Nat /\ IsFiniteSet(below(n))
  BY FS_Interval
<1>3. B \subseteq FiniteSubsetsOf(Nat) /\ B # {}
  BY <1>2 DEF FiniteSubsetsOf
<1>4. PICK x \in B : \A y \in B : ~ (<<y, x>> \in R)
  <2> HIDE DEF R, B
  <2> QED
    BY <1>1, <1>3, WFMin
<1>5. PICK n \in T : x = below(n)
  OBVIOUS
<1>6. ASSUME NEW m \in T, m < n PROVE FALSE
  <2>1. m \in Nat /\ n \in Nat
    OBVIOUS
  <2>2. below(m) \subseteq below(n) /\ m \in below(n) /\ m \notin below(m)
    BY <1>6, <2>1, Z3
  <2>3. <<below(m), below(n)>> \in R
    <3>1. below(m) \in SUBSET Nat /\ below(n) \in SUBSET Nat
      BY <1>2
    <3> HIDE DEF below
    <3> QED
      BY <2>2, <3>1 DEF StrictSubsetOrdering
  <2> QED
    BY <2>3, <1>4, <1>5
<1> QED
  BY <1>6

\* Induction over 0..n, for the set G of the numbers that have the property.
LEMMA InductionTo ==
  ASSUME NEW n \in Nat, NEW G, 0 \in G,
         \A k \in 0..(n - 1) : k \in G => k + 1 \in G
  PROVE  \A k \in 0..n : k \in G
<1> DEFINE T == {k \in 0..n : k \notin G}
<1> SUFFICES ASSUME T # {} PROVE FALSE
  OBVIOUS
<1>1. PICK k \in T : \A m \in T : k <= m
  <2>1. T \subseteq Nat
    OBVIOUS
  <2> HIDE DEF T
  <2> QED
    BY <2>1, LeastElement
<1>2. k \in 1..n /\ k - 1 \in 0..(n - 1) /\ k - 1 \notin T
  BY <1>1
<1> QED
  BY <1>2, (k - 1) + 1 = k

\* f is got from a by the steps step[1], ..., step[n].
Iterates(f, n, S, a, step) ==
  /\ f \in [0..n -> S]
  /\ f[0] = a
  /\ \A i \in 1..n : f[i] = step[i][f[i - 1]]

\* A function that is defined by recursion over 0..n exists.
LEMMA RecursionTo ==
  ASSUME NEW n \in Nat, NEW S, NEW a \in S, NEW step \in [1..n -> [S -> S]]
  PROVE  \E f : Iterates(f, n, S, a, step)
<1> DEFINE G == {k \in 0..n : \E f : Iterates(f, k, S, a, step)}
<1>1. 0 \in G
  <2> DEFINE g == [i \in 0..0 |-> a]
  <2>1. Iterates(g, 0, S, a, step)
    BY DEF Iterates
  <2> HIDE DEF g
  <2> QED
    BY <2>1
<1>2. ASSUME NEW k \in 0..(n - 1), k \in G PROVE k + 1 \in G
  <2>1. PICK f : Iterates(f, k, S, a, step)
    BY <1>2
  <2> DEFINE g == [i \in 0..(k + 1) |->
                     IF i <= k THEN f[i] ELSE step[k + 1][f[k]]]
  <2>2. step[k + 1] \in [S -> S] /\ f[k] \in S
    BY <2>1, k + 1 \in 1..n, k \in 0..k DEF Iterates
  <2>3. g \in [0..(k + 1) -> S]
    BY <2>1, <2>2 DEF Iterates
  <2>4. g[0] = a
    BY <2>1 DEF Iterates
  <2>5. ASSUME NEW i \in 1..(k + 1) PROVE g[i] = step[i][g[i - 1]]
    <3>1. CASE i <= k
      BY <3>1, <2>1 DEF Iterates
    <3>2. CASE i = k + 1
      BY <3>2
    <3> QED
      BY <3>1, <3>2
  <2> HIDE DEF g
  <2>6. Iterates(g, k + 1, S, a, step)
    BY <2>3, <2>4, <2>5 DEF Iterates
  <2> QED
    BY <2>6
<1>3. n \in G
  <2> HIDE DEF G
  <2>1. \A k \in 0..n : k \in G
    BY <1>1, <1>2, InductionTo
  <2> QED
    BY <2>1
<1> QED
  BY <1>3

\* A sequence of elements of a set is one of elements of a larger set.
LEMMA SeqWider ==
  ASSUME NEW S, NEW T, S \subseteq T, NEW s \in Seq(S)
  PROVE  s \in Seq(T) /\ Len(s) \in Nat
OBVIOUS

\* The elements of a concatenation.
LEMMA ConcatAt ==
  ASSUME NEW X, NEW s \in Seq(X), NEW t \in Seq(X)
  PROVE  /\ s \o t \in Seq(X)
         /\ Len(s \o t) = Len(s) + Len(t)
         /\ \A i \in 1..Len(s) : (s \o t)[i] = s[i]
         /\ \A i \in 1..Len(t) : (s \o t)[Len(s) + i] = t[i]
OBVIOUS

\* One element behind a concatenation.
LEMMA ConcatAppend ==
  ASSUME NEW X, NEW s \in Seq(X), NEW t \in Seq(X), NEW e \in X
  PROVE  /\ s \o t \in Seq(X) /\ (s \o t) \o <<>> = s \o t
         /\ s \o Append(t, e) = Append(s \o t, e)
         /\ (s \o t) \o <<e>> = Append(s \o t, e)
<1>1. s \o t \in Seq(X) /\ Len(s \o t) = Len(s) + Len(t)
  BY ConcatAt
<1>2. s \o Append(t, e) = Append(s \o t, e)
  OBVIOUS
<1> DEFINE u == s \o t
<1> HIDE DEF u
<1>3. u \in Seq(X) => u \o <<>> = u /\ u \o <<e>> = Append(u, e)
  OBVIOUS
<1> QED
  BY <1>1, <1>2, <1>3 DEF u

\* f[i] is the concatenation of the first i of n sequences.
Prefixed(f, n, X, ss) ==
  /\ f \in [1..n -> Seq(X)]
  /\ f[1] = ss[1]
  /\ \A i \in 2..n : f[i] = f[i - 1] \o ss[i]

\* The recursive function in FlattenSeq exists, and is what its equation says.
LEMMA FlattenDef ==
  ASSUME NEW X, NEW ss \in Seq(Seq(X)), ss # <<>>
  PROVE  \E f : Prefixed(f, Len(ss), X, ss) /\ FlattenSeq(ss) = f[Len(ss)]
<1> DEFINE n == Len(ss)
           Good(f) == f = [i \in 1..n |-> IF i = 1 THEN ss[i]
                                          ELSE f[i - 1] \o ss[i]]
           step == [i \in 1..n |-> [x \in Seq(X) |->
                      IF i = 1 THEN ss[i] ELSE x \o ss[i]]]
           fl == CHOOSE f : Good(f)
<1>1. n \in Nat /\ n >= 1 /\ \A i \in 1..n : ss[i] \in Seq(X)
  OBVIOUS
<1>2. step \in [1..n -> [Seq(X) -> Seq(X)]]
  BY <1>1, ConcatAt
<1>3. <<>> \in Seq(X)
  OBVIOUS
<1>4. PICK h : Iterates(h, n, Seq(X), <<>>, step)
  <2> HIDE DEF step, n
  <2> QED
    BY <1>1, <1>2, <1>3, RecursionTo
<1>5. \A i \in 1..n : /\ h[i] \in Seq(X) /\ h[i - 1] \in Seq(X)
                      /\ h[i] = IF i = 1 THEN ss[i] ELSE h[i - 1] \o ss[i]
  <2> SUFFICES ASSUME NEW i \in 1..n
               PROVE  /\ h[i] \in Seq(X) /\ h[i - 1] \in Seq(X)
                      /\ h[i] = IF i = 1 THEN ss[i] ELSE h[i - 1] \o ss[i]
    OBVIOUS
  <2>1. i \in 0..n /\ i - 1 \in 0..n
    BY <1>1
  <2>2. h[i] \in Seq(X) /\ h[i - 1] \in Seq(X)
    <3> HIDE DEF n
    <3> QED
      BY <2>1, <1>4 DEF Iterates
  <2>3. \A x \in Seq(X) : step[i][x] = IF i = 1 THEN ss[i] ELSE x \o ss[i]
    OBVIOUS
  <2> HIDE DEF step, n
  <2> QED
    BY <2>2, <2>3, <1>4 DEF Iterates
<1>6. Good([i \in 1..n |-> h[i]])
  <2> DEFINE g == [i \in 1..n |-> h[i]]
             e(i) == IF i = 1 THEN ss[i] ELSE g[i - 1] \o ss[i]
  <2>1. ASSUME NEW i \in 1..n PROVE g[i] = e(i)
    <3>1. g[i] = h[i]
      OBVIOUS
    <3>2. CASE i = 1
      BY <3>1, <3>2, <1>5
    <3>3. CASE i # 1
      <4>1. i - 1 \in 1..n
        BY <3>3, <1>1
      <4>2. g[i - 1] = h[i - 1]
        BY <4>1
      <4> HIDE DEF g
      <4> QED
        BY <3>1, <3>3, <4>2, <1>5
    <3> QED
      BY <3>2, <3>3
  <2>2. g = [i \in 1..n |-> g[i]]
    OBVIOUS
  <2>3. g = [i \in 1..n |-> e(i)]
    <3> HIDE DEF g, e
    <3> QED
      BY <2>1, <2>2
  <2> QED
    BY <2>3
<1>7. Good(fl)
  BY <1>6
<1>8. \A i \in 1..n : fl[i] = IF i = 1 THEN ss[i] ELSE fl[i - 1] \o ss[i]
  BY <1>7
<1>9. FlattenSeq(ss) = fl[n]
  BY <1>1 DEF FlattenSeq
<1>10. DOMAIN fl = 1..n /\ fl = [i \in 1..n |-> fl[i]]
  BY <1>7
<1> HIDE DEF fl, Good
<1>11. \A i \in 1..n : fl[i] \in Seq(X)
  <2> DEFINE G == {k \in 0..n : k = 0 \/ fl[k] \in Seq(X)}
  <2>1. 0 \in G
    BY <1>1
  <2>2. ASSUME NEW k \in 0..(n - 1), k \in G PROVE k + 1 \in G
    <3>1. k + 1 \in 1..n /\ ss[k + 1] \in Seq(X)
      BY <1>1
    <3>2. CASE k = 0
      BY <3>1, <3>2, <1>8
    <3>3. CASE k # 0
      <4>1. fl[k] \in Seq(X) /\ fl[k + 1] = fl[k] \o ss[k + 1]
        <5>1. (k + 1) - 1 = k /\ k + 1 # 1
          BY <3>3
        <5>2. fl[k + 1] = fl[(k + 1) - 1] \o ss[k + 1]
          <6> HIDE DEF n
          <6> QED
          BY <5>1, <3>1, <1>8
        <5>3. fl[k] \in Seq(X)
          BY <2>2, <3>3
        <5> QED
          BY <5>1, <5>2, <5>3
      <4>2. fl[k] \o ss[k + 1] \in Seq(X)
        BY <3>1, <4>1, ConcatAt
      <4>3. fl[k + 1] \in Seq(X)
        BY <4>1, <4>2
      <4> QED
        BY <4>3, <3>1
    <3> QED
      BY <3>2, <3>3
  <2>3. \A k \in 0..n : k \in G
    <3> HIDE DEF G, n
    <3> QED
      BY <1>1, <2>1, <2>2, InductionTo
  <2> QED
    BY <2>3, <1>1
<1>12. fl \in [1..n -> Seq(X)]
  BY <1>10, <1>11
<1>13. fl[1] = ss[1] /\ \A i \in 2..n : fl[i] = fl[i - 1] \o ss[i]
  <2>1. 1 \in 1..n /\ \A i \in 2..n : i \in 1..n /\ i # 1
    BY <1>1
  <2> HIDE DEF n
  <2> QED
    BY <2>1, <1>8
<1>14. Prefixed(fl, n, X, ss)
  BY <1>12, <1>13 DEF Prefixed
<1> QED
  BY <1>9, <1>14

\* FlattenSeq makes a sequence of elements of the same set.
LEMMA FlattenType ==
  ASSUME NEW X, NEW ss \in Seq(Seq(X))
  PROVE  FlattenSeq(ss) \in Seq(X)
<1>1. CASE ss = <<>>
  BY <1>1 DEF FlattenSeq
<1>2. CASE ss # <<>>
  <2>1. PICK f : Prefixed(f, Len(ss), X, ss) /\ FlattenSeq(ss) = f[Len(ss)]
    BY <1>2, FlattenDef
  <2>2. Len(ss) \in 1..Len(ss)
    BY <1>2
  <2> QED
    BY <2>1, <2>2 DEF Prefixed
<1> QED
  BY <1>1, <1>2

\* One more sequence at the end: the equation by which FlattenSeq is used.
LEMMA FlattenAppend ==
  ASSUME NEW X, NEW ss \in Seq(Seq(X)), NEW s \in Seq(X)
  PROVE  FlattenSeq(Append(ss, s)) = FlattenSeq(ss) \o s
<1> DEFINE tt == Append(ss, s)
           n == Len(ss)
<1>1. /\ n \in Nat /\ tt \in Seq(Seq(X)) /\ tt # <<>> /\ Len(tt) = n + 1
      /\ tt[n + 1] = s /\ \A i \in 1..n : tt[i] = ss[i]
  <2> DEFINE Y == Seq(X)
  <2>1. ss \in Seq(Y) /\ s \in Y
    OBVIOUS
  <2> HIDE DEF Y
  <2>2. /\ tt \in Seq(Y) /\ Len(tt) = n + 1 /\ n \in Nat
        /\ tt[n + 1] = s /\ \A i \in 1..n : tt[i] = ss[i]
    BY <2>1
  <2> HIDE DEF tt
  <2>3. tt # <<>>
    BY <2>2, Len(<<>>) = 0
  <2> QED
    BY <2>2, <2>3 DEF Y
<1> HIDE DEF tt
<1>0. PICK g : Prefixed(g, Len(tt), X, tt) /\ FlattenSeq(tt) = g[Len(tt)]
  BY <1>1, FlattenDef
<1>2. /\ g[1] = tt[1]
      /\ \A i \in 2..(n + 1) : g[i] = g[i - 1] \o tt[i]
      /\ FlattenSeq(tt) = g[n + 1]
  BY <1>0, <1>1 DEF Prefixed
<1>3. CASE ss = <<>>
  <2>1. n = 0 /\ FlattenSeq(ss) = <<>>
    BY <1>3 DEF FlattenSeq
  <2>2. FlattenSeq(tt) = s
    BY <2>1, <1>1, <1>2
  <2> QED
    BY <2>1, <2>2 DEF tt
<1>4. CASE ss # <<>>
  <2>1. n >= 1 /\ n + 1 \in 2..(n + 1)
    BY <1>4
  <2>0. PICK f : Prefixed(f, n, X, ss) /\ FlattenSeq(ss) = f[n]
    BY <1>4, FlattenDef
  <2>2. /\ f[1] = ss[1]
        /\ \A i \in 2..n : f[i] = f[i - 1] \o ss[i]
        /\ FlattenSeq(ss) = f[n]
    BY <2>0 DEF Prefixed
  <2> DEFINE G == {k \in 0..n : k = 0 \/ f[k] = g[k]}
  <2>3. 0 \in G
    BY <1>1
  <2>4. ASSUME NEW k \in 0..(n - 1), k \in G PROVE k + 1 \in G
    <3>1. CASE k = 0
      BY <3>1, <2>1, <2>2, <1>1, <1>2
    <3>2. CASE k # 0
      <4>1. k + 1 \in 2..n /\ k + 1 \in 2..(n + 1) /\ (k + 1) - 1 = k
        BY <3>2
      <4>2. f[k + 1] = f[k] \o ss[k + 1] /\ g[k + 1] = g[k] \o tt[k + 1]
        <5> HIDE DEF n
        <5> QED
          BY <4>1, <2>2, <1>2
      <4>3. f[k] = g[k] /\ tt[k + 1] = ss[k + 1]
        BY <4>1, <3>2, <2>4, <1>1
      <4>4. f[k + 1] = g[k + 1]
        BY <4>2, <4>3
      <4> QED
        BY <4>4
    <3> QED
      BY <3>1, <3>2
  <2>5. \A k \in 0..n : k \in G
    <3> HIDE DEF G, n
    <3> QED
      BY <1>1, <2>3, <2>4, InductionTo
  <2>6. f[n] = g[n]
    BY <2>1, <2>5
  <2>7. g[n + 1] = g[n] \o tt[n + 1]
    <3>1. (n + 1) - 1 = n
      BY <1>1
    <3> HIDE DEF n
    <3> QED
      BY <2>1, <3>1, <1>2
  <2> QED
    BY <2>2, <2>6, <2>7, <1>1, <1>2 DEF tt
<1> QED
  BY <1>3, <1>4

\* Every element of s is one of the sequences ss[lo], ..., ss[hi].
From(s, ss, lo, hi) ==
  \A k \in 1..Len(s) : \E j \in lo..hi : \E l \in 1..Len(ss[j]) :
    s[k] = ss[j][l]

\* From is kept when the next sequence is put at the end.
LEMMA FromConcat ==
  ASSUME NEW X, NEW ss \in Seq(Seq(X)), NEW s \in Seq(X), NEW lo \in Nat,
         NEW hi \in Nat, hi + 1 \in lo..Len(ss), lo >= 1, From(s, ss, lo, hi)
  PROVE  From(s \o ss[hi + 1], ss, lo, hi + 1)
<1> DEFINE t == ss[hi + 1]
           w == s \o t
<1>1. t \in Seq(X)
  OBVIOUS
<1>2. /\ w \in Seq(X) /\ Len(w) = Len(s) + Len(t)
      /\ \A i \in 1..Len(s) : w[i] = s[i]
      /\ \A i \in 1..Len(t) : w[Len(s) + i] = t[i]
  <2> HIDE DEF t
  <2> QED
    BY <1>1, ConcatAt
<1>3. Len(s) \in Nat /\ Len(t) \in Nat
  BY <1>1
<1> HIDE DEF w
<1>4. ASSUME NEW k \in 1..Len(w)
      PROVE  \E j \in lo..(hi + 1) : \E l \in 1..Len(ss[j]) : w[k] = ss[j][l]
  <2>1. CASE k <= Len(s)
    <3>1. k \in 1..Len(s)
      BY <2>1, <1>3, <1>2
    <3>2. PICK j \in lo..hi : \E l \in 1..Len(ss[j]) : s[k] = ss[j][l]
      BY <3>1 DEF From
    <3>3. j \in lo..(hi + 1)
      OBVIOUS
    <3> QED
      BY <3>1, <3>2, <3>3, <1>2
  <2>2. CASE k > Len(s)
    <3> DEFINE l == k - Len(s)
    <3>1. l \in 1..Len(t) /\ k = Len(s) + l
      BY <2>2, <1>2, <1>3
    <3>2. w[k] = t[l]
      BY <3>1, <1>2
    <3>3. hi + 1 \in lo..(hi + 1)
      OBVIOUS
    <3> HIDE DEF l
    <3> QED
      BY <3>1, <3>2, <3>3
  <2> QED
    BY <2>1, <2>2, <1>3
<1> QED
  BY <1>4 DEF From, w

\* The i-th sequence is in one piece in the flattened one: before it there are
\* only elements of earlier sequences, behind it of later ones.
LEMMA FlattenSplit ==
  ASSUME NEW X, NEW ss \in Seq(Seq(X)), NEW i \in 1..Len(ss)
  PROVE  \E p, q \in Seq(X) :
           /\ FlattenSeq(ss) = (p \o ss[i]) \o q
           /\ From(p, ss, 1, i - 1)
           /\ From(q, ss, i + 1, Len(ss))
<1> DEFINE n == Len(ss)
<1>1. ss # <<>> /\ n \in Nat /\ n >= 1 /\ i \in 1..n
      /\ \A j \in 1..n : ss[j] \in Seq(X)
  OBVIOUS
<1>0. PICK f : Prefixed(f, n, X, ss) /\ FlattenSeq(ss) = f[n]
  BY <1>1, FlattenDef
<1> HIDE DEF n
<1>2. /\ f \in [1..n -> Seq(X)]
      /\ f[1] = ss[1]
      /\ \A j \in 2..n : f[j] = f[j - 1] \o ss[j]
      /\ FlattenSeq(ss) = f[n]
  BY <1>0 DEF Prefixed
<1> DEFINE before == IF i = 1 THEN <<>> ELSE f[i - 1]
<1>3. \A k \in 1..(n - 1) : f[k + 1] = f[k] \o ss[k + 1]
  <2> TAKE k \in 1..(n - 1)
  <2>1. k + 1 \in 2..n /\ (k + 1) - 1 = k
    BY <1>1
  <2> QED
    BY <2>1, <1>2
<1>4. before \in Seq(X) /\ f[i] = before \o ss[i]
  <2>1. CASE i = 1
    <3>1. ss[i] \in Seq(X)
      BY <1>1
    <3>2. <<>> \o ss[i] = ss[i]
      BY <3>1
    <3> QED
      BY <2>1, <1>2, <3>2
  <2>2. CASE i # 1
    <3>1. i - 1 \in 1..(n - 1) /\ i - 1 \in 1..n /\ (i - 1) + 1 = i
      BY <2>2, <1>1
    <3> QED
      BY <3>1, <2>2, <1>2, <1>3
  <2> QED
    BY <2>1, <2>2
<1>5. From(before, ss, 1, i - 1)
  <2> DEFINE G == {k \in 0..n : k = 0 \/ From(f[k], ss, 1, k)}
  <2>1. 0 \in G
    BY <1>1
  <2>2. ASSUME NEW k \in 0..(n - 1), k \in G PROVE k + 1 \in G
    <3>1. CASE k = 0
      <4>1. From(f[1], ss, 1, 1)
        BY <1>1, <1>2 DEF From
      <4>2. 1 \in 0..n
        BY <1>1
      <4> QED
        BY <4>1, <4>2, <3>1
    <3>2. CASE k # 0
      <4>1. k \in 1..(n - 1) /\ k \in Nat /\ k + 1 \in 1..n /\ k \in 1..n
        BY <3>2, <1>1
      <4>2. From(f[k], ss, 1, k) /\ f[k] \in Seq(X)
        BY <4>1, <3>2, <2>2, <1>2
      <4>3. From(f[k] \o ss[k + 1], ss, 1, k + 1)
        BY <4>1, <4>2, FromConcat DEF n
      <4>4. From(f[k + 1], ss, 1, k + 1)
        BY <4>1, <4>3, <1>3
      <4> QED
        BY <4>1, <4>4
    <3> QED
      BY <3>1, <3>2
  <2>3. \A k \in 0..n : k \in G
    <3> HIDE DEF G
    <3> QED
      BY <1>1, <2>1, <2>2, InductionTo
  <2>4. CASE i = 1
    BY <2>4 DEF From
  <2>5. CASE i # 1
    <3>1. i - 1 \in 0..n /\ i - 1 # 0
      BY <2>5, <1>1
    <3>2. From(f[i - 1], ss, 1, i - 1)
      BY <3>1, <2>3
    <3> QED
      BY <3>2, <2>5
  <2> QED
    BY <2>4, <2>5
<1> HIDE DEF before
<1> DEFINE Splits(k) == \E q \in Seq(X) : /\ f[k] = (before \o ss[i]) \o q
                                          /\ From(q, ss, i + 1, k)
           H == {k \in 0..n : k < i \/ Splits(k)}
<1>6. 0 \in H
  BY <1>1
<1>7. ASSUME NEW k \in 0..(n - 1), k \in H PROVE k + 1 \in H
  <2>0. k + 1 \in 0..n
    BY <1>1
  <2>1. CASE k + 1 < i
    <3> HIDE DEF Splits
    <3> QED
      BY <2>0, <2>1
  <2>2. CASE k + 1 = i
    <3>1. ss[i] \in Seq(X) /\ before \o ss[i] \in Seq(X)
      BY <1>1, <1>4, ConcatAt
    <3>2. (before \o ss[i]) \o <<>> = before \o ss[i]
      BY <3>1
    <3>3. From(<<>>, ss, i + 1, i)
      BY DEF From
    <3>4. <<>> \in Seq(X) /\ f[i] = (before \o ss[i]) \o <<>>
      BY <3>2, <1>4
    <3>5. Splits(i)
      BY <3>3, <3>4
    <3> HIDE DEF Splits
    <3> QED
      BY <3>5, <2>0, <2>2
  <2>3. CASE k + 1 > i
    <3>1. k \in Nat /\ ~(k < i) /\ k \in 1..(n - 1) /\ k + 1 \in 1..n
          /\ i + 1 \in Nat /\ k + 1 \in (i + 1)..n
      BY <2>3, <1>1
    <3>2. PICK q \in Seq(X) : /\ f[k] = (before \o ss[i]) \o q
                              /\ From(q, ss, i + 1, k)
      BY <3>1, <1>7
    <3>3. From(q \o ss[k + 1], ss, i + 1, k + 1)
      BY <3>1, <3>2, FromConcat DEF n
    <3>4. ss[i] \in Seq(X) /\ ss[k + 1] \in Seq(X)
      BY <3>1, <1>1
    <3>5. before \o ss[i] \in Seq(X) /\ q \o ss[k + 1] \in Seq(X)
      BY <3>4, <1>4, ConcatAt
    <3>6. f[k + 1] = (before \o ss[i]) \o (q \o ss[k + 1])
      <4> DEFINE b == before \o ss[i]
                 t == ss[k + 1]
      <4>1. b \in Seq(X) /\ t \in Seq(X) /\ q \in Seq(X)
        BY <3>4, <3>5
      <4>2. f[k + 1] = (b \o q) \o t
        BY <3>1, <3>2, <1>3
      <4> HIDE DEF b, t
      <4>3. (b \o q) \o t = b \o (q \o t)
        BY <4>1
      <4> QED
        BY <4>2, <4>3 DEF b, t
    <3>7. Splits(k + 1)
      BY <3>3, <3>5, <3>6
    <3> HIDE DEF Splits
    <3> QED
      BY <3>7, <2>0
  <2>4. k + 1 < i \/ k + 1 = i \/ k + 1 > i
    BY <1>1
  <2> HIDE DEF H
  <2> QED
    BY <2>1, <2>2, <2>3, <2>4
<1>8. \A k \in 0..n : k \in H
  <2> HIDE DEF H
  <2> QED
    BY <1>1, <1>6, <1>7, InductionTo
<1>9. Splits(n)
  <2>1. n \in 0..n /\ ~(n < i)
    BY <1>1
  <2> HIDE DEF Splits
  <2> QED
    BY <2>1, <1>8
<1> QED
  BY <1>2, <1>4, <1>5, <1>9 DEF n

\* Every element of the flattened sequence is one of some sequence.
LEMMA FlattenFrom ==
  ASSUME NEW X, NEW ss \in Seq(Seq(X))
  PROVE  From(FlattenSeq(ss), ss, 1, Len(ss))
<1> DEFINE n == Len(ss)
<1>1. CASE ss = <<>>
  <2>1. Len(FlattenSeq(ss)) = 0
    BY <1>1 DEF FlattenSeq
  <2> QED
    BY <2>1 DEF From
<1>2. CASE ss # <<>>
  <2>1. n \in Nat /\ n >= 1 /\ n \in 1..n /\ ss[n] \in Seq(X)
    BY <1>2
  <2>2. PICK p, q \in Seq(X) : /\ FlattenSeq(ss) = (p \o ss[n]) \o q
                              /\ From(p, ss, 1, n - 1)
                              /\ From(q, ss, n + 1, n)
    BY <2>1, FlattenSplit
  <2>3. q = <<>>
    <3>1. \A k \in 1..Len(q) : FALSE
      BY <2>1, <2>2 DEF From
    <3> QED
      BY <3>1
  <2>4. p \o ss[n] \in Seq(X)
    BY <2>1, ConcatAt
  <2>5. FlattenSeq(ss) = p \o ss[n]
    <3> DEFINE b == p \o ss[n]
    <3>1. b \in Seq(X) /\ FlattenSeq(ss) = b \o <<>>
      BY <2>2, <2>3, <2>4
    <3> HIDE DEF b
    <3>2. b \o <<>> = b
      BY <3>1
    <3> QED
      BY <3>1, <3>2 DEF b
  <2> DEFINE m == n - 1
  <2>6. m \in Nat /\ m + 1 = n
    BY <2>1
  <2>7. From(p, ss, 1, m)
    BY <2>2
  <2> HIDE DEF m
  <2>8. From(p \o ss[m + 1], ss, 1, m + 1)
    BY <2>1, <2>6, <2>7, FromConcat
  <2> QED
    BY <2>5, <2>6, <2>8
<1> QED
  BY <1>1, <1>2

-----------------------------------------------------------------------------
\* Min of a non-empty set of naturals is its least element.
LEMMA MinIsLeast ==
  ASSUME NEW T, T \subseteq Nat, T # {}
  PROVE  Min(T) \in T /\ \A m \in T : Min(T) <= m
BY LeastElement DEF Min

\* A new element at the end.
LEMMA AppendNew ==
  ASSUME NEW X, NEW q \in Seq(X), NEW e \in X, \A i \in 1..Len(q) : q[i] # e,
         \A i, j \in 1..Len(q) : q[i] = q[j] => i = j
  PROVE  LET r == Append(q, e)
         IN  /\ r \in Seq(X)
             /\ \A i, j \in 1..Len(r) : r[i] = r[j] => i = j
             /\ \A x : (\E i \in 1..Len(r) : r[i] = x)
                         <=> x = e \/ \E i \in 1..Len(q) : q[i] = x
<1> DEFINE n == Len(q)
           r == Append(q, e)
<1>1. /\ n \in Nat /\ r \in Seq(X) /\ Len(r) = n + 1 /\ r[n + 1] = e
      /\ \A i \in 1..n : r[i] = q[i]
  OBVIOUS
<1> HIDE DEF r
<1>2. \A i \in 1..Len(r) : i = n + 1 \/ i \in 1..n
  BY <1>1
<1>3. n + 1 \in 1..Len(r) /\ \A i \in 1..n : i \in 1..Len(r)
  BY <1>1
<1>4. ASSUME NEW i \in 1..Len(r), NEW j \in 1..Len(r), r[i] = r[j] PROVE i = j
  BY <1>1, <1>2, <1>4
<1>5. ASSUME NEW x
      PROVE  (\E i \in 1..Len(r) : r[i] = x)
                <=> x = e \/ \E i \in 1..n : q[i] = x
  <2>1. ASSUME NEW i \in 1..Len(r), r[i] = x
        PROVE  x = e \/ \E j \in 1..n : q[j] = x
    BY <2>1, <1>1, <1>2
  <2>2. ASSUME x = e PROVE \E i \in 1..Len(r) : r[i] = x
    BY <2>2, <1>1, <1>3
  <2>3. ASSUME NEW i \in 1..n, q[i] = x PROVE \E j \in 1..Len(r) : r[j] = x
    BY <2>3, <1>1, <1>3
  <2> QED
    BY <2>1, <2>2, <2>3
<1> QED
  BY <1>1, <1>4, <1>5 DEF r

\* RemoveFirst takes out an element that is there once, and no other.
LEMMA RemoveFirstOnce ==
  ASSUME NEW X, NEW q \in Seq(X), NEW e,
         \A i, j \in 1..Len(q) : q[i] = q[j] => i = j
  PROVE  LET r == RemoveFirst(q, e)
         IN  /\ r \in Seq(X)
             /\ \A i, j \in 1..Len(r) : r[i] = r[j] => i = j
             /\ \A x \in X : (\E i \in 1..Len(r) : r[i] = x)
                              <=> x # e /\ \E i \in 1..Len(q) : q[i] = x
<1> DEFINE n == Len(q)
           r == RemoveFirst(q, e)
<1>1. n \in Nat /\ \A i \in 1..n : q[i] \in X
  OBVIOUS
<1>2. CASE ~ \E i \in 1..n : q[i] = e
  BY <1>2 DEF RemoveFirst
<1>3. CASE \E i \in 1..n : q[i] = e
  <2> DEFINE T == {i \in 1..n : q[i] = e}
             k == Min(T)
             a == SubSeq(q, 1, k - 1)
             b == SubSeq(q, k + 1, n)
  <2>1. k \in 1..n /\ q[k] = e
    <3>1. T \subseteq Nat /\ T # {}
      BY <1>3
    <3>2. k \in T
      <4> HIDE DEF T
      <4> QED
        BY <3>1, MinIsLeast
    <3> QED
      BY <3>2
  <2>2. r = a \o b
    BY <1>3 DEF RemoveFirst, RemoveAt, SelectInSeq
  <2> HIDE DEF k, r
  <2>3. /\ a \in Seq(X) /\ Len(a) = k - 1
        /\ \A i \in 1..(k - 1) : a[i] = q[i]
    BY <2>1
  <2>4. /\ b \in Seq(X) /\ Len(b) = n - k
        /\ \A i \in 1..(n - k) : b[i] = q[k + i]
    BY <2>1
  <2> HIDE DEF a, b
  <2>5. /\ r \in Seq(X) /\ Len(r) = (k - 1) + (n - k)
        /\ \A i \in 1..(k - 1) : r[i] = a[i]
        /\ \A i \in 1..(n - k) : r[(k - 1) + i] = b[i]
    <3>1. /\ r \in Seq(X) /\ Len(r) = Len(a) + Len(b)
          /\ \A i \in 1..Len(a) : r[i] = a[i]
          /\ \A i \in 1..Len(b) : r[Len(a) + i] = b[i]
      <4>1. a \in Seq(X) /\ b \in Seq(X)
        BY <2>3, <2>4
      <4>2. /\ a \o b \in Seq(X) /\ Len(a \o b) = Len(a) + Len(b)
            /\ \A i \in 1..Len(a) : (a \o b)[i] = a[i]
            /\ \A i \in 1..Len(b) : (a \o b)[Len(a) + i] = b[i]
        BY ONLY <4>1
      <4> QED
        BY <4>2, <2>2
    <3> QED
      BY <3>1, <2>3, <2>4
  <2>6. Len(r) = n - 1
    BY <2>1, <2>5, <1>1
  <2>7. \A i \in 1..(n - 1) : r[i] = IF i < k THEN q[i] ELSE q[i + 1]
    <3> TAKE i \in 1..(n - 1)
    <3>1. CASE i < k
      <4>1. i \in 1..(k - 1)
        BY <3>1, <2>1, <1>1
      <4> QED
        BY <4>1, <3>1, <2>3, <2>5
    <3>2. CASE i >= k
      <4> DEFINE l == i - (k - 1)
      <4>1. l \in 1..(n - k) /\ i = (k - 1) + l /\ k + l = i + 1 /\ ~(i < k)
        BY <3>2, <2>1, <1>1
      <4> HIDE DEF l
      <4> QED
        BY <4>1, <2>4, <2>5
    <3> QED
      BY <3>1, <3>2, <2>1, <1>1
  <2> HIDE DEF n
  <2>8. \A i, j \in 1..(n - 1) : r[i] = r[j] => i = j
    <3> SUFFICES ASSUME NEW i \in 1..(n - 1), NEW j \in 1..(n - 1), r[i] = r[j]
                 PROVE  i = j
      OBVIOUS
    <3> DEFINE at(m) == IF m < k THEN m ELSE m + 1
    <3>1. at(i) \in 1..n /\ at(j) \in 1..n
      BY <1>1, <2>1
    <3>2. r[i] = q[at(i)] /\ r[j] = q[at(j)]
      BY <2>7
    <3>3. at(i) = at(j)
      <4> HIDE DEF at
      <4> QED
        BY <3>1, <3>2 DEF n
    <3> QED
      BY <3>3, <1>1, <2>1
  <2>9. ASSUME NEW i \in 1..(n - 1)
        PROVE  r[i] # e /\ \E j \in 1..n : q[j] = r[i]
    <3> DEFINE at == IF i < k THEN i ELSE i + 1
    <3>1. at \in 1..n /\ at # k
      BY <1>1, <2>1
    <3>2. r[i] = q[at]
      BY <2>7
    <3> HIDE DEF at
    <3>3. q[at] # e
      BY <3>1, <2>1 DEF n
    <3> QED
      BY <3>1, <3>2, <3>3
  <2>10. ASSUME NEW j \in 1..n, q[j] # e
         PROVE  \E i \in 1..(n - 1) : r[i] = q[j]
    <3>1. j # k
      BY <2>10, <2>1
    <3>2. CASE j < k
      <4>1. j \in 1..(n - 1)
        BY <3>2, <2>1, <1>1
      <4> QED
        BY <4>1, <3>2, <2>7
    <3>3. CASE j > k
      <4>1. j - 1 \in 1..(n - 1) /\ ~(j - 1 < k) /\ (j - 1) + 1 = j
        BY <3>3, <2>1, <1>1
      <4>2. r[j - 1] = q[j]
        BY <4>1, <2>7
      <4> QED
        BY <4>1, <4>2
    <3> QED
      BY <3>1, <3>2, <3>3, <2>1, <1>1
  <2>11. \A x : (\E i \in 1..Len(r) : r[i] = x)
                  <=> x # e /\ \E i \in 1..n : q[i] = x
    BY <2>6, <2>9, <2>10
  <2> QED
    BY <2>5, <2>6, <2>8, <2>11 DEF n, r
<1> QED
  BY <1>2, <1>3

\* An order of a finite set names each of its elements, once.
LEMMA OrderNamesAll ==
  ASSUME NEW S, IsFiniteSet(S), NEW o \in SetToSeqs(S)
  PROVE  /\ o \in Seq(S)
         /\ \A x \in S : \E i \in 1..Len(o) : o[i] = x
         /\ \A i, j \in 1..Len(o) : o[i] = o[j] => i = j
<1> DEFINE n == Cardinality(S)
<1>1. n \in Nat
  BY FS_CardinalityType
<1>2. o \in [1..n -> S] /\ \A i, j \in 1..n : o[i] = o[j] => i = j
  BY DEF SetToSeqs
<1>3. o \in Injection(1..n, S)
  BY <1>2 DEF Injection, IsInjective
<1>4. Cardinality(1..n) = n
  BY <1>1, FS_Interval
<1>5. o \in Surjection(1..n, S)
  BY <1>3, <1>4, FS_Injection
<1> HIDE DEF n
<1>6. o \in Seq(S) /\ Len(o) = n
  BY <1>1, <1>2
<1>7. \A x \in S : \E i \in 1..n : o[i] = x
  BY <1>5 DEF Surjection
<1> QED
  BY <1>2, <1>6, <1>7

\* Two sequences of one element each.
LEMMA PairConcat ==
  ASSUME NEW X, NEW a \in X, NEW b \in X
  PROVE  <<a>> \o <<b>> = <<a, b>>
<1> DEFINE s == <<a>>
           t == <<b>>
           u == s \o t
           v == <<a, b>>
<1>1. s \in Seq(X) /\ t \in Seq(X) /\ Len(s) = 1 /\ Len(t) = 1 /\ s[1] = a /\ t[1] = b
  OBVIOUS
<1>2. v \in Seq(X) /\ Len(v) = 2 /\ v[1] = a /\ v[2] = b
  OBVIOUS
<1> HIDE DEF s, t, v
<1>3. u \in Seq(X) /\ Len(u) = 2
  BY <1>1, ConcatAt
<1>4. u[1] = a /\ u[2] = b
  <2>1. 1 \in 1..Len(s) /\ 1 \in 1..Len(t) /\ Len(s) + 1 = 2
    BY <1>1
  <2> QED
    BY <1>1, <2>1, ConcatAt
<1> HIDE DEF u
<1>5. \A i \in 1..2 : i = 1 \/ i = 2
  OBVIOUS
<1>6. \A i \in 1..Len(u) : u[i] = v[i]
  BY <1>2, <1>3, <1>4, <1>5
<1>7. u = v
  BY <1>2, <1>3, <1>6, SeqEqual
<1> QED
  BY <1>7 DEF s, t, u, v

\* The greatest of some indices.
LEMMA GreatestIndex ==
  ASSUME NEW n \in Nat, NEW T \in SUBSET (1..n), T # {}
  PROVE  \E i \in T : \A j \in T : j <= i
<1> DEFINE U == {n - i : i \in T}
<1>1. U \subseteq Nat /\ U # {}
  <2>1. \A i \in 1..n : n - i \in Nat
    OBVIOUS
  <2> QED
    BY <2>1
<1>2. PICK u \in U : \A w \in U : u <= w
  <2> HIDE DEF U
  <2> QED
    BY <1>1, LeastElement
<1>3. PICK i \in T : u = n - i
  BY <1>2
<1>4. \A j \in T : n - i <= n - j
  BY <1>2, <1>3
<1> QED
  BY <1>3, <1>4
=============================================================================
