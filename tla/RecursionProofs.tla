-------------------------- MODULE RecursionProofs --------------------------
(***************************************************************************)
(* Induction over the natural numbers, functions defined by recursion over *)
(* them, and sequences joined one after the other, which the models need   *)
(* for numbers, results and lists.  All of it comes from one fact: a set   *)
(* of natural numbers that is not empty has a least element.               *)
(***************************************************************************)
EXTENDS Integers, Sequences, SequencesExt, TLAPS, WellFoundedInduction, SequenceTheorems

LEMMA LeastElement ==
  ASSUME NEW T \in SUBSET Nat, T # {}
  PROVE  \E n \in T : \A m \in T : n <= m
<1> DEFINE less == OpToRel(<, Nat)
<1>1. IsWellFoundedOn(less, Nat)
  BY NatLessThanWellFounded
<1>2. \E n \in T : \A m \in T : ~(<<m, n>> \in less)
  <2> HIDE DEF less
  <2> QED
    BY <1>1, WFMin
<1>3. \A m, n \in Nat : m < n => <<m, n>> \in less
  BY DEF OpToRel
<1> HIDE DEF less
<1>4. PICK n \in T : \A m \in T : ~(<<m, n>> \in less)
  BY <1>2
<1>5. ASSUME NEW m \in T PROVE n <= m
  <2>1. m \in Nat /\ n \in Nat
    OBVIOUS
  <2>2. ~(m < n)
    BY <1>3, <1>4, <2>1
  <2> QED
    BY <2>1, <2>2
<1> QED
  BY <1>5

LEMMA Induction ==
  ASSUME NEW S, 0 \in S, \A n \in Nat : n \in S => n + 1 \in S
  PROVE  Nat \subseteq S
<1> SUFFICES ASSUME Nat \ S # {} PROVE FALSE
  OBVIOUS
<1>1. PICK n \in Nat \ S : \A m \in Nat \ S : n <= m
  BY LeastElement
<1>2. n - 1 \in Nat /\ n - 1 \in S
  BY <1>1
<1>3. (n - 1) + 1 \in S
  BY <1>2
<1> QED
  BY <1>1, <1>3

\* A function on the natural numbers may be given by its first value and by what
\* each value makes of the next.
Iterates(f, S, a, g) ==
  /\ f \in [Nat -> S]
  /\ f[0] = a
  /\ \A n \in Nat : f[n + 1] = g[n][f[n]]

LEMMA Recursion ==
  ASSUME NEW S, NEW a \in S, NEW g \in [Nat -> [S -> S]]
  PROVE  \E f : Iterates(f, S, a, g)
<1> DEFINE Part(n, h) ==
             /\ h \in [0..n -> S] /\ h[0] = a
             /\ \A i \in 0..(n - 1) : h[i + 1] = g[i][h[i]]
           Exists == {n \in Nat : \E h : Part(n, h)}
<1>1. \A n \in Nat : \E h : Part(n, h)
  <2>1. 0 \in Exists
    <3>1. Part(0, [i \in 0..0 |-> a])
      OBVIOUS
    <3> QED
      BY <3>1
  <2>2. ASSUME NEW n \in Nat, n \in Exists PROVE n + 1 \in Exists
    <3>1. PICK h : Part(n, h)
      BY <2>2
    <3> DEFINE k == [i \in 0..(n + 1) |-> IF i <= n THEN h[i] ELSE g[n][h[n]]]
    <3>2. h[n] \in S /\ g[n][h[n]] \in S
      BY <3>1
    <3>3. k \in [0..(n + 1) -> S]
      BY <3>1, <3>2
    <3>4. \A i \in 0..((n + 1) - 1) : k[i + 1] = g[i][k[i]]
      BY <3>1
    <3>5. k[0] = a
      BY <3>1
    <3>6. Part(n + 1, k)
      BY <3>3, <3>4, <3>5
    <3> HIDE DEF Part, k
    <3> QED
      BY <3>6
  <2>3. Nat \subseteq Exists
    <3> HIDE DEF Exists
    <3> QED
      BY <2>1, <2>2, Induction
  <2> QED
    BY <2>3
<1>2. ASSUME NEW m \in Nat, NEW n \in Nat, m <= n, NEW h, NEW k, Part(m, h), Part(n, k)
      PROVE  h[m] = k[m]
  <2> DEFINE Same == {i \in Nat : i <= m => h[i] = k[i]}
  <2>1. 0 \in Same
    BY <1>2
  <2>2. ASSUME NEW i \in Nat, i \in Same PROVE i + 1 \in Same
    <3> SUFFICES ASSUME i + 1 <= m PROVE h[i + 1] = k[i + 1]
      OBVIOUS
    <3>1. h[i] = k[i] /\ i \in 0..(m - 1) /\ i \in 0..(n - 1)
      BY <1>2, <2>2
    <3> QED
      BY <1>2, <3>1
  <2>3. Nat \subseteq Same
    <3> HIDE DEF Same
    <3> QED
      BY <2>1, <2>2, Induction
  <2> QED
    BY <2>3
<1> DEFINE Approx(n) == CHOOSE h : Part(n, h)
           f == [n \in Nat |-> Approx(n)[n]]
<1>3. ASSUME NEW n \in Nat PROVE Part(n, Approx(n))
  <2> HIDE DEF Part
  <2> QED
    BY <1>1
<1> HIDE DEF Approx
<1>4. f \in [Nat -> S]
  BY <1>3
<1>5. f[0] = a
  BY <1>3
<1>6. ASSUME NEW n \in Nat PROVE f[n + 1] = g[n][f[n]]
  <2>1. Part(n, Approx(n)) /\ Part(n + 1, Approx(n + 1))
    <3> HIDE DEF Part
    <3> QED
      BY <1>3
  <2>2. Approx(n)[n] = Approx(n + 1)[n]
    <3>1. n + 1 \in Nat /\ n <= n + 1
      OBVIOUS
    <3> HIDE DEF Part
    <3> QED
      BY <1>2, <2>1, <3>1
  <2>3. Approx(n + 1)[n + 1] = g[n][Approx(n + 1)[n]]
    BY <2>1
  <2> QED
    BY <2>2, <2>3
<1> HIDE DEF f
<1>7. Iterates(f, S, a, g)
  BY <1>4, <1>5, <1>6 DEF Iterates
<1> QED
  BY <1>7

----------------------------------------------------------------------------
(* Division.                                                               *)

LEMMA Division ==
  ASSUME NEW a \in Nat, NEW m \in Nat \ {0}
  PROVE  /\ a \div m \in Nat /\ a % m \in Nat
         /\ a = m * (a \div m) + (a % m)
         /\ a % m < m
OBVIOUS

LEMMA Quotient ==
  ASSUME NEW m \in Nat \ {0}, NEW q \in Nat, NEW r \in Nat, r < m
  PROVE  /\ (m * q + r) \div m = q
         /\ (m * q + r) % m = r
<1>1. (m * q + r) \div m = q
  BY Z3
<1>2. (m * q + r) % m = r
  BY <1>1, Z3
<1> QED
  BY <1>1, <1>2

LEMMA QuotientOfLess ==
  ASSUME NEW m \in Nat \ {0}, NEW a \in Nat, a < m
  PROVE  a \div m = 0 /\ a % m = a
<1>1. (m * 0 + a) \div m = 0 /\ (m * 0 + a) % m = a
  BY Quotient
<1>2. m * 0 + a = a
  OBVIOUS
<1> QED
  BY <1>1, <1>2

----------------------------------------------------------------------------
(* Sequences built step by step.                                           *)

\* f is built from a by the steps h.
Builds(f, T, a, n, h) ==
  /\ f \in [0..n -> T]
  /\ f[0] = a
  /\ \A i \in 1..n : f[i] = h[i][f[i - 1]]

LEMMA Building ==
  ASSUME NEW T, NEW a \in T, NEW n \in Nat, NEW h \in [1..n -> [T -> T]]
  PROVE  \E f : Builds(f, T, a, n, h)
<1> DEFINE g == [m \in Nat |-> IF m + 1 \in 1..n THEN h[m + 1] ELSE [x \in T |-> x]]
<1>1. g \in [Nat -> [T -> T]]
  OBVIOUS
<1>2. PICK f : Iterates(f, T, a, g)
  <2> HIDE DEF g
  <2> QED
    BY <1>1, Recursion
<1> DEFINE r == [i \in 0..n |-> f[i]]
<1>3. ASSUME NEW i \in 1..n PROVE r[i] = h[i][r[i - 1]]
  <2>1. i - 1 \in Nat /\ (i - 1) + 1 = i /\ i \in 0..n /\ i - 1 \in 0..n
    OBVIOUS
  <2>2. f[(i - 1) + 1] = g[i - 1][f[i - 1]]
    BY <1>2, <2>1 DEF Iterates
  <2>3. g[i - 1] = h[i]
    BY <2>1
  <2> HIDE DEF g
  <2> QED
    BY <2>1, <2>2, <2>3
<1>4. r \in [0..n -> T] /\ r[0] = a
  BY <1>2 DEF Iterates
<1> HIDE DEF r
<1> QED
  BY <1>3, <1>4 DEF Builds

Follows(g, T, a, n, h) ==
  /\ g[0] = a
  /\ \A i \in 1..n : g[i - 1] \in T => g[i] = h[i][g[i - 1]]

Same(f, g, n) == \A i \in 0..n : g[i] = f[i]

\* Whatever begins and goes on like it is the same.
LEMMA BuildingIsUnique ==
  ASSUME NEW T, NEW a, NEW n \in Nat, NEW h, NEW f, Builds(f, T, a, n, h),
         NEW g, Follows(g, T, a, n, h)
  PROVE  Same(f, g, n)
<1> DEFINE Q == {i \in Nat : i <= n => g[i] = f[i]}
<1>1. 0 \in Q
  BY DEF Builds, Follows
<1>2. ASSUME NEW i \in Nat, i \in Q PROVE i + 1 \in Q
  <2> SUFFICES ASSUME i + 1 <= n PROVE g[i + 1] = f[i + 1]
    OBVIOUS
  <2>1. i + 1 \in 1..n /\ (i + 1) - 1 = i /\ i \in 0..n /\ g[i] = f[i]
    BY <1>2
  <2>2. f[i] \in T /\ f[i + 1] = h[i + 1][f[i]]
    BY <2>1 DEF Builds
  <2> QED
    BY <2>1, <2>2 DEF Follows
<1>3. Nat \subseteq Q
  <2> HIDE DEF Q
  <2> QED
    BY <1>1, <1>2, Induction
<1> QED
  BY <1>3 DEF Same

\* Sequences joined one after the other.
Joins(seqs, S) == [i \in 1..Len(seqs) |-> [s \in Seq(S) |-> s \o seqs[i]]]

UpTo(seqs, S) == CHOOSE f : Builds(f, Seq(S), <<>>, Len(seqs), Joins(seqs, S))

LEMMA Joining ==
  ASSUME NEW S, NEW seqs \in Seq(Seq(S))
  PROVE  /\ Builds(UpTo(seqs, S), Seq(S), <<>>, Len(seqs), Joins(seqs, S))
         /\ UpTo(seqs, S) \in [0..Len(seqs) -> Seq(S)]
         /\ UpTo(seqs, S)[0] = <<>>
         /\ \A i \in 1..Len(seqs) : UpTo(seqs, S)[i] = UpTo(seqs, S)[i - 1] \o seqs[i]
<1> DEFINE n == Len(seqs)
           T == Seq(S)
           h == Joins(seqs, S)
           none == <<>>
           f == UpTo(seqs, S)
<1>1. n \in Nat /\ \A i \in 1..n : seqs[i] \in Seq(S)
  OBVIOUS
<1>2. h \in [1..n -> [T -> T]]
  BY <1>1 DEF Joins
<1>3. none \in T
  OBVIOUS
<1>4. Builds(f, T, none, n, h)
  <2>1. \E g : Builds(g, T, none, n, h)
    <3> HIDE DEF T, h, none, n
    <3> QED
      BY <1>1, <1>2, <1>3, Building
  <2> QED
    BY <2>1 DEF UpTo
<1>5. f \in [0..n -> T] /\ f[0] = <<>> /\ \A i \in 1..n : f[i] = h[i][f[i - 1]]
  BY <1>4 DEF Builds
<1>6. ASSUME NEW i \in 1..n PROVE f[i] = f[i - 1] \o seqs[i]
  <2>1. i - 1 \in 0..n
    BY <1>1
  <2> HIDE DEF f
  <2>2. f[i - 1] \in Seq(S)
    BY <1>5, <2>1
  <2>3. h[i][f[i - 1]] = f[i - 1] \o seqs[i]
    BY <2>2 DEF Joins
  <2> QED
    BY <1>5, <2>3
<1> QED
  BY <1>4, <1>5, <1>6

LEMMA FlatIsJoined ==
  ASSUME NEW S, NEW seqs \in Seq(Seq(S))
  PROVE  FlattenSeq(seqs) = UpTo(seqs, S)[Len(seqs)]
<1> DEFINE n == Len(seqs)
           f == UpTo(seqs, S)
           step(g) == [i \in 1..n |-> IF i = 1 THEN seqs[i] ELSE g[i - 1] \o seqs[i]]
           flatten == CHOOSE g : g = step(g)
<1>1. n \in Nat /\ \A i \in 1..n : seqs[i] \in Seq(S)
  OBVIOUS
<1>2. f \in [0..n -> Seq(S)] /\ f[0] = <<>> /\ \A i \in 1..n : f[i] = f[i - 1] \o seqs[i]
  BY Joining
<1>3. CASE n = 0
  BY <1>2, <1>3 DEF FlattenSeq
<1>4. CASE n # 0
  <2>1. FlattenSeq(seqs) = flatten[n]
    BY <1>4 DEF FlattenSeq
  <2>2. flatten = step(flatten)
    <3> DEFINE r == [i \in 1..n |-> f[i]]
    <3> HIDE DEF f
    <3>1. ASSUME NEW i \in 1..n, i = 1 PROVE r[i] = seqs[i]
      <4>1. 1 \in 1..n /\ f[1] = f[1 - 1] \o seqs[1] /\ seqs[1] \in Seq(S)
        BY <1>1, <1>2, <3>1
      <4>2. f[1 - 1] = <<>>
        BY <1>2
      <4> QED
        BY <3>1, <4>1, <4>2
    <3>2. ASSUME NEW i \in 1..n, i # 1 PROVE r[i] = r[i - 1] \o seqs[i]
      <4>1. i - 1 \in 1..n
        BY <1>1, <3>2
      <4> QED
        BY <1>2, <4>1
    <3> HIDE DEF r
    <3>3. \A i \in 1..n : r[i] = IF i = 1 THEN seqs[i] ELSE r[i - 1] \o seqs[i]
      BY <3>1, <3>2
    <3>4. r = [i \in 1..n |-> r[i]]
      BY DEF r
    <3>5. r = step(r)
      BY <3>3, <3>4
    <3> HIDE DEF step
    <3> QED
      BY <3>5
  <2> HIDE DEF flatten, f
  <2>3. ASSUME NEW i \in 1..n
        PROVE  flatten[i] = IF i = 1 THEN seqs[i] ELSE flatten[i - 1] \o seqs[i]
    BY <2>2
  <2> DEFINE g == [i \in 0..n |-> IF i = 0 THEN <<>> ELSE flatten[i]]
  <2>4. ASSUME NEW i \in 1..n, g[i - 1] \in Seq(S) PROVE g[i] = Joins(seqs, S)[i][g[i - 1]]
    <3>1. i \in 0..n /\ i - 1 \in 0..n /\ g[i] = flatten[i]
      BY <1>1
    <3>2. Joins(seqs, S)[i][g[i - 1]] = g[i - 1] \o seqs[i]
      BY <2>4 DEF Joins
    <3>3. CASE i = 1
      <4>1. g[i - 1] = <<>> /\ seqs[i] \in Seq(S)
        BY <1>1, <3>1, <3>3
      <4>2. g[i - 1] \o seqs[i] = seqs[i]
        <5> HIDE DEF g
        <5> QED
          BY <4>1
      <4> QED
        BY <2>3, <3>1, <3>2, <3>3, <4>2
    <3>4. CASE i # 1
      <4>1. g[i - 1] = flatten[i - 1]
        BY <1>1, <3>1, <3>4
      <4> QED
        BY <2>3, <3>1, <3>2, <3>4, <4>1
    <3> QED
      BY <3>3, <3>4
  <2>5. g[0] = <<>> /\ g[n] = flatten[n] /\ n \in 0..n
    BY <1>1, <1>4
  <2> HIDE DEF g
  <2>6. Builds(f, Seq(S), <<>>, n, Joins(seqs, S))
    BY Joining DEF f
  <2>7. Same(f, g, n)
    <3> DEFINE T == Seq(S)
               none == <<>>
               h == Joins(seqs, S)
    <3>1. n \in Nat /\ Builds(f, T, none, n, h) /\ Follows(g, T, none, n, h)
      BY <1>1, <2>4, <2>5, <2>6 DEF Follows
    <3> HIDE DEF n, T, none, h
    <3> QED
      BY <3>1, BuildingIsUnique
  <2> QED
    BY <2>1, <2>5, <2>7 DEF f, Same
<1> QED
  BY <1>3, <1>4

\* The beginning of a sequence.
LEMMA PrefixIsBeginning ==
  ASSUME NEW S, NEW s \in Seq(S), NEW t \in Seq(S)
  PROVE  IsPrefix(s, t) <=> Len(s) <= Len(t) /\ \A i \in 1..Len(s) : s[i] = t[i]
<1>1. CASE Len(s) <= Len(t)
  <2> DEFINE u == SubSeq(t, 1, Len(s))
  <2>1. SubSeq(s, 1, Len(s)) = s
    OBVIOUS
  <2>2. u \in Seq(S) /\ Len(u) = Len(s) /\ \A i \in 1..Len(s) : u[i] = t[i]
    BY <1>1
  <2> HIDE DEF u
  <2>3. s = u <=> \A i \in 1..Len(s) : s[i] = u[i]
    BY <2>2, SeqEqual
  <2> QED
    BY <1>1, <2>1, <2>2, <2>3 DEF IsPrefix, u
<1>2. CASE ~(Len(s) <= Len(t))
  BY <1>2 DEF IsPrefix
<1> QED
  BY <1>1, <1>2

LEMMA PrefixOfItself ==
  ASSUME NEW S, NEW s \in Seq(S)
  PROVE  IsPrefix(s, s)
BY PrefixIsBeginning

LEMMA PrefixOfLonger ==
  ASSUME NEW S, NEW s \in Seq(S), NEW t \in Seq(S)
  PROVE  IsPrefix(s, s \o t)
<1> DEFINE u == s \o t
<1>1. u \in Seq(S) /\ Len(s) <= Len(u) /\ \A i \in 1..Len(s) : s[i] = u[i]
  OBVIOUS
<1> HIDE DEF u
<1>2. IsPrefix(s, u)
  BY <1>1, PrefixIsBeginning
<1> QED
  BY <1>2 DEF u

LEMMA PrefixOfPrefix ==
  ASSUME NEW S, NEW s \in Seq(S), NEW t \in Seq(S), NEW u \in Seq(S),
         IsPrefix(s, t), IsPrefix(t, u)
  PROVE  IsPrefix(s, u)
<1>1. /\ Len(s) <= Len(t) /\ \A i \in 1..Len(s) : s[i] = t[i]
      /\ Len(t) <= Len(u) /\ \A i \in 1..Len(t) : t[i] = u[i]
  BY PrefixIsBeginning
<1>2. Len(s) <= Len(u) /\ \A i \in 1..Len(s) : s[i] = u[i]
  BY <1>1
<1> QED
  BY <1>2, PrefixIsBeginning

\* What only grows begins with all it has been.
LEMMA Growing ==
  ASSUME NEW S, NEW a, NEW n \in Nat, NEW h, NEW f, Builds(f, Seq(S), a, n, h),
         \A i \in 1..n : \A q \in Seq(S) : IsPrefix(q, h[i][q]),
         NEW i \in 0..n
  PROVE  IsPrefix(f[i], f[n])
<1> DEFINE Q == {j \in Nat : i + j <= n => IsPrefix(f[i], f[i + j])}
<1>1. 0 \in Q
  <2>1. f[i] \in Seq(S) /\ i + 0 = i
    BY DEF Builds
  <2> QED
    BY <2>1, PrefixOfItself
<1>2. ASSUME NEW j \in Nat, j \in Q PROVE j + 1 \in Q
  <2> SUFFICES ASSUME i + (j + 1) <= n PROVE IsPrefix(f[i], f[i + (j + 1)])
    OBVIOUS
  <2> DEFINE k == i + (j + 1)
  <2>1. k \in 1..n /\ k \in 0..n /\ k - 1 = i + j /\ k - 1 \in 0..n
    OBVIOUS
  <2>2. IsPrefix(f[i], f[k - 1])
    BY <1>2, <2>1
  <2> HIDE DEF k
  <2>3. f[i] \in Seq(S) /\ f[k - 1] \in Seq(S) /\ f[k] \in Seq(S) /\ f[k] = h[k][f[k - 1]]
    BY <2>1 DEF Builds
  <2>4. IsPrefix(f[k - 1], f[k])
    BY <2>1, <2>3
  <2>5. IsPrefix(f[i], f[k])
    BY <2>2, <2>3, <2>4, PrefixOfPrefix
  <2> QED
    BY <2>5 DEF k
<1>3. Nat \subseteq Q
  <2> HIDE DEF Q
  <2> QED
    BY <1>1, <1>2, Induction
<1>4. n - i \in Nat /\ i + (n - i) = n
  OBVIOUS
<1> QED
  BY <1>3, <1>4

LEMMA JoinedGrow ==
  ASSUME NEW S, NEW seqs \in Seq(Seq(S)), NEW i \in 0..Len(seqs)
  PROVE  IsPrefix(UpTo(seqs, S)[i], FlattenSeq(seqs))
<1> DEFINE n == Len(seqs)
           T == Seq(S)
           h == Joins(seqs, S)
           none == <<>>
           f == UpTo(seqs, S)
<1>1. n \in Nat /\ i \in 0..n
  OBVIOUS
<1>2. Builds(f, Seq(S), none, n, h)
  BY Joining
<1>3. \A k \in 1..n : \A q \in Seq(S) : IsPrefix(q, h[k][q])
  <2> TAKE k \in 1..n
  <2> TAKE q \in Seq(S)
  <2>1. h[k][q] = q \o seqs[k] /\ seqs[k] \in Seq(S)
    BY DEF Joins
  <2> QED
    BY <2>1, PrefixOfLonger
<1>4. IsPrefix(f[i], f[n])
  <2> HIDE DEF f, n, h, none
  <2> QED
    BY <1>1, <1>2, <1>3, Growing
<1> QED
  BY <1>4, FlatIsJoined

\* Each element of the whole is one of a part.
LEMMA FlatFromParts ==
  ASSUME NEW S, NEW seqs \in Seq(Seq(S))
  PROVE  /\ FlattenSeq(seqs) \in Seq(S)
         /\ \A i \in 1..Len(FlattenSeq(seqs)) :
              \E j \in 1..Len(seqs) : \E k \in 1..Len(seqs[j]) : FlattenSeq(seqs)[i] = seqs[j][k]
<1> DEFINE n == Len(seqs)
           f == UpTo(seqs, S)
           InPart(x) == \E j \in 1..n : \E k \in 1..Len(seqs[j]) : x = seqs[j][k]
           Q == {m \in Nat : m <= n => \A i \in 1..Len(f[m]) : InPart(f[m][i])}
<1>1. n \in Nat /\ \A i \in 1..n : seqs[i] \in Seq(S)
  OBVIOUS
<1>2. f \in [0..n -> Seq(S)] /\ f[0] = <<>> /\ \A i \in 1..n : f[i] = f[i - 1] \o seqs[i]
  BY Joining
<1> HIDE DEF f, n
<1>3. 0 \in Q
  BY <1>2
<1>4. ASSUME NEW m \in Nat, m \in Q PROVE m + 1 \in Q
  <2> SUFFICES ASSUME m + 1 <= n, NEW i \in 1..Len(f[m + 1]) PROVE InPart(f[m + 1][i])
    OBVIOUS
  <2>1. m + 1 \in 1..n /\ (m + 1) - 1 = m /\ m \in 0..n
    BY <1>1
  <2>2. f[m] \in Seq(S) /\ seqs[m + 1] \in Seq(S) /\ f[m + 1] = f[m] \o seqs[m + 1]
    BY <1>1, <1>2, <2>1
  <2> DEFINE s == f[m]
             t == seqs[m + 1]
  <2>3. s \in Seq(S) /\ t \in Seq(S) /\ f[m + 1] = s \o t
    BY <2>2
  <2>4. \A k \in 1..Len(t) : InPart(t[k])
    BY <2>1
  <2>5. \A k \in 1..Len(s) : InPart(s[k])
    BY <1>4, <2>1
  <2> HIDE DEF s, t, InPart
  <2>6. CASE i <= Len(s)
    <3>1. (s \o t)[i] = s[i] /\ i \in 1..Len(s)
      BY <2>3, <2>6
    <3> QED
      BY <2>3, <2>5, <3>1
  <2>7. CASE ~(i <= Len(s))
    <3>1. (s \o t)[i] = t[i - Len(s)] /\ i - Len(s) \in 1..Len(t)
      BY <2>3, <2>7
    <3> QED
      BY <2>3, <2>4, <3>1
  <2> QED
    BY <2>6, <2>7
<1>5. Nat \subseteq Q
  <2> HIDE DEF Q
  <2> QED
    BY <1>3, <1>4, Induction
<1>6. FlattenSeq(seqs) = f[n] /\ f[n] \in Seq(S)
  BY <1>1, <1>2, FlatIsJoined DEF f, n
<1>7. \A i \in 1..Len(FlattenSeq(seqs)) : InPart(FlattenSeq(seqs)[i])
  <2>1. \A i \in 1..Len(f[n]) : InPart(f[n][i])
    BY <1>1, <1>5
  <2> HIDE DEF InPart
  <2> QED
    BY <2>1, <1>6
<1>8. FlattenSeq(seqs) \in Seq(S)
  BY <1>6
<1> QED
  BY <1>7, <1>8 DEF n

LEMMA Joint ==
  ASSUME NEW S, NEW s \in Seq(S), NEW t \in Seq(S)
  PROVE  /\ s \o t \in Seq(S) /\ Len(s \o t) = Len(s) + Len(t)
         /\ \A i \in 1..Len(s) : (s \o t)[i] = s[i]
         /\ \A i \in 1..Len(t) : (s \o t)[Len(s) + i] = t[i]
         /\ \A i \in 1..Len(s \o t) : i \notin 1..Len(s) => i - Len(s) \in 1..Len(t)
OBVIOUS

LEMMA Regrouped ==
  ASSUME NEW S, NEW s \in Seq(S), NEW t \in Seq(S), NEW u \in Seq(S)
  PROVE  (s \o t) \o u = s \o (t \o u)
OBVIOUS

\* What is joined up to a place depends on no part beyond it.
LEMMA SameBeginning ==
  ASSUME NEW S, NEW s \in Seq(Seq(S)), NEW t \in Seq(Seq(S)), NEW m \in Nat,
         m <= Len(s), m <= Len(t), \A i \in 1..m : s[i] = t[i]
  PROVE  UpTo(s, S)[m] = UpTo(t, S)[m]
<1> DEFINE f == UpTo(s, S)
           g == UpTo(t, S)
           Q == {i \in Nat : i <= m => f[i] = g[i]}
<1>1. Len(s) \in Nat /\ Len(t) \in Nat
  OBVIOUS
<1>2. f[0] = <<>> /\ \A i \in 1..Len(s) : f[i] = f[i - 1] \o s[i]
  BY Joining
<1>3. g[0] = <<>> /\ \A i \in 1..Len(t) : g[i] = g[i - 1] \o t[i]
  BY Joining
<1> HIDE DEF f, g
<1>4. 0 \in Q
  BY <1>2, <1>3
<1>5. ASSUME NEW i \in Nat, i \in Q PROVE i + 1 \in Q
  <2> SUFFICES ASSUME i + 1 <= m PROVE f[i + 1] = g[i + 1]
    OBVIOUS
  <2>1. i + 1 \in 1..Len(s) /\ i + 1 \in 1..Len(t) /\ i + 1 \in 1..m /\ (i + 1) - 1 = i
    BY <1>1
  <2>2. f[i] = g[i] /\ s[i + 1] = t[i + 1]
    BY <1>5, <2>1
  <2> QED
    BY <1>2, <1>3, <2>1, <2>2
<1>6. Nat \subseteq Q
  <2> HIDE DEF Q
  <2> QED
    BY <1>4, <1>5, Induction
<1> QED
  BY <1>6 DEF f, g

\* Nor does the whole when they are empty.
LEMMA NothingAfter ==
  ASSUME NEW S, NEW s \in Seq(Seq(S)), NEW p \in Nat, p <= Len(s),
         \A i \in 1..Len(s) : i > p => s[i] = <<>>
  PROVE  FlattenSeq(s) = UpTo(s, S)[p]
<1> DEFINE n == Len(s)
           f == UpTo(s, S)
           Q == {i \in Nat : p + i <= n => f[p + i] = f[p]}
<1>1. n \in Nat /\ n - p \in Nat /\ p + (n - p) = n
  OBVIOUS
<1>2. f \in [0..n -> Seq(S)] /\ \A i \in 1..n : f[i] = f[i - 1] \o s[i]
  BY Joining
<1> HIDE DEF f, n
<1>3. 0 \in Q
  BY <1>1
<1>4. ASSUME NEW i \in Nat, i \in Q PROVE i + 1 \in Q
  <2> SUFFICES ASSUME p + (i + 1) <= n PROVE f[p + (i + 1)] = f[p]
    OBVIOUS
  <2> DEFINE k == p + (i + 1)
  <2>1. k \in 1..n /\ k > p /\ k - 1 = p + i /\ k - 1 \in 0..n
    BY <1>1
  <2>2. f[k - 1] = f[p]
    BY <1>4, <2>1
  <2> HIDE DEF k
  <2>3. f[k] = f[k - 1] \o s[k] /\ s[k] = <<>> /\ f[k - 1] \in Seq(S)
    BY <1>2, <2>1 DEF n
  <2>4. f[k] = f[p]
    BY <2>2, <2>3
  <2> QED
    BY <2>4 DEF k
<1>5. Nat \subseteq Q
  <2> HIDE DEF Q
  <2> QED
    BY <1>3, <1>4, Induction
<1>6. FlattenSeq(s) = f[n]
  BY FlatIsJoined DEF f, n
<1>7. n - p \in Q
  BY <1>1, <1>5
<1>8. p + (n - p) <= n
  BY <1>1
<1>9. f[p + (n - p)] = f[p]
  BY <1>7, <1>8
<1> QED
  BY <1>1, <1>6, <1>9 DEF f

LEMMA FlatOfJoined ==
  ASSUME NEW S, NEW s \in Seq(Seq(S)), NEW t \in Seq(Seq(S))
  PROVE  FlattenSeq(s \o t) = FlattenSeq(s) \o FlattenSeq(t)
<1> DEFINE m == Len(s)
           n == Len(t)
           u == s \o t
           f == UpTo(u, S)
           g == UpTo(t, S)
           a == FlattenSeq(s)
           J(x, y) == x \o y
           Q == {i \in Nat : i <= n => f[m + i] = J(a, g[i])}
<1>1. /\ m \in Nat /\ n \in Nat
      /\ u \in Seq(Seq(S)) /\ Len(u) = m + n
      /\ \A i \in 1..m : u[i] = s[i]
      /\ \A i \in 1..n : u[m + i] = t[i] /\ t[i] \in Seq(S)
  OBVIOUS
<1> HIDE DEF u
<1>2. f \in [0..Len(u) -> Seq(S)] /\ \A i \in 1..Len(u) : f[i] = J(f[i - 1], u[i])
  BY <1>1, Joining
<1>3. g \in [0..n -> Seq(S)] /\ g[0] = <<>> /\ \A i \in 1..n : g[i] = J(g[i - 1], t[i])
  BY Joining
<1>4. a = UpTo(s, S)[m] /\ UpTo(s, S) \in [0..m -> Seq(S)]
  BY Joining, FlatIsJoined
<1>5. f[m] = a /\ a \in Seq(S)
  <2>1. m <= Len(s) /\ m <= Len(u) /\ \A i \in 1..m : s[i] = u[i]
    BY <1>1
  <2>2. UpTo(s, S)[m] = UpTo(u, S)[m]
    <3> HIDE DEF m
    <3> QED
      BY <1>1, <2>1, SameBeginning
  <2>3. m \in 0..m
    BY <1>1
  <2> QED
    BY <1>4, <2>2, <2>3
<1>6. FlattenSeq(u) = f[m + n] /\ FlattenSeq(t) = g[n]
  BY <1>1, FlatIsJoined
<1> HIDE DEF f, g, a, m, n, J
<1>7. 0 \in Q
  <2>1. J(a, <<>>) = a
    BY <1>5 DEF J
  <2> QED
    BY <1>1, <1>3, <1>5, <2>1
<1>8. ASSUME NEW i \in Nat, i \in Q PROVE i + 1 \in Q
  <2> SUFFICES ASSUME i + 1 <= n PROVE f[m + (i + 1)] = J(a, g[i + 1])
    OBVIOUS
  <2>1. /\ m + (i + 1) \in 1..Len(u) /\ (m + (i + 1)) - 1 = m + i
        /\ i + 1 \in 1..n /\ (i + 1) - 1 = i /\ i \in 0..n
    BY <1>1
  <2>2. f[m + (i + 1)] = J(f[m + i], t[i + 1]) /\ g[i + 1] = J(g[i], t[i + 1])
    BY <1>1, <1>2, <1>3, <2>1
  <2>3. g[i] \in Seq(S) /\ t[i + 1] \in Seq(S)
    BY <1>1, <1>3, <2>1
  <2>4. f[m + i] = J(a, g[i])
    BY <1>1, <1>8, <2>1
  <2> DEFINE b == g[i]
             c == t[i + 1]
  <2>5. b \in Seq(S) /\ c \in Seq(S)
    BY <2>3
  <2> HIDE DEF b, c
  <2>6. J(J(a, b), c) = J(a, J(b, c))
    BY <1>5, <2>5, Regrouped DEF J
  <2> QED
    BY <2>2, <2>4, <2>6 DEF b, c
<1>9. Nat \subseteq Q
  <2> HIDE DEF Q
  <2> QED
    BY <1>7, <1>8, Induction
<1>10. f[m + n] = J(a, g[n])
  BY <1>1, <1>9
<1> QED
  BY <1>6, <1>10 DEF u, J, a

\* One part grows, the last that is not empty.
LEMMA LastGrows ==
  ASSUME NEW S, NEW s \in Seq(Seq(S)), NEW t \in Seq(Seq(S)), NEW p \in Nat, p \in 1..Len(s),
         NEW u \in Seq(S), \A i \in 1..Len(s) : i > p => s[i] = <<>>,
         Len(t) = Len(s), t[p] = s[p] \o u, \A i \in 1..Len(s) : i # p => t[i] = s[i]
  PROVE  FlattenSeq(t) = FlattenSeq(s) \o u
<1> DEFINE n == Len(s)
           J(x, y) == x \o y
           T == Seq(S)
           f == UpTo(s, S)
           g == UpTo(t, S)
<1>1. n \in Nat /\ p \in Nat /\ p - 1 \in Nat /\ p \in 0..n /\ p - 1 \in 0..n /\ p <= n
  OBVIOUS
<1>0. \A x, y \in Seq(S) : J(J(x, y), u) = J(x, J(y, u))
  <2> TAKE x, y \in Seq(S)
  <2>1. x \in Seq(S) /\ y \in Seq(S) /\ u \in Seq(S)
    OBVIOUS
  <2>2. (x \o y) \o u = x \o (y \o u)
    BY ONLY <2>1, Regrouped
  <2> QED
    BY <2>2
<1>2. s[p] \in T /\ J(s[p], u) \in T
  OBVIOUS
<1>3. Len(t) = n /\ t[p] = J(s[p], u) /\ \A i \in 1..n : i # p => t[i] = s[i]
  OBVIOUS
<1> HIDE DEF J
<1>4. /\ f \in [0..n -> T] /\ \A i \in 1..n : f[i] = J(f[i - 1], s[i])
      /\ g \in [0..n -> T] /\ \A i \in 1..n : g[i] = J(g[i - 1], t[i])
  BY <1>3, Joining DEF J
<1>5. f[p - 1] = g[p - 1]
  <2> DEFINE k == p - 1
  <2>1. k \in Nat /\ k <= Len(s) /\ k <= Len(t) /\ \A i \in 1..k : s[i] = t[i]
    BY <1>1, <1>3
  <2> HIDE DEF k
  <2>2. UpTo(s, S)[k] = UpTo(t, S)[k]
    BY <1>3, <2>1, SameBeginning DEF T
  <2> QED
    BY <2>2 DEF k
<1>6. g[p] = J(f[p], u)
  <2> HIDE DEF f, g
  <2>1. f[p] = J(f[p - 1], s[p]) /\ g[p] = J(f[p - 1], J(s[p], u)) /\ f[p - 1] \in T
    BY <1>1, <1>3, <1>4, <1>5
  <2> DEFINE a == f[p - 1]
             b == s[p]
  <2>2. a \in Seq(S) /\ b \in Seq(S)
    BY <1>2, <2>1
  <2> HIDE DEF a, b
  <2>3. J(J(a, b), u) = J(a, J(b, u))
    BY <1>0, <2>2
  <2> QED
    BY <2>1, <2>3 DEF a, b
<1>7. FlattenSeq(s) = f[p]
  BY <1>1, NothingAfter
<1>8. FlattenSeq(t) = g[p]
  <2>1. ASSUME NEW i \in 1..Len(t), i > p PROVE t[i] = <<>>
    <3>1. i \in 1..n /\ i # p /\ s[i] = <<>>
      BY <1>1, <1>3, <2>1
    <3> QED
      BY <1>3, <3>1
  <2> QED
    BY <1>1, <1>3, <2>1, NothingAfter DEF T
<1> QED
  BY <1>6, <1>7, <1>8 DEF J

\* s and t have the same parts, up to one that is cut short in s, the last of it.
LEMMA CutShort ==
  ASSUME NEW S, NEW s \in Seq(Seq(S)), NEW t \in Seq(Seq(S)), Len(s) = Len(t), NEW p \in Nat,
         \A i \in 1..Len(s) : i < p => s[i] = t[i],
         p \in 1..Len(s) => \E u \in Seq(S) : s[p] \o u = t[p],
         \A i \in 1..Len(s) : i > p => s[i] = <<>>
  PROVE  IsPrefix(FlattenSeq(s), FlattenSeq(t))
<1> DEFINE n == Len(s)
           f == UpTo(s, S)
           g == UpTo(t, S)
           T == Seq(S)
<1>1. n \in Nat /\ FlattenSeq(s) \in T /\ FlattenSeq(t) \in T
  BY FlatFromParts
<1>2. CASE p = 0
  <2>1. FlattenSeq(s) = f[0]
    BY <1>1, <1>2, NothingAfter
  <2>2. f[0] = <<>>
    BY Joining
  <2> DEFINE none == <<>>
             whole == FlattenSeq(t)
  <2>3. none \in Seq(S) /\ Len(none) = 0 /\ whole \in Seq(S) /\ Len(whole) \in Nat
    BY <1>1
  <2> HIDE DEF none, whole
  <2>4. Len(none) <= Len(whole) /\ \A i \in 1..Len(none) : none[i] = whole[i]
    BY <2>3
  <2>5. IsPrefix(none, whole)
    BY <2>3, <2>4, PrefixIsBeginning
  <2> QED
    BY <2>1, <2>2, <2>5 DEF none, whole
<1>3. CASE p > n
  <2>1. ASSUME NEW i \in 1..n PROVE s[i] = t[i]
    <3>1. i < p
      BY <1>1, <1>3
    <3> QED
      BY <3>1
  <2>2. s = t
    <3>1. s \in Seq(T) /\ t \in Seq(T)
      OBVIOUS
    <3> HIDE DEF T
    <3> QED
      BY <2>1, <3>1, SeqEqual
  <2> QED
    BY <1>1, <2>2, PrefixOfItself
<1>4. CASE p \in 1..n
  <2> DEFINE J(x, y) == x \o y
  <2>1. PICK u \in Seq(S) : J(s[p], u) = t[p]
    BY <1>4
  <2>2. /\ p - 1 \in Nat /\ p \in 0..n /\ p - 1 \in 0..n /\ p <= n /\ p - 1 <= n
        /\ s[p] \in T /\ t[p] \in T
    BY <1>1, <1>4
  <2> HIDE DEF J
  <2>3. /\ f \in [0..n -> T] /\ \A i \in 1..n : f[i] = J(f[i - 1], s[i])
        /\ g \in [0..n -> T] /\ \A i \in 1..n : g[i] = J(g[i - 1], t[i])
    BY Joining DEF J
  <2>4. f[p - 1] = g[p - 1]
    <3> DEFINE k == p - 1
    <3>1. k \in Nat /\ k <= Len(s) /\ k <= Len(t) /\ \A i \in 1..k : s[i] = t[i]
      BY <1>1, <1>4
    <3> HIDE DEF k
    <3>2. UpTo(s, S)[k] = UpTo(t, S)[k]
      BY <3>1, SameBeginning
    <3> QED
      BY <3>2 DEF k
  <2>5. FlattenSeq(s) = f[p]
    BY <2>2, NothingAfter
  <2>6. IsPrefix(g[p], FlattenSeq(t))
    BY <2>2, JoinedGrow
  <2> HIDE DEF f, g
  <2>7. g[p] = J(f[p], u) /\ f[p] \in T /\ g[p] \in T
    <3>1. f[p] = J(f[p - 1], s[p]) /\ g[p] = J(f[p - 1], J(s[p], u)) /\ f[p - 1] \in T
      BY <1>4, <2>1, <2>2, <2>3, <2>4
    <3> DEFINE a == f[p - 1]
               b == s[p]
    <3>2. a \in Seq(S) /\ b \in Seq(S)
      BY <2>2, <3>1
    <3> HIDE DEF a, b
    <3>3. J(J(a, b), u) = J(a, J(b, u))
      BY <3>2, Regrouped DEF J
    <3> QED
      BY <2>2, <2>3, <3>1, <3>3 DEF a, b
  <2>8. IsPrefix(f[p], g[p])
    BY <2>7, PrefixOfLonger DEF J
  <2> QED
    BY <1>1, <2>5, <2>6, <2>7, <2>8, PrefixOfPrefix
<1> QED
  BY <1>1, <1>2, <1>3, <1>4

\* Parts of one element each.
LEMMA Singles ==
  ASSUME NEW S, NEW s \in Seq(S), NEW t \in Seq(Seq(S)), Len(t) = Len(s),
         \A i \in 1..Len(s) : t[i] = <<s[i]>>
  PROVE  FlattenSeq(t) = s
<1> DEFINE n == Len(s)
           f == UpTo(t, S)
           Q == {i \in Nat : i <= n => Len(f[i]) = i /\ \A j \in 1..i : f[i][j] = s[j]}
<1>0. \A x \in Seq(S), y \in S :
        LET z == x \o <<y>>
        IN  Len(z) = Len(x) + 1 /\ z[Len(x) + 1] = y /\ \A j \in 1..Len(x) : z[j] = x[j]
  OBVIOUS
<1>1. n \in Nat /\ \A i \in 1..n : s[i] \in S
  OBVIOUS
<1>2. f \in [0..n -> Seq(S)] /\ f[0] = <<>> /\ \A i \in 1..n : f[i] = f[i - 1] \o t[i]
  BY Joining
<1> HIDE DEF f
<1>3. 0 \in Q
  BY <1>1, <1>2
<1>4. ASSUME NEW i \in Nat, i \in Q PROVE i + 1 \in Q
  <2> SUFFICES ASSUME i + 1 <= n
               PROVE  Len(f[i + 1]) = i + 1 /\ \A j \in 1..(i + 1) : f[i + 1][j] = s[j]
    OBVIOUS
  <2>1. i + 1 \in 1..n /\ i \in 0..n /\ (i + 1) - 1 = i
    BY <1>1
  <2> DEFINE a == f[i]
             b == f[i + 1]
             e == s[i + 1]
  <2>2. a \in Seq(S) /\ e \in S /\ b = a \o <<e>>
    BY <1>1, <1>2, <2>1
  <2>3. Len(a) = i /\ \A j \in 1..i : a[j] = s[j]
    BY <1>4, <2>1
  <2> HIDE DEF a, b
  <2>4. Len(b) = i + 1 /\ b[i + 1] = e /\ \A j \in 1..i : b[j] = a[j]
    BY <1>0, <2>2, <2>3
  <2>5. \A j \in 1..(i + 1) : b[j] = s[j]
    <3> TAKE j \in 1..(i + 1)
    <3>1. j = i + 1 \/ j \in 1..i
      OBVIOUS
    <3> QED
      BY <2>3, <2>4, <3>1
  <2> QED
    BY <2>4, <2>5 DEF b
<1>5. n \in Q
  <2>1. Nat \subseteq Q
    <3> HIDE DEF Q
    <3> QED
      BY <1>3, <1>4, Induction
  <2> QED
    BY <1>1, <2>1
<1>6. f[n] \in Seq(S) /\ Len(f[n]) = Len(s) /\ \A j \in 1..Len(s) : f[n][j] = s[j]
  BY <1>1, <1>2, <1>5
<1>7. f[n] = s
  BY <1>6, SeqEqual
<1> QED
  BY <1>7, FlatIsJoined DEF f
\* What is in a part is in the whole.
LEMMA PartsInFlat ==
  ASSUME NEW S, NEW seqs \in Seq(Seq(S)), NEW i \in 1..Len(seqs), NEW k \in 1..Len(seqs[i])
  PROVE  \E j \in 1..Len(FlattenSeq(seqs)) : FlattenSeq(seqs)[j] = seqs[i][k]
<1> DEFINE f == UpTo(seqs, S)
           a == f[i - 1]
           b == seqs[i]
           u == a \o b
           whole == FlattenSeq(seqs)
<1>1. i \in Nat /\ i - 1 \in 0..Len(seqs) /\ i \in 0..Len(seqs) /\ b \in Seq(S)
  OBVIOUS
<1>2. f \in [0..Len(seqs) -> Seq(S)] /\ f[i] = u
  BY Joining
<1>3. a \in Seq(S) /\ whole \in Seq(S)
  BY <1>1, <1>2, FlatFromParts
<1>4. IsPrefix(f[i], whole)
  BY <1>1, JoinedGrow
<1>5. /\ u \in Seq(S) /\ Len(u) = Len(a) + Len(b)
      /\ \A j \in 1..Len(b) : u[Len(a) + j] = b[j]
  <2>1. a \in Seq(S) /\ b \in Seq(S)
    BY <1>1, <1>3
  <2> HIDE DEF a, b
  <2> QED
    BY ONLY <2>1, Joint
<1>6. k \in 1..Len(b) /\ b[k] = seqs[i][k]
  OBVIOUS
<1> HIDE DEF f, a, b, u, whole
<1>7. IsPrefix(u, whole)
  BY <1>2, <1>4
<1>8. Len(u) <= Len(whole) /\ \A j \in 1..Len(u) : u[j] = whole[j]
  BY <1>3, <1>5, <1>7, PrefixIsBeginning
<1>9. Len(a) \in Nat /\ Len(b) \in Nat /\ Len(whole) \in Nat
  BY <1>1, <1>3
<1>10. Len(a) + k \in 1..Len(u) /\ Len(a) + k \in 1..Len(whole)
  BY <1>5, <1>6, <1>8, <1>9
<1>11. whole[Len(a) + k] = b[k]
  BY <1>5, <1>6, <1>8, <1>10
<1> QED
  BY <1>6, <1>10, <1>11 DEF whole

=============================================================================
