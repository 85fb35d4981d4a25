---------------------------- MODULE StartupProofs ----------------------------
(* Theorems about CommandLine, for argument lists of any length, and about       *)
(* Startup, for any number of processes, cases and migrations.                  *)
EXTENDS Startup, TLAPS, FiniteSetTheorems, SequenceTheorems, WellFoundedInduction

-----------------------------------------------------------------------------
(* The arguments.                                                            *)

LEMMA LeastFacts ==
  ASSUME NEW I \in SUBSET Nat, I # {}
  PROVE  /\ Min(I) \in I /\ \A j \in I : Min(I) <= j
         /\ (CHOOSE i \in I : \A j \in I : i <= j) \in I
  <1>1. PICK i \in I : \A j \in I : ~ (<<j, i>> \in OpToRel(<, Nat))
    <2>1. I \subseteq Nat
      OBVIOUS
    <2> QED
      BY ONLY <2>1, I # {}, WFMin, NatLessThanWellFounded
  <1>2. \A j \in I : i <= j
    <2>1. ASSUME NEW j \in I PROVE ~(j < i)
      BY <1>1, <2>1 DEF OpToRel
    <2> QED
      BY <2>1
  <1> QED
    BY <1>2 DEF Min

\* A -v reads the next token unless it was itself read.
LEMMA ReadsFacts ==
  ASSUME NEW a, NEW i \in Nat \ {0}
  PROVE  Reads(a, i) <=> IsV(a[i]) /\ ~Taken(a, i)
  <1> DEFINE Row(p, n) == /\ n \in 0 .. p - 1
                          /\ \A j \in p - n .. p - 1 : IsV(a[j])
                          /\ n = p - 1 \/ ~IsV(a[p - n - 1])
             row(p) == CHOOSE n \in 0 .. p - 1 : /\ \A j \in p - n .. p - 1 : IsV(a[j])
                                                 /\ n = p - 1 \/ ~IsV(a[p - n - 1])
  <1>1. ASSUME NEW p \in Nat \ {0} PROVE \E n : Row(p, n)
    <2> DEFINE I == {n \in 0 .. p - 1 : n = p - 1 \/ ~IsV(a[p - n - 1])}
               m == Min(I)
    <2>1. m \in I /\ \A n \in I : m <= n
      <3>1. I \in SUBSET Nat /\ p - 1 \in I
        OBVIOUS
      <3> HIDE DEF I
      <3> QED
        BY <3>1, LeastFacts
    <2> HIDE DEF m
    <2>2. ASSUME NEW j \in p - m .. p - 1 PROVE IsV(a[j])
      <3>1. p - 1 - j \in 0 .. p - 1 /\ p - 1 - j < m /\ p - (p - 1 - j) - 1 = j
        BY <2>1
      <3>2. p - 1 - j \notin I
        BY <2>1, <3>1
      <3> QED
        BY <3>1, <3>2
    <2> QED
      BY <2>1, <2>2
  <1>2. ASSUME NEW p \in Nat \ {0}, NEW n, NEW m, Row(p, n), Row(p, m) PROVE ~(n < m)
    <2>1. n < m => p - n - 1 \in p - m .. p - 1 /\ n # p - 1
      BY <1>2
    <2> QED
      BY <1>2, <2>1
  <1>3. ASSUME NEW p \in Nat \ {0}, NEW n, Row(p, n) PROVE row(p) = n
    <2>1. Row(p, row(p))
      BY <1>3
    <2> HIDE DEF row
    <2>2. row(p) \in Int /\ n \in Int
      BY <1>3, <2>1
    <2>3. ~(row(p) < n) /\ ~(n < row(p))
      BY <1>2, <1>3, <2>1
    <2> QED
      BY <2>2, <2>3
  <1>4. \A p : Reads(a, p) <=> IsV(a[p]) /\ row(p) % 2 = 0
    BY DEF Reads
  <1> HIDE DEF row
  <1>5. CASE i = 1 \/ ~IsV(a[i - 1])
    <2>1. Row(i, 0)
      BY <1>5
    <2>2. row(i) = 0
      BY <1>3, <2>1
    <2>3. ~Taken(a, i)
      BY <1>4, <1>5 DEF Taken
    <2> QED
      BY <1>4, <2>2, <2>3
  <1>6. CASE i > 1 /\ IsV(a[i - 1])
    <2>1. i - 1 \in Nat \ {0}
      BY <1>6
    <2>2. PICK n : Row(i - 1, n)
      BY <1>1, <2>1
    <2>3. row(i - 1) = n /\ n \in Nat
      BY <1>3, <2>1, <2>2
    <2>4. Row(i, n + 1)
      <3>1. /\ n + 1 \in 0 .. i - 1 /\ i - (n + 1) = i - 1 - n /\ i - (n + 1) - 1 = i - 1 - n - 1
            /\ n + 1 = i - 1 <=> n = i - 1 - 1
        BY <2>2
      <3>2. \A j \in i - 1 - n .. i - 1 : j = i - 1 \/ j \in i - 1 - n .. i - 1 - 1
        BY <2>2
      <3>3. \A j \in i - 1 - n .. i - 1 : IsV(a[j])
        BY <1>6, <2>2, <3>2
      <3> QED
        BY <2>2, <3>1, <3>3
    <2>5. row(i) = n + 1
      BY <1>3, <2>4
    <2>6. n % 2 = 0 <=> ~((n + 1) % 2 = 0)
      BY <2>3
    <2> QED
      BY <1>4, <1>6, <2>3, <2>5, <2>6 DEF Taken
  <1> QED
    BY <1>5, <1>6

\* The rank of a place.
Rank(P, i) == Cardinality({k \in P : k <= i})

\* What is picked: the elements at the places, by their rank.
LEMMA PickedFacts ==
  ASSUME NEW S, NEW a \in Seq(S), NEW P \in SUBSET DOMAIN a
  PROVE  /\ Cardinality(P) \in Nat /\ IsFiniteSet(P)
         /\ Picked(a, P) \in Seq(S) /\ Len(Picked(a, P)) = Cardinality(P)
         /\ \A i \in P : Rank(P, i) \in 1 .. Cardinality(P) /\ Picked(a, P)[Rank(P, i)] = a[i]
         /\ \A i, k \in P : i < k => Rank(P, i) < Rank(P, k)
         /\ \A j \in 1 .. Cardinality(P) : \E i \in P : Rank(P, i) = j
  <1>1. DOMAIN a = 1 .. Len(a) /\ Len(a) \in Nat
    OBVIOUS
  <1>2. IsFiniteSet(P) /\ Cardinality(P) \in Nat
    <2>1. IsFiniteSet(DOMAIN a)
      BY <1>1, FS_Interval
    <2> QED
      BY <2>1, FS_Subset, FS_CardinalityType
  <1>3. ASSUME NEW i \in P PROVE Rank(P, i) \in 1 .. Cardinality(P)
    <2>1. {k \in P : k <= i} \in SUBSET P /\ i \in {k \in P : k <= i}
      BY <1>1
    <2>2. /\ IsFiniteSet({k \in P : k <= i}) /\ Cardinality({k \in P : k <= i}) \in Nat
          /\ Cardinality({k \in P : k <= i}) <= Cardinality(P)
      BY <1>2, <2>1, FS_Subset, FS_CardinalityType
    <2>3. Cardinality({k \in P : k <= i}) # 0
      BY <2>1, <2>2, FS_EmptySet
    <2> QED
      BY <1>2, <2>2, <2>3 DEF Rank
  <1>4. ASSUME NEW i \in P, NEW k \in P, i < k PROVE Rank(P, i) < Rank(P, k)
    <2> DEFINE X == {j \in P : j <= i}
               Y == {j \in P : j <= k}
    <2>1. X \in SUBSET Y /\ k \in Y /\ k \notin X
      BY <1>1, <1>4
    <2>2. IsFiniteSet(Y) /\ Y \in SUBSET P
      BY <1>2, FS_Subset
    <2> HIDE DEF X, Y
    <2>3. Cardinality(X) <= Cardinality(Y) /\ Cardinality(X) # Cardinality(Y)
      BY <2>1, <2>2, FS_Subset
    <2>4. Cardinality(X) \in Nat /\ Cardinality(Y) \in Nat
      BY <2>1, <2>2, FS_Subset, FS_CardinalityType
    <2> QED
      BY <2>3, <2>4 DEF Rank, X, Y
  <1>5. \A i, k \in P : Rank(P, i) = Rank(P, k) => i = k
    <2>1. ASSUME NEW i \in P, NEW k \in P, Rank(P, i) = Rank(P, k) PROVE i = k
      <3>1. i \in Int /\ k \in Int /\ Rank(P, i) \in Int
        BY <1>1, <1>3
      <3>2. ~(i < k) /\ ~(k < i)
        BY <1>4, <2>1, <3>1
      <3> QED
        BY <3>1, <3>2
    <2> QED
      BY <2>1
  <1>6. ASSUME NEW j \in 1 .. Cardinality(P) PROVE \E i \in P : Rank(P, i) = j
    <2> DEFINE f == [i \in P |-> Rank(P, i)]
               T == 1 .. Cardinality(P)
    <2>1. f \in Injection(P, T)
      BY <1>3, <1>5 DEF Injection, IsInjective
    <2>2. IsFiniteSet(T) /\ Cardinality(T) = Cardinality(P)
      BY <1>2, FS_Interval
    <2>3. f \in Surjection(P, T)
      BY <2>1, <2>2, FS_Injection
    <2> QED
      BY <2>3 DEF Surjection
  <1> DEFINE pick(j) == CHOOSE i \in P : Rank(P, i) = j
  <1>7. Picked(a, P) = [j \in 1 .. Cardinality(P) |-> a[pick(j)]]
    BY DEF Picked, Rank
  <1>8. \A j \in 1 .. Cardinality(P) : pick(j) \in P /\ Rank(P, pick(j)) = j
    BY <1>6
  <1>9. \A i \in P : pick(Rank(P, i)) = i
    BY <1>3, <1>5, <1>8
  <1> HIDE DEF pick
  <1>10. \A j \in 1 .. Cardinality(P) : a[pick(j)] \in S
    BY <1>1, <1>8
  <1>11. Picked(a, P) \in Seq(S) /\ Len(Picked(a, P)) = Cardinality(P)
    BY <1>2, <1>7, <1>10
  <1>12. \A i \in P : Picked(a, P)[Rank(P, i)] = a[i]
    BY <1>3, <1>7, <1>9
  <1> QED
    BY <1>2, <1>3, <1>4, <1>6, <1>11, <1>12

\* Two places that follow one another are picked one after the other.
LEMMA NextRank ==
  ASSUME NEW S, NEW a \in Seq(S), NEW P \in SUBSET DOMAIN a, NEW i \in P, i + 1 \in P
  PROVE  Rank(P, i + 1) = Rank(P, i) + 1
  <1> DEFINE X == {k \in P : k <= i}
             Y == {k \in P : k <= i + 1}
  <1>1. P \subseteq Int /\ IsFiniteSet(P)
    BY PickedFacts
  <1>2. Y = X \cup {i + 1} /\ i + 1 \notin X
    BY <1>1
  <1>3. IsFiniteSet(X)
    BY <1>1, FS_Subset
  <1> HIDE DEF X, Y
  <1>4. Cardinality(Y) = Cardinality(X) + 1
    BY <1>2, <1>3, FS_AddElement
  <1> QED
    BY <1>4 DEF Rank, X, Y

\* What is picked at the places after the first e is what follows the first e.
LEMMA TailPicked ==
  ASSUME NEW S, NEW a \in Seq(S), NEW P \in SUBSET DOMAIN a, NEW e \in 0 .. Cardinality(P)
  PROVE  Picked(a, {i \in P : Rank(P, i) > e}) = SubSeq(Picked(a, P), e + 1, Cardinality(P))
  <1> DEFINE Q == {i \in P : Rank(P, i) > e}
             D == {i \in P : ~(Rank(P, i) > e)}
             n == Cardinality(P)
             p == Picked(a, P)
             q == Picked(a, Q)
             f == [i \in D |-> Rank(P, i)]
  <1>1. /\ n \in Nat /\ IsFiniteSet(P) /\ p \in Seq(S) /\ Len(p) = n /\ P \subseteq Int
        /\ \A i \in P : Rank(P, i) \in 1 .. n /\ p[Rank(P, i)] = a[i]
        /\ \A i, k \in P : i < k => Rank(P, i) < Rank(P, k)
        /\ \A j \in 1 .. n : \E i \in P : Rank(P, i) = j
    BY PickedFacts
  <1>2. /\ Cardinality(Q) \in Nat /\ q \in Seq(S) /\ Len(q) = Cardinality(Q) /\ IsFiniteSet(Q)
        /\ \A i \in Q : Rank(Q, i) \in 1 .. Cardinality(Q) /\ q[Rank(Q, i)] = a[i]
        /\ \A j \in 1 .. Cardinality(Q) : \E i \in Q : Rank(Q, i) = j
    <2>1. Q \in SUBSET DOMAIN a
      OBVIOUS
    <2> HIDE DEF Q
    <2> QED
      BY <2>1, PickedFacts
  <1>3. IsFiniteSet(D) /\ Cardinality(D) = e
    <2>1. /\ \A i \in D : Rank(P, i) \in 1 .. e
          /\ \A i, k \in D : Rank(P, i) = Rank(P, k) => i = k
          /\ \A j \in 1 .. e : \E i \in D : Rank(P, i) = j
      <3>1. ASSUME NEW i \in D, NEW k \in D, Rank(P, i) = Rank(P, k) PROVE i = k
        <4>1. ~(i < k) /\ ~(k < i) /\ i \in Int /\ k \in Int
          BY <1>1, <3>1
        <4> QED
          BY <4>1
      <3>2. \A i \in D : Rank(P, i) \in 1 .. e
        BY <1>1
      <3>3. ASSUME NEW j \in 1 .. e PROVE \E i \in D : Rank(P, i) = j
        <4>1. j \in 1 .. n /\ ~(j > e)
          BY <1>1
        <4> QED
          BY <1>1, <4>1
      <3> QED
        BY <3>1, <3>2, <3>3
    <2> HIDE DEF D
    <2>2. f \in Injection(D, 1 .. e) /\ f \in Surjection(D, 1 .. e)
      BY <2>1 DEF Injection, IsInjective, Surjection
    <2>3. IsFiniteSet(1 .. e) /\ Cardinality(1 .. e) = e
      BY FS_Interval
    <2> HIDE DEF f
    <2> QED
      BY <2>2, <2>3, FS_Injection
  <1>4. ASSUME NEW i \in Q PROVE Rank(P, i) = Rank(Q, i) + e
    <2> DEFINE X == {k \in P : k <= i}
               Y == {k \in Q : k <= i}
    <2>1. \A k \in D : k <= i
      <3>1. ASSUME NEW k \in D PROVE ~(i < k)
        BY <1>1, <3>1
      <3> QED
        BY <1>1, <3>1
    <2>2. X = Y \cup D /\ Y \cap D = {}
      BY <2>1
    <2>3. IsFiniteSet(Y) /\ Cardinality(Y) \in Nat
      BY <1>2, FS_Subset, FS_CardinalityType
    <2> HIDE DEF X, Y, D
    <2>4. Cardinality(X) = Cardinality(Y) + e - 0
      BY <1>3, <2>2, <2>3, FS_Union, FS_EmptySet
    <2> QED
      BY <2>3, <2>4 DEF Rank, X, Y
  <1>5. n = Cardinality(Q) + e
    <2>1. P = Q \cup D /\ Q \cap D = {}
      OBVIOUS
    <2> HIDE DEF Q, D
    <2>2. n = Cardinality(Q) + e - 0
      BY <1>2, <1>3, <2>1, FS_Union, FS_EmptySet
    <2> QED
      BY <1>2, <2>2
  <1> HIDE DEF Q, D, n, p, q, f
  <1>6. ASSUME NEW j \in 1 .. Cardinality(Q) PROVE q[j] = p[j + e]
    <2>1. PICK i \in Q : Rank(Q, i) = j
      BY <1>2
    <2>2. q[j] = a[i] /\ Rank(P, i) = j + e /\ i \in P
      BY <1>2, <1>4, <2>1 DEF Q
    <2> QED
      BY <1>1, <2>2
  <1>7. e \in Nat /\ e <= n
    BY <1>1 DEF n
  <1> DEFINE t == SubSeq(p, e + 1, n)
  <1>8. t \in Seq(S) /\ Len(t) = n - e /\ \A j \in 1 .. n - e : t[j] = p[j + e]
    BY <1>1, <1>7
  <1> HIDE DEF t
  <1>9. q = t
    <2>1. n - e = Cardinality(Q)
      BY <1>2, <1>5, <1>7
    <2> QED
      BY <1>2, <1>6, <1>8, <2>1, SeqEqual
  <1> QED
    BY <1>9 DEF Q, p, q, n, t

\* A -v alone.
V1 == [k |-> "v", n |-> 1]

\* The arguments with -v N put behind the first c of them.
Inserted(new, r, c, n) ==
  /\ Len(new) = Len(r) + 2
  /\ new[c + 1] = V1 /\ new[c + 2] = [k |-> "num", n |-> n]
  /\ \A j \in 1 .. c : new[j] = r[j]
  /\ \A j \in c + 1 .. Len(r) : new[j + 2] = r[j]

\* What is made of the arguments is a sequence: what was kept, with the level.
LEMMA NormalizedFacts ==
  ASSUME NEW S, NEW r \in Seq(S), NEW a, Rest(a) = r
  PROVE  /\ \E T : Normalized(a) \in Seq(T)
         /\ LevelOf(a) = 0 => Normalized(a) = r
         /\ LevelOf(a) # 0 =>
              \E c \in 0 .. Len(r) : Inserted(Normalized(a), r, c, LevelOf(a))
  <1> DEFINE L == LevelOf(a)
             N == Normalized(a)
             n == Len(r)
             subs == {i \in 1 .. Len(r) : IsSub(r[i])}
             at == SelectInSeq(r, IsSub)
             c == IF at = 0 THEN Len(r) ELSE at - 1
             flag == <<V1, [k |-> "num", n |-> L]>>
             T == S \cup {flag[1], flag[2]}
  <1>1. at = IF subs # {} THEN Min(subs) ELSE 0
    BY DEF SelectInSeq
  <1>2. N = IF L = 0 THEN r
            ELSE SubSeq(r, 1, c) \o flag \o SubSeq(r, c + 1, Len(r))
    BY DEF Normalized, V1
  <1>3. subs \in SUBSET Nat /\ n \in Nat
    OBVIOUS
  <1>4. subs # {} => Min(subs) \in subs /\ \A j \in subs : Min(subs) <= j
    BY <1>3, LeastFacts
  <1>5. c \in 0 .. n /\ c \in Nat /\ c <= n /\ \A j \in 1 .. c : ~IsSub(r[j])
    <2>1. CASE subs = {}
      BY <1>1, <1>3, <2>1
    <2>2. CASE subs # {}
      <3>1. at = Min(subs) /\ at \in 1 .. n /\ \A j \in subs : at <= j
        BY <1>1, <1>4, <2>2
      <3> HIDE DEF at
      <3>2. \A j \in 1 .. at - 1 : j \in 1 .. Len(r) /\ ~(at <= j)
        BY <1>3, <3>1
      <3>3. c = at - 1
        BY <3>1
      <3> HIDE DEF c
      <3> QED
        BY <1>3, <3>1, <3>2, <3>3
    <2> QED
      BY <2>1, <2>2
  <1>6. flag \in Seq(T) /\ Len(flag) = 2 /\ flag[1] = V1 /\ flag[2] = [k |-> "num", n |-> L]
    OBVIOUS
  <1> HIDE DEF subs, at, c, flag
  <1> DEFINE x == SubSeq(r, 1, c)
             y == SubSeq(r, c + 1, Len(r))
             z == x \o flag
  <1>7. r \in Seq(T)
    OBVIOUS
  <1> HIDE DEF T, L, N
  <1>8. /\ x \in Seq(T) /\ Len(x) = c /\ \A j \in 1 .. c : x[j] = r[j]
        /\ y \in Seq(T) /\ Len(y) = n - c /\ \A j \in 1 .. n - c : y[j] = r[j + c]
    BY <1>3, <1>5, <1>7
  <1> HIDE DEF x, y
  <1>9. /\ z \in Seq(T) /\ Len(z) = c + 2
        /\ \A j \in 1 .. c + 2 : z[j] = IF j <= c THEN x[j] ELSE flag[j - c]
    <2>1. /\ z \in Seq(T) /\ Len(z) = Len(x) + Len(flag)
          /\ \A j \in 1 .. Len(x) + Len(flag) :
               z[j] = IF j <= Len(x) THEN x[j] ELSE flag[j - Len(x)]
      <3>1. x \in Seq(T) /\ flag \in Seq(T)
        BY <1>6, <1>8
      <3> QED
        BY <3>1, ConcatProperties
    <2>2. Len(x) = c /\ Len(flag) = 2
      BY <1>6, <1>8
    <2> QED
      BY <2>1, <2>2
  <1> HIDE DEF z
  <1>10. (c + 2) + (n - c) = n + 2 /\ n - c \in Nat
    BY <1>3, <1>5
  <1>11. /\ z \o y \in Seq(T) /\ Len(z \o y) = n + 2
         /\ \A j \in 1 .. n + 2 : (z \o y)[j] = IF j <= c + 2 THEN z[j] ELSE y[j - (c + 2)]
    <2>1. /\ z \o y \in Seq(T) /\ Len(z \o y) = Len(z) + Len(y)
          /\ \A j \in 1 .. Len(z) + Len(y) :
               (z \o y)[j] = IF j <= Len(z) THEN z[j] ELSE y[j - Len(z)]
      <3>1. z \in Seq(T) /\ y \in Seq(T)
        BY <1>8, <1>9
      <3> QED
        BY <3>1, ConcatProperties
    <2>2. Len(z) = c + 2 /\ Len(z) + Len(y) = n + 2
      BY <1>8, <1>9, <1>10
    <2> QED
      BY <2>1, <2>2
  <1>12. ASSUME L # 0 PROVE N = z \o y
    BY <1>2, <1>12 DEF x, y, z
  <1>13. /\ (z \o y)[c + 1] = V1
         /\ (z \o y)[c + 2] = [k |-> "num", n |-> L]
    <2>1. /\ c + 1 \in 1 .. n + 2 /\ c + 1 \in 1 .. c + 2 /\ (c + 1) - c = 1
          /\ c + 2 \in 1 .. n + 2 /\ c + 2 \in 1 .. c + 2 /\ (c + 2) - c = 2
          /\ ~(c + 1 <= c) /\ ~(c + 2 <= c) /\ c + 1 <= c + 2
      BY <1>3, <1>5
    <2> QED
      BY <1>6, <1>9, <1>11, <2>1
  <1>14. ASSUME NEW j \in 1 .. c PROVE (z \o y)[j] = r[j]
    <2>1. j \in 1 .. n + 2 /\ j \in 1 .. c + 2 /\ j <= c + 2 /\ j <= c
      BY <1>3, <1>5
    <2> QED
      BY <1>8, <1>9, <1>11, <2>1
  <1>15. ASSUME NEW j \in c + 1 .. n PROVE (z \o y)[j + 2] = r[j]
    <2>1. /\ j + 2 \in 1 .. n + 2 /\ ~(j + 2 <= c + 2) /\ (j + 2) - (c + 2) = j - c
          /\ j - c \in 1 .. n - c /\ (j - c) + c = j
      BY <1>3, <1>5
    <2> QED
      BY <1>8, <1>11, <2>1
  <1>16. L = 0 => N = r
    BY <1>2
  <1>17. Inserted(z \o y, r, c, L)
    <2>1. Len(z \o y) = Len(r) + 2
      BY <1>11
    <2>2. \A j \in 1 .. c : (z \o y)[j] = r[j]
      BY <1>14
    <2>3. \A j \in c + 1 .. Len(r) : (z \o y)[j + 2] = r[j]
      BY <1>15
    <2> QED
      BY <1>13, <2>1, <2>2, <2>3 DEF Inserted
  <1>18. \E W : N \in Seq(W)
    BY <1>11, <1>12, <1>16
  <1>19. L # 0 => Inserted(N, r, c, L) /\ c \in 0 .. Len(r)
    BY <1>5, <1>12, <1>17
  <1> QED
    BY <1>16, <1>18, <1>19 DEF L, N

LEMMA NormalizedSeq ==
  ASSUME NEW S, NEW a \in Seq(S)
  PROVE  \E T : Normalized(a) \in Seq(T)
  <1> DEFINE r == Rest(a)
  <1>1. r \in Seq(S)
    <2>1. Kept(a) \in SUBSET DOMAIN a /\ r = Picked(a, Kept(a))
      BY DEF Kept, Rest
    <2> HIDE DEF r
    <2> QED
      BY <2>1, PickedFacts
  <1>2. Rest(a) = r
    OBVIOUS
  <1> HIDE DEF r
  <1> QED
    BY <1>1, <1>2, NormalizedFacts

\* What the parser accepts has one level at most, and options only behind the
\* subcommand.
LEMMA AcceptedFacts ==
  ASSUME NEW T, NEW t \in Seq(T), Accepted(t)
  PROVE  /\ SubAt(t) \in 1 .. Len(t) /\ IsSub(t[SubAt(t)])
         /\ \A i \in 1 .. Len(t) : t[i].k = "opt" <=> i > SubAt(t)
         /\ \A i \in 1 .. Len(t) : t[i].k = "v" =>
              t[i] = V1 /\ i + 1 \in 1 .. Len(t) /\ Level(t) = t[i + 1].n
         /\ \A i \in 1 .. Len(t) : t[i].k = "v=" => IsU8(t[i]) /\ Level(t) = t[i].n
         /\ \A i, j \in 1 .. Len(t) :
              t[i].k \in {"v", "v="} /\ t[j].k \in {"v", "v="} => i = j
         /\ (\A i \in 1 .. Len(t) : t[i].k \notin {"v", "v="}) => Level(t) = 0
  <1> DEFINE at == SubAt(t)
             places == {i \in DOMAIN t : IsSub(t[i]) /\ (i = 1 \/ t[i - 1].k # "C")}
             lvls == {i \in 1 .. at - 1 : IsLevel(t, i) \/ IsLong(t, i)}
  <1>1. Len(t) \in Nat /\ DOMAIN t = 1 .. Len(t)
    OBVIOUS
  <1>2. at = (IF places = {} THEN 0 ELSE CHOOSE i \in places : \A j \in places : i <= j) /\ at > 0
    BY DEF SubAt, Accepted
  <1>3. at \in places
    <2>1. places \in SUBSET Nat
      BY <1>1
    <2> HIDE DEF places
    <2> QED
      BY <1>2, <2>1, LeastFacts
  <1>4. at \in 1 .. Len(t) /\ t[at].k = "sub"
    BY <1>1, <1>3 DEF IsSub
  <1>5. /\ \A i \in 1 .. at - 1 :
             \/ IsLevel(t, i) \/ IsLong(t, i) \/ IsDir(t, i)
             \/ t[i].k \in {"v", "C"} /\ (IsLevel(t, i + 1) \/ IsDir(t, i + 1))
        /\ \A i, j \in 1 .. at - 1 :
             t[i].k \in {"v", "v="} /\ t[j].k \in {"v", "v="} => i = j
        /\ \A i \in at + 1 .. Len(t) : t[i].k = "opt"
    BY DEF Accepted, GoodTop
  <1>6. Level(t) = IF lvls = {} THEN 0 ELSE t[CHOOSE i \in lvls : TRUE].n
    BY DEF Level
  <1> HIDE DEF at, places
  <1>7. \A i \in 1 .. Len(t) : i \in 1 .. at - 1 \/ i = at \/ i \in at + 1 .. Len(t)
    BY <1>1, <1>4
  <1>8. ASSUME NEW i \in 1 .. at - 1 PROVE t[i].k # "opt"
    BY <1>5 DEF IsLevel, IsLong, IsDir, IsValue, IsU8
  <1>9. \A i \in 1 .. Len(t) : t[i].k = "opt" <=> i > at
    <2>1. ASSUME NEW i \in 1 .. Len(t) PROVE t[i].k = "opt" <=> i > at
      <3>1. CASE i \in 1 .. at - 1
        <4>1. ~(i > at)
          BY <1>4, <3>1
        <4> QED
          BY <1>8, <3>1, <4>1
      <3>2. CASE i = at
        BY <1>4, <3>2
      <3>3. CASE i \in at + 1 .. Len(t)
        <4>1. i > at
          BY <1>4, <3>3
        <4> QED
          BY <1>5, <3>3, <4>1
      <3> QED
        BY <1>7, <3>1, <3>2, <3>3
    <2> QED
      BY <2>1
  <1>10. \A i \in 1 .. Len(t) : t[i].k \in {"v", "v="} => i \in 1 .. at - 1
    BY <1>4, <1>5, <1>7
  <1>11. \A i, j \in 1 .. Len(t) : t[i].k \in {"v", "v="} /\ t[j].k \in {"v", "v="} => i = j
    BY <1>5, <1>10
  <1>12. ASSUME NEW i \in lvls, NEW j \in lvls PROVE i = j
    <2>1. \A h \in lvls : \/ h \in 1 .. Len(t) /\ t[h].k = "v=" /\ h \in Int
                          \/ h - 1 \in 1 .. Len(t) /\ t[h - 1].k = "v" /\ t[h].k = "num" /\ h \in Int
      <3>1. ASSUME NEW h \in lvls
            PROVE  \/ h \in 1 .. Len(t) /\ t[h].k = "v=" /\ h \in Int
                   \/ h - 1 \in 1 .. Len(t) /\ t[h - 1].k = "v" /\ t[h].k = "num" /\ h \in Int
        <4>1. h \in 1 .. Len(t) /\ (h > 1 => h - 1 \in 1 .. Len(t))
          BY <1>1, <1>4
        <4> QED
          BY <4>1 DEF IsLevel, IsLong, IsU8
      <3> QED
        BY <3>1
    <2> HIDE DEF lvls
    <2>2. i = j \/ i - 1 = j - 1 \/ i = j - 1 \/ i - 1 = j
      BY <1>11, <2>1
    <2>3. i \in Int /\ j \in Int
      BY <2>1
    <2>4. \/ ~(i = j - 1)
          \/ (t[i].k = "v" /\ t[i].k = "num") \/ (t[i].k = "v" /\ t[i].k = "v=") \/ t[j].k = "v="
      BY <2>1
    <2>5. \/ ~(i - 1 = j)
          \/ (t[j].k = "v" /\ t[j].k = "num") \/ (t[j].k = "v" /\ t[j].k = "v=") \/ t[i].k = "v="
      BY <2>1
    <2> QED
      BY <1>11, <2>1, <2>2, <2>3, <2>4, <2>5
  <1>13. \A i \in lvls : Level(t) = t[i].n
    <2> HIDE DEF lvls
    <2> QED
      BY <1>6, <1>12
  <1>14. ASSUME NEW i \in 1 .. Len(t), t[i].k = "v"
         PROVE  t[i] = V1 /\ i + 1 \in 1 .. Len(t) /\ Level(t) = t[i + 1].n
    <2>1. i \in 1 .. at - 1
      BY <1>10, <1>14
    <2>2. IsLevel(t, i + 1)
      BY <1>5, <1>14, <2>1 DEF IsLevel, IsLong, IsDir, IsValue, IsU8
    <2>3. t[i] = V1 /\ t[i + 1].k = "num"
      BY <2>2 DEF IsLevel, V1
    <2>4. i + 1 # at
      BY <1>4, <2>3
    <2>5. i + 1 \in 1 .. at - 1 /\ i + 1 \in 1 .. Len(t)
      BY <1>1, <1>4, <2>1, <2>4
    <2> QED
      BY <1>13, <2>2, <2>3, <2>5
  <1>15. ASSUME NEW i \in 1 .. Len(t), t[i].k = "v="
         PROVE  IsU8(t[i]) /\ Level(t) = t[i].n
    <2>1. i \in 1 .. at - 1
      BY <1>10, <1>15
    <2>2. IsLong(t, i)
      BY <1>5, <1>15, <2>1 DEF IsLevel, IsLong, IsDir, IsValue, IsU8
    <2> QED
      BY <1>13, <2>1, <2>2 DEF IsLong
  <1>16. ASSUME \A i \in 1 .. Len(t) : t[i].k \notin {"v", "v="} PROVE Level(t) = 0
    <2>1. ASSUME NEW i \in lvls PROVE FALSE
      <3>1. i \in 1 .. Len(t) /\ (i > 1 => i - 1 \in 1 .. Len(t))
        BY <1>1, <1>4
      <3> QED
        BY <1>16, <3>1 DEF IsLevel, IsLong
    <2> QED
      BY <1>6, <2>1
  <1> QED
    BY <1>4, <1>9, <1>11, <1>14, <1>15, <1>16 DEF at, IsSub

\* The greatest of some places.
LEMMA MostFacts ==
  ASSUME NEW n \in Nat, NEW I \in SUBSET (1 .. n), I # {}
  PROVE  Max(I) \in I /\ \A j \in I : j <= Max(I)
  <1> DEFINE J == {n - i : i \in I}
  <1>1. J \in SUBSET Nat /\ J # {}
    <2>1. \A i \in I : n - i \in Nat
      OBVIOUS
    <2> QED
      BY <2>1
  <1> HIDE DEF J
  <1>2. Min(J) \in J /\ \A j \in J : Min(J) <= j
    BY <1>1, LeastFacts
  <1>3. PICK m \in I : Min(J) = n - m
    BY <1>2 DEF J
  <1>4. ASSUME NEW j \in I PROVE m >= j
    <2>1. n - m <= n - j
      BY <1>2, <1>3 DEF J
    <2> QED
      BY <2>1
  <1> QED
    BY <1>4 DEF Max

\* A token about the level.
Spoken(t) == t.k \in {"v", "v="}

\* The numbers and letters that are read, and the letters that are there.
Explicit(a) == {i \in DOMAIN a : \/ IsNumber(a, i)
                                 \/ ~Taken(a, i) /\ a[i].k = "v=" /\ IsU8(a[i])}
Counted(a) == [i \in DOMAIN a |-> Letters(a, i)]
Spelled(a) == [i \in {j \in DOMAIN a : a[j].k = "v"} |-> a[i].n]

\* A number stands behind a lone -v, and what is kept says no level unless a -v has
\* taken it.
LEMMA ExplicitFacts ==
  ASSUME NEW S, NEW a \in Seq(S), \A i \in DOMAIN a : Token(a[i])
  PROVE  /\ Explicit(a) \subseteq Numbered(a)
         /\ \A i \in DOMAIN a : IsV(a[i]) => a[i] = V1
         /\ \A i \in DOMAIN a : Taken(a, i) =>
              i - 1 \in DOMAIN a /\ a[i - 1] = V1 /\ ~Taken(a, i - 1)
         /\ \A i \in DOMAIN a : i > 1 /\ a[i - 1] = V1 /\ ~Taken(a, i - 1) => Taken(a, i)
         /\ \A i \in Kept(a) : Spoken(a[i]) => Taken(a, i) \/ (a[i].k = "v=" /\ ~IsU8(a[i]))
         /\ \A i \in DOMAIN a : Spoken(a[i]) /\ Taken(a, i) => i \in Kept(a)
  <1>1. Len(a) \in Nat /\ DOMAIN a = 1 .. Len(a)
    OBVIOUS
  <1>2. \A i \in DOMAIN a : IsV(a[i]) => a[i] = V1
    BY DEF Token, IsV, V1
  <1>3. ASSUME NEW i \in DOMAIN a, Taken(a, i)
        PROVE  i - 1 \in DOMAIN a /\ a[i - 1] = V1 /\ ~Taken(a, i - 1)
    <2>1. i > 1 /\ Reads(a, i - 1) /\ i - 1 \in DOMAIN a /\ i - 1 \in Nat \ {0}
      BY <1>1, <1>3 DEF Taken
    <2> QED
      BY <1>2, <2>1, ReadsFacts
  <1>4. ASSUME NEW i \in DOMAIN a, i > 1, a[i - 1] = V1, ~Taken(a, i - 1) PROVE Taken(a, i)
    <2>1. i - 1 \in Nat \ {0} /\ IsV(a[i - 1])
      BY <1>1, <1>4 DEF IsV, V1
    <2> QED
      BY <1>4, <2>1, ReadsFacts DEF Taken
  <1>5. \A i \in Kept(a) : Spoken(a[i]) => Taken(a, i) \/ (a[i].k = "v=" /\ ~IsU8(a[i]))
    BY DEF Kept, Spoken, IsFlag
  <1>6. \A i \in DOMAIN a : Spoken(a[i]) /\ Taken(a, i) => i \in Kept(a)
    BY DEF Kept, Spoken, IsNumber
  <1>7. ASSUME NEW i \in Explicit(a) PROVE i \in Numbered(a)
    <2>1. CASE IsNumber(a, i)
      <3>1. i \in DOMAIN a /\ Taken(a, i) /\ a[i].k = "num" /\ IsU8(a[i]) /\ i > 1
        BY <2>1, <1>7 DEF IsNumber, Taken, Explicit
      <3> QED
        BY <1>3, <3>1 DEF Numbered, IsLevel, V1
    <2>2. CASE ~Taken(a, i) /\ a[i].k = "v=" /\ IsU8(a[i])
      BY <1>7, <2>2 DEF Numbered, IsLong, Explicit
    <2> QED
      BY <1>7, <2>1, <2>2 DEF Explicit
  <1> QED
    BY <1>2, <1>3, <1>4, <1>5, <1>6, <1>7

\* When nothing that is kept says a level, the level is the one asked for.
LEMMA NoneKept ==
  ASSUME NEW S, NEW a \in Seq(S), \A i \in DOMAIN a : Token(a[i]),
         \A i \in Kept(a) : ~Spoken(a[i])
  PROVE  LevelOf(a) = Asked(a)
  <1>1. /\ Explicit(a) \subseteq Numbered(a)
        /\ \A i \in DOMAIN a : IsV(a[i]) => a[i] = V1
        /\ \A i \in DOMAIN a : Taken(a, i) => i - 1 \in DOMAIN a /\ a[i - 1] = V1
        /\ \A i \in DOMAIN a : i > 1 /\ a[i - 1] = V1 /\ ~Taken(a, i - 1) => Taken(a, i)
        /\ \A i \in DOMAIN a : Spoken(a[i]) => ~Taken(a, i)
    BY ExplicitFacts
  <1>2. Len(a) \in Nat /\ DOMAIN a = 1 .. Len(a)
    OBVIOUS
  <1>3. ASSUME NEW i \in Numbered(a) PROVE i \in Explicit(a)
    <2>1. CASE IsLevel(a, i)
      <3>1. i \in DOMAIN a /\ i - 1 \in DOMAIN a /\ i > 1 /\ a[i - 1] = V1
        BY <1>2, <1>3, <2>1 DEF IsLevel, Numbered, V1
      <3>2. Taken(a, i)
        BY <1>1, <3>1 DEF Spoken, V1
      <3> QED
        BY <2>1, <3>1, <3>2 DEF Explicit, IsNumber, IsLevel
    <2>2. CASE IsLong(a, i)
      BY <1>1, <1>3, <2>2 DEF Explicit, IsLong, Numbered, Spoken
    <2> QED
      BY <1>3, <2>1, <2>2 DEF Numbered
  <1>4. Explicit(a) = Numbered(a)
    BY <1>1, <1>3
  <1>5. ASSUME Explicit(a) = {} PROVE Total(Counted(a)) = Total(Spelled(a))
    <2>1. ASSUME NEW i \in DOMAIN a, a[i].k = "v" PROVE Letters(a, i) = a[i].n
      <3>1. ~Taken(a, i)
        BY <1>1, <2>1 DEF Spoken
      <3>2. Reads(a, i) <=> IsV(a[i])
        BY <1>2, <3>1, ReadsFacts
      <3>3. i < Len(a) => ~IsNumber(a, i + 1)
        BY <1>2, <1>5 DEF Explicit
      <3> QED
        BY <2>1, <3>1, <3>2, <3>3 DEF Letters, IsV
    <2>2. ASSUME NEW i \in DOMAIN a, a[i].k # "v" PROVE Letters(a, i) = 0
      <3>1. ~Reads(a, i)
        BY <1>2, <2>2, ReadsFacts DEF IsV
      <3> QED
        BY <2>2, <3>1 DEF Letters
    <2>3. ASSUME NEW i \in DOMAIN a, NEW e \in {i} \X (1 .. Letters(a, i)) PROVE e \in Pairs(Spelled(a))
      <3>1. a[i].k = "v"
        BY <2>2, <2>3
      <3> QED
        BY <2>1, <2>3, <3>1 DEF Spelled, Pairs
    <2>4. ASSUME NEW i \in DOMAIN a, a[i].k = "v", NEW e \in {i} \X (1 .. a[i].n)
          PROVE  e \in Pairs(Counted(a))
      BY <2>1, <2>4 DEF Counted, Pairs
    <2>5. \A e \in Pairs(Counted(a)) : e \in Pairs(Spelled(a))
      BY <2>3 DEF Counted, Pairs
    <2>6. \A e \in Pairs(Spelled(a)) : e \in Pairs(Counted(a))
      BY <2>4 DEF Spelled, Pairs
    <2>7. Pairs(Counted(a)) = Pairs(Spelled(a))
      BY <2>5, <2>6
    <2> QED
      BY <2>7 DEF Total
  <1>6. LevelOf(a) = IF Explicit(a) # {} THEN a[Max(Explicit(a))].n
                     ELSE Capped(Total(Counted(a)))
    BY DEF LevelOf, Explicit, Counted
  <1>7. Asked(a) = IF Numbered(a) # {} THEN a[Max(Numbered(a))].n
                   ELSE Capped(Total(Spelled(a)))
    BY DEF Asked, Spelled, Capped
  <1> QED
    BY <1>4, <1>5, <1>6, <1>7

\* The letters that are counted are finitely many.
LEMMA CountedFinite ==
  ASSUME NEW S, NEW a \in Seq(S), \A i \in DOMAIN a : Token(a[i])
  PROVE  IsFiniteSet(Pairs(Counted(a)))
  <1> DEFINE part(i) == {i} \X (1 .. Letters(a, i))
             parts == {part(i) : i \in DOMAIN a}
             f == [i \in DOMAIN a |-> part(i)]
  <1>1. Len(a) \in Nat /\ DOMAIN a = 1 .. Len(a)
    OBVIOUS
  <1>2. \A i \in DOMAIN a : Letters(a, i) \in Nat
    <2>1. \A i \in DOMAIN a : a[i].k = "v" => a[i].n \in Nat
      BY DEF Token
    <2> QED
      BY <2>1 DEF Letters
  <1>3. ASSUME NEW i \in DOMAIN a PROVE IsFiniteSet(part(i))
    <2> DEFINE m == Letters(a, i)
    <2>1. m \in Int
      BY <1>2
    <2> HIDE DEF m
    <2>2. IsFiniteSet(1 .. m)
      BY <2>1, FS_Interval
    <2>3. IsFiniteSet({i})
      BY FS_Singleton
    <2> QED
      BY <2>2, <2>3, FS_Product DEF m
  <1>4. f \in Surjection(DOMAIN a, parts)
    BY DEF Surjection
  <1>5. IsFiniteSet(DOMAIN a)
    BY <1>1, FS_Interval
  <1>6. IsFiniteSet(parts) /\ \A s \in parts : IsFiniteSet(s)
    <2>1. \A s \in parts : IsFiniteSet(s)
      BY <1>3
    <2> HIDE DEF parts, f
    <2> QED
      BY <1>4, <1>5, <2>1, FS_Surjection
  <1>7. Pairs(Counted(a)) = UNION parts
    BY DEF Counted, Pairs
  <1> HIDE DEF parts
  <1> QED
    BY <1>6, <1>7, FS_UNION

\* The level that reaches the parser.
LEMMA LevelFacts ==
  ASSUME NEW S, NEW a \in Seq(S), \A i \in DOMAIN a : Token(a[i]),
         Accepted(Normalized(a))
  PROVE  Level(Normalized(a)) = Asked(a) \/ (Asked(a) = 0 /\ Shadowed(a))
  <1> DEFINE r == Rest(a)
             N == Normalized(a)
             L == LevelOf(a)
             K == Kept(a)
             k(i) == Rank(K, i)
  <1>1. Len(a) \in Nat /\ DOMAIN a = 1 .. Len(a)
    OBVIOUS
  <1>2. /\ r \in Seq(S)
        /\ \A i \in K : k(i) \in 1 .. Len(r) /\ r[k(i)] = a[i] /\ k(i) \in Nat
    <2>1. K \in SUBSET DOMAIN a
      BY DEF Kept
    <2>2. r = Picked(a, K)
      BY DEF Rest
    <2> QED
      BY <2>1, <2>2, PickedFacts
  <1>3. /\ Explicit(a) \subseteq Numbered(a)
        /\ \A i \in DOMAIN a : Taken(a, i) =>
             i - 1 \in DOMAIN a /\ a[i - 1] = V1 /\ ~Taken(a, i - 1)
        /\ \A i \in DOMAIN a : i > 1 /\ a[i - 1] = V1 /\ ~Taken(a, i - 1) => Taken(a, i)
        /\ \A i \in K : Spoken(a[i]) => Taken(a, i) \/ (a[i].k = "v=" /\ ~IsU8(a[i]))
        /\ \A i \in DOMAIN a : Spoken(a[i]) /\ Taken(a, i) => i \in K
    BY ExplicitFacts
  <1>4. (\A i \in K : ~Spoken(a[i])) => L = Asked(a)
    BY NoneKept
  <1>5. LevelOf(a) # 0 => Level(N) = Asked(a)
    <2>1. SUFFICES ASSUME L # 0 PROVE Level(N) = Asked(a)
      OBVIOUS
    <2>1a. PICK c \in 0 .. Len(r) : Inserted(N, r, c, L)
      <3>1. Rest(a) = r
        OBVIOUS
      <3> HIDE DEF r
      <3>2. r \in Seq(S) /\ LevelOf(a) # 0
        BY <1>2, <2>1
      <3> QED
        BY <3>1, <3>2, NormalizedFacts
    <2>2. \E T : N \in Seq(T)
      BY NormalizedSeq
    <2> HIDE DEF r, N, L, K, k
    <2> USE <2>1a DEF Inserted
    <2>3. /\ \A i \in 1 .. Len(N) : N[i].k = "v" => Level(N) = N[i + 1].n
          /\ \A i, j \in 1 .. Len(N) : Spoken(N[i]) /\ Spoken(N[j]) => i = j
      BY <2>2, AcceptedFacts DEF N, Spoken
    <2>4. Len(r) \in Nat /\ c + 1 \in 1 .. Len(N) /\ (c + 1) + 1 = c + 2
      BY <1>2, <2>2
    <2>5. Level(N) = L
      BY <2>2, <2>3, <2>4 DEF V1
    <2>6. ASSUME NEW j \in 1 .. Len(r) PROVE ~Spoken(r[j])
      <3>1. CASE j \in 1 .. c
        <4>1. j \in 1 .. Len(N) /\ j # c + 1
          BY <2>2, <2>4, <3>1
        <4> QED
          BY <2>2, <2>3, <2>4, <3>1, <4>1 DEF Spoken, V1
      <3>2. CASE j \in c + 1 .. Len(r)
        <4>1. j + 2 \in 1 .. Len(N) /\ j + 2 # c + 1
          BY <2>2, <2>4, <3>2
        <4> QED
          BY <2>2, <2>3, <2>4, <3>2, <4>1 DEF Spoken, V1
      <3> QED
        BY <2>2, <2>4, <3>1, <3>2
    <2>7. \A i \in K : ~Spoken(a[i])
      BY <1>2, <2>6
    <2> QED
      BY <1>4, <2>5, <2>7
  <1>6. LevelOf(a) = 0 => Level(N) = Asked(a) \/ (Asked(a) = 0 /\ Shadowed(a))
    <2>1. SUFFICES ASSUME L = 0 PROVE Level(N) = Asked(a) \/ (Asked(a) = 0 /\ Shadowed(a))
      OBVIOUS
    <2>2. N = r
      <3> HIDE DEF r, N, L
      <3> QED
        BY <1>2, <2>1, NormalizedFacts DEF r, N, L
    <2>3. /\ \A i \in 1 .. Len(r) : r[i].k = "v" => i + 1 \in 1 .. Len(r) /\ Level(N) = r[i + 1].n
          /\ \A i \in 1 .. Len(r) : r[i].k = "v=" => IsU8(r[i]) /\ Level(N) = r[i].n
          /\ (\A i \in 1 .. Len(r) : r[i].k \notin {"v", "v="}) => Level(N) = 0
      <3> HIDE DEF r, N
      <3> QED
        BY <1>2, <2>2, AcceptedFacts DEF N
    <2>4. CASE \A i \in K : ~Spoken(a[i])
      <3>1. \A j \in 1 .. Len(r) : \E i \in K : r[j] = a[i]
        <4>1. K \in SUBSET DOMAIN a /\ r = Picked(a, K)
          BY DEF Kept, Rest
        <4>2. /\ Len(r) = Cardinality(K)
              /\ \A i \in K : r[Rank(K, i)] = a[i]
              /\ \A j \in 1 .. Cardinality(K) : \E i \in K : Rank(K, i) = j
          <5> HIDE DEF K, r
          <5> QED
            BY <4>1, PickedFacts
        <4> HIDE DEF K, r
        <4> QED
          BY <4>2
      <3> HIDE DEF r, N, L, K, k
      <3>2. Level(N) = 0
        BY <2>3, <2>4, <3>1 DEF Spoken
      <3> QED
        BY <1>4, <2>1, <2>4, <3>2
    <2>5. CASE \E i \in K : Spoken(a[i])
      <3>1. PICK i \in K : Spoken(a[i])
        BY <2>5
      <3>2. i \in DOMAIN a
        BY DEF Kept
      <3> HIDE DEF r, N, L, K, k
      <3>3. Taken(a, i)
        BY <1>2, <1>3, <2>3, <3>1
      <3>4. i - 1 \in DOMAIN a /\ a[i - 1] = V1 /\ ~Taken(a, i - 1) /\ i - 1 \in Nat \ {0}
        BY <1>1, <1>3, <3>2, <3>3
      <3>5. Shadowed(a)
        <4>1. i - 1 \in 1 .. Len(a) - 1 /\ (i - 1) + 1 = i
          BY <1>1, <3>2, <3>4
        <4> QED
          BY <3>1, <3>4, <4>1 DEF Shadowed, Spoken, V1
      <3>6. Explicit(a) # {} /\ a[Max(Explicit(a))].n = 0
        <4>1. L = IF Explicit(a) # {} THEN a[Max(Explicit(a))].n
                  ELSE Capped(Total(Counted(a)))
          BY DEF LevelOf, Explicit, Counted, L
        <4>2. <<i - 1, 1>> \in Pairs(Counted(a))
          <5>1. Reads(a, i - 1) /\ ~IsNumber(a, i) /\ (i - 1) + 1 = i
            <6>1. IsV(a[i - 1])
              BY <3>4 DEF IsV, V1
            <6>2. Reads(a, i - 1)
              BY <3>4, <6>1, ReadsFacts
            <6>3. ~IsNumber(a, i)
              BY <3>1 DEF IsNumber, Spoken
            <6>4. i \in Int
              BY <1>1, <3>2
            <6> QED
              BY <6>2, <6>3, <6>4
          <5>2. Letters(a, i - 1) = 1
            BY <5>1 DEF Letters
          <5>3. <<i - 1, 1>> \in {i - 1} \X (1 .. Letters(a, i - 1))
            BY <5>2
          <5> QED
            BY <3>4, <5>3 DEF Counted, Pairs
        <4>3. Total(Counted(a)) \in Nat /\ Total(Counted(a)) # 0
          BY <4>2, CountedFinite, FS_CardinalityType, FS_EmptySet DEF Total
        <4>4. Capped(Total(Counted(a))) # 0
          BY <4>3, U8MaxOK DEF Capped
        <4> QED
          BY <2>1, <4>1, <4>4
      <3>7. ASSUME NEW j \in Numbered(a), j \notin Explicit(a) PROVE a[j].n = Level(N)
        <4>1. j \in DOMAIN a /\ j \in Nat \ {0}
          BY <1>1 DEF Numbered
        <4>2. CASE IsLong(a, j)
          <5>1. a[j].k = "v=" /\ Taken(a, j)
            BY <3>7, <4>1, <4>2 DEF Explicit, IsLong
          <5>2. j \in K
            BY <1>3, <4>1, <5>1 DEF Spoken
          <5> QED
            BY <1>2, <2>3, <5>1, <5>2
        <4>3. CASE IsLevel(a, j)
          <5>1. /\ j - 1 \in DOMAIN a /\ a[j - 1] = V1 /\ j > 1 /\ (j - 1) + 1 = j
                /\ a[j].k = "num" /\ IsU8(a[j])
            BY <1>1, <4>1, <4>3 DEF IsLevel, V1
          <5>2. ~Taken(a, j)
            BY <3>7, <4>1, <5>1 DEF Explicit, IsNumber
          <5>3. Taken(a, j - 1)
            BY <1>3, <4>1, <5>1, <5>2
          <5>4. j - 1 \in K
            BY <1>3, <5>1, <5>3 DEF Spoken, V1
          <5>5. j \in K
            BY <4>1, <5>1, <5>2 DEF K, Kept, IsFlag
          <5>6. k(j) = k(j - 1) + 1
            <6>1. K \in SUBSET DOMAIN a
              BY DEF K, Kept
            <6> QED
              BY <5>1, <5>4, <5>5, <6>1, NextRank DEF k
          <5>7. r[k(j - 1)].k = "v" /\ r[k(j - 1) + 1] = a[j] /\ k(j - 1) \in 1 .. Len(r)
            BY <1>2, <5>1, <5>4, <5>5, <5>6 DEF V1
          <5> QED
            BY <2>3, <5>7
        <4> QED
          BY <4>2, <4>3 DEF Numbered
      <3>8. Asked(a) = a[Max(Numbered(a))].n
        BY <1>3, <3>6 DEF Asked
      <3>9. /\ Max(Numbered(a)) \in Numbered(a) /\ \A j \in Numbered(a) : j <= Max(Numbered(a))
            /\ Max(Explicit(a)) \in Explicit(a) /\ \A j \in Explicit(a) : j <= Max(Explicit(a))
            /\ Numbered(a) \subseteq Nat
        <4>1. Numbered(a) \in SUBSET (1 .. Len(a)) /\ Explicit(a) \in SUBSET (1 .. Len(a))
          BY <1>1 DEF Numbered, Explicit
        <4>2. Numbered(a) # {} /\ Explicit(a) # {} /\ Len(a) \in Nat
          BY <1>1, <1>3, <3>6
        <4>3. Max(Numbered(a)) \in Numbered(a) /\ \A j \in Numbered(a) : j <= Max(Numbered(a))
          BY <4>1, <4>2, MostFacts
        <4>4. Max(Explicit(a)) \in Explicit(a) /\ \A j \in Explicit(a) : j <= Max(Explicit(a))
          BY <4>1, <4>2, MostFacts
        <4> QED
          BY <4>1, <4>3, <4>4
      <3>10. CASE Max(Numbered(a)) \in Explicit(a)
        <4>1. Max(Numbered(a)) = Max(Explicit(a))
          BY <1>3, <3>9, <3>10
        <4> QED
          BY <3>5, <3>6, <3>8, <4>1
      <3> QED
        BY <3>7, <3>8, <3>9, <3>10
    <2> QED
      BY <2>4, <2>5
  <1> QED
    BY <1>5, <1>6

\* The second parse sees the options, all of them and nothing else.
OptionsAt(a) == {i \in DOMAIN a : a[i].k = "opt"}

LEMMA AfterFacts ==
  ASSUME NEW S, NEW a \in Seq(S), \A i \in DOMAIN a : Token(a[i]),
         Accepted(Normalized(a)), ~Ambiguous(Normalized(a))
  PROVE  ArgsAfter(Normalized(a), Command(Normalized(a))) = Picked(a, OptionsAt(a))
  <1> DEFINE r == Rest(a)
             N == Normalized(a)
             K == Kept(a)
             at == SubAt(N)
             n == Len(r)
             named == {i \in 1 .. Len(N) : IsSub(N[i]) /\ N[i].name = Command(N)}
  <1>1. Len(a) \in Nat /\ DOMAIN a = 1 .. Len(a) /\ K \in SUBSET DOMAIN a /\ r = Picked(a, K)
    BY DEF Kept, Rest
  <1>2. /\ r \in Seq(S) /\ n = Cardinality(K) /\ n \in Nat
        /\ \A i \in K : Rank(K, i) \in 1 .. n /\ r[Rank(K, i)] = a[i]
        /\ \A j \in 1 .. n : \E i \in K : Rank(K, i) = j
    <2> HIDE DEF r, K
    <2> QED
      BY <1>1, PickedFacts
  <1>3. \A j \in 1 .. n : Token(r[j])
    BY <1>1, <1>2
  <1>4. \A i \in DOMAIN a : a[i].k = "opt" => i \in K
    BY DEF Kept, IsNumber, IsFlag
  <1>5. LevelOf(a) = 0 => N = r
    <2>1. Rest(a) = r
      OBVIOUS
    <2> HIDE DEF r
    <2> QED
      BY <1>2, <2>1, NormalizedFacts
  <1>6. LevelOf(a) # 0 => \E c \in 0 .. n : Inserted(N, r, c, LevelOf(a))
    <2>1. Rest(a) = r
      OBVIOUS
    <2> HIDE DEF r
    <2>2. r \in Seq(S)
      BY <1>2
    <2> QED
      BY <2>1, <2>2, NormalizedFacts
  <1>6a. \E T : N \in Seq(T)
    BY NormalizedSeq
  <1> HIDE DEF r, K, N
  <1>7. (\E T : N \in Seq(T)) /\ \A i \in 1 .. Len(N) : IsSub(N[i]) => Token(N[i])
    <2>1. CASE LevelOf(a) = 0
      BY <1>2, <1>3, <1>5, <1>6a, <2>1
    <2>2. CASE LevelOf(a) # 0
      <3>1. PICK c \in 0 .. n :
              /\ Len(N) = n + 2
              /\ N[c + 1] = V1 /\ N[c + 2] = [k |-> "num", n |-> LevelOf(a)]
              /\ \A j \in 1 .. c : N[j] = r[j]
              /\ \A j \in c + 1 .. n : N[j + 2] = r[j]
        BY <1>6, <2>2 DEF Inserted
      <3>2. ASSUME NEW i \in 1 .. Len(N), IsSub(N[i]) PROVE Token(N[i])
        <4>1. CASE i \in 1 .. c
          BY <1>2, <1>3, <3>1, <4>1
        <4>2. CASE i = c + 1 \/ i = c + 2
          BY <3>1, <3>2, <4>2 DEF IsSub, V1
        <4>3. CASE i > c + 2
          <5>1. i - 2 \in c + 1 .. n /\ i - 2 \in 1 .. n /\ (i - 2) + 2 = i
            BY <1>2, <3>1, <4>3
          <5>2. N[i] = r[i - 2]
            BY <3>1, <5>1
          <5> QED
            BY <1>3, <5>1, <5>2
        <4>4. i \in 1 .. c \/ i = c + 1 \/ i = c + 2 \/ i > c + 2
          <5>1. c \in Nat /\ i \in Nat \ {0}
            BY <1>2
          <5> QED
            BY <5>1
        <4> QED
          BY <4>1, <4>2, <4>3, <4>4
      <3> QED
        BY <1>6a, <3>2
    <2> QED
      BY <2>1, <2>2
  <1>8. /\ at \in 1 .. Len(N) /\ IsSub(N[at])
        /\ \A i \in 1 .. Len(N) : N[i].k = "opt" <=> i > at
        /\ Len(N) \in Nat
    <2>1. PICK T : N \in Seq(T)
      BY <1>7
    <2> QED
      BY <2>1, AcceptedFacts DEF N
  <1>9. ArgsAfter(N, Command(N)) = SubSeq(N, at + 1, Len(N))
    <2>1. at \in named
      BY <1>8 DEF Command
    <2>2. ASSUME NEW i \in named PROVE ~(i < at)
      <3>1. i \in 1 .. Len(N) /\ N[i] = N[at]
        BY <1>7, <1>8 DEF Token, IsSub, Command
      <3>2. i < at => i \in 1 .. at - 1
        BY <1>8
      <3> QED
        BY <3>1, <3>2 DEF Ambiguous, N
    <2>3. Min(named) \in named /\ \A j \in named : Min(named) <= j
      <3>1. named \in SUBSET Nat /\ named # {}
        BY <2>1
      <3> HIDE DEF named
      <3> QED
        BY <3>1, LeastFacts
    <2>4. named \subseteq Int
      OBVIOUS
    <2>5. ArgsAfter(N, Command(N)) =
            SubSeq(N, (IF named # {} THEN Min(named) ELSE 0) + 1, Len(N))
      BY DEF ArgsAfter, SelectInSeq
    <2> HIDE DEF named, at
    <2>6. Min(named) = at
      <3>1. PICK m : m = Min(named)
        OBVIOUS
      <3>2. m \in Int /\ at \in Int /\ m <= at /\ ~(m < at)
        BY <2>1, <2>2, <2>3, <2>4, <3>1
      <3> QED
        BY <3>1, <3>2
    <2> QED
      BY <2>1, <2>5, <2>6
  <1> DEFINE Ends(e) == /\ e \in 0 .. n
                        /\ \A j \in 1 .. n : r[j].k = "opt" <=> j > e
  <1>10. ASSUME NEW e, Ends(e)
         PROVE  Picked(a, OptionsAt(a)) = SubSeq(r, e + 1, n)
    <2>1. OptionsAt(a) = {i \in K : Rank(K, i) > e}
      <3>1. \A i \in K : a[i].k = "opt" <=> Rank(K, i) > e
        BY <1>2, <1>10
      <3> HIDE DEF Ends
      <3> QED
        BY <1>1, <1>4, <3>1 DEF OptionsAt
    <2>2. e \in 0 .. Cardinality(K)
      BY <1>2, <1>10
    <2>3. Picked(a, {i \in K : Rank(K, i) > e}) = SubSeq(Picked(a, K), e + 1, Cardinality(K))
      BY <1>1, <2>2, TailPicked
    <2> QED
      BY <1>1, <1>2, <2>1, <2>3
  <1>11. CASE LevelOf(a) = 0
    <2>1. N = r /\ Len(N) = n
      BY <1>5, <1>11
    <2>2. Ends(at)
      BY <1>2, <1>8, <2>1
    <2> HIDE DEF Ends, at, n
    <2> QED
      BY <1>9, <1>10, <2>1, <2>2 DEF N
  <1>12. CASE LevelOf(a) # 0
    <2>1. PICK c \in 0 .. n :
              /\ Len(N) = n + 2
              /\ N[c + 1] = V1 /\ N[c + 2] = [k |-> "num", n |-> LevelOf(a)]
              /\ \A j \in 1 .. c : N[j] = r[j]
              /\ \A j \in c + 1 .. n : N[j + 2] = r[j]
      BY <1>6, <1>12 DEF Inserted
    <2> HIDE DEF at, n
    <2>2. at > c + 2
      <3>1. c + 1 \in 1 .. Len(N) /\ c + 2 \in 1 .. Len(N)
        BY <1>2, <2>1
      <3>2. N[c + 1].k = "v" /\ N[c + 2].k = "num"
        BY <2>1 DEF V1
      <3>3. ~(c + 1 > at) /\ ~(c + 2 > at) /\ c + 1 # at /\ c + 2 # at
        BY <1>8, <3>1, <3>2 DEF IsSub
      <3> QED
        BY <1>2, <1>8, <2>1, <3>3
    <2> DEFINE e == at - 2
    <2>3. e \in 0 .. n /\ e \in Nat /\ e > c /\ at = e + 2 /\ at \in Nat /\ c \in Nat
      BY <1>2, <1>8, <2>1, <2>2
    <2> HIDE DEF e
    <2>4. ASSUME NEW j \in 1 .. n PROVE r[j].k = "opt" <=> j > e
      <3>1. CASE j \in 1 .. c
        <4>1. j \in 1 .. Len(N) /\ ~(j > at) /\ ~(j > e)
          BY <1>2, <2>1, <2>3, <3>1
        <4> QED
          BY <1>8, <2>1, <3>1, <4>1
      <3>2. CASE j \in c + 1 .. n
        <4>1. j + 2 \in 1 .. Len(N) /\ (j + 2 > at <=> j > e)
          BY <1>2, <2>1, <2>3, <3>2
        <4> QED
          BY <1>8, <2>1, <3>2, <4>1
      <3> QED
        BY <1>2, <2>1, <3>1, <3>2
    <2>5. SubSeq(N, at + 1, Len(N)) = SubSeq(r, e + 1, n)
      <3> DEFINE x == SubSeq(N, at + 1, Len(N))
                 y == SubSeq(r, e + 1, n)
      <3>1. PICK W : /\ \A i \in 1 .. Len(N) : N[i] \in W
                     /\ \A i \in 1 .. n : r[i] \in W
        <4>1. PICK T : N \in Seq(T)
          BY <1>7
        <4>2. /\ \A i \in 1 .. Len(N) : N[i] \in T \cup S
              /\ \A i \in 1 .. n : r[i] \in T \cup S
          BY <1>2, <4>1 DEF n
        <4> QED
          BY <4>2
      <3>2. /\ x \in Seq(W) /\ Len(x) = n - e
            /\ \A i \in 1 .. n - e : x[i] = N[at + i]
        <4> DEFINE p == at + 1
                   q == Len(N)
        <4>1. p \in Int /\ q \in Int /\ \A i \in p .. q : N[i] \in W
          BY <1>8, <2>3, <3>1
        <4>2. /\ q - p + 1 = n - e /\ (IF p <= q THEN q - p + 1 ELSE 0) = n - e
              /\ \A i \in 1 .. n - e : p + i - 1 = at + i
          BY <1>2, <1>8, <2>1, <2>3
        <4> HIDE DEF p, q
        <4>3. /\ SubSeq(N, p, q) \in Seq(W)
              /\ Len(SubSeq(N, p, q)) = IF p <= q THEN q - p + 1 ELSE 0
              /\ \A i \in 1 .. q - p + 1 : SubSeq(N, p, q)[i] = N[p + i - 1]
          BY <4>1, SubSeqProperties
        <4> QED
          BY <4>2, <4>3 DEF p, q
      <3>3. /\ y \in Seq(W) /\ Len(y) = n - e
            /\ \A i \in 1 .. n - e : y[i] = r[e + i]
        <4> DEFINE p == e + 1
        <4>1. p \in Int /\ n \in Int /\ \A i \in p .. n : r[i] \in W
          BY <1>2, <2>3, <3>1
        <4>2. /\ n - p + 1 = n - e /\ (IF p <= n THEN n - p + 1 ELSE 0) = n - e
              /\ \A i \in 1 .. n - e : p + i - 1 = e + i
          BY <1>2, <2>3
        <4> HIDE DEF p
        <4>3. /\ SubSeq(r, p, n) \in Seq(W)
              /\ Len(SubSeq(r, p, n)) = IF p <= n THEN n - p + 1 ELSE 0
              /\ \A i \in 1 .. n - p + 1 : SubSeq(r, p, n)[i] = r[p + i - 1]
          BY <4>1, SubSeqProperties
        <4> QED
          BY <4>2, <4>3 DEF p
      <3>4. ASSUME NEW i \in 1 .. n - e PROVE x[i] = y[i]
        <4>1. at + i = (e + i) + 2 /\ e + i \in c + 1 .. n
          BY <1>2, <2>1, <2>3
        <4> QED
          BY <2>1, <3>2, <3>3, <4>1
      <3> HIDE DEF x, y
      <3> QED
        BY <3>2, <3>3, <3>4, SeqEqual DEF x, y
    <2>6. Ends(e)
      BY <2>3, <2>4
    <2> HIDE DEF Ends
    <2> QED
      BY <1>9, <1>10, <2>5, <2>6 DEF N
  <1> QED
    BY <1>11, <1>12

\* args_after_subcommand and the parser agree: unless what follows the first token
\* named like the subcommand has a token that is no option (and the second parse
\* refuses it), it is what follows the subcommand itself.
THEOREM AfterIsOptions ==
  ASSUME NEW S, NEW t \in Seq(S), Accepted(t),
         \A i \in DOMAIN ArgsAfter(t, Command(t)) : ArgsAfter(t, Command(t))[i].k = "opt"
  PROVE  ArgsAfter(t, Command(t)) = SubSeq(t, SubAt(t) + 1, Len(t))
  <1> DEFINE places == {i \in DOMAIN t : IsSub(t[i]) /\ (i = 1 \/ t[i - 1].k # "C")}
             Named(u) == IsSub(u) /\ u.name = Command(t)
             named == {i \in 1 .. Len(t) : Named(t[i])}
             at == SubAt(t)
             m == Min(named)
  <1>1. Len(t) \in Nat /\ DOMAIN t = 1 .. Len(t)
    OBVIOUS
  <1>2. at = IF places = {} THEN 0 ELSE CHOOSE i \in places : \A j \in places : i <= j
    BY DEF SubAt
  <1>3. places # {}
    <2>1. SubAt(t) > 0
      BY DEF Accepted
    <2> HIDE DEF places
    <2> QED
      BY <1>2, <2>1
  <1>4. at \in places
    <2>1. places \in SUBSET Nat
      BY <1>1
    <2> HIDE DEF places
    <2> QED
      BY <1>2, <1>3, <2>1, LeastFacts
  <1>5. at \in named
    <2>1. IsSub(t[at]) /\ at \in 1 .. Len(t)
      BY <1>1, <1>4
    <2>2. Command(t) = t[at].name
      BY DEF Command
    <2> QED
      BY <2>1, <2>2
  <1>6. m \in named /\ m <= at
    <2>1. named \in SUBSET Nat /\ named # {}
      BY <1>1, <1>5
    <2> HIDE DEF named, at
    <2> QED
      BY <1>5, <2>1, LeastFacts
  <1>7. ArgsAfter(t, Command(t)) = SubSeq(t, m + 1, Len(t))
    BY <1>5 DEF ArgsAfter, SelectInSeq
  <1>8. t[at].k = "sub"
    BY <1>4 DEF IsSub
  <1> HIDE DEF places, named, at, m
  <1>9. m \in 1 .. Len(t) /\ at \in 1 .. Len(t)
    BY <1>5, <1>6 DEF named
  <1>10. ASSUME m < at PROVE FALSE
    <2>1. /\ at - m \in DOMAIN SubSeq(t, m + 1, Len(t))
          /\ SubSeq(t, m + 1, Len(t))[at - m] = t[at]
      BY <1>9, <1>10
    <2> QED
      BY <1>7, <1>8, <2>1
  <1> QED
    BY <1>6, <1>7, <1>9, <1>10 DEF at

-----------------------------------------------------------------------------
(* The config file.                                                          *)

\* NeverClobbers is kept by every step; only PutConfig puts an operator's file.
THEOREM ClobberCorrect == Spec => NeverClobbers
  <1>1. ASSUME [Next]_vars, file = "operator" PROVE file' = "operator"
    <2>1. CASE UNCHANGED vars
      BY <1>1, <2>1 DEF vars, shared
    <2>2. CASE PutConfig
      BY <2>2 DEF PutConfig
    <2>3. ASSUME NEW p \in Procs, Launch(p) \/ Step(p) \/ Stop(p) \/ Crash(p)
          PROVE  file' = "operator"
      <3> USE <1>1 DEF shared
      <3>1. CASE Launch(p) \/ Stop(p) \/ Crash(p)
        BY <3>1 DEF Launch, Stop, Crash
      <3>2. CASE Parse(p) \/ EnsureRoot(p) \/ LookConfig(p) \/ LoadDoc(p) \/ Plan(p)
        BY <3>2 DEF Parse, EnsureRoot, LookConfig, LoadDoc, Plan
      <3>3. CASE CreateConfig(p) \/ FillConfig(p)
        BY <3>3 DEF CreateConfig, FillConfig, Created
      <3>4. CASE OpenDb(p) \/ ReadApplied(p) \/ Migrate(p) \/ Migrated(p)
        BY <3>4 DEF OpenDb, ReadApplied, Migrate, Migrated
      <3>5. CASE ReadPassword(p) \/ StorePassword(p) \/ Sql(p)
        BY <3>5 DEF ReadPassword, StorePassword, Sql
      <3>6. CASE Oidc(p) \/ Material(p) \/ Bind(p)
        BY <3>6 DEF Oidc, Material, Bind
      <3> QED
        BY <2>3, <3>1, <3>2, <3>3, <3>4, <3>5, <3>6 DEF Step
    <2> QED
      BY <1>1, <2>1, <2>2, <2>3 DEF Next
  <1>2. [Next]_vars => [file = "operator" => file' = "operator"]_file
    BY <1>1
  <1> QED
    BY <1>2, PTL DEF Spec, NeverClobbers

-----------------------------------------------------------------------------
(* The settings.                                                             *)

\* Effective settings have the types of their sources.
CfgOK(c) ==
  /\ c.url \in Urls
  /\ c.leaf \in Nat \cup {None} /\ c.ca \in Nat \cup {None}

LEMMA MergeTyped ==
  ASSUME NEW opts, NEW env, NEW doc, Typed(opts), Typed(env), Typed(doc)
  PROVE  CfgOK(Merge(opts, env, doc))
  <1> DEFINE D == Defaults
  <1>1. /\ {"url", "leaf", "ca"} \subseteq DOMAIN D
        /\ D["url"] = DataUrl /\ D["leaf"] = None /\ D["ca"] = None
    BY DEF Defaults
  <1> DEFINE c == Merge(opts, env, doc)
  <1>2. \A s \in DOMAIN D :
          c[s] = IF s \in DOMAIN opts THEN opts[s] ELSE IF s \in DOMAIN env THEN env[s]
                 ELSE IF s \in DOMAIN doc THEN doc[s] ELSE D[s]
    BY DEF Merge, Layered
  <1> HIDE DEF D, c
  <1>3. /\ c["url"] \in Urls
        /\ c["leaf"] \in Nat \cup {None} /\ c["ca"] \in Nat \cup {None}
    <2>1. DataUrl \in Urls
      BY DEF DataUrl, Urls
    <2> QED
      BY <1>1, <1>2, <2>1 DEF Typed
  <1> QED
    BY <1>3 DEF CfgOK, c

\* A database that sqlx opens is one of Dbs, and in memory the process's own.
LEMMA SqlxFacts ==
  ASSUME NEW p \in Procs, NEW u \in Urls
  PROVE  /\ SqlxDb(p, u) \in Dbs /\ SqlxDb(p, u) # <<>>
         /\ u.file # "memory" => SqlxDb(p, u) = <<"file", u.file>>
         /\ u.file = "memory" =>
              \A q \in Procs \ {p}, v \in Urls : SqlxDb(q, v) # SqlxDb(p, u)
  BY DEF SqlxDb, Dbs, Urls

LEMMA NothingTyped == Typed(<< >>)
  BY DEF Typed

\* The inputs do not change, and settings always have their types.
Inputs ==
  /\ given \in Cases
  /\ args = [p \in Procs |-> Parsed(IF In(p) = NoInput THEN <<>> ELSE In(p).args)]

\* The process has a database that sqlx opened.
Holds(p) ==
  \/ pc[p] \in {"pending", "migrate", "store", "oidc", "material", "bind", "serving"}
  \/ out[p] \in LateEnds

\* What a process has opened is what its settings name.
OpenInv ==
  \A p \in Procs :
    /\ Holds(p) => opened[p] = SqlxDb(p, cfg[p].url)
    /\ out[p] = "done" => opened[p] = ShellDb(p, cfg[p].url)

Types ==
  /\ DOMAIN pc = Procs /\ DOMAIN out = Procs /\ todo \in [Procs -> Nat]
  /\ overtaken \in [Procs -> BOOLEAN] /\ DOMAIN opened = Procs
  /\ db \in [Dbs -> [applied : 0 .. Migrations, password : BOOLEAN]]
  /\ DOMAIN cfg = Procs
  /\ \A p \in Procs : CfgOK(cfg[p])
  /\ \A p \in Procs : /\ pc[p] # "off" => In(p) # NoInput
                      /\ pc[p] \notin {"off", "parse"} => args[p].accepted

\* What is after one process's step of the settings another one has.
LEMMA ParseTypes ==
  ASSUME Inputs, Types, NEW p \in Procs, Parse(p)
  PROVE  Types'
  <1>1. In(p) # NoInput
    BY DEF Types, Parse
  <1>2. args[p] = Parsed(In(p).args)
    BY <1>1 DEF Inputs
  <1>3. UNCHANGED <<inputs, todo, overtaken, opened, db>>
    BY DEF Parse, shared
  <1>4. args[p].accepted => Typed(args[p].options) /\ Typed(In(p).env)
    BY <1>1, <1>2, CasesOK DEF Inputs, In
  <1>5. args[p].accepted => CfgOK(Merge(args[p].options, In(p).env, << >>))
    BY <1>4, MergeTyped, NothingTyped
  <1>6. CASE pc' = [pc EXCEPT ![p] = "off"] /\ UNCHANGED cfg /\ \E how : out' = [out EXCEPT ![p] = how]
    BY <1>3, <1>6 DEF Types, CfgOK, inputs, In
  <1>7. CASE /\ args[p].accepted /\ UNCHANGED out
             /\ \E s : pc' = [pc EXCEPT ![p] = s]
             /\ cfg' = [cfg EXCEPT ![p] = Merge(args[p].options, In(p).env, << >>)]
    BY <1>1, <1>3, <1>5, <1>7 DEF Types, CfgOK, inputs, In
  <1> QED
    BY <1>6, <1>7 DEF Parse, End, Goto

LEMMA LoadTypes ==
  ASSUME Inputs, Types, NEW p \in Procs, LoadDoc(p)
  PROVE  Types'
  <1>1. In(p) # NoInput /\ args[p].accepted
    BY DEF Types, LoadDoc
  <1>2. args[p] = Parsed(In(p).args)
    BY <1>1 DEF Inputs
  <1>3. UNCHANGED <<inputs, todo, overtaken, opened, db>>
    BY DEF LoadDoc, shared
  <1>4. Typed(Options(args[p].after)) /\ Typed(In(p).env) /\ Typed(Doc)
    BY <1>1, <1>2, CasesOK, NothingTyped DEF Inputs, In, Doc
  <1> DEFINE new == Merge(Options(args[p].after), In(p).env, Doc)
  <1>5. CfgOK(new)
    BY <1>4, MergeTyped
  <1>6. /\ \E s : pc' = [pc EXCEPT ![p] = s]
        /\ \E how : out' = [out EXCEPT ![p] = how] \/ UNCHANGED out
        /\ UNCHANGED cfg \/ cfg' = [cfg EXCEPT ![p] = new]
    BY DEF LoadDoc, End, Goto
  <1> HIDE DEF new
  <1> QED
    BY <1>1, <1>3, <1>5, <1>6 DEF Types, CfgOK, inputs, In

\* The database that a process holds is one of Dbs.
LEMMA HeldDb ==
  ASSUME Types, OpenInv, NEW p \in Procs, Holds(p)
  PROVE  opened[p] \in Dbs /\ opened[p] # <<>>
  <1>1. cfg[p].url \in Urls /\ opened[p] = SqlxDb(p, cfg[p].url)
    BY DEF Types, OpenInv, CfgOK
  <1> QED
    BY <1>1, SqlxFacts

LEMMA TypesStep == Inputs /\ Types /\ OpenInv /\ [Next]_vars => Inputs' /\ Types'
  <1> SUFFICES ASSUME Inputs, Types, OpenInv, [Next]_vars PROVE Inputs' /\ Types'
    OBVIOUS
  <1>1. UNCHANGED <<given, args>>
    <2>1. ASSUME NEW p \in Procs, Launch(p) \/ Step(p) \/ Stop(p) \/ Crash(p)
          PROVE  UNCHANGED <<given, args>>
      BY <2>1 DEF Launch, Step, Stop, Crash, Parse, EnsureRoot, LookConfig, CreateConfig,
         FillConfig, LoadDoc, Plan, OpenDb, ReadApplied, Migrate, Migrated, ReadPassword,
         StorePassword, Sql, Oidc, Material, Bind, inputs
    <2> QED
      BY <2>1 DEF Next, PutConfig, vars, inputs
  <1>2. Inputs'
    BY <1>1 DEF Inputs, In
  <1>3. CASE UNCHANGED vars \/ PutConfig
    <2>1. UNCHANGED <<args, given, db, pc, cfg, todo, out, overtaken, opened>>
      BY <1>3 DEF vars, PutConfig, own, inputs, shared
    <2> QED
      BY <1>2, <2>1 DEF Types, CfgOK, In
  <1>4. ASSUME NEW p \in Procs, Launch(p) \/ Step(p) \/ Stop(p) \/ Crash(p)
        PROVE  Types'
    <2> USE <1>1 DEF Types, CfgOK, In, inputs, shared, own, Goto, End
    <2>1. CASE Launch(p) \/ Stop(p) \/ Crash(p)
      BY <2>1 DEF Launch, Stop, Crash
    <2>2. CASE EnsureRoot(p) \/ LookConfig(p) \/ CreateConfig(p) \/ FillConfig(p) \/ Plan(p)
      BY <2>2 DEF EnsureRoot, LookConfig, CreateConfig, FillConfig, Plan
    <2>3. CASE OpenDb(p)
      <3> DEFINE d == SqlxDb(p, cfg[p].url)
      <3>1. d \in Dbs
        BY SqlxFacts DEF CfgOK
      <3> HIDE DEF d
      <3>2. db' = [db EXCEPT ![d] = IF cfg[p].url.file = "memory" THEN New ELSE @]
        BY <2>3 DEF OpenDb, d
      <3>3. New \in [applied : 0 .. Migrations, password : BOOLEAN]
        BY StartupConstantsOK DEF New
      <3>4. (db \in [Dbs -> [applied : 0 .. Migrations, password : BOOLEAN]])'
        BY <3>1, <3>2, <3>3
      <3> QED
        BY <2>3, <3>4 DEF OpenDb
    <2>4. CASE ReadApplied(p) \/ Migrated(p)
      <3>1. pc[p] = "pending" => opened[p] \in Dbs
        BY HeldDb DEF Holds
      <3>2. pc[p] = "pending" => FirstPending(db[opened[p]].applied) \in Nat
        BY <3>1, StartupConstantsOK DEF FirstPending
      <3> QED
        BY <2>4, <3>2 DEF ReadApplied, Migrated
    <2>5. CASE Migrate(p)
      <3>1. CASE UNCHANGED <<pc, out>>
        <4>1. /\ db' = [db EXCEPT ![opened[p]].applied = todo[p]]
              /\ todo[p] <= Migrations
              /\ UNCHANGED <<pc, out, cfg, opened>>
              /\ overtaken' = [q \in Procs |-> overtaken[q] \/ q \in SameDb(p)]
              /\ todo' = [todo EXCEPT ![p] = @ + 1]
          BY <2>5, <3>1 DEF Migrate
        <4>2. opened[p] \in Dbs
          BY <2>5, HeldDb DEF Migrate, Holds
        <4>3. todo[p] \in 0 .. Migrations
          BY <4>1, StartupConstantsOK
        <4>4. (db \in [Dbs -> [applied : 0 .. Migrations, password : BOOLEAN]])'
          BY <4>1, <4>2, <4>3
        <4> QED
          BY <4>1, <4>4
      <3>2. CASE UNCHANGED <<db, overtaken, todo>>
        BY <2>5, <3>2 DEF Migrate
      <3> QED
        BY <2>5, <3>1, <3>2 DEF Migrate
    <2>6. CASE ReadPassword(p) \/ StorePassword(p) \/ Sql(p)
      <3>1. \/ db' = db
            \/ pc[p] = "store" /\ db' = [db EXCEPT ![opened[p]].password = TRUE]
        BY <2>6 DEF ReadPassword, StorePassword, Sql
      <3>2. pc[p] = "store" => opened[p] \in Dbs
        BY HeldDb DEF Holds
      <3>3. (db \in [Dbs -> [applied : 0 .. Migrations, password : BOOLEAN]])'
        BY <3>1, <3>2
      <3>4. /\ UNCHANGED <<todo, overtaken, cfg>>
            /\ opened' = opened \/ opened' = [opened EXCEPT ![p] = ShellDb(p, cfg[p].url)]
            /\ pc' = [pc EXCEPT ![p] = "off"] \/ pc' = [pc EXCEPT ![p] = "open"]
            /\ out' = out \/ \E how : out' = [out EXCEPT ![p] = how]
            /\ pc[p] \notin {"off", "parse"}
        BY <2>6 DEF ReadPassword, StorePassword, Sql
      <3> QED
        BY <3>3, <3>4
    <2>7. CASE Oidc(p) \/ Material(p) \/ Bind(p)
      BY <2>7 DEF Oidc, Material, Bind, Fails
    <2> QED
      BY <1>4, <2>1, <2>2, <2>3, <2>4, <2>5, <2>6, <2>7, ParseTypes, LoadTypes DEF Step
  <1> QED
    BY <1>2, <1>3, <1>4 DEF Next

-----------------------------------------------------------------------------
(* The order of a start.                                                     *)

\* How a start ended is known when it has; a refused one had not come to a database.
RefusalInv ==
  \A p \in Procs :
    /\ pc[p] # "off" => out[p] = "none"
    /\ opened[p] # <<>> => pc[p] \in {"pending", "migrate", "store", "oidc", "material", "bind",
                                "serving", "off"}
    /\ opened[p] # <<>> => out[p] \notin Refusals

\* A migration that is still to do was not done yet, or by another process.
MigrationInv ==
  \A p \in Procs :
    /\ pc[p] = "migrate" /\ db[opened[p]].applied >= todo[p] => overtaken[p]
    /\ out[p] = "migration" => overtaken[p]

\* What is still to do follows what is applied, and what has been migrated stays so.
Complete(p) ==
  \/ pc[p] \in {"store", "oidc", "material", "bind", "serving"}
  \/ out[p] \in LateEnds
SchemaInv ==
  \A p \in Procs :
    /\ pc[p] = "migrate" => todo[p] <= db[opened[p]].applied + 1
    /\ Complete(p) => db[opened[p]].applied = Migrations

\* The settings were validated, and are those of all sources.
Settled(p) ==
  /\ ~TlsRefused(cfg[p]) /\ ~BoolRefused(In(p).env)
  /\ \E doc \in {given.doc, << >>} : cfg[p] = Merge(args[p].options, In(p).env, doc)

\* Only set-password comes to the database with settings nobody has validated.
ValidInv ==
  \A p \in Procs :
    /\ pc[p] = "password" => Cmd(p) = "set-password"
    /\ pc[p] \in {"plan", "oidc", "material", "bind", "serving"} => Settled(p)
    /\ pc[p] \in {"open", "pending", "migrate"} =>
         Cmd(p) = "set-password" \/ Settled(p)

\* The operator's commands keep the settings of the first parse.
Alone(p) == cfg[p] = Merge(args[p].options, In(p).env, << >>)
CommandInv ==
  \A p \in Procs :
    /\ pc[p] = "sql" => Cmd(p) = "sql"
    /\ pc[p] = "root" => Cmd(p) # "sql"
    /\ pc[p] \in {"password", "store"} => Cmd(p) = "set-password"
    /\ pc[p] \in {"look", "create", "fill", "load", "plan"} =>
         Cmd(p) \notin {"sql", "set-password"}
    /\ pc[p] \notin {"off", "parse"} /\ Cmd(p) \in {"sql", "set-password"} => Alone(p)
    /\ out[p] \in {"done", "stored"} => Alone(p)

\* The level is the one that was parsed.
LevelInv ==
  /\ DOMAIN level = Procs
  /\ \A p \in Procs : pc[p] \in {"root", "look"} => level[p] = args[p].level

LEMMA RefusalStep == Types /\ RefusalInv /\ [Next]_vars => RefusalInv'
  <1> SUFFICES ASSUME Types, RefusalInv, [Next]_vars PROVE RefusalInv'
    OBVIOUS
  <1> USE DEF Types, RefusalInv, Refusals
  <1>1. CASE UNCHANGED vars \/ PutConfig
    BY <1>1 DEF vars, PutConfig, own
  <1>2. ASSUME NEW p \in Procs, Launch(p) \/ Step(p) \/ Stop(p) \/ Crash(p)
        PROVE  RefusalInv'
    <2> USE DEF shared, own, Goto, End
    <2>1. CASE Launch(p) \/ Stop(p) \/ Crash(p)
      BY <2>1 DEF Launch, Stop, Crash
    <2>2. CASE Parse(p) \/ EnsureRoot(p) \/ LookConfig(p) \/ CreateConfig(p) \/ FillConfig(p)
      BY <2>2 DEF Parse, EnsureRoot, LookConfig, CreateConfig, FillConfig
    <2>3. CASE LoadDoc(p) \/ Plan(p)
      BY <2>3 DEF LoadDoc, Plan
    <2>4. CASE OpenDb(p) \/ ReadApplied(p) \/ Migrate(p) \/ Migrated(p)
      BY <2>4 DEF OpenDb, ReadApplied, Migrate, Migrated
    <2>5. CASE ReadPassword(p) \/ StorePassword(p) \/ Sql(p)
      BY <2>5 DEF ReadPassword, StorePassword, Sql
    <2>6. CASE Oidc(p) \/ Material(p) \/ Bind(p)
      BY <2>6 DEF Oidc, Material, Bind, Fails
    <2> QED
      BY <1>2, <2>1, <2>2, <2>3, <2>4, <2>5, <2>6 DEF Step
  <1> QED
    BY <1>1, <1>2 DEF Next

\* Opening a database leaves those that others hold as they are.
LEMMA OpenLeaves ==
  ASSUME Types, OpenInv, NEW p \in Procs, OpenDb(p), NEW q \in Procs \ {p}, Holds(q)
  PROVE  db'[opened[q]] = db[opened[q]]
  <1> DEFINE d == SqlxDb(p, cfg[p].url)
  <1>1. cfg[p].url \in Urls /\ cfg[q].url \in Urls /\ opened[q] = SqlxDb(q, cfg[q].url)
    BY DEF Types, OpenInv, CfgOK
  <1>2. opened[q] \in Dbs /\ d \in Dbs
    BY <1>1, SqlxFacts
  <1>3. cfg[p].url.file = "memory" => opened[q] # d
    BY <1>1, SqlxFacts
  <1>4. db' = [db EXCEPT ![d] = IF cfg[p].url.file = "memory" THEN New ELSE @]
    BY DEF OpenDb
  <1> HIDE DEF d
  <1> QED
    BY <1>2, <1>3, <1>4 DEF Types

LEMMA OpenStep == Types /\ RefusalInv /\ OpenInv /\ [Next]_vars => OpenInv'
  <1> SUFFICES ASSUME Types, RefusalInv, OpenInv, [Next]_vars PROVE OpenInv'
    OBVIOUS
  <1> USE DEF Types, RefusalInv, OpenInv, Holds, LateEnds, shared, own
  <1>1. CASE UNCHANGED vars \/ PutConfig
    BY <1>1 DEF vars, PutConfig
  <1>2. ASSUME NEW p \in Procs, Launch(p) \/ Step(p) \/ Stop(p) \/ Crash(p)
        PROVE  OpenInv'
    <2> USE DEF Goto, End
    <2>1. CASE Launch(p) \/ Stop(p) \/ Crash(p)
      BY <2>1 DEF Launch, Stop, Crash
    <2>2. CASE Parse(p) \/ EnsureRoot(p) \/ LookConfig(p) \/ CreateConfig(p) \/ FillConfig(p)
      BY <2>2 DEF Parse, EnsureRoot, LookConfig, CreateConfig, FillConfig
    <2>3. CASE LoadDoc(p) \/ Plan(p)
      BY <2>3 DEF LoadDoc, Plan
    <2>4. CASE OpenDb(p) \/ ReadApplied(p) \/ Migrate(p) \/ Migrated(p)
      BY <2>4 DEF OpenDb, ReadApplied, Migrate, Migrated
    <2>5. CASE ReadPassword(p) \/ StorePassword(p) \/ Sql(p)
      BY <2>5 DEF ReadPassword, StorePassword, Sql
    <2>6. CASE Oidc(p) \/ Material(p) \/ Bind(p)
      BY <2>6 DEF Oidc, Material, Bind, Fails
    <2> QED
      BY <1>2, <2>1, <2>2, <2>3, <2>4, <2>5, <2>6 DEF Step
  <1> QED
    BY <1>1, <1>2 DEF Next

LEMMA SchemaStep ==
  Types /\ RefusalInv /\ OpenInv /\ SchemaInv /\ [Next]_vars => SchemaInv'
  <1> SUFFICES ASSUME Types, RefusalInv, OpenInv, SchemaInv, [Next]_vars PROVE SchemaInv'
    OBVIOUS
  <1> USE DEF Types, RefusalInv, SchemaInv, Complete, Holds, LateEnds, shared, own
  <1>1. CASE UNCHANGED vars \/ PutConfig
    BY <1>1 DEF vars, PutConfig
  <1>2. ASSUME NEW p \in Procs, Launch(p) \/ Step(p) \/ Stop(p) \/ Crash(p)
        PROVE  SchemaInv'
    <2> USE DEF Goto, End
    <2>1. CASE Launch(p) \/ Stop(p) \/ Crash(p)
      BY <2>1 DEF Launch, Stop, Crash
    <2>2. CASE Parse(p) \/ EnsureRoot(p) \/ LookConfig(p) \/ CreateConfig(p) \/ FillConfig(p)
      BY <2>2 DEF Parse, EnsureRoot, LookConfig, CreateConfig, FillConfig
    <2>3. CASE LoadDoc(p) \/ Plan(p)
      BY <2>3 DEF LoadDoc, Plan
    <2>4. CASE OpenDb(p)
      <3>1. \A q \in Procs \ {p} : Holds(q) => db'[opened[q]] = db[opened[q]]
        BY <2>4, OpenLeaves
      <3> QED
        BY <2>4, <3>1 DEF OpenDb
    <2>5. CASE ReadApplied(p) \/ Migrated(p)
      <3>1. pc[p] \in {"pending", "migrate"} => db[opened[p]].applied \in 0 .. Migrations
        BY HeldDb
      <3> QED
        BY <2>5, <3>1, StartupConstantsOK DEF ReadApplied, FirstPending, Migrated
    <2>6. CASE Migrate(p)
      <3>1. \A q \in Procs : Holds(q) => opened[q] \in Dbs
        BY HeldDb
      <3>2. \/ UNCHANGED <<db, todo, opened>>
            \/ /\ db[opened[p]].applied < todo[p] /\ todo[p] <= Migrations
               /\ db' = [db EXCEPT ![opened[p]].applied = todo[p]]
               /\ todo' = [todo EXCEPT ![p] = @ + 1]
               /\ UNCHANGED <<pc, out, opened>>
        BY <2>6 DEF Migrate
      <3>3. CASE UNCHANGED <<db, todo, opened>>
        BY <2>6, <3>3 DEF Migrate
      <3>4. CASE ~UNCHANGED <<db, todo, opened>>
        <4>1. db'[opened[p]].applied = todo[p] /\ \A e \in Dbs \ {opened[p]} : db'[e] = db[e]
          BY <2>6, <3>1, <3>2, <3>4 DEF Migrate
        <4>2. \A e \in Dbs : db[e].applied \in 0 .. Migrations /\ todo[p] \in Nat
          OBVIOUS
        <4>3. \A q \in Procs : todo[q] \in Int
          OBVIOUS
        <4>4. \A e \in Dbs : db[e].applied <= db'[e].applied /\ db'[e].applied <= Migrations
          BY <3>2, <3>4, <4>1, <4>2, StartupConstantsOK
        <4>5. /\ UNCHANGED <<pc, out, opened>> /\ todo'[p] = todo[p] + 1
              /\ \A q \in Procs \ {p} : todo'[q] = todo[q]
          BY <3>2, <3>4
        <4>6. ASSUME NEW q \in Procs, pc[q] = "migrate"
              PROVE  todo'[q] <= db'[opened[q]].applied + 1
          <5>1. opened[q] \in Dbs /\ todo[q] <= db[opened[q]].applied + 1
            BY <3>1, <4>6
          <5>2. db[opened[q]].applied \in Int /\ db'[opened[q]].applied \in Int
            BY <4>1, <4>2, <5>1
          <5>3. q = p \/ todo'[q] = todo[q]
            BY <4>5
          <5> QED
            BY <4>1, <4>4, <4>3, <4>5, <5>1, <5>2, <5>3
        <4>7. ASSUME NEW q \in Procs, Complete(q)
              PROVE  db'[opened[q]].applied = Migrations
          <5>1. opened[q] \in Dbs /\ db[opened[q]].applied = Migrations
            BY <3>1, <4>7
          <5>2. db'[opened[q]].applied \in Int
            BY <4>1, <4>2, <5>1
          <5> QED
            BY <4>4, <5>1, <5>2, StartupConstantsOK
        <4> QED
          BY <4>5, <4>6, <4>7
      <3> QED
        BY <3>3, <3>4
    <2>7. CASE ReadPassword(p) \/ Sql(p)
      BY <2>7 DEF ReadPassword, Sql
    <2>8. CASE StorePassword(p)
      <3>1. \A q \in Procs : Holds(q) => opened[q] \in Dbs
        BY HeldDb
      <3>2. opened[p] \in Dbs /\ (db' = db \/ db' = [db EXCEPT ![opened[p]].password = TRUE])
        BY <2>8, <3>1 DEF StorePassword
      <3>3. \A e \in Dbs : db'[e].applied = db[e].applied
        BY <3>2
      <3> QED
        BY <2>8, <3>1, <3>3 DEF StorePassword
    <2>9. CASE Oidc(p) \/ Material(p) \/ Bind(p)
      BY <2>9 DEF Oidc, Material, Bind, Fails
    <2> QED
      BY <1>2, <2>1, <2>2, <2>3, <2>4, <2>5, <2>6, <2>7, <2>8, <2>9 DEF Step
  <1> QED
    BY <1>1, <1>2 DEF Next

LEMMA MigrationStep == Types /\ RefusalInv /\ OpenInv /\ MigrationInv /\ [Next]_vars => MigrationInv'
  <1> SUFFICES ASSUME Types, RefusalInv, OpenInv, MigrationInv, [Next]_vars PROVE MigrationInv'
    OBVIOUS
  <1> USE DEF Types, RefusalInv, MigrationInv
  <1>1. CASE UNCHANGED vars \/ PutConfig
    BY <1>1 DEF vars, shared, PutConfig, own
  <1>2. ASSUME NEW p \in Procs, Launch(p) \/ Step(p) \/ Stop(p) \/ Crash(p)
        PROVE  MigrationInv'
    <2> USE DEF shared, own, Goto, End
    <2>1. CASE Launch(p) \/ Stop(p) \/ Crash(p)
      BY <2>1 DEF Launch, Stop, Crash
    <2>2. CASE Parse(p) \/ EnsureRoot(p) \/ LookConfig(p) \/ CreateConfig(p) \/ FillConfig(p)
      BY <2>2 DEF Parse, EnsureRoot, LookConfig, CreateConfig, FillConfig
    <2>3. CASE LoadDoc(p) \/ Plan(p)
      BY <2>3 DEF LoadDoc, Plan
    <2>4. CASE OpenDb(p)
      <3>1. ASSUME NEW q \in Procs \ {p}, pc[q] = "migrate"
            PROVE  db'[opened[q]] = db[opened[q]]
        BY <2>4, <3>1, OpenLeaves DEF Holds
      <3> QED
        BY <2>4, <3>1 DEF OpenDb
    <2>5. CASE ReadApplied(p) \/ Migrated(p)
      <3>1. pc[p] = "pending" => db[opened[p]].applied \in Nat
        BY HeldDb, StartupConstantsOK DEF Holds
      <3> QED
        BY <2>5, <3>1 DEF ReadApplied, FirstPending, Migrated
    <2>6. CASE Migrate(p)
      <3> DEFINE d == opened[p]
      <3>1. d \in Dbs /\ \A q \in Procs : pc[q] = "migrate" => opened[q] \in Dbs
        BY <2>6, HeldDb DEF Holds, Migrate
      <3>2. CASE db[d].applied < todo[p]
        <4>1. /\ db' = [db EXCEPT ![d].applied = todo[p]]
              /\ \A q \in Procs : overtaken'[q] = (overtaken[q] \/ q \in SameDb(p))
              /\ todo' = [todo EXCEPT ![p] = @ + 1]
              /\ UNCHANGED <<pc, out, opened>>
          BY <2>6, <3>2 DEF Migrate
        <4>2. db'[d].applied = todo[p] /\ \A e \in Dbs \ {d} : db'[e] = db[e]
          BY <3>1, <4>1
        <4>3. ASSUME NEW q \in Procs, q # p, pc[q] = "migrate",
                     db'[opened[q]].applied >= todo[q]
              PROVE  overtaken'[q]
          <5>1. CASE opened[q] = d
            BY <4>1, <4>3, <5>1 DEF SameDb
          <5>2. CASE opened[q] # d
            BY <3>1, <4>1, <4>2, <4>3, <5>2
          <5> QED
            BY <5>1, <5>2
        <4>4. ~(db'[d].applied >= todo'[p])
          BY <4>1, <4>2
        <4> QED
          BY <4>1, <4>3, <4>4
      <3>3. CASE ~(db[d].applied < todo[p])
        <4>1. overtaken[p]
          BY <2>6, <3>1, <3>3 DEF Migrate
        <4> QED
          BY <2>6, <3>3, <4>1 DEF Migrate
      <3> QED
        BY <3>2, <3>3
    <2>7. CASE ReadPassword(p) \/ Sql(p)
      BY <2>7 DEF ReadPassword, Sql
    <2>8. CASE StorePassword(p)
      <3>1. /\ opened[p] \in Dbs
            /\ \A q \in Procs : pc[q] = "migrate" => opened[q] \in Dbs
        BY <2>8, HeldDb DEF Holds, StorePassword
      <3>2. db' = db \/ db' = [db EXCEPT ![opened[p]].password = TRUE]
        BY <2>8 DEF StorePassword
      <3>3. \A e \in Dbs : db'[e].applied = db[e].applied
        BY <3>1, <3>2
      <3> QED
        BY <2>8, <3>1, <3>3 DEF StorePassword
    <2>9. CASE Oidc(p) \/ Material(p) \/ Bind(p)
      BY <2>9 DEF Oidc, Material, Bind, Fails
    <2> QED
      BY <1>2, <2>1, <2>2, <2>3, <2>4, <2>5, <2>6, <2>7, <2>8, <2>9 DEF Step
  <1> QED
    BY <1>1, <1>2 DEF Next

\* The second parse sees the options the first one saw.
LEMMA SameOptions ==
  ASSUME NEW argv, argv \in Seq(ToSet(argv)), Parsed(argv).accepted,
         \A i \in DOMAIN Parsed(argv).after : Parsed(argv).after[i].k = "opt"
  PROVE  Options(Parsed(argv).after) = Parsed(argv).options
  <1> DEFINE t == Normalized(argv)
  <1>1. PICK S : t \in Seq(S)
    BY NormalizedSeq
  <1>2. Accepted(t)
    BY DEF Parsed
  <1>3. /\ Parsed(argv).after = ArgsAfter(t, Command(t))
        /\ Parsed(argv).options = Options(SubSeq(t, SubAt(t) + 1, Len(t)))
    BY <1>2 DEF Parsed
  <1> HIDE DEF t
  <1>4. ArgsAfter(t, Command(t)) = SubSeq(t, SubAt(t) + 1, Len(t))
    BY <1>1, <1>2, <1>3, AfterIsOptions
  <1> QED
    BY <1>3, <1>4

\* What LoadDoc lets pass is settled.
LEMMA LoadSettles ==
  ASSUME Inputs, Types, NEW p \in Procs, LoadDoc(p), pc'[p] = "plan"
  PROVE  Settled(p)'
  <1>1. In(p) # NoInput /\ args[p].accepted
    BY DEF Types, LoadDoc
  <1>2. args[p] = Parsed(In(p).args) /\ In(p).args \in Seq(ToSet(In(p).args))
    BY <1>1, CasesOK DEF Inputs, In
  <1>3. /\ \A i \in DOMAIN args[p].after : args[p].after[i].k = "opt"
        /\ cfg' = [cfg EXCEPT ![p] = Merge(Options(args[p].after), In(p).env, Doc)]
        /\ ~TlsRefused(cfg'[p]) /\ ~BoolRefused(In(p).env)
        /\ UNCHANGED <<given, args>>
    BY DEF LoadDoc, End, Goto, Types, inputs
  <1>4. Options(args[p].after) = args[p].options
    BY <1>1, <1>2, <1>3, SameOptions
  <1>5. cfg'[p] = Merge(args[p].options, In(p).env, Doc)
    BY <1>3, <1>4 DEF Types
  <1> QED
    BY <1>3, <1>5 DEF Settled, In, Doc

\* The steps of the operator's commands change no settings.
LEMMA OperatorSteps ==
  ASSUME NEW p, ReadPassword(p) \/ StorePassword(p) \/ Sql(p)
  PROVE  /\ pc[p] \in {"password", "store", "sql"}
         /\ UNCHANGED <<given, args, cfg>>
         /\ \E how : \/ pc' = [pc EXCEPT ![p] = "off"] /\ out' = [out EXCEPT ![p] = how]
                    \/ /\ pc[p] = "password" /\ pc' = [pc EXCEPT ![p] = "open"]
                       /\ UNCHANGED out
  <1>1. CASE ReadPassword(p)
    BY <1>1 DEF ReadPassword, Goto, End, inputs
  <1>2. CASE StorePassword(p)
    <2>1. \/ End(p, "stored")
          \/ End(p, "unknown")
      BY <1>2 DEF StorePassword
    <2>2. pc[p] = "store" /\ UNCHANGED <<inputs, cfg>>
      BY <1>2 DEF StorePassword
    <2> QED
      BY <2>1, <2>2 DEF Goto, End, inputs
  <1>3. CASE Sql(p)
    BY <1>3 DEF Sql, Goto, End, inputs
  <1> QED
    BY <1>1, <1>2, <1>3

LEMMA ValidStep == Inputs /\ Types /\ ValidInv /\ [Next]_vars => ValidInv'
  <1> SUFFICES ASSUME Inputs, Types, ValidInv, [Next]_vars PROVE ValidInv'
    OBVIOUS
  <1> USE DEF Types, ValidInv, Settled, In, Cmd, inputs, shared, own
  <1>1. CASE UNCHANGED vars \/ PutConfig
    BY <1>1 DEF vars, PutConfig
  <1>2. ASSUME NEW p \in Procs, Launch(p) \/ Step(p) \/ Stop(p) \/ Crash(p)
        PROVE  ValidInv'
    <2> USE DEF Goto, End
    <2>1. CASE Launch(p) \/ Stop(p) \/ Crash(p)
      BY <2>1 DEF Launch, Stop, Crash
    <2>2. CASE Parse(p) \/ EnsureRoot(p) \/ LookConfig(p) \/ CreateConfig(p) \/ FillConfig(p)
      BY <2>2 DEF Parse, EnsureRoot, LookConfig, CreateConfig, FillConfig
    <2>3. CASE LoadDoc(p)
      <3>1. pc'[p] \in {"off", "plan"} /\ UNCHANGED <<given, args>>
        BY <2>3 DEF LoadDoc
      <3>2. \A q \in Procs \ {p} : pc'[q] = pc[q] /\ cfg'[q] = cfg[q]
        BY <2>3 DEF LoadDoc
      <3>3. pc'[p] = "plan" => Settled(p)'
        BY <2>3, LoadSettles
      <3> QED
        BY <3>1, <3>2, <3>3
    <2>4. CASE Plan(p) \/ OpenDb(p) \/ ReadApplied(p) \/ Migrate(p) \/ Migrated(p)
      BY <2>4 DEF Plan, OpenDb, ReadApplied, Migrate, Migrated
    <2>5. CASE ReadPassword(p) \/ StorePassword(p) \/ Sql(p)
      <3>1. /\ pc[p] \in {"password", "store", "sql"}
            /\ UNCHANGED <<given, args, cfg>>
            /\ \/ pc' = [pc EXCEPT ![p] = "off"]
               \/ pc[p] = "password" /\ pc' = [pc EXCEPT ![p] = "open"]
        BY <2>5, OperatorSteps
      <3> QED
        BY <3>1
    <2>6. CASE Oidc(p) \/ Material(p) \/ Bind(p)
      BY <2>6 DEF Oidc, Material, Bind, Fails
    <2> QED
      BY <1>2, <2>1, <2>2, <2>3, <2>4, <2>5, <2>6 DEF Step
  <1> QED
    BY <1>1, <1>2 DEF Next

LEMMA CommandStep == Types /\ RefusalInv /\ CommandInv /\ [Next]_vars => CommandInv'
  <1> SUFFICES ASSUME Types, RefusalInv, CommandInv, [Next]_vars PROVE CommandInv'
    OBVIOUS
  <1> USE DEF Types, RefusalInv, CommandInv, Alone, In, Cmd, inputs, shared, own
  <1>1. CASE UNCHANGED vars \/ PutConfig
    BY <1>1 DEF vars, PutConfig
  <1>2. ASSUME NEW p \in Procs, Launch(p) \/ Step(p) \/ Stop(p) \/ Crash(p)
        PROVE  CommandInv'
    <2> USE DEF Goto, End
    <2>1. CASE Launch(p) \/ Stop(p) \/ Crash(p)
      BY <2>1 DEF Launch, Stop, Crash
    <2>2. CASE Parse(p)
      BY <2>2 DEF Parse
    <2>3. CASE EnsureRoot(p) \/ LookConfig(p) \/ CreateConfig(p) \/ FillConfig(p) \/ Plan(p)
      BY <2>3 DEF EnsureRoot, LookConfig, CreateConfig, FillConfig, Plan
    <2>4. CASE LoadDoc(p)
      BY <2>4 DEF LoadDoc
    <2>5. CASE OpenDb(p) \/ ReadApplied(p) \/ Migrate(p) \/ Migrated(p)
      BY <2>5 DEF OpenDb, ReadApplied, Migrate, Migrated
    <2>6. CASE ReadPassword(p) \/ StorePassword(p) \/ Sql(p)
      <3>1. /\ pc[p] \in {"password", "store", "sql"}
            /\ UNCHANGED <<given, args, cfg>>
            /\ \E how : \/ pc' = [pc EXCEPT ![p] = "off"] /\ out' = [out EXCEPT ![p] = how]
                       \/ /\ pc[p] = "password" /\ pc' = [pc EXCEPT ![p] = "open"]
                          /\ UNCHANGED out
        BY <2>6, OperatorSteps
      <3> QED
        BY <3>1
    <2>7. CASE Oidc(p) \/ Material(p) \/ Bind(p)
      BY <2>7 DEF Oidc, Material, Bind, Fails
    <2> QED
      BY <1>2, <2>1, <2>2, <2>3, <2>4, <2>5, <2>6, <2>7 DEF Step
  <1> QED
    BY <1>1, <1>2 DEF Next

LEMMA LevelStep == Types /\ LevelInv /\ [Next]_vars => LevelInv'
  <1> SUFFICES ASSUME Types, LevelInv, [Next]_vars PROVE LevelInv'
    OBVIOUS
  <1> USE DEF Types, LevelInv, inputs, shared, own
  <1>1. CASE UNCHANGED vars \/ PutConfig
    BY <1>1 DEF vars, PutConfig
  <1>2. ASSUME NEW p \in Procs, Launch(p) \/ Step(p) \/ Stop(p) \/ Crash(p)
        PROVE  LevelInv'
    <2> USE DEF Goto, End
    <2>1. CASE Launch(p) \/ Stop(p) \/ Crash(p)
      BY <2>1 DEF Launch, Stop, Crash
    <2>2. CASE Parse(p)
      BY <2>2 DEF Parse
    <2>3. CASE EnsureRoot(p) \/ LookConfig(p) \/ CreateConfig(p) \/ FillConfig(p)
      BY <2>3 DEF EnsureRoot, LookConfig, CreateConfig, FillConfig
    <2>4. CASE LoadDoc(p) \/ Plan(p)
      BY <2>4 DEF LoadDoc, Plan
    <2>5. CASE OpenDb(p) \/ ReadApplied(p) \/ Migrate(p) \/ Migrated(p)
      BY <2>5 DEF OpenDb, ReadApplied, Migrate, Migrated
    <2>6. CASE ReadPassword(p) \/ StorePassword(p) \/ Sql(p)
      BY <2>6 DEF ReadPassword, StorePassword, Sql
    <2>7. CASE Oidc(p) \/ Material(p) \/ Bind(p)
      BY <2>7 DEF Oidc, Material, Bind, Fails
    <2> QED
      BY <1>2, <2>1, <2>2, <2>3, <2>4, <2>5, <2>6, <2>7 DEF Step
  <1> QED
    BY <1>1, <1>2 DEF Next

\* The inductive invariant.
IInv ==
  /\ Inputs /\ Types /\ RefusalInv /\ OpenInv /\ SchemaInv
  /\ MigrationInv /\ ValidInv /\ CommandInv /\ LevelInv

LEMMA StartInductive == Spec => []IInv
  <1>1. Init => IInv
    <2> SUFFICES ASSUME Init PROVE IInv
      OBVIOUS
    <2>1. Inputs
      BY DEF Init, Inputs
    <2>2. CfgOK(Merge(<< >>, << >>, << >>))
      BY MergeTyped, NothingTyped
    <2>3. given.applied \in 0 .. Migrations
      BY CasesOK DEF Init
    <2>4. Types
      BY <2>2, <2>3 DEF Init, Types, New
    <2>5. RefusalInv /\ OpenInv /\ SchemaInv
      BY DEF Init, RefusalInv, OpenInv, SchemaInv, Holds, Complete, LateEnds
    <2>6. MigrationInv /\ ValidInv /\ CommandInv /\ LevelInv
      BY DEF Init, MigrationInv, ValidInv, CommandInv, LevelInv
    <2> QED
      BY <2>1, <2>4, <2>5, <2>6 DEF IInv
  <1>2. IInv /\ [Next]_vars => IInv'
    BY TypesStep, RefusalStep, OpenStep, SchemaStep, MigrationStep, ValidStep, CommandStep,
       LevelStep DEF IInv
  <1> QED
    BY <1>1, <1>2, PTL DEF Spec

-----------------------------------------------------------------------------

\* normalize_verbosity_args, args_after_subcommand: arguments that are accepted, however
\* many and in any order, mean what they say.
THEOREM ArgsCorrect == Spec => []ArgsMeanWhatTheySay
  <1>1. IInv => ArgsMeanWhatTheySay
    <2> SUFFICES ASSUME IInv, NEW p \in Procs, pc[p] = "look"
                 PROVE  /\ \/ LogLevel(level[p]) = LogLevel(Asked(In(p).args))
                           \/ Asked(In(p).args) = 0 /\ Shadowed(In(p).args)
                        /\ ~args[p].ambiguous =>
                             args[p].after = Picked(In(p).args, OptionsAt(In(p).args))
      BY DEF ArgsMeanWhatTheySay, OptionsAt
    <2> USE DEF IInv
    <2> DEFINE argv == In(p).args
    <2>1. In(p) # NoInput /\ args[p].accepted /\ level[p] = args[p].level
      BY DEF Types, LevelInv
    <2>2. args[p] = Parsed(argv)
      BY <2>1 DEF Inputs
    <2>3. argv \in Seq(ToSet(argv)) /\ \A i \in DOMAIN argv : Token(argv[i])
      BY <2>1, CasesOK DEF Inputs, In
    <2> HIDE DEF argv
    <2>4. /\ Accepted(Normalized(argv))
          /\ args[p].level = Level(Normalized(argv))
          /\ args[p].after = ArgsAfter(Normalized(argv), Command(Normalized(argv)))
          /\ args[p].ambiguous = Ambiguous(Normalized(argv))
      BY <2>1, <2>2 DEF Parsed
    <2>5. Level(Normalized(argv)) = Asked(argv) \/ (Asked(argv) = 0 /\ Shadowed(argv))
      BY <2>3, <2>4, LevelFacts
    <2>6. ~Ambiguous(Normalized(argv)) =>
            ArgsAfter(Normalized(argv), Command(Normalized(argv))) = Picked(argv, OptionsAt(argv))
      BY <2>3, <2>4, AfterFacts
    <2> QED
      BY <2>1, <2>4, <2>5, <2>6 DEF argv
  <1> QED
    BY <1>1, StartInductive, PTL

\* run_cli, plan_serve, init_db: whatever a start was given, refused before its
\* settings for OIDC are looked at it has opened no database; refused for them, or
\* ended later, it leaves the one it opened with all migrations.
THEOREM RefusedCorrect == Spec => []RefusedLeavesDb
  <1>1. IInv => RefusedLeavesDb
    <2> SUFFICES ASSUME IInv, NEW p \in Procs
                 PROVE  /\ out[p] \in Refusals => opened[p] = <<>>
                        /\ out[p] \in LateEnds =>
                             opened[p] # <<>> /\ db[opened[p]].applied = Migrations
      BY DEF RefusedLeavesDb
    <2>1. out[p] \in Refusals => opened[p] = <<>>
      BY DEF IInv, RefusalInv
    <2>2. out[p] \in LateEnds => opened[p] # <<>> /\ db[opened[p]].applied = Migrations
      BY HeldDb DEF IInv, Holds, SchemaInv, Complete
    <2> QED
      BY <2>1, <2>2
  <1> QED
    BY <1>1, StartInductive, PTL

\* init_db: with any number of processes and migrations, and crashes between them,
\* migrations fail only in a race.
THEOREM MigrationCorrect == Spec => []MigrationFailsOnlyInRace
  <1>1. IInv => MigrationFailsOnlyInRace
    BY DEF IInv, MigrationInv, MigrationFailsOnlyInRace
  <1> QED
    BY <1>1, StartInductive, PTL

\* validate_with_root: every lifetime it accepts leaves room to renew the
\* certificate, under a CA that is valid for longer.
THEOREM LifetimesCorrect == Spec => []LifetimesFit
  <1>1. IInv => LifetimesFit
    <2> SUFFICES ASSUME IInv, NEW p \in Procs, pc[p] = "serving",
                        cfg[p].mode = "self-signed"
                 PROVE  /\ RenewMargin(LeafSecs(cfg[p])) \in 1 .. LeafSecs(cfg[p]) - 1
                        /\ ~On(cfg[p], "ephemeral") => LeafSecs(cfg[p]) < CaSecs(cfg[p])
      BY DEF LifetimesFit
    <2>1. ~TlsRefused(cfg[p]) /\ CfgOK(cfg[p])
      BY DEF IInv, ValidInv, Types, Settled
    <2>2. LeafSecs(cfg[p]) \in Nat /\ CaSecs(cfg[p]) \in Nat
      BY <2>1 DEF CfgOK, LeafSecs, CaSecs, None
    <2>3. LeafSecs(cfg[p]) >= 10
      BY <2>1, <2>2 DEF TlsRefused
    <2>4. ~On(cfg[p], "ephemeral") => LeafSecs(cfg[p]) < CaSecs(cfg[p])
      BY <2>1, <2>2 DEF TlsRefused, CaTooShort
    <2>5. \A n \in Nat : n >= 10 => RenewMargin(n) \in 1 .. n - 1
      BY DEF RenewMargin
    <2> QED
      BY <2>2, <2>3, <2>4, <2>5
  <1> QED
    BY <1>1, StartInductive, PTL

\* env_bool: a server with a flag on was told so, by the source that decides, or by a
\* word of the environment that only the check knows; for any list of words that the
\* parser reads as false.
THEOREM FlagsCorrect == Spec => []NeverFailsOpen
  <1>1. IInv => NeverFailsOpen
    <2> SUFFICES ASSUME IInv, NEW p \in Procs, NEW f \in Flags,
                        pc[p] = "serving", On(cfg[p], f)
                 PROVE  \/ Says(args[p].options, f, {"yes"})
                        \/ Says(In(p).env, f, {"yes"} \cup Misread)
                        \/ f \notin DOMAIN In(p).env /\ Says(given.doc, f, {"yes"})
      BY DEF NeverFailsOpen
    <2>1. PICK doc \in {given.doc, << >>} : cfg[p] = Merge(args[p].options, In(p).env, doc)
      BY DEF IInv, ValidInv, Settled
    <2>2. In(p) # NoInput /\ args[p].accepted /\ ~BoolRefused(In(p).env)
      BY DEF IInv, Types, ValidInv, Settled
    <2>3. args[p] = Parsed(In(p).args)
      BY <2>2 DEF IInv, Inputs
    <2>4. Spelt(args[p].options) /\ Spelt(given.doc)
      BY <2>2, <2>3, CasesOK DEF IInv, Inputs, In
    <2>5. f \in DOMAIN Defaults /\ Defaults[f] = "no" /\ f \in Listed
      BY DEF Defaults, Flags, Listed
    <2>6. cfg[p][f] = IF f \in DOMAIN args[p].options THEN args[p].options[f]
                      ELSE IF f \in DOMAIN In(p).env THEN In(p).env[f]
                      ELSE IF f \in DOMAIN doc THEN doc[f] ELSE "no"
      BY <2>1, <2>5 DEF Merge, Layered
    <2>7. cfg[p][f] \notin FalseWords /\ "no" \in FalseWords
      BY WordsOK DEF On
    <2>8. CASE f \in DOMAIN args[p].options
      BY <2>4, <2>6, <2>7, <2>8 DEF Spelt, Says
    <2>9. CASE f \notin DOMAIN args[p].options /\ f \in DOMAIN In(p).env
      <3>1. In(p).env[f] \in BoolWords
        BY <2>2, <2>5, <2>9 DEF BoolRefused
      <3> QED
        BY <2>6, <2>7, <2>9, <3>1 DEF Says, Misread
    <2>10. CASE f \notin DOMAIN args[p].options /\ f \notin DOMAIN In(p).env
      <3>1. f \in DOMAIN doc /\ doc[f] # "no"
        BY <2>6, <2>7, <2>10
      <3>2. doc = given.doc
        BY <2>1, <3>1
      <3> QED
        BY <2>4, <2>10, <3>1, <3>2 DEF Spelt, Says
    <2> QED
      BY <2>8, <2>9, <2>10
  <1> QED
    BY <1>1, StartInductive, PTL

\* run_cli, build_db_url, sqlite_path_from_db_url: with the environment of a server the
\* operator's commands open its database, unless the config file alone names another,
\* and unless it is in memory or, for sql, its URL has parameters.
THEOREM DatabaseCorrect == Spec => []OneDatabase
  <1>1. IInv => OneDatabase
    <2> SUFFICES ASSUME IInv, NEW p \in Procs, NEW q \in Procs,
                        pc[q] = "serving", out[p] \in {"done", "stored"},
                        In(p).env = In(q).env,
                        "url" \notin DOMAIN args[p].options \cup DOMAIN args[q].options,
                        "url" \in DOMAIN In(q).env \/ "url" \notin DOMAIN given.doc
                 PROVE  opened[p] = opened[q] <=>
                          cfg[q].url.file # "memory" /\ ~(out[p] = "done" /\ cfg[q].url.params)
      BY DEF OneDatabase
    <2>1. PICK doc \in {given.doc, << >>} : cfg[q] = Merge(args[q].options, In(q).env, doc)
      BY DEF IInv, ValidInv, Settled
    <2>2. cfg[p] = Merge(args[p].options, In(p).env, << >>)
      BY DEF IInv, CommandInv, Alone
    <2>3. "url" \in DOMAIN Defaults
      BY DEF Defaults
    <2>4. "url" \in DOMAIN In(q).env \/ "url" \notin DOMAIN doc
      BY <2>1
    <2>5. cfg[p]["url"] = cfg[q]["url"]
      BY <2>1, <2>2, <2>3, <2>4 DEF Merge, Layered
    <2> DEFINE url == cfg[q].url
    <2>6. url \in Urls /\ p # q
      BY DEF IInv, Types, CfgOK, RefusalInv
    <2>7. opened[q] = SqlxDb(q, url)
      BY DEF IInv, OpenInv, Holds
    <2>8. out[p] = "stored" => opened[p] = SqlxDb(p, url)
      BY <2>5 DEF IInv, OpenInv, Holds, LateEnds
    <2>9. out[p] = "done" => opened[p] = ShellDb(p, url)
      BY <2>5 DEF IInv, OpenInv
    <2> HIDE DEF url
    <2>10. SqlxDb(p, url) = SqlxDb(q, url) <=> url.file # "memory"
      BY <2>6, SqlxFacts
    <2>11. /\ url.params => ShellDb(p, url) # SqlxDb(q, url)
           /\ ~url.params => ShellDb(p, url) = SqlxDb(p, url)
      BY DEF ShellDb, SqlxDb
    <2> QED
      BY <2>7, <2>8, <2>9, <2>10, <2>11 DEF url
  <1> QED
    BY <1>1, StartInductive, PTL
=============================================================================
