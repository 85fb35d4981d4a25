----------------------------- MODULE AdminProofs -----------------------------
(* Proofs about Admin, for every table, limit and number of events.          *)
EXTENDS Admin, TLAPS, FiniteSetTheorems, SequenceTheorems

-----------------------------------------------------------------------------
(* The role.                                                                 *)

\* A page is answered without the role only by a request whose check came before
\* the role was taken away; there is one request at a time.
Counted ==
  /\ late \in {0, 1}
  /\ role \in BOOLEAN
  /\ late = 1 => ~role /\ stage # "fetch"
  /\ stage \in {"ask", "role", "fetch", "save", "stop"}

\* Counted is inductive: only List counts a page, only CheckRole lets one be
\* fetched, and nothing gives the role back.
THEOREM CountedInductive == Spec => []Counted
<1>1. Init => Counted
  BY DEF Init, Counted
<1>2. Counted /\ [Next]_vars => Counted'
  <2> SUFFICES ASSUME Counted, [Next]_vars PROVE Counted'
    OBVIOUS
  <2> USE DEF Counted, table, reader
  <2>1. CASE Ask
    BY <2>1 DEF Ask
  <2>2. CASE CheckRole
    BY <2>2 DEF CheckRole, HasRole
  <2>3. CASE List
    BY <2>3 DEF List
  <2>4. CASE Save
    BY <2>4 DEF Save
  <2>5. ASSUME NEW s \in Sids, Visit(s) \/ Logout(s) PROVE Counted'
    BY <2>5 DEF Visit, Logout
  <2>6. CASE Expire \/ DeleteExpired
    BY <2>6 DEF Expire, DeleteExpired
  <2>7. CASE Revoke
    BY <2>7 DEF Revoke
  <2>8. CASE UNCHANGED vars
    BY <2>8 DEF vars
  <2> QED
    BY <2>1, <2>2, <2>3, <2>4, <2>5, <2>6, <2>7, <2>8 DEF Next, Read, World, Stopped
<1> QED
  BY <1>1, <1>2, PTL DEF Spec

\* A reader who has lost the role gets at most the page whose check was already
\* done (require_roles_middleware asks the database for each request).
THEOREM RevokedAtOnceCorrect == Spec => []RevokedAtOnce
<1>1. Counted => RevokedAtOnce
  BY DEF Counted, RevokedAtOnce
<1> QED
  BY <1>1, CountedInductive, PTL

-----------------------------------------------------------------------------
(* Rows and places.                                                          *)

\* What follows a row that is taken out moves up by one place.
LEMMA Removed ==
  ASSUME NEW S, NEW q \in Seq(S), NEW p \in 1 .. Len(q)
  PROVE  /\ RemoveAt(q, p) \in Seq(S) /\ Len(RemoveAt(q, p)) = Len(q) - 1
         /\ \A i \in 1 .. Len(q) - 1 :
              RemoveAt(q, p)[i] = IF i < p THEN q[i] ELSE q[i + 1]
  <1> DEFINE a == SubSeq(q, 1, p - 1)
             b == SubSeq(q, p + 1, Len(q))
  <1>1. /\ a \in Seq(S) /\ Len(a) = p - 1
        /\ \A i \in 1 .. p - 1 : a[i] = q[i]
    OBVIOUS
  <1>2. /\ b \in Seq(S) /\ Len(b) = Len(q) - p
        /\ \A i \in 1 .. Len(q) - p : b[i] = q[p + i]
    OBVIOUS
  <1>3. RemoveAt(q, p) = a \o b
    BY DEF RemoveAt
  <1> HIDE DEF a, b
  <1>6. Len(q) \in Nat /\ p \in Nat /\ (p - 1) + (Len(q) - p) = Len(q) - 1
    OBVIOUS
  <1>7. /\ a \o b \in Seq(S) /\ Len(a \o b) = Len(a) + Len(b)
        /\ \A i \in 1 .. Len(a) + Len(b) :
             (a \o b)[i] = IF i <= Len(a) THEN a[i] ELSE b[i - Len(a)]
    BY <1>1, <1>2, ConcatProperties
  <1>4. /\ a \o b \in Seq(S) /\ Len(a \o b) = Len(q) - 1
        /\ \A i \in 1 .. Len(q) - 1 : (a \o b)[i] = IF i < p THEN a[i] ELSE b[i - (p - 1)]
    BY <1>1, <1>2, <1>6, <1>7
  <1>5. ASSUME NEW i \in 1 .. Len(q) - 1
        PROVE  (a \o b)[i] = IF i < p THEN q[i] ELSE q[i + 1]
    <2>1. CASE i < p
      BY <1>1, <1>4, <2>1
    <2>2. CASE ~(i < p)
      <3>1. i - (p - 1) \in 1 .. Len(q) - p /\ p + (i - (p - 1)) = i + 1
        BY <2>2
      <3> QED
        BY <1>2, <1>4, <2>2, <3>1
    <2> QED
      BY <2>1, <2>2
  <1> QED
    BY <1>3, <1>4, <1>5

\* In a list without repetitions a place and what is at it determine each other.
LEMMA PlaceIn ==
  ASSUME NEW q, IsInjective(q), NEW i \in DOMAIN q
  PROVE  (CHOOSE j \in DOMAIN q : q[j] = q[i]) = i
BY DEF IsInjective

\* List r is list q without what is at p, which may be back at the end.
Shifted(q, r, p) ==
  /\ p \in 1 .. Len(q)
  /\ \/ Len(r) = Len(q) - 1
     \/ Len(r) = Len(q) /\ r[Len(q)] = q[p]
  /\ \A i \in 1 .. Len(q) - 1 : r[i] = IF i < p THEN q[i] ELSE q[i + 1]

\* Every other element is one place further to the front, or where it was.
LEMMA ShiftedPlaces ==
  ASSUME NEW S, NEW q \in Seq(S), NEW r \in Seq(S), NEW p, Shifted(q, r, p), IsInjective(q)
  PROVE  /\ IsInjective(r)
         /\ \A i \in 1 .. Len(q) :
              \/ i = p
              \/ i < p /\ i \in 1 .. Len(r) /\ r[i] = q[i]
              \/ i > p /\ i - 1 \in 1 .. Len(r) /\ r[i - 1] = q[i]
         /\ \A j \in 1 .. Len(r) :
              \/ r[j] = q[p] /\ j = Len(q)
              \/ j < p /\ j \in 1 .. Len(q) /\ r[j] = q[j]
              \/ j >= p /\ j + 1 \in 1 .. Len(q) /\ r[j] = q[j + 1]
  <1>1. PICK n, m \in Nat : n = Len(q) /\ m = Len(r)
    OBVIOUS
  <1>2. /\ p \in 1 .. n
        /\ \/ m = n - 1
           \/ m = n /\ r[n] = q[p]
        /\ \A i \in 1 .. n - 1 : r[i] = IF i < p THEN q[i] ELSE q[i + 1]
    BY <1>1 DEF Shifted
  <1>3. ASSUME NEW i \in 1 .. n
        PROVE  \/ i = p
               \/ i < p /\ i \in 1 .. m /\ r[i] = q[i]
               \/ i > p /\ i - 1 \in 1 .. m /\ r[i - 1] = q[i]
    <2>1. CASE i < p
      <3>1. i \in 1 .. n - 1 /\ i \in 1 .. m
        BY <1>2, <2>1
      <3> QED
        BY <1>2, <2>1, <3>1
    <2>2. CASE i > p
      <3>1. i - 1 \in 1 .. n - 1 /\ i - 1 \in 1 .. m /\ ~(i - 1 < p) /\ (i - 1) + 1 = i
        BY <1>2, <2>2
      <3> QED
        BY <1>2, <2>2, <3>1
    <2> QED
      BY <1>2, <2>1, <2>2
  <1>4. ASSUME NEW j \in 1 .. m
        PROVE  \/ r[j] = q[p] /\ j = n
               \/ j < p /\ j \in 1 .. n /\ r[j] = q[j]
               \/ j >= p /\ j + 1 \in 1 .. n /\ r[j] = q[j + 1]
    <2>1. CASE j = n
      BY <1>2, <2>1
    <2>2. CASE j # n
      <3>1. j \in 1 .. n - 1 /\ j \in 1 .. n /\ j + 1 \in 1 .. n
        BY <1>2, <2>2
      <3>2. r[j] = IF j < p THEN q[j] ELSE q[j + 1]
        BY <1>2, <3>1
      <3> QED
        BY <1>2, <3>1, <3>2
    <2> QED
      BY <2>1, <2>2
  <1>5. \A i, j \in 1 .. n : q[i] = q[j] => i = j
    BY <1>1 DEF IsInjective
  <1>6. \A i, j \in 1 .. m : r[i] = r[j] => i = j
    BY <1>2, <1>4, <1>5
  <1>7. DOMAIN r = 1 .. m
    BY <1>1
  <1> QED
    BY <1>1, <1>3, <1>4, <1>6, <1>7 DEF IsInjective

\* The rows at i .. i + k - 1 are at most k.
LEMMA StretchOf ==
  ASSUME NEW q, NEW a \in Nat, NEW k \in Nat
  PROVE  LET R == {q[i] : i \in a + 1 .. a + k}
         IN  IsFiniteSet(R) /\ Cardinality(R) <= k
  <1> DEFINE R == {q[i] : i \in a + 1 .. a + k}
             f == [j \in 1 .. k |-> q[a + j]]
  <1>1. f \in [1 .. k -> R]
    OBVIOUS
  <1>2. ASSUME NEW t \in R PROVE \E j \in 1 .. k : f[j] = t
    <2>1. PICK i \in a + 1 .. a + k : t = q[i]
      OBVIOUS
    <2>2. i - a \in 1 .. k /\ a + (i - a) = i
      OBVIOUS
    <2> QED
      BY <2>1, <2>2
  <1> HIDE DEF R, f
  <1>3. ExistsSurjection(1 .. k, R)
    BY <1>1, <1>2 DEF ExistsSurjection, Surjection
  <1>4. IsFiniteSet(R) /\ Cardinality(R) <= k
    BY <1>3, FS_NatSurjection, FS_SurjCardinalityBound
  <1> QED
    BY <1>4 DEF R

\* A set that gains no more than those counts for no more than k more.
LEMMA GainsStretch ==
  ASSUME NEW X, IsFiniteSet(X), NEW q, NEW a \in Nat, NEW k \in Nat,
         NEW Y \in SUBSET (X \cup {q[i] : i \in a + 1 .. a + k})
  PROVE  Cardinality(Y) <= Cardinality(X) + k
  <1> DEFINE R == {q[i] : i \in a + 1 .. a + k}
  <1>1. IsFiniteSet(R) /\ Cardinality(R) <= k
    BY StretchOf
  <1> HIDE DEF R
  <1>2. /\ IsFiniteSet(X \cup R)
        /\ Cardinality(X \cup R) = Cardinality(X) + Cardinality(R) - Cardinality(X \cap R)
    BY <1>1, FS_Union
  <1>3. IsFiniteSet(X \cap R)
    BY <1>1, FS_Subset
  <1>4. /\ Cardinality(X) \in Nat /\ Cardinality(R) \in Nat
        /\ Cardinality(X \cap R) \in Nat
    BY <1>1, <1>3, FS_CardinalityType
  <1>5. Cardinality(X \cup R) <= Cardinality(X) + k
    BY <1>1, <1>2, <1>4
  <1>6. Y \in SUBSET (X \cup R)
    BY DEF R
  <1>7. Cardinality(Y) \in Nat /\ Cardinality(Y) <= Cardinality(X \cup R)
    BY <1>2, <1>6, FS_Subset, FS_CardinalityType
  <1>8. Cardinality(X \cup R) \in Nat
    BY <1>2, FS_CardinalityType
  <1> QED
    BY <1>4, <1>5, <1>7, <1>8

-----------------------------------------------------------------------------
(* The table while it is read.                                               *)

LEMMA PlaceFacts ==
  ASSUME TableInv
  PROVE  /\ Len(rows) \in Nat /\ DOMAIN rows = 1 .. Len(rows)
         /\ \A i \in 1 .. Len(rows) : rows[i] \in Sids /\ Place(rows[i]) = i
         /\ \A s \in Rows : Place(s) \in 1 .. Len(rows) /\ rows[Place(s)] = s
         /\ \A s \in still : \E i \in dead + 1 .. Len(rows) : i \in 1 .. Len(rows) /\ rows[i] = s
  <1>1. /\ Len(rows) \in Nat /\ DOMAIN rows = 1 .. Len(rows)
        /\ \A i \in 1 .. Len(rows) : rows[i] \in Sids
    BY DEF TableInv
  <1>2. \A i \in 1 .. Len(rows) : Place(rows[i]) = i
    BY <1>1, PlaceIn DEF TableInv, Place
  <1>3. \A s \in Rows : \E i \in 1 .. Len(rows) : rows[i] = s
    BY <1>1 DEF Rows, ToSet
  <1>4. \A s \in still : \E i \in dead + 1 .. Len(rows) : i \in 1 .. Len(rows) /\ rows[i] = s
    BY <1>1 DEF TableInv, Live
  <1> QED
    BY <1>1, <1>2, <1>3, <1>4

LEMMA LiveRows ==
  ASSUME TableInv
  PROVE  Live \subseteq Rows
  <1>1. \A i \in dead + 1 .. Len(rows) : i \in DOMAIN rows
    BY DEF TableInv
  <1> QED
    BY <1>1 DEF Live, Rows, ToSet

\* Row p leaves its place, for good or to the end of the table.
Moves(p) ==
  /\ rows' \in Seq(Sids) /\ Shifted(rows, rows', p)
  /\ dead' = IF p <= dead THEN dead - 1 ELSE dead
  /\ still' = still \ {rows[p]}
  /\ gone' = IF p <= offset THEN gone + 1 ELSE gone

LEMMA LeaveMoves ==
  ASSUME TableInv, NEW s \in Rows, Leave(s), rows' = Without(s) \/ rows' = Append(Without(s), s)
  PROVE  /\ Moves(Place(s)) /\ rows[Place(s)] = s
         /\ rows' = Append(Without(s), s) => Len(rows') = Len(rows)
  <1> DEFINE p == Place(s)
             w == RemoveAt(rows, p)
  <1>1. p \in 1 .. Len(rows) /\ rows[p] = s /\ s \in Sids
    BY PlaceFacts
  <1>2. rows \in Seq(Sids)
    BY DEF TableInv
  <1>3. w = Without(s)
    BY DEF Without
  <1>4. /\ w \in Seq(Sids) /\ Len(w) = Len(rows) - 1
        /\ \A i \in 1 .. Len(rows) - 1 : w[i] = IF i < p THEN rows[i] ELSE rows[i + 1]
    BY <1>1, <1>2, Removed
  <1> HIDE DEF p, w
  <1>5. Len(rows) \in Nat
    BY <1>2
  <1>6. /\ Append(w, s) \in Seq(Sids) /\ Len(Append(w, s)) = Len(rows)
        /\ Append(w, s)[Len(rows)] = s
        /\ \A i \in 1 .. Len(rows) - 1 : Append(w, s)[i] = w[i]
    BY <1>1, <1>4, <1>5
  <1>7. /\ dead' = IF p <= dead THEN dead - 1 ELSE dead
        /\ still' = still \ {s}
        /\ gone' = IF p <= offset THEN gone + 1 ELSE gone
    BY DEF Leave, p
  <1>8. ASSUME rows' = w PROVE Moves(p)
    BY <1>1, <1>4, <1>7, <1>8 DEF Moves, Shifted, p
  <1>9. ASSUME rows' = Append(w, s) PROVE Moves(p)
    BY <1>1, <1>4, <1>6, <1>7, <1>9 DEF Moves, Shifted, p
  <1> QED
    BY <1>1, <1>3, <1>6, <1>8, <1>9 DEF p

\* A row that moves leaves the table as it should be.
LEMMA MovesTable ==
  ASSUME TableInv, NEW p, Moves(p), UNCHANGED <<offset, limit>>
  PROVE  TableInv'
  <1>0. /\ rows \in Seq(Sids) /\ rows' \in Seq(Sids) /\ IsInjective(rows)
        /\ Shifted(rows, rows', p)
    BY DEF TableInv, Moves
  <1>1. PICK n, m, d \in Nat : n = Len(rows) /\ m = Len(rows') /\ d = dead
    BY <1>0 DEF TableInv
  <1>2. /\ p \in 1 .. n /\ m \in {n - 1, n} /\ d <= n
        /\ dead' = IF p <= d THEN d - 1 ELSE d
        /\ gone \in Nat /\ gone' = IF p <= offset THEN gone + 1 ELSE gone
    BY <1>0, <1>1 DEF Shifted, Moves, TableInv
  <1>3. /\ IsInjective(rows')
        /\ \A i \in 1 .. n : \/ i = p
                             \/ i < p /\ i \in 1 .. m /\ rows'[i] = rows[i]
                             \/ i > p /\ i - 1 \in 1 .. m /\ rows'[i - 1] = rows[i]
    BY <1>0, <1>1, ShiftedPlaces
  <1>4. dead' \in 0 .. m /\ gone' \in Nat
    BY <1>2
  <1>5. ASSUME NEW s \in still' PROVE \E j \in dead' + 1 .. m : rows'[j] = s
    <2>1. PICK i \in d + 1 .. n : i \in 1 .. n /\ rows[i] = s
      BY <1>1, <1>5, PlaceFacts DEF Moves
    <2>2. i # p
      BY <1>5, <2>1 DEF Moves
    <2>3. CASE i < p
      <3>1. i \in 1 .. m /\ rows'[i] = s /\ dead' <= d
        BY <1>2, <1>3, <2>1, <2>3
      <3>2. i \in dead' + 1 .. m
        BY <1>2, <2>1, <2>3, <3>1
      <3> QED
        BY <3>1, <3>2
    <2>4. CASE i > p
      <3>1. i - 1 \in 1 .. m /\ rows'[i - 1] = s
        BY <1>2, <1>3, <2>1, <2>4
      <3>2. i - 1 \in dead' + 1 .. m
        BY <1>2, <2>1, <2>4, <3>1
      <3> QED
        BY <3>1, <3>2
    <2> QED
      BY <1>2, <2>1, <2>2, <2>3, <2>4
  <1>6. still' \subseteq Live'
    BY <1>1, <1>5 DEF Live
  <1> QED
    BY <1>0, <1>1, <1>3, <1>4, <1>6 DEF TableInv

\* A session without a row gets one at the end.
Grows(s) ==
  /\ s \in Sids \ Rows
  /\ rows' = Append(rows, s)
  /\ UNCHANGED <<dead, still, gone>>

LEMMA TouchKinds ==
  ASSUME TableInv, NEW s \in Sids, Touch(s)
  PROVE  \/ /\ s \in Rows /\ Moves(Place(s)) /\ rows[Place(s)] = s
            /\ Len(rows') = Len(rows)
         \/ Grows(s)
  <1>1. CASE s \in Rows
    BY <1>1, LeaveMoves DEF Touch
  <1>2. CASE s \notin Rows
    BY <1>2 DEF Touch, Without, Grows
  <1> QED
    BY <1>1, <1>2

LEMMA GrowsRows ==
  ASSUME TableInv, NEW s, Grows(s)
  PROVE  /\ rows' \in Seq(Sids) /\ IsInjective(rows') /\ Len(rows') = Len(rows) + 1
         /\ rows'[Len(rows) + 1] = s
         /\ \A i \in 1 .. Len(rows) : i \in 1 .. Len(rows') /\ rows'[i] = rows[i] /\ rows[i] # s
  <1>1. /\ rows \in Seq(Sids) /\ s \in Sids /\ IsInjective(rows)
        /\ \A i \in 1 .. Len(rows) : rows[i] # s
    BY DEF TableInv, Grows, Rows, ToSet
  <1>2. PICK n \in Nat : n = Len(rows)
    BY <1>1
  <1>3. /\ rows' \in Seq(Sids) /\ Len(rows') = n + 1
        /\ rows'[n + 1] = s /\ \A i \in 1 .. n : rows'[i] = rows[i]
    BY <1>1, <1>2 DEF Grows
  <1>4. /\ DOMAIN rows' = 1 .. n + 1
        /\ \A i, j \in 1 .. n : rows[i] = rows[j] => i = j
    BY <1>1, <1>2, <1>3 DEF IsInjective
  <1>5. ASSUME NEW i \in 1 .. n + 1, NEW j \in 1 .. n + 1, rows'[i] = rows'[j]
        PROVE  i = j
    <2>1. i \in 1 .. n \/ i = n + 1
      OBVIOUS
    <2>2. j \in 1 .. n \/ j = n + 1
      OBVIOUS
    <2> QED
      BY <1>1, <1>2, <1>3, <1>4, <1>5, <2>1, <2>2
  <1> QED
    BY <1>1, <1>2, <1>3, <1>4, <1>5 DEF IsInjective

\* The deletion task takes the expired rows off the front.
LEMMA DeleteRows ==
  ASSUME TableInv, DeleteExpired
  PROVE  /\ rows' \in Seq(Sids) /\ IsInjective(rows') /\ Len(rows') = Len(rows) - dead
         /\ dead \in Nat /\ dead' = 0
         /\ \A i \in 1 .. Len(rows') : /\ i + dead \in dead + 1 .. Len(rows)
                                       /\ rows'[i] = rows[i + dead]
         /\ \A i \in dead + 1 .. Len(rows) : /\ i - dead \in 1 .. Len(rows')
                                             /\ rows'[i - dead] = rows[i]
  <1>1. rows \in Seq(Sids) /\ IsInjective(rows) /\ dead \in 0 .. Len(rows)
    BY DEF TableInv
  <1>2. PICK n, d \in Nat : n = Len(rows) /\ d = dead
    BY <1>1
  <1>3. /\ d <= n /\ dead' = 0 /\ rows' = SubSeq(rows, d + 1, n)
        /\ \A i \in 1 .. n : rows[i] \in Sids
    BY <1>1, <1>2 DEF DeleteExpired
  <1>4. /\ rows' \in Seq(Sids) /\ Len(rows') = n - d
        /\ \A i \in 1 .. n - d : rows'[i] = rows[i + d]
    BY <1>1, <1>2, <1>3
  <1>5. /\ DOMAIN rows' = 1 .. n - d
        /\ \A i, j \in 1 .. n : rows[i] = rows[j] => i = j
    BY <1>1, <1>2, <1>4 DEF IsInjective
  <1>6. ASSUME NEW i \in 1 .. n - d, NEW j \in 1 .. n - d, rows'[i] = rows'[j]
        PROVE  i = j
    <2>1. i + d \in 1 .. n /\ j + d \in 1 .. n
      BY <1>3
    <2>2. i + d = j + d
      BY <1>4, <1>5, <1>6, <2>1
    <2> QED
      BY <2>2
  <1>7. ASSUME NEW i \in d + 1 .. n
        PROVE  i - d \in 1 .. n - d /\ rows'[i - d] = rows[i]
    <2>1. i - d \in 1 .. n - d /\ (i - d) + d = i
      BY <1>3
    <2> QED
      BY <1>4, <2>1
  <1>8. \A i \in 1 .. n - d : i + d \in d + 1 .. n
    BY <1>3
  <1> QED
    BY <1>2, <1>3, <1>4, <1>5, <1>6, <1>7, <1>8 DEF IsInjective

\* TableInv is inductive: what is live and unmoved is still in the table.
THEOREM TableCorrect == Spec => []TableInv
<1>1. Init => TableInv
  <2> SUFFICES ASSUME Init PROVE TableInv
    OBVIOUS
  <2>1. PICK q \in SeqOf(Sids, Cardinality(Sids)) : rows = q /\ IsInjective(q) /\ Reader \in ToSet(q)
    BY DEF Init
  <2>2. rows \in Seq(Sids) /\ IsInjective(rows) /\ Reader \in Rows
    BY <2>1 DEF SeqOf, Rows
  <2>3. Len(rows) \in Nat /\ DOMAIN rows = 1 .. Len(rows)
    BY <2>2
  <2>4. Place(Reader) \in 1 .. Len(rows)
    BY <2>2, <2>3 DEF Rows, ToSet, Place
  <2>5. dead \in 0 .. Len(rows)
    BY <2>3, <2>4 DEF Init
  <2>6. limit \in Nat
    BY ConstantsOK DEF Init, Clamped
  <2> QED
    BY <2>2, <2>5, <2>6 DEF Init, TableInv
<1>2. TableInv /\ [Next]_vars => TableInv'
  <2> SUFFICES ASSUME TableInv, [Next]_vars PROVE TableInv'
    OBVIOUS
  <2>1. ASSUME UNCHANGED <<rows, dead, still, gone, offset, limit>> PROVE TableInv'
    BY <2>1 DEF TableInv, Live
  <2>2. CASE List
    BY <2>2 DEF List, NextOffset, table, TableInv, Live
  <2>3. ASSUME NEW p, Moves(p), UNCHANGED <<offset, limit>> PROVE TableInv'
    BY <2>3, MovesTable
  <2>4. ASSUME NEW s, Grows(s), UNCHANGED <<offset, limit>> PROVE TableInv'
    <3>1. /\ rows' \in Seq(Sids) /\ IsInjective(rows') /\ Len(rows') = Len(rows) + 1
          /\ \A i \in 1 .. Len(rows) : i \in 1 .. Len(rows') /\ rows'[i] = rows[i]
      BY <2>4, GrowsRows
    <3>2. PICK n, d \in Nat : n = Len(rows) /\ d = dead
      BY DEF TableInv
    <3>3. dead' = d /\ d <= n
      BY <2>4, <3>2 DEF Grows, TableInv
    <3>4. ASSUME NEW t \in still' PROVE \E j \in d + 1 .. n + 1 : rows'[j] = t
      <4>1. PICK i \in d + 1 .. n : i \in 1 .. n /\ rows[i] = t
        BY <2>4, <3>2, <3>4, PlaceFacts DEF Grows
      <4>2. i \in d + 1 .. n + 1 /\ rows'[i] = t
        BY <3>1, <3>2, <4>1
      <4> QED
        BY <4>2
    <3> QED
      BY <2>4, <3>1, <3>2, <3>3, <3>4 DEF TableInv, Grows, Live
  <2>5. ASSUME NEW s \in Sids, Touch(s), UNCHANGED <<offset, limit>> PROVE TableInv'
    BY <2>3, <2>4, <2>5, TouchKinds
  <2>6. CASE Save
    BY <2>5, <2>6, ConstantsOK DEF Save
  <2>7. ASSUME NEW s \in Sids, Visit(s) PROVE TableInv'
    BY <2>5, <2>7 DEF Visit, reader
  <2>8. ASSUME NEW s \in Sids, Logout(s) PROVE TableInv'
    <3>1. s \in Rows
      BY <2>8, LiveRows DEF Logout
    <3>2. Moves(Place(s))
      BY <2>8, <3>1, LeaveMoves DEF Logout
    <3> QED
      BY <2>3, <2>8, <3>2 DEF Logout, reader
  <2>9. CASE Expire
    <3>1. PICK n, d \in Nat : n = Len(rows) /\ d = dead
      BY DEF TableInv
    <3>2. dead' = d + 1 /\ d < n /\ rows' = rows /\ still' = still \ {rows[d + 1]}
      BY <2>9, <3>1 DEF Expire
    <3>3. ASSUME NEW t \in still' PROVE \E j \in d + 2 .. n : rows[j] = t
      <4>1. PICK i \in d + 1 .. n : rows[i] = t
        BY <3>1, <3>2, <3>3, PlaceFacts
      <4>2. i # d + 1
        BY <3>2, <3>3, <4>1
      <4>3. i \in d + 2 .. n
        BY <4>1, <4>2
      <4> QED
        BY <4>1, <4>3
    <3>4. still' \subseteq Live'
      BY <3>1, <3>2, <3>3 DEF Live
    <3>5. dead' \in 0 .. n
      BY <3>2
    <3> QED
      BY <2>9, <3>1, <3>2, <3>4, <3>5 DEF TableInv, Expire, reader
  <2>10. CASE DeleteExpired
    <3>1. /\ rows' \in Seq(Sids) /\ IsInjective(rows') /\ dead \in Nat /\ dead' = 0
          /\ \A i \in dead + 1 .. Len(rows) : /\ i - dead \in 1 .. Len(rows')
                                              /\ rows'[i - dead] = rows[i]
      BY <2>10, DeleteRows
    <3>2. still' \subseteq Live'
      <4>1. \A t \in still : \E j \in 1 .. Len(rows') : rows'[j] = t
        BY <3>1, PlaceFacts
      <4>2. dead' + 1 = 1 /\ still' = still
        BY <2>10, <3>1 DEF DeleteExpired
      <4> QED
        BY <4>1, <4>2 DEF Live
    <3>3. gone' \in Nat
      BY <2>10, <3>1 DEF DeleteExpired, TableInv
    <3> QED
      BY <2>10, <3>1, <3>2, <3>3 DEF TableInv, DeleteExpired, reader
  <2>11. CASE Ask \/ CheckRole \/ Revoke \/ UNCHANGED vars
    BY <2>1, <2>11 DEF Ask, CheckRole, Revoke, vars, table, reader
  <2> QED
    BY <2>2, <2>6, <2>7, <2>8, <2>9, <2>10, <2>11 DEF Next, Read, World, Stopped
<1> QED
  BY <1>1, <1>2, PTL DEF Spec

-----------------------------------------------------------------------------
(* A page.                                                                   *)

\* The rows read begin at offset and are limit + 1, or as many as there are.
LEMMA FetchedRows ==
  ASSUME TableInv
  PROVE  /\ Fetched \in Seq(Sids)
         /\ Len(Fetched) = IF offset + limit + 1 <= Len(rows) THEN limit + 1
                           ELSE IF offset <= Len(rows) THEN Len(rows) - offset ELSE 0
         /\ \A i \in 1 .. Len(Fetched) : offset + i \in 1 .. Len(rows) /\ Fetched[i] = rows[offset + i]
  <1>1. PICK n, o, l \in Nat : n = Len(rows) /\ o = offset /\ l = limit
    BY DEF TableInv
  <1>2. rows \in Seq(Sids)
    BY DEF TableInv
  <1> DEFINE e == IF o + l + 1 <= n THEN o + l + 1 ELSE n
             k == IF o + l + 1 <= n THEN l + 1 ELSE IF o <= n THEN n - o ELSE 0
  <1>3. Fetched = SubSeq(rows, o + 1, e)
    BY <1>1 DEF Fetched, Ordered
  <1>4. e \in Nat /\ e <= n /\ k \in Nat /\ (o <= e => k = e - o) /\ (~(o <= e) => k = 0)
        /\ (o + k <= n \/ k = 0)
    OBVIOUS
  <1> HIDE DEF e, k
  <1>5. /\ SubSeq(rows, o + 1, e) \in Seq(Sids) /\ Len(SubSeq(rows, o + 1, e)) = k
        /\ \A i \in 1 .. k : SubSeq(rows, o + 1, e)[i] = rows[o + i]
    <2>1. /\ o + 1 \in Int /\ e \in Int
          /\ \A i \in o + 1 .. e : i \in 1 .. n /\ rows[i] \in Sids
      BY <1>1, <1>2, <1>4
    <2>2. /\ SubSeq(rows, o + 1, e) \in Seq(Sids)
          /\ Len(SubSeq(rows, o + 1, e)) = IF o + 1 <= e THEN e - (o + 1) + 1 ELSE 0
          /\ \A i \in 1 .. e - (o + 1) + 1 : SubSeq(rows, o + 1, e)[i] = rows[(o + 1) + i - 1]
      BY <2>1, SubSeqProperties
    <2>3. k = IF o + 1 <= e THEN e - (o + 1) + 1 ELSE 0
      BY <1>4
    <2>4. \A i \in 1 .. k : i \in 1 .. e - (o + 1) + 1 /\ (o + 1) + i - 1 = o + i
      BY <1>4
    <2> QED
      BY <2>2, <2>3, <2>4
  <1>6. \A i \in 1 .. k : o + i \in 1 .. n
    BY <1>4
  <1> QED
    BY <1>1, <1>3, <1>5, <1>6 DEF k

\* A page is the live rows among the limit from offset; there is more when a row
\* follows them.
LEMMA PageRows ==
  ASSUME TableInv
  PROVE  /\ \A s \in Page : \E i \in dead + 1 .. Len(rows) :
              rows[i] = s /\ offset < i /\ i <= offset + limit
         /\ \A i \in dead + 1 .. Len(rows) :
              offset < i /\ i <= offset + limit => rows[i] \in Page
         /\ HasMore <=> Len(rows) > offset + limit
  <1>1. PICK n, o, l, d \in Nat : n = Len(rows) /\ o = offset /\ l = limit /\ d = dead
    BY DEF TableInv
  <1>2. PICK k \in Nat : k = Len(Fetched)
    BY FetchedRows
  <1>3. /\ Fetched \in Seq(Sids)
        /\ k = IF o + l + 1 <= n THEN l + 1 ELSE IF o <= n THEN n - o ELSE 0
        /\ \A i \in 1 .. k : o + i \in 1 .. n /\ Fetched[i] = rows[o + i]
    BY <1>1, <1>2, FetchedRows
  <1> DEFINE c == IF l <= k THEN l ELSE k
             f == SubSeq(Fetched, 1, c)
  <1>4. c \in Nat /\ c <= k /\ c <= l
    OBVIOUS
  <1>5. Page = {s \in ToSet(f) : s \in Live}
    BY <1>1, <1>2 DEF Page
  <1>6. c = IF o + l <= n THEN l ELSE IF o <= n THEN n - o ELSE 0
    BY <1>3
  <1> HIDE DEF c
  <1>7. /\ f \in Seq(Sids) /\ Len(f) = c
        /\ \A i \in 1 .. c : f[i] = Fetched[i]
    <2>0. \A i \in 1 .. k : rows[o + i] \in Sids
      BY <1>1, <1>3, PlaceFacts
    <2>1. \A i \in 1 .. c : i \in 1 .. k /\ Fetched[i] \in Sids
      <3>1. \A i \in 1 .. c : i \in 1 .. k
        BY <1>4
      <3> QED
        BY <1>3, <2>0, <3>1
    <2>2. c \in Int /\ 1 \in Int /\ c = (IF 1 <= c THEN c - 1 + 1 ELSE 0)
          /\ \A i \in 1 .. c : i \in 1 .. c - 1 + 1 /\ 1 + i - 1 = i
      BY <1>4
    <2>3. /\ f \in Seq(Sids) /\ Len(f) = IF 1 <= c THEN c - 1 + 1 ELSE 0
          /\ \A i \in 1 .. c - 1 + 1 : f[i] = Fetched[1 + i - 1]
      BY <2>1, <2>2, SubSeqProperties
    <2> QED
      BY <2>2, <2>3
  <1>8. /\ DOMAIN f = 1 .. c
        /\ \A i \in 1 .. c : i \in 1 .. k /\ o + i \in 1 .. n /\ f[i] = rows[o + i]
    BY <1>3, <1>4, <1>7
  <1> HIDE DEF f
  <1>9. ToSet(f) = {f[i] : i \in 1 .. c}
    BY <1>8 DEF ToSet
  <1>10. ASSUME NEW s \in Page
         PROVE  \E i \in d + 1 .. n : rows[i] = s /\ o < i /\ i <= o + l
    <2>1. PICK j \in 1 .. c : s = rows[o + j] /\ o + j \in 1 .. n
      BY <1>5, <1>8, <1>9
    <2>2. PICK i \in d + 1 .. n : rows[i] = s
      BY <1>1, <1>5 DEF Live
    <2>3. i \in 1 .. n
      OBVIOUS
    <2>4. i = o + j
      BY <1>1, <2>1, <2>2, <2>3, PlaceFacts
    <2>5. o < i /\ i <= o + l
      BY <1>4, <2>4
    <2> QED
      BY <2>2, <2>5
  <1>11. ASSUME NEW i \in d + 1 .. n, o < i, i <= o + l
         PROVE  rows[i] \in Page
    <2>1. i - o \in 1 .. c /\ o + (i - o) = i
      BY <1>6, <1>11
    <2>2. rows[i] \in ToSet(f)
      BY <1>8, <1>9, <2>1
    <2>3. rows[i] \in Live
      BY <1>1 DEF Live
    <2> QED
      BY <1>5, <2>2, <2>3
  <1>12. HasMore <=> n > o + l
    BY <1>1, <1>2, <1>3 DEF HasMore
  <1> QED
    BY <1>1, <1>10, <1>11, <1>12

-----------------------------------------------------------------------------
(* What the pages list and what they pass over.                              *)

\* Skipped, and PagesInv, said of the rows instead of the places of sessions.
Past == {s \in still \ items : \E i \in 1 .. Len(rows) : rows[i] = s /\ i <= offset}

PagesPlaced ==
  /\ \A i \in 1 .. Len(rows) : rows[i] \in still \cap items => i <= offset
  /\ twice \cap still = {}
  /\ Cardinality(Past) <= gone

LEMMA PastIsSkipped ==
  ASSUME TableInv
  PROVE  Skipped = Past /\ (PagesInv <=> PagesPlaced)
  <1>1. \A s \in still : \E i \in 1 .. Len(rows) : rows[i] = s /\ Place(s) = i
    BY PlaceFacts
  <1>2. \A i, j \in 1 .. Len(rows) : rows[i] = rows[j] => i = j
    BY PlaceFacts
  <1>3. \A s \in still : Place(s) <= offset <=> \E i \in 1 .. Len(rows) : rows[i] = s /\ i <= offset
    BY <1>1, <1>2
  <1>4. Skipped = Past
    BY <1>3 DEF Skipped, Past
  <1>5. (\A s \in still \cap items : Place(s) <= offset)
          <=> \A i \in 1 .. Len(rows) : rows[i] \in still \cap items => i <= offset
    BY <1>1, <1>2
  <1> QED
    BY <1>4, <1>5 DEF PagesInv, PagesPlaced, ListedOnce, SkippedAtMostGone

LEMMA PastFinite ==
  ASSUME TableInv
  PROVE  IsFiniteSet(Past) /\ Cardinality(Past) \in Nat
  <1>1. Past \subseteq Sids
    BY PlaceFacts DEF Past
  <1> QED
    BY <1>1, ConstantsOK, FS_Subset, FS_CardinalityType

\* A step that passes over nothing new and frees no place.
LEMMA FewerPast ==
  ASSUME TableInv, Past' \subseteq Past
  PROVE  Cardinality(Past') \in Nat /\ Cardinality(Past') <= Cardinality(Past)
BY PastFinite, FS_Subset, FS_CardinalityType

\* One that passes over what may come to lie in k freed places.
LEMMA MorePast ==
  ASSUME TableInv, NEW a \in Nat, NEW k \in Nat,
         Past' \subseteq Past \cup {rows[i] : i \in a + 1 .. a + k}
  PROVE  Cardinality(Past') <= Cardinality(Past) + k
BY PastFinite, GainsStretch

\* A row that leaves a place before offset lets the one at it be passed over; one
\* that leaves a place behind offset, none.
LEMMA MovesPast ==
  ASSUME TableInv, NEW p, Moves(p), UNCHANGED <<offset, items>>
  PROVE  /\ p > offset => Past' \subseteq Past
         /\ Past' \subseteq Past \cup {rows[i] : i \in offset + 1 .. offset + 1}
         /\ \A j \in 1 .. Len(rows') :
              rows'[j] \in still' =>
                \/ j < p /\ j \in 1 .. Len(rows) /\ rows'[j] = rows[j]
                \/ j >= p /\ j + 1 \in 1 .. Len(rows) /\ rows'[j] = rows[j + 1]
  <1>1. PICK n, m, o \in Nat : n = Len(rows) /\ m = Len(rows') /\ o = offset
    BY DEF TableInv, Moves
  <1>2. /\ p \in 1 .. n
        /\ \A j \in 1 .. m :
              \/ rows'[j] = rows[p]
              \/ j < p /\ j \in 1 .. n /\ rows'[j] = rows[j]
              \/ j >= p /\ j + 1 \in 1 .. n /\ rows'[j] = rows[j + 1]
    BY <1>1, ShiftedPlaces DEF TableInv, Moves, Shifted
  <1>3. still' = still \ {rows[p]} /\ offset' = o /\ items' = items
    BY <1>1 DEF Moves
  <1>4. ASSUME NEW j \in 1 .. m, rows'[j] \in still'
        PROVE  \/ j < p /\ j \in 1 .. n /\ rows'[j] = rows[j]
               \/ j >= p /\ j + 1 \in 1 .. n /\ rows'[j] = rows[j + 1]
    BY <1>2, <1>3, <1>4
  <1>5. ASSUME NEW s \in Past'
        PROVE  s \in Past \/ (p <= o /\ s = rows[o + 1])
    <2>1. s \in still /\ s \notin items
      BY <1>3 DEF Past
    <2>2. PICK j \in 1 .. m : rows'[j] = s /\ j <= o
      BY <1>1, <1>3 DEF Past
    <2>3. rows'[j] \in still'
      BY <2>2 DEF Past
    <2>4. CASE j < p /\ j \in 1 .. n /\ s = rows[j]
      BY <1>1, <2>1, <2>2, <2>4 DEF Past
    <2>5. CASE j >= p /\ j + 1 \in 1 .. n /\ s = rows[j + 1]
      <3>1. CASE j + 1 <= o
        BY <1>1, <2>1, <2>5, <3>1 DEF Past
      <3>2. CASE ~(j + 1 <= o)
        <4>1. j = o /\ p <= o
          BY <1>2, <2>2, <2>5, <3>2
        <4> QED
          BY <2>5, <4>1
      <3> QED
        BY <3>1, <3>2
    <2> QED
      BY <1>4, <2>2, <2>3, <2>4, <2>5
  <1>6. p > o => Past' \subseteq Past
    <2>1. p > o => ~(p <= o)
      BY <1>2
    <2> QED
      BY <1>5, <2>1
  <1>7. Past' \subseteq Past \cup {rows[i] : i \in o + 1 .. o + 1}
    <2>1. o + 1 \in o + 1 .. o + 1
      OBVIOUS
    <2> QED
      BY <1>5, <2>1
  <1> QED
    BY <1>1, <1>4, <1>6, <1>7

\* The deletion task frees as many places before offset as it finds expired rows.
LEMMA DeletePast ==
  ASSUME TableInv, DeleteExpired
  PROVE  \E a, k \in Nat : /\ gone' = gone + k
                           /\ Past' \subseteq Past \cup {rows[i] : i \in a + 1 .. a + k}
  <1>1. PICK n, m, o, d \in Nat : n = Len(rows) /\ m = Len(rows') /\ o = offset /\ d = dead
    BY DeleteRows DEF TableInv
  <1>2. /\ \A j \in 1 .. m : j + d \in d + 1 .. n /\ rows'[j] = rows[j + d]
        /\ still' = still /\ offset' = o /\ items' = items
        /\ gone' = gone + (IF d <= o THEN d ELSE o)
    BY <1>1, DeleteRows DEF DeleteExpired, reader
  <1>3. ASSUME NEW s \in Past'
        PROVE  \E i \in d + 1 .. n : /\ i \in 1 .. n /\ i <= o + d /\ rows[i] = s
                                     /\ s \in still \ items
    <2>1. PICK j \in 1 .. m : rows'[j] = s /\ j <= o
      BY <1>1, <1>2 DEF Past
    <2>2. j + d \in d + 1 .. n /\ j + d \in 1 .. n /\ j + d <= o + d /\ rows[j + d] = s
      BY <1>2, <2>1
    <2> QED
      BY <1>2, <2>2 DEF Past
  <1>4. CASE d <= o
    <2>1. ASSUME NEW s \in Past' PROVE s \in Past \cup {rows[i] : i \in o + 1 .. o + d}
      <3>1. PICK i \in 1 .. n : i <= o + d /\ rows[i] = s /\ s \in still \ items
        BY <1>3
      <3>2. CASE i <= o
        BY <1>1, <3>1, <3>2 DEF Past
      <3>3. CASE ~(i <= o)
        <4>1. i \in o + 1 .. o + d
          BY <3>1, <3>3
        <4> QED
          BY <3>1, <4>1
      <3> QED
        BY <3>2, <3>3
    <2> QED
      BY <1>2, <1>4, <2>1
  <1>5. CASE ~(d <= o)
    <2>1. ASSUME NEW s \in Past' PROVE s \in {rows[i] : i \in d + 1 .. d + o}
      <3>1. PICK i \in d + 1 .. n : i <= o + d /\ rows[i] = s
        BY <1>3
      <3>2. i \in d + 1 .. d + o
        BY <3>1
      <3> QED
        BY <3>1, <3>2
    <2> QED
      BY <1>2, <1>5, <2>1
  <1> QED
    BY <1>4, <1>5

\* A page lists every unmoved session it passes over, and none listed before.
LEMMA ListPast ==
  ASSUME TableInv, PagesPlaced, List
  PROVE  /\ PagesPlaced' /\ Past' \subseteq Past
         /\ rows' = rows /\ offset' = offset + limit /\ (~last' <=> Len(rows) > offset + limit)
  <1>1. /\ rows' = rows /\ still' = still /\ gone' = gone /\ offset' = offset + limit
        /\ items' = items \cup Page /\ twice' = twice \cup (items \cap Page)
        /\ last' = ~HasMore
    BY DEF List, NextOffset, table
  <1>2. PICK n, o, l \in Nat : n = Len(rows) /\ o = offset /\ l = limit
    BY DEF TableInv
  <1>3. /\ \A s \in Page : \E i \in 1 .. n : rows[i] = s /\ o < i /\ i <= o + l
        /\ \A i \in dead + 1 .. n : o < i /\ i <= o + l => rows[i] \in Page
    <2>1. \A i \in dead + 1 .. n : i \in 1 .. n
      BY <1>2 DEF TableInv
    <2> QED
      BY <1>2, <2>1, PageRows
  <1>4. \A i, j \in 1 .. n : rows[i] = rows[j] => i = j
    BY <1>2, PlaceFacts
  <1>5. \A i \in 1 .. n : rows[i] \in still \cap items => i <= o
    BY <1>2 DEF PagesPlaced
  <1>6. ASSUME NEW i \in 1 .. n, rows[i] \in still \cap (items \cup Page)
        PROVE  i <= o + l
    <2>1. CASE rows[i] \in items
      BY <1>2, <1>5, <1>6, <2>1
    <2>2. CASE rows[i] \in Page
      BY <1>3, <1>4, <2>2
    <2> QED
      BY <1>6, <2>1, <2>2
  <1>7. ASSUME NEW s \in still, s \in items, s \in Page PROVE FALSE
    <2>1. PICK i \in 1 .. n : rows[i] = s /\ o < i
      BY <1>3, <1>7
    <2> QED
      BY <1>2, <1>5, <1>7, <2>1
  <1>8. ASSUME NEW s \in Past' PROVE s \in Past
    <2>1. s \in still /\ s \notin items /\ s \notin Page
      BY <1>1 DEF Past
    <2>2. PICK i \in 1 .. n : rows[i] = s /\ i <= o + l
      BY <1>1, <1>2 DEF Past
    <2>3. PICK j \in dead + 1 .. n : j \in 1 .. n /\ rows[j] = s
      BY <1>2, <2>1, PlaceFacts
    <2>4. i \in dead + 1 .. n
      BY <1>4, <2>2, <2>3
    <2>5. i <= o
      BY <1>2, <1>3, <2>1, <2>2, <2>4
    <2> QED
      BY <1>2, <2>1, <2>2, <2>5 DEF Past
  <1>9. Cardinality(Past') <= gone'
    <2>1. Past' \subseteq Past
      BY <1>8
    <2> QED
      BY <1>1, <2>1, FewerPast, PastFinite DEF PagesPlaced, TableInv
  <1>10. twice' \cap still' = {}
    BY <1>1, <1>7 DEF PagesPlaced
  <1>11. \A i \in 1 .. Len(rows') : rows'[i] \in still' \cap items' => i <= offset'
    BY <1>1, <1>2, <1>6
  <1>12. HasMore <=> Len(rows) > offset + limit
    BY PageRows
  <1> QED
    BY <1>1, <1>8, <1>9, <1>10, <1>11, <1>12 DEF PagesPlaced

LEMMA MovesPages ==
  ASSUME TableInv, PagesPlaced, NEW p, Moves(p), UNCHANGED <<offset, items, twice>>
  PROVE  PagesPlaced'
  <1>1. PICK n, m, o \in Nat : n = Len(rows) /\ m = Len(rows') /\ o = offset
    BY DEF TableInv, Moves
  <1>2. p \in 1 .. n
    BY <1>1 DEF Moves, Shifted
  <1>3. \A i \in 1 .. n : rows[i] \in still \cap items => i <= o
    BY <1>1 DEF PagesPlaced
  <1>4. ASSUME NEW j \in 1 .. m, rows'[j] \in still', rows'[j] \in items PROVE j <= o
    <2>1. \/ j < p /\ j \in 1 .. n /\ rows'[j] = rows[j]
          \/ j >= p /\ j + 1 \in 1 .. n /\ rows'[j] = rows[j + 1]
      BY <1>1, <1>4, MovesPast
    <2>2. rows'[j] \in still
      BY <1>4 DEF Moves
    <2>3. CASE j < p /\ j \in 1 .. n /\ rows'[j] = rows[j]
      BY <1>3, <1>4, <2>2, <2>3
    <2>4. CASE j >= p /\ j + 1 \in 1 .. n /\ rows'[j] = rows[j + 1]
      <3>1. j + 1 <= o
        BY <1>3, <1>4, <2>2, <2>4
      <3> QED
        BY <3>1
    <2> QED
      BY <2>1, <2>3, <2>4
  <1>5. Cardinality(Past') <= gone'
    <2>1. PICK g, c \in Nat : g = gone /\ c = Cardinality(Past) /\ c <= g
      BY PastFinite DEF TableInv, PagesPlaced
    <2>2. CASE p > o
      <3>1. gone' = g
        BY <1>1, <1>2, <2>1, <2>2 DEF Moves
      <3>2. Cardinality(Past') \in Nat /\ Cardinality(Past') <= c
        BY <1>1, <2>1, <2>2, MovesPast, FewerPast
      <3> QED
        BY <2>1, <3>1, <3>2
    <2>3. CASE ~(p > o)
      <3>1. gone' = g + 1
        BY <1>1, <1>2, <2>1, <2>3 DEF Moves
      <3>2. Cardinality(Past') <= c + 1
        BY <1>1, <2>1, MovesPast, MorePast
      <3>3. Past' \subseteq Past \cup {rows[o + 1]}
        BY <1>1, MovesPast
      <3>4. Cardinality(Past') \in Nat
        BY <3>3, PastFinite, FS_AddElement, FS_Subset, FS_CardinalityType
      <3> QED
        BY <2>1, <3>1, <3>2, <3>4
    <2> QED
      BY <2>2, <2>3
  <1> QED
    BY <1>1, <1>4, <1>5 DEF PagesPlaced, Moves

LEMMA GrowsPages ==
  ASSUME TableInv, NEW s, Grows(s), UNCHANGED <<offset, items>>
  PROVE  /\ Past' \subseteq Past
         /\ \A j \in 1 .. Len(rows') :
              rows'[j] \in still' => j \in 1 .. Len(rows) /\ rows'[j] = rows[j]
  <1>1. PICK n, m, o \in Nat : n = Len(rows) /\ m = Len(rows') /\ o = offset
    BY GrowsRows DEF TableInv
  <1>2. /\ m = n + 1 /\ rows'[m] = s
        /\ \A i \in 1 .. n : rows'[i] = rows[i] /\ rows[i] # s
    BY <1>1, GrowsRows
  <1>3. s \notin still /\ still' = still /\ offset' = o /\ items' = items
    BY <1>1, <1>2, PlaceFacts DEF Grows
  <1>4. ASSUME NEW j \in 1 .. m, rows'[j] \in still' PROVE j \in 1 .. n /\ rows'[j] = rows[j]
    BY <1>2, <1>3, <1>4
  <1>5. ASSUME NEW t \in Past' PROVE t \in Past
    <2>1. PICK j \in 1 .. m : rows'[j] = t /\ j <= o
      BY <1>1, <1>3 DEF Past
    <2>2. t \in still' /\ t \in still \ items
      BY <1>3 DEF Past
    <2>3. j \in 1 .. n /\ rows[j] = t
      BY <1>4, <2>1, <2>2
    <2> QED
      BY <1>1, <2>1, <2>2, <2>3 DEF Past
  <1> QED
    BY <1>1, <1>4, <1>5

\* No step passes over more unmoved sessions than rows have left places before
\* offset, nor brings an unmoved session back to a page to come.
LEMMA PagesStep ==
  ASSUME TableInv, PagesPlaced, [Next]_vars
  PROVE  PagesPlaced'
  <1>1. ASSUME UNCHANGED <<rows, still, gone, offset, items, twice>> PROVE PagesPlaced'
    BY <1>1 DEF PagesPlaced, Past
  <1>2. CASE List
    BY <1>2, ListPast
  <1>3. ASSUME NEW s \in Sids, Touch(s), UNCHANGED <<offset, items, twice>> PROVE PagesPlaced'
    <2>1. CASE s \in Rows /\ Moves(Place(s))
      BY <1>3, <2>1, MovesPages
    <2>2. CASE Grows(s)
      <3>1. Cardinality(Past') <= gone'
        BY <1>3, <2>2, GrowsPages, FewerPast, PastFinite DEF Grows, PagesPlaced, TableInv
      <3> QED
        BY <1>3, <2>2, <3>1, GrowsPages DEF Grows, PagesPlaced
    <2> QED
      BY <1>3, <2>1, <2>2, TouchKinds
  <1>4. CASE Save
    BY <1>3, <1>4, ConstantsOK DEF Save
  <1>5. ASSUME NEW s \in Sids, Visit(s) PROVE PagesPlaced'
    BY <1>3, <1>5 DEF Visit, reader
  <1>6. ASSUME NEW s \in Sids, Logout(s) PROVE PagesPlaced'
    <2>1. s \in Rows
      BY <1>6, LiveRows DEF Logout
    <2>2. Moves(Place(s))
      BY <1>6, <2>1, LeaveMoves DEF Logout
    <2> QED
      BY <1>6, <2>2, MovesPages DEF Logout, reader
  <1>7. CASE Expire
    <2>1. /\ rows' = rows /\ still' \subseteq still /\ gone' = gone
          /\ offset' = offset /\ items' = items /\ twice' = twice
      BY <1>7 DEF Expire, reader
    <2>2. Past' \subseteq Past
      BY <2>1 DEF Past
    <2>3. Cardinality(Past') <= gone'
      BY <2>1, <2>2, FewerPast, PastFinite DEF PagesPlaced, TableInv
    <2> QED
      BY <2>1, <2>3 DEF PagesPlaced
  <1>8. CASE DeleteExpired
    <2>1. /\ still' = still /\ offset' = offset /\ items' = items /\ twice' = twice
      BY <1>8 DEF DeleteExpired, reader
    <2>2. PICK n, m, o, d \in Nat : n = Len(rows) /\ m = Len(rows') /\ o = offset /\ d = dead
      BY <1>8, DeleteRows DEF TableInv
    <2>3. ASSUME NEW j \in 1 .. m, rows'[j] \in still \cap items PROVE j <= o
      <3>1. j + d \in 1 .. n /\ rows'[j] = rows[j + d]
        BY <1>8, <2>2, DeleteRows
      <3>2. j + d <= o
        BY <2>2, <2>3, <3>1 DEF PagesPlaced
      <3> QED
        BY <3>2
    <2>4. Cardinality(Past') <= gone'
      <3>1. PICK a, k \in Nat : /\ gone' = gone + k
                                /\ Past' \subseteq Past \cup {rows[i] : i \in a + 1 .. a + k}
        BY <1>8, DeletePast
      <3>2. Cardinality(Past') <= Cardinality(Past) + k
        BY <3>1, MorePast
      <3>3. IsFiniteSet(Past') /\ Cardinality(Past') \in Nat
        <4>1. Past' \subseteq Sids
          BY <2>1, PlaceFacts DEF Past
        <4> QED
          BY <4>1, ConstantsOK, FS_Subset, FS_CardinalityType
      <3>4. PICK g, c, e \in Nat : g = gone /\ c = Cardinality(Past) /\ e = Cardinality(Past')
        BY <3>3, PastFinite DEF TableInv
      <3> QED
        BY <3>1, <3>2, <3>4 DEF PagesPlaced
    <2> QED
      BY <2>1, <2>2, <2>3, <2>4 DEF PagesPlaced
  <1>9. CASE Ask \/ CheckRole \/ Revoke \/ UNCHANGED vars
    BY <1>1, <1>9 DEF Ask, CheckRole, Revoke, vars, table, reader
  <1> QED
    BY <1>2, <1>4, <1>5, <1>6, <1>7, <1>8, <1>9 DEF Next, Read, World, Stopped

\* PagesPlaced is inductive, given where the table's rows are.
THEOREM PlacedCorrect == Spec => [](TableInv /\ PagesPlaced)
<1>1. Init => PagesPlaced
  <2> SUFFICES ASSUME Init PROVE PagesPlaced
    OBVIOUS
  <2>1. items = {} /\ twice = {} /\ offset = 0 /\ gone = 0 /\ rows \in Seq(Sids)
    BY DEF Init, SeqOf
  <2>2. Past = {}
    BY <2>1 DEF Past
  <2> QED
    BY <2>1, <2>2, FS_EmptySet DEF PagesPlaced
<1>2. TableInv /\ PagesPlaced /\ [Next]_vars => PagesPlaced'
  BY PagesStep
<1> QED
  BY <1>1, <1>2, TableCorrect, PTL DEF Spec

\* While list_sessions is followed by next_offset, sessions that keep their place
\* are listed at most once and those passed over are no more than rows have left
\* places before the offset.
THEOREM PagesCorrect == Spec => []PagesInv
<1>1. TableInv /\ PagesPlaced => PagesInv
  BY PastIsSkipped
<1> QED
  BY <1>1, PlacedCorrect, PTL

\* A session that keeps its place is listed at most once (list_sessions orders by
\* expiry_date asc).
THEOREM ListedOnceCorrect == Spec => []ListedOnce
<1>1. PagesInv => ListedOnce
  BY DEF PagesInv
<1> QED
  BY <1>1, PagesCorrect, PTL

\* No more sessions are missed than rows have left a place before the offset
\* (list_sessions skips offset rows of the table as it is at each page).
THEOREM SkippedCorrect == Spec => []SkippedAtMostGone
<1>1. PagesInv => SkippedAtMostGone
  BY DEF PagesInv
<1> QED
  BY <1>1, PagesCorrect, PTL

-----------------------------------------------------------------------------
(* The reader alone.                                                         *)

\* AloneInv, said of the rows.
AlonePlaced ==
  ~others => /\ Reader \in Rows
             /\ \/ Past = {}
                \/ rows[Len(rows)] = Reader /\ \E s \in Sids : Past = {s}
             /\ ~last => Len(rows) > offset

\* Nothing more is passed over, and the last row stays.
LEMMA AloneKeeps ==
  ASSUME AlonePlaced, Past' \subseteq Past, UNCHANGED <<rows, others>>,
         ~last' => Len(rows) > offset'
  PROVE  AlonePlaced'
  <1>1. (\E s \in Sids : Past = {s}) => Past' = {} \/ Past' = Past
    OBVIOUS
  <1> QED
    BY <1>1 DEF AlonePlaced, Rows

LEMMA AloneStep ==
  ASSUME TableInv, PagesPlaced, AlonePlaced, [Next]_vars
  PROVE  AlonePlaced'
  <1>1. ASSUME UNCHANGED <<rows, still, offset, items, others>>, last' = last \/ last' PROVE AlonePlaced'
    BY <1>1 DEF AlonePlaced, Past, Rows
  <1>2. CASE List
    <2>1. ~last' => Len(rows) > offset'
      BY <1>2, ListPast
    <2> QED
      BY <1>2, <2>1, ListPast, AloneKeeps DEF List
  <1>3. CASE Save
    <2>1. SUFFICES ASSUME ~others PROVE AlonePlaced'
      BY <1>3 DEF Save, AlonePlaced
    <2>2. /\ UNCHANGED <<offset, items, last>> /\ others' = others
          /\ Touch(Reader) /\ Reader \in Sids /\ Reader \in Rows
      BY <1>3, <2>1, ConstantsOK DEF Save, AlonePlaced
    <2> DEFINE p == Place(Reader)
    <2>3. Moves(p) /\ rows[p] = Reader /\ Len(rows') = Len(rows)
      BY <2>2, TouchKinds DEF Grows
    <2> HIDE DEF p
    <2>4. PICK n, o \in Nat : n = Len(rows) /\ o = offset
      BY DEF TableInv
    <2>5. p \in 1 .. n /\ rows' \in Seq(Sids) /\ Len(rows') = n /\ rows'[n] = Reader
      BY <2>3, <2>4 DEF Moves, Shifted
    <2>6. Reader \in Rows'
      <3>1. DOMAIN rows' = 1 .. n /\ n \in 1 .. n
        BY <2>5
      <3> QED
        BY <2>5, <3>1 DEF Rows, ToSet
    <2>7. \/ Past' = {}
          \/ \E s \in Sids : Past' = {s}
      <3>1. CASE Past = {}
        <4>1. Past' \subseteq {rows[o + 1]}
          BY <2>2, <2>3, <2>4, <3>1, MovesPast
        <4>2. Past' \subseteq Sids
          <5>1. \A s \in still' : s \in Sids
            BY <2>3, PlaceFacts DEF Moves
          <5> QED
            BY <5>1 DEF Past
        <4> QED
          BY <4>1, <4>2
      <3>2. CASE rows[n] = Reader /\ \E s \in Sids : Past = {s}
        <4>1. p = n
          BY <2>3, <2>4, <2>5, <3>2, PlaceFacts
        <4>2. ASSUME NEW s \in Past' PROVE s \in Past
          <5>1. s \in still \ items
            BY <2>2, <2>3 DEF Past, Moves
          <5>2. PICK j \in 1 .. n : rows'[j] = s /\ j <= o
            BY <2>2, <2>4, <2>5 DEF Past
          <5>3. s \in still'
            BY DEF Past
          <5>4. j < p /\ rows[j] = s
            <6>1. j + 1 \notin 1 .. n \/ j < p
              BY <2>5, <4>1
            <6> QED
              BY <2>2, <2>3, <2>4, <2>5, <5>2, <5>3, <6>1, <4>1, MovesPast
          <5> QED
            BY <2>4, <5>1, <5>2, <5>4 DEF Past
        <4> QED
          BY <3>2, <4>2
      <3> QED
        BY <2>1, <2>4, <3>1, <3>2 DEF AlonePlaced
    <2> QED
      BY <2>1, <2>2, <2>4, <2>5, <2>6, <2>7 DEF AlonePlaced
  <1>4. CASE Expire
    <2>1. UNCHANGED <<rows, offset, items, last, others>> /\ still' \subseteq still
      BY <1>4 DEF Expire, reader
    <2>2. Past' \subseteq Past
      BY <2>1 DEF Past
    <2>3. others \/ (~last' => Len(rows) > offset')
      BY <2>1 DEF AlonePlaced
    <2> QED
      BY <2>1, <2>2, <2>3, AloneKeeps DEF AlonePlaced
  <1>5. CASE (\E s \in Sids : Visit(s) \/ Logout(s)) \/ DeleteExpired
    BY <1>5 DEF Visit, Logout, DeleteExpired, AlonePlaced
  <1>6. CASE Ask \/ CheckRole \/ Revoke \/ UNCHANGED vars
    BY <1>1, <1>6 DEF Ask, CheckRole, Revoke, vars, table, reader
  <1> QED
    BY <1>2, <1>3, <1>4, <1>5, <1>6 DEF Next, Read, World, Stopped

\* With nobody else at work the reader's row is in the table, and is the last once
\* a session has been passed over.
THEOREM AloneInvCorrect == Spec => []AloneInv
<1>1. Init => AlonePlaced
  <2> SUFFICES ASSUME Init PROVE AlonePlaced
    OBVIOUS
  <2>1. offset = 0 /\ rows \in Seq(Sids) /\ Reader \in Rows
    BY DEF Init, SeqOf, Rows
  <2>2. Past = {}
    BY <2>1 DEF Past
  <2>3. Len(rows) > 0
    BY <2>1 DEF Rows, ToSet
  <2> QED
    BY <2>1, <2>2, <2>3 DEF AlonePlaced
<1>2. TableInv /\ PagesPlaced /\ AlonePlaced /\ [Next]_vars => AlonePlaced'
  BY AloneStep
<1>3. TableInv /\ AlonePlaced => AloneInv
  BY PastIsSkipped DEF AlonePlaced, AloneInv
<1> QED
  BY <1>1, <1>2, <1>3, PlacedCorrect, PTL DEF Spec

\* With nobody else at work at most one session is missed, although the layer moves
\* the reader's own row with each page (session_layer around list_sessions).
THEOREM AloneCorrect == Spec => []AloneMissesOne
<1>1. ASSUME AloneInv PROVE AloneMissesOne
  <2>1. ASSUME Skipped = {} PROVE Cardinality(Skipped) <= 1
    BY <2>1, FS_EmptySet
  <2>2. ASSUME NEW s, Skipped = {s} PROVE Cardinality(Skipped) <= 1
    <3>1. Cardinality({s}) = 1
      BY FS_Singleton
    <3> QED
      BY <2>2, <3>1
  <2> QED
    BY <1>1, <2>1, <2>2 DEF AloneInv, AloneMissesOne
<1> QED
  BY <1>1, AloneInvCorrect, PTL

\* A next_offset means a row at it (list_sessions fetches limit + 1 rows).
THEOREM MoreCorrect == Spec => []MoreMeansMore
<1>1. AloneInv => MoreMeansMore
  BY DEF AloneInv, MoreMeansMore
<1> QED
  BY <1>1, AloneInvCorrect, PTL
=============================================================================
