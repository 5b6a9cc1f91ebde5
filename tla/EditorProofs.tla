---------------------------- MODULE EditorProofs ----------------------------
(***************************************************************************)
(* The editor, for any movies, any choices of the user and any clock: what *)
(* the handlers make of the list, what a player reads of the file, and     *)
(* which of the playlists in the directory it takes.                       *)
(*                                                                         *)
(* Three loops are followed turn by turn (FoldSteps): the rows that are    *)
(* deleted, the rows that are dropped, and the names that load() visits.   *)
(* Each has an invariant of its own.  Rows are deleted from the last one,  *)
(* so those before the next one are where they were (Start), and the list  *)
(* is what was there at the places left (Keeps).  A drop keeps the length  *)
(* as long as its numbers are in the list, whatever became of the place it *)
(* goes to (MoveOneKeeps), and one row loses the entry that has its number *)
(* as position (MoveOneCopiesAbove).  The names are visited in an order in which     *)
(* none without a date comes before one with a date, so the selection is   *)
(* the latest of those due so far (Selects).                               *)
(***************************************************************************)
EXTENDS Editor, FiniteSetTheorems, TLAPS

(***************************************************************************)
(* A finite set in order.  The order is a set of pairs.                    *)
(***************************************************************************)
Orders(R, S) ==
  /\ \A x \in S : <<x, x>> \notin R
  /\ \A x, y, z \in S : <<x, y>> \in R /\ <<y, z>> \in R => <<x, z>> \in R
  /\ \A x, y \in S : x = y \/ <<x, y>> \in R \/ <<y, x>> \in R

Below(R, S, x) == {y \in S : <<y, x>> \in R}

\* Ranks follow the order, and each up to the number of elements is of one.
LEMMA Ranks ==
  ASSUME NEW S, IsFiniteSet(S), NEW R, Orders(R, S)
  PROVE  LET rank(x) == Cardinality(Below(R, S, x)) + 1
         IN  /\ \A x \in S : rank(x) \in 1..Cardinality(S)
             /\ \A x, y \in S : <<x, y>> \in R <=> rank(x) < rank(y)
             /\ \A i \in 1..Cardinality(S) : \E x \in S : rank(x) = i
<1> DEFINE n == Cardinality(S)
           B(x) == Below(R, S, x)
           rank(x) == Cardinality(B(x)) + 1
<1>1. n \in Nat
  BY FS_CardinalityType
<1>2. ASSUME NEW x \in S
      PROVE  IsFiniteSet(B(x)) /\ rank(x) \in 1..n
  <2>1. B(x) \in SUBSET S /\ B(x) # S
    BY DEF Below, Orders
  <2>2. /\ IsFiniteSet(B(x)) /\ Cardinality(B(x)) <= n
        /\ Cardinality(B(x)) # n
    BY <2>1, FS_Subset
  <2>3. Cardinality(B(x)) \in Nat
    BY <2>2, FS_CardinalityType
  <2> QED
    BY <1>1, <2>2, <2>3
<1>3. ASSUME NEW x \in S, NEW y \in S, <<x, y>> \in R
      PROVE  rank(x) < rank(y)
  <2>1. B(x) \in SUBSET B(y) /\ x \in B(y) /\ x \notin B(x)
    BY <1>3 DEF Below, Orders
  <2>2. Cardinality(B(x)) <= Cardinality(B(y))
    BY <1>2, <2>1, FS_Subset
  <2>3. Cardinality(B(x)) # Cardinality(B(y))
    BY <1>2, <2>1, FS_Subset
  <2>4. Cardinality(B(x)) \in Nat /\ Cardinality(B(y)) \in Nat
    BY <1>2, FS_CardinalityType
  <2> QED
    BY <2>2, <2>3, <2>4
<1> HIDE DEF rank, n
<1>4. ASSUME NEW x \in S, NEW y \in S, rank(x) < rank(y)
      PROVE  <<x, y>> \in R
  <2>1. rank(x) \in Int /\ rank(y) \in Int
    BY <1>2
  <2>2. x # y /\ ~(rank(y) < rank(x))
    BY <1>4, <2>1
  <2> QED
    BY <1>3, <2>2 DEF Orders
<1> DEFINE f == [x \in S |-> rank(x)]
<1>5. f \in Injection(S, 1..n)
  <2>1. f \in [S -> 1..n]
    BY <1>2
  <2>2. ASSUME NEW x \in S, NEW y \in S, f[x] = f[y]
        PROVE  x = y
    <3>1. rank(x) = rank(y) /\ rank(x) \in Int
      BY <1>2, <2>2
    <3>2. ~(rank(x) < rank(y)) /\ ~(rank(y) < rank(x))
      BY <3>1
    <3> QED
      BY <1>3, <3>2 DEF Orders
  <2> QED
    BY <2>1, <2>2 DEF Injection, IsInjective
<1>6. IsFiniteSet(1..n) /\ Cardinality(1..n) = n
  BY <1>1, FS_Interval
<1>7. f \in Surjection(S, 1..n)
  BY <1>5, <1>6, FS_Injection DEF n
<1>8. \A i \in 1..n : \E x \in S : rank(x) = i
  BY <1>7 DEF Surjection
<1>9. \A x \in S : rank(x) \in 1..n
  BY <1>2
<1>10. \A x, y \in S : <<x, y>> \in R <=> rank(x) < rank(y)
  BY <1>3, <1>4
<1> QED
  BY <1>8, <1>9, <1>10 DEF rank, n

\* A sequence that has them all in order has each at its rank.
LEMMA PlacesAreRanks ==
  ASSUME NEW S, IsFiniteSet(S), NEW R, Orders(R, S),
         NEW n \in Nat, NEW q \in [1..n -> S],
         \A x \in S : \E i \in 1..n : q[i] = x,
         \A i, j \in 1..n : i < j => <<q[i], q[j]>> \in R
  PROVE  /\ n = Cardinality(S)
         /\ \A i \in 1..n : Cardinality(Below(R, S, q[i])) + 1 = i
<1>1. \A i, j \in 1..n : <<q[i], q[j]>> \in R => i < j
  <2> SUFFICES ASSUME NEW i \in 1..n, NEW j \in 1..n, <<q[i], q[j]>> \in R,
                      ~(i < j)
               PROVE  FALSE
    OBVIOUS
  <2>1. i = j \/ j < i
    OBVIOUS
  <2>2. <<q[i], q[i]>> \in R
    BY <2>1 DEF Orders
  <2> QED
    BY <2>2 DEF Orders
<1>2. \A i, j \in 1..n : q[i] = q[j] => i = j
  <2> SUFFICES ASSUME NEW i \in 1..n, NEW j \in 1..n, q[i] = q[j], i # j
               PROVE  FALSE
    OBVIOUS
  <2>1. i < j \/ j < i
    OBVIOUS
  <2>2. <<q[i], q[i]>> \in R
    BY <2>1
  <2> QED
    BY <2>2 DEF Orders
<1>3. n = Cardinality(S)
  <2>1. q \in Bijection(1..n, S)
    BY <1>2 DEF Bijection, Injection, Surjection, IsInjective
  <2>2. ExistsBijection(1..n, S)
    BY <2>1 DEF ExistsBijection
  <2>3. IsFiniteSet(1..n) /\ Cardinality(1..n) = n
    BY FS_Interval
  <2> QED
    BY <2>2, <2>3, FS_Bijection
<1>4. ASSUME NEW i \in 1..n
      PROVE  Cardinality(Below(R, S, q[i])) + 1 = i
  <2> DEFINE p == [j \in 1..(i - 1) |-> q[j]]
             B == Below(R, S, q[i])
  <2>1. \A x \in B : \E j \in 1..(i - 1) : q[j] = x
    <3> SUFFICES ASSUME NEW x \in B
                 PROVE  \E j \in 1..(i - 1) : q[j] = x
      OBVIOUS
    <3>1. x \in S /\ <<x, q[i]>> \in R
      BY DEF Below
    <3>2. PICK j \in 1..n : q[j] = x
      BY <3>1
    <3>3. j < i
      BY <1>1, <3>1, <3>2
    <3> QED
      BY <3>2, <3>3
  <2>2. \A j \in 1..(i - 1) : q[j] \in B
    BY DEF Below
  <2> HIDE DEF B
  <2>3. p \in Bijection(1..(i - 1), B)
    BY <1>2, <2>1, <2>2 DEF Bijection, Injection, Surjection, IsInjective
  <2>4. ExistsBijection(1..(i - 1), B)
    BY <2>3 DEF ExistsBijection
  <2>5. IsFiniteSet(1..(i - 1)) /\ Cardinality(1..(i - 1)) = i - 1
    BY FS_Interval
  <2>6. Cardinality(B) = i - 1
    BY <2>4, <2>5, FS_Bijection
  <2> QED
    BY <2>6 DEF B
<1> QED
  BY <1>3, <1>4

\* Numbers in their order.
Ascends(q, S, n) ==
  /\ q \in [1..n -> S]
  /\ \A x \in S : \E i \in 1..n : q[i] = x
  /\ \A i, j \in 1..n : i < j => q[i] < q[j]

Less(S) == {p \in S \X S : p[1] < p[2]}

LEMMA LessOrders ==
  ASSUME NEW S \in SUBSET Int
  PROVE  /\ Orders(Less(S), S)
         /\ \A x \in S : Below(Less(S), S, x) = {y \in S : y < x}
         /\ \A x, y \in S : <<x, y>> \in Less(S) <=> x < y
<1>1. \A x, y \in S : <<x, y>> \in Less(S) <=> x < y
  BY DEF Less
<1>2. S \subseteq Int
  OBVIOUS
<1>3. Orders(Less(S), S)
  BY <1>1, <1>2 DEF Orders
<1>4. \A x \in S : Below(Less(S), S, x) = {y \in S : y < x}
  BY <1>1 DEF Below
<1> QED
  BY <1>1, <1>3, <1>4

LEMMA InOrderAscends ==
  ASSUME NEW S \in SUBSET Int, IsFiniteSet(S)
  PROVE  /\ Cardinality(S) \in Nat
         /\ Ascends(InOrder(S, <), S, Cardinality(S))
<1> DEFINE n == Cardinality(S)
           rank(x) == Cardinality({y \in S : y < x}) + 1
           q == [i \in 1..n |-> CHOOSE x \in S : rank(x) = i]
<1>1. n \in Nat
  BY FS_CardinalityType
<1>2. /\ \A x \in S : rank(x) \in 1..n
      /\ \A x, y \in S : x < y <=> rank(x) < rank(y)
      /\ \A i \in 1..n : \E x \in S : rank(x) = i
  <2> DEFINE place(x) == Cardinality(Below(Less(S), S, x)) + 1
  <2>1. /\ \A x \in S : place(x) \in 1..n
        /\ \A x, y \in S : <<x, y>> \in Less(S) <=> place(x) < place(y)
        /\ \A i \in 1..n : \E x \in S : place(x) = i
    BY LessOrders, Ranks
  <2>2. \A x \in S : place(x) = rank(x)
    BY LessOrders
  <2>3. \A x, y \in S : <<x, y>> \in Less(S) <=> x < y
    BY LessOrders
  <2> HIDE DEF place, rank, n
  <2>4. \A x, y \in S : x < y <=> rank(x) < rank(y)
    <3> SUFFICES ASSUME NEW x \in S, NEW y \in S
                 PROVE  x < y <=> rank(x) < rank(y)
      OBVIOUS
    <3>1. <<x, y>> \in Less(S) <=> place(x) < place(y)
      BY <2>1
    <3>2. <<x, y>> \in Less(S) <=> x < y
      BY <2>3
    <3>3. place(x) = rank(x) /\ place(y) = rank(y)
      BY <2>2
    <3> QED
      BY ONLY <3>1, <3>2, <3>3
  <2>5. \A i \in 1..n : \E x \in S : rank(x) = i
    BY ONLY <2>1, <2>2
  <2>6. \A x \in S : rank(x) \in 1..n
    BY ONLY <2>1, <2>2
  <2> QED
    BY <2>4, <2>5, <2>6
<1>3. InOrder(S, <) = q
  BY DEF InOrder
<1> HIDE DEF rank
<1>4. \A i \in 1..n : q[i] \in S /\ rank(q[i]) = i
  BY <1>2
<1> HIDE DEF q
<1>5. q \in [1..n -> S]
  BY <1>4, <1>3 DEF q
<1>6. ASSUME NEW x \in S
      PROVE  \E i \in 1..n : q[i] = x
  <2> DEFINE i == rank(x)
  <2>1. i \in 1..n /\ q[i] \in S /\ rank(q[i]) = rank(x)
    BY <1>2, <1>4
  <2>2. ~(rank(q[i]) < rank(x)) /\ ~(rank(x) < rank(q[i]))
    BY <1>2, <2>1
  <2>3. ~(q[i] < x) /\ ~(x < q[i]) /\ q[i] \in Int /\ x \in Int
    BY <1>2, <2>1, <2>2
  <2>4. q[i] = x
    BY <2>3
  <2> QED
    BY <2>1, <2>4
<1>7. \A i, j \in 1..n : i < j => q[i] < q[j]
  BY <1>2, <1>4
<1> QED
  BY <1>1, <1>3, <1>5, <1>6, <1>7 DEF Ascends

LEMMA InOrderIs ==
  ASSUME NEW S \in SUBSET Int, IsFiniteSet(S), NEW n \in Nat, NEW q,
         Ascends(q, S, n)
  PROVE  q = InOrder(S, <) /\ n = Cardinality(S)
<1> DEFINE r == InOrder(S, <)
           m == Cardinality(S)
<1>1. m \in Nat /\ Ascends(r, S, m)
  BY InOrderAscends
<1> HIDE DEF r
<1>2. \A p, k : k \in Nat /\ Ascends(p, S, k) =>
        /\ k = m
        /\ \A i \in 1..k : Cardinality(Below(Less(S), S, p[i])) + 1 = i
  <2> SUFFICES ASSUME NEW p, NEW k, k \in Nat /\ Ascends(p, S, k)
               PROVE  /\ k = m
                      /\ \A i \in 1..k :
                           Cardinality(Below(Less(S), S, p[i])) + 1 = i
    OBVIOUS
  <2>1. /\ p \in [1..k -> S]
        /\ \A x \in S : \E i \in 1..k : p[i] = x
        /\ \A i, j \in 1..k : i < j => <<p[i], p[j]>> \in Less(S)
    BY LessOrders DEF Ascends
  <2> QED
    BY <2>1, LessOrders, PlacesAreRanks
<1>3. n = m
  BY <1>2
<1>4. ASSUME NEW i \in 1..n
      PROVE  q[i] = r[i]
  <2> DEFINE rank(x) == Cardinality(Below(Less(S), S, x)) + 1
  <2>1. rank(q[i]) = i /\ rank(r[i]) = i
    BY <1>1, <1>2, <1>3
  <2>2. q[i] \in S /\ r[i] \in S
    BY <1>1, <1>3 DEF Ascends
  <2>3. \A x, y \in S : <<x, y>> \in Less(S) <=> rank(x) < rank(y)
    BY LessOrders, Ranks
  <2> HIDE DEF rank
  <2>4. <<q[i], r[i]>> \notin Less(S) /\ <<r[i], q[i]>> \notin Less(S)
    <3>1. ~(rank(q[i]) < rank(r[i])) /\ ~(rank(r[i]) < rank(q[i]))
      BY <2>1
    <3> QED
      BY <2>2, <2>3, <3>1
  <2> QED
    BY <2>2, <2>4, LessOrders DEF Orders
<1>5. q \in [1..n -> S] /\ r \in [1..n -> S]
  BY <1>1, <1>3 DEF Ascends
<1>6. q = r
  BY <1>4, <1>5
<1> QED
  BY <1>3, <1>6 DEF r

(***************************************************************************)
(* What removing and inserting leave where.                                *)
(***************************************************************************)
LEMMA RemovedIs ==
  ASSUME NEW S, NEW q \in Seq(S), NEW k \in 1..Len(q)
  PROVE  /\ RemoveAt(q, k) \in Seq(S) /\ Len(RemoveAt(q, k)) = Len(q) - 1
         /\ \A i \in 1..(Len(q) - 1) :
              RemoveAt(q, k)[i] = q[IF i < k THEN i ELSE i + 1]
<1> DEFINE u == SubSeq(q, 1, k - 1)
           v == SubSeq(q, k + 1, Len(q))
<1>1. Len(q) \in Nat /\ k \in 1..Len(q)
  OBVIOUS
<1>2. /\ u \in Seq(S) /\ Len(u) = k - 1
      /\ \A i \in 1..(k - 1) : u[i] = q[i]
  BY <1>1
<1>3. /\ v \in Seq(S) /\ Len(v) = Len(q) - k
      /\ \A i \in 1..(Len(q) - k) : v[i] = q[i + k]
  BY <1>1
<1> HIDE DEF u, v
<1>4. /\ u \o v \in Seq(S) /\ Len(u \o v) = Len(u) + Len(v)
      /\ \A i \in 1..(Len(u) + Len(v)) :
           (u \o v)[i] = IF i <= Len(u) THEN u[i] ELSE v[i - Len(u)]
  <2>1. u \in Seq(S) /\ v \in Seq(S)
    BY <1>2, <1>3
  <2> QED
    BY ONLY <2>1
<1>5. RemoveAt(q, k) = u \o v
  BY DEF RemoveAt, u, v
<1>6. Len(u) = k - 1 /\ Len(u) + Len(v) = Len(q) - 1
  BY <1>1, <1>2, <1>3
<1>7. ASSUME NEW i \in 1..(Len(q) - 1)
      PROVE  (u \o v)[i] = q[IF i < k THEN i ELSE i + 1]
  <2>1. CASE i < k
    BY <1>1, <1>2, <1>4, <1>6, <2>1
  <2>2. CASE i >= k
    <3>1. /\ i - (k - 1) \in 1..(Len(q) - k) /\ ~(i <= k - 1)
          /\ (i - (k - 1)) + k = i + 1 /\ ~(i < k)
      BY <1>1, <2>2
    <3>2. (u \o v)[i] = v[i - (k - 1)]
      BY <1>4, <1>6, <3>1
    <3> QED BY <1>3, <3>1, <3>2
  <2>3. i < k \/ i >= k
    BY <1>1
  <2> QED BY <2>1, <2>2, <2>3
<1> QED
  BY <1>4, <1>5, <1>6, <1>7

\* Where insert() puts an entry.
Place(q, pos) ==
  IF Len(q) <= pos THEN Len(q) + 1 ELSE IF pos <= 1 THEN 1 ELSE pos

\* The list t is q with e at place k.
Inserted(t, q, e, k) ==
  /\ Len(t) = Len(q) + 1 /\ k \in 1..Len(t)
  /\ \A i \in 1..Len(t) :
       t[i] = IF i < k THEN q[i] ELSE IF i = k THEN e ELSE q[i - 1]

LEMMA InsertedIs ==
  ASSUME NEW S, NEW q \in Seq(S), NEW e \in S, NEW pos \in Nat
  PROVE  /\ Insert(q, e, pos) \in Seq(S)
         /\ Inserted(Insert(q, e, pos), q, e, Place(q, pos))
<1> DEFINE t == Insert(q, e, pos)
           k == Place(q, pos)
<1> SUFFICES /\ t \in Seq(S) /\ Len(t) = Len(q) + 1 /\ k \in 1..Len(t)
             /\ \A i \in 1..Len(t) :
                  t[i] = IF i < k THEN q[i] ELSE IF i = k THEN e ELSE q[i - 1]
  BY DEF Inserted
<1>1. Len(q) \in Nat
  OBVIOUS
<1>2. CASE Len(q) <= pos
  BY <1>1, <1>2 DEF Insert, Place
<1>3. CASE ~(Len(q) <= pos) /\ pos <= 1
  <2>1. <<e>> \in Seq(S) /\ Len(<<e>>) = 1 /\ <<e>>[1] = e
    OBVIOUS
  <2>2. t = <<e>> \o q /\ Place(q, pos) = 1
    BY <1>3 DEF Insert, Place
  <2>3. t \in Seq(S) /\ Len(t) = Len(q) + 1
    BY <2>1, <2>2
  <2>4. ASSUME NEW i \in 1..(Len(q) + 1)
        PROVE  t[i] = IF i = 1 THEN e ELSE q[i - 1]
    BY <1>1, <2>1, <2>2
  <2> QED
    BY <1>1, <2>2, <2>3, <2>4
<1>4. CASE ~(Len(q) <= pos) /\ ~(pos <= 1)
  <2> DEFINE u == SubSeq(q, 1, pos - 1)
             v == SubSeq(q, pos, Len(q))
             w == u \o <<e>>
  <2>1. pos \in 2..(Len(q) - 1)
    BY <1>1, <1>4
  <2>2. /\ u \in Seq(S) /\ Len(u) = pos - 1
        /\ \A i \in 1..(pos - 1) : u[i] = q[i]
    BY <1>1, <2>1
  <2>3. /\ v \in Seq(S) /\ Len(v) = Len(q) + 1 - pos
        /\ \A i \in 1..(Len(q) + 1 - pos) : v[i] = q[i + pos - 1]
    BY <1>1, <2>1
  <2>4. t = w \o v /\ Place(q, pos) = pos
    BY <1>4 DEF Insert, InsertAt, Place
  <2> HIDE DEF u, v, t
  <2>5. /\ w \in Seq(S) /\ Len(w) = pos
        /\ \A i \in 1..pos : w[i] = IF i < pos THEN q[i] ELSE e
    BY <2>1, <2>2
  <2> HIDE DEF w
  <2>6. /\ w \o v \in Seq(S) /\ Len(w \o v) = Len(q) + 1
        /\ \A i \in 1..(Len(q) + 1) :
             (w \o v)[i] = IF i <= pos THEN w[i] ELSE v[i - pos]
    <3>1. w \in Seq(S) /\ v \in Seq(S)
      BY <2>3, <2>5
    <3>2. /\ w \o v \in Seq(S) /\ Len(w \o v) = Len(w) + Len(v)
          /\ \A i \in 1..(Len(w) + Len(v)) :
               (w \o v)[i] = IF i <= Len(w) THEN w[i] ELSE v[i - Len(w)]
      BY ONLY <3>1
    <3>3. Len(w) = pos /\ Len(w) + Len(v) = Len(q) + 1
      BY <1>1, <2>1, <2>3, <2>5
    <3> QED
      BY <3>2, <3>3
  <2>7. ASSUME NEW i \in 1..(Len(q) + 1)
        PROVE  t[i] = IF i < pos THEN q[i] ELSE IF i = pos THEN e ELSE q[i - 1]
    <3>1. CASE i <= pos
      BY <2>1, <2>4, <2>5, <2>6, <3>1
    <3>2. CASE ~(i <= pos)
      <4>1. /\ i - pos \in 1..(Len(q) + 1 - pos)
            /\ (i - pos) + pos - 1 = i - 1
        BY <1>1, <2>1, <3>2
      <4>2. t[i] = v[i - pos]
        BY <2>4, <2>6, <3>2
      <4>3. v[i - pos] = q[i - 1]
        BY <2>3, <4>1
      <4> QED
        BY <2>1, <3>2, <4>2, <4>3
    <3> QED
      BY <3>1, <3>2
  <2>8. pos \in 1..(Len(q) + 1)
    BY <1>1, <2>1
  <2> QED
    BY <2>4, <2>6, <2>7, <2>8 DEF t
<1> QED
  BY <1>2, <1>3, <1>4

\* remove() of a position there is, or of none.
LEMMA RemovePosIs ==
  ASSUME NEW S, NEW q \in Seq(S), NEW pos \in Int
  PROVE  LET t == RemovePos(q, pos)
         IN  /\ t \in Seq(S)
             /\ pos \in 1..Len(q) => t = RemoveAt(q, pos) /\ Len(t) = Len(q) - 1
             /\ pos \notin 1..Len(q) => t = q
<1>1. CASE pos \in 1..Len(q)
  BY <1>1, RemovedIs DEF RemovePos, Has
<1>2. CASE pos \notin 1..Len(q)
  BY <1>2 DEF RemovePos, Has
<1> QED
  BY <1>1, <1>2

LEMMA SequenceOf ==
  ASSUME NEW S, NEW n \in Nat, NEW q \in [1..n -> S]
  PROVE  q \in Seq(S) /\ Len(q) = n
OBVIOUS

LEMMA SequenceIn ==
  ASSUME NEW S, NEW T, S \subseteq T, NEW q \in Seq(S)
  PROVE  q \in Seq(T)
OBVIOUS

LEMMA SameSequence ==
  ASSUME NEW S, NEW p \in Seq(S), NEW q \in Seq(S), Len(p) = Len(q),
         \A i \in 1..Len(p) : p[i] = q[i]
  PROVE  p = q
OBVIOUS

(***************************************************************************)
(* A turn of the loop of a drop.                                           *)
(***************************************************************************)
Lists(S, M) == {q \in Seq(S) : Len(q) <= M}

Moving(S, M) == [list : Lists(S, M), row : Nat, crashed : BOOLEAN]

\* The list has room for what the turn may leave too much, and one that had an
\* entry at the number is as long as before.
LEMMA MoveOneKeeps ==
  ASSUME NEW S, NEW M \in Nat, NEW st \in Moving(S, M), NEW number \in 0..(M - 1)
  PROVE  LET s == MoveOne(st, number)
         IN  /\ s \in Moving(S, M)
             /\ number < Len(st.list) => Len(s.list) = Len(st.list)
<1> DEFINE q == st.list
           row == IF st.row >= number THEN st.row + 1 ELSE st.row
           removed == IF row < number - 1 THEN number + 1 ELSE number
           t == Insert(q, q[number - 1], row)
           l == RemovePos(t, removed)
<1>1. /\ q \in Seq(S) /\ Len(q) \in Nat /\ Len(q) <= M
      /\ st.row \in Nat /\ st.crashed \in BOOLEAN
  BY DEF Moving, Lists
<1>2. CASE st.row = 0 \/ st.crashed
  BY <1>1, <1>2 DEF MoveOne
<1>3. CASE ~(st.row = 0 \/ st.crashed) /\ ~Has(q, number - 1)
  <2>1. MoveOne(st, number) = [st EXCEPT !.crashed = TRUE]
    BY <1>3 DEF MoveOne
  <2> QED
    BY <1>1, <2>1 DEF Moving
<1>4. CASE ~(st.row = 0 \/ st.crashed) /\ Has(q, number - 1)
  <2>1. MoveOne(st, number) = [st EXCEPT !.row = row, !.list = l]
    BY <1>4 DEF MoveOne
  <2>2. number \in 2..(Len(q) + 1) /\ number - 1 \in 1..Len(q)
    BY <1>1, <1>4 DEF Has
  <2>3. q[number - 1] \in S /\ row \in Nat
    BY <1>1, <2>2
  <2>4. t \in Seq(S) /\ Len(t) = Len(q) + 1
    <3> DEFINE e == q[number - 1]
    <3>1. e \in S /\ row \in Nat
      BY <2>3
    <3> HIDE DEF e, row
    <3>2. t \in Seq(S) /\ Inserted(t, q, e, Place(q, row))
      BY <1>1, <3>1, InsertedIs DEF e
    <3> QED
      BY <3>2 DEF Inserted
  <2>5. removed \in Int /\ removed \in 1..(number + 1)
    BY <1>1, <2>2
  <2> HIDE DEF t, removed, row
  <2>6. /\ l \in Seq(S)
        /\ removed \in 1..Len(t) => Len(l) = Len(t) - 1
        /\ removed \notin 1..Len(t) => l = t
    BY <2>4, <2>5, RemovePosIs
  <2> HIDE DEF l
  <2>7. Len(l) <= M
    <3>1. CASE removed \in 1..Len(t)
      BY <1>1, <2>4, <2>6, <3>1
    <3>2. CASE removed \notin 1..Len(t)
      <4>1. Len(q) + 1 < number + 1
        BY <1>1, <2>4, <2>5, <3>2
      <4> QED
        BY <1>1, <2>2, <2>4, <2>6, <3>2, <4>1
    <3> QED
      BY <3>1, <3>2
  <2>8. number < Len(q) => Len(l) = Len(q)
    BY <1>1, <2>2, <2>4, <2>5, <2>6
  <2>9. l \in Lists(S, M)
    BY <2>6, <2>7 DEF Lists
  <2>10. [st EXCEPT !.row = row, !.list = l] \in Moving(S, M)
    BY <2>3, <2>9 DEF Moving
  <2>11. [st EXCEPT !.row = row, !.list = l].list = l
    BY DEF Moving
  <2> QED
    BY <2>1, <2>8, <2>10, <2>11
<1> QED
  BY <1>2, <1>3, <1>4

\* Where a row that is dropped ends, when the list gains nothing before it.
LandsAt(q, pos) == IF pos + 1 < Len(q) THEN pos ELSE Len(q)

\* One row dropped costs the entry at its number, and the entry before that one
\* is there twice.
LEMMA MoveOneCopiesAbove ==
  ASSUME NEW S, NEW q \in Seq(S), NEW pos \in Nat, pos # 0,
         NEW number \in Nat, number < Len(q),
         ~MoveOne([list |-> q, row |-> pos, crashed |-> FALSE], number).crashed
  PROVE  LET l == MoveOne([list |-> q, row |-> pos, crashed |-> FALSE],
                          number).list
         IN  IF pos = number - 1 THEN l = q
             ELSE /\ l[LandsAt(q, pos)] = q[number - 1]
                  /\ RemoveAt(l, LandsAt(q, pos)) = RemoveAt(q, number)
<1> DEFINE st == [list |-> q, row |-> pos, crashed |-> FALSE]
           row == IF pos >= number THEN pos + 1 ELSE pos
           removed == IF row < number - 1 THEN number + 1 ELSE number
           e == q[number - 1]
           t == Insert(q, e, row)
           l == RemovePos(t, removed)
           k == Place(q, row)
           at == LandsAt(q, pos)
<1>1. Len(q) \in Nat /\ DOMAIN q = 1..Len(q)
  OBVIOUS
<1>2. /\ pos # 0 /\ number - 1 \in 1..Len(q)
      /\ MoveOne(st, number).list = l
  BY DEF MoveOne, Has
<1>3. e \in S /\ row \in Nat /\ number \in 2..(Len(q) - 1)
  BY <1>1, <1>2
<1> HIDE DEF st, e, row
<1>4. /\ t \in Seq(S) /\ Len(t) = Len(q) + 1 /\ k \in 1..Len(t)
      /\ \A i \in 1..Len(t) :
           t[i] = IF i < k THEN q[i] ELSE IF i = k THEN e ELSE q[i - 1]
  <2>1. t \in Seq(S) /\ Inserted(t, q, e, k)
    BY <1>3, InsertedIs
  <2> HIDE DEF t, k
  <2> QED
    BY <2>1 DEF Inserted
<1>5. removed \in 1..Len(t) /\ removed \in Int
  BY <1>1, <1>3, <1>4
<1> HIDE DEF t, removed
<1>6. l = RemoveAt(t, removed)
  BY <1>4, <1>5, RemovePosIs
<1>7. /\ l \in Seq(S) /\ Len(l) = Len(q)
      /\ \A i \in 1..Len(q) : l[i] = t[IF i < removed THEN i ELSE i + 1]
  <2> DEFINE r == RemoveAt(t, removed)
  <2>1. /\ r \in Seq(S) /\ Len(r) = Len(t) - 1
        /\ \A i \in 1..(Len(t) - 1) : r[i] = t[IF i < removed THEN i ELSE i + 1]
    BY <1>4, <1>5, RemovedIs
  <2>2. Len(t) - 1 = Len(q) /\ l = r
    BY <1>1, <1>4, <1>6
  <2> HIDE DEF r, l
  <2> QED
    BY <2>1, <2>2
<1> HIDE DEF l
<1>9. ASSUME NEW i \in 1..Len(q),
             \A x \in 1..(Len(q) - 1) :
               l[IF x < i THEN x ELSE x + 1] = q[IF x < number THEN x ELSE x + 1]
      PROVE  RemoveAt(l, i) = RemoveAt(q, number)
  <2>1. number \in 1..Len(q)
    BY <1>1, <1>3
  <2>2. /\ RemoveAt(q, number) \in Seq(S) /\ Len(RemoveAt(q, number)) = Len(q) - 1
        /\ \A x \in 1..(Len(q) - 1) :
             RemoveAt(q, number)[x] = q[IF x < number THEN x ELSE x + 1]
    BY <2>1, RemovedIs
  <2>3. /\ RemoveAt(l, i) \in Seq(S) /\ Len(RemoveAt(l, i)) = Len(q) - 1
        /\ \A x \in 1..(Len(q) - 1) :
             RemoveAt(l, i)[x] = l[IF x < i THEN x ELSE x + 1]
    BY <1>7, RemovedIs
  <2> QED
    BY <1>9, <2>2, <2>3, SameSequence
<1>10. CASE pos >= number
  <2>1. removed = number /\ number < k /\ k - 1 \in 1..Len(q) /\ k \in Nat
    BY <1>1, <1>3, <1>4, <1>10 DEF Place, row, removed
  <2>2. at = k - 1 /\ pos # number - 1
    BY <1>1, <1>3, <1>10 DEF Place, row, LandsAt
  <2> HIDE DEF k, at
  <2>3. ASSUME NEW x \in 1..(Len(q) - 1)
        PROVE  l[IF x < k - 1 THEN x ELSE x + 1] = q[IF x < number THEN x ELSE x + 1]
    <3>1. CASE x < number
      <4>1. x \in 1..Len(q) /\ x < k - 1 /\ x < k /\ x \in 1..Len(t)
        BY <1>1, <1>3, <1>4, <2>1, <3>1
      <4>2. l[x] = t[x]
        BY <1>7, <2>1, <3>1, <4>1
      <4>3. t[x] = q[x]
        BY <1>4, <4>1
      <4> QED
        BY <3>1, <4>1, <4>2, <4>3
    <3>2. CASE x >= number /\ x < k - 1
      <4>1. x \in 1..Len(q) /\ x + 1 < k /\ x + 1 \in 1..Len(t) /\ ~(x < number)
        BY <1>1, <1>3, <1>4, <2>1, <3>2
      <4>2. l[x] = t[x + 1] /\ t[x + 1] = q[x + 1]
        BY <1>4, <1>7, <2>1, <4>1
      <4> QED
        BY <3>2, <4>1, <4>2
    <3>3. CASE x >= k - 1
      <4>1. /\ x + 1 \in 1..Len(q) /\ (x + 1) + 1 \in 1..Len(t)
            /\ ~((x + 1) + 1 < k) /\ (x + 1) + 1 # k /\ ((x + 1) + 1) - 1 = x + 1
            /\ ~(x < number) /\ ~(x + 1 < number) /\ ~(x < k - 1)
        BY <1>1, <1>3, <1>4, <2>1, <3>3
      <4>2. l[x + 1] = t[(x + 1) + 1]
        BY <1>7, <2>1, <4>1
      <4>3. t[(x + 1) + 1] = q[x + 1]
        BY <1>4, <4>1
      <4> QED
        BY <4>1, <4>2, <4>3
    <3> QED
      BY <1>1, <2>1, <3>1, <3>2, <3>3
  <2>4. RemoveAt(l, k - 1) = RemoveAt(q, number)
    BY <1>9, <2>1, <2>3
  <2>5. l[k - 1] = e
    <3>1. /\ k - 1 \in 1..Len(q) /\ ~(k - 1 < removed) /\ (k - 1) + 1 = k
          /\ ~(k < k)
      BY <1>1, <1>3, <2>1
    <3>2. l[k - 1] = t[k]
      BY <1>7, <3>1
    <3> QED
      BY <1>4, <3>1, <3>2
  <2> QED
    BY <1>2, <2>2, <2>4, <2>5 DEF st, e, at
<1>11. CASE pos < number - 1
  <2>1. removed = number + 1 /\ k = pos /\ k \in 1..Len(q) /\ k < number - 1
    BY <1>1, <1>2, <1>3, <1>11 DEF Place, row, removed
  <2> HIDE DEF k
  <2>2. pos + 1 < Len(q) /\ pos # number - 1
    BY <1>1, <1>3, <1>11
  <2>3. at = k
    BY <2>1, <2>2 DEF LandsAt
  <2> HIDE DEF at
  <2>4. ASSUME NEW x \in 1..(Len(q) - 1)
        PROVE  l[IF x < k THEN x ELSE x + 1] = q[IF x < number THEN x ELSE x + 1]
    <3>1. CASE x < k
      <4>1. x \in 1..Len(q) /\ x < number + 1 /\ x < number /\ x \in 1..Len(t)
        BY <1>1, <1>3, <1>4, <2>1, <3>1
      <4>2. l[x] = t[x]
        BY <1>7, <2>1, <4>1
      <4>3. t[x] = q[x]
        BY <1>4, <3>1, <4>1
      <4> QED
        BY <3>1, <4>1, <4>2, <4>3
    <3>2. CASE x >= k /\ x < number
      <4>1. /\ x + 1 \in 1..Len(q) /\ x + 1 \in 1..Len(t) /\ x + 1 < number + 1
            /\ ~(x + 1 < k) /\ x + 1 # k /\ (x + 1) - 1 = x /\ ~(x < k)
        BY <1>1, <1>3, <1>4, <2>1, <3>2
      <4>2. l[x + 1] = t[x + 1]
        BY <1>7, <2>1, <4>1
      <4>3. t[x + 1] = q[x]
        BY <1>4, <4>1
      <4> QED
        BY <3>2, <4>1, <4>2, <4>3
    <3>3. CASE x >= number
      <4>1. /\ x + 1 \in 1..Len(q) /\ (x + 1) + 1 \in 1..Len(t)
            /\ ~(x + 1 < number + 1) /\ ~(x < k) /\ ~(x < number)
            /\ ~((x + 1) + 1 < k) /\ (x + 1) + 1 # k /\ ((x + 1) + 1) - 1 = x + 1
        BY <1>1, <1>3, <1>4, <2>1, <3>3
      <4>2. l[x + 1] = t[(x + 1) + 1]
        BY <1>7, <2>1, <4>1
      <4>3. t[(x + 1) + 1] = q[x + 1]
        BY <1>4, <4>1
      <4> QED
        BY <4>1, <4>2, <4>3
    <3> QED
      BY <1>1, <1>3, <2>1, <3>1, <3>2, <3>3
  <2>5. RemoveAt(l, k) = RemoveAt(q, number)
    BY <1>9, <2>1, <2>4
  <2>6. l[k] = e
    <3>1. k \in 1..Len(q) /\ k < removed /\ ~(k < k)
      BY <1>1, <1>3, <2>1
    <3>2. l[k] = t[k]
      BY <1>7, <3>1
    <3> QED
      BY <1>4, <3>1, <3>2
  <2> QED
    BY <1>2, <2>2, <2>3, <2>5, <2>6 DEF st, e, at
<1>12. CASE pos = number - 1
  <2>1. removed = number /\ k = number - 1
    BY <1>1, <1>2, <1>3, <1>12 DEF Place, row, removed
  <2> HIDE DEF k
  <2>2. ASSUME NEW x \in 1..Len(q)
        PROVE  l[x] = q[x]
    <3>1. CASE x < number - 1
      <4>1. x < number /\ x < k /\ x \in 1..Len(t)
        BY <1>1, <1>3, <1>4, <2>1, <3>1
      <4> QED
        BY <1>4, <1>7, <2>1, <4>1
    <3>2. CASE x = number - 1
      <4>1. x < number /\ x = k /\ x \in 1..Len(t) /\ ~(x < k)
        BY <1>1, <1>3, <1>4, <2>1, <3>2
      <4> QED
        BY <1>4, <1>7, <2>1, <3>2, <4>1 DEF e
    <3>3. CASE x >= number
      <4>1. /\ ~(x < number) /\ x + 1 \in 1..Len(t) /\ ~(x + 1 < k)
            /\ x + 1 # k /\ (x + 1) - 1 = x
        BY <1>1, <1>3, <1>4, <2>1, <3>3
      <4>2. l[x] = t[x + 1]
        BY <1>7, <2>1, <4>1
      <4>3. t[x + 1] = q[x]
        BY <1>4, <4>1
      <4> QED
        BY <4>2, <4>3
    <3> QED
      BY <1>3, <3>1, <3>2, <3>3
  <2>3. l = q
    BY <1>7, <2>2, SameSequence
  <2> QED
    BY <1>2, <1>12, <2>3 DEF st
<1>13. pos >= number \/ pos < number - 1 \/ pos = number - 1
  BY <1>3
<1> QED
  BY <1>10, <1>11, <1>12, <1>13

Moves == INSTANCE FoldSteps WITH Op <- MoveOne

\* All the turns.
LEMMA MovesKeep ==
  ASSUME NEW S, NEW M \in Nat, NEW st \in Moving(S, M),
         NEW numbers \in Seq(0..(M - 1))
  PROVE  LET s == FoldLeft(MoveOne, st, numbers)
         IN  /\ s \in Moving(S, M)
             /\ (\A i \in 1..Len(numbers) : numbers[i] < Len(st.list)) =>
                  Len(s.list) = Len(st.list)
             /\ Len(numbers) = 1 => s = MoveOne(st, numbers[1])
<1> DEFINE n == Len(numbers)
           Stays == \A i \in 1..n : numbers[i] < Len(st.list)
<1>1. n \in Nat /\ DOMAIN numbers = 1..n /\ \A i \in 1..n : numbers[i] \in 0..(M - 1)
  OBVIOUS
<1> DEFINE s == FoldLeft(MoveOne, st, numbers)
<1> HIDE DEF n, Stays
<1>2. PICK g : /\ g[0] = st
               /\ \A i \in 1..n : g[i] = MoveOne(g[i - 1], numbers[i])
               /\ s = g[n]
  <2>1. s = Moves!Fold(st, numbers)
    BY DEF FoldLeft, MapThenFoldSet, Max, Moves!Fold, Moves!FoldLeft,
           Moves!MapThenFoldSet, Moves!Max
  <2>2. n \in Nat /\ DOMAIN numbers = 1..n
    BY <1>1
  <2>3. \E g : Moves!Steps(g, st, numbers, n)
    BY <2>2, Moves!FoldLeftSteps
  <2> HIDE DEF s
  <2> QED
    BY <2>1, <2>3 DEF Moves!Steps
<1> HIDE DEF s
<1> DEFINE T == {i \in 0..n : /\ g[i] \in Moving(S, M)
                              /\ Stays => Len(g[i].list) = Len(st.list)}
<1>3. 0 \in T
  BY <1>1, <1>2
<1>4. ASSUME NEW i \in 0..(n - 1), i \in T
      PROVE  i + 1 \in T
  <2>1. i + 1 \in 1..n /\ i + 1 \in 0..n /\ (i + 1) - 1 = i
    BY <1>1
  <2>2. g[i + 1] = MoveOne(g[i], numbers[i + 1])
    BY <1>2, <2>1
  <2>3. /\ g[i] \in Moving(S, M) /\ numbers[i + 1] \in 0..(M - 1)
        /\ Stays => Len(g[i].list) = Len(st.list)
    BY <1>1, <1>4, <2>1
  <2>4. /\ g[i + 1] \in Moving(S, M)
        /\ numbers[i + 1] < Len(g[i].list) => Len(g[i + 1].list) = Len(g[i].list)
    BY <2>2, <2>3, MoveOneKeeps
  <2>5. Stays => numbers[i + 1] < Len(st.list)
    BY <2>1 DEF Stays
  <2> QED
    BY <2>1, <2>3, <2>4, <2>5
<1> HIDE DEF T
<1>5. n \in T
  <2>1. \A i \in 0..(n - 1) : i \in T => i + 1 \in T
    BY <1>4
  <2>2. \A i \in 0..n : i \in T
    BY <1>1, <1>3, <2>1, Moves!Climb
  <2> QED
    BY <1>1, <2>2
<1>6. n = 1 => g[n] = MoveOne(st, numbers[1])
  BY <1>2
<1> QED
  BY <1>2, <1>5, <1>6 DEF T, Stays, n, s

\* The same, for rows that are all there.
Dropped(st, numbers) == FoldLeft(MoveOne, st, numbers)

AllThere(numbers, list) == \A i \in 1..Len(numbers) : numbers[i] < Len(list)

LEMMA DroppedIs ==
  ASSUME NEW S, NEW M \in Nat, NEW st \in Moving(S, M),
         NEW numbers \in Seq(0..(M - 1)), AllThere(numbers, st.list)
  PROVE  /\ Len(Dropped(st, numbers).list) = Len(st.list)
         /\ Len(numbers) = 1 => Dropped(st, numbers) = MoveOne(st, numbers[1])
<1> DEFINE s == FoldLeft(MoveOne, st, numbers)
<1>1. /\ s \in Moving(S, M)
      /\ (\A i \in 1..Len(numbers) : numbers[i] < Len(st.list)) =>
           Len(s.list) = Len(st.list)
      /\ Len(numbers) = 1 => s = MoveOne(st, numbers[1])
  BY MovesKeep
<1> HIDE DEF s
<1>2. \A i \in 1..Len(numbers) : numbers[i] < Len(st.list)
  BY DEF AllThere
<1>3. Len(s.list) = Len(st.list) /\ (Len(numbers) = 1 => s = MoveOne(st, numbers[1]))
  BY <1>1, <1>2
<1> QED
  BY <1>3 DEF s, Dropped

(***************************************************************************)
(* The rows that are deleted.                                              *)
(***************************************************************************)
Removes == INSTANCE FoldSteps WITH Op <- RemovePos

\* The list p is what q has at the places of keep.
Keeps(p, q, S, K, m, keep) ==
  /\ m \in Nat /\ Ascends(keep, K, m)
  /\ p \in Seq(S) /\ Len(p) = m
  /\ \A i \in 1..m : p[i] = q[keep[i]]

Without(keep, m, pos) ==
  [i \in 1..(m - 1) |-> keep[IF i < pos THEN i ELSE i + 1]]

\* The first are all kept.
Start(keep, m, pos) == \A i \in 1..pos : i <= m /\ keep[i] = i

\* Removed at a place up to which all were kept.
LEMMA RemoveKeeps ==
  ASSUME NEW S, NEW q \in Seq(S), NEW p, NEW K \in SUBSET (1..Len(q)), NEW m,
         NEW keep, Keeps(p, q, S, K, m, keep), NEW pos \in 1..Len(q),
         Start(keep, m, pos)
  PROVE  LET less == Without(keep, m, pos)
         IN  /\ Keeps(RemovePos(p, pos), q, S, K \ {pos}, m - 1, less)
             /\ Start(less, m - 1, pos - 1)
<1> DEFINE less == Without(keep, m, pos)
           r == RemovePos(p, pos)
<1>1. /\ m \in Nat /\ pos \in 1..m /\ keep[pos] = pos
      /\ keep \in [1..m -> K] /\ K \subseteq Int
      /\ \A x \in K : \E i \in 1..m : keep[i] = x
      /\ \A i, j \in 1..m : i < j => keep[i] < keep[j]
      /\ p \in Seq(S) /\ Len(p) = m
      /\ \A i \in 1..m : p[i] = q[keep[i]]
  <2>1. m \in Nat /\ pos \in 1..pos /\ pos >= 1 /\ pos \in Int
    BY DEF Keeps
  <2>2. pos <= m /\ keep[pos] = pos
    BY <2>1 DEF Start
  <2> QED
    BY <2>1, <2>2 DEF Keeps, Ascends
<1>2. ASSUME NEW i \in 1..(m - 1)
      PROVE  /\ less[i] = keep[IF i < pos THEN i ELSE i + 1]
             /\ (IF i < pos THEN i ELSE i + 1) \in 1..m
             /\ (IF i < pos THEN i ELSE i + 1) # pos
  BY <1>1 DEF Without
<1>3. \A i, j \in 1..m : keep[i] = keep[j] => i = j
  <2> SUFFICES ASSUME NEW i \in 1..m, NEW j \in 1..m, keep[i] = keep[j], i # j
               PROVE  FALSE
    OBVIOUS
  <2>1. i < j \/ j < i
    BY <1>1
  <2>2. keep[i] < keep[j] \/ keep[j] < keep[i]
    BY <1>1, <2>1
  <2>3. keep[i] \in Int
    BY <1>1
  <2> QED
    BY <2>2, <2>3
<1> HIDE DEF less
<1>4. less \in [1..(m - 1) -> K \ {pos}]
  <2>1. \A i \in 1..(m - 1) : less[i] \in K \ {pos}
    BY <1>1, <1>2, <1>3
  <2> QED
    BY <2>1 DEF less, Without
<1>5. ASSUME NEW x \in K \ {pos}
      PROVE  \E i \in 1..(m - 1) : less[i] = x
  <2>1. PICK i \in 1..m : keep[i] = x
    BY <1>1
  <2>2. CASE i < pos
    <3>1. i \in 1..(m - 1)
      BY <1>1, <2>2
    <3> QED
      BY <1>2, <2>1, <2>2, <3>1
  <2>3. CASE i > pos
    <3>1. i - 1 \in 1..(m - 1) /\ ~(i - 1 < pos) /\ (i - 1) + 1 = i
      BY <1>1, <2>3
    <3> QED
      BY <1>2, <2>1, <3>1
  <2> QED
    BY <1>1, <2>1, <2>2, <2>3
<1>6. ASSUME NEW i \in 1..(m - 1), NEW j \in 1..(m - 1), i < j
      PROVE  less[i] < less[j]
  <2>1. (IF i < pos THEN i ELSE i + 1) < (IF j < pos THEN j ELSE j + 1)
    BY <1>1, <1>6
  <2> QED
    BY <1>1, <1>2, <2>1
<1>7. /\ r \in Seq(S) /\ Len(r) = m - 1
      /\ \A i \in 1..(m - 1) : r[i] = p[IF i < pos THEN i ELSE i + 1]
  <2>1. r = RemoveAt(p, pos)
    BY <1>1, RemovePosIs
  <2>2. /\ RemoveAt(p, pos) \in Seq(S)
        /\ Len(RemoveAt(p, pos)) = Len(p) - 1
        /\ \A i \in 1..(Len(p) - 1) :
             RemoveAt(p, pos)[i] = p[IF i < pos THEN i ELSE i + 1]
    <3>1. p \in Seq(S) /\ pos \in 1..Len(p)
      BY <1>1
    <3> HIDE DEF r
    <3> QED
      BY ONLY <3>1, RemovedIs
  <2>3. Len(p) = m
    BY <1>1
  <2> HIDE DEF r
  <2> QED
    BY <2>1, <2>2, <2>3
<1>8. \A i \in 1..(m - 1) : r[i] = q[less[i]]
  BY <1>1, <1>2, <1>7
<1>9. Ascends(less, K \ {pos}, m - 1)
  BY <1>4, <1>5, <1>6 DEF Ascends
<1> HIDE DEF r
<1>10. Keeps(r, q, S, K \ {pos}, m - 1, less)
  BY <1>1, <1>7, <1>8, <1>9 DEF Keeps
<1>11. ASSUME NEW i \in 1..(pos - 1)
       PROVE  i <= m - 1 /\ less[i] = i
  <2>1. i \in 1..(m - 1) /\ i < pos /\ i \in 1..pos
    BY <1>1
  <2> QED
    BY <1>2, <2>1 DEF Start
<1> QED
  BY <1>10, <1>11 DEF r, less, Start

\* Rows that go from the last to the first leave the list without them.
LEMMA DeletesKeep ==
  ASSUME NEW S, NEW q \in Seq(S), NEW numbers \in Seq(Int),
         \A i, j \in 1..Len(numbers) : i < j => numbers[i] < numbers[j]
  PROVE  \E m, keep :
           Keeps(FoldLeft(RemovePos, q, Reverse(numbers)), q, S,
                 (1..Len(q)) \ {numbers[i] : i \in 1..Len(numbers)}, m, keep)
<1> DEFINE n == Len(numbers)
           L == Len(q)
           rev == Reverse(numbers)
           r == FoldLeft(RemovePos, q, rev)
           Taken(j) == {numbers[x] : x \in (n - j + 1)..n}
           Left(j) == (1..L) \ Taken(j)
<1>1. /\ n \in Nat /\ L \in Nat
      /\ DOMAIN rev = 1..n /\ \A i \in 1..n : rev[i] = numbers[n - i + 1]
      /\ \A i \in 1..n : numbers[i] \in Int
  BY DEF Reverse
<1>2. \A i, j \in 1..n : i < j => numbers[i] < numbers[j]
  OBVIOUS
<1> HIDE DEF n, L, rev
<1>3. PICK g : /\ g[0] = q
               /\ \A i \in 1..n : g[i] = RemovePos(g[i - 1], rev[i])
               /\ r = g[n]
  <2>1. r = Removes!Fold(q, rev)
    BY DEF FoldLeft, MapThenFoldSet, Max, Removes!Fold, Removes!FoldLeft,
           Removes!MapThenFoldSet, Removes!Max
  <2>2. n \in Nat /\ DOMAIN rev = 1..n
    BY <1>1
  <2>3. \E g : Removes!Steps(g, q, rev, n)
    BY <2>2, Removes!FoldLeftSteps
  <2> HIDE DEF r
  <2> QED
    BY <2>1, <2>3 DEF Removes!Steps
<1> HIDE DEF r
<1> DEFINE Before(j, m, keep) ==
             \A i \in 1..L : (\A y \in Taken(j) : i < y) => i <= m /\ keep[i] = i
           P(j) == \E m, keep : /\ Keeps(g[j], q, S, Left(j), m, keep)
                                /\ Before(j, m, keep)
           T == {j \in 0..n : P(j)}
<1>4. 0 \in T
  <2> DEFINE keep == [i \in 1..L |-> i]
  <2>1. Taken(0) = {}
    BY <1>1
  <2>2. Ascends(keep, 1..L, L)
    BY <1>1 DEF Ascends
  <2>3. Keeps(g[0], q, S, Left(0), L, keep)
    BY <1>1, <1>3, <2>1, <2>2 DEF Keeps, L
  <2>4. Before(0, L, keep)
    BY <1>1
  <2> HIDE DEF keep, Before, Left
  <2>5. P(0)
    BY <2>3, <2>4
  <2> HIDE DEF P
  <2> QED
    BY <1>1, <2>5
<1>5. ASSUME NEW j \in 0..(n - 1), j \in T
      PROVE  j + 1 \in T
  <2> DEFINE pos == numbers[n - j]
  <2>1. /\ j + 1 \in 1..n /\ j + 1 \in 0..n /\ (j + 1) - 1 = j
        /\ n - (j + 1) + 1 = n - j /\ n - j \in 1..n
    BY <1>1
  <2>2. pos \in Int /\ g[j + 1] = RemovePos(g[j], pos)
    BY <1>1, <1>3, <2>1
  <2>3. PICK m, keep : Keeps(g[j], q, S, Left(j), m, keep) /\ Before(j, m, keep)
    BY <1>5
  <2>4. Taken(j + 1) = Taken(j) \cup {pos}
    <3>1. (n - (j + 1) + 1)..n = ((n - j + 1)..n) \cup {n - j}
      <4> DEFINE k == n - j
      <4>1. k \in Int /\ k <= n /\ n \in Int
        BY <1>1, <2>1
      <4> HIDE DEF k
      <4>2. k..n = ((k + 1)..n) \cup {k}
        BY <4>1
      <4> QED
        BY <2>1, <4>2 DEF k
    <3> QED
      BY <3>1
  <2>5. \A y \in Taken(j) : y \in Int /\ pos < y
    <3> SUFFICES ASSUME NEW x \in (n - j + 1)..n
                 PROVE  numbers[x] \in Int /\ pos < numbers[x]
      OBVIOUS
    <3>1. x \in 1..n /\ n - j < x
      BY <1>1, <2>1
    <3> QED
      BY <1>1, <1>2, <2>1, <3>1
  <2>6. \A i \in 1..L : (\A y \in Taken(j + 1) : i < y) =>
          i < pos /\ \A y \in Taken(j) : i < y
    BY <2>4
  <2> HIDE DEF pos, Taken
  <2>7. CASE pos \notin 1..L
    <3>1. Left(j + 1) = Left(j)
      BY <2>4, <2>7
    <3>2. g[j + 1] = g[j]
      <4>1. Left(j) \subseteq 1..L /\ Len(g[j]) = m /\ m \in Nat
        BY <2>3 DEF Keeps
      <4>2. pos \notin 1..m
        <5>1. SUFFICES ASSUME pos \in 1..m PROVE FALSE
          OBVIOUS
        <5>2. pos >= 1 /\ pos > L
          BY <1>1, <2>7, <5>1
        <5>3. /\ m \in 1..m /\ keep[m] \in 1..L /\ keep[pos] \in 1..L
              /\ \A i, k \in 1..m : i < k => keep[i] < keep[k]
              /\ \A i \in 1..m : keep[i] \in 1..L
          BY <2>3, <4>1, <5>1 DEF Keeps, Ascends
        <5>4. keep \in Injection(1..m, 1..L)
          <6>1. keep \in [1..m -> 1..L]
            BY <2>3, <4>1 DEF Keeps, Ascends
          <6>2. \A i, k \in 1..m : keep[i] = keep[k] => i = k
            BY <1>1, <4>1, <5>3, SMTT(20)
          <6> QED
            BY <6>1, <6>2 DEF Injection, IsInjective
        <5>5. Cardinality(1..m) <= Cardinality(1..L)
          BY <1>1, <5>4, FS_Injection, FS_Interval
        <5>6. Cardinality(1..m) = m /\ Cardinality(1..L) = L
          <6>1. m \in Int /\ L \in Int /\ m >= 1 /\ L >= 0 /\ 1 \in Int
            BY <1>1, <4>1, <5>1
          <6>2. Cardinality(1..m) = IF 1 > m THEN 0 ELSE m - 1 + 1
            BY ONLY <6>1, FS_Interval
          <6>3. Cardinality(1..L) = IF 1 > L THEN 0 ELSE L - 1 + 1
            BY ONLY <6>1, FS_Interval
          <6> QED
            BY <6>1, <6>2, <6>3
        <5> QED
          BY <1>1, <4>1, <5>1, <5>2, <5>5, <5>6
      <4> QED
        BY <2>2, <4>1, <4>2 DEF RemovePos, Has
    <3>3. Before(j + 1, m, keep)
      BY <2>3, <2>6
    <3> QED
      BY <2>1, <2>3, <3>1, <3>2, <3>3
  <2>8. CASE pos \in 1..L
    <3> DEFINE less == Without(keep, m, pos)
    <3>1. Start(keep, m, pos)
      <4> SUFFICES ASSUME NEW i \in 1..pos PROVE i <= m /\ keep[i] = i
        BY DEF Start
      <4>1. i \in 1..L /\ \A y \in Taken(j) : i < y
        BY <1>1, <2>5, <2>8
      <4> QED
        BY <2>3, <4>1
    <3>2. Left(j) \in SUBSET (1..Len(q)) /\ pos \in 1..Len(q)
      BY <2>8 DEF L
    <3> HIDE DEF Left
    <3>3. /\ Keeps(RemovePos(g[j], pos), q, S, Left(j) \ {pos}, m - 1, less)
          /\ Start(less, m - 1, pos - 1)
      <4>1. Keeps(g[j], q, S, Left(j), m, keep)
        BY <2>3
      <4> QED
        BY ONLY <3>1, <3>2, <4>1, q \in Seq(S), RemoveKeeps
    <3> HIDE DEF less
    <3>4. Left(j + 1) = Left(j) \ {pos}
      BY <2>4 DEF Left
    <3>5. Before(j + 1, m - 1, less)
      <4> SUFFICES ASSUME NEW i \in 1..L, \A y \in Taken(j + 1) : i < y
                   PROVE  i <= m - 1 /\ less[i] = i
        OBVIOUS
      <4>1. i \in 1..(pos - 1)
        BY <1>1, <2>2, <2>6
      <4> QED
        BY <3>3, <4>1 DEF Start
    <3> HIDE DEF Before
    <3> QED
      BY <2>1, <2>2, <3>3, <3>4, <3>5
  <2> QED
    BY <2>7, <2>8
<1>6. n \in T
  <2> HIDE DEF T
  <2>1. \A j \in 0..(n - 1) : j \in T => j + 1 \in T
    BY <1>5
  <2>2. \A j \in 0..n : j \in T
    BY <1>1, <1>4, <2>1, Removes!Climb
  <2> QED
    BY <1>1, <2>2
<1>7. Left(n) = (1..L) \ {numbers[i] : i \in 1..n}
  BY <1>1
<1>8. \E m, keep : Keeps(g[n], q, S, Left(n), m, keep)
  BY <1>6
<1> HIDE DEF Left
<1> QED
  BY <1>3, <1>7, <1>8 DEF n, L, rev, r

(***************************************************************************)
(* What holds of the list, the window and the directory.                   *)
(***************************************************************************)
Movies == UNION {ToSet(s) : s \in Chooser \cup {Given}}

ListInv ==
  /\ playlist \in Lists(Movies, MaxLength)
  /\ rows = Shown(playlist, position)
  /\ draglist \in Seq(0..(MaxLength - 1))

ChannelInv ==
  /\ position \in {-1, 0}
  /\ playmode \in {"PLAY", "CONT", "LOOP", "SINGLE"}
  /\ {playing, stopped, running, mutex} \subseteq BOOLEAN
  /\ thread \in {"none", "created", "over"}
  /\ gui \in {"idle", "saving", "launching", "crashed", "off"}
  /\ mutex => running \/ thread = "created"

DirInv ==
  /\ IsFiniteSet(DOMAIN dir) /\ DOMAIN dir \subseteq Names
  /\ player.name \in Names
  /\ now \in Times

\* The lines of the file are a beginning of what was saved; while the file is
\* written, what was saved is the list.
FileInv ==
  /\ saved \in Seq(Movies)
  /\ gui = "saving" => saved = playlist /\ Default \in DOMAIN dir
  /\ Default \in DOMAIN dir =>
       /\ dir[Default].lines \in Seq(Movies)
       /\ IsPrefix(dir[Default].lines, saved)
       /\ gui \in {"idle", "launching"} => dir[Default].lines = saved

LEMMA MoviesAre ==
  /\ Given \in Lists(Movies, MaxLength)
  /\ \A files \in Chooser \cup {<<>>} : files \in Seq(Movies)
<1>1. ASSUME NEW s \in Chooser \cup {Given}
      PROVE  s \in Seq(Movies)
  <2>1. s \in Seq(ToSet(s)) /\ ToSet(s) \subseteq Movies
    BY EditorAssumption DEF Movies
  <2> QED
    BY <2>1
<1>2. Len(Given) <= MaxLength
  BY EditorAssumption
<1>3. <<>> \in Seq(Movies)
  OBVIOUS
<1>4. Given \in Lists(Movies, MaxLength)
  BY <1>1, <1>2 DEF Lists
<1> QED
  BY <1>1, <1>3, <1>4

LEMMA ShownIs ==
  ASSUME NEW S, NEW q \in Seq(S), NEW pos \in Int
  PROVE  /\ Len(Shown(q, pos)) = Len(q) /\ DOMAIN Shown(q, pos) = 1..Len(q)
         /\ \A i \in 1..Len(q) : /\ Shown(q, pos)[i].number = i - 1
                                 /\ Shown(q, pos)[i].name = q[i]
<1>1. Len(q) \in Nat
  OBVIOUS
<1> QED
  BY <1>1 DEF Shown

\* The numbers of rows that are there, from the first to the last.
LEMMA NumbersAre ==
  ASSUME ListInv, position \in {-1, 0}, NEW selected \in SUBSET (1..Len(rows))
  PROVE  LET n == Numbers(selected)
         IN  /\ n \in Seq(0..(Len(playlist) - 1))
             /\ \A i, j \in 1..Len(n) : i < j => n[i] < n[j]
             /\ ToSet(n) = {i - 1 : i \in selected}
<1> DEFINE ix == InOrder(selected, <)
           m == Cardinality(selected)
           n == Numbers(selected)
           L == Len(playlist)
<1>1. /\ L \in Nat /\ Len(rows) = L
      /\ \A i \in 1..L : rows[i].number = i - 1
  BY ShownIs DEF ListInv, Lists
<1> HIDE DEF L
<1>2. selected \in SUBSET Int /\ IsFiniteSet(selected)
  <2>1. IsFiniteSet(1..L)
    BY <1>1, FS_Interval
  <2>2. selected \in SUBSET (1..L)
    BY <1>1
  <2>3. IsFiniteSet(selected)
    BY ONLY <2>1, <2>2, FS_Subset
  <2>4. selected \in SUBSET Int
    BY ONLY <2>2, <1>1
  <2> QED
    BY <2>3, <2>4
<1>3. m \in Nat /\ Ascends(ix, selected, m)
  BY <1>2, InOrderAscends
<1>4. n = [i \in 1..Len(ix) |-> rows[ix[i]].number]
  BY DEF Numbers
<1> HIDE DEF ix, m, n
<1>5. /\ ix \in [1..m -> 1..L] /\ Len(ix) = m
      /\ \A i, j \in 1..m : i < j => ix[i] < ix[j]
  <2>1. selected \subseteq 1..L
    BY <1>1
  <2>2. ix \in [1..m -> selected]
    BY <1>3 DEF Ascends
  <2>3. ix \in [1..m -> 1..L]
    BY <2>1, <2>2
  <2>4. Len(ix) = m
    BY <1>3, <2>3
  <2> QED
    BY <1>3, <2>3, <2>4 DEF Ascends
<1>6. ASSUME NEW i \in 1..m
      PROVE  n[i] = ix[i] - 1 /\ n[i] \in 0..(L - 1)
  <2>1. n[i] = rows[ix[i]].number /\ ix[i] \in 1..L
    BY <1>4, <1>5
  <2>2. n[i] = ix[i] - 1
    BY <1>1, <2>1
  <2> QED
    BY <1>1, <2>1, <2>2
<1>7. n \in Seq(0..(L - 1)) /\ Len(n) = m
  <2>1. DOMAIN n = 1..m /\ n = [i \in 1..m |-> rows[ix[i]].number]
    BY <1>4, <1>5
  <2>2. n \in [1..m -> 0..(L - 1)]
    BY <1>6, <2>1
  <2>3. m \in Nat
    BY <1>3
  <2> QED
    BY ONLY <2>2, <2>3, SequenceOf
<1>8. ASSUME NEW i \in 1..m, NEW j \in 1..m, i < j
      PROVE  n[i] < n[j]
  <2>1. ix[i] < ix[j] /\ ix[i] \in Int /\ ix[j] \in Int
    BY <1>5, <1>8
  <2>2. n[i] = ix[i] - 1 /\ n[j] = ix[j] - 1
    BY <1>6
  <2> QED
    BY <2>1, <2>2
<1>9. ToSet(n) = {i - 1 : i \in selected}
  <2>1. DOMAIN n = 1..m
    BY <1>4, <1>5
  <2>2. \A i \in 1..m : ix[i] \in selected
    BY <1>3 DEF Ascends
  <2>3. \A x \in selected : \E i \in 1..m : ix[i] = x
    BY <1>3 DEF Ascends
  <2>4. ASSUME NEW y \in ToSet(n)
        PROVE  y \in {i - 1 : i \in selected}
    <3>1. PICK i \in 1..m : y = n[i]
      BY <2>1 DEF ToSet
    <3> QED
      BY <1>6, <2>2, <3>1
  <2>5. ASSUME NEW x \in selected
        PROVE  x - 1 \in ToSet(n)
    <3>1. PICK i \in 1..m : ix[i] = x
      BY <2>3
    <3>2. n[i] = x - 1
      BY <1>6, <3>1
    <3> QED
      BY <2>1, <3>2 DEF ToSet
  <2> QED
    BY <2>4, <2>5
<1> QED
  BY <1>7, <1>8, <1>9 DEF L, n

\* What a press of delete leaves.
LEMMA DeleteAllIs ==
  ASSUME ListInv, position \in {-1, 0}, NEW selected \in SUBSET (1..Len(rows))
  PROVE  /\ DeleteAll(Numbers(selected)) \in Lists(Movies, MaxLength)
         /\ DeleteAll(Numbers(selected))
              = AtPlaces(playlist, {i \in DOMAIN playlist : i + 1 \notin selected})
<1> DEFINE numbers == Numbers(selected)
           L == Len(playlist)
           K == (1..L) \ {numbers[i] : i \in 1..Len(numbers)}
           kept == InOrder(K, <)
           p == DeleteAll(numbers)
<1>1. /\ playlist \in Seq(Movies) /\ L \in Nat /\ L <= MaxLength /\ MaxLength \in Nat
      /\ DOMAIN playlist = 1..L
  BY EditorAssumption DEF ListInv, Lists
<1>2. /\ numbers \in Seq(Int)
      /\ \A i, j \in 1..Len(numbers) : i < j => numbers[i] < numbers[j]
  <2>1. numbers \in Seq(0..(L - 1))
    BY NumbersAre
  <2>2. 0..(L - 1) \subseteq Int
    OBVIOUS
  <2> HIDE DEF numbers, L
  <2>3. numbers \in Seq(Int)
    BY ONLY <2>1, <2>2, SequenceIn
  <2> QED
    BY <2>3, NumbersAre DEF numbers
<1>3. {i \in DOMAIN playlist : i + 1 \notin selected} = K
  <2>1. ToSet(numbers) = {i - 1 : i \in selected}
    BY NumbersAre
  <2>2. ToSet(numbers) = {numbers[i] : i \in 1..Len(numbers)}
    <3>1. DOMAIN numbers = 1..Len(numbers)
      BY <1>2
    <3> QED
      BY <3>1 DEF ToSet
  <2>3. selected \subseteq Int
    <3>1. selected \subseteq 1..Len(rows)
      OBVIOUS
    <3> QED
      BY <3>1
  <2>4. \A i \in 1..L : i + 1 \in selected <=> i \in ToSet(numbers)
    BY <1>1, <2>1, <2>3
  <2> HIDE DEF numbers, L
  <2> QED
    BY <1>1, <2>2, <2>4
<1> HIDE DEF numbers
<1>4. \E m, keep : Keeps(FoldLeft(RemovePos, playlist, Reverse(numbers)),
                         playlist, Movies, K, m, keep)
  BY <1>1, <1>2, DeletesKeep
<1>5. p = FoldLeft(RemovePos, playlist, Reverse(numbers))
  BY DEF DeleteAll
<1> HIDE DEF K, p
<1>6. PICK m, keep : Keeps(p, playlist, Movies, K, m, keep)
  BY <1>4, <1>5
<1>7. K \in SUBSET (1..L) /\ K \in SUBSET Int /\ IsFiniteSet(1..L)
  BY <1>1, FS_Interval DEF K
<1>8. IsFiniteSet(K) /\ Cardinality(K) <= L
  <2>1. 1 \in Int /\ L \in Int /\ L >= 0
    BY <1>1
  <2> HIDE DEF L
  <2>2. Cardinality(1..L) = IF 1 > L THEN 0 ELSE L - 1 + 1
    BY ONLY <2>1, FS_Interval
  <2>3. Cardinality(1..L) = L
    BY <2>1, <2>2
  <2>4. IsFiniteSet(K) /\ Cardinality(K) <= Cardinality(1..L)
    BY ONLY <1>7, FS_Subset
  <2> QED
    BY <2>3, <2>4
<1>9. /\ m \in Nat /\ Ascends(keep, K, m) /\ p \in Seq(Movies) /\ Len(p) = m
      /\ \A i \in 1..m : p[i] = playlist[keep[i]]
  BY <1>6 DEF Keeps
<1>10. keep = kept /\ m = Cardinality(K)
  BY <1>7, <1>8, <1>9, InOrderIs
<1> HIDE DEF kept
<1>11. Len(kept) = m
  BY <1>9, <1>10 DEF Ascends
<1>12. p = [i \in 1..Len(kept) |-> playlist[kept[i]]]
  BY <1>9, <1>10, <1>11
<1>13. p \in Lists(Movies, MaxLength)
  BY <1>1, <1>8, <1>9, <1>10 DEF Lists
<1> QED
  BY <1>3, <1>12, <1>13 DEF p, kept, numbers, AtPlaces

LEMMA ListInit == Init => ListInv
<1> SUFFICES ASSUME Init PROVE ListInv
  OBVIOUS
<1>1. draglist \in Seq(0..(MaxLength - 1))
  BY DEF Init
<1> QED
  BY <1>1, MoviesAre DEF Init, ListInv

\* The window shows what a handler leaves.
LEMMA Refreshed ==
  ASSUME Refresh, playlist' \in Lists(Movies, MaxLength),
         draglist' \in Seq(0..(MaxLength - 1))
  PROVE  ListInv'
BY DEF Refresh, ListInv, Lists, Shown

LEMMA ListStep ==
  ASSUME ListInv, ChannelInv, [Next]_vars
  PROVE  ListInv'
<1> DEFINE Drag == Seq(0..(MaxLength - 1))
           L == Len(playlist)
<1>1. /\ playlist \in Seq(Movies) /\ L \in Nat /\ L <= MaxLength
      /\ playlist \in Lists(Movies, MaxLength)
      /\ draglist \in Drag /\ MaxLength \in Nat /\ position \in {-1, 0}
      /\ rows = Shown(playlist, position) /\ Len(rows) = L
  BY EditorAssumption, ShownIs DEF ListInv, ChannelInv, Lists
<1>2. ASSUME UNCHANGED <<playlist, position, rows, draglist>>
      PROVE  ListInv'
  BY <1>2 DEF ListInv, Lists, Shown
<1>3. CASE on_add_button
  <2>1. PICK files \in Chooser \cup {<<>>} :
          L + Len(files) <= MaxLength /\ playlist' = playlist \o files
    BY <1>3 DEF on_add_button
  <2>2. files \in Seq(Movies)
    BY MoviesAre
  <2>3. playlist' \in Seq(Movies) /\ Len(playlist') = L + Len(files)
    BY <1>1, <2>1, <2>2
  <2>4. playlist' \in Lists(Movies, MaxLength)
    BY <2>1, <2>3 DEF Lists
  <2> QED
    BY <1>1, <1>3, <2>4, Refreshed DEF on_add_button
<1>4. ASSUME NEW selected \in SUBSET (1..Len(rows)), on_delete_button(selected)
      PROVE  ListInv'
  BY <1>1, <1>4, DeleteAllIs, Refreshed DEF on_delete_button
<1>5. CASE on_set_playmode \/ on_play_button \/ on_play_button_down \/ Run
           \/ SaveFails \/ SaveBegins \/ Launched
  BY <1>2, <1>5 DEF on_set_playmode, on_play_button, on_play_button_down, Run,
     SaveFails, SaveBegins, Launched, window, channel
<1>6. CASE on_rewind_button \/ on_syncstart_button
  BY <1>1, <1>6, Refreshed DEF on_rewind_button, on_syncstart_button
<1>7. ASSUME NEW selected \in SUBSET (1..Len(rows)), DND_data_get(selected)
      PROVE  ListInv'
  <2> DEFINE n == Numbers(selected)
  <2>1. n \in Seq(0..(L - 1))
    BY <1>1, NumbersAre
  <2>2. 0..(L - 1) \subseteq 0..(MaxLength - 1)
    BY <1>1
  <2> HIDE DEF n
  <2>3. n \in Drag
    <3> DEFINE A == 0..(L - 1)
               B == 0..(MaxLength - 1)
    <3>1. A \subseteq B /\ n \in Seq(A)
      BY <2>1, <2>2
    <3> HIDE DEF A, B
    <3>2. n \in Seq(B)
      BY <3>1, SequenceIn
    <3> QED
      BY <3>2 DEF B
  <2>4. draglist' = draglist \o n /\ UNCHANGED <<playlist, position, rows>>
    BY <1>7 DEF DND_data_get, channel, n
  <2>5. draglist' \in Drag
    BY <1>1, <2>3, <2>4
  <2> QED
    BY <2>4, <2>5 DEF ListInv, Lists, Shown
<1>8. ASSUME NEW row \in {0} \cup 1..(Len(rows) - 1), DND_drop(row)
      PROVE  ListInv'
  <2> DEFINE st == [list |-> playlist, row |-> row, crashed |-> FALSE]
             s == FoldLeft(MoveOne, st, draglist)
  <2>1. st \in Moving(Movies, MaxLength)
    BY <1>1 DEF Moving
  <2>2. s \in Moving(Movies, MaxLength)
    BY <1>1, <2>1, MovesKeep
  <2>3. playlist' = s.list /\ draglist' = <<>> /\ Refresh
    BY <1>8 DEF DND_drop
  <2> HIDE DEF s
  <2>4. playlist' \in Lists(Movies, MaxLength) /\ draglist' \in Drag
    BY <2>2, <2>3 DEF Moving
  <2> QED
    BY <2>3, <2>4, Refreshed
<1>9. CASE SaveSome \/ SaveRest \/ TimePasses \/ StartPlayer
  BY <1>2, <1>9 DEF SaveSome, SaveRest, TimePasses, StartPlayer, channel, window
<1>10. CASE Quit \/ Kill
  <2>1. playlist' = <<>> /\ position' = -1 /\ rows' = <<>> /\ draglist' = <<>>
    BY <1>10 DEF Quit, Kill, Gone
  <2>2. <<>> \in Lists(Movies, MaxLength) /\ <<>> \in Drag
    BY <1>1 DEF Lists
  <2>3. Shown(<<>>, -1) = <<>>
    BY DEF Shown
  <2> QED
    BY <2>1, <2>2, <2>3 DEF ListInv, Lists, Shown
<1>11. ASSUME NEW name \in Names, PutFile(name)
       PROVE  ListInv'
  BY <1>2, <1>11 DEF PutFile, channel, window
<1>12. CASE UNCHANGED vars
  BY <1>2, <1>12 DEF vars, channel, window
<1> QED
  BY <1>3, <1>4, <1>5, <1>6, <1>7, <1>8, <1>9, <1>10, <1>11, <1>12
     DEF Next, Handlers, on_save_button

(***************************************************************************)
(* The choice of load().                                                   *)
(***************************************************************************)
Digits(n) == IF n < 10 THEN 11 * n ELSE 11 * (n \div 10) + (n % 10) + 1

LEMMA DigitsDiffer ==
  ASSUME NEW m \in 0..99, NEW n \in 0..99, Digits(m) = Digits(n)
  PROVE  m = n /\ Digits(m) \in Int
BY DEF Digits

\* The order in which load() visits two names.
Earlier(f, g) ==
  \/ f.day = 0 /\ g.day # 0
  \/ /\ f.day = 0 <=> g.day = 0
     /\ \/ f.day > g.day
        \/ f.day = g.day /\ f.at > g.at
        \/ /\ f.day = g.day /\ f.at = g.at
           /\ Digits(f.video) > Digits(g.video)

Visiting(S) == {p \in S \X S : Earlier(p[1], p[2])}

LEMMA NamesAre ==
  ASSUME NEW f \in Names
  PROVE  /\ f \in [day : Nat, at : 0..1439, video : 0..99]
         /\ f.day \in Nat /\ f.at \in 0..1439 /\ f.video \in 0..99
         /\ f.day = 0 => f.at = 0
         /\ ForDevice(f) <=> f.video = device_num
         /\ f = [day |-> f.day, at |-> f.at, video |-> f.video]
<1>1. /\ f \in [day : Nat, at : 0..1439, video : 0..99]
      /\ f.day = 0 => f.at = 0
  BY ScheduleAssumption
<1>2. f.video \in 0..99 /\ device_num \in {0} \cup 10..99
  BY <1>1, ScheduleAssumption DEF device_num
<1>3. f.video \div 10 \in 0..9
  BY <1>2
<1>4. ForDevice(f) <=> f.video = device_num
  BY <1>2, <1>3 DEF ForDevice
<1> QED
  BY <1>1, <1>4

LEMMA VisitingOrders ==
  ASSUME NEW S \in SUBSET Names
  PROVE  /\ Orders(Visiting(S), S)
         /\ \A f, g \in S : <<f, g>> \in Visiting(S) <=> Earlier(f, g)
<1>1. \A f, g \in S : <<f, g>> \in Visiting(S) <=> Earlier(f, g)
  BY DEF Visiting
<1>2. ASSUME NEW f \in S
      PROVE  /\ f.day \in Nat /\ f.at \in Int /\ f.video \in 0..99
             /\ Digits(f.video) \in Int
  <2>1. f.day \in Nat /\ f.at \in Int /\ f.video \in 0..99
    BY NamesAre
  <2> QED
    BY <2>1, DigitsDiffer
<1>3. \A f \in S : ~Earlier(f, f)
  BY <1>2 DEF Earlier
<1>4. ASSUME NEW f \in S, NEW g \in S, NEW h \in S, Earlier(f, g), Earlier(g, h)
      PROVE  Earlier(f, h)
  <2>1. /\ f.day \in Nat /\ g.day \in Nat /\ h.day \in Nat
        /\ f.at \in Int /\ g.at \in Int /\ h.at \in Int
        /\ Digits(f.video) \in Int /\ Digits(g.video) \in Int
        /\ Digits(h.video) \in Int
    BY <1>2
  <2> QED
    BY ONLY <1>4, <2>1 DEF Earlier
<1>5. ASSUME NEW f \in S, NEW g \in S, ~Earlier(f, g), ~Earlier(g, f)
      PROVE  f = g
  <2>1. f.day = g.day /\ f.at = g.at /\ Digits(f.video) = Digits(g.video)
    <3>1. /\ f.day \in Nat /\ g.day \in Nat /\ f.at \in Int /\ g.at \in Int
          /\ Digits(f.video) \in Int /\ Digits(g.video) \in Int
      BY <1>2
    <3> QED
      BY ONLY <1>5, <3>1 DEF Earlier
  <2>2. f.video = g.video
    BY <1>2, <2>1, DigitsDiffer
  <2>3. /\ f = [day |-> f.day, at |-> f.at, video |-> f.video]
        /\ g = [day |-> g.day, at |-> g.at, video |-> g.video]
    BY NamesAre
  <2> QED
    BY <2>1, <2>2, <2>3
<1>6. Orders(Visiting(S), S)
  BY <1>1, <1>3, <1>4, <1>5 DEF Orders
<1> QED
  BY <1>1, <1>6

\* Every name is visited, and those without a date come first.
LEMMA VisitedAre ==
  ASSUME NEW S \in SUBSET Names, IsFiniteSet(S)
  PROVE  LET v == Visited(S)
             n == Cardinality(S)
         IN  /\ n \in Nat /\ v \in [1..n -> S]
             /\ \A f \in S : \E i \in 1..n : v[i] = f
             /\ \A i, j \in 1..n : i < j /\ v[j].day = 0 => v[i].day = 0
<1> DEFINE n == Cardinality(S)
           rank(f) == Cardinality({g \in S : Earlier(g, f)}) + 1
           place(f) == Cardinality(Below(Visiting(S), S, f)) + 1
           v == [i \in 1..n |-> CHOOSE f \in S : rank(f) = i]
<1>1. n \in Nat
  BY FS_CardinalityType
<1>2. Visited(S) = v
  BY DEF Visited, InOrder, Earlier, Digits
<1>3. \A f \in S : place(f) = rank(f)
  <2> SUFFICES ASSUME NEW f \in S
               PROVE  Below(Visiting(S), S, f) = {g \in S : Earlier(g, f)}
    OBVIOUS
  <2> QED
    BY VisitingOrders DEF Below
<1>4. /\ \A f \in S : place(f) \in 1..n
      /\ \A f, g \in S : <<f, g>> \in Visiting(S) <=> place(f) < place(g)
      /\ \A i \in 1..n : \E f \in S : place(f) = i
  BY VisitingOrders, Ranks
<1> HIDE DEF rank, place, n
<1>5. \A i \in 1..n : v[i] \in S /\ rank(v[i]) = i
  BY <1>3, <1>4
<1> HIDE DEF v
<1>6. v \in [1..n -> S]
  BY <1>5 DEF v
<1>7. ASSUME NEW f \in S
      PROVE  \E i \in 1..n : v[i] = f
  <2> DEFINE i == place(f)
  <2>1. i \in 1..n /\ v[i] \in S /\ place(v[i]) = i
    BY <1>3, <1>4, <1>5
  <2>2. <<v[i], f>> \notin Visiting(S) /\ <<f, v[i]>> \notin Visiting(S)
    <3>1. ~(place(v[i]) < place(f)) /\ ~(place(f) < place(v[i]))
      BY <2>1
    <3> QED
      BY <1>4, <2>1, <3>1
  <2>3. v[i] = f
    BY <2>1, <2>2, VisitingOrders DEF Orders
  <2> QED
    BY <2>1, <2>3
<1>8. ASSUME NEW i \in 1..n, NEW j \in 1..n, i < j, v[j].day = 0
      PROVE  v[i].day = 0
  <2>1. v[i] \in S /\ v[j] \in S /\ place(v[i]) = i /\ place(v[j]) = j
    BY <1>3, <1>5
  <2>2. place(v[i]) < place(v[j])
    BY <1>8, <2>1
  <2>3. Earlier(v[i], v[j])
    BY <1>4, <2>1, <2>2, VisitingOrders
  <2> QED
    BY <1>8, <2>3 DEF Earlier
<1> QED
  BY <1>1, <1>2, <1>6, <1>7, <1>8 DEF n

VisitNow(sel, f) == Visit(sel, f, now)

Visits == INSTANCE FoldSteps WITH Op <- VisitNow

Due(S) == {f \in S : f.day # 0 /\ f.video = device_num /\ f.at \in 1..now}

\* Of the names visited, V, those that are due lead to the selection sel.
Selects(sel, V) ==
  /\ sel.at \in Nat
  /\ Due(V) = {} => sel = [name |-> Default, at |-> 0]
  /\ Due(V) # {} => /\ sel.name \in Due(V) /\ sel.at = sel.name.at
                    /\ \A f \in Due(V) : f.at <= sel.at

\* Only the names that are due matter.
LEMMA SelectsSame ==
  ASSUME NEW sel, NEW V, NEW W, Due(V) = Due(W), Selects(sel, V)
  PROVE  Selects(sel, W)
<1> DEFINE D == Due(V)
           E == Due(W)
<1>1. /\ sel.at \in Nat
      /\ D = {} => sel = [name |-> Default, at |-> 0]
      /\ D # {} => /\ sel.name \in D /\ sel.at = sel.name.at
                   /\ \A f \in D : f.at <= sel.at
  BY DEF Selects
<1>2. D = E
  OBVIOUS
<1> HIDE DEF D, E
<1>3. /\ sel.at \in Nat
      /\ E = {} => sel = [name |-> Default, at |-> 0]
      /\ E # {} => /\ sel.name \in E /\ sel.at = sel.name.at
                   /\ \A f \in E : f.at <= sel.at
  BY ONLY <1>1, <1>2
<1> QED
  BY <1>3 DEF Selects, E

\* One name more is visited: no name visited earlier has a date when it has none.
LEMMA VisitSelects ==
  ASSUME NEW S \in SUBSET Names, NEW V \in SUBSET S, NEW f \in S, now \in Nat,
         NEW sel, Selects(sel, V),
         f.day = 0 => \A g \in V : g.day = 0
  PROVE  Selects(VisitNow(sel, f), V \cup {f})
<1> DEFINE new == VisitNow(sel, f)
<1> SUFFICES Selects(new, V \cup {f})
  OBVIOUS
<1>1. /\ f.day \in Nat /\ f.at \in 0..1439 /\ f.at \in Int
      /\ f.day = 0 => f.at = 0
      /\ ForDevice(f) <=> f.video = device_num
  BY NamesAre
<1>2. Due(V \cup {f}) = IF f \in Due({f}) THEN Due(V) \cup {f} ELSE Due(V)
  BY DEF Due
<1>3. f \in Due({f}) <=> f.day # 0 /\ f.video = device_num /\ f.at \in 1..now
  BY DEF Due
<1>4. \A g \in Due(V) : g.at \in 1..now
  BY DEF Due
<1>5. CASE ~ForDevice(f)
  <2>1. new = sel
    BY <1>5 DEF VisitNow, Visit
  <2>2. Due(V \cup {f}) = Due(V)
    BY <1>1, <1>2, <1>3, <1>5
  <2> HIDE DEF new
  <2> QED
    BY <2>1, <2>2, SelectsSame
<1>6. CASE ForDevice(f) /\ f.day = 0
  <2>1. f = Default
    <3>1. f = [day |-> f.day, at |-> f.at, video |-> f.video]
      BY NamesAre
    <3> QED
      BY <1>1, <1>6, <3>1 DEF Default
  <2>2. Due(V) = {}
    BY <1>6 DEF Due
  <2>3. sel = [name |-> Default, at |-> 0]
    BY <2>2 DEF Selects
  <2>4. new = sel
    BY <1>6, <2>1, <2>3 DEF VisitNow, Visit
  <2>5. Due(V \cup {f}) = Due(V)
    BY <1>2, <1>3, <1>6
  <2> HIDE DEF new
  <2> QED
    BY <2>4, <2>5, SelectsSame
<1>7. CASE ForDevice(f) /\ f.day # 0 /\ (sel.at >= f.at \/ f.at > now)
  <2>1. new = sel
    BY <1>7 DEF VisitNow, Visit
  <2>2. CASE f \in Due({f})
    <3>1. f.at \in 1..now /\ sel.at >= f.at /\ sel.at \in Nat
      BY <1>3, <1>7, <2>2 DEF Selects
    <3>2. Due(V) # {}
      <4>1. sel.at # 0
        BY <3>1
      <4> QED
        BY <4>1 DEF Selects
    <3>3. Due(V \cup {f}) = Due(V) \cup {f}
      BY <1>2, <2>2
    <3> QED
      BY <2>1, <3>1, <3>2, <3>3 DEF Selects
  <2>3. CASE f \notin Due({f})
    <3>1. Due(V \cup {f}) = Due(V)
      BY <1>2, <2>3
    <3> HIDE DEF new
    <3> QED
      BY <2>1, <3>1, SelectsSame
  <2> QED
    BY <2>2, <2>3
<1>8. CASE ForDevice(f) /\ f.day # 0 /\ ~(sel.at >= f.at \/ f.at > now)
  <2>1. new = [name |-> f, at |-> f.at]
    BY <1>8 DEF VisitNow, Visit
  <2>2. sel.at \in Nat /\ sel.at < f.at /\ f.at <= now
    BY <1>1, <1>8 DEF Selects
  <2>3. f \in Due({f})
    BY <1>1, <1>3, <1>8, <2>2
  <2>4. Due(V \cup {f}) = Due(V) \cup {f}
    BY <1>2, <2>3
  <2>5. \A g \in Due(V) : g.at <= f.at
    <3> SUFFICES ASSUME NEW g \in Due(V) PROVE g.at <= f.at
      OBVIOUS
    <3>1. g.at <= sel.at /\ g.at \in 1..now
      BY <1>4 DEF Selects
    <3> QED
      BY <1>1, <2>2, <3>1
  <2>6. f.at <= f.at /\ f.at \in Nat
    BY <1>1
  <2>7. new.name = f /\ new.at = f.at
    BY <2>1
  <2> HIDE DEF new
  <2>8. \A g \in Due(V \cup {f}) : g.at <= new.at
    BY <2>4, <2>5, <2>6, <2>7
  <2>9. f \in Due(V \cup {f})
    BY <2>4
  <2> QED
    BY <2>6, <2>7, <2>8, <2>9 DEF Selects
<1> QED
  BY <1>5, <1>6, <1>7, <1>8

LEMMA PlaylistIs ==
  ASSUME NEW S \in SUBSET Names, IsFiniteSet(S), now \in Nat
  PROVE  LET chosen == ThePlaylist(S, today, now)
         IN  /\ Due(S) = {} => chosen = Default
             /\ Due(S) # {} => chosen \in Due(S) /\ \A f \in Due(S) : f.at <= chosen.at
<1> DEFINE v == Visited(S)
           n == Cardinality(S)
           base == [name |-> Default, at |-> 0]
           sel == FoldLeft(VisitNow, base, v)
<1>1. {f \in S : Listed(f, today)} = S
  BY NamesAre DEF Listed
<1>2. ThePlaylist(S, today, now) = sel.name
  BY <1>1 DEF ThePlaylist, VisitNow
<1>3. /\ n \in Nat /\ v \in [1..n -> S]
      /\ \A f \in S : \E i \in 1..n : v[i] = f
      /\ \A i, j \in 1..n : i < j /\ v[j].day = 0 => v[i].day = 0
  BY VisitedAre
<1> HIDE DEF v, n, base
<1>4. PICK g : /\ g[0] = base
               /\ \A i \in 1..n : g[i] = VisitNow(g[i - 1], v[i])
               /\ sel = g[n]
  <2>1. sel = Visits!Fold(base, v)
    BY DEF FoldLeft, MapThenFoldSet, Max, Visits!Fold, Visits!FoldLeft,
           Visits!MapThenFoldSet, Visits!Max
  <2>2. n \in Nat /\ DOMAIN v = 1..n
    BY <1>3
  <2>3. \E g : Visits!Steps(g, base, v, n)
    BY <2>2, Visits!FoldLeftSteps
  <2> HIDE DEF sel
  <2> QED
    BY <2>1, <2>3 DEF Visits!Steps
<1> HIDE DEF sel
<1> DEFINE V(i) == {v[j] : j \in 1..i}
           T == {i \in 0..n : Selects(g[i], V(i))}
<1>5. 0 \in T
  <2>1. Due(V(0)) = {}
    BY DEF Due
  <2>2. g[0].at = 0 /\ g[0] = [name |-> Default, at |-> 0]
    BY <1>4 DEF base
  <2> HIDE DEF V
  <2>3. Selects(g[0], V(0))
    BY <2>1, <2>2 DEF Selects
  <2> QED
    BY <1>3, <2>3
<1>6. ASSUME NEW i \in 0..(n - 1), i \in T
      PROVE  i + 1 \in T
  <2>1. i + 1 \in 1..n /\ i + 1 \in 0..n /\ (i + 1) - 1 = i /\ i \in Nat
    BY <1>3
  <2>2. V(i) \in SUBSET S
    BY <1>3, <2>1
  <2>3. v[i + 1] \in S
    BY <1>3, <2>1
  <2>4. V(i + 1) = V(i) \cup {v[i + 1]}
    <3>1. 1..(i + 1) = (1..i) \cup {i + 1}
      BY <2>1
    <3> QED
      BY <3>1
  <2>5. v[i + 1].day = 0 => \A f \in V(i) : f.day = 0
    <3> SUFFICES ASSUME v[i + 1].day = 0, NEW j \in 1..i PROVE v[j].day = 0
      OBVIOUS
    <3>1. j \in 1..n /\ j < i + 1
      BY <1>3, <2>1
    <3> QED
      BY <1>3, <2>1, <3>1
  <2>6. Selects(g[i], V(i)) /\ g[i + 1] = VisitNow(g[i], v[i + 1])
    BY <1>4, <1>6, <2>1
  <2> HIDE DEF V
  <2>7. Selects(g[i + 1], V(i + 1))
    BY <2>2, <2>3, <2>4, <2>5, <2>6, VisitSelects
  <2> QED
    BY <2>1, <2>7
<1>7. n \in T
  <2> HIDE DEF T
  <2>1. \A i \in 0..(n - 1) : i \in T => i + 1 \in T
    BY <1>6
  <2>2. \A i \in 0..n : i \in T
    BY <1>3, <1>5, <2>1, Visits!Climb
  <2> QED
    BY <1>3, <2>2
<1>8. V(n) = S
  BY <1>3
<1>9. Selects(sel, S)
  BY <1>4, <1>7, <1>8
<1> QED
  BY <1>2, <1>9 DEF Selects

(***************************************************************************)
(* The channel.                                                            *)
(***************************************************************************)
LEMMA ChannelInit == Init => ChannelInv
BY DEF Init, ChannelInv

LEMMA ChannelStep ==
  ASSUME ChannelInv, [Next]_vars
  PROVE  ChannelInv'
<1>1. CASE on_add_button \/ on_set_playmode
  BY <1>1 DEF ChannelInv, on_add_button, on_set_playmode
<1>2. CASE on_rewind_button \/ on_syncstart_button
  <2>1. /\ UNCHANGED <<playmode, running, mutex, thread, gui>>
        /\ position' = 0 /\ {playing', stopped'} \subseteq BOOLEAN
    BY <1>2 DEF ChannelInv, on_rewind_button, on_syncstart_button
  <2>2. position' \in {-1, 0}
    BY <2>1
  <2> QED
    BY <2>1, <2>2 DEF ChannelInv
<1>3. CASE on_play_button
  <2>1. UNCHANGED <<position, playmode, running, mutex, thread>>
    BY <1>3 DEF on_play_button
  <2>2. playing' \in BOOLEAN /\ stopped' \in BOOLEAN
    BY <1>3 DEF on_play_button
  <2>3. gui' \in {"idle", "saving", "launching", "crashed", "off"}
    BY <1>3 DEF on_play_button, ChannelInv
  <2> QED
    BY <2>1, <2>2, <2>3 DEF ChannelInv
<1>4. CASE on_play_button_down \/ Run \/ Launched
  <2>1. /\ UNCHANGED <<position, playmode>>
        /\ {playing', stopped', running', mutex'} \subseteq BOOLEAN
    BY <1>4 DEF ChannelInv, on_play_button_down, Run, Launched
  <2>2. /\ thread' \in {"none", "created", "over"}
        /\ gui' \in {"idle", "saving", "launching", "crashed", "off"}
    BY <1>4 DEF ChannelInv, on_play_button_down, Run, Launched
  <2>3. mutex' => running' \/ thread' = "created"
    <3>1. CASE on_play_button_down
      BY <3>1 DEF ChannelInv, on_play_button_down
    <3>2. CASE Run
      BY <3>2 DEF Run
    <3>3. CASE Launched
      BY <3>3 DEF Launched
    <3> QED
      BY <1>4, <3>1, <3>2, <3>3
  <2> QED
    BY <2>1, <2>2, <2>3 DEF ChannelInv
<1>5. CASE SaveFails \/ SaveBegins \/ SaveSome \/ SaveRest
  BY <1>5 DEF ChannelInv, SaveFails, SaveBegins, SaveSome, SaveRest, channel
<1>6. ASSUME NEW selected \in SUBSET (1..Len(rows)),
             on_delete_button(selected) \/ DND_data_get(selected)
      PROVE  ChannelInv'
  BY <1>6 DEF ChannelInv, on_delete_button, DND_data_get, channel
<1>7. ASSUME NEW row, DND_drop(row)
      PROVE  ChannelInv'
  <2>1. UNCHANGED <<position, playmode, playing, stopped, running, mutex, thread>>
    BY <1>7 DEF DND_drop
  <2>2. gui' \in {"crashed", gui}
    BY <1>7 DEF DND_drop
  <2> QED
    BY <2>1, <2>2 DEF ChannelInv
<1>8. CASE Quit \/ Kill
  BY <1>8 DEF ChannelInv, Quit, Kill, Gone
<1>9. CASE TimePasses \/ StartPlayer \/ \E name \in Names : PutFile(name)
  BY <1>9 DEF ChannelInv, TimePasses, StartPlayer, PutFile, channel
<1>10. CASE UNCHANGED vars
  BY <1>10 DEF ChannelInv, vars, channel
<1> QED
  BY <1>1, <1>2, <1>3, <1>4, <1>5, <1>6, <1>7, <1>8, <1>9, <1>10
     DEF Next, Handlers, on_save_button

(***************************************************************************)
(* The directory and the clock.                                            *)
(***************************************************************************)
LEMMA LeastOf ==
  ASSUME NEW T, T \subseteq Nat, T # {}
  PROVE  Min(T) \in T
<1>1. PICK t \in T : t \in Nat
  OBVIOUS
<1> DEFINE Least(x) == x \in T /\ \A y \in T : x <= y
           None == {i \in 0..(t + 1) : \A y \in T : y >= i}
<1>2. CASE \E x : Least(x)
  <2>1. \E x \in T : \A y \in T : x <= y
    BY <1>2
  <2> QED
    BY <2>1 DEF Min
<1>3. CASE ~\E x : Least(x)
  <2>1. 0 \in None
    BY <1>1
  <2>2. ASSUME NEW i \in 0..t, i \in None PROVE i + 1 \in None
    <3>1. \A y \in T : y \in Nat /\ y >= i
      BY <2>2
    <3>2. i \notin T
      BY <1>3, <3>1
    <3> QED
      BY <1>1, <2>2, <3>1, <3>2
  <2> HIDE DEF None
  <2>3. (t + 1) - 1 = t /\ t + 1 \in Nat
    BY <1>1
  <2>4. \A i \in 0..(t + 1) : i \in None
    BY <2>1, <2>2, <2>3, Visits!Climb
  <2>5. t >= t + 1
    BY <1>1, <2>3, <2>4 DEF None
  <2> QED
    BY <1>1, <2>5
<1> QED
  BY <1>2, <1>3

LEMMA TimesAre ==
  ASSUME now \in Times
  PROVE  now \in Nat
BY EditorAssumption

LEMMA DirInit == Init => DirInv
<1> SUFFICES ASSUME Init PROVE DirInv
  OBVIOUS
<1>1. DOMAIN dir = {}
  BY DEF Init
<1>2. now \in Times
  <2>1. Times \subseteq Nat /\ Times # {}
    BY EditorAssumption
  <2> QED
    BY <2>1, LeastOf DEF Init
<1> QED
  BY <1>1, <1>2, FS_EmptySet, EditorAssumption DEF Init, DirInv

LEMMA PutKeeps ==
  ASSUME DirInv, NEW name \in Names, NEW content, Put(name, content),
         UNCHANGED <<player, now>>
  PROVE  DirInv'
<1>1. DOMAIN dir' = DOMAIN dir \cup {name}
  BY DEF Put
<1>2. IsFiniteSet(DOMAIN dir')
  BY <1>1, FS_AddElement DEF DirInv
<1> QED
  BY <1>1, <1>2 DEF DirInv

LEMMA DirStep ==
  ASSUME DirInv, [Next]_vars
  PROVE  DirInv'
<1>1. ASSUME UNCHANGED <<dir, player>>, now' \in Times
      PROVE  DirInv'
  BY <1>1 DEF DirInv
<1>2. now \in Times /\ Default \in Names
  BY EditorAssumption DEF DirInv
<1>3. CASE SaveBegins \/ SaveSome \/ SaveRest
  <2>1. UNCHANGED <<player, now>> /\ \E content : Put(Default, content)
    BY <1>3 DEF SaveBegins, SaveSome, SaveRest
  <2> QED
    BY <1>2, <2>1, PutKeeps
<1>4. ASSUME NEW name \in Names, PutFile(name)
      PROVE  DirInv'
  <2>1. UNCHANGED <<player, now>> /\ \E content : Put(name, content)
    BY <1>4 DEF PutFile
  <2> QED
    BY <2>1, PutKeeps
<1>5. CASE StartPlayer
  <2> DEFINE name == ThePlaylist(DOMAIN dir, today, now)
  <2>1. name \in DOMAIN dir \cup {Default}
    <3>1. name = Default \/ name \in Due(DOMAIN dir)
      BY PlaylistIs, TimesAre DEF DirInv
    <3> QED
      BY <3>1 DEF Due
  <2>2. player'.name = name /\ UNCHANGED <<dir, now>>
    BY <1>5 DEF StartPlayer
  <2> HIDE DEF name
  <2> QED
    BY <1>2, <2>1, <2>2 DEF DirInv
<1>6. CASE TimePasses
  <2>1. UNCHANGED <<dir, player>> /\ now' \in Times
    BY <1>6 DEF TimePasses
  <2> QED
    BY <1>1, <2>1
<1>7. CASE \/ on_add_button \/ on_set_playmode \/ on_rewind_button
           \/ on_syncstart_button \/ on_play_button \/ on_play_button_down
           \/ SaveFails
  <2>1. UNCHANGED world
    BY <1>7 DEF on_add_button, on_set_playmode, on_rewind_button,
       on_syncstart_button, on_play_button, on_play_button_down, SaveFails, Press
  <2> QED
    BY <1>1, <1>2, <2>1 DEF world
<1>8. ASSUME NEW selected, on_delete_button(selected) \/ DND_data_get(selected)
      PROVE  DirInv'
  <2>1. UNCHANGED world
    BY <1>8 DEF on_delete_button, DND_data_get, Press
  <2> QED
    BY <1>1, <1>2, <2>1 DEF world
<1>9. ASSUME NEW row, DND_drop(row)
      PROVE  DirInv'
  <2>1. UNCHANGED world
    BY <1>9 DEF DND_drop, Press
  <2> QED
    BY <1>1, <1>2, <2>1 DEF world
<1>10. CASE Run \/ Launched \/ Quit \/ Kill \/ UNCHANGED vars
  <2>1. UNCHANGED world
    BY <1>10 DEF Run, Launched, Quit, Kill, Gone, vars
  <2> QED
    BY <1>1, <1>2, <2>1 DEF world
<1> QED
  BY <1>3, <1>4, <1>5, <1>6, <1>7, <1>8, <1>9, <1>10
     DEF Next, Handlers, on_save_button

(***************************************************************************)
(* The file of the list.                                                   *)
(***************************************************************************)
LEMMA FileInit == Init => FileInv
<1> SUFFICES ASSUME Init PROVE FileInv
  OBVIOUS
<1>1. DOMAIN dir = {} /\ gui = "idle" /\ saved = <<>>
  BY DEF Init
<1> QED
  BY <1>1 DEF FileInv

LEMMA Begins ==
  ASSUME NEW S, NEW q \in Seq(S), NEW k \in 0..Len(q)
  PROVE  /\ SubSeq(q, 1, k) \in Seq(S)
         /\ IsPrefix(SubSeq(q, 1, k), q)
<1> DEFINE t == SubSeq(q, 1, k)
<1>1. t \in Seq(S) /\ Len(t) = k /\ k \in Nat /\ k <= Len(q)
  OBVIOUS
<1>2. \A i \in 1..k : t[i] = q[i]
  OBVIOUS
<1> HIDE DEF t
<1>3. SubSeq(t, 1, k) = SubSeq(q, 1, k)
  <2>1. SubSeq(t, 1, k) = [i \in 1..k |-> t[i]]
    BY <1>1
  <2>2. SubSeq(q, 1, k) = [i \in 1..k |-> q[i]]
    BY <1>1
  <2> QED
    BY <1>2, <2>1, <2>2
<1>4. IsPrefix(t, q)
  BY <1>1, <1>3 DEF IsPrefix
<1> QED
  BY <1>1, <1>4 DEF t

LEMMA FileStep ==
  ASSUME ListInv, ChannelInv, FileInv, [Next]_vars
  PROVE  FileInv'
<1>1. playlist \in Seq(Movies) /\ Len(playlist) \in Nat
  BY DEF ListInv, Lists
<1>2. ASSUME UNCHANGED <<dir, saved>>, gui' = "saving" => gui = "saving",
             gui' = "saving" => UNCHANGED playlist,
             gui' \in {"idle", "launching"} => gui \in {"idle", "launching"}
      PROVE  FileInv'
  BY <1>2 DEF FileInv
<1>3. CASE SaveBegins
  <2>1. Put(Default, [lines |-> <<>>, cut |-> FALSE])
    BY <1>3 DEF SaveBegins
  <2>2. Default \in DOMAIN dir' /\ dir'[Default].lines = <<>>
    BY <2>1 DEF Put
  <2>3. gui' = "saving" /\ saved' = playlist /\ playlist' = playlist
    BY <1>3 DEF SaveBegins, channel
  <2>4. <<>> \in Seq(Movies) /\ IsPrefix(<<>>, playlist)
    <3>1. SubSeq(playlist, 1, 0) = <<>>
      BY <1>1
    <3>2. 0 \in 0..Len(playlist)
      BY <1>1
    <3> QED
      BY <1>1, <3>1, <3>2, Begins
  <2> QED
    BY <1>1, <2>2, <2>3, <2>4 DEF FileInv
<1>4. CASE SaveSome
  <2>1. PICK k \in Len(dir[Default].lines)..(Len(playlist) - 1), cut \in BOOLEAN :
          Put(Default, [lines |-> SubSeq(playlist, 1, k), cut |-> cut])
    BY <1>4 DEF SaveSome
  <2>2. Default \in DOMAIN dir' /\ dir'[Default].lines = SubSeq(playlist, 1, k)
    BY <2>1 DEF Put
  <2>3. gui = "saving" /\ UNCHANGED <<gui, saved, playlist>>
    BY <1>4 DEF SaveSome, channel
  <2>4. k \in 0..Len(playlist)
    <3>1. dir[Default].lines \in Seq(Movies)
      BY <2>3 DEF FileInv
    <3>2. Len(dir[Default].lines) \in Nat
      BY <3>1
    <3> QED
      BY <1>1, <2>1, <3>2
  <2>5. /\ SubSeq(playlist, 1, k) \in Seq(Movies)
        /\ IsPrefix(SubSeq(playlist, 1, k), playlist)
    BY <1>1, <2>4, Begins
  <2>6. saved = playlist /\ saved \in Seq(Movies)
    BY <2>3 DEF FileInv
  <2>7. gui' = "saving" /\ gui' \notin {"idle", "launching"}
    BY <2>3
  <2> QED
    BY <2>2, <2>3, <2>5, <2>6, <2>7 DEF FileInv
<1>5. CASE SaveRest
  <2>1. Put(Default, [lines |-> playlist, cut |-> FALSE])
    BY <1>5 DEF SaveRest
  <2>2. Default \in DOMAIN dir' /\ dir'[Default].lines = playlist
    BY <2>1 DEF Put
  <2>3. gui = "saving" /\ gui' = "idle" /\ UNCHANGED saved
    BY <1>5 DEF SaveRest
  <2>4. saved = playlist
    BY <2>3 DEF FileInv
  <2>5. IsPrefix(playlist, playlist)
    BY <1>1 DEF IsPrefix
  <2> QED
    BY <1>1, <2>2, <2>3, <2>4, <2>5 DEF FileInv
<1>6. ASSUME NEW name \in Names, PutFile(name)
      PROVE  FileInv'
  <2>1. name # Default /\ gui = "off" /\ UNCHANGED <<gui, saved>>
    BY <1>6 DEF PutFile
  <2>2. \E content : Put(name, content)
    BY <1>6 DEF PutFile
  <2>3. /\ Default \in DOMAIN dir' <=> Default \in DOMAIN dir
        /\ Default \in DOMAIN dir => dir'[Default] = dir[Default]
    BY <2>1, <2>2 DEF Put
  <2> QED
    BY <2>1, <2>3 DEF FileInv
<1>7. CASE \/ on_add_button \/ on_set_playmode \/ on_rewind_button
           \/ on_syncstart_button \/ SaveFails
  <2>1. gui = "idle" /\ UNCHANGED <<gui, dir, saved>>
    BY <1>7 DEF on_add_button, on_set_playmode, on_rewind_button,
       on_syncstart_button, SaveFails, Press, world
  <2> QED
    BY <1>2, <2>1
<1>8. ASSUME NEW selected, on_delete_button(selected) \/ DND_data_get(selected)
      PROVE  FileInv'
  <2>1. gui = "idle" /\ UNCHANGED <<gui, dir, saved>>
    BY <1>8 DEF on_delete_button, DND_data_get, Press, world
  <2> QED
    BY <1>2, <2>1
<1>9. ASSUME NEW row, DND_drop(row)
      PROVE  FileInv'
  <2>1. gui = "idle" /\ gui' \in {"crashed", "idle"} /\ UNCHANGED <<dir, saved>>
    BY <1>9 DEF DND_drop, Press, world
  <2> QED
    BY <1>2, <2>1
<1>10. CASE on_play_button \/ Launched
  <2>1. /\ gui \in {"launching", "idle"} /\ gui' \in {"launching", "idle"}
        /\ UNCHANGED <<dir, saved>>
    BY <1>10 DEF on_play_button, Launched, Press, world
  <2> QED
    BY <1>2, <2>1
<1>11. CASE on_play_button_down
  <2>1. UNCHANGED <<playlist, gui, dir, saved>>
    BY <1>11 DEF on_play_button_down, Press, world
  <2> QED
    BY <1>2, <2>1
<1>12. CASE Quit \/ Kill
  <2>1. gui' = "off" /\ UNCHANGED <<dir, saved>>
    BY <1>12 DEF Quit, Kill, Gone, world
  <2> QED
    BY <1>2, <2>1
<1>13. CASE Run \/ TimePasses \/ StartPlayer \/ UNCHANGED vars
  <2>1. UNCHANGED <<playlist, gui, dir, saved>>
    BY <1>13 DEF Run, TimePasses, StartPlayer, vars, channel, world
  <2> QED
    BY <1>2, <2>1
<1> QED
  BY <1>3, <1>4, <1>5, <1>6, <1>7, <1>8, <1>9, <1>10, <1>11, <1>12, <1>13
     DEF Next, Handlers, on_save_button

\* Chomped one by one, the beginning of a list is the beginning of it chomped.
LEMMA ChompBegins ==
  ASSUME NEW S, NEW p \in Seq(S), NEW q \in Seq(S), IsPrefix(p, q)
  PROVE  IsPrefix(ChompEach(p), ChompEach(q))
<1> DEFINE a == ChompEach(p)
           b == ChompEach(q)
<1>1. /\ Len(p) \in Nat /\ Len(q) \in Nat /\ Len(p) <= Len(q)
      /\ p = SubSeq(q, 1, Len(p))
  BY DEF IsPrefix
<1>2. \A i \in 1..Len(p) : p[i] = q[i]
  BY <1>1
<1>3. /\ Len(a) = Len(p) /\ a = [i \in 1..Len(p) |-> Chomped[p[i]]]
      /\ Len(b) = Len(q) /\ b = [i \in 1..Len(q) |-> Chomped[q[i]]]
  BY <1>1 DEF ChompEach
<1>4. \A i \in 1..Len(p) : a[i] = b[i]
  BY <1>1, <1>2, <1>3
<1> HIDE DEF a, b
<1>5. SubSeq(a, 1, Len(p)) = a /\ SubSeq(b, 1, Len(p)) = a
  <2>1. SubSeq(a, 1, Len(p)) = [i \in 1..Len(p) |-> a[i]]
    BY <1>1, <1>3
  <2>2. SubSeq(b, 1, Len(p)) = [i \in 1..Len(p) |-> b[i]]
    BY <1>1, <1>3
  <2>3. a = [i \in 1..Len(p) |-> a[i]]
    BY <1>3
  <2> QED
    BY <1>4, <2>1, <2>2, <2>3
<1> QED
  BY <1>1, <1>3, <1>5 DEF IsPrefix, a, b

(***************************************************************************)
(* The editor.                                                             *)
(***************************************************************************)
IInv == ListInv /\ ChannelInv /\ DirInv /\ FileInv

\* The four parts are kept together.
THEOREM EditorInvariant == Spec => []IInv
<1>1. Init => IInv
  BY ListInit, ChannelInit, DirInit, FileInit DEF IInv
<1>2. IInv /\ [Next]_vars => IInv'
  BY ListStep, ChannelStep, DirStep, FileStep DEF IInv
<1> QED
  BY <1>1, <1>2, PTL DEF Spec

\* What the rows, the list, the clock and the directory hold is of its type,
\* and the rows name the entries of the list (gui.cpp:60-97).
THEOREM EditorTypesCorrect == Spec => []TypeOK
<1>1. IInv => TypeOK
  <2> SUFFICES ASSUME IInv PROVE TypeOK
    OBVIOUS
  <2>1. playlist \in Seq(Movies) /\ draglist \in Seq(0..(MaxLength - 1))
    BY DEF IInv, ListInv, Lists
  <2>2. ToSet(playlist) \subseteq UNION {ToSet(s) : s \in Chooser \cup {Given}}
    BY <2>1 DEF Movies, ToSet
  <2>3. ToSet(draglist) \subseteq 0..(MaxLength - 1)
    <3> DEFINE N == 0..(MaxLength - 1)
    <3>1. draglist \in Seq(N)
      BY <2>1
    <3> HIDE DEF N
    <3>2. ToSet(draglist) \subseteq N
      BY <3>1 DEF ToSet
    <3> QED
      BY <3>2 DEF N
  <2>4. [i \in DOMAIN rows |-> rows[i].name] = playlist
    <3>1. position \in Int /\ rows = Shown(playlist, position)
      BY DEF IInv, ListInv, ChannelInv
    <3>2. DOMAIN rows = 1..Len(playlist)
          /\ \A i \in 1..Len(playlist) : rows[i].name = playlist[i]
      BY <2>1, <3>1, ShownIs
    <3>3. playlist = [i \in 1..Len(playlist) |-> playlist[i]]
      BY <2>1
    <3> QED
      BY <3>2, <3>3
  <2> QED
    BY <2>2, <2>3, <2>4 DEF IInv, ChannelInv, DirInv, TypeOK
<1> QED
  BY <1>1, EditorInvariant, PTL

\* However far the writing of a list has come, and wherever the editor was
\* killed, a player reads the beginning of it, each name without the blanks at
\* its ends, and all of it when it is written; a save that could not open the
\* file leaves the earlier one (gui.cpp:71-74, decoder.cpp:651-662, 675-705,
\* utils.cpp:110-129).
THEOREM SavedCorrect == Spec => []SavedComesBack
<1>1. IInv => SavedComesBack
  <2> SUFFICES ASSUME IInv, Default \in DOMAIN dir
               PROVE  /\ IsPrefix(Read(dir[Default]), ChompEach(saved))
                      /\ gui = "idle" => Read(dir[Default]) = ChompEach(saved)
    BY DEF SavedComesBack
  <2>1. /\ saved \in Seq(Movies) /\ dir[Default].lines \in Seq(Movies)
        /\ IsPrefix(dir[Default].lines, saved)
        /\ gui = "idle" => dir[Default].lines = saved
    BY DEF IInv, FileInv
  <2>2. IsPrefix(ChompEach(dir[Default].lines), ChompEach(saved))
    BY <2>1, ChompBegins
  <2> QED
    BY <2>1, <2>2 DEF Read
<1> QED
  BY <1>1, EditorInvariant, PTL

\* Whatever names are in the directory, the loop over them leaves the latest
\* that is due, or the saved playlist (decoder.cpp:587-641).
THEOREM ScheduleCorrect == Spec => []LatestDue
<1>1. IInv => LatestDue
  <2> SUFFICES ASSUME IInv PROVE LatestDue
    OBVIOUS
  <2> DEFINE S == DOMAIN dir
             chosen == ThePlaylist(S, today, now)
  <2>1. /\ Due(S) = {} => chosen = Default
        /\ Due(S) # {} => chosen \in Due(S) /\ \A f \in Due(S) : f.at <= chosen.at
    BY PlaylistIs, TimesAre DEF IInv, DirInv
  <2>2. Due(S) = {f \in S : f.day # 0 /\ f.video = device_num /\ f.at \in 1..now}
    BY DEF Due
  <2> HIDE DEF chosen
  <2>3. IF Due(S) = {} THEN chosen = Default
        ELSE chosen \in Due(S) /\ \A f \in Due(S) : f.at <= chosen.at
    BY <2>1
  <2> QED
    BY <2>2, <2>3 DEF LatestDue, chosen
<1> QED
  BY <1>1, EditorInvariant, PTL

\* Delete takes the entries of the rows above those that are selected and no
\* other, for any list and any selection (gui.cpp:116-165).
THEOREM DeletesCorrect == Spec => DeletesTheRowsAbove
<1> DEFINE Places(selected) == {i \in DOMAIN playlist : i + 1 \notin selected}
           A == \A selected \in SUBSET (1..Len(rows)) :
                  on_delete_button(selected) =>
                    playlist' = AtPlaces(playlist, Places(selected))
<1>1. IInv => [A]_vars
  <2> SUFFICES ASSUME IInv, NEW selected \in SUBSET (1..Len(rows)),
                      on_delete_button(selected)
               PROVE  playlist' = AtPlaces(playlist, Places(selected))
    OBVIOUS
  <2>1. ListInv /\ position \in {-1, 0}
    BY DEF IInv, ChannelInv
  <2>2. playlist' = DeleteAll(Numbers(selected))
    BY DEF on_delete_button
  <2> QED
    BY <2>1, <2>2, DeleteAllIs
<1>2. [][A]_vars => DeletesTheRowsAbove
  BY DEF DeletesTheRowsAbove
<1> HIDE DEF A
<1> QED
  BY <1>1, <1>2, EditorInvariant, PTL

\* A drop of rows that are there keeps the length of the list, and one row
\* that is dropped costs the entry at its number and copies the one before to
\* where it is dropped, for any list, row and place (gui.cpp:217-268).
THEOREM DropCorrect == Spec => DropCopiesTheEntryAbove
<1> DEFINE At(row) == IF row + 1 < Len(playlist) THEN row ELSE Len(playlist)
           Copies(row) ==
             IF row \in {0, draglist[1] - 1} THEN playlist' = playlist
             ELSE /\ playlist'[At(row)] = playlist[draglist[1] - 1]
                  /\ RemoveAt(playlist', At(row))
                       = RemoveAt(playlist, draglist[1])
           Does(row) == /\ Len(playlist') = Len(playlist)
                        /\ Len(draglist) = 1 => Copies(row)
           A == \A row \in 0..MaxLength :
                  DND_drop(row) /\ gui' # "crashed" /\ ToSet(draglist) \subseteq Numbered
                    => Does(row)
<1>1. IInv => [A]_vars
  <2> SUFFICES ASSUME IInv, NEW row \in 0..MaxLength, DND_drop(row),
                      gui' # "crashed", ToSet(draglist) \subseteq Numbered
               PROVE  Does(row)
    OBVIOUS
  <2> DEFINE st == [list |-> playlist, row |-> row, crashed |-> FALSE]
             s == Dropped(st, draglist)
  <2>1. /\ playlist \in Lists(Movies, MaxLength) /\ playlist \in Seq(Movies)
        /\ Len(playlist) \in Nat
        /\ draglist \in Seq(0..(MaxLength - 1)) /\ Len(draglist) \in Nat
        /\ rows = Shown(playlist, position) /\ position \in Int
        /\ MaxLength \in Nat /\ row \in Nat
    BY EditorAssumption DEF IInv, ListInv, ChannelInv, Lists
  <2>2. playlist' = s.list /\ ~s.crashed
    BY DEF DND_drop, Dropped
  <2>3. \A i \in 1..Len(draglist) : draglist[i] < Len(playlist)
    <3>1. \A r \in ToSet(rows) : r.number \in 0..(Len(playlist) - 1)
      <4> DEFINE L == Len(playlist)
      <4>1. DOMAIN rows = 1..L /\ \A i \in 1..L : rows[i].number = i - 1
        BY <2>1, ShownIs
      <4>2. \A r \in ToSet(rows) : \E i \in 1..L : r = rows[i]
        BY <4>1 DEF ToSet
      <4> HIDE DEF L
      <4>3. ASSUME NEW r \in ToSet(rows)
            PROVE  r.number \in 0..(L - 1)
        <5>1. PICK i \in 1..L : r = rows[i]
          BY <4>2
        <5>2. r.number = i - 1 /\ L \in Nat
          BY <2>1, <4>1, <5>1 DEF L
        <5> QED
          BY <5>2
      <4> QED
        BY <4>3 DEF L
    <3>2. ASSUME NEW i \in 1..Len(draglist)
          PROVE  draglist[i] < Len(playlist)
      <4>1. draglist[i] \in ToSet(draglist)
        BY <2>1 DEF ToSet
      <4>2. draglist[i] \in Numbered
        BY <4>1
      <4>3. draglist[i] \in 0..(Len(playlist) - 1)
        BY <3>1, <4>2 DEF Numbered
      <4> QED
        BY <2>1, <4>3
    <3> QED
      BY <3>2
  <2>4. st \in Moving(Movies, MaxLength) /\ st.list = playlist
    BY <2>1 DEF Moving
  <2>5. /\ Len(s.list) = Len(playlist)
        /\ Len(draglist) = 1 => s = MoveOne(st, draglist[1])
    <3> HIDE DEF st
    <3>1. AllThere(draglist, st.list)
      BY <2>3, <2>4 DEF AllThere
    <3>2. /\ Len(s.list) = Len(st.list)
          /\ Len(draglist) = 1 => s = MoveOne(st, draglist[1])
      BY <2>1, <2>4, <3>1, DroppedIs
    <3> HIDE DEF s
    <3> QED
      BY <2>4, <3>2
  <2> HIDE DEF s
  <2>6. ASSUME Len(draglist) = 1
        PROVE  Copies(row)
    <3> DEFINE number == draglist[1]
    <3>1. number < Len(playlist)
      BY <2>3, <2>6
    <3>2. number \in Nat
      <4> DEFINE N == 0..(MaxLength - 1)
      <4>1. draglist \in Seq(N) /\ N \subseteq Nat
        BY <2>1
      <4>2. 1 \in 1..Len(draglist)
        BY <2>6
      <4> HIDE DEF N
      <4>3. draglist[1] \in N
        BY <4>1, <4>2
      <4> QED
        BY <4>1, <4>3
    <3>3. s = MoveOne(st, number)
      BY <2>5, <2>6
    <3>4. ~MoveOne(st, number).crashed
      BY <2>2, <3>3
    <3> HIDE DEF number
    <3>5. CASE row = 0
      <4>1. MoveOne(st, number) = st
        BY <3>5 DEF MoveOne
      <4> QED
        BY <2>2, <2>4, <3>3, <3>5, <4>1
    <3>6. CASE row # 0
      <4> DEFINE l == MoveOne(st, number).list
      <4>1. IF row = number - 1 THEN l = playlist
            ELSE /\ l[LandsAt(playlist, row)] = playlist[number - 1]
                 /\ RemoveAt(l, LandsAt(playlist, row)) = RemoveAt(playlist, number)
        BY <2>1, <3>1, <3>2, <3>4, <3>6, MoveOneCopiesAbove
      <4>2. playlist' = l
        BY <2>2, <3>3
      <4> HIDE DEF l, st
      <4> QED
        BY <3>6, <4>1, <4>2 DEF LandsAt, number
    <3> QED
      BY <3>5, <3>6
  <2> QED
    BY <2>2, <2>5, <2>6
<1>2. [][A]_vars => DropCopiesTheEntryAbove
  BY DEF DropCopiesTheEntryAbove
<1> HIDE DEF A
<1> QED
  BY <1>1, <1>2, EditorInvariant, PTL

\* The press of play that hangs comes before the thread of an earlier one has
\* begun, in any sequence of what the user and the thread do (gui.cpp:102,
\* thread.cpp:30).
THEOREM HangCorrect == Spec => HangsOnlyBeforeTheThread
<1> DEFINE A == on_play_button /\ mutex /\ gui' = "launching" => thread = "created"
<1>1. IInv => [A]_vars
  <2> SUFFICES ASSUME IInv, on_play_button, mutex, gui' = "launching"
               PROVE  thread = "created"
    OBVIOUS
  <2>1. gui = "idle" /\ gui' = IF running THEN gui ELSE "launching"
    BY DEF on_play_button, Press
  <2>2. ~running
    BY <2>1
  <2> QED
    BY <2>2 DEF IInv, ChannelInv
<1>2. [][A]_vars => HangsOnlyBeforeTheThread
  BY DEF HangsOnlyBeforeTheThread
<1> HIDE DEF A
<1> QED
  BY <1>1, <1>2, EditorInvariant, PTL
=============================================================================
