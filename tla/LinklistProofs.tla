--------------------------- MODULE LinklistProofs ---------------------------
(***************************************************************************)
(* The pointers of linklist.cpp always make lists, and what the operations *)
(* do to them is what EntryLists promises, for any entries and lists.      *)
(*                                                                         *)
(* The walk from the first entry says little about what an operation does  *)
(* in the middle of it.  The proof names the sequence a list stands for    *)
(* instead: Chain(h, l, q) ties each pointer of l to a place of q.         *)
(***************************************************************************)
EXTENDS Linklist, FiniteSetTheorems, WellFoundedInduction, TLAPS

\* What is at a place of a sequence: beyond its ends, nothing.
At(q, i) == IF i \in 1..Len(q) THEN q[i] ELSE NULL

\* The list l of heap h is the sequence q.
Chain(h, l, q) ==
  /\ q \in Seq(Entries)
  /\ \A i, j \in 1..Len(q) : q[i] = q[j] => i = j
  /\ h.first[l] = At(q, 1)
  /\ h.last[l] = At(q, Len(q))
  /\ h.length[l] = Len(q)
  /\ \A i \in 1..Len(q) : /\ h.next[q[i]] = At(q, i + 1)
                          /\ h.prev[q[i]] = At(q, i - 1)
                          /\ h.list[q[i]] = l
  /\ \A e \in Entries : h.list[e] = l => \E i \in 1..Len(q) : q[i] = e

LEMMA LeastOf ==
  ASSUME NEW T, T \subseteq Nat, T # {}
  PROVE  \E x \in T : \A y \in T : x <= y
<1> DEFINE R == OpToRel(<, Nat)
<1>1. \A x, y \in Nat : <<y, x>> \in R <=> y < x
  BY DEF OpToRel
<1>2. IsWellFoundedOn(R, Nat)
  BY NatLessThanWellFounded
<1> HIDE DEF R
<1>3. \E x \in T : \A y \in T : <<y, x>> \notin R
  BY <1>2, WFMin
<1>4. PICK x \in T : \A y \in T : <<y, x>> \notin R
  BY <1>3
<1>5. x \in Nat /\ \A y \in T : y \in Nat
  BY <1>4
<1>6. \A y \in T : ~(y < x)
  BY <1>1, <1>4, <1>5
<1> QED
  BY <1>4, <1>5, <1>6

LEMMA PlaceBefore ==
  ASSUME NEW n \in Nat, NEW i \in 1..n, i # 1
  PROVE  i - 1 \in 1..n
OBVIOUS

LEMMA EntriesFinite ==
  /\ IsFiniteSet(Entries) /\ Cardinality(Entries) \in Nat
  /\ NULL \notin Entries /\ NULL \notin Lists /\ MaxPos \in Nat
BY LinklistAssumption, FS_CardinalityType

\* A list is no longer than there are entries.
LEMMA ChainFits ==
  ASSUME NEW h, NEW l, NEW q, Chain(h, l, q)
  PROVE  Len(q) \in Nat /\ Len(q) <= Cardinality(Entries)
<1>1. q \in Seq(Entries) /\ Len(q) \in Nat /\ q \in [1..Len(q) -> Entries]
  BY DEF Chain
<1>2. IsFiniteSet(1..Len(q)) /\ Cardinality(1..Len(q)) = Len(q)
  BY <1>1, FS_Interval
<1>3. q \in Injection(1..Len(q), Entries)
  BY <1>1 DEF Chain, Injection, IsInjective
<1>4. Cardinality(1..Len(q)) <= Cardinality(Entries)
  BY <1>2, <1>3, EntriesFinite, FS_Injection
<1> QED
  BY <1>1, <1>2, <1>4

LEMMA ChainFacts ==
  ASSUME NEW h, NEW l, NEW q, Chain(h, l, q)
  PROVE  /\ q \in Seq(Entries) /\ Len(q) \in Nat
         /\ \A i \in 1..Len(q) : q[i] \in Entries
         /\ h.first[l] = At(q, 1) /\ h.last[l] = At(q, Len(q))
         /\ h.length[l] = Len(q)
BY DEF Chain

\* The walk goes through the sequence, and stays at NULL.
LEMMA WalkIs ==
  ASSUME NEW h, NEW l, NEW q, Chain(h, l, q)
  PROVE  Walk(h, l) = [i \in 1..(Cardinality(Entries) + 1) |-> At(q, i)]
<1> DEFINE N == Cardinality(Entries) + 1
           Steps(at) == [i \in 1..N |->
                           IF i = 1 THEN h.first[l]
                           ELSE IF at[i - 1] = NULL THEN NULL
                           ELSE h.next[at[i - 1]]]
           w == [i \in 1..N |-> At(q, i)]
<1>1. N \in Nat /\ Len(q) \in Nat /\ NULL \notin Entries
      /\ \A i \in 1..Len(q) : q[i] \in Entries
  BY EntriesFinite DEF Chain
<1>2. ASSUME NEW i \in 1..N, i # 1
      PROVE  IF At(q, i - 1) = NULL THEN At(q, i) = NULL
             ELSE h.next[At(q, i - 1)] = At(q, i)
  BY <1>1, <1>2, SMTT(20) DEF Chain, At
<1>3. w = Steps(w)
  <2> SUFFICES ASSUME NEW i \in 1..N PROVE w[i] = Steps(w)[i]
    BY ZenonT(40)
  <2>1. i # 1 => i - 1 \in 1..N
    BY <1>1, PlaceBefore
  <2> QED
    BY <1>1, <1>2, <2>1 DEF Chain
<1>4. Walk(h, l) = Steps(Walk(h, l))
  BY <1>3 DEF Walk
<1> HIDE DEF w, N
<1>5. ASSUME NEW i \in 1..N, Walk(h, l)[i] # w[i] PROVE FALSE
  <2> DEFINE Bad == {j \in 1..N : Walk(h, l)[j] # w[j]}
  <2>2. PICK j \in Bad : \A k \in Bad : j <= k
    <3>1. Bad \subseteq Nat /\ Bad # {}
      BY <1>1, <1>5
    <3> HIDE DEF Bad
    <3> QED
      BY <3>1, LeastOf
  <2>3. j \in 1..N /\ Walk(h, l)[j] # w[j]
    BY <2>2
  <2>4. j # 1 => j - 1 \in 1..N /\ Walk(h, l)[j - 1] = w[j - 1]
    BY <1>1, <2>2, <2>3
  <2>5. Walk(h, l)[j] = Steps(Walk(h, l))[j] /\ w[j] = Steps(w)[j]
    BY <1>3, <1>4
  <2> QED
    BY <2>3, <2>4, <2>5
<1>6. Walk(h, l) = [i \in 1..N |-> Walk(h, l)[i]]
  BY <1>4
<1> QED
  BY <1>5, <1>6 DEF w, N

\* Order reads the sequence back.
LEMMA ListedIs ==
  ASSUME NEW h, NEW l, NEW q, Chain(h, l, q)
  PROVE  Listed(h, l) = q
<1> DEFINE C == Cardinality(Entries)
           at == Walk(h, l)
           ends == {i \in DOMAIN at : at[i] = NULL}
<1>1. C \in Nat /\ Len(q) \in Nat /\ Len(q) <= C /\ NULL \notin Entries
      /\ q \in Seq(Entries) /\ \A i \in 1..Len(q) : q[i] \in Entries
  BY EntriesFinite, ChainFits, ChainFacts
<1>2. at = [i \in 1..(C + 1) |-> At(q, i)]
  BY WalkIs
<1> HIDE DEF C, at
<1>3. ends = (Len(q) + 1)..(C + 1)
  BY <1>1, <1>2 DEF At
<1>4. Min(ends \cup {C + 2}) = Len(q) + 1
  <2> DEFINE S == ends \cup {C + 2}
  <2>1. Len(q) + 1 \in S /\ \A y \in S : Len(q) + 1 <= y /\ y \in Int
    BY <1>1, <1>3
  <2> HIDE DEF S, ends
  <2>2. \A x \in S : (\A y \in S : x <= y) => x = Len(q) + 1
    BY <1>1, <2>1
  <2>3. Min(S) = CHOOSE x \in S : \A y \in S : x <= y
    BY DEF Min
  <2>4. Min(S) \in S /\ \A y \in S : Min(S) <= y
    BY <2>1, <2>3
  <2>5. Min(S) = Len(q) + 1
    BY <2>2, <2>4
  <2> QED
    BY <2>5 DEF S
<1>5. SubSeq(at, 1, Len(q)) = q
  BY <1>1, <1>2 DEF At
<1>6. Min(ends \cup {C + 2}) - 1 = Len(q)
  BY <1>1, <1>4
<1> HIDE DEF ends
<1>7. SubSeq(at, 1, Min(ends \cup {C + 2}) - 1) = q
  BY <1>5, <1>6
<1> QED
  BY <1>7 DEF Listed, C, at, ends

\* pick() finds what is at the position.
LEMMA PickIs ==
  ASSUME NEW h, NEW l, NEW q, Chain(h, l, q), NEW pos \in Nat
  PROVE  Pick(h, l, pos) = At(q, pos)
<1>1. h.length[l] = Len(q) /\ h.last[l] = At(q, Len(q)) /\ Len(q) \in Nat
      /\ Len(q) <= Cardinality(Entries) /\ Cardinality(Entries) \in Nat
  BY EntriesFinite, ChainFits, ChainFacts
<1>2. pos \in 1..Len(q) => Walk(h, l)[pos] = At(q, pos)
  BY <1>1, WalkIs
<1> QED
  BY <1>1, <1>2 DEF Pick, At

(***************************************************************************)
(* Sequences with an entry more, an entry less, and two entries swapped.   *)
(***************************************************************************)
LEMMA InsertedIs ==
  ASSUME NEW q \in Seq(Entries), NEW a \in Entries, NEW k \in 1..(Len(q) + 1)
  PROVE  LET t == InsertAt(q, k, a) IN
         /\ t \in Seq(Entries) /\ Len(t) = Len(q) + 1
         /\ \A i \in Int : At(t, i) = IF i < k THEN At(q, i)
                                     ELSE IF i = k THEN a ELSE At(q, i - 1)
<1> DEFINE t == InsertAt(q, k, a)
<1>1. /\ t \in Seq(Entries) /\ Len(t) = Len(q) + 1 /\ Len(q) \in Nat
      /\ \A i \in 1..(Len(q) + 1) : t[i] = IF i < k THEN q[i]
                                          ELSE IF i = k THEN a ELSE q[i - 1]
  <2> DEFINE u == SubSeq(q, 1, k - 1)
             v == SubSeq(q, k, Len(q))
  <2>1. Len(q) \in Nat /\ k \in 1..(Len(q) + 1) /\ k \in k..(Len(q) + 1)
        /\ Len(q) + 1 \in k..(Len(q) + 1) /\ 1 \in 1..(Len(q) + 1)
        /\ (Len(q) + 1) - 1 = Len(q)
    OBVIOUS
  <2>2. /\ u \in Seq(Entries) /\ Len(u) = k - 1
        /\ \A i \in 1..(k - 1) : u[i] = q[i]
    BY <2>1
  <2>3. /\ v \in Seq(Entries) /\ Len(v) = Len(q) + 1 - k
        /\ \A i \in 1..(Len(q) + 1 - k) : v[i] = q[i + k - 1]
    BY <2>1
  <2> HIDE DEF u, v
  <2>4. /\ u \o <<a>> \in Seq(Entries) /\ Len(u \o <<a>>) = k
        /\ \A i \in 1..k : (u \o <<a>>)[i] = IF i < k THEN q[i] ELSE a
    BY <2>1, <2>2
  <2> DEFINE w == u \o <<a>>
  <2> HIDE DEF w
  <2>5. /\ w \o v \in Seq(Entries) /\ Len(w \o v) = Len(q) + 1
        /\ \A i \in 1..(Len(q) + 1) : (w \o v)[i] = IF i <= k THEN w[i] ELSE v[i - k]
    BY <2>1, <2>3, <2>4 DEF w
  <2>6. t = w \o v
    BY DEF InsertAt, u, v, w
  <2> QED
    BY <2>1, <2>3, <2>4, <2>5, <2>6 DEF w
<1> HIDE DEF t
<1>2. \A i \in Int : At(t, i) = IF i < k THEN At(q, i)
                                ELSE IF i = k THEN a ELSE At(q, i - 1)
  BY <1>1 DEF At
<1> QED
  BY <1>1, <1>2 DEF t

LEMMA RemovedIs ==
  ASSUME NEW q \in Seq(Entries), NEW k \in 1..Len(q)
  PROVE  LET t == RemoveAt(q, k) IN
         /\ t \in Seq(Entries) /\ Len(t) = Len(q) - 1
         /\ \A i \in Int : At(t, i) = IF i < k THEN At(q, i) ELSE At(q, i + 1)
<1> DEFINE t == RemoveAt(q, k)
<1>1. /\ t \in Seq(Entries) /\ Len(t) = Len(q) - 1 /\ Len(q) \in Nat
      /\ \A i \in 1..(Len(q) - 1) : t[i] = IF i < k THEN q[i] ELSE q[i + 1]
  <2> DEFINE u == SubSeq(q, 1, k - 1)
             v == SubSeq(q, k + 1, Len(q))
  <2>1. Len(q) \in Nat /\ k \in 1..Len(q)
    OBVIOUS
  <2>2. /\ u \in Seq(Entries) /\ Len(u) = k - 1
        /\ \A i \in 1..(k - 1) : u[i] = q[i]
    BY <2>1
  <2>3. /\ v \in Seq(Entries) /\ Len(v) = Len(q) - k
        /\ \A i \in 1..(Len(q) - k) : v[i] = q[i + k]
    BY <2>1
  <2> HIDE DEF u, v
  <2>4. /\ u \o v \in Seq(Entries) /\ Len(u \o v) = Len(u) + Len(v)
        /\ \A i \in 1..(Len(u) + Len(v)) :
             (u \o v)[i] = IF i <= Len(u) THEN u[i] ELSE v[i - Len(u)]
    <3>1. u \in Seq(Entries) /\ v \in Seq(Entries)
      BY <2>2, <2>3
    <3> QED
      BY ONLY <3>1
  <2>5. t = u \o v
    BY DEF RemoveAt, u, v
  <2>6. /\ t \in Seq(Entries) /\ Len(t) = Len(q) - 1
        /\ \A i \in 1..(Len(q) - 1) :
             t[i] = IF i <= k - 1 THEN u[i] ELSE v[i - (k - 1)]
    <3>1. Len(u) = k - 1 /\ Len(u) + Len(v) = Len(q) - 1
      BY <2>1, <2>2, <2>3
    <3> QED
      BY <2>4, <2>5, <3>1
  <2>7. \A i \in 1..(Len(q) - 1) : i > k - 1 =>
           v[i - (k - 1)] = q[i + 1]
    <3> SUFFICES ASSUME NEW i \in 1..(Len(q) - 1), i > k - 1
                 PROVE  v[i - (k - 1)] = q[i + 1]
      OBVIOUS
    <3>1. i - (k - 1) \in 1..(Len(q) - k) /\ (i - (k - 1)) + k = i + 1
      BY <2>1
    <3> QED
      BY <2>3, <3>1
  <2> QED
    BY <2>1, <2>2, <2>6, <2>7
<1> HIDE DEF t
<1>2. \A i \in Int : At(t, i) = IF i < k THEN At(q, i) ELSE At(q, i + 1)
  BY <1>1 DEF At
<1> QED
  BY <1>1, <1>2 DEF t

\* q with its places j and j + 1 swapped.
Swapped(q, j) == [q EXCEPT ![j] = q[j + 1], ![j + 1] = q[j]]

LEMMA SwappedIs ==
  ASSUME NEW q \in Seq(Entries), NEW j \in 1..(Len(q) - 1)
  PROVE  LET t == Swapped(q, j) IN
         /\ t \in Seq(Entries) /\ Len(t) = Len(q)
         /\ \A i \in Int : At(t, i) = IF i = j THEN At(q, j + 1)
                                     ELSE IF i = j + 1 THEN At(q, j) ELSE At(q, i)
<1> DEFINE t == Swapped(q, j)
<1>1. /\ t \in Seq(Entries) /\ Len(t) = Len(q) /\ Len(q) \in Nat
      /\ \A i \in 1..Len(q) : t[i] = IF i = j THEN q[j + 1]
                                    ELSE IF i = j + 1 THEN q[j] ELSE q[i]
  BY DEF Swapped
<1> HIDE DEF t
<1>2. \A i \in Int : At(t, i) = IF i = j THEN At(q, j + 1)
                                ELSE IF i = j + 1 THEN At(q, j) ELSE At(q, i)
  BY <1>1 DEF At
<1> QED
  BY <1>1, <1>2 DEF t

(***************************************************************************)
(* What the pointers must be for a list to have become such a sequence.    *)
(***************************************************************************)
\* Chain by places alone, which the lemmas below establish.
LEMMA ChainIf ==
  ASSUME NEW h, NEW l, NEW q \in Seq(Entries),
         \A i, j \in 1..Len(q) : At(q, i) = At(q, j) => i = j,
         h.first[l] = At(q, 1), h.last[l] = At(q, Len(q)), h.length[l] = Len(q),
         \A i \in 1..Len(q) : /\ h.next[At(q, i)] = At(q, i + 1)
                              /\ h.prev[At(q, i)] = At(q, i - 1)
                              /\ h.list[At(q, i)] = l,
         \A e \in Entries : h.list[e] = l => \E i \in 1..Len(q) : At(q, i) = e
  PROVE  Chain(h, l, q)
BY DEF Chain, At

Places(h, l, q) ==
  /\ q \in Seq(Entries) /\ Len(q) \in Nat
  /\ \A i, j \in 1..Len(q) : At(q, i) = At(q, j) => i = j
  /\ h.first[l] = At(q, 1) /\ h.last[l] = At(q, Len(q))
  /\ h.length[l] = Len(q)
  /\ \A i \in 1..Len(q) : /\ At(q, i) \in Entries
                          /\ h.next[At(q, i)] = At(q, i + 1)
                          /\ h.prev[At(q, i)] = At(q, i - 1)
                          /\ h.list[At(q, i)] = l
  /\ \A e \in Entries : h.list[e] = l => \E i \in 1..Len(q) : At(q, i) = e
  /\ \A i \in Int : i \notin 1..Len(q) => At(q, i) = NULL
  /\ NULL \notin Entries

LEMMA ChainAt ==
  ASSUME NEW h, NEW l, NEW q, Chain(h, l, q)
  PROVE  Places(h, l, q)
BY EntriesFinite DEF Chain, At, Places

\* A list whose entries and ends are left alone.
LEMMA ChainKept ==
  ASSUME NEW h, NEW g, NEW m, NEW p, Chain(h, m, p),
         g.first[m] = h.first[m], g.last[m] = h.last[m], g.length[m] = h.length[m],
         \A e \in Entries :
           /\ h.list[e] = m => /\ g.next[e] = h.next[e] /\ g.prev[e] = h.prev[e]
                               /\ g.list[e] = m
           /\ g.list[e] = m => h.list[e] = m
  PROVE  Chain(g, m, p)
<1>0. Places(h, m, p)
  BY ChainAt
<1>1. /\ p \in Seq(Entries)
      /\ \A i, j \in 1..Len(p) : At(p, i) = At(p, j) => i = j
      /\ g.first[m] = At(p, 1) /\ g.last[m] = At(p, Len(p)) /\ g.length[m] = Len(p)
  BY <1>0 DEF Places
<1>2. ASSUME NEW i \in 1..Len(p)
      PROVE  /\ g.next[At(p, i)] = At(p, i + 1)
             /\ g.prev[At(p, i)] = At(p, i - 1)
             /\ g.list[At(p, i)] = m
  <2>1. /\ At(p, i) \in Entries /\ h.list[At(p, i)] = m
        /\ h.next[At(p, i)] = At(p, i + 1) /\ h.prev[At(p, i)] = At(p, i - 1)
    BY <1>0 DEF Places
  <2> QED
    BY <2>1
<1>3. \A e \in Entries : g.list[e] = m => \E i \in 1..Len(p) : At(p, i) = e
  BY <1>0 DEF Places
<1> QED
  BY <1>1, <1>2, <1>3, ChainIf

LEMMA ChainInserted ==
  ASSUME NEW h, NEW g, NEW l, NEW q, Chain(h, l, q), l # NULL,
         NEW a \in Entries, h.list[a] = NULL, NEW k \in 1..(Len(q) + 1),
         \A e \in Entries :
           /\ g.next[e] = IF e = At(q, k - 1) THEN a
                          ELSE IF e = a THEN At(q, k) ELSE h.next[e]
           /\ g.prev[e] = IF e = At(q, k) THEN a
                          ELSE IF e = a THEN At(q, k - 1) ELSE h.prev[e]
           /\ g.list[e] = IF e = a THEN l ELSE h.list[e],
         g.first[l] = IF k = 1 THEN a ELSE h.first[l],
         g.last[l] = IF k = Len(q) + 1 THEN a ELSE h.last[l],
         g.length[l] = h.length[l] + 1
  PROVE  Chain(g, l, InsertAt(q, k, a))
<1> DEFINE t == InsertAt(q, k, a)
<1>0. Places(h, l, q)
  BY ChainAt
<1>1. q \in Seq(Entries) /\ Len(q) \in Nat /\ k \in Nat
  BY ChainFacts
<1>2. /\ t \in Seq(Entries) /\ Len(t) = Len(q) + 1
      /\ \A i \in Int : At(t, i) = IF i < k THEN At(q, i)
                                  ELSE IF i = k THEN a ELSE At(q, i - 1)
  BY <1>1, InsertedIs
<1> HIDE DEF t
<1>3. /\ \A i \in Int : At(q, i) # a
      /\ \A i \in Int : i \notin 1..Len(q) => At(q, i) = NULL
      /\ \A i \in 1..Len(q) : At(q, i) \in Entries
      /\ \A i, j \in 1..Len(q) : At(q, i) = At(q, j) => i = j
      /\ NULL \notin Entries
  BY <1>0 DEF Places
<1>4. ASSUME NEW i \in 1..Len(t), NEW j \in 1..Len(t), At(t, i) = At(t, j)
      PROVE  i = j
  BY <1>1, <1>2, <1>3, <1>4, SMTT(20)
<1>5. g.first[l] = At(t, 1) /\ g.last[l] = At(t, Len(t)) /\ g.length[l] = Len(t)
  BY <1>0, <1>1, <1>2 DEF Places
<1>6. ASSUME NEW i \in 1..Len(t)
      PROVE  /\ g.next[At(t, i)] = At(t, i + 1)
             /\ g.prev[At(t, i)] = At(t, i - 1)
             /\ g.list[At(t, i)] = l
  <2>1. CASE i = k
    BY <1>1, <1>2, <1>3, <2>1
  <2>2. CASE i < k
    <3>1. /\ i \in 1..Len(q) /\ At(t, i) = At(q, i) /\ At(t, i - 1) = At(q, i - 1)
          /\ At(t, i + 1) = IF i = k - 1 THEN a ELSE At(q, i + 1)
      <4>1. i \in 1..Len(q) /\ i - 1 \in Int /\ i + 1 \in Int /\ i - 1 < k
            /\ (i + 1 < k \/ i + 1 = k) /\ (i + 1 = k <=> i = k - 1)
        BY <1>1, <1>2, <2>2
      <4> QED
        BY <1>2, <2>2, <4>1
    <3>2. /\ At(q, i) \in Entries /\ At(q, i) # a
          /\ (At(q, i) = At(q, k - 1) <=> i = k - 1)
          /\ At(q, i) # At(q, k)
      BY <1>1, <1>3, <2>2, <3>1, SMTT(20)
    <3>3. /\ h.next[At(q, i)] = At(q, i + 1) /\ h.prev[At(q, i)] = At(q, i - 1)
          /\ h.list[At(q, i)] = l
      BY <1>0, <3>1 DEF Places
    <3> QED
      BY <3>1, <3>2, <3>3
  <2>3. CASE i > k
    <3>1. /\ i - 1 \in 1..Len(q) /\ At(t, i) = At(q, i - 1) /\ At(t, i + 1) = At(q, i)
          /\ At(t, i - 1) = IF i - 1 = k THEN a ELSE At(q, i - 2)
      BY <1>1, <1>2, <2>3
    <3>2. /\ At(q, i - 1) \in Entries /\ At(q, i - 1) # a
          /\ At(q, i - 1) # At(q, k - 1)
          /\ (At(q, i - 1) = At(q, k) <=> i - 1 = k)
      <4>1. i - 1 # k - 1 /\ k - 1 \in Int /\ k \in Int
        BY <1>1, <2>3
      <4> QED
        BY <1>3, <3>1, <4>1
    <3>3. /\ h.next[At(q, i - 1)] = At(q, i) /\ h.prev[At(q, i - 1)] = At(q, i - 2)
          /\ h.list[At(q, i - 1)] = l
      <4>1. (i - 1) + 1 = i /\ (i - 1) - 1 = i - 2
        BY <1>1
      <4>2. /\ h.next[At(q, i - 1)] = At(q, (i - 1) + 1)
            /\ h.prev[At(q, i - 1)] = At(q, (i - 1) - 1)
            /\ h.list[At(q, i - 1)] = l
        BY <1>0, <3>1 DEF Places
      <4> QED
        BY <4>1, <4>2
    <3> QED
      BY <3>1, <3>2, <3>3
  <2> QED
    BY <1>1, <1>2, <2>1, <2>2, <2>3
<1>7. ASSUME NEW e \in Entries, g.list[e] = l
      PROVE  \E i \in 1..Len(t) : At(t, i) = e
  <2>1. CASE e = a
    BY <1>1, <1>2, <2>1
  <2>2. CASE e # a
    <3>1. PICK i \in 1..Len(q) : At(q, i) = e
      BY <1>0, <1>7, <2>2 DEF Places
    <3>2. CASE i < k
      BY <1>1, <1>2, <3>1, <3>2
    <3>3. CASE i >= k
      <4>1. i + 1 \in 1..Len(t) /\ At(t, i + 1) = At(q, i)
        BY <1>1, <1>2, <3>1, <3>3
      <4> QED
        BY <3>1, <4>1
    <3> QED
      BY <1>1, <3>1, <3>2, <3>3
  <2> QED
    BY <2>1, <2>2
<1> QED
  BY <1>2, <1>4, <1>5, <1>6, <1>7, ChainIf DEF t

LEMMA ChainRemoved ==
  ASSUME NEW h, NEW g, NEW l, NEW q, Chain(h, l, q), l # NULL,
         NEW k \in 1..Len(q),
         \A e \in Entries :
           /\ g.next[e] = IF e = At(q, k - 1) THEN At(q, k + 1) ELSE h.next[e]
           /\ g.prev[e] = IF e = At(q, k + 1) THEN At(q, k - 1) ELSE h.prev[e]
           /\ g.list[e] = IF e = At(q, k) THEN NULL ELSE h.list[e],
         g.first[l] = IF k = 1 THEN At(q, k + 1) ELSE h.first[l],
         g.last[l] = IF k = Len(q) THEN At(q, k - 1) ELSE h.last[l],
         g.length[l] = h.length[l] - 1
  PROVE  Chain(g, l, RemoveAt(q, k))
<1> DEFINE t == RemoveAt(q, k)
<1>0. Places(h, l, q)
  BY ChainAt
<1>1. q \in Seq(Entries) /\ Len(q) \in Nat /\ k \in Nat
  BY ChainFacts
<1>2. /\ t \in Seq(Entries) /\ Len(t) = Len(q) - 1
      /\ \A i \in Int : At(t, i) = IF i < k THEN At(q, i) ELSE At(q, i + 1)
  BY <1>1, RemovedIs
<1> HIDE DEF t
<1>3. /\ \A i \in Int : i \notin 1..Len(q) => At(q, i) = NULL
      /\ \A i \in 1..Len(q) : At(q, i) \in Entries
      /\ \A i, j \in 1..Len(q) : At(q, i) = At(q, j) => i = j
      /\ NULL \notin Entries
  BY <1>0 DEF Places
<1>4. ASSUME NEW i \in 1..Len(t), NEW j \in 1..Len(t), At(t, i) = At(t, j)
      PROVE  i = j
  BY <1>1, <1>2, <1>3, <1>4
<1>5. g.first[l] = At(t, 1) /\ g.last[l] = At(t, Len(t)) /\ g.length[l] = Len(t)
  <2>1. /\ h.first[l] = At(q, 1) /\ h.last[l] = At(q, Len(q)) /\ h.length[l] = Len(q)
    BY <1>0 DEF Places
  <2>2. At(t, 1) = IF k = 1 THEN At(q, k + 1) ELSE At(q, 1)
    BY <1>1, <1>2, SMTT(20)
  <2>3. At(t, Len(t)) = IF k = Len(q) THEN At(q, k - 1) ELSE At(q, Len(q))
    <3>1. Len(t) \in Int /\ Len(t) = Len(q) - 1 /\ Len(t) + 1 = Len(q)
          /\ (Len(t) < k <=> k = Len(q)) /\ (k = Len(q) => Len(t) = k - 1)
      <4>1. Len(t) = Len(q) - 1 /\ Len(q) \in Nat /\ k \in 1..Len(q)
        BY <1>1, <1>2
      <4> QED
        BY ONLY <4>1
    <3> QED
      BY <1>2, <3>1
  <2> QED
    BY <1>2, <2>1, <2>2, <2>3
<1>6. ASSUME NEW i \in 1..Len(t)
      PROVE  /\ g.next[At(t, i)] = At(t, i + 1)
             /\ g.prev[At(t, i)] = At(t, i - 1)
             /\ g.list[At(t, i)] = l
  <2>0. i \in Nat /\ 1 <= i /\ i <= Len(q) - 1 /\ k \in Nat /\ Len(q) \in Nat
        /\ 1 <= k /\ k <= Len(q)
    BY <1>1, <1>2
  <2>1. CASE i < k
    <3>1. /\ i \in 1..Len(q) /\ At(t, i) = At(q, i) /\ At(t, i - 1) = At(q, i - 1)
          /\ At(t, i + 1) = IF i = k - 1 THEN At(q, k + 1) ELSE At(q, i + 1)
      <4>1. i \in 1..Len(q) /\ i - 1 \in Int /\ i + 1 \in Int /\ i - 1 < k
            /\ (i + 1 < k \/ i + 1 = k) /\ (i + 1 = k <=> i = k - 1) /\ i \in Int
            /\ (i = k - 1 => ~(i + 1 < k))
        BY <2>0, <2>1
      <4>2. /\ At(t, i) = At(q, i) /\ At(t, i - 1) = At(q, i - 1)
            /\ At(t, i + 1) = IF i + 1 < k THEN At(q, i + 1) ELSE At(q, (i + 1) + 1)
        BY <1>2, <2>1, <4>1
      <4> QED
        BY <4>1, <4>2
    <3>2. /\ At(q, i) \in Entries /\ At(q, i) # At(q, k)
          /\ (At(q, i) = At(q, k - 1) <=> i = k - 1)
          /\ At(q, i) # At(q, k + 1)
      BY <1>1, <1>3, <2>1, <3>1
    <3>3. /\ h.next[At(q, i)] = At(q, i + 1) /\ h.prev[At(q, i)] = At(q, i - 1)
          /\ h.list[At(q, i)] = l
      BY <1>0, <3>1 DEF Places
    <3> QED
      BY <3>1, <3>2, <3>3
  <2>2. CASE i >= k
    <3>1. /\ i + 1 \in 1..Len(q) /\ At(t, i) = At(q, i + 1)
          /\ At(t, i + 1) = At(q, (i + 1) + 1)
          /\ At(t, i - 1) = IF i = k THEN At(q, k - 1) ELSE At(q, i)
      <4>1. i + 1 \in 1..Len(q) /\ i - 1 \in Int /\ i + 1 \in Int /\ (i - 1) + 1 = i
            /\ (i - 1 < k <=> i = k) /\ ~(i + 1 < k) /\ ~(i < k) /\ i \in Int
        BY <2>0, <2>2
      <4>2. /\ At(t, i) = At(q, i + 1) /\ At(t, i + 1) = At(q, (i + 1) + 1)
            /\ At(t, i - 1) = IF i = k THEN At(q, i - 1) ELSE At(q, (i - 1) + 1)
        BY <1>2, <4>1
      <4> QED
        BY <4>1, <4>2
    <3>2. /\ At(q, i + 1) \in Entries /\ At(q, i + 1) # At(q, k)
          /\ At(q, i + 1) # At(q, k - 1)
          /\ (At(q, i + 1) = At(q, k + 1) <=> i = k)
      <4>1. i + 1 # k - 1 /\ i + 1 # k /\ k - 1 \in Int /\ k + 1 \in Int
            /\ (i + 1 = k + 1 <=> i = k)
        BY <1>1, <2>2
      <4> QED
        BY <1>3, <3>1, <4>1
    <3>3. /\ h.next[At(q, i + 1)] = At(q, (i + 1) + 1)
          /\ h.prev[At(q, i + 1)] = At(q, (i + 1) - 1)
          /\ h.list[At(q, i + 1)] = l
      BY <1>0, <3>1 DEF Places
    <3>4. (i + 1) - 1 = i
      BY <1>1
    <3> QED
      BY <3>1, <3>2, <3>3, <3>4
  <2> QED
    BY <1>1, <1>2, <2>1, <2>2
<1>7. ASSUME NEW e \in Entries, g.list[e] = l
      PROVE  \E i \in 1..Len(t) : At(t, i) = e
  <2>1. e # At(q, k) /\ h.list[e] = l
    BY <1>7
  <2>2. PICK i \in 1..Len(q) : At(q, i) = e
    BY <1>0, <2>1 DEF Places
  <2>3. CASE i < k
    BY <1>1, <1>2, <2>2, <2>3
  <2>4. CASE i > k
    <3>1. i - 1 \in 1..Len(t) /\ At(t, i - 1) = At(q, i)
      <4>1. i - 1 \in 1..Len(t) /\ i - 1 \in Int /\ ~(i - 1 < k) /\ (i - 1) + 1 = i
        BY <1>1, <1>2, <2>4
      <4> QED
        BY <1>2, <4>1
    <3> QED
      BY <2>2, <3>1
  <2> QED
    BY <1>1, <2>1, <2>2, <2>3, <2>4
<1> QED
  BY <1>2, <1>4, <1>5, <1>6, <1>7, ChainIf DEF t

\* g is h with x and y of l, between w and z, swapped; x is the first entry of
\* l or not, y the last or not.
SwappedIn(h, g, l, w, x, y, z, isFirst, isLast) ==
  /\ \A e \in Entries :
       /\ g.next[e] = IF e = x THEN z ELSE IF e = y THEN x
                      ELSE IF e = w THEN y ELSE h.next[e]
       /\ g.prev[e] = IF e = z THEN x ELSE IF e = x THEN y
                      ELSE IF e = y THEN w ELSE h.prev[e]
       /\ g.list[e] = h.list[e]
  /\ g.first[l] = IF isFirst THEN y ELSE h.first[l]
  /\ g.last[l] = IF isLast THEN x ELSE h.last[l]
  /\ g.length = h.length
  /\ \A m \in Lists \ {l} : g.first[m] = h.first[m] /\ g.last[m] = h.last[m]

LEMMA ChainSwapped ==
  ASSUME NEW h, NEW g, NEW l, NEW q, Chain(h, l, q), l # NULL,
         NEW j \in 1..(Len(q) - 1),
         SwappedIn(h, g, l, At(q, j - 1), At(q, j), At(q, j + 1), At(q, j + 2),
                   j = 1, j + 1 = Len(q))
  PROVE  Chain(g, l, Swapped(q, j))
<1> DEFINE t == Swapped(q, j)
<1>0. Places(h, l, q)
  BY ChainAt
<1>1. q \in Seq(Entries) /\ Len(q) \in Nat /\ j \in Nat
  BY ChainFacts
<1>2. /\ t \in Seq(Entries) /\ Len(t) = Len(q)
      /\ \A i \in Int : At(t, i) = IF i = j THEN At(q, j + 1)
                                  ELSE IF i = j + 1 THEN At(q, j) ELSE At(q, i)
  BY <1>1, SwappedIs
<1> HIDE DEF t
<1>3. /\ \A i \in Int : i \notin 1..Len(q) => At(q, i) = NULL
      /\ \A i \in 1..Len(q) : At(q, i) \in Entries
      /\ \A i, n \in 1..Len(q) : At(q, i) = At(q, n) => i = n
      /\ NULL \notin Entries
  BY <1>0 DEF Places
<1>a. /\ j - 1 \in Int /\ j \in Int /\ j + 1 \in Int /\ j + 2 \in Int
      /\ j \in 1..Len(q) /\ j + 1 \in 1..Len(q) /\ (j + 1) + 1 = j + 2
      /\ (j + 1) - 1 = j /\ (j - 1) + 1 = j /\ (j + 2) - 1 = j + 1
  BY <1>1
<1>b. j # j + 1 /\ j # j + 2 /\ j + 1 # j + 2
  BY <1>1
<1>4. ASSUME NEW i \in 1..Len(t), NEW n \in 1..Len(t), At(t, i) = At(t, n)
      PROVE  i = n
  BY <1>1, <1>2, <1>3, <1>4, <1>a
<1>5. g.first[l] = At(t, 1) /\ g.last[l] = At(t, Len(t)) /\ g.length[l] = Len(t)
  BY <1>0, <1>1, <1>2 DEF Places, SwappedIn
<1>8. ASSUME NEW i \in 1..Len(q), NEW n \in Int
      PROVE  At(q, i) = At(q, n) <=> i = n
  BY <1>3, <1>8
<1>6. ASSUME NEW i \in 1..Len(t)
      PROVE  /\ g.next[At(t, i)] = At(t, i + 1)
             /\ g.prev[At(t, i)] = At(t, i - 1)
             /\ g.list[At(t, i)] = l
  <2>0. /\ i \in 1..Len(q) /\ i \in Int /\ i + 1 \in Int /\ i - 1 \in Int
        /\ At(q, i) \in Entries
        /\ h.next[At(q, i)] = At(q, i + 1) /\ h.prev[At(q, i)] = At(q, i - 1)
        /\ h.list[At(q, i)] = l
    BY <1>0, <1>1, <1>2 DEF Places
  <2>9. /\ At(q, j) \in Entries /\ At(q, j + 1) \in Entries
        /\ h.list[At(q, j)] = l /\ h.list[At(q, j + 1)] = l
    BY <1>0, <1>a DEF Places
  <2>1. CASE i = j
    <3>1. /\ At(t, i) = At(q, j + 1) /\ At(t, i + 1) = At(q, j)
          /\ At(t, i - 1) = At(q, j - 1)
      BY <1>1, <1>2, <1>a, <2>1
    <3>2. /\ At(q, j + 1) # At(q, j) /\ At(q, j + 1) # At(q, j + 2)
      BY <1>8, <1>a, <1>b
    <3> QED
      BY <2>9, <3>1, <3>2 DEF SwappedIn
  <2>2. CASE i = j + 1
    <3>1. /\ At(t, i) = At(q, j) /\ At(t, i + 1) = At(q, j + 2)
          /\ At(t, i - 1) = At(q, j + 1)
      <4>1. i + 1 = j + 2 /\ i - 1 = j /\ j + 2 # j /\ j + 2 # j + 1 /\ j + 1 # j
        BY <1>1, <2>2
      <4> QED
        BY <1>2, <1>a, <2>2, <4>1
    <3>2. At(q, j) # At(q, j + 2)
      BY <1>8, <1>a, <1>b
    <3> QED
      BY <2>9, <3>1, <3>2 DEF SwappedIn
  <2>3. CASE i # j /\ i # j + 1
    <3>1. At(t, i) = At(q, i)
      BY <1>2, <2>0, <2>3
    <3>2. /\ At(t, i + 1) = IF i = j - 1 THEN At(q, j + 1) ELSE At(q, i + 1)
          /\ At(t, i - 1) = IF i = j + 2 THEN At(q, j) ELSE At(q, i - 1)
      <4>1. /\ (i + 1 = j <=> i = j - 1) /\ i + 1 # j + 1
            /\ (i - 1 = j + 1 <=> i = j + 2) /\ i - 1 # j
        <5>1. i \in Int /\ j \in Int /\ i # j /\ i # j + 1
          BY <1>a, <2>0, <2>3
        <5> QED
          BY ONLY <5>1
      <4> QED
        BY <1>2, <2>0, <4>1
    <3>3. /\ At(q, i) # At(q, j) /\ At(q, i) # At(q, j + 1)
          /\ (At(q, i) = At(q, j - 1) <=> i = j - 1)
          /\ (At(q, i) = At(q, j + 2) <=> i = j + 2)
      BY <1>8, <1>a, <2>0, <2>3
    <3>4. g.next[At(t, i)] = At(t, i + 1)
      BY <2>0, <3>1, <3>2, <3>3 DEF SwappedIn
    <3>5. g.prev[At(t, i)] = At(t, i - 1)
      BY <2>0, <3>1, <3>2, <3>3 DEF SwappedIn
    <3> QED
      BY <2>0, <3>1, <3>4, <3>5 DEF SwappedIn
  <2> QED
    BY <2>1, <2>2, <2>3
<1>7. ASSUME NEW e \in Entries, g.list[e] = l
      PROVE  \E i \in 1..Len(t) : At(t, i) = e
  <2>1. PICK i \in 1..Len(q) : At(q, i) = e
    BY <1>0, <1>7 DEF Places, SwappedIn
  <2>2. At(t, j) = At(q, j + 1) /\ At(t, j + 1) = At(q, j)
    BY <1>1, <1>2, <1>a
  <2>3. i # j /\ i # j + 1 => At(t, i) = At(q, i)
    BY <1>2, <2>1
  <2> QED
    BY <1>2, <1>a, <2>1, <2>2, <2>3
<1> QED
  BY <1>2, <1>4, <1>5, <1>6, <1>7, ChainIf DEF t

(***************************************************************************)
(* The operations make those changes.                                      *)
(***************************************************************************)
\* g is h once a points to b and b back to a.
Tied(h, g, a, b) ==
  /\ g \in Heaps
  /\ g.list = h.list /\ g.first = h.first /\ g.last = h.last /\ g.length = h.length
  /\ \A e \in Entries : /\ g.next[e] = IF e = a THEN b ELSE h.next[e]
                        /\ g.prev[e] = IF e = b THEN a ELSE h.prev[e]

LEMMA LinkIs ==
  ASSUME NEW h \in Heaps, NEW a \in Entries \cup {NULL}, NEW b \in Entries \cup {NULL}
  PROVE  Tied(h, Link(h, a, b), a, b)
BY DEF Link, Heaps, Tied

\* g is h once a belongs to l.
Adopted(h, g, l, a) ==
  /\ g \in Heaps
  /\ g.next = h.next /\ g.prev = h.prev /\ g.first = h.first /\ g.last = h.last
  /\ \A e \in Entries : g.list[e] = IF e = a THEN l ELSE h.list[e]
  /\ \A m \in Lists : g.length[m] = IF m = l THEN h.length[m] + 1 ELSE h.length[m]

LEMMA AdoptIs ==
  ASSUME NEW h \in Heaps, NEW l \in Lists, NEW a \in Entries
  PROVE  Adopted(h, Adopt(h, l, a), l, a)
<1> DEFINE g == Adopt(h, l, a)
<1>1. /\ g.next = h.next /\ g.prev = h.prev /\ g.first = h.first /\ g.last = h.last
      /\ g.list = [h.list EXCEPT ![a] = l]
      /\ g.length = [h.length EXCEPT ![l] = @ + 1]
  BY DEF Adopt, Heaps
<1>2. h.list \in [Entries -> Lists \cup {NULL}] /\ h.length \in [Lists -> Nat]
  BY DEF Heaps
<1>4. g \in Heaps
  <2>1. /\ [h.list EXCEPT ![a] = l] \in [Entries -> Lists \cup {NULL}]
        /\ [h.length EXCEPT ![l] = @ + 1] \in [Lists -> Nat]
    BY <1>2
  <2>2. g = [h EXCEPT !.list = [h.list EXCEPT ![a] = l],
                      !.length = [h.length EXCEPT ![l] = @ + 1]]
    BY DEF Adopt, Heaps
  <2> QED
    BY <2>1, <2>2 DEF Heaps
<1> HIDE DEF g
<1>3. Adopted(h, g, l, a)
  BY <1>1, <1>2, <1>4 DEF Adopted
<1> QED
  BY <1>3 DEF g

\* g is h with a in l between x and y, the ends of the list not yet looked at.
Between(h, g, l, a, x, y) ==
  /\ g \in Heaps
  /\ \A e \in Entries :
       /\ g.next[e] = IF e = x THEN a ELSE IF e = a THEN y ELSE h.next[e]
       /\ g.prev[e] = IF e = y THEN a ELSE IF e = a THEN x ELSE h.prev[e]
       /\ g.list[e] = IF e = a THEN l ELSE h.list[e]
  /\ g.first = h.first /\ g.last = h.last
  /\ \A m \in Lists : g.length[m] = IF m = l THEN h.length[m] + 1 ELSE h.length[m]

LEMMA LinksBetween ==
  ASSUME NEW h \in Heaps, NEW l \in Lists, NEW a \in Entries,
         NEW x \in Entries \cup {NULL}, NEW y \in Entries \cup {NULL},
         x # a, y # a
  PROVE  /\ Between(h, Link(Link(Adopt(h, l, a), x, a), a, y), l, a, x, y)
         /\ Between(h, Link(Link(Adopt(h, l, a), a, y), x, a), l, a, x, y)
<1>0. a \in Entries \cup {NULL}
  OBVIOUS
<1>1. ASSUME NEW p, NEW u, NEW g, Adopted(h, p, l, a), Tied(p, u, x, a), Tied(u, g, a, y)
      PROVE  Between(h, g, l, a, x, y)
  BY <1>1 DEF Adopted, Tied, Between
<1>2. ASSUME NEW p, NEW u, NEW g, Adopted(h, p, l, a), Tied(p, u, a, y), Tied(u, g, x, a)
      PROVE  Between(h, g, l, a, x, y)
  BY <1>2 DEF Adopted, Tied, Between
<1>3. Adopted(h, Adopt(h, l, a), l, a)
  BY AdoptIs
<1>4. /\ Tied(Adopt(h, l, a), Link(Adopt(h, l, a), x, a), x, a)
      /\ Tied(Adopt(h, l, a), Link(Adopt(h, l, a), a, y), a, y)
  BY <1>0, <1>3, LinkIs DEF Adopted
<1>5. /\ Tied(Link(Adopt(h, l, a), x, a), Link(Link(Adopt(h, l, a), x, a), a, y), a, y)
      /\ Tied(Link(Adopt(h, l, a), a, y), Link(Link(Adopt(h, l, a), a, y), x, a), x, a)
  <2>1. Link(Adopt(h, l, a), x, a) \in Heaps /\ Link(Adopt(h, l, a), a, y) \in Heaps
    BY <1>4 DEF Tied
  <2> QED
    BY <1>0, <2>1, LinkIs
<1> QED
  BY <1>1, <1>2, <1>3, <1>4, <1>5

(***************************************************************************)
(* All lists at once: heap h holds the sequences s.                        *)
(***************************************************************************)
Chains(h, s) ==
  s \in [Lists -> Seq(Entries)] /\ \A l \in Lists : Chain(h, l, s[l])

Orders(h) == [l \in Lists |-> Listed(h, l)]

LEMMA OrdersAre ==
  ASSUME NEW h, NEW s, Chains(h, s)
  PROVE  Orders(h) = s
BY ListedIs DEF Chains, Orders

\* The sequences without e, as in EntryLists.
Left(s, e) ==
  [l \in Lists |-> IF e \in ToSet(s[l]) THEN RemoveAt(s[l], Abstract!IndexOf(s[l], e))
                                      ELSE s[l]]

\* An entry is in the list it names, and in no other.
LEMMA Member ==
  ASSUME NEW h, NEW s, Chains(h, s), NEW l \in Lists, NEW e \in Entries
  PROVE  e \in ToSet(s[l]) <=> h.list[e] = l
<1>1. Chain(h, l, s[l])
  BY DEF Chains
<1>2. /\ \A i \in 1..Len(s[l]) : h.list[s[l][i]] = l
      /\ h.list[e] = l => \E i \in 1..Len(s[l]) : s[l][i] = e
      /\ DOMAIN s[l] = 1..Len(s[l])
  BY <1>1 DEF Chain
<1> QED
  BY <1>2 DEF ToSet

LEMMA IndexIs ==
  ASSUME NEW q, NEW e, e \in ToSet(q), q \in Seq(Entries)
  PROVE  /\ Abstract!IndexOf(q, e) \in 1..Len(q)
         /\ q[Abstract!IndexOf(q, e)] = e
<1>1. \E i \in DOMAIN q : q[i] = e
  BY DEF ToSet
<1> QED
  BY <1>1 DEF Abstract!IndexOf

\* rem() takes the entry out of its list, wherever it is (linklist.cpp:421-447).
LEMMA RemIs ==
  ASSUME NEW h \in Heaps, NEW s, Chains(h, s), NEW a \in Entries
  PROVE  /\ Rem(h, a) \in Heaps /\ Chains(Rem(h, a), Left(s, a))
         /\ \A e \in Entries : Rem(h, a).list[e] = IF e = a THEN NULL ELSE h.list[e]
<1>1. CASE h.list[a] = NULL
  <2>1. \A l \in Lists : a \notin ToSet(s[l])
    BY <1>1, Member, EntriesFinite
  <2>2. Left(s, a) = s
    BY <2>1 DEF Left, Chains
  <2>3. Rem(h, a) = h
    BY <1>1 DEF Rem
  <2> QED
    BY <1>1, <2>2, <2>3
<1>2. CASE h.list[a] # NULL
  <2> DEFINE l == h.list[a]
             q == s[l]
             k == Abstract!IndexOf(q, a)
             u == Link(h, h.prev[a], h.next[a])
             g == Rem(h, a)
  <2>1. l \in Lists /\ l # NULL /\ NULL \notin Entries
    BY <1>2, EntriesFinite DEF Heaps
  <2>2. Chain(h, l, q) /\ q \in Seq(Entries) /\ a \in ToSet(q)
    BY <2>1, Member DEF Chains
  <2>3. k \in 1..Len(q) /\ q[k] = a
    BY <2>2, IndexIs
  <2>4. \A m \in Lists : m # l => a \notin ToSet(s[m])
    BY Member
  <2>5. Left(s, a) = [s EXCEPT ![l] = RemoveAt(q, k)]
    BY <2>1, <2>2, <2>4 DEF Left, Chains
  <2>6. Places(h, l, q)
    BY <2>2, ChainAt
  <2> HIDE DEF k, q, l
  <2>7. /\ At(q, k) = a /\ h.next[a] = At(q, k + 1) /\ h.prev[a] = At(q, k - 1)
        /\ Len(q) \in Nat /\ h.length[l] = Len(q) /\ k \in Int
    BY <2>3, <2>6 DEF Places, At
  <2>8. /\ At(q, k + 1) \in Entries \cup {NULL} /\ At(q, k - 1) \in Entries \cup {NULL}
        /\ (At(q, k + 1) = NULL <=> k = Len(q)) /\ (At(q, k - 1) = NULL <=> k = 1)
    <3>1. /\ k + 1 \in Int /\ k - 1 \in Int
          /\ (k + 1 \notin 1..Len(q) <=> k = Len(q))
          /\ (k - 1 \notin 1..Len(q) <=> k = 1)
      BY <2>3, <2>7
    <3> QED
      BY <2>6, <3>1 DEF Places
  <2>9. Tied(h, u, At(q, k - 1), At(q, k + 1))
    BY <2>7, <2>8, LinkIs
  <2>10. g = [u EXCEPT !.last[l] = IF h.next[a] = NULL THEN h.prev[a] ELSE @,
                       !.first[l] = IF h.prev[a] = NULL THEN h.next[a] ELSE @,
                       !.length[l] = @ - 1,
                       !.list[a] = NULL]
    BY <1>2 DEF Rem, l
  <2>11. u \in Heaps
    BY <2>9 DEF Tied
  <2> HIDE DEF u, g
  <2>12. /\ g.next = u.next /\ g.prev = u.prev
         /\ g.last = [u.last EXCEPT ![l] = IF h.next[a] = NULL THEN h.prev[a] ELSE @]
         /\ g.first = [u.first EXCEPT ![l] = IF h.prev[a] = NULL THEN h.next[a] ELSE @]
         /\ g.length = [u.length EXCEPT ![l] = @ - 1]
         /\ g.list = [u.list EXCEPT ![a] = NULL]
    BY <2>10, <2>11 DEF Heaps
  <2>13. /\ u.last \in [Lists -> Entries \cup {NULL}]
         /\ u.first \in [Lists -> Entries \cup {NULL}]
         /\ u.length \in [Lists -> Nat] /\ u.list \in [Entries -> Lists \cup {NULL}]
    BY <2>11 DEF Heaps
  <2>14. u.length[l] - 1 \in Nat
    BY <2>3, <2>7, <2>9 DEF Tied
  <2>15. g \in Heaps
    <3>1. /\ g.last \in [Lists -> Entries \cup {NULL}]
          /\ g.first \in [Lists -> Entries \cup {NULL}]
      <4>1. /\ (IF h.next[a] = NULL THEN h.prev[a] ELSE u.last[l])
                 \in Entries \cup {NULL}
            /\ (IF h.prev[a] = NULL THEN h.next[a] ELSE u.first[l])
                 \in Entries \cup {NULL}
        BY <2>1, <2>7, <2>8, <2>13
      <4>2. g.last \in [Lists -> Entries \cup {NULL}]
        BY <2>12, <2>13, <4>1, ZenonT(40)
      <4>3. g.first \in [Lists -> Entries \cup {NULL}]
        BY <2>12, <2>13, <4>1, ZenonT(40)
      <4> QED
        BY <4>2, <4>3
    <3>2. g.length \in [Lists -> Nat] /\ g.list \in [Entries -> Lists \cup {NULL}]
      <4>1. g.length \in [Lists -> Nat]
        BY <2>12, <2>13, <2>14, ZenonT(40)
      <4>2. g.list \in [Entries -> Lists \cup {NULL}]
        BY <2>12, <2>13
      <4> QED
        BY <4>1, <4>2
    <3>3. g = [next |-> g.next, prev |-> g.prev, list |-> g.list, first |-> g.first,
               last |-> g.last, length |-> g.length]
      BY <2>10, <2>11 DEF Heaps
    <3>4. u.next \in [Entries -> Entries \cup {NULL}]
          /\ u.prev \in [Entries -> Entries \cup {NULL}]
      BY <2>11 DEF Heaps
    <3> QED
      BY <2>12, <3>1, <3>2, <3>3, <3>4 DEF Heaps
  <2>16. /\ \A e \in Entries :
              /\ g.next[e] = IF e = At(q, k - 1) THEN At(q, k + 1) ELSE h.next[e]
              /\ g.prev[e] = IF e = At(q, k + 1) THEN At(q, k - 1) ELSE h.prev[e]
              /\ g.list[e] = IF e = a THEN NULL ELSE h.list[e]
         /\ \A m \in Lists \ {l} : /\ g.first[m] = h.first[m] /\ g.last[m] = h.last[m]
                                   /\ g.length[m] = h.length[m]
    BY <2>9, <2>12, <2>13 DEF Tied
  <2>17. /\ g.first[l] = IF k = 1 THEN At(q, k + 1) ELSE h.first[l]
         /\ g.last[l] = IF k = Len(q) THEN At(q, k - 1) ELSE h.last[l]
         /\ g.length[l] = h.length[l] - 1
    BY <2>1, <2>7, <2>8, <2>9, <2>12, <2>13 DEF Tied
  <2>18. Chain(g, l, RemoveAt(q, k))
    <3>1. \A e \in Entries :
              /\ g.next[e] = IF e = At(q, k - 1) THEN At(q, k + 1) ELSE h.next[e]
              /\ g.prev[e] = IF e = At(q, k + 1) THEN At(q, k - 1) ELSE h.prev[e]
              /\ g.list[e] = IF e = At(q, k) THEN NULL ELSE h.list[e]
      BY <2>7, <2>16
    <3> QED
      BY <2>1, <2>2, <2>3, <2>17, <3>1, ChainRemoved
  <2>19. ASSUME NEW m \in Lists, m # l PROVE Chain(g, m, s[m])
    <3>1. Chain(h, m, s[m]) /\ m # NULL
      BY EntriesFinite DEF Chains
    <3>2. ASSUME NEW e \in Entries
          PROVE  /\ h.list[e] = m => e # At(q, k - 1) /\ e # At(q, k + 1) /\ e # a
                 /\ g.list[e] = m => h.list[e] = m
      BY <2>1, <2>6, <2>7, <2>8, <2>16, <2>19, <3>1, SMTT(20) DEF Places, l
    <3> QED
      BY <2>16, <2>19, <3>1, <3>2, ChainKept
  <2>20. RemoveAt(q, k) \in Seq(Entries)
    BY <2>2, <2>3, RemovedIs
  <2>21. Chains(g, Left(s, a))
    BY <2>1, <2>5, <2>18, <2>19, <2>20 DEF Chains
  <2> QED
    BY <2>15, <2>16, <2>21 DEF g
<1> QED
  BY <1>1, <1>2

\* g is u with the ends of l set for an a that went to place k of n + 1.
EndsSet(h, u, g, l, a, k, n) ==
  /\ g.next = u.next /\ g.prev = u.prev /\ g.list = u.list /\ g.length = u.length
  /\ g.first[l] = IF k = 1 THEN a ELSE h.first[l]
  /\ g.last[l] = IF k = n + 1 THEN a ELSE h.last[l]
  /\ \A m \in Lists \ {l} : g.first[m] = h.first[m] /\ g.last[m] = h.last[m]

LEMMA Placed ==
  ASSUME NEW h \in Heaps, NEW s, Chains(h, s), NEW a \in Entries, h.list[a] = NULL,
         NEW l \in Lists, NEW k \in 1..(Len(s[l]) + 1),
         NEW u, Between(h, u, l, a, At(s[l], k - 1), At(s[l], k)),
         NEW g, EndsSet(h, u, g, l, a, k, Len(s[l]))
  PROVE  Chains(g, [s EXCEPT ![l] = InsertAt(s[l], k, a)])
<1> DEFINE q == s[l]
<1>1. Chain(h, l, q) /\ q \in Seq(Entries) /\ l # NULL /\ Places(h, l, q)
  BY ChainAt, EntriesFinite DEF Chains
<1>2. Len(q) \in Nat /\ k \in 1..(Len(q) + 1)
  BY <1>1
<1> HIDE DEF q
<1>3. /\ \A e \in Entries :
           /\ g.next[e] = IF e = At(q, k - 1) THEN a
                          ELSE IF e = a THEN At(q, k) ELSE h.next[e]
           /\ g.prev[e] = IF e = At(q, k) THEN a
                          ELSE IF e = a THEN At(q, k - 1) ELSE h.prev[e]
           /\ g.list[e] = IF e = a THEN l ELSE h.list[e]
      /\ \A m \in Lists : g.length[m] = IF m = l THEN h.length[m] + 1 ELSE h.length[m]
  BY DEF Between, EndsSet, q
<1>4. /\ g.first[l] = IF k = 1 THEN a ELSE h.first[l]
      /\ g.last[l] = IF k = Len(q) + 1 THEN a ELSE h.last[l]
      /\ g.length[l] = h.length[l] + 1
  BY <1>3 DEF EndsSet, q
<1>5. Chain(g, l, InsertAt(q, k, a))
  BY <1>1, <1>2, <1>3, <1>4, ChainInserted, ZenonT(40)
<1>6. ASSUME NEW m \in Lists, m # l PROVE Chain(g, m, s[m])
  <2>1. Chain(h, m, s[m]) /\ m # NULL
    BY EntriesFinite DEF Chains
  <2>2. /\ \A e \in Entries : h.list[e] = m => e # At(q, k - 1) /\ e # At(q, k) /\ e # a
    <3>1. k - 1 \in Int /\ k \in Int
      BY <1>2
    <3>2. \A i \in Int : \A e \in Entries : h.list[e] = m => e # At(q, i)
      BY <1>1, <1>6 DEF Places
    <3> QED
      BY <2>1, <3>1, <3>2
  <2>3. \A e \in Entries :
           /\ h.list[e] = m => /\ g.next[e] = h.next[e] /\ g.prev[e] = h.prev[e]
                               /\ g.list[e] = m
           /\ g.list[e] = m => h.list[e] = m
    BY <1>3, <1>6, <2>2
  <2>4. g.first[m] = h.first[m] /\ g.last[m] = h.last[m] /\ g.length[m] = h.length[m]
    BY <1>3, <1>6 DEF EndsSet
  <2> QED
    BY <2>1, <2>3, <2>4, ChainKept
<1>7. InsertAt(q, k, a) \in Seq(Entries)
  BY <1>1, <1>2, InsertedIs
<1>8. s \in [Lists -> Seq(Entries)]
  BY DEF Chains
<1> QED
  BY <1>5, <1>6, <1>7, <1>8 DEF Chains, q

\* What a call that puts a in l makes of heap h: a is at place k of l.
Puts(h, s, g, l, a, k) ==
  LET t == Left(s, a) IN
  /\ g \in Heaps
  /\ Chains(g, [t EXCEPT ![l] = InsertAt(t[l], k, a)])
  /\ \A e \in Entries : g.list[e] = IF e = a THEN l ELSE h.list[e]

LEMMA AppendIs ==
  ASSUME NEW h \in Heaps, NEW s, Chains(h, s), NEW a \in Entries, NEW l \in Lists
  PROVE  Puts(h, s, AppendTo(h, l, a), l, a, Len(Left(s, a)[l]) + 1)
<1> DEFINE p == Rem(h, a)
           t == Left(s, a)
           q == t[l]
           k == Len(q) + 1
           u == Link(Link(Adopt(p, l, a), p.last[l], a), a, NULL)
           g == AppendTo(h, l, a)
<1>1. /\ p \in Heaps /\ Chains(p, t)
      /\ \A e \in Entries : p.list[e] = IF e = a THEN NULL ELSE h.list[e]
  BY RemIs
<1>2. g = [u EXCEPT !.first[l] = IF p.last[l] = NULL THEN a ELSE @, !.last[l] = a]
  BY DEF AppendTo
<1> HIDE DEF p, t
<1>3. Places(p, l, q)
  BY <1>1, ChainAt DEF Chains
<1> HIDE DEF q
<1>4. /\ k \in 1..(Len(q) + 1) /\ k - 1 = Len(q) /\ At(q, k) = NULL
      /\ p.last[l] = At(q, k - 1) /\ At(q, k - 1) \in Entries \cup {NULL}
      /\ (At(q, k - 1) = NULL <=> k = 1)
      /\ At(q, k - 1) # a /\ NULL # a /\ l # NULL
  <2>1. Len(q) \in Nat /\ k \in Int /\ k \notin 1..Len(q) /\ k - 1 = Len(q)
        /\ k \in 1..(Len(q) + 1) /\ (Len(q) \in 1..Len(q) <=> k # 1)
    BY <1>3 DEF Places
  <2>2. p.list[a] # l /\ NULL # a /\ l # NULL
    BY <1>1, EntriesFinite
  <2> QED
    BY <1>3, <2>1, <2>2 DEF Places
<1> HIDE DEF k
<1>5. Between(p, u, l, a, At(q, k - 1), At(q, k))
  BY <1>1, <1>4, LinksBetween
<1> HIDE DEF u
<1>6. u \in Heaps /\ u.first = p.first /\ u.last = p.last
  BY <1>5 DEF Between
<1> HIDE DEF g
<1>7. /\ g.next = u.next /\ g.prev = u.prev /\ g.list = u.list /\ g.length = u.length
      /\ g.first = [u.first EXCEPT ![l] = IF p.last[l] = NULL THEN a ELSE @]
      /\ g.last = [u.last EXCEPT ![l] = a]
      /\ g \in Heaps
  BY <1>2, <1>6 DEF Heaps
<1>8. /\ u.last \in [Lists -> Entries \cup {NULL}]
      /\ u.first \in [Lists -> Entries \cup {NULL}]
  BY <1>6 DEF Heaps
<1>9. EndsSet(p, u, g, l, a, k, Len(q))
  BY <1>4, <1>6, <1>7, <1>8 DEF EndsSet, k
<1>10. Chains(g, [t EXCEPT ![l] = InsertAt(q, k, a)])
  <2>1. p.list[a] = NULL
    BY <1>1
  <2>2. q = t[l]
    BY DEF q
  <2> QED
    BY <1>1, <1>4, <1>5, <1>9, <2>1, <2>2, Placed
<1>11. \A e \in Entries : g.list[e] = IF e = a THEN l ELSE h.list[e]
  BY <1>1, <1>5, <1>7 DEF Between
<1> QED
  BY <1>7, <1>10, <1>11 DEF Puts, t, q, k, g

LEMMA PrependIs ==
  ASSUME NEW h \in Heaps, NEW s, Chains(h, s), NEW a \in Entries, NEW l \in Lists
  PROVE  Puts(h, s, PrependTo(h, l, a), l, a, 1)
<1> DEFINE p == Rem(h, a)
           t == Left(s, a)
           q == t[l]
           u == Link(Link(Adopt(p, l, a), a, p.first[l]), NULL, a)
           g == PrependTo(h, l, a)
<1>1. /\ p \in Heaps /\ Chains(p, t)
      /\ \A e \in Entries : p.list[e] = IF e = a THEN NULL ELSE h.list[e]
  BY RemIs
<1>2. g = [u EXCEPT !.last[l] = IF p.first[l] = NULL THEN a ELSE @, !.first[l] = a]
  BY DEF PrependTo
<1> HIDE DEF p, t
<1>3. Places(p, l, q)
  BY <1>1, ChainAt DEF Chains
<1> HIDE DEF q
<1>4. /\ 1 \in 1..(Len(q) + 1) /\ At(q, 1 - 1) = NULL
      /\ p.first[l] = At(q, 1) /\ At(q, 1) \in Entries \cup {NULL}
      /\ (At(q, 1) = NULL <=> 1 = Len(q) + 1)
      /\ At(q, 1) # a /\ NULL # a /\ l # NULL
  <2>1. Len(q) \in Nat /\ 1 - 1 \in Int /\ 1 - 1 \notin 1..Len(q)
        /\ 1 \in 1..(Len(q) + 1) /\ (1 \in 1..Len(q) <=> 1 # Len(q) + 1)
    BY <1>3 DEF Places
  <2>2. p.list[a] # l /\ NULL # a /\ l # NULL
    BY <1>1, EntriesFinite
  <2> QED
    BY <1>3, <2>1, <2>2 DEF Places
<1>5. Between(p, u, l, a, At(q, 1 - 1), At(q, 1))
  BY <1>1, <1>4, LinksBetween
<1> HIDE DEF u
<1>6. u \in Heaps /\ u.first = p.first /\ u.last = p.last
  BY <1>5 DEF Between
<1> HIDE DEF g
<1>7. /\ g.next = u.next /\ g.prev = u.prev /\ g.list = u.list /\ g.length = u.length
      /\ g.last = [u.last EXCEPT ![l] = IF p.first[l] = NULL THEN a ELSE @]
      /\ g.first = [u.first EXCEPT ![l] = a]
      /\ g \in Heaps
  BY <1>2, <1>6 DEF Heaps
<1>8. /\ u.last \in [Lists -> Entries \cup {NULL}]
      /\ u.first \in [Lists -> Entries \cup {NULL}]
  BY <1>6 DEF Heaps
<1>9. EndsSet(p, u, g, l, a, 1, Len(q))
  BY <1>4, <1>6, <1>7, <1>8 DEF EndsSet
<1>10. Chains(g, [t EXCEPT ![l] = InsertAt(q, 1, a)])
  <2>1. p.list[a] = NULL
    BY <1>1
  <2>2. q = t[l]
    BY DEF q
  <2> QED
    BY <1>1, <1>4, <1>5, <1>9, <2>1, <2>2, Placed
<1>11. \A e \in Entries : g.list[e] = IF e = a THEN l ELSE h.list[e]
  BY <1>1, <1>5, <1>7 DEF Between
<1> QED
  BY <1>7, <1>10, <1>11 DEF Puts, t, q, g

\* Where insert() puts an entry; the length is the one before it leaves.
PlaceOf(h, s, l, a, pos) ==
  IF h.length[l] <= pos THEN Len(Left(s, a)[l]) + 1 ELSE IF pos <= 1 THEN 1 ELSE pos

LEMMA LeftLen ==
  ASSUME NEW h, NEW s, Chains(h, s), NEW a \in Entries, NEW l \in Lists
  PROVE  /\ Left(s, a) \in [Lists -> Seq(Entries)]
         /\ Len(s[l]) \in Nat /\ Len(Left(s, a)[l]) \in Nat
         /\ Len(Left(s, a)[l]) >= Len(s[l]) - 1
         /\ h.list[a] = NULL => Left(s, a) = s
<1>1. s \in [Lists -> Seq(Entries)]
  BY DEF Chains
<1>2. ASSUME NEW m \in Lists, a \in ToSet(s[m])
      PROVE  LET t == RemoveAt(s[m], Abstract!IndexOf(s[m], a)) IN
             t \in Seq(Entries) /\ Len(t) = Len(s[m]) - 1
  BY <1>1, <1>2, IndexIs, RemovedIs
<1>3. Left(s, a) \in [Lists -> Seq(Entries)]
  BY <1>1, <1>2 DEF Left
<1>4. Len(s[l]) \in Nat /\ Len(Left(s, a)[l]) \in Nat
  BY <1>1, <1>3
<1>5. Len(Left(s, a)[l]) = Len(s[l]) - 1 \/ Len(Left(s, a)[l]) = Len(s[l])
  BY <1>2 DEF Left
<1>6. ASSUME h.list[a] = NULL PROVE Left(s, a) = s
  <2>1. \A m \in Lists : a \notin ToSet(s[m])
    BY <1>6, Member, EntriesFinite
  <2> QED
    BY <1>1, <2>1 DEF Left
<1> QED
  BY <1>3, <1>4, <1>5, <1>6

LEMMA InsertIs ==
  ASSUME NEW h \in Heaps, NEW s, Chains(h, s), NEW a \in Entries, NEW l \in Lists,
         NEW pos \in Nat
  PROVE  Puts(h, s, InsertInto(h, l, a, pos), l, a, PlaceOf(h, s, l, a, pos))
<1>1. CASE h.length[l] <= pos
  BY <1>1, AppendIs DEF InsertInto, PlaceOf
<1>2. CASE ~(h.length[l] <= pos) /\ pos <= 1
  BY <1>2, PrependIs DEF InsertInto, PlaceOf
<1>3. CASE ~(h.length[l] <= pos) /\ ~(pos <= 1)
  <2> DEFINE p == Rem(h, a)
             t == Left(s, a)
             q == t[l]
             ptr == Pick(p, l, pos)
             g == Link(Link(Adopt(p, l, a), p.prev[ptr], a), a, ptr)
  <2>1. /\ p \in Heaps /\ Chains(p, t)
        /\ \A e \in Entries : p.list[e] = IF e = a THEN NULL ELSE h.list[e]
    BY RemIs
  <2>2. InsertInto(h, l, a, pos) = g /\ PlaceOf(h, s, l, a, pos) = pos
    BY <1>3 DEF InsertInto, PlaceOf
  <2>3. Len(q) \in Nat /\ pos \in 2..Len(q)
    <3>1. h.length[l] = Len(s[l])
      BY ChainFacts DEF Chains
    <3>2. Len(s[l]) \in Nat /\ Len(q) \in Nat /\ Len(q) >= Len(s[l]) - 1
      BY LeftLen
    <3> QED
      BY <1>3, <3>1, <3>2
  <2> HIDE DEF p, t
  <2>4. Places(p, l, q) /\ ptr = At(q, pos)
    BY <2>1, ChainAt, PickIs DEF Chains
  <2> HIDE DEF q, ptr
  <2>5. /\ pos \in 1..Len(q) /\ pos \in 1..(Len(q) + 1) /\ pos - 1 \in 1..Len(q)
        /\ pos # 1 /\ pos # Len(q) + 1
    BY <2>3
  <2>6. /\ p.prev[ptr] = At(q, pos - 1)
        /\ At(q, pos) \in Entries /\ At(q, pos - 1) \in Entries
        /\ At(q, pos) # a /\ At(q, pos - 1) # a
    <3>1. p.list[a] # l
      BY <2>1, EntriesFinite
    <3> QED
      BY <2>4, <2>5, <3>1 DEF Places
  <2>7. Between(p, g, l, a, At(q, pos - 1), At(q, pos))
    BY <2>1, <2>4, <2>6, LinksBetween
  <2> HIDE DEF g
  <2>8. EndsSet(p, g, g, l, a, pos, Len(q))
    BY <2>5, <2>7 DEF Between, EndsSet
  <2>9. Chains(g, [t EXCEPT ![l] = InsertAt(q, pos, a)])
    <3>1. p.list[a] = NULL
      BY <2>1
    <3>2. q = t[l]
      BY DEF q
    <3> QED
      BY <2>1, <2>5, <2>7, <2>8, <3>1, <3>2, Placed
  <2>10. \A e \in Entries : g.list[e] = IF e = a THEN l ELSE h.list[e]
    BY <2>1, <2>7 DEF Between
  <2>11. g \in Heaps
    BY <2>7 DEF Between
  <2>12. Puts(h, s, g, l, a, pos)
    BY <2>9, <2>10, <2>11 DEF Puts, t, q
  <2> QED
    BY <2>2, <2>12
<1> QED
  BY <1>1, <1>2, <1>3

\* up() of an entry and down() of the one before it are the same change.
LEMMA SwapIs ==
  ASSUME NEW h \in Heaps, NEW s, Chains(h, s), NEW l \in Lists,
         NEW j \in 1..(Len(s[l]) - 1),
         NEW g \in {MoveUp(h, s[l][j + 1]), MoveDown(h, s[l][j])}
  PROVE  /\ g \in Heaps /\ Chains(g, [s EXCEPT ![l] = Swapped(s[l], j)])
         /\ g.list = h.list
<1> DEFINE q == s[l]
           w == At(q, j - 1)
           x == At(q, j)
           y == At(q, j + 1)
           z == At(q, j + 2)
           u == Link(h, w, y)
           v == Link(u, y, x)
           f == Link(v, x, z)
<1>1. Chain(h, l, q) /\ q \in Seq(Entries) /\ Places(h, l, q) /\ l # NULL
  BY ChainAt, EntriesFinite DEF Chains
<1>2. Len(q) \in Nat /\ j \in 1..(Len(q) - 1)
  BY <1>1
<1> HIDE DEF q
<1>3. /\ j \in 1..Len(q) /\ j + 1 \in 1..Len(q) /\ j - 1 \in Int /\ j + 2 \in Int
      /\ (j + 1) + 1 = j + 2 /\ (j + 1) - 1 = j
      /\ (j - 1 \notin 1..Len(q) <=> j = 1) /\ (j + 2 \notin 1..Len(q) <=> j + 1 = Len(q))
      /\ j # j - 1 /\ j # j + 1 /\ j # j + 2 /\ j - 1 # j + 2
      /\ j + 1 # j - 1 /\ j + 1 # j + 2
  BY <1>2
<1>4. /\ x \in Entries /\ y \in Entries
      /\ w \in Entries \cup {NULL} /\ z \in Entries \cup {NULL}
      /\ x # y /\ x # w /\ x # z /\ y # w /\ y # z
      /\ (w = NULL <=> j = 1) /\ (z = NULL <=> j + 1 = Len(q))
      /\ h.prev[x] = w /\ h.next[x] = y /\ h.prev[y] = x /\ h.next[y] = z
      /\ h.list[x] = l /\ h.list[y] = l
  BY <1>1, <1>3, SMTT(20) DEF Places
<1>5. s[l][j] = x /\ s[l][j + 1] = y
  BY <1>3 DEF At, q
<1> HIDE DEF w, x, y, z
<1>6. /\ g = [f EXCEPT !.last[l] = IF z = NULL THEN x ELSE @,
                       !.first[l] = IF w = NULL THEN y ELSE @]
      \/ g = [f EXCEPT !.first[l] = IF w = NULL THEN y ELSE @,
                       !.last[l] = IF z = NULL THEN x ELSE @]
  <2>1. g = MoveUp(h, y) \/ g = MoveDown(h, x)
    BY <1>5
  <2>2. MoveUp(h, y) = [f EXCEPT !.last[l] = IF z = NULL THEN x ELSE @,
                                 !.first[l] = IF w = NULL THEN y ELSE @]
    BY <1>4, ZenonT(40) DEF MoveUp
  <2>3. MoveDown(h, x) = [f EXCEPT !.first[l] = IF w = NULL THEN y ELSE @,
                                   !.last[l] = IF z = NULL THEN x ELSE @]
    BY <1>4 DEF MoveDown
  <2> QED
    BY <2>1, <2>2, <2>3
<1>7. Tied(h, u, w, y) /\ Tied(u, v, y, x) /\ Tied(v, f, x, z)
  <2>1. {x, y} \subseteq Entries \cup {NULL}
    BY <1>4
  <2>2. Tied(h, u, w, y)
    BY <1>4, <2>1, LinkIs
  <2>3. u \in Heaps
    BY <2>2 DEF Tied
  <2>4. Tied(u, v, y, x)
    BY <2>1, <2>3, LinkIs
  <2>5. v \in Heaps
    BY <2>4 DEF Tied
  <2>6. Tied(v, f, x, z)
    BY <1>4, <2>1, <2>5, LinkIs
  <2> QED
    BY <2>2, <2>4, <2>6
<1> HIDE DEF u, v, f
<1>8. /\ f \in Heaps
      /\ f.list = h.list /\ f.first = h.first /\ f.last = h.last /\ f.length = h.length
      /\ \A e \in Entries :
           /\ f.next[e] = IF e = x THEN z ELSE IF e = y THEN x
                          ELSE IF e = w THEN y ELSE h.next[e]
           /\ f.prev[e] = IF e = z THEN x ELSE IF e = x THEN y
                          ELSE IF e = y THEN w ELSE h.prev[e]
  BY <1>7 DEF Tied
<1>9. /\ f.last \in [Lists -> Entries \cup {NULL}]
      /\ f.first \in [Lists -> Entries \cup {NULL}]
  BY <1>8 DEF Heaps
<1>10. /\ g.next = f.next /\ g.prev = f.prev /\ g.list = f.list /\ g.length = f.length
       /\ g.first = [f.first EXCEPT ![l] = IF w = NULL THEN y ELSE @]
       /\ g.last = [f.last EXCEPT ![l] = IF z = NULL THEN x ELSE @]
       /\ g \in Heaps
  <2>1. /\ [f.first EXCEPT ![l] = IF w = NULL THEN y ELSE @]
              \in [Lists -> Entries \cup {NULL}]
        /\ [f.last EXCEPT ![l] = IF z = NULL THEN x ELSE @]
              \in [Lists -> Entries \cup {NULL}]
    BY <1>4, <1>9
  <2>2. g = [f EXCEPT !.first = [f.first EXCEPT ![l] = IF w = NULL THEN y ELSE @],
                      !.last = [f.last EXCEPT ![l] = IF z = NULL THEN x ELSE @]]
    BY <1>6, <1>8 DEF Heaps
  <2> QED
    BY <1>8, <2>1, <2>2 DEF Heaps
<1>11. SwappedIn(h, g, l, w, x, y, z, j = 1, j + 1 = Len(q))
  BY <1>4, <1>8, <1>9, <1>10 DEF SwappedIn
<1>12. Chain(g, l, Swapped(q, j))
  BY <1>1, <1>2, <1>11, ChainSwapped DEF w, x, y, z
<1>13. ASSUME NEW m \in Lists, m # l PROVE Chain(g, m, s[m])
  <2>1. Chain(h, m, s[m]) /\ m # NULL
    BY EntriesFinite DEF Chains
  <2>2. \A e \in Entries : h.list[e] = m => e # w /\ e # x /\ e # y /\ e # z
    <3>1. \A i \in Int : \A e \in Entries : h.list[e] = m => e # At(q, i)
      BY <1>1, <1>13 DEF Places
    <3> QED
      BY <1>3, <3>1 DEF w, x, y, z
  <2>3. \A e \in Entries :
           /\ h.list[e] = m => /\ g.next[e] = h.next[e] /\ g.prev[e] = h.prev[e]
                               /\ g.list[e] = m
           /\ g.list[e] = m => h.list[e] = m
    BY <1>11, <2>2 DEF SwappedIn
  <2>4. g.first[m] = h.first[m] /\ g.last[m] = h.last[m] /\ g.length[m] = h.length[m]
    BY <1>11, <1>13 DEF SwappedIn
  <2> QED
    BY <2>1, <2>3, <2>4, ChainKept
<1>14. Swapped(q, j) \in Seq(Entries)
  BY <1>1, <1>2, SwappedIs
<1>15. s \in [Lists -> Seq(Entries)]
  BY DEF Chains
<1>16. Chains(g, [s EXCEPT ![l] = Swapped(q, j)])
  BY <1>12, <1>13, <1>14, <1>15 DEF Chains
<1> QED
  BY <1>8, <1>10, <1>16 DEF q

(***************************************************************************)
(* The invariant: every list stands for the sequence read from it, and no  *)
(* entry outside memory is in a list.                                      *)
(***************************************************************************)
LinkInv ==
  /\ TypeOK
  /\ Chains(heap, Orders(heap))
  /\ \A e \in Entries \ existing : heap.list[e] = NULL

LEMMA LinkInit == Init => LinkInv /\ Abstract!Init
<1> SUFFICES ASSUME Init PROVE LinkInv /\ Abstract!Init
  OBVIOUS
<1> DEFINE s == [l \in Lists |-> <<>>]
<1>1. TypeOK
  BY DEF Init, TypeOK, Heaps
<1>2. ASSUME NEW l \in Lists PROVE Chain(heap, l, <<>>)
  <2>1. /\ heap.first[l] = NULL /\ heap.last[l] = NULL /\ heap.length[l] = 0
        /\ \A e \in Entries : heap.list[e] # l
    BY EntriesFinite DEF Init
  <2>2. <<>> \in Seq(Entries) /\ Len(<<>>) = 0 /\ 1..0 = {}
    OBVIOUS
  <2>3. At(<<>>, 1) = NULL /\ At(<<>>, Len(<<>>)) = NULL
    BY <2>2 DEF At
  <2> QED
    BY <2>1, <2>2, <2>3 DEF Chain
<1>3. Chains(heap, s)
  BY <1>2 DEF Chains
<1>4. Orders(heap) = s
  BY <1>3, OrdersAre
<1>5. \A e \in Entries : heap.list[e] = NULL
  BY DEF Init
<1>6. [l \in Lists |-> Order(l)] = s
  BY <1>4 DEF Orders, Order
<1> QED
  BY <1>1, <1>3, <1>4, <1>5, <1>6 DEF LinkInv, Init, Abstract!Init

\* What a step has to show.
LEMMA Held ==
  ASSUME LinkInv, heap' \in Heaps, NEW t, Chains(heap', t), existing' \subseteq Entries,
         \A e \in Entries \ existing' : heap'.list[e] = NULL
  PROVE  LinkInv' /\ [l \in Lists |-> Order(l)]' = t
<1>1. Orders(heap') = t
  BY OrdersAre
<1>2. [l \in Lists |-> Order(l)]' = Orders(heap')
  BY DEF Orders, Order
<1>3. LinkInv'
  BY <1>1 DEF LinkInv, TypeOK
<1> QED
  BY <1>1, <1>2, <1>3

\* What the promise sees of the lists is what Orders reads.
LEMMA Seen ==
  /\ [l \in Lists |-> Order(l)] = Orders(heap)
  /\ \A e : Abstract!Without(e) = Left(Orders(heap), e)
BY DEF Orders, Order, Left, Abstract!Without, Abstract!ToSet, ToSet,
       Abstract!RemoveAt, RemoveAt

\* Deletion clears the links of an entry that is in no list.
Cleared(h, g, a) ==
  /\ g.list = h.list /\ g.first = h.first /\ g.last = h.last /\ g.length = h.length
  /\ \A e \in Entries : e # a => g.next[e] = h.next[e] /\ g.prev[e] = h.prev[e]

LEMMA ClearedIs ==
  ASSUME NEW h, NEW s, Chains(h, s), NEW a \in Entries, h.list[a] = NULL,
         NEW g, Cleared(h, g, a)
  PROVE  Chains(g, s)
<1>1. ASSUME NEW l \in Lists PROVE Chain(g, l, s[l])
  <2>1. Chain(h, l, s[l]) /\ l # NULL
    BY EntriesFinite DEF Chains
  <2>2. \A e \in Entries :
           /\ h.list[e] = l => /\ g.next[e] = h.next[e] /\ g.prev[e] = h.prev[e]
                               /\ g.list[e] = l
           /\ g.list[e] = l => h.list[e] = l
    BY <2>1 DEF Cleared
  <2>3. g.first[l] = h.first[l] /\ g.last[l] = h.last[l] /\ g.length[l] = h.length[l]
    BY DEF Cleared
  <2> QED
    BY <2>1, <2>2, <2>3, ChainKept
<1> QED
  BY <1>1 DEF Chains

\* A call that puts an entry in a list.
LEMMA PutStep ==
  ASSUME LinkInv, NEW l \in Lists, NEW a \in Entries, Call(a), NEW k,
         Puts(heap, Orders(heap), heap', l, a, k),
         k \in 1..(Len(Left(Orders(heap), a)[l]) + 1)
  PROVE  LinkInv' /\ Abstract!Next
<1> DEFINE t == Left(Orders(heap), a)
           r == [t EXCEPT ![l] = InsertAt(t[l], k, a)]
<1>1. /\ heap' \in Heaps /\ Chains(heap', r)
      /\ \A e \in Entries : heap'.list[e] = IF e = a THEN l ELSE heap.list[e]
  BY DEF Puts
<1>2. existing' = existing /\ a \in existing /\ existing \subseteq Entries
  BY DEF Call, LinkInv, TypeOK
<1>3. LinkInv' /\ [m \in Lists |-> Order(m)]' = r
  BY <1>1, <1>2, Held DEF LinkInv
<1>4. Abstract!Place(l, a)
  BY <1>2, <1>3, Seen DEF Abstract!Place, Abstract!InsertAt, InsertAt
<1> QED
  BY <1>3, <1>4 DEF Abstract!Next

LEMMA SwapStep ==
  ASSUME LinkInv, NEW a \in Entries, Up(a) \/ Down(a)
  PROVE  LinkInv' /\ Abstract!Next
<1> DEFINE s == Orders(heap)
           l == heap.list[a]
<1>1. /\ heap \in Heaps /\ Chains(heap, s) /\ l \in Lists
      /\ a \in existing /\ existing' = existing /\ existing \subseteq Entries
  BY DEF LinkInv, TypeOK, Heaps, Up, Down, Call
<1> HIDE DEF s
<1>2. Places(heap, l, s[l]) /\ s[l] \in Seq(Entries)
  BY <1>1, ChainAt DEF Chains
<1>3. PICK k \in 1..Len(s[l]) : At(s[l], k) = a
  BY <1>2 DEF Places
<1>4. /\ Len(s[l]) \in Nat /\ s[l][k] = a
      /\ heap.next[a] = At(s[l], k + 1) /\ heap.prev[a] = At(s[l], k - 1)
  BY <1>2, <1>3 DEF Places, At
<1>5. PICK j \in 1..(Len(s[l]) - 1) :
        heap' \in {MoveUp(heap, s[l][j + 1]), MoveDown(heap, s[l][j])}
  <2>1. CASE Up(a)
    <3>1. k - 1 \in 1..(Len(s[l]) - 1) /\ (k - 1) + 1 = k
      BY <1>3, <1>4, <2>1 DEF Up, At
    <3>2. heap' = MoveUp(heap, s[l][(k - 1) + 1])
      BY <1>4, <2>1, <3>1 DEF Up
    <3> QED
      BY <3>1, <3>2
  <2>2. CASE Down(a)
    <3>1. k \in 1..(Len(s[l]) - 1)
      BY <1>3, <1>4, <2>2 DEF Down, At
    <3>2. heap' = MoveDown(heap, s[l][k])
      BY <1>4, <2>2 DEF Down
    <3> QED
      BY <3>1, <3>2
  <2> QED
    BY <2>1, <2>2
<1> DEFINE r == [s EXCEPT ![l] = Swapped(s[l], j)]
<1>6. heap' \in Heaps /\ Chains(heap', r) /\ heap'.list = heap.list
  BY <1>1, <1>5, SwapIs
<1>7. LinkInv' /\ [m \in Lists |-> Order(m)]' = r
  BY <1>1, <1>6, Held DEF LinkInv
<1>8. Abstract!SwapNext(l)
  <2>1. r = [s EXCEPT ![l][j] = s[l][j + 1], ![l][j + 1] = s[l][j]]
    BY <1>1 DEF Swapped, Chains
  <2>2. [m \in Lists |-> Order(m)] = s
    BY Seen DEF s
  <2>3. existing' = existing
    BY <1>1
  <2> HIDE DEF r, l
  <2> QED
    BY <1>5, <1>7, <2>1, <2>2, <2>3 DEF Abstract!SwapNext
<1> QED
  BY <1>1, <1>7, <1>8 DEF Abstract!Next

LEMMA DeleteStep ==
  ASSUME LinkInv, NEW a \in Entries, Delete(a) \/ RemEntry(a)
  PROVE  LinkInv' /\ Abstract!Next
<1> DEFINE t == Left(Orders(heap), a)
<1>1. /\ Rem(heap, a) \in Heaps /\ Chains(Rem(heap, a), t)
      /\ \A e \in Entries : Rem(heap, a).list[e] = IF e = a THEN NULL ELSE heap.list[e]
  BY RemIs DEF LinkInv, TypeOK
<1>2. /\ heap' \in Heaps /\ Chains(heap', t)
      /\ \A e \in Entries : heap'.list[e] = IF e = a THEN NULL ELSE heap.list[e]
  <2>1. CASE Delete(a)
    <3>1. Rem(heap, a).list[a] = NULL
      BY <1>1
    <3>2. heap' = [Rem(heap, a) EXCEPT !.next[a] = NULL, !.prev[a] = NULL]
      BY <2>1 DEF Delete
    <3>3. heap' \in Heaps /\ Chains(heap', t) /\ heap'.list = Rem(heap, a).list
      <4> DEFINE p == Rem(heap, a)
      <4>1. p \in Heaps /\ Chains(p, t) /\ p.list[a] = NULL
            /\ heap' = [p EXCEPT !.next[a] = NULL, !.prev[a] = NULL]
        BY <1>1, <3>1, <3>2
      <4> HIDE DEF p, t
      <4>2. heap' \in Heaps /\ heap'.list = p.list /\ Cleared(p, heap', a)
        BY <4>1 DEF Heaps, Cleared
      <4>3. Chains(heap', t)
        BY <4>1, <4>2, ClearedIs
      <4> QED
        BY <4>2, <4>3 DEF p
    <3> QED
      BY <1>1, <3>3
  <2>2. CASE RemEntry(a)
    BY <1>1, <2>2 DEF RemEntry
  <2> QED
    BY <2>1, <2>2
<1>3. /\ a \in existing /\ existing \subseteq Entries
      /\ existing' = existing \ {a} \/ existing' = existing
  BY DEF Delete, RemEntry, Call, LinkInv, TypeOK
<1>4. LinkInv' /\ [m \in Lists |-> Order(m)]' = t
  BY <1>2, <1>3, Held DEF LinkInv
<1>5. [m \in Lists |-> Order(m)]' = Abstract!Without(a)
  BY <1>4, Seen
<1>6. Abstract!Delete(a) \/ Abstract!TakeOut(a)
  BY <1>5 DEF Delete, RemEntry, Call, Abstract!Delete, Abstract!TakeOut
<1> QED
  BY <1>4, <1>6 DEF Abstract!Next

LEMMA NewStep ==
  ASSUME LinkInv, NEW a \in Entries, New(a)
  PROVE  LinkInv' /\ Abstract!Next
<1>1. heap' = heap /\ a \notin existing /\ existing' = existing \cup {a}
  BY DEF New
<1>2. LinkInv' /\ [m \in Lists |-> Order(m)]' = Orders(heap)
  BY <1>1, Held DEF LinkInv, TypeOK
<1>3. Abstract!New(a)
  BY <1>1, <1>2, Seen DEF Abstract!New
<1> QED
  BY <1>2, <1>3 DEF Abstract!Next

LEMMA PickedIs ==
  ASSUME LinkInv, NEW l \in Lists, NEW pos \in 0..MaxPos, Pick(heap, l, pos) # NULL
  PROVE  Pick(heap, l, pos) \in Entries
<1>1. Chain(heap, l, Orders(heap)[l]) /\ pos \in Nat
  BY EntriesFinite DEF LinkInv, Chains
<1>2. Pick(heap, l, pos) = At(Orders(heap)[l], pos)
  BY <1>1, PickIs
<1> QED
  BY <1>1, <1>2, ChainFacts DEF At

LEMMA LinkStep ==
  ASSUME LinkInv, [Next]_vars
  PROVE  LinkInv' /\ [Abstract!Next]_(Abstract!vars)
<1>0. heap \in Heaps /\ Chains(heap, Orders(heap))
  BY DEF LinkInv, TypeOK
<1>1. ASSUME NEW a \in Entries, New(a) PROVE LinkInv' /\ Abstract!Next
  BY <1>1, NewStep
<1>2. ASSUME NEW a \in Entries, Delete(a) \/ RemEntry(a) PROVE LinkInv' /\ Abstract!Next
  BY <1>2, DeleteStep
<1>3. ASSUME NEW a \in Entries, Up(a) \/ Down(a) PROVE LinkInv' /\ Abstract!Next
  BY <1>3, SwapStep
<1>4. ASSUME NEW l \in Lists, NEW a \in Entries
      PROVE  /\ Len(Left(Orders(heap), a)[l]) \in Nat
             /\ Len(Orders(heap)[l]) \in Nat /\ heap.length[l] = Len(Orders(heap)[l])
             /\ Len(Left(Orders(heap), a)[l]) >= Len(Orders(heap)[l]) - 1
  BY <1>0, LeftLen, ChainFacts DEF Chains
<1>5. ASSUME NEW l \in Lists, NEW a \in Entries, AppendEntry(l, a)
      PROVE  LinkInv' /\ Abstract!Next
  <2>1. Puts(heap, Orders(heap), heap', l, a, Len(Left(Orders(heap), a)[l]) + 1)
    BY <1>0, <1>5, AppendIs DEF AppendEntry
  <2>2. Len(Left(Orders(heap), a)[l]) + 1 \in 1..(Len(Left(Orders(heap), a)[l]) + 1)
    BY <1>4
  <2> QED
    BY <1>5, <2>1, <2>2, PutStep DEF AppendEntry
<1>6. ASSUME NEW l \in Lists, NEW a \in Entries, PrependEntry(l, a)
      PROVE  LinkInv' /\ Abstract!Next
  <2>1. Puts(heap, Orders(heap), heap', l, a, 1)
    BY <1>0, <1>6, PrependIs DEF PrependEntry
  <2>2. 1 \in 1..(Len(Left(Orders(heap), a)[l]) + 1)
    BY <1>4
  <2> QED
    BY <1>6, <2>1, <2>2, PutStep DEF PrependEntry
<1>7. ASSUME NEW l \in Lists, NEW a \in Entries, NEW pos \in 0..MaxPos,
             InsertEntry(l, a, pos)
      PROVE  LinkInv' /\ Abstract!Next
  <2>0. pos \in Nat
    BY EntriesFinite
  <2> DEFINE k == PlaceOf(heap, Orders(heap), l, a, pos)
  <2>1. Puts(heap, Orders(heap), heap', l, a, k)
    BY <1>0, <1>7, <2>0, InsertIs DEF InsertEntry
  <2>2. k \in 1..(Len(Left(Orders(heap), a)[l]) + 1)
    BY <1>4, <2>0 DEF PlaceOf
  <2> QED
    BY <1>7, <2>1, <2>2, PutStep DEF InsertEntry
<1>8. ASSUME NEW l \in Lists, NEW pos \in 0..MaxPos, RemAt(l, pos) \/ DeleteAt(l, pos)
      PROVE  LinkInv' /\ Abstract!Next
  BY <1>2, <1>8, PickedIs DEF RemAt, DeleteAt
<1>9. CASE UNCHANGED vars
  <2>1. heap' = heap /\ existing' = existing
    BY <1>9 DEF vars
  <2>2. LinkInv' /\ [m \in Lists |-> Order(m)]' = Orders(heap)
    BY <2>1, Held DEF LinkInv, TypeOK
  <2> QED
    BY <2>1, <2>2, Seen DEF Abstract!vars
<1> QED
  BY <1>1, <1>2, <1>3, <1>5, <1>6, <1>7, <1>8, <1>9 DEF Next

LEMMA LinkCorrect == Spec => []LinkInv
<1>1. LinkInv /\ [Next]_vars => LinkInv'
  BY LinkStep
<1> QED
  BY <1>1, LinkInit, PTL DEF Spec

(***************************************************************************)
(* What it gives.                                                          *)
(***************************************************************************)
\* Every pointer of an entry or a list points to an entry in memory's range or
\* to nothing, and the length of a list is never negative, whatever is called
\* in whatever order (linklist.h, linklist.cpp:51-447).
THEOREM LinkTypesCorrect == Spec => []TypeOK
<1>1. LinkInv => TypeOK
  BY DEF LinkInv
<1> QED
  BY <1>1, LinkCorrect, PTL

\* The two directions of every list agree, its length counts it, and it holds
\* the entries that name it as theirs, none of them deleted, for any number of
\* entries and lists and any sequence of calls (linklist.cpp:51-133, 317-380,
\* 421-447).
THEOREM LinksCorrect == Spec => []WellFormed
<1>1. LinkInv => WellFormed
  <2> SUFFICES ASSUME LinkInv, NEW l \in Lists
               PROVE  LET s == Order(l) IN
                      /\ heap.last[l] = IF s = <<>> THEN NULL ELSE Last(s)
                      /\ \A i \in 1..Len(s) :
                           heap.prev[s[i]] = IF i = 1 THEN NULL ELSE s[i - 1]
                      /\ heap.length[l] = Len(s)
                      /\ ToSet(s) = {e \in existing : heap.list[e] = l}
                      /\ \A e \in Entries \ existing : heap.list[e] = NULL
    BY DEF WellFormed
  <2> DEFINE s == Order(l)
  <2>1. Orders(heap)[l] = s
    BY DEF Orders, Order
  <2>2. Chain(heap, l, s) /\ Chains(heap, Orders(heap))
    BY <2>1 DEF LinkInv, Chains
  <2>3. \A e \in Entries : e \in ToSet(s) <=> heap.list[e] = l
    BY <2>1, <2>2, Member
  <2> HIDE DEF s
  <2>4. /\ s \in Seq(Entries) /\ Len(s) \in Nat
        /\ heap.last[l] = At(s, Len(s)) /\ heap.length[l] = Len(s)
        /\ \A i \in 1..Len(s) : heap.prev[s[i]] = At(s, i - 1)
    BY <2>2 DEF Chain
  <2>5. heap.last[l] = IF s = <<>> THEN NULL ELSE Last(s)
    BY <2>4 DEF At, Last
  <2>6. \A i \in 1..Len(s) : heap.prev[s[i]] = IF i = 1 THEN NULL ELSE s[i - 1]
    BY <2>4 DEF At
  <2>7. ToSet(s) \subseteq Entries
    BY <2>4 DEF ToSet
  <2>8. ToSet(s) = {e \in existing : heap.list[e] = l}
    BY <2>3, <2>7, EntriesFinite DEF LinkInv, TypeOK
  <2>9. \A e \in Entries \ existing : heap.list[e] = NULL
    BY DEF LinkInv
  <2> QED
    BY <2>4, <2>5, <2>6, <2>8, <2>9 DEF s
<1> QED
  BY <1>1, LinkCorrect, PTL

\* Every call of the library puts, takes out or swaps the entries it was given
\* and leaves the order of the others: the pointers implement EntryLists, step
\* by step (linklist.cpp:51-183, 317-447).
THEOREM OrderCorrect == Spec => KeepsOrder
<1>1. LinkInv /\ [Next]_vars => LinkInv' /\ [Abstract!Next]_(Abstract!vars)
  BY LinkStep
<1> QED
  BY <1>1, LinkInit, PTL DEF Spec, KeepsOrder, Abstract!Spec

\* Where an insertion puts an entry, one of the list itself or of another or of
\* none, at any position (linklist.cpp:141-168).
THEOREM InsertCorrect == Spec => InsertLands
<1> DEFINE Rest(l, a) == Abstract!Without(a)[l]
           Landing(l, a, pos) ==
             IF pos < Len(Order(l)) THEN pos ELSE Len(Rest(l, a)) + 1
           A == \A l \in Lists, a \in existing, pos \in 1..MaxPos :
                  InsertEntry(l, a, pos) =>
                    Order(l)' = InsertAt(Rest(l, a), Landing(l, a, pos), a)
<1>1. LinkInv => [A]_vars
  <2> SUFFICES ASSUME LinkInv, NEW l \in Lists, NEW a \in existing,
                      NEW pos \in 1..MaxPos, InsertEntry(l, a, pos)
               PROVE  Order(l)' = InsertAt(Rest(l, a), Landing(l, a, pos), a)
    OBVIOUS
  <2> DEFINE s == Orders(heap)
             t == Left(s, a)
  <2>1. /\ heap \in Heaps /\ Chains(heap, s) /\ a \in Entries /\ pos \in Nat
        /\ pos >= 1
    BY EntriesFinite DEF LinkInv, TypeOK
  <2>2. Order(l) = s[l] /\ Order(l)' = Orders(heap')[l]
    BY DEF Order, Orders
  <2>3. Rest(l, a) = t[l]
    BY Seen
  <2>4. /\ heap.length[l] = Len(s[l]) /\ Len(s[l]) \in Nat
        /\ t \in [Lists -> Seq(Entries)]
    BY <2>1, ChainFacts, LeftLen DEF Chains
  <2>5. PlaceOf(heap, s, l, a, pos) = Landing(l, a, pos)
    <3>1. Landing(l, a, pos) =
            IF pos < Len(s[l]) THEN pos ELSE Len(t[l]) + 1
      BY <2>2, <2>3
    <3> HIDE DEF Landing, s, t
    <3> QED
      BY <2>1, <2>4, <3>1 DEF PlaceOf, t
  <2>6. Puts(heap, s, heap', l, a, Landing(l, a, pos))
    BY <2>1, <2>5, InsertIs DEF InsertEntry
  <2> HIDE DEF s, Landing, Rest
  <2>7. Orders(heap') = [t EXCEPT ![l] = InsertAt(t[l], Landing(l, a, pos), a)]
    BY <2>6, OrdersAre DEF Puts
  <2>8. Orders(heap')[l] = InsertAt(t[l], Landing(l, a, pos), a)
    BY <2>4, <2>7
  <2> QED
    BY <2>2, <2>3, <2>8
<1>2. [][A]_vars => InsertLands
  BY DEF InsertLands
<1> HIDE DEF A
<1> QED
  BY <1>1, <1>2, LinkCorrect, PTL DEF Spec
=============================================================================
