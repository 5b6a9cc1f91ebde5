------------------------------ MODULE FoldSteps ------------------------------
(***************************************************************************)
(* A fold over a sequence, one element after the other.  FoldLeft is       *)
(* defined by way of the sets of indices that are left; what is folded so  *)
(* far is easier to reason about, and is all that the proofs about folds   *)
(* need.  It holds of any operation: a proof INSTANCEs this module with    *)
(* the operation that the model folds.                                     *)
(***************************************************************************)
EXTENDS SequencesExt, WellFoundedInduction, TLAPS

CONSTANT Op(_, _)   (* What is so far, and the next element.              *)

Fold(base, seq) == FoldLeft(Op, base, seq)

\* What holds of 0, and of a number when it holds of the one before, holds up
\* to any number: induction, of which the set is what holds.
LEMMA Climb ==
  ASSUME NEW n \in Nat, NEW T, 0 \in T,
         \A m \in 0..(n - 1) : m \in T => m + 1 \in T
  PROVE  \A m \in 0..n : m \in T
<1> DEFINE R == OpToRel(<, Nat)
           Left == {m \in 0..n : m \notin T}
<1>1. \A x, y \in Nat : <<y, x>> \in R <=> y < x
  BY DEF OpToRel
<1>2. IsWellFoundedOn(R, Nat)
  BY NatLessThanWellFounded
<1> HIDE DEF R
<1>3. SUFFICES ASSUME Left # {} PROVE FALSE
  OBVIOUS
<1>4. Left \subseteq Nat
  OBVIOUS
<1>5. \E x \in Left : \A y \in Left : <<y, x>> \notin R
  BY <1>2, <1>3, <1>4, WFMin
<1>6. PICK x \in Left : \A y \in Left : ~(y < x)
  BY <1>1, <1>4, <1>5
<1>7. x \in Nat /\ x # 0 /\ x <= n
  OBVIOUS
<1>8. x - 1 \in 0..(n - 1) /\ x - 1 \notin Left
  BY <1>6, <1>7
<1>9. x - 1 \in T
  BY <1>8
<1> QED
  BY <1>7, <1>8, <1>9

\* The equation that FoldLeft chooses a function of.
Folds(iter, base, seq, n) ==
  iter = [s \in SUBSET (1..n) |->
            IF s = {} THEN base ELSE Op(iter[s \ {Max(s)}], seq[Max(s)])]

LEMMA MaxIs ==
  ASSUME NEW n \in Nat, NEW s \in SUBSET (1..n), n \in s
  PROVE  Max(s) = n
<1>1. \A x \in s : x \in Nat /\ n >= x
  OBVIOUS
<1>2. \A x \in s : (\A y \in s : x >= y) => x = n
  BY <1>1
<1> QED
  BY <1>1, <1>2 DEF Max

\* It has a solution.
LEMMA FoldsExist ==
  ASSUME NEW base, NEW seq, NEW n \in Nat
  PROVE  \E iter : Folds(iter, base, seq, n)
<1> DEFINE T == {m \in 0..n : \E iter : Folds(iter, base, seq, m)}
<1>1. 0 \in T
  <2> DEFINE it == [s \in SUBSET (1..0) |-> base]
  <2>1. Folds(it, base, seq, 0)
    BY DEF Folds
  <2> QED
    BY <2>1
<1>2. ASSUME NEW m \in 0..(n - 1), m \in T
      PROVE  m + 1 \in T
  <2>1. PICK it : Folds(it, base, seq, m)
    BY <1>2
  <2> DEFINE two == [s \in SUBSET (1..(m + 1)) |->
                       IF m + 1 \in s THEN Op(it[s \ {m + 1}], seq[m + 1])
                       ELSE it[s]]
  <2>2. ASSUME NEW s \in SUBSET (1..(m + 1))
        PROVE  two[s] = IF s = {} THEN base
                        ELSE Op(two[s \ {Max(s)}], seq[Max(s)])
    <3>1. CASE m + 1 \in s
      <4>1. Max(s) = m + 1
        BY <3>1, MaxIs
      <4>2. s \ {m + 1} \in SUBSET (1..(m + 1)) /\ m + 1 \notin s \ {m + 1}
        OBVIOUS
      <4>3. two[s \ {m + 1}] = it[s \ {m + 1}]
        BY <4>2
      <4> QED
        BY <3>1, <4>1, <4>3
    <3>2. CASE m + 1 \notin s
      <4>1. s \in SUBSET (1..m)
        BY <3>2
      <4>2. it[s] = IF s = {} THEN base ELSE Op(it[s \ {Max(s)}], seq[Max(s)])
        BY <2>1, <4>1 DEF Folds
      <4>3. two[s] = it[s]
        BY <3>2
      <4>4. /\ s \ {Max(s)} \in SUBSET (1..(m + 1))
            /\ m + 1 \notin s \ {Max(s)}
        BY <3>2
      <4>5. two[s \ {Max(s)}] = it[s \ {Max(s)}]
        BY <4>4
      <4> QED
        BY <4>2, <4>3, <4>5
    <3> QED
      BY <3>1, <3>2
  <2>3. Folds(two, base, seq, m + 1)
    <3>1. two = [s \in SUBSET (1..(m + 1)) |-> two[s]]
      OBVIOUS
    <3> HIDE DEF two
    <3> QED
      BY <2>2, <3>1 DEF Folds
  <2> QED
    BY <2>3
<1> HIDE DEF T
<1>3. n \in T
  BY <1>1, <1>2, Climb
<1> QED
  BY <1>3 DEF T

\* g is what is folded after each of the n elements: it starts with the base,
\* takes one more element each time, and is the fold in the end.
Steps(g, base, seq, n) ==
  /\ g[0] = base
  /\ \A i \in 1..n : g[i] = Op(g[i - 1], seq[i])
  /\ Fold(base, seq) = g[n]

\* Every fold over a sequence has its steps.
THEOREM FoldLeftSteps ==
  ASSUME NEW base, NEW seq, NEW n \in Nat, DOMAIN seq = 1..n
  PROVE  \E g : Steps(g, base, seq, n)
<1> DEFINE it == CHOOSE iter : Folds(iter, base, seq, n)
<1>1. Fold(base, seq) = it[1..n]
  BY DEF Fold, FoldLeft, MapThenFoldSet, Folds
<1>2. Folds(it, base, seq, n)
  BY FoldsExist
<1> HIDE DEF it
<1>3. \A s \in SUBSET (1..n) :
        it[s] = IF s = {} THEN base ELSE Op(it[s \ {Max(s)}], seq[Max(s)])
  BY <1>2 DEF Folds
<1> DEFINE g == [i \in 0..n |-> it[1..i]]
<1>4. g[0] = base
  <2>1. 1..0 = {} /\ 1..0 \in SUBSET (1..n) /\ 0 \in 0..n
    OBVIOUS
  <2>2. it[1..0] = base
    BY <1>3, <2>1
  <2> QED
    BY <2>1, <2>2
<1>5. ASSUME NEW i \in 1..n
      PROVE  g[i] = Op(g[i - 1], seq[i])
  <2>1. /\ 1..i \in SUBSET (1..n) /\ i \in 1..i /\ 1..i # {}
        /\ (1..i) \ {i} = 1..(i - 1)
    <3>1. \A j : j \in (1..i) \ {i} <=> j \in 1..(i - 1)
      OBVIOUS
    <3> QED
      BY <3>1
  <2>2. Max(1..i) = i
    BY <2>1, MaxIs
  <2>3. it[1..i] = Op(it[1..(i - 1)], seq[i])
    BY <1>3, <2>1, <2>2
  <2>4. g[i] = it[1..i] /\ g[i - 1] = it[1..(i - 1)]
    OBVIOUS
  <2> QED
    BY ONLY <2>3, <2>4
<1>6. g[n] = it[1..n]
  OBVIOUS
<1> HIDE DEF g
<1>7. Steps(g, base, seq, n)
  BY <1>1, <1>4, <1>5, <1>6 DEF Steps
<1> QED
  BY <1>7
=============================================================================
