------------------------------ MODULE EntryLists ------------------------------
(***************************************************************************)
(* What the class Linklist promises to the decoders and the editor: lists  *)
(* of entries, in an order, an entry in one list at most.  No pointers.    *)
(***************************************************************************)
EXTENDS Integers, SequencesExt

CONSTANTS Entries, Lists

VARIABLES order,     (* The entries of each list.                          *)
          existing   (* The entries in memory.                             *)

vars == <<order, existing>>

Init ==
  /\ order = [l \in Lists |-> <<>>]
  /\ existing = {}

IndexOf(s, e) == CHOOSE i \in DOMAIN s : s[i] = e

\* The lists without e: an entry leaves its list before it enters another.
Without(e) ==
  [l \in Lists |-> IF e \in ToSet(order[l]) THEN RemoveAt(order[l], IndexOf(order[l], e))
                                          ELSE order[l]]

New(e) ==
  /\ e \notin existing
  /\ existing' = existing \cup {e}
  /\ UNCHANGED order

Delete(e) ==
  /\ e \in existing
  /\ existing' = existing \ {e}
  /\ order' = Without(e)

\* Append, prepend and insert: e takes some place in l, and nothing else moves.
Place(l, e) ==
  /\ e \in existing
  /\ \E i \in 1..(Len(Without(e)[l]) + 1) :
       order' = [Without(e) EXCEPT ![l] = InsertAt(@, i, e)]
  /\ UNCHANGED existing

TakeOut(e) ==
  /\ e \in existing
  /\ order' = Without(e)
  /\ UNCHANGED existing

\* Up and down: two neighbours change places.
SwapNext(l) ==
  /\ \E i \in 1..(Len(order[l]) - 1) :
       order' = [order EXCEPT ![l][i] = order[l][i + 1],
                              ![l][i + 1] = order[l][i]]
  /\ UNCHANGED existing

Next ==
  \/ \E e \in Entries : New(e) \/ Delete(e) \/ TakeOut(e)
  \/ \E l \in Lists : SwapNext(l) \/ \E e \in Entries : Place(l, e)

Spec == Init /\ [][Next]_vars
=============================================================================
