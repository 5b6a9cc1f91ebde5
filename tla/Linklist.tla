------------------------------- MODULE Linklist -------------------------------
(***************************************************************************)
(* The doubly linked list of linklist.cpp, which holds the playlists and   *)
(* the list of decoders, pointer by pointer.  An operation of the library  *)
(* runs in one thread and is one step; each is an operator from heap to    *)
(* heap, since the ones that put an entry in a list first call rem().      *)
(* Selection, names and search are left out: no list of the program uses   *)
(* them.  So are insert_after() and move(), which nothing calls.           *)
(***************************************************************************)
EXTENDS Integers, FiniteSets, SequencesExt

CONSTANTS
  Entries,   (* Every Entry the program may have in memory.                 *)
  Lists,     (* Every Linklist.                                             *)
  NULL,      (* The null pointer.                                           *)
  MaxPos     (* Bound on the positions passed to insert and remove.         *)

ASSUME LinklistAssumption ==
  /\ IsFiniteSet(Entries)
  /\ NULL \notin Entries \cup Lists
  /\ MaxPos \in Nat

VARIABLES
  heap,      (* The fields of all entries and all lists.                    *)
  existing   (* The entries in memory.                                      *)

vars == <<heap, existing>>

Init ==
  /\ heap = [next   |-> [e \in Entries |-> NULL],
             prev   |-> [e \in Entries |-> NULL],
             list   |-> [e \in Entries |-> NULL],
             first  |-> [l \in Lists |-> NULL],
             last   |-> [l \in Lists |-> NULL],
             length |-> [l \in Lists |-> 0]]
  /\ existing = {}

(***************************************************************************)
(* Helpers.                                                                *)
(***************************************************************************)
\* a->next = b and b->prev = a, each where the pointer is not NULL.
Link(h, a, b) ==
  [h EXCEPT !.next = [e \in Entries |-> IF e = a THEN b ELSE @[e]],
            !.prev = [e \in Entries |-> IF e = b THEN a ELSE @[e]]]

\* Where the walk from the first entry of l stands after each of its steps.
Walk(h, l) ==
  LET at[i \in 1..(Cardinality(Entries) + 1)] ==
        IF i = 1 THEN h.first[l]
        ELSE IF at[i - 1] = NULL THEN NULL ELSE h.next[at[i - 1]]
  IN  at

\* pick(): the ends are at hand, the rest is walked to.
Pick(h, l, pos) ==
  IF pos < 1 \/ pos > h.length[l] THEN NULL
  ELSE IF pos = h.length[l] /\ pos > 1 THEN h.last[l]
  ELSE Walk(h, l)[pos]

(***************************************************************************)
(* The operations, as functions of the heap.                               *)
(***************************************************************************)
\* Broken on purpose: forgets the first pointer of the list.
RemKeepsFirst(h, a) ==
  IF h.list[a] = NULL THEN h
  ELSE LET l == h.list[a]
       IN  [Link(h, h.prev[a], h.next[a]) EXCEPT
              !.last[l] = IF h.next[a] = NULL THEN h.prev[a] ELSE @,
              !.length[l] = @ - 1,
              !.list[a] = NULL]

\* The entry keeps its own next and prev, stale until it is put in a list.
Rem(h, a) ==
  IF h.list[a] = NULL THEN h
  ELSE LET l == h.list[a]
       IN  [Link(h, h.prev[a], h.next[a]) EXCEPT
              !.last[l] = IF h.next[a] = NULL THEN h.prev[a] ELSE @,
              !.first[l] = IF h.prev[a] = NULL THEN h.next[a] ELSE @,
              !.length[l] = @ - 1,
              !.list[a] = NULL]

\* Broken on purpose: the list does not count the entry.
AdoptUncounted(h, l, a) == [h EXCEPT !.list[a] = l]

\* The entry belongs to the list from here on.
Adopt(h, l, a) == [h EXCEPT !.list[a] = l, !.length[l] = @ + 1]

AppendTo(h, l, a) ==
  LET g == Rem(h, a)
  IN  [Link(Link(Adopt(g, l, a), g.last[l], a), a, NULL) EXCEPT
         !.first[l] = IF g.last[l] = NULL THEN a ELSE @,
         !.last[l] = a]

PrependTo(h, l, a) ==
  LET g == Rem(h, a)
  IN  [Link(Link(Adopt(g, l, a), a, g.first[l]), NULL, a) EXCEPT
         !.last[l] = IF g.first[l] = NULL THEN a ELSE @,
         !.first[l] = a]

\* Broken on purpose: one position too early.
InsertIntoShifted(h, l, a, pos) ==
  IF h.length[l] <= pos THEN AppendTo(h, l, a)
  ELSE IF pos <= 1 THEN PrependTo(h, l, a)
  ELSE LET g == Rem(h, a)
           ptr == Pick(g, l, pos - 1)
       IN  Link(Link(Adopt(g, l, a), g.prev[ptr], a), a, ptr)

\* Broken on purpose: links the entry after the one at the position.
InsertIntoLoses(h, l, a, pos) ==
  IF h.length[l] <= pos THEN AppendTo(h, l, a)
  ELSE IF pos <= 1 THEN PrependTo(h, l, a)
  ELSE LET g == Rem(h, a)
           ptr == Pick(g, l, pos)
       IN  Link(Adopt(g, l, a), a, ptr)

\* The position is compared with the length the list has before the entry
\* leaves it.
InsertInto(h, l, a, pos) ==
  IF h.length[l] <= pos THEN AppendTo(h, l, a)
  ELSE IF pos <= 1 THEN PrependTo(h, l, a)
  ELSE LET g == Rem(h, a)
           ptr == Pick(g, l, pos)
       IN  Link(Link(Adopt(g, l, a), g.prev[ptr], a), a, ptr)

\* up(): before the previous one.
MoveUp(h, a) ==
  LET l == h.list[a]
      tprev == h.prev[a]
      pp == h.prev[tprev]
      swapped == Link(Link(Link(h, pp, a), a, tprev), tprev, h.next[a])
  IN  [swapped EXCEPT !.last[l] = IF h.next[a] = NULL THEN tprev ELSE @,
                      !.first[l] = IF pp = NULL THEN a ELSE @]

\* down(): after the next one.
MoveDown(h, a) ==
  LET l == h.list[a]
      tnext == h.next[a]
      nn == h.next[tnext]
      swapped == Link(Link(Link(h, h.prev[a], tnext), tnext, a), a, nn)
  IN  [swapped EXCEPT !.first[l] = IF h.prev[a] = NULL THEN tnext ELSE @,
                      !.last[l] = IF nn = NULL THEN a ELSE @]

(***************************************************************************)
(* The calls.                                                              *)
(***************************************************************************)
New(a) ==
  /\ a \notin existing
  /\ existing' = existing \cup {a}
  /\ UNCHANGED heap

\* ~Entry() calls rem(), and the memory is gone.
Delete(a) ==
  /\ a \in existing
  /\ existing' = existing \ {a}
  /\ heap' = [Rem(heap, a) EXCEPT !.next[a] = NULL, !.prev[a] = NULL]

Call(a) == a \in existing /\ UNCHANGED existing

AppendEntry(l, a) == Call(a) /\ heap' = AppendTo(heap, l, a)

PrependEntry(l, a) == Call(a) /\ heap' = PrependTo(heap, l, a)

InsertEntry(l, a, pos) == Call(a) /\ heap' = InsertInto(heap, l, a, pos)

RemEntry(a) == Call(a) /\ heap' = Rem(heap, a)

\* rem() of a position; Decoder::remove() deletes the entry instead.
RemAt(l, pos) ==
  /\ Pick(heap, l, pos) # NULL
  /\ RemEntry(Pick(heap, l, pos))

DeleteAt(l, pos) ==
  /\ Pick(heap, l, pos) # NULL
  /\ Delete(Pick(heap, l, pos))

Up(a) ==
  /\ Call(a)
  /\ heap.prev[a] # NULL /\ heap.list[a] # NULL
  /\ heap' = MoveUp(heap, a)

Down(a) ==
  /\ Call(a)
  /\ heap.next[a] # NULL /\ heap.list[a] # NULL
  /\ heap' = MoveDown(heap, a)

Next ==
  \/ \E a \in Entries : New(a) \/ Delete(a) \/ RemEntry(a) \/ Up(a) \/ Down(a)
  \/ \E l \in Lists, a \in Entries :
       AppendEntry(l, a) \/ PrependEntry(l, a)
  \/ \E l \in Lists, a \in Entries, pos \in 0..MaxPos : InsertEntry(l, a, pos)
  \/ \E l \in Lists, pos \in 0..MaxPos : RemAt(l, pos) \/ DeleteAt(l, pos)

Spec == Init /\ [][Next]_vars

(***************************************************************************)
(* What a list is.                                                         *)
(***************************************************************************)
\* The entries of l in order, following next from the first until it ends.
Listed(h, l) ==
  LET at == Walk(h, l)
      ends == {i \in DOMAIN at : at[i] = NULL}
  IN  SubSeq(at, 1, Min(ends \cup {Cardinality(Entries) + 2}) - 1)

Order(l) == Listed(heap, l)

Abstract == INSTANCE EntryLists WITH order <- [l \in Lists |-> Order(l)]

\* Types.
Heaps ==
  LET Pointers == [Entries -> Entries \cup {NULL}]
      Ends == [Lists -> Entries \cup {NULL}]
  IN  [next : Pointers, prev : Pointers, list : [Entries -> Lists \cup {NULL}],
       first : Ends, last : Ends, length : [Lists -> Nat]]

TypeOK == heap \in Heaps /\ existing \subseteq Entries

\* The two directions of a list agree, its length counts it, and it holds the
\* entries that name it as theirs, none of them deleted (linklist.cpp:51-133,
\* 317-380, 421-447).
WellFormed ==
  \A l \in Lists :
    LET s == Order(l) IN
    /\ heap.last[l] = IF s = <<>> THEN NULL ELSE Last(s)
    /\ \A i \in 1..Len(s) :
         heap.prev[s[i]] = IF i = 1 THEN NULL ELSE s[i - 1]
    /\ heap.length[l] = Len(s)
    /\ ToSet(s) = {e \in existing : heap.list[e] = l}
    /\ \A e \in Entries \ existing : heap.list[e] = NULL

\* Every call of the library puts, takes out or swaps the entries it was given
\* and leaves the order of the others (linklist.cpp:51-183, 317-447).
KeepsOrder == Abstract!Spec

\* An insertion before the last position gives the entry that position, and one
\* at the last position or beyond puts it at the end: the entry that was last
\* does not slide down, as the comment of insert() has it (linklist.cpp:136-144).
\* The length is the one before the entry leaves the list, if it was there; the
\* position is one among the others.
InsertLands ==
  [][\A l \in Lists, a \in existing, pos \in 1..MaxPos :
       InsertEntry(l, a, pos) =>
         LET rest == Abstract!Without(a)[l]
             place == IF pos < Len(Order(l)) THEN pos ELSE Len(rest) + 1
         IN  Order(l)' = InsertAt(rest, place, a)]_vars
=============================================================================
