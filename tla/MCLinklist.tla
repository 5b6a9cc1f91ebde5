------------------------------ MODULE MCLinklist ------------------------------
(* Two lists and four entries: an entry can have a neighbour's neighbour on  *)
(* either side, or be moved from a list to the other.                        *)
EXTENDS Linklist, TLC

MCSymmetry == Permutations(Entries)
=============================================================================
