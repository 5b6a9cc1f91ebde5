----------------------------- MODULE Dispatcher -----------------------------
(***************************************************************************)
(* XmlRpcDispatch: the loop around select() that the client and the server *)
(* each have one of.  A dispatcher is a record; the operators return what  *)
(* it becomes.  A source is watched for the events of its mask.            *)
(***************************************************************************)
EXTENDS Naturals, Sequences, SequencesExt

Events == {"readable", "writable", "exception"}

(* endTime is "never" (-1), "later" (a time) or "now" (0, exit was called) *)
EndTimes == {"never", "later", "now"}

NewDispatcher ==
  [sources |-> <<>>, endTime |-> "never", doClear |-> FALSE, inWork |-> FALSE]

AddSource(d, s, mask) ==
  [d EXCEPT !.sources = Append(@, [src |-> s, mask |-> mask])]

Watched(d) == {d.sources[i].src : i \in DOMAIN d.sources}

IndexOf(d, s) == SelectInSeq(d.sources, LAMBDA m : m.src = s)

(* Broken on purpose: the entry stays.                                     *)
LeaveSource(d, s) == d

(* Only the first entry of the source goes.                                *)
RemoveSource(d, s) ==
  IF s \in Watched(d) THEN [d EXCEPT !.sources = RemoveAt(@, IndexOf(d, s))] ELSE d

MaskOf(d, s) == d.sources[IndexOf(d, s)].mask

SetMask(d, s, mask) == [d EXCEPT !.sources[IndexOf(d, s)].mask = mask]

BeginWork(d, endTime) ==
  [d EXCEPT !.endTime = endTime, !.doClear = FALSE, !.inWork = TRUE]

EndWork(d) == [d EXCEPT !.inWork = FALSE]

ExitWork(d) == [d EXCEPT !.endTime = "now"]

(* The first source of the list that select() reported and that was not    *)
(* handled yet.  Sources added during the pass are not among these.        *)
FirstOf(d, ready) ==
  d.sources[SelectInSeq(d.sources, LAMBDA m : m.src \in ready)].src
=============================================================================
