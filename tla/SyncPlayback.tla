---------------------------- MODULE SyncPlayback ----------------------------
(***************************************************************************)
(* What IvySync promises of its channels, without threads, flags or files: *)
(* every channel goes through its own playlist in the order its play mode  *)
(* asks for, no channel gives a byte to its device before the common       *)
(* start, a movie is sent from its first byte on, never past its last, and *)
(* is left only when less than one buffer of it remains.  A channel that   *)
(* was told to quit may leave a movie anywhere.                            *)
(***************************************************************************)
EXTENDS Integers, Sequences

CONSTANTS Channels, Files, Size, BufSize, Mode

VARIABLES
  started,     (* The common start has been given.                          *)
  list,        (* Playlist of each channel.                                 *)
  state,       (* Where each channel is with the entry under its cursor.    *)
  cursor,      (* Position in the list, -1 before the first entry.         *)
  sent,        (* Bytes of the current or last movie the device has.        *)
  quitting     (* The channel is not, or no more, asked to play.            *)

vars == <<started, list, state, cursor, sent, quitting>>

\* The entry that follows position i in each play mode.
Follow(mode, i, len) ==
  CASE mode \in {"PLAY", "CONT"} -> IF i < len THEN i + 1 ELSE 1
    [] OTHER                     -> i

Init ==
  /\ started = FALSE
  /\ list \in [Channels -> Seq(Files)]
  /\ state = [c \in Channels |-> "new"]
  /\ cursor = [c \in Channels |-> -1]
  /\ sent = [c \in Channels |-> 0]
  /\ quitting = [c \in Channels |-> TRUE]

Start ==
  /\ started' = TRUE
  /\ UNCHANGED <<list, state, cursor, sent, quitting>>

Arm(c) ==
  /\ state[c] = "new"
  /\ quitting' = [quitting EXCEPT ![c] = FALSE]
  /\ UNCHANGED <<started, list, state, cursor, sent>>

\* Entries are added at the end, while nothing of the list was played yet.
Load(c) ==
  /\ state[c] \in {"new", "turned", "gone"}
  /\ list'[c] \in Seq(Files)
  /\ Len(list'[c]) >= Len(list[c])
  /\ list[c] = SubSeq(list'[c], 1, Len(list[c]))
  /\ list' = [list EXCEPT ![c] = list'[c]]
  /\ UNCHANGED <<started, state, cursor, sent, quitting>>

\* A new channel turns to its first entry, the others follow their mode;
\* a channel in mode SINGLE is over when it is.
Turn(c) ==
  /\ \/ state[c] = "new"  /\ cursor' = [cursor EXCEPT ![c] = 1]
     \/ /\ state[c] = "over" /\ Mode[c] # "SINGLE"
        /\ cursor' = [cursor EXCEPT ![c] = Follow(Mode[c], cursor[c], Len(list[c]))]
  /\ state' = [state EXCEPT ![c] = "turned"]
  /\ UNCHANGED <<started, list, sent, quitting>>

Begin(c) ==
  /\ state[c] = "turned"
  /\ cursor[c] \in DOMAIN list[c]
  /\ state' = [state EXCEPT ![c] = "playing"]
  /\ sent' = [sent EXCEPT ![c] = 0]
  /\ UNCHANGED <<started, list, cursor, quitting>>

\* An entry that is not there or cannot be opened.
Skip(c) ==
  /\ state[c] = "turned"
  /\ state' = [state EXCEPT ![c] = "over"]
  /\ UNCHANGED <<started, list, cursor, sent, quitting>>

Send(c) ==
  /\ started
  /\ state[c] = "playing"
  /\ \E n \in 1..(Size[list[c][cursor[c]]] - sent[c]) :
       sent' = [sent EXCEPT ![c] = sent[c] + n]
  /\ UNCHANGED <<started, list, state, cursor, quitting>>

End(c) ==
  /\ state[c] = "playing"
  /\ Size[list[c][cursor[c]]] - sent[c] < BufSize
  /\ state' = [state EXCEPT ![c] = "over"]
  /\ UNCHANGED <<started, list, cursor, sent, quitting>>

\* A channel told to quit leaves whatever it plays, for good.
Leave(c) ==
  /\ state' = [state EXCEPT ![c] = "gone"]
  /\ cursor' = [cursor EXCEPT ![c] = -1]
  /\ sent' = [sent EXCEPT ![c] = 0]

Quit(c) ==
  /\ quitting' = [quitting EXCEPT ![c] = TRUE]
  /\ Leave(c) \/ UNCHANGED <<state, cursor, sent>>
  /\ UNCHANGED <<started, list>>

Discard(c) ==
  /\ quitting[c]
  /\ state[c] \in {"new", "gone"}
  /\ list' = [list EXCEPT ![c] = <<>>]
  /\ UNCHANGED <<started, state, cursor, sent, quitting>>

Next ==
  \/ Start
  \/ \E c \in Channels :
       \/ Arm(c) \/ Load(c) \/ Turn(c) \/ Begin(c) \/ Skip(c) \/ Send(c)
       \/ End(c) \/ Quit(c) \/ Discard(c)

Spec == Init /\ [][Next]_vars
=============================================================================
