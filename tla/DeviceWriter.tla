---------------------------- MODULE DeviceWriter ----------------------------
(***************************************************************************)
(* The inner loop of Decoder::run(), byte by byte: what the device gets of *)
(* a movie when it takes part of a write, or none, and when it cannot be   *)
(* reopened (decoder.cpp).  Module Decoder has the same loop with all its  *)
(* flags and counts bytes; here the bytes have names, and there are no     *)
(* seeks, pauses or stops.  Of the other threads there are the one that    *)
(* lets all channels start and the one that closes this one.               *)
(***************************************************************************)
EXTENDS Integers, Sequences

CONSTANTS
  Size,        (* Bytes of the movie.                                       *)
  BufSize,     (* Bytes asked of each fread: buffo_size.                    *)
  Room,        (* Bytes the device holds.                                   *)
  Movies,      (* How often the movie is played.                            *)
  MaxLate,     (* Bound on the writes that fail in one buffer.              *)
  Other        (* What lies in memory outside the buffer.                   *)

ASSUME WriterAssumption ==
  /\ {Size, MaxLate} \subseteq Nat
  /\ {BufSize, Room, Movies} \subseteq Nat \ {0}

VARIABLES
  pc,          (* Where the thread is.                                      *)
  round,       (* Which playing of the movie this is.                       *)
  offset,      (* Bytes read of it.                                         *)
  buffo, buf,  (* The buffer, and the pointer into it.                      *)
  written, writing,
  fd,          (* "open" or "failed".                                       *)
  room,        (* Bytes the device would take now.                          *)
  sent,        (* What it took of this playing.                             *)
  late,        (* How many writes of this buffer have failed.               *)
  quit,
  syncstart    (* What *syncstart is: all channels may write.               *)

loop == <<round, offset, buffo, buf, written, writing, sent, late>>
vars == <<pc, loop, fd, room, quit, syncstart>>

Init ==
  /\ pc = "read"
  /\ round = 1 /\ offset = 0
  /\ buffo = [i \in 0..(BufSize - 1) |-> Other]
  /\ buf = 0 /\ written = 0 /\ writing = 0
  /\ fd = "open"
  /\ room \in 0..Room
  /\ sent = <<>> /\ late = 0
  /\ quit = FALSE /\ syncstart = FALSE

Byte(i) == <<round, i>>
Whole == Size - offset >= BufSize

\* Broken on purpose: the pointer moves by what the last buffer wrote.
ReadKeepsWritten ==
  /\ pc = "read"
  /\ pc' = IF quit \/ ~Whole THEN "drain" ELSE "sync"
  /\ IF quit \/ ~Whole THEN UNCHANGED loop
     ELSE /\ offset' = offset + BufSize
          /\ buffo' = [i \in 0..(BufSize - 1) |-> Byte(offset + i + 1)]
          /\ buf' = 0 /\ writing' = BufSize /\ late' = 0
          /\ UNCHANGED <<round, sent, written>>
  /\ UNCHANGED <<fd, room, quit, syncstart>>

\* A buffer that meets the end of the file is not written, so what it leaves
\* in memory is not looked at.
Read ==
  /\ pc = "read"
  /\ pc' = IF quit \/ ~Whole THEN "drain" ELSE "sync"
  /\ IF quit \/ ~Whole THEN UNCHANGED loop
     ELSE /\ offset' = offset + BufSize
          /\ buffo' = [i \in 0..(BufSize - 1) |-> Byte(offset + i + 1)]
          /\ buf' = 0 /\ written' = 0 /\ writing' = BufSize /\ late' = 0
          /\ UNCHANGED <<round, sent>>
  /\ UNCHANGED <<fd, room, quit, syncstart>>

\* Every buffer waits until all channels may start, once and for all.  The
\* wait looks at nothing else.
Sync ==
  /\ pc = "sync" /\ syncstart
  /\ pc' = "write"
  /\ UNCHANGED <<loop, fd, room, quit, syncstart>>

\* The device takes some of it.
WriteTakes ==
  /\ pc = "write" /\ fd = "open"
  /\ buf' = buf + written
  /\ \E n \in 1..writing :
       /\ n <= room
       /\ written' = n /\ writing' = writing - n /\ room' = room - n
       /\ sent' = sent \o [i \in 1..n |->
                    [byte |-> LET at == buf' + i - 1
                              IN  IF at \in DOMAIN buffo THEN buffo[at]
                                  ELSE Other,
                     late |-> late]]
  /\ pc' = "poll"
  /\ UNCHANGED <<round, offset, buffo, fd, late, quit, syncstart>>

\* Broken on purpose: gives the rest of the buffer up.
WriteGivesUp ==
  /\ pc = "write"
  /\ fd = "failed" \/ room = 0
  /\ pc' = "poll" /\ writing' = 0
  /\ UNCHANGED <<round, offset, buffo, buf, written, sent, late, fd, room,
                 quit, syncstart>>

\* The device is full, or is not open: written is -1, and the next turn adds
\* it to the pointer.  Nothing but a write that succeeds ends the loop.
WriteFails ==
  /\ pc = "write" /\ late < MaxLate
  /\ fd = "failed" \/ room = 0
  /\ buf' = buf + written
  /\ written' = -1
  /\ late' = late + 1
  /\ UNCHANGED <<pc, round, offset, buffo, writing, sent, fd, room, quit,
                 syncstart>>

\* Broken on purpose: poll() is asked again until it answers.
FlushedWhenReady == fd = "open" /\ room > 0

\* poll() passes over a descriptor of -1, and flush() asks again until quit.
Flushed == (fd = "open" /\ room > 0) \/ quit

Poll ==
  /\ pc = "poll" /\ Flushed
  /\ pc' = IF writing > 0 THEN "write" ELSE IF quit THEN "drain" ELSE "read"
  /\ UNCHANGED <<loop, fd, room, quit, syncstart>>

\* clear(): the device is closed and opened again.  The result is not looked
\* at.
Clear ==
  /\ pc = "drain" /\ Flushed
  /\ fd' \in {"open", "failed"}
  /\ room' \in 0..Room
  /\ pc' = "next"
  /\ UNCHANGED <<loop, quit, syncstart>>

\* The list is over, or starts again.
NextMovie ==
  /\ pc = "next" /\ ~quit /\ round < Movies
  /\ pc' = "read"
  /\ round' = round + 1 /\ offset' = 0 /\ sent' = <<>> /\ late' = 0
  /\ UNCHANGED <<buffo, buf, written, writing, fd, room, quit, syncstart>>

Leave ==
  /\ pc = "next" /\ quit
  /\ pc' = "last"
  /\ UNCHANGED <<loop, fd, room, quit, syncstart>>

\* After the loop the device is cleared again.
End ==
  /\ pc = "last" /\ Flushed
  /\ fd' \in {"open", "failed"}
  /\ room' \in 0..Room
  /\ pc' = "done"
  /\ UNCHANGED <<loop, quit, syncstart>>

Thread ==
  Read \/ Sync \/ WriteTakes \/ WriteFails \/ Poll \/ Clear \/ NextMovie \/ Leave
  \/ End

\* close() by another thread.
Quit ==
  /\ ~quit /\ quit' = TRUE
  /\ UNCHANGED <<pc, loop, fd, room, syncstart>>

\* A datagram, or the end of the command line.
Start ==
  /\ ~syncstart /\ syncstart' = TRUE
  /\ UNCHANGED <<pc, loop, fd, room, quit>>

\* The device shows a byte.
Plays ==
  /\ room < Room /\ room' = room + 1
  /\ UNCHANGED <<pc, loop, fd, quit, syncstart>>

Next == Thread \/ Quit \/ Start \/ Plays

Spec == Init /\ [][Next]_vars

(***************************************************************************)
(* The thread runs, and the device goes on showing what it has.  Nobody    *)
(* has to let the channels start.                                          *)
(***************************************************************************)
FairSpec == Spec /\ WF_vars(Thread) /\ WF_vars(Plays)

(***************************************************************************)
(* Properties.                                                             *)
(***************************************************************************)
\* The device gets each byte of the movie at its place, however its writes are
\* cut.  A write that failed shifts what is left of its buffer by one byte, for
\* each failure, into what lies before it, and no other buffer
\* (decoder.cpp:320-348).
BytesAtTheirPlace ==
  \A i \in 1..Len(sent) :
    LET before == (i - 1) - sent[i].late      \* place, counted from 0
        start == ((i - 1) \div BufSize) * BufSize
    IN  sent[i].byte = IF before < start THEN Other ELSE Byte(before + 1)

\* A movie that was not interrupted has sent all the buffers it fills, not one
\* byte more or less, whatever failed meanwhile (decoder.cpp:309-354).
SendsAllBuffers ==
  pc \in {"drain", "next"} /\ ~quit =>
    Len(sent) = (Size \div BufSize) * BufSize

\* A thread told to quit ends, whatever its device did, but for two places
\* that it never leaves: the wait for a start that does not come, and the write
\* to a device that could not be opened again.  Neither looks at quit
\* (decoder.cpp:224, 325-354, 376-388).
QuitLeaves ==
  <>quit => \/ <>(pc = "done")
            \/ <>[](pc = "sync" /\ ~syncstart)
            \/ <>[](pc = "write" /\ fd = "failed")
=============================================================================
