------------------------------ MODULE Decoder ------------------------------
(***************************************************************************)
(* One video channel: the thread Decoder::run() and the methods other      *)
(* threads call on the same object (decoder.cpp, thread.cpp).  There is no *)
(* lock between them: flags, seek position and playlist are plain fields.  *)
(* Every action below is one condition or one assignment of the source, so *)
(* that a step of another thread may fall between any two of them; an      *)
(* increment, and one operation on a playlist, is a single step.           *)
(*                                                                         *)
(* Data is abstracted to lengths: a movie is a member of Files, Size gives *)
(* its bytes, BufSize the bytes of one read.  The modules that EXTEND this *)
(* one add the threads that call the methods and the next-state relation.  *)
(***************************************************************************)
EXTENDS Integers, Sequences

CONSTANTS
  N,           (* How many channels the command line opened.                *)
  Files,       (* Movies a playlist can name.                               *)
  Missing,     (* The ones fopen64 cannot open.                             *)
  NoFile,      (* NULL, for an entry and for a FILE.                        *)
  Size,        (* Length of each movie in bytes.                            *)
  BufSize,     (* Bytes asked of each fread: buffo_size.                    *)
  PlayMode,    (* playmode of each channel, set on the command line.        *)
  Dummy,       (* The --test flag: no device is opened nor written.         *)
  Faults       (* Calls that may fail in this instance.                     *)

Modes == {"PLAY", "CONT", "LOOP", "RAND", "SINGLE"}
FaultKinds == {"setup", "launch", "reopen"}

Decoders == 1..N       \* in the order of the list "decoders"

ASSUME DecoderAssumption ==
  /\ N \in Nat
  /\ NoFile \notin Files
  /\ Missing \subseteq Files
  /\ Size \in [Files -> Nat]
  /\ BufSize \in Nat \ {0}
  /\ PlayMode \in [Decoders -> Modes]
  /\ Dummy \in BOOLEAN
  /\ Faults \subseteq FaultKinds

VARIABLES
  pc,          (* Where each thread is in run().                            *)
  ret,         (* Where flush() or clear() returns to.                      *)
  playing, stopped, quit,          (* The asynchronous flags.               *)
  running,     (* Set by run(), read by close().                            *)
  mutex,       (* Thread::mutex is held.                                    *)
  playlist, position,              (* The channel's list and its cursor.    *)
  movie,       (* Local of run(): the entry being played.                   *)
  playlist_fd, (* The FILE being read.                                      *)
  filesize, filepos, newfilepos,   (* Length, position and pending seek.    *)
  offset,      (* Where the next fread of playlist_fd starts.               *)
  writing,     (* Local of run(): bytes of the buffer not yet written.      *)
  fd,          (* The device.                                               *)
  closing,     (* Where a call of close() is.                               *)
  syncstart    (* The flag all channels wait for.                           *)

flags     == <<playing, stopped, quit>>
lists     == <<playlist, position>>
file      == <<playlist_fd, filesize, offset>>
seeks     == <<filepos, newfilepos>>
lifecycle == <<running, mutex, closing>>
decoderVars == <<pc, ret, flags, lifecycle, lists, movie, file, seeks,
                 writing, fd, syncstart>>

Labels ==
  {"none", "start", "top", "update", "first", "advance", "wrap", "check",
   "unstop", "unplay", "wait", "pick", "nomovie", "open", "size", "rewind",
   "inner", "pausewait", "read", "sync", "write", "flush", "seek", "seeked",
   "again", "clear", "reopen", "eom", "end", "done"}
Returns == {"written", "eom", "end"}
CloseSteps == {"no", "quit", "running", "join", "device", "position", "empty",
               "cursor"}
DeviceStates == {"none", "open", "closed", "failed"}

(***************************************************************************)
(* Helpers.                                                                *)
(***************************************************************************)
Goto(d, from, to) ==
  /\ pc[d] = from
  /\ pc' = [pc EXCEPT ![d] = to]

Set(f, d, v) == [f EXCEPT ![d] = v]

\* A step that goes on and changes nothing else.
Still == UNCHANGED <<flags, lifecycle, lists, movie, file, seeks, writing, fd,
                     syncstart>>
Jump(d, from, to) == Goto(d, from, to) /\ UNCHANGED ret /\ Still

\* The loops' tests of the flags: on, or out through clear().
LoopTest(d, from, leave, on, out) ==
  /\ Goto(d, from, IF leave THEN "clear" ELSE on)
  /\ ret' = Set(ret, d, out)
  /\ Still

\* Linklist::operator[]: positions count from 1, NULL off the list.
Entry(d, i) == IF i \in 1..Len(playlist[d]) THEN playlist[d][i] ELSE NoFile

\* What one fread returns: less than BufSize exactly when it met the end.
Readable(d) ==
  LET left == Size[playlist_fd[d]] - offset[d]
  IN  IF left <= 0 THEN 0 ELSE IF left < BufSize THEN left ELSE BufSize

\* Every channel of the list has its device open: init() failing keeps the
\* channel off the list.
DecoderInit(given) ==
  /\ pc = [d \in Decoders |-> "none"]
  /\ ret = [d \in Decoders |-> "end"]
  /\ playing = [d \in Decoders |-> FALSE]
  /\ stopped = [d \in Decoders |-> FALSE]
  /\ quit = [d \in Decoders |-> TRUE]
  /\ running = [d \in Decoders |-> FALSE]
  /\ mutex = [d \in Decoders |-> FALSE]
  /\ playlist = given
  /\ position = [d \in Decoders |-> -1]
  /\ movie = [d \in Decoders |-> NoFile]
  /\ playlist_fd = [d \in Decoders |-> NoFile]
  /\ filesize = [d \in Decoders |-> 0]
  /\ filepos = [d \in Decoders |-> 0]
  /\ newfilepos = [d \in Decoders |-> 0]
  /\ offset = [d \in Decoders |-> 0]
  /\ writing = [d \in Decoders |-> 0]
  /\ fd = [d \in Decoders |-> IF Dummy THEN "none" ELSE "open"]
  /\ closing = [d \in Decoders |-> "no"]
  /\ syncstart = FALSE

(***************************************************************************)
(* run(): the playlist loop.                                               *)
(***************************************************************************)
Begin(d) ==
  /\ Goto(d, "start", IF fd[d] = "none" /\ ~Dummy THEN "done" ELSE "top")
  /\ running' = Set(running, d, fd[d] # "none" \/ Dummy)
  /\ UNCHANGED <<ret, flags, mutex, closing, lists, movie, file, seeks,
                 writing, fd, syncstart>>

Top(d) == LoopTest(d, "top", quit[d], "update", "end")

\* update() decides what to do with the cursor: the first time it is set to
\* the first entry, in mode PLAY it advances and then wraps, in mode CONT it
\* is wrapped or advances.
UpdateFirst(d) ==
  /\ position[d] < 0
  /\ Jump(d, "update", "first")

UpdatePlay(d) ==
  /\ position[d] >= 0
  /\ PlayMode[d] = "PLAY"
  /\ Jump(d, "update", "advance")

\* Broken on purpose: wraps one entry too late.
UpdateContLate(d) ==
  /\ position[d] >= 0
  /\ PlayMode[d] = "CONT"
  /\ Jump(d, "update", IF position[d] > Len(playlist[d]) THEN "first"
                                                         ELSE "advance")

UpdateCont(d) ==
  /\ position[d] >= 0
  /\ PlayMode[d] = "CONT"
  /\ Jump(d, "update", IF position[d] >= Len(playlist[d]) THEN "first"
                                                          ELSE "advance")

\* Broken on purpose: never plays the last entry.
UpdateWrapEarly(d) ==
  /\ Jump(d, "wrap", IF position[d] >= Len(playlist[d]) THEN "first"
                                                         ELSE "check")

UpdateWrap(d) ==
  /\ Jump(d, "wrap", IF position[d] > Len(playlist[d]) THEN "first"
                                                        ELSE "check")

\* Broken on purpose: counts entries from 0.
CursorFirstZero(d) ==
  /\ Goto(d, "first", "check")
  /\ position' = Set(position, d, 0)
  /\ UNCHANGED <<ret, flags, lifecycle, playlist, movie, file, seeks,
                 writing, fd, syncstart>>

CursorFirst(d) ==
  /\ Goto(d, "first", "check")
  /\ position' = Set(position, d, 1)
  /\ UNCHANGED <<ret, flags, lifecycle, playlist, movie, file, seeks,
                 writing, fd, syncstart>>

CursorAdvance(d) ==
  /\ Goto(d, "advance", IF PlayMode[d] = "PLAY" THEN "wrap" ELSE "check")
  /\ position' = Set(position, d, position[d] + 1)
  /\ UNCHANGED <<ret, flags, lifecycle, playlist, movie, file, seeks,
                 writing, fd, syncstart>>

\* LOOP plays the same entry again, and so does RAND.
UpdateSame(d) ==
  /\ position[d] >= 0
  /\ PlayMode[d] \in {"LOOP", "RAND"}
  /\ Jump(d, "update", "check")

\* Broken on purpose: forgets to stop.
UpdateSingleRepeats(d) ==
  /\ position[d] >= 0
  /\ PlayMode[d] = "SINGLE"
  /\ Jump(d, "update", "check")

UpdateSingle(d) ==
  /\ position[d] >= 0
  /\ PlayMode[d] = "SINGLE"
  /\ Goto(d, "update", "check")
  /\ stopped' = Set(stopped, d, TRUE)
  /\ UNCHANGED <<ret, playing, quit, lifecycle, lists, movie, file, seeks,
                 writing, fd, syncstart>>

Update(d) ==
  \/ UpdateFirst(d) \/ UpdatePlay(d) \/ UpdateCont(d) \/ UpdateSame(d)
  \/ UpdateSingle(d) \/ UpdateWrap(d) \/ CursorFirst(d) \/ CursorAdvance(d)

Check(d) == LoopTest(d, "check", quit[d], "unstop", "end")

(***************************************************************************)
(* run(): a pending stop, then wait for play, pick and open the movie.     *)
(***************************************************************************)
Unstop(d) ==
  /\ Goto(d, "unstop", IF stopped[d] THEN "unplay" ELSE "wait")
  /\ stopped' = Set(stopped, d, FALSE)
  /\ UNCHANGED <<ret, playing, quit, lifecycle, lists, movie, file, seeks,
                 writing, fd, syncstart>>

\* Also the step that gives up on a position with no movie.
Unplay(d) ==
  /\ \/ Goto(d, "unplay", "wait")
     \/ Goto(d, "nomovie", "top")
  /\ playing' = Set(playing, d, FALSE)
  /\ UNCHANGED <<ret, stopped, quit, lifecycle, lists, movie, file, seeks,
                 writing, fd, syncstart>>

\* Broken on purpose: a channel that is not playing does not see quit.
WakeIgnoresQuit(d) ==
  /\ playing[d]
  /\ \/ Jump(d, "wait", "pick")
     \/ Jump(d, "pausewait", "read")

\* The two places where a channel that is not playing sleeps.
Wake(d) ==
  /\ playing[d] \/ quit[d]
  /\ \/ Jump(d, "wait", "pick")
     \/ Jump(d, "pausewait", "read")

Pick(d) ==
  LET m == Entry(d, position[d]) IN
  /\ Goto(d, "pick", IF m = NoFile THEN "nomovie" ELSE "open")
  /\ movie' = Set(movie, d, m)
  /\ UNCHANGED <<ret, flags, lifecycle, lists, file, seeks, writing, fd,
                 syncstart>>

\* A movie that cannot be opened sends the thread back to update().
Open(d) ==
  /\ Goto(d, "open", IF movie[d] \in Missing THEN "top" ELSE "size")
  /\ playlist_fd' = Set(playlist_fd, d,
                        IF movie[d] \in Missing THEN NoFile ELSE movie[d])
  /\ offset' = Set(offset, d, 0)
  /\ UNCHANGED <<ret, flags, lifecycle, lists, movie, filesize, seeks,
                 writing, fd, syncstart>>

Measure(d) ==
  /\ Goto(d, "size", "rewind")
  /\ filesize' = Set(filesize, d, Size[playlist_fd[d]])
  /\ UNCHANGED <<ret, flags, lifecycle, lists, movie, playlist_fd, offset,
                 seeks, writing, fd, syncstart>>

Rewind(d) ==
  /\ Goto(d, "rewind", "inner")
  /\ filepos' = Set(filepos, d, 0)
  /\ UNCHANGED <<ret, flags, lifecycle, lists, movie, file, newfilepos,
                 writing, fd, syncstart>>

\* Broken on purpose: each of the two forgets one of the flags.
InnerIgnoresQuit(d) == LoopTest(d, "inner", stopped[d], "pausewait", "eom")

InnerIgnoresStop(d) == LoopTest(d, "inner", quit[d], "pausewait", "eom")

(***************************************************************************)
(* run(): the inner reading loop.                                          *)
(***************************************************************************)
Inner(d) == LoopTest(d, "inner", quit[d] \/ stopped[d], "pausewait", "eom")

\* A read that meets the end of the file ends the movie: what it did return
\* is not written.
Read(d) ==
  /\ Goto(d, "read", IF Readable(d) < BufSize THEN "clear" ELSE "sync")
  /\ offset' = Set(offset, d, offset[d] + Readable(d))
  /\ writing' = Set(writing, d, IF Readable(d) < BufSize
                                THEN writing[d] ELSE Readable(d))
  /\ UNCHANGED <<ret, flags, lifecycle, lists, movie, playlist_fd, filesize,
                 seeks, fd, syncstart>>

\* Broken on purpose: does not wait for the start.
SyncUnguarded(d) == Jump(d, "sync", "write")

\* The start barrier: the flag is polled and quit is not.
Sync(d) ==
  /\ syncstart
  /\ Jump(d, "sync", "write")

\* Broken on purpose: counts what was to be written, not what was.
WriteCountsAll(d) ==
  /\ Goto(d, "write", "flush")
  /\ \E n \in 1..writing[d] :
       /\ IF Dummy THEN n = writing[d] ELSE fd[d] = "open"
       /\ writing' = Set(writing, d, writing[d] - n)
  /\ filepos' = Set(filepos, d, filepos[d] + writing[d])
  /\ ret' = Set(ret, d, "written")
  /\ UNCHANGED <<flags, lifecycle, lists, movie, file, newfilepos, fd,
                 syncstart>>

\* A write that fails is retried at once and changes nothing here; one that
\* succeeds takes any part of what is left.
Write(d) ==
  /\ Goto(d, "write", "flush")
  /\ \E n \in 1..writing[d] :
       /\ IF Dummy THEN n = writing[d] ELSE fd[d] = "open"
       /\ filepos' = Set(filepos, d, filepos[d] + n)
       /\ writing' = Set(writing, d, writing[d] - n)
  /\ ret' = Set(ret, d, "written")
  /\ UNCHANGED <<flags, lifecycle, lists, movie, file, newfilepos, fd,
                 syncstart>>

\* The condition of the inner loop, reached when the buffer is written.
Again(d) == LoopTest(d, "again", quit[d], "inner", "eom")

(***************************************************************************)
(* flush(), called after each write and by clear(), and clear() itself.    *)
(***************************************************************************)
Flushed(d) ==
  IF ret[d] # "written" THEN "reopen"
  ELSE IF writing[d] = 0 THEN "again" ELSE "write"

\* The device has room: a pending seek is applied before returning.  A device
\* that could not be reopened never has room.
FlushReady(d) ==
  /\ fd[d] # "failed"
  /\ Jump(d, "flush", IF newfilepos[d] > 0 /\ playlist_fd[d] # NoFile
                      THEN "seek" ELSE Flushed(d))

\* The device has no room for a second: only quit ends the wait.
FlushQuit(d) ==
  /\ quit[d]
  /\ Jump(d, "flush", Flushed(d))

\* Broken on purpose: the position does not follow the file.
SeekKeepsPosition(d) ==
  /\ Goto(d, "seek", "seeked")
  /\ offset' = Set(offset, d, IF newfilepos[d] < 0 THEN offset[d]
                                                   ELSE newfilepos[d])
  /\ UNCHANGED <<ret, flags, lifecycle, lists, movie, playlist_fd, filesize,
                 seeks, writing, fd, syncstart>>

\* fseeko64 refuses a negative offset; filepos takes it.
Seek(d) ==
  /\ Goto(d, "seek", "seeked")
  /\ offset' = Set(offset, d, IF newfilepos[d] < 0 THEN offset[d]
                                                   ELSE newfilepos[d])
  /\ filepos' = Set(filepos, d, newfilepos[d])
  /\ UNCHANGED <<ret, flags, lifecycle, lists, movie, playlist_fd, filesize,
                 newfilepos, writing, fd, syncstart>>

Seeked(d) ==
  /\ Goto(d, "seeked", Flushed(d))
  /\ newfilepos' = Set(newfilepos, d, 0)
  /\ UNCHANGED <<ret, flags, lifecycle, lists, movie, file, filepos, writing,
                 fd, syncstart>>

Clear(d) == Jump(d, "clear", IF fd[d] = "none" THEN ret[d] ELSE "flush")

Reopen(d) ==
  /\ Goto(d, "reopen", ret[d])
  /\ \/ fd' = Set(fd, d, "open")
     \/ "reopen" \in Faults /\ fd' = Set(fd, d, "failed")
  /\ UNCHANGED <<ret, flags, lifecycle, lists, movie, file, seeks, writing,
                 syncstart>>

\* Broken on purpose: the FILE stays open.
CloseMovieLeaks(d) ==
  /\ \/ Goto(d, "eom", "top")
     \/ Goto(d, "end", "done")
  /\ UNCHANGED <<ret, flags, lifecycle, lists, movie, file, seeks, writing, fd,
                 syncstart>>

\* The movie is over, or the thread is.
CloseMovie(d) ==
  /\ \/ Goto(d, "eom", "top")
     \/ Goto(d, "end", "done")
  /\ playlist_fd' = Set(playlist_fd, d, NoFile)
  /\ UNCHANGED <<ret, flags, lifecycle, lists, movie, filesize, offset, seeks,
                 writing, fd, syncstart>>

Thread(d) ==
  \/ Begin(d) \/ Top(d) \/ Update(d) \/ Check(d) \/ Unstop(d) \/ Unplay(d)
  \/ Wake(d) \/ Pick(d) \/ Open(d) \/ Measure(d) \/ Rewind(d) \/ Inner(d)
  \/ Read(d) \/ Sync(d) \/ Write(d) \/ Again(d) \/ FlushReady(d)
  \/ FlushQuit(d) \/ Seek(d) \/ Seeked(d) \/ Clear(d) \/ Reopen(d)
  \/ CloseMovie(d)

(***************************************************************************)
(* Methods other threads call.  play() is PutPlaying(d, TRUE) and then     *)
(* PutStopped(d, FALSE); stop() is PutStopped(d, TRUE); pause() is         *)
(* PutPlaying(d, FALSE).                                                   *)
(***************************************************************************)
PutPlaying(d, v) ==
  /\ playing' = Set(playing, d, v)
  /\ UNCHANGED <<pc, ret, stopped, quit, lifecycle, lists, movie, file, seeks,
                 writing, fd, syncstart>>

PutStopped(d, v) ==
  /\ stopped' = Set(stopped, d, v)
  /\ UNCHANGED <<pc, ret, playing, quit, lifecycle, lists, movie, file, seeks,
                 writing, fd, syncstart>>

PutPosition(d, i) ==
  /\ position' = Set(position, d, i)
  /\ UNCHANGED <<pc, ret, flags, lifecycle, playlist, movie, file, seeks,
                 writing, fd, syncstart>>

\* setpos() and setoffset() leave the seek to the thread.
PutSeek(d, pos) ==
  /\ newfilepos' = Set(newfilepos, d, pos)
  /\ UNCHANGED <<pc, ret, flags, lifecycle, lists, movie, file, filepos,
                 writing, fd, syncstart>>

PutList(d, entries) ==
  /\ playlist' = Set(playlist, d, entries)
  /\ UNCHANGED <<pc, ret, flags, lifecycle, position, movie, file, seeks,
                 writing, fd, syncstart>>

\* load() and append(): entries are added at the end.
AppendAll(d, entries) == PutList(d, playlist[d] \o entries)

\* setup(): the thread may run once the buffer is there.
Setup(d) ==
  /\ \E ok \in {TRUE} \cup (IF "setup" \in Faults THEN {FALSE} ELSE {}) :
       quit' = Set(quit, d, IF ok THEN FALSE ELSE quit[d])
  /\ UNCHANGED <<pc, ret, playing, stopped, lifecycle, lists, movie, file,
                 seeks, writing, fd, syncstart>>

\* launch(): takes the mutex nobody releases, and returns before run() starts.
Launch(d) ==
  /\ ~mutex[d]
  /\ mutex' = Set(mutex, d, TRUE)
  /\ \E ok \in {TRUE} \cup (IF "launch" \in Faults THEN {FALSE} ELSE {}) :
       pc' = Set(pc, d, IF ok THEN "start" ELSE pc[d])
  /\ UNCHANGED <<ret, flags, running, closing, lists, movie, file, seeks,
                 writing, fd, syncstart>>

(***************************************************************************)
(* close(), one step per field: flags, join, device, then the list.  The   *)
(* caller waits for it.  A second call finds "running" still set and joins *)
(* the finished thread again, which returns.                               *)
(***************************************************************************)
CloseGoto(d, from, to) ==
  /\ closing[d] = from
  /\ closing' = Set(closing, d, to)
  /\ UNCHANGED <<pc, ret, stopped, running, mutex, movie, file, seeks, writing,
                 syncstart>>

CloseBegin(d) ==
  /\ CloseGoto(d, "no", "quit")
  /\ playing' = Set(playing, d, FALSE)
  /\ UNCHANGED <<quit, lists, fd>>

\* Broken on purpose: the thread is not told.
CloseQuitForgets(d) ==
  /\ CloseGoto(d, "quit", "running")
  /\ UNCHANGED <<playing, quit, lists, fd>>

CloseQuit(d) ==
  /\ CloseGoto(d, "quit", "running")
  /\ quit' = Set(quit, d, TRUE)
  /\ UNCHANGED <<playing, lists, fd>>

\* Broken on purpose: does not wait for the thread.
CloseRunningNoJoin(d) ==
  /\ CloseGoto(d, "running", "device")
  /\ UNCHANGED <<playing, quit, lists, fd>>

CloseRunning(d) ==
  /\ CloseGoto(d, "running", IF running[d] THEN "join" ELSE "device")
  /\ UNCHANGED <<playing, quit, lists, fd>>

CloseJoin(d) ==
  /\ pc[d] = "done"
  /\ CloseGoto(d, "join", "device")
  /\ UNCHANGED <<playing, quit, lists, fd>>

CloseDevice(d) ==
  /\ CloseGoto(d, "device", "position")
  /\ fd' = Set(fd, d, IF fd[d] = "open" THEN "closed" ELSE fd[d])
  /\ UNCHANGED <<playing, quit, lists>>

ClosePosition(d) ==
  /\ CloseGoto(d, "position", "empty")
  /\ position' = Set(position, d, -1)
  /\ UNCHANGED <<playing, quit, playlist, fd>>

CloseEmpty(d) ==
  /\ CloseGoto(d, "empty", "cursor")
  /\ playlist' = Set(playlist, d, <<>>)
  /\ UNCHANGED <<playing, quit, position, fd>>

CloseCursor(d) ==
  /\ CloseGoto(d, "cursor", "no")
  /\ position' = Set(position, d, 1)
  /\ UNCHANGED <<playing, quit, playlist, fd>>

CloseStep(d) ==
  \/ CloseQuit(d) \/ CloseRunning(d) \/ CloseJoin(d) \/ CloseDevice(d)
  \/ ClosePosition(d) \/ CloseEmpty(d) \/ CloseCursor(d)

(***************************************************************************)
(* Where the thread is.                                                    *)
(***************************************************************************)
\* The labels of clear() and flush() belong to the end of the movie, to the
\* writing loop or to the end of the thread, as "ret" tells.
Subroutine == {"clear", "flush", "seek", "seeked", "reopen"}
InMovie(d) ==
  \/ pc[d] \in {"inner", "pausewait", "read", "sync", "write", "again", "eom"}
  \/ pc[d] \in Subroutine /\ ret[d] # "end"

\* The thread may still give bytes to the device, even when told to quit.
Sending(d) ==
  \/ pc[d] \in {"pausewait", "read", "sync", "write"}
  \/ pc[d] \in {"flush", "seek", "seeked"} /\ ret[d] = "written"

(***************************************************************************)
(* Types.                                                                  *)
(***************************************************************************)
DecoderTypeOK ==
  /\ pc \in [Decoders -> Labels]
  /\ ret \in [Decoders -> Returns]
  /\ playing \in [Decoders -> BOOLEAN]
  /\ stopped \in [Decoders -> BOOLEAN]
  /\ quit \in [Decoders -> BOOLEAN]
  /\ running \in [Decoders -> BOOLEAN]
  /\ mutex \in [Decoders -> BOOLEAN]
  /\ playlist \in [Decoders -> Seq(Files)]
  /\ position \in [Decoders -> Int]
  /\ movie \in [Decoders -> Files \cup {NoFile}]
  /\ playlist_fd \in [Decoders -> Files \cup {NoFile}]
  /\ filesize \in [Decoders -> Nat]
  /\ filepos \in [Decoders -> Int]
  /\ newfilepos \in [Decoders -> Int]
  /\ offset \in [Decoders -> Nat]
  /\ writing \in [Decoders -> Nat]
  /\ fd \in [Decoders -> DeviceStates]
  /\ closing \in [Decoders -> CloseSteps]
  /\ syncstart \in BOOLEAN

\* A FILE is open exactly while its movie plays: no path through the loops
\* leaves one open behind or reads from a closed one (decoder.cpp:248-369).
OneMovieOpen ==
  \A d \in Decoders :
    playlist_fd[d] = IF InMovie(d) \/ pc[d] \in {"size", "rewind"}
                     THEN movie[d] ELSE NoFile
=============================================================================
