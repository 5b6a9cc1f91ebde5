-------------------------------- MODULE Main --------------------------------
(***************************************************************************)
(* main() and the signal handler quitproc() of cmdline.cpp, the UDP server *)
(* thread of the networked build (udpliteserver.cpp), and the channels of  *)
(* module Decoder: everything that runs when IvySync plays its playlists   *)
(* without a remote control.                                               *)
(*                                                                         *)
(* main() and quitproc() share one thread: while the handler runs main()   *)
(* does not.                                                               *)
(***************************************************************************)
EXTENDS Decoder

CONSTANTS
  Given,       (* Playlist of each channel on the command line.             *)
  Saved,       (* What load() finds in ~/.ivysync for each channel.         *)
  RpcDaemon,   (* The daemon was asked for and listens: --xmlrpc.           *)
  Udp,         (* The build with -DWITH_UDP.                                *)
  Signals      (* The user may interrupt the program (once).                *)

ASSUME MainAssumption ==
  /\ N > 0
  /\ Given \in [Decoders -> Seq(Files)]
  /\ Saved \in [Decoders -> Seq(Files)]
  /\ RpcDaemon \in BOOLEAN /\ Udp \in BOOLEAN /\ Signals \in BOOLEAN

VARIABLES
  main,        (* Where main() is.                                          *)
  dec,         (* Its cursor in the list of decoders, 0 for NULL.           *)
  still_running,
  udpsrv,      (* The UDP thread: none, receiving or done.                  *)
  handler,     (* Where quitproc() is.                                      *)
  first        (* Head of the list: the channels before it are deleted.     *)

mainVars == <<main, dec, still_running, udpsrv, handler, first>>
vars == <<decoderVars, mainVars>>

MainLabels == {"udp", "setup", "launch", "load", "play", "unstop", "start",
               "sync", "daemon", "scan", "count", "sleep", "exited",
               "undefined"}
HandlerLabels == {"no", "next", "close", "delete", "returned"}

\* decoders.begin() and dec->next; 0 is NULL.
FirstDecoder == IF first > N THEN 0 ELSE first
NextOf(d) == IF d < N THEN d + 1 ELSE 0

Alive == main \notin {"exited", "undefined"}
Interrupted == handler \notin {"no", "returned"}

Init ==
  /\ DecoderInit(Given)
  /\ main = "udp"
  /\ dec = 0
  /\ still_running = N
  /\ udpsrv = "none"
  /\ handler = "no"
  /\ first = 1

(***************************************************************************)
(* main(): start the channels one by one, then the clock.                  *)
(***************************************************************************)
MainGoto(from, to) ==
  /\ ~Interrupted
  /\ main = from
  /\ main' = to
  /\ UNCHANGED <<handler, first>>

\* A step of main() that uses dec.
MainUses(from, to) ==
  /\ dec >= first
  /\ MainGoto(from, to)
  /\ UNCHANGED <<still_running, udpsrv>>

\* The same after the handler deleted the decoder: anything may happen.
Dangling ==
  /\ main \in {"setup", "launch", "load", "play", "unstop", "count", "sleep"}
  /\ dec # 0 /\ dec < first
  /\ MainGoto(main, "undefined")
  /\ UNCHANGED <<dec, still_running, udpsrv, decoderVars>>

LaunchUdp ==
  /\ MainGoto("udp", IF FirstDecoder = 0 THEN "start" ELSE "setup")
  /\ udpsrv' = IF Udp THEN "receiving" ELSE udpsrv
  /\ dec' = FirstDecoder
  /\ UNCHANGED <<still_running, decoderVars>>

SetupDecoder ==
  /\ MainUses("setup", "launch")
  /\ Setup(dec)
  /\ UNCHANGED dec

\* The end of an iteration: the next channel, or the start.
ToNext(from) ==
  /\ MainUses(from, IF NextOf(dec) = 0 THEN "start" ELSE "setup")
  /\ dec' = NextOf(dec)

LaunchDecoder ==
  /\ IF RpcDaemon THEN ToNext("launch")
     ELSE MainUses("launch", "load") /\ UNCHANGED dec
  /\ Launch(dec)

LoadPlaylist ==
  /\ MainUses("load", "play")
  /\ AppendAll(dec, Saved[dec])
  /\ UNCHANGED dec

PlayDecoder ==
  /\ MainUses("play", "unstop")
  /\ PutPlaying(dec, TRUE)
  /\ UNCHANGED dec

PlayUnstop ==
  /\ ToNext("unstop")
  /\ PutStopped(dec, FALSE)

\* After 500ns, whatever the channels have done by then; with UDP the datagram
\* does it and with the daemon nothing does.
Start ==
  /\ MainGoto("start", "sync")
  /\ syncstart' = (syncstart \/ (~RpcDaemon /\ ~Udp))
  /\ UNCHANGED <<dec, still_running, udpsrv, pc, ret, flags, lifecycle, lists,
                 movie, file, seeks, writing, fd>>

Started ==
  /\ MainGoto("sync", IF RpcDaemon THEN "daemon" ELSE "scan")
  /\ still_running' = N - first + 1
  /\ UNCHANGED <<dec, udpsrv, decoderVars>>

\* Broken on purpose: the count of the last pass stays.
ScanKeepsCount ==
  /\ MainGoto("scan", IF still_running = 0 THEN "exited" ELSE "count")
  /\ dec' = FirstDecoder
  /\ UNCHANGED <<still_running, udpsrv, decoderVars>>

(***************************************************************************)
(* main(): "run until all the channels are at the end".                    *)
(***************************************************************************)
Scan ==
  /\ MainGoto("scan", IF still_running = 0 THEN "exited" ELSE "count")
  /\ still_running' = 0
  /\ dec' = FirstDecoder
  /\ UNCHANGED <<udpsrv, decoderVars>>

\* Broken on purpose: only the last channel of the list counts.
CountLast ==
  /\ dec >= first
  /\ MainGoto("count", "sleep")
  /\ still_running' = IF playing[dec] THEN 1 ELSE 0
  /\ UNCHANGED <<dec, udpsrv, decoderVars>>

Count ==
  /\ dec >= first
  /\ MainGoto("count", "sleep")
  /\ still_running' = still_running + (IF playing[dec] THEN 1 ELSE 0)
  /\ UNCHANGED <<dec, udpsrv, decoderVars>>

\* A second later dec is used again: most of main()'s time is in between.
CountNext ==
  /\ dec >= first
  /\ MainGoto("sleep", IF NextOf(dec) = 0 THEN "scan" ELSE "count")
  /\ dec' = NextOf(dec)
  /\ UNCHANGED <<still_running, udpsrv, decoderVars>>

\* The list is empty: the pass has nothing to count.
CountNone ==
  /\ dec = 0
  /\ MainGoto("count", "scan")
  /\ UNCHANGED <<dec, still_running, udpsrv, decoderVars>>

(***************************************************************************)
(* The UDP thread: one datagram, or an error receiving it, starts all.     *)
(***************************************************************************)
Datagram ==
  /\ udpsrv = "receiving"
  /\ udpsrv' = "done"
  /\ syncstart' = TRUE
  /\ UNCHANGED <<main, dec, still_running, handler, first, pc, ret, flags,
                 lifecycle, lists, movie, file, seeks, writing, fd>>

(***************************************************************************)
(* quitproc(): close and delete the head of the list until it is empty.    *)
(* The destructor calls close() again.                                     *)
(***************************************************************************)
HandlerGoto(from, to) ==
  /\ handler = from
  /\ handler' = to
  /\ UNCHANGED <<main, dec, still_running, udpsrv>>

Signal ==
  /\ Signals
  /\ HandlerGoto("no", "next")
  /\ UNCHANGED <<first, decoderVars>>

HandlerClose ==
  /\ FirstDecoder # 0
  /\ HandlerGoto("next", "close")
  /\ CloseBegin(first)
  /\ UNCHANGED first

HandlerDestroy ==
  /\ HandlerGoto("close", "delete")
  /\ CloseBegin(first)
  /\ UNCHANGED first

HandlerDeleted ==
  /\ HandlerGoto("delete", "next")
  /\ closing[first] = "no"
  /\ first' = first + 1
  /\ UNCHANGED decoderVars

HandlerReturn ==
  /\ FirstDecoder = 0
  /\ HandlerGoto("next", "returned")
  /\ UNCHANGED <<first, decoderVars>>

InsideClose(d) == CloseStep(d) /\ UNCHANGED mainVars

(***************************************************************************)
(* The specification.  exit() ends every thread.                           *)
(***************************************************************************)
MainThread ==
  \/ LaunchUdp \/ SetupDecoder \/ LaunchDecoder \/ LoadPlaylist \/ PlayDecoder
  \/ PlayUnstop \/ Start \/ Started \/ Scan \/ Count \/ CountNone \/ CountNext
  \/ Dangling \/ HandlerClose \/ HandlerDestroy \/ HandlerDeleted \/ HandlerReturn
  \/ \E d \in Decoders : InsideClose(d)

Run(d) == Thread(d) /\ UNCHANGED mainVars

Ended == ~Alive /\ UNCHANGED vars

Next ==
  \/ Alive /\ MainThread
  \/ Alive /\ Signal
  \/ Alive /\ Datagram
  \/ \E d \in Decoders : Alive /\ Run(d)
  \/ Ended

Spec == Init /\ [][Next]_vars

(***************************************************************************)
(* The scheduler runs every thread, and devices take data: a poll finds    *)
(* room and a write succeeds again and again.  Nothing is assumed of the   *)
(* network and of the user.                                                *)
(***************************************************************************)
FairSpec ==
  /\ Spec
  /\ WF_vars(Alive /\ MainThread)
  /\ \A d \in Decoders : WF_vars(Alive /\ Run(d))
(***************************************************************************)
(* What the channels promise: SyncPlayback.                                *)
(***************************************************************************)
Fresh(d) ==
  pc[d] = "start" \/ (pc[d] \in {"top", "update", "first"} /\ position[d] < 0)

\* Nothing is left to play: the one movie of mode SINGLE was played, or the
\* next entry is not chosen yet.
Over(d) ==
  IF PlayMode[d] = "SINGLE"
  THEN movie[d] # NoFile
  ELSE pc[d] \in {"top", "update", "first", "advance", "wrap"}

State(d) ==
  IF Sending(d) THEN "playing"
  ELSE IF pc[d] = "none" THEN "new"
  ELSE IF quit[d] THEN "gone"
  ELSE IF InMovie(d) THEN "playing"
  ELSE IF pc[d] \in {"open", "size", "rewind"} THEN "turned"
  ELSE IF Fresh(d) THEN "new"
  ELSE IF Over(d) THEN "over" ELSE "turned"

\* Mode PLAY increments before it wraps.
Cursor(d) ==
  IF State(d) \in {"new", "gone"} THEN -1
  ELSE IF PlayMode[d] = "PLAY" /\ pc[d] \in {"wrap", "first"}
       THEN position[d] - 1 ELSE position[d]

Playback == INSTANCE SyncPlayback WITH
  Channels <- Decoders,
  Mode     <- PlayMode,
  started  <- syncstart,
  list     <- playlist,
  state    <- [d \in Decoders |-> State(d)],
  cursor   <- [d \in Decoders |-> Cursor(d)],
  sent     <- [d \in Decoders |-> IF State(d) = "gone" THEN 0 ELSE filepos[d]],
  quitting <- quit

(* The program implements the promise: common start, order of the playlist,
   every movie whole up to its last full buffer. *)
PlaysInSync == Playback!Spec
(***************************************************************************)
(* Safety.                                                                 *)
(***************************************************************************)
\* The types of the state.
TypeOK ==
  /\ DecoderTypeOK
  /\ main \in MainLabels
  /\ dec \in 0..N
  /\ still_running \in 0..N
  /\ udpsrv \in {"none", "receiving", "done"}
  /\ handler \in HandlerLabels
  /\ first \in 1..(N + 1)

\* Until the common start no channel has given its device a byte, however far
\* the thread that set it up has come (decoder.cpp:325).
NothingBeforeStart ==
  ~syncstart =>
    \A d \in Decoders :
      /\ filepos[d] = 0
      /\ pc[d] \notin {"write", "again"}
      /\ pc[d] \in {"flush", "seek", "seeked"} => ret[d] # "written"

\* While a movie plays the reported position plus what is left in the buffer
\* is where the file is read: partial writes lose and repeat nothing.
PositionIsOffset ==
  \A d \in Decoders :
    \/ pc[d] \in {"inner", "pausewait", "read", "sync", "write", "again"}
    \/ pc[d] = "flush" /\ ret[d] = "written"
    => filepos[d] + writing[d] = offset[d]

\* The cursor is on an entry when one is picked from a list that has any: no
\* play mode runs off the end (decoder.cpp:137-182).
PickFindsEntry ==
  \A d \in Decoders :
    pc[d] = "pick" /\ playlist[d] # <<>> => Entry(d, position[d]) # NoFile

\* When main() ends by itself, every channel has sent its first movie up to
\* the last full buffer and is in none (cmdline.cpp:436-452).
CompleteAtExit ==
  main = "exited" /\ handler = "no" =>
    \A d \in Decoders :
      /\ ~InMovie(d)
      /\ playlist[d] # <<>> /\ playlist[d][1] \notin Missing =>
           Size[playlist[d][1]] - filepos[d] < BufSize

\* The thread of a deleted channel plays nothing: close() has joined it, or it
\* had not come to run() and finds quit set (cmdline.cpp:124-127).
DeletedIsSilent ==
  \A d \in Decoders : d < first => ~Sending(d) /\ playlist_fd[d] = NoFile

\* The thread of a deleted channel is over, as "wait until the thread is ready"
\* (thread.cpp:32) would have it: launch() returns before that line.
DeletedHasNoThread ==
  \A d \in Decoders : d < first => pc[d] \in {"none", "done"}

(***************************************************************************)
(* Steps.                                                                  *)
(***************************************************************************)
\* Once told to quit, a thread that is not about to read a buffer never
\* starts to read another: close() waits for one buffer at most.
QuitStopsReading ==
  [][\A d \in Decoders :
       quit[d] /\ pc[d] \notin {"pausewait", "read"}
         => pc'[d] \notin {"pausewait", "read"}]_vars

(***************************************************************************)
(* Liveness, under FairSpec.                                               *)
(***************************************************************************)
\* With channels in mode SINGLE the program ends by itself once started.
EndsByItself == syncstart ~> main = "exited"

\* Once the channels are started the handler returns from every close() and
\* its join, wherever the threads are: what main() does after that is not said
\* here (cmdline.cpp:114-130).
HandlerReturns == (handler # "no" /\ syncstart) ~> handler = "returned"
=============================================================================
