------------------------------ MODULE RpcServer ------------------------------
(***************************************************************************)
(* The program as an XMLRPC daemon: main()'s daemon loop (cmdline.cpp),    *)
(* IvySyncDaemon and the methods of xmlrpc.cpp.  The server runs in main's *)
(* thread and executes one request at a time, while the channels run: the  *)
(* calls of a method on a decoder are steps of their own.  Requests come   *)
(* in any number and order.                                                *)
(***************************************************************************)
EXTENDS Main

CONSTANTS
  Requests,    (* What clients send: [method, dec, arg].                    *)
  NoRequest

Methods == {"Play", "Stop", "Pause", "Open", "SetPos", "SetOffset", "Quit"}

\* The path of an Open, the place of a seek.  A signal is not modelled together
\* with the daemon.
ASSUME RequestAssumption ==
  /\ NoRequest \notin Requests
  /\ \A r \in Requests :
       /\ r.method \in Methods /\ r.dec \in Decoders
       /\ r.method = "Open" => r.arg \in Files
       /\ r.method \in {"SetPos", "SetOffset"} => r.arg \in Int
  /\ ~Signals

VARIABLES
  server,      (* Where the daemon loop, or the method it executes, is.     *)
  request,     (* The last request received.                                *)
  quitRequested,   (* The static ::quit of xmlrpc.cpp.                      *)
  daemonQuit       (* IvySyncDaemon::quit.                                  *)

serverVars == <<server, request, quitRequested, daemonQuit>>
rpcVars == <<vars, serverVars>>

ServerLabels ==
  {"loop", "work", "play", "unstop", "stop", "pause", "openstop", "openempty",
   "opencursor", "openappend", "setpos", "putpos", "setoffset", "quitstop",
   "quitclose", "quitnext"}

RpcInit ==
  /\ Init
  /\ server = "loop"
  /\ request = NoRequest
  /\ quitRequested = FALSE
  /\ daemonQuit = FALSE

(***************************************************************************)
(* The daemon loop.                                                        *)
(***************************************************************************)
ServerGoto(from, to) ==
  /\ main = "daemon"
  /\ server = from
  /\ server' = to

KeepMain == UNCHANGED <<main, dec, still_running, udpsrv, handler, first>>

LoopExit ==
  /\ daemonQuit
  /\ ServerGoto("loop", "loop")
  /\ main' = "exited"
  /\ UNCHANGED <<dec, still_running, udpsrv, handler, first, decoderVars,
                 request, quitRequested, daemonQuit>>

\* run(): one turn notices the request to quit, the next one ends the loop.
LoopRun ==
  /\ ~daemonQuit
  /\ ServerGoto("loop", IF quitRequested THEN "loop" ELSE "work")
  /\ daemonQuit' = quitRequested
  /\ UNCHANGED <<vars, request, quitRequested>>

\* work() returns when its time is over.
WorkEnds ==
  /\ ServerGoto("work", "loop")
  /\ UNCHANGED <<vars, request, quitRequested, daemonQuit>>

\* The first step of each method; Open checks that it can read the file.
Enter(r) ==
  CASE r.method = "Play"      -> "play"
    [] r.method = "Stop"      -> "stop"
    [] r.method = "Pause"     -> "pause"
    [] r.method = "Open"      -> IF r.arg \in Missing THEN "work"
                                                     ELSE "openstop"
    [] r.method = "SetPos"    -> "setpos"
    [] r.method = "SetOffset" -> "setoffset"
    [] r.method = "Quit"      -> "quitstop"

\* Quit takes the decoders in turn and starts with the head of the list.
Receive(r) ==
  /\ ServerGoto("work", Enter(r))
  /\ request' = r
  /\ dec' = IF r.method = "Quit" THEN FirstDecoder ELSE dec
  /\ UNCHANGED <<main, still_running, udpsrv, handler, first, decoderVars,
                 quitRequested, daemonQuit>>

(***************************************************************************)
(* The methods.                                                            *)
(***************************************************************************)
Step(from, to) ==
  /\ ServerGoto(from, to)
  /\ KeepMain
  /\ UNCHANGED <<request, quitRequested, daemonQuit>>

target == request.dec

Play ==
  \/ Step("play", "unstop") /\ PutPlaying(target, TRUE)
  \/ Step("unstop", "work") /\ PutStopped(target, FALSE)

Stop == Step("stop", "work") /\ PutStopped(target, TRUE)

Pause == Step("pause", "work") /\ PutPlaying(target, FALSE)

\* stop(), empty() and append(): the list is empty for a while.
OpenFile ==
  \/ Step("openstop", "openempty") /\ PutStopped(target, TRUE)
  \/ Step("openempty", "opencursor") /\ PutList(target, <<>>)
  \/ Step("opencursor", "openappend") /\ PutPosition(target, 1)
  \/ Step("openappend", "work") /\ AppendAll(target, <<request.arg>>)

\* Division in C drops the fraction, of negative numbers too.
Hundredth(n) == IF n < 0 THEN -((-n) \div 100) ELSE n \div 100

\* A percentage of the length last measured, if a movie is open.
SetPos ==
  \/ /\ Step("setpos", IF playlist_fd[target] = NoFile \/ filesize[target] = 0
                       THEN "work" ELSE "putpos")
     /\ UNCHANGED decoderVars
  \/ /\ Step("putpos", "work")
     /\ PutSeek(target, Hundredth(filesize[target] * request.arg))

\* An offset within the length last measured, of a movie open or not.
SetOffset ==
  /\ Step("setoffset", "work")
  /\ PutSeek(target, IF request.arg < filesize[target] THEN request.arg
                                                      ELSE filesize[target])

QuitStop ==
  /\ Step("quitstop", "quitclose")
  /\ PutStopped(dec, TRUE)

QuitClose ==
  /\ Step("quitclose", "quitnext")
  /\ CloseBegin(dec)

\* Broken on purpose: does not see the end of the list.
QuitNextPastEnd ==
  /\ ServerGoto("quitnext", "quitstop")
  /\ closing[dec] = "no"
  /\ dec' = dec + 1
  /\ UNCHANGED <<main, still_running, udpsrv, handler, first, decoderVars,
                 request, quitRequested, daemonQuit>>

QuitNext ==
  /\ ServerGoto("quitnext", IF NextOf(dec) = 0 THEN "work" ELSE "quitstop")
  /\ closing[dec] = "no"
  /\ dec' = NextOf(dec)
  /\ quitRequested' = (NextOf(dec) = 0)
  /\ UNCHANGED <<main, still_running, udpsrv, handler, first, decoderVars,
                 request, daemonQuit>>

(***************************************************************************)
(* The specification.  work() returns however many requests come.          *)
(***************************************************************************)
Serve ==
  \/ LoopExit \/ LoopRun \/ Play \/ Stop \/ Pause \/ OpenFile \/ SetPos
  \/ SetOffset \/ QuitStop \/ QuitClose \/ QuitNext

RpcNext ==
  \/ Next /\ UNCHANGED serverVars
  \/ Alive /\ Serve
  \/ Alive /\ WorkEnds
  \/ Alive /\ \E r \in Requests : Receive(r)

RpcSpec == RpcInit /\ [][RpcNext]_rpcVars

RpcFairSpec ==
  /\ RpcSpec
  /\ WF_rpcVars(Alive /\ MainThread /\ UNCHANGED serverVars)
  /\ WF_rpcVars(Alive /\ Serve)
  /\ SF_rpcVars(Alive /\ WorkEnds)
  /\ \A d \in Decoders : WF_rpcVars(Alive /\ Run(d) /\ UNCHANGED serverVars)

(***************************************************************************)
(* Safety.                                                                 *)
(***************************************************************************)
\* The types of the daemon's state.
RpcTypeOK ==
  /\ TypeOK
  /\ server \in ServerLabels
  /\ request \in Requests \cup {NoRequest}
  /\ quitRequested \in BOOLEAN
  /\ daemonQuit \in BOOLEAN

\* A seek may come while part of a buffer is unwritten: what is left of it is
\* then counted at the new place.  The reported position runs ahead of the
\* file by less than one buffer, however many seeks come (decoder.cpp:344,393).
DriftBounded ==
  \A d \in Decoders :
    \/ pc[d] \in {"inner", "pausewait", "read", "sync", "write", "again"}
    \/ pc[d] = "flush" /\ ret[d] = "written"
    => filepos[d] + writing[d] - offset[d] \in 0..(BufSize - 1)

(***************************************************************************)
(* Liveness.                                                               *)
(***************************************************************************)
\* "Stop playing the channel" (xmlrpc.h:108): a stop reaches a movie
\* unless the channel is paused or told to play again.
StopEndsMovie ==
  \A d \in Decoders :
    (syncstart /\ stopped[d] /\ InMovie(d))
      ~> (~InMovie(d) \/ ~stopped[d] \/ ~playing[d])

\* "Quit the ivysync from running" (xmlrpc.h:206), once the channels started.
QuitEnds == (server = "quitstop" /\ syncstart) ~> main = "exited"

\* The last request was to do "method" on channel d, and was done.
Done(method, d) ==
  /\ server = "work"
  /\ request \in {r \in Requests : r.method = method /\ r.dec = d}

\* "Start playing the channel" (xmlrpc.h:93): after Play, and no further
\* request, the channel gives data of its movie to the device.
PlayStarts ==
  \A d \in Decoders :
    Done("Play", d) ~> (filepos[d] > 0 \/ server \notin {"work", "loop"})

\* "Open a new file to be played" (xmlrpc.h:192): a Play that follows an Open
\* plays the file, when no further request comes.
OpenedIsPlayed ==
  \A d \in Decoders, r \in {q \in Requests : q.method = "Open"} :
    (syncstart /\ Done("Play", d) /\ playlist[d] = <<r.arg>>)
      ~> (movie[d] = r.arg \/ server \notin {"work", "loop"})
=============================================================================
