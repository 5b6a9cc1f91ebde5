------------------------------ MODULE RpcProofs ------------------------------
(***************************************************************************)
(* The program under remote control, for any number of channels and any    *)
(* requests in any order: types, the discipline of open files, and how far *)
(* seeks take the reported position away from the file.                    *)
(*                                                                         *)
(* What a thread does is the same as without the daemon, so the invariant  *)
(* of control (ControlOf) is that of MainProofs.  The one of positions is  *)
(* not, as a seek may be pending and may change between the test and the   *)
(* use of it in flush(): DriftOf says what is left of it.                  *)
(***************************************************************************)
EXTENDS RpcServer, MainProofs

(***************************************************************************)
(* The server.                                                             *)
(***************************************************************************)
Quitting == {"quitstop", "quitclose", "quitnext"}
Opening == {"openstop", "openempty", "opencursor", "openappend"}

\* The method that is executed is the one asked for, and Quit has a decoder.
ServerInv ==
  /\ handler = "no" /\ first = 1
  /\ main # "daemon" => server = "loop"
  /\ server \in Quitting => dec \in Decoders
  /\ server \notin {"loop", "work"} => request \in Requests
  /\ server \in Opening => request.method = "Open"
  /\ server \in {"setpos", "putpos"} => request.method = "SetPos"
  /\ server = "setoffset" => request.method = "SetOffset"

RpcInv ==
  RpcTypeOK /\ MainInv /\ ServerInv /\ \A d \in Decoders : ControlOf(d)

\* What a method may change of the channels.
Asks ==
  UNCHANGED <<pc, ret, mutex, movie, playlist_fd, filesize, offset, filepos, writing,
              syncstart>>

LEMMA CallTypes ==
  ASSUME NEW d \in Decoders, DecoderTypeOK,
         \/ \E v \in BOOLEAN : PutPlaying(d, v) \/ PutStopped(d, v)
         \/ \E s \in Seq(Files) : PutList(d, s) \/ AppendAll(d, s)
         \/ PutPosition(d, 1)
         \/ \E n \in Int : PutSeek(d, n)
  PROVE  DecoderTypeOK' /\ Asks
<1> USE DEF DecoderTypeOK, Asks, Set, flags, lists, file, seeks, lifecycle
<1>1. ASSUME NEW v \in BOOLEAN, PutPlaying(d, v) PROVE DecoderTypeOK' /\ Asks
  <2>1. playing' \in [Decoders -> BOOLEAN]
    BY <1>1, Zenon DEF PutPlaying
  <2> QED
    BY <1>1, <2>1 DEF PutPlaying
<1>2. ASSUME NEW v \in BOOLEAN, PutStopped(d, v) PROVE DecoderTypeOK' /\ Asks
  <2>1. stopped' \in [Decoders -> BOOLEAN]
    BY <1>2, Zenon DEF PutStopped
  <2> QED
    BY <1>2, <2>1 DEF PutStopped
<1>3. ASSUME NEW s \in Seq(Files), PutList(d, s) PROVE DecoderTypeOK' /\ Asks
  BY <1>3 DEF PutList
<1>4. ASSUME NEW s \in Seq(Files), AppendAll(d, s) PROVE DecoderTypeOK' /\ Asks
  <2>1. playlist[d] \o s \in Seq(Files)
    OBVIOUS
  <2> QED
    BY <1>3, <1>4, <2>1 DEF AppendAll
<1>5. CASE PutPosition(d, 1)
  BY <1>5 DEF PutPosition
<1>6. ASSUME NEW n \in Int, PutSeek(d, n) PROVE DecoderTypeOK' /\ Asks
  BY <1>6 DEF PutSeek
<1> QED
  BY <1>1, <1>2, <1>3, <1>4, <1>5, <1>6

LEMMA AsksControl ==
  ASSUME Asks, NEW c \in Decoders, ControlOf(c)
  PROVE  ControlOf(c)'
BY DEF Asks, ControlOf, InMovie, Subroutine

\* Where a seek goes is an integer.
LEMMA HundredthInt ==
  ASSUME NEW n \in Int
  PROVE  Hundredth(n) \in Int /\ (n >= 0 => Hundredth(n) >= 0)
BY DEF Hundredth

\* A step of main() or of a channel leaves the server alone.
LEMMA ProgramStep ==
  ASSUME RpcInv, Next \/ UNCHANGED vars, UNCHANGED serverVars
  PROVE  RpcInv'
<1>0. TypeOK /\ DecoderTypeOK /\ MainInv /\ \A d \in Decoders : ControlOf(d)
  BY DEF RpcInv, RpcTypeOK, TypeOK
<1>1. TypeOK' /\ MainInv' /\ \A c \in Decoders : ControlOf(c)'
  <2>1. CASE MainThread \/ Signal \/ Datagram \/ UNCHANGED vars
    BY <1>0, <2>1, OthersTypes, OthersOutside, OutsideChannels
  <2>2. ASSUME NEW d \in Decoders, Run(d)
        PROVE  TypeOK' /\ MainInv' /\ \A c \in Decoders : ControlOf(c)'
    <3>1. DecoderTypeOK' /\ \A c \in Decoders : ControlOf(c)'
      BY <1>0, <2>2, ThreadTypes, ThreadControl DEF Run
    <3> QED
      BY <1>0, <2>2, <3>1 DEF Run, mainVars, TypeOK, MainInv
  <2> QED
    BY <2>1, <2>2 DEF Next, Ended
<1>2. RpcTypeOK'
  BY <1>1 DEF RpcInv, RpcTypeOK, serverVars
<1>3. /\ handler' = handler /\ first' = first
      /\ main = "daemon" => main' = "daemon" /\ dec' = dec
  <2> USE RequestAssumption DEF RpcInv, ServerInv
  <2>1. CASE MainThread
    <3> USE DEF MainGoto, MainUses, ToNext, HandlerGoto
    <3>1. CASE \/ LaunchUdp \/ SetupDecoder \/ LaunchDecoder \/ LoadPlaylist
               \/ PlayDecoder \/ PlayUnstop
      BY <3>1 DEF LaunchUdp, SetupDecoder, LaunchDecoder, LoadPlaylist, PlayDecoder,
                  PlayUnstop
    <3>2. CASE Start \/ Started \/ Scan \/ Count \/ CountNext \/ CountNone \/ Dangling
      BY <3>2 DEF Start, Started, Scan, Count, CountNext, CountNone, Dangling
    <3>3. CASE HandlerClose \/ HandlerDestroy \/ HandlerDeleted \/ HandlerReturn
      <4>1. FirstDecoder # 0
        BY MainAssumption, DecoderAssumption DEF FirstDecoder
      <4>2. handler \in {"next", "close", "delete"}
        BY <3>3 DEF HandlerClose, HandlerDestroy, HandlerDeleted, HandlerReturn
      <4> QED
        BY <4>2
    <3>4. ASSUME NEW d \in Decoders, InsideClose(d)
          PROVE  handler' = handler /\ first' = first /\ main' = main /\ dec' = dec
      BY <3>4 DEF InsideClose, mainVars
    <3> QED
      BY <2>1, <3>1, <3>2, <3>3, <3>4 DEF MainThread
  <2>2. CASE Signal
    BY <2>2 DEF Signal
  <2>3. CASE Datagram \/ UNCHANGED vars \/ \E d \in Decoders : Run(d)
    BY <2>3 DEF Datagram, vars, mainVars, Run
  <2> QED
    BY <2>1, <2>2, <2>3 DEF Next, Ended
<1>4. ServerInv'
  BY <1>3 DEF RpcInv, ServerInv, serverVars, Quitting
<1> QED
  BY <1>1, <1>2, <1>4 DEF RpcInv

\* What the server and the method it executes do to the channels.
LEMMA ServerChannels ==
  ASSUME RpcInv, Serve \/ WorkEnds \/ \E r \in Requests : Receive(r)
  PROVE  DecoderTypeOK' /\ Asks
<1> USE RequestAssumption DEF ServerGoto, Step, KeepMain, target
<1>0. /\ DecoderTypeOK /\ ServerInv /\ \A c \in Decoders : ControlOf(c)
      /\ MainInv /\ TypeOK /\ RpcTypeOK
  BY DEF RpcInv, RpcTypeOK, TypeOK
<1>1. ASSUME server \notin {"loop", "work"}
      PROVE  request \in Requests /\ request.dec \in Decoders
  BY <1>0, <1>1 DEF ServerInv
<1>2. CASE LoopExit \/ LoopRun \/ WorkEnds \/ QuitNext \/ \E r \in Requests : Receive(r)
  <2>1. UNCHANGED decoderVars
    BY <1>2 DEF LoopExit, LoopRun, WorkEnds, QuitNext, Receive, vars
  <2>2. Asks
    BY <2>1 DEF decoderVars, Asks, lifecycle, file, seeks
  <2> QED
    BY <1>0, <2>1, <2>2, StillTypes
<1>3. CASE Play \/ Stop \/ Pause \/ QuitStop
  <2>1. PICK d \in Decoders, v \in BOOLEAN : PutPlaying(d, v) \/ PutStopped(d, v)
    <3>1. CASE Play \/ Stop \/ Pause
      BY <1>1, <1>3, <3>1 DEF Play, Stop, Pause
    <3>2. CASE QuitStop
      BY <1>0, <3>2 DEF QuitStop, ServerInv, Quitting
    <3> QED
      BY <1>3, <3>1, <3>2
  <2> QED
    BY <1>0, <2>1, CallTypes
<1>4. CASE OpenFile
  <2>1. request \in Requests /\ request.dec \in Decoders
    BY <1>1, <1>4 DEF OpenFile
  <2>2. CASE PutStopped(request.dec, TRUE) \/ PutPosition(request.dec, 1)
    BY <1>0, <2>1, <2>2, CallTypes
  <2>3. CASE PutList(request.dec, <<>>)
    <3>1. <<>> \in Seq(Files)
      OBVIOUS
    <3> QED
      BY <1>0, <2>1, <2>3, <3>1, CallTypes
  <2>4. CASE Step("openappend", "work") /\ AppendAll(request.dec, <<request.arg>>)
    <3>1. request.arg \in Files
      BY <1>0, <2>1, <2>4 DEF ServerInv, Opening
    <3>2. <<request.arg>> \in Seq(Files)
      BY <3>1
    <3> QED
      BY <1>0, <2>1, <2>4, <3>2, CallTypes
  <2> QED
    BY <1>4, <2>2, <2>3, <2>4 DEF OpenFile
<1>5. CASE SetPos
  <2>1. request \in Requests /\ request.dec \in Decoders
    BY <1>1, <1>5 DEF SetPos
  <2>2. CASE UNCHANGED decoderVars
    <3>1. Asks
      BY <2>2 DEF decoderVars, Asks, lifecycle, file, seeks
    <3> QED
      BY <1>0, <2>2, <3>1, StillTypes
  <2>3. CASE Step("putpos", "work")
              /\ PutSeek(request.dec, Hundredth(filesize[request.dec] * request.arg))
    <3>1. request.arg \in Int /\ filesize[request.dec] \in Nat
      BY <1>0, <2>1, <2>3 DEF ServerInv, DecoderTypeOK
    <3>2. Hundredth(filesize[request.dec] * request.arg) \in Int
      BY <3>1, HundredthInt
    <3> QED
      BY <1>0, <2>1, <2>3, <3>2, CallTypes
  <2> QED
    BY <1>5, <2>2, <2>3 DEF SetPos
<1>6. CASE SetOffset
  <2>1. request \in Requests /\ request.dec \in Decoders
    BY <1>1, <1>6 DEF SetOffset
  <2>2. request.arg \in Int /\ filesize[request.dec] \in Nat
    BY <1>0, <2>1, <1>6 DEF ServerInv, DecoderTypeOK, SetOffset
  <2> QED
    BY <1>0, <1>6, <2>1, <2>2, CallTypes DEF SetOffset
<1>7. CASE QuitClose
  <2>1. dec \in Decoders /\ CloseBegin(dec)
    BY <1>0, <1>7 DEF QuitClose, ServerInv, Quitting
  <2> QED
    BY <1>0, <2>1, CloseTypes DEF CloseBegin, CloseGoto, Asks, file, seeks
<1> QED
  BY <1>2, <1>3, <1>4, <1>5, <1>6, <1>7 DEF Serve

\* Where the server goes, and main()'s cursor when it quits.
LEMMA ServerStep ==
  ASSUME RpcInv, Serve \/ WorkEnds \/ \E r \in Requests : Receive(r)
  PROVE  RpcInv'
<1> USE RequestAssumption, DecoderAssumption, MainAssumption
        DEF ServerGoto, Step, KeepMain, vars, mainVars
<1>0. /\ DecoderTypeOK' /\ Asks
      /\ MainInv /\ ServerInv /\ TypeOK /\ \A c \in Decoders : ControlOf(c)
      /\ request \in Requests \cup {NoRequest} /\ server \in ServerLabels
  BY ServerChannels DEF RpcInv, RpcTypeOK
<1>1. \A c \in Decoders : ControlOf(c)'
  BY <1>0, AsksControl
<1>2. /\ main = "daemon" /\ main' \in {"daemon", "exited"}
      /\ UNCHANGED <<handler, first, still_running, udpsrv>>
      /\ main' = "daemon" \/ server' = "loop"
  <2>1. CASE LoopExit \/ LoopRun \/ WorkEnds
    BY <2>1 DEF LoopExit, LoopRun, WorkEnds
  <2>2. CASE QuitNext \/ QuitStop \/ QuitClose \/ \E r \in Requests : Receive(r)
    BY <2>2 DEF QuitNext, QuitStop, QuitClose, Receive
  <2>3. CASE Play \/ Stop \/ Pause \/ OpenFile \/ SetPos \/ SetOffset
    BY <2>3 DEF Play, Stop, Pause, OpenFile, SetPos, SetOffset
  <2> QED
    BY <2>1, <2>2, <2>3 DEF Serve
<1>3. /\ dec' \in 0..N
      /\ server' \in Quitting => dec' \in Decoders
  <2>1. dec \in 0..N /\ FirstDecoder = 1 /\ 1 \in Decoders
    BY <1>0 DEF TypeOK, ServerInv, FirstDecoder, Decoders
  <2>2. CASE LoopExit \/ LoopRun \/ WorkEnds
    BY <2>1, <2>2 DEF LoopExit, LoopRun, WorkEnds, Quitting
  <2>3. CASE QuitStop \/ QuitClose
    BY <1>0, <2>1, <2>3 DEF QuitStop, QuitClose, ServerInv, Quitting
  <2>4. CASE QuitNext
    BY <1>0, <2>1, <2>4 DEF QuitNext, ServerInv, Quitting, NextOf, Decoders
  <2>5. ASSUME NEW r \in Requests, Receive(r)
        PROVE  dec' \in 0..N /\ (server' \in Quitting => dec' \in Decoders)
    <3>1. dec' \in {dec, 1} /\ (r.method = "Quit" => dec' = 1)
      BY <2>1, <2>5 DEF Receive
    <3>2. r.method # "Quit" => server' \notin Quitting
      BY <2>5 DEF Receive, Enter, Methods, Quitting
    <3> QED
      BY <2>1, <3>1, <3>2 DEF Decoders
  <2>6. CASE Play \/ Stop \/ Pause \/ OpenFile \/ SetPos \/ SetOffset
    BY <2>1, <2>6 DEF Play, Stop, Pause, OpenFile, SetPos, SetOffset, Quitting
  <2> QED
    BY <2>2, <2>3, <2>4, <2>5, <2>6 DEF Serve
<1>4. /\ server' \in ServerLabels /\ request' \in Requests \cup {NoRequest}
      /\ server' \notin {"loop", "work"} => request' \in Requests
      /\ server' \in Opening => request'.method = "Open"
      /\ server' \in {"setpos", "putpos"} => request'.method = "SetPos"
      /\ server' = "setoffset" => request'.method = "SetOffset"
  <2> USE DEF ServerLabels, Opening
  <2>1. CASE LoopExit \/ LoopRun \/ WorkEnds
    BY <1>0, <2>1 DEF LoopExit, LoopRun, WorkEnds
  <2>2. CASE QuitNext \/ QuitStop \/ QuitClose
    BY <1>0, <2>2 DEF QuitNext, QuitStop, QuitClose, ServerInv
  <2>3. ASSUME NEW r \in Requests, Receive(r)
        PROVE  /\ request' = r
               /\ server' \in ServerLabels
               /\ server' \in Opening => r.method = "Open"
               /\ server' \in {"setpos", "putpos"} => r.method = "SetPos"
               /\ server' = "setoffset" => r.method = "SetOffset"
    BY <2>3 DEF Receive, Enter, Methods
  <2>4. CASE Play \/ Stop \/ Pause \/ SetPos \/ SetOffset
    BY <1>0, <2>4 DEF Play, Stop, Pause, SetPos, SetOffset, ServerInv
  <2>5. CASE OpenFile
    BY <1>0, <2>5 DEF OpenFile, ServerInv
  <2> QED
    BY <2>1, <2>2, <2>3, <2>4, <2>5 DEF Serve
<1>5. quitRequested' \in BOOLEAN /\ daemonQuit' \in BOOLEAN
  <2> USE DEF RpcInv, RpcTypeOK
  <2>1. CASE LoopExit \/ WorkEnds \/ QuitStop \/ QuitClose
    BY <2>1 DEF LoopExit, WorkEnds, QuitStop, QuitClose
  <2>2. CASE LoopRun
    BY <2>2, Zenon DEF LoopRun
  <2>3. CASE QuitNext
    BY <2>3, Zenon DEF QuitNext
  <2>4. CASE \E r \in Requests : Receive(r)
    BY <2>4 DEF Receive
  <2>5. CASE Play \/ Stop \/ Pause \/ OpenFile \/ SetPos \/ SetOffset
    BY <2>5 DEF Play, Stop, Pause, OpenFile, SetPos, SetOffset
  <2> QED
    BY <2>1, <2>2, <2>3, <2>4, <2>5 DEF Serve
<1>6. TypeOK' /\ MainInv' /\ ServerInv'
  BY <1>0, <1>2, <1>3, <1>4 DEF TypeOK, MainInv, MainLabels, ServerInv
<1> QED
  BY <1>1, <1>4, <1>5, <1>6 DEF RpcInv, RpcTypeOK

LEMMA RpcCorrect == RpcSpec => []RpcInv
<1>1. RpcInit => RpcInv
  <2> SUFFICES ASSUME RpcInit PROVE RpcInv
    OBVIOUS
  <2>1. Inv
    BY InvInit DEF RpcInit
  <2>2. quitRequested \in BOOLEAN /\ daemonQuit \in BOOLEAN
    BY Zenon DEF RpcInit
  <2>3. RpcTypeOK
    BY <2>1, <2>2 DEF RpcInit, RpcTypeOK, Inv, ServerLabels
  <2>4. ServerInv
    BY DEF RpcInit, Init, ServerInv, Quitting, Opening
  <2> QED
    BY <2>1, <2>3, <2>4 DEF RpcInv, Inv, ChannelInv
<1>2. RpcInv /\ [RpcNext]_rpcVars => RpcInv'
  <2> SUFFICES ASSUME RpcInv, [RpcNext]_rpcVars PROVE RpcInv'
    OBVIOUS
  <2>1. CASE UNCHANGED rpcVars
    BY <2>1, ProgramStep DEF rpcVars
  <2>2. CASE Next /\ UNCHANGED serverVars
    BY <2>2, ProgramStep
  <2>3. CASE Serve \/ WorkEnds \/ \E r \in Requests : Receive(r)
    BY <2>3, ServerStep
  <2> QED
    BY <2>1, <2>2, <2>3 DEF RpcNext
<1> QED
  BY <1>1, <1>2, PTL DEF RpcSpec

\* Every variable keeps its type, whatever is requested and however the steps of a method
\* fall between those of the channels (xmlrpc.cpp, decoder.cpp).
THEOREM RpcTypesCorrect == RpcSpec => []RpcTypeOK
<1>1. RpcInv => RpcTypeOK
  BY DEF RpcInv
<1> QED
  BY <1>1, RpcCorrect, PTL

\* Nor do stops, seeks, opened files and a Quit make a channel leak a FILE or read a closed
\* one (decoder.cpp:247-369, xmlrpc.cpp:157-163).
THEOREM RpcFilesCorrect == RpcSpec => []OneMovieOpen
<1>1. RpcInv => OneMovieOpen
  BY DEF RpcInv, ControlOf, OneMovieOpen
<1> QED
  BY <1>1, RpcCorrect, PTL

(***************************************************************************)
(* Seeks and the position.                                                 *)
(***************************************************************************)
\* No client asks for a place before the beginning.
Forward ==
  \A r \in Requests : r.method \in {"SetPos", "SetOffset"} => r.arg >= 0

\* A buffer is being written.
InBuffer(d) ==
  \/ Writing(d)
  \/ pc[d] \in {"seek", "seeked"} /\ ret[d] = "written"

\* The position runs ahead by what was left to write when the last seek came.
DriftOf(d) ==
  /\ ~InBuffer(d) => writing[d] = 0
  /\ writing[d] <= BufSize
  /\ pc[d] \in {"flush", "seek", "seeked"} /\ ret[d] = "written"
       => writing[d] < BufSize
  /\ pc[d] \in {"size", "rewind"} => offset[d] = 0
  /\ pc[d] \in {"inner", "pausewait", "read", "again"} \/ InBuffer(d)
       => /\ filepos[d] + writing[d] - offset[d] >= 0
          /\ filepos[d] + writing[d] - offset[d] < BufSize

\* A channel keeps it, if a seek that is pending is not to a place before the start.
LEMMA ThreadDrift ==
  ASSUME NEW d \in Decoders, DecoderTypeOK, ControlOf(d), Thread(d), newfilepos[d] >= 0,
         DriftOf(d), NEW c \in Decoders, DriftOf(c), newfilepos[c] >= 0
  PROVE  DriftOf(c)' /\ newfilepos'[c] >= 0
<1> USE DecoderAssumption DEF DecoderTypeOK, Goto, Jump, LoopTest, Still, Set,
        flags, lists, file, seeks, lifecycle, ControlOf, DriftOf, InBuffer, Writing,
        InMovie, Subroutine
<1>1. CASE Begin(d)
  BY <1>1 DEF Begin
<1>2. CASE Top(d)
  BY <1>2 DEF Top
<1>3. CASE UpdateFirst(d)
  BY <1>3 DEF UpdateFirst
<1>4. CASE UpdatePlay(d)
  BY <1>4 DEF UpdatePlay
<1>5. CASE UpdateCont(d)
  BY <1>5 DEF UpdateCont
<1>6. CASE UpdateSame(d)
  BY <1>6 DEF UpdateSame
<1>7. CASE UpdateSingle(d)
  BY <1>7 DEF UpdateSingle
<1>8. CASE UpdateWrap(d)
  BY <1>8 DEF UpdateWrap
<1>9. CASE CursorFirst(d)
  BY <1>9 DEF CursorFirst
<1>10. CASE CursorAdvance(d)
  BY <1>10 DEF CursorAdvance
<1>11. CASE Check(d)
  BY <1>11 DEF Check
<1>12. CASE Unstop(d)
  BY <1>12 DEF Unstop
<1>13. CASE Unplay(d)
  <2>1. /\ \/ pc[d] = "unplay" /\ pc' = [pc EXCEPT ![d] = "wait"]
           \/ pc[d] = "nomovie" /\ pc' = [pc EXCEPT ![d] = "top"]
        /\ UNCHANGED <<ret, filepos, newfilepos, offset, writing>>
    BY ONLY <1>13 DEF Unplay, Goto, seeks, file
  <2>2. CASE c = d
    BY <2>1, <2>2
  <2>3. CASE c # d
    BY <2>1, <2>3
  <2> QED
    BY <2>2, <2>3
<1>14. CASE Wake(d)
  <2>1. CASE Jump(d, "wait", "pick")
    BY <2>1
  <2>2. CASE Jump(d, "pausewait", "read")
    BY <2>2
  <2> QED
    BY <1>14, <2>1, <2>2 DEF Wake
<1>15. CASE Pick(d)
  BY <1>15 DEF Pick, Entry
<1>16. CASE Open(d)
  BY <1>16 DEF Open
<1>17. CASE Measure(d)
  BY <1>17 DEF Measure
<1>18. CASE Rewind(d)
  <2>1. /\ pc[d] = "rewind" /\ pc' = [pc EXCEPT ![d] = "inner"]
        /\ filepos' = [filepos EXCEPT ![d] = 0]
        /\ UNCHANGED <<ret, newfilepos, offset, writing>>
    BY ONLY <1>18 DEF Rewind, Goto, Set, file
  <2>2. CASE c = d
    BY <2>1, <2>2
  <2>3. CASE c # d
    BY <2>1, <2>3
  <2> QED
    BY <2>2, <2>3
<1>19. CASE Inner(d)
  BY <1>19 DEF Inner
<1>20. CASE Read(d)
  <2>1. playlist_fd[d] \in Files
    BY <1>20 DEF Read
  <2>2. /\ Readable(d) \in Nat /\ Readable(d) <= BufSize
        /\ pc[d] = "read" /\ ret[d] = "eom" /\ writing[d] = 0
    <3>1. /\ Readable(d) \in Nat /\ Readable(d) <= BufSize
      <4>1. Size[playlist_fd[d]] \in Nat /\ offset[d] \in Nat /\ BufSize \in Nat
        BY <2>1
      <4> QED
        BY ONLY <4>1 DEF Readable
    <3>2. pc[d] = "read"
      BY <1>20 DEF Read
    <3> QED
      BY <3>1, <3>2
  <2>3. CASE Readable(d) < BufSize
    BY <1>20, <2>2, <2>3 DEF Read
  <2>4. CASE Readable(d) = BufSize
    <3>1. /\ pc' = [pc EXCEPT ![d] = "sync"] /\ offset' = [offset EXCEPT ![d] = offset[d] + BufSize]
          /\ writing' = [writing EXCEPT ![d] = BufSize]
          /\ UNCHANGED <<ret, filepos, newfilepos>>
      <4>1. ~(Readable(d) < BufSize)
        BY <2>4
      <4> QED
        BY ONLY <1>20, <2>4, <4>1 DEF Read, Goto, Set, flags, lists, file, seeks, lifecycle
    <3>2. CASE c = d
      <4>1. /\ pc'[d] = "sync" /\ offset'[d] = offset[d] + BufSize /\ writing'[d] = BufSize
            /\ ret'[d] = "eom" /\ filepos'[d] = filepos[d]
        BY <2>2, <3>1
      <4>2. /\ filepos[d] - offset[d] >= 0 /\ filepos[d] - offset[d] < BufSize
        <5>1. /\ filepos[d] + writing[d] - offset[d] >= 0
              /\ filepos[d] + writing[d] - offset[d] < BufSize
          BY ONLY <2>2, DriftOf(d) DEF DriftOf
        <5>2. filepos[d] \in Int /\ offset[d] \in Int /\ writing[d] = 0
          BY <2>2
        <5> QED
          BY ONLY <5>1, <5>2
      <4>3. /\ filepos[d] \in Int /\ offset[d] \in Int /\ BufSize \in Nat \ {0}
        OBVIOUS
      <4>4. /\ filepos'[d] + writing'[d] - offset'[d] >= 0
            /\ filepos'[d] + writing'[d] - offset'[d] < BufSize
        BY ONLY <4>1, <4>2, <4>3
      <4>5. newfilepos'[c] >= 0
        BY <3>1
      <4> QED
        BY ONLY <3>2, <4>1, <4>3, <4>4, <4>5 DEF DriftOf, InBuffer, Writing
    <3>3. CASE c # d
      BY <3>1, <3>3
    <3> QED
      BY <3>2, <3>3
  <2> QED
    BY <2>2, <2>3, <2>4
<1>21. CASE Sync(d)
  BY <1>21 DEF Sync
<1>22. CASE Write(d)
  <2>1. PICK n \in 1..writing[d] :
          /\ filepos' = [filepos EXCEPT ![d] = filepos[d] + n]
          /\ writing' = [writing EXCEPT ![d] = writing[d] - n]
    BY <1>22 DEF Write
  <2>2. /\ pc[d] = "write" /\ pc' = [pc EXCEPT ![d] = "flush"]
        /\ ret' = [ret EXCEPT ![d] = "written"]
        /\ UNCHANGED <<mutex, movie, playlist_fd, offset, newfilepos, syncstart>>
    BY <1>22 DEF Write
  <2>3. CASE c = d
    <3>1. /\ filepos'[d] = filepos[d] + n /\ writing'[d] = writing[d] - n /\ n \in 1..writing[d]
          /\ pc'[d] = "flush" /\ ret'[d] = "written" /\ offset'[d] = offset[d]
          /\ newfilepos'[d] = newfilepos[d]
      BY <2>1, <2>2
    <3>2. /\ filepos[d] \in Int /\ offset[d] \in Int /\ BufSize \in Nat /\ writing[d] \in Nat
          /\ writing[d] <= BufSize
          /\ filepos[d] + writing[d] - offset[d] >= 0
          /\ filepos[d] + writing[d] - offset[d] < BufSize
      BY <2>2
    <3>3. /\ writing'[d] < BufSize /\ writing'[d] <= BufSize
          /\ filepos'[d] + writing'[d] - offset'[d] >= 0
          /\ filepos'[d] + writing'[d] - offset'[d] < BufSize
      BY ONLY <3>1, <3>2
    <3> QED
      BY <2>3, <3>1, <3>3
  <2>4. CASE c # d
    BY <2>1, <2>2, <2>4
  <2> QED
    BY <2>3, <2>4
<1>23. CASE Again(d)
  BY <1>23 DEF Again
<1>24. CASE FlushReady(d)
  <2>1. /\ pc[d] = "flush"
        /\ \/ pc' = [pc EXCEPT ![d] = "seek"]
           \/ ret[d] # "written" /\ pc' = [pc EXCEPT ![d] = "reopen"]
           \/ ret[d] = "written" /\ writing[d] = 0 /\ pc' = [pc EXCEPT ![d] = "again"]
           \/ ret[d] = "written" /\ pc' = [pc EXCEPT ![d] = "write"]
        /\ UNCHANGED <<ret, filepos, newfilepos, offset, writing>>
    BY ONLY <1>24 DEF FlushReady, Flushed, Jump, Goto, Still, file, seeks
  <2>2. CASE c # d
    BY <2>1, <2>2
  <2>3. CASE c = d
    <3>1. newfilepos'[c] >= 0
      BY <2>1
    <3>2. DriftOf(c)'
      BY <2>1, <2>3
    <3> QED
      BY <3>1, <3>2
  <2> QED
    BY <2>2, <2>3
<1>25. CASE FlushQuit(d)
  <2>1. /\ pc[d] = "flush"
        /\ \/ pc' = [pc EXCEPT ![d] = "seek"]
           \/ ret[d] # "written" /\ pc' = [pc EXCEPT ![d] = "reopen"]
           \/ ret[d] = "written" /\ writing[d] = 0 /\ pc' = [pc EXCEPT ![d] = "again"]
           \/ ret[d] = "written" /\ pc' = [pc EXCEPT ![d] = "write"]
        /\ UNCHANGED <<ret, filepos, newfilepos, offset, writing>>
    BY ONLY <1>25 DEF FlushQuit, Flushed, Jump, Goto, Still, file, seeks
  <2>2. CASE c # d
    BY <2>1, <2>2
  <2>3. CASE c = d
    <3>1. newfilepos'[c] >= 0
      BY <2>1
    <3>2. DriftOf(c)'
      BY <2>1, <2>3
    <3> QED
      BY <3>1, <3>2
  <2> QED
    BY <2>2, <2>3
<1>26. CASE Seek(d)
  <2>1. /\ pc[d] = "seek" /\ pc' = [pc EXCEPT ![d] = "seeked"]
        /\ offset' = [offset EXCEPT ![d] = newfilepos[d]]
        /\ filepos' = [filepos EXCEPT ![d] = newfilepos[d]]
        /\ UNCHANGED <<ret, writing, newfilepos>>
    <3>1. ~(newfilepos[d] < 0)
      OBVIOUS
    <3> QED
      BY ONLY <1>26, <3>1 DEF Seek, Goto, Set
  <2>2. CASE c = d
    <3>1. /\ pc'[d] = "seeked" /\ offset'[d] = filepos'[d] /\ filepos'[d] >= 0
          /\ ret'[d] = ret[d] /\ writing'[d] = writing[d] /\ newfilepos'[d] >= 0
          /\ filepos'[d] \in Int /\ writing[d] \in Nat
      BY <2>1
    <3>2. DriftOf(d)'
      BY <2>1, <3>1
    <3> QED
      BY <2>2, <3>1, <3>2
  <2>3. CASE c # d
    BY <2>1, <2>3
  <2> QED
    BY <2>2, <2>3
<1>27. CASE Seeked(d)
  <2>1. /\ pc[d] = "seeked" /\ UNCHANGED <<ret, movie, filepos, offset, writing, syncstart>>
        /\ pc' = [pc EXCEPT ![d] = Flushed(d)]
        /\ newfilepos' = [newfilepos EXCEPT ![d] = 0]
    BY <1>27 DEF Seeked
  <2>2. newfilepos'[c] >= 0
    BY <2>1
  <2>3. DriftOf(c)'
    BY <2>1 DEF Flushed, Returns
  <2> QED
    BY <2>2, <2>3
<1>28. CASE Clear(d)
  BY <1>28 DEF Clear
<1>29. CASE Reopen(d)
  BY <1>29 DEF Reopen, DeviceStates
<1>30. CASE CloseMovie(d)
  <2>1. /\ \/ pc[d] = "eom" /\ pc' = [pc EXCEPT ![d] = "top"]
           \/ pc[d] = "end" /\ pc' = [pc EXCEPT ![d] = "done"]
        /\ UNCHANGED <<ret, filepos, newfilepos, offset, writing>>
    BY ONLY <1>30 DEF CloseMovie, Goto, seeks, file
  <2>2. CASE c = d
    BY <2>1, <2>2
  <2>3. CASE c # d
    BY <2>1, <2>3
  <2> QED
    BY <2>2, <2>3
<1> QED
  BY <1>1, <1>2, <1>3, <1>4, <1>5, <1>6, <1>7, <1>8, <1>9, <1>10, <1>11,
     <1>12, <1>13, <1>14, <1>15, <1>16, <1>17, <1>18, <1>19, <1>20, <1>21,
     <1>22, <1>23, <1>24, <1>25, <1>26, <1>27, <1>28, <1>29, <1>30
  DEF Thread, Update

\* The fields of DriftOf are those of a thread's own; the server asks for a seek.
LEMMA OthersDrift ==
  ASSUME DecoderTypeOK, Outside \/ Asks, NEW c \in Decoders, ControlOf(c), DriftOf(c)
  PROVE  DriftOf(c)'
<1> USE DEF ControlOf, DriftOf, InBuffer, Writing
<1>1. CASE Asks
  BY <1>1 DEF Asks
<1>2. CASE Outside /\ UNCHANGED pc
  BY <1>2 DEF Outside
<1>3. ASSUME Outside, NEW d \in Decoders, Launch(d) PROVE DriftOf(c)'
  <2>1. CASE c = d
    <3>1. pc[c] = "none" /\ pc'[c] \in {"start", "none"}
      BY <1>3, <2>1 DEF Launch, DecoderTypeOK, Set
    <3> QED
      BY <1>3, <3>1 DEF Outside
  <2>2. CASE c # d
    <3>1. pc'[c] = pc[c]
      BY <1>3, <2>2 DEF Launch, DecoderTypeOK, Set
    <3> QED
      BY <1>3, <3>1 DEF Outside
  <2> QED
    BY <2>1, <2>2
<1> QED
  BY <1>1, <1>2, <1>3 DEF Outside

\* What is asked for is not before the start, if the client asks for nothing of the kind.
LEMMA SeeksForward ==
  ASSUME Forward, RpcInv, Serve \/ WorkEnds \/ \E r \in Requests : Receive(r),
         NEW c \in Decoders, newfilepos[c] >= 0
  PROVE  newfilepos'[c] >= 0
<1> USE DEF Step, target
<1>0. /\ DecoderTypeOK /\ ServerInv
      /\ newfilepos \in [Decoders -> Int] /\ filesize \in [Decoders -> Nat]
  BY DEF RpcInv, RpcTypeOK, TypeOK, DecoderTypeOK
<1>1. CASE ~(SetPos \/ SetOffset)
  <2>1. UNCHANGED newfilepos
    <3>1. CASE LoopExit \/ LoopRun \/ WorkEnds \/ QuitNext \/ \E r \in Requests : Receive(r)
      BY <3>1 DEF LoopExit, LoopRun, WorkEnds, QuitNext, Receive, vars, decoderVars, seeks
    <3>2. CASE Play \/ Stop \/ Pause \/ QuitStop
      BY <3>2 DEF Play, Stop, Pause, QuitStop, PutPlaying, PutStopped, seeks
    <3>3. CASE OpenFile \/ QuitClose
      BY <3>3 DEF OpenFile, QuitClose, PutStopped, PutList, PutPosition, AppendAll,
                  CloseBegin, CloseGoto, seeks
    <3> QED
      BY <1>1, <3>1, <3>2, <3>3 DEF Serve
  <2> QED
    BY <2>1
<1>2. CASE SetPos
  <2>1. CASE UNCHANGED decoderVars
    BY <2>1 DEF decoderVars, seeks
  <2>2. CASE /\ server = "putpos"
             /\ PutSeek(request.dec, Hundredth(filesize[request.dec] * request.arg))
    <3>1. request \in Requests /\ request.arg >= 0 /\ request.arg \in Int
          /\ request.dec \in Decoders
      BY <1>0, <2>2, RequestAssumption DEF Forward, ServerInv
    <3>2. filesize[request.dec] * request.arg >= 0 /\ filesize[request.dec] * request.arg \in Int
      <4>1. filesize[request.dec] \in Nat
        BY <1>0, <3>1
      <4> QED
        BY ONLY <3>1, <4>1
    <3>3. Hundredth(filesize[request.dec] * request.arg) >= 0
      BY <3>2, HundredthInt
    <3> QED
      BY <1>0, <2>2, <3>1, <3>3 DEF PutSeek, Set
  <2> QED
    BY <1>2, <2>1, <2>2 DEF SetPos, ServerGoto
<1>3. CASE SetOffset
  <2>1. request \in Requests /\ request.arg >= 0 /\ request.dec \in Decoders
    BY <1>0, <1>3, RequestAssumption DEF Forward, ServerInv, SetOffset, ServerGoto
  <2>2. newfilepos' = [newfilepos EXCEPT ![request.dec] =
                         IF request.arg < filesize[request.dec] THEN request.arg
                         ELSE filesize[request.dec]]
    BY <1>3 DEF SetOffset, PutSeek, Set
  <2> QED
    BY <1>0, <2>1, <2>2
<1> QED
  BY <1>1, <1>2, <1>3

DriftInv == \A d \in Decoders : DriftOf(d) /\ newfilepos[d] >= 0

\* However many seeks come, and at whatever step of a thread, the position the program
\* reports while a movie plays runs ahead of the file by less than one buffer
\* (decoder.cpp:344, 393-397, 451-469), if no seek is to before the start.
THEOREM DriftCorrect ==
  ASSUME Forward
  PROVE  RpcSpec => []DriftBounded
<1>1. RpcInit => DriftInv
  <2> SUFFICES ASSUME RpcInit, NEW d \in Decoders
               PROVE  DriftOf(d) /\ newfilepos[d] >= 0
    BY DEF DriftInv
  <2> QED
    BY DecoderAssumption DEF RpcInit, Init, DecoderInit, DriftOf, InBuffer, Writing
<1>2. RpcInv /\ DriftInv /\ [RpcNext]_rpcVars => DriftInv'
  <2> SUFFICES ASSUME RpcInv, DriftInv, [RpcNext]_rpcVars, NEW c \in Decoders
               PROVE  DriftOf(c)' /\ newfilepos'[c] >= 0
    BY DEF DriftInv
  <2>0. /\ TypeOK /\ DecoderTypeOK /\ \A d \in Decoders : ControlOf(d)
        /\ DriftOf(c) /\ newfilepos[c] >= 0
    BY DEF RpcInv, RpcTypeOK, TypeOK, DriftInv
  <2>1. CASE MainThread \/ Signal \/ Datagram \/ UNCHANGED vars
    BY <2>0, <2>1, OthersOutside, OthersDrift DEF Outside
  <2>2. ASSUME NEW d \in Decoders, Run(d)
        PROVE  DriftOf(c)' /\ newfilepos'[c] >= 0
    BY <2>0, <2>2, ThreadDrift DEF Run, DriftInv
  <2>3. CASE Serve \/ WorkEnds \/ \E r \in Requests : Receive(r)
    BY <2>0, <2>3, ServerChannels, OthersDrift, SeeksForward
  <2> QED
    BY <2>1, <2>2, <2>3 DEF RpcNext, Next, Ended, rpcVars
<1>3. RpcInv /\ DriftInv => DriftBounded
  <2> SUFFICES ASSUME RpcInv, DriftInv, NEW d \in Decoders,
                      \/ pc[d] \in {"inner", "pausewait", "read", "sync", "write", "again"}
                      \/ pc[d] = "flush" /\ ret[d] = "written"
               PROVE  filepos[d] + writing[d] - offset[d] \in 0..(BufSize - 1)
    BY DEF DriftBounded
  <2>1. /\ filepos[d] + writing[d] - offset[d] >= 0
        /\ filepos[d] + writing[d] - offset[d] < BufSize
    BY DEF DriftInv, DriftOf, InBuffer, Writing
  <2>2. /\ filepos[d] \in Int /\ writing[d] \in Nat /\ offset[d] \in Nat /\ BufSize \in Nat
    BY DecoderAssumption DEF RpcInv, RpcTypeOK, TypeOK, DecoderTypeOK
  <2> QED
    BY ONLY <2>1, <2>2
<1> QED
  BY <1>1, <1>2, <1>3, RpcCorrect, PTL DEF RpcSpec
=============================================================================
