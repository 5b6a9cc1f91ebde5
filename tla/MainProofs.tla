----------------------------- MODULE MainProofs -----------------------------
(***************************************************************************)
(* For any number of channels, any movies, playlists, play modes and       *)
(* faults, and with or without signals: the types, the discipline of open  *)
(* files, the position of each channel and the silence before the start;   *)
(* then what becomes of a channel, and last the refinement of              *)
(* SyncPlayback.                                                           *)
(*                                                                         *)
(* None of the properties is inductive alone.  That a read finds an open   *)
(* file needs the labels at which a movie is chosen; that clear() returns  *)
(* where its caller expects needs the value of "ret" since the head of the *)
(* inner loop; that positions add up needs that only the writing loop      *)
(* leaves bytes in the buffer and that nobody asks for a seek.  Inv is     *)
(* their conjunction, channel by channel.                                  *)
(***************************************************************************)
EXTENDS Main, TLAPS

Writing(d) ==
  \/ pc[d] \in {"sync", "write"}
  \/ pc[d] = "flush" /\ ret[d] = "written"

\* Where the subroutines return, and the movie and the FILE at each label.
ControlOf(d) ==
  /\ pc[d] # "none" => mutex[d]
  /\ pc[d] \in {"open", "size", "rewind"} \/ InMovie(d) => movie[d] \in Files
  /\ pc[d] \in {"pausewait", "read"} => ret[d] = "eom"
  /\ pc[d] \in {"clear", "reopen"} => ret[d] \in {"eom", "end"}
  /\ playlist_fd[d] = IF InMovie(d) \/ pc[d] \in {"size", "rewind"}
                      THEN movie[d] ELSE NoFile

\* No seek is pending, and bytes wait in the buffer in the writing loop only.
CountOf(d) ==
  /\ newfilepos[d] = 0
  /\ pc[d] \notin {"seek", "seeked"}
  /\ ~Writing(d) => writing[d] = 0
  /\ pc[d] \in {"size", "rewind"} => offset[d] = 0
  /\ pc[d] \in {"inner", "pausewait", "read", "again"} \/ Writing(d)
       => filepos[d] + writing[d] = offset[d]

StartOf(d) ==
  ~syncstart =>
    /\ filepos[d] = 0
    /\ pc[d] \notin {"write", "again"}
    /\ pc[d] = "flush" => ret[d] # "written"

ChannelInv(d) == ControlOf(d) /\ CountOf(d) /\ StartOf(d)

\* main() counts each channel once in a pass; the handler has a channel in
\* hand while it closes and deletes one.
MainInv ==
  /\ main = "count" => still_running <= IF dec = 0 THEN 0 ELSE dec - 1
  /\ main = "sleep" => still_running <= dec
  /\ handler \in {"close", "delete"} => first <= N

Inv == TypeOK /\ MainInv /\ \A d \in Decoders : ChannelInv(d)

LEMMA ThreadTypes ==
  ASSUME NEW d \in Decoders, DecoderTypeOK, ControlOf(d), Thread(d)
  PROVE  DecoderTypeOK'
<1> USE DecoderAssumption DEF DecoderTypeOK, Goto, Jump, LoopTest, Still, Set,
        Labels, Returns, flags, lists, file, seeks, lifecycle
<1>1. CASE Begin(d)
  BY <1>1 DEF Begin
<1>2. CASE Top(d)
  BY <1>2 DEF Top
<1>3. CASE UpdateFirst(d)
  BY <1>3 DEF UpdateFirst
<1>4. CASE UpdatePlay(d)
  BY <1>4 DEF UpdatePlay
<1>5. CASE UpdateCont(d)
  BY <1>5 DEF UpdateCont
<1>6. CASE UpdateSame(d)
  BY <1>6 DEF UpdateSame
<1>7. CASE UpdateSingle(d)
  BY <1>7 DEF UpdateSingle
<1>8. CASE UpdateWrap(d)
  BY <1>8 DEF UpdateWrap
<1>9. CASE CursorFirst(d)
  BY <1>9 DEF CursorFirst
<1>10. CASE CursorAdvance(d)
  BY <1>10 DEF CursorAdvance
<1>11. CASE Check(d)
  BY <1>11 DEF Check
<1>12. CASE Unstop(d)
  BY <1>12 DEF Unstop
<1>13. CASE Unplay(d)
  BY <1>13 DEF Unplay
<1>14. CASE Wake(d)
  <2>1. /\ pc' \in [Decoders -> Labels]
        /\ UNCHANGED <<ret, flags, lifecycle, lists, movie, file, seeks, writing, fd, syncstart>>
    <3>1. CASE Jump(d, "wait", "pick")
      BY <3>1
    <3>2. CASE Jump(d, "pausewait", "read")
      BY <3>2
    <3> QED
      BY <1>14, <3>1, <3>2 DEF Wake
  <2> QED
    BY <2>1
<1>15. CASE Pick(d)
  BY <1>15 DEF Pick, Entry
<1>16. CASE Open(d)
  BY <1>16 DEF Open, ControlOf
<1>17. CASE Measure(d)
  BY <1>17 DEF Measure, ControlOf
<1>18. CASE Rewind(d)
  BY <1>18 DEF Rewind
<1>19. CASE Inner(d)
  BY <1>19 DEF Inner
<1>20. CASE Read(d)
  <2>1. playlist_fd[d] \in Files
    BY <1>20 DEF Read, ControlOf, InMovie
  <2>2. Readable(d) \in Nat
    BY <2>1 DEF Readable
  <2> QED
    BY <1>20, <2>2 DEF Read
<1>21. CASE Sync(d)
  BY <1>21 DEF Sync
<1>22. CASE Write(d)
  BY <1>22 DEF Write
<1>23. CASE Again(d)
  BY <1>23 DEF Again
<1>24. CASE FlushReady(d)
  BY <1>24 DEF FlushReady, Flushed
<1>25. CASE FlushQuit(d)
  BY <1>25 DEF FlushQuit, Flushed
<1>26. CASE Seek(d)
  BY <1>26 DEF Seek
<1>27. CASE Seeked(d)
  BY <1>27 DEF Seeked, Flushed
<1>28. CASE Clear(d)
  BY <1>28 DEF Clear, ControlOf
<1>29. CASE Reopen(d)
  BY <1>29 DEF Reopen, ControlOf, DeviceStates
<1>30. CASE CloseMovie(d)
  BY <1>30 DEF CloseMovie
<1> QED
  BY <1>1, <1>2, <1>3, <1>4, <1>5, <1>6, <1>7, <1>8, <1>9, <1>10, <1>11,
     <1>12, <1>13, <1>14, <1>15, <1>16, <1>17, <1>18, <1>19, <1>20, <1>21,
     <1>22, <1>23, <1>24, <1>25, <1>26, <1>27, <1>28, <1>29, <1>30
  DEF Thread, Update

LEMMA ThreadControl ==
  ASSUME NEW d \in Decoders, DecoderTypeOK, ControlOf(d), Thread(d),
         NEW c \in Decoders, ControlOf(c)
  PROVE  ControlOf(c)'
<1> USE DecoderAssumption DEF DecoderTypeOK, Goto, Jump, LoopTest, Still, Set,
        flags, lists, file, seeks, lifecycle, ControlOf, InMovie, Subroutine
<1>1. CASE Begin(d)
  BY <1>1 DEF Begin
<1>2. CASE Top(d)
  BY <1>2 DEF Top
<1>3. CASE UpdateFirst(d)
  BY <1>3 DEF UpdateFirst
<1>4. CASE UpdatePlay(d)
  BY <1>4 DEF UpdatePlay
<1>5. CASE UpdateCont(d)
  BY <1>5 DEF UpdateCont
<1>6. CASE UpdateSame(d)
  BY <1>6 DEF UpdateSame
<1>7. CASE UpdateSingle(d)
  BY <1>7 DEF UpdateSingle
<1>8. CASE UpdateWrap(d)
  BY <1>8 DEF UpdateWrap
<1>9. CASE CursorFirst(d)
  BY <1>9 DEF CursorFirst
<1>10. CASE CursorAdvance(d)
  BY <1>10 DEF CursorAdvance
<1>11. CASE Check(d)
  BY <1>11 DEF Check
<1>12. CASE Unstop(d)
  BY <1>12 DEF Unstop
<1>13. CASE Unplay(d)
  <2>1. CASE pc[d] = "unplay"
    BY <1>13, <2>1 DEF Unplay
  <2>2. CASE pc[d] = "nomovie"
    BY <1>13, <2>2 DEF Unplay
  <2> QED
    BY <1>13, <2>1, <2>2 DEF Unplay
<1>14. CASE Wake(d)
  <2>1. CASE Jump(d, "wait", "pick")
    BY <2>1
  <2>2. CASE Jump(d, "pausewait", "read")
    BY <2>2
  <2> QED
    BY <1>14, <2>1, <2>2 DEF Wake
<1>15. CASE Pick(d)
  <2>1. Entry(d, position[d]) \in Files \cup {NoFile}
    BY DEF Entry
  <2> QED
    BY <1>15, <2>1 DEF Pick
<1>16. CASE Open(d)
  BY <1>16 DEF Open
<1>17. CASE Measure(d)
  BY <1>17 DEF Measure
<1>18. CASE Rewind(d)
  BY <1>18 DEF Rewind
<1>19. CASE Inner(d)
  BY <1>19 DEF Inner
<1>20. CASE Read(d)
  BY <1>20 DEF Read, Readable
<1>21. CASE Sync(d)
  BY <1>21 DEF Sync
<1>22. CASE Write(d)
  BY <1>22 DEF Write
<1>23. CASE Again(d)
  BY <1>23 DEF Again
<1>24. CASE FlushReady(d)
  BY <1>24 DEF FlushReady, Flushed, Returns
<1>25. CASE FlushQuit(d)
  BY <1>25 DEF FlushQuit, Flushed, Returns
<1>26. CASE Seek(d)
  BY <1>26 DEF Seek
<1>27. CASE Seeked(d)
  BY <1>27 DEF Seeked, Flushed, Returns
<1>28. CASE Clear(d)
  BY <1>28 DEF Clear
<1>29. CASE Reopen(d)
  BY <1>29 DEF Reopen, DeviceStates
<1>30. CASE CloseMovie(d)
  <2>1. CASE pc[d] = "eom"
    BY <1>30, <2>1 DEF CloseMovie
  <2>2. CASE pc[d] = "end"
    BY <1>30, <2>2 DEF CloseMovie
  <2> QED
    BY <1>30, <2>1, <2>2 DEF CloseMovie
<1> QED
  BY <1>1, <1>2, <1>3, <1>4, <1>5, <1>6, <1>7, <1>8, <1>9, <1>10, <1>11,
     <1>12, <1>13, <1>14, <1>15, <1>16, <1>17, <1>18, <1>19, <1>20, <1>21,
     <1>22, <1>23, <1>24, <1>25, <1>26, <1>27, <1>28, <1>29, <1>30
  DEF Thread, Update

LEMMA ThreadCounts ==
  ASSUME NEW d \in Decoders, DecoderTypeOK, ChannelInv(d), Thread(d),
         NEW c \in Decoders, ChannelInv(c)
  PROVE  CountOf(c)' /\ StartOf(c)'
<1> USE DecoderAssumption DEF DecoderTypeOK, Goto, Jump, LoopTest, Still, Set,
        flags, lists, file,
        seeks, lifecycle, ChannelInv, ControlOf, CountOf, StartOf, Writing,
        InMovie, Subroutine
<1>1. CASE Begin(d)
  BY <1>1 DEF Begin
<1>2. CASE Top(d)
  BY <1>2 DEF Top
<1>3. CASE UpdateFirst(d)
  BY <1>3 DEF UpdateFirst
<1>4. CASE UpdatePlay(d)
  BY <1>4 DEF UpdatePlay
<1>5. CASE UpdateCont(d)
  BY <1>5 DEF UpdateCont
<1>6. CASE UpdateSame(d)
  BY <1>6 DEF UpdateSame
<1>7. CASE UpdateSingle(d)
  BY <1>7 DEF UpdateSingle
<1>8. CASE UpdateWrap(d)
  BY <1>8 DEF UpdateWrap
<1>9. CASE CursorFirst(d)
  BY <1>9 DEF CursorFirst
<1>10. CASE CursorAdvance(d)
  BY <1>10 DEF CursorAdvance
<1>11. CASE Check(d)
  BY <1>11 DEF Check
<1>12. CASE Unstop(d)
  BY <1>12 DEF Unstop
<1>13. CASE Unplay(d)
  <2>1. CASE pc[d] = "unplay"
    BY <1>13, <2>1 DEF Unplay
  <2>2. CASE pc[d] = "nomovie"
    BY <1>13, <2>2 DEF Unplay
  <2> QED
    BY <1>13, <2>1, <2>2 DEF Unplay
<1>14. CASE Wake(d)
  <2>1. CASE Jump(d, "wait", "pick")
    BY <2>1
  <2>2. CASE Jump(d, "pausewait", "read")
    BY <2>2
  <2> QED
    BY <1>14, <2>1, <2>2 DEF Wake
<1>15. CASE Pick(d)
  BY <1>15 DEF Pick, Entry
<1>16. CASE Open(d)
  BY <1>16 DEF Open
<1>17. CASE Measure(d)
  BY <1>17 DEF Measure
<1>18. CASE Rewind(d)
  BY <1>18 DEF Rewind
<1>19. CASE Inner(d)
  BY <1>19 DEF Inner
<1>20. CASE Read(d)
  BY <1>20 DEF Read, Readable
<1>21. CASE Sync(d)
  BY <1>21 DEF Sync
<1>22. CASE Write(d)
  <2>1. PICK n \in 1..writing[d] :
          /\ filepos' = [filepos EXCEPT ![d] = filepos[d] + n]
          /\ writing' = [writing EXCEPT ![d] = writing[d] - n]
    BY <1>22 DEF Write
  <2>2. /\ pc[d] = "write" /\ pc' = [pc EXCEPT ![d] = "flush"]
        /\ ret' = [ret EXCEPT ![d] = "written"]
        /\ UNCHANGED <<mutex, movie, playlist_fd, offset, newfilepos, syncstart>>
    BY <1>22 DEF Write
  <2>3. CASE c = d
    <3>1. filepos'[d] + writing'[d] = offset[d]
      BY <2>1, <2>2
    <3> QED
      BY <2>2, <2>3, <3>1
  <2>4. CASE c # d
    BY <2>1, <2>2, <2>4
  <2> QED
    BY <2>3, <2>4
<1>23. CASE Again(d)
  BY <1>23 DEF Again
<1>24. CASE FlushReady(d)
  BY <1>24 DEF FlushReady, Flushed, Returns
<1>25. CASE FlushQuit(d)
  BY <1>25 DEF FlushQuit, Flushed, Returns
<1>26. CASE Seek(d)
  BY <1>26 DEF Seek
<1>27. CASE Seeked(d)
  BY <1>27 DEF Seeked, Flushed, Returns
<1>28. CASE Clear(d)
  BY <1>28 DEF Clear
<1>29. CASE Reopen(d)
  BY <1>29 DEF Reopen, DeviceStates
<1>30. CASE CloseMovie(d)
  <2>1. CASE pc[d] = "eom"
    BY <1>30, <2>1 DEF CloseMovie
  <2>2. CASE pc[d] = "end"
    BY <1>30, <2>2 DEF CloseMovie
  <2> QED
    BY <1>30, <2>1, <2>2 DEF CloseMovie
<1> QED
  BY <1>1, <1>2, <1>3, <1>4, <1>5, <1>6, <1>7, <1>8, <1>9, <1>10, <1>11,
     <1>12, <1>13, <1>14, <1>15, <1>16, <1>17, <1>18, <1>19, <1>20, <1>21,
     <1>22, <1>23, <1>24, <1>25, <1>26, <1>27, <1>28, <1>29, <1>30
  DEF Thread, Update

LEMMA ThreadStep ==
  ASSUME NEW d \in Decoders, Inv, Run(d)
  PROVE  Inv'
<1>0. DecoderTypeOK /\ \A c \in Decoders : ChannelInv(c) /\ ControlOf(c)
  BY DEF Inv, TypeOK, ChannelInv
<1>1. DecoderTypeOK'
  BY <1>0, ThreadTypes DEF Run
<1>2. TypeOK'
  BY <1>1 DEF Inv, TypeOK, Run, mainVars
<1>3. ASSUME NEW c \in Decoders PROVE ChannelInv(c)'
  BY <1>0, ThreadControl, ThreadCounts DEF Run, ChannelInv
<1> QED
  BY <1>2, <1>3 DEF Inv, MainInv, Run, mainVars

(***************************************************************************)
(* The steps of the other threads: what they do to the fields ChannelInv   *)
(* reads, and the types.                                                   *)
(***************************************************************************)
Outside ==
  /\ UNCHANGED <<ret, movie, playlist_fd, filesize, offset, filepos, newfilepos,
                 writing>>
  /\ syncstart => syncstart'
  /\ UNCHANGED <<pc, mutex>> \/ \E d \in Decoders : Launch(d)

\* launch() finds a thread that has not begun, by the mutex.
LEMMA OutsideChannels ==
  ASSUME DecoderTypeOK, Outside, NEW c \in Decoders, ControlOf(c)
  PROVE  ControlOf(c)' /\ (CountOf(c) => CountOf(c)') /\ (StartOf(c) => StartOf(c)')
<1> USE DEF ControlOf, CountOf, StartOf, Writing, InMovie, Subroutine, Outside
<1>1. CASE UNCHANGED <<pc, mutex>>
  BY <1>1
<1>2. ASSUME NEW d \in Decoders, Launch(d)
      PROVE  ControlOf(c)' /\ (CountOf(c) => CountOf(c)') /\ (StartOf(c) => StartOf(c)')
  BY <1>2 DEF Launch, DecoderTypeOK, Set
<1> QED
  BY <1>1, <1>2

LEMMA CloseTypes ==
  ASSUME NEW d \in Decoders, DecoderTypeOK, CloseBegin(d) \/ CloseStep(d)
  PROVE  DecoderTypeOK'
<1> USE DEF DecoderTypeOK, CloseGoto, Set, DeviceStates, CloseSteps, flags,
        lists, file, seeks, lifecycle
<1>1. CASE CloseBegin(d) \/ CloseQuit(d) \/ CloseRunning(d) \/ CloseJoin(d)
  BY <1>1 DEF CloseBegin, CloseQuit, CloseRunning, CloseJoin
<1>2. CASE CloseDevice(d)
  BY <1>2 DEF CloseDevice
<1>4. CASE ClosePosition(d)
  <2>1. -1 \in Int
    OBVIOUS
  <2> QED
    BY <1>4, <2>1 DEF ClosePosition
<1>5. CASE CloseCursor(d)
  BY <1>5 DEF CloseCursor
<1>3. CASE CloseEmpty(d)
  <2>1. <<>> \in Seq(Files)
    OBVIOUS
  <2> QED
    BY <1>3, <2>1 DEF CloseEmpty
<1> QED
  BY <1>1, <1>2, <1>3, <1>4, <1>5 DEF CloseStep

\* The fields the other methods change, and the channel that setup() and
\* launch() prepare.
LEMMA MethodTypes ==
  ASSUME NEW d \in Decoders, DecoderTypeOK,
         \/ Setup(d) \/ Launch(d)
         \/ PutPlaying(d, TRUE) \/ PutStopped(d, FALSE)
         \/ \E s \in Seq(Files) : AppendAll(d, s)
  PROVE  DecoderTypeOK'
<1> USE DEF DecoderTypeOK, Set, Labels, flags, lists, file, seeks, lifecycle
<1>1. CASE Setup(d)
  <2>1. PICK v \in BOOLEAN : quit' = [quit EXCEPT ![d] = v]
    <3>1. PICK ok \in BOOLEAN :
            quit' = [quit EXCEPT ![d] = IF ok THEN FALSE ELSE quit[d]]
      BY <1>1 DEF Setup
    <3>2. (IF ok THEN FALSE ELSE quit[d]) \in BOOLEAN
      OBVIOUS
    <3> QED
      BY <3>1, <3>2
  <2>2. quit' \in [Decoders -> BOOLEAN]
    BY <2>1
  <2> QED
    BY <1>1, <2>2 DEF Setup
<1>4. CASE Launch(d)
  BY <1>4 DEF Launch
<1>2. CASE PutPlaying(d, TRUE) \/ PutStopped(d, FALSE)
  BY <1>2 DEF PutPlaying, PutStopped
<1>3. ASSUME NEW s \in Seq(Files), AppendAll(d, s) PROVE DecoderTypeOK'
  <2>1. playlist[d] \o s \in Seq(Files)
    OBVIOUS
  <2> QED
    BY <1>3, <2>1 DEF AppendAll, PutList
<1> QED
  BY <1>1, <1>2, <1>3, <1>4

LEMMA QuietTypes ==
  ASSUME DecoderTypeOK, syncstart' \in BOOLEAN,
         UNCHANGED <<pc, ret, flags, lifecycle, lists, movie, file, seeks, writing, fd>>
  PROVE  DecoderTypeOK'
<1>1. UNCHANGED <<pc, ret, playing, stopped, quit, running, mutex, closing,
                  playlist, position, movie, playlist_fd, filesize, offset,
                  filepos, newfilepos, writing, fd>>
  BY DEF flags, lists, file, seeks, lifecycle
<1> QED
  BY <1>1 DEF DecoderTypeOK

LEMMA StillTypes ==
  ASSUME DecoderTypeOK, UNCHANGED decoderVars
  PROVE  DecoderTypeOK'
<1>1. syncstart' \in BOOLEAN
  BY Zenon DEF DecoderTypeOK, decoderVars
<1> QED
  BY <1>1, QuietTypes DEF decoderVars

LEMMA MainTypes ==
  ASSUME TypeOK, MainInv, MainThread
  PROVE  TypeOK' /\ MainInv'
<1> USE DecoderAssumption, MainAssumption DEF MainGoto, MainUses, MainInv,
        Interrupted, MainLabels, HandlerLabels, FirstDecoder, NextOf, Decoders
<1>0. /\ DecoderTypeOK
      /\ first \in 1..(N + 1) /\ dec \in 0..N /\ still_running \in 0..N
  BY DEF TypeOK
<1>1. CASE LaunchUdp
  BY <1>0, <1>1, StillTypes DEF LaunchUdp, TypeOK
<1>2. CASE SetupDecoder
  <2>1. dec \in Decoders /\ Setup(dec)
    BY <1>0, <1>2 DEF SetupDecoder
  <2>2. DecoderTypeOK'
    BY <1>0, <2>1, MethodTypes
  <2> QED
    BY <1>0, <1>2, <2>1, <2>2 DEF SetupDecoder, TypeOK
<1>3. CASE LaunchDecoder
  <2>1. dec \in Decoders /\ Launch(dec)
    BY <1>0, <1>3 DEF LaunchDecoder, ToNext
  <2>2. DecoderTypeOK'
    BY <1>0, <2>1, MethodTypes
  <2>3. /\ main' = "start" \/ main' = "setup" \/ main' = "load"
        /\ dec' = dec \/ dec' = NextOf(dec)
        /\ UNCHANGED <<handler, first, still_running, udpsrv>>
    BY <1>3 DEF LaunchDecoder, ToNext
  <2>4. dec' \in 0..N
    BY <1>0, <2>3
  <2>5. MainInv'
    BY <1>0, <2>3
  <2> QED
    BY <1>0, <2>2, <2>3, <2>4, <2>5 DEF TypeOK
<1>4. CASE LoadPlaylist
  <2>1. dec \in Decoders /\ \E s \in Seq(Files) : AppendAll(dec, s)
    BY <1>0, <1>4 DEF LoadPlaylist
  <2>2. DecoderTypeOK'
    BY <1>0, <2>1, MethodTypes
  <2> QED
    BY <1>0, <1>4, <2>1, <2>2 DEF LoadPlaylist, TypeOK
<1>5. CASE PlayDecoder
  <2>1. dec \in Decoders
    BY <1>0, <1>5 DEF PlayDecoder
  <2>2. DecoderTypeOK'
    BY <1>0, <1>5, <2>1, MethodTypes, Zenon DEF PlayDecoder
  <2> QED
    BY <1>0, <1>5, <2>1, <2>2 DEF PlayDecoder, TypeOK
<1>6. CASE PlayUnstop
  <2>1. dec \in Decoders
    BY <1>0, <1>6 DEF PlayUnstop, ToNext
  <2>2. DecoderTypeOK'
    BY <1>0, <1>6, <2>1, MethodTypes, Zenon DEF PlayUnstop
  <2> QED
    BY <1>0, <1>6, <2>1, <2>2 DEF PlayUnstop, ToNext, TypeOK
<1>7. CASE Start
  BY <1>0, <1>7, QuietTypes DEF Start, TypeOK, DecoderTypeOK
<1>8. CASE Started
  BY <1>0, <1>8, StillTypes DEF Started, TypeOK
<1>9. CASE Scan
  BY <1>0, <1>9, StillTypes DEF Scan, TypeOK
<1>10. CASE Count
  BY <1>0, <1>10, StillTypes DEF Count, TypeOK
<1>11. CASE CountNone
  BY <1>0, <1>11, StillTypes DEF CountNone, TypeOK
<1>18. CASE CountNext
  BY <1>0, <1>18, StillTypes DEF CountNext, NextOf, TypeOK
<1>12. CASE Dangling
  BY <1>0, <1>12, StillTypes DEF Dangling, TypeOK
<1>13. CASE HandlerClose
  BY <1>0, <1>13, CloseTypes DEF HandlerClose, HandlerGoto, TypeOK
<1>14. CASE HandlerDestroy
  BY <1>0, <1>14, CloseTypes DEF HandlerDestroy, HandlerGoto, TypeOK
<1>15. CASE HandlerDeleted
  BY <1>0, <1>15, StillTypes DEF HandlerDeleted, HandlerGoto, TypeOK
<1>16. CASE HandlerReturn
  BY <1>0, <1>16, StillTypes DEF HandlerReturn, HandlerGoto, TypeOK
<1>17. ASSUME NEW d \in Decoders, InsideClose(d) PROVE TypeOK' /\ MainInv'
  BY <1>0, <1>17, CloseTypes DEF InsideClose, mainVars, TypeOK
<1> QED
  BY <1>1, <1>2, <1>3, <1>4, <1>5, <1>6, <1>7, <1>8, <1>9, <1>10, <1>11,
     <1>12, <1>13, <1>14, <1>15, <1>16, <1>17, <1>18 DEF MainThread

LEMMA OthersTypes ==
  ASSUME TypeOK, MainInv, MainThread \/ Signal \/ Datagram \/ UNCHANGED vars
  PROVE  TypeOK' /\ MainInv'
<1>1. CASE Signal
  BY <1>1, StillTypes DEF Signal, HandlerGoto, HandlerLabels, TypeOK, MainInv
<1>2. CASE Datagram
  BY <1>2, QuietTypes DEF Datagram, TypeOK, MainInv
<1>3. CASE UNCHANGED vars
  BY <1>3, StillTypes DEF vars, mainVars, TypeOK, MainInv
<1> QED
  BY <1>1, <1>2, <1>3, MainTypes

LEMMA OthersOutside ==
  ASSUME TypeOK, MainThread \/ Signal \/ Datagram \/ UNCHANGED vars
  PROVE  Outside
<1> USE DEF Outside, decoderVars, file, seeks, lifecycle, MainUses, MainGoto, ToNext
<1>1. CASE LaunchDecoder
  <2>1. dec \in Decoders /\ Launch(dec)
    BY <1>1, DecoderAssumption, MainAssumption DEF LaunchDecoder, TypeOK, Decoders
  <2> QED
    BY <2>1 DEF Launch
<1>2. CASE SetupDecoder \/ LoadPlaylist \/ PlayDecoder \/ PlayUnstop
  <2>1. CASE SetupDecoder
    BY <2>1 DEF SetupDecoder, Setup
  <2>2. CASE LoadPlaylist
    BY <2>2 DEF LoadPlaylist, AppendAll, PutList
  <2>3. CASE PlayDecoder
    BY <2>3 DEF PlayDecoder, PutPlaying
  <2>4. CASE PlayUnstop
    BY <2>4 DEF PlayUnstop, PutStopped
  <2> QED
    BY <1>2, <2>1, <2>2, <2>3, <2>4
<1>3. CASE \/ LaunchUdp \/ Started \/ Scan \/ Count \/ CountNext \/ CountNone
           \/ Dangling \/ Signal
  BY <1>3 DEF LaunchUdp, Started, Scan, Count, CountNext, CountNone, Dangling, Signal
<1>4. CASE Start \/ Datagram
  BY <1>4 DEF Start, Datagram
<1>5. CASE \/ HandlerClose \/ HandlerDestroy \/ HandlerDeleted \/ HandlerReturn
           \/ \E d \in Decoders : InsideClose(d)
  <2>1. CASE HandlerDeleted \/ HandlerReturn
    BY <2>1 DEF HandlerDeleted, HandlerReturn
  <2>2. ASSUME NEW d, CloseBegin(d) \/ CloseStep(d) PROVE Outside
    <3>1. /\ UNCHANGED <<pc, ret, mutex, movie, playlist_fd, filesize, offset, filepos>>
          /\ UNCHANGED <<newfilepos, writing, syncstart>>
      BY <2>2 DEF CloseStep, CloseBegin, CloseQuit, CloseRunning, CloseJoin, CloseDevice,
                  ClosePosition, CloseEmpty, CloseCursor, CloseGoto
    <3> QED
      BY <3>1
  <2> QED
    BY <1>5, <2>1, <2>2 DEF HandlerClose, HandlerDestroy, InsideClose
<1>6. CASE UNCHANGED vars
  BY <1>6 DEF vars
<1> QED
  BY <1>1, <1>2, <1>3, <1>4, <1>5, <1>6 DEF MainThread

(***************************************************************************)
(* The invariant.                                                          *)
(***************************************************************************)
LEMMA InvInit == Init => Inv
<1> SUFFICES ASSUME Init PROVE Inv
  OBVIOUS
<1> USE DecoderAssumption, MainAssumption DEF Init, DecoderInit
<1>1. DecoderTypeOK
  <2>1. -1 \in Int
    OBVIOUS
  <2>2. fd \in [Decoders -> DeviceStates]
    BY DEF DeviceStates
  <2>3. playlist \in [Decoders -> Seq(Files)] /\ syncstart \in BOOLEAN
    BY Zenon
  <2>4. /\ position \in [Decoders -> Int]
        /\ filepos \in [Decoders -> Int] /\ newfilepos \in [Decoders -> Int]
        /\ filesize \in [Decoders -> Nat] /\ offset \in [Decoders -> Nat]
        /\ writing \in [Decoders -> Nat]
    BY <2>1
  <2>5. /\ pc \in [Decoders -> Labels] /\ ret \in [Decoders -> Returns]
        /\ closing \in [Decoders -> CloseSteps]
        /\ movie \in [Decoders -> Files \cup {NoFile}]
        /\ playlist_fd \in [Decoders -> Files \cup {NoFile}]
    BY DEF Labels, Returns, CloseSteps
  <2>6. /\ playing \in [Decoders -> BOOLEAN] /\ stopped \in [Decoders -> BOOLEAN]
        /\ quit \in [Decoders -> BOOLEAN] /\ running \in [Decoders -> BOOLEAN]
        /\ mutex \in [Decoders -> BOOLEAN]
    BY Zenon
  <2> QED
    BY <2>2, <2>3, <2>4, <2>5, <2>6, Zenon DEF DecoderTypeOK
<1>2. TypeOK
  BY <1>1 DEF TypeOK, MainLabels, HandlerLabels
<1>3. ASSUME NEW d \in Decoders PROVE ChannelInv(d)
  BY <1>3 DEF ChannelInv, ControlOf, CountOf, StartOf, Writing, InMovie,
              Subroutine
<1> QED
  BY <1>2, <1>3 DEF Inv, MainInv

LEMMA InvStep == Inv /\ [Next]_vars => Inv'
<1> SUFFICES ASSUME Inv, [Next]_vars PROVE Inv'
  OBVIOUS
<1>1. CASE MainThread \/ Signal \/ Datagram \/ UNCHANGED vars
  <2>1. TypeOK' /\ MainInv'
    BY <1>1, OthersTypes DEF Inv
  <2>2. ASSUME NEW c \in Decoders PROVE ChannelInv(c)'
    BY <1>1, OthersOutside, OutsideChannels DEF Inv, TypeOK, ChannelInv
  <2> QED
    BY <2>1, <2>2 DEF Inv
<1>2. ASSUME NEW d \in Decoders, Run(d) PROVE Inv'
  BY <1>2, ThreadStep
<1> QED
  BY <1>1, <1>2 DEF Next, Ended

THEOREM InvCorrect == Spec => []Inv
BY InvInit, InvStep, PTL DEF Spec

(***************************************************************************)
(* What it gives.                                                          *)
(***************************************************************************)
\* Every variable keeps its type in every behaviour of the program.
THEOREM TypeCorrect == Spec => []TypeOK
<1>1. Inv => TypeOK
  BY DEF Inv
<1> QED
  BY <1>1, InvCorrect, PTL

\* A channel has a FILE open exactly while it plays a movie, and it is that
\* movie's: run() neither leaks a descriptor nor reads a closed one
\* (decoder.cpp:247-369).
THEOREM FilesCorrect == Spec => []OneMovieOpen
<1>1. Inv => OneMovieOpen
  BY DEF Inv, ChannelInv, ControlOf, OneMovieOpen
<1> QED
  BY <1>1, InvCorrect, PTL

\* With no remote control, the position of a movie and what waits in the
\* buffer add up to the offset read so far, whatever part of the buffer each
\* write takes (decoder.cpp:315-348).
THEOREM PositionsCorrect == Spec => []PositionIsOffset
<1>1. Inv => PositionIsOffset
  BY DEF Inv, ChannelInv, CountOf, PositionIsOffset, Writing
<1> QED
  BY <1>1, InvCorrect, PTL

\* No channel gives its device a byte before the common start, whatever the
\* order in which main(), the UDP thread, a signal and the channels run
\* (decoder.cpp:325-328).
THEOREM SilenceCorrect == Spec => []NothingBeforeStart
<1>1. Inv => NothingBeforeStart
  BY DEF Inv, ChannelInv, CountOf, StartOf, NothingBeforeStart
<1> QED
  BY <1>1, InvCorrect, PTL

(***************************************************************************)
(* The end of a channel and its way through the playlist, for any instance *)
(* of Main.  Once told to quit, a thread starts no further buffer, and the *)
(* thread of a channel that the handler deleted plays nothing, although    *)
(* close() does not always join it: the flag "running" that close() tests  *)
(* may not be set yet.  A movie is picked from a list that has one, and    *)
(* when the program ends by itself every channel has sent its first movie. *)
(*                                                                         *)
(* The last two need the cursor at every label of run(), what is known of  *)
(* a channel that main() has not asked to play yet, and that main() asks   *)
(* each channel once: a thread that main() overtakes, or that overtakes    *)
(* main(), finds its flags as it expects.                                  *)
(***************************************************************************)

(***************************************************************************)
(* Once told to quit, a thread reads no new buffer.                        *)
(***************************************************************************)
Reading == {"pausewait", "read"}
StartsReading(d) == quit[d] /\ pc[d] \notin Reading /\ pc'[d] \in Reading

\* Only Inner leads to these labels from outside, and it looks at quit.
LEMMA ThreadReading ==
  ASSUME NEW d \in Decoders, DecoderTypeOK, ChannelInv(d), Thread(d),
         NEW c \in Decoders
  PROVE  ~StartsReading(c)
<1> USE DecoderAssumption DEF DecoderTypeOK, Goto, Jump, LoopTest, Still,
        StartsReading, Reading
<1>1. CASE Begin(d) \/ Top(d)
  BY <1>1 DEF Begin, Top
<1>2. CASE UpdateFirst(d) \/ UpdatePlay(d) \/ UpdateCont(d)
  BY <1>2 DEF UpdateFirst, UpdatePlay, UpdateCont
<1>3. CASE UpdateSame(d) \/ UpdateSingle(d) \/ UpdateWrap(d)
  BY <1>3 DEF UpdateSame, UpdateSingle, UpdateWrap
<1>4. CASE CursorFirst(d) \/ CursorAdvance(d) \/ Check(d)
  BY <1>4 DEF CursorFirst, CursorAdvance, Check
<1>5. CASE Unstop(d) \/ Unplay(d) \/ Wake(d)
  BY <1>5 DEF Unstop, Unplay, Wake
<1>6. CASE Pick(d) \/ Open(d) \/ Measure(d) \/ Rewind(d)
  BY <1>6 DEF Pick, Open, Measure, Rewind
<1>7. CASE Inner(d)
  BY <1>7 DEF Inner
<1>8. CASE Read(d) \/ Sync(d) \/ Write(d) \/ Again(d)
  BY <1>8 DEF Read, Sync, Write, Again
<1>9. CASE FlushReady(d) \/ FlushQuit(d) \/ Seek(d) \/ Seeked(d)
  BY <1>9 DEF FlushReady, FlushQuit, Seek, Seeked, Flushed
<1>10. CASE Clear(d) \/ Reopen(d) \/ CloseMovie(d)
  BY <1>10 DEF Clear, Reopen, CloseMovie, Returns, ChannelInv, ControlOf
<1> QED
  BY <1>1, <1>2, <1>3, <1>4, <1>5, <1>6, <1>7, <1>8, <1>9, <1>10
  DEF Thread, Update

\* No other thread moves this one, other than to start it.
LEMMA OthersReading ==
  ASSUME Inv, NEW c \in Decoders,
         \/ MainThread \/ Signal \/ Datagram \/ UNCHANGED vars
  PROVE  ~StartsReading(c)
<1>1. \/ UNCHANGED pc
      \/ \E d \in Decoders : Launch(d)
  BY OthersOutside DEF Inv, Outside
<1>2. CASE UNCHANGED pc
  BY <1>2 DEF StartsReading
<1>3. ASSUME NEW d \in Decoders, Launch(d) PROVE ~StartsReading(c)
  <2>1. \/ UNCHANGED pc
        \/ pc' = [pc EXCEPT ![d] = "start"]
        \/ pc' = [pc EXCEPT ![d] = pc[d]]
    BY <1>3 DEF Launch, Set
  <2>2. pc \in [Decoders -> Labels]
    BY DEF Inv, TypeOK, DecoderTypeOK
  <2> QED
    BY <2>1, <2>2 DEF StartsReading, Reading
<1> QED
  BY <1>1, <1>2, <1>3

\* close() waits for the rest of one buffer at most: a thread that was told to
\* quit reads another only if it had already passed its test
\* (decoder.cpp:309-315, 352).
THEOREM QuitCorrect == Spec => QuitStopsReading
<1>1. ASSUME Inv, [Next]_vars, NEW c \in Decoders
      PROVE  ~StartsReading(c)
  <2>1. ASSUME NEW d \in Decoders, Run(d) PROVE ~StartsReading(c)
    BY <1>1, <2>1, ThreadReading DEF Run, Inv, TypeOK
  <2> QED
    BY <1>1, <2>1, OthersReading DEF Next, Ended
<1>2. Inv /\ [Next]_vars =>
        [\A d \in Decoders :
           quit[d] /\ pc[d] \notin {"pausewait", "read"}
             => pc'[d] \notin {"pausewait", "read"}]_vars
  BY <1>1 DEF StartsReading, Reading
<1> QED
  BY <1>2, InvCorrect, PTL DEF Spec, QuitStopsReading

(***************************************************************************)
(* The thread of a deleted channel is silent.                              *)
(***************************************************************************)
\* close() is past its wait, or the channel is deleted.
Closed(d) ==
  \/ d < first
  \/ d = first /\ closing[d] \in {"device", "position", "empty", "cursor"}
  \/ d = first /\ handler = "close" /\ closing[d] = "no"
  \/ d = first /\ handler = "delete"

\* The thread is over, has not begun, or is on its way from the head of the
\* outer loop to the end.
Leaving(d) ==
  /\ quit[d]
  /\ \/ pc[d] \in {"none", "start", "top", "end", "done"}
     \/ pc[d] \in Subroutine /\ ret[d] = "end"

\* "running" is set before anything else is done, and "quit" before it is read.
EndOf(d) ==
  /\ ~running[d] => pc[d] \in {"none", "start", "done"}
  /\ closing[d] # "no" => d = first /\ handler \in {"close", "delete"}
  /\ closing[d] \notin {"no", "quit"} => quit[d]
  /\ Closed(d) => Leaving(d)

ExitInv == Inv /\ \A d \in Decoders : EndOf(d)

LEMMA ThreadEnd ==
  ASSUME NEW d \in Decoders, DecoderTypeOK, ChannelInv(d), Thread(d),
         ~running[d] => pc[d] \in {"none", "start", "done"}
  PROVE  /\ UNCHANGED <<quit, closing>>
         /\ \A c \in Decoders \ {d} :
              pc'[c] = pc[c] /\ ret'[c] = ret[c] /\ running'[c] = running[c]
         /\ ~running'[d] => pc'[d] \in {"none", "start", "done"}
         /\ Leaving(d) => Leaving(d)'
<1> USE DEF DecoderTypeOK, Goto, Jump, LoopTest, Still, Set, flags, lists, file,
        seeks, lifecycle, Subroutine, Leaving, ChannelInv, ControlOf, CountOf
<1>1. CASE Begin(d) \/ Top(d)
  BY <1>1 DEF Begin, Top
<1>2. CASE UpdateFirst(d) \/ UpdatePlay(d) \/ UpdateCont(d)
  BY <1>2 DEF UpdateFirst, UpdatePlay, UpdateCont
<1>3. CASE UpdateSame(d) \/ UpdateSingle(d) \/ UpdateWrap(d)
  BY <1>3 DEF UpdateSame, UpdateSingle, UpdateWrap
<1>4. CASE CursorFirst(d) \/ CursorAdvance(d) \/ Check(d)
  BY <1>4 DEF CursorFirst, CursorAdvance, Check
<1>5. CASE Unstop(d) \/ Unplay(d) \/ Wake(d)
  BY <1>5 DEF Unstop, Unplay, Wake
<1>6. CASE Pick(d) \/ Open(d) \/ Measure(d) \/ Rewind(d)
  BY <1>6 DEF Pick, Open, Measure, Rewind
<1>7. CASE Inner(d) \/ Read(d) \/ Sync(d)
  BY <1>7 DEF Inner, Read, Sync
<1>8. CASE Write(d) \/ Again(d)
  BY <1>8 DEF Write, Again
<1>9. CASE FlushReady(d) \/ FlushQuit(d)
  BY <1>9 DEF FlushReady, FlushQuit, Flushed
<1>10. CASE Seek(d) \/ Seeked(d)
  BY <1>10 DEF Seek, Seeked, Flushed
<1>11. CASE Clear(d)
  BY <1>11 DEF Clear
<1>12. CASE Reopen(d) \/ CloseMovie(d)
  BY <1>12 DEF Reopen, CloseMovie
<1> QED
  BY <1>1, <1>2, <1>3, <1>4, <1>5, <1>6, <1>7, <1>8, <1>9, <1>10, <1>11, <1>12
  DEF Thread, Update

LEMMA RunEnd ==
  ASSUME NEW d \in Decoders, ExitInv, Run(d), NEW c \in Decoders
  PROVE  EndOf(c)'
<1>1. /\ DecoderTypeOK /\ ChannelInv(d) /\ Thread(d)
      /\ EndOf(c) /\ EndOf(d)
      /\ UNCHANGED <<first, handler>>
  BY DEF ExitInv, Inv, TypeOK, Run, mainVars
<1>2. ~running[d] => pc[d] \in {"none", "start", "done"}
  BY <1>1 DEF EndOf
<1>3. CASE c # d
  BY <1>1, <1>2, <1>3, ThreadEnd DEF EndOf, Closed, Leaving
<1>4. CASE c = d
  BY <1>1, <1>2, <1>4, ThreadEnd DEF EndOf, Closed
<1> QED
  BY <1>3, <1>4

\* Steps that move none of the fields that EndOf reads.
EndVars == <<pc, ret, quit, running, closing, handler, first>>

LEMMA EndStutter ==
  ASSUME NEW c \in Decoders, EndOf(c), UNCHANGED EndVars
  PROVE  EndOf(c)'
BY DEF EndOf, EndVars, Closed, Leaving, Subroutine

\* setup() and launch(): main() is out of the handler, no channel is half
\* closed, and the one in hand is not deleted.
LEMMA PrepareEnd ==
  ASSUME ExitInv, SetupDecoder \/ LaunchDecoder, NEW c \in Decoders
  PROVE  EndOf(c)'
<1>1. /\ dec \in Decoders /\ dec >= first /\ first \in Nat
      /\ handler \notin {"close", "delete"}
      /\ UNCHANGED <<handler, first>>
      /\ Setup(dec) \/ Launch(dec)
  BY DecoderAssumption, MainAssumption
  DEF ExitInv, Inv, TypeOK, SetupDecoder, LaunchDecoder, MainUses, MainGoto,
      ToNext, Interrupted, HandlerLabels, Decoders
<1>2. /\ EndOf(c) /\ closing[c] = "no"
      /\ pc \in [Decoders -> Labels] /\ quit \in [Decoders -> BOOLEAN]
  BY <1>1 DEF ExitInv, Inv, TypeOK, DecoderTypeOK, EndOf
<1>3. UNCHANGED <<ret, running, closing>>
  BY <1>1 DEF Setup, Launch, lifecycle
<1>4. CASE c # dec
  <2>1. pc'[c] = pc[c] /\ quit'[c] = quit[c]
    BY <1>1, <1>2, <1>4 DEF Setup, Launch, Set, flags
  <2> QED
    BY <1>1, <1>2, <1>3, <2>1 DEF EndOf, Closed, Leaving, Subroutine
<1>5. CASE c = dec
  <2>1. ~Closed(c) /\ ~Closed(c)'
    BY <1>1, <1>2, <1>3, <1>5, DecoderAssumption DEF Closed, Decoders
  <2>2. ~running'[c] => pc'[c] \in {"none", "start", "done"}
    BY <1>1, <1>2, <1>3, <1>5 DEF Setup, Launch, Set, EndOf
  <2> QED
    BY <1>1, <1>2, <1>3, <2>1, <2>2 DEF EndOf
<1> QED
  BY <1>4, <1>5

\* The other steps of main() and the steps of the UDP thread.
LEMMA QuietEnd ==
  ASSUME ExitInv, NEW c \in Decoders,
         \/ LaunchUdp \/ LoadPlaylist \/ PlayDecoder \/ PlayUnstop
         \/ Start \/ Started \/ Scan \/ Count \/ CountNext \/ CountNone \/ Dangling
         \/ Datagram \/ UNCHANGED vars
  PROVE  EndOf(c)'
<1>1. UNCHANGED EndVars
  <2> USE DEF EndVars, decoderVars, mainVars, MainGoto, MainUses, ToNext, flags,
          lifecycle
  <2>1. CASE LoadPlaylist \/ PlayDecoder \/ PlayUnstop
    BY <2>1 DEF LoadPlaylist, AppendAll, PutList, PlayDecoder, PutPlaying,
                PlayUnstop, PutStopped
  <2>2. CASE \/ LaunchUdp \/ Start \/ Started \/ Scan \/ Count \/ CountNext \/ CountNone
             \/ Dangling
    BY <2>2 DEF LaunchUdp, Start, Started, Scan, Count, CountNext, CountNone, Dangling
  <2>3. CASE Datagram \/ UNCHANGED vars
    BY <2>3 DEF Datagram, vars
  <2> QED
    BY <2>1, <2>2, <2>3
<1> QED
  BY <1>1, EndStutter DEF ExitInv

\* The handler: closing, joining if it must, deleting.
LEMMA HandlerEnd ==
  ASSUME ExitInv, NEW c \in Decoders,
         \/ Signal \/ HandlerClose \/ HandlerDestroy \/ HandlerDeleted
         \/ HandlerReturn \/ \E d \in Decoders : InsideClose(d)
  PROVE  EndOf(c)'
<1> USE DEF HandlerGoto, decoderVars, flags, lifecycle
<1>1. /\ EndOf(c) /\ first \in 1..(N + 1) /\ handler \in HandlerLabels
      /\ DecoderTypeOK
  BY DEF ExitInv, Inv, TypeOK
<1>2. CASE Signal \/ HandlerReturn
  BY <1>1, <1>2 DEF Signal, HandlerReturn, EndOf, Closed, Leaving, Subroutine
<1>3. CASE HandlerClose \/ HandlerDestroy
  <2>1. /\ CloseBegin(first) /\ UNCHANGED <<first, pc, ret, quit, running>>
        /\ \/ handler = "next" /\ handler' = "close"
           \/ handler = "close" /\ handler' = "delete"
    BY <1>3 DEF HandlerClose, HandlerDestroy, CloseBegin, CloseGoto
  <2>2. /\ closing[first] = "no"
        /\ closing' = [closing EXCEPT ![first] = "quit"]
    BY <2>1 DEF CloseBegin, CloseGoto, Set
  <2>3. closing[c] # "no" => c = first
    BY <1>1 DEF EndOf
  <2> QED
    BY <1>1, <2>1, <2>2, <2>3 DEF EndOf, Closed, Leaving, Subroutine,
                                  DecoderTypeOK
<1>4. CASE HandlerDeleted
  BY <1>1, <1>4, DecoderAssumption
  DEF HandlerDeleted, EndOf, Closed, Leaving, Subroutine, Decoders
<1>5. ASSUME NEW d \in Decoders, InsideClose(d) PROVE EndOf(c)'
  <2>1. /\ EndOf(d) /\ CloseStep(d) /\ UNCHANGED <<handler, first>>
    BY <1>5 DEF InsideClose, mainVars, ExitInv
  <2>2. UNCHANGED <<pc, ret, running>>
    BY <2>1 DEF CloseStep, CloseQuit, CloseRunning, CloseJoin, CloseDevice,
                ClosePosition, CloseEmpty, CloseCursor, CloseGoto
  <2>3. CASE c # d
    <3>1. closing'[c] = closing[c] /\ quit'[c] = quit[c]
      BY <1>1, <2>1, <2>3 DEF CloseStep, CloseQuit, CloseRunning, CloseJoin,
         CloseDevice, ClosePosition, CloseEmpty, CloseCursor, CloseGoto, Set,
         DecoderTypeOK
    <3> QED
      BY <1>1, <2>1, <2>2, <3>1 DEF EndOf, Closed, Leaving, Subroutine
  <2>4. CASE c = d
    <3> USE DEF CloseGoto, Set, DecoderTypeOK, EndOf, Closed, Leaving,
            Subroutine
    <3>1. CASE CloseQuit(d)
      BY <1>1, <2>1, <2>2, <2>4, <3>1 DEF CloseQuit
    <3>2. CASE CloseRunning(d)
      BY <1>1, <2>1, <2>2, <2>4, <3>2 DEF CloseRunning
    <3>3. CASE CloseJoin(d)
      BY <1>1, <2>1, <2>2, <2>4, <3>3 DEF CloseJoin
    <3>4. CASE CloseDevice(d) \/ ClosePosition(d) \/ CloseEmpty(d)
      BY <1>1, <2>1, <2>2, <2>4, <3>4 DEF CloseDevice, ClosePosition, CloseEmpty
    <3>5. CASE CloseCursor(d)
      BY <1>1, <2>1, <2>2, <2>4, <3>5 DEF CloseCursor
    <3> QED
      BY <2>1, <3>1, <3>2, <3>3, <3>4, <3>5 DEF CloseStep
  <2> QED
    BY <2>3, <2>4
<1> QED
  BY <1>2, <1>3, <1>4, <1>5

LEMMA ExitInit == Init => ExitInv
<1>1. ASSUME Init, NEW d \in Decoders PROVE EndOf(d)
  BY <1>1, DecoderAssumption
  DEF Init, DecoderInit, EndOf, Closed, Leaving, Decoders
<1> QED
  BY <1>1, InvInit DEF ExitInv

LEMMA ExitStep == ExitInv /\ [Next]_vars => ExitInv'
<1> SUFFICES ASSUME ExitInv, [Next]_vars PROVE ExitInv'
  OBVIOUS
<1>1. Inv'
  BY InvStep DEF ExitInv
<1>2. ASSUME NEW c \in Decoders PROVE EndOf(c)'
  <2>1. ASSUME NEW d \in Decoders, Run(d) PROVE EndOf(c)'
    BY <2>1, RunEnd
  <2> QED
    BY <2>1, PrepareEnd, QuietEnd, HandlerEnd DEF Next, Ended, MainThread
<1> QED
  BY <1>1, <1>2 DEF ExitInv

\* The thread of a channel that quitproc() deleted gives nothing to the device
\* and has no FILE open, whether close() joined it or not
\* (cmdline.cpp:124-127, decoder.cpp:119-127, thread.cpp:31).
THEOREM SilentCorrect == Spec => []DeletedIsSilent
<1>1. ExitInv => DeletedIsSilent
  BY DEF ExitInv, EndOf, Closed, Leaving, Inv, ChannelInv, ControlOf,
         DeletedIsSilent, Sending, InMovie, Subroutine
<1> QED
  BY <1>1, ExitInit, ExitStep, PTL DEF Spec

(***************************************************************************)
(* How far main() is with channel d.  Nothing is known once the handler    *)
(* runs: it closes the channel for good.                                   *)
(***************************************************************************)
Preparing(d, before, at) ==
  /\ handler = "no"
  /\ \/ main = "udp"
     \/ main \in before \cup at /\ dec < d
     \/ main \in at /\ dec = d

Loop == {"setup", "launch", "load", "play", "unstop"}
NotLaunched(d) == Preparing(d, Loop, {"setup", "launch"})
NotPlayed(d)   ==
  \/ RpcDaemon /\ handler = "no"
  \/ Preparing(d, Loop, {"setup", "launch", "load", "play"})
Pending(d)     == Preparing(d, Loop, Loop)

(***************************************************************************)
(* The invariant, part by part.                                            *)
(***************************************************************************)
OnList(d) ==
  position[d] >= 1 /\ (position[d] <= Len(playlist[d]) \/ position[d] = 1)

\* The thread has an entry in hand.
Held(d) == pc[d] \in {"open", "size", "rewind"} \/ InMovie(d)

\* The cursor at each label.  In mode PLAY it is one ahead until it is wrapped.
PosOf(d) ==
  /\ PlayMode[d] = "SINGLE" => position[d] = -1 \/ position[d] = 1
  /\ ~quit[d] /\ pc[d] \in {"none", "start"} => position[d] = -1
  /\ (pc[d] = "top" /\ ~quit[d]) \/ pc[d] = "update"
       => position[d] = -1 \/ OnList(d)
  /\ pc[d] = "advance" =>
       /\ PlayMode[d] = "PLAY" \/ PlayMode[d] = "CONT"
       /\ OnList(d)
       /\ PlayMode[d] = "CONT" => position[d] < Len(playlist[d])
  /\ pc[d] = "wrap" =>
       /\ PlayMode[d] = "PLAY" /\ position[d] >= 2
       /\ position[d] - 1 <= Len(playlist[d]) \/ position[d] = 2
  /\ pc[d] = "first" =>
       \/ position[d] = -1
       \/ PlayMode[d] = "CONT" /\ OnList(d) /\ position[d] >= Len(playlist[d])
       \/ PlayMode[d] = "PLAY" /\ position[d] >= 2 /\ position[d] > Len(playlist[d])
  /\ pc[d] \in {"check", "unstop", "unplay", "wait", "pick", "nomovie"} => OnList(d)
  /\ pc[d] = "nomovie" => playlist[d] = <<>>
  /\ Held(d) => /\ position[d] \in 1..Len(playlist[d])
                /\ playlist[d][position[d]] = movie[d]

\* A thread ends, and leaves a movie early, when it was told to.
EndsOf(d) ==
  /\ stopped[d] => \/ pc[d] \in {"check", "unstop"} /\ PlayMode[d] = "SINGLE"
                   \/ pc[d] # "none" /\ quit[d]
  /\ fd[d] = "none" => Dummy
  /\ pc[d] \in {"end", "done"} \/ (pc[d] \in Subroutine /\ ret[d] = "end") => quit[d]
  /\ InMovie(d) \/ pc[d] \in {"size", "rewind"} => offset[d] <= Size[movie[d]]
  /\ ~quit[d] /\ (pc[d] = "eom" \/ (pc[d] \in {"clear", "flush", "reopen"} /\ ret[d] = "eom"))
       => Size[movie[d]] - filepos[d] < BufSize

\* The thread waits to be asked to play, or is on its way there.
Early(d) ==
  \/ pc[d] \in {"none", "start", "check", "unstop", "wait"}
  \/ pc[d] \in {"top", "update", "first"} /\ position[d] = -1

\* It has had no movie.
Untouched(d) == Early(d) /\ ~stopped[d] /\ movie[d] = NoFile

\* The first movie of the list was sent, or there is none to send.
Played(d) ==
  \/ playlist[d] = <<>>
  \/ playlist[d][1] \in Missing
  \/ Size[playlist[d][1]] - filepos[d] < BufSize

\* It loops and waits, with no movie.
Idle(d) ==
  pc[d] \in {"top", "update", "first", "advance", "wrap", "check", "unstop",
            "unplay", "wait"}

\* A thread that is not asked to play has no movie; one that does not play any
\* more has played.
AskedOf(d) ==
  /\ NotLaunched(d) => pc[d] = "none" /\ position[d] = -1 /\ movie[d] = NoFile
  /\ NotPlayed(d) => ~playing[d]
  /\ NotPlayed(d) /\ ~quit[d] => Untouched(d)
  /\ handler = "no" /\ quit[d] => Leaving(d) /\ (playing[d] \/ NotPlayed(d))
  /\ handler = "no" /\ ~NotPlayed(d) /\ ~playing[d] => Played(d) /\ Idle(d)

\* In mode SINGLE a thread that is back at the head of its loop has played its
\* first movie; in every mode one that is about to give up.
PlayedOf(d) ==
  /\ PlayMode[d] = "SINGLE" /\ ~quit[d]
       /\ \/ pc[d] \in {"top", "update"} /\ position[d] # -1
          \/ pc[d] \in {"check", "unstop"} /\ stopped[d]
       => Played(d)
  /\ pc[d] = "unplay" /\ ~quit[d] => Played(d)

ListOf(d) == PosOf(d) /\ EndsOf(d) /\ AskedOf(d) /\ PlayedOf(d)

\* A pass of main() that counts none has met none that plays.
PassOf ==
  /\ handler = "no" => first = 1
  /\ handler = "returned" => first = N + 1
  /\ handler = "no" /\ main \in Loop \cup {"count", "sleep"} => dec # 0
  /\ main \in {"load", "play", "unstop", "scan", "count", "sleep", "exited"}
       => ~RpcDaemon
  /\ handler = "no" =>
       /\ main = "count" /\ still_running = 0 =>
            \A d \in Decoders : d < dec => ~playing[d]
       /\ main = "sleep" /\ still_running = 0 =>
            \A d \in Decoders : d <= dec => ~playing[d]
       /\ main = "exited" \/ (main = "scan" /\ still_running = 0) =>
            \A d \in Decoders : ~playing[d]

ListInv == ExitInv /\ PassOf /\ \A d \in Decoders : ListOf(d)

(***************************************************************************)
(* A step of a thread.                                                     *)
(***************************************************************************)
\* It moves its own channel.
LEMMA ThreadOthers ==
  ASSUME NEW d \in Decoders, DecoderTypeOK, Thread(d), NEW c \in Decoders \ {d}
  PROVE  /\ pc'[c] = pc[c] /\ ret'[c] = ret[c] /\ playing'[c] = playing[c]
         /\ stopped'[c] = stopped[c] /\ position'[c] = position[c]
         /\ movie'[c] = movie[c] /\ fd'[c] = fd[c]
         /\ filepos'[c] = filepos[c] /\ offset'[c] = offset[c]
<1> USE DecoderAssumption
        DEF DecoderTypeOK, Goto, Jump, LoopTest, Still, Set, flags, lists,
        file, seeks, lifecycle, Returns
<1>1. CASE Begin(d) \/ Top(d)
  BY <1>1 DEF Begin, Top
<1>2. CASE UpdateFirst(d) \/ UpdatePlay(d) \/ UpdateCont(d)
  BY <1>2 DEF UpdateFirst, UpdatePlay, UpdateCont
<1>3. CASE UpdateSame(d) \/ UpdateSingle(d) \/ UpdateWrap(d)
  BY <1>3 DEF UpdateSame, UpdateSingle, UpdateWrap
<1>4. CASE CursorFirst(d)
  BY <1>4 DEF CursorFirst
<1>5. CASE CursorAdvance(d)
  BY <1>5 DEF CursorAdvance
<1>6. CASE Check(d) \/ Unstop(d)
  BY <1>6 DEF Check, Unstop
<1>7. CASE Unplay(d)
  BY <1>7 DEF Unplay
<1>8. CASE Wake(d)
  BY <1>8 DEF Wake
<1>9. CASE Pick(d)
  BY <1>9 DEF Pick
<1>10. CASE Open(d)
  BY <1>10 DEF Open
<1>11. CASE Measure(d) \/ Rewind(d)
  BY <1>11 DEF Measure, Rewind
<1>12. CASE Inner(d)
  BY <1>12 DEF Inner
<1>13. CASE Read(d)
  BY <1>13 DEF Read
<1>14. CASE Sync(d) \/ Again(d)
  BY <1>14 DEF Sync, Again
<1>15. CASE Write(d)
  BY <1>15 DEF Write
<1>16. CASE FlushReady(d)
  BY <1>16 DEF FlushReady
<1>17. CASE FlushQuit(d)
  BY <1>17 DEF FlushQuit
<1>18. CASE Seek(d) \/ Seeked(d)
  BY <1>18 DEF Seek, Seeked
<1>19. CASE Clear(d)
  BY <1>19 DEF Clear
<1>20. CASE Reopen(d)
  BY <1>20 DEF Reopen
<1>21. CASE CloseMovie(d)
  BY <1>21 DEF CloseMovie
<1> QED
  BY <1>1, <1>2, <1>3, <1>4, <1>5, <1>6, <1>7, <1>8, <1>9, <1>10, <1>11, <1>12,
     <1>13, <1>14, <1>15, <1>16, <1>17, <1>18, <1>19, <1>20, <1>21
  DEF Thread, Update

\* What no thread touches.
LEMMA ThreadFrame ==
  ASSUME NEW d \in Decoders, Thread(d)
  PROVE  UNCHANGED <<quit, playlist, syncstart, mutex, closing>>
<1> USE DEF Goto, Jump, LoopTest, Still, Set, flags, lists, lifecycle
<1>1. CASE Begin(d) \/ Top(d)
  BY <1>1 DEF Begin, Top
<1>2. CASE UpdateFirst(d) \/ UpdatePlay(d) \/ UpdateCont(d)
  BY <1>2 DEF UpdateFirst, UpdatePlay, UpdateCont
<1>3. CASE UpdateSame(d) \/ UpdateSingle(d) \/ UpdateWrap(d)
  BY <1>3 DEF UpdateSame, UpdateSingle, UpdateWrap
<1>4. CASE CursorFirst(d)
  BY <1>4 DEF CursorFirst
<1>5. CASE CursorAdvance(d)
  BY <1>5 DEF CursorAdvance
<1>6. CASE Check(d) \/ Unstop(d)
  BY <1>6 DEF Check, Unstop
<1>7. CASE Unplay(d)
  BY <1>7 DEF Unplay
<1>8. CASE Wake(d)
  BY <1>8 DEF Wake
<1>9. CASE Pick(d)
  BY <1>9 DEF Pick
<1>10. CASE Open(d)
  BY <1>10 DEF Open
<1>11. CASE Measure(d) \/ Rewind(d)
  BY <1>11 DEF Measure, Rewind
<1>12. CASE Inner(d)
  BY <1>12 DEF Inner
<1>13. CASE Read(d)
  BY <1>13 DEF Read
<1>14. CASE Sync(d) \/ Again(d)
  BY <1>14 DEF Sync, Again
<1>15. CASE Write(d)
  BY <1>15 DEF Write
<1>16. CASE FlushReady(d)
  BY <1>16 DEF FlushReady
<1>17. CASE FlushQuit(d)
  BY <1>17 DEF FlushQuit
<1>18. CASE Seek(d) \/ Seeked(d)
  BY <1>18 DEF Seek, Seeked
<1>19. CASE Clear(d)
  BY <1>19 DEF Clear
<1>20. CASE Reopen(d)
  BY <1>20 DEF Reopen
<1>21. CASE CloseMovie(d)
  BY <1>21 DEF CloseMovie
<1> QED
  BY <1>1, <1>2, <1>3, <1>4, <1>5, <1>6, <1>7, <1>8, <1>9, <1>10, <1>11, <1>12,
     <1>13, <1>14, <1>15, <1>16, <1>17, <1>18, <1>19, <1>20, <1>21
  DEF Thread, Update

LEMMA ThreadPos ==
  ASSUME NEW d \in Decoders, DecoderTypeOK, ChannelInv(d), PosOf(d), Thread(d)
  PROVE  PosOf(d)'
<1> USE DecoderAssumption
        DEF DecoderTypeOK, Goto, Jump, LoopTest, Still, Set, flags, lists,
        file, seeks, lifecycle, PosOf, OnList, Held,
        InMovie, Subroutine
<1>1. CASE Begin(d) \/ Top(d)
  <2>1. CASE Begin(d)
    BY <2>1 DEF Begin
  <2>2. CASE Top(d)
    BY <2>2 DEF Top
  <2> QED
    BY <1>1, <2>1, <2>2
<1>2. CASE UpdateFirst(d) \/ UpdatePlay(d) \/ UpdateCont(d)
  <2>1. CASE UpdateFirst(d)
    BY <2>1 DEF UpdateFirst
  <2>2. CASE UpdatePlay(d)
    BY <2>2 DEF UpdatePlay
  <2>3. CASE UpdateCont(d)
    BY <2>3 DEF UpdateCont
  <2> QED
    BY <1>2, <2>1, <2>2, <2>3
<1>3. CASE UpdateSame(d) \/ UpdateSingle(d) \/ UpdateWrap(d)
  <2>1. CASE UpdateSame(d)
    BY <2>1 DEF UpdateSame
  <2>2. CASE UpdateSingle(d)
    BY <2>2 DEF UpdateSingle
  <2>3. CASE UpdateWrap(d)
    BY <2>3 DEF UpdateWrap
  <2> QED
    BY <1>3, <2>1, <2>2, <2>3
<1>4. CASE CursorFirst(d)
  BY <1>4 DEF CursorFirst
<1>5. CASE CursorAdvance(d)
  BY <1>5 DEF CursorAdvance
<1>6. CASE Check(d) \/ Unstop(d)
  <2>1. CASE Check(d)
    BY <2>1 DEF Check
  <2>2. CASE Unstop(d)
    BY <2>2 DEF Unstop
  <2> QED
    BY <1>6, <2>1, <2>2
<1>7. CASE Unplay(d)
  BY <1>7 DEF Unplay
<1>8. CASE Wake(d)
  BY <1>8 DEF Wake
<1>9. CASE Pick(d)
  BY <1>9 DEF Pick, Entry
<1>10. CASE Open(d)
  BY <1>10 DEF Open
<1>11. CASE Measure(d) \/ Rewind(d)
  BY <1>11 DEF Measure, Rewind
<1>12. CASE Inner(d)
  BY <1>12 DEF Inner
<1>13. CASE Read(d)
  BY <1>13 DEF Read
<1>14. CASE Sync(d) \/ Again(d)
  BY <1>14 DEF Sync, Again
<1>15. CASE Write(d)
  BY <1>15 DEF Write
<1>16. CASE FlushReady(d)
  BY <1>16 DEF FlushReady, Flushed, Returns
<1>17. CASE FlushQuit(d)
  BY <1>17 DEF FlushQuit, Flushed, Returns
<1>18. CASE Seek(d) \/ Seeked(d)
  BY <1>18 DEF Seek, Seeked, ChannelInv, CountOf
<1>19. CASE Clear(d)
  BY <1>19 DEF Clear, ChannelInv, ControlOf
<1>20. CASE Reopen(d)
  BY <1>20 DEF Reopen, ChannelInv, ControlOf
<1>21. CASE CloseMovie(d)
  <2>1. CASE pc[d] = "eom"
    BY <1>21, <2>1 DEF CloseMovie
  <2>2. CASE pc[d] = "end"
    BY <1>21, <2>2 DEF CloseMovie
  <2> QED
    BY <1>21, <2>1, <2>2 DEF CloseMovie
<1> QED
  BY <1>1, <1>2, <1>3, <1>4, <1>5, <1>6, <1>7, <1>8, <1>9, <1>10, <1>11, <1>12,
     <1>13, <1>14, <1>15, <1>16, <1>17, <1>18, <1>19, <1>20, <1>21
  DEF Thread, Update

LEMMA ThreadEnds ==
  ASSUME NEW d \in Decoders, DecoderTypeOK, ChannelInv(d), EndsOf(d), Thread(d)
  PROVE  EndsOf(d)'
<1> USE DecoderAssumption
        DEF DecoderTypeOK, Goto, Jump, LoopTest, Still, Set, flags, lists,
        file, seeks, lifecycle, EndsOf, ChannelInv,
        ControlOf, CountOf, Writing, InMovie, Subroutine
<1>1. CASE Begin(d) \/ Top(d)
  BY <1>1 DEF Begin, Top
<1>2. CASE UpdateFirst(d) \/ UpdatePlay(d) \/ UpdateCont(d)
  BY <1>2 DEF UpdateFirst, UpdatePlay, UpdateCont
<1>3. CASE UpdateSame(d) \/ UpdateSingle(d) \/ UpdateWrap(d)
  BY <1>3 DEF UpdateSame, UpdateSingle, UpdateWrap
<1>4. CASE CursorFirst(d)
  BY <1>4 DEF CursorFirst
<1>5. CASE CursorAdvance(d)
  BY <1>5 DEF CursorAdvance
<1>6. CASE Check(d) \/ Unstop(d)
  BY <1>6 DEF Check, Unstop
<1>7. CASE Unplay(d)
  BY <1>7 DEF Unplay
<1>8. CASE Wake(d)
  BY <1>8 DEF Wake
<1>9. CASE Pick(d)
  BY <1>9 DEF Pick, Entry
<1>10. CASE Open(d)
  BY <1>10 DEF Open
<1>11. CASE Measure(d) \/ Rewind(d)
  BY <1>11 DEF Measure, Rewind
<1>12. CASE Inner(d)
  BY <1>12 DEF Inner
<1>13. CASE Read(d)
  <2>1. /\ playlist_fd[d] = movie[d] /\ movie[d] \in Files
        /\ pc[d] = "read" /\ offset[d] <= Size[movie[d]]
        /\ filepos[d] = offset[d] /\ writing[d] = 0
    BY <1>13 DEF Read
  <2>2. /\ Readable(d) \in Nat /\ offset[d] + Readable(d) <= Size[movie[d]]
        /\ Readable(d) < BufSize => Size[movie[d]] - filepos[d] < BufSize
    <3>1. Size[movie[d]] \in Nat /\ offset[d] \in Nat /\ BufSize \in Nat
      BY <2>1
    <3> QED
      BY ONLY <2>1, <3>1 DEF Readable
  <2>3. offset'[d] = offset[d] + Readable(d)
    BY <1>13 DEF Read
  <2> QED
    BY <1>13, <2>1, <2>2, <2>3 DEF Read
<1>14. CASE Sync(d) \/ Again(d)
  BY <1>14 DEF Sync, Again
<1>15. CASE Write(d)
  BY <1>15 DEF Write
<1>16. CASE FlushReady(d)
  BY <1>16 DEF FlushReady, Flushed, Returns
<1>17. CASE FlushQuit(d)
  BY <1>17 DEF FlushQuit, Flushed, Returns
<1>18. CASE Seek(d) \/ Seeked(d)
  BY <1>18 DEF Seek, Seeked, ChannelInv, CountOf
<1>19. CASE Clear(d)
  BY <1>19 DEF Clear
<1>20. CASE Reopen(d)
  BY <1>20 DEF Reopen
<1>21. CASE CloseMovie(d)
  BY <1>21 DEF CloseMovie
<1> QED
  BY <1>1, <1>2, <1>3, <1>4, <1>5, <1>6, <1>7, <1>8, <1>9, <1>10, <1>11, <1>12,
     <1>13, <1>14, <1>15, <1>16, <1>17, <1>18, <1>19, <1>20, <1>21
  DEF Thread, Update

LEMMA ThreadAsked ==
  ASSUME NEW d \in Decoders, DecoderTypeOK, ChannelInv(d), PosOf(d), EndsOf(d),
         Thread(d)
  PROVE  /\ pc[d] # "none"
         /\ ~playing[d] => ~playing'[d]
         /\ quit[d] /\ Leaving(d) => playing'[d] = playing[d]
         /\ ~quit[d] /\ ~playing[d] /\ Untouched(d) => Untouched(d)'
<1> USE DecoderAssumption
        DEF DecoderTypeOK, Goto, Jump, LoopTest, Still, Set, flags, lists,
        file, seeks, lifecycle, Untouched,
        Early, Leaving, Subroutine
<1>1. CASE Begin(d) \/ Top(d)
  BY <1>1 DEF Begin, Top, PosOf, EndsOf
<1>2. CASE UpdateFirst(d) \/ UpdatePlay(d) \/ UpdateCont(d)
  BY <1>2 DEF UpdateFirst, UpdatePlay, UpdateCont
<1>3. CASE UpdateSame(d) \/ UpdateSingle(d) \/ UpdateWrap(d)
  BY <1>3 DEF UpdateSame, UpdateSingle, UpdateWrap
<1>4. CASE CursorFirst(d)
  BY <1>4 DEF CursorFirst
<1>5. CASE CursorAdvance(d)
  BY <1>5 DEF CursorAdvance
<1>6. CASE Check(d) \/ Unstop(d)
  BY <1>6 DEF Check, Unstop
<1>7. CASE Unplay(d)
  BY <1>7 DEF Unplay
<1>8. CASE Wake(d)
  BY <1>8 DEF Wake
<1>9. CASE Pick(d)
  BY <1>9 DEF Pick, Entry
<1>10. CASE Open(d)
  BY <1>10 DEF Open
<1>11. CASE Measure(d) \/ Rewind(d)
  BY <1>11 DEF Measure, Rewind
<1>12. CASE Inner(d)
  BY <1>12 DEF Inner
<1>13. CASE Read(d)
  BY <1>13 DEF Read
<1>14. CASE Sync(d) \/ Again(d)
  BY <1>14 DEF Sync, Again
<1>15. CASE Write(d)
  BY <1>15 DEF Write
<1>16. CASE FlushReady(d)
  BY <1>16 DEF FlushReady, Flushed, Returns
<1>17. CASE FlushQuit(d)
  BY <1>17 DEF FlushQuit, Flushed, Returns
<1>18. CASE Seek(d) \/ Seeked(d)
  BY <1>18 DEF Seek, Seeked, ChannelInv, CountOf
<1>19. CASE Clear(d)
  BY <1>19 DEF Clear
<1>20. CASE Reopen(d)
  BY <1>20 DEF Reopen
<1>21. CASE CloseMovie(d)
  BY <1>21 DEF CloseMovie
<1> QED
  BY <1>1, <1>2, <1>3, <1>4, <1>5, <1>6, <1>7, <1>8, <1>9, <1>10, <1>11, <1>12,
     <1>13, <1>14, <1>15, <1>16, <1>17, <1>18, <1>19, <1>20, <1>21
  DEF Thread, Update

LEMMA ThreadPlayed ==
  ASSUME NEW d \in Decoders, DecoderTypeOK, ChannelInv(d), PosOf(d), EndsOf(d),
         PlayedOf(d), Thread(d)
  PROVE  /\ PlayedOf(d)'
         /\ ~quit[d] /\ ~playing'[d] /\ (playing[d] \/ (Played(d) /\ Idle(d)))
              => Played(d)' /\ Idle(d)'
<1> USE DecoderAssumption
        DEF DecoderTypeOK, Goto, Jump, LoopTest, Still, Set, flags, lists,
        file, seeks, lifecycle, PlayedOf, Played,
        Idle
<1>1. CASE Begin(d) \/ Top(d)
  BY <1>1 DEF Begin, Top, PosOf, EndsOf
<1>2. CASE UpdateFirst(d) \/ UpdatePlay(d) \/ UpdateCont(d)
  BY <1>2 DEF UpdateFirst, UpdatePlay, UpdateCont
<1>3. CASE UpdateSame(d) \/ UpdateSingle(d) \/ UpdateWrap(d)
  BY <1>3 DEF UpdateSame, UpdateSingle, UpdateWrap, EndsOf
<1>4. CASE CursorFirst(d)
  BY <1>4 DEF CursorFirst, EndsOf
<1>5. CASE CursorAdvance(d)
  BY <1>5 DEF CursorAdvance, EndsOf
<1>6. CASE Check(d) \/ Unstop(d)
  BY <1>6 DEF Check, Unstop, EndsOf
<1>7. CASE Unplay(d)
  BY <1>7 DEF Unplay, PosOf
<1>8. CASE Wake(d)
  BY <1>8 DEF Wake
<1>9. CASE Pick(d)
  BY <1>9 DEF Pick, Entry
<1>10. CASE Open(d)
  BY <1>10 DEF Open, PosOf, Held, ChannelInv, ControlOf
<1>11. CASE Measure(d) \/ Rewind(d)
  BY <1>11 DEF Measure, Rewind
<1>12. CASE Inner(d)
  BY <1>12 DEF Inner
<1>13. CASE Read(d)
  BY <1>13 DEF Read
<1>14. CASE Sync(d) \/ Again(d)
  BY <1>14 DEF Sync, Again
<1>15. CASE Write(d)
  BY <1>15 DEF Write
<1>16. CASE FlushReady(d)
  BY <1>16 DEF FlushReady, Flushed, Returns
<1>17. CASE FlushQuit(d)
  BY <1>17 DEF FlushQuit, Flushed, Returns
<1>18. CASE Seek(d) \/ Seeked(d)
  BY <1>18 DEF Seek, Seeked, ChannelInv, CountOf
<1>19. CASE Clear(d)
  BY <1>19 DEF Clear, ChannelInv, ControlOf
<1>20. CASE Reopen(d)
  BY <1>20 DEF Reopen, ChannelInv, ControlOf
<1>21. CASE CloseMovie(d)
  BY <1>21 DEF CloseMovie, PosOf, EndsOf, Held, InMovie, Subroutine, ChannelInv,
                ControlOf
<1> QED
  BY <1>1, <1>2, <1>3, <1>4, <1>5, <1>6, <1>7, <1>8, <1>9, <1>10, <1>11, <1>12,
     <1>13, <1>14, <1>15, <1>16, <1>17, <1>18, <1>19, <1>20, <1>21
  DEF Thread, Update

LEMMA MainStill ==
  ASSUME UNCHANGED <<main, dec, handler>>, NEW c \in Decoders
  PROVE  /\ NotLaunched(c)' <=> NotLaunched(c)
         /\ NotPlayed(c)' <=> NotPlayed(c)
BY DEF NotLaunched, NotPlayed, Preparing

LEMMA RunList ==
  ASSUME NEW d \in Decoders, ListInv, Run(d), NEW c \in Decoders
  PROVE  ListOf(c)'
<1>1. /\ DecoderTypeOK /\ ChannelInv(d) /\ Thread(d) /\ EndOf(d)
      /\ PosOf(d) /\ EndsOf(d) /\ AskedOf(d) /\ PlayedOf(d)
      /\ PosOf(c) /\ EndsOf(c) /\ AskedOf(c) /\ PlayedOf(c)
      /\ UNCHANGED <<main, dec, handler>>
  BY DEF ListInv, ExitInv, Inv, TypeOK, Run, mainVars, ListOf
<1>2. UNCHANGED <<quit, playlist>>
  BY <1>1, ThreadFrame
<1>3. CASE c # d
  <2>1. /\ pc'[c] = pc[c] /\ ret'[c] = ret[c] /\ playing'[c] = playing[c]
        /\ stopped'[c] = stopped[c] /\ position'[c] = position[c]
        /\ movie'[c] = movie[c] /\ fd'[c] = fd[c]
        /\ filepos'[c] = filepos[c] /\ offset'[c] = offset[c]
    BY <1>1, <1>3, ThreadOthers
  <2>2. PosOf(c)' /\ EndsOf(c)' /\ PlayedOf(c)'
    BY <1>1, <1>2, <2>1 DEF PosOf, EndsOf, PlayedOf, OnList, Held, InMovie, Played
  <2>3. AskedOf(c)'
    BY <1>1, <1>2, <2>1, MainStill
    DEF AskedOf, Untouched, Early, Leaving, Played, Idle
  <2> QED
    BY <2>2, <2>3 DEF ListOf
<1>4. CASE c = d
  <2>1. PosOf(d)' /\ EndsOf(d)' /\ PlayedOf(d)'
    BY <1>1, ThreadPos, ThreadEnds, ThreadPlayed
  <2>2. Leaving(d) => Leaving(d)'
    BY <1>1, ThreadEnd DEF EndOf
  <2>3. AskedOf(d)'
    BY <1>1, <1>2, <2>2, MainStill, ThreadAsked, ThreadPlayed DEF AskedOf
  <2> QED
    BY <1>4, <2>1, <2>3 DEF ListOf
<1> QED
  BY <1>3, <1>4

(***************************************************************************)
(* The steps of main(), of the handler and of the UDP thread.              *)
(***************************************************************************)
\* Where main() takes the channels, when it changes none.
LEMMA QuietList ==
  ASSUME ListInv, NEW c \in Decoders,
         \/ LaunchUdp \/ Start \/ Started \/ Scan \/ Count \/ CountNext \/ CountNone
         \/ Dangling \/ Signal \/ Datagram \/ HandlerDeleted \/ HandlerReturn
         \/ UNCHANGED vars
  PROVE  ListOf(c)'
<1>1. /\ UNCHANGED <<pc, ret, flags, lists, movie, file, seeks, fd>>
      /\ handler' = "no" => handler = "no"
  BY DEF LaunchUdp, Start, Started, Scan, Count, CountNext, CountNone, Dangling, Signal,
         Datagram, HandlerDeleted, HandlerReturn, MainGoto, HandlerGoto,
         decoderVars, vars, mainVars
<1>2. /\ DecoderTypeOK /\ first \in 1..(N + 1) /\ dec \in 0..N
      /\ handler = "no" => first = 1
      /\ ListOf(c)
  BY DEF ListInv, ExitInv, Inv, TypeOK, PassOf
<1>3. handler' = "no" => /\ NotLaunched(c)' <=> NotLaunched(c)
                         /\ NotPlayed(c)' <=> NotPlayed(c)
  <2> USE DecoderAssumption, MainAssumption
          DEF MainGoto, NotLaunched, NotPlayed, Preparing, Loop, Decoders
  <2>1. CASE LaunchUdp
    BY <1>1, <1>2, <2>1 DEF LaunchUdp, FirstDecoder
  <2>2. CASE Start \/ Started \/ Scan \/ Count \/ CountNext \/ CountNone
    BY <1>1, <1>2, <2>2 DEF Start, Started, Scan, Count, CountNext, CountNone
  <2>3. CASE Dangling
    BY <1>1, <1>2, <2>3 DEF Dangling
  <2>4. CASE Signal \/ Datagram \/ HandlerDeleted \/ HandlerReturn \/ UNCHANGED vars
    BY <2>4 DEF Signal, Datagram, HandlerDeleted, HandlerReturn, HandlerGoto,
                vars, mainVars
  <2> QED
    BY <2>1, <2>2, <2>3, <2>4
<1>4. NotLaunched(c)' \/ NotPlayed(c)' => handler' = "no"
  BY DEF NotLaunched, NotPlayed, Preparing
<1>5. UNCHANGED <<pc, ret, playing, stopped, quit, playlist, position, movie,
                  offset, filepos, fd>>
  BY <1>1 DEF flags, lists, file, seeks
<1>6. PosOf(c)' /\ EndsOf(c)' /\ PlayedOf(c)'
  BY <1>2, <1>5 DEF ListOf, PosOf, EndsOf, PlayedOf, OnList, Held, InMovie, Played
<1>7. AskedOf(c)'
  BY <1>1, <1>2, <1>3, <1>4, <1>5
  DEF ListOf, AskedOf, Untouched, Early, Leaving, Played, Idle
<1> QED
  BY <1>6, <1>7 DEF ListOf

\* What a step of main() that uses dec does to the others: nothing.
LEMMA UsesDec ==
  ASSUME ListInv, dec >= first, ~Interrupted
  PROVE  /\ handler = "no" /\ first = 1 /\ dec \in Decoders /\ dec \in Nat
         /\ DecoderTypeOK /\ \A c \in Decoders : c \in Nat /\ ListOf(c)
BY DecoderAssumption
DEF ListInv, ExitInv, Inv, TypeOK, PassOf, Interrupted, HandlerLabels, Decoders

\* A channel none of whose fields the invariant reads changes.
Untold(c) ==
  /\ pc'[c] = pc[c] /\ ret'[c] = ret[c] /\ playing'[c] = playing[c]
  /\ stopped'[c] = stopped[c] /\ quit'[c] = quit[c] /\ playlist'[c] = playlist[c]
  /\ position'[c] = position[c] /\ movie'[c] = movie[c] /\ offset'[c] = offset[c]
  /\ filepos'[c] = filepos[c] /\ fd'[c] = fd[c]

LEMMA UntoldList ==
  ASSUME NEW c \in Decoders, ListOf(c), Untold(c), UNCHANGED handler,
         NotLaunched(c)' => NotLaunched(c),
         NotPlayed(c)' <=> NotPlayed(c)
  PROVE  ListOf(c)'
<1>1. PosOf(c)' /\ EndsOf(c)' /\ PlayedOf(c)'
  BY DEF Untold, ListOf, PosOf, EndsOf, PlayedOf, OnList, Held, InMovie, Played
<1>2. AskedOf(c)'
  BY DEF Untold, ListOf, AskedOf, Untouched, Early, Leaving, Played, Idle
<1> QED
  BY <1>1, <1>2 DEF ListOf

LEMMA SetupList ==
  ASSUME ListInv, SetupDecoder, NEW c \in Decoders
  PROVE  ListOf(c)'
<1>1. /\ handler = "no" /\ dec \in Decoders /\ DecoderTypeOK /\ ListOf(c)
      /\ main = "setup" /\ main' = "launch" /\ UNCHANGED <<dec, handler>>
      /\ c \in Nat /\ dec \in Nat
  BY UsesDec DEF SetupDecoder, MainUses, MainGoto
<1>2. /\ NotLaunched(c)' <=> NotLaunched(c)
      /\ NotPlayed(c)' <=> NotPlayed(c)
      /\ NotLaunched(dec)
  BY <1>1 DEF NotLaunched, NotPlayed, Preparing, Loop
<1>3. /\ UNCHANGED <<pc, ret, playing, stopped, playlist, position, movie, offset>>
      /\ UNCHANGED <<filepos, fd>>
      /\ \/ UNCHANGED quit
         \/ quit' = [quit EXCEPT ![dec] = FALSE]
         \/ quit' = [quit EXCEPT ![dec] = quit[dec]]
  BY DEF SetupDecoder, Setup, Set, lists, file, seeks
<1>4. CASE c # dec \/ quit'[c] = quit[c]
  <2>1. Untold(c)
    BY <1>1, <1>3, <1>4 DEF DecoderTypeOK, Untold
  <2> QED
    BY <1>1, <1>2, <2>1, UntoldList
<1>5. CASE c = dec /\ ~quit'[c]
  <2>1. /\ pc[c] = "none" /\ position[c] = -1 /\ movie[c] = NoFile
        /\ NotPlayed(c) /\ ~playing[c] /\ ~stopped[c]
    BY <1>1, <1>2, <1>5
    DEF ListOf, AskedOf, EndsOf, NotPlayed, NotLaunched, Preparing, Loop
  <2>2. PosOf(c)' /\ EndsOf(c)' /\ PlayedOf(c)'
    BY <1>1, <1>3, <1>5, <2>1
    DEF ListOf, PosOf, EndsOf, PlayedOf, OnList, Held, InMovie, Subroutine
  <2>3. AskedOf(c)'
    BY <1>1, <1>2, <1>3, <1>5, <2>1 DEF AskedOf, Untouched, Early
  <2> QED
    BY <2>2, <2>3 DEF ListOf
<1> QED
  <2>1. quit'[c] \in BOOLEAN /\ quit[c] \in BOOLEAN
    BY <1>1, <1>3, Zenon DEF DecoderTypeOK
  <2>2. c = dec => ~quit'[c] \/ quit'[c] = quit[c]
    BY <1>1, <1>3 DEF DecoderTypeOK
  <2> QED
    BY <1>4, <1>5, <2>1, <2>2

LEMMA LaunchList ==
  ASSUME ListInv, LaunchDecoder, NEW c \in Decoders
  PROVE  ListOf(c)'
<1>1. /\ handler = "no" /\ dec \in Decoders /\ DecoderTypeOK /\ ListOf(c)
      /\ main = "launch" /\ UNCHANGED handler
      /\ c \in Nat /\ dec \in Nat
      /\ IF RpcDaemon THEN ToNext("launch") ELSE main' = "load" /\ dec' = dec
  BY UsesDec DEF LaunchDecoder, ToNext, MainUses, MainGoto
<1>2. /\ NotLaunched(c)' => NotLaunched(c) /\ c # dec
      /\ NotPlayed(c)' <=> NotPlayed(c)
      /\ NotLaunched(dec) /\ NotPlayed(dec)
  BY <1>1, DecoderAssumption
  DEF NotLaunched, NotPlayed, Preparing, Loop, ToNext, MainUses, MainGoto, NextOf,
      Decoders
<1>3. /\ UNCHANGED <<ret, playing, stopped, quit, playlist, position, movie, offset>>
      /\ UNCHANGED <<filepos, fd>>
      /\ \/ pc' = [pc EXCEPT ![dec] = "start"]
         \/ pc' = [pc EXCEPT ![dec] = pc[dec]]
  BY DEF LaunchDecoder, Launch, Set, flags, lists, file, seeks
<1>4. CASE c # dec \/ pc'[c] = pc[c]
  <2>1. Untold(c)
    BY <1>1, <1>3, <1>4 DEF DecoderTypeOK, Untold
  <2> QED
    BY <1>1, <1>2, <2>1, UntoldList
<1>5. CASE c = dec /\ pc'[c] = "start"
  <2>1. /\ pc[c] = "none" /\ position[c] = -1 /\ movie[c] = NoFile
        /\ ~playing[c] /\ ~stopped[c]
    BY <1>1, <1>2, <1>5 DEF ListOf, AskedOf, EndsOf
  <2>2. PosOf(c)' /\ EndsOf(c)' /\ PlayedOf(c)'
    BY <1>1, <1>3, <1>5, <2>1
    DEF ListOf, PosOf, EndsOf, PlayedOf, OnList, Held, InMovie, Subroutine
  <2>3. AskedOf(c)'
    BY <1>1, <1>2, <1>3, <1>5, <2>1 DEF AskedOf, Untouched, Early, Leaving
  <2> QED
    BY <2>2, <2>3 DEF ListOf
<1> QED
  BY <1>1, <1>3, <1>4, <1>5 DEF DecoderTypeOK

\* What is added at the end leaves the entries where they are.
LEMMA Appended ==
  ASSUME NEW S, NEW s \in Seq(S), NEW t \in Seq(S)
  PROVE  /\ s \o t \in Seq(S)
         /\ Len(s) \in Nat /\ Len(s \o t) \in Nat /\ Len(s \o t) >= Len(s)
         /\ SubSeq(s \o t, 1, Len(s)) = s
OBVIOUS

\* load() finds the thread before its first movie, or leaving.
LEMMA LoadList ==
  ASSUME ListInv, LoadPlaylist, NEW c \in Decoders
  PROVE  ListOf(c)'
<1>1. /\ handler = "no" /\ dec \in Decoders /\ DecoderTypeOK /\ ListOf(c)
      /\ main = "load" /\ main' = "play" /\ UNCHANGED <<dec, handler>>
      /\ c \in Nat /\ dec \in Nat
  BY UsesDec DEF LoadPlaylist, MainUses, MainGoto
<1>2. /\ NotLaunched(c)' <=> NotLaunched(c)
      /\ NotPlayed(c)' <=> NotPlayed(c)
      /\ NotPlayed(dec)
  BY <1>1 DEF NotLaunched, NotPlayed, Preparing, Loop
<1>3. /\ UNCHANGED <<pc, ret, playing, stopped, quit, position, movie, offset>>
      /\ UNCHANGED <<filepos, fd>>
      /\ playlist' = [playlist EXCEPT ![dec] = playlist[dec] \o Saved[dec]]
  BY DEF LoadPlaylist, AppendAll, PutList, Set, flags, file, seeks
<1>4. CASE c # dec
  <2>1. Untold(c)
    BY <1>1, <1>3, <1>4 DEF DecoderTypeOK, Untold
  <2> QED
    BY <1>1, <1>2, <2>1, UntoldList
<1>5. CASE c = dec
  <2>1. /\ Len(playlist[c]) \in Nat /\ Len(playlist'[c]) \in Nat
        /\ Len(playlist'[c]) >= Len(playlist[c])
    <3>1. playlist[dec] \in Seq(Files) /\ Saved[dec] \in Seq(Files)
      BY <1>1, MainAssumption DEF DecoderTypeOK
    <3>2. playlist'[c] = playlist[c] \o Saved[c]
      BY <1>1, <1>3, <1>5 DEF DecoderTypeOK
    <3> QED
      BY <1>5, <3>1, <3>2, Appended
  <2>2. (~quit[c] /\ Untouched(c)) \/ Leaving(c)
    BY <1>1, <1>2, <1>5 DEF ListOf, AskedOf
  <2>3. PosOf(c)'
    <3>1. position[c] \in Int
      BY <1>1 DEF DecoderTypeOK
    <3>3. position' = position
      BY <1>3
    <3>2. OnList(c) => OnList(c)'
      BY ONLY <2>1, <3>1, <3>3 DEF OnList
    <3> QED
      BY <1>1, <1>3, <2>2, <3>2
      DEF ListOf, PosOf, Held, InMovie, Subroutine, Untouched, Early, Leaving
  <2>4. EndsOf(c)'
    BY <1>1, <1>3 DEF ListOf, EndsOf, InMovie
  <2>5. PlayedOf(c)'
    BY <1>1, <1>3, <2>2 DEF PlayedOf, Untouched, Early, Leaving, Subroutine
  <2>6. AskedOf(c)'
    BY <1>1, <1>2, <1>3, <1>5
    DEF ListOf, AskedOf, Untouched, Early, Leaving
  <2> QED
    BY <2>3, <2>4, <2>5, <2>6 DEF ListOf
<1> QED
  BY <1>4, <1>5

LEMMA PlayList ==
  ASSUME ListInv, PlayDecoder, NEW c \in Decoders
  PROVE  ListOf(c)'
<1>1. /\ handler = "no" /\ dec \in Decoders /\ DecoderTypeOK /\ ListOf(c)
      /\ main = "play" /\ main' = "unstop" /\ UNCHANGED <<dec, handler>>
      /\ c \in Nat /\ dec \in Nat /\ ~RpcDaemon
  BY UsesDec DEF PlayDecoder, MainUses, MainGoto, ListInv, PassOf
<1>2. /\ NotLaunched(c)' <=> NotLaunched(c)
      /\ NotPlayed(c)' <=> NotPlayed(c) /\ c # dec
      /\ NotPlayed(dec)
  BY <1>1 DEF NotLaunched, NotPlayed, Preparing, Loop
<1>3. /\ UNCHANGED <<pc, ret, stopped, quit, playlist, position, movie, offset>>
      /\ UNCHANGED <<filepos, fd>>
      /\ playing' = [playing EXCEPT ![dec] = TRUE]
  BY DEF PlayDecoder, PutPlaying, Set, lists, file, seeks
<1>4. CASE c # dec
  <2>1. Untold(c)
    BY <1>1, <1>3, <1>4 DEF DecoderTypeOK, Untold
  <2> QED
    BY <1>1, <1>2, <1>4, <2>1, UntoldList
<1>5. CASE c = dec
  <2>1. playing'[c]
    BY <1>1, <1>3, <1>5, Zenon DEF DecoderTypeOK
  <2>2. PosOf(c)' /\ EndsOf(c)' /\ PlayedOf(c)'
    BY <1>1, <1>3 DEF ListOf, PosOf, EndsOf, PlayedOf, OnList, Held, InMovie, Played
  <2>3. AskedOf(c)'
    BY <1>1, <1>2, <1>3, <1>5, <2>1
    DEF ListOf, AskedOf, Untouched, Early, Leaving
  <2> QED
    BY <2>2, <2>3 DEF ListOf
<1> QED
  BY <1>4, <1>5

LEMMA UnstopList ==
  ASSUME ListInv, PlayUnstop, NEW c \in Decoders
  PROVE  ListOf(c)'
<1>1. /\ handler = "no" /\ dec \in Decoders /\ DecoderTypeOK /\ ListOf(c)
      /\ main = "unstop" /\ UNCHANGED handler
      /\ c \in Nat /\ dec \in Nat
      /\ dec' = NextOf(dec)
      /\ main' = IF NextOf(dec) = 0 THEN "start" ELSE "setup"
  BY UsesDec DEF PlayUnstop, ToNext, MainUses, MainGoto
<1>2. /\ NotLaunched(c)' <=> NotLaunched(c)
      /\ NotPlayed(c)' <=> NotPlayed(c)
  BY <1>1, DecoderAssumption
  DEF NotLaunched, NotPlayed, Preparing, Loop, NextOf, Decoders
<1>3. /\ UNCHANGED <<pc, ret, playing, quit, playlist, position, movie, offset>>
      /\ UNCHANGED <<filepos, fd>>
      /\ stopped' = [stopped EXCEPT ![dec] = FALSE]
  BY DEF PlayUnstop, PutStopped, Set, lists, file, seeks
<1>4. CASE c # dec
  <2>1. Untold(c)
    BY <1>1, <1>3, <1>4 DEF DecoderTypeOK, Untold
  <2> QED
    BY <1>1, <1>2, <2>1, UntoldList
<1>5. CASE c = dec
  <2>1. ~stopped'[c]
    BY <1>1, <1>3, <1>5, Zenon DEF DecoderTypeOK
  <2>2. PosOf(c)' /\ EndsOf(c)' /\ PlayedOf(c)'
    BY <1>1, <1>3, <2>1
    DEF ListOf, PosOf, EndsOf, PlayedOf, OnList, Held, InMovie, Played
  <2>3. AskedOf(c)'
    BY <1>1, <1>2, <1>3, <2>1
    DEF ListOf, AskedOf, Untouched, Early, Leaving, Played, Idle
  <2> QED
    BY <2>2, <2>3 DEF ListOf
<1> QED
  BY <1>4, <1>5

\* close() empties the list of a thread that is over or leaving.
LEMMA CloseList ==
  ASSUME ListInv, NEW c \in Decoders,
         HandlerClose \/ HandlerDestroy \/ \E d \in Decoders : InsideClose(d)
  PROVE  ListOf(c)'
<1>1. DecoderTypeOK /\ ListOf(c) /\ EndOf(c) /\ position[c] \in Int
  BY DEF ListInv, ExitInv, Inv, TypeOK, DecoderTypeOK
<1>2. CASE HandlerClose \/ HandlerDestroy
  <2>1. /\ UNCHANGED <<pc, ret, stopped, quit, playlist, position, movie, offset>>
        /\ UNCHANGED <<filepos, fd>>
        /\ handler' \in {"close", "delete"}
    BY <1>2 DEF HandlerClose, HandlerDestroy, HandlerGoto, CloseBegin, CloseGoto,
                lists, file, seeks
  <2>2. PosOf(c)' /\ EndsOf(c)' /\ PlayedOf(c)'
    BY <1>1, <2>1
    DEF ListOf, PosOf, EndsOf, PlayedOf, OnList, Held, InMovie, Played
  <2>3. AskedOf(c)'
    BY <2>1 DEF AskedOf, NotLaunched, NotPlayed, Preparing
  <2> QED
    BY <2>2, <2>3 DEF ListOf
<1>3. ASSUME NEW d \in Decoders, InsideClose(d) PROVE ListOf(c)'
  <2>1. /\ CloseStep(d) /\ UNCHANGED handler
        /\ UNCHANGED <<pc, ret, stopped, movie, offset, filepos>>
        /\ closing[d] # "no" /\ EndOf(d)
        /\ CloseQuit(d) => closing[d] = "quit"
    BY <1>3 DEF InsideClose, mainVars, CloseStep, CloseQuit, CloseRunning, CloseJoin,
       CloseDevice, ClosePosition, CloseEmpty, CloseCursor, CloseGoto, ListInv,
       ExitInv, file, seeks
  <2>2. handler \in {"close", "delete"}
    BY <2>1 DEF EndOf
  <2>3. AskedOf(c)'
    BY <2>1, <2>2 DEF AskedOf, NotLaunched, NotPlayed, Preparing
  <2>4. CASE UNCHANGED <<quit, position, playlist, fd>>
    <3>1. PosOf(c)' /\ EndsOf(c)' /\ PlayedOf(c)'
      BY <1>1, <2>1, <2>4
      DEF ListOf, PosOf, EndsOf, PlayedOf, OnList, Held, InMovie, Played
    <3> QED
      BY <2>3, <3>1 DEF ListOf
  <2>5. CASE CloseQuit(d)
    <3>1. /\ UNCHANGED <<position, playlist, fd>>
          /\ quit'[c] = quit[c] \/ quit'[c]
      BY <1>1, <2>5 DEF CloseQuit, Set, DecoderTypeOK, lists
    <3>2. PosOf(c)'
      BY <1>1, <2>1, <3>1 DEF ListOf, PosOf, OnList, Held, InMovie
    <3>3. EndsOf(c)' /\ PlayedOf(c)'
      BY <1>1, <2>1, <3>1 DEF ListOf, EndsOf, PlayedOf, InMovie, Played
    <3> QED
      BY <2>3, <3>2, <3>3 DEF ListOf
  <2>6. CASE CloseDevice(d)
    <3>1. /\ UNCHANGED <<quit, position, playlist>>
          /\ fd'[c] = "none" => fd[c] = "none"
      BY <1>1, <2>6 DEF CloseDevice, Set, DecoderTypeOK, lists
    <3>2. PosOf(c)' /\ PlayedOf(c)'
      BY <1>1, <2>1, <3>1 DEF ListOf, PosOf, PlayedOf, OnList, Held, InMovie, Played
    <3>3. EndsOf(c)'
      BY <1>1, <2>1, <3>1 DEF ListOf, EndsOf, InMovie
    <3> QED
      BY <2>3, <3>2, <3>3 DEF ListOf
  <2>7. CASE ClosePosition(d) \/ CloseEmpty(d) \/ CloseCursor(d)
    <3>1. /\ UNCHANGED <<quit, fd>>
          /\ closing[d] \in {"position", "empty", "cursor"}
          /\ c # d => position'[c] = position[c] /\ playlist'[c] = playlist[c]
          /\ position'[d] = position[d] \/ position'[d] = -1 \/ position'[d] = 1
      BY <1>1, <2>7 DEF ClosePosition, CloseEmpty, CloseCursor, CloseGoto, Set,
                        DecoderTypeOK
    <3>2. Leaving(d)
      BY <2>1, <3>1 DEF EndOf, Closed
    <3>3. CASE c # d
      <4>1. PosOf(c)' /\ EndsOf(c)' /\ PlayedOf(c)'
        BY <1>1, <2>1, <3>1, <3>3
        DEF ListOf, PosOf, EndsOf, PlayedOf, OnList, Held, InMovie, Played
      <4> QED
        BY <2>3, <4>1 DEF ListOf
    <3>4. CASE c = d
      <4>1. PosOf(c)'
        BY <1>1, <2>1, <3>1, <3>2, <3>4
        DEF ListOf, PosOf, Held, InMovie, Leaving, Subroutine
      <4>2. EndsOf(c)' /\ PlayedOf(c)'
        BY <1>1, <2>1, <3>1, <3>2, <3>4
        DEF ListOf, EndsOf, PlayedOf, InMovie, Leaving
      <4> QED
        BY <2>3, <4>1, <4>2 DEF ListOf
    <3> QED
      BY <3>3, <3>4
  <2>8. UNCHANGED <<quit, position, playlist, fd>> \/ CloseQuit(d) \/ CloseDevice(d)
        \/ ClosePosition(d) \/ CloseEmpty(d) \/ CloseCursor(d)
    BY <2>1 DEF CloseStep, CloseRunning, CloseJoin, lists
  <2> QED
    BY <2>4, <2>5, <2>6, <2>7, <2>8
<1> QED
  BY <1>2, <1>3

\* The passes of main().
LEMMA PassStep ==
  ASSUME ListInv, [Next]_vars
  PROVE  PassOf'
<1> USE DecoderAssumption, MainAssumption
<1>1. /\ first \in 1..(N + 1) /\ dec \in 0..N /\ still_running \in 0..N
      /\ playing \in [Decoders -> BOOLEAN] /\ PassOf /\ main \in MainLabels
  BY DEF ListInv, ExitInv, Inv, TypeOK, DecoderTypeOK
<1> USE DEF Decoders, PassOf, Loop
<1>2. ASSUME UNCHANGED <<main, dec, still_running, handler, first>>,
             \A d \in Decoders : ~playing[d] => ~playing'[d]
      PROVE  PassOf'
  BY <1>1, <1>2
<1>3. ASSUME NEW d \in Decoders, Run(d) PROVE PassOf'
  <2>1. /\ UNCHANGED <<main, dec, still_running, handler, first>>
        /\ Thread(d) /\ DecoderTypeOK /\ ChannelInv(d) /\ PosOf(d) /\ EndsOf(d)
    BY <1>3 DEF Run, mainVars, ListInv, ExitInv, Inv, TypeOK, ListOf
  <2>2. \A c \in Decoders : ~playing[c] => ~playing'[c]
    BY <2>1, ThreadOthers, ThreadAsked
  <2> QED
    BY <1>2, <2>1, <2>2
<1>4. CASE LaunchUdp \/ SetupDecoder \/ LoadPlaylist \/ Start \/ PlayDecoder
  BY <1>1, <1>4 DEF LaunchUdp, SetupDecoder, LoadPlaylist, Start, PlayDecoder,
     MainUses, MainGoto, FirstDecoder
<1>5. CASE LaunchDecoder \/ PlayUnstop
  BY <1>1, <1>5 DEF LaunchDecoder, PlayUnstop, ToNext, MainUses, MainGoto, NextOf
<1>6. CASE Started \/ CountNone \/ Dangling
  <2>1. CASE Started
    BY <1>1, <2>1 DEF Started, MainGoto
  <2>2. CASE CountNone \/ Dangling
    BY <1>1, <2>2 DEF CountNone, Dangling, MainGoto, Interrupted
  <2> QED
    BY <1>6, <2>1, <2>2
<1>7. CASE Scan
  BY <1>1, <1>7 DEF Scan, MainGoto, FirstDecoder, decoderVars, flags
<1>8. CASE Count
  <2>1. /\ dec >= first /\ main = "count" /\ UNCHANGED <<handler, first, playing>>
        /\ dec' = dec /\ main' = "sleep"
        /\ playing[dec] => still_running' = still_running + 1
        /\ ~playing[dec] => still_running' = still_running
    <3>1. still_running' = still_running + (IF playing[dec] THEN 1 ELSE 0)
      BY <1>8 DEF Count
    <3>2. still_running + 0 = still_running
      BY <1>1
    <3>3. playing[dec] => still_running' = still_running + 1
      BY <3>1
    <3>4. ~playing[dec] => still_running' = still_running
      BY <3>1, <3>2
    <3> QED
      BY <1>8, <3>3, <3>4 DEF Count, MainGoto, decoderVars, flags
  <2>2. still_running' = 0 => still_running = 0 /\ ~playing[dec]
    BY <1>1, <2>1
  <2> QED
    BY <1>1, <2>1, <2>2
<1>12. CASE CountNext
  BY <1>1, <1>12 DEF CountNext, NextOf, MainGoto, decoderVars, flags
<1>9. CASE Signal \/ HandlerClose \/ HandlerDestroy \/ HandlerDeleted \/ HandlerReturn
  BY <1>1, <1>9 DEF Signal, HandlerClose, HandlerDestroy, HandlerDeleted,
     HandlerReturn, HandlerGoto, FirstDecoder
<1>10. ASSUME NEW d \in Decoders, InsideClose(d) PROVE PassOf'
  <2>1. handler \in {"close", "delete"} /\ UNCHANGED <<handler, main, first>>
    BY <1>10 DEF InsideClose, mainVars, CloseStep, CloseQuit, CloseRunning,
       CloseJoin, CloseDevice, ClosePosition, CloseEmpty, CloseCursor, CloseGoto,
       ListInv, ExitInv, EndOf
  <2> QED
    BY <1>1, <2>1
<1>11. CASE Datagram \/ UNCHANGED vars
  BY <1>2, <1>11 DEF Datagram, vars, mainVars, decoderVars, flags
<1> QED
  BY <1>3, <1>4, <1>5, <1>6, <1>7, <1>8, <1>9, <1>10, <1>11,
     <1>12
  DEF Next, Ended, MainThread

LEMMA ListInit == Init => ListInv
<1>1. ASSUME Init, NEW d \in Decoders PROVE ListOf(d)
  <2>1. /\ pc[d] = "none" /\ position[d] = -1 /\ movie[d] = NoFile /\ ~stopped[d]
        /\ quit[d] /\ ~playing[d] /\ (fd[d] = "none" => Dummy)
    BY <1>1 DEF Init, DecoderInit
  <2>2. PosOf(d) /\ EndsOf(d) /\ PlayedOf(d)
    BY <2>1 DEF PosOf, EndsOf, PlayedOf, Held, InMovie, Subroutine
  <2>3. NotPlayed(d)
    BY <1>1 DEF Init, NotPlayed, Preparing
  <2>4. AskedOf(d)
    BY <2>1, <2>3 DEF AskedOf, Untouched, Early, Leaving
  <2> QED
    BY <2>2, <2>4 DEF ListOf
<1>2. Init => PassOf
  BY DEF Init, PassOf, Loop
<1> QED
  BY <1>1, <1>2, ExitInit DEF ListInv

LEMMA ListStep == ListInv /\ [Next]_vars => ListInv'
<1> SUFFICES ASSUME ListInv, [Next]_vars PROVE ListInv'
  OBVIOUS
<1>1. ExitInv' /\ PassOf'
  BY ExitStep, PassStep DEF ListInv
<1>2. ASSUME NEW c \in Decoders PROVE ListOf(c)'
  <2>1. ASSUME NEW d \in Decoders, Run(d) PROVE ListOf(c)'
    BY <2>1, RunList
  <2>2. CASE MainThread
    BY <2>2, QuietList, SetupList, LaunchList, LoadList, PlayList, UnstopList,
       CloseList DEF MainThread
  <2>3. CASE Signal \/ Datagram \/ UNCHANGED vars
    BY <2>3, QuietList
  <2> QED
    BY <2>1, <2>2, <2>3 DEF Next, Ended
<1> QED
  BY <1>1, <1>2 DEF ListInv

LEMMA ListCorrect == Spec => []ListInv
BY ListInit, ListStep, PTL DEF Spec

(***************************************************************************)
(* What it gives.                                                          *)
(***************************************************************************)
\* In every play mode and wherever main() and the handler are with the
\* channel, a thread that picks an entry from a list that is not empty finds
\* one: update() never leaves the cursor off the list (decoder.cpp:137-182).
THEOREM PickCorrect == Spec => []PickFindsEntry
<1>1. ASSUME ListInv, NEW d \in Decoders, pc[d] = "pick", playlist[d] # <<>>
      PROVE  Entry(d, position[d]) # NoFile
  <2>1. /\ playlist[d] \in Seq(Files) /\ position[d] \in Int /\ OnList(d)
    BY <1>1 DEF ListInv, ExitInv, Inv, TypeOK, DecoderTypeOK, ListOf, PosOf
  <2>2. position[d] \in 1..Len(playlist[d])
    BY <1>1, <2>1 DEF OnList
  <2> QED
    BY <2>1, <2>2, DecoderAssumption DEF Entry
<1>2. ListInv => PickFindsEntry
  BY <1>1 DEF PickFindsEntry
<1> QED
  BY <1>2, ListCorrect, PTL

\* "run until all the channels are at the end": when main() has counted no
\* channel that plays, in any play mode and with or without the UDP start, each
\* has sent its first movie but for the bytes of a last partial buffer, and is
\* in no movie (cmdline.cpp:436-452).
THEOREM CompleteCorrect == Spec => []CompleteAtExit
<1>1. ASSUME ListInv, main = "exited", handler = "no", NEW d \in Decoders
      PROVE  Played(d) /\ Idle(d)
  BY <1>1 DEF ListInv, PassOf, ListOf, AskedOf, NotPlayed, Preparing, Loop
<1>2. ListInv => CompleteAtExit
  BY <1>1 DEF CompleteAtExit, Played, Idle, InMovie, Subroutine
<1> QED
  BY <1>2, ListCorrect, PTL

(***************************************************************************)
(* The program implements SyncPlayback: every step of main(), of the       *)
(* signal handler, of the UDP thread and of the channels is a step of the  *)
(* promise or changes nothing it speaks of.                                *)
(*                                                                         *)
(* The proof has three parts: what more is needed about mode SINGLE, what  *)
(* each step does to one channel as the promise sees it, and how a change  *)
(* of one channel becomes a step of the promise.                           *)
(***************************************************************************)

(***************************************************************************)
(* Mode SINGLE.  play() sets "playing" and then clears "stopped": a thread *)
(* that has left its movie in between, which it stops after, forgets that  *)
(* it did and opens the movie again.  It cannot get that far when nothing  *)
(* lets it out of its first buffer before the common start: the movie      *)
(* opens and fills a buffer, and only main() starts the channels.          *)
(***************************************************************************)
Whole == {f \in Files \ Missing : Size[f] >= BufSize}

OnlyWhole ==
  \A d \in Decoders : PlayMode[d] = "SINGLE" =>
    ~Udp /\ Given[d] \in Seq(Whole) /\ Saved[d] \in Seq(Whole)

\* The thread is before the start, with nothing read or its first buffer.
FirstBuffer(d) ==
  \/ pc[d] \in {"open", "sync"}
  \/ pc[d] \in {"size", "rewind", "inner", "pausewait", "read"} /\ offset[d] = 0

\* It plays its one movie, or is on its way to stop after it.
Stopping(d) ==
  \/ InMovie(d)
  \/ pc[d] \in {"top", "update", "unplay"}
  \/ pc[d] \in {"check", "unstop"} /\ stopped[d]
  \/ pc[d] = "wait" /\ ~playing[d]

OnceOf(d) ==
  /\ ~quit[d] /\ position[d] = -1 => movie[d] = NoFile
  /\ PlayMode[d] = "SINGLE" =>
       /\ playlist[d] \in Seq(Whole)
       /\ ~quit[d] /\ movie[d] # NoFile =>
            /\ movie[d] \in Whole
            /\ FirstBuffer(d) \/ (~Pending(d) /\ Stopping(d))

\* Without UDP main() gives the start, when it has been through all channels.
StartOnce ==
  ~Udp => /\ udpsrv = "none"
          /\ syncstart => main \notin Loop \cup {"udp", "start"}

SyncInv == ListInv /\ StartOnce /\ \A d \in Decoders : OnceOf(d)

\* What a step of its thread does to a channel that has not passed the start
\* with its first buffer, to one that has, and to one without a movie.
LEMMA ThreadOnce ==
  ASSUME NEW d \in Decoders, DecoderTypeOK, ChannelInv(d), PosOf(d), EndsOf(d),
         Thread(d)
  PROVE  /\ ~quit[d] /\ (position[d] = -1 => movie[d] = NoFile)
              => (position'[d] = -1 => movie'[d] = NoFile)
         /\ ~quit[d] /\ movie[d] = NoFile /\ movie'[d] # NoFile
              => pc'[d] = "open" /\ movie'[d] = playlist[d][position[d]]
                 /\ position[d] \in 1..Len(playlist[d])
         /\ PlayMode[d] = "SINGLE" /\ ~quit[d] /\ movie[d] \in Whole
              /\ (position[d] = -1 => movie[d] = NoFile)
              => /\ FirstBuffer(d) =>
                      /\ movie'[d] = movie[d]
                      /\ FirstBuffer(d)' \/ (syncstart /\ InMovie(d)')
                 /\ Stopping(d) => movie'[d] = movie[d] /\ Stopping(d)'
<1> USE DecoderAssumption
        DEF DecoderTypeOK, Goto, Jump, LoopTest, Still, Set, flags, lists,
        file, seeks, lifecycle, Whole, FirstBuffer,
        Stopping, InMovie, Subroutine, EndsOf
<1>1. CASE Begin(d)
  BY <1>1 DEF Begin
<1>2. CASE Top(d)
  BY <1>2 DEF Top, PosOf, OnList
<1>3. CASE UpdateFirst(d)
  BY <1>3 DEF UpdateFirst, PosOf
<1>4. CASE UpdatePlay(d) \/ UpdateCont(d)
  BY <1>4 DEF UpdatePlay, UpdateCont
<1>5. CASE UpdateSame(d)
  BY <1>5 DEF UpdateSame
<1>6. CASE UpdateSingle(d)
  BY <1>6 DEF UpdateSingle
<1>7. CASE UpdateWrap(d)
  BY <1>7 DEF UpdateWrap
<1>8. CASE CursorFirst(d)
  BY <1>8 DEF CursorFirst, PosOf
<1>9. CASE CursorAdvance(d)
  BY <1>9 DEF CursorAdvance, PosOf, OnList
<1>10. CASE Check(d)
  BY <1>10 DEF Check, PosOf, OnList
<1>11. CASE Unstop(d)
  BY <1>11 DEF Unstop
<1>12. CASE Unplay(d)
  BY <1>12 DEF Unplay
<1>13. CASE Wake(d)
  BY <1>13 DEF Wake
<1>14. CASE Pick(d)
  BY <1>14 DEF Pick, PosOf, OnList, Entry
<1>15. CASE Open(d)
  BY <1>15 DEF Open
<1>16. CASE Measure(d)
  BY <1>16 DEF Measure, ChannelInv, CountOf
<1>17. CASE Rewind(d)
  BY <1>17 DEF Rewind, ChannelInv, CountOf
<1>18. CASE Inner(d)
  BY <1>18 DEF Inner
<1>19. CASE Read(d)
  BY <1>19 DEF Read, Readable, ChannelInv, ControlOf, CountOf
<1>20. CASE Sync(d)
  BY <1>20 DEF Sync
<1>21. CASE Again(d)
  BY <1>21 DEF Again
<1>22. CASE Write(d)
  BY <1>22 DEF Write
<1>23. CASE FlushReady(d)
  BY <1>23 DEF FlushReady, Flushed, Returns
<1>24. CASE FlushQuit(d)
  BY <1>24 DEF FlushQuit, Flushed, Returns
<1>25. CASE Seek(d) \/ Seeked(d)
  BY <1>25 DEF Seek, Seeked, ChannelInv, CountOf
<1>26. CASE Clear(d)
  BY <1>26 DEF Clear, ChannelInv, ControlOf
<1>27. CASE Reopen(d)
  BY <1>27 DEF Reopen, ChannelInv, ControlOf
<1>28. CASE CloseMovie(d)
  BY <1>28 DEF CloseMovie
<1> QED
  BY <1>1, <1>2, <1>3, <1>4, <1>5, <1>6, <1>7, <1>8, <1>9, <1>10, <1>11, <1>12,
     <1>13, <1>14, <1>15, <1>16, <1>17, <1>18, <1>19, <1>20, <1>21, <1>22,
     <1>23, <1>24, <1>25, <1>26, <1>27, <1>28
  DEF Thread, Update

LEMMA RunOnce ==
  ASSUME OnlyWhole, NEW d \in Decoders, SyncInv, Run(d), NEW c \in Decoders
  PROVE  OnceOf(c)'
<1>1. /\ DecoderTypeOK /\ ChannelInv(d) /\ Thread(d) /\ PosOf(d) /\ EndsOf(d)
      /\ OnceOf(d) /\ OnceOf(c) /\ UNCHANGED <<main, dec, handler>>
      /\ PlayMode[d] = "SINGLE" /\ syncstart => ~Pending(d)
  BY DEF SyncInv, ListInv, ExitInv, Inv, TypeOK, Run, mainVars, ListOf, OnlyWhole,
         StartOnce, Pending, Preparing, Loop
<1>2. /\ UNCHANGED <<quit, playlist>>
      /\ Pending(c)' <=> Pending(c)
      /\ Pending(d)' <=> Pending(d)
  BY <1>1, ThreadFrame DEF Pending, Preparing
<1>3. CASE c # d
  <2>1. /\ pc'[c] = pc[c] /\ ret'[c] = ret[c] /\ playing'[c] = playing[c]
        /\ stopped'[c] = stopped[c] /\ position'[c] = position[c]
        /\ movie'[c] = movie[c] /\ offset'[c] = offset[c]
    BY <1>1, <1>3, ThreadOthers
  <2> QED
    BY <1>1, <1>2, <2>1 DEF OnceOf, FirstBuffer, Stopping, InMovie
<1>4. CASE c = d
  <2>1. ~quit'[d] /\ position'[d] = -1 => movie'[d] = NoFile
    BY <1>1, <1>2, ThreadOnce DEF OnceOf
  <2>2. ASSUME PlayMode[d] = "SINGLE", ~quit[d], movie'[d] # NoFile
        PROVE  /\ movie'[d] \in Whole
               /\ FirstBuffer(d)' \/ (~Pending(d)' /\ Stopping(d)')
    <3>1. CASE movie[d] = NoFile
      BY <1>1, <2>2, <3>1, ThreadOnce DEF OnceOf, FirstBuffer
    <3>2. CASE movie[d] # NoFile
      <4>1. movie[d] \in Whole /\ (FirstBuffer(d) \/ (~Pending(d) /\ Stopping(d)))
        BY <1>1, <2>2, <3>2 DEF OnceOf
      <4>2. CASE FirstBuffer(d)
        <5>1. /\ movie'[d] = movie[d]
              /\ FirstBuffer(d)' \/ (syncstart /\ InMovie(d)')
          BY <1>1, <2>2, <4>1, <4>2, ThreadOnce DEF OnceOf
        <5> QED
          BY <1>1, <1>2, <2>2, <4>1, <5>1 DEF Stopping
      <4>3. CASE ~Pending(d) /\ Stopping(d)
        BY <1>1, <1>2, <1>4, <2>2, <4>1, <4>3, ThreadOnce DEF OnceOf
      <4> QED
        BY <4>1, <4>2, <4>3
    <3> QED
      BY <3>1, <3>2
  <2> QED
    BY <1>1, <1>2, <1>4, <2>1, <2>2 DEF OnceOf
<1> QED
  BY <1>3, <1>4

LEMMA UntoldOnce ==
  ASSUME NEW c \in Decoders, OnceOf(c), Untold(c), Pending(c)' => Pending(c)
  PROVE  OnceOf(c)'
BY DEF Untold, OnceOf, FirstBuffer, Stopping, InMovie

LEMMA QuietOnce ==
  ASSUME SyncInv, NEW c \in Decoders,
         \/ LaunchUdp \/ Start \/ Started \/ Scan \/ Count \/ CountNext \/ CountNone
         \/ Dangling \/ Signal \/ Datagram \/ HandlerDeleted \/ HandlerReturn
         \/ UNCHANGED vars
  PROVE  OnceOf(c)'
<1>1. /\ UNCHANGED <<pc, ret, flags, lists, movie, file, seeks, fd>>
      /\ handler' = "no" => handler = "no"
  BY DEF LaunchUdp, Start, Started, Scan, Count, CountNext, CountNone, Dangling, Signal,
         Datagram, HandlerDeleted, HandlerReturn, MainGoto, HandlerGoto,
         decoderVars, vars, mainVars
<1>2. /\ first \in 1..(N + 1) /\ dec \in 0..N /\ OnceOf(c)
  BY DEF SyncInv, ListInv, ExitInv, Inv, TypeOK
<1>3. Pending(c)' => Pending(c)
  <2> USE DecoderAssumption DEF MainGoto, Pending, Preparing, Loop, Decoders
  <2>1. CASE LaunchUdp
    BY <1>1, <1>2, <2>1 DEF LaunchUdp
  <2>2. CASE Start \/ Started \/ Scan \/ Count \/ CountNext \/ CountNone \/ Dangling
    BY <1>1, <1>2, <2>2 DEF Start, Started, Scan, Count, CountNext, CountNone, Dangling
  <2>3. CASE Signal \/ Datagram \/ HandlerDeleted \/ HandlerReturn \/ UNCHANGED vars
    BY <2>3 DEF Signal, Datagram, HandlerDeleted, HandlerReturn, HandlerGoto,
                vars, mainVars
  <2> QED
    BY <2>1, <2>2, <2>3
<1>4. Untold(c)
  BY <1>1 DEF Untold, flags, lists, file, seeks
<1> QED
  BY <1>2, <1>3, <1>4, UntoldOnce

LEMMA PrepareOnce ==
  ASSUME SyncInv, SetupDecoder \/ LaunchDecoder, NEW c \in Decoders
  PROVE  OnceOf(c)'
<1>1. /\ handler = "no" /\ dec \in Decoders /\ DecoderTypeOK /\ ListOf(c)
      /\ main = "setup" \/ main = "launch"
      /\ c \in Nat /\ dec \in Nat /\ OnceOf(c)
  BY UsesDec DEF SetupDecoder, LaunchDecoder, ToNext, MainUses, MainGoto, SyncInv
<1>2. c = dec => movie[c] = NoFile
  BY <1>1 DEF ListOf, AskedOf, NotLaunched, Preparing, Loop
<1>3. Pending(c)' => Pending(c)
  BY <1>1, DecoderAssumption
  DEF SetupDecoder, LaunchDecoder, ToNext, MainUses, MainGoto, NextOf, Pending,
      Preparing, Loop, Decoders
<1>4. /\ UNCHANGED <<ret, playing, stopped, playlist, position, movie, offset>>
      /\ UNCHANGED <<filepos, fd>>
      /\ c # dec => pc'[c] = pc[c] /\ quit'[c] = quit[c]
  BY <1>1 DEF SetupDecoder, LaunchDecoder, Setup, Launch, Set, flags, lists, file,
              seeks, DecoderTypeOK
<1>5. CASE c # dec
  BY <1>1, <1>3, <1>4, <1>5, UntoldOnce DEF Untold
<1>6. CASE c = dec
  BY <1>1, <1>2, <1>4, <1>6 DEF OnceOf
<1> QED
  BY <1>5, <1>6

\* play() and load(): the channel is still pending.
LEMMA PlayOnce ==
  ASSUME OnlyWhole, SyncInv, LoadPlaylist \/ PlayDecoder \/ PlayUnstop,
         NEW c \in Decoders
  PROVE  OnceOf(c)'
<1>1. /\ handler = "no" /\ dec \in Decoders /\ DecoderTypeOK
      /\ main = "load" \/ main = "play" \/ main = "unstop"
      /\ c \in Nat /\ dec \in Nat /\ OnceOf(c)
  BY UsesDec DEF LoadPlaylist, PlayDecoder, PlayUnstop, ToNext, MainUses,
                 MainGoto, SyncInv
<1>2. Pending(dec) /\ (Pending(c)' => Pending(c))
  <2> USE DEF MainUses, MainGoto, Pending, Preparing, Loop
  <2>1. Pending(dec)
    BY <1>1
  <2>2. CASE LoadPlaylist \/ PlayDecoder
    BY <1>1, <2>1, <2>2 DEF LoadPlaylist, PlayDecoder
  <2>3. CASE PlayUnstop
    BY <1>1, <2>1, <2>3, DecoderAssumption DEF PlayUnstop, ToNext, NextOf, Decoders
  <2> QED
    BY <2>2, <2>3
<1>3. /\ UNCHANGED <<pc, ret, quit, position, movie, offset, filepos, fd>>
      /\ playlist' = playlist \/ playlist' = [playlist EXCEPT ![dec] = playlist[dec] \o Saved[dec]]
      /\ c # dec => /\ playing'[c] = playing[c] /\ stopped'[c] = stopped[c]
                    /\ playlist'[c] = playlist[c]
  BY <1>1 DEF LoadPlaylist, PlayDecoder, PlayUnstop, AppendAll, PutList, PutPlaying,
              PutStopped, Set, flags, lists, file, seeks, DecoderTypeOK
<1>4. CASE c # dec
  BY <1>1, <1>2, <1>3, <1>4, UntoldOnce DEF Untold
<1>5. CASE c = dec
  <2>1. PlayMode[c] = "SINGLE" => playlist'[c] \in Seq(Whole)
    <3>1. CASE playlist' = playlist
      BY <1>1, <3>1 DEF OnceOf
    <3>2. CASE playlist' = [playlist EXCEPT ![dec] = playlist[dec] \o Saved[dec]]
      <4>1. playlist'[c] = playlist[c] \o Saved[c]
        BY <1>1, <1>5, <3>2 DEF DecoderTypeOK
      <4> QED
        BY <1>1, <4>1, Appended DEF OnceOf, OnlyWhole
    <3> QED
      BY <1>3, <3>1, <3>2
  <2> QED
    BY <1>1, <1>2, <1>3, <1>5, <2>1 DEF OnceOf, FirstBuffer
<1> QED
  BY <1>4, <1>5

LEMMA CloseOnce ==
  ASSUME SyncInv, NEW c \in Decoders,
         HandlerClose \/ HandlerDestroy \/ \E d \in Decoders : InsideClose(d)
  PROVE  OnceOf(c)'
<1>1. DecoderTypeOK /\ OnceOf(c) /\ EndOf(c)
  BY DEF SyncInv, ListInv, ExitInv, Inv, TypeOK
<1>2. CASE HandlerClose \/ HandlerDestroy
  <2>1. /\ UNCHANGED <<pc, ret, stopped, quit, playlist, position, movie, offset>>
        /\ playing'[c] => playing[c]
        /\ handler' = "close" \/ handler' = "delete"
    BY <1>1, <1>2 DEF HandlerClose, HandlerDestroy, HandlerGoto, CloseBegin,
       CloseGoto, Set, DecoderTypeOK, lists, file
  <2>2. ~Pending(c)'
    BY <2>1 DEF Pending, Preparing
  <2> QED
    BY <1>1, <2>1, <2>2 DEF OnceOf, FirstBuffer, Stopping, InMovie
<1>3. ASSUME NEW d \in Decoders, InsideClose(d) PROVE OnceOf(c)'
  <2>1. /\ CloseStep(d) /\ UNCHANGED handler /\ EndOf(d)
        /\ UNCHANGED <<pc, ret, stopped, movie, offset, playing>>
        /\ closing[d] # "no"
    BY <1>3 DEF InsideClose, mainVars, CloseStep, CloseQuit, CloseRunning, CloseJoin,
       CloseDevice, ClosePosition, CloseEmpty, CloseCursor, CloseGoto, SyncInv,
       ListInv, ExitInv, file
  <2>2. ~Pending(c) /\ ~Pending(c)'
    BY <2>1 DEF EndOf, Pending, Preparing
  <2>3. CASE UNCHANGED <<position, playlist>> /\ (quit[c] => quit'[c])
    BY <1>1, <2>1, <2>2, <2>3 DEF OnceOf, FirstBuffer, Stopping, InMovie
  <2>4. CASE ClosePosition(d) \/ CloseEmpty(d) \/ CloseCursor(d)
    <3>1. /\ UNCHANGED quit
          /\ closing[d] \in {"position", "empty", "cursor"}
          /\ c # d => position'[c] = position[c]
          /\ playlist'[c] = playlist[c] \/ playlist'[c] = <<>>
      BY <1>1, <2>4 DEF ClosePosition, CloseEmpty, CloseCursor, CloseGoto, Set,
                        DecoderTypeOK
    <3>2. c = d => quit'[c]
      BY <2>1, <3>1 DEF EndOf
    <3>3. <<>> \in Seq(Whole)
      OBVIOUS
    <3> QED
      BY <1>1, <2>1, <2>2, <3>1, <3>2, <3>3
      DEF OnceOf, FirstBuffer, Stopping, InMovie
  <2>5. \/ UNCHANGED <<position, playlist>> /\ (quit[c] => quit'[c])
        \/ ClosePosition(d) \/ CloseEmpty(d) \/ CloseCursor(d)
    BY <1>1, <2>1 DEF CloseStep, CloseQuit, CloseRunning, CloseJoin, CloseDevice,
                      Set, DecoderTypeOK, lists
  <2> QED
    BY <2>3, <2>4, <2>5
<1> QED
  BY <1>2, <1>3

LEMMA StartOnceStep ==
  ASSUME SyncInv, [Next]_vars
  PROVE  StartOnce'
<1> USE DEF StartOnce, Loop
<1>1. StartOnce /\ main \in MainLabels
  BY DEF SyncInv, ListInv, ExitInv, Inv, TypeOK
<1>2. ASSUME NEW d \in Decoders, Run(d) PROVE StartOnce'
  BY <1>1, <1>2, ThreadFrame DEF Run, mainVars
<1>3. CASE Start \/ Datagram \/ UNCHANGED vars
  BY <1>1, <1>3 DEF Start, Datagram, MainGoto, vars, mainVars, decoderVars
<1>4. CASE MainThread \/ Signal
  <2>1. CASE \/ LaunchUdp \/ Started \/ Scan \/ Count \/ CountNext \/ CountNone \/ Dangling
    BY <1>1, <2>1 DEF LaunchUdp, Started, Scan, Count, CountNext, CountNone, Dangling,
       MainGoto, decoderVars
  <2>2. CASE SetupDecoder \/ LaunchDecoder \/ LoadPlaylist \/ PlayDecoder \/ PlayUnstop
    BY <1>1, <2>2 DEF SetupDecoder, LaunchDecoder, LoadPlaylist, PlayDecoder,
       PlayUnstop, ToNext, MainUses, MainGoto, Setup, Launch, AppendAll, PutList,
       PutPlaying, PutStopped
  <2>3. CASE \/ Signal \/ HandlerClose \/ HandlerDestroy \/ HandlerDeleted
             \/ HandlerReturn
    BY <1>1, <2>3 DEF Signal, HandlerClose, HandlerDestroy, HandlerDeleted,
       HandlerReturn, HandlerGoto, CloseBegin, CloseGoto, decoderVars
  <2>4. ASSUME NEW d \in Decoders, InsideClose(d) PROVE StartOnce'
    BY <1>1, <2>4 DEF InsideClose, mainVars, CloseStep, CloseQuit, CloseRunning,
       CloseJoin, CloseDevice, ClosePosition, CloseEmpty, CloseCursor, CloseGoto
  <2> QED
    BY <1>3, <1>4, <2>1, <2>2, <2>3, <2>4 DEF MainThread
<1> QED
  BY <1>2, <1>3, <1>4 DEF Next, Ended

LEMMA SyncInit == ASSUME OnlyWhole PROVE Init => SyncInv
<1>1. ASSUME Init, NEW d \in Decoders PROVE OnceOf(d)
  BY <1>1 DEF OnlyWhole, Init, DecoderInit, OnceOf
<1>2. Init => StartOnce
  BY DEF Init, DecoderInit, StartOnce
<1> QED
  BY <1>1, <1>2, ListInit DEF SyncInv

LEMMA SyncStep == ASSUME OnlyWhole PROVE SyncInv /\ [Next]_vars => SyncInv'
<1> SUFFICES ASSUME SyncInv, [Next]_vars PROVE SyncInv'
  OBVIOUS
<1>1. ListInv' /\ StartOnce'
  BY ListStep, StartOnceStep DEF SyncInv
<1>2. ASSUME NEW c \in Decoders PROVE OnceOf(c)'
  <2>1. ASSUME NEW d \in Decoders, Run(d) PROVE OnceOf(c)'
    BY <2>1, RunOnce
  <2>2. CASE MainThread
    BY <2>2, QuietOnce, PrepareOnce, PlayOnce, CloseOnce DEF MainThread
  <2>3. CASE Signal \/ Datagram \/ UNCHANGED vars
    BY <2>3, QuietOnce
  <2> QED
    BY <2>1, <2>2, <2>3 DEF Next, Ended
<1> QED
  BY <1>1, <1>2 DEF SyncInv

(***************************************************************************)
(* A channel as the promise sees it, and what can happen to it.            *)
(***************************************************************************)
Sent(d) == IF State(d) = "gone" THEN 0 ELSE filepos[d]

Same(d)   == State(d)' = State(d) /\ Cursor(d)' = Cursor(d) /\ Sent(d)' = Sent(d)
Turns(d)  ==
  /\ \/ State(d) = "new" /\ Cursor(d)' = 1
     \/ /\ State(d) = "over" /\ PlayMode[d] # "SINGLE"
        /\ Cursor(d)' = Playback!Follow(PlayMode[d], Cursor(d), Len(playlist[d]))
  /\ State(d)' = "turned" /\ Sent(d)' = Sent(d)
Begins(d) ==
  /\ State(d) = "turned" /\ Cursor(d) \in 1..Len(playlist[d])
  /\ State(d)' = "playing" /\ Cursor(d)' = Cursor(d) /\ Sent(d)' = 0
Skips(d)  ==
  /\ State(d) = "turned"
  /\ State(d)' = "over" /\ Cursor(d)' = Cursor(d) /\ Sent(d)' = Sent(d)
Sends(d)  ==
  /\ syncstart /\ State(d) = "playing"
  /\ \E n \in 1..(Size[playlist[d][Cursor(d)]] - Sent(d)) : Sent(d)' = Sent(d) + n
  /\ State(d)' = State(d) /\ Cursor(d)' = Cursor(d)
Finishes(d) ==
  /\ State(d) = "playing" /\ Size[playlist[d][Cursor(d)]] - Sent(d) < BufSize
  /\ State(d)' = "over" /\ Cursor(d)' = Cursor(d) /\ Sent(d)' = Sent(d)
Leaves(d) ==
  quit'[d] /\ State(d)' = "gone" /\ Cursor(d)' = -1 /\ Sent(d)' = 0

ViewStep(d) ==
  \/ Same(d) \/ Turns(d) \/ Begins(d) \/ Skips(d) \/ Sends(d) \/ Finishes(d)
  \/ Leaves(d)

\* A thread told to quit that has nothing more to send stays silent.
LEMMA GoneStays ==
  ASSUME NEW d \in Decoders, DecoderTypeOK, ChannelInv(d), Thread(d),
         quit[d], ~Sending(d)
  PROVE  ~Sending(d)' /\ pc[d] # "none" /\ pc'[d] # "none"
<1> USE DecoderAssumption
        DEF DecoderTypeOK, Goto, Jump, LoopTest, Still, Set, flags, lists,
        file, seeks, lifecycle, Sending
<1>1. CASE Begin(d)
  BY <1>1 DEF Begin
<1>2. CASE Top(d)
  BY <1>2 DEF Top
<1>3. CASE UpdateFirst(d) \/ UpdatePlay(d) \/ UpdateCont(d)
  BY <1>3 DEF UpdateFirst, UpdatePlay, UpdateCont
<1>4. CASE UpdateSame(d) \/ UpdateSingle(d) \/ UpdateWrap(d)
  BY <1>4 DEF UpdateSame, UpdateSingle, UpdateWrap
<1>5. CASE CursorFirst(d) \/ CursorAdvance(d)
  BY <1>5 DEF CursorFirst, CursorAdvance
<1>6. CASE Check(d) \/ Unstop(d)
  BY <1>6 DEF Check, Unstop
<1>7. CASE Unplay(d)
  BY <1>7 DEF Unplay
<1>8. CASE Wake(d)
  BY <1>8 DEF Wake
<1>9. CASE Pick(d) \/ Open(d)
  BY <1>9 DEF Pick, Open
<1>10. CASE Measure(d) \/ Rewind(d)
  BY <1>10 DEF Measure, Rewind
<1>11. CASE Inner(d)
  BY <1>11 DEF Inner
<1>12. CASE Read(d) \/ Sync(d)
  BY <1>12 DEF Read, Sync
<1>13. CASE Again(d) \/ Write(d)
  BY <1>13 DEF Again, Write
<1>14. CASE FlushReady(d) \/ FlushQuit(d)
  BY <1>14 DEF FlushReady, FlushQuit, Flushed, Returns
<1>15. CASE Seek(d) \/ Seeked(d)
  BY <1>15 DEF Seek, Seeked, ChannelInv, CountOf
<1>16. CASE Clear(d) \/ Reopen(d)
  BY <1>16 DEF Clear, Reopen, ChannelInv, ControlOf
<1>17. CASE CloseMovie(d)
  BY <1>17 DEF CloseMovie
<1> QED
  BY <1>1, <1>2, <1>3, <1>4, <1>5, <1>6, <1>7, <1>8, <1>9, <1>10, <1>11, <1>12,
     <1>13, <1>14, <1>15, <1>16, <1>17
  DEF Thread, Update

\* What is written of a buffer is part of the movie under the cursor.
LEMMA WriteView ==
  ASSUME NEW d \in Decoders, DecoderTypeOK, ChannelInv(d), PosOf(d), EndsOf(d),
         Write(d)
  PROVE  Sends(d)
<1> USE DEF DecoderTypeOK, Goto, Set, flags, lists, file
<1>1. PICK n \in 1..writing[d] : filepos' = [filepos EXCEPT ![d] = filepos[d] + n]
  BY DEF Write
<1>2. /\ pc[d] = "write" /\ pc' = [pc EXCEPT ![d] = "flush"]
      /\ ret' = [ret EXCEPT ![d] = "written"]
      /\ UNCHANGED <<quit, position, movie>>
  BY DEF Write
<1>3. /\ State(d) = "playing" /\ State(d)' = "playing"
      /\ Cursor(d) = position[d] /\ Cursor(d)' = position[d]
      /\ Sent(d) = filepos[d] /\ Sent(d)' = filepos[d] + n
  BY <1>1, <1>2 DEF State, Cursor, Sent, Sending
<1>4. /\ playlist[d][position[d]] = movie[d] /\ movie[d] \in Files
      /\ offset[d] <= Size[movie[d]] /\ filepos[d] + writing[d] = offset[d]
      /\ syncstart
  BY <1>2 DEF PosOf, Held, EndsOf, InMovie, ChannelInv, ControlOf, CountOf,
              StartOf, Writing
<1>5. /\ n \in 1..(Size[movie[d]] - filepos[d]) /\ Size[movie[d]] \in Int
      /\ filepos[d] \in Int
  <2>1. Size[movie[d]] \in Int /\ writing[d] \in Int /\ offset[d] \in Int /\ filepos[d] \in Int
    BY <1>4, DecoderAssumption
  <2> QED
    BY ONLY <1>1, <1>4, <2>1
<1> QED
  BY <1>3, <1>4, <1>5 DEF Sends

\* A thread that was not told to quit.
LEMMA LiveView ==
  ASSUME NEW d \in Decoders, DecoderTypeOK, ChannelInv(d), PosOf(d), EndsOf(d),
         OnceOf(d), Thread(d), ~quit[d]
  PROVE  ViewStep(d)
<1> USE DecoderAssumption
        DEF DecoderTypeOK, Goto, Jump, LoopTest, Still, Set, flags, lists,
        file, seeks, lifecycle, State, Cursor, Sent,
        Fresh, Over, Sending, InMovie, Subroutine, PosOf, OnList
<1>1. CASE Begin(d)
  BY <1>1 DEF Begin, Same, ViewStep, EndsOf
<1>2. CASE Top(d)
  BY <1>2 DEF Top, Same, ViewStep
<1>3. CASE UpdateFirst(d)
  BY <1>3 DEF UpdateFirst, Same, ViewStep
<1>4. CASE UpdatePlay(d) \/ UpdateCont(d)
  BY <1>4 DEF UpdatePlay, UpdateCont, Same, ViewStep
<1>5. CASE UpdateSame(d)
  BY <1>5 DEF UpdateSame, Turns, ViewStep, Playback!Follow
<1>6. CASE UpdateSingle(d)
  BY <1>6 DEF UpdateSingle, Same, ViewStep
<1>7. CASE UpdateWrap(d)
  BY <1>7 DEF UpdateWrap, Same, Turns, ViewStep, Playback!Follow
<1>8. CASE CursorFirst(d)
  BY <1>8 DEF CursorFirst, Turns, ViewStep, Playback!Follow, OnceOf
<1>9. CASE CursorAdvance(d)
  BY <1>9 DEF CursorAdvance, Same, Turns, ViewStep, Playback!Follow
<1>10. CASE Check(d)
  BY <1>10 DEF Check, Same, ViewStep
<1>11. CASE Unstop(d)
  BY <1>11 DEF Unstop, Same, ViewStep
<1>12. CASE Unplay(d)
  BY <1>12 DEF Unplay, Same, Skips, ViewStep
<1>13. CASE Wake(d)
  BY <1>13 DEF Wake, Same, ViewStep, OnceOf
<1>14. CASE Pick(d)
  <2>1. PlayMode[d] = "SINGLE" => movie[d] = NoFile
    BY <1>14 DEF Pick, OnceOf, FirstBuffer, Stopping
  <2>2. /\ pc[d] = "pick" /\ UNCHANGED <<ret, quit, position, filepos>>
        /\ pc'[d] = "open" \/ (pc'[d] = "nomovie" /\ movie'[d] = NoFile)
    BY <1>14 DEF Pick, Entry
  <2>3. State(d) = "turned" /\ State(d)' = "turned"
    BY <2>1, <2>2
  <2> QED
    BY <2>2, <2>3 DEF Same, ViewStep
<1>15. CASE Open(d)
  <2>1. movie[d] \in Files /\ position[d] >= 1
    BY <1>15 DEF Open, Held, ChannelInv, ControlOf
  <2>2. /\ pc[d] = "open" /\ UNCHANGED <<ret, quit, position, filepos, movie>>
        /\ pc'[d] = "top" \/ pc'[d] = "size"
    BY <1>15 DEF Open
  <2>3. /\ State(d) = "turned"
        /\ State(d)' = "turned" \/ State(d)' = "over"
        /\ Cursor(d) = position[d] /\ Cursor(d)' = position[d]
        /\ Sent(d) = filepos[d] /\ Sent(d)' = filepos[d]
    BY <2>1, <2>2
  <2> QED
    BY <2>3 DEF Same, Skips, ViewStep
<1>16. CASE Measure(d)
  BY <1>16 DEF Measure, Same, ViewStep
<1>17. CASE Rewind(d)
  BY <1>17 DEF Rewind, Begins, ViewStep, Held
<1>18. CASE Inner(d)
  BY <1>18 DEF Inner, Same, ViewStep
<1>19. CASE Read(d)
  BY <1>19 DEF Read, Same, ViewStep, ChannelInv, ControlOf
<1>20. CASE Sync(d)
  BY <1>20 DEF Sync, Same, ViewStep
<1>21. CASE Again(d)
  BY <1>21 DEF Again, Same, ViewStep
<1>22. CASE Write(d)
  BY <1>22, WriteView DEF ViewStep
<1>23. CASE FlushReady(d)
  BY <1>23 DEF FlushReady, Same, ViewStep, Flushed, Returns
<1>24. CASE FlushQuit(d)
  BY <1>24 DEF FlushQuit, Same, ViewStep
<1>25. CASE Seek(d) \/ Seeked(d)
  BY <1>25 DEF Seek, Seeked, ChannelInv, CountOf
<1>26. CASE Clear(d)
  BY <1>26 DEF Clear, Same, ViewStep, ChannelInv, ControlOf
<1>27. CASE Reopen(d)
  BY <1>27 DEF Reopen, Same, ViewStep, ChannelInv, ControlOf
<1>28. CASE CloseMovie(d)
  <2>1. /\ pc[d] = "eom" /\ pc'[d] = "top"
        /\ UNCHANGED <<ret, quit, position, filepos, movie>>
    BY <1>28 DEF CloseMovie, EndsOf
  <2>2. /\ movie[d] \in Files /\ position[d] >= 1
        /\ playlist[d][position[d]] = movie[d]
        /\ Size[movie[d]] - filepos[d] < BufSize
    BY <2>1 DEF Held, EndsOf, ChannelInv, ControlOf
  <2>3. /\ State(d) = "playing" /\ State(d)' = "over"
        /\ Cursor(d) = position[d] /\ Cursor(d)' = position[d]
        /\ Sent(d) = filepos[d] /\ Sent(d)' = filepos[d]
    BY <2>1, <2>2
  <2> QED
    BY <2>2, <2>3 DEF Finishes, ViewStep
<1> QED
  BY <1>1, <1>2, <1>3, <1>4, <1>5, <1>6, <1>7, <1>8, <1>9, <1>10, <1>11, <1>12,
     <1>13, <1>14, <1>15, <1>16, <1>17, <1>18, <1>19, <1>20, <1>21, <1>22,
     <1>23, <1>24, <1>25, <1>26, <1>27, <1>28
  DEF Thread, Update

\* A thread that was told to quit finishes the buffer it has in hand.
LEMMA QuitView ==
  ASSUME NEW d \in Decoders, DecoderTypeOK, ChannelInv(d), PosOf(d), EndsOf(d),
         Thread(d), quit[d], UNCHANGED quit
  PROVE  ViewStep(d)
<1>1. CASE ~Sending(d)
  <2>1. ~Sending(d)' /\ pc[d] # "none" /\ pc'[d] # "none"
    BY <1>1, GoneStays
  <2> QED
    BY <1>1, <2>1 DEF ViewStep, Same, State, Cursor, Sent
<1>2. CASE Sending(d) /\ Write(d)
  BY <1>2, WriteView DEF ViewStep
<1>3. CASE Sending(d) /\ ~Write(d)
  <2>1. UNCHANGED <<position, filepos>> /\ pc'[d] # "none" /\ pc[d] \notin {"wrap", "first"}
        /\ pc'[d] \notin {"wrap", "first"}
    <3> USE DEF DecoderTypeOK, Goto, Jump, LoopTest, Still, Set, lists, seeks, Sending
    <3>1. CASE Wake(d) \/ Read(d) \/ Sync(d)
      BY <1>3, <3>1 DEF Wake, Read, Sync
    <3>2. CASE FlushReady(d) \/ FlushQuit(d)
      BY <1>3, <3>2 DEF FlushReady, FlushQuit, Flushed, Returns
    <3>3. CASE Seek(d) \/ Seeked(d)
      BY <1>3, <3>3 DEF Seek, Seeked, ChannelInv, CountOf
    <3>4. CASE Begin(d) \/ Top(d) \/ Check(d) \/ Unstop(d) \/ Unplay(d) \/ Pick(d)
      BY <1>3, <3>4 DEF Begin, Top, Check, Unstop, Unplay, Pick
    <3>5. CASE Update(d)
      BY <1>3, <3>5 DEF Update, UpdateFirst, UpdatePlay, UpdateCont, UpdateSame,
         UpdateSingle, UpdateWrap, CursorFirst, CursorAdvance
    <3>6. CASE Open(d) \/ Measure(d) \/ Rewind(d) \/ Inner(d) \/ Again(d)
      BY <1>3, <3>6 DEF Open, Measure, Rewind, Inner, Again
    <3>7. CASE Clear(d) \/ Reopen(d) \/ CloseMovie(d)
      BY <1>3, <3>7 DEF Clear, Reopen, CloseMovie
    <3> QED
      BY <1>3, <3>1, <3>2, <3>3, <3>4, <3>5, <3>6, <3>7 DEF Thread
  <2>2. CASE Sending(d)'
    BY <1>3, <2>1, <2>2 DEF ViewStep, Same, State, Cursor, Sent
  <2>3. CASE ~Sending(d)'
    BY <1>3, <2>1, <2>3 DEF ViewStep, Leaves, State, Cursor, Sent
  <2> QED
    BY <2>2, <2>3
<1> QED
  BY <1>1, <1>2, <1>3

(***************************************************************************)
(* From one channel to the promise.                                        *)
(***************************************************************************)
Promised == [Playback!Next]_(Playback!vars)

\* No other channel moves.
Alone(d) == \A c \in Decoders \ {d} : Same(c)

LEMMA Lifted ==
  ASSUME NEW d \in Decoders, Alone(d)
  PROVE  /\ ([c \in Decoders |-> State(c)])' = [[c \in Decoders |-> State(c)] EXCEPT ![d] = State(d)']
         /\ ([c \in Decoders |-> Cursor(c)])' = [[c \in Decoders |-> Cursor(c)] EXCEPT ![d] = Cursor(d)']
         /\ ([c \in Decoders |-> Sent(c)])' = [[c \in Decoders |-> Sent(c)] EXCEPT ![d] = Sent(d)']
         /\ Same(d) => /\ ([c \in Decoders |-> State(c)])' = [c \in Decoders |-> State(c)]
                       /\ ([c \in Decoders |-> Cursor(c)])' = [c \in Decoders |-> Cursor(c)]
                       /\ ([c \in Decoders |-> Sent(c)])' = [c \in Decoders |-> Sent(c)]
BY DEF Alone, Same

LEMMA LiftView ==
  ASSUME NEW d \in Decoders, Alone(d), ViewStep(d), DecoderTypeOK,
         UNCHANGED <<syncstart, playlist>>,
         Leaves(d) => quit' = [quit EXCEPT ![d] = TRUE],
         ~Leaves(d) => UNCHANGED quit
  PROVE  Promised
<1> USE Lifted DEF Promised, Playback!Next, Sent
<1>1. CASE Same(d) /\ ~Leaves(d)
  BY <1>1 DEF Playback!vars
<1>2. CASE Turns(d) /\ ~Leaves(d)
  <2>1. Playback!Turn(d)
    BY <1>2 DEF Playback!Turn, Turns
  <2> QED
    BY <2>1
<1>3. CASE Begins(d) /\ ~Leaves(d)
  <2>2. DOMAIN playlist[d] = 1..Len(playlist[d])
    BY DEF DecoderTypeOK
  <2>1. Playback!Begin(d)
    BY <1>3, <2>2 DEF Playback!Begin, Begins
  <2> QED
    BY <2>1
<1>4. CASE Skips(d) /\ ~Leaves(d)
  <2>1. Playback!Skip(d)
    BY <1>4 DEF Playback!Skip, Skips
  <2> QED
    BY <2>1
<1>5. CASE Sends(d) /\ ~Leaves(d)
  <2>1. Playback!Send(d)
    BY <1>5 DEF Playback!Send, Sends
  <2> QED
    BY <2>1
<1>6. CASE Finishes(d) /\ ~Leaves(d)
  <2>1. Playback!End(d)
    BY <1>6 DEF Playback!End, Finishes
  <2> QED
    BY <2>1
<1>7. CASE Leaves(d)
  <2>1. Playback!Quit(d)
    BY <1>7 DEF Playback!Quit, Playback!Leave, Leaves
  <2> QED
    BY <2>1
<1> QED
  BY <1>1, <1>2, <1>3, <1>4, <1>5, <1>6, <1>7 DEF ViewStep

\* Nothing the promise speaks of changes.
LEMMA StillView ==
  ASSUME UNCHANGED <<pc, ret, quit, position, movie, filepos>>,
         UNCHANGED <<playlist, syncstart>>
  PROVE  Promised
<1>1. ASSUME NEW c \in Decoders PROVE Same(c)
  BY DEF Same, State, Cursor, Sent, Sending, InMovie, Fresh, Over
<1>2. UNCHANGED <<[c \in Decoders |-> State(c)], [c \in Decoders |-> Cursor(c)],
                  [c \in Decoders |-> Sent(c)]>>
  BY <1>1 DEF Same
<1> QED
  BY <1>2 DEF Promised, Playback!vars, Sent

LEMMA StartView ==
  ASSUME UNCHANGED <<pc, ret, quit, position, movie, filepos>>,
         UNCHANGED playlist, syncstart' = TRUE
  PROVE  Promised
<1>1. ASSUME NEW c \in Decoders PROVE Same(c)
  BY DEF Same, State, Cursor, Sent, Sending, InMovie, Fresh, Over
<1>2. UNCHANGED <<[c \in Decoders |-> State(c)], [c \in Decoders |-> Cursor(c)],
                  [c \in Decoders |-> Sent(c)]>>
  BY <1>1 DEF Same
<1>3. Playback!Start
  BY <1>2 DEF Playback!Start, Sent
<1> QED
  BY <1>3 DEF Promised, Playback!Next

LEMMA AloneIf ==
  ASSUME NEW d \in Decoders,
         \A c \in Decoders \ {d} :
           /\ pc'[c] = pc[c] /\ ret'[c] = ret[c] /\ quit'[c] = quit[c]
           /\ position'[c] = position[c] /\ movie'[c] = movie[c]
           /\ filepos'[c] = filepos[c]
  PROVE  Alone(d)
BY DEF Alone, Same, State, Cursor, Sent, Sending, InMovie, Fresh, Over

LEMMA RunView ==
  ASSUME SyncInv, NEW d \in Decoders, Run(d)
  PROVE  Promised
<1>1. /\ DecoderTypeOK /\ ChannelInv(d) /\ Thread(d) /\ PosOf(d) /\ EndsOf(d)
      /\ OnceOf(d)
  BY DEF SyncInv, ListInv, ExitInv, Inv, TypeOK, Run, ListOf
<1>2. UNCHANGED <<quit, playlist, syncstart>>
  BY <1>1, ThreadFrame
<1>3. ViewStep(d)
  BY <1>1, <1>2, LiveView, QuitView
<1>4. Alone(d)
  BY <1>1, <1>2, ThreadOthers, AloneIf
<1>5. Leaves(d) => quit' = [quit EXCEPT ![d] = TRUE]
  <2>1. Leaves(d) => quit[d]
    BY <1>2 DEF Leaves
  <2>2. quit[d] => quit[d] = TRUE
    BY <1>1, Zenon DEF DecoderTypeOK
  <2>3. quit[d] = TRUE => quit = [quit EXCEPT ![d] = TRUE]
    BY <1>1 DEF DecoderTypeOK
  <2> QED
    BY <1>2, <2>1, <2>2, <2>3
<1> QED
  BY <1>1, <1>2, <1>3, <1>4, <1>5, LiftView

\* setup() arms a channel whose thread was not created.
LEMMA SetupView ==
  ASSUME SyncInv, SetupDecoder
  PROVE  Promised
<1>0. dec \in Decoders /\ handler = "no" /\ main = "setup" /\ Setup(dec)
  BY UsesDec DEF SetupDecoder, MainUses, MainGoto, SyncInv
<1>a. PICK d \in Decoders : d = dec
  BY <1>0
<1>1. /\ DecoderTypeOK /\ ListOf(d) /\ handler = "no" /\ main = "setup"
      /\ d = dec /\ Setup(d)
  BY <1>0, <1>a DEF SetupDecoder, SyncInv, ListInv, ExitInv, Inv, TypeOK
<1>2. pc[d] = "none"
  BY <1>1 DEF ListOf, AskedOf, NotLaunched, Preparing
<1>3. /\ UNCHANGED <<pc, ret, position, movie, filepos>>
      /\ UNCHANGED <<playlist, syncstart>>
      /\ \/ quit' = [quit EXCEPT ![d] = FALSE]
         \/ quit' = [quit EXCEPT ![d] = quit[d]]
  BY <1>1 DEF Setup, Set, lists, seeks
<1>4. CASE quit' = [quit EXCEPT ![d] = quit[d]]
  BY <1>1, <1>3, <1>4, StillView DEF DecoderTypeOK
<1>5. CASE quit' = [quit EXCEPT ![d] = FALSE]
  <2>1. Alone(d)
    BY <1>1, <1>3, <1>5, AloneIf DEF DecoderTypeOK
  <2>2. ~Sending(d) /\ ~Sending(d)' /\ pc'[d] = "none"
    BY <1>2, <1>3 DEF Sending
  <2>3. State(d) = "new" /\ State(d)' = "new"
    BY <1>2, <2>2 DEF State
  <2>4. Same(d)
    BY <1>3, <2>3 DEF Same, Cursor, Sent
  <2>5. UNCHANGED <<[c \in Decoders |-> State(c)], [c \in Decoders |-> Cursor(c)],
                    [c \in Decoders |-> Sent(c)]>>
    BY <1>1, <2>1, <2>4, Lifted
  <2>6. [c \in Decoders |-> State(c)][d] = "new"
    BY <1>1, <2>3
  <2>7. Playback!Arm(d)
    BY <1>3, <1>5, <2>5, <2>6 DEF Playback!Arm, Sent
  <2> QED
    BY <1>1, <2>7 DEF Promised, Playback!Next
<1> QED
  BY <1>3, <1>4, <1>5

\* A thread whose setup failed leaves as soon as it is created.
LEMMA LaunchView ==
  ASSUME SyncInv, LaunchDecoder
  PROVE  Promised
<1>0. dec \in Decoders /\ handler = "no" /\ main = "launch" /\ Launch(dec)
  BY UsesDec DEF LaunchDecoder, ToNext, MainUses, MainGoto, SyncInv
<1>a. PICK d \in Decoders : d = dec
  BY <1>0
<1>1. /\ DecoderTypeOK /\ ListOf(d) /\ handler = "no" /\ main = "launch"
      /\ d = dec /\ Launch(d)
  BY <1>0, <1>a DEF LaunchDecoder, SyncInv, ListInv, ExitInv, Inv, TypeOK
<1>2. pc[d] = "none"
  BY <1>1 DEF ListOf, AskedOf, NotLaunched, Preparing
<1>3. /\ UNCHANGED <<ret, quit, position, movie, filepos>>
      /\ UNCHANGED <<playlist, syncstart>>
      /\ \/ pc' = [pc EXCEPT ![d] = "start"]
         \/ pc' = [pc EXCEPT ![d] = pc[d]]
  BY <1>1 DEF Launch, Set, flags, lists, seeks
<1>4. CASE pc' = [pc EXCEPT ![d] = pc[d]]
  BY <1>1, <1>3, <1>4, StillView DEF DecoderTypeOK
<1>5. CASE pc' = [pc EXCEPT ![d] = "start"]
  <2>1. Alone(d)
    BY <1>1, <1>3, <1>5, AloneIf DEF DecoderTypeOK
  <2>2. pc'[d] = "start"
    BY <1>1, <1>5 DEF DecoderTypeOK
  <2>5. ~Sending(d) /\ ~Sending(d)' /\ ~InMovie(d)' /\ Fresh(d)'
    BY <1>2, <2>2 DEF Sending, InMovie, Subroutine, Fresh
  <2>6. State(d) = "new" /\ State(d)' = IF quit[d] THEN "gone" ELSE "new"
    BY <1>2, <1>3, <2>2, <2>5 DEF State
  <2>3. IF quit[d] THEN Leaves(d) ELSE Same(d) /\ ~Leaves(d)
    BY <1>3, <2>6 DEF Leaves, Same, Cursor, Sent
  <2>4. quit[d] => quit' = [quit EXCEPT ![d] = TRUE]
    <3>1. quit[d] => quit[d] = TRUE
      BY <1>1, Zenon DEF DecoderTypeOK
    <3>2. quit[d] = TRUE => quit = [quit EXCEPT ![d] = TRUE]
      BY <1>1 DEF DecoderTypeOK
    <3> QED
      BY <1>3, <3>1, <3>2
  <2> QED
    BY <1>1, <1>3, <2>1, <2>3, <2>4, LiftView DEF ViewStep
<1> QED
  BY <1>3, <1>4, <1>5

\* load() adds entries while none was played.
LEMMA LoadView ==
  ASSUME SyncInv, LoadPlaylist
  PROVE  Promised
<1>1. /\ dec \in Decoders /\ DecoderTypeOK /\ ListOf(dec) /\ handler = "no"
      /\ main = "load" /\ AppendAll(dec, Saved[dec])
  BY UsesDec DEF LoadPlaylist, MainUses, MainGoto, SyncInv
<1>2. (~quit[dec] /\ Untouched(dec)) \/ Leaving(dec)
  BY <1>1 DEF ListOf, AskedOf, NotPlayed, Preparing, Loop
<1>3. State(dec) = "new" \/ State(dec) = "turned" \/ State(dec) = "gone"
  BY <1>2 DEF State, Sending, InMovie, Fresh, Over, Untouched, Early, Leaving,
              Subroutine
<1>4. /\ UNCHANGED <<pc, ret, quit, position, movie, filepos>>
      /\ UNCHANGED syncstart
      /\ playlist' = [playlist EXCEPT ![dec] = playlist[dec] \o Saved[dec]]
  BY <1>1 DEF AppendAll, PutList, Set, flags, seeks
<1>5. playlist[dec] \in Seq(Files) /\ Saved[dec] \in Seq(Files)
  BY <1>1, MainAssumption DEF DecoderTypeOK
<1>6. playlist'[dec] = playlist[dec] \o Saved[dec]
  BY <1>1, <1>4 DEF DecoderTypeOK
<1>7. ASSUME NEW c \in Decoders PROVE Same(c)
  BY <1>4 DEF Same, State, Cursor, Sent, Sending, InMovie, Fresh, Over
<1>8. UNCHANGED <<[c \in Decoders |-> State(c)], [c \in Decoders |-> Cursor(c)],
                  [c \in Decoders |-> Sent(c)]>>
  BY <1>7 DEF Same
<1>9. /\ playlist'[dec] \in Seq(Files)
      /\ Len(playlist'[dec]) >= Len(playlist[dec])
      /\ playlist[dec] = SubSeq(playlist'[dec], 1, Len(playlist[dec]))
  <2>1. /\ playlist[dec] \o Saved[dec] \in Seq(Files)
        /\ Len(playlist[dec] \o Saved[dec]) >= Len(playlist[dec])
        /\ playlist[dec] = SubSeq(playlist[dec] \o Saved[dec], 1, Len(playlist[dec]))
    BY <1>5, Appended
  <2> QED
    BY <1>6, <2>1
<1>11. playlist' = [playlist EXCEPT ![dec] = playlist'[dec]]
  BY <1>4, <1>6
<1>10. Playback!Load(dec)
  BY <1>1, <1>3, <1>4, <1>8, <1>9, <1>11 DEF Playback!Load, Sent
<1> QED
  BY <1>1, <1>10 DEF Promised, Playback!Next

\* close(): quit, then the list and the cursor of a thread that is leaving.
LEMMA CloseView ==
  ASSUME SyncInv, NEW d \in Decoders, InsideClose(d)
  PROVE  Promised
<1>1. /\ DecoderTypeOK /\ CloseStep(d) /\ closing[d] # "no" /\ EndOf(d)
      /\ UNCHANGED <<pc, ret, movie, filepos, syncstart>>
  BY DEF InsideClose, CloseStep, CloseQuit, CloseRunning, CloseJoin, CloseDevice,
         ClosePosition, CloseEmpty, CloseCursor, CloseGoto, SyncInv, ListInv,
         ExitInv, Inv, TypeOK, seeks
<1>2. CASE CloseRunning(d) \/ CloseJoin(d) \/ CloseDevice(d)
  BY <1>1, <1>2, StillView DEF CloseRunning, CloseJoin, CloseDevice, lists
<1>3. CASE CloseQuit(d)
  <2>1. /\ quit' = [quit EXCEPT ![d] = TRUE] /\ UNCHANGED <<position, playlist>>
    BY <1>3 DEF CloseQuit, Set, lists
  <2>2. Alone(d)
    BY <1>1, <2>1, AloneIf DEF DecoderTypeOK
  <2>3. quit'[d]
    BY <1>1, <2>1, Zenon DEF DecoderTypeOK
  <2>4. Sending(d)' <=> Sending(d)
    BY <1>1 DEF Sending
  <2>5. CASE Sending(d) \/ pc[d] = "none"
    <3>1. Same(d)
      BY <1>1, <2>1, <2>4, <2>5 DEF Same, State, Cursor, Sent
    <3>2. UNCHANGED <<[c \in Decoders |-> State(c)], [c \in Decoders |-> Cursor(c)],
                      [c \in Decoders |-> Sent(c)]>>
      BY <2>2, <3>1, Lifted
    <3>3. Playback!Quit(d)
      BY <1>1, <2>1, <3>2 DEF Playback!Quit, Sent
    <3> QED
      BY <3>3 DEF Promised, Playback!Next
  <2>6. CASE ~Sending(d) /\ pc[d] # "none"
    <3>1. State(d)' = "gone"
      BY <1>1, <2>3, <2>4, <2>6 DEF State
    <3>2. Leaves(d)
      BY <2>3, <3>1 DEF Leaves, Cursor, Sent
    <3> QED
      BY <1>1, <2>1, <2>2, <3>2, LiftView DEF ViewStep
  <2> QED
    BY <2>5, <2>6
<1>4. CASE ClosePosition(d) \/ CloseEmpty(d) \/ CloseCursor(d)
  <2>1. /\ UNCHANGED quit /\ closing[d] \in {"position", "empty", "cursor"}
        /\ \A c \in Decoders \ {d} : position'[c] = position[c]
        /\ playlist' = playlist \/ playlist' = [playlist EXCEPT ![d] = <<>>]
    BY <1>1, <1>4 DEF ClosePosition, CloseEmpty, CloseCursor, CloseGoto, Set,
                      DecoderTypeOK
  <2>2. Leaving(d)
    BY <1>1, <2>1 DEF EndOf, Closed
  <2>3. ~Sending(d) /\ ~Sending(d)'
    BY <1>1, <2>2 DEF Leaving, Sending, Subroutine
  <2>4. State(d)' = State(d) /\ (State(d) = "new" \/ State(d) = "gone")
    BY <1>1, <2>1, <2>2, <2>3 DEF State, Leaving
  <2>5. Same(d)
    BY <1>1, <2>4 DEF Same, Cursor, Sent
  <2>6. UNCHANGED <<[c \in Decoders |-> State(c)], [c \in Decoders |-> Cursor(c)],
                    [c \in Decoders |-> Sent(c)]>>
    <3>1. Alone(d)
      BY <1>1, <2>1, AloneIf
    <3> QED
      BY <2>5, <3>1, Lifted
  <2>7. CASE playlist' = playlist
    BY <1>1, <2>1, <2>6, <2>7 DEF Promised, Playback!vars, Sent
  <2>8. CASE playlist' = [playlist EXCEPT ![d] = <<>>]
    <3>1. quit[d]
      BY <2>2 DEF Leaving
    <3>2. Playback!Discard(d)
      BY <1>1, <2>1, <2>4, <2>6, <2>8, <3>1 DEF Playback!Discard, Sent
    <3> QED
      BY <3>2 DEF Promised, Playback!Next
  <2> QED
    BY <2>1, <2>7, <2>8
<1> QED
  BY <1>1, <1>2, <1>3, <1>4 DEF CloseStep

LEMMA OthersView ==
  ASSUME SyncInv, MainThread \/ Signal \/ Datagram \/ UNCHANGED vars
  PROVE  Promised
<1>1. CASE SetupDecoder \/ LaunchDecoder \/ LoadPlaylist
  BY <1>1, SetupView, LaunchView, LoadView
<1>2. CASE PlayDecoder \/ PlayUnstop
  BY <1>2, StillView DEF PlayDecoder, PutPlaying, PlayUnstop, PutStopped, lists, seeks
<1>3. CASE \/ LaunchUdp \/ Started \/ Scan \/ Count \/ CountNext \/ CountNone \/ Dangling
           \/ Signal \/ HandlerDeleted \/ HandlerReturn \/ UNCHANGED vars
  BY <1>3, StillView
  DEF LaunchUdp, Started, Scan, Count, CountNext, CountNone, Dangling, Signal,
      HandlerDeleted, HandlerReturn, vars, decoderVars, flags, lists, seeks
<1>4. CASE HandlerClose \/ HandlerDestroy
  BY <1>4, StillView DEF HandlerClose, HandlerDestroy, CloseBegin, CloseGoto, lists, seeks
<1>5. CASE Start \/ Datagram
  <2>1. /\ UNCHANGED <<pc, ret, quit, position, movie, filepos, playlist>>
        /\ syncstart' = TRUE \/ syncstart' = syncstart
    <3>1. syncstart \in BOOLEAN
      BY DEF SyncInv, ListInv, ExitInv, Inv, TypeOK, DecoderTypeOK
    <3>2. CASE Start
      <4>1. syncstart' = (syncstart \/ (~RpcDaemon /\ ~Udp))
        BY <3>2 DEF Start
      <4>2. syncstart' = TRUE \/ syncstart' = syncstart
        BY <3>1, <4>1, MainAssumption, Zenon
      <4> QED
        BY <3>2, <4>2 DEF Start, flags, lists, seeks
    <3>3. CASE Datagram
      BY <3>3 DEF Datagram, flags, lists, seeks
    <3> QED
      BY <1>5, <3>2, <3>3
  <2> QED
    BY <2>1, StartView, StillView
<1>6. CASE \E d \in Decoders : InsideClose(d)
  BY <1>6, CloseView
<1> QED
  BY <1>1, <1>2, <1>3, <1>4, <1>5, <1>6 DEF MainThread

LEMMA ViewInit == Init => Playback!Init
<1> SUFFICES ASSUME Init PROVE Playback!Init
  OBVIOUS
<1>1. ASSUME NEW c \in Decoders
      PROVE  State(c) = "new" /\ Cursor(c) = -1 /\ Sent(c) = 0
  BY DEF Init, DecoderInit, State, Cursor, Sent, Sending
<1>2. /\ [c \in Decoders |-> State(c)] = [c \in Decoders |-> "new"]
      /\ [c \in Decoders |-> Cursor(c)] = [c \in Decoders |-> -1]
      /\ [c \in Decoders |-> Sent(c)] = [c \in Decoders |-> 0]
  BY <1>1
<1>3. /\ playlist \in [Decoders -> Seq(Files)] /\ syncstart = FALSE
      /\ quit = [c \in Decoders |-> TRUE]
  BY MainAssumption DEF Init, DecoderInit
<1> QED
  BY <1>2, <1>3 DEF Playback!Init, Sent

(***************************************************************************)
(* What it gives.                                                          *)
(***************************************************************************)
\* The program implements SyncPlayback, for any number of channels, lists,
\* play modes, faults and interleavings: each channel goes through its list in
\* the order of its mode, sends nothing before the common start, sends each
\* movie from its first byte to its last full buffer and leaves one early only
\* when told to quit (decoder.cpp:119-370, cmdline.cpp:108-136, 350-452).
\* A channel in mode SINGLE must have movies that open and fill a buffer, and
\* no UDP start (see OnlyWhole).
THEOREM SyncCorrect == ASSUME OnlyWhole PROVE Spec => PlaysInSync
<1>1. SyncInv /\ [Next]_vars => Promised
  <2> SUFFICES ASSUME SyncInv, [Next]_vars PROVE Promised
    OBVIOUS
  <2> QED
    BY RunView, OthersView DEF Next, Ended
<1>2. Init => SyncInv
  BY SyncInit
<1>3. SyncInv /\ [Next]_vars => SyncInv'
  BY SyncStep
<1> QED
  BY <1>1, <1>2, <1>3, ViewInit, PTL DEF Spec, PlaysInSync, Playback!Spec, Promised
=============================================================================
