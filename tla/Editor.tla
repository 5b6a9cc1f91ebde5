------------------------------- MODULE Editor -------------------------------
(***************************************************************************)
(* The graphical editor of one channel's playlist (gui.cpp), the file it   *)
(* is saved to, and the players that are started later and load it.        *)
(*                                                                         *)
(* GTK calls one handler at a time, so a handler is one step, but for      *)
(* save(), whose file others read while it is written.  With the editor    *)
(* main() neither sets the channel up nor launches it: the list is the one *)
(* of the command line, and a thread launched by the play button finds     *)
(* quit set.                                                               *)
(***************************************************************************)
EXTENDS Schedule

CONSTANTS
  Given,       (* The playlist given on the command line.                   *)
  Chooser,     (* What the file chooser may return: sequences of movies.    *)
  Contents,    (* What someone else may put in a scheduled file.            *)
  Times,       (* The minutes of the day at which something happens.        *)
  LastDay,     (* Bound on the days that pass.                              *)
  MaxLength,   (* Bound on the length of the playlist and of a drag.        *)
  MaxPresses   (* Bound on what the user does.                              *)

ASSUME EditorAssumption ==
  /\ Times \subseteq 0..1439 /\ Times # {}
  /\ {LastDay, MaxLength, MaxPresses} \subseteq Nat
  /\ Default \in Names
  /\ \A list \in Chooser \cup {Given} : list \in Seq(ToSet(list))
  /\ Len(Given) <= MaxLength
  /\ \A list \in Chooser \cup {Given} : ToSet(list) \subseteq DOMAIN Chomped

VARIABLES
  playlist, position, playmode,   (* The channel.                           *)
  playing, stopped, running,
  mutex,       (* Thread::mutex is held.                                    *)
  thread,      (* "none", "created" or "over".                              *)
  rows,        (* The rows shown: a number, a mark, a name.                 *)
  draglist,    (* The numbers of the rows being dragged.                    *)
  gui,         (* What the program is doing.                                *)
  presses,     (* What the user has done so far.                            *)
  dir,         (* The files of ~/.ivysync: name to content.                 *)
  saved,       (* The list at the last save that opened the file.           *)
  today, now,  (* The clock.                                                *)
  player       (* What the last player started has loaded, and from where.  *)

channel == <<playlist, position, playmode, playing, stopped, running, mutex,
             thread>>
window == <<rows, draglist>>
world == <<dir, saved, today, now, player>>
vars == <<channel, window, gui, presses, world>>

(***************************************************************************)
(* Helpers.                                                                *)
(***************************************************************************)
\* Linklist::insert(), remove() and operator[], whose positions start at 1.
Insert(list, e, pos) ==
  IF Len(list) <= pos THEN Append(list, e)
  ELSE IF pos <= 1 THEN <<e>> \o list ELSE InsertAt(list, pos, e)
Has(list, pos) == pos \in 1..Len(list)
RemovePos(list, pos) == IF Has(list, pos) THEN RemoveAt(list, pos) ELSE list

\* refresh(): rows are numbered from 0, and the one two places after the
\* cursor has the mark.
Shown(list, pos) ==
  [i \in 1..Len(list) |->
     [number |-> i - 1, mark |-> pos + 1 = i - 1, name |-> list[i]]]

\* Broken on purpose: shows the list as it was.
RefreshLate == rows' = Shown(playlist, position)

Refresh == rows' = Shown(playlist', position')

\* The numbers of the selected rows, in the order of the rows.
Numbers(selected) ==
  LET indices == InOrder(selected, <)
  IN  [i \in 1..Len(indices) |-> rows[indices[i]].number]

Init ==
  /\ playlist = Given
  /\ position = -1
  /\ playmode = "SINGLE"
  /\ playing = FALSE /\ stopped = FALSE /\ running = FALSE
  /\ mutex = FALSE
  /\ thread = "none"
  /\ rows = Shown(Given, -1)
  /\ draglist = <<>>
  /\ gui = "idle"
  /\ presses = 0
  /\ dir = <<>>
  /\ saved = <<>>
  /\ today = 1
  /\ now = Min(Times)
  /\ player = [list |-> <<>>, name |-> Default, day |-> 0, at |-> 0]

\* The user does something while GTK waits for it.
Press ==
  /\ gui = "idle" /\ presses < MaxPresses
  /\ presses' = presses + 1
  /\ UNCHANGED world

(***************************************************************************)
(* The handlers.                                                           *)
(***************************************************************************)
on_add_button ==
  /\ Press
  /\ \E files \in Chooser \cup {<<>>} :
       /\ Len(playlist) + Len(files) <= MaxLength
       /\ playlist' = playlist \o files
  /\ UNCHANGED <<position, playmode, playing, stopped, running, mutex, thread,
                 draglist, gui>>
  /\ Refresh

\* Broken on purpose: the rows are taken from the top.
DeleteFromTop(numbers) == FoldLeft(RemovePos, playlist, numbers)

\* The list of rows is reversed first.
DeleteAll(numbers) == FoldLeft(RemovePos, playlist, Reverse(numbers))

on_delete_button(selected) ==
  /\ Press
  /\ playlist' = DeleteAll(Numbers(selected))
  /\ UNCHANGED <<position, playmode, playing, stopped, running, mutex, thread,
                 draglist, gui>>
  /\ Refresh

\* The menu offers once, loop and continuous, which set modes 1, 2 and 3.
on_set_playmode ==
  /\ Press
  /\ playmode' \in {"PLAY", "CONT", "LOOP"}
  /\ UNCHANGED <<playlist, position, playing, stopped, running, mutex, thread,
                 window, gui>>

on_rewind_button ==
  /\ Press
  /\ stopped' = TRUE
  /\ position' = 0
  /\ UNCHANGED <<playlist, playmode, playing, running, mutex, thread,
                 draglist, gui>>
  /\ Refresh

\* stop() and then play(): the request to stop is gone when it returns.  The
\* flag it clears and sets is of no one: no thread gets as far as to read it.
on_syncstart_button ==
  /\ Press
  /\ position' = 0
  /\ playing' = TRUE /\ stopped' = FALSE
  /\ UNCHANGED <<playlist, playmode, running, mutex, thread, draglist, gui>>
  /\ Refresh

\* The button is up: a channel that runs is played, one that does not is
\* launched first.
on_play_button ==
  /\ Press
  /\ gui' = IF running THEN gui ELSE "launching"
  /\ playing' = (playing \/ running)
  /\ stopped' = (stopped /\ ~running)
  /\ UNCHANGED <<playlist, position, playmode, running, mutex, thread, window>>

\* launch() waits for the mutex, and returns with it; then play().
Launched ==
  /\ gui = "launching" /\ ~mutex
  /\ gui' = "idle"
  /\ mutex' = TRUE /\ thread' = "created"
  /\ playing' = TRUE /\ stopped' = FALSE
  /\ UNCHANGED <<playlist, position, playmode, running, window, presses, world>>

\* The button is down.
on_play_button_down ==
  /\ Press
  /\ stopped' = TRUE
  /\ UNCHANGED <<playlist, position, playmode, playing, running, mutex,
                 thread, window, gui>>

\* Broken on purpose: a thread that is over does not run.
RunResets ==
  /\ thread = "created"
  /\ running' = FALSE
  /\ thread' = "over"
  /\ UNCHANGED <<playlist, position, playmode, playing, stopped, mutex, window,
                 gui, presses, world>>

\* The thread sets running, finds quit set, and ends after clear().  The mutex
\* that launch() took for it stays as it is.
Run ==
  /\ thread = "created"
  /\ running' = TRUE
  /\ thread' = "over"
  /\ UNCHANGED <<playlist, position, playmode, playing, stopped, mutex, window,
                 gui, presses, world>>

(***************************************************************************)
(* Drag and drop.                                                          *)
(***************************************************************************)
\* The target asks for the rows, this window or another program: the numbers
\* are kept until rows are dropped here.
DND_data_get(selected) ==
  /\ Press
  /\ Len(draglist) + Cardinality(selected) <= MaxLength
  /\ draglist' = draglist \o Numbers(selected)
  /\ UNCHANGED <<channel, rows, gui>>

\* Broken on purpose: the entry copied is not removed.
MoveOneCopies(st, number) ==
  LET row == IF st.row >= number THEN st.row + 1 ELSE st.row
  IN  IF st.row = 0 \/ st.crashed THEN st
      ELSE IF ~Has(st.list, number - 1) THEN [st EXCEPT !.crashed = TRUE]
      ELSE [st EXCEPT !.row = row,
                      !.list = Insert(st.list, st.list[number - 1], row)]

\* One turn of the loop, for the row with that number: the entry before it is
\* copied to the row, and then the one at the number, or after it, removed.
\* row keeps what a turn added to it.  There is no entry before the first two
\* rows: NULL is followed.
MoveOne(st, number) ==
  LET row == IF st.row >= number THEN st.row + 1 ELSE st.row
      removed == IF row < number - 1 THEN number + 1 ELSE number
  IN  IF st.row = 0 \/ st.crashed THEN st
      ELSE IF ~Has(st.list, number - 1) THEN [st EXCEPT !.crashed = TRUE]
      ELSE [st EXCEPT !.row = row,
              !.list = RemovePos(Insert(st.list, st.list[number - 1], row),
                                 removed)]

\* Row 0 is also what a drop outside the rows leaves.
DND_drop(row) ==
  /\ Press
  /\ draglist # <<>>
  /\ LET moved == FoldLeft(MoveOne, [list |-> playlist, row |-> row,
                                     crashed |-> FALSE], draglist)
     IN  /\ playlist' = moved.list
         /\ gui' = IF moved.crashed THEN "crashed" ELSE gui
  /\ draglist' = <<>>
  /\ UNCHANGED <<position, playmode, playing, stopped, running, mutex, thread>>
  /\ Refresh

(***************************************************************************)
(* The file of the list.                                                   *)
(***************************************************************************)
Put(name, content) ==
  dir' = [f \in DOMAIN dir \cup {name} |->
            IF f = name THEN content ELSE dir[f]]

\* save() looks for the directory and makes it, and opens the file: that fails
\* and nothing else happens, or it truncates the file.
SaveFails == Press /\ UNCHANGED <<channel, window, gui>>

SaveBegins ==
  /\ gui = "idle" /\ presses < MaxPresses
  /\ presses' = presses + 1
  /\ gui' = "saving"
  /\ saved' = playlist
  /\ Put(Default, [lines |-> <<>>, cut |-> FALSE])
  /\ UNCHANGED <<channel, window, today, now, player>>

on_save_button == SaveBegins \/ SaveFails

\* Some more of what was put in the stream's buffer reaches the file, up to
\* the middle of a line.
SaveSome ==
  /\ gui = "saving"
  /\ \E k \in Len(dir[Default].lines)..(Len(playlist) - 1), cut \in BOOLEAN :
       Put(Default, [lines |-> SubSeq(playlist, 1, k), cut |-> cut])
  /\ UNCHANGED <<channel, window, gui, presses, saved, today, now, player>>

\* fflush() and fclose().
SaveRest ==
  /\ gui = "saving"
  /\ Put(Default, [lines |-> playlist, cut |-> FALSE])
  /\ gui' = "idle"
  /\ UNCHANGED <<channel, window, presses, saved, today, now, player>>

(***************************************************************************)
(* The rest of the world.                                                  *)
(***************************************************************************)
\* The memory of the program is gone.
Gone ==
  /\ playlist' = <<>> /\ position' = -1 /\ playmode' = "SINGLE"
  /\ playing' = FALSE /\ stopped' = FALSE /\ running' = FALSE
  /\ mutex' = FALSE /\ thread' = "none"
  /\ rows' = <<>> /\ draglist' = <<>>
  /\ presses' = MaxPresses
  /\ gui' = "off"
  /\ UNCHANGED world

\* The window is closed.
Quit == gui = "idle" /\ Gone

\* The program is killed, or the machine goes down.
Kill == gui \in {"saving", "launching", "crashed"} /\ Gone

\* A scheduled playlist, or one of another device, is put in the directory.
\* The editor looks at neither those nor the clock, so in the model both wait
\* until it is gone.
PutFile(name) ==
  /\ gui = "off"
  /\ name \in Names \ (DOMAIN dir \cup {Default})
  /\ \E content \in Contents : Put(name, content)
  /\ UNCHANGED <<channel, window, gui, presses, saved, today, now, player>>

TimePasses ==
  /\ gui = "off"
  /\ \/ today' = today /\ now' \in {t \in Times : t > now}
     \/ today' = today + 1 /\ today' <= LastDay /\ now' \in Times
  /\ UNCHANGED <<channel, window, gui, presses, dir, saved, player>>

\* A player of the device is started, here or in a reboot, with nothing on
\* its command line.
StartPlayer ==
  /\ LET name == ThePlaylist(DOMAIN dir, today, now)
     IN  player' = [name |-> name, day |-> today, at |-> now,
                    list |-> IF name \in DOMAIN dir THEN Read(dir[name])
                             ELSE <<>>]
  /\ UNCHANGED <<channel, window, gui, presses, dir, saved, today, now>>

Handlers ==
  \/ on_add_button \/ on_set_playmode \/ on_rewind_button
  \/ on_syncstart_button \/ on_play_button \/ on_play_button_down
  \/ on_save_button
  \/ \E selected \in SUBSET (1..Len(rows)) \ {{}} :
       on_delete_button(selected) \/ DND_data_get(selected)
  \/ \E row \in {0} \cup 1..(Len(rows) - 1) : DND_drop(row)

Next ==
  \/ Handlers \/ SaveSome \/ SaveRest \/ Launched \/ Run \/ Quit \/ Kill
  \/ \E name \in Names : PutFile(name)
  \/ TimePasses \/ StartPlayer

Spec == Init /\ [][Next]_vars

(***************************************************************************)
(* Properties.                                                             *)
(***************************************************************************)
\* Types.
TypeOK ==
  LET Movies == UNION {ToSet(s) : s \in Chooser \cup {Given}}
  IN  /\ ToSet(playlist) \subseteq Movies
      /\ position \in {-1, 0}
      /\ playmode \in {"PLAY", "CONT", "LOOP", "SINGLE"}
      /\ {playing, stopped, running, mutex} \subseteq BOOLEAN
      /\ thread \in {"none", "created", "over"}
      /\ gui \in {"idle", "saving", "launching", "crashed", "off"}
      /\ [i \in DOMAIN rows |-> rows[i].name] = playlist
      /\ ToSet(draglist) \subseteq 0..(MaxLength - 1)
      /\ DOMAIN dir \subseteq Names
      /\ player.name \in Names

\* The list at some of its places, in order.
AtPlaces(list, places) ==
  LET kept == InOrder(places, <)
  IN  [i \in 1..Len(kept) |-> list[kept[i]]]

\* What delete deletes is not what is selected: rows are numbered from 0 and
\* positions from 1, so that for each selected row the entry of the row above
\* goes, and none for the first, although the code means to remove "all the
\* selected" (gui.cpp:136).  Exactly these go, whatever is selected and in
\* whatever order they are removed (gui.cpp:116-165).
DeletesTheRowsAbove ==
  [][\A selected \in SUBSET (1..Len(rows)) :
       on_delete_button(selected) =>
         playlist' = AtPlaces(playlist,
                       {i \in DOMAIN playlist : i + 1 \notin selected})]_vars

\* The numbers there are.
Numbered == {row.number : row \in ToSet(rows)}

\* What a drop does, which is not to "move entry %u:%s into slot %u" (gui.cpp:244).  However many rows that are
\* there are dropped, the list keeps its length.  When it is one, of entry n + 1,
\* entry n is lost and entry n - 1 is copied to the place of the drop, the
\* others stay in their order; on row n - 1, or the first, nothing happens
\* (gui.cpp:217-268).
DropCopiesTheEntryAbove ==
  [][\A row \in 0..MaxLength :
       DND_drop(row) /\ gui' # "crashed" /\ ToSet(draglist) \subseteq Numbered =>
         /\ Len(playlist') = Len(playlist)
         /\ Len(draglist) = 1 =>
              LET n == draglist[1]
                  at == IF row + 1 < Len(playlist) THEN row ELSE Len(playlist)
              IN  IF row \in {0, n - 1} THEN playlist' = playlist
                  ELSE /\ playlist'[at] = playlist[n - 1]
                       /\ RemoveAt(playlist', at) = RemoveAt(playlist, n)]_vars

\* launch() keeps the mutex it takes, so that a press of play that launches a
\* second time waits for ever, and the window with it.  Only a press that comes
\* before the thread of the first has begun does: later ones find running set
\* (gui.cpp:102, thread.cpp:30, decoder.cpp:217).
HangsOnlyBeforeTheThread ==
  [][on_play_button /\ mutex /\ gui' = "launching" => thread = "created"]_vars

\* A player started while the list is saved, or after the editor was killed
\* doing so, loads the beginning of the list of the last save that could open
\* the file, and never part of a name; once that save is over, the whole of it,
\* each name without the blanks at its ends (decoder.cpp:651-662, 675-705,
\* utils.cpp:110-129).
SavedComesBack ==
  Default \in DOMAIN dir =>
    /\ IsPrefix(Read(dir[Default]), ChompEach(saved))
    /\ gui = "idle" => Read(dir[Default]) = ChompEach(saved)

\* Of the device's dated playlists a player takes one that is due, and none
\* that is due is at a later time of the day; with none due it takes the saved
\* one.  The order of the names decides between equals only, and midnight is
\* never due (decoder.cpp:587-641).
LatestDue ==
  LET due == {f \in DOMAIN dir : /\ f.day # 0 /\ f.video = device_num
                                 /\ f.at \in 1..now}
      chosen == ThePlaylist(DOMAIN dir, today, now)
  IN  IF due = {} THEN chosen = Default
      ELSE chosen \in due /\ \A f \in due : f.at <= chosen.at

\* What the comment of load() says (decoder.cpp:599): the dated playlist that
\* is loaded is one of today.
PlaysTodays == player.name.day \in {0, player.day}
=============================================================================
