# IvySync, specified

IvySync plays MPEG files in sync on several hardware decoders of one machine,
and starts several machines together. This directory holds a formal
specification of it in TLA+: modules translated from the C++ source, TLC
configurations that check them on small instances, and proofs, checked by
TLAPS, of theorems that hold for any number of channels and any movies.

Line numbers are those of the repository at the commit kept beside this
directory; `PROJECT.json` maps every definition to the lines it models.

## 1. The system

| Part | Source | State | Operations | Modelled |
|---|---|---|---|---|
| Decoder, one per channel | `decoder.cpp` | flags `playing`, `stopped`, `quit`; playlist and `position`; `playlist_fd`, `filesize`, `filepos`, `newfilepos`; `fd` of the device; the pointer `syncstart` | thread `run()` (`update`, `flush`, `clear`); `setup`, `close`, `play`, `stop`, `pause`, `setpos`, `setoffset`, `append`, `empty`, called by other threads | `Decoder` |
| Thread | `thread.cpp` | a mutex, a thread | `launch`, `join` | `Decoder` (`Launch`, `CloseJoin`) |
| Command line player | `cmdline.cpp` `main()` | list of decoders, `syncstart`, cursor `dec`, `still_running` | set up and launch each channel, start, wait for the end | `Main` |
| Signal handler | `cmdline.cpp` `quitproc()` | the list of decoders | close and delete each channel, on main's thread | `Main` |
| UDP-Lite server | `udpliteserver.cpp` | a socket, a pointer to `syncstart` | one `recvmsg`, then the start | `Main` (`Datagram`) |
| XMLRPC daemon | `xmlrpc.cpp`, `cmdline.cpp:421` | `::quit`, `IvySyncDaemon::quit` | the daemon loop; Play, Stop, Pause, Open, GetPos, SetPos, GetOffset, SetOffset, Quit | `RpcServer` |
| Linked list | `linklist.cpp` | `first`, `last`, `length`, `next`/`prev` | append, prepend, insert, pick, rem, up, down, move | `Linklist` |
| Playlist schedule | `decoder.cpp:536-663` | files of `~/.ivysync` | choose today's playlist by name and time, load it | `Schedule` |
| Playlist editor | `gui.cpp`, `decoder.cpp:665-707` | GTK rows, a drag, a decoder per device, the saved file | edit playlists by row, save, play | `Editor` |
| XMLRPC library | `xmlrpc++/` | sockets, connections, a dispatch loop, values | connect, read, execute, write, retry; write and read values; multicall | `Socket`, `Dispatcher`, `XmlRpcServer`, `XmlRpcClient`, `XmlRpc`; `XmlRpcValue`, `RpcCalls` |
| Remote control client | `ivysync-remote.py` | none | one request for each command | `RpcCalls` |
| Tools | `udpbroadcast.cpp`, `udptest.cpp`, `scripts/` | none | send one datagram, prepare a machine | the environment |

How they interact. `main()` launches one thread per channel and one for UDP.
All of them share `syncstart`, polled by every channel before its first write.
The daemon's methods run in main's thread, one request at a time, and change
plain fields of a decoder while its thread reads them: there is no lock (the
mutex of `Thread` is taken once by `launch()` and never released). Signals run
`quitproc()` on main's thread, between any two steps of `main()`. Requests reach
the methods through the library's dispatch loop, which main's thread enters for
a time in each turn of the daemon loop. The editor is another build of the same
program; it shares nothing with a running player but the files of `~/.ivysync`,
which it writes and players read when they start.

What is hard. The interleavings of flags that are tested and set at different
places of `run()`; the common start; seeks applied between partial writes; the
wait of `close()` for a thread that may not have begun, may be paused or may be
writing; deletion of a channel while `main()` walks the list; the play modes at
the ends of the list; writes to the device that fail; connections that are cut,
messages that come in parts, calls that are retried; rows of the editor, which
count from 0, against positions, which count from 1. The full list, line by line, with the properties that
cover each, is under "hazards" in `PROJECT.json`.

What makes each part correct:

* a channel opens, reads and closes its movies in order, sends every byte of a
  movie once up to the last full buffer, reports the position it is at, obeys
  `stop` and `quit` at its next buffer, and never runs off its list;
* the start: nothing is written before it;
* `main()` ends when, and only when, every channel is over; interrupted once
  started, the handler closes and deletes every channel and returns, and no channel
  plays any more (what `main()` does then is not defined by the code, see below);
* the daemon: a stop ends the movie, a quit ends the program; a call that answers
  1 has done what it says, a refused one nothing;
* the library: the server executes the call that was made and the client is
  answered by that call's result; a call is executed no more often than it is
  sent, fails only for a reason, and returns;
* the editor: what was saved is what comes back, but for the blanks at the ends of a
  name; deleting and dropping should act on the rows the user selected, and act on
  the entries above them; a player takes the latest of the playlists that are due.

## 2. Modules

* `SyncPlayback` - the abstract specification. Channels go through their own
  lists in the order their mode asks for; no byte before the common start;
  bytes of a movie from the first on, never past the last; a movie is left when
  less than one buffer of it remains, or when the channel is told to quit. No
  threads, flags or files.
* `Decoder` - a channel. `pc[d]` is the line `run()` is at; `ret[d]` is where
  `flush()` or `clear()` returns. One action per test or assignment of a shared
  field, so that any other thread may step in between. `Goto` gives the
  control, `Jump` a step that is nothing else, `LoopTest` the test of a loop
  that leaves it through `clear()`; `UNCHANGED` groups fields by the tuples `flags`, `lists`, `file`,
  `seeks`, `lifecycle`. The methods other threads call are operators on one
  channel (`PutPlaying`, `PutSeek`, `Setup`, `Launch`, `CloseStep` ...).
* `Main` EXTENDS `Decoder` - `main()`, the UDP thread, the handler, the
  next-state relation, the refinement mapping to `SyncPlayback` (operators
  `State`, `Cursor`, instance `Playback`) and the properties.
* `RpcServer` EXTENDS `Main` - the daemon loop and the methods.
* `EntryLists` - the abstract specification of the lists: entries in an order,
  each in one list at most.
* `Linklist` - the pointers of `linklist.cpp`. The state is one record `heap`
  with the fields of all entries and lists; each operation is an operator from
  heap to heap (`AppendTo` calls `Rem` as the code does), and `Link(h, a, b)` is
  the pair of assignments that make `b` follow `a`. `Order` reads a list back
  as a sequence, which maps the module to `EntryLists`.
* `DeviceWriter` - the inner loop of `run()` with the bytes of the movie, the
  buffer, and the pointer `buf`: the wait for the start before each buffer, a device
  that takes part of a write, or none, or cannot be reopened. Of the other threads
  there are the one that gives the start and the one that closes the channel.
* `Schedule` - pure: which playlist of `~/.ivysync` `load()` chooses
  (`Visited` is the order of `scandir()`, `Visit` a turn of the loop) and
  which lines it reads, each after `chomp()` (`ChompEach`). `Editor` EXTENDS
  `Schedule` - the handlers of `gui.cpp` on one channel, the wait of the play button
  in `launch()`, the save that fails or goes in the steps others can see (emptied,
  each line, closed), other writers of playlists, a player that starts at any time,
  and the clock.
* `Socket` - connections between two ends with a bounded buffer each way; the
  operators (`NbRead`, `NbWrite`, ...) return the set of what a call may do.
  `Dispatcher` - the list of sources of `XmlRpcDispatch`, pure.
  `XmlRpcServer` and `XmlRpcClient` EXTEND both; a turn of a
  `handleEvent()` is one step, which goes through as many stages as the data
  read allows, because nothing else runs in that thread and the network's part
  in it is only how much of what was sent has arrived. `XmlRpc` composes
  them with another peer of the server and with faults.
* `AtLeastOnce` - the abstract specification of a call: sent at most twice,
  executed at most as often as sent, answered only when executed. `XmlRpc`
  implements it.
* `XmlRpcValue` - the codec: values to tokens (`ToXml`) and back (`FromXml`),
  with offsets as the code moves them, entities, base 64. `RpcCalls` EXTENDS it -
  the request, what the server reads, the nine methods with the checks of their
  parameters, multicalls, the response, and what the client reads. The two
  use recursive operators, so they are for TLC alone.
* `MCMain`, `MCRpc`, `MCLinklist`, `MCEditor`, `MCXmlRpc`, `MCRpcCalls` -
  instances for TLC.
* `MainProofs` EXTENDS `Main` - the inductive invariant and the theorems: types,
  files, positions and silence; what a quit and a deletion promise, and how each
  channel goes through its list; the refinement of `SyncPlayback`.
* `RpcProofs` EXTENDS `RpcServer` and `MainProofs` - the player under remote control.
* `DeviceWriterProofs`, `LinklistProofs`, `XmlRpcProofs` - the theorems about those
  modules, each of which it EXTENDS; `CallProofs` EXTENDS the last - the answers,
  the refinement of `AtLeastOnce`, and failures.
* `FoldSteps` - a fold over a sequence, turn by turn, for any operation.
  `EditorProofs` EXTENDS `Editor` and is about it and `Schedule`; it INSTANCEs
  `FoldSteps` for each of the three loops.

Definitions marked "Broken on purpose" are variants with one plausible bug. Each
replaces the definition that follows it ("mutants" in `PROJECT.json`) and makes
the property it is listed with fail, which shows that the property depends on
that line of the code.

### From code to state

* A movie is a member of `Files` with a length in bytes; a buffer is `BufSize`
  bytes. `Readable` is what `fread` returns; a short count, or zero, is what
  sets `feof` (`decoder.cpp:315-319`).
* `write` takes any part of what is left (`Write`). A failed one changes no
  length and is retried by the loop, so it is the absence of a step. The
  pointer `buf`, which a failed write moves back by one (`decoder.cpp:332`), is
  not in this model.
* `poll` finding room is `FlushReady`; finding none matters only with `quit`
  set, when it ends the wait: `FlushQuit`. A device closed by `close()` polls
  as ready (POLLNVAL) and is reopened by `clear()`. One that could not be
  reopened (`fd` is -1, fault "reopen") is label "failed": its `poll` times out.
* `filepos` and `newfilepos` are integers; `offset` is where the C library's
  stream stands, `writing` the local variable. Lengths are far from 64 bits.
* An operation on a playlist (append all, empty) is one step.
* `fd` may not be 0 for an open device and `EOVERFLOW` cannot come from
  `fopen64`, so these branches (`decoder.cpp:266-274`) are left out;
  "falling down" (`decoder.cpp:211`) is in `Begin` but no channel of the list
  reaches it, as `init()` failing keeps the channel off the list.
* After the handler deleted the decoder `main()` points to, the behaviour of
  the program is undefined: `Dangling` goes to a label where everything stops.
  This is not a rare case: `main()` spends nearly all of its time in the
  `jsleep(1,0)` of its pass over the channels (label "sleep", `cmdline.cpp:448`), and
  reads `dec->next` after it. So of an interrupt it is said that the handler
  returns (`HandlerReturns`), never that the program ends.
* The handler and `main()` are one thread: `main()` steps only when the handler
  is not running. A signal is modelled once and without the daemon.
* In `RpcServer` the local `dec` of `Quit::execute` uses the variable `dec`,
  which `main()` no longer needs in its daemon loop. The arguments of SetPos
  and SetOffset are any integers: `flush()` passes over a negative `newfilepos`
  (`decoder.cpp:390`), unless it replaces a positive one between that test and
  its use, when `fseeko64` fails and the position is negative all the
  same. `DriftCorrect` therefore assumes that no request is to before the start
  (`Forward`), as in the run. `RequestAssumption` has no signal with the daemon.
* `DeviceWriter` has no seeks, pauses or stops: `Decoder` has them with byte counts.
  A write that fails leaves `written` at -1, and the next turn adds it to `buf`:
  what is left of that buffer is sent one byte early for each failure, beginning
  with what lies before the buffer. `BytesAtTheirPlace` says exactly that,
  and that no later buffer is touched; the number of bytes stays right
  (`SendsAllBuffers`). What lies before the buffer is one value, `Other`.
* With the editor, `main()` calls neither `setup()` nor `load()` and launches no
  thread: the list is the one of the command line, and a thread
  launched by the play button finds `quit` set and ends, with `running` and the
  mutex as `launch()` left them. So nothing plays from the editor. A press of play
  on a channel that does not run goes to "launching", and comes back
  (`Launched`) when the mutex is free; a second press before the thread has set
  `running` waits for a mutex nobody unlocks, and the window with it, although
  `thread.cpp:30` says that "the runner will unlock when ready".
  `HangsOnlyBeforeTheThread` says that no later press does. `pthread_create()`
  failing is left out here.
* Delete and drop are modelled as they are: the number in a row's text counts
  from 0 and `remove()` from 1. Delete takes, for each selected row, the entry of the
  row above, and none for the first row: `DeletesTheRowsAbove` says exactly this.
  `gui.cpp:136` says "all the selected", which the code does not do. A drop of
  number n (entry n + 1) copies entry n - 1 to the place of the drop and removes
  entry n, wherever that one has moved to: `DropCopiesTheEntryAbove`. So of
  `<<a, b, c>>` row number 2 dropped on itself leaves `<<a, c, a>>`: `b` is lost, where
  `gui.cpp:244` says "move entry". A drop that
  follows a NULL entry crashes the program ("crashed"). The mark of the row that
  plays is two below it. Rewind in mode LOOP sets position 0, which holds
  no movie.
* A file name is a record of its day, minute and device; `atoi` of "o5" makes
  every device of one digit number 0. A name whose date cannot be read leaves a
  `struct tm` as it was on the stack, and is left out.
* `load()` takes the blanks and tabs off both ends of a line with `chomp()`, and
  `save()` writes names as they are, so a name with a blank at an end comes back as
  another one. `Chomped` is what `chomp()` makes of each name, any function, and
  `SavedComesBack` compares with the saved names chomped. Lines longer than the
  1022 characters `fgets()` is given, and names with a newline in them, are left out.
  A save whose directory cannot be reached, or whose file cannot be opened, changes
  nothing (`SaveFails`). Errors of `fputs`, `fflush` and `fclose` (a full disk),
  which the code does not look at, are left out, and a kill during a save leaves
  the file as it was at that step.
* On a connection, a message is `HeaderLen + BodyLen` units, each of which
  names the call; a reset reaches an end after or before what is under way; a
  write to an end that closed gets SIGPIPE the second time and kills the process
  (`fate`). Numbers of descriptors are the connections' own. SSL, failures of
  `setNonBlocking()` and requests sent before the response of the last one are
  left out. `XmlRpcSource::close()` reads `_ssl_ssl` after `delete this`, and nothing sets it in a
  connection of the server (`XmlRpcSource.cpp:28-37`): even without SSL a close may
  crash the server, as memory happens to be. The model's close is clean, so
  `WatchedAreOpen`, `FailsOnlyByFault` and `PeersAreAccepted` speak of a server that
  survives its closes. A retry that removes the client's own source while the
  dispatcher is at it (`XmlRpcClient.cpp:429`) is a use of freed memory; the
  client goes to "undefined" where that matters.
* A document is a sequence of tokens, one for a tag, a number, a character or part
  of an entity. Doubles are counted in ten millionths. Names of struct
  members are encoded by `toXml` and not decoded by `fromXml`; the names in use
  need neither. Dates are left out. A multicall within a multicall is not among the calls: the
  code gives it the parameters of the outer one again, without end
  (`XmlRpcServer.cpp:423`). Open keeps a pointer into a string that is
  destroyed (`xmlrpc.cpp:141`); it is modelled as the path, which it is where copies of
  strings share their characters. `GetOffset` narrows an offset to an int;
  the constant `Offset` is the narrowed one. SetPos and SetOffset answer the
  same empty string to a call they execute and to one with too few parameters, and
  `ivysync-remote.py` reports success without looking at the answer, so
  `OneMeansDone` is about the other methods.
* `EXIT` ends all threads: once `main` is "exited" or "undefined" nothing steps
  but `Ended`.

## 3. Runs

| Run | Instance | Checks |
|---|---|---|
| `single` (`MCMain.cfg`) | 2 channels, mode SINGLE (the default), a movie of two buffers on the command line, and a loaded list of a movie of one and a half | types, silence before the start, open files, positions, what is complete at exit, refinement of `SyncPlayback`, termination |
| `signals` (`MCMainSignals.cfg`) | 2 channels in modes CONT and PLAY, one of whose entries is missing; start by datagram; one signal at any point; `setup()` and `launch()` may fail | the cursor at the ends of the list, silence of deleted channels, refinement, no new buffer after `quit`, the handler returns once the start was given |
| `remote` (`MCRpc.cfg`) | 1 channel in mode LOOP under the daemon, with every method, in any order and number | open files, drift of the position under seeks, Stop ends the movie, Quit ends the program |
| `writer` (`MCWriter.cfg`) | a movie of 8 bytes twice, a buffer of 3, a device that holds 2, up to 4 failures in a buffer | which bytes the device gets, that all are sent, where alone a thread told to quit can be left for ever: the wait for the start, or a write to a device that was not reopened |
| `linklist` (`MCLinklist.cfg`) | 4 entries, created, deleted and put in 2 lists by any sequence of calls | pointers of a list agree both ways, with its length and its entries; refinement of `EntryLists`; where an insertion lands, at each position and of an entry of any list |
| `editor` (`MCEditor.cfg`) | a list of 3 that grows to 4, 4 presses, playlists of 2 days and 2 devices, on both sides of the hour, one at midnight | the saved list comes back chomped, whole or up to a line, also when a later save fails; the latest playlist due is chosen; which entries a delete takes, and what a drop copies and loses; when a press of play hangs |
| `rpc` (`MCXmlRpc.cfg`) | a client with 2 calls, a peer with one (that closes, or lacks its length, or sends a part), 4 connections of 2 units each way, a message of 3 units, one fault anywhere | watched descriptors are open, answers belong to calls, calls fail only by a fault, refinement of `AtLeastOnce`, calls return, peers are accepted |
| `data` (`MCRpcCalls.cfg`) | 6,624 calls: every method with no, one and two parameters of every type and nested ones, what the remote control sends, all multicalls of up to 3 of 12 calls | parameters and answers arrive unchanged, what 1, 0 and a fault say of what was done, a multicall is its calls one by one |
| `launch_no_wait` (`MCMainLaunch.cfg`) | as `signals`, no faults | violated: a deleted channel's thread is over |
| `rpc_never_starts` (`MCRpcPlay.cfg`) | the daemon without UDP | violated: Play plays |
| `open_then_play` (`MCRpcOpen.cfg`) | the daemon, mode SINGLE, Open and Play | violated: a Play after an Open plays the opened file |
| `not_today` (`MCEditorToday.cfg`) | as `editor`, nobody presses a button | violated: a dated playlist that is loaded is one of today |

The last four each check one property that states what a document, comment or
help text of the repository says, and show that the code does otherwise; they
are explained under "findings" in `PROJECT.json`.

The daemon of the run `remote` is a build with both `WITH_XMLRPC` and
`WITH_UDP`. The two macros are independent in the source, but
`Makefile.xmlrpc` defines only the first, and in that build the start is never
given (`rpc_never_starts`), so there would be nothing to check of playback.

In `linklist` an operation is a step: the editor and the parser of options run
in one thread. Entries are interchangeable, so `Entries` is a symmetry set (the
properties are safety). Four entries in a list give one with two neighbours on
each side or none, whatever the operation. `MaxPos`, the one
bound, is a position past the longest list; beyond it all positions are alike. `insert_after()` and `move()`, called
by nothing, are left out; read by hand, `move()` to the place of a neighbour
links an entry to itself. `Empty` of a decoder is `DeleteAt(l, 1)` until the
list is empty. What a playing thread sees while another empties its list is not
in this module.

Bounds. Two channels are enough for a channel to be compared with another and
for `main()` to be at one while the handler deletes the other. Movies of 3 and
4 bytes with buffers of 2 give a last buffer that is partial, one that is exact,
and writes that take a part. There are no counters to bound: all variables are
finite by themselves, since seeks stay within the movie and lists are replaced,
not extended, by Open. In `writer`, 8 bytes in buffers of 3 give two whole
buffers and a partial one, and a device that holds 2 cuts every one of them;
`MaxLate` bounds the failures of a buffer, more than its length so that the
pointer leaves it. In `editor`, `MaxPresses` bounds what the user does (a drag, a
drop, a save and one more), `MaxLength` the list and a drag, `LastDay` the clock.
In `rpc`, messages longer than the connection's buffer make every write partial,
four connections leave one for a retry of each call and one for the peer, and
`MaxFaults = 1` puts a reset, an interrupted `select()` or a failed `accept()`
at every point of every behaviour; two faults in a row are not looked at. In
`data` the texts are those that a parser may take for something else, binaries
have every remainder of a group of three and one has more than a line.

Fairness (`FairSpec`). `WF` of each channel's thread and of main's thread: the
scheduler runs every thread, `poll` reports room and `write` succeeds again and
again, as the video devices consume data at a constant rate. `jsleep` loops are
waits, so that a thread whose flag is not set has no step. No fairness for the
signal, the datagram, or the requests. In `RpcFairSpec` the return of `work()`
is strongly fair: it is called with a limit of time and returns whatever
requests come (`WorkEnds` competes with `Receive`); each step of a method is
weakly fair.
In `rpc`, the server's thread goes on (`WF` of `Runs`); `select()`
returns, again and again when connections have data, all of those that have
(`SF`: the kernel delivers what was sent, but not always before the first return);
the client's thread goes on (`WF` of its `Turn`). Nothing is fair about the other
peer, which may send half a request and wait. In `writer`, `WF` of the thread
and of the device, which shows what it holds; failures of writes need no bound
for `QuitLeaves`, since a device that is open has room again. The start is not fair
there, since a datagram may never come: the wait for it is one of the two places
`QuitLeaves` names.

`EndsByItself`, `HandlerReturns`, `StopEndsMovie` and `QuitEnds` are stated once
the start was given, because before it they are false: the wait of
`decoder.cpp:327` looks at no other flag, and `close()` joins a thread that sits
in it, although the handler tells the user to "please wait while quitting threads"
(`cmdline.cpp:116`).

The deadlock check is on for the players, the lists and the editor: the program has no state in
which all threads wait, other than those in which it waits for a datagram or a
user, who in the model may always act, or has ended (`Ended`). It is off in
`writer` (the thread ends, or has used up `MaxLate`), `rpc` (the client makes no
more calls and the daemon waits for requests) and `data` (a call is over).

No run shows that the start waits for channels to be ready, and none could: it is
given 500 ns after the last thread was created (`cmdline.cpp:405`), and a
channel that is late starts late.

## 4. Proofs

All theorems hold for every value of the constants the named assumptions allow:
any number of channels, movies of any length, any buffer, lists, modes and
faults, with or without UDP and signals; any requests; any entries and lists. TLC
checked each inductive invariant on the instances first.

| Module | Theorem | States |
|---|---|---|
| `MainProofs` | `TypeCorrect`, `FilesCorrect`, `PositionsCorrect`, `SilenceCorrect` | `TypeOK`, `OneMovieOpen`, `PositionIsOffset`, `NothingBeforeStart` |
| `MainProofs` | `QuitCorrect`, `SilentCorrect`, `PickCorrect`, `CompleteCorrect` | `QuitStopsReading`, `DeletedIsSilent`, `PickFindsEntry`, `CompleteAtExit` |
| `MainProofs` | `SyncCorrect` (if `OnlyWhole`) | `PlaysInSync`: `Main` implements `SyncPlayback` |
| `RpcProofs` | `RpcTypesCorrect`, `RpcFilesCorrect`, `DriftCorrect` (if `Forward`) | `RpcTypeOK`, `OneMovieOpen`, `DriftBounded` |
| `DeviceWriterProofs` | `PlacesCorrect`, `BuffersCorrect` | `BytesAtTheirPlace`, `SendsAllBuffers` |
| `LinklistProofs` | `LinkTypesCorrect`, `LinksCorrect`, `OrderCorrect`, `InsertCorrect` | `TypeOK`, `WellFormed`, `KeepsOrder` (`Linklist` implements `EntryLists`), `InsertLands` |
| `XmlRpcProofs` | `XmlRpcTypesCorrect`, `WatchedCorrect` | `TypeOK`, `WatchedAreOpen` |
| `CallProofs` | `AnswersCorrect`, `AtLeastOnceCorrect`, `FailsCorrect` (if `OwnHeaders`) | `AnswersTheCall`, `ImplementsAtLeastOnce`: `XmlRpc` implements `AtLeastOnce`, `FailsOnlyByFault` |
| `EditorProofs` | `EditorTypesCorrect`, `SavedCorrect`, `ScheduleCorrect`, `DeletesCorrect`, `DropCorrect`, `HangCorrect` | `TypeOK`, `SavedComesBack`, `LatestDue`, `DeletesTheRowsAbove`, `DropCopiesTheEntryAbove`, `HangsOnlyBeforeTheThread` |
| `FoldSteps` | `FoldLeftSteps` | every fold over a sequence has its steps |

### MainProofs

None of the four is inductive alone; `Inv` adds, for each channel: that a movie
has been chosen at the labels that open or play one; what `ret` may be at each
label of a subroutine (without it `clear()` might return into another loop);
that the buffer is empty outside the writing loop (without it a new movie would
start with bytes of the previous one); that no seek is pending, as only the
daemon asks for one; that a thread past "none" has had its mutex taken, so that
`launch()` cannot restart it in the middle of a movie. `MainInv` bounds the
count of running channels within a pass, and says that the handler has a channel
in hand while it closes one. `ThreadTypes` and `ThreadChannels` take the steps
of a channel one by one; `OthersTypes` and `OthersOutside` those of everybody
else, and `OutsideChannels` says that a step outside a channel's loop
keeps what is known of the loop.

### MainProofs: quitting, and the way through the list

First the end of a channel (`ExitInv`):

* `QuitCorrect` is an action property. Of all steps
  only `Inner` leads a thread to the labels before a read from elsewhere, and
  it looks at `quit`; that the other loops do not return there needs `Inv`
  (what `ret` may be).
* `SilentCorrect`: `close()` joins a thread only if
  `running` is set, and the run `launch_no_wait` shows a deleted channel whose
  thread is not over. It is silent all the same, since the thread sets `running`
  before anything else and `close()` sets `quit` before it reads `running`:
  a thread that is not joined has yet to meet its first test of `quit`. `EndOf`
  says this: `Closed` (past the wait, or deleted) implies `Leaving` (not begun,
  over, or between the head of the outer loop and the end).

Then its way through the list. `ListInv` adds, for each channel and to `ExitInv`:

* `PosOf`: where the cursor is at each label. In mode PLAY it is one ahead of
  the entry between the increment and the wrap, so "on the list" is not
  invariant by itself; from "check" to "pick" it is on the list, or at 1 on an
  empty one.
* `AskedOf`: a channel main() has not asked to play has had no movie; one that
  was asked, and does not play any more before the handler runs, has sent its
  first movie to the last full buffer (or its list is empty or the entry
  missing) and is back in its waiting loop. This is what `CompleteAtExit` is
  when main() has counted no channel. `Preparing` says how far main() is with a
  channel, and nothing once the handler runs: it closes the channel for good.
* `PlayedOf`: the same at the places of the thread where it is about to give
  up: at "unplay", and in mode SINGLE back at the head of its loop.
* `EndsOf`: a thread ends, or leaves a movie early, only when it was told to;
  without the daemon nobody seeks. `PassOf`: the pass of main() over the
  channels, one by one.

Who steps matters: a thread reads flags main() is setting, so each
part is kept first by the thread's own steps (label by label), then by main()'s,
then by the handler's, whose steps touch one field of one channel.

### MainProofs: the refinement

Every step of the program is a step of `SyncPlayback` or leaves what it speaks of
as it is. `ViewStep` says what a step does to one channel as the promise sees
it - its state, its cursor, the bytes it has sent - and `LiftView` makes a
step of the promise of it when the other channels stand still (`Alone`). The three
functions of the mapping (`State`, `Cursor`, `Sent`) are then those of all
channels at once (`Lifted`). Main's own steps follow: arming, loading, the start,
closing.

`OnlyWhole` is a hypothesis, and it is needed. A channel in mode SINGLE stops
after its movie: `update()` sets `stopped`. `play()` sets `playing` and then clears
`stopped` (`decoder.cpp:399-400`), so a thread that has left its movie between the
two loses the stop and opens the movie again; TLC finds this when the movie is
missing, when it is shorter than a buffer, or when a datagram gives the start before
`main()` is at that line. `OnlyWhole` excludes it: the movies of a
channel in mode SINGLE open and fill a buffer, and `main()` gives the start, after
all calls of `play()`. `OnceOf` and `StartOnce` carry the argument. Channels in the
other modes need no hypothesis.

### RpcProofs

What a thread does is the same as without the daemon, so its control is proved with
the lemmas of `MainProofs` (`ControlOf`). The positions are not: a seek may be pending
and may change between its test and its use in `flush()`. `DriftOf` says what is left:
the position runs ahead of the file by what was still to be written when the last
seek came, which is less than a buffer. `ServerInv` ties the label of the server to
the method of its request, so that a path is appended only by Open.

### DeviceWriterProofs

`WriterInv` has three parts beside the types. `ReadWhole`: buffers were read whole, so
`offset` is a multiple of their size up to the buffer the movie does not fill.
`PointerKnown`: in the writing loop `buf` stands as far into the buffer as bytes of it
were taken, less one for each write that failed. `BytesRight`: what was sent is known
from these. The multiples of `BufSize` need care: the prover has no
nonlinear arithmetic, so `ReadWhole` names the number of buffers read.

### LinklistProofs

A walk from the first entry says little about what an operation does in the middle of
it. `Chain(h, l, q)` ties every pointer of list `l` to a place of a sequence `q`
instead: next of place i is place i + 1, the ends are the ends, and the entries that
name `l` are those of `q`. `LinkInv` says that each list is the sequence read from
it. `WalkIs` shows that the walk, a recursive function, gives `q` back (by
least counterexample, since the library's theorems of induction cannot be used here). Then each
operation is one of three changes of one sequence - `ChainInserted`,
`ChainRemoved`, `ChainSwapped` - and leaves the other lists alone
(`ChainKept`). That an entry's stale pointers do no harm comes out by itself:
`Chain` speaks only of entries that name the list.

### XmlRpcProofs

`ServerInv` says that the dispatcher has one entry per source (`Distinct`), that its
sources are the listener and exactly the ends the server has open, and that what
is left of a pass over the ready sources is among those that were watched. The hard
part is that handlers change the list the pass goes through (`XmlRpcDispatch::work()`):
`AddDistinct`, `RemoveDistinct` and `SetMaskDistinct` are what the calls on the
dispatcher keep, `HandleEventOutcome` what one event may do to a connection
object. A request must be complete before it is executed (`Objects`), and
reading or writing a connection leaves its ends alone (`ReadJoins`, `WriteJoins`),
so that only `CloseJoins` changes what is open.

Other processes share the connections: a step of the client, or of the other
peer, keeps the server's ends (`Nets`, `ElsewhereStep`). For a turn of the client
`Fit` says that its descriptor, its state and its dispatcher agree whatever stage the
turn stops at, and `Retried` that it sets the request up again at most once, hence
`tries` stays at most 2. Any number of connections will do: one is only made
while one is left.

### CallProofs

That a connection has ends and bounded buffers says nothing of what is in them.
`CallInv` adds to `XmlRpcInv`:

* `Lines`: every connection carries one call (`Line`). Its request is on its way
  (`Asking`: what the server has taken and what is left in the buffer are together
  what the caller has written), or it was executed and its answer is on its way
  (`Answering`), or the answer was written and the object waits for another
  (`Over`). The client's own line (`Own`) agrees with its state. This is why a kept
  connection holds nothing of the call before when the next one is written
  (`LineEnds`, `KeptLine`), and so why an answer is to the right call: the client
  has taken the whole response before it is `IDLE`, and the server has cleared its
  buffers.
* `Accounts`: of each of the client's calls, the times it was executed and the
  connections that still owe it (`Debt`) are together no more than the times its
  request was set up. A request that was sent and whose connection was
  closed by the client may still be executed; setting it up again adds one to
  both sides, executing it moves one from the debt, and a connection that is reset
  only forgives it.
* `Order` (a call returned before the next began), `Answers`, and that no time
  out is set while the client waits, so that a turn ends a call only by an event.

A step of the server is a `Keeps` for each connection, with at most one call
executed (`Executed`); a step of the client `Follows` from the state before,
through all stages of its turn (`Says`), with at most one request set up; the other
peer moves on its own connection (`PeerMoves`). These three (`Moves`) are all the
refinement needs of a step: `StartPromised`, `TurnPromised` and `RunPromised` make
each one a step of `AtLeastOnce` or a stutter. What execute() returns must be told
from a call, so `ClientAssumption` says that `"none"` and `"false"` are not calls.

`FailsCorrect` needs a second invariant, `CalmInv`: until a fault, and while the server
takes connections, the client's connection is `Sound` (not reset, neither end closed),
the server's object keeps it alive, and nothing was returned as failed. The server's
stages on such a connection go on (`Serving`), the client's go on or end with the
whole response (`Attached`); a call that is begun finds the kept connection, or makes
one that is not refused (`SetupCalm`). `CallInv` is used for one thing: what the
server reads there is the client's present call, so that no header but the client's own
decides whether it is closed. Hence the theorem's hypothesis, `OwnHeaders`: connections
are kept, which every constructor of `XmlRpcClient` says and nothing takes back
(`XmlRpcClient.cpp:47`), and the client's headers, which `generateHeader()` makes
(`XmlRpcClient.cpp:342`), have a length and do not ask for the connection to be closed.
Without it the property is false: a header of the second kind makes the server close, and
with `setKeepOpen(false)` the state is reset before execute() looks for `IDLE`.

### FoldSteps and EditorProofs

The editor's handlers and `load()` are loops: over the rows to delete, over the rows
dropped, over the names in the directory. In the model each is a `FoldLeft`. The library
defines that by way of the sets of indices that are left, through a recursive function
that is chosen, so nothing is known of it until such a function is shown to exist
(`FoldsExist`). `FoldLeftSteps` gives what the proofs need: a function `g` with
`g[0]` the base, `g[i]` the operation applied to `g[i - 1]` and the i-th element, and
`g[n]` the fold. `FoldSteps` has the operation as a CONSTANT; `Moves`, `Removes` and
`Visits` are its instances. `Climb` is induction up to a number, on the set of
numbers for which something holds.

Each loop then has an invariant of its own, kept by one turn:

* Deleting (`DeletesKeep`, one turn `RemoveKeeps`): what is left is the list at an
  ascending sequence of places, those not removed so far (`Keeps`); and the places
  before the next number are all there (`Start`), so the number is still the place
  of its entry. The second part needs the reversal in the code; without it the property
  is false (`DeleteFromTop`). In the end the places are those of all entries whose
  place is not the number of a selected row, which is the row below, and there is only
  one way to put a set of numbers in order (`InOrderIs`).
* Dropping (`MovesKeep`, one turn `MoveOneKeeps`): a turn whose number is in the list
  inserts one entry and removes one, wherever the row has come to, so the length stays
  and the next number is in the list too. `MoveOneCopiesAbove`, for one row:
  the list with one entry more has the copy at one place and the entry at the number
  at another; which of the two comes first is what the test `row < number - 1` decides,
  and taking both away leaves what taking the number's entry from the first list leaves.
  On row `number - 1` what is removed is the entry that was copied, and nothing changes.
* Choosing (`PlaylistIs`, one turn `VisitSelects`): the selection is the latest of
  the names visited so far that are due, or the saved list at time 0 (`Selects`).
  This needs the order: in the alphabet a name without a date follows all that have
  one, and the loop starts from the end, so it is visited first and overrides
  nothing (`VisitedAre`). And `ForDevice`, which finds "video1" in "video16",
  does no harm since numbers have two digits and a number of one digit is read as 0
  (`NamesAre`).

`IInv` is the invariant of the steps: `ListInv` (the list is of movies and no longer
than its bound, the rows show it, the numbers dragged are below the bound), `ChannelInv` (a mutex
that is held has a thread that is to begin, or has set `running`), `DirInv` (the directory is finite and its names are names, which is what `PlaylistIs`
asks for) and `FileInv`. The last says more than `SavedComesBack`: while the file is
written, what was saved is the list, since nobody can change the list then; without it
the next part written need not be a part of what was saved. It says that the file is whole while
the window waits in `launch()` too, as it may come back from there; after a crash the program
never gets back to "idle", which is what lets the property speak of the whole file
there. What a player reads is the file chomped line by line, and `ChompBegins` takes a
beginning of the one to a beginning of the other.

The assumptions: the file chooser and the command line give sequences, of no more
movies than the bound; `chomp()` gives a text for each of their texts, any one; the name `save()` writes is a name; a name without a date has no
time either, as there is nothing in it to read one from; times are minutes of a day
and device numbers have two digits. A set in order is
`InOrder`, and adding a file to the directory is a function written out: the operators
of the standard library for both (`SortSeq`, `@@`) have no definition the
prover can expand.

### Only model-checked

The three properties of `RpcCalls`,
and all liveness, which the proof system does not reach (neither fairness nor ENABLED). What
`ToXml` and `FromXml` do for values of any depth is a recursion over trees, written with
recursive operators, in whose presence the prover has no arithmetic; the folds
of `FoldSteps` do not help there. With the daemon `PositionIsOffset` does not hold, which is
why `DriftBounded` is stated.

## 5. Plan

The modules are written and every safety property of the runs is proved but those of
`RpcCalls`, which would need the codec as recursive functions over a bounded depth.

Of the code, what further runs might look at: the daemon in mode CONT and with two channels; two
faults in a call; a reader that walks a list while another thread empties it.

## 6. Not modelled

Option parsing, logging, the building and drawing of windows, sockets' set-up,
priorities; SSL, dates and introspection in the library; the scripts, and the UDP tools, which only
send what the environment of the models sends; memory (`calloc` failing is the
fault "setup"). Freed memory used by a thread is modelled only as "undefined" in
`main()`, and what `XmlRpcSource::close()` reads of a deleted connection not at all; a thread that keeps a deleted entry's name (`decoder.cpp:356`) prints
it and does nothing else with it. A disk that fills during a save, and names
longer than a line of `load()`. `Linklist::insert_after()`, `move()`,
selection, search and completion are called by nothing.

## 7. Running

    tlc -workers 2 -config MCMain.cfg MCMain
    tlc -workers 2 -config MCRpc.cfg MCRpc
    tlc -workers 2 -config MCLinklist.cfg MCLinklist
    tlc -workers 2 -config MCWriter.cfg DeviceWriter
    tlc -workers 2 -config MCEditor.cfg MCEditor
    tlc -workers 2 -config MCEditorToday.cfg MCEditor      (a violation)
    tlc -workers 2 -config MCXmlRpc.cfg MCXmlRpc
    tlc -workers 2 -config MCRpcCalls.cfg MCRpcCalls
    tlapm MainProofs.tla
    tlapm RpcProofs.tla
    tlapm DeviceWriterProofs.tla
    tlapm LinklistProofs.tla
    tlapm XmlRpcProofs.tla
    tlapm CallProofs.tla
    tlapm FoldSteps.tla
    tlapm EditorProofs.tla

A proof module takes one to six minutes.
