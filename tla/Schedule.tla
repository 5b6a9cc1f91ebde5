------------------------------ MODULE Schedule ------------------------------
(***************************************************************************)
(* The playlists kept in ~/.ivysync and the choice Decoder::load() makes   *)
(* among them at the start of a player (decoder.cpp).                      *)
(*                                                                         *)
(* The name of a file is a record: "video16" has no date, day = 0, and     *)
(* "12Aug08-0930-video16" has the place of its day among all days in       *)
(* alphabetical order, and the minute of the day.  Device numbers have two *)
(* digits at most.  A content is what the lines say, and whether something *)
(* follows the last newline.  Of a line only what chomp() makes of it      *)
(* matters: blanks and tabs at its ends are not read.                      *)
(***************************************************************************)
EXTENDS Integers, SequencesExt

CONSTANTS
  Device,      (* Number at the end of the device's path, /dev/video16.     *)
  Names,       (* The names of playlists that may be in the directory.      *)
  Chomped,     (* What chomp() leaves of each text: a function.             *)
  Unfinished   (* A line that has no newline yet.                           *)

\* A name that has no date has no time.
ASSUME ScheduleAssumption ==
  /\ Device \in 0..99
  /\ Names \subseteq [day : Nat, at : 0..1439, video : 0..99]
  /\ \A f \in Names : f.day = 0 => f.at = 0
  /\ Chomped \in [DOMAIN Chomped -> DOMAIN Chomped]

\* init() reads the last two characters of the path: "o5" is the number 0.
device_num == IF Device < 10 THEN 0 ELSE Device

Default == [day |-> 0, at |-> 0, video |-> device_num]

\* playlist_selector(): the date of today, or "video", which all names have.
Listed(f, today) == f.day = today \/ f.video \in 0..99

\* The elements of a finite set in an order, each at its rank: SetToSortSeq,
\* but defined in a way that can be reasoned about.
InOrder(S, Before(_, _)) ==
  LET rank(x) == Cardinality({y \in S : Before(y, x)}) + 1
  IN  [i \in 1..Cardinality(S) |-> CHOOSE x \in S : rank(x) = i]

\* strstr(name, "video1") also finds "video16".
ForDevice(f) ==
  \/ f.video = device_num
  \/ device_num > 0 /\ f.video \div 10 = device_num

\* The names in the order they are visited: alphasort, from the last one.
\* Letters sort after digits, "video1" before "video10" before "video2".
Visited(names) ==
  LET digits(n) == IF n < 10 THEN 11 * n ELSE 11 * (n \div 10) + (n % 10) + 1
      later(m, n) == m > n
      before(f, g) ==
        \/ f.day = 0 /\ g.day # 0
        \/ /\ f.day = 0 <=> g.day = 0
           /\ \/ f.day > g.day
              \/ f.day = g.day /\ f.at > g.at
              \/ /\ f.day = g.day /\ f.at = g.at
                 /\ later(digits(f.video), digits(g.video))
  IN  InOrder(names, before)

\* Broken on purpose: does not compare with the time selected before.
VisitForgets(sel, f, now) ==
  IF ~ForDevice(f) THEN sel
  ELSE IF f.day = 0 THEN [sel EXCEPT !.name = f]
  ELSE IF f.at > now THEN sel
  ELSE [name |-> f, at |-> f.at]

\* One turn of the loop over the names: sel is the selection so far.
Visit(sel, f, now) ==
  IF ~ForDevice(f) THEN sel
  ELSE IF f.day = 0 THEN [sel EXCEPT !.name = f]
  ELSE IF sel.at >= f.at \/ f.at > now THEN sel
  ELSE [name |-> f, at |-> f.at]

\* ThePlaylist, of the names in the directory, at a day and a minute.
ThePlaylist(names, today, now) ==
  LET filelist == Visited({f \in names : Listed(f, today)})
      visit(sel, f) == Visit(sel, f, now)
  IN  FoldLeft(visit, [name |-> Default, at |-> 0], filelist).name

ChompEach(lines) == [i \in DOMAIN lines |-> Chomped[lines[i]]]

\* Broken on purpose: takes the end of the file for the end of a line.
ReadAll(content) ==
  IF content.cut THEN Append(ChompEach(content.lines), Unfinished)
  ELSE ChompEach(content.lines)

\* The names load() appends, a line each: the end of the file comes with the
\* last line when it has no newline, and is tested first.
Read(content) == ChompEach(content.lines)
=============================================================================
