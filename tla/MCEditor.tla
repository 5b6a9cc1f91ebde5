------------------------------ MODULE MCEditor ------------------------------
(***************************************************************************)
(* An instance of Editor: a list of three movies that may grow to four,    *)
(* and files of two days and of two devices.                               *)
(***************************************************************************)
EXTENDS Editor

CONSTANTS a, b, c, bare

\* The name of b has a blank at its end, the others are as chomp() leaves them.
MCChomped ==
  [m \in {a, b, c, bare, Unfinished} |-> IF m = b THEN bare ELSE m]

MCName(day, at, video) == [day |-> day, at |-> at, video |-> video]

\* Both days, both sides of the hour, midnight, and another device.
MCNames ==
  {MCName(0, 0, 16), MCName(1, 0, 16), MCName(1, 545, 16), MCName(2, 540, 16),
   MCName(2, 545, 16), MCName(1, 545, 17)}
MCTimes == {540, 560}
MCGiven == <<a, b, c>>
MCChooser == {<<b>>}
MCContents == {[lines |-> <<c>>, cut |-> TRUE]}
=============================================================================
