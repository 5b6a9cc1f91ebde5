------------------------------- MODULE MCMain -------------------------------
(***************************************************************************)
(* Instances of Main: two channels and three movies, one empty, one that   *)
(* ends in the middle of a buffer and one that fills two exactly.          *)
(***************************************************************************)
EXTENDS Main, TLC

CONSTANTS empty, odd, even, gone

MCFiles == {empty, odd, even, gone}
MCMissing == {gone}
MCSize == empty :> 0 @@ odd :> 3 @@ even :> 4 @@ gone :> 0

\* One channel has its movie on the command line, the other loads what it
\* plays.
MCGiven == <<<<even>>, <<>>>>
MCSaved == <<<<>>, <<odd, even>>>>
MCSingle == [d \in 1..N |-> "SINGLE"]

\* Channels that never end by themselves, one with an entry it cannot open.
MCGivenRepeat == <<<<odd>>, <<gone>>>>
MCSavedRepeat == <<<<>>, <<odd>>>>
MCRepeat == <<"CONT", "PLAY">>
=============================================================================
