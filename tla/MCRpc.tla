-------------------------------- MODULE MCRpc --------------------------------
(***************************************************************************)
(* Instances of RpcServer: one channel, a movie given on the command line  *)
(* and another one the client opens.                                       *)
(***************************************************************************)
EXTENDS RpcServer, TLC

CONSTANTS odd, even

MCFiles == {odd, even}
MCSize == odd :> 3 @@ even :> 4
MCGiven == <<<<odd>>>>
MCSaved == <<<<>>>>
MCLoop == <<"LOOP">>
MCSingle == <<"SINGLE">>

Req(m, a) == [method |-> m, dec |-> 1, arg |-> a]

MCRequests ==
  {Req("Play", 0), Req("Stop", 0), Req("Pause", 0), Req("Open", even),
   Req("SetPos", 50), Req("SetOffset", 1), Req("Quit", 0)}
MCPlayOnly == {Req("Play", 0)}
MCOpenPlay == {Req("Play", 0), Req("Open", even)}
=============================================================================
