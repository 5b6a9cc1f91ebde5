------------------------------- MODULE XmlRpc -------------------------------
(***************************************************************************)
(* A client, a server and the network between them, and one more peer of   *)
(* the server, of which nothing is known but that it sends a request or    *)
(* part of one, and may hang up whenever it likes.                         *)
(***************************************************************************)
EXTENDS XmlRpcServer, XmlRpcClient

CONSTANTS Theirs,       \* the calls the other peer may make, one of them
          MaxFaults     \* faults of the environment in a behaviour

ASSUME XmlRpcAssumption ==
  /\ Theirs \subseteq Calls
  /\ \A i \in DOMAIN Wanted : Wanted[i] \notin Theirs
  /\ MaxFaults \in Nat

VARIABLES peer,         \* the other peer: its connection, call, and what it has sent
          faults        \* faults so far

vars == <<net, listening, serverVars, clientVars, peer, faults>>

Init ==
  /\ net = [c \in Conns |-> NoConnection]
  /\ ServerInit
  /\ ClientInit
  /\ \E x \in Theirs : peer = [fd |-> NoFd, call |-> x, sent |-> 0]
  /\ faults = 0

PeerConnects ==
  /\ peer.fd = NoFd /\ peer.sent = 0
  /\ listening
  /\ \E c \in Fresh(net) : /\ peer' = [peer EXCEPT !.fd = c]
                           /\ net' = [net EXCEPT ![c] = Connected]

PeerSends ==
  /\ peer.fd # NoFd /\ peer.sent < HeaderLen + BodyLen
  /\ LET w == NbWrite(net[peer.fd], "client", Message(peer.call), peer.sent)
     IN  /\ w.status = "ok" /\ w.written > peer.sent
         /\ net' = [net EXCEPT ![peer.fd] = w.net]
         /\ peer' = [peer EXCEPT !.sent = w.written]

PeerReads ==
  /\ peer.fd # NoFd
  /\ net[peer.fd].data["client"] # <<>>
  /\ net' = [net EXCEPT ![peer.fd].data["client"] = <<>>]
  /\ UNCHANGED peer

PeerHangsUp ==
  /\ peer.fd # NoFd
  /\ net' = [net EXCEPT ![peer.fd] = CloseEnd(@, "client")]
  /\ peer' = [peer EXCEPT !.fd = NoFd, !.sent = HeaderLen + BodyLen]

PeerStep ==
  /\ PeerConnects \/ PeerSends \/ PeerReads \/ PeerHangsUp
  /\ UNCHANGED <<listening, serverVars, clientVars, faults>>

Fault ==
  /\ faults < MaxFaults
  /\ faults' = faults + 1
  /\ \/ (\E c \in Conns : Reset(c)) /\ UNCHANGED <<listening, serverVars, clientVars>>
     \/ (SelectInterrupted \/ AcceptFails) /\ UNCHANGED clientVars
     \/ Turn(FALSE) /\ UNCHANGED serverVars
  /\ UNCHANGED peer

ByServer(step) == step /\ UNCHANGED <<clientVars, peer, faults>>

ByClient(step) == step /\ UNCHANGED <<serverVars, peer, faults>>

(* Nobody has anything to do but the daemon, which waits for requests.     *)
Next ==
  \/ ByServer(ServerNext)
  \/ ByClient(ClientNext)
  \/ PeerStep
  \/ Fault

Spec == Init /\ [][Next]_vars

(* The server's thread runs, and time and again select() finds all that    *)
(* was sent to have arrived.  The client's thread runs.                    *)
Runs == Work \/ Quits \/ (\E timeUp \in BOOLEAN : EndPass(timeUp))
          \/ AcceptConnection \/ (\E c \in Conns : HandleConnection(c))

FairSpec ==
  /\ Spec
  /\ WF_vars(ByServer(Runs))
  /\ SF_vars(ByServer(Select({s \in Watched(sd) : HasEvent(s)})))
  /\ WF_vars(ByClient(Turn(TRUE)))

-----------------------------------------------------------------------------
(* Types of the connections, the server, the client and the peer.          *)
TypeOK ==
  /\ NetTypeOK /\ ServerTypeOK /\ ClientTypeOK
  /\ peer \in [fd : Conns \cup {NoFd}, call : Theirs, sent : 0..(HeaderLen + BodyLen)]
  /\ faults \in 0..MaxFaults

(* The dispatcher of the server watches the listener and every connection  *)
(* that is open, and nothing else: no descriptor is lost, and none that is *)
(* closed is given to select().                                            *)
WatchedAreOpen ==
  Watched(sd) = {c \in Conns : net[c].end["server"] = "open"}
                  \cup (IF listening THEN {Listener} ELSE {})

(* execute() returns true only with the response of the call it was asked  *)
(* for, and of no earlier one.                                             *)
AnswersTheCall ==
  \A x \in Calls : result[x] \in Calls => result[x] = x

(* A call made while the server lives and nothing fails is not returned as *)
(* failed.                                                                 *)
FailsOnlyByFault ==
  (\E x \in Calls : result[x] = "false") =>
    faults > 0 \/ ~listening \/ spc = "ended"

(* Every call returns, unless the client process is gone.                  *)
CallsReturn == []<>(cpc # "select")

(* Connections that wait are accepted, or they or the server go.           *)
PeersAreAccepted == []<>(Backlog = {})

-----------------------------------------------------------------------------
Stage(x) ==
  CASE result[x] \in Calls   -> "answered"
    [] result[x] = "false"   -> "failed"
    [] result[x] = "none" /\ tries[x] > 0 -> "pending"
    [] OTHER                 -> "new"

OnMine(f) == [x \in {Wanted[i] : i \in DOMAIN Wanted} |-> f[x]]

Promise == INSTANCE AtLeastOnce WITH
  stage <- OnMine([x \in Calls |-> Stage(x)]),
  sent  <- OnMine(tries),
  runs  <- OnMine(executed)

(* The library keeps the promise of AtLeastOnce.                           *)
ImplementsAtLeastOnce == Promise!Spec
=============================================================================
