---------------------------- MODULE XmlRpcClient ----------------------------
(***************************************************************************)
(* XmlRpcClient: an object that executes calls one after the other, each   *)
(* over its connection to the server, made again when it has to be.        *)
(***************************************************************************)
EXTENDS Socket, Dispatcher

CONSTANTS Wanted,       \* the calls to make, in this order
          KeepOpen      \* setKeepOpen(): the connection is kept after a call

\* What execute() returned (result) is told from the calls.
ASSUME ClientAssumption ==
  /\ "none" \notin Calls /\ "false" \notin Calls
  /\ Wanted \in Seq(Calls)
  /\ \A i, j \in DOMAIN Wanted : Wanted[i] = Wanted[j] => i = j
  /\ KeepOpen \in BOOLEAN

VARIABLES
  cpc,          \* "idle" between two calls, "select" within work(), ...
  cd,           \* the client's dispatcher
  cl,           \* the client object
  made,         \* how many calls were begun
  tries,        \* how many times the request of a call was set up
  result        \* what execute() returned: false, or the response it parsed

clientVars == <<cpc, cd, cl, made, tries, result>>

NoFd == 0

Client == "client"

ClientTypeOK ==
  /\ cpc \in {"idle", "select", "killed", "undefined"}
  /\ cd.endTime \in EndTimes /\ Watched(cd) \subseteq {Client}
  /\ cl.state \in {"NO_CONNECTION", "IDLE", "WRITE_REQUEST", "READ_HEADER", "READ_RESPONSE"}
  /\ cl.fd \in Conns \cup {NoFd}
  /\ cl.written \in 0..(HeaderLen + BodyLen)
  /\ cl.eof \in BOOLEAN
  /\ cl.attempts \in 0..2
  /\ made \in 0..Len(Wanted)
  /\ tries \in [Calls -> 0..2]
  /\ result \in [Calls -> {"none", "false"} \cup Calls]

ClientInit ==
  /\ cpc = "idle"
  /\ cd = NewDispatcher
  /\ cl = [state |-> "NO_CONNECTION", fd |-> NoFd, header |-> <<>>, response |-> <<>>,
           written |-> 0, eof |-> FALSE, attempts |-> 0]
  /\ made = 0
  /\ tries = [x \in Calls |-> 0]
  /\ result = [x \in Calls |-> "none"]

Call == Wanted[made]

-----------------------------------------------------------------------------
(* An outcome of a method has the object, its dispatcher and the           *)
(* connections; on is what the method returns, fate what became of the     *)
(* process, sent whether a request was set up, for the second time if it   *)
(* is so in a turn of work().                                              *)

Begun(object) == [cl |-> object, cd |-> cd, net |-> net,
                  on |-> TRUE, fate |-> "select", sent |-> 0]

False(o) == [o EXCEPT !.on = FALSE]

(* XmlRpcSource::close()                                                   *)
CloseFd(o) ==
  IF o.cl.fd = NoFd THEN o
    ELSE [o EXCEPT !.net[o.cl.fd] = CloseEnd(@, "client"), !.cl.fd = NoFd]

(* XmlRpcClient::close()                                                   *)
CloseClient(o) ==
  CloseFd([o EXCEPT !.cl.state = "NO_CONNECTION",
                    !.cd = RemoveSource(ExitWork(@), Client)])

(* The port answers, or refuses at once, or later.  NumConns bounds the    *)
(* connections made.                                                       *)
DoConnect(o) ==
  LET To(k) == {[o EXCEPT !.cl.fd = c, !.net[c] = k] : c \in Fresh(o.net)}
  IN  IF listening THEN To(Connected)
                   ELSE To(Refused) \cup {False(CloseClient(o))}

SetupConnection(o) ==
  LET p == IF o.cl.state \notin {"NO_CONNECTION", "IDLE"} \/ o.cl.eof
             THEN CloseClient(o) ELSE o
      q == [p EXCEPT !.cl.eof = FALSE]
  IN  { IF ~r.on THEN r ELSE
          [r EXCEPT !.sent       = 1,
                    !.cl.state   = "WRITE_REQUEST",
                    !.cl.written = 0,
                    !.cd = AddSource(RemoveSource(@, Client), Client,
                                     {"writable", "exception"})] :
        r \in IF q.cl.state = "NO_CONNECTION" THEN DoConnect(q) ELSE {q} }

WriteRequest(o) ==
  IF o.cl.state # "WRITE_REQUEST" THEN {o} ELSE
  LET w == NbWrite(o.net[o.cl.fd], "client", Message(Call), o.cl.written)
      p == [o EXCEPT !.net[o.cl.fd] = w.net, !.cl.written = w.written]
  IN  CASE w.status = "error"   -> {False(p)}
        [] w.status = "sigpipe" -> {[p EXCEPT !.fate = "killed", !.on = FALSE]}
        [] w.status = "ok" /\ w.written < Len(Message(Call)) -> {p}
        [] OTHER -> {[p EXCEPT !.cl.header = <<>>, !.cl.response = <<>>,
                               !.cl.state = "READ_HEADER"]}

(* Broken on purpose: attempts are not counted.                            *)
RetryAlways(o) ==
  LET p == CloseFd(o)
  IN  { IF q.on THEN q ELSE [q EXCEPT !.fate = "undefined"] :
        q \in SetupConnection([p EXCEPT !.cl.state = "NO_CONNECTION", !.cl.eof = FALSE]) }

(* The second attempt, from within the pass of the dispatcher: the entry   *)
(* the pass stands at is removed and another one added.  A connection that *)
(* fails at once has the entry erased once more.                           *)
Retry(o) ==
  LET p == CloseFd([o EXCEPT !.cl.attempts = 1])
  IN  { IF q.on THEN q ELSE [q EXCEPT !.fate = "undefined"] :
        q \in SetupConnection([p EXCEPT !.cl.state = "NO_CONNECTION", !.cl.eof = FALSE]) }

ReadHeader(o, announced) ==
  IF ~o.on \/ o.cl.state # "READ_HEADER" THEN {o} ELSE
  UNION
  { LET h == o.cl.header \o r.got
        p == [o EXCEPT !.net[o.cl.fd] = r.net, !.cl.header = h, !.cl.eof = r.status = "eof"]
    IN  IF r.status = "error" \/ (r.status = "eof" /\ h = <<>>)
          THEN IF KeepOpen /\ h = <<>> /\ o.cl.attempts = 0
                 THEN Retry(p)
                 ELSE {False([p EXCEPT !.cl.attempts = IF KeepOpen /\ h = <<>> THEN 2 ELSE @])}
        ELSE IF Len(h) <= HeaderLen THEN {[p EXCEPT !.on = r.status # "eof"]}
        ELSE {[p EXCEPT !.cl.header   = <<>>,
                        !.cl.response = SubSeq(h, HeaderLen + 1, Len(h)),
                        !.cl.state    = "READ_RESPONSE"]} :
    r \in { r \in NbRead(o.net[o.cl.fd], "client") : announced => Announced(r) } }

ReadResponse(o, announced) ==
  IF ~o.on \/ o.cl.state # "READ_RESPONSE" THEN {o} ELSE
  IF Len(o.cl.response) >= BodyLen THEN {False([o EXCEPT !.cl.state = "IDLE"])} ELSE
  { LET b == o.cl.response \o r.got
        p == [o EXCEPT !.net[o.cl.fd] = r.net, !.cl.response = b, !.cl.eof = r.status = "eof"]
    IN  CASE r.status = "error" -> False(p)
          [] r.status # "error" /\ Len(b) < BodyLen -> [p EXCEPT !.on = r.status # "eof"]
          [] OTHER -> False([p EXCEPT !.cl.state = "IDLE"]) :
    r \in { r \in NbRead(o.net[o.cl.fd], "client") : announced => Announced(r) } }

(* parseResponse(): the response is that of one call.                      *)
Parsed(response) ==
  IF \A i \in 1..BodyLen : response[i] = response[1] THEN response[1] ELSE "false"

(* Exception events are reported by an interrupted select() only, next to  *)
(* a writable one, and change nothing.                                     *)
ClientHandleEvent(announced) ==
  LET o == Begun(cl)
      Now(p) == announced /\ p.cl.state = cl.state
      w == WriteRequest(o)
      h == UNION { ReadHeader(p, Now(p)) : p \in w }
  IN  UNION { ReadResponse(p, Now(p)) : p \in h }

-----------------------------------------------------------------------------
(* execute(), up to work().                                                *)
Execute ==
  /\ cpc = "idle" /\ made < Len(Wanted)
  /\ made' = made + 1
  /\ \E o \in SetupConnection(Begun([cl EXCEPT !.attempts = 0])) :
       /\ tries' = [tries EXCEPT ![Wanted[made']] = o.sent]
       /\ cl' = o.cl
       /\ net' = o.net
       /\ IF o.on THEN /\ cpc' = "select"
                       /\ cd' = BeginWork(o.cd, "never")
                       /\ UNCHANGED result
                  ELSE /\ cd' = o.cd
                       /\ result' = [result EXCEPT ![Wanted[made']] = "false"]
                       /\ UNCHANGED cpc
  /\ UNCHANGED listening

(* Whether select() returns with an event of the client.                   *)
ClientHasEvent ==
  \/ "readable" \in MaskOf(cd, Client) /\ Readable(net[cl.fd], "client")
  \/ "writable" \in MaskOf(cd, Client) /\ Writable(net[cl.fd], "client")

(* One turn of work(): its one source has an event, or select() was        *)
(* interrupted.  When the source is not watched any longer, execute()      *)
(* returns.                                                                *)
Turn(announced) ==
  /\ cpc = "select"
  /\ announced => ClientHasEvent
  /\ \E o \in ClientHandleEvent(announced) :
       LET mask == IF o.cl.state = "WRITE_REQUEST" THEN {"writable"} ELSE {"readable"}
           p    == IF o.on THEN [o EXCEPT !.cd = SetMask(@, Client, mask)]
                   ELSE LET q == [o EXCEPT !.cd = RemoveSource(@, Client)]
                        IN  IF KeepOpen THEN q ELSE CloseClient(q)
           over == p.cd.sources = <<>> \/ p.cd.endTime = "now"
           ends == over /\ o.fate = "select"
       IN  /\ net' = p.net
           /\ cl' = IF ends /\ p.cl.state = "IDLE" THEN [p.cl EXCEPT !.response = <<>>] ELSE p.cl
           /\ cd' = IF over THEN EndWork(p.cd) ELSE p.cd
           /\ cpc' = IF ends THEN "idle" ELSE o.fate
           /\ tries' = [tries EXCEPT ![Call] = @ + o.sent]
           /\ result' = IF ~ends THEN result ELSE
                        [result EXCEPT ![Call] = IF p.cl.state = "IDLE"
                                                   THEN Parsed(p.cl.response) ELSE "false"]
  /\ UNCHANGED <<listening, made>>

ClientNext == Execute \/ Turn(TRUE)
=============================================================================
