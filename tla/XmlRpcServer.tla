---------------------------- MODULE XmlRpcServer ----------------------------
(***************************************************************************)
(* XmlRpcServer and XmlRpcServerConnection: a process that takes           *)
(* connections, reads requests, executes them and writes the responses,    *)
(* all in one thread around its dispatcher.  The names of the stages of a  *)
(* connection are those of the code.                                       *)
(***************************************************************************)
EXTENDS Socket, Dispatcher

CONSTANTS Does,         \* what the method of a call does to the server
          Closes,       \* calls that ask for the connection to be closed
          NoLength      \* calls whose header has no Content-length

ASSUME ServerAssumption ==
  /\ Does \in [Calls -> {"answer", "exit", "shutdown", "quit"}]
  /\ Closes \subseteq Calls
  /\ NoLength \subseteq Calls

VARIABLES
  spc,          \* where the process is: outside work(), at its select(), ...
  sd,           \* its dispatcher
  ready,        \* sources that select() reported and that wait for their turn
  sc,           \* the connection objects
  quit,         \* a method asked the process to end
  executed      \* how many times each call was executed

serverVars == <<spc, sd, ready, sc, quit, executed>>

Listener == 0

Stages == {"READ_HEADER", "READ_REQUEST", "WRITE_RESPONSE"}

NewServerConnection ==
  [state |-> "READ_HEADER", header |-> <<>>, request |-> <<>>,
   response |-> <<>>, written |-> 0, keepAlive |-> TRUE]

ServerTypeOK ==
  /\ spc \in {"out", "select", "pass", "interrupted", "ended"}
  /\ Watched(sd) \subseteq {Listener} \cup Conns
  /\ sd.endTime \in EndTimes /\ sd.doClear \in BOOLEAN /\ sd.inWork \in BOOLEAN
  /\ ready \subseteq Watched(sd)
  /\ DOMAIN sc = Conns
  /\ \A c \in Conns : /\ sc[c].state \in Stages
                      /\ sc[c].written \in 0..(HeaderLen + BodyLen)
                      /\ sc[c].keepAlive \in BOOLEAN
  /\ quit \in BOOLEAN
  /\ executed \in [Calls -> Nat]

(* When bindAndListen() fails there is no daemon.                          *)
ServerInit ==
  /\ listening \in BOOLEAN
  /\ sd = IF listening THEN AddSource(NewDispatcher, Listener, {"readable"})
                       ELSE NewDispatcher
  /\ spc = IF listening THEN "out" ELSE "ended"
  /\ ready = {}
  /\ sc = [c \in Conns |-> NewServerConnection]
  /\ quit = FALSE
  /\ executed = [x \in Calls |-> 0]

-----------------------------------------------------------------------------
(* One event of a connection goes through as many stages as it can.  An    *)
(* outcome has the connection object, the connection, whether to watch it  *)
(* any longer, what was executed, and whether SIGPIPE came.  announced:    *)
(* select() did report the event.                                          *)

Drop(o) == [o EXCEPT !.on = FALSE]

ServerReadHeader(o, announced) ==
  IF ~o.on \/ o.conn.state # "READ_HEADER" THEN {o} ELSE
  { LET h == o.conn.header \o r.got
        p == [o EXCEPT !.net = r.net]
    IN  CASE r.status = "error"  -> Drop(p)
          [] r.status # "error" /\ Len(h) <= HeaderLen ->
               [p EXCEPT !.conn.header = h, !.on = r.status # "eof"]
          [] r.status # "error" /\ Len(h) > HeaderLen /\ h[1] \in NoLength -> Drop(p)
          [] OTHER ->
               [p EXCEPT !.conn.state     = "READ_REQUEST",
                         !.conn.header    = <<>>,
                         !.conn.request   = SubSeq(h, HeaderLen + 1, Len(h)),
                         !.conn.keepAlive = h[1] \notin Closes] :
    r \in { r \in NbRead(o.net, "server") : announced => Announced(r) } }

ServerReadRequest(o, announced) ==
  IF ~o.on \/ o.conn.state # "READ_REQUEST" THEN {o} ELSE
  IF Len(o.conn.request) >= BodyLen
    THEN {[o EXCEPT !.conn.state = "WRITE_RESPONSE"]} ELSE
  { LET q == o.conn.request \o r.got
        p == [o EXCEPT !.net = r.net, !.conn.request = q]
    IN  CASE r.status = "error" -> Drop(p)
          [] r.status # "error" /\ Len(q) < BodyLen -> [p EXCEPT !.on = r.status # "eof"]
          [] OTHER -> [p EXCEPT !.conn.state = "WRITE_RESPONSE"] :
    r \in { r \in NbRead(o.net, "server") : announced => Announced(r) } }

(* Broken on purpose: the method runs at every write.                      *)
ExecuteEveryTime(o) ==
  [o EXCEPT !.conn.response = Message(o.conn.request[1]), !.ran = {o.conn.request[1]}]

ExecuteRequest(o) ==
  IF o.conn.response # <<>> THEN o
    ELSE [o EXCEPT !.conn.response = Message(o.conn.request[1]),
                   !.conn.written  = 0,
                   !.ran           = {o.conn.request[1]}]

(* Broken on purpose: a response is given up when it does not go at once.  *)
WriteAtOnce(o) ==
  IF ~o.on \/ o.conn.state # "WRITE_RESPONSE" THEN {o} ELSE
  LET p == ExecuteRequest(o)
      w == NbWrite(p.net, "server", p.conn.response, p.conn.written)
  IN  {[p EXCEPT !.net = w.net, !.killed = w.status = "sigpipe",
                 !.on = w.written = Len(p.conn.response) /\ p.conn.keepAlive,
                 !.conn = NewServerConnection]}

(* Broken on purpose: the response is not cleared once it is written.      *)
WriteAndKeep(o) ==
  IF ~o.on \/ o.conn.state # "WRITE_RESPONSE" THEN {o} ELSE
  LET p == ExecuteRequest(o)
      w == NbWrite(p.net, "server", p.conn.response, p.conn.written)
      q == [p EXCEPT !.net = w.net, !.conn.written = w.written]
  IN  CASE w.status = "error"   -> {Drop(q)}
        [] w.status = "sigpipe" -> {[q EXCEPT !.killed = TRUE]}
        [] w.status = "ok" /\ w.written < Len(p.conn.response) ->
             {[q EXCEPT !.on = q.conn.keepAlive]}
        [] OTHER -> {[q EXCEPT !.on = q.conn.keepAlive, !.conn.written = 0,
                               !.conn.state = "READ_HEADER"]}

(* What is left of the response is not looked at before the connection is  *)
(* given up for not being a keep-alive one.                                *)
WriteResponse(o) ==
  IF ~o.on \/ o.conn.state # "WRITE_RESPONSE" THEN {o} ELSE
  LET p == ExecuteRequest(o)
      w == NbWrite(p.net, "server", p.conn.response, p.conn.written)
      q == [p EXCEPT !.net = w.net, !.conn.written = w.written]
  IN  CASE w.status = "error"   -> {Drop(q)}
        [] w.status = "sigpipe" -> {[q EXCEPT !.killed = TRUE]}
        [] w.status = "ok" /\ w.written < Len(p.conn.response) ->
             {[q EXCEPT !.on = q.conn.keepAlive]}
        [] OTHER ->
             {[q EXCEPT !.on   = q.conn.keepAlive,
                        !.conn = [NewServerConnection EXCEPT !.keepAlive = q.conn.keepAlive]]}

(* Only the read of the stage the connection was in when it was reported   *)
(* finds what was announced.                                               *)
HandleEvent(c, announced) ==
  LET o == [conn |-> sc[c], net |-> net[c], on |-> TRUE, ran |-> {}, killed |-> FALSE]
      h == ServerReadHeader(o, announced)
      r == UNION { ServerReadRequest(p, announced /\ p.conn = sc[c]) : p \in h }
  IN  UNION { WriteResponse(p) : p \in r }

-----------------------------------------------------------------------------
(* The ends of a process that is over, and those of clear().  A connection *)
(* that waits to be accepted is refused after all.                         *)
ServerEndsClosed(n) ==
  [c \in Conns |-> CASE n[c].end["server"] = "open" -> CloseEnd(n[c], "server")
                     [] n[c].end["server"] = "backlog" ->
                          [CloseEnd(n[c], "server") EXCEPT !.link = "reset"]
                     [] OTHER -> n[c]]

EndProcess(n) ==
  /\ spc' = "ended"
  /\ net' = ServerEndsClosed(n)
  /\ listening' = FALSE
  /\ sd' = NewDispatcher
  /\ ready' = {}
  /\ sc' = [c \in Conns |-> NewServerConnection]

(* exit() and shutdown() called by a method, within work().                *)
Told(d, ran) ==
  LET what == {Does[x] : x \in ran}
  IN  IF "exit" \in what THEN ExitWork(d)
      ELSE IF "shutdown" \in what THEN [d EXCEPT !.doClear = TRUE]
      ELSE d

(* Broken on purpose: a response that waits for room is never continued.   *)
MaskForReading(conn) == {"readable"}

MaskFor(conn) ==
  IF conn.state = "WRITE_RESPONSE" THEN {"writable"} ELSE {"readable"}

InPass(s) == /\ spc \in {"pass", "interrupted"}
             /\ ready # {}
             /\ s = FirstOf(sd, ready)

HandleConnection(c) ==
  /\ InPass(c)
  /\ \E o \in HandleEvent(c, spc = "pass") :
       LET n == [net EXCEPT ![c] = o.net]
           d == Told(sd, o.ran)
       IN  /\ executed' = [x \in Calls |-> IF x \in o.ran THEN executed[x] + 1 ELSE executed[x]]
           /\ quit' = (quit \/ \E x \in o.ran : Does[x] = "quit")
           /\ IF o.killed THEN EndProcess(n) ELSE
              /\ ready' = ready \ {c}
              /\ IF o.on
                   THEN /\ sd' = SetMask(d, c, MaskFor(o.conn))
                        /\ sc' = [sc EXCEPT ![c] = o.conn]
                        /\ net' = n
                   ELSE /\ sd' = RemoveSource(d, c)
                        /\ sc' = [sc EXCEPT ![c] = NewServerConnection]
                        /\ net' = [n EXCEPT ![c] = CloseEnd(@, "server")]
              /\ UNCHANGED <<spc, listening>>

Backlog == {c \in Conns : net[c].end["server"] = "backlog"}

(* Broken on purpose: the listener is watched for one connection only.     *)
AcceptOnce ==
  /\ InPass(Listener)
  /\ ready' = ready \ {Listener}
  /\ \E c \in Backlog :
       /\ net' = [net EXCEPT ![c].end["server"] = "open"]
       /\ sd' = AddSource(RemoveSource(sd, Listener), c, {"readable"})
  /\ UNCHANGED <<spc, sc, quit, executed, listening>>

AcceptConnection ==
  /\ InPass(Listener)
  /\ ready' = ready \ {Listener}
  /\ IF Backlog = {} THEN UNCHANGED <<net, sd>> ELSE
     LET c == CHOOSE c \in Backlog : \A b \in Backlog : c <= b
     IN  /\ net' = [net EXCEPT ![c].end["server"] = "open"]
         /\ sd' = AddSource(sd, c, {"readable"})
  /\ UNCHANGED <<spc, sc, quit, executed, listening>>

(* The process has no descriptor left: the connection goes on waiting.     *)
AcceptFails ==
  /\ InPass(Listener)
  /\ ready' = ready \ {Listener}
  /\ UNCHANGED <<net, spc, sd, sc, quit, executed, listening>>

-----------------------------------------------------------------------------
HasEvent(s) ==
  IF s = Listener THEN Backlog # {}
    ELSE \/ "readable" \in MaskOf(sd, s) /\ Readable(net[s], "server")
         \/ "writable" \in MaskOf(sd, s) /\ Writable(net[s], "server")

(* The daemon calls work() with a limit of time until it is told to quit.  *)
Work ==
  /\ spc = "out" /\ ~quit /\ sd.sources # <<>>
  /\ sd' = BeginWork(sd, "later")
  /\ spc' = "select"
  /\ UNCHANGED <<net, listening, ready, sc, quit, executed>>

Quits ==
  /\ spc = "out" /\ quit
  /\ EndProcess(net)
  /\ UNCHANGED <<quit, executed>>

Select(R) ==
  /\ spc = "select"
  /\ \A s \in R : HasEvent(s)
  /\ ready' = R
  /\ spc' = "pass"
  /\ UNCHANGED <<net, listening, sd, sc, quit, executed>>

(* EINTR: the sets given to select() come back as they were.               *)
SelectInterrupted ==
  /\ spc = "select"
  /\ ready' = Watched(sd)
  /\ spc' = "interrupted"
  /\ UNCHANGED <<net, listening, sd, sc, quit, executed>>

(* The end of a pass.  timeUp is the comparison with the clock.            *)
EndPass(timeUp) ==
  /\ spc \in {"pass", "interrupted"} /\ ready = {}
  /\ LET d    == IF sd.doClear THEN [sd EXCEPT !.sources = <<>>, !.doClear = FALSE] ELSE sd
         over == d.endTime = "now" \/ timeUp \/ d.sources = <<>>
     IN  /\ sd' = IF over THEN EndWork(d) ELSE d
         /\ spc' = IF over THEN "out" ELSE "select"
  /\ IF sd.doClear
       THEN /\ net' = ServerEndsClosed(net)
            /\ listening' = FALSE
            /\ sc' = [c \in Conns |-> NewServerConnection]
       ELSE UNCHANGED <<net, listening, sc>>
  /\ UNCHANGED <<ready, quit, executed>>

ServerNext ==
  \/ Work \/ Quits
  \/ \E R \in SUBSET Watched(sd) : Select(R)
  \/ \E timeUp \in BOOLEAN : EndPass(timeUp)
  \/ AcceptConnection
  \/ \E c \in Conns : HandleConnection(c)
=============================================================================
