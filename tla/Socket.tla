------------------------------- MODULE Socket -------------------------------
(***************************************************************************)
(* XmlRpcSocket: the calls on TCP connections that the XMLRPC library      *)
(* makes, as the client and the server see them.  What goes over a         *)
(* connection is cut into units, each a part of the message of one call;   *)
(* the first HeaderLen units of a message are its HTTP header.             *)
(*                                                                         *)
(* A connection has two ends.  data[e] is what is under way to end e or    *)
(* waits there in the kernel; at most Cap units are.  A connection that    *)
(* was reset gives an error to either end, as soon as it hears of it: what *)
(* is under way may still be read before.  One is "pipe" when an end wrote *)
(* to the other after that had closed: reads find the end of the stream,   *)
(* and one more write raises SIGPIPE, which nothing in the program catches.*)
(*                                                                         *)
(* The operators return the set of what a call may do: bytes arrive one    *)
(* by one, so that a read may find any part of what was sent.              *)
(***************************************************************************)
EXTENDS Naturals, Sequences

CONSTANTS NumConns,     \* the connections ever made
          Calls,        \* the calls made
          HeaderLen,    \* units of the header of a message
          BodyLen,      \* units of its body
          Cap           \* units a connection holds in one direction

ASSUME SocketAssumption ==
  /\ NumConns \in Nat
  /\ HeaderLen \in Nat \ {0}
  /\ BodyLen \in Nat \ {0}
  /\ Cap \in Nat \ {0}

Conns == 1..NumConns

VARIABLES net,          \* net[c]: connection c
          listening     \* the server's port takes connections

Ends == {"client", "server"}

Peer(e) == IF e = "client" THEN "server" ELSE "client"

Message(call) == [i \in 1..(HeaderLen + BodyLen) |-> call]

EndStates == {"none", "backlog", "open", "closed"}

Connection ==
  [end  : [Ends -> EndStates],
   data : [Ends -> UNION {[1..n -> Calls] : n \in 0..Cap}],
   link : {"up", "reset", "pipe"}]

NoConnection ==
  [end  |-> [e \in Ends |-> "none"],
   data |-> [e \in Ends |-> <<>>],
   link |-> "up"]

NetTypeOK == net \in [Conns -> Connection] /\ listening \in BOOLEAN

(* Both ends are closed: nobody will learn anything about it.              *)
Gone(k) ==
  IF \A e \in Ends : k.end[e] # "open" /\ k.end[e] # "backlog"
    THEN [NoConnection EXCEPT !.end = [e \in Ends |-> "closed"]]
    ELSE k

(* close().  What was not read makes the kernel reset the connection; what *)
(* was written goes on its way.                                            *)
CloseEnd(k, e) ==
  Gone([k EXCEPT !.end[e]  = "closed",
                 !.data[e] = <<>>,
                 !.link    = IF k.data[e] # <<>> THEN "reset" ELSE @])

(* connect(): the connection is there before the server accepts it.  The   *)
(* answer to a refused one comes at once or later.                         *)
Fresh(n) == {c \in Conns : /\ n[c] = NoConnection
                           /\ \A d \in 1..(c - 1) : n[d] # NoConnection}

Connected == [NoConnection EXCEPT !.end["client"] = "open", !.end["server"] = "backlog"]

Refused == [NoConnection EXCEPT !.end["client"] = "open", !.link = "reset"]

(* nbRead: all there is, up to the end of the stream or an error.          *)
NbRead(k, e) ==
  LET q    == k.data[e]
      last == k.end[Peer(e)] = "closed" /\ k.link # "reset"
  IN  { [got    |-> SubSeq(q, 1, r[1]),
         status |-> r[2],
         net    |-> [k EXCEPT !.data[e] = SubSeq(q, r[1] + 1, Len(q))]] :
        r \in { r \in (0..Len(q)) \X {"ok", "eof", "error"} :
                /\ r[2] = "eof"   => last /\ r[1] = Len(q)
                /\ r[2] = "error" => k.link = "reset" } }

(* What makes select() report an end as readable, and what the read that   *)
(* follows finds at least.                                                 *)
Readable(k, e) == k.data[e] # <<>> \/ k.end[Peer(e)] = "closed" \/ k.link # "up"

Announced(r) == r.got # <<>> \/ r.status # "ok"

(* nbWrite: as much as the connection takes.                               *)
NbWrite(k, e, msg, written) ==
  LET left == Len(msg) - written
      room == Cap - Len(k.data[Peer(e)])
      n    == IF left < room THEN left ELSE room
      part == SubSeq(msg, written + 1, written + n)
  IN  CASE k.link = "reset" -> [status |-> "error", written |-> written, net |-> k]
        [] k.link = "pipe"  -> [status |-> "sigpipe", written |-> written, net |-> k]
        [] k.link = "up" /\ k.end[Peer(e)] = "closed" ->
             [status |-> "ok", written |-> written + n, net |-> [k EXCEPT !.link = "pipe"]]
        [] OTHER ->
             [status |-> "ok", written |-> written + n,
              net |-> [k EXCEPT !.data[Peer(e)] = @ \o part]]

Writable(k, e) ==
  Len(k.data[Peer(e)]) < Cap \/ k.end[Peer(e)] = "closed" \/ k.link # "up"

(* A node on the way or a kernel gives the connection up.                  *)
Reset(c) ==
  /\ net[c].link = "up"
  /\ \E e \in Ends : net[c].end[e] = "open"
  /\ net' = [net EXCEPT ![c].link = "reset"]
=============================================================================
