----------------------------- MODULE CallProofs -----------------------------
(***************************************************************************)
(* What is said over the connections of XmlRpc, for any instance of it:    *)
(* the client's calls are answered with their own answers, are made as     *)
(* AtLeastOnce promises, and fail only by a fault.                         *)
(*                                                                         *)
(* Every connection carries one call (Line): its request on the way, its   *)
(* answer on the way, or nothing more.  That a kept connection holds       *)
(* nothing of the call before is what answers a call with its own answer.  *)
(* A call is executed no more often than it was sent since each request    *)
(* set up may be owed on one connection, until it is executed (Accounts).  *)
(***************************************************************************)
EXTENDS XmlRpcProofs, FiniteSetTheorems

MessageLen == HeaderLen + BodyLen

(***************************************************************************)
(* A line: connection k, with object s at the server, carries call x.  The *)
(* caller has written u units of the request, and has got g of the answer. *)
(***************************************************************************)
Held(s) == IF s.state = "READ_HEADER" THEN s.header ELSE s.request

Taken(s) == IF s.state = "READ_HEADER" THEN Len(s.header) ELSE HeaderLen + Len(s.request)

\* The request is on its way, or a part of it.
Asking(k, s, x, u, g) ==
  /\ s.state # "WRITE_RESPONSE" /\ s.response = <<>>
  /\ s.state = "READ_REQUEST" => s.request # <<>>
  /\ Held(s) \in Seq({x}) /\ k.data["server"] \in Seq({x})
  /\ Taken(s) + Len(k.data["server"]) = u
  /\ g = 0 /\ k.data["client"] = <<>>

\* The whole of it was executed, and a part of the answer was written.
Answering(k, s, x, u, g) ==
  /\ s.state = "WRITE_RESPONSE" /\ s.response = Message(x) /\ s.written < MessageLen
  /\ k.data["server"] = <<>> /\ u = MessageLen
  /\ k.end["client"] # "closed" => g + Len(k.data["client"]) = s.written

\* The answer was written, and the server waits for another request.
Over(k, s, x, u, g) ==
  /\ s.state = "READ_HEADER" /\ s.header = <<>> /\ s.response = <<>>
  /\ k.data["server"] = <<>> /\ u = MessageLen
  /\ k.end["client"] # "closed" => g + Len(k.data["client"]) = MessageLen

Phases(k, s, x, u, g) ==
  Asking(k, s, x, u, g) \/ Answering(k, s, x, u, g) \/ Over(k, s, x, u, g)

\* What the caller may still read.
Unread(k, x, g) ==
  /\ k.data["client"] \in Seq({x})
  /\ g + Len(k.data["client"]) <= MessageLen

Line(k, s, x, u, g) ==
  /\ x \in Calls /\ u \in Units /\ g \in Units
  /\ Unread(k, x, g)
  /\ IF k.end["server"] = "closed" THEN k.data["server"] = <<>>
                                   ELSE Phases(k, s, x, u, g)

(***************************************************************************)
(* The lines of a state, given the connections n and the client l, which   *)
(* makes call x.                                                           *)
(***************************************************************************)
SentOf(l) == IF l.state = "WRITE_REQUEST" THEN l.written ELSE MessageLen

GotOf(l) ==
  CASE l.state = "READ_HEADER"   -> Len(l.header)
    [] l.state = "READ_RESPONSE" -> HeaderLen + Len(l.response)
    [] l.state = "IDLE"          -> MessageLen
    [] OTHER                     -> 0

\* There is an answer, or will be.
Shown(k, s, g) == g > 0 \/ k.data["client"] # <<>> \/ s.state = "WRITE_RESPONSE"

Own(k, s, l, x) ==
  /\ k.end["client"] = "open"
  /\ Line(k, s, x, SentOf(l), GotOf(l))
  /\ l.state = "WRITE_REQUEST" => l.written < MessageLen
  /\ l.state = "READ_HEADER" => l.header \in Seq({x})
  /\ l.state = "READ_RESPONSE" => l.response \in Seq({x})
  /\ Shown(k, s, GotOf(l)) => executed[x] > 0

ClientLine(n, l, x) == l.fd # NoFd => Own(n[l.fd], sc[l.fd], l, x)

PeerLine(n, l) ==
  peer.fd # NoFd =>
    /\ peer.fd # l.fd /\ n[peer.fd].end["client"] = "open"
    /\ \E g \in Units : Line(n[peer.fd], sc[peer.fd], peer.call, peer.sent, g)

Lines(n, l, x) ==
  /\ \A c \in Conns : \E y, u, g : Line(n[c], sc[c], y, u, g)
  /\ ClientLine(n, l, x)
  /\ PeerLine(n, l)

NewObjects ==
  \A c \in Conns : net[c].end["server"] # "open" => sc[c] = NewServerConnection

(***************************************************************************)
(* Connections on which call y was asked for, or is about to be, and not   *)
(* executed yet.                                                           *)
(***************************************************************************)
Owes(k, s, y) ==
  /\ k.end["server"] # "closed" /\ s.state # "WRITE_RESPONSE"
  /\ y \in Range(Held(s)) \cup Range(k.data["server"])

Debt(n, l, x, y) ==
  {c \in Conns : \/ Owes(n[c], sc[c], y)
                 \/ c = l.fd /\ l.state = "WRITE_REQUEST" /\ y = x}

Mine == {Wanted[i] : i \in DOMAIN Wanted}

Accounts ==
  \A y \in Mine : executed[y] + Cardinality(Debt(net, cl, Call, y)) <= tries[y]

\* The calls before the present one have returned, those after were not made.
Order ==
  \A i \in DOMAIN Wanted :
    /\ i > made => tries[Wanted[i]] = 0 /\ result[Wanted[i]] = "none"
    /\ i < made \/ (i = made /\ cpc = "idle") => result[Wanted[i]] # "none"
    /\ i = made /\ cpc # "idle" => result[Wanted[i]] = "none" /\ tries[Wanted[i]] > 0

Answers == \A x \in Calls : result[x] \in Calls => result[x] = x

CallInv ==
  /\ XmlRpcInv
  /\ NewObjects
  /\ Lines(net, cl, Call)
  /\ cpc = "select" => cd.endTime = "never"
  /\ Accounts
  /\ Order
  /\ Answers

(***************************************************************************)
(* Units.                                                                  *)
(***************************************************************************)
LEMMA MessageLenIs ==
  /\ MessageLen \in Nat /\ MessageLen > HeaderLen /\ MessageLen = HeaderLen + BodyLen
  /\ Units = 0..MessageLen
BY Lengths DEF MessageLen, Units

\* A message of call x is so many units of x.
LEMMA MessageUnits ==
  ASSUME NEW x \in Calls
  PROVE  Message(x) \in Seq({x}) /\ Len(Message(x)) = MessageLen
<1>1. MessageLen \in Nat
  BY MessageLenIs
<1>2. Message(x) \in [1..MessageLen -> {x}]
  BY DEF Message, MessageLen
<1>3. Message(x) \in Seq({x})
  BY <1>1, <1>2, SeqDef
<1> QED
  BY <1>1, <1>2, <1>3, LenProperties

\* Both parts of what is cut in two are units of the same call ...
LEMMA PartUnits ==
  ASSUME NEW x, NEW q \in Seq({x}), NEW n \in 0..Len(q)
  PROVE  /\ SubSeq(q, 1, n) \in Seq({x}) /\ Len(SubSeq(q, 1, n)) = n
         /\ SubSeq(q, n + 1, Len(q)) \in Seq({x})
         /\ Len(SubSeq(q, n + 1, Len(q))) = Len(q) - n
OBVIOUS

\* ... and so is what is put together.
LEMMA JoinedUnits ==
  ASSUME NEW x, NEW q \in Seq({x}), NEW r \in Seq({x})
  PROVE  q \o r \in Seq({x}) /\ Len(q \o r) = Len(q) + Len(r)
BY ConcatProperties

\* Nothing at all is units of any call.
LEMMA EmptyUnits ==
  ASSUME NEW x, NEW q \in Seq({x})
  PROVE  /\ <<>> \in Seq({x}) /\ Len(<<>>) = 0 /\ Len(q) \in Nat
         /\ Len(q) = 0 <=> q = <<>>
BY EmptySeq

\* The calls units are of.
LEMMA RangeOfUnits ==
  ASSUME NEW x, NEW q \in Seq({x})
  PROVE  /\ Range(q) \subseteq {x} /\ Range(<<>>) = {}
         /\ q # <<>> => Range(q) = {x}
<1>1. /\ DOMAIN q = 1..Len(q) /\ Len(q) \in Nat /\ \A i \in 1..Len(q) : q[i] = x
      /\ q # <<>> => Len(q) # 0
  BY LenProperties, EmptySeq
<1>2. DOMAIN <<>> = {}
  OBVIOUS
<1> QED
  BY <1>1, <1>2 DEF Range

\* What a read takes is missing afterwards, and nothing else is.
Read(k, e, x, r) ==
  /\ r.got \in Seq({x}) /\ r.net.data[e] \in Seq({x})
  /\ Len(r.got) + Len(r.net.data[e]) = Len(k.data[e])
  /\ r.net.end = k.end /\ r.net.data[Peer(e)] = k.data[Peer(e)]
  /\ r.status \in {"ok", "eof", "error"}

\* Whatever part nonblocking reads take.
LEMMA ReadUnits ==
  ASSUME NEW k \in Connection, NEW e \in Ends, NEW x, k.data[e] \in Seq({x}),
         NEW r \in NbRead(k, e)
  PROVE  Read(k, e, x, r)
<1> DEFINE q == k.data[e]
<1>1. Joins(k) /\ q \in Seq({x}) /\ Len(q) \in Nat
  BY ConnectionJoins
<1>2. PICK n \in 0..Len(q), st \in {"ok", "eof", "error"} :
        r = [got |-> SubSeq(q, 1, n), status |-> st,
             net |-> [k EXCEPT !.data[e] = SubSeq(q, n + 1, Len(q))]]
  BY DEF NbRead
<1> DEFINE h == SubSeq(q, 1, n)
           t == SubSeq(q, n + 1, Len(q))
<1>3. /\ h \in Seq({x}) /\ t \in Seq({x}) /\ Len(h) + Len(t) = Len(q)
  <2> HIDE DEF q
  <2>1. /\ h \in Seq({x}) /\ t \in Seq({x}) /\ Len(h) = n /\ Len(t) = Len(q) - n
    BY <1>1, PartUnits
  <2> HIDE DEF h, t
  <2> QED BY <1>1, <2>1
<1>4. Peer(e) \in Ends /\ Peer(e) # e
  BY DEF Peer, Ends
<1> HIDE DEF h, t
<1> DEFINE j == [k EXCEPT !.data[e] = t]
<1>5. j.data[e] = t /\ j.end = k.end /\ j.data[Peer(e)] = k.data[Peer(e)]
  BY <1>1, <1>4 DEF Joins
<1>6. r.got = h /\ r.net = j /\ r.status = st
  BY <1>2 DEF h, t
<1> HIDE DEF j
<1> QED
  BY <1>1, <1>3, <1>5, <1>6 DEF Read

\* What a write hands over arrives after what is there, unless the other end
\* is closed.
Wrote(k, e, x, written, w) ==
  /\ w.net.end = k.end /\ w.net.data[e] = k.data[e]
  /\ w.net.data[Peer(e)] \in Seq({x})
  /\ w.written \in written..MessageLen
  /\ IF k.end[Peer(e)] = "closed"
       THEN w.net.data[Peer(e)] = k.data[Peer(e)]
       ELSE Len(w.net.data[Peer(e)]) = Len(k.data[Peer(e)]) + (w.written - written)
  /\ w.status \in {"ok", "error", "sigpipe"}
  /\ w.status # "ok" => w.written = written

\* Whatever part nonblocking writes hand over, or if they fail.
LEMMA WriteUnits ==
  ASSUME NEW k \in Connection, NEW e \in Ends, NEW x \in Calls,
         k.data[Peer(e)] \in Seq({x}), NEW written \in Units
  PROVE  Wrote(k, e, x, written, NbWrite(k, e, Message(x), written))
<1> DEFINE msg  == Message(x)
           p    == Peer(e)
           q    == k.data[p]
           left == Len(msg) - written
           room == Cap - Len(q)
           n    == IF left < room THEN left ELSE room
           part == SubSeq(msg, written + 1, written + n)
           w    == NbWrite(k, e, Message(x), written)
<1>1. /\ Joins(k) /\ p \in Ends /\ p # e /\ q \in Seq({x}) /\ Len(q) \in Nat
      /\ Len(q) <= Cap /\ k.link \in {"up", "reset", "pipe"}
  BY ConnectionJoins DEF Joins, Peer, Ends
<1>2. msg \in Seq({x}) /\ Len(msg) = MessageLen
  BY MessageUnits
<1>3. \/ w \in {[status |-> "error", written |-> written, net |-> k],
                [status |-> "sigpipe", written |-> written, net |-> k]}
      \/ /\ k.end[p] = "closed"
         /\ w = [status |-> "ok", written |-> written + n, net |-> [k EXCEPT !.link = "pipe"]]
      \/ /\ k.end[p] # "closed"
         /\ w = [status |-> "ok", written |-> written + n,
                 net |-> [k EXCEPT !.data[p] = @ \o part]]
  <2>1. CASE k.link = "reset"
    BY <2>1 DEF NbWrite
  <2>2. CASE k.link = "pipe"
    BY <2>2 DEF NbWrite
  <2>3. CASE k.link = "up" /\ k.end[p] = "closed"
    BY <2>3 DEF NbWrite
  <2>4. CASE k.link = "up" /\ k.end[p] # "closed"
    BY <2>4 DEF NbWrite
  <2> QED BY <1>1, <2>1, <2>2, <2>3, <2>4
<1> HIDE DEF p, q, msg
<1>4. n \in Nat /\ written + n \in written..MessageLen
  <2>1. MessageLen \in Nat /\ written \in Nat /\ written <= MessageLen
    BY MessageLenIs
  <2>2. left \in Nat /\ room \in Nat
    BY <1>1, <1>2, <2>1, Lengths
  <2>3. n \in Nat /\ n <= left
    BY ONLY <2>2
  <2> HIDE DEF n
  <2> QED BY <1>2, <2>1, <2>3
<1> HIDE DEF n
<1>5. part \in Seq({x}) /\ Len(part) = n
  <2>1. written \in Nat /\ written + n <= Len(msg)
    BY <1>2, <1>4, MessageLenIs
  <2> QED BY <1>2, <1>4, <2>1
<1> HIDE DEF part
<1> DEFINE t == q \o part
<1>6. t \in Seq({x}) /\ Len(t) = Len(q) + n
  BY <1>1, <1>5, JoinedUnits
<1>7. written \in written..MessageLen /\ written - written = 0 /\ (written + n) - written = n
  BY <1>4, MessageLenIs
<1> HIDE DEF t
<1>8. ASSUME w.net.end = k.end, w.net.data = k.data, w.written = written,
             w.status \in {"error", "sigpipe"}
      PROVE  Wrote(k, e, x, written, w)
  <2>1. Len(w.net.data[p]) = Len(k.data[p]) + (w.written - written)
    BY <1>1, <1>7, <1>8 DEF q
  <2> HIDE DEF w
  <2> QED BY <1>1, <1>7, <1>8, <2>1 DEF Wrote, p, q
<1>9. ASSUME k.end[p] = "closed",
             w = [status |-> "ok", written |-> written + n, net |-> [k EXCEPT !.link = "pipe"]]
      PROVE  Wrote(k, e, x, written, w)
  <2>1. /\ w.net.end = k.end /\ w.net.data = k.data /\ w.written = written + n
        /\ w.status = "ok"
    <3> DEFINE j == [k EXCEPT !.link = "pipe"]
    <3>1. j.end = k.end /\ j.data = k.data
      BY <1>1 DEF Joins
    <3> HIDE DEF j, w
    <3> QED BY <1>9, <3>1 DEF j
  <2> HIDE DEF w
  <2> QED BY <1>1, <1>4, <1>9, <2>1 DEF Wrote, p, q
<1>10. ASSUME k.end[p] # "closed",
              w = [status |-> "ok", written |-> written + n,
                   net |-> [k EXCEPT !.data[p] = @ \o part]]
       PROVE  Wrote(k, e, x, written, w)
  <2>1. w.net = [k EXCEPT !.data[p] = t]
    BY <1>10 DEF t, q
  <2>2. /\ w.net.end = k.end /\ w.net.data[p] = t /\ w.net.data[e] = k.data[e]
        /\ w.written = written + n /\ w.status = "ok"
    <3> DEFINE j == [k EXCEPT !.data[p] = t]
    <3>1. j.end = k.end /\ j.data[p] = t /\ j.data[e] = k.data[e]
      BY <1>1 DEF Joins
    <3>2. w.written = written + n /\ w.status = "ok"
      <4> HIDE DEF w, n
      <4> QED BY <1>10
    <3> HIDE DEF j, w
    <3> QED BY <2>1, <3>1, <3>2 DEF j
  <2> HIDE DEF w
  <2>3. Len(w.net.data[p]) = Len(k.data[p]) + (w.written - written)
    BY <1>6, <1>7, <2>2 DEF q
  <2> QED BY <1>4, <1>6, <1>10, <2>2, <2>3 DEF Wrote, p
<1>11. ASSUME w \in {[status |-> "error", written |-> written, net |-> k],
                     [status |-> "sigpipe", written |-> written, net |-> k]}
       PROVE  Wrote(k, e, x, written, w)
  <2>1. w.net.end = k.end /\ w.net.data = k.data /\ w.written = written
        /\ w.status \in {"error", "sigpipe"}
    BY <1>11
  <2> QED BY <1>8, <2>1
<1> HIDE DEF w
<1>12. Wrote(k, e, x, written, w)
  BY ONLY <1>3, <1>9, <1>10, <1>11
<1> QED
  BY <1>12 DEF w

(***************************************************************************)
(* What the server's handlers make of a line.                              *)
(***************************************************************************)
\* Nothing was executed and nothing written.
Quiet(o, z) == z.ran = o.ran /\ z.net.data["client"] = o.net.data["client"]

\* The request is there and will be executed.
Complete(k, s, x, u, g) ==
  /\ s.state = "WRITE_RESPONSE" /\ s.response = <<>> /\ s.request \in Seq({x})
  /\ k.data["server"] = <<>> /\ u = MessageLen
  /\ g = 0 /\ k.data["client"] = <<>>

\* x, u and g are those of a line, and o an outcome of a handler.
Ordinary(o, x, u, g) ==
  /\ o \in Outcomes(o.net.end) /\ o.on
  /\ x \in Calls /\ u \in Units /\ g \in Units

\* Reading the header: the line goes on asking, and no call is executed.
LEMMA HeaderAsking ==
  ASSUME NEW o, NEW x, NEW u, NEW g, Ordinary(o, x, u, g),
         Asking(o.net, o.conn, x, u, g), NEW a, NEW z \in ServerReadHeader(o, a)
  PROVE  /\ Quiet(o, z)
         /\ z.on => Asking(z.net, z.conn, x, u, g)
<1>0. /\ o.net \in Connection /\ o.conn \in Objects /\ u \in Nat
      /\ o \in Outcomes(o.net.end)
  BY MessageLenIs DEF Ordinary, Outcomes
<1>1. CASE o.conn.state # "READ_HEADER"
  BY <1>1 DEF ServerReadHeader, Quiet
<1>2. CASE o.conn.state = "READ_HEADER"
  <2>1. PICK r \in NbRead(o.net, "server") :
          LET h == o.conn.header \o r.got
              p == [o EXCEPT !.net = r.net]
          IN  z = CASE r.status = "error"  -> Drop(p)
                    [] r.status # "error" /\ Len(h) <= HeaderLen ->
                         [p EXCEPT !.conn.header = h, !.on = r.status # "eof"]
                    [] r.status # "error" /\ Len(h) > HeaderLen /\ h[1] \in NoLength -> Drop(p)
                    [] OTHER ->
                         [p EXCEPT !.conn.state     = "READ_REQUEST",
                                   !.conn.header    = <<>>,
                                   !.conn.request   = SubSeq(h, HeaderLen + 1, Len(h)),
                                   !.conn.keepAlive = h[1] \notin Closes]
    BY <1>2 DEF ServerReadHeader, Ordinary
  <2>2. Read(o.net, "server", x, r) /\ Peer("server") = "client"
    <3>1. "server" \in Ends /\ o.net.data["server"] \in Seq({x})
      BY DEF Ends, Asking
    <3> QED BY <1>0, <3>1, ReadUnits DEF Peer
  <2> DEFINE h == o.conn.header \o r.got
             p == [o EXCEPT !.net = r.net]
             t == SubSeq(h, HeaderLen + 1, Len(h))
             b == h[1] \notin Closes
  <2>3. /\ h \in Seq({x}) /\ Len(h) \in Nat
        /\ Len(h) + Len(r.net.data["server"]) = u
    <3>1. o.conn.header \in Seq({x}) /\ Len(o.conn.header) + Len(o.net.data["server"]) = u
      BY <1>2 DEF Asking, Held, Taken
    <3>2. r.got \in Seq({x}) /\ r.net.data["server"] \in Seq({x})
          /\ Len(r.got) + Len(r.net.data["server"]) = Len(o.net.data["server"])
      BY <2>2 DEF Read
    <3>3. h \in Seq({x}) /\ Len(h) = Len(o.conn.header) + Len(r.got)
      BY <3>1, <3>2, JoinedUnits
    <3>4. Len(o.conn.header) \in Nat /\ Len(r.got) \in Nat /\ Len(r.net.data["server"]) \in Nat
      BY <3>1, <3>2, EmptyUnits
    <3> HIDE DEF h
    <3> DEFINE i == Len(o.conn.header)
               j == Len(r.got)
               l == Len(r.net.data["server"])
               m == Len(h)
    <3>5. i \in Nat /\ j \in Nat /\ l \in Nat /\ m = i + j /\ i + (j + l) = u
      BY <3>1, <3>2, <3>3, <3>4
    <3> HIDE DEF i, j, l, m
    <3>6. m \in Nat /\ m + l = u
      BY ONLY <3>5
    <3> QED BY <3>3, <3>6 DEF l, m
  <2>4. \/ z = Drop(p) \/ z = [p EXCEPT !.conn.header = h, !.on = r.status # "eof"]
        \/ /\ Len(h) > HeaderLen
           /\ z = [p EXCEPT !.conn.state = "READ_REQUEST", !.conn.header = <<>>,
                            !.conn.request = t, !.conn.keepAlive = b]
    <3> DEFINE z1 == Drop(p)
               z2 == [p EXCEPT !.conn.header = h, !.on = r.status # "eof"]
               z3 == [p EXCEPT !.conn.state = "READ_REQUEST", !.conn.header = <<>>,
                               !.conn.request = t, !.conn.keepAlive = b]
    <3>1. z = CASE r.status = "error" -> z1
                [] r.status # "error" /\ Len(h) <= HeaderLen -> z2
                [] r.status # "error" /\ Len(h) > HeaderLen /\ h[1] \in NoLength -> z1
                [] OTHER -> z3
      BY <2>1
    <3> HIDE DEF z1, z2, z3, h
    <3>2. Len(h) <= HeaderLen \/ Len(h) > HeaderLen
      BY <2>3, Lengths
    <3>3. z = z1 \/ z = z2 \/ (Len(h) > HeaderLen /\ z = z3)
      BY <3>1, <3>2
    <3> QED BY <3>3 DEF z1, z2, z3
  <2>5. /\ p.conn = o.conn /\ p.net = r.net /\ p.ran = o.ran
        /\ p \in [conn : Objects, net : {r.net}, on : BOOLEAN, ran : SUBSET Calls, killed : BOOLEAN]
    BY <1>0 DEF Outcomes
  <2> HIDE DEF h, p, t, b
  <2>6. Len(h) > HeaderLen => t \in Seq({x}) /\ Len(t) = Len(h) - HeaderLen /\ t # <<>>
    <3>1. SUFFICES ASSUME Len(h) > HeaderLen
                   PROVE  t \in Seq({x}) /\ Len(t) = Len(h) - HeaderLen /\ t # <<>>
      OBVIOUS
    <3>2. HeaderLen \in 0..Len(h)
      BY <2>3, <3>1, Lengths
    <3>3. t \in Seq({x}) /\ Len(t) = Len(h) - HeaderLen
      BY <2>3, <3>2, PartUnits DEF t
    <3> QED BY <2>3, <3>1, <3>3, EmptyUnits, Lengths
  <2>7. r.net.data["server"] \in Seq({x}) /\ r.net.data["client"] = o.net.data["client"]
    BY <2>2 DEF Read
  <2>8. CASE z = Drop(p)
    <3>1. z.ran = p.ran /\ z.net = p.net /\ ~z.on
      BY <2>5, <2>8 DEF Drop
    <3> QED BY <2>5, <2>7, <3>1 DEF Quiet
  <2>9. CASE z = [p EXCEPT !.conn.header = h, !.on = r.status # "eof"]
    <3> DEFINE k == [o.conn EXCEPT !.header = h]
    <3>1. k.header = h /\ k.state = "READ_HEADER" /\ k.response = o.conn.response
      BY <1>0, <1>2 DEF Objects
    <3>2. z.conn = k /\ z.net = r.net /\ z.ran = o.ran
      BY <2>5, <2>9
    <3> HIDE DEF k
    <3>3. Asking(z.net, z.conn, x, u, g)
      BY <1>2, <2>3, <2>7, <3>1, <3>2 DEF Asking, Held, Taken
    <3> QED BY <2>7, <3>2, <3>3 DEF Quiet
  <2>10. CASE /\ Len(h) > HeaderLen
              /\ z = [p EXCEPT !.conn.state = "READ_REQUEST", !.conn.header = <<>>,
                               !.conn.request = t, !.conn.keepAlive = b]
    <3> DEFINE k == [o.conn EXCEPT !.state = "READ_REQUEST", !.header = <<>>,
                                   !.request = t, !.keepAlive = b]
    <3>1. /\ k.state = "READ_REQUEST" /\ k.response = o.conn.response /\ k.request = t
      BY <1>0 DEF Objects
    <3>2. z.conn = k /\ z.net = r.net /\ z.ran = o.ran
      BY <2>5, <2>10
    <3> HIDE DEF k
    <3>3. HeaderLen + Len(t) = Len(h)
      BY <2>3, <2>6, <2>10, Lengths
    <3>4. Asking(z.net, z.conn, x, u, g)
      BY <1>2, <2>3, <2>6, <2>7, <2>10, <3>1, <3>2, <3>3 DEF Asking, Held, Taken
    <3> QED BY <2>7, <3>2, <3>4 DEF Quiet
  <2> QED
    BY <2>4, <2>8, <2>9, <2>10
<1> QED
  BY <1>1, <1>2

\* Reading the request: the same, until the request is complete.
LEMMA RequestAsking ==
  ASSUME NEW o, NEW x, NEW u, NEW g, Ordinary(o, x, u, g),
         Asking(o.net, o.conn, x, u, g), NEW a, NEW z \in ServerReadRequest(o, a)
  PROVE  /\ Quiet(o, z)
         /\ z.on => \/ Asking(z.net, z.conn, x, u, g)
                    \/ Complete(z.net, z.conn, x, u, g)
<1>0. /\ o.net \in Connection /\ o.conn \in Objects /\ u \in Nat /\ u <= MessageLen
      /\ o \in Outcomes(o.net.end) /\ o.conn.response = <<>>
      /\ g = 0 /\ o.net.data["client"] = <<>> /\ o.net.data["server"] \in Seq({x})
  BY MessageLenIs DEF Ordinary, Outcomes, Asking
<1>1. CASE o.conn.state # "READ_REQUEST"
  BY <1>1 DEF ServerReadRequest, Quiet
<1>2. CASE o.conn.state = "READ_REQUEST"
  <2>0. /\ o.conn.request \in Seq({x}) /\ o.conn.request # <<>>
        /\ (HeaderLen + Len(o.conn.request)) + Len(o.net.data["server"]) = u
    BY <1>2 DEF Asking, Held, Taken
  <2>1. CASE Len(o.conn.request) >= BodyLen
    <3> DEFINE k == [o.conn EXCEPT !.state = "WRITE_RESPONSE"]
    <3>1. z = [o EXCEPT !.conn.state = "WRITE_RESPONSE"]
      BY <1>2, <2>1 DEF ServerReadRequest, Ordinary
    <3>2. z.conn = k /\ z.net = o.net /\ z.ran = o.ran
      BY <1>0, <3>1 DEF Outcomes
    <3>3. k.state = "WRITE_RESPONSE" /\ k.request = o.conn.request /\ k.response = <<>>
      BY <1>0 DEF Objects
    <3> HIDE DEF k
    <3>4. o.net.data["server"] = <<>> /\ u = MessageLen
      <4> DEFINE i == Len(o.conn.request)
                 j == Len(o.net.data["server"])
      <4>1. i \in Nat /\ j \in Nat /\ (HeaderLen + i) + j = u /\ i >= BodyLen
        BY <1>0, <2>0, <2>1, EmptyUnits
      <4> HIDE DEF i, j
      <4>2. j = 0 /\ u = MessageLen
        BY <1>0, <4>1, Lengths, MessageLenIs
      <4> QED BY <1>0, <4>2, EmptyUnits DEF j
    <3> QED BY <1>0, <2>0, <3>2, <3>3, <3>4 DEF Complete, Quiet
  <2>2. CASE ~(Len(o.conn.request) >= BodyLen)
    <3>1. PICK r \in NbRead(o.net, "server") :
            LET q == o.conn.request \o r.got
                p == [o EXCEPT !.net = r.net, !.conn.request = q]
            IN  z = CASE r.status = "error" -> Drop(p)
                      [] r.status # "error" /\ Len(q) < BodyLen -> [p EXCEPT !.on = r.status # "eof"]
                      [] OTHER -> [p EXCEPT !.conn.state = "WRITE_RESPONSE"]
      BY <1>2, <2>2 DEF ServerReadRequest, Ordinary
    <3>2. Read(o.net, "server", x, r) /\ Peer("server") = "client"
      <4>1. "server" \in Ends
        BY DEF Ends
      <4> QED BY <1>0, <4>1, ReadUnits DEF Peer
    <3> DEFINE q == o.conn.request \o r.got
               p == [o EXCEPT !.net = r.net, !.conn.request = q]
               k == [o.conn EXCEPT !.request = q]
    <3>3. /\ q \in Seq({x}) /\ Len(q) \in Nat /\ q # <<>>
          /\ (HeaderLen + Len(q)) + Len(r.net.data["server"]) = u
      <4>2. r.got \in Seq({x}) /\ r.net.data["server"] \in Seq({x})
            /\ Len(r.got) + Len(r.net.data["server"]) = Len(o.net.data["server"])
        BY <3>2 DEF Read
      <4>3. q \in Seq({x}) /\ Len(q) = Len(o.conn.request) + Len(r.got)
        BY <2>0, <4>2, JoinedUnits
      <4> DEFINE i == Len(o.conn.request)
                 j == Len(r.got)
                 l == Len(r.net.data["server"])
                 m == Len(q)
      <4>4. /\ i \in Nat /\ i # 0 /\ j \in Nat /\ l \in Nat /\ m = i + j
            /\ (HeaderLen + i) + (j + l) = u
        <5>1. /\ i \in Nat /\ i # 0 /\ j \in Nat /\ l \in Nat
          BY <2>0, <4>2, EmptyUnits
        <5>2. m = i + j /\ (HeaderLen + i) + (j + l) = u
          BY ONLY <2>0, <4>2, <4>3
        <5> QED BY <5>1, <5>2
      <4> HIDE DEF i, j, l, m
      <4>5. m \in Nat /\ m # 0 /\ (HeaderLen + m) + l = u
        BY ONLY <4>4, Lengths
      <4> HIDE DEF q
      <4> QED BY <4>3, <4>5, EmptyUnits DEF l, m
    <3>4. z = CASE r.status = "error" -> Drop(p)
                [] r.status # "error" /\ Len(q) < BodyLen -> [p EXCEPT !.on = r.status # "eof"]
                [] OTHER -> [p EXCEPT !.conn.state = "WRITE_RESPONSE"]
      BY <3>1
    <3> HIDE DEF q
    <3>5. k.request = q /\ k.state = "READ_REQUEST" /\ k.response = <<>>
          /\ k \in [state : {"READ_REQUEST"}, header : {o.conn.header}, request : {q},
                     response : {<<>>}, written : {o.conn.written}, keepAlive : BOOLEAN]
      BY <1>0, <1>2 DEF Objects
    <3>6. /\ p.conn = k /\ p.net = r.net /\ p.ran = o.ran
          /\ p \in [conn : {k}, net : {r.net}, on : BOOLEAN, ran : SUBSET Calls, killed : BOOLEAN]
      BY <1>0 DEF Outcomes
    <3>7. r.net.data["server"] \in Seq({x}) /\ r.net.data["client"] = o.net.data["client"]
      BY <3>2 DEF Read
    <3> HIDE DEF k, p
    <3>8. CASE z = Drop(p)
      <4>1. z.ran = p.ran /\ z.net = p.net /\ ~z.on
        BY <3>6, <3>8 DEF Drop
      <4> QED BY <3>6, <3>7, <4>1 DEF Quiet
    <3>9. CASE z = [p EXCEPT !.on = r.status # "eof"]
      <4>1. z.conn = k /\ z.net = r.net /\ z.ran = o.ran
        BY <3>6, <3>9
      <4>2. Asking(z.net, z.conn, x, u, g)
        BY <1>0, <3>3, <3>5, <3>7, <4>1 DEF Asking, Held, Taken
      <4> QED BY <3>7, <4>1, <4>2 DEF Quiet
    <3>10. CASE ~(Len(q) < BodyLen) /\ z = [p EXCEPT !.conn.state = "WRITE_RESPONSE"]
      <4> DEFINE j == [k EXCEPT !.state = "WRITE_RESPONSE"]
      <4>1. j.state = "WRITE_RESPONSE" /\ j.request = q /\ j.response = <<>>
        BY <3>5
      <4>2. z.conn = j /\ z.net = r.net /\ z.ran = o.ran
        BY <3>6, <3>10
      <4> HIDE DEF j
      <4>3. r.net.data["server"] = <<>> /\ u = MessageLen
        <5> DEFINE m == Len(q)
                   l == Len(r.net.data["server"])
        <5>1. m \in Nat /\ l \in Nat /\ (HeaderLen + m) + l = u /\ ~(m < BodyLen)
          BY <3>3, <3>7, <3>10, EmptyUnits
        <5> HIDE DEF m, l
        <5>2. l = 0 /\ u = MessageLen
          BY <1>0, <5>1, Lengths, MessageLenIs
        <5> QED BY <3>7, <5>2, EmptyUnits DEF l
      <4> QED BY <1>0, <3>3, <3>7, <4>1, <4>2, <4>3 DEF Complete, Quiet
    <3>11. \/ z = Drop(p) \/ z = [p EXCEPT !.on = r.status # "eof"]
           \/ ~(Len(q) < BodyLen) /\ z = [p EXCEPT !.conn.state = "WRITE_RESPONSE"]
      BY <3>4
    <3> QED BY <3>8, <3>9, <3>10, <3>11
  <2> QED BY <2>1, <2>2
<1> QED
  BY <1>1, <1>2

\* A line that is over stays so until the client asks again.
LEMMA HeaderOver ==
  ASSUME NEW o, NEW x, NEW u, NEW g, Ordinary(o, x, u, g),
         Over(o.net, o.conn, x, u, g), NEW a, NEW z \in ServerReadHeader(o, a)
  PROVE  Quiet(o, z) /\ (z.on => Over(z.net, z.conn, x, u, g))
<1>0. /\ o.net \in Connection /\ o.conn \in Objects /\ o \in Outcomes(o.net.end)
      /\ o.conn.state = "READ_HEADER" /\ o.conn.header = <<>>
      /\ o.net.data["server"] \in Seq({x}) /\ Len(o.net.data["server"]) = 0
  BY EmptyUnits DEF Ordinary, Outcomes, Over
<1>1. PICK r \in NbRead(o.net, "server") :
        LET h == o.conn.header \o r.got
            p == [o EXCEPT !.net = r.net]
        IN  z = CASE r.status = "error"  -> Drop(p)
                  [] r.status # "error" /\ Len(h) <= HeaderLen ->
                       [p EXCEPT !.conn.header = h, !.on = r.status # "eof"]
                  [] r.status # "error" /\ Len(h) > HeaderLen /\ h[1] \in NoLength -> Drop(p)
                  [] OTHER ->
                       [p EXCEPT !.conn.state     = "READ_REQUEST",
                                 !.conn.header    = <<>>,
                                 !.conn.request   = SubSeq(h, HeaderLen + 1, Len(h)),
                                 !.conn.keepAlive = h[1] \notin Closes]
  BY <1>0 DEF ServerReadHeader, Ordinary
<1>2. Read(o.net, "server", x, r) /\ Peer("server") = "client"
  <2>1. "server" \in Ends
    BY DEF Ends
  <2> QED BY <1>0, <2>1, ReadUnits DEF Peer
<1>3. /\ r.got = <<>> /\ r.net.data["server"] = <<>>
      /\ r.net.data["client"] = o.net.data["client"] /\ r.net.end = o.net.end
  <2>1. /\ r.got \in Seq({x}) /\ r.net.data["server"] \in Seq({x})
        /\ Len(r.got) + Len(r.net.data["server"]) = 0
        /\ r.net.data["client"] = o.net.data["client"] /\ r.net.end = o.net.end
    BY <1>0, <1>2 DEF Read
  <2> DEFINE i == Len(r.got)
             j == Len(r.net.data["server"])
  <2>2. i \in Nat /\ j \in Nat /\ i + j = 0
    BY <2>1, EmptyUnits
  <2> HIDE DEF i, j
  <2>3. i = 0 /\ j = 0
    BY ONLY <2>2
  <2>4. Len(r.got) = 0 /\ Len(r.net.data["server"]) = 0
    BY <2>3 DEF i, j
  <2> QED BY <2>1, <2>4, EmptyUnits
<1> DEFINE p == [o EXCEPT !.net = r.net]
           z1 == Drop(p)
           z2 == [p EXCEPT !.conn.header = <<>>, !.on = r.status # "eof"]
<1>4. z = z1 \/ z = z2
  <2>1. o.conn.header \o r.got = <<>> /\ Len(<<>>) <= HeaderLen
    BY <1>0, <1>3, Lengths
  <2> QED BY <1>1, <2>1
<1>5. /\ p.conn = o.conn /\ p.net = r.net /\ p.ran = o.ran
      /\ p \in [conn : Objects, net : {r.net}, on : BOOLEAN, ran : SUBSET Calls, killed : BOOLEAN]
  BY <1>0 DEF Outcomes
<1> HIDE DEF p
<1>6. CASE z = z1
  <2>1. z.ran = p.ran /\ z.net = p.net /\ ~z.on
    BY <1>5, <1>6 DEF Drop
  <2> QED BY <1>3, <1>5, <2>1 DEF Quiet
<1>7. CASE z = z2
  <2> DEFINE k == [o.conn EXCEPT !.header = <<>>]
  <2>1. k = o.conn
    BY <1>0 DEF Objects
  <2>2. z.conn = k /\ z.net = r.net /\ z.ran = o.ran
    BY <1>5, <1>7
  <2> HIDE DEF k
  <2>3. Over(z.net, z.conn, x, u, g)
    BY <1>3, <2>1, <2>2 DEF Over
  <2> QED BY <1>3, <2>2, <2>3 DEF Quiet
<1> QED
  BY <1>4, <1>6, <1>7

\* Writing the answer: the line goes on answering until it is written.
LEMMA WriteAnswering ==
  ASSUME NEW o, NEW x, NEW u, NEW g, o.on, o.conn.state = "WRITE_RESPONSE",
         Ordinary(ExecuteRequest(o), x, u, g), Unread(o.net, x, g),
         Answering(o.net, ExecuteRequest(o).conn, x, u, g),
         ExecuteRequest(o).net = o.net, NEW z \in WriteResponse(o)
  PROVE  /\ z.ran = ExecuteRequest(o).ran /\ Unread(z.net, x, g)
         /\ z.on => \/ Answering(z.net, z.conn, x, u, g)
                    \/ Over(z.net, z.conn, x, u, g)
<1> DEFINE p == ExecuteRequest(o)
           w == NbWrite(p.net, "server", p.conn.response, p.conn.written)
           q == [p EXCEPT !.net = w.net, !.conn.written = w.written]
           b == q.conn.keepAlive
           done == [NewServerConnection EXCEPT !.keepAlive = b]
           z1 == Drop(q)
           z2 == [q EXCEPT !.killed = TRUE]
           z3 == [q EXCEPT !.on = b]
           z4 == [q EXCEPT !.on = b, !.conn = done]
<1>1. z = CASE w.status = "error"   -> z1
            [] w.status = "sigpipe" -> z2
            [] w.status = "ok" /\ w.written < Len(p.conn.response) -> z3
            [] OTHER -> z4
  BY DEF WriteResponse
<1> HIDE DEF p
<1>2. /\ p \in Outcomes(p.net.end) /\ p.net \in Connection /\ p.conn \in Objects
      /\ p.conn.written \in Units /\ x \in Calls /\ p.conn.response = Message(x)
      /\ u = MessageLen /\ g \in Nat /\ p.conn.written < MessageLen
      /\ p.net.data["client"] \in Seq({x}) /\ p.net.data["server"] = <<>>
      /\ p.conn.state = "WRITE_RESPONSE"
      /\ g + Len(p.net.data["client"]) <= MessageLen
      /\ p.net.end["client"] # "closed" => g + Len(p.net.data["client"]) = p.conn.written
  BY MessageLenIs DEF p, Ordinary, Outcomes, Answering, Unread, Objects
<1>3. Wrote(p.net, "server", x, p.conn.written, w)
  <2>1. "server" \in Ends /\ Peer("server") = "client"
    BY DEF Ends, Peer
  <2> HIDE DEF w
  <2> QED BY <1>2, <2>1, WriteUnits DEF w
<1> HIDE DEF w
<1> DEFINE l == Len(p.net.data["client"])
           m == Len(w.net.data["client"])
           v == w.written
<1>4. /\ w.net.end = p.net.end /\ w.net.data["server"] = <<>>
      /\ w.net.data["client"] \in Seq({x}) /\ w.written \in p.conn.written..MessageLen
      /\ IF p.net.end["client"] = "closed"
           THEN w.net.data["client"] = p.net.data["client"]
           ELSE m = l + (v - p.conn.written)
      /\ w.status \in {"ok", "error", "sigpipe"}
      /\ w.status # "ok" => w.written = p.conn.written
  BY <1>2, <1>3 DEF Wrote, Peer
<1>5. /\ Unread(w.net, x, g) /\ v \in Units
      /\ w.net.end["client"] # "closed" => g + m = v
  <2>1. l \in Nat /\ m \in Nat /\ v \in Nat /\ v <= MessageLen /\ p.conn.written \in Nat
        /\ MessageLen \in Nat /\ Units = 0..MessageLen
    <3>1. l \in Nat /\ m \in Nat
      BY <1>2, <1>4, EmptyUnits
    <3>2. MessageLen \in Nat /\ Units = 0..MessageLen
      BY MessageLenIs
    <3>3. p.conn.written \in Nat /\ v \in p.conn.written..MessageLen
      BY <1>2, <1>4, <3>2
    <3> HIDE DEF l, m, v
    <3> QED BY <3>1, <3>2, <3>3
  <2>2. CASE p.net.end["client"] = "closed"
    BY <1>2, <1>4, <2>1, <2>2 DEF Unread
  <2>3. CASE p.net.end["client"] # "closed"
    <3> DEFINE t == p.conn.written
    <3>1. g + l = t /\ m = l + (v - t) /\ t \in Nat
      BY <1>2, <1>4, <2>1, <2>3
    <3> HIDE DEF l, m, v, t
    <3>2. g + m = v
      BY ONLY <1>2, <2>1, <3>1
    <3>3. Unread(w.net, x, g)
      BY <1>4, <2>1, <3>2 DEF Unread, m
    <3> QED BY <2>1, <3>2, <3>3
  <2> QED BY <2>2, <2>3
<1> HIDE DEF l, v
<1>6. /\ q.net = w.net /\ q.ran = p.ran /\ q.conn = [p.conn EXCEPT !.written = v]
      /\ q \in [conn : {q.conn}, net : {w.net}, on : BOOLEAN, ran : {p.ran}, killed : BOOLEAN]
  BY <1>2 DEF Outcomes, v
<1> HIDE DEF q
<1>7. /\ q.conn.state = "WRITE_RESPONSE" /\ q.conn.response = Message(x)
      /\ q.conn.written = v
  BY <1>2, <1>6 DEF Objects
<1>8. v < MessageLen => Answering(w.net, q.conn, x, u, g)
  BY <1>2, <1>4, <1>5, <1>7 DEF Answering, m
<1>9. Len(p.conn.response) = MessageLen
  BY <1>2, MessageUnits
<1> HIDE DEF b, done
<1>10. CASE z = z1
  <2>1. z.ran = q.ran /\ z.net = q.net /\ ~z.on
    BY <1>6, <1>10 DEF Drop
  <2> QED BY <1>5, <1>6, <2>1 DEF p
<1>11. CASE z = z2 /\ w.status = "sigpipe"
  <2>1. z.ran = q.ran /\ z.net = q.net /\ z.conn = q.conn
    BY <1>6, <1>11
  <2>2. v < MessageLen
    BY <1>2, <1>4, <1>11 DEF v
  <2> QED BY <1>5, <1>6, <1>8, <2>1, <2>2 DEF p
<1>12. CASE z = z3 /\ w.written < Len(p.conn.response)
  <2>1. z.ran = q.ran /\ z.net = q.net /\ z.conn = q.conn
    BY <1>6, <1>12
  <2>2. v < MessageLen
    BY <1>9, <1>12 DEF v
  <2> QED BY <1>5, <1>6, <1>8, <2>1, <2>2 DEF p
<1>13. CASE z = z4 /\ ~(w.written < Len(p.conn.response))
  <2>1. z.ran = q.ran /\ z.net = q.net /\ z.conn = done
    BY <1>6, <1>13
  <2>2. v = MessageLen
    <3>1. v \in Nat /\ v <= MessageLen /\ ~(v < MessageLen) /\ MessageLen \in Nat
      BY <1>5, <1>9, <1>13, MessageLenIs DEF v
    <3> QED BY ONLY <3>1
  <2>3. done.state = "READ_HEADER" /\ done.header = <<>> /\ done.response = <<>>
    BY DEF done, NewServerConnection
  <2>4. Over(z.net, z.conn, x, u, g)
    BY <1>2, <1>4, <1>5, <1>6, <2>1, <2>2, <2>3 DEF Over, m
  <2> QED BY <1>5, <1>6, <2>1, <2>4 DEF p
<1>14. \/ z = z1
       \/ z = z2 /\ w.status = "sigpipe"
       \/ z = z3 /\ w.written < Len(p.conn.response)
       \/ z = z4 /\ ~(w.written < Len(p.conn.response))
  <2> HIDE DEF z1, z2, z3, z4
  <2>1. w.status \in {"ok", "error", "sigpipe"}
    BY <1>4
  <2> QED BY ONLY <1>1, <2>1
<1> QED
  BY <1>10, <1>11, <1>12, <1>13, <1>14

\* Before the first write of an answer, the call is executed.
LEMMA ExecuteComplete ==
  ASSUME NEW o, NEW x, NEW u, NEW g, Ordinary(o, x, u, g),
         Complete(o.net, o.conn, x, u, g)
  PROVE  /\ Ordinary(ExecuteRequest(o), x, u, g) /\ ExecuteRequest(o).ran = {x}
         /\ ExecuteRequest(o).net = o.net
         /\ Answering(o.net, ExecuteRequest(o).conn, x, u, g)
<1> DEFINE e == ExecuteRequest(o)
           k == [o.conn EXCEPT !.response = Message(x), !.written = 0]
<1>1. /\ o \in Outcomes(o.net.end) /\ o.conn \in Objects /\ o.conn.state = "WRITE_RESPONSE"
      /\ o.conn.request \in Seq({x}) /\ Len(o.conn.request) >= 1 /\ o.conn.response = <<>>
  BY Lengths DEF Ordinary, Complete, Outcomes, Objects
<1>2. o.conn.request[1] = x
  BY <1>1
<1>3. e = [o EXCEPT !.conn.response = Message(x), !.conn.written = 0, !.ran = {x}]
  BY <1>1, <1>2 DEF ExecuteRequest
<1>4. e.conn = k /\ e.ran = {x} /\ e.on = o.on /\ e.net = o.net
  BY <1>1, <1>3 DEF Outcomes
<1>5. e \in Outcomes(o.net.end)
  BY <1>1, ExecuteOutcome
<1>6. k.state = "WRITE_RESPONSE" /\ k.response = Message(x) /\ k.written = 0
  BY <1>1 DEF Objects
<1> HIDE DEF e, k
<1>7. Answering(o.net, e.conn, x, u, g)
  <2>1. g + Len(o.net.data["client"]) = 0 /\ 0 < MessageLen
    <3>1. g = 0 /\ o.net.data["client"] = <<>> /\ Len(<<>>) = 0
      BY EmptySeq DEF Complete
    <3>2. 0 < MessageLen
      BY MessageLenIs, Lengths
    <3> QED BY <3>1, <3>2
  <2> QED BY <1>4, <1>6, <2>1 DEF Answering, Complete
<1>8. Ordinary(e, x, u, g)
  BY <1>4, <1>5 DEF Ordinary
<1> QED
  BY <1>4, <1>7, <1>8 DEF e

\* What one event makes of a line: a request comes further, or its call is
\* executed, once it is complete, and answered.
Handled(z, k, s, x, u, g) ==
  /\ Unread(z.net, x, g)
  /\ z.ran = {} \/ (z.ran = {x} /\ Asking(k, s, x, u, g) /\ u = MessageLen)
  /\ z.ran = {} => z.net.data["client"] = k.data["client"] \/ s.state = "WRITE_RESPONSE"
  /\ z.on => IF Asking(k, s, x, u, g) /\ z.ran = {}
                THEN Asking(z.net, z.conn, x, u, g)
                ELSE \/ Answering(z.net, z.conn, x, u, g) /\ ~Over(k, s, x, u, g)
                     \/ Over(z.net, z.conn, x, u, g)

\* A line that asks does not answer yet.
LEMMA PhasesApart ==
  ASSUME NEW k, NEW s, NEW x, NEW u, NEW g, Asking(k, s, x, u, g)
  PROVE  ~Answering(k, s, x, u, g) /\ ~Over(k, s, x, u, g)
<1>1. ~Answering(k, s, x, u, g)
  BY DEF Asking, Answering
<1>2. ASSUME Over(k, s, x, u, g) PROVE FALSE
  <2>1. Taken(s) = Len(<<>>) /\ k.data["server"] = <<>> /\ Len(<<>>) = 0
    BY <1>2, EmptySeq DEF Over, Taken
  <2>2. 0 + 0 = MessageLen
    BY <1>2, <2>1 DEF Asking, Over
  <2> QED BY <2>2, MessageLenIs, Lengths
<1> QED
  BY <1>1, <1>2

\* The stages of an event one after the other, as far as the data goes.
LEMMA HandleEventLine ==
  ASSUME NEW c \in Conns, NEW a \in BOOLEAN, sc[c] \in Objects, net[c] \in Connection,
         NEW z \in HandleEvent(c, a), NEW x, NEW u, NEW g,
         Line(net[c], sc[c], x, u, g), net[c].end["server"] # "closed"
  PROVE  Handled(z, net[c], sc[c], x, u, g)
<1> DEFINE k == net[c]
           s == sc[c]
           o == [conn |-> s, net |-> k, on |-> TRUE, ran |-> {}, killed |-> FALSE]
           h == ServerReadHeader(o, a)
           r == UNION { ServerReadRequest(p, a /\ p.conn = sc[c]) : p \in h }
<1>1. z \in UNION { WriteResponse(p) : p \in r }
  BY DEF HandleEvent
<1>2. /\ o \in Outcomes(k.end) /\ o.on /\ o.ran = {} /\ o.net = k /\ o.conn = s
  BY DEF Outcomes
<1> HIDE DEF o
<1>3. PICK p \in r : z \in WriteResponse(p)
  BY <1>1
<1>4. PICK y \in h : p \in ServerReadRequest(y, a /\ y.conn = sc[c])
  BY <1>3
<1> DEFINE b == a /\ y.conn = sc[c]
<1>5. b \in BOOLEAN
  OBVIOUS
<1> HIDE DEF b
<1>6. y \in Outcomes(k.end) /\ p \in Outcomes(k.end)
  BY <1>2, <1>4, <1>5, ReadHeaderOutcome, ReadRequestOutcome DEF b
<1>7. y.net.end = k.end /\ p.net.end = k.end
  BY <1>6 DEF Outcomes
<1> HIDE DEF k, s, h, r
<1>8. x \in Calls /\ u \in Units /\ g \in Units /\ Unread(k, x, g) /\ Phases(k, s, x, u, g)
  BY DEF Line, k, s
<1> SUFFICES Handled(z, k, s, x, u, g)
  BY DEF k, s
<1>9. /\ Ordinary(o, x, u, g) /\ (y.on => Ordinary(y, x, u, g))
      /\ p.on => Ordinary(p, x, u, g)
  BY <1>2, <1>6, <1>7, <1>8 DEF Ordinary
<1>10. /\ ~y.on => p = y
       /\ ~p.on => z = p
  BY <1>3, <1>4 DEF ServerReadRequest, WriteResponse
<1>11. /\ y.conn.state # "READ_REQUEST" => p = y
       /\ p.conn.state # "WRITE_RESPONSE" => z = p
  BY <1>3, <1>4 DEF ServerReadRequest, WriteResponse
<1>12. ASSUME p.ran = {}, p.net.data["client"] = k.data["client"], ~p.on
       PROVE  Handled(z, k, s, x, u, g)
  BY <1>8, <1>10, <1>12 DEF Handled, Unread
<1>13. CASE Asking(k, s, x, u, g)
  <2>1. Quiet(o, y) /\ (y.on => Asking(y.net, y.conn, x, u, g))
    BY <1>2, <1>4, <1>9, <1>13, HeaderAsking DEF h
  <2>2. /\ Quiet(o, p)
        /\ p.on => Asking(p.net, p.conn, x, u, g) \/ Complete(p.net, p.conn, x, u, g)
    <3>1. CASE ~y.on
      BY <1>10, <2>1, <3>1
    <3>2. CASE y.on
      <4>1. /\ Quiet(y, p)
            /\ p.on => Asking(p.net, p.conn, x, u, g) \/ Complete(p.net, p.conn, x, u, g)
        BY <1>4, <1>9, <2>1, <3>2, RequestAsking
      <4> QED BY <2>1, <4>1 DEF Quiet
    <3> QED BY <3>1, <3>2
  <2>3. p.ran = {} /\ p.net.data["client"] = k.data["client"]
    BY <1>2, <2>2 DEF Quiet
  <2>4. CASE ~p.on
    BY <1>12, <2>3, <2>4
  <2>5. CASE p.on /\ Asking(p.net, p.conn, x, u, g)
    <3>1. z = p
      BY <1>11, <2>5 DEF Asking
    <3> QED BY <1>8, <1>13, <2>3, <2>5, <3>1 DEF Handled, Unread
  <2>6. CASE p.on /\ Complete(p.net, p.conn, x, u, g)
    <3> DEFINE e == ExecuteRequest(p)
    <3>1. /\ Ordinary(e, x, u, g) /\ e.ran = {x} /\ e.net = p.net
          /\ Answering(p.net, e.conn, x, u, g)
      BY <1>9, <2>6, ExecuteComplete
    <3>2. p.conn.state = "WRITE_RESPONSE" /\ Unread(p.net, x, g) /\ u = MessageLen
      BY <1>8, <2>3, <2>6 DEF Complete, Unread
    <3>3. /\ z.ran = {x} /\ Unread(z.net, x, g)
          /\ z.on => \/ Answering(z.net, z.conn, x, u, g)
                     \/ Over(z.net, z.conn, x, u, g)
      BY <1>3, <2>6, <3>1, <3>2, WriteAnswering
    <3> QED BY <1>13, <3>2, <3>3, PhasesApart DEF Handled
  <2> QED BY <2>2, <2>4, <2>5, <2>6
<1>14. CASE Answering(k, s, x, u, g)
  <2>1. y = o
    BY <1>2, <1>4, <1>14 DEF h, ServerReadHeader, Answering
  <2>2. p = o
    BY <1>2, <1>11, <1>14, <2>1 DEF Answering
  <2>3. ExecuteRequest(p) = p
    BY <1>2, <1>8, <1>14, <2>2, MessageIs DEF ExecuteRequest, Answering
  <2>4. p.conn.state = "WRITE_RESPONSE"
    BY <1>2, <1>14, <2>2 DEF Answering
  <2>5. /\ z.ran = p.ran /\ Unread(z.net, x, g)
        /\ z.on => \/ Answering(z.net, z.conn, x, u, g)
                   \/ Over(z.net, z.conn, x, u, g)
    BY <1>2, <1>3, <1>8, <1>9, <1>14, <2>2, <2>3, <2>4, WriteAnswering
  <2>6. ~Asking(k, s, x, u, g)
    BY <1>14, PhasesApart
  <2> QED BY <1>2, <1>14, <2>2, <2>5, <2>6 DEF Handled, Answering, Over
<1>15. CASE Over(k, s, x, u, g)
  <2>1. Quiet(o, y) /\ (y.on => Over(y.net, y.conn, x, u, g))
    BY <1>2, <1>4, <1>9, <1>15, HeaderOver DEF h
  <2>2. p = y
    BY <1>10, <1>11, <2>1 DEF Over
  <2>3. p.ran = {} /\ p.net.data["client"] = k.data["client"]
    BY <1>2, <2>1, <2>2 DEF Quiet
  <2>4. CASE ~p.on
    BY <1>12, <2>3, <2>4
  <2>5. CASE p.on
    <3>1. z = p
      BY <1>11, <2>1, <2>2, <2>5 DEF Over
    <3>2. ~Asking(k, s, x, u, g)
      BY <1>15, PhasesApart
    <3> QED BY <1>8, <2>1, <2>2, <2>3, <2>5, <3>1, <3>2 DEF Handled, Unread
  <2> QED BY <2>4, <2>5
<1> QED
  BY <1>8, <1>13, <1>14, <1>15 DEF Phases

(***************************************************************************)
(* Ends that are closed.                                                   *)
(***************************************************************************)
\* n is k with its end e closed; the other end may go with it.
EndClosed(k, e, n) ==
  /\ n.end[e] = "closed" /\ n.data[e] = <<>>
  /\ IF k.end[Peer(e)] \in {"open", "backlog"}
       THEN n.end[Peer(e)] = k.end[Peer(e)] /\ n.data[Peer(e)] = k.data[Peer(e)]
       ELSE n.end[Peer(e)] = "closed" /\ n.data[Peer(e)] = <<>>

\* CloseEnd, whether or not the connection is broken too.
LEMMA CloseEndIs ==
  ASSUME NEW k \in Connection, NEW e \in Ends
  PROVE  /\ EndClosed(k, e, CloseEnd(k, e))
         /\ EndClosed(k, e, [CloseEnd(k, e) EXCEPT !.link = "reset"])
<1> DEFINE p == Peer(e)
           j == [k EXCEPT !.end[e]  = "closed",
                          !.data[e] = <<>>,
                          !.link    = IF k.data[e] # <<>> THEN "reset" ELSE @]
           n == CloseEnd(k, e)
<1>1. Joins(k) /\ p \in Ends /\ p # e /\ Ends = {e, p}
  BY ConnectionJoins DEF Peer, Ends
<1>2. /\ j.end[e] = "closed" /\ j.data[e] = <<>>
      /\ j.end[p] = k.end[p] /\ j.data[p] = k.data[p]
  BY <1>1 DEF Joins
<1>3. n = Gone(j) /\ n \in Connection
  BY CloseJoins DEF CloseEnd
<1> HIDE DEF j, n
<1>4. CASE k.end[p] \in {"open", "backlog"}
  <2>1. n = j
    BY <1>1, <1>2, <1>3, <1>4 DEF Gone
  <2> QED BY <1>2, <1>4, <2>1 DEF EndClosed, n, p
<1>5. CASE k.end[p] \notin {"open", "backlog"}
  <2>1. n = [NoConnection EXCEPT !.end = [f \in Ends |-> "closed"]]
    BY <1>1, <1>2, <1>3, <1>5 DEF Gone
  <2>2. n.end = [f \in Ends |-> "closed"] /\ n.data = [f \in Ends |-> <<>>]
    BY <2>1 DEF NoConnection
  <2>3. n.end[e] = "closed" /\ n.end[p] = "closed" /\ n.data[e] = <<>> /\ n.data[p] = <<>>
    BY <1>1, <2>2
  <2> QED BY <1>5, <2>3 DEF EndClosed, n, p
<1>6. EndClosed(k, e, n)
  BY <1>4, <1>5 DEF n
<1>7. [n EXCEPT !.link = "reset"].end = n.end /\ [n EXCEPT !.link = "reset"].data = n.data
  BY <1>3 DEF Connection
<1> DEFINE m == [n EXCEPT !.link = "reset"]
<1> HIDE DEF m
<1>8. EndClosed(k, e, m)
  BY <1>6, <1>7 DEF EndClosed, m
<1> QED
  BY <1>6, <1>8 DEF n, m

\* With the server's end closed it is a line whatever the object says.
LEMMA ServerGone ==
  ASSUME NEW k \in Connection, NEW n, EndClosed(k, "server", n)
  PROVE  /\ \A x, u, g, s : /\ x \in Calls /\ u \in Units /\ g \in Units
                             /\ Unread(k, x, g)
                             => Line(n, s, x, u, g)
         /\ n.data["client"] # <<>> => n.data["client"] = k.data["client"]
         /\ k.end["client"] = "open" => n.end["client"] = "open"
         /\ n.end["server"] = "closed"
<1>1. /\ n.end["server"] = "closed" /\ n.data["server"] = <<>>
      /\ n.data["client"] = k.data["client"] \/ n.data["client"] = <<>>
      /\ k.end["client"] = "open" => n.end["client"] = "open"
  BY DEF EndClosed, Peer
<1>2. ASSUME NEW x \in Calls, NEW g \in Units, Unread(k, x, g) PROVE Unread(n, x, g)
  <2>1. <<>> \in Seq({x}) /\ Len(<<>>) = 0 /\ g + 0 <= MessageLen
    BY EmptySeq, MessageLenIs
  <2> QED BY <1>1, <1>2, <2>1 DEF Unread
<1> QED
  BY <1>1, <1>2 DEF Line

\* With the client's end closed it remains the line it was.
LEMMA ClientGone ==
  ASSUME NEW k \in Connection, NEW n, EndClosed(k, "client", n),
         NEW s, NEW x, NEW u, NEW g, Line(k, s, x, u, g)
  PROVE  Line(n, s, x, u, g)
<1>1. /\ n.end["client"] = "closed" /\ n.data["client"] = <<>>
      /\ IF k.end["server"] \in {"open", "backlog"}
           THEN n.end["server"] = k.end["server"] /\ n.data["server"] = k.data["server"]
           ELSE n.end["server"] = "closed" /\ n.data["server"] = <<>>
  BY DEF EndClosed, Peer
<1>2. Unread(n, x, g)
  <2>1. <<>> \in Seq({x}) /\ Len(<<>>) = 0 /\ g + 0 <= MessageLen
    BY EmptySeq, MessageLenIs DEF Line
  <2> QED BY <1>1, <2>1 DEF Unread
<1>3. CASE k.end["server"] \in {"open", "backlog"}
  BY <1>1, <1>2, <1>3 DEF Line, Phases, Asking, Answering, Over
<1>4. CASE k.end["server"] \notin {"open", "backlog"}
  BY <1>1, <1>2, <1>4 DEF Line
<1> QED
  BY <1>3, <1>4

(***************************************************************************)
(* The calls a line owes.                                                  *)
(***************************************************************************)
LEMMA OwesIs ==
  ASSUME NEW k, NEW s \in Objects, NEW x, NEW u, NEW g, Line(k, s, x, u, g), NEW y
  PROVE  Owes(k, s, y) <=>
           k.end["server"] # "closed" /\ Asking(k, s, x, u, g) /\ u > 0 /\ y = x
<1>1. CASE k.end["server"] = "closed"
  BY <1>1 DEF Owes
<1>2. CASE k.end["server"] # "closed" /\ Asking(k, s, x, u, g)
  <2>1. /\ Held(s) \in Seq({x}) /\ k.data["server"] \in Seq({x})
        /\ Taken(s) + Len(k.data["server"]) = u /\ s.state \in Stages
        /\ s.state # "WRITE_RESPONSE"
        /\ s.state = "READ_REQUEST" => s.request # <<>>
    BY <1>2 DEF Asking, Objects
  <2> DEFINE h == Held(s)
             d == k.data["server"]
  <2>2. /\ Range(h) \subseteq {x} /\ Range(d) \subseteq {x} /\ Range(<<>>) = {}
        /\ (h # <<>> => Range(h) = {x}) /\ (d # <<>> => Range(d) = {x})
        /\ Len(h) \in Nat /\ Len(d) \in Nat /\ (Len(h) = 0 <=> h = <<>>) /\ (Len(d) = 0 <=> d = <<>>)
    <3>1. h \in Seq({x}) /\ d \in Seq({x})
      BY <2>1
    <3> HIDE DEF h, d
    <3> QED BY <3>1, RangeOfUnits, EmptyUnits
  <2>3. Owes(k, s, y) <=> y \in Range(h) \cup Range(d)
    BY <1>2, <2>1 DEF Owes
  <2>4. CASE s.state = "READ_HEADER"
    <3>1. h = s.header /\ Len(h) + Len(d) = u
      BY <2>1, <2>4 DEF Held, Taken
    <3> HIDE DEF h, d
    <3>2. u > 0 <=> h # <<>> \/ d # <<>>
      <4>1. \A i, j \in Nat : i + j > 0 <=> i # 0 \/ j # 0
        OBVIOUS
      <4> QED BY <2>2, <3>1, <4>1
    <3> QED BY <1>2, <2>2, <2>3, <3>2
  <2>5. CASE s.state = "READ_REQUEST"
    <3>1. h = s.request /\ (HeaderLen + Len(h)) + Len(d) = u /\ h # <<>>
      BY <2>1, <2>5 DEF Held, Taken
    <3> HIDE DEF h, d
    <3>2. u > 0
      <4>1. \A i, j \in Nat : (HeaderLen + i) + j > 0
        BY Lengths
      <4> QED BY <2>2, <3>1, <4>1
    <3> QED BY <1>2, <2>2, <2>3, <3>1, <3>2
  <2> QED BY <2>1, <2>4, <2>5 DEF Stages
<1>3. CASE k.end["server"] # "closed" /\ Answering(k, s, x, u, g)
  <2>1. ~Asking(k, s, x, u, g)
    BY <1>3, PhasesApart
  <2> QED BY <1>3, <2>1 DEF Owes, Answering
<1>4. CASE k.end["server"] # "closed" /\ Over(k, s, x, u, g)
  <2>1. ~Asking(k, s, x, u, g)
    BY <1>4, PhasesApart
  <2>2. Held(s) = <<>> /\ k.data["server"] = <<>>
    BY <1>4 DEF Over, Held
  <2>3. Range(<<>>) = {}
    BY EmptySeq, RangeOfUnits
  <2> QED BY <1>4, <2>1, <2>2, <2>3 DEF Owes
<1> QED
  BY <1>1, <1>2, <1>3, <1>4 DEF Line, Phases

(***************************************************************************)
(* The server's steps.  Connection k and object s become m and t, and the  *)
(* calls in ran were executed.                                             *)
(***************************************************************************)
Keeps(k, s, m, t, ran) ==
  /\ \A x, u, g : Line(k, s, x, u, g) =>
       /\ Line(m, t, x, u, g)
       /\ Shown(m, t, g) => Shown(k, s, g) \/ x \in ran
  /\ k.end["client"] = "open" => m.end["client"] = "open"
  /\ \A y : Owes(m, t, y) => Owes(k, s, y) /\ y \notin ran

\* Call y was complete on connection c, and is executed.
Executed(c, y) ==
  /\ executed' = [executed EXCEPT ![y] = @ + 1]
  /\ y \in Calls /\ Owes(net[c], sc[c], y)
  /\ \A x, u, g : Line(net[c], sc[c], x, u, g) => x = y /\ u = MessageLen

\* All lines are kept, and at most one call is executed.
ServerKeeps ==
  /\ NewObjects'
  /\ \/ /\ executed' = executed
        /\ \A c \in Conns : Keeps(net[c], sc[c], net'[c], sc'[c], {})
     \/ \E d \in Conns, y \in Calls :
          /\ Executed(d, y)
          /\ \A c \in Conns :
               Keeps(net[c], sc[c], net'[c], sc'[c], IF c = d THEN {y} ELSE {})

\* Nothing happened.
LEMMA KeepsSame == \A k, s : Keeps(k, s, k, s, {})
BY DEF Keeps

\* The server's end was closed and its object deleted.
LEMMA KeepsGone ==
  ASSUME NEW k \in Connection, NEW m, EndClosed(k, "server", m), NEW s, NEW ran
  PROVE  Keeps(k, s, m, NewServerConnection, ran)
<1>1. ASSUME NEW x, NEW u, NEW g, Line(k, s, x, u, g)
      PROVE  /\ Line(m, NewServerConnection, x, u, g)
             /\ Shown(m, NewServerConnection, g) => Shown(k, s, g)
  <2>1. Line(m, NewServerConnection, x, u, g)
    BY <1>1, ServerGone DEF Line
  <2> QED BY <2>1, ServerGone DEF Shown, NewServerConnection
<1>2. ~\E y : Owes(m, NewServerConnection, y)
  BY ServerGone DEF Owes
<1> QED
  BY <1>1, <1>2, ServerGone DEF Keeps

\* An event: the connection is kept, or the server closes it.
LEMMA KeepsHandled ==
  ASSUME NEW k \in Connection, NEW s \in Objects, NEW z \in Outcomes(k.end),
         k.end["server"] # "closed",
         \A x, u, g : Line(k, s, x, u, g) => Handled(z, k, s, x, u, g),
         NEW x0, NEW u0, NEW g0, Line(k, s, x0, u0, g0)
  PROVE  /\ z.on => Keeps(k, s, z.net, z.conn, z.ran)
         /\ \A m : EndClosed(z.net, "server", m) => Keeps(k, s, m, NewServerConnection, z.ran)
         /\ z.ran # {} =>
              /\ x0 \in Calls /\ z.ran = {x0} /\ Owes(k, s, x0)
              /\ \A x, u, g : Line(k, s, x, u, g) => x = x0 /\ u = MessageLen
<1>1. z.net \in Connection /\ z.net.end = k.end /\ z.conn \in Objects
  BY DEF Outcomes
<1>2. ASSUME NEW x, NEW u, NEW g, Line(k, s, x, u, g)
      PROVE  /\ Handled(z, k, s, x, u, g) /\ x \in Calls /\ u \in Units /\ g \in Units
             /\ Phases(k, s, x, u, g)
  BY <1>2 DEF Line
<1>3. ASSUME NEW x, NEW u, NEW g, Line(k, s, x, u, g), z.on
      PROVE  Line(z.net, z.conn, x, u, g)
  BY <1>1, <1>2, <1>3 DEF Line, Handled, Phases
<1>4. ASSUME NEW x, NEW u, NEW g, Line(k, s, x, u, g), x \notin z.ran,
             z.net.data["client"] # <<>>
      PROVE  Shown(k, s, g)
  BY <1>2, <1>4 DEF Handled, Shown
<1>5. ASSUME NEW x, NEW u, NEW g, Line(k, s, x, u, g), x \notin z.ran, z.on,
             Shown(z.net, z.conn, g)
      PROVE  Shown(k, s, g)
  <2>1. z.ran = {} /\ Handled(z, k, s, x, u, g)
    BY <1>2, <1>5 DEF Handled
  <2>2. CASE Asking(k, s, x, u, g)
    BY <1>5, <2>1, <2>2 DEF Handled, Shown, Asking
  <2>3. CASE Answering(k, s, x, u, g)
    BY <2>3 DEF Answering, Shown
  <2>4. CASE Over(k, s, x, u, g)
    <3>1. ~Asking(k, s, x, u, g) /\ s.state = "READ_HEADER"
      BY <2>4, PhasesApart DEF Over
    <3>2. z.net.data["client"] = k.data["client"]
      BY <2>1, <3>1 DEF Handled
    <3>3. z.conn.state # "WRITE_RESPONSE"
      BY <1>5, <2>1, <2>4, <3>1 DEF Handled, Over
    <3> QED BY <1>5, <3>2, <3>3 DEF Shown
  <2> QED BY <1>2, <1>5, <2>2, <2>3, <2>4 DEF Phases
<1>6. /\ \A x, u, g : Line(k, s, x, u, g) => z.ran = {} \/ (z.ran = {x} /\ u = MessageLen)
      /\ z.ran # {} => /\ x0 \in Calls /\ z.ran = {x0} /\ Owes(k, s, x0)
  <2>1. \A x, u, g : Line(k, s, x, u, g) => z.ran = {} \/ (z.ran = {x} /\ u = MessageLen)
    BY <1>2 DEF Handled
  <2>2. ASSUME z.ran # {} PROVE x0 \in Calls /\ z.ran = {x0} /\ Owes(k, s, x0)
    <3>1. z.ran = {x0} /\ Asking(k, s, x0, u0, g0) /\ u0 = MessageLen /\ x0 \in Calls
      BY <1>2, <2>2 DEF Handled
    <3>2. u0 > 0
      BY <3>1, MessageLenIs, Lengths
    <3> QED BY <3>1, <3>2, OwesIs
  <2> QED BY <2>1, <2>2
<1>7. ASSUME z.on, NEW y, Owes(z.net, z.conn, y) PROVE Owes(k, s, y) /\ y \notin z.ran
  <2>1. Line(z.net, z.conn, x0, u0, g0)
    BY <1>3, <1>7
  <2>2. Asking(z.net, z.conn, x0, u0, g0) /\ u0 > 0 /\ y = x0
    BY <1>1, <1>7, <2>1, OwesIs
  <2>3. Asking(k, s, x0, u0, g0) /\ z.ran = {}
    BY <1>2, <1>7, <2>2, PhasesApart DEF Handled
  <2> QED BY <2>2, <2>3, OwesIs
<1>8. ASSUME NEW m, EndClosed(z.net, "server", m)
      PROVE  Keeps(k, s, m, NewServerConnection, z.ran)
  <2>1. /\ \A x, u, g, t : /\ x \in Calls /\ u \in Units /\ g \in Units
                           /\ Unread(z.net, x, g)
                           => Line(m, t, x, u, g)
        /\ m.data["client"] # <<>> => m.data["client"] = z.net.data["client"]
        /\ k.end["client"] = "open" => m.end["client"] = "open"
        /\ m.end["server"] = "closed"
    BY <1>1, <1>8, ServerGone
  <2>2. ASSUME NEW x, NEW u, NEW g, Line(k, s, x, u, g)
        PROVE  /\ Line(m, NewServerConnection, x, u, g)
               /\ Shown(m, NewServerConnection, g) => Shown(k, s, g) \/ x \in z.ran
    <3>1. Line(m, NewServerConnection, x, u, g)
      BY <1>2, <2>1, <2>2 DEF Handled
    <3>2. ASSUME Shown(m, NewServerConnection, g), x \notin z.ran
          PROVE  Shown(k, s, g)
      <4>1. g > 0 \/ m.data["client"] # <<>>
        BY <3>2 DEF Shown, NewServerConnection
      <4>2. CASE g > 0
        BY <4>2 DEF Shown
      <4>3. CASE m.data["client"] # <<>>
        BY <1>4, <2>1, <2>2, <3>2, <4>3
      <4> QED BY <4>1, <4>2, <4>3
    <3> QED BY <3>1, <3>2
  <2>3. ~\E y : Owes(m, NewServerConnection, y)
    BY <2>1 DEF Owes
  <2> QED BY <2>1, <2>2, <2>3 DEF Keeps
<1>9. z.on => Keeps(k, s, z.net, z.conn, z.ran)
  BY <1>1, <1>3, <1>5, <1>7 DEF Keeps
<1> QED
  BY <1>6, <1>8, <1>9

\* Every end of the server's was closed.
LEMMA KeepsEnded ==
  ASSUME NEW n \in [Conns -> Connection], NEW c \in Conns, NEW s,
         n[c].end["server"] # "open" => s = NewServerConnection
  PROVE  /\ Keeps(n[c], s, ServerEndsClosed(n)[c], NewServerConnection, {})
         /\ n[c].end["server"] = "open" => EndClosed(n[c], "server", ServerEndsClosed(n)[c])
<1> DEFINE k == n[c]
           m == ServerEndsClosed(n)[c]
           x == CloseEnd(k, "server")
           y == [CloseEnd(k, "server") EXCEPT !.link = "reset"]
<1>1. k \in Connection /\ EndClosed(k, "server", x) /\ EndClosed(k, "server", y)
  BY CloseEndIs DEF Ends
<1>2. m = CASE k.end["server"] = "open" -> x
            [] k.end["server"] = "backlog" -> y
            [] OTHER -> k
  BY DEF ServerEndsClosed
<1> HIDE DEF x, y, m, k
<1>3. \/ m = x \/ m = y
      \/ m = k /\ k.end["server"] # "open"
  BY <1>2
<1>4. k.end["server"] = "open" => m = x
  BY <1>2
<1>5. CASE m = x \/ m = y
  BY <1>1, <1>4, <1>5, KeepsGone DEF k, m
<1>6. CASE m = k /\ k.end["server"] # "open"
  BY <1>4, <1>6, KeepsSame DEF k, m
<1> QED
  BY <1>3, <1>5, <1>6

\* Every connection that is not closed carries a call.
Carried == \A c \in Conns : \E x, u, g : Line(net[c], sc[c], x, u, g)

\* One connection has an event, the others are left alone.
LEMMA HandleConnectionKeeps ==
  ASSUME ServerInv, NewObjects, Carried, NEW c \in Conns, HandleConnection(c)
  PROVE  ServerKeeps
<1>1. PICK o \in HandleEvent(c, spc = "pass") :
       LET n == [net EXCEPT ![c] = o.net]
           d == Told(sd, o.ran)
       IN  /\ executed' = [x \in Calls |-> IF x \in o.ran THEN executed[x] + 1 ELSE executed[x]]
           /\ quit' = (quit \/ \E x \in o.ran : Does[x] = "quit")
           /\ IF o.killed THEN EndProcess(n) ELSE
              /\ ready' = ready \ {c}
              /\ IF o.on
                   THEN /\ sd' = SetMask(d, c, MaskFor(o.conn))
                        /\ sc' = [sc EXCEPT ![c] = o.conn]
                        /\ net' = n
                   ELSE /\ sd' = RemoveSource(d, c)
                        /\ sc' = [sc EXCEPT ![c] = NewServerConnection]
                        /\ net' = [n EXCEPT ![c] = CloseEnd(@, "server")]
              /\ UNCHANGED <<spc, listening>>
  BY DEF HandleConnection
<1> DEFINE n == [net EXCEPT ![c] = o.net]
           k == net[c]
           s == sc[c]
<1>2. /\ (spc = "pass") \in BOOLEAN /\ s \in Objects /\ k \in Connection
      /\ net \in [Conns -> Connection] /\ sc \in [Conns -> Objects]
      /\ executed \in [Calls -> Nat]
  BY DEF ServerInv, NetTypeOK
<1>3. o \in Outcomes(k.end)
  BY <1>2, HandleEventOutcome
<1>4. /\ o.net \in Connection /\ o.net.end = k.end
      /\ n \in [Conns -> Connection] /\ n[c] = o.net /\ \A b \in Conns \ {c} : n[b] = net[b]
  BY <1>2, <1>3 DEF Outcomes
<1>5. k.end["server"] = "open"
  <2>1. c \in Watched(sd)
    BY FirstIsReady DEF HandleConnection, InPass, ServerInv
  <2> QED BY <2>1, ListenerApart DEF ServerInv, WatchedAreOpen
<1>6. PICK x0, u0, g0 : Line(k, s, x0, u0, g0)
  BY DEF Carried
<1>7. \A x, u, g : Line(k, s, x, u, g) => Handled(o, k, s, x, u, g)
  BY <1>2, <1>5, HandleEventLine
<1>8. /\ o.on => Keeps(k, s, o.net, o.conn, o.ran)
      /\ \A m : EndClosed(o.net, "server", m) => Keeps(k, s, m, NewServerConnection, o.ran)
      /\ o.ran # {} =>
           /\ x0 \in Calls /\ o.ran = {x0} /\ Owes(k, s, x0)
           /\ \A x, u, g : Line(k, s, x, u, g) => x = x0 /\ u = MessageLen
  <2> HIDE DEF k, s
  <2>1. k.end["server"] # "closed"
    BY <1>5
  <2> QED BY <1>2, <1>3, <1>6, <1>7, <2>1, KeepsHandled
<1>9. /\ NewObjects' /\ Keeps(k, s, net'[c], sc'[c], o.ran)
      /\ \A b \in Conns \ {c} : Keeps(net[b], sc[b], net'[b], sc'[b], {})
  <2>1. CASE o.killed
    <3>1. net' = ServerEndsClosed(n) /\ sc' = [b \in Conns |-> NewServerConnection]
      BY <1>1, <2>1 DEF EndProcess
    <3>2. n[c].end["server"] = "open" => EndClosed(n[c], "server", net'[c])
      BY <1>4, <1>5, <3>1, KeepsEnded
    <3>3. Keeps(k, s, net'[c], sc'[c], o.ran)
      BY <1>4, <1>5, <1>8, <3>1, <3>2
    <3>4. ASSUME NEW b \in Conns \ {c} PROVE Keeps(net[b], sc[b], net'[b], sc'[b], {})
      <4>1. n[b] = net[b] /\ sc'[b] = NewServerConnection
        BY <1>4, <3>1
      <4>2. n[b].end["server"] # "open" => sc[b] = NewServerConnection
        BY <4>1 DEF NewObjects
      <4>3. Keeps(n[b], sc[b], ServerEndsClosed(n)[b], NewServerConnection, {})
        BY <1>4, <4>2, KeepsEnded
      <4> QED BY <3>1, <4>1, <4>3
    <3>5. NewObjects'
      BY <3>1 DEF NewObjects
    <3> QED BY <3>3, <3>4, <3>5
  <2>2. CASE ~o.killed /\ o.on
    <3>1. net' = n /\ sc' = [sc EXCEPT ![c] = o.conn]
      BY <1>1, <2>2
    <3>2. net'[c] = o.net /\ sc'[c] = o.conn
          /\ \A b \in Conns \ {c} : net'[b] = net[b] /\ sc'[b] = sc[b]
      BY <1>2, <1>4, <3>1
    <3> QED BY <1>4, <1>5, <1>8, <2>2, <3>2, KeepsSame DEF NewObjects
  <2>3. CASE ~o.killed /\ ~o.on
    <3> DEFINE m == CloseEnd(o.net, "server")
    <3>1. net' = [n EXCEPT ![c] = m] /\ sc' = [sc EXCEPT ![c] = NewServerConnection]
      BY <1>1, <1>4, <2>3
    <3>2. EndClosed(o.net, "server", m)
      BY <1>4, CloseEndIs DEF Ends
    <3> HIDE DEF m
    <3>3. net'[c] = m /\ sc'[c] = NewServerConnection
          /\ \A b \in Conns \ {c} : net'[b] = net[b] /\ sc'[b] = sc[b]
      BY <1>2, <1>4, <3>1
    <3> QED BY <1>8, <3>2, <3>3, KeepsSame DEF NewObjects
  <2> QED BY <2>1, <2>2, <2>3
<1>10. executed' = [x \in Calls |-> IF x \in o.ran THEN executed[x] + 1 ELSE executed[x]]
  BY <1>1
<1>11. CASE o.ran = {}
  <2>1. executed' = executed
    BY <1>2, <1>10, <1>11
  <2>2. \A b \in Conns : Keeps(net[b], sc[b], net'[b], sc'[b], {})
    BY <1>9, <1>11
  <2> QED BY <1>9, <2>1, <2>2 DEF ServerKeeps
<1>12. CASE o.ran # {}
  <2>1. /\ x0 \in Calls /\ o.ran = {x0}
        /\ \A b \in Conns : Keeps(net[b], sc[b], net'[b], sc'[b], IF b = c THEN {x0} ELSE {})
    BY <1>8, <1>9, <1>12
  <2>2. executed' = [executed EXCEPT ![x0] = @ + 1]
    BY <1>2, <1>10, <2>1
  <2>3. Executed(c, x0)
    BY <1>8, <1>12, <2>1, <2>2 DEF Executed
  <2> QED BY <1>9, <2>1, <2>3 DEF ServerKeeps
<1> QED
  BY <1>11, <1>12

\* All ends of the server closed, as exit() and shutdown() leave them.
LEMMA EndsClosedKeeps ==
  ASSUME ServerInv, NewObjects, net' = ServerEndsClosed(net),
         sc' = [c \in Conns |-> NewServerConnection], executed' = executed
  PROVE  ServerKeeps
<1>1. net \in [Conns -> Connection]
  BY DEF ServerInv, NetTypeOK
<1>2. ASSUME NEW c \in Conns PROVE Keeps(net[c], sc[c], net'[c], sc'[c], {})
  <2>1. net[c].end["server"] # "open" => sc[c] = NewServerConnection
    BY DEF NewObjects
  <2> QED BY <1>1, <2>1, KeepsEnded
<1> QED
  BY <1>2 DEF ServerKeeps, NewObjects

\* A step that leaves connections and objects alone.
LEMMA UnchangedKeeps ==
  ASSUME NewObjects, UNCHANGED <<net, sc, executed>>
  PROVE  ServerKeeps
<1>1. \A c \in Conns : Keeps(net[c], sc[c], net'[c], sc'[c], {})
  BY KeepsSame
<1> QED
  BY <1>1 DEF ServerKeeps, NewObjects

\* A connection that is accepted has a new object.
LEMMA AcceptKeeps ==
  ASSUME ServerInv, NewObjects, AcceptConnection
  PROVE  ServerKeeps
<1>1. CASE Backlog = {}
  BY <1>1, UnchangedKeeps DEF AcceptConnection
<1>2. CASE Backlog # {}
  <2> DEFINE c == CHOOSE c \in Backlog : \A b \in Backlog : c <= b
  <2>1. c \in Backlog
    <3>1. Backlog \subseteq Nat
      BY Lengths DEF Backlog, Conns
    <3>2. Min(Backlog) \in Backlog
      BY <1>2, <3>1, LeastOf
    <3>3. c = Min(Backlog)
      BY DEF Min
    <3> QED BY <3>2, <3>3
  <2>2. /\ net' = [net EXCEPT ![c].end["server"] = "open"]
        /\ UNCHANGED <<sc, executed>>
    BY <1>2 DEF AcceptConnection
  <2> HIDE DEF c
  <2>3. c \in Conns /\ net[c].end["server"] = "backlog" /\ net \in [Conns -> Connection]
    BY <2>1 DEF Backlog, ServerInv, NetTypeOK
  <2> DEFINE k == [net[c] EXCEPT !.end["server"] = "open"]
  <2>4. /\ k.end["server"] = "open" /\ k.data = net[c].data
        /\ k.end["client"] = net[c].end["client"]
    <3>1. Joins(net[c])
      BY <2>3, ConnectionJoins
    <3> QED BY <3>1 DEF Joins, Ends
  <2>5. net'[c] = k /\ \A b \in Conns \ {c} : net'[b] = net[b]
    BY <2>2, <2>3
  <2> HIDE DEF k
  <2>6. Keeps(net[c], sc[c], k, sc[c], {})
    BY <2>3, <2>4 DEF Keeps, Line, Phases, Asking, Answering, Over, Unread, Shown, Owes
  <2>7. \A b \in Conns : Keeps(net[b], sc[b], net'[b], sc'[b], {})
    BY <2>2, <2>5, <2>6, KeepsSame
  <2>8. NewObjects'
    BY <2>2, <2>4, <2>5 DEF NewObjects
  <2> QED BY <2>2, <2>7, <2>8 DEF ServerKeeps
<1> QED
  BY <1>1, <1>2

\* All of what the server does.
LEMMA ServerStepKeeps ==
  ASSUME ServerInv, NewObjects, Carried, ServerNext \/ SelectInterrupted \/ AcceptFails
  PROVE  ServerKeeps
<1>1. CASE Work \/ SelectInterrupted \/ AcceptFails
  BY <1>1, UnchangedKeeps DEF Work, SelectInterrupted, AcceptFails
<1>2. CASE Quits
  BY <1>2, EndsClosedKeeps DEF Quits, EndProcess
<1>3. ASSUME NEW R \in SUBSET Watched(sd), Select(R) PROVE ServerKeeps
  BY <1>3, UnchangedKeeps DEF Select
<1>4. ASSUME NEW timeUp \in BOOLEAN, EndPass(timeUp) PROVE ServerKeeps
  <2>1. CASE sd.doClear
    BY <1>4, <2>1, EndsClosedKeeps DEF EndPass
  <2>2. CASE ~sd.doClear
    BY <1>4, <2>2, UnchangedKeeps DEF EndPass
  <2> QED BY <2>1, <2>2
<1>5. CASE AcceptConnection
  BY <1>5, AcceptKeeps
<1>6. ASSUME NEW c \in Conns, HandleConnection(c) PROVE ServerKeeps
  BY <1>6, HandleConnectionKeeps
<1> QED
  BY <1>1, <1>2, <1>3, <1>4, <1>5, <1>6 DEF ServerNext

\* Sets of connections are counted.
LEMMA ConnsFinite ==
  /\ IsFiniteSet(Conns)
  /\ \A S \in SUBSET Conns : IsFiniteSet(S) /\ Cardinality(S) \in Nat
<1>1. NumConns \in Nat
  BY SocketAssumption
<1>2. IsFiniteSet(Conns)
  BY <1>1, FS_Interval DEF Conns
<1> QED
  BY <1>2, FS_Subset, FS_CardinalityType

\* One connection more or less in a set.
LEMMA MoreOrLess ==
  ASSUME NEW S \in SUBSET Conns, NEW T \in SUBSET Conns
  PROVE  /\ S \subseteq T => Cardinality(S) <= Cardinality(T)
         /\ \A c \in Conns : S \subseteq T \cup {c} => Cardinality(S) <= Cardinality(T) + 1
         /\ \A c \in T : S \subseteq T \ {c} => Cardinality(S) + 1 <= Cardinality(T)
<1>1. ASSUME NEW U \in SUBSET Conns, NEW V \in SUBSET Conns, U \subseteq V
      PROVE  Cardinality(U) <= Cardinality(V)
  BY <1>1, ConnsFinite, FS_Subset
<1>2. ASSUME NEW c \in Conns, S \subseteq T \cup {c}
      PROVE  Cardinality(S) <= Cardinality(T) + 1
  <2>1. Cardinality(S) <= Cardinality(T \cup {c})
    BY <1>1, <1>2
  <2>2. /\ Cardinality(T \cup {c}) = IF c \in T THEN Cardinality(T) ELSE Cardinality(T) + 1
    BY ConnsFinite, FS_AddElement
  <2>3. Cardinality(T) \in Nat /\ Cardinality(S) \in Nat
    BY ConnsFinite
  <2> QED BY <2>1, <2>2, <2>3
<1>3. ASSUME NEW c \in T, S \subseteq T \ {c}
      PROVE  Cardinality(S) + 1 <= Cardinality(T)
  <2>1. Cardinality(S) <= Cardinality(T \ {c})
    BY <1>1, <1>3
  <2>2. Cardinality(T \ {c}) = Cardinality(T) - 1
    BY ConnsFinite, FS_RemoveElement
  <2>3. Cardinality(T) \in Nat /\ Cardinality(S) \in Nat
    BY ConnsFinite
  <2> QED BY <2>1, <2>2, <2>3
<1> QED
  BY <1>1, <1>2, <1>3

\* The lines stay lines, as the callers see them.
LEMMA ServerLines ==
  ASSUME XmlRpcInv, Lines(net, cl, Call), ServerKeeps, UNCHANGED <<clientVars, peer>>
  PROVE  Lines(net, cl, Call)'
<1>0. /\ cl' = cl /\ Call' = Call /\ peer' = peer
      /\ cl \in Cl /\ peer.fd \in Conns \cup {NoFd} /\ executed \in [Calls -> Nat]
  BY DEF clientVars, Call, XmlRpcInv, ClientInv, PeerInv, ServerInv
<1>1. \A x \in Calls : executed'[x] >= executed[x] /\ executed'[x] \in Nat
  <2>1. ASSUME NEW y \in Calls, executed' = [executed EXCEPT ![y] = @ + 1], NEW x \in Calls
        PROVE  executed'[x] >= executed[x] /\ executed'[x] \in Nat
    <3>1. executed[x] \in Nat /\ executed'[x] \in {executed[x], executed[x] + 1}
      BY <1>0, <2>1
    <3> QED BY <3>1
  <2>2. executed' = executed \/ \E y \in Calls : executed' = [executed EXCEPT ![y] = @ + 1]
    BY DEF ServerKeeps, Executed
  <2> QED BY <1>0, <2>1, <2>2
<1>2. ASSUME NEW c \in Conns
      PROVE  \E ran : /\ Keeps(net[c], sc[c], net'[c], sc'[c], ran)
                      /\ \A x \in ran : x \in Calls /\ executed'[x] > 0
  <2>1. CASE Keeps(net[c], sc[c], net'[c], sc'[c], {})
    BY <2>1
  <2>2. ASSUME NEW y \in Calls, NEW d \in Conns, Executed(d, y),
               Keeps(net[c], sc[c], net'[c], sc'[c], IF c = d THEN {y} ELSE {})
        PROVE  \E ran : /\ Keeps(net[c], sc[c], net'[c], sc'[c], ran)
                        /\ \A x \in ran : x \in Calls /\ executed'[x] > 0
    <3>1. executed'[y] > 0
      BY <1>0, <2>2 DEF Executed
    <3> QED BY <2>2, <3>1
  <2> QED BY <2>1, <2>2 DEF ServerKeeps
<1>3. \A c \in Conns : \E y, u, g : Line(net'[c], sc'[c], y, u, g)
  BY <1>2 DEF Lines, Keeps
<1>4. ClientLine(net, cl, Call)'
  <2>1. SUFFICES ASSUME cl.fd # NoFd
                 PROVE  /\ net'[cl.fd].end["client"] = "open"
                        /\ Line(net'[cl.fd], sc'[cl.fd], Call, SentOf(cl), GotOf(cl))
                        /\ cl.state = "WRITE_REQUEST" => cl.written < MessageLen
                        /\ cl.state = "READ_HEADER" => cl.header \in Seq({Call})
                        /\ cl.state = "READ_RESPONSE" => cl.response \in Seq({Call})
                        /\ Shown(net'[cl.fd], sc'[cl.fd], GotOf(cl)) => executed'[Call] > 0
    BY <1>0 DEF ClientLine, Own
  <2>2. /\ cl.fd \in Conns /\ ClientLine(net, cl, Call)
    BY <1>0, <2>1 DEF Lines, Cl
  <2>3. PICK ran : /\ Keeps(net[cl.fd], sc[cl.fd], net'[cl.fd], sc'[cl.fd], ran)
                   /\ \A x \in ran : x \in Calls /\ executed'[x] > 0
    BY <1>2, <2>2
  <2>4. /\ net[cl.fd].end["client"] = "open"
        /\ Line(net[cl.fd], sc[cl.fd], Call, SentOf(cl), GotOf(cl)) /\ Call \in Calls
        /\ Shown(net[cl.fd], sc[cl.fd], GotOf(cl)) => executed[Call] > 0
    BY <2>1, <2>2 DEF ClientLine, Own, Line
  <2>5. /\ net'[cl.fd].end["client"] = "open"
        /\ Line(net'[cl.fd], sc'[cl.fd], Call, SentOf(cl), GotOf(cl))
        /\ Shown(net'[cl.fd], sc'[cl.fd], GotOf(cl)) =>
             Shown(net[cl.fd], sc[cl.fd], GotOf(cl)) \/ Call \in ran
    BY <2>3, <2>4 DEF Keeps
  <2>6. executed[Call] > 0 => executed'[Call] > 0
    BY <1>0, <1>1, <2>4
  <2> QED BY <2>1, <2>2, <2>3, <2>4, <2>5, <2>6 DEF ClientLine, Own
<1>5. PeerLine(net, cl)'
  <2>1. SUFFICES ASSUME peer.fd # NoFd
                 PROVE  /\ peer.fd # cl.fd /\ net'[peer.fd].end["client"] = "open"
                        /\ \E g \in Units : Line(net'[peer.fd], sc'[peer.fd], peer.call, peer.sent, g)
    BY <1>0 DEF PeerLine
  <2>2. peer.fd \in Conns /\ PeerLine(net, cl)
    BY <1>0, <2>1 DEF Lines
  <2> QED BY <1>2, <2>1, <2>2 DEF PeerLine, Keeps
<1> QED
  BY <1>3, <1>4, <1>5 DEF Lines

\* A call that is executed is owed on one connection less.
LEMMA ServerAccounts ==
  ASSUME XmlRpcInv, Lines(net, cl, Call), Accounts, ServerKeeps, UNCHANGED <<clientVars, peer>>
  PROVE  Accounts'
<1>0. /\ cl' = cl /\ Call' = Call /\ tries' = tries
      /\ cl \in Cl /\ executed \in [Calls -> Nat] /\ tries \in [Calls -> 0..2]
      /\ Mine \subseteq Calls
  BY ClientAssumption DEF clientVars, Call, XmlRpcInv, ClientInv, ServerInv, Mine
<1> SUFFICES ASSUME NEW y \in Mine
             PROVE  executed'[y] + Cardinality(Debt(net, cl, Call, y)') <= tries[y]
  BY <1>0 DEF Accounts
<1> DEFINE D == Debt(net, cl, Call, y)
           E == {c \in Conns : \/ Owes(net'[c], sc'[c], y)
                               \/ c = cl.fd /\ cl.state = "WRITE_REQUEST" /\ y = Call}
<1>1. Debt(net, cl, Call, y)' = E
  BY <1>0 DEF Debt
<1>2. /\ D \in SUBSET Conns /\ E \in SUBSET Conns /\ y \in Calls
      /\ executed[y] + Cardinality(D) <= tries[y]
      /\ Cardinality(D) \in Nat /\ Cardinality(E) \in Nat
  <2>1. D \in SUBSET Conns /\ E \in SUBSET Conns
    BY DEF Debt
  <2> QED BY <1>0, <2>1, ConnsFinite DEF Accounts
<1>3. CASE executed' = executed /\ \A c \in Conns : Keeps(net[c], sc[c], net'[c], sc'[c], {})
  <2>1. E \subseteq D
    BY <1>3 DEF Keeps, Debt
  <2>2. Cardinality(E) <= Cardinality(D)
    BY <1>2, <2>1, MoreOrLess
  <2> HIDE DEF D, E
  <2> QED BY <1>0, <1>1, <1>2, <1>3, <2>2
<1>4. ASSUME NEW d \in Conns, NEW x \in Calls, Executed(d, x),
             \A c \in Conns : Keeps(net[c], sc[c], net'[c], sc'[c], IF c = d THEN {x} ELSE {})
      PROVE  executed'[y] + Cardinality(E) <= tries[y]
  <2>1. E \subseteq D
    BY <1>4 DEF Keeps, Debt
  <2>2. CASE y # x
    <3>1. executed'[y] = executed[y]
      BY <1>0, <1>2, <1>4, <2>2 DEF Executed
    <3>2. Cardinality(E) <= Cardinality(D)
      BY <1>2, <2>1, MoreOrLess
    <3> HIDE DEF D, E
    <3> QED BY <1>0, <1>2, <3>1, <3>2
  <2>3. CASE y = x
    <3>1. executed'[y] = executed[y] + 1 /\ d \in D
      BY <1>0, <1>2, <1>4, <2>3 DEF Executed, Debt
    <3>2. d \notin E
      <4>1. ~Owes(net'[d], sc'[d], y)
        BY <1>4, <2>3 DEF Keeps
      <4>2. ASSUME d = cl.fd, cl.state = "WRITE_REQUEST" PROVE FALSE
        <5>1. /\ Line(net[d], sc[d], Call, SentOf(cl), GotOf(cl)) /\ cl.written < MessageLen
              /\ SentOf(cl) = cl.written
          BY <4>2, NoFdApart DEF Lines, ClientLine, Own, SentOf
        <5>2. cl.written = MessageLen
          BY <1>4, <5>1 DEF Executed
        <5> QED BY <5>1, <5>2, MessageLenIs
      <4> QED BY <4>1, <4>2
    <3>3. Cardinality(E) + 1 <= Cardinality(D)
      <4>1. E \subseteq D \ {d}
        BY <2>1, <3>2
      <4> QED BY <1>2, <3>1, <4>1, MoreOrLess
    <3> HIDE DEF D, E
    <3> QED BY <1>0, <1>2, <3>1, <3>3
  <2> QED BY <2>2, <2>3
<1> HIDE DEF E
<1> QED
  BY <1>1, <1>3, <1>4 DEF ServerKeeps

(***************************************************************************)
(* The callers' steps, one connection at a time.                           *)
(***************************************************************************)
\* A caller writes more of its request.
LEMMA LineWritten ==
  ASSUME NEW k \in Connection, NEW s, NEW x, NEW u, NEW g, Line(k, s, x, u, g),
         u < MessageLen, NEW w, w = NbWrite(k, "client", Message(x), u)
  PROVE  /\ Line(w.net, s, x, w.written, g)
         /\ w.net.end = k.end /\ w.net.data["client"] = k.data["client"]
         /\ w.written \in Units /\ w.status \in {"ok", "error", "sigpipe"}
         /\ w.status # "ok" => w.written = u
<1>1. /\ x \in Calls /\ u \in Units /\ u \in Nat /\ g \in Units /\ Unread(k, x, g)
      /\ IF k.end["server"] = "closed" THEN k.data["server"] = <<>>
                                       ELSE Asking(k, s, x, u, g)
  <2>1. x \in Calls /\ u \in Units /\ g \in Units /\ Unread(k, x, g) /\ u \in Nat
    BY MessageLenIs DEF Line
  <2>2. k.end["server"] # "closed" => Asking(k, s, x, u, g)
    BY <2>1, MessageLenIs DEF Line, Phases, Answering, Over
  <2> QED BY <2>1, <2>2 DEF Line
<1>2. k.data["server"] \in Seq({x})
  BY <1>1, EmptySeq DEF Asking
<1>3. Wrote(k, "client", x, u, w)
  <2>1. "client" \in Ends /\ Peer("client") = "server"
    BY DEF Ends, Peer
  <2> QED BY <1>1, <1>2, <2>1, WriteUnits
<1>4. /\ w.net.end = k.end /\ w.net.data["client"] = k.data["client"]
      /\ w.net.data["server"] \in Seq({x}) /\ w.written \in u..MessageLen
      /\ IF k.end["server"] = "closed"
           THEN w.net.data["server"] = k.data["server"]
           ELSE Len(w.net.data["server"]) = Len(k.data["server"]) + (w.written - u)
      /\ w.status \in {"ok", "error", "sigpipe"}
      /\ w.status # "ok" => w.written = u
  BY <1>3 DEF Wrote, Peer
<1>5. w.written \in Units /\ w.written \in Nat
  BY <1>1, <1>4, MessageLenIs
<1>6. CASE k.end["server"] = "closed"
  BY <1>1, <1>4, <1>5, <1>6 DEF Line, Unread
<1>7. CASE k.end["server"] # "closed"
  <2>1. Taken(s) + Len(w.net.data["server"]) = w.written
    <3> DEFINE t == Taken(s)
               i == Len(k.data["server"])
               j == Len(w.net.data["server"])
               v == w.written
    <3>1. t + i = u /\ j = i + (v - u) /\ t \in Nat /\ i \in Nat /\ v \in Nat
      <4>1. Held(s) \in Seq({x}) /\ t + i = u
        BY <1>1, <1>7 DEF Asking
      <4>2. t \in Nat
        <5>1. s.state = "READ_HEADER" => s.header \in Seq({x}) /\ t = Len(s.header)
          BY <4>1 DEF Held, Taken
        <5>2. s.state # "READ_HEADER" => s.request \in Seq({x}) /\ t = HeaderLen + Len(s.request)
          BY <4>1 DEF Held, Taken
        <5> HIDE DEF t
        <5> QED BY <5>1, <5>2, EmptyUnits, Lengths
      <4>3. i \in Nat
        BY <1>2, EmptyUnits
      <4> QED BY <1>4, <1>5, <1>7, <4>1, <4>2, <4>3
    <3> HIDE DEF t, i, j, v
    <3>2. t + j = v
      BY ONLY <1>1, <3>1
    <3> QED BY <3>2 DEF t, j, v
  <2>2. Asking(w.net, s, x, w.written, g)
    BY <1>1, <1>4, <1>7, <2>1 DEF Asking
  <2> QED BY <1>1, <1>4, <1>5, <1>7, <2>2 DEF Line, Phases, Unread
<1> QED
  BY <1>4, <1>5, <1>6, <1>7

\* A caller reads more of the answer.
LEMMA LineRead ==
  ASSUME NEW k, NEW s, NEW x, NEW u, NEW g, Line(k, s, x, u, g),
         NEW r, Read(k, "client", x, r)
  PROVE  /\ r.got \in Seq({x}) /\ Len(r.got) \in Nat
         /\ Line(r.net, s, x, u, g + Len(r.got))
         /\ r.net.end = k.end /\ r.net.data["server"] = k.data["server"]
         /\ Shown(r.net, s, g + Len(r.got)) => Shown(k, s, g)
<1> DEFINE i == Len(r.got)
           j == Len(r.net.data["client"])
           l == Len(k.data["client"])
<1>1. /\ r.got \in Seq({x}) /\ r.net.data["client"] \in Seq({x}) /\ k.data["client"] \in Seq({x})
      /\ i + j = l /\ r.net.end = k.end /\ r.net.data["server"] = k.data["server"]
      /\ x \in Calls /\ u \in Units /\ g \in Units /\ g \in Nat /\ g + l <= MessageLen
  <2>1. g \in Units
    BY DEF Line
  <2>2. g \in Nat
    BY <2>1, MessageLenIs
  <2>3. /\ x \in Calls /\ u \in Units /\ k.data["client"] \in Seq({x}) /\ g + l <= MessageLen
    BY DEF Line, Unread
  <2>4. /\ r.got \in Seq({x}) /\ r.net.data["client"] \in Seq({x})
        /\ i + j = l /\ r.net.end = k.end /\ r.net.data["server"] = k.data["server"]
    BY DEF Read, Peer
  <2> QED BY <2>1, <2>2, <2>3, <2>4
<1>2. i \in Nat /\ j \in Nat /\ l \in Nat
  BY <1>1, EmptyUnits
<1>3. (g + i) + j = g + l /\ g + i \in Nat /\ g + i <= MessageLen
  <2> HIDE DEF i, j, l
  <2> QED BY ONLY <1>1, <1>2, MessageLenIs
<1>4. /\ k.data["client"] = <<>> => i = 0 /\ r.net.data["client"] = <<>>
      /\ (g + i) > 0 \/ r.net.data["client"] # <<>> => g > 0 \/ k.data["client"] # <<>>
  <2>1. /\ k.data["client"] = <<>> <=> l = 0
        /\ r.net.data["client"] = <<>> <=> j = 0
    BY <1>1, EmptyUnits
  <2> HIDE DEF i, j, l
  <2> QED BY <1>1, <1>2, <2>1
<1>5. g + i \in Units /\ Unread(r.net, x, g + i)
  <2>1. g + i \in Units
    BY <1>3, MessageLenIs
  <2>2. (g + i) + j <= MessageLen
    BY <1>1, <1>3
  <2> QED BY <1>1, <2>1, <2>2 DEF Unread
<1>6. ASSUME Phases(k, s, x, u, g) PROVE Phases(r.net, s, x, u, g + i)
  <2>1. CASE Asking(k, s, x, u, g)
    <3>1. g + i = g /\ r.net.data["client"] = <<>>
      BY <1>1, <1>4, <2>1 DEF Asking
    <3> HIDE DEF i
    <3> QED BY <1>1, <2>1, <3>1 DEF Asking, Phases
  <2>2. CASE Answering(k, s, x, u, g)
    <3>1. (g + i) + j = g + l
      BY <1>3
    <3> QED BY <1>1, <2>2, <3>1 DEF Answering, Phases
  <2>3. CASE Over(k, s, x, u, g)
    <3>1. (g + i) + j = g + l
      BY <1>3
    <3> QED BY <1>1, <2>3, <3>1 DEF Over, Phases
  <2> QED BY <1>6, <2>1, <2>2, <2>3 DEF Phases
<1>7. Line(r.net, s, x, u, g + i)
  <2> HIDE DEF i
  <2> QED BY <1>1, <1>5, <1>6 DEF Line
<1>8. Shown(r.net, s, g + i) => Shown(k, s, g)
  BY <1>4 DEF Shown
<1> QED
  BY <1>1, <1>2, <1>7, <1>8

\* A line that begins: nothing is there yet.
LEMMA LineBegins ==
  ASSUME NEW k, NEW x \in Calls, k.data["client"] = <<>>, k.data["server"] = <<>>,
         NEW s, s.state = "READ_HEADER", s.header = <<>>, s.response = <<>>
  PROVE  /\ Line(k, s, x, 0, 0) /\ ~Shown(k, s, 0)
         /\ \A y : ~Owes(k, s, y)
<1>1. /\ <<>> \in Seq({x}) /\ Len(<<>>) = 0 /\ 0 \in Units /\ 0 <= MessageLen
      /\ Range(<<>>) = {} /\ MessageLen \in Nat /\ 0 + 0 = 0
  <2>1. <<>> \in Seq({x}) /\ Len(<<>>) = 0 /\ Range(<<>>) = {}
    BY EmptySeq, EmptyUnits, RangeOfUnits
  <2> QED BY <2>1, MessageLenIs
<1>2. Unread(k, x, 0)
  BY <1>1 DEF Unread
<1>3. Asking(k, s, x, 0, 0)
  BY <1>1 DEF Asking, Held, Taken
<1> QED
  BY <1>1, <1>2, <1>3 DEF Line, Phases, Shown, Owes, Held

\* A line that is over, seen by a caller who has got the whole answer.
LEMMA LineEnds ==
  ASSUME NEW k \in Connection, NEW s \in Objects, NEW x, NEW u,
         Line(k, s, x, u, MessageLen), k.end["client"] = "open",
         k.end["server"] # "open" => s = NewServerConnection
  PROVE  /\ k.data["client"] = <<>> /\ k.data["server"] = <<>>
         /\ s.state = "READ_HEADER" /\ s.header = <<>> /\ s.response = <<>>
<1> DEFINE l == Len(k.data["client"])
<1>1. k.data["client"] \in Seq({x}) /\ MessageLen + l <= MessageLen /\ l \in Nat
      /\ MessageLen \in Nat /\ MessageLen > 0
  <2>1. k.data["client"] \in Seq({x}) /\ MessageLen + l <= MessageLen
    BY DEF Line, Unread
  <2>2. l \in Nat
    BY <2>1, EmptyUnits
  <2>3. MessageLen \in Nat /\ MessageLen > 0
    BY MessageLenIs, Lengths
  <2> QED BY <2>1, <2>2, <2>3
<1>2. l = 0 /\ MessageLen + l = MessageLen
  <2> HIDE DEF l
  <2> QED BY ONLY <1>1
<1>3. k.data["client"] = <<>>
  BY <1>1, <1>2, EmptyUnits
<1>4. CASE k.end["server"] = "closed"
  BY <1>3, <1>4 DEF Line, NewServerConnection
<1>5. CASE k.end["server"] # "closed"
  <2>1. Over(k, s, x, u, MessageLen)
    <3>1. ~Asking(k, s, x, u, MessageLen)
      BY <1>1 DEF Asking
    <3>2. ~Answering(k, s, x, u, MessageLen)
      <4>1. s.written \in Nat
        BY MessageLenIs DEF Objects
      <4> QED BY <1>1, <1>2, <4>1 DEF Answering
    <3> QED BY <1>5, <3>1, <3>2 DEF Line, Phases
  <2> QED BY <1>3, <2>1 DEF Over
<1> QED
  BY <1>4, <1>5

\* One connection changes, the client's if it has one.
Touches(n, c, k, l, x, m, y) ==
  /\ n \in [Conns -> Connection] /\ c \in Conns
  /\ Lines(n, l, x) /\ l.fd \in {c, NoFd}
  /\ c # peer.fd /\ peer.fd \in Conns \cup {NoFd}
  /\ \E z, u, g : Line(k, sc[c], z, u, g)
  /\ m.fd \in {c, NoFd}
  /\ m.fd = c => Own(k, sc[c], m, y)

\* The lines stay lines, and only this connection may come to owe a call.
LEMMA OneLine ==
  ASSUME NEW n, NEW c, NEW k, NEW l, NEW x, NEW m, NEW y, Touches(n, c, k, l, x, m, y)
  PROVE  /\ Lines([n EXCEPT ![c] = k], m, y)
         /\ \A v : Debt([n EXCEPT ![c] = k], m, y, v) \subseteq Debt(n, l, x, v) \cup {c}
         /\ \A v : /\ Owes(k, sc[c], v) => c \in Debt(n, l, x, v)
                   /\ m.fd = c /\ m.state = "WRITE_REQUEST" /\ v = y => c \in Debt(n, l, x, v)
                   => Debt([n EXCEPT ![c] = k], m, y, v) \subseteq Debt(n, l, x, v)
<1> DEFINE o == [n EXCEPT ![c] = k]
<1>0. /\ n \in [Conns -> Connection] /\ c \in Conns
      /\ Lines(n, l, x) /\ l.fd \in {c, NoFd}
      /\ c # peer.fd /\ peer.fd \in Conns \cup {NoFd}
      /\ \E z, u, g : Line(k, sc[c], z, u, g)
      /\ m.fd \in {c, NoFd}
      /\ m.fd = c => Own(k, sc[c], m, y)
  BY DEF Touches
<1>1. o[c] = k /\ \A b \in Conns \ {c} : o[b] = n[b]
  BY <1>0
<1> HIDE DEF o
<1>2. \A b \in Conns : \E z, u, g : Line(o[b], sc[b], z, u, g)
  <2>1. \A b \in Conns : \E z, u, g : Line(n[b], sc[b], z, u, g)
    BY <1>0 DEF Lines
  <2> QED BY <1>0, <1>1, <2>1
<1>3. ClientLine(o, m, y)
  BY <1>0, <1>1, NoFdApart DEF ClientLine
<1>4. PeerLine(o, m)
  <2>1. SUFFICES ASSUME peer.fd # NoFd
                 PROVE  /\ peer.fd # m.fd /\ o[peer.fd] = n[peer.fd]
    BY <1>0 DEF PeerLine, Lines
  <2> QED BY <1>0, <1>1, <2>1
<1>5. \A v : Debt(o, m, y, v) \subseteq Debt(n, l, x, v) \cup {c}
  BY <1>0, <1>1, NoFdApart DEF Debt
<1>6. ASSUME NEW v, Owes(k, sc[c], v) => c \in Debt(n, l, x, v),
             m.fd = c /\ m.state = "WRITE_REQUEST" /\ v = y => c \in Debt(n, l, x, v)
      PROVE  Debt(o, m, y, v) \subseteq Debt(n, l, x, v)
  <2>1. c \in Debt(o, m, y, v) => c \in Debt(n, l, x, v)
    BY <1>0, <1>1, <1>6 DEF Debt
  <2> QED BY <1>5, <2>1
<1>7. Lines(o, m, y)
  BY <1>2, <1>3, <1>4 DEF Lines
<1> QED
  BY <1>5, <1>6, <1>7 DEF o

\* If it owed the call before, no connection owes more than before.
LEMMA LessDebt ==
  ASSUME NEW n, NEW c, NEW k, NEW l, NEW x, NEW m, NEW y, Touches(n, c, k, l, x, m, y),
         NEW v, Owes(k, sc[c], v) => c \in Debt(n, l, x, v),
         m.fd = c /\ m.state = "WRITE_REQUEST" /\ v = y => c \in Debt(n, l, x, v)
  PROVE  Debt([n EXCEPT ![c] = k], m, y, v) \subseteq Debt(n, l, x, v)
BY OneLine

\* What a step of the client has made of its lines.
Follows(n, l, x, m, k, y, sent) ==
  /\ Lines(m, k, y)
  /\ \A v : \/ Debt(m, k, y, v) \subseteq Debt(n, l, x, v)
            \/ /\ sent = 1 /\ v = y
               /\ \E c \in Conns : Debt(m, k, y, v) \subseteq Debt(n, l, x, v) \cup {c}

\* Without a connection the object may say what it likes.
LEMMA NoLine ==
  ASSUME NEW n, NEW l, NEW x, Lines(n, l, x), l.fd = NoFd, NEW m, m.fd = NoFd, NEW y
  PROVE  Follows(n, l, x, n, m, y, 0)
<1>1. Lines(n, m, y)
  BY DEF Lines, ClientLine, PeerLine
<1>2. \A v : Debt(n, m, y, v) \subseteq Debt(n, l, x, v)
  BY NoFdApart DEF Debt
<1> QED
  BY <1>1, <1>2 DEF Follows

\* The connections after close().
Hung(n, l) == IF l.fd = NoFd THEN n ELSE [n EXCEPT ![l.fd] = CloseEnd(n[l.fd], "client")]

\* close() asks for nothing, and what it leaves are lines.
LEMMA HungLines ==
  ASSUME NEW n \in [Conns -> Connection], NEW l \in Cl, NEW x, Lines(n, l, x),
         peer.fd \in Conns \cup {NoFd}, NEW m, m.fd = NoFd, NEW y
  PROVE  Follows(n, l, x, Hung(n, l), m, y, 0)
<1>1. CASE l.fd = NoFd
  BY <1>1, NoLine DEF Hung
<1>2. CASE l.fd # NoFd
  <2> DEFINE c == l.fd
             k == CloseEnd(n[c], "client")
  <2>1. c \in Conns /\ c # peer.fd /\ n[c] \in Connection
    BY <1>2, NoFdApart DEF Lines, PeerLine, Cl
  <2>2. EndClosed(n[c], "client", k)
    BY <2>1, CloseEndIs DEF Ends
  <2>3. Hung(n, l) = [n EXCEPT ![c] = k]
    BY <1>2 DEF Hung
  <2> HIDE DEF k, c
  <2>4. \E z, u, g : Line(k, sc[c], z, u, g)
    <3>1. PICK z, u, g : Line(n[c], sc[c], z, u, g)
      BY <2>1 DEF Lines
    <3> QED BY <2>1, <2>2, <3>1, ClientGone
  <2>5. \A v : Owes(k, sc[c], v) => Owes(n[c], sc[c], v)
    BY <2>2 DEF EndClosed, Peer, Owes
  <2>6. \A v : Owes(n[c], sc[c], v) => c \in Debt(n, l, x, v)
    BY <2>1 DEF Debt
  <2>7. m.fd # c /\ l.fd \in {c, NoFd}
    BY <2>1, NoFdApart DEF c
  <2>8. Touches(n, c, k, l, x, m, y)
    BY <2>1, <2>4, <2>7 DEF Touches
  <2>9. /\ Lines([n EXCEPT ![c] = k], m, y)
        /\ \A v : Debt([n EXCEPT ![c] = k], m, y, v) \subseteq Debt(n, l, x, v)
    BY <2>5, <2>6, <2>7, <2>8, OneLine
  <2> QED BY <2>3, <2>9 DEF Follows
<1> QED
  BY <1>1, <1>2

\* The request is set up.
Sets(m, c) == m.fd = c /\ m.state = "WRITE_REQUEST" /\ m.written = 0

\* Nothing of a call is on connection k, which is to become number c.
Blank(n, c, k, l, x) ==
  /\ n \in [Conns -> Connection] /\ c \in Conns
  /\ Lines(n, l, x) /\ l.fd \in {c, NoFd}
  /\ c # peer.fd /\ peer.fd \in Conns \cup {NoFd}
  /\ k.end["client"] = "open" /\ k.data["client"] = <<>> /\ k.data["server"] = <<>>
  /\ sc[c].state = "READ_HEADER" /\ sc[c].header = <<>> /\ sc[c].response = <<>>

\* A call begins on connection c, of which nothing is left of another call.
LEMMA CallBegins ==
  ASSUME NEW n, NEW c, NEW k, NEW l, NEW x, NEW m, NEW y,
         Blank(n, c, k, l, x), Sets(m, c), y \in Calls
  PROVE  Follows(n, l, x, [n EXCEPT ![c] = k], m, y, 1)
<1>1. Line(k, sc[c], y, 0, 0) /\ ~Shown(k, sc[c], 0) /\ \A v : ~Owes(k, sc[c], v)
  BY LineBegins DEF Blank
<1>2. /\ SentOf(m) = 0 /\ GotOf(m) = 0 /\ 0 < MessageLen
      /\ m.fd = c /\ m.state = "WRITE_REQUEST" /\ m.written = 0
  BY MessageLenIs, Lengths DEF SentOf, GotOf, Sets
<1>3. Own(k, sc[c], m, y)
  BY <1>1, <1>2 DEF Own, Blank
<1>4. Touches(n, c, k, l, x, m, y)
  BY <1>1, <1>2, <1>3 DEF Touches, Blank
<1>5. /\ Lines([n EXCEPT ![c] = k], m, y)
      /\ \A v : Debt([n EXCEPT ![c] = k], m, y, v) \subseteq Debt(n, l, x, v) \cup {c}
      /\ \A v : v # y => Debt([n EXCEPT ![c] = k], m, y, v) \subseteq Debt(n, l, x, v)
  BY <1>1, <1>4, OneLine
<1> DEFINE o == [n EXCEPT ![c] = k]
<1> HIDE DEF o
<1>6. \A v : \/ Debt(o, m, y, v) \subseteq Debt(n, l, x, v)
             \/ v = y /\ Debt(o, m, y, v) \subseteq Debt(n, l, x, v) \cup {c}
  BY <1>5 DEF o
<1>7. Lines(o, m, y)
  BY <1>5 DEF o
<1>8. Follows(n, l, x, o, m, y, 1)
  BY <1>6, <1>7 DEF Follows, Blank
<1> QED
  BY <1>8 DEF o

\* It is a new connection ...
LEMMA FreshLine ==
  ASSUME NEW n \in Nets, NEW c \in Fresh(n), NEW k \in {Connected, Refused}, NewObjects,
         NEW l, NEW x, Lines(n, l, x), l.fd = NoFd, peer.fd \in Conns \cup {NoFd},
         NEW m, NEW y \in Calls,
         Sets(m, c)
  PROVE  Follows(n, l, x, [n EXCEPT ![c] = k], m, y, 1)
<1>1. /\ c \in Conns /\ n[c] = NoConnection /\ n \in [Conns -> Connection]
      /\ OpenEnds(n) = OpenEnds(net)
  BY DEF Fresh, Nets
<1>2. NoConnection.end["server"] = "none" /\ NoConnection.end["client"] = "none"
  BY DEF NoConnection, Ends
<1>3. sc[c] = NewServerConnection
  BY <1>1, <1>2 DEF NewObjects, OpenEnds
<1>4. c # peer.fd
  BY <1>1, <1>2, NoFdApart DEF Lines, PeerLine
<1>5. k.end["client"] = "open" /\ k.data["client"] = <<>> /\ k.data["server"] = <<>>
  <2>1. /\ Connected.end["client"] = "open" /\ Connected.data = [e \in Ends |-> <<>>]
        /\ Refused.end["client"] = "open" /\ Refused.data = [e \in Ends |-> <<>>]
    BY DEF Connected, Refused, NoConnection, Ends
  <2>2. k.data = [e \in Ends |-> <<>>] /\ k.end["client"] = "open"
    BY <2>1
  <2> QED BY <2>2 DEF Ends
<1>6. Blank(n, c, k, l, x)
  BY <1>1, <1>3, <1>4, <1>5 DEF Blank, NewServerConnection
<1> QED
  BY <1>1, <1>6, CallBegins

\* ... or the one of the call before, which was kept.
LEMMA KeptLine ==
  ASSUME NEW n \in Nets, NEW c \in Conns, sc \in [Conns -> Objects], NewObjects,
         NEW l, NEW x, Lines(n, l, x), l.fd = c, l.state = "IDLE",
         peer.fd \in Conns \cup {NoFd},
         NEW m, NEW y \in Calls,
         Sets(m, c)
  PROVE  Follows(n, l, x, n, m, y, 1)
<1>1. /\ n \in [Conns -> Connection] /\ OpenEnds(n) = OpenEnds(net)
      /\ n = [n EXCEPT ![c] = n[c]] /\ n[c] \in Connection
  BY DEF Nets
<1>2. /\ n[c].end["client"] = "open" /\ Line(n[c], sc[c], x, MessageLen, MessageLen)
      /\ c # peer.fd
  BY NoFdApart DEF Lines, ClientLine, PeerLine, Own, SentOf, GotOf
<1>3. n[c].end["server"] # "open" => sc[c] = NewServerConnection
  BY <1>1 DEF NewObjects, OpenEnds
<1>4. /\ n[c].data["client"] = <<>> /\ n[c].data["server"] = <<>>
      /\ sc[c].state = "READ_HEADER" /\ sc[c].header = <<>> /\ sc[c].response = <<>>
  BY <1>1, <1>2, <1>3, LineEnds
<1>5. Blank(n, c, n[c], l, x)
  BY <1>1, <1>2, <1>4 DEF Blank
<1>6. Follows(n, l, x, [n EXCEPT ![c] = n[c]], m, y, 1)
  BY <1>5, CallBegins
<1> QED
  BY <1>1, <1>6

\* One after the other; only the last may set up a request.
LEMMA FollowsOn ==
  ASSUME NEW n, NEW l, NEW x, NEW m, NEW k, NEW w, NEW s,
         Follows(n, l, x, m, k, w, s), s # 1, NEW i, NEW j, NEW y, NEW sent, Follows(m, k, w, i, j, y, sent)
  PROVE  Follows(n, l, x, i, j, y, sent)
<1>1. \A v : Debt(m, k, w, v) \subseteq Debt(n, l, x, v)
  BY DEF Follows
<1>2. Lines(i, j, y)
  BY DEF Follows
<1>3. ASSUME NEW v
      PROVE  \/ Debt(i, j, y, v) \subseteq Debt(n, l, x, v)
             \/ /\ sent = 1 /\ v = y
                /\ \E c \in Conns : Debt(i, j, y, v) \subseteq Debt(n, l, x, v) \cup {c}
  <2> DEFINE a == Debt(i, j, y, v)
             b == Debt(m, k, w, v)
             d == Debt(n, l, x, v)
  <2>1. b \subseteq d
    BY <1>1
  <2>2. a \subseteq b \/ (sent = 1 /\ v = y /\ \E c \in Conns : a \subseteq b \cup {c})
    BY DEF Follows
  <2> HIDE DEF a, b, d
  <2>3. a \subseteq d \/ (sent = 1 /\ v = y /\ \E c \in Conns : a \subseteq d \cup {c})
    BY <2>1, <2>2
  <2> QED BY <2>3 DEF a, d
<1> QED
  BY <1>2, <1>3 DEF Follows

\* CloseFd and CloseClient in terms of Hung.
LEMMA ClosedIs ==
  ASSUME NEW o \in ClientOutcomes
  PROVE  /\ CloseFd(o).net = Hung(o.net, o.cl) /\ CloseFd(o).cd = o.cd
         /\ CloseFd(o).cl = [o.cl EXCEPT !.fd = NoFd]
         /\ CloseClient(o).net = Hung(o.net, o.cl)
<1>1. ASSUME NEW p \in ClientOutcomes
      PROVE  /\ CloseFd(p).net = Hung(p.net, p.cl) /\ CloseFd(p).cd = p.cd
             /\ CloseFd(p).cl = [p.cl EXCEPT !.fd = NoFd]
  <2>1. CASE p.cl.fd = NoFd
    <3>1. p.cl = [p.cl EXCEPT !.fd = NoFd]
      BY <2>1 DEF ClientOutcomes, Cl
    <3> QED BY <2>1, <3>1 DEF CloseFd, Hung
  <2>2. CASE p.cl.fd # NoFd
    <3> DEFINE c == p.cl.fd
               k == CloseEnd(p.net[c], "client")
    <3>1. CloseFd(p) = [p EXCEPT !.net[c] = k, !.cl.fd = NoFd]
      BY <2>2 DEF CloseFd
    <3>2. Hung(p.net, p.cl) = [p.net EXCEPT ![c] = k]
      BY <2>2 DEF Hung
    <3> HIDE DEF k, c
    <3> QED BY <3>1, <3>2 DEF ClientOutcomes
  <2> QED BY <2>1, <2>2
<1> DEFINE d == RemoveSource(ExitWork(o.cd), Client)
           p == [o EXCEPT !.cl.state = "NO_CONNECTION", !.cd = d]
<1>2. CloseClient(o) = CloseFd(p)
  BY DEF CloseClient, ClientOutcomes
<1>3. ExitWork(o.cd) \in Watchers
  <2>1. /\ ExitWork(o.cd) \in Dispatchers({Client})
        /\ ExitWork(o.cd).sources = o.cd.sources
    BY DEF ClientOutcomes, Watchers, ExitWork, Dispatchers, EndTimes
  <2> QED
    BY <2>1 DEF ClientOutcomes, Watchers, Distinct
<1>4. d \in Watchers
  BY <1>3, Unwatched
<1> HIDE DEF d
<1>5. p \in ClientOutcomes /\ p.net = o.net /\ p.cl.fd = o.cl.fd
  BY <1>4 DEF ClientOutcomes, Cl
<1> HIDE DEF p
<1>6. CloseClient(o).net = Hung(o.net, o.cl)
  BY <1>1, <1>2, <1>5 DEF Hung
<1> QED
  BY <1>1, <1>6

\* Adding and removing the source do not set a time out.
LEMMA SameTime ==
  ASSUME NEW d \in Watchers, NEW mask \in SUBSET Events
  PROVE  /\ RemoveSource(d, Client).endTime = d.endTime
         /\ AddSource(RemoveSource(d, Client), Client, mask).endTime = d.endTime
<1>1. d \in Dispatchers({Client}) /\ RemoveSource(d, Client) \in Watchers
  BY Unwatched DEF Watchers
<1>2. RemoveSource(d, Client).endTime = d.endTime
  BY <1>1 DEF RemoveSource, Dispatchers
<1> DEFINE e == RemoveSource(d, Client)
<1> HIDE DEF e
<1>3. AddSource(e, Client, mask).endTime = e.endTime
  BY <1>1 DEF e, AddSource, Watchers, Dispatchers
<1> QED
  BY <1>2, <1>3 DEF e

\* What the client's steps start from.
Ready ==
  /\ sc \in [Conns -> Objects] /\ NewObjects
  /\ peer.fd \in Conns \cup {NoFd}

\* setupConnection(): the request is set up on a connection without traces of another.
LEMMA SetupFollows ==
  ASSUME Ready, NEW o \in ClientOutcomes, o.on, o.sent = 0, Tied(o.cl),
         NEW x, Lines(o.net, o.cl, x), NEW y \in Calls, NEW z \in SetupConnection(o)
  PROVE  /\ Follows(o.net, o.cl, x, z.net, z.cl, y, z.sent)
         /\ o.cl.state = "NO_CONNECTION" /\ ~o.cl.eof /\ z.on => z.cd.endTime = o.cd.endTime
<1> DEFINE closes == o.cl.state \notin {"NO_CONNECTION", "IDLE"} \/ o.cl.eof
           p == IF closes THEN CloseClient(o) ELSE o
           q == [p EXCEPT !.cl.eof = FALSE]
<1>1. /\ p \in ClientOutcomes /\ Tied(p.cl) /\ Alike(o, p)
      /\ p.cl.state \in {"NO_CONNECTION", "IDLE"}
      /\ closes => p.cl.fd = NoFd /\ p.net = Hung(o.net, o.cl)
      /\ ~closes => p = o /\ ~o.cl.eof
  <2>1. CASE closes
    BY <2>1, CloseClientOutcome, ClosedIs DEF Tied
  <2>2. CASE ~closes
    BY <2>2 DEF Alike
  <2> QED BY <2>1, <2>2
<1>2. PICK r \in IF q.cl.state = "NO_CONNECTION" THEN DoConnect(q) ELSE {q} :
        z = IF ~r.on THEN r ELSE
              [r EXCEPT !.sent       = 1,
                        !.cl.state   = "WRITE_REQUEST",
                        !.cl.written = 0,
                        !.cd = AddSource(RemoveSource(r.cd, Client), Client,
                                         {"writable", "exception"})]
  BY DEF SetupConnection
<1> HIDE DEF p
<1>3. /\ q \in ClientOutcomes /\ Tied(q.cl) /\ q.on /\ q.sent = 0
      /\ q.cl.state \in {"NO_CONNECTION", "IDLE"}
      /\ closes => q.cl.fd = NoFd /\ q.net = Hung(o.net, o.cl)
      /\ ~closes => q = o
  <2> DEFINE l == [p.cl EXCEPT !.eof = FALSE]
  <2>1. /\ l \in Cl /\ l.state = p.cl.state /\ l.fd = p.cl.fd
        /\ ~p.cl.eof => l = p.cl
    BY <1>1 DEF ClientOutcomes, Cl
  <2>2. q = [p EXCEPT !.cl = l]
    BY <1>1 DEF ClientOutcomes
  <2> HIDE DEF l
  <2>3. /\ q \in ClientOutcomes /\ q.cl = l /\ q.net = p.net /\ q.on = p.on /\ q.sent = p.sent
        /\ l = p.cl => q = p
    BY <1>1, <2>1, <2>2 DEF ClientOutcomes
  <2> QED BY <1>1, <2>1, <2>3 DEF Tied, Alike
<1> HIDE DEF q
<1>4. \E w : Follows(o.net, o.cl, x, q.net, q.cl, w, 0)
  <2>1. o.net \in [Conns -> Connection] /\ o.cl \in Cl
    BY DEF ClientOutcomes, Nets
  <2>2. CASE closes
    BY <1>3, <2>1, <2>2, HungLines DEF Ready
  <2>3. CASE ~closes
    BY <1>3, <2>3 DEF Follows
  <2> QED BY <2>2, <2>3
<1>5. PICK w : Follows(o.net, o.cl, x, q.net, q.cl, w, 0)
  BY <1>4
<1>6. Lines(q.net, q.cl, w) /\ q.net \in Nets /\ q.cl \in Cl /\ q.cd \in Watchers
  BY <1>3, <1>5 DEF Follows, ClientOutcomes
<1> HIDE DEF closes
<1> DEFINE Goal(n, k, on, sent, d) ==
      /\ Follows(q.net, q.cl, w, n, k, y, sent)
      /\ on => d.endTime = q.cd.endTime
<1>7. Goal(z.net, z.cl, z.on, z.sent, z.cd)
  <2> DEFINE d == AddSource(RemoveSource(q.cd, Client), Client, {"writable", "exception"})
  <2>1. d.endTime = q.cd.endTime
    BY <1>6, SameTime DEF Events
  <2>2. CASE q.cl.state # "NO_CONNECTION"
    <3> DEFINE l == [q.cl EXCEPT !.state = "WRITE_REQUEST", !.written = 0]
    <3>1. z = [q EXCEPT !.sent = 1, !.cl.state = "WRITE_REQUEST", !.cl.written = 0, !.cd = d]
      BY <1>2, <1>3, <2>2
    <3>2. Sets(l, q.cl.fd)
      BY <1>6 DEF Cl, Sets
    <3> HIDE DEF d
    <3>3. z.cl = l /\ z.net = q.net /\ z.cd = d /\ z.on /\ z.sent = 1
      BY <1>3, <3>1 DEF ClientOutcomes
    <3> HIDE DEF l
    <3>4. q.cl.fd \in Conns /\ q.cl.state = "IDLE"
      BY <1>3, <1>6, <2>2 DEF Tied, Cl
    <3>5. Follows(q.net, q.cl, w, q.net, l, y, 1)
      BY <1>6, <3>2, <3>4, KeptLine DEF Ready
    <3> QED BY <2>1, <3>3, <3>5
  <2>3. CASE q.cl.state = "NO_CONNECTION"
    <3>1. q.cl.fd = NoFd
      BY <1>3, <2>3 DEF Tied
    <3>2. ASSUME r = False(CloseClient(q)) PROVE Goal(z.net, z.cl, z.on, z.sent, z.cd)
      <4>1. /\ ~r.on /\ r.sent = 0 /\ r.cl.fd = NoFd /\ r.net = CloseClient(q).net
        BY <1>3, <3>2, CloseClientOutcome, FalseOutcome DEF False, ClientOutcomes, Alike
      <4>2. r.net = q.net
        BY <1>3, <3>1, <4>1, ClosedIs DEF Hung
      <4>3. Follows(q.net, q.cl, w, q.net, r.cl, y, 0)
        BY <1>6, <3>1, <4>1, NoLine
      <4> QED BY <1>2, <4>1, <4>2, <4>3
    <3>3. ASSUME NEW k \in {Connected, Refused}, NEW c \in Fresh(q.net),
                 r = [q EXCEPT !.cl.fd = c, !.net[c] = k]
          PROVE  Goal(z.net, z.cl, z.on, z.sent, z.cd)
      <4> DEFINE n == [q.net EXCEPT ![c] = k]
                 l == [q.cl EXCEPT !.fd = c]
                 m == [l EXCEPT !.state = "WRITE_REQUEST", !.written = 0]
      <4>1. Sets(m, c)
        BY <1>6 DEF Cl, Sets
      <4>2. r = [q EXCEPT !.net = n, !.cl = l]
        BY <1>3, <3>3 DEF ClientOutcomes
      <4>3. Follows(q.net, q.cl, w, n, m, y, 1)
        BY <1>6, <3>1, <4>1, FreshLine DEF Ready
      <4> HIDE DEF n, l, d
      <4>4. r.on /\ r.cd = q.cd /\ r.cl = l /\ r.net = n
            /\ r \in [cl : {l}, cd : {q.cd}, net : {n}, on : BOOLEAN,
                      fate : {q.fate}, sent : 0..1]
        BY <1>3, <4>2 DEF ClientOutcomes
      <4>5. z = [r EXCEPT !.sent = 1, !.cl = m, !.cd = d]
        BY <1>2, <4>4 DEF d
      <4> HIDE DEF m
      <4>6. z.on /\ z.sent = 1 /\ z.cl = m /\ z.cd = d /\ z.net = n
        BY <4>4, <4>5
      <4> QED BY <2>1, <4>3, <4>6
    <3>4. \/ r = False(CloseClient(q))
          \/ \E k \in {Connected, Refused}, c \in Fresh(q.net) :
               r = [q EXCEPT !.cl.fd = c, !.net[c] = k]
      BY <1>2, <2>3 DEF DoConnect
    <3> HIDE DEF Goal
    <3> QED BY <3>2, <3>3, <3>4
  <2> HIDE DEF Goal
  <2> QED BY <2>2, <2>3
<1>8. Follows(o.net, o.cl, x, z.net, z.cl, y, z.sent)
  BY <1>5, <1>7, FollowsOn
<1>9. o.cl.state = "NO_CONNECTION" /\ ~o.cl.eof => q = o
  BY <1>3 DEF closes
<1> QED
  BY <1>7, <1>8, <1>9

(***************************************************************************)
(* The stages of a turn of the client.                                     *)
(***************************************************************************)
\* What a turn of work() has said: the request once more at most, and then it
\* goes on.
Says(o) ==
  /\ Follows(net, cl, Call, o.net, o.cl, Call, o.sent)
  /\ o.sent = 1 => o.on /\ o.cl.state = "WRITE_REQUEST"
  /\ o.on => o.cd.endTime = cd.endTime
  /\ o.cl.state = "IDLE" => o.cl.response \in Seq({Call})

\* Connection c of the client becomes k in a stage, and the object l.
Staged(o, c, k, l) ==
  /\ Fit(o) /\ o.on /\ o.sent = 0 /\ Says(o) /\ Ready
  /\ c = o.cl.fd /\ c \in Conns /\ l.fd = c
  /\ Own(k, sc[c], l, Call)
  /\ \A v : Owes(k, sc[c], v) => c \in Debt(o.net, o.cl, Call, v)
  /\ l.state = "WRITE_REQUEST" => o.cl.state = "WRITE_REQUEST"
  /\ l.state = "IDLE" => l.response \in Seq({Call})

\* A stage that went on with the client's own line.
LEMMA StageSays ==
  ASSUME NEW o, NEW c, NEW k, NEW l, Staged(o, c, k, l), NEW z,
         z.net = [o.net EXCEPT ![c] = k], z.cl = l, z.sent = 0, z.on => z.cd = o.cd
  PROVE  Says(z)
<1>1. /\ o.net \in [Conns -> Connection] /\ o.on /\ o.sent = 0
      /\ Follows(net, cl, Call, o.net, o.cl, Call, o.sent)
      /\ o.cd.endTime = cd.endTime /\ Lines(o.net, o.cl, Call)
      /\ l.state = "IDLE" => l.response \in Seq({Call})
  BY DEF Staged, Fit, Says, ClientOutcomes, Nets, Follows
<1>2. /\ c \in Conns /\ c # peer.fd /\ peer.fd \in Conns \cup {NoFd} /\ o.cl.fd = c
      /\ l.fd = c /\ Own(k, sc[c], l, Call)
      /\ \A v : Owes(k, sc[c], v) => c \in Debt(o.net, o.cl, Call, v)
      /\ l.state = "WRITE_REQUEST" => o.cl.state = "WRITE_REQUEST"
  BY <1>1, NoFdApart DEF Staged, Ready, Lines, PeerLine
<1>3. \E x, u, g : Line(k, sc[c], x, u, g)
  BY <1>2 DEF Own
<1>4. Touches(o.net, c, k, o.cl, Call, l, Call)
  BY <1>1, <1>2, <1>3 DEF Touches
<1>5. l.state = "WRITE_REQUEST" => c \in Debt(o.net, o.cl, Call, Call)
  BY <1>2 DEF Debt
<1>6. /\ Lines(z.net, z.cl, Call)
      /\ \A v : Debt(z.net, z.cl, Call, v) \subseteq Debt(o.net, o.cl, Call, v)
  <2> DEFINE n == o.net
             d == o.cl
             x == Call
  <2>1. Touches(n, c, k, d, x, l, x)
    BY <1>4
  <2>2. \A v : Owes(k, sc[c], v) => c \in Debt(n, d, x, v)
    BY <1>2
  <2>3. l.state = "WRITE_REQUEST" => c \in Debt(n, d, x, x)
    BY <1>5
  <2> HIDE DEF n, d, x
  <2>4. Lines([n EXCEPT ![c] = k], l, x)
    BY <2>1, OneLine
  <2>5. ASSUME NEW v PROVE Debt([n EXCEPT ![c] = k], l, x, v) \subseteq Debt(n, d, x, v)
    <3>1. l.fd = c /\ l.state = "WRITE_REQUEST" /\ v = x => c \in Debt(n, d, x, v)
      BY <2>3
    <3> QED BY <2>1, <2>2, <3>1, LessDebt
  <2> QED BY <2>4, <2>5 DEF n, d, x
<1>7. Follows(o.net, o.cl, Call, z.net, z.cl, Call, z.sent)
  BY <1>6 DEF Follows
<1>8. Follows(net, cl, Call, z.net, z.cl, Call, z.sent)
  BY <1>1, <1>7, FollowsOn
<1> QED
  BY <1>1, <1>8 DEF Says

\* The connection a stage works on.
LEMMA StageLine ==
  ASSUME NEW o, Fit(o), o.on, o.sent = 0, Says(o), Ready
  PROVE  /\ o \in ClientOutcomes /\ o.cl \in Cl /\ o.net \in Nets
         /\ o.cl.fd \in Conns /\ o.net[o.cl.fd] \in Connection
         /\ Own(o.net[o.cl.fd], sc[o.cl.fd], o.cl, Call)
         /\ Line(o.net[o.cl.fd], sc[o.cl.fd], Call, SentOf(o.cl), GotOf(o.cl))
         /\ Call \in Calls /\ sc[o.cl.fd] \in Objects
         /\ \A v : Owes(o.net[o.cl.fd], sc[o.cl.fd], v) =>
                     o.cl.fd \in Debt(o.net, o.cl, Call, v)
<1>1. /\ o \in ClientOutcomes /\ o.cl \in Cl /\ o.net \in Nets
      /\ o.cl.fd \in Conns /\ o.net[o.cl.fd] \in Connection
  BY DEF Fit, Tied, ClientOutcomes, Cl, Nets, Busy
<1>2. Own(o.net[o.cl.fd], sc[o.cl.fd], o.cl, Call)
  BY <1>1, NoFdApart DEF Says, Follows, Lines, ClientLine
<1>3. /\ Line(o.net[o.cl.fd], sc[o.cl.fd], Call, SentOf(o.cl), GotOf(o.cl))
      /\ Call \in Calls
  BY <1>2 DEF Own, Line
<1> QED
  BY <1>1, <1>2, <1>3 DEF Debt, Ready

\* Writing the request sets up no other.
LEMMA WriteRequestSays ==
  ASSUME NEW o, Fit(o), o.on, o.sent = 0, Says(o), Ready, NEW z \in WriteRequest(o)
  PROVE  Says(z) /\ z.sent = 0
<1>1. CASE o.cl.state # "WRITE_REQUEST"
  BY <1>1 DEF WriteRequest
<1>2. CASE o.cl.state = "WRITE_REQUEST"
  <2> DEFINE c == o.cl.fd
             m == Message(Call)
             w == NbWrite(o.net[c], "client", m, o.cl.written)
             n == [o.net EXCEPT ![c] = w.net]
             p == [o EXCEPT !.net[c] = w.net, !.cl.written = w.written]
             l == [o.cl EXCEPT !.written = w.written]
             k == [l EXCEPT !.header = <<>>, !.response = <<>>, !.state = "READ_HEADER"]
  <2>1. /\ c \in Conns /\ o.net[c] \in Connection /\ o.cl \in Cl
        /\ o \in ClientOutcomes /\ Own(o.net[c], sc[c], o.cl, Call)
        /\ Call \in Calls /\ sc[c] \in Objects
    BY StageLine
  <2>2. /\ Line(o.net[c], sc[c], Call, o.cl.written, 0) /\ o.cl.written < MessageLen
        /\ o.net[c].end["client"] = "open"
        /\ Shown(o.net[c], sc[c], 0) => executed[Call] > 0
    BY <1>2, <2>1 DEF Own, SentOf, GotOf
  <2>3. \/ z = False(p) /\ w.status # "ok"
        \/ z = [p EXCEPT !.fate = "killed", !.on = FALSE] /\ w.status # "ok"
        \/ z = p /\ w.written < Len(m)
        \/ z = [p EXCEPT !.cl.header = <<>>, !.cl.response = <<>>,
                          !.cl.state = "READ_HEADER"] /\ ~(w.written < Len(m)) 
    <3> DEFINE z1 == False(p)
               z2 == [p EXCEPT !.fate = "killed", !.on = FALSE]
               z3 == [p EXCEPT !.cl.header = <<>>, !.cl.response = <<>>,
                               !.cl.state = "READ_HEADER"]
    <3>1. z \in (CASE w.status = "error" -> {z1}
                  [] w.status = "sigpipe" -> {z2}
                  [] w.status = "ok" /\ w.written < Len(m) -> {p}
                  [] OTHER -> {z3})
      BY <1>2 DEF WriteRequest
    <3>2. w.status \in {"ok", "error", "sigpipe"}
      BY <2>1, <2>2, LineWritten
    <3> HIDE DEF z1, z2, z3, p, w, m
    <3>3. \/ z = z1 /\ w.status # "ok"
          \/ z = z2 /\ w.status # "ok"
          \/ z = p /\ w.written < Len(m)
          \/ z = z3 /\ ~(w.written < Len(m))
      BY ONLY <3>1, <3>2
    <3> QED BY <3>3 DEF z1, z2, z3
  <2>4. Len(m) = MessageLen
    BY <2>1, MessageUnits
  <2>5. /\ Line(w.net, sc[c], Call, w.written, 0)
        /\ w.net.end = o.net[c].end /\ w.net.data["client"] = o.net[c].data["client"]
        /\ w.written \in Units
        /\ w.status # "ok" => w.written = o.cl.written
    BY <2>1, <2>2, LineWritten
  <2>6. \A v : Owes(w.net, sc[c], v) => c \in Debt(o.net, o.cl, Call, v)
    <3>1. \A v : Owes(w.net, sc[c], v) => v = Call
      BY <2>1, <2>5, OwesIs
    <3> HIDE DEF w
    <3> QED BY <1>2, <2>1, <3>1 DEF Debt
  <2> HIDE DEF m, w
  <2>7. /\ l \in Cl /\ l.fd = o.cl.fd /\ l.state = "WRITE_REQUEST" /\ l.written = w.written
    BY <1>2, <2>1, <2>5 DEF Cl
  <2>8. p = [o EXCEPT !.net = n, !.cl = l]
    BY <2>1 DEF ClientOutcomes
  <2>9. k.fd = o.cl.fd /\ k.state = "READ_HEADER" /\ k.header = <<>>
    <3> HIDE DEF l
    <3> QED BY <2>7 DEF Cl
  <2>10. [p EXCEPT !.cl.header = <<>>, !.cl.response = <<>>, !.cl.state = "READ_HEADER"]
          = [o EXCEPT !.net = n, !.cl = k]
    <3> HIDE DEF l, p, n
    <3> QED BY <2>1, <2>8 DEF ClientOutcomes, l
  <2> HIDE DEF l, k, n, p, c
  <2>11. ASSUME w.written < MessageLen PROVE Staged(o, c, w.net, l)
    <3>1. SentOf(l) = w.written /\ GotOf(l) = 0
      BY <2>7 DEF SentOf, GotOf
    <3>2. Own(w.net, sc[c], l, Call)
      BY <2>2, <2>5, <2>7, <2>11, <3>1 DEF Own, Shown
    <3> QED BY <1>2, <2>1, <2>6, <2>7, <3>2 DEF Staged, c
  <2>12. ASSUME ~(w.written < MessageLen) PROVE Staged(o, c, w.net, k)
    <3>1. w.written = MessageLen
      BY <2>5, <2>12, MessageLenIs
    <3>2. SentOf(k) = MessageLen /\ GotOf(k) = 0 /\ <<>> \in Seq({Call})
      BY <2>9, EmptySeq DEF SentOf, GotOf
    <3>3. Own(w.net, sc[c], k, Call)
      BY <2>2, <2>5, <2>9, <3>1, <3>2 DEF Own, Shown
    <3> QED BY <2>1, <2>6, <2>9, <3>3 DEF Staged, c
  <2>13. /\ o.sent = 0 /\ o \in ClientOutcomes
    BY <2>1
  <2>14. CASE w.written < MessageLen /\ z \in {False(p), [p EXCEPT !.fate = "killed", !.on = FALSE], p}
    <3>1. z.net = n /\ z.cl = l /\ z.sent = 0 /\ (z.on => z.cd = o.cd)
      BY <2>8, <2>13, <2>14 DEF False, ClientOutcomes
    <3> QED BY <2>11, <2>14, <3>1, StageSays DEF n
  <2>15. CASE ~(w.written < MessageLen) /\ z = [o EXCEPT !.net = n, !.cl = k]
    <3>1. z.net = n /\ z.cl = k /\ z.sent = 0 /\ (z.on => z.cd = o.cd)
      BY <2>13, <2>15 DEF ClientOutcomes
    <3> QED BY <2>12, <2>15, <3>1, StageSays DEF n
  <2>16. w.status # "ok" => w.written < MessageLen
    BY <2>2, <2>5
  <2> QED
    BY <2>3, <2>4, <2>10, <2>14, <2>15, <2>16
<1> QED
  BY <1>1, <1>2

\* A connection that broke under a new request is made again, once.
LEMMA RetrySays ==
  ASSUME NEW o, Fit(o), o.on, o.sent = 0, Says(o), Ready, Call \in Calls, NEW z \in Retry(o)
  PROVE  Says(z)
<1> DEFINE m == [o.cl EXCEPT !.attempts = 1]
           a == [o EXCEPT !.cl = m]
           p == CloseFd(a)
           l == [p.cl EXCEPT !.state = "NO_CONNECTION", !.eof = FALSE]
           b == [p EXCEPT !.cl = l]
<1>1. o \in ClientOutcomes /\ o.cl \in Cl /\ o.net \in [Conns -> Connection]
  BY DEF Fit, ClientOutcomes, Nets
<1>2. m \in Cl /\ m.fd = o.cl.fd
  <2>1. o.cl \in Cl /\ 1 \in 0..2
    BY <1>1
  <2> QED BY ONLY <2>1 DEF Cl
<1>3. [o EXCEPT !.cl.attempts = 1] = a
  BY <1>1 DEF ClientOutcomes
<1> HIDE DEF m
<1>4. a \in ClientOutcomes /\ a.sent = 0 /\ a.on = o.on /\ a.cd = o.cd /\ a.net = o.net /\ a.cl = m
  BY <1>1, <1>2 DEF ClientOutcomes
<1> HIDE DEF a
<1>5. /\ p \in ClientOutcomes /\ p.sent = 0 /\ p.on = o.on /\ p.cl.fd = NoFd
      /\ p.net = Hung(a.net, a.cl) /\ p.cd = o.cd
  BY <1>4, CloseFdOutcome, ClosedIs DEF Alike
<1>6. PICK q \in SetupConnection([p EXCEPT !.cl.state = "NO_CONNECTION", !.cl.eof = FALSE]) :
        z = IF q.on THEN q ELSE [q EXCEPT !.fate = "undefined"]
  BY <1>3 DEF Retry
<1> HIDE DEF p
<1>7. /\ l \in Cl /\ l.fd = NoFd /\ l.state = "NO_CONNECTION" /\ ~l.eof
  BY <1>5 DEF ClientOutcomes, Cl
<1>8. [p EXCEPT !.cl.state = "NO_CONNECTION", !.cl.eof = FALSE] = b
  BY <1>5 DEF ClientOutcomes
<1> HIDE DEF l
<1>9. /\ b \in ClientOutcomes /\ b.sent = 0 /\ b.on /\ b.cl = l /\ b.net = p.net /\ b.cd = o.cd
  BY <1>5, <1>7 DEF ClientOutcomes
<1> HIDE DEF b
<1>10. Follows(o.net, o.cl, Call, b.net, b.cl, Call, 0)
  <2>1. b.net = Hung(o.net, o.cl)
    BY <1>2, <1>4, <1>5, <1>9 DEF Hung
  <2>2. Lines(o.net, o.cl, Call)
    BY DEF Says, Follows
  <2> QED BY <1>1, <1>7, <1>9, <2>1, <2>2, HungLines DEF Ready
<1>11. /\ Follows(b.net, b.cl, Call, q.net, q.cl, Call, q.sent)
       /\ q.on => q.cd.endTime = b.cd.endTime
  <2>1. Lines(b.net, b.cl, Call)
    BY <1>10 DEF Follows
  <2> QED BY <1>6, <1>7, <1>8, <1>9, <2>1, SetupFollows DEF Tied
<1>12. /\ q \in ClientOutcomes
       /\ q.on => q.sent = 1 /\ q.cl.state = "WRITE_REQUEST"
       /\ ~q.on => q.sent = 0 /\ q.cl.state = "NO_CONNECTION"
  BY <1>6, <1>7, <1>8, <1>9, SetupOutcome DEF Tied
<1>13. Follows(net, cl, Call, q.net, q.cl, Call, q.sent)
  <2>1. Follows(net, cl, Call, o.net, o.cl, Call, o.sent)
    BY DEF Says
  <2>2. Follows(net, cl, Call, b.net, b.cl, Call, 0)
    BY <1>10, <2>1, FollowsOn
  <2> QED BY <1>11, <2>2, FollowsOn
<1>14. o.cd.endTime = cd.endTime
  BY DEF Says
<1>15. CASE q.on
  BY <1>6, <1>9, <1>11, <1>12, <1>13, <1>14, <1>15 DEF Says
<1>16. CASE ~q.on
  <2>1. z.net = q.net /\ z.cl = q.cl /\ z.on = FALSE /\ z.sent = q.sent
    BY <1>6, <1>12, <1>16 DEF ClientOutcomes
  <2> QED BY <1>12, <1>13, <1>16, <2>1 DEF Says
<1> QED
  BY <1>15, <1>16

\* The client waits for the answer to a request it has written.
Reading(o) ==
  /\ Fit(o) /\ o.on /\ o.sent = 0 /\ Says(o) /\ Ready
  /\ o.cl.state \in {"READ_HEADER", "READ_RESPONSE"}

\* The object l has got q more than that of o.
More(o, l, q) ==
  /\ l.fd = o.cl.fd /\ l.state \in {"READ_HEADER", "READ_RESPONSE", "IDLE"}
  /\ GotOf(l) = GotOf(o.cl) + Len(q)
  /\ l.state = "READ_HEADER" => l.header \in Seq({Call})
  /\ l.state \in {"READ_RESPONSE", "IDLE"} => l.response \in Seq({Call})

\* What the client reads is the answer to its own request.
LEMMA ReadStaged ==
  ASSUME NEW o, Reading(o), NEW r \in NbRead(o.net[o.cl.fd], "client")
  PROVE  /\ r.got \in Seq({Call}) /\ Len(r.got) \in Nat
         /\ GotOf(o.cl) + Len(r.got) \in Units
         /\ [o.net EXCEPT ![o.cl.fd] = r.net] \in Nets
         /\ \A l : More(o, l, r.got) => Staged(o, o.cl.fd, r.net, l)
<1> DEFINE c == o.cl.fd
           u == SentOf(o.cl)
           g == GotOf(o.cl)
<1>1. /\ o.cl \in Cl /\ o.net \in Nets /\ c \in Conns /\ o.net[c] \in Connection
      /\ Own(o.net[c], sc[c], o.cl, Call) /\ Line(o.net[c], sc[c], Call, u, g)
      /\ Call \in Calls /\ sc[c] \in Objects
      /\ \A v : Owes(o.net[c], sc[c], v) => c \in Debt(o.net, o.cl, Call, v)
  BY StageLine DEF Reading
<1>2. o.net[c].data["client"] \in Seq({Call})
  BY <1>1 DEF Line, Unread
<1>3. Read(o.net[c], "client", Call, r)
  BY <1>1, <1>2, ReadUnits DEF Ends
<1>4. /\ r.got \in Seq({Call}) /\ Len(r.got) \in Nat
      /\ Line(r.net, sc[c], Call, u, g + Len(r.got))
      /\ r.net.end = o.net[c].end /\ r.net.data["server"] = o.net[c].data["server"]
      /\ Shown(r.net, sc[c], g + Len(r.got)) => Shown(o.net[c], sc[c], g)
  BY <1>1, <1>3, LineRead
<1>5. [o.net EXCEPT ![c] = r.net] \in Nets
  <2>1. r.net \in Connection
    BY <1>1, ReadJoins DEF Ends
  <2> QED BY <1>1, <1>4, <2>1, SameEnds
<1>6. \A v : Owes(r.net, sc[c], v) => c \in Debt(o.net, o.cl, Call, v)
  <2>1. \A v : Owes(r.net, sc[c], v) => Owes(o.net[c], sc[c], v)
    BY <1>4 DEF Owes
  <2> QED BY <1>1, <2>1
<1>7. /\ u = MessageLen /\ o.net[c].end["client"] = "open"
      /\ Shown(o.net[c], sc[c], g) => executed[Call] > 0
  BY <1>1 DEF SentOf, Reading, Own
<1> HIDE DEF c, u, g
<1>8. ASSUME NEW l, More(o, l, r.got) PROVE Staged(o, c, r.net, l)
  <2>1. /\ SentOf(l) = u /\ GotOf(l) = g + Len(r.got) /\ l.fd = c
        /\ l.state \in {"READ_HEADER", "READ_RESPONSE", "IDLE"}
    BY <1>7, <1>8 DEF More, SentOf, g, c
  <2>2. Own(r.net, sc[c], l, Call)
    BY <1>4, <1>7, <1>8, <2>1 DEF Own, More
  <2> QED BY <1>1, <1>6, <1>8, <2>1, <2>2 DEF Staged, Reading, More, c
<1> QED
  BY <1>4, <1>5, <1>8 DEF Line, c, g

\* Reading the header, which may find that the kept connection was closed.
LEMMA ReadHeaderSays ==
  ASSUME NEW o, Fit(o), o.on, o.sent = 0, Says(o), Ready, NEW a \in BOOLEAN,
         NEW z \in ReadHeader(o, a)
  PROVE  Says(z)
<1>1. CASE o.cl.state # "READ_HEADER"
  BY <1>1 DEF ReadHeader
<1>2. CASE o.cl.state = "READ_HEADER"
  <2> DEFINE c == o.cl.fd
  <2>1. PICK r \in NbRead(o.net[c], "client") :
          LET h == o.cl.header \o r.got
              p == [o EXCEPT !.net[c] = r.net, !.cl.header = h, !.cl.eof = r.status = "eof"]
          IN  z \in
            IF r.status = "error" \/ (r.status = "eof" /\ h = <<>>)
              THEN IF KeepOpen /\ h = <<>> /\ o.cl.attempts = 0
                     THEN Retry(p)
                     ELSE {False([p EXCEPT !.cl.attempts = IF KeepOpen /\ h = <<>> THEN 2 ELSE @])}
            ELSE IF Len(h) <= HeaderLen THEN {[p EXCEPT !.on = r.status # "eof"]}
            ELSE {[p EXCEPT !.cl.header   = <<>>,
                            !.cl.response = SubSeq(h, HeaderLen + 1, Len(h)),
                            !.cl.state    = "READ_RESPONSE"]}
    BY <1>2 DEF ReadHeader
  <2> DEFINE h == o.cl.header \o r.got
             e == r.status = "eof"
             p == [o EXCEPT !.net[c] = r.net, !.cl.header = h, !.cl.eof = e]
             n == [o.net EXCEPT ![c] = r.net]
             l == [o.cl EXCEPT !.header = h, !.eof = e]
             t == SubSeq(h, HeaderLen + 1, Len(h))
             k == [l EXCEPT !.header = <<>>, !.response = t, !.state = "READ_RESPONSE"]
             j == [l EXCEPT !.attempts = 2]
  <2>2. /\ o.cl \in Cl /\ o.net \in Nets /\ o \in ClientOutcomes
        /\ Call \in Calls /\ o.cl.header \in Seq({Call})
    BY <1>2, StageLine DEF Own
  <2>3. Reading(o)
    BY <1>2 DEF Reading
  <2>4. /\ r.got \in Seq({Call}) /\ Len(r.got) \in Nat /\ n \in Nets
        /\ \A i : More(o, i, r.got) => Staged(o, c, r.net, i)
    BY <2>1, <2>3, ReadStaged
  <2>5. h \in Seq({Call}) /\ Len(h) = GotOf(o.cl) + Len(r.got) /\ h \in Seq(Calls)
    BY <1>2, <2>2, <2>4, JoinedUnits DEF GotOf
  <2>6. \/ z \in Retry(p)
        \/ z = False(p)
        \/ z = False([p EXCEPT !.cl.attempts = 2])
        \/ z = [p EXCEPT !.on = FALSE]
        \/ z = [p EXCEPT !.on = TRUE]
        \/ /\ ~(Len(h) <= HeaderLen)
           /\ z = [p EXCEPT !.cl.header = <<>>, !.cl.response = t, !.cl.state = "READ_RESPONSE"]
    <3>1. [p EXCEPT !.cl.attempts = @] = p
      BY <2>2 DEF ClientOutcomes, Cl
    <3> DEFINE s == [p EXCEPT !.cl.attempts = 2]
    <3>2. [p EXCEPT !.cl.attempts = IF KeepOpen /\ h = <<>> THEN 2 ELSE @] \in {p, s}
      <4> HIDE DEF p
      <4> QED BY <3>1
    <3> HIDE DEF p, s, t, h
    <3>3. \/ z \in Retry(p)
          \/ z = False([p EXCEPT !.cl.attempts = IF KeepOpen /\ h = <<>> THEN 2 ELSE @])
          \/ z = [p EXCEPT !.on = r.status # "eof"]
          \/ /\ ~(Len(h) <= HeaderLen)
             /\ z = [p EXCEPT !.cl.header = <<>>, !.cl.response = t, !.cl.state = "READ_RESPONSE"]
      BY <2>1 DEF p, t, h
    <3> QED BY <3>2, <3>3 DEF s
  <2>7. e \in BOOLEAN
    OBVIOUS
  <2>8. Len(h) \in Nat /\ (~(Len(h) <= HeaderLen) =>
           t \in Seq({Call}) /\ HeaderLen + Len(t) = Len(h))
    <3>1. Len(h) \in Nat /\ HeaderLen \in Nat
      BY <2>5, EmptyUnits, Lengths
    <3>2. ASSUME ~(Len(h) <= HeaderLen) PROVE t \in Seq({Call}) /\ HeaderLen + Len(t) = Len(h)
      <4> HIDE DEF h
      <4>1. HeaderLen \in 0..Len(h)
        BY <3>1, <3>2
      <4>2. t \in Seq({Call}) /\ Len(t) = Len(h) - HeaderLen
        BY <2>5, <4>1, PartUnits
      <4> HIDE DEF t
      <4> QED BY <3>1, <4>2
    <3> QED BY <3>1, <3>2
  <2> HIDE DEF c, h, t, e
  <2>9. /\ l \in Cl /\ l.fd = o.cl.fd /\ l.attempts = o.cl.attempts /\ l.state = "READ_HEADER"
        /\ l.header = h
    BY <1>2, <2>2, <2>5, <2>7 DEF Cl
  <2>10. p = [o EXCEPT !.cl = l, !.net = n]
    BY <2>2 DEF ClientOutcomes
  <2> HIDE DEF l, p
  <2>11. /\ k.fd = o.cl.fd /\ k.state = "READ_RESPONSE" /\ k.response = t
    BY <2>9 DEF Cl
  <2>12. /\ j.fd = o.cl.fd /\ j.state = "READ_HEADER" /\ j.header = h
    BY <2>9 DEF Cl
  <2>13. Fit(p) /\ p.on /\ p.cl = l /\ p.net = n
    <3>1. Turned(o, l, n)
      BY <1>2, <2>2, <2>4, <2>9 DEF Turned, Busy, c
    <3>2. l.state # "IDLE"
      BY <2>9
    <3>3. p = With(o, l, n)
      BY <2>10 DEF With
    <3> HIDE DEF n
    <3> QED BY <3>1, <3>2, <3>3, FitOn
  <2>14. /\ [p EXCEPT !.cl.header = <<>>, !.cl.response = t, !.cl.state = "READ_RESPONSE"]
              = [o EXCEPT !.cl = k, !.net = n]
         /\ False([p EXCEPT !.cl.attempts = 2]) = [o EXCEPT !.cl = j, !.net = n, !.on = FALSE]
         /\ False(p) = [o EXCEPT !.cl = l, !.net = n, !.on = FALSE]
         /\ [p EXCEPT !.on = FALSE] = [o EXCEPT !.cl = l, !.net = n, !.on = FALSE]
         /\ [p EXCEPT !.on = TRUE] = [o EXCEPT !.cl = l, !.net = n]
    <3> HIDE DEF n
    <3> QED BY <2>2, <2>10 DEF ClientOutcomes, False
  <2>15. Staged(o, c, r.net, l) /\ Staged(o, c, r.net, j)
    <3>1. GotOf(l) = Len(h) /\ GotOf(j) = Len(h)
      BY <2>9, <2>12 DEF GotOf
    <3> HIDE DEF j
    <3> QED BY <2>4, <2>5, <2>9, <2>12, <3>1 DEF More
  <2>16. ASSUME ~(Len(h) <= HeaderLen) PROVE Staged(o, c, r.net, k)
    <3>1. GotOf(k) = Len(h)
      BY <2>8, <2>11, <2>16 DEF GotOf
    <3> HIDE DEF k
    <3> QED BY <2>4, <2>5, <2>8, <2>11, <2>16, <3>1 DEF More
  <2> HIDE DEF k, j
  <2>17. ASSUME NEW i, Staged(o, c, r.net, i), NEW y,
                y \in {[o EXCEPT !.cl = i, !.net = n], [o EXCEPT !.cl = i, !.net = n, !.on = FALSE]}
         PROVE  Says(y)
    <3> DEFINE m == n
    <3> HIDE DEF m
    <3>1. y \in {[o EXCEPT !.cl = i, !.net = m], [o EXCEPT !.cl = i, !.net = m, !.on = FALSE]}
      BY <2>17 DEF m
    <3>2. y.net = m /\ y.cl = i /\ y.sent = 0 /\ (y.on => y.cd = o.cd)
      BY <2>2, <3>1 DEF ClientOutcomes
    <3>3. y.net = [o.net EXCEPT ![c] = r.net]
      BY <3>2 DEF m
    <3> QED BY <2>17, <3>2, <3>3, StageSays
  <2> HIDE DEF n
  <2>18. ASSUME z \in Retry(p) PROVE Says(z)
    <3>1. Says(p) /\ p.sent = 0
      BY <2>2, <2>10, <2>15, <2>17 DEF ClientOutcomes
    <3> QED BY <2>2, <2>13, <2>18, <3>1, RetrySays
  <2> DEFINE z1 == [o EXCEPT !.cl = l, !.net = n]
             z2 == [o EXCEPT !.cl = l, !.net = n, !.on = FALSE]
             z3 == [o EXCEPT !.cl = j, !.net = n, !.on = FALSE]
             z4 == [o EXCEPT !.cl = k, !.net = n]
  <2>19. Says(z1) /\ Says(z2) /\ Says(z3)
    BY <2>15, <2>17
  <2>20. ~(Len(h) <= HeaderLen) => Says(z4)
    BY <2>16, <2>17
  <2> HIDE DEF z1, z2, z3, z4, Retry
  <2> QED
    <3>1. \/ z \in Retry(p) \/ z = z1 \/ z = z2 \/ z = z3 \/ (~(Len(h) <= HeaderLen) /\ z = z4)
      BY <2>6, <2>14 DEF z1, z2, z3, z4
    <3> QED BY <2>18, <2>19, <2>20, <3>1
<1> QED
  BY <1>1, <1>2

\* Reading the response, up to the one that is complete.
LEMMA ReadResponseSays ==
  ASSUME NEW o, Fit(o), o.on, o.sent = 0, Says(o), Ready, NEW a \in BOOLEAN,
         NEW z \in ReadResponse(o, a)
  PROVE  Says(z)
<1>1. CASE o.cl.state # "READ_RESPONSE"
  BY <1>1 DEF ReadResponse
<1>2. CASE o.cl.state = "READ_RESPONSE"
  <2> DEFINE c == o.cl.fd
  <2>1. /\ o.cl \in Cl /\ o.net \in Nets /\ o \in ClientOutcomes /\ c \in Conns
        /\ o.net[c] \in Connection /\ Own(o.net[c], sc[c], o.cl, Call)
        /\ Line(o.net[c], sc[c], Call, SentOf(o.cl), GotOf(o.cl))
        /\ \A v : Owes(o.net[c], sc[c], v) => c \in Debt(o.net, o.cl, Call, v)
    BY StageLine
  <2>2. o.cl.response \in Seq({Call}) /\ GotOf(o.cl) = HeaderLen + Len(o.cl.response)
        /\ GotOf(o.cl) \in Units
    BY <1>2, <2>1 DEF Own, GotOf, Line
  <2>3. Reading(o)
    BY <1>2 DEF Reading
  <2>4. ASSUME NEW q \in Seq({Call}), Len(q) >= BodyLen, HeaderLen + Len(q) \in Units
        PROVE  HeaderLen + Len(q) = MessageLen
    <3> DEFINE i == Len(q)
    <3>1. i \in Nat /\ i >= BodyLen /\ HeaderLen + i \in 0..MessageLen
      BY <2>4, EmptyUnits, MessageLenIs
    <3> HIDE DEF i
    <3>2. HeaderLen + i = MessageLen
      BY ONLY <3>1, MessageLenIs, Lengths
    <3> QED BY <3>2 DEF i
  <2>5. CASE Len(o.cl.response) >= BodyLen
    <3> DEFINE l == [o.cl EXCEPT !.state = "IDLE"]
    <3>1. z = [o EXCEPT !.cl = l, !.on = FALSE]
      BY <1>2, <2>1, <2>5 DEF ReadResponse, ClientOutcomes, False
    <3>2. l.fd = o.cl.fd /\ l.state = "IDLE" /\ l.response = o.cl.response
      BY <2>1 DEF Cl
    <3> HIDE DEF l
    <3>3. z.net = o.net /\ z.cl = l /\ z.sent = 0 /\ ~z.on
      BY <2>1, <3>1 DEF ClientOutcomes
    <3>4. SentOf(l) = SentOf(o.cl) /\ GotOf(l) = GotOf(o.cl)
      <4>1. GotOf(o.cl) = MessageLen
        BY <2>2, <2>4, <2>5
      <4> QED BY <1>2, <3>2, <4>1 DEF SentOf, GotOf
    <3>5. Own(o.net[c], sc[c], l, Call)
      BY <2>1, <3>2, <3>4 DEF Own
    <3>6. Staged(o, c, o.net[c], l)
      BY <2>1, <2>2, <3>2, <3>5 DEF Staged
    <3>7. o.net = [o.net EXCEPT ![c] = o.net[c]]
      BY <2>1 DEF Nets
    <3>8. z.net = [o.net EXCEPT ![c] = o.net[c]]
      BY <3>3, <3>7
    <3> HIDE DEF c
    <3> QED BY <3>3, <3>6, <3>8, StageSays
  <2>6. CASE ~(Len(o.cl.response) >= BodyLen)
    <3>1. PICK r \in NbRead(o.net[c], "client") :
            LET b == o.cl.response \o r.got
                p == [o EXCEPT !.net[c] = r.net, !.cl.response = b, !.cl.eof = r.status = "eof"]
            IN  z = CASE r.status = "error" -> False(p)
                      [] r.status # "error" /\ Len(b) < BodyLen -> [p EXCEPT !.on = r.status # "eof"]
                      [] OTHER -> False([p EXCEPT !.cl.state = "IDLE"])
      BY <1>2, <2>6 DEF ReadResponse
    <3> DEFINE b == o.cl.response \o r.got
               e == r.status = "eof"
               p == [o EXCEPT !.net[c] = r.net, !.cl.response = b, !.cl.eof = e]
               n == [o.net EXCEPT ![c] = r.net]
               k == [o.cl EXCEPT !.response = b, !.eof = e]
               j == [k EXCEPT !.state = "IDLE"]
    <3>2. /\ r.got \in Seq({Call}) /\ Len(r.got) \in Nat
          /\ GotOf(o.cl) + Len(r.got) \in Units
          /\ \A i : More(o, i, r.got) => Staged(o, c, r.net, i)
      BY <2>3, <3>1, ReadStaged
    <3>3. b \in Seq({Call}) /\ Len(b) \in Nat /\ HeaderLen + Len(b) = GotOf(o.cl) + Len(r.got)
      <4> DEFINE m == Len(o.cl.response)
                 q == Len(r.got)
                 t == Len(b)
      <4>1. b \in Seq({Call}) /\ t = m + q
        BY <2>2, <3>2, JoinedUnits
      <4>2. t \in Nat /\ m \in Nat /\ q \in Nat /\ HeaderLen \in Nat
        BY <2>2, <3>2, <4>1, EmptyUnits, Lengths
      <4>3. GotOf(o.cl) = HeaderLen + m
        BY <2>2
      <4> HIDE DEF m, q, t
      <4>4. HeaderLen + t = GotOf(o.cl) + q
        BY ONLY <4>1, <4>2, <4>3
      <4> QED BY <4>1, <4>2, <4>4 DEF q, t
    <3>4. \/ z = False(p)
          \/ z = [p EXCEPT !.on = FALSE]
          \/ z = [p EXCEPT !.on = TRUE]
          \/ ~(Len(b) < BodyLen) /\ z = False([p EXCEPT !.cl.state = "IDLE"])
      <4> HIDE DEF p, b
      <4>1. \/ z = False(p)
            \/ z = [p EXCEPT !.on = r.status # "eof"]
            \/ ~(Len(b) < BodyLen) /\ z = False([p EXCEPT !.cl.state = "IDLE"])
        BY <3>1 DEF p, b
      <4> QED BY <4>1
    <3> HIDE DEF c, b, e
    <3>5. k.fd = o.cl.fd /\ k.state = "READ_RESPONSE" /\ k.response = b
      BY <1>2, <2>1 DEF Cl
    <3>6. j.fd = o.cl.fd /\ j.state = "IDLE" /\ j.response = b
      <4> HIDE DEF k
      <4>1. k.fd = o.cl.fd /\ k.response = b /\ k = [o.cl EXCEPT !.response = b, !.eof = e]
        BY <3>5 DEF k
      <4> QED BY <2>1, <4>1 DEF Cl
    <3>7. /\ False(p) = [o EXCEPT !.cl = k, !.net = n, !.on = FALSE]
          /\ [p EXCEPT !.on = FALSE] = [o EXCEPT !.cl = k, !.net = n, !.on = FALSE]
          /\ [p EXCEPT !.on = TRUE] = [o EXCEPT !.cl = k, !.net = n]
          /\ False([p EXCEPT !.cl.state = "IDLE"]) = [o EXCEPT !.cl = j, !.net = n, !.on = FALSE]
      <4>1. p = [o EXCEPT !.cl = k, !.net = n]
        BY <2>1 DEF ClientOutcomes
      <4> HIDE DEF k, n, p
      <4> QED BY <2>1, <4>1 DEF ClientOutcomes, False
    <3>8. Staged(o, c, r.net, k)
      <4>1. GotOf(k) = GotOf(o.cl) + Len(r.got)
        BY <3>3, <3>5 DEF GotOf
      <4> HIDE DEF k
      <4> QED BY <3>2, <3>3, <3>5, <4>1 DEF More
    <3>9. ASSUME ~(Len(b) < BodyLen) PROVE Staged(o, c, r.net, j)
      <4>1. Len(b) >= BodyLen
        BY <3>3, <3>9, Lengths
      <4>2. GotOf(j) = GotOf(o.cl) + Len(r.got)
        BY <2>4, <3>2, <3>3, <3>6, <4>1 DEF GotOf
      <4> HIDE DEF j
      <4> QED BY <3>2, <3>3, <3>6, <4>2 DEF More
    <3> HIDE DEF k, j
    <3>10. ASSUME NEW i, Staged(o, c, r.net, i), NEW y,
                  y \in {[o EXCEPT !.cl = i, !.net = n], [o EXCEPT !.cl = i, !.net = n, !.on = FALSE]}
           PROVE  Says(y)
      <4> DEFINE m == n
      <4> HIDE DEF m
      <4>1. y \in {[o EXCEPT !.cl = i, !.net = m], [o EXCEPT !.cl = i, !.net = m, !.on = FALSE]}
        BY <3>10 DEF m
      <4>2. y.net = m /\ y.cl = i /\ y.sent = 0 /\ (y.on => y.cd = o.cd)
        BY <2>1, <4>1 DEF ClientOutcomes
      <4>3. y.net = [o.net EXCEPT ![c] = r.net]
        BY <4>2 DEF m
      <4> QED BY <3>10, <4>2, <4>3, StageSays
    <3> HIDE DEF n
    <3> DEFINE z1 == [o EXCEPT !.cl = k, !.net = n]
               z2 == [o EXCEPT !.cl = k, !.net = n, !.on = FALSE]
               z3 == [o EXCEPT !.cl = j, !.net = n, !.on = FALSE]
    <3>11. Says(z1) /\ Says(z2)
      BY <3>8, <3>10
    <3>12. ~(Len(b) < BodyLen) => Says(z3)
      BY <3>9, <3>10
    <3>13. z = z1 \/ z = z2 \/ (~(Len(b) < BodyLen) /\ z = z3)
      <4> HIDE DEF p
      <4> QED BY <3>4, <3>7
    <3> HIDE DEF z1, z2, z3
    <3> QED BY <3>11, <3>12, <3>13
  <2> QED BY <2>5, <2>6
<1> QED
  BY <1>1, <1>2

\* The stages of an event one after the other, as far as the data goes.
LEMMA ClientHandleEventSays ==
  ASSUME Fit(Begun(cl)), Lines(net, cl, Call), cl.state # "IDLE", Ready, Call \in Calls,
         NEW a \in BOOLEAN, NEW z \in ClientHandleEvent(a)
  PROVE  Says(z)
<1> DEFINE o == Begun(cl)
           Now(p) == a /\ p.cl.state = cl.state
           w == WriteRequest(o)
           h == UNION { ReadHeader(p, Now(p)) : p \in w }
<1>1. z \in UNION { ReadResponse(p, Now(p)) : p \in h }
  BY DEF ClientHandleEvent
<1>2. o.on /\ o.sent = 0 /\ \A p : Now(p) \in BOOLEAN
  BY DEF Begun
<1>3. Says(o)
  BY DEF Says, Begun, Follows
<1> HIDE DEF o, Now
<1>4. PICK p \in h : z \in ReadResponse(p, Now(p))
  BY <1>1
<1>5. PICK y \in w : p \in ReadHeader(y, Now(y))
  BY <1>4
<1>6. Fit(o)
  BY DEF o
<1>7. Fit(y) /\ Says(y) /\ y.sent = 0
  BY <1>2, <1>3, <1>5, <1>6, WriteRequestOutcome, WriteRequestSays
<1>8. Fit(p) /\ Says(p)
  <2>1. CASE ~y.on
    <3>1. p = y
      BY <1>5, <2>1 DEF ReadHeader
    <3> QED BY <1>7, <3>1
  <2>2. CASE y.on
    BY <1>2, <1>5, <1>7, <2>2, ReadHeaderFit, ReadHeaderSays
  <2> QED BY <2>1, <2>2
<1>9. CASE ~p.on \/ p.cl.state # "READ_RESPONSE"
  <2>1. z = p
    BY <1>4, <1>9 DEF ReadResponse
  <2> QED BY <1>8, <2>1
<1>10. CASE p.on /\ p.cl.state = "READ_RESPONSE"
  <2>1. p.sent = 0
    BY <1>8, <1>10 DEF Says, Fit, ClientOutcomes
  <2> QED BY <1>2, <1>4, <1>8, <1>10, <2>1, ReadResponseSays
<1> QED
  BY <1>9, <1>10

\* What execute() returns for the response it was given.
Returns(v) == v = "false" \/ (v = Call /\ executed[Call] > 0)

\* A turn of work() that sets the request up again if sent is 1.
Turns(sent) ==
  /\ cpc = "select" /\ sent \in 0..1 /\ UNCHANGED made
  /\ tries' = [tries EXCEPT ![Call] = @ + sent]
  /\ Follows(net, cl, Call, net', cl', Call, sent)
  /\ sent = 1 => cpc' = "select"
  /\ cpc' = "select" => cd'.endTime = "never"
  /\ cpc' # "idle" => result' = result
  /\ cpc' = "idle" => \E v : Returns(v) /\ result' = [result EXCEPT ![Call] = v]

\* A complete response is parsed as that of its call.
LEMMA ParsedIs ==
  ASSUME NEW q \in Seq({Call}), Len(q) >= BodyLen
  PROVE  Parsed(q) = Call
<1>1. Len(q) \in Nat /\ \A i \in 1..Len(q) : q[i] = Call
  BY EmptyUnits
<1>2. \A i \in 1..BodyLen : i \in 1..Len(q)
  BY <1>1, Lengths
<1>3. 1 \in 1..BodyLen
  BY Lengths
<1> QED
  BY <1>1, <1>2, <1>3 DEF Parsed

\* The response is given away.
LEMMA GivenLines ==
  ASSUME NEW n, NEW l \in Cl, Lines(n, l, Call), l.state = "IDLE"
  PROVE  Follows(n, l, Call, n, [l EXCEPT !.response = <<>>], Call, 0)
<1> DEFINE k == [l EXCEPT !.response = <<>>]
<1>1. k.fd = l.fd /\ k.state = "IDLE"
  BY DEF Cl
<1> HIDE DEF k
<1>2. SentOf(k) = SentOf(l) /\ GotOf(k) = GotOf(l)
  BY <1>1 DEF SentOf, GotOf
<1>3. Lines(n, k, Call)
  BY <1>1, <1>2 DEF Lines, ClientLine, PeerLine, Own
<1>4. \A v : Debt(n, k, Call, v) \subseteq Debt(n, l, Call, v)
  BY <1>1 DEF Debt
<1>5. Follows(n, l, Call, n, k, Call, 0)
  BY <1>3, <1>4 DEF Follows
<1> QED
  BY <1>5 DEF k

\* A turn of the client follows on, and returns the answer of its call or "false".
LEMMA TurnSays ==
  ASSUME ClientInv, NetTypeOK, Ready, Lines(net, cl, Call), cd.endTime = "never",
         NEW a \in BOOLEAN, Turn(a)
  PROVE  \E sent : Turns(sent)
<1> DEFINE Mask(o) == IF o.cl.state = "WRITE_REQUEST" THEN {"writable"} ELSE {"readable"}
           Off(o) == [o EXCEPT !.cd = RemoveSource(o.cd, Client)]
           After(o) == IF o.on THEN [o EXCEPT !.cd = SetMask(o.cd, Client, Mask(o))]
                       ELSE IF KeepOpen THEN Off(o) ELSE CloseClient(Off(o))
<1>1. PICK o \in ClientHandleEvent(a) :
       LET p    == After(o)
           over == p.cd.sources = <<>> \/ p.cd.endTime = "now"
           ends == over /\ o.fate = "select"
       IN  /\ net' = p.net
           /\ cl' = IF ends /\ p.cl.state = "IDLE" THEN [p.cl EXCEPT !.response = <<>>] ELSE p.cl
           /\ cd' = IF over THEN EndWork(p.cd) ELSE p.cd
           /\ cpc' = IF ends THEN "idle" ELSE o.fate
           /\ tries' = [tries EXCEPT ![Call] = @ + o.sent]
           /\ result' = IF ~ends THEN result ELSE
                        [result EXCEPT ![Call] = IF p.cl.state = "IDLE"
                                                   THEN Parsed(p.cl.response) ELSE "false"]
  BY DEF Turn
<1>2. cpc = "select" /\ UNCHANGED <<listening, made>>
  BY DEF Turn
<1>3. /\ made \in 1..Len(Wanted) /\ cl.state \in Busy /\ Watched(cd) = {Client}
  BY <1>2, ClientAssumption DEF ClientInv
<1>4. Call \in Calls
  BY <1>2, <1>3, WantedCalls, ClientAssumption DEF Call
<1>5. Fit(Begun(cl))
  <2> DEFINE b == Begun(cl)
  <2>1. /\ b \in ClientOutcomes /\ b.cl = cl /\ b.sent = 0 /\ b.cd = cd
        /\ b.fate = "select"
    BY DEF Begun, ClientOutcomes, ClientInv, Nets, NetTypeOK
  <2> HIDE DEF b
  <2>2. Fit(b)
    BY <1>3, <2>1 DEF Fit, Retried, ClientInv, Busy
  <2> QED BY <2>2 DEF b
<1>6. Fit(o) /\ Says(o)
  <2>1. cl.state # "IDLE"
    BY <1>3 DEF Busy
  <2> QED BY <1>4, <1>5, <2>1, ClientHandleEventFit, ClientHandleEventSays
<1>7. /\ o \in ClientOutcomes /\ o.cd \in Watchers /\ o.cl \in Cl
      /\ o.net \in [Conns -> Connection] /\ Lines(o.net, o.cl, Call)
      /\ o.fate \in {"select", "killed", "undefined"} /\ o.sent \in 0..1
      /\ Follows(net, cl, Call, o.net, o.cl, Call, o.sent)
  BY <1>6 DEF Fit, Says, Follows, ClientOutcomes, Nets
<1> DEFINE p == After(o)
           over == p.cd.sources = <<>> \/ p.cd.endTime = "now"
           ends == over /\ o.fate = "select"
<1>8. /\ net' = p.net
      /\ cl' = IF ends /\ p.cl.state = "IDLE" THEN [p.cl EXCEPT !.response = <<>>] ELSE p.cl
      /\ cd' = IF over THEN EndWork(p.cd) ELSE p.cd
      /\ cpc' = IF ends THEN "idle" ELSE o.fate
      /\ tries' = [tries EXCEPT ![Call] = @ + o.sent]
      /\ result' = IF ~ends THEN result ELSE
                   [result EXCEPT ![Call] = IF p.cl.state = "IDLE"
                                              THEN Parsed(p.cl.response) ELSE "false"]
  BY <1>1
<1>9. CASE o.on
  <2> DEFINE d == SetMask(o.cd, Client, Mask(o))
  <2>1. Distinct(o.cd, {Client}) /\ Client \in Watched(o.cd) /\ Mask(o) \in SUBSET Events
    BY <1>6, <1>7, <1>9 DEF Fit, Watchers, Events
  <2> HIDE DEF Mask
  <2>2. Watched(d) = Watched(o.cd) /\ d.endTime = o.cd.endTime
    BY <2>1, SetMaskDistinct
  <2>3. p = [o EXCEPT !.cd = d]
    BY <1>9
  <2> HIDE DEF d, p
  <2>4. p.cl = o.cl /\ p.net = o.net /\ p.cd = d
    BY <1>7, <2>3 DEF ClientOutcomes
  <2>5. d.endTime = "never" /\ d.sources # <<>>
    <3>1. Watched(d) # {}
      BY <2>1, <2>2
    <3>2. d.sources # <<>>
      BY <3>1, EmptySeq DEF Watched
    <3>3. o.cd.endTime = "never"
      BY <1>6, <1>9 DEF Says
    <3> QED BY <2>2, <3>2, <3>3
  <2>6. ~over /\ o.fate = "select"
    BY <1>6, <1>9, <2>4, <2>5 DEF Fit
  <2>7. net' = o.net /\ cl' = o.cl /\ cd' = d /\ cpc' = "select" /\ result' = result
    BY <1>8, <2>4, <2>6
  <2>8. Turns(o.sent)
    BY <1>2, <1>7, <1>8, <2>5, <2>7 DEF Turns
  <2> QED BY <2>8
<1>10. CASE ~o.on
  <2> DEFINE q == Off(o)
  <2>1. RemoveSource(o.cd, Client) \in Watchers /\ RemoveSource(o.cd, Client).sources = <<>>
    BY <1>7, Unwatched
  <2>2. q \in ClientOutcomes /\ q.cl = o.cl /\ q.net = o.net /\ q.cd.sources = <<>>
    BY <1>7, <2>1 DEF ClientOutcomes
  <2>3. p = IF KeepOpen THEN q ELSE CloseClient(q)
    BY <1>10
  <2> HIDE DEF q, p
  <2>4. /\ p.cd.sources = <<>> /\ p.cl \in Cl
        /\ Follows(o.net, o.cl, Call, p.net, p.cl, Call, 0)
        /\ p.cl.state = "IDLE" => p.cl = o.cl
    <3>1. CASE KeepOpen
      <4>1. Follows(o.net, o.cl, Call, o.net, o.cl, Call, 0)
        BY <1>7 DEF Follows
      <4> QED BY <1>7, <2>2, <2>3, <3>1, <4>1
    <3>2. CASE ~KeepOpen
      <4>1. /\ p \in ClientOutcomes /\ p.cl.fd = NoFd /\ p.cl.state = "NO_CONNECTION"
            /\ p.net = Hung(o.net, o.cl)
        <5>1. p.net = Hung(q.net, q.cl)
          BY <2>2, <2>3, <3>2, ClosedIs
        <5> QED BY <2>2, <2>3, <3>2, <5>1, CloseClientOutcome
      <4>2. p.cd.sources = <<>>
        <5> DEFINE e == ExitWork(q.cd)
        <5>1. e \in Watchers
          <6>1. e \in Dispatchers({Client}) /\ e.sources = q.cd.sources
            BY <2>2 DEF ClientOutcomes, Watchers, ExitWork, Dispatchers, EndTimes
          <6> HIDE DEF e
          <6> QED BY <2>2, <6>1 DEF ClientOutcomes, Watchers, Distinct
        <5>2. RemoveSource(e, Client).sources = <<>>
          BY <5>1, Unwatched
        <5>3. CloseClient(q).cd = RemoveSource(e, Client)
          BY <2>2 DEF CloseClient, CloseFd, ClientOutcomes
        <5> QED BY <2>3, <3>2, <5>2, <5>3
      <4>3. Follows(o.net, o.cl, Call, p.net, p.cl, Call, 0)
        BY <1>7, <4>1, HungLines DEF Ready
      <4> QED BY <4>1, <4>2, <4>3 DEF ClientOutcomes
    <3> QED BY <3>1, <3>2
  <2>5. over
    BY <2>4
  <2>6. o.sent = 0
    BY <1>6, <1>7, <1>10 DEF Says
  <2>7. Follows(net, cl, Call, p.net, p.cl, Call, 0)
    BY <1>7, <2>4, <2>6, FollowsOn
  <2>8. Follows(net, cl, Call, net', cl', Call, 0)
    <3>1. CASE cl' = p.cl
      BY <1>8, <2>7, <3>1
    <3>2. CASE p.cl.state = "IDLE" /\ cl' = [p.cl EXCEPT !.response = <<>>]
      <4>1. Lines(p.net, p.cl, Call)
        BY <2>7 DEF Follows
      <4>2. Follows(p.net, p.cl, Call, p.net, cl', Call, 0)
        BY <2>4, <3>2, <4>1, GivenLines
      <4> QED BY <1>8, <2>7, <4>2, FollowsOn
    <3> HIDE DEF ends
    <3> QED BY <1>8, <3>1, <3>2
  <2>9. p.cl.state = "IDLE" => Returns(Parsed(p.cl.response))
    <3> SUFFICES ASSUME p.cl.state = "IDLE" PROVE Returns(Parsed(p.cl.response))
      OBVIOUS
    <3>1. o.cl.state = "IDLE" /\ p.cl = o.cl
      BY <2>4
    <3>2. o.cl.response \in Seq({Call}) /\ Len(o.cl.response) >= BodyLen
      BY <1>6, <3>1 DEF Fit, Says
    <3>3. Parsed(o.cl.response) = Call
      BY <3>2, ParsedIs
    <3>4. o.cl.fd # NoFd
      BY <1>6, <3>1 DEF Fit, Tied
    <3>5. Own(o.net[o.cl.fd], sc[o.cl.fd], o.cl, Call) /\ GotOf(o.cl) > 0
      <4>1. GotOf(o.cl) > 0
        BY <3>1, MessageLenIs, Lengths DEF GotOf
      <4> QED BY <1>7, <3>4, <4>1 DEF Lines, ClientLine
    <3>6. executed[Call] > 0
      BY <3>5 DEF Own, Shown
    <3> QED BY <3>1, <3>3, <3>6 DEF Returns
  <2>10. CASE o.fate = "select"
    <3> DEFINE v == IF p.cl.state = "IDLE" THEN Parsed(p.cl.response) ELSE "false"
    <3>1. cpc' = "idle" /\ result' = [result EXCEPT ![Call] = v]
      BY <1>8, <2>5, <2>10
    <3>2. Returns(v)
      BY <2>9 DEF Returns
    <3> HIDE DEF v
    <3>3. \E w : Returns(w) /\ result' = [result EXCEPT ![Call] = w]
      BY <3>1, <3>2
    <3>4. tries' = [tries EXCEPT ![Call] = @ + 0] /\ UNCHANGED made
      BY <1>2, <1>8, <2>6
    <3>5. 0 \in 0..1 /\ 0 # 1 /\ cpc' = "idle" /\ cpc' # "select"
      BY <3>1
    <3>6. Turns(0)
      BY <1>2, <2>8, <3>3, <3>4, <3>5, Zenon DEF Turns
    <3> QED BY <3>6
  <2>11. CASE o.fate # "select"
    <3>1. cpc' = o.fate /\ result' = result /\ cpc' \in {"killed", "undefined"}
      BY <1>7, <1>8, <2>11
    <3>2. Turns(0)
      BY <1>2, <1>8, <2>6, <2>8, <3>1 DEF Turns
    <3> QED BY <3>2
  <2> QED BY <2>10, <2>11
<1> QED
  BY <1>9, <1>10

(***************************************************************************)
(* The client's steps.                                                     *)
(***************************************************************************)
\* A step of the client, which makes call x.
Stepped(x, sent) ==
  /\ UNCHANGED <<serverVars, peer>> /\ net' \in Nets
  /\ x = Wanted[made'] /\ x \in Calls /\ sent \in 0..1
  /\ Follows(net, cl, Call, net', cl', x, sent)
  /\ \A y \in Mine : tries'[y] = tries[y] + (IF y = x THEN sent ELSE 0)

\* The client makes calls.
LEMMA MineAreCalls ==
  /\ Mine \subseteq Calls
  /\ \A i \in DOMAIN Wanted : Wanted[i] \in Mine /\ Wanted[i] \in Calls
BY ClientAssumption DEF Mine

\* A caller's step leaves the server's objects alone.
LEMMA SameObjects ==
  ASSUME NewObjects, net' \in Nets, sc' = sc
  PROVE  NewObjects'
<1>1. OpenEnds(net') = OpenEnds(net)
  BY DEF Nets
<1>2. ASSUME NEW c \in Conns, net'[c].end["server"] # "open" PROVE sc'[c] = NewServerConnection
  <2>1. net[c].end["server"] # "open"
    BY <1>1, <1>2 DEF OpenEnds
  <2> QED BY <2>1 DEF NewObjects
<1> QED
  BY <1>2 DEF NewObjects

\* The lines stay lines after a step of the client.
LEMMA SteppedLines ==
  ASSUME NEW x, NEW sent, Stepped(x, sent)
  PROVE  Lines(net, cl, Call)'
<1>1. /\ sc' = sc /\ executed' = executed /\ peer' = peer /\ Call' = x
  BY DEF Stepped, serverVars, Call
<1>2. Lines(net', cl', x)
  BY DEF Stepped, Follows
<1>3. (\A c \in Conns : \E y, u, g : Line(net[c], sc[c], y, u, g))'
  BY <1>1, <1>2 DEF Lines
<1>4. ClientLine(net, cl, Call)'
  BY <1>1, <1>2 DEF Lines, ClientLine, Own
<1>5. PeerLine(net, cl)'
  BY <1>1, <1>2 DEF Lines, PeerLine
<1> QED
  BY <1>3, <1>4, <1>5 DEF Lines

\* Each request set up pays for the connection that comes to owe it.
LEMMA SteppedAccounts ==
  ASSUME NEW x, NEW sent, Stepped(x, sent), Accounts,
         executed \in [Calls -> Nat], tries \in [Calls -> 0..2]
  PROVE  Accounts'
<1>1. /\ sc' = sc /\ executed' = executed /\ Call' = x
  BY DEF Stepped, serverVars, Call
<1> SUFFICES ASSUME NEW y \in Mine
             PROVE  executed[y] + Cardinality(Debt(net, cl, Call, y)') <= tries'[y]
  BY <1>1 DEF Accounts
<1> DEFINE D == Debt(net, cl, Call, y)
           E == Debt(net', cl', x, y)
           n == tries[y]
           m == tries'[y]
           ran == executed[y]
<1>2. Debt(net, cl, Call, y)' = E
  BY <1>1 DEF Debt
<1>3. /\ D \in SUBSET Conns /\ E \in SUBSET Conns /\ ran + Cardinality(D) <= n
      /\ Cardinality(D) \in Nat /\ Cardinality(E) \in Nat /\ ran \in Nat /\ n \in Nat
      /\ sent \in 0..1
  <2>1. D \in SUBSET Conns /\ E \in SUBSET Conns
    BY DEF Debt
  <2>2. ran \in Nat /\ n \in Nat
    BY MineAreCalls
  <2> QED BY <2>1, <2>2, ConnsFinite DEF Accounts, Stepped
<1>4. /\ m = n + (IF y = x THEN sent ELSE 0)
      /\ E \subseteq D \/ (sent = 1 /\ y = x /\ \E c \in Conns : E \subseteq D \cup {c})
  BY DEF Stepped, Follows
<1> HIDE DEF D, E, n, m, ran
<1>5. CASE E \subseteq D
  <2>1. Cardinality(E) <= Cardinality(D)
    BY <1>3, <1>5, MoreOrLess
  <2>2. m >= n /\ m \in Nat
    BY <1>3, <1>4
  <2> QED BY <1>1, <1>2, <1>3, <2>1, <2>2 DEF m, ran
<1>6. CASE sent = 1 /\ y = x /\ \E c \in Conns : E \subseteq D \cup {c}
  <2>1. Cardinality(E) <= Cardinality(D) + 1
    BY <1>3, <1>6, MoreOrLess
  <2>2. m = n + 1
    BY <1>4, <1>6
  <2> QED BY <1>1, <1>2, <1>3, <2>1, <2>2 DEF m, ran
<1> QED
  BY <1>4, <1>5, <1>6

\* A turn ends no call but the present one.
LEMMA TurnOrder ==
  ASSUME ClientInv, Order, Answers, cpc = "select", NEW sent, Turns(sent)
  PROVE  Order' /\ Answers'
<1>1. /\ made' = made /\ made \in DOMAIN Wanted /\ Call = Wanted[made] /\ Call \in Calls
      /\ tries \in [Calls -> 0..2] /\ result \in [Calls -> {"none", "false"} \cup Calls]
      /\ sent \in 0..1
  BY ClientAssumption DEF Turns, ClientInv, Call
<1>2. /\ tries' = [tries EXCEPT ![Call] = @ + sent]
      /\ \A i \in DOMAIN Wanted : i # made => Wanted[i] # Call
      /\ \A i \in DOMAIN Wanted : Wanted[i] \in Calls
      /\ result[Call] = "none" /\ tries[Call] > 0
  BY <1>1, ClientAssumption, MineAreCalls DEF Turns, Order
<1>3. tries'[Call] > 0
  <2>1. tries[Call] \in 0..2
    BY <1>1
  <2> QED BY <1>1, <1>2, <2>1
<1>4. /\ \A i \in DOMAIN Wanted : i # made => tries'[Wanted[i]] = tries[Wanted[i]]
      /\ made \in Nat /\ DOMAIN Wanted \subseteq Nat
  BY <1>1, <1>2, ClientAssumption DEF ClientInv
<1>5. CASE cpc' = "idle"
  <2>1. PICK v : Returns(v) /\ result' = [result EXCEPT ![Call] = v]
    BY <1>5 DEF Turns
  <2>2. v # "none" /\ (v \in Calls => v = Call)
    BY <1>1, <2>1, ClientAssumption DEF Returns
  <2>3. \A i \in DOMAIN Wanted : result'[Wanted[i]] = IF i = made THEN v ELSE result[Wanted[i]]
    BY <1>1, <1>2, <2>1
  <2>4. Order'
    BY <1>1, <1>2, <1>4, <1>5, <2>2, <2>3 DEF Order
  <2>5. Answers'
    BY <1>1, <2>1, <2>2 DEF Answers
  <2> QED BY <2>4, <2>5
<1>6. CASE cpc' # "idle"
  <2>1. result' = result
    BY <1>6 DEF Turns
  <2>2. Order'
    BY <1>1, <1>2, <1>3, <1>4, <1>6, <2>1 DEF Order
  <2> QED BY <2>1, <2>2 DEF Answers
<1> QED
  BY <1>5, <1>6

\* A turn keeps the invariant.
LEMMA TurnCalls ==
  ASSUME CallInv, XmlRpcInv', NEW a \in BOOLEAN, Turn(a), UNCHANGED <<serverVars, peer>>
  PROVE  CallInv' /\ \E sent : Turns(sent)
<1>1. /\ ClientInv /\ NetTypeOK /\ Ready /\ Lines(net, cl, Call) /\ cd.endTime = "never"
      /\ cpc = "select" /\ executed \in [Calls -> Nat] /\ tries \in [Calls -> 0..2]
      /\ Accounts /\ NewObjects /\ sc' = sc /\ Order /\ Answers
  BY DEF CallInv, XmlRpcInv, ServerInv, ClientInv, PeerInv, Ready, Turn, serverVars
<1>2. PICK sent : Turns(sent)
  BY <1>1, TurnSays
<1>3. net' \in Nets
  BY <1>1, TurnInv
<1>4. Stepped(Call, sent)
  <2>1. Call \in Calls /\ Call = Wanted[made'] /\ sent \in 0..1
    BY <1>1, <1>2, ClientAssumption DEF ClientInv, Call, Turns
  <2>2. \A y \in Mine : tries'[y] = tries[y] + (IF y = Call THEN sent ELSE 0)
    <3>1. \A y \in Calls : tries[y] \in 0..2
      BY <1>1
    <3>2. tries' = [tries EXCEPT ![Call] = @ + sent]
      BY <1>2 DEF Turns
    <3> QED BY <1>1, <2>1, <3>1, <3>2, MineAreCalls
  <2> QED BY <1>2, <1>3, <2>1, <2>2 DEF Stepped, Turns
<1>5. Lines(net, cl, Call)' /\ Accounts' /\ NewObjects' /\ Order' /\ Answers'
  BY <1>1, <1>2, <1>3, <1>4, SteppedLines, SteppedAccounts, SameObjects, TurnOrder
<1>6. cpc' = "select" => cd'.endTime = "never"
  BY <1>2 DEF Turns
<1> QED
  BY <1>2, <1>5, <1>6 DEF CallInv

\* A call is begun, or fails at once if sent is 0.
Starts(sent) ==
  /\ sent \in 0..1 /\ cpc = "idle" /\ made' = made + 1 /\ made' \in DOMAIN Wanted
  /\ tries' = [tries EXCEPT ![Wanted[made']] = sent]
  /\ Follows(net, cl, Call, net', cl', Wanted[made'], sent)
  /\ sent = 1 => cpc' = "select" /\ cd'.endTime = "never" /\ result' = result
  /\ sent = 0 => cpc' = "idle" /\ result' = [result EXCEPT ![Wanted[made']] = "false"]

\* execute() begins the next call, and may fail at once.
LEMMA ExecuteSays ==
  ASSUME ClientInv, NetTypeOK, Ready, Lines(net, cl, Call), Execute
  PROVE  \E sent : Starts(sent)
<1> DEFINE k == [cl EXCEPT !.attempts = 0]
           b == Begun(k)
           x == Wanted[made']
<1>1. PICK o \in SetupConnection(b) :
       /\ tries' = [tries EXCEPT ![x] = o.sent]
       /\ cl' = o.cl
       /\ net' = o.net
       /\ IF o.on THEN /\ cpc' = "select"
                       /\ cd' = BeginWork(o.cd, "never")
                       /\ UNCHANGED result
                  ELSE /\ cd' = o.cd
                       /\ result' = [result EXCEPT ![x] = "false"]
                       /\ UNCHANGED cpc
  BY DEF Execute
<1>2. /\ k \in Cl /\ Tied(k) /\ k.fd = cl.fd /\ k.state = cl.state /\ k.header = cl.header
      /\ k.response = cl.response /\ k.written = cl.written
  <2>1. 0 \in 0..2
    OBVIOUS
  <2> QED BY <2>1 DEF ClientInv, Cl, Tied
<1> HIDE DEF k
<1>3. b \in ClientOutcomes /\ b.on /\ b.cl = k /\ b.sent = 0 /\ b.net = net
  BY <1>2 DEF Begun, ClientOutcomes, ClientInv, Nets, NetTypeOK
<1> HIDE DEF b
<1>4. /\ o \in ClientOutcomes
      /\ o.on => o.sent = 1
      /\ ~o.on => o.sent = 0
  BY <1>2, <1>3, SetupOutcome
<1>5. /\ made' = made + 1 /\ made' \in DOMAIN Wanted /\ cpc = "idle" /\ x \in Calls
  BY ClientAssumption DEF Execute, ClientInv
<1>6. Lines(net, k, Call) /\ \A v : Debt(net, k, Call, v) = Debt(net, cl, Call, v)
  <2>1. SentOf(k) = SentOf(cl) /\ GotOf(k) = GotOf(cl)
    BY <1>2 DEF SentOf, GotOf
  <2>2. ClientLine(net, k, Call)
    BY <1>2, <2>1 DEF Lines, ClientLine, Own
  <2>3. Lines(net, k, Call)
    BY <1>2, <2>2 DEF Lines, PeerLine
  <2>4. \A v : Debt(net, k, Call, v) = Debt(net, cl, Call, v)
    BY <1>2 DEF Debt
  <2> QED BY <2>3, <2>4
<1> HIDE DEF x
<1>7. Follows(net, cl, Call, o.net, o.cl, x, o.sent)
  <2>1. Follows(net, k, Call, o.net, o.cl, x, o.sent)
    BY <1>2, <1>3, <1>5, <1>6, SetupFollows
  <2>2. Follows(net, cl, Call, net, k, Call, 0)
    BY <1>6 DEF Follows
  <2> QED BY <2>1, <2>2, FollowsOn
<1>8. BeginWork(o.cd, "never").endTime = "never"
  BY <1>4 DEF BeginWork, ClientOutcomes, Watchers, Dispatchers
<1>9. CASE o.on
  <2>1. o.sent = 1 /\ 1 \in 0..1 /\ 1 # 0
    BY <1>4, <1>9
  <2>2. cpc' = "select" /\ cd'.endTime = "never" /\ result' = result
    BY <1>1, <1>8, <1>9
  <2>3. Starts(1)
    BY <1>1, <1>5, <1>7, <2>1, <2>2, Zenon DEF Starts, x
  <2> QED BY <2>3
<1>10. CASE ~o.on
  <2>1. o.sent = 0 /\ 0 \in 0..1 /\ 1 # 0
    BY <1>4, <1>10
  <2>2. cpc' = "idle" /\ result' = [result EXCEPT ![x] = "false"]
    BY <1>1, <1>5, <1>10
  <2>3. Starts(0)
    BY <1>1, <1>5, <1>7, <2>1, <2>2, Zenon DEF Starts, x
  <2> QED BY <2>3
<1> QED
  BY <1>9, <1>10

\* The call begun is the next one.
LEMMA StartOrder ==
  ASSUME ClientInv, Order, Answers, NEW sent, Starts(sent)
  PROVE  Order' /\ Answers'
<1> DEFINE x == Wanted[made']
<1>1. /\ made' = made + 1 /\ made' \in DOMAIN Wanted /\ cpc = "idle" /\ x \in Calls
      /\ tries \in [Calls -> 0..2] /\ result \in [Calls -> {"none", "false"} \cup Calls]
      /\ sent \in 0..1 /\ made \in Nat /\ DOMAIN Wanted \subseteq Nat
      /\ tries' = [tries EXCEPT ![x] = sent]
  BY ClientAssumption DEF Starts, ClientInv
<1>2. /\ \A i \in DOMAIN Wanted : Wanted[i] \in Calls
      /\ \A i \in DOMAIN Wanted : i # made' => Wanted[i] # x
  BY <1>1, ClientAssumption, MineAreCalls
<1>3. result[x] = "none"
  BY <1>1 DEF Order
<1>4. \A i \in DOMAIN Wanted : tries'[Wanted[i]] = IF i = made' THEN sent ELSE tries[Wanted[i]]
  <2> HIDE DEF x
  <2> QED BY <1>1, <1>2 DEF x
<1>5. CASE sent = 1
  <2>1. cpc' = "select" /\ result' = result
    BY <1>5 DEF Starts
  <2>2. Order'
    BY <1>1, <1>3, <1>4, <1>5, <2>1 DEF Order
  <2> QED BY <2>1, <2>2 DEF Answers
<1>6. CASE sent = 0
  <2>1. cpc' = "idle" /\ result' = [result EXCEPT ![x] = "false"]
    BY <1>6 DEF Starts
  <2>2. \A i \in DOMAIN Wanted : result'[Wanted[i]] = IF i = made' THEN "false" ELSE result[Wanted[i]]
    <3> HIDE DEF x
    <3> QED BY <1>1, <1>2, <2>1 DEF x
  <2>3. Order'
    BY <1>1, <1>4, <1>6, <2>1, <2>2 DEF Order
  <2>4. Answers'
    BY <1>1, <2>1, ClientAssumption DEF Answers
  <2> QED BY <2>3, <2>4
<1> QED
  BY <1>1, <1>5, <1>6

\* execute() keeps the invariant.
LEMMA ExecuteCalls ==
  ASSUME CallInv, XmlRpcInv', Execute, UNCHANGED <<serverVars, peer>>
  PROVE  CallInv' /\ \E sent : Starts(sent)
<1>1. /\ ClientInv /\ NetTypeOK /\ Ready /\ Lines(net, cl, Call)
      /\ executed \in [Calls -> Nat] /\ tries \in [Calls -> 0..2]
      /\ Accounts /\ NewObjects /\ sc' = sc /\ Order /\ Answers
  BY DEF CallInv, XmlRpcInv, ServerInv, ClientInv, PeerInv, Ready, serverVars
<1>2. PICK sent : Starts(sent)
  BY <1>1, ExecuteSays
<1> DEFINE x == Wanted[made']
<1>3. net' \in Nets
  BY <1>1, ExecuteInv
<1>4. Stepped(x, sent)
  <2>1. /\ x \in Calls /\ sent \in 0..1 /\ tries' = [tries EXCEPT ![x] = sent]
        /\ Follows(net, cl, Call, net', cl', x, sent)
    BY <1>2, MineAreCalls DEF Starts
  <2>2. tries[x] = 0
    BY <1>1, <1>2, ClientAssumption DEF Starts, Order, ClientInv
  <2>3. x = Wanted[made']
    OBVIOUS
  <2> HIDE DEF x
  <2>4. \A y \in Mine : tries'[y] = tries[y] + (IF y = x THEN sent ELSE 0)
    <3>1. \A y \in Calls : tries[y] \in 0..2
      BY <1>1
    <3> QED BY <1>1, <2>1, <2>2, <3>1, MineAreCalls
  <2> QED BY <1>3, <2>1, <2>3, <2>4 DEF Stepped
<1> HIDE DEF x
<1>5. Lines(net, cl, Call)' /\ Accounts' /\ NewObjects' /\ Order' /\ Answers'
  BY <1>1, <1>2, <1>3, <1>4, SteppedLines, SteppedAccounts, SameObjects, StartOrder
<1>6. cpc' = "select" => cd'.endTime = "never"
  BY <1>2 DEF Starts
<1> QED
  BY <1>2, <1>5, <1>6 DEF CallInv

(***************************************************************************)
(* The other peer's steps.                                                 *)
(***************************************************************************)
\* Its connection, c, becomes k.
PeerMoves(c, k) ==
  /\ c \in Conns /\ c # cl.fd
  /\ net' = [net EXCEPT ![c] = k]
  /\ UNCHANGED <<serverVars, clientVars>>
  /\ \E z, u, g : Line(k, sc[c], z, u, g)
  /\ peer'.fd \in {c, NoFd}
  /\ peer'.fd = c =>
       /\ k.end["client"] = "open"
       /\ \E g \in Units : Line(k, sc[c], peer'.call, peer'.sent, g)
  /\ \A y \in Mine : Owes(k, sc[c], y) => Owes(net[c], sc[c], y)

\* The lines stay lines after a step of the other peer.
LEMMA PeerMovesLines ==
  ASSUME NetTypeOK, cl \in Cl, Lines(net, cl, Call), NEW c, NEW k, PeerMoves(c, k)
  PROVE  Lines(net, cl, Call)'
<1>0. /\ sc' = sc /\ executed' = executed /\ cl' = cl /\ Call' = Call
      /\ c \in Conns /\ c # cl.fd
      /\ net' = [net EXCEPT ![c] = k]
      /\ \E z, u, g : Line(k, sc[c], z, u, g)
      /\ peer'.fd \in {c, NoFd}
      /\ peer'.fd = c =>
           /\ k.end["client"] = "open"
           /\ \E g \in Units : Line(k, sc[c], peer'.call, peer'.sent, g)
  BY DEF PeerMoves, serverVars, clientVars, Call
<1>1. net'[c] = k /\ \A b \in Conns \ {c} : net'[b] = net[b]
  BY <1>0 DEF NetTypeOK
<1>2. (\A b \in Conns : \E z, u, g : Line(net[b], sc[b], z, u, g))'
  <2>1. \A b \in Conns : \E z, u, g : Line(net[b], sc[b], z, u, g)
    BY DEF Lines
  <2>2. \A b \in Conns : \E z, u, g : Line(net'[b], sc[b], z, u, g)
    BY <1>0, <1>1, <2>1
  <2> QED BY <1>0, <2>2
<1>3. ClientLine(net, cl, Call)'
  BY <1>0, <1>1 DEF Lines, ClientLine, Own, Cl
<1>4. PeerLine(net, cl)'
  <2>1. ASSUME peer'.fd # NoFd
        PROVE  /\ peer'.fd # cl.fd /\ net'[peer'.fd].end["client"] = "open"
               /\ \E g \in Units : Line(net'[peer'.fd], sc[peer'.fd], peer'.call, peer'.sent, g)
    <3>1. peer'.fd = c
      BY <1>0, <2>1
    <3> QED BY <1>0, <1>1, <3>1
  <2> QED BY <1>0, <2>1 DEF PeerLine
<1> QED
  BY <1>2, <1>3, <1>4 DEF Lines

\* The other peer asks for none of the client's calls.
LEMMA PeerMovesAccounts ==
  ASSUME NetTypeOK, Accounts, NEW c, NEW k, PeerMoves(c, k),
         executed \in [Calls -> Nat], tries \in [Calls -> 0..2]
  PROVE  Accounts'
<1>0. /\ sc' = sc /\ executed' = executed /\ cl' = cl /\ Call' = Call /\ tries' = tries
      /\ c \in Conns
      /\ net' = [net EXCEPT ![c] = k]
      /\ \A y \in Mine : Owes(k, sc[c], y) => Owes(net[c], sc[c], y)
  BY DEF PeerMoves, serverVars, clientVars, Call
<1>1. net'[c] = k /\ \A b \in Conns \ {c} : net'[b] = net[b]
  BY <1>0 DEF NetTypeOK
<1> SUFFICES ASSUME NEW y \in Mine
             PROVE  executed[y] + Cardinality(Debt(net, cl, Call, y)') <= tries[y]
  BY <1>0 DEF Accounts
<1> DEFINE D == Debt(net, cl, Call, y)
           E == {b \in Conns : \/ Owes(net'[b], sc[b], y)
                               \/ b = cl.fd /\ cl.state = "WRITE_REQUEST" /\ y = Call}
<1>2. Debt(net, cl, Call, y)' = E
  BY <1>0 DEF Debt
<1>3. E \subseteq D
  BY <1>0, <1>1 DEF Debt
<1>4. /\ D \in SUBSET Conns /\ E \in SUBSET Conns /\ executed[y] \in Nat /\ tries[y] \in Nat
      /\ executed[y] + Cardinality(D) <= tries[y]
  BY MineAreCalls DEF Debt, Accounts
<1> HIDE DEF D, E
<1>5. Cardinality(E) <= Cardinality(D) /\ Cardinality(E) \in Nat /\ Cardinality(D) \in Nat
  BY <1>3, <1>4, MoreOrLess, ConnsFinite
<1> QED
  BY <1>2, <1>4, <1>5

\* All of what the other peer does.
LEMMA PeerStepMoves ==
  ASSUME XmlRpcInv, NewObjects, Lines(net, cl, Call), PeerStep
  PROVE  \E c, k : PeerMoves(c, k)
<1>0. /\ net \in [Conns -> Connection] /\ sc \in [Conns -> Objects] /\ cl \in Cl
      /\ peer \in [fd : Conns \cup {NoFd}, call : Theirs, sent : Units]
      /\ Theirs \subseteq Calls /\ UNCHANGED <<serverVars, clientVars>>
      /\ peer.call \in Calls /\ peer.call \notin Mine
  BY XmlRpcAssumption
  DEF XmlRpcInv, ServerInv, ClientInv, PeerInv, NetTypeOK, PeerStep, Mine
<1>1. CASE PeerConnects
  <2>1. PICK c \in Fresh(net) : /\ peer' = [peer EXCEPT !.fd = c]
                               /\ net' = [net EXCEPT ![c] = Connected]
    BY <1>1 DEF PeerConnects
  <2>2. /\ c \in Conns /\ net[c].end["client"] = "none" /\ net[c].end["server"] = "none"
        /\ peer.sent = 0 /\ peer.fd = NoFd
    BY <1>1 DEF Fresh, NoConnection, Ends, PeerConnects
  <2>3. c # cl.fd
    BY <2>2, NoFdApart DEF Lines, ClientLine, Own
  <2>4. sc[c] = NewServerConnection
    BY <2>2 DEF NewObjects
  <2>5. /\ Connected.end["client"] = "open"
        /\ Connected.data["client"] = <<>> /\ Connected.data["server"] = <<>>
    BY DEF Connected, NoConnection, Ends
  <2>6. Line(Connected, sc[c], peer.call, 0, 0) /\ \A y : ~Owes(Connected, sc[c], y)
    <3>1. /\ sc[c].state = "READ_HEADER" /\ sc[c].header = <<>> /\ sc[c].response = <<>>
      BY <2>4 DEF NewServerConnection
    <3> QED BY <1>0, <2>5, <3>1, LineBegins
  <2>7. peer'.fd = c /\ peer'.call = peer.call /\ peer'.sent = 0
    BY <1>0, <2>1, <2>2
  <2>8. 0 \in Units
    BY Lengths DEF Units
  <2>9. PeerMoves(c, Connected)
    BY <1>0, <2>1, <2>2, <2>3, <2>5, <2>6, <2>7, <2>8 DEF PeerMoves
  <2> QED BY <2>9
<1>2. ASSUME peer.fd # NoFd
      PROVE  /\ peer.fd \in Conns /\ peer.fd # cl.fd /\ net[peer.fd] \in Connection
             /\ net[peer.fd].end["client"] = "open"
             /\ \E g \in Units : Line(net[peer.fd], sc[peer.fd], peer.call, peer.sent, g)
  BY <1>0, <1>2 DEF Lines, PeerLine
<1>3. CASE PeerSends
  <2> DEFINE c == peer.fd
             w == NbWrite(net[c], "client", Message(peer.call), peer.sent)
  <2>1. /\ c # NoFd /\ peer.sent < MessageLen
        /\ net' = [net EXCEPT ![c] = w.net] /\ peer' = [peer EXCEPT !.sent = w.written]
    BY <1>3 DEF PeerSends, MessageLen
  <2>2. PICK g \in Units : Line(net[c], sc[c], peer.call, peer.sent, g)
    BY <1>2, <2>1
  <2>3. /\ Line(w.net, sc[c], peer.call, w.written, g) /\ w.net.end = net[c].end
    BY <1>2, <2>1, <2>2, LineWritten
  <2> HIDE DEF w
  <2>4. peer'.fd = c /\ peer'.call = peer.call /\ peer'.sent = w.written
    BY <1>0, <2>1
  <2>5. \A y \in Mine : ~Owes(w.net, sc[c], y)
    <3>1. \A y : Owes(w.net, sc[c], y) => y = peer.call
      BY <1>0, <1>2, <2>1, <2>3, OwesIs
    <3> QED BY <1>0, <3>1
  <2>6. PeerMoves(c, w.net)
    BY <1>0, <1>2, <2>1, <2>3, <2>4, <2>5 DEF PeerMoves
  <2> QED BY <2>6
<1>4. CASE PeerReads
  <2> DEFINE c == peer.fd
             k == [net[c] EXCEPT !.data["client"] = <<>>]
             q == net[c].data["client"]
             r == [got |-> q, net |-> k, status |-> "ok"]
  <2>1. /\ c # NoFd /\ net' = [net EXCEPT ![c].data["client"] = <<>>] /\ UNCHANGED peer
    BY <1>4 DEF PeerReads
  <2>2. PICK g \in Units : Line(net[c], sc[c], peer.call, peer.sent, g)
    BY <1>2, <2>1
  <2>3. /\ c \in Conns /\ net[c] \in Connection /\ c # cl.fd /\ net[c].end["client"] = "open"
    BY <1>2, <2>1
  <2>4. net' = [net EXCEPT ![c] = k]
    BY <1>0, <2>1, <2>3
  <2>5. /\ k.end = net[c].end /\ k.data["client"] = <<>> /\ k.data["server"] = net[c].data["server"]
    BY <2>3, ConnectionJoins DEF Joins, Ends
  <2> HIDE DEF k
  <2>6. Read(net[c], "client", peer.call, r)
    <3>1. q \in Seq({peer.call}) /\ Len(q) \in Nat
      <4>1. q \in Seq({peer.call})
        BY <2>2 DEF Line, Unread
      <4> QED BY <4>1, EmptyUnits
    <3> HIDE DEF q
    <3>2. /\ <<>> \in Seq({peer.call}) /\ Len(q) + Len(<<>>) = Len(q)
      BY <3>1, EmptyUnits
    <3> QED BY <2>5, <3>1, <3>2 DEF Read, Peer, q
  <2>7. r.got = q /\ r.net = k
    OBVIOUS
  <2> HIDE DEF r
  <2>8. Line(k, sc[c], peer.call, peer.sent, g + Len(q))
    <3>1. Line(r.net, sc[c], peer.call, peer.sent, g + Len(r.got))
      BY <2>2, <2>6, LineRead
    <3> QED BY <2>7, <3>1
  <2>9. g + Len(q) \in Units
    BY <2>8 DEF Line
  <2>10. \A y : Owes(k, sc[c], y) => Owes(net[c], sc[c], y)
    BY <2>5 DEF Owes
  <2> HIDE DEF c, q
  <2>11. peer'.fd = c /\ peer' = peer
    BY <2>1 DEF c
  <2>12. PeerMoves(c, k)
    BY <1>0, <2>3, <2>4, <2>5, <2>8, <2>9, <2>10, <2>11 DEF PeerMoves
  <2> QED BY <2>12
<1>5. CASE PeerHangsUp
  <2> DEFINE c == peer.fd
             k == CloseEnd(net[c], "client")
  <2>1. /\ c # NoFd /\ net' = [net EXCEPT ![c] = k]
        /\ peer' = [peer EXCEPT !.fd = NoFd, !.sent = HeaderLen + BodyLen]
    BY <1>5 DEF PeerHangsUp
  <2>2. EndClosed(net[c], "client", k)
    BY <1>2, <2>1, CloseEndIs DEF Ends
  <2> HIDE DEF k
  <2>3. \E z, u, g : Line(k, sc[c], z, u, g)
    BY <1>2, <2>1, <2>2, ClientGone
  <2>4. \A y : Owes(k, sc[c], y) => Owes(net[c], sc[c], y)
    BY <2>2 DEF EndClosed, Peer, Owes
  <2>5. peer'.fd = NoFd
    BY <1>0, <2>1
  <2>6. PeerMoves(c, k)
    BY <1>0, <1>2, <2>1, <2>3, <2>4, <2>5 DEF PeerMoves
  <2> QED BY <2>6
<1> QED
  BY <1>1, <1>3, <1>4, <1>5 DEF PeerStep

(***************************************************************************)
(* The faults, and the whole.                                              *)
(***************************************************************************)
LEMMA ResetKeeps ==
  ASSUME NetTypeOK, Lines(net, cl, Call), Accounts, NEW c \in Conns, Reset(c),
         cl \in Cl, peer.fd \in Conns \cup {NoFd},
         executed \in [Calls -> Nat], tries \in [Calls -> 0..2],
         UNCHANGED <<serverVars, clientVars, peer>>
  PROVE  Lines(net, cl, Call)' /\ Accounts'
<1>1. /\ sc' = sc /\ executed' = executed /\ cl' = cl /\ Call' = Call /\ tries' = tries
      /\ peer' = peer
  BY DEF serverVars, clientVars, Call
<1>2. \A b \in Conns : net'[b].end = net[b].end /\ net'[b].data = net[b].data
  <2>1. ASSUME NEW b \in Conns PROVE net'[b].end = net[b].end /\ net'[b].data = net[b].data
    <3>1. net[b] \in Connection /\ net \in [Conns -> Connection]
      BY DEF NetTypeOK
    <3>2. net'[b] = net[b] \/ net'[b] = [net[b] EXCEPT !.link = "reset"]
      BY <3>1 DEF Reset
    <3> QED BY <3>1, <3>2 DEF Connection
  <2> QED BY <2>1
<1>3. ASSUME NEW k, NEW j, j.end = k.end, j.data = k.data
      PROVE  /\ \A s, x, u, g : Line(k, s, x, u, g) => Line(j, s, x, u, g)
             /\ \A s, g : Shown(j, s, g) => Shown(k, s, g)
             /\ \A s, y : Owes(j, s, y) => Owes(k, s, y)
  BY <1>3 DEF Line, Unread, Phases, Asking, Answering, Over, Shown, Owes
<1>4. (\A b \in Conns : \E y, u, g : Line(net[b], sc[b], y, u, g))'
  <2>1. \A b \in Conns : \E y, u, g : Line(net'[b], sc[b], y, u, g)
    BY <1>2, <1>3 DEF Lines
  <2> QED BY <1>1, <2>1
<1>5. cl.fd # NoFd => Own(net'[cl.fd], sc[cl.fd], cl, Call)
  <2> SUFFICES ASSUME cl.fd # NoFd PROVE Own(net'[cl.fd], sc[cl.fd], cl, Call)
    OBVIOUS
  <2> DEFINE k == net[cl.fd]
             j == net'[cl.fd]
             s == sc[cl.fd]
  <2>1. j.end = k.end /\ j.data = k.data
    BY <1>2 DEF Cl
  <2>2. Own(k, s, cl, Call)
    BY DEF Lines, ClientLine
  <2> HIDE DEF k, j, s
  <2>3. Line(j, s, Call, SentOf(cl), GotOf(cl))
    BY <1>3, <2>1, <2>2 DEF Own
  <2>4. Shown(j, s, GotOf(cl)) => Shown(k, s, GotOf(cl))
    BY <1>3, <2>1
  <2>5. Own(j, s, cl, Call)
    BY <2>1, <2>2, <2>3, <2>4 DEF Own
  <2> QED BY <2>5 DEF j, s
<1>6. ClientLine(net, cl, Call)'
  BY <1>1, <1>5 DEF ClientLine, Own
<1>7. PeerLine(net, cl)'
  <2>1. ASSUME peer.fd # NoFd
        PROVE  /\ peer.fd # cl.fd /\ net'[peer.fd].end["client"] = "open"
               /\ \E g \in Units : Line(net'[peer.fd], sc[peer.fd], peer.call, peer.sent, g)
    <3>1. /\ peer.fd # cl.fd /\ net[peer.fd].end["client"] = "open"
          /\ \E g \in Units : Line(net[peer.fd], sc[peer.fd], peer.call, peer.sent, g)
      BY <2>1 DEF Lines, PeerLine
    <3>2. net'[peer.fd].end = net[peer.fd].end /\ net'[peer.fd].data = net[peer.fd].data
      BY <1>2, <2>1
    <3> QED BY <1>3, <3>1, <3>2
  <2> QED BY <1>1, <2>1 DEF PeerLine
<1>8. Accounts'
  <2> SUFFICES ASSUME NEW y \in Mine
               PROVE  executed[y] + Cardinality(Debt(net, cl, Call, y)') <= tries[y]
    BY <1>1 DEF Accounts
  <2> DEFINE D == Debt(net, cl, Call, y)
             E == {b \in Conns : \/ Owes(net'[b], sc[b], y)
                                 \/ b = cl.fd /\ cl.state = "WRITE_REQUEST" /\ y = Call}
  <2>1. Debt(net, cl, Call, y)' = E
    BY <1>1 DEF Debt
  <2>2. E \subseteq D
    BY <1>2, <1>3 DEF Debt
  <2>3. /\ D \in SUBSET Conns /\ E \in SUBSET Conns /\ executed[y] \in Nat /\ tries[y] \in Nat
        /\ executed[y] + Cardinality(D) <= tries[y]
    BY MineAreCalls DEF Debt, Accounts
  <2> HIDE DEF D, E
  <2>4. Cardinality(E) <= Cardinality(D) /\ Cardinality(E) \in Nat /\ Cardinality(D) \in Nat
    BY <2>2, <2>3, MoreOrLess, ConnsFinite
  <2> QED BY <2>1, <2>3, <2>4
<1> QED
  BY <1>4, <1>6, <1>7, <1>8 DEF Lines

\* At first there is no connection.
LEMMA CallStart == Init => CallInv
<1> SUFFICES ASSUME Init PROVE CallInv
  OBVIOUS
<1>0. XmlRpcInv
  BY XmlRpcStart
<1>1. /\ net = [c \in Conns |-> NoConnection] /\ sc = [c \in Conns |-> NewServerConnection]
      /\ cl.fd = NoFd /\ peer.fd = NoFd /\ cpc = "idle" /\ made = 0
      /\ executed = [x \in Calls |-> 0] /\ tries = [x \in Calls |-> 0]
      /\ result = [x \in Calls |-> "none"]
      /\ \E x \in Calls : TRUE
  BY XmlRpcAssumption DEF Init, ServerInit, ClientInit
<1>2. NewObjects
  BY <1>1 DEF NewObjects
<1>3. PICK x \in Calls : TRUE
  BY <1>1
<1>4. /\ NoConnection.data["client"] = <<>> /\ NoConnection.data["server"] = <<>>
      /\ NewServerConnection.state = "READ_HEADER" /\ NewServerConnection.header = <<>>
      /\ NewServerConnection.response = <<>>
  BY DEF NoConnection, NewServerConnection, Ends
<1>5. \A c \in Conns : Line(net[c], sc[c], x, 0, 0) /\ \A y : ~Owes(net[c], sc[c], y)
  BY <1>1, <1>4, LineBegins
<1>6. Lines(net, cl, Call)
  BY <1>1, <1>5 DEF Lines, ClientLine, PeerLine
<1>7. Accounts
  <2> SUFFICES ASSUME NEW y \in Mine
               PROVE  executed[y] + Cardinality(Debt(net, cl, Call, y)) <= tries[y]
    BY DEF Accounts
  <2>1. Debt(net, cl, Call, y) = {}
    BY <1>1, <1>5, NoFdApart DEF Debt
  <2>2. executed[y] = 0 /\ tries[y] = 0
    BY <1>1, MineAreCalls
  <2>3. Cardinality({}) = 0
    BY FS_EmptySet
  <2> QED BY <2>1, <2>2, <2>3
<1>8. Order
  <2>1. DOMAIN Wanted \subseteq Nat \ {0}
    BY ClientAssumption
  <2>2. \A i \in DOMAIN Wanted : tries[Wanted[i]] = 0 /\ result[Wanted[i]] = "none"
    BY <1>1, MineAreCalls
  <2>3. \A i \in DOMAIN Wanted : ~(i < made) /\ i # made
    BY <1>1, <2>1
  <2> QED BY <2>2, <2>3 DEF Order
<1>9. Answers
  BY <1>1, ClientAssumption DEF Answers
<1> QED
  BY <1>0, <1>1, <1>2, <1>6, <1>7, <1>8, <1>9 DEF CallInv

\* What a step is to the calls of the client.
Moves ==
  \/ \E sent : Turns(sent) /\ UNCHANGED serverVars
  \/ \E sent : Starts(sent) /\ UNCHANGED serverVars
  \/ /\ UNCHANGED clientVars
     /\ executed' = executed \/ \E y \in Calls : executed' = [executed EXCEPT ![y] = @ + 1]

\* Every step keeps the invariant, and is one of Moves.
LEMMA CallStep ==
  ASSUME CallInv, [Next]_vars
  PROVE  CallInv' /\ Moves
<1>0. /\ XmlRpcInv /\ XmlRpcInv' /\ ServerInv /\ ClientInv /\ NetTypeOK /\ cl \in Cl
      /\ peer.fd \in Conns \cup {NoFd}
      /\ NewObjects /\ Lines(net, cl, Call) /\ Accounts /\ Order /\ Answers
      /\ cpc = "select" => cd.endTime = "never"
      /\ executed \in [Calls -> Nat] /\ tries \in [Calls -> 0..2]
  BY XmlRpcStep DEF CallInv, XmlRpcInv, ServerInv, ClientInv, PeerInv
<1>1. ASSUME UNCHANGED clientVars, Lines(net, cl, Call)', Accounts', NewObjects'
      PROVE  CallInv'
  <2>1. /\ cpc' = cpc /\ cd' = cd /\ made' = made /\ tries' = tries /\ result' = result
    BY <1>1 DEF clientVars
  <2>2. Order' /\ Answers'
    BY <1>0, <2>1 DEF Order, Answers
  <2> QED BY <1>0, <1>1, <2>1, <2>2 DEF CallInv
<1>2. ASSUME ServerNext \/ SelectInterrupted \/ AcceptFails, UNCHANGED <<clientVars, peer>>
      PROVE  CallInv' /\ Moves
  <2>1. ServerKeeps
    BY <1>0, <1>2, ServerStepKeeps DEF Carried, Lines
  <2>2. CallInv'
    BY <1>0, <1>1, <1>2, <2>1, ServerLines, ServerAccounts DEF ServerKeeps
  <2>3. executed' = executed \/ \E y \in Calls : executed' = [executed EXCEPT ![y] = @ + 1]
    BY <2>1 DEF ServerKeeps, Executed
  <2> QED BY <1>2, <2>2, <2>3 DEF Moves
<1>3. CASE ByServer(ServerNext)
  BY <1>2, <1>3 DEF ByServer
<1>4. ASSUME NEW a \in BOOLEAN, Turn(a), UNCHANGED <<serverVars, peer>>
      PROVE  CallInv' /\ Moves
  BY <1>0, <1>4, TurnCalls DEF Moves
<1>5. CASE ByClient(ClientNext)
  <2>1. UNCHANGED <<serverVars, peer>>
    BY <1>5 DEF ByClient
  <2>2. CASE Execute
    BY <1>0, <2>1, <2>2, ExecuteCalls DEF Moves
  <2> QED BY <1>4, <1>5, <2>1, <2>2 DEF ByClient, ClientNext
<1>6. CASE PeerStep
  <2>1. PICK c, k : PeerMoves(c, k)
    BY <1>0, <1>6, PeerStepMoves
  <2>2. UNCHANGED <<serverVars, clientVars>> /\ sc' = sc /\ executed' = executed
    BY <2>1 DEF PeerMoves, serverVars
  <2>3. net' \in Nets
    BY <1>0, <1>6, PeerStepInv DEF XmlRpcInv
  <2>4. CallInv'
    BY <1>0, <1>1, <2>1, <2>2, <2>3, PeerMovesLines, PeerMovesAccounts, SameObjects
  <2> QED BY <2>2, <2>4 DEF Moves
<1>7. CASE Fault
  <2>1. ASSUME NEW c \in Conns, Reset(c), UNCHANGED <<listening, serverVars, clientVars>>
        PROVE  CallInv' /\ Moves
    <3>1. UNCHANGED <<serverVars, clientVars, peer>> /\ sc' = sc /\ executed' = executed
      BY <1>7, <2>1 DEF Fault, serverVars
    <3>2. net' \in Nets
      BY <1>0, <2>1, ResetNets
    <3>3. CallInv'
      BY <1>0, <1>1, <2>1, <3>1, <3>2, ResetKeeps, SameObjects
    <3> QED BY <3>1, <3>3 DEF Moves
  <2>2. UNCHANGED peer
    BY <1>7 DEF Fault
  <2> QED BY <1>2, <1>4, <1>7, <2>1, <2>2 DEF Fault
<1>8. CASE UNCHANGED vars
  <2>1. /\ UNCHANGED <<net, serverVars, clientVars, peer>> /\ sc' = sc /\ executed' = executed
        /\ cl' = cl /\ Call' = Call /\ tries' = tries
    BY <1>8 DEF vars, serverVars, clientVars, Call
  <2>2. Lines(net, cl, Call)'
    BY <1>0, <2>1 DEF Lines, ClientLine, PeerLine, Own
  <2>3. Accounts'
    <3>1. \A y : Debt(net, cl, Call, y)' = Debt(net, cl, Call, y)
      BY <2>1 DEF Debt
    <3> QED BY <1>0, <2>1, <3>1 DEF Accounts
  <2>4. NewObjects'
    BY <1>0, <2>1 DEF NewObjects
  <2> QED BY <1>1, <2>1, <2>2, <2>3, <2>4 DEF Moves
<1> QED
  BY <1>3, <1>5, <1>6, <1>7, <1>8 DEF Next

\* Whatever is sent again, delayed, lost or left over on a connection that was
\* kept, the response that execute() returns is that of the call it was given
\* (XmlRpcClient.cpp), and never that of an earlier one.
THEOREM AnswersCorrect == Spec => []AnswersTheCall
<1>1. CallInv => AnswersTheCall
  BY DEF CallInv, Answers, AnswersTheCall
<1>2. CallInv /\ [Next]_vars => CallInv'
  BY CallStep
<1> QED
  BY CallStart, <1>1, <1>2, PTL DEF Spec

(***************************************************************************)
(* AtLeastOnce.                                                            *)
(***************************************************************************)
\* The refinement mapping.
StageOf == OnMine([x \in Calls |-> Stage(x)])

SentTo == OnMine(tries)

RunsOf == OnMine(executed)

\* The refinement mapping, call by call.
LEMMA OnMineIs ==
  /\ StageOf = [x \in Mine |-> Stage(x)]
  /\ SentTo = [x \in Mine |-> tries[x]]
  /\ RunsOf = [x \in Mine |-> executed[x]]
BY MineAreCalls DEF StageOf, SentTo, RunsOf, OnMine, Mine

\* How a call stands.
LEMMA StageIs ==
  ASSUME NEW x, result[x] \in {"none", "false"} \cup Calls, tries[x] \in 0..2
  PROVE  /\ result[x] = "false" => Stage(x) = "failed"
         /\ result[x] \in Calls => Stage(x) = "answered"
         /\ result[x] = "none" /\ tries[x] > 0 => Stage(x) = "pending"
         /\ result[x] = "none" /\ tries[x] = 0 => Stage(x) = "new"
         /\ result[x] # "none" => Stage(x) \in {"answered", "failed"}
BY ClientAssumption DEF Stage

\* A step, or a stutter, of AtLeastOnce.
Promised == [Promise!Next]_<<StageOf, SentTo, RunsOf>>

\* The initial states map to the initial one.
LEMMA PromiseStart ==
  ASSUME Init
  PROVE  Promise!Init
<1>1. /\ executed = [x \in Calls |-> 0] /\ tries = [x \in Calls |-> 0]
      /\ result = [x \in Calls |-> "none"]
  BY DEF Init, ServerInit, ClientInit
<1>2. \A x \in Mine : Stage(x) = "new" /\ tries[x] = 0 /\ executed[x] = 0
  BY <1>1, MineAreCalls, StageIs
<1> QED
  BY <1>2, OnMineIs DEF Promise!Init, Promise!Mine, Mine, StageOf, SentTo, RunsOf

\* What is known of a call at any time.
LEMMA CallFacts ==
  ASSUME CallInv
  PROVE  \A x \in Mine : /\ x \in Calls /\ tries[x] \in 0..2 /\ executed[x] \in Nat
                         /\ result[x] \in {"none", "false"} \cup Calls
                         /\ executed[x] <= tries[x]
<1> SUFFICES ASSUME NEW x \in Mine
             PROVE  /\ x \in Calls /\ tries[x] \in 0..2 /\ executed[x] \in Nat
                    /\ result[x] \in {"none", "false"} \cup Calls
                    /\ executed[x] <= tries[x]
  OBVIOUS
<1>1. /\ x \in Calls /\ tries[x] \in 0..2 /\ executed[x] \in Nat
      /\ result[x] \in {"none", "false"} \cup Calls
  BY MineAreCalls DEF CallInv, XmlRpcInv, ServerInv, ClientInv
<1>2. Debt(net, cl, Call, x) \in SUBSET Conns
  BY DEF Debt
<1>3. /\ Cardinality(Debt(net, cl, Call, x)) \in Nat
      /\ executed[x] + Cardinality(Debt(net, cl, Call, x)) <= tries[x]
  BY <1>2, ConnsFinite DEF CallInv, Accounts
<1> QED
  BY <1>1, <1>3

\* A step that changes the stage and the requests of call x alone.
LEMMA ViewMoves ==
  ASSUME NEW x \in Mine, NEW s, NEW n,
         \A y \in Mine : Stage(y)' = (IF y = x THEN s ELSE Stage(y)),
         \A y \in Mine : tries'[y] = (IF y = x THEN n ELSE tries[y]),
         executed' = executed
  PROVE  /\ StageOf' = [StageOf EXCEPT ![x] = s]
         /\ SentTo' = [SentTo EXCEPT ![x] = n]
         /\ RunsOf' = RunsOf
         /\ Stage(x) = s => StageOf' = StageOf
         /\ tries[x] = n => SentTo' = SentTo
<1>1. /\ StageOf' = [y \in Mine |-> Stage(y)'] /\ SentTo' = [y \in Mine |-> tries'[y]]
      /\ RunsOf' = [y \in Mine |-> executed'[y]]
  <2>1. \A y \in Mine : y \in Calls
    BY MineAreCalls
  <2> QED BY <2>1 DEF StageOf, SentTo, RunsOf, OnMine, Mine
<1> QED
  BY <1>1, OnMineIs

\* execute() sends the call, or sends it and fails.
LEMMA StartPromised ==
  ASSUME CallInv, CallInv', NEW sent, Starts(sent), UNCHANGED serverVars
  PROVE  Promised
<1> DEFINE i == made'
           x == Wanted[i]
<1>1. /\ i \in DOMAIN Wanted /\ i = made + 1 /\ made \in Nat /\ cpc = "idle" /\ sent \in 0..1
      /\ x \in Mine /\ executed' = executed
      /\ tries' = [tries EXCEPT ![x] = sent]
      /\ tries \in [Calls -> 0..2] /\ result \in [Calls -> {"none", "false"} \cup Calls]
      /\ Order
  BY MineAreCalls DEF Starts, serverVars, CallInv, XmlRpcInv, ClientInv
<1>2. result[x] = "none" /\ tries[x] = 0
  BY <1>1 DEF Order
<1>3. \A j \in 1..(i - 1) : Stage(Wanted[j]) \in {"answered", "failed"} /\ Wanted[j] \in Mine
  <2> SUFFICES ASSUME NEW j \in 1..(i - 1)
               PROVE  Stage(Wanted[j]) \in {"answered", "failed"} /\ Wanted[j] \in Mine
    OBVIOUS
  <2>1. j \in DOMAIN Wanted /\ j <= made
    BY <1>1, ClientAssumption
  <2>2. result[Wanted[j]] # "none"
    BY <1>1, <2>1 DEF Order
  <2>3. Wanted[j] \in Mine
    BY <2>1, MineAreCalls
  <2> QED BY <2>2, <2>3, CallFacts, StageIs
<1>4. Stage(x) = "new"
  BY <1>1, <1>2, CallFacts, StageIs
<1>5. Promise!Turn(i)
  BY <1>1, <1>3, <1>4, OnMineIs DEF Promise!Turn, StageOf
<1> HIDE DEF x
<1>6. \A y \in Mine : tries'[y] = IF y = x THEN sent ELSE tries[y]
  BY <1>1, MineAreCalls
<1>7. CASE sent = 1
  <2>1. result' = result
    BY <1>7 DEF Starts
  <2>2. \A y \in Mine : Stage(y)' = IF y = x THEN "pending" ELSE Stage(y)
    <3> SUFFICES ASSUME NEW y \in Mine PROVE Stage(y)' = IF y = x THEN "pending" ELSE Stage(y)
      OBVIOUS
    <3>1. CASE y = x
      <4>1. result'[y] = "none" /\ tries'[y] > 0
        BY <1>2, <1>6, <1>7, <2>1, <3>1
      <4>2. Stage(y)' = "pending"
        BY <4>1, ClientAssumption DEF Stage
      <4> QED BY <3>1, <4>2
    <3>2. CASE y # x
      <4>1. tries'[y] = tries[y]
        BY <1>6, <3>2
      <4>2. Stage(y)' = Stage(y)
        BY <2>1, <4>1 DEF Stage
      <4> QED BY <3>2, <4>2
    <3> QED BY <3>1, <3>2
  <2>3. /\ StageOf' = [StageOf EXCEPT ![x] = "pending"] /\ SentTo' = [SentTo EXCEPT ![x] = 1]
        /\ RunsOf' = RunsOf
    BY <1>1, <1>6, <1>7, <2>2, ViewMoves
  <2>4. Promise!Begin(i)
    BY <1>5, <2>3 DEF Promise!Begin, StageOf, SentTo, RunsOf, x
  <2> QED BY <1>1, <2>4 DEF Promised, Promise!Next
<1>8. CASE sent = 0
  <2>1. result' = [result EXCEPT ![x] = "false"]
    BY <1>8 DEF Starts, x
  <2>2. \A y \in Mine : Stage(y)' = IF y = x THEN "failed" ELSE Stage(y)
    <3> SUFFICES ASSUME NEW y \in Mine PROVE Stage(y)' = IF y = x THEN "failed" ELSE Stage(y)
      OBVIOUS
    <3>1. CASE y = x
      <4>1. result'[y] = "false"
        BY <1>1, <2>1, <3>1, MineAreCalls
      <4>2. Stage(y)' = "failed"
        BY <4>1, ClientAssumption DEF Stage
      <4> QED BY <3>1, <4>2
    <3>2. CASE y # x
      <4>1. tries'[y] = tries[y] /\ result'[y] = result[y]
        BY <1>1, <1>6, <2>1, <3>2, MineAreCalls
      <4>2. Stage(y)' = Stage(y)
        BY <4>1 DEF Stage
      <4> QED BY <3>2, <4>2
    <3> QED BY <3>1, <3>2
  <2>3. /\ StageOf' = [StageOf EXCEPT ![x] = "failed"] /\ SentTo' = SentTo /\ RunsOf' = RunsOf
    BY <1>1, <1>2, <1>6, <1>8, <2>2, ViewMoves
  <2>4. Promise!Fail(i)
    BY <1>5, <2>3 DEF Promise!Fail, StageOf, SentTo, RunsOf, x
  <2> QED BY <1>1, <2>4 DEF Promised, Promise!Next
<1> QED
  BY <1>1, <1>7, <1>8

\* A turn may send the call again, answer it or fail.
LEMMA TurnPromised ==
  ASSUME CallInv, CallInv', NEW sent, Turns(sent), UNCHANGED serverVars
  PROVE  Promised
<1> DEFINE x == Call
<1>1. /\ made \in DOMAIN Wanted /\ x = Wanted[made] /\ sent \in 0..1
      /\ x \in Mine /\ x \in Calls /\ executed' = executed
      /\ tries' = [tries EXCEPT ![x] = @ + sent]
      /\ tries \in [Calls -> 0..2] /\ result \in [Calls -> {"none", "false"} \cup Calls]
      /\ Order /\ tries' \in [Calls -> 0..2] /\ cpc = "select"
  BY MineAreCalls, ClientAssumption
  DEF Turns, serverVars, CallInv, XmlRpcInv, ClientInv, Call
<1> HIDE DEF x
<1>2. result[x] = "none" /\ tries[x] > 0 /\ tries[x] \in 0..2
  BY <1>1 DEF Order
<1>3. Stage(x) = "pending" /\ StageOf[x] = "pending" /\ SentTo[x] = tries[x]
      /\ RunsOf[x] = executed[x]
  BY <1>1, <1>2, StageIs, OnMineIs
<1>4. \A y \in Mine : tries'[y] = IF y = x THEN tries[x] + sent ELSE tries[y]
  BY <1>1, MineAreCalls
<1>5. CASE sent = 1
  <2>1. result' = result
    BY <1>5 DEF Turns
  <2>2. tries[x] = 1 /\ tries[x] + sent = 2
    <3>1. tries[x] + 1 \in 0..2
      BY <1>1, <1>5
    <3> QED BY <1>2, <1>5, <3>1
  <2>3. \A y \in Mine : Stage(y)' = IF y = x THEN "pending" ELSE Stage(y)
    <3> SUFFICES ASSUME NEW y \in Mine PROVE Stage(y)' = IF y = x THEN "pending" ELSE Stage(y)
      OBVIOUS
    <3>1. CASE y = x
      <4>1. result'[y] = "none" /\ tries'[y] > 0
        BY <1>2, <1>4, <2>1, <2>2, <3>1
      <4>2. Stage(y)' = "pending"
        BY <4>1, ClientAssumption DEF Stage
      <4> QED BY <3>1, <4>2
    <3>2. CASE y # x
      <4>1. tries'[y] = tries[y]
        BY <1>4, <3>2
      <4>2. Stage(y)' = Stage(y)
        BY <2>1, <4>1 DEF Stage
      <4> QED BY <3>2, <4>2
    <3> QED BY <3>1, <3>2
  <2>4. /\ StageOf' = StageOf /\ SentTo' = [SentTo EXCEPT ![x] = 2] /\ RunsOf' = RunsOf
    BY <1>1, <1>3, <1>4, <2>2, <2>3, ViewMoves
  <2>5. Promise!SendAgain(x)
    BY <1>3, <2>2, <2>4 DEF Promise!SendAgain, StageOf, SentTo, RunsOf
  <2> QED BY <1>1, <2>5 DEF Promised, Promise!Next, Promise!Mine, Mine
<1>6. CASE sent = 0 /\ cpc' # "idle"
  <2>1. result' = result /\ \A y \in Mine : tries'[y] = tries[y]
    BY <1>2, <1>4, <1>6 DEF Turns
  <2>2. \A y \in Mine : Stage(y)' = Stage(y)
    BY <2>1 DEF Stage
  <2>3. /\ StageOf' = StageOf /\ SentTo' = SentTo /\ RunsOf' = RunsOf
    <3>1. \A y \in Mine : /\ Stage(y)' = (IF y = x THEN Stage(x) ELSE Stage(y))
                          /\ tries'[y] = (IF y = x THEN tries[x] ELSE tries[y])
      BY <2>1, <2>2
    <3> QED BY <1>1, <3>1, ViewMoves
  <2> QED BY <2>3 DEF Promised
<1>7. CASE sent = 0 /\ cpc' = "idle"
  <2>1. PICK v : Returns(v) /\ result' = [result EXCEPT ![x] = v]
    BY <1>7 DEF Turns, x
  <2>2. v = "false" \/ (v = x /\ executed[x] > 0)
    BY <2>1 DEF Returns, x
  <2> DEFINE s == IF v = "false" THEN "failed" ELSE "answered"
  <2>3. \A y \in Mine : Stage(y)' = IF y = x THEN s ELSE Stage(y)
    <3> SUFFICES ASSUME NEW y \in Mine PROVE Stage(y)' = IF y = x THEN s ELSE Stage(y)
      OBVIOUS
    <3>1. CASE y = x
      <4>1. result'[y] = v
        BY <1>1, <2>1, <3>1
      <4>2. Stage(y)' = s
        BY <1>1, <2>2, <4>1, ClientAssumption DEF Stage
      <4> QED BY <3>1, <4>2
    <3>2. CASE y # x
      <4>1. tries'[y] = tries[y] /\ result'[y] = result[y]
        BY <1>1, <1>4, <2>1, <3>2, MineAreCalls
      <4>2. Stage(y)' = Stage(y)
        BY <4>1 DEF Stage
      <4> QED BY <3>2, <4>2
    <3> QED BY <3>1, <3>2
  <2> HIDE DEF s
  <2>4. /\ StageOf' = [StageOf EXCEPT ![x] = s] /\ SentTo' = SentTo /\ RunsOf' = RunsOf
    <3>1. \A y \in Mine : tries'[y] = (IF y = x THEN tries[x] ELSE tries[y])
      BY <1>2, <1>4, <1>7
    <3> QED BY <1>1, <2>3, <3>1, ViewMoves
  <2>5. CASE v = "false"
    <3>1. Promise!Fail(made)
      BY <1>1, <1>3, <2>4, <2>5 DEF Promise!Fail, StageOf, SentTo, RunsOf, s
    <3> QED BY <1>1, <3>1 DEF Promised, Promise!Next
  <2>6. CASE v = x /\ executed[x] > 0 /\ v # "false"
    <3>1. Promise!Answer(x)
      BY <1>1, <1>3, <2>4, <2>6 DEF Promise!Answer, StageOf, SentTo, RunsOf, s
    <3> QED BY <1>1, <3>1 DEF Promised, Promise!Next, Promise!Mine, Mine
  <2> QED BY <2>2, <2>5, <2>6
<1> QED
  BY <1>1, <1>5, <1>6, <1>7

\* The server executes a call that was sent, or one of the other peer's.
LEMMA RunPromised ==
  ASSUME CallInv, CallInv', UNCHANGED clientVars,
         executed' = executed \/ \E y \in Calls : executed' = [executed EXCEPT ![y] = @ + 1]
  PROVE  Promised
<1>1. /\ tries' = tries /\ result' = result /\ executed \in [Calls -> Nat]
  BY DEF clientVars, CallInv, XmlRpcInv, ServerInv
<1>2. /\ StageOf' = StageOf /\ SentTo' = SentTo
      /\ RunsOf' = [y \in Mine |-> executed'[y]]
  <2>1. \A y \in Calls : Stage(y)' = Stage(y)
    BY <1>1 DEF Stage
  <2> QED BY <1>1, <2>1, MineAreCalls DEF StageOf, SentTo, RunsOf, OnMine, Mine
<1>3. CASE executed' = executed
  BY <1>2, <1>3, OnMineIs DEF Promised
<1>4. ASSUME NEW y \in Calls, executed' = [executed EXCEPT ![y] = @ + 1]
      PROVE  Promised
  <2>1. CASE y \notin Mine
    <3>1. RunsOf' = RunsOf
      BY <1>1, <1>2, <1>4, <2>1, MineAreCalls, OnMineIs
    <3> QED BY <1>2, <3>1 DEF Promised
  <2>2. CASE y \in Mine
    <3>1. RunsOf' = [RunsOf EXCEPT ![y] = @ + 1]
      BY <1>1, <1>2, <1>4, <2>2, MineAreCalls, OnMineIs
    <3>2. executed[y] < tries[y]
      <4>1. executed'[y] <= tries'[y] /\ tries'[y] \in 0..2
        <5>1. executed'[y] \in Nat /\ tries'[y] \in 0..2
          BY <1>1, <1>4 DEF CallInv, XmlRpcInv, ServerInv, ClientInv
        <5>2. Debt(net, cl, Call, y)' \in SUBSET Conns
          BY DEF Debt
        <5>3. /\ Cardinality(Debt(net, cl, Call, y)') \in Nat
              /\ executed'[y] + Cardinality(Debt(net, cl, Call, y)') <= tries'[y]
          BY <2>2, <5>2, ConnsFinite DEF CallInv, Accounts, Mine
        <5> QED BY <5>1, <5>3
      <4>2. executed'[y] = executed[y] + 1 /\ executed[y] \in Nat
        BY <1>1, <1>4
      <4> QED BY <1>1, <4>1, <4>2
    <3>3. RunsOf[y] < SentTo[y]
      BY <2>2, <3>2, OnMineIs
    <3>4. Promise!Run(y)
      BY <1>2, <3>1, <3>3 DEF Promise!Run, StageOf, SentTo, RunsOf
    <3> QED BY <2>2, <3>4 DEF Promised, Promise!Next, Promise!Mine, Mine
  <2> QED BY <2>1, <2>2
<1> QED
  BY <1>3, <1>4

\* However often a connection breaks, is refused, is kept or is given up, and
\* whatever the server still finds on one that its caller has left, a call is
\* sent at most twice, executed no more often than it was sent, and answered
\* only after it was executed; the calls are made in their order
\* (XmlRpcClient.cpp, XmlRpcServerConnection.cpp).
THEOREM AtLeastOnceCorrect == Spec => ImplementsAtLeastOnce
<1>1. CallInv /\ [Next]_vars => CallInv'
  BY CallStep
<1>2. CallInv /\ CallInv' /\ [Next]_vars => Promised
  <2> SUFFICES ASSUME CallInv, CallInv', [Next]_vars PROVE Promised
    OBVIOUS
  <2>1. Moves
    BY CallStep
  <2> QED BY <2>1, StartPromised, TurnPromised, RunPromised DEF Moves
<1>3. Init => Promise!Init
  BY PromiseStart
<1>4. Promised <=> [Promise!Next]_(Promise!vars)
  BY DEF Promised, Promise!vars, StageOf, SentTo, RunsOf
<1> QED
  BY CallStart, <1>1, <1>2, <1>3, <1>4, PTL DEF Spec, ImplementsAtLeastOnce, Promise!Spec

(***************************************************************************)
(* Failures.  Without a fault and with the server there, a connection that *)
(* the client uses is never broken, nor closed by the server: it closes    *)
(* one of its own accord only when the header has no length or asks for    *)
(* it, which generateHeader() never does.                                  *)
(***************************************************************************)
\* No fault yet, and the server is there.
Untroubled == faults = 0 /\ listening /\ spc # "ended"

\* The client keeps connections, and its headers are those of generateHeader()
\* (XmlRpcClient.cpp:47, 342-388).
OwnHeaders ==
  KeepOpen /\ \A i \in DOMAIN Wanted : Wanted[i] \notin Closes \cup NoLength

\* Neither end is closed, nor is the connection reset.
Sound(k) ==
  /\ k.link = "up" /\ k.end["client"] = "open"
  /\ k.end["server"] \in {"backlog", "open"}

\* The inductive invariant, next to CallInv.
CalmInv ==
  Untroubled =>
    /\ cl.fd # NoFd => /\ made \in DOMAIN Wanted
                       /\ Sound(net[cl.fd]) /\ sc[cl.fd].keepAlive
    /\ \A x \in Calls : result[x] # "false"

\* Reads succeed on such a connection, and leave it so.
LEMMA ReadSound ==
  ASSUME NEW k \in Connection, Sound(k), NEW e \in Ends, NEW r \in NbRead(k, e)
  PROVE  r.status = "ok" /\ Sound(r.net)
<1> DEFINE q == k.data[e]
<1>1. Joins(k)
  BY ConnectionJoins
<1>2. k.end[Peer(e)] # "closed" /\ k.link # "reset"
  BY DEF Sound, Peer, Ends
<1>3. PICK n \in 0..Len(q), st \in {"ok", "eof", "error"} :
        /\ r = [got |-> SubSeq(q, 1, n), status |-> st,
                net |-> [k EXCEPT !.data[e] = SubSeq(q, n + 1, Len(q))]]
        /\ st = "eof" => k.end[Peer(e)] = "closed"
        /\ st = "error" => k.link = "reset"
  BY DEF NbRead
<1> DEFINE t == SubSeq(q, n + 1, Len(q))
           j == [k EXCEPT !.data[e] = t]
<1> HIDE DEF t
<1>4. j.end = k.end /\ j.link = k.link
  BY <1>1 DEF Joins
<1>5. r.net = j /\ r.status = st
  BY <1>3 DEF t
<1> HIDE DEF j
<1> QED
  BY <1>2, <1>3, <1>4, <1>5 DEF Sound

\* Writes do as well.
LEMMA WriteSound ==
  ASSUME NEW k \in Connection, Sound(k), NEW e \in Ends, NEW msg, NEW written
  PROVE  NbWrite(k, e, msg, written).status = "ok" /\ Sound(NbWrite(k, e, msg, written).net)
<1> DEFINE left == Len(msg) - written
           room == Cap - Len(k.data[Peer(e)])
           n    == IF left < room THEN left ELSE room
           part == SubSeq(msg, written + 1, written + n)
           j    == [k EXCEPT !.data[Peer(e)] = @ \o part]
           w    == NbWrite(k, e, msg, written)
<1>1. Joins(k)
  BY ConnectionJoins
<1>2. k.end[Peer(e)] # "closed" /\ k.link = "up"
  BY DEF Sound, Peer, Ends
<1>3. w = [status |-> "ok", written |-> written + n, net |-> j]
  BY <1>2 DEF NbWrite
<1>4. j.end = k.end /\ j.link = k.link
  <2> HIDE DEF part
  <2> QED BY <1>1 DEF Joins
<1> HIDE DEF j, n, w
<1>5. w.status = "ok" /\ w.net = j
  BY <1>3
<1> QED
  BY <1>4, <1>5 DEF Sound, w

(***************************************************************************)
(* The server on such a connection.                                        *)
(***************************************************************************)
\* An outcome of the server's stages that goes on.
Serving(o) ==
  /\ o \in Outcomes(o.net.end) /\ o.on /\ ~o.killed
  /\ o.conn.keepAlive /\ Sound(o.net)

\* Reading the header of a request that keeps the connection open.
LEMMA HeaderServed ==
  ASSUME NEW o, Serving(o), NEW x, x \notin Closes \cup NoLength,
         o.conn.state = "READ_HEADER" =>
           o.conn.header \in Seq({x}) /\ o.net.data["server"] \in Seq({x}),
         NEW a \in BOOLEAN, NEW z \in ServerReadHeader(o, a)
  PROVE  Serving(z)
<1>0. /\ o.net \in Connection /\ o.conn \in Objects /\ o \in Outcomes(o.net.end)
      /\ z \in Outcomes(o.net.end) /\ o.on
  BY ReadHeaderOutcome DEF Serving, Outcomes
<1>1. CASE o.conn.state # "READ_HEADER"
  BY <1>0, <1>1 DEF ServerReadHeader
<1>2. CASE o.conn.state = "READ_HEADER"
  <2>1. PICK r \in NbRead(o.net, "server") :
          LET h == o.conn.header \o r.got
              p == [o EXCEPT !.net = r.net]
          IN  z = CASE r.status = "error"  -> Drop(p)
                    [] r.status # "error" /\ Len(h) <= HeaderLen ->
                         [p EXCEPT !.conn.header = h, !.on = r.status # "eof"]
                    [] r.status # "error" /\ Len(h) > HeaderLen /\ h[1] \in NoLength -> Drop(p)
                    [] OTHER ->
                         [p EXCEPT !.conn.state     = "READ_REQUEST",
                                   !.conn.header    = <<>>,
                                   !.conn.request   = SubSeq(h, HeaderLen + 1, Len(h)),
                                   !.conn.keepAlive = h[1] \notin Closes]
    BY <1>0, <1>2 DEF ServerReadHeader
  <2>2. r.status = "ok" /\ Sound(r.net) /\ Read(o.net, "server", x, r)
    BY <1>0, <1>2, ReadSound, ReadUnits DEF Serving, Ends
  <2> DEFINE h == o.conn.header \o r.got
             t == SubSeq(h, HeaderLen + 1, Len(h))
             b == h[1] \notin Closes
  <2>3. h \in Seq({x}) /\ Len(h) \in Nat
    BY <1>2, <2>2, JoinedUnits, EmptyUnits DEF Read
  <2>4. Len(h) > HeaderLen => h[1] = x
    <3> HIDE DEF h
    <3> QED BY <2>3, Lengths
  <2> HIDE DEF h, t
  <2>5. \/ z = [o EXCEPT !.net = r.net, !.conn.header = h, !.on = TRUE]
        \/ z = [o EXCEPT !.net = r.net, !.conn.state = "READ_REQUEST", !.conn.header = <<>>,
                         !.conn.request = t, !.conn.keepAlive = TRUE]
    <3>1. Len(h) <= HeaderLen \/ Len(h) > HeaderLen
      BY <2>3, Lengths
    <3>2. CASE Len(h) <= HeaderLen
      <4> DEFINE e == r.status # "eof"
      <4>1. z = [[o EXCEPT !.net = r.net] EXCEPT !.conn.header = h, !.on = e]
        <5>1. r.status # "error" /\ Len(h) <= HeaderLen /\ ~(Len(h) > HeaderLen)
          BY <2>2, <2>3, <3>2, Lengths
        <5> QED BY <2>1, <5>1 DEF h
      <4>2. e = TRUE
        BY <2>2
      <4> HIDE DEF e
      <4> QED BY <1>0, <4>1, <4>2 DEF Outcomes
    <3>3. CASE Len(h) > HeaderLen
      <4>1. b = TRUE /\ h[1] \notin NoLength
        BY <2>4, <3>3
      <4>2. ~(Len(h) <= HeaderLen)
        BY <2>3, <3>3, Lengths
      <4>3. z = [[o EXCEPT !.net = r.net] EXCEPT !.conn.state = "READ_REQUEST",
                     !.conn.header = <<>>, !.conn.request = t, !.conn.keepAlive = b]
        BY <2>1, <2>2, <3>3, <4>1, <4>2 DEF h, t
      <4> HIDE DEF b
      <4> QED BY <1>0, <4>1, <4>3 DEF Outcomes
    <3> QED BY <3>1, <3>2, <3>3
  <2>6. /\ z.net = r.net /\ z.on /\ ~z.killed /\ z.conn.keepAlive
    <3>1. o.on /\ ~o.killed /\ o.conn.keepAlive
      BY DEF Serving
    <3>2. CASE z = [o EXCEPT !.net = r.net, !.conn.header = h, !.on = TRUE]
      BY <1>0, <3>1, <3>2 DEF Outcomes, Objects
    <3>3. CASE z = [o EXCEPT !.net = r.net, !.conn.state = "READ_REQUEST", !.conn.header = <<>>,
                             !.conn.request = t, !.conn.keepAlive = TRUE]
      BY <1>0, <3>1, <3>3 DEF Outcomes, Objects
    <3> QED BY <2>5, <3>2, <3>3
  <2>7. z \in Outcomes(z.net.end)
    BY <1>0 DEF Outcomes
  <2> QED BY <2>2, <2>6, <2>7 DEF Serving
<1> QED
  BY <1>1, <1>2

\* Reading the rest of the request, which comes in any parts.
LEMMA RequestServed ==
  ASSUME NEW o, Serving(o), NEW a \in BOOLEAN, NEW z \in ServerReadRequest(o, a)
  PROVE  Serving(z)
<1>0. /\ o.net \in Connection /\ o.conn \in Objects /\ o \in Outcomes(o.net.end)
      /\ z \in Outcomes(o.net.end) /\ o.on /\ ~o.killed /\ o.conn.keepAlive /\ Sound(o.net)
  BY ReadRequestOutcome DEF Serving, Outcomes
<1>1. z \in Outcomes(z.net.end)
  BY <1>0 DEF Outcomes
<1>2. CASE o.conn.state # "READ_REQUEST"
  BY <1>0, <1>2 DEF ServerReadRequest, Serving
<1>3. CASE z = [o EXCEPT !.conn.state = "WRITE_RESPONSE"]
  <2>1. z.net = o.net /\ z.on /\ ~z.killed /\ z.conn.keepAlive
    BY <1>0, <1>3 DEF Outcomes, Objects
  <2> QED BY <1>0, <1>1, <2>1 DEF Serving
<1>4. CASE ~(o.conn.state # "READ_REQUEST" \/ Len(o.conn.request) >= BodyLen)
  <2>1. PICK r \in NbRead(o.net, "server") :
          LET q == o.conn.request \o r.got
              p == [o EXCEPT !.net = r.net, !.conn.request = q]
          IN  z = CASE r.status = "error" -> Drop(p)
                    [] r.status # "error" /\ Len(q) < BodyLen -> [p EXCEPT !.on = r.status # "eof"]
                    [] OTHER -> [p EXCEPT !.conn.state = "WRITE_RESPONSE"]
    BY <1>0, <1>4 DEF ServerReadRequest
  <2>2. r.status = "ok" /\ Sound(r.net)
    BY <1>0, ReadSound DEF Ends
  <2> DEFINE q == o.conn.request \o r.got
             p == [o EXCEPT !.net = r.net, !.conn.request = q]
  <2>3. z = [p EXCEPT !.on = TRUE] \/ z = [p EXCEPT !.conn.state = "WRITE_RESPONSE"]
    BY <2>1, <2>2
  <2> HIDE DEF q
  <2> DEFINE c == [o.conn EXCEPT !.request = q]
             d == [c EXCEPT !.state = "WRITE_RESPONSE"]
  <2>4. c.keepAlive /\ d.keepAlive
    BY <1>0 DEF Objects
  <2>5. p = [o EXCEPT !.net = r.net, !.conn = c]
    BY <1>0 DEF Outcomes
  <2> HIDE DEF p
  <2>6. z = [o EXCEPT !.net = r.net, !.conn = c, !.on = TRUE]
        \/ z = [o EXCEPT !.net = r.net, !.conn = d]
    <3> HIDE DEF c
    <3> QED BY <1>0, <2>3, <2>5 DEF Outcomes, d
  <2> HIDE DEF c, d
  <2>7. z.net = r.net /\ z.on /\ ~z.killed /\ z.conn.keepAlive
    BY <1>0, <2>4, <2>6 DEF Outcomes
  <2> QED BY <1>1, <2>2, <2>7 DEF Serving
<1> QED
  BY <1>0, <1>2, <1>3, <1>4 DEF ServerReadRequest

\* Executing the request and writing the response, in any parts.
LEMMA ResponseServed ==
  ASSUME NEW o, Serving(o), NEW z \in WriteResponse(o)
  PROVE  Serving(z)
<1>0. /\ o.net \in Connection /\ o.conn \in Objects /\ o \in Outcomes(o.net.end)
      /\ z \in Outcomes(o.net.end) /\ o.on /\ ~o.killed /\ o.conn.keepAlive /\ Sound(o.net)
  BY WriteOutcome DEF Serving, Outcomes
<1>1. z \in Outcomes(z.net.end)
  BY <1>0 DEF Outcomes
<1>2. CASE o.conn.state # "WRITE_RESPONSE"
  BY <1>0, <1>2 DEF WriteResponse, Serving
<1>3. CASE o.conn.state = "WRITE_RESPONSE"
  <2> DEFINE p == ExecuteRequest(o)
             w == NbWrite(p.net, "server", p.conn.response, p.conn.written)
             q == [p EXCEPT !.net = w.net, !.conn.written = w.written]
             n == [NewServerConnection EXCEPT !.keepAlive = q.conn.keepAlive]
  <2>1. /\ p \in Outcomes(o.net.end) /\ p.net = o.net
        /\ p.on /\ ~p.killed /\ p.conn.keepAlive
    <3>1. p \in Outcomes(o.net.end) /\ p.net = o.net
      BY <1>0, <1>3, ExecuteOutcome
    <3>2. p.on /\ ~p.killed /\ p.conn.keepAlive
      <4>1. CASE o.conn.response # <<>>
        BY <1>0, <4>1 DEF ExecuteRequest
      <4>2. CASE o.conn.response = <<>>
        <5> DEFINE m == Message(o.conn.request[1])
                   g == {o.conn.request[1]}
        <5>1. p = [o EXCEPT !.conn.response = m, !.conn.written = 0, !.ran = g]
          BY <4>2 DEF ExecuteRequest
        <5> HIDE DEF m, g, p
        <5> QED BY <1>0, <5>1 DEF Outcomes, Objects
      <4> QED BY <4>1, <4>2
    <3> QED BY <3>1, <3>2
  <2>2. z \in CASE w.status = "error"   -> {Drop(q)}
                [] w.status = "sigpipe" -> {[q EXCEPT !.killed = TRUE]}
                [] w.status = "ok" /\ w.written < Len(p.conn.response) ->
                     {[q EXCEPT !.on = q.conn.keepAlive]}
                [] OTHER -> {[q EXCEPT !.on = q.conn.keepAlive, !.conn = n]}
    BY <1>0, <1>3 DEF WriteResponse
  <2> HIDE DEF p
  <2>3. w.status = "ok" /\ Sound(w.net)
    BY <1>0, <2>1, WriteSound DEF Ends
  <2> HIDE DEF w
  <2>4. /\ q.net = w.net /\ q.on /\ ~q.killed /\ q.conn.keepAlive = TRUE
        /\ q \in [conn : {q.conn}, net : {w.net}, on : BOOLEAN, ran : SUBSET Calls,
                  killed : BOOLEAN]
    BY <2>1 DEF Outcomes, Objects
  <2>5. n.keepAlive
    BY <2>4 DEF NewServerConnection
  <2> HIDE DEF q, n
  <2>6. \/ z = [q EXCEPT !.on = q.conn.keepAlive]
        \/ z = [q EXCEPT !.on = q.conn.keepAlive, !.conn = n]
    BY <2>2, <2>3
  <2>7. z.net = w.net /\ z.on /\ ~z.killed /\ z.conn.keepAlive
    BY <2>4, <2>5, <2>6
  <2> QED BY <1>1, <2>3, <2>7 DEF Serving
<1> QED
  BY <1>2, <1>3

\* The three one after the other, from what the server has of the client's line.
LEMMA HandleEventServed ==
  ASSUME NEW c \in Conns, NEW a \in BOOLEAN, sc[c] \in Objects, net[c] \in Connection,
         Sound(net[c]), sc[c].keepAlive,
         NEW x, NEW u, NEW g, Line(net[c], sc[c], x, u, g), x \notin Closes \cup NoLength,
         NEW z \in HandleEvent(c, a)
  PROVE  Serving(z)
<1> DEFINE o == [conn |-> sc[c], net |-> net[c], on |-> TRUE, ran |-> {}, killed |-> FALSE]
           h == ServerReadHeader(o, a)
           r == UNION { ServerReadRequest(p, a /\ p.conn = sc[c]) : p \in h }
<1>1. Serving(o)
  BY DEF Serving, Outcomes
<1>2. o.conn.state = "READ_HEADER" =>
        o.conn.header \in Seq({x}) /\ o.net.data["server"] \in Seq({x})
  <2>1. Phases(net[c], sc[c], x, u, g)
    BY DEF Line, Sound
  <2>2. sc[c].state = "READ_HEADER" =>
          sc[c].header \in Seq({x}) /\ net[c].data["server"] \in Seq({x})
    BY <2>1, EmptySeq DEF Phases, Asking, Answering, Over, Held
  <2> QED BY <2>2
<1>3. z \in UNION { WriteResponse(p) : p \in r }
  BY DEF HandleEvent
<1> HIDE DEF o
<1>4. PICK q \in r : z \in WriteResponse(q)
  BY <1>3
<1>5. PICK p \in h : q \in ServerReadRequest(p, a /\ p.conn = sc[c])
  BY <1>4
<1>6. (a /\ p.conn = sc[c]) \in BOOLEAN
  OBVIOUS
<1>7. Serving(p)
  BY <1>1, <1>2, HeaderServed
<1>8. Serving(q)
  BY <1>5, <1>6, <1>7, RequestServed
<1> QED
  BY <1>4, <1>8, ResponseServed

\* What the server's steps do as long as it takes connections.
LEMMA ServerStays ==
  ASSUME ServerNext, listening', spc' # "ended"
  PROVE  /\ listening /\ spc # "ended"
         /\ \/ UNCHANGED <<net, sc>>
            \/ AcceptConnection
            \/ \E c \in Conns : HandleConnection(c)
<1>1. CASE Work
  BY <1>1 DEF Work
<1>2. CASE Quits
  BY <1>2 DEF Quits, EndProcess
<1>3. ASSUME NEW R \in SUBSET Watched(sd), Select(R)
      PROVE  listening /\ spc # "ended" /\ UNCHANGED <<net, sc>>
  BY <1>3 DEF Select
<1>4. ASSUME NEW timeUp \in BOOLEAN, EndPass(timeUp)
      PROVE  listening /\ spc # "ended" /\ UNCHANGED <<net, sc>>
  BY <1>4 DEF EndPass
<1>5. CASE AcceptConnection
  BY <1>5 DEF AcceptConnection, InPass
<1>6. ASSUME NEW c \in Conns, HandleConnection(c)
      PROVE  listening /\ spc # "ended"
  <2>1. spc # "ended"
    BY <1>6 DEF HandleConnection, InPass
  <2>2. PICK o : IF o.killed THEN EndProcess([net EXCEPT ![c] = o.net])
                             ELSE UNCHANGED <<spc, listening>>
    BY <1>6 DEF HandleConnection
  <2> QED BY <2>1, <2>2 DEF EndProcess
<1> QED
  BY <1>1, <1>2, <1>3, <1>4, <1>5, <1>6 DEF ServerNext

\* The server's steps leave the client's connection as sound as it is.
LEMMA ServerCalm ==
  ASSUME CallInv, CalmInv, OwnHeaders, ServerNext, UNCHANGED <<clientVars, peer, faults>>
  PROVE  CalmInv'
<1> SUFFICES ASSUME Untroubled'
             PROVE  /\ cl'.fd # NoFd => /\ made' \in DOMAIN Wanted
                                        /\ Sound(net'[cl'.fd]) /\ sc'[cl'.fd].keepAlive
                    /\ \A x \in Calls : result'[x] # "false"
  BY DEF CalmInv
<1>1. /\ cl' = cl /\ made' = made /\ result' = result
      /\ Untroubled
      /\ \/ UNCHANGED <<net, sc>>
         \/ AcceptConnection
         \/ \E c \in Conns : HandleConnection(c)
  BY ServerStays DEF Untroubled, clientVars
<1>2. \A x \in Calls : result'[x] # "false"
  BY <1>1 DEF CalmInv
<1> DEFINE f == cl.fd
<1> SUFFICES ASSUME f # NoFd
             PROVE  Sound(net'[f]) /\ sc'[f].keepAlive
  BY <1>1, <1>2 DEF CalmInv
<1>3. /\ made \in DOMAIN Wanted /\ Sound(net[f]) /\ sc[f].keepAlive
      /\ f \in Conns /\ net \in [Conns -> Connection] /\ sc \in [Conns -> Objects]
      /\ net[f] \in Connection /\ sc[f] \in Objects
  BY <1>1 DEF CalmInv, CallInv, XmlRpcInv, ServerInv, ClientInv, NetTypeOK, Cl
<1>4. CASE UNCHANGED <<net, sc>>
  BY <1>3, <1>4
<1>5. CASE AcceptConnection
  <2>1. sc' = sc
    BY <1>5 DEF AcceptConnection
  <2>2. CASE net' = net
    BY <1>3, <2>1, <2>2
  <2>3. ASSUME NEW c, net' = [net EXCEPT ![c].end["server"] = "open"]
        PROVE  Sound(net'[f])
    <3>1. Joins(net[f])
      BY <1>3, ConnectionJoins
    <3>2. CASE c = f
      <4> DEFINE k == [net[f] EXCEPT !.end["server"] = "open"]
      <4>1. k.link = net[f].link /\ k.end["client"] = net[f].end["client"]
            /\ k.end["server"] = "open"
        BY <3>1 DEF Joins, Ends
      <4>2. net'[f] = k
        BY <1>3, <2>3, <3>2
      <4> HIDE DEF k
      <4> QED BY <1>3, <4>1, <4>2 DEF Sound
    <3>3. CASE c # f
      BY <1>3, <2>3, <3>3
    <3> QED BY <3>2, <3>3
  <2>4. net' = net \/ \E c : net' = [net EXCEPT ![c].end["server"] = "open"]
    BY <1>5 DEF AcceptConnection
  <2> QED BY <1>3, <2>1, <2>2, <2>3, <2>4
<1>6. ASSUME NEW c \in Conns, HandleConnection(c)
      PROVE  Sound(net'[f]) /\ sc'[f].keepAlive
  <2>1. PICK o \in HandleEvent(c, spc = "pass") :
         LET n == [net EXCEPT ![c] = o.net]
         IN  IF o.killed THEN EndProcess(n) ELSE
             IF o.on THEN /\ sc' = [sc EXCEPT ![c] = o.conn]
                          /\ net' = n
                     ELSE /\ sc' = [sc EXCEPT ![c] = NewServerConnection]
                          /\ net' = [n EXCEPT ![c] = CloseEnd(@, "server")]
    BY <1>6 DEF HandleConnection
  <2>2. ~o.killed
    BY <2>1 DEF EndProcess, Untroubled
  <2>3. CASE c # f
    BY <1>3, <2>1, <2>2, <2>3
  <2>4. CASE c = f
    <3>1. Line(net[f], sc[f], Call, SentOf(cl), GotOf(cl))
      BY DEF CallInv, Lines, ClientLine, Own
    <3>2. Call \notin Closes \cup NoLength
      BY <1>3 DEF OwnHeaders, Call
    <3>3. (spc = "pass") \in BOOLEAN
      OBVIOUS
    <3>4. Serving(o)
      BY <1>3, <2>4, <3>1, <3>2, <3>3, HandleEventServed
    <3>5. net' = [net EXCEPT ![f] = o.net] /\ sc' = [sc EXCEPT ![f] = o.conn]
      BY <2>1, <2>2, <2>4, <3>4 DEF Serving
    <3> QED BY <1>3, <3>4, <3>5 DEF Serving
  <2> QED BY <2>3, <2>4
<1> QED
  BY <1>1, <1>4, <1>5, <1>6

(***************************************************************************)
(* The client on such a connection.                                        *)
(***************************************************************************)
\* An outcome of the client's stages that goes on, or has the whole response.
Attached(o) ==
  /\ Fit(o) /\ o.fate = "select" /\ o.cl.fd = cl.fd /\ cl.fd # NoFd
  /\ Sound(o.net[cl.fd])
  /\ o.on \/ o.cl.state = "IDLE"

\* A stage changes the object and its connection, and may return false.
LEMMA StageAttached ==
  ASSUME NEW o, Attached(o), NEW k, Sound(k), NEW z, Fit(z), z.fate = o.fate,
         z.net = [o.net EXCEPT ![cl.fd] = k], z.cl.fd = o.cl.fd,
         z.on \/ z.cl.state = "IDLE"
  PROVE  Attached(z)
<1>1. cl.fd \in Conns /\ o.net \in [Conns -> Connection]
  BY DEF Attached, Fit, ClientOutcomes, Cl, Nets
<1> QED
  BY <1>1 DEF Attached

\* Writing the request on a sound connection.
LEMMA WriteAttached ==
  ASSUME NEW o, Attached(o), o.on, Call \in Calls, NEW z \in WriteRequest(o)
  PROVE  Attached(z) /\ z.on
<1>0. /\ Fit(z) /\ o \in ClientOutcomes /\ o.cl \in Cl /\ cl.fd \in Conns /\ o.cl.fd = cl.fd
      /\ o.net \in [Conns -> Connection] /\ o.net[cl.fd] \in Connection
      /\ o.fate = "select" /\ Sound(o.net[cl.fd])
  BY WriteRequestOutcome DEF Attached, Fit, ClientOutcomes, Cl, Nets
<1>1. CASE o.cl.state # "WRITE_REQUEST"
  BY <1>1 DEF WriteRequest
<1>2. CASE o.cl.state = "WRITE_REQUEST"
  <2> DEFINE c == cl.fd
             w == NbWrite(o.net[c], "client", Message(Call), o.cl.written)
             n == [o.net EXCEPT ![c] = w.net]
             l == [o.cl EXCEPT !.written = w.written]
             m == [l EXCEPT !.header = <<>>, !.response = <<>>, !.state = "READ_HEADER"]
             p == [o EXCEPT !.net[o.cl.fd] = w.net, !.cl.written = w.written]
  <2>1. w.status = "ok" /\ Sound(w.net)
    BY <1>0, WriteSound DEF Ends
  <2>2. \/ z = p
        \/ z = [p EXCEPT !.cl.header = <<>>, !.cl.response = <<>>, !.cl.state = "READ_HEADER"]
    <3>1. z \in CASE w.status = "error"   -> {False(p)}
                  [] w.status = "sigpipe" -> {[p EXCEPT !.fate = "killed", !.on = FALSE]}
                  [] w.status = "ok" /\ w.written < Len(Message(Call)) -> {p}
                  [] OTHER -> {[p EXCEPT !.cl.header = <<>>, !.cl.response = <<>>,
                                         !.cl.state = "READ_HEADER"]}
      BY <1>0, <1>2 DEF WriteRequest
    <3> HIDE DEF p, w
    <3> QED BY <2>1, <3>1
  <2> HIDE DEF w
  <2>3. p = [o EXCEPT !.net = n, !.cl = l]
    BY <1>0 DEF ClientOutcomes
  <2>4. l.fd = cl.fd /\ m.fd = cl.fd
    BY <1>0 DEF Cl
  <2> HIDE DEF l, p, n
  <2>5. z = [o EXCEPT !.net = n, !.cl = l] \/ z = [o EXCEPT !.net = n, !.cl = m]
    BY <1>0, <2>2, <2>3 DEF ClientOutcomes
  <2> HIDE DEF m
  <2>6. z.net = n /\ z.cl.fd = cl.fd /\ z.on /\ z.fate = o.fate
    BY <1>0, <2>4, <2>5 DEF ClientOutcomes
  <2>7. z.net = [o.net EXCEPT ![cl.fd] = w.net]
    BY <2>6 DEF n
  <2> QED BY <1>0, <2>1, <2>6, <2>7, StageAttached
<1> QED
  BY <1>1, <1>2

\* Reading the header on a sound connection.
LEMMA HeaderAttached ==
  ASSUME NEW o, Attached(o), NEW a \in BOOLEAN, NEW z \in ReadHeader(o, a)
  PROVE  Attached(z)
<1>0. /\ Fit(z) /\ o \in ClientOutcomes /\ o.cl \in Cl /\ cl.fd \in Conns /\ o.cl.fd = cl.fd
      /\ o.net \in [Conns -> Connection] /\ o.net[cl.fd] \in Connection
      /\ o.fate = "select" /\ Sound(o.net[cl.fd])
  BY ReadHeaderFit DEF Attached, Fit, ClientOutcomes, Cl, Nets
<1>1. CASE ~o.on \/ o.cl.state # "READ_HEADER"
  BY <1>1 DEF ReadHeader
<1>2. CASE ~(~o.on \/ o.cl.state # "READ_HEADER")
  <2> DEFINE c == o.cl.fd
  <2>1. PICK r \in NbRead(o.net[c], "client") :
          LET h == o.cl.header \o r.got
              p == [o EXCEPT !.net[c] = r.net, !.cl.header = h, !.cl.eof = r.status = "eof"]
          IN  z \in
            IF r.status = "error" \/ (r.status = "eof" /\ h = <<>>)
              THEN IF KeepOpen /\ h = <<>> /\ o.cl.attempts = 0
                     THEN Retry(p)
                     ELSE {False([p EXCEPT !.cl.attempts = IF KeepOpen /\ h = <<>> THEN 2 ELSE @])}
            ELSE IF Len(h) <= HeaderLen THEN {[p EXCEPT !.on = r.status # "eof"]}
            ELSE {[p EXCEPT !.cl.header   = <<>>,
                            !.cl.response = SubSeq(h, HeaderLen + 1, Len(h)),
                            !.cl.state    = "READ_RESPONSE"]}
    BY <1>2 DEF ReadHeader
  <2>2. r.status = "ok" /\ Sound(r.net)
    BY <1>0, ReadSound DEF Ends
  <2> DEFINE h == o.cl.header \o r.got
             e == r.status = "eof"
             t == SubSeq(h, HeaderLen + 1, Len(h))
             p == [o EXCEPT !.net[c] = r.net, !.cl.header = h, !.cl.eof = e]
             n == [o.net EXCEPT ![c] = r.net]
             l == [o.cl EXCEPT !.header = h, !.eof = e]
             m == [l EXCEPT !.header = <<>>, !.response = t, !.state = "READ_RESPONSE"]
  <2>3. \/ z = [p EXCEPT !.on = TRUE]
        \/ z = [p EXCEPT !.cl.header = <<>>, !.cl.response = t, !.cl.state = "READ_RESPONSE"]
    <3> HIDE DEF p, t, h
    <3>1. \/ z = [p EXCEPT !.on = r.status # "eof"]
          \/ z = [p EXCEPT !.cl.header = <<>>, !.cl.response = t, !.cl.state = "READ_RESPONSE"]
      BY <2>1, <2>2 DEF p, t, h
    <3> QED BY <2>2, <3>1
  <2> HIDE DEF h, e, t
  <2>4. p = [o EXCEPT !.net = n, !.cl = l]
    BY <1>0 DEF ClientOutcomes
  <2>5. l.fd = cl.fd /\ m.fd = cl.fd
    BY <1>0 DEF Cl
  <2> HIDE DEF p, n
  <2>6. \/ z = [o EXCEPT !.net = n, !.cl = l, !.on = TRUE]
        \/ z = [o EXCEPT !.net = n, !.cl = m]
    <3> HIDE DEF l
    <3> QED BY <1>0, <2>3, <2>4 DEF ClientOutcomes, m
  <2> HIDE DEF l, m
  <2>7. z.net = n /\ z.cl.fd = cl.fd /\ z.on /\ z.fate = o.fate
    BY <1>0, <1>2, <2>5, <2>6 DEF ClientOutcomes
  <2>8. z.net = [o.net EXCEPT ![cl.fd] = r.net]
    BY <1>0, <2>7 DEF n
  <2> QED BY <1>0, <2>2, <2>7, <2>8, StageAttached
<1> QED
  BY <1>1, <1>2

\* Reading the response on a sound connection, which ends with the whole of it.
LEMMA ResponseAttached ==
  ASSUME NEW o, Attached(o), NEW a \in BOOLEAN, NEW z \in ReadResponse(o, a)
  PROVE  Attached(z)
<1>0. /\ Fit(z) /\ o \in ClientOutcomes /\ o.cl \in Cl /\ cl.fd \in Conns /\ o.cl.fd = cl.fd
      /\ o.net \in [Conns -> Connection] /\ o.net[cl.fd] \in Connection
      /\ o.fate = "select" /\ Sound(o.net[cl.fd])
  BY ReadResponseFit DEF Attached, Fit, ClientOutcomes, Cl, Nets
<1>1. CASE ~o.on \/ o.cl.state # "READ_RESPONSE"
  BY <1>1 DEF ReadResponse
<1>2. CASE z = False([o EXCEPT !.cl.state = "IDLE"])
  <2> DEFINE l == [o.cl EXCEPT !.state = "IDLE"]
  <2>1. l.fd = cl.fd /\ l.state = "IDLE"
    BY <1>0 DEF Cl
  <2>2. z = [o EXCEPT !.cl = l, !.on = FALSE]
    BY <1>0, <1>2 DEF ClientOutcomes, False
  <2> HIDE DEF l
  <2>3. z.net = o.net /\ z.cl = l /\ z.fate = o.fate
    BY <1>0, <2>2 DEF ClientOutcomes
  <2> QED BY <1>0, <2>1, <2>3 DEF Attached
<1>3. CASE ~(~o.on \/ o.cl.state # "READ_RESPONSE" \/ Len(o.cl.response) >= BodyLen)
  <2> DEFINE c == cl.fd
  <2>1. PICK r \in NbRead(o.net[c], "client") :
          LET b == o.cl.response \o r.got
              p == [o EXCEPT !.net[c] = r.net, !.cl.response = b, !.cl.eof = r.status = "eof"]
          IN  z = CASE r.status = "error" -> False(p)
                    [] r.status # "error" /\ Len(b) < BodyLen -> [p EXCEPT !.on = r.status # "eof"]
                    [] OTHER -> False([p EXCEPT !.cl.state = "IDLE"])
    BY <1>0, <1>3 DEF ReadResponse
  <2>2. r.status = "ok" /\ Sound(r.net)
    BY <1>0, ReadSound DEF Ends
  <2> DEFINE b == o.cl.response \o r.got
             e == r.status = "eof"
             p == [o EXCEPT !.net[c] = r.net, !.cl.response = b, !.cl.eof = e]
             n == [o.net EXCEPT ![c] = r.net]
             l == [o.cl EXCEPT !.response = b, !.eof = e]
             m == [l EXCEPT !.state = "IDLE"]
  <2>3. z = [p EXCEPT !.on = TRUE] \/ z = False([p EXCEPT !.cl.state = "IDLE"])
    <3> HIDE DEF p, b
    <3>1. z = [p EXCEPT !.on = r.status # "eof"] \/ z = False([p EXCEPT !.cl.state = "IDLE"])
      BY <2>1, <2>2 DEF p, b
    <3> QED BY <2>2, <3>1
  <2> HIDE DEF b, e
  <2>4. p = [o EXCEPT !.net = n, !.cl = l]
    BY <1>0 DEF ClientOutcomes
  <2>5. l.fd = cl.fd /\ m.fd = cl.fd /\ m.state = "IDLE"
    BY <1>0 DEF Cl
  <2> HIDE DEF p, n
  <2>6. \/ z = [o EXCEPT !.net = n, !.cl = l, !.on = TRUE]
        \/ z = [o EXCEPT !.net = n, !.cl = m, !.on = FALSE]
    <3> HIDE DEF l
    <3> QED BY <1>0, <2>3, <2>4 DEF ClientOutcomes, False, m
  <2> HIDE DEF l, m
  <2>7. z.net = n /\ z.cl.fd = cl.fd /\ (z.on \/ z.cl.state = "IDLE") /\ z.fate = o.fate
    BY <1>0, <2>5, <2>6 DEF ClientOutcomes
  <2>8. z.net = [o.net EXCEPT ![cl.fd] = r.net]
    BY <1>0, <2>7 DEF n
  <2> QED BY <1>0, <2>2, <2>7, <2>8, StageAttached
<1> QED
  BY <1>1, <1>2, <1>3 DEF ReadResponse

\* An event of the client on a sound connection.
LEMMA EventAttached ==
  ASSUME Attached(Begun(cl)), Call \in Calls, NEW a \in BOOLEAN,
         NEW z \in ClientHandleEvent(a)
  PROVE  Attached(z)
<1> DEFINE o == Begun(cl)
           Now(p) == a /\ p.cl.state = cl.state
           w == WriteRequest(o)
           h == UNION { ReadHeader(p, Now(p)) : p \in w }
<1>1. z \in UNION { ReadResponse(p, Now(p)) : p \in h }
  BY DEF ClientHandleEvent
<1>2. o.on /\ \A p : Now(p) \in BOOLEAN
  BY DEF Begun
<1> HIDE DEF o, Now
<1>3. PICK p \in h : z \in ReadResponse(p, Now(p))
  BY <1>1
<1>4. PICK y \in w : p \in ReadHeader(y, Now(y))
  BY <1>3
<1>5. Attached(o)
  BY DEF o
<1>6. Attached(y)
  BY <1>2, <1>4, <1>5, WriteAttached
<1>7. Attached(p)
  BY <1>2, <1>4, <1>6, HeaderAttached
<1> QED
  BY <1>2, <1>3, <1>7, ResponseAttached

\* A turn of work() leaves the connection sound, and returns no failure.
LEMMA TurnCalm ==
  ASSUME CallInv, CalmInv, OwnHeaders, NEW a \in BOOLEAN, Turn(a), UNCHANGED <<serverVars, faults>>
  PROVE  CalmInv'
<1> SUFFICES ASSUME Untroubled'
             PROVE  /\ cl'.fd # NoFd => /\ made' \in DOMAIN Wanted
                                        /\ Sound(net'[cl'.fd]) /\ sc'[cl'.fd].keepAlive
                    /\ \A x \in Calls : result'[x] # "false"
  BY DEF CalmInv
<1>1. /\ cpc = "select" /\ UNCHANGED <<listening, made>> /\ sc' = sc /\ Untroubled
  BY DEF Turn, Untroubled, serverVars
<1>2. /\ ClientInv /\ NetTypeOK /\ Ready /\ Lines(net, cl, Call) /\ cd.endTime = "never"
  BY <1>1 DEF CallInv, XmlRpcInv, ServerInv, PeerInv, Ready
<1>3. /\ made \in 1..Len(Wanted) /\ cl.state \in Busy /\ Watched(cd) = {Client}
      /\ cl \in Cl /\ Tied(cl) /\ cl.fd # NoFd
      /\ result \in [Calls -> {"none", "false"} \cup Calls]
  BY <1>1, <1>2, ClientAssumption DEF ClientInv, Tied, Busy
<1>4. Call \in Calls
  BY <1>3, WantedCalls, ClientAssumption DEF Call
<1>5. /\ made \in DOMAIN Wanted /\ Sound(net[cl.fd]) /\ sc[cl.fd].keepAlive
      /\ \A x \in Calls : result[x] # "false"
  BY <1>1, <1>3 DEF CalmInv
<1>6. Fit(Begun(cl)) /\ Attached(Begun(cl))
  <2> DEFINE b == Begun(cl)
  <2>1. /\ b \in ClientOutcomes /\ b.cl = cl /\ b.sent = 0 /\ b.cd = cd
        /\ b.fate = "select" /\ b.on /\ b.net = net
    BY <1>2 DEF Begun, ClientOutcomes, ClientInv, Nets, NetTypeOK
  <2> HIDE DEF b
  <2>2. Fit(b)
    BY <1>2, <1>3, <2>1 DEF Fit, Retried, Busy
  <2>3. Attached(b)
    BY <1>3, <1>5, <2>1, <2>2 DEF Attached
  <2> QED BY <2>2, <2>3 DEF b
<1> DEFINE Mask(o) == IF o.cl.state = "WRITE_REQUEST" THEN {"writable"} ELSE {"readable"}
           Off(o) == [o EXCEPT !.cd = RemoveSource(o.cd, Client)]
           After(o) == IF o.on THEN [o EXCEPT !.cd = SetMask(o.cd, Client, Mask(o))]
                       ELSE IF KeepOpen THEN Off(o) ELSE CloseClient(Off(o))
<1>7. PICK o \in ClientHandleEvent(a) :
       LET p    == After(o)
           over == p.cd.sources = <<>> \/ p.cd.endTime = "now"
           ends == over /\ o.fate = "select"
       IN  /\ net' = p.net
           /\ cl' = IF ends /\ p.cl.state = "IDLE" THEN [p.cl EXCEPT !.response = <<>>] ELSE p.cl
           /\ result' = IF ~ends THEN result ELSE
                        [result EXCEPT ![Call] = IF p.cl.state = "IDLE"
                                                   THEN Parsed(p.cl.response) ELSE "false"]
  BY DEF Turn
<1>8. Attached(o) /\ Says(o) /\ o \in ClientOutcomes /\ o.cl \in Cl
  <2>1. cl.state # "IDLE"
    BY <1>3 DEF Busy
  <2> QED BY <1>2, <1>4, <1>6, <2>1, EventAttached, ClientHandleEventSays
          DEF Attached, Fit, ClientOutcomes
<1> DEFINE p == After(o)
           over == p.cd.sources = <<>> \/ p.cd.endTime = "now"
           ends == over /\ o.fate = "select"
<1>9. /\ net' = p.net
      /\ cl' = IF ends /\ p.cl.state = "IDLE" THEN [p.cl EXCEPT !.response = <<>>] ELSE p.cl
      /\ result' = IF ~ends THEN result ELSE
                   [result EXCEPT ![Call] = IF p.cl.state = "IDLE"
                                              THEN Parsed(p.cl.response) ELSE "false"]
  BY <1>7
<1>10. p.cl = o.cl /\ p.net = o.net
  <2> DEFINE d == IF o.on THEN SetMask(o.cd, Client, Mask(o)) ELSE RemoveSource(o.cd, Client)
  <2>1. p = [o EXCEPT !.cd = d]
    BY DEF OwnHeaders
  <2> HIDE DEF d, p
  <2> QED BY <1>8, <2>1 DEF ClientOutcomes
<1>11. ends => ~o.on
  <2> SUFFICES ASSUME o.on PROVE ~over
    OBVIOUS
  <2> DEFINE d == SetMask(o.cd, Client, Mask(o))
  <2>1. /\ o.cd \in Watchers /\ Distinct(o.cd, {Client}) /\ Client \in Watched(o.cd)
        /\ Mask(o) \in SUBSET Events /\ o.cd.endTime = "never"
    BY <1>2, <1>8 DEF Attached, Says, Fit, ClientOutcomes, Watchers, Events
  <2> HIDE DEF Mask
  <2>2. Watched(d) = Watched(o.cd) /\ d.endTime = o.cd.endTime
    BY <2>1, SetMaskDistinct
  <2>3. p = [o EXCEPT !.cd = d]
    OBVIOUS
  <2> HIDE DEF d, p
  <2>4. p.cd = d
    BY <1>8, <2>3 DEF ClientOutcomes
  <2>5. d.sources # <<>>
    <3>1. Watched(d) # {}
      BY <2>1, <2>2
    <3> QED BY <3>1, EmptySeq DEF Watched
  <2> QED BY <2>1, <2>2, <2>4, <2>5
<1> HIDE DEF ends, p
<1>12. cl'.fd = cl.fd /\ Sound(net'[cl'.fd])
  <2>1. cl'.fd = o.cl.fd
    BY <1>8, <1>9, <1>10 DEF Cl
  <2> QED BY <1>8, <1>9, <1>10, <2>1 DEF Attached
<1>13. \A x \in Calls : result'[x] # "false"
  <2>1. CASE ~ends
    BY <1>5, <1>9, <2>1
  <2>2. CASE ends
    <3>1. o.cl.state = "IDLE"
      BY <1>8, <1>11, <2>2 DEF Attached
    <3>2. o.cl.response \in Seq({Call}) /\ Len(o.cl.response) >= BodyLen
      BY <1>8, <3>1 DEF Attached, Fit, Says
    <3>3. result' = [result EXCEPT ![Call] = Call]
      BY <1>9, <1>10, <2>2, <3>1, <3>2, ParsedIs
    <3>4. Call # "false"
      BY <1>4, ClientAssumption
    <3> QED BY <1>3, <1>5, <3>3, <3>4
  <2> QED BY <2>1, <2>2
<1> QED
  BY <1>1, <1>5, <1>12, <1>13

\* A connection that is made while the server takes connections is as good as
\* one that was kept.
LEMMA SetupCalm ==
  ASSUME Ready, listening, NEW o \in ClientOutcomes, o.on, Tied(o.cl),
         o.cl.fd # NoFd => Sound(o.net[o.cl.fd]) /\ sc[o.cl.fd].keepAlive,
         NEW z \in SetupConnection(o)
  PROVE  /\ z.on /\ z.cl.fd \in Conns
         /\ Sound(z.net[z.cl.fd]) /\ sc[z.cl.fd].keepAlive
<1> DEFINE closes == o.cl.state \notin {"NO_CONNECTION", "IDLE"} \/ o.cl.eof
           p == IF closes THEN CloseClient(o) ELSE o
           q == [p EXCEPT !.cl.eof = FALSE]
<1>1. /\ p \in ClientOutcomes /\ Tied(p.cl) /\ p.on
      /\ p.cl.state \in {"NO_CONNECTION", "IDLE"}
      /\ p.cl.fd # NoFd => Sound(p.net[p.cl.fd]) /\ sc[p.cl.fd].keepAlive
  <2>1. CASE closes
    BY <2>1, CloseClientOutcome DEF Tied, Alike
  <2>2. CASE ~closes
    BY <2>2
  <2> QED BY <2>1, <2>2
<1>2. PICK r \in IF q.cl.state = "NO_CONNECTION" THEN DoConnect(q) ELSE {q} :
        z = IF ~r.on THEN r ELSE
              [r EXCEPT !.sent       = 1,
                        !.cl.state   = "WRITE_REQUEST",
                        !.cl.written = 0,
                        !.cd = AddSource(RemoveSource(r.cd, Client), Client,
                                         {"writable", "exception"})]
  BY DEF SetupConnection
<1> HIDE DEF p
<1>3. /\ q \in ClientOutcomes /\ Tied(q.cl) /\ q.on
      /\ q.cl.fd # NoFd => Sound(q.net[q.cl.fd]) /\ sc[q.cl.fd].keepAlive
  <2> DEFINE l == [p.cl EXCEPT !.eof = FALSE]
  <2>1. /\ l.state = p.cl.state /\ l.fd = p.cl.fd /\ l \in Cl
    BY <1>1 DEF ClientOutcomes, Cl
  <2>2. q = [p EXCEPT !.cl = l]
    BY <1>1 DEF ClientOutcomes
  <2> HIDE DEF l
  <2>3. q \in ClientOutcomes /\ q.cl = l /\ q.net = p.net /\ q.on = p.on
    BY <1>1, <2>1, <2>2 DEF ClientOutcomes
  <2> HIDE DEF q
  <2> QED BY <1>1, <2>1, <2>3 DEF Tied
<1> HIDE DEF q, closes
<1>4. /\ r \in ClientOutcomes /\ r.on /\ r.cl.fd \in Conns
      /\ Sound(r.net[r.cl.fd]) /\ sc[r.cl.fd].keepAlive
  <2>1. CASE q.cl.state # "NO_CONNECTION"
    BY <1>2, <1>3, <2>1 DEF Tied, ClientOutcomes, Cl
  <2>2. CASE q.cl.state = "NO_CONNECTION"
    <3>1. PICK c \in Fresh(q.net) : r = [q EXCEPT !.cl.fd = c, !.net[c] = Connected]
      BY <1>2, <2>2 DEF DoConnect
    <3> DEFINE n == [q.net EXCEPT ![c] = Connected]
               l == [q.cl EXCEPT !.fd = c]
    <3>2. r = [q EXCEPT !.net = n, !.cl = l]
      BY <1>3, <3>1 DEF ClientOutcomes
    <3>3. c \in Conns /\ q.net[c] = NoConnection /\ q.net \in Nets /\ q.cl \in Cl
      BY <1>3 DEF Fresh, ClientOutcomes
    <3>4. n[c] = Connected /\ l.fd = c
      BY <3>3 DEF Nets, Cl
    <3>5. Sound(Connected)
      BY DEF Sound, Connected, NoConnection, Ends
    <3>6. sc[c].keepAlive
      <4>1. net[c].end["server"] # "open"
        <5>1. q.net[c].end["server"] # "open"
          BY <3>3 DEF NoConnection, Ends
        <5> QED BY <3>3, <5>1 DEF Nets, OpenEnds
      <4>2. sc[c] = NewServerConnection
        BY <3>3, <4>1 DEF Ready, NewObjects
      <4> QED BY <4>2 DEF NewServerConnection
    <3> HIDE DEF n, l
    <3>7. r.net = n /\ r.cl = l /\ r.on
      BY <1>3, <3>2 DEF ClientOutcomes
    <3>8. r \in ClientOutcomes
      BY <1>2, <1>3, <2>2, DoConnectOutcome
    <3> QED BY <3>3, <3>4, <3>5, <3>6, <3>7, <3>8
  <2> QED BY <2>1, <2>2
<1>5. z.on /\ z.net = r.net /\ z.cl.fd = r.cl.fd
  <2> DEFINE d == AddSource(RemoveSource(r.cd, Client), Client, {"writable", "exception"})
             l == [r.cl EXCEPT !.state = "WRITE_REQUEST", !.written = 0]
  <2>1. l.fd = r.cl.fd
    BY <1>4 DEF ClientOutcomes, Cl
  <2> HIDE DEF d
  <2>2. z = [r EXCEPT !.sent = 1, !.cl = l, !.cd = d]
    BY <1>2, <1>4 DEF ClientOutcomes, d
  <2> HIDE DEF l
  <2>3. z.on /\ z.net = r.net /\ z.cl = l
    BY <1>4, <2>2 DEF ClientOutcomes
  <2> QED BY <2>1, <2>3
<1> QED
  BY <1>4, <1>5

\* execute() gets a connection, and does not fail at once.
LEMMA ExecuteCalm ==
  ASSUME CallInv, CalmInv, Execute, UNCHANGED <<serverVars, faults>>
  PROVE  CalmInv'
<1> SUFFICES ASSUME Untroubled'
             PROVE  /\ cl'.fd # NoFd => /\ made' \in DOMAIN Wanted
                                        /\ Sound(net'[cl'.fd]) /\ sc'[cl'.fd].keepAlive
                    /\ \A x \in Calls : result'[x] # "false"
  BY DEF CalmInv
<1>1. /\ UNCHANGED listening /\ sc' = sc /\ Untroubled /\ listening
  BY DEF Execute, Untroubled, serverVars
<1>2. ClientInv /\ NetTypeOK /\ Ready
  BY DEF CallInv, XmlRpcInv, ServerInv, PeerInv, Ready
<1>3. /\ cl.fd # NoFd => Sound(net[cl.fd]) /\ sc[cl.fd].keepAlive
      /\ \A x \in Calls : result[x] # "false"
  BY <1>1 DEF CalmInv
<1> DEFINE k == [cl EXCEPT !.attempts = 0]
           b == Begun(k)
<1>4. PICK o \in SetupConnection(b) :
       /\ cl' = o.cl
       /\ net' = o.net
       /\ o.on => UNCHANGED result
  BY DEF Execute
<1>5. k \in Cl /\ Tied(k) /\ k.fd = cl.fd
  <2>1. 0 \in 0..2
    OBVIOUS
  <2> QED BY <1>2, <2>1 DEF ClientInv, Cl, Tied
<1> HIDE DEF k
<1>6. b \in ClientOutcomes /\ b.on /\ b.cl = k /\ b.net = net
  BY <1>2, <1>5 DEF Begun, ClientOutcomes, ClientInv, Nets, NetTypeOK
<1> HIDE DEF b
<1>7. o.on /\ Sound(o.net[o.cl.fd]) /\ sc[o.cl.fd].keepAlive
  BY <1>1, <1>2, <1>3, <1>5, <1>6, SetupCalm
<1>8. made' \in DOMAIN Wanted
  BY <1>2, ClientAssumption DEF Execute, ClientInv
<1> QED
  BY <1>1, <1>3, <1>4, <1>7, <1>8

\* Every step leaves the client's connection as it should be, or is a fault.
LEMMA CalmStep ==
  ASSUME OwnHeaders, CallInv, CalmInv, [Next]_vars
  PROVE  CalmInv'
<1>0. XmlRpcInv /\ ServerInv /\ NetTypeOK /\ NewObjects /\ Lines(net, cl, Call) /\ cl \in Cl
  BY DEF CallInv, XmlRpcInv, ServerInv, ClientInv
<1>1. CASE ByServer(ServerNext)
  BY <1>1, ServerCalm DEF ByServer
<1>2. CASE ByClient(ClientNext)
  BY <1>2, ExecuteCalm, TurnCalm DEF ByClient, ClientNext
<1>3. ASSUME UNCHANGED <<listening, serverVars, clientVars, faults>>,
             cl.fd # NoFd => net'[cl.fd] = net[cl.fd]
      PROVE  CalmInv'
  BY <1>3 DEF CalmInv, Untroubled, serverVars, clientVars
<1>4. CASE PeerStep
  <2>1. PICK c, k : PeerMoves(c, k)
    BY <1>0, <1>4, PeerStepMoves
  <2>2. cl.fd # NoFd => net'[cl.fd] = net[cl.fd]
    BY <1>0, <2>1 DEF PeerMoves, NetTypeOK, Cl
  <2> QED BY <1>3, <1>4, <2>2 DEF PeerStep
<1>5. CASE Fault
  <2>1. faults \in Nat /\ faults' = faults + 1
    BY <1>0, <1>5, XmlRpcAssumption DEF Fault, XmlRpcInv
  <2>2. ~Untroubled'
    BY <2>1 DEF Untroubled
  <2> QED BY <2>2 DEF CalmInv
<1>6. CASE UNCHANGED vars
  BY <1>3, <1>6 DEF vars
<1> QED
  BY <1>1, <1>2, <1>4, <1>5, <1>6 DEF Next

\* At first there is no connection and nothing has failed.
LEMMA CalmStart == Init => CalmInv
<1> SUFFICES ASSUME Init PROVE CalmInv
  OBVIOUS
<1>1. cl.fd = NoFd /\ result = [x \in Calls |-> "none"]
  BY DEF Init, ClientInit
<1> QED
  BY <1>1 DEF CalmInv

\* With the headers that generateHeader() makes and connections that are kept
\* (XmlRpcClient.cpp:47), execute() returns false only after a fault of the
\* environment or the end of the server: no order of what the client, the
\* server and another peer do makes a call fail, and no leftover of an earlier one.
THEOREM FailsCorrect ==
  ASSUME OwnHeaders
  PROVE  Spec => []FailsOnlyByFault
<1>1. CallInv /\ CalmInv => FailsOnlyByFault
  <2> SUFFICES ASSUME CallInv, CalmInv, NEW x \in Calls, result[x] = "false"
               PROVE  faults > 0 \/ ~listening \/ spc = "ended"
    BY DEF FailsOnlyByFault
  <2>1. ~Untroubled
    BY DEF CalmInv
  <2>2. faults \in Nat
    BY XmlRpcAssumption DEF CallInv, XmlRpcInv
  <2> QED BY <2>1, <2>2 DEF Untroubled
<1>2. CallInv /\ [Next]_vars => CallInv'
  BY CallStep
<1>3. CallInv /\ CalmInv /\ [Next]_vars => CalmInv'
  BY CalmStep
<1> QED
  BY CallStart, CalmStart, <1>1, <1>2, <1>3, PTL DEF Spec
=============================================================================
