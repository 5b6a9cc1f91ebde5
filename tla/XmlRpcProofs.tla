---------------------------- MODULE XmlRpcProofs ----------------------------
(***************************************************************************)
(* The types of the XMLRPC library's connections, server and client, and   *)
(* that the server's dispatcher watches exactly what is open, for any      *)
(* calls, connections and sizes of messages, and any number of faults.     *)
(***************************************************************************)
EXTENDS XmlRpc, SequenceTheorems, WellFoundedInduction, TLAPS

(***************************************************************************)
(* Dispatchers.                                                            *)
(***************************************************************************)
Sources(S) == [src : S, mask : SUBSET Events]

Dispatchers(S) ==
  [sources : Seq(Sources(S)), endTime : EndTimes,
   doClear : BOOLEAN, inWork : BOOLEAN]

\* A dispatcher with one entry at most for each source.
Distinct(d, S) ==
  /\ d \in Dispatchers(S)
  /\ \A i, j \in 1..Len(d.sources) :
       d.sources[i].src = d.sources[j].src => i = j

LEMMA LeastOf ==
  ASSUME NEW T, T \subseteq Nat, T # {}
  PROVE  Min(T) \in T
<1> DEFINE R == OpToRel(<, Nat)
<1>1. \A x, y \in Nat : <<y, x>> \in R <=> y < x
  BY DEF OpToRel
<1>2. IsWellFoundedOn(R, Nat)
  BY NatLessThanWellFounded
<1> HIDE DEF R
<1>3. \E x \in T : \A y \in T : <<y, x>> \notin R
  BY <1>2, WFMin
<1>4. PICK x \in T : \A y \in T : <<y, x>> \notin R
  BY <1>3
<1>5. x \in Nat /\ \A y \in T : y \in Nat
  BY <1>4
<1>6. \A y \in T : x <= y
  <2> SUFFICES ASSUME NEW y \in T PROVE x <= y
    OBVIOUS
  <2>1. ~(y < x)
    BY <1>1, <1>4, <1>5
  <2> QED BY ONLY <2>1, <1>5
<1> QED
  BY <1>4, <1>6 DEF Min

LEMMA RemovedIs ==
  ASSUME NEW S, NEW q \in Seq(S), NEW k \in 1..Len(q)
  PROVE  /\ RemoveAt(q, k) \in Seq(S) /\ Len(RemoveAt(q, k)) = Len(q) - 1
         /\ \A i \in 1..(Len(q) - 1) :
              RemoveAt(q, k)[i] = q[IF i < k THEN i ELSE i + 1]
<1> DEFINE u == SubSeq(q, 1, k - 1)
           v == SubSeq(q, k + 1, Len(q))
<1>1. Len(q) \in Nat /\ k \in 1..Len(q)
  OBVIOUS
<1>2. /\ u \in Seq(S) /\ Len(u) = k - 1
      /\ \A i \in 1..(k - 1) : u[i] = q[i]
  BY <1>1
<1>3. /\ v \in Seq(S) /\ Len(v) = Len(q) - k
      /\ \A i \in 1..(Len(q) - k) : v[i] = q[i + k]
  BY <1>1
<1> HIDE DEF u, v
<1>4. /\ u \o v \in Seq(S) /\ Len(u \o v) = Len(u) + Len(v)
      /\ \A i \in 1..(Len(u) + Len(v)) :
           (u \o v)[i] = IF i <= Len(u) THEN u[i] ELSE v[i - Len(u)]
  <2>1. u \in Seq(S) /\ v \in Seq(S)
    BY <1>2, <1>3
  <2> QED
    BY ONLY <2>1
<1>5. RemoveAt(q, k) = u \o v
  BY DEF RemoveAt, u, v
<1>6. Len(u) = k - 1 /\ Len(u) + Len(v) = Len(q) - 1
  BY <1>1, <1>2, <1>3
<1>7. ASSUME NEW i \in 1..(Len(q) - 1)
      PROVE  (u \o v)[i] = q[IF i < k THEN i ELSE i + 1]
  <2>1. CASE i < k
    BY <1>1, <1>2, <1>4, <1>6, <2>1
  <2>2. CASE i >= k
    <3>1. /\ i - (k - 1) \in 1..(Len(q) - k) /\ ~(i <= k - 1)
          /\ (i - (k - 1)) + k = i + 1 /\ ~(i < k)
      BY <1>1, <2>2
    <3>2. (u \o v)[i] = v[i - (k - 1)]
      BY <1>4, <1>6, <3>1
    <3> QED BY <1>3, <3>1, <3>2
  <2>3. i < k \/ i >= k
    BY <1>1
  <2> QED BY <2>1, <2>2, <2>3
<1> QED
  BY <1>4, <1>5, <1>6, <1>7

LEMMA DispatcherFields ==
  ASSUME NEW S, NEW d, Distinct(d, S)
  PROVE  /\ d.sources \in Seq(Sources(S)) /\ Len(d.sources) \in Nat
         /\ DOMAIN d.sources = 1..Len(d.sources)
         /\ \A i \in 1..Len(d.sources) : /\ d.sources[i] \in Sources(S)
                                         /\ d.sources[i].src \in S
         /\ d.endTime \in EndTimes /\ d.doClear \in BOOLEAN /\ d.inWork \in BOOLEAN
         /\ Watched(d) = {d.sources[i].src : i \in 1..Len(d.sources)}
         /\ Watched(d) \subseteq S
         /\ d.sources = <<>> <=> Watched(d) = {}
<1>1. /\ d.sources \in Seq(Sources(S)) /\ Len(d.sources) \in Nat
      /\ DOMAIN d.sources = 1..Len(d.sources)
      /\ d.endTime \in EndTimes /\ d.doClear \in BOOLEAN /\ d.inWork \in BOOLEAN
  BY DEF Distinct, Dispatchers
<1>2. \A i \in 1..Len(d.sources) : d.sources[i] \in Sources(S)
  BY <1>1
<1>3. \A i \in 1..Len(d.sources) : d.sources[i].src \in S
  BY <1>2 DEF Sources
<1>4. Watched(d) = {d.sources[i].src : i \in 1..Len(d.sources)}
  BY <1>1 DEF Watched
<1>5. d.sources = <<>> <=> Watched(d) = {}
  <2>1. d.sources = <<>> <=> Len(d.sources) = 0
    BY <1>1
  <2>2. Len(d.sources) # 0 => 1 \in 1..Len(d.sources)
    BY <1>1
  <2>3. d.sources # <<>> => d.sources[1].src \in Watched(d)
    BY <1>1, <1>4, <2>1, <2>2
  <2>4. d.sources = <<>> => 1..Len(d.sources) = {}
    BY <2>1
  <2> QED BY <1>4, <2>3, <2>4
<1> QED
  BY <1>1, <1>2, <1>3, <1>4, <1>5

LEMMA IndexFound ==
  ASSUME NEW S, NEW d, Distinct(d, S), NEW s \in Watched(d)
  PROVE  /\ IndexOf(d, s) \in 1..Len(d.sources)
         /\ d.sources[IndexOf(d, s)].src = s
<1> DEFINE T == {i \in 1..Len(d.sources) : d.sources[i].src = s}
<1>1. T # {} /\ T \subseteq Nat
  BY DispatcherFields
<1>2. IndexOf(d, s) = Min(T)
  BY <1>1 DEF IndexOf, SelectInSeq
<1> QED
  BY <1>1, <1>2, LeastOf

LEMMA FirstIsReady ==
  ASSUME NEW S, NEW d, Distinct(d, S), NEW R, R \subseteq Watched(d), R # {}
  PROVE  FirstOf(d, R) \in R
<1> DEFINE T == {i \in 1..Len(d.sources) : d.sources[i].src \in R}
<1>1. T # {} /\ T \subseteq Nat
  BY DispatcherFields
<1>2. FirstOf(d, R) = d.sources[Min(T)].src
  BY <1>1 DEF FirstOf, SelectInSeq
<1> QED
  BY <1>1, <1>2, LeastOf

LEMMA NewIsDistinct ==
  ASSUME NEW S
  PROVE  Distinct(NewDispatcher, S) /\ Watched(NewDispatcher) = {}
BY DEF Distinct, Dispatchers, NewDispatcher, Watched, EndTimes

LEMMA AddDistinct ==
  ASSUME NEW S, NEW d, Distinct(d, S), NEW s \in S, s \notin Watched(d),
         NEW mask \in SUBSET Events
  PROVE  /\ Distinct(AddSource(d, s, mask), S)
         /\ Watched(AddSource(d, s, mask)) = Watched(d) \cup {s}
<1> DEFINE m == [src |-> s, mask |-> mask]
           q == Append(d.sources, m)
           e == AddSource(d, s, mask)
<1>1. m \in Sources(S)
  BY DEF Sources
<1>2. /\ q \in Seq(Sources(S)) /\ Len(q) = Len(d.sources) + 1
      /\ \A i \in 1..Len(d.sources) : q[i] = d.sources[i]
      /\ q[Len(d.sources) + 1] = m
  BY <1>1, DispatcherFields
<1>3. e = [d EXCEPT !.sources = q]
  BY DEF AddSource
<1>4. e \in Dispatchers(S) /\ e.sources = q
  BY <1>2, <1>3 DEF Distinct, Dispatchers
<1>5. \A i, j \in 1..Len(q) : q[i].src = q[j].src => i = j
  BY <1>2, DispatcherFields DEF Distinct
<1>6. Distinct(e, S)
  BY <1>4, <1>5 DEF Distinct
<1>7. {q[i].src : i \in 1..Len(q)} = {d.sources[i].src : i \in 1..Len(d.sources)} \cup {s}
  BY <1>2, DispatcherFields
<1>8. Watched(e) = {e.sources[i].src : i \in 1..Len(e.sources)}
  BY <1>6, DispatcherFields
<1> QED
  BY <1>4, <1>6, <1>7, <1>8, DispatcherFields

LEMMA RemoveDistinct ==
  ASSUME NEW S, NEW d, Distinct(d, S), NEW s
  PROVE  /\ Distinct(RemoveSource(d, s), S)
         /\ Watched(RemoveSource(d, s)) = Watched(d) \ {s}
         /\ RemoveSource(d, s).endTime = d.endTime
<1>1. CASE s \notin Watched(d)
  BY <1>1 DEF RemoveSource
<1>2. CASE s \in Watched(d)
  <2> DEFINE k == IndexOf(d, s)
             q == RemoveAt(d.sources, k)
             e == RemoveSource(d, s)
  <2>1. k \in 1..Len(d.sources) /\ d.sources[k].src = s
    BY <1>2, IndexFound
  <2>2. /\ q \in Seq(Sources(S)) /\ Len(q) = Len(d.sources) - 1
        /\ \A i \in 1..Len(q) : q[i] = d.sources[IF i < k THEN i ELSE i + 1]
    <3>1. d.sources \in Seq(Sources(S)) /\ Len(d.sources) \in Nat
      BY DispatcherFields
    <3> HIDE DEF k
    <3> QED BY <2>1, <3>1, RemovedIs
  <2>3. e = [d EXCEPT !.sources = q]
    BY <1>2 DEF RemoveSource
  <2> HIDE DEF k, q
  <2>4. e \in Dispatchers(S) /\ e.sources = q /\ e.endTime = d.endTime
    BY <2>2, <2>3 DEF Distinct, Dispatchers
  <2>5. \A i, j \in 1..Len(q) : q[i].src = q[j].src => i = j
    <3>1. Len(d.sources) \in Nat
      BY DispatcherFields
    <3>2. \A i \in 1..Len(q) : (IF i < k THEN i ELSE i + 1) \in 1..Len(d.sources)
      BY <2>1, <2>2, <3>1
    <3>3. \A i, j \in 1..Len(q) :
            (IF i < k THEN i ELSE i + 1) = (IF j < k THEN j ELSE j + 1) => i = j
      BY <2>1, <2>2, <3>1
    <3> QED BY <2>2, <3>2, <3>3 DEF Distinct
  <2>6. Distinct(e, S)
    BY <2>4, <2>5 DEF Distinct
  <2>7. \A i \in 1..Len(d.sources) : i # k => \E j \in 1..Len(q) : q[j] = d.sources[i]
    <3> SUFFICES ASSUME NEW i \in 1..Len(d.sources), i # k
                 PROVE  \E j \in 1..Len(q) : q[j] = d.sources[i]
      OBVIOUS
    <3>1. CASE i < k
      <4>1. i \in 1..Len(q)
        BY <2>1, <2>2, <3>1, DispatcherFields
      <4> QED BY <2>2, <3>1, <4>1
    <3>2. CASE i > k
      <4>1. i - 1 \in 1..Len(q) /\ ~(i - 1 < k) /\ (i - 1) + 1 = i
        BY <2>1, <2>2, <3>2, DispatcherFields
      <4> QED BY <2>2, <4>1
    <3> QED BY <2>1, <3>1, <3>2, DispatcherFields
  <2>8. {q[i].src : i \in 1..Len(q)} = {d.sources[i].src : i \in 1..Len(d.sources)} \ {s}
    <3>1. \A i \in 1..Len(q) : /\ (IF i < k THEN i ELSE i + 1) \in 1..Len(d.sources)
                               /\ (IF i < k THEN i ELSE i + 1) # k
      BY <2>1, <2>2, DispatcherFields
    <3>2. \A i \in 1..Len(q) : \E j \in 1..Len(d.sources) : j # k /\ q[i] = d.sources[j]
      BY <2>2, <3>1
    <3>3. \A i \in 1..Len(d.sources) : d.sources[i].src = s => i = k
      BY <2>1 DEF Distinct
    <3>4. {q[i].src : i \in 1..Len(q)} \subseteq {d.sources[i].src : i \in 1..Len(d.sources)} \ {s}
      BY <3>2, <3>3
    <3>5. ASSUME NEW i \in 1..Len(d.sources), d.sources[i].src # s
          PROVE  \E j \in 1..Len(q) : q[j].src = d.sources[i].src
      BY <2>1, <2>7, <3>5
    <3> QED BY <3>4, <3>5
  <2>9. Watched(e) = {e.sources[i].src : i \in 1..Len(e.sources)}
    BY <2>6, DispatcherFields
  <2>10. Watched(d) = {d.sources[i].src : i \in 1..Len(d.sources)}
    BY DispatcherFields
  <2> QED
    BY <2>4, <2>6, <2>8, <2>9, <2>10
<1> QED
  BY <1>1, <1>2

LEMMA SetMaskDistinct ==
  ASSUME NEW S, NEW d, Distinct(d, S), NEW s \in Watched(d), NEW mask \in SUBSET Events
  PROVE  /\ Distinct(SetMask(d, s, mask), S)
         /\ Watched(SetMask(d, s, mask)) = Watched(d)
         /\ SetMask(d, s, mask).endTime = d.endTime
<1> DEFINE k == IndexOf(d, s)
           q == [d.sources EXCEPT ![k].mask = mask]
           e == SetMask(d, s, mask)
<1>1. k \in 1..Len(d.sources)
  BY IndexFound
<1> HIDE DEF k
<1>2. d.sources[k] \in Sources(S)
  BY <1>1, DispatcherFields
<1>3. /\ q \in Seq(Sources(S)) /\ Len(q) = Len(d.sources)
      /\ \A i \in 1..Len(q) : q[i].src = d.sources[i].src
  <2>1. [d.sources[k] EXCEPT !.mask = mask] \in Sources(S)
    BY <1>2 DEF Sources
  <2>2. [d.sources[k] EXCEPT !.mask = mask].src = d.sources[k].src
    BY <1>2 DEF Sources
  <2> QED BY <1>1, <2>1, <2>2, DispatcherFields, ExceptSeq
<1>4. e = [d EXCEPT !.sources = q]
  BY DEF SetMask, k
<1> HIDE DEF q
<1>5. e \in Dispatchers(S) /\ e.sources = q /\ e.endTime = d.endTime
  BY <1>3, <1>4 DEF Distinct, Dispatchers
<1>6. Distinct(e, S)
  BY <1>3, <1>5 DEF Distinct
<1>7. {q[i].src : i \in 1..Len(q)} = {d.sources[i].src : i \in 1..Len(d.sources)}
  BY <1>3
<1>8. Watched(e) = {e.sources[i].src : i \in 1..Len(e.sources)}
  BY <1>6, DispatcherFields
<1>9. Watched(d) = {d.sources[i].src : i \in 1..Len(d.sources)}
  BY DispatcherFields
<1> QED
  BY <1>5, <1>6, <1>7, <1>8, <1>9

(***************************************************************************)
(* Connections.                                                            *)
(***************************************************************************)
LEMMA Lengths ==
  /\ HeaderLen \in Nat /\ HeaderLen >= 1 /\ BodyLen \in Nat /\ BodyLen >= 1
  /\ Cap \in Nat /\ Cap >= 1 /\ NumConns \in Nat
BY SocketAssumption

LEMMA DataAreSequences ==
  ASSUME NEW q
  PROVE  q \in UNION {[1..n -> Calls] : n \in 0..Cap}
           <=> q \in Seq(Calls) /\ Len(q) <= Cap
<1>1. ASSUME NEW n \in 0..Cap, q \in [1..n -> Calls]
      PROVE  q \in Seq(Calls) /\ Len(q) <= Cap
  <2>1. n \in Nat /\ n <= Cap
    BY Lengths
  <2>2. q \in Seq(Calls)
    BY <1>1, <2>1, SeqDef
  <2>3. Len(q) = n
    BY <1>1, <2>1, <2>2, LenProperties
  <2> QED BY <2>1, <2>2, <2>3
<1>2. ASSUME q \in Seq(Calls), Len(q) <= Cap
      PROVE  \E n \in 0..Cap : q \in [1..n -> Calls]
  <2>1. Len(q) \in Nat /\ q \in [1..Len(q) -> Calls]
    BY <1>2, LenProperties
  <2>2. Len(q) \in 0..Cap
    BY <1>2, <2>1, Lengths
  <2> QED BY <2>1, <2>2
<1> QED
  BY <1>1, <1>2

LEMMA MessageIs ==
  ASSUME NEW x \in Calls
  PROVE  /\ Message(x) \in Seq(Calls) /\ Len(Message(x)) = HeaderLen + BodyLen
         /\ Message(x) # <<>>
<1>1. HeaderLen + BodyLen \in Nat /\ HeaderLen + BodyLen > 0
  BY Lengths
<1>2. Message(x) \in [1..(HeaderLen + BodyLen) -> Calls]
  BY DEF Message
<1>3. Message(x) \in Seq(Calls)
  BY <1>1, <1>2, SeqDef
<1> QED
  BY <1>1, <1>2, <1>3, LenProperties, EmptySeq

\* A connection, with its data as sequences.
Joins(k) ==
  /\ k \in [end : [Ends -> EndStates], data : [Ends -> Seq(Calls)],
            link : {"up", "reset", "pipe"}]
  /\ \A e \in Ends : Len(k.data[e]) <= Cap

LEMMA ConnectionJoins == \A k : k \in Connection <=> Joins(k)
<1> DEFINE D == UNION {[1..n -> Calls] : n \in 0..Cap}
<1>1. \A q : q \in D <=> q \in Seq(Calls) /\ Len(q) <= Cap
  BY DataAreSequences
<1>2. Connection = [end : [Ends -> EndStates], data : [Ends -> D],
                    link : {"up", "reset", "pipe"}]
  BY DEF Connection
<1> HIDE DEF D
<1> QED
  BY <1>1, <1>2 DEF Joins

LEMMA NoConnectionJoins == NoConnection \in Connection
<1>1. <<>> \in Seq(Calls) /\ Len(<<>>) <= Cap
  BY EmptySeq, Lengths
<1>2. Joins(NoConnection)
  BY <1>1 DEF Joins, NoConnection, EndStates
<1> QED BY <1>2, ConnectionJoins

LEMMA NewJoins ==
  /\ Connected \in Connection /\ Connected.end["server"] = "backlog"
  /\ Refused \in Connection /\ Refused.end["server"] = "none"
<1>1. Joins(NoConnection) /\ NoConnection.end["server"] = "none"
  BY NoConnectionJoins, ConnectionJoins DEF NoConnection, Ends
<1>2. Joins(Connected) /\ Connected.end["server"] = "backlog"
  BY <1>1 DEF Joins, Connected, NoConnection, Ends, EndStates
<1>3. Joins(Refused) /\ Refused.end["server"] = "none"
  BY <1>1 DEF Joins, Refused, NoConnection, Ends, EndStates
<1> QED BY <1>2, <1>3, ConnectionJoins

LEMMA CloseJoins ==
  ASSUME NEW k \in Connection, NEW e \in Ends
  PROVE  /\ CloseEnd(k, e) \in Connection
         /\ CloseEnd(k, e).end[e] = "closed"
         /\ \A f \in Ends : k.end[f] \in {"open", "backlog"} /\ f # e =>
              CloseEnd(k, e).end[f] = k.end[f]
         /\ \A f \in Ends : k.end[f] \notin {"open", "backlog"} /\ f # e =>
              CloseEnd(k, e).end[f] \in {k.end[f], "closed"}
<1> DEFINE j == [k EXCEPT !.end[e]  = "closed",
                          !.data[e] = <<>>,
                          !.link    = IF k.data[e] # <<>> THEN "reset" ELSE @]
<1>1. Joins(k) /\ <<>> \in Seq(Calls) /\ Len(<<>>) <= Cap
  BY ConnectionJoins, EmptySeq, Lengths
<1>2. /\ Joins(j) /\ j.end[e] = "closed"
      /\ \A f \in Ends : f # e => j.end[f] = k.end[f]
  BY <1>1 DEF Joins, EndStates
<1>3. CloseEnd(k, e) = Gone(j)
  BY DEF CloseEnd
<1> HIDE DEF j
<1>4. CASE \A f \in Ends : j.end[f] # "open" /\ j.end[f] # "backlog"
  <2>1. Gone(j) = [NoConnection EXCEPT !.end = [f \in Ends |-> "closed"]]
    BY <1>4 DEF Gone
  <2>2. Joins(NoConnection)
    BY NoConnectionJoins, ConnectionJoins
  <2> DEFINE both == [f \in Ends |-> "closed"]
  <2>3. both \in [Ends -> EndStates] /\ \A f \in Ends : both[f] = "closed"
    BY DEF EndStates
  <2> HIDE DEF both
  <2>4. Joins([NoConnection EXCEPT !.end = both]) /\ [NoConnection EXCEPT !.end = both].end = both
    BY <2>2, <2>3 DEF Joins
  <2>5. Gone(j) = [NoConnection EXCEPT !.end = both]
    BY <2>1 DEF both
  <2>6. Joins(Gone(j)) /\ \A f \in Ends : Gone(j).end[f] = "closed"
    BY <2>3, <2>4, <2>5
  <2> QED
    BY <1>2, <1>3, <1>4, <2>6, ConnectionJoins
<1>5. CASE ~\A f \in Ends : j.end[f] # "open" /\ j.end[f] # "backlog"
  <2>1. Gone(j) = j
    BY <1>5 DEF Gone
  <2> QED
    BY <1>2, <1>3, <2>1, ConnectionJoins
<1> QED
  BY <1>4, <1>5

LEMMA ReadJoins ==
  ASSUME NEW k \in Connection, NEW e \in Ends, NEW r \in NbRead(k, e)
  PROVE  /\ r.got \in Seq(Calls) /\ r.status \in {"ok", "eof", "error"}
         /\ r.net \in Connection /\ r.net.end = k.end
<1> DEFINE q == k.data[e]
<1>1. Joins(k) /\ q \in Seq(Calls) /\ Len(q) \in Nat /\ Len(q) <= Cap
  BY ConnectionJoins DEF Joins
<1>2. PICK n \in 0..Len(q), st \in {"ok", "eof", "error"} :
        r = [got |-> SubSeq(q, 1, n), status |-> st,
             net |-> [k EXCEPT !.data[e] = SubSeq(q, n + 1, Len(q))]]
  BY DEF NbRead
<1> HIDE DEF q
<1>3. SubSeq(q, 1, n) \in Seq(Calls)
  BY <1>1
<1>4. SubSeq(q, n + 1, Len(q)) \in Seq(Calls) /\ Len(SubSeq(q, n + 1, Len(q))) <= Cap
  BY <1>1, Lengths
<1> DEFINE t == SubSeq(q, n + 1, Len(q))
<1> HIDE DEF t
<1>5. Joins([k EXCEPT !.data[e] = t]) /\ [k EXCEPT !.data[e] = t].end = k.end
  BY <1>1, <1>4 DEF Joins, t
<1> QED
  BY <1>2, <1>3, <1>5, ConnectionJoins DEF t

LEMMA WriteJoins ==
  ASSUME NEW k \in Connection, NEW e \in Ends, NEW msg \in Seq(Calls),
         NEW written \in 0..Len(msg)
  PROVE  /\ NbWrite(k, e, msg, written).net \in Connection
         /\ NbWrite(k, e, msg, written).net.end = k.end
         /\ NbWrite(k, e, msg, written).written \in written..Len(msg)
         /\ NbWrite(k, e, msg, written).status \in {"ok", "error", "sigpipe"}
<1> DEFINE p    == Peer(e)
           q    == k.data[p]
           left == Len(msg) - written
           room == Cap - Len(q)
           n    == IF left < room THEN left ELSE room
           part == SubSeq(msg, written + 1, written + n)
<1>1. /\ Joins(k) /\ p \in Ends /\ q \in Seq(Calls) /\ Len(q) \in Nat
      /\ Len(q) <= Cap
  BY ConnectionJoins DEF Joins, Peer, Ends
<1> HIDE DEF q, p
<1>2. n \in Nat /\ written + n <= Len(msg) /\ Len(q) + n <= Cap
  <2>1. Len(msg) \in Nat /\ written \in Nat /\ written <= Len(msg)
    OBVIOUS
  <2>2. left \in Nat /\ room \in Nat
    BY <1>1, <2>1, Lengths
  <2>3. n \in Nat /\ n <= left /\ n <= room
    BY ONLY <2>2
  <2> HIDE DEF n
  <2> QED BY <1>1, <2>1, <2>2, <2>3, Lengths
<1> HIDE DEF n
<1>3. part \in Seq(Calls) /\ Len(part) = n
  BY <1>2
<1> HIDE DEF part
<1>4. q \o part \in Seq(Calls) /\ Len(q \o part) <= Cap
  BY <1>1, <1>2, <1>3, ConcatProperties
<1> DEFINE t == q \o part
<1> HIDE DEF t
<1>5. Joins([k EXCEPT !.data[p] = t]) /\ [k EXCEPT !.data[p] = t].end = k.end
  BY <1>1, <1>4 DEF Joins, t
<1>6. Joins([k EXCEPT !.link = "pipe"]) /\ [k EXCEPT !.link = "pipe"].end = k.end
  BY <1>1 DEF Joins
<1>7. k.data[p] = q
  BY DEF q
<1>8. [k EXCEPT !.data[p] = @ \o part] = [k EXCEPT !.data[p] = t]
  BY <1>7 DEF t
<1>9. NbWrite(k, e, msg, written) \in
        {[status |-> "error", written |-> written, net |-> k],
         [status |-> "sigpipe", written |-> written, net |-> k],
         [status |-> "ok", written |-> written + n, net |-> [k EXCEPT !.link = "pipe"]],
         [status |-> "ok", written |-> written + n, net |-> [k EXCEPT !.data[p] = t]]}
  BY <1>8 DEF NbWrite, n, q, p, part
<1>10. written \in written..Len(msg) /\ written + n \in written..Len(msg)
  BY <1>2
<1>11. /\ k \in Connection /\ [k EXCEPT !.link = "pipe"] \in Connection
       /\ [k EXCEPT !.data[p] = t] \in Connection
  BY <1>5, <1>6, ConnectionJoins
<1> DEFINE w == NbWrite(k, e, msg, written)
<1> HIDE DEF left, room, w
<1>12. /\ w.net \in {k, [k EXCEPT !.link = "pipe"], [k EXCEPT !.data[p] = t]}
       /\ w.written \in {written, written + n}
       /\ w.status \in {"ok", "error", "sigpipe"}
  BY <1>9 DEF w
<1>13. w.net \in Connection /\ w.net.end = k.end
  BY <1>5, <1>6, <1>11, <1>12
<1> QED
  BY <1>10, <1>12, <1>13 DEF w

(***************************************************************************)
(* The server's handlers.                                                  *)
(***************************************************************************)
Units == 0..(HeaderLen + BodyLen)

\* What a connection object may hold: a response has its full length, and a
\* request that is to be executed is complete.
Objects ==
  {k \in [state : Stages, header : Seq(Calls), request : Seq(Calls),
          response : Seq(Calls), written : Units, keepAlive : BOOLEAN] :
     /\ k.response # <<>> => Len(k.response) = HeaderLen + BodyLen
     /\ k.state = "WRITE_RESPONSE" => Len(k.request) >= BodyLen}

\* The outcomes of a handler, none of which changes the ends.
Outcomes(ends) ==
  [conn : Objects, net : {k \in Connection : k.end = ends}, on : BOOLEAN,
   ran : SUBSET Calls, killed : BOOLEAN]

LEMMA NewObject ==
  /\ NewServerConnection \in Objects
  /\ \A b \in BOOLEAN : [NewServerConnection EXCEPT !.keepAlive = b] \in Objects
<1>1. <<>> \in Seq(Calls)
  BY EmptySeq
<1>2. 0 \in Units
  BY Lengths DEF Units
<1> QED
  BY <1>1, <1>2 DEF NewServerConnection, Objects, Stages

LEMMA DropOutcome ==
  ASSUME NEW ends, NEW o \in Outcomes(ends)
  PROVE  Drop(o) \in Outcomes(ends)
BY DEF Drop, Outcomes

\* A part of a sequence.
LEMMA RestOf ==
  ASSUME NEW S, NEW q \in Seq(S), NEW n \in Nat
  PROVE  SubSeq(q, n + 1, Len(q)) \in Seq(S)
OBVIOUS

LEMMA ReadHeaderOutcome ==
  ASSUME NEW ends, NEW o \in Outcomes(ends), NEW a \in BOOLEAN,
         NEW z \in ServerReadHeader(o, a)
  PROVE  z \in Outcomes(ends)
<1>1. CASE ~o.on \/ o.conn.state # "READ_HEADER"
  BY <1>1 DEF ServerReadHeader
<1>2. CASE ~(~o.on \/ o.conn.state # "READ_HEADER")
  <2>1. PICK r \in NbRead(o.net, "server") :
          LET h == o.conn.header \o r.got
              p == [o EXCEPT !.net = r.net]
          IN  z = CASE r.status = "error"  -> Drop(p)
                    [] r.status # "error" /\ Len(h) <= HeaderLen ->
                         [p EXCEPT !.conn.header = h, !.on = r.status # "eof"]
                    [] r.status # "error" /\ Len(h) > HeaderLen /\ h[1] \in NoLength -> Drop(p)
                    [] OTHER ->
                         [p EXCEPT !.conn.state     = "READ_REQUEST",
                                   !.conn.header    = <<>>,
                                   !.conn.request   = SubSeq(h, HeaderLen + 1, Len(h)),
                                   !.conn.keepAlive = h[1] \notin Closes]
    BY <1>2 DEF ServerReadHeader
  <2> DEFINE h == o.conn.header \o r.got
             p == [o EXCEPT !.net = r.net]
             t == SubSeq(h, HeaderLen + 1, Len(h))
  <2>2. o.net \in Connection /\ o.net.end = ends /\ o.conn \in Objects /\ "server" \in Ends
    BY DEF Outcomes, Ends
  <2>3. r.net \in Connection /\ r.net.end = ends /\ r.got \in Seq(Calls)
    BY <2>2, ReadJoins
  <2>4. p \in Outcomes(ends) /\ p.conn = o.conn
    BY <2>3 DEF Outcomes
  <2>5. h \in Seq(Calls)
    BY <2>2, <2>3, ConcatProperties DEF Objects
  <2>6. t \in Seq(Calls) /\ <<>> \in Seq(Calls)
    BY <2>5, Lengths, RestOf, EmptySeq
  <2>7. z \in {Drop(p), [p EXCEPT !.conn.header = h, !.on = r.status # "eof"],
              [p EXCEPT !.conn.state = "READ_REQUEST", !.conn.header = <<>>,
                        !.conn.request = t, !.conn.keepAlive = h[1] \notin Closes]}
    BY <2>1
  <2>8. o.conn.state = "READ_HEADER"
    BY <1>2
  <2> HIDE DEF h, p, t
  <2> DEFINE b == h[1] \notin Closes
  <2>9. [p EXCEPT !.conn.header = h, !.on = r.status # "eof"] \in Outcomes(ends)
    <3> DEFINE k == [p.conn EXCEPT !.header = h]
    <3>1. k \in Objects
      BY <2>2, <2>4, <2>5 DEF Objects
    <3>2. [p EXCEPT !.conn.header = h, !.on = r.status # "eof"]
            = [p EXCEPT !.conn = k, !.on = r.status # "eof"]
      BY <2>4 DEF Outcomes
    <3> HIDE DEF k
    <3> QED BY <2>4, <3>1, <3>2 DEF Outcomes
  <2>10. [p EXCEPT !.conn.state = "READ_REQUEST", !.conn.header = <<>>,
                   !.conn.request = t, !.conn.keepAlive = b] \in Outcomes(ends)
    <3> DEFINE k == [p.conn EXCEPT !.state = "READ_REQUEST", !.header = <<>>,
                                   !.request = t, !.keepAlive = b]
    <3>1. b \in BOOLEAN
      OBVIOUS
    <3> HIDE DEF b
    <3>2. k \in Objects
      BY <2>2, <2>4, <2>6, <3>1 DEF Objects, Stages
    <3>3. [p EXCEPT !.conn.state = "READ_REQUEST", !.conn.header = <<>>,
                    !.conn.request = t, !.conn.keepAlive = b]
            = [p EXCEPT !.conn = k]
      BY <2>4 DEF Outcomes
    <3> HIDE DEF k
    <3> QED BY <2>4, <3>2, <3>3 DEF Outcomes
  <2> QED
    BY <2>4, <2>7, <2>9, <2>10, DropOutcome
<1> QED
  BY <1>1, <1>2

LEMMA ReadRequestOutcome ==
  ASSUME NEW ends, NEW o \in Outcomes(ends), NEW a \in BOOLEAN,
         NEW z \in ServerReadRequest(o, a)
  PROVE  z \in Outcomes(ends)
<1>1. CASE ~o.on \/ o.conn.state # "READ_REQUEST"
  BY <1>1 DEF ServerReadRequest
<1>2. CASE ~(~o.on \/ o.conn.state # "READ_REQUEST") /\ Len(o.conn.request) >= BodyLen
  <2>1. z = [o EXCEPT !.conn.state = "WRITE_RESPONSE"]
    BY <1>2 DEF ServerReadRequest
  <2>2. [o.conn EXCEPT !.state = "WRITE_RESPONSE"] \in Objects
    BY <1>2 DEF Outcomes, Objects, Stages
  <2>3. z = [o EXCEPT !.conn = [o.conn EXCEPT !.state = "WRITE_RESPONSE"]]
    BY <2>1 DEF Outcomes
  <2> QED
    BY <2>2, <2>3 DEF Outcomes
<1>3. CASE ~(~o.on \/ o.conn.state # "READ_REQUEST") /\ ~(Len(o.conn.request) >= BodyLen)
  <2>1. PICK r \in NbRead(o.net, "server") :
          LET q == o.conn.request \o r.got
              p == [o EXCEPT !.net = r.net, !.conn.request = q]
          IN  z = CASE r.status = "error" -> Drop(p)
                    [] r.status # "error" /\ Len(q) < BodyLen -> [p EXCEPT !.on = r.status # "eof"]
                    [] OTHER -> [p EXCEPT !.conn.state = "WRITE_RESPONSE"]
    BY <1>3 DEF ServerReadRequest
  <2> DEFINE q == o.conn.request \o r.got
             p == [o EXCEPT !.net = r.net, !.conn.request = q]
             k == [o.conn EXCEPT !.request = q]
  <2>2. o.net \in Connection /\ o.net.end = ends /\ o.conn \in Objects /\ "server" \in Ends
    BY DEF Outcomes, Ends
  <2>3. r.net \in Connection /\ r.net.end = ends /\ r.got \in Seq(Calls)
    BY <2>2, ReadJoins
  <2>4. q \in Seq(Calls)
    BY <2>2, <2>3, ConcatProperties DEF Objects
  <2> HIDE DEF q
  <2>5. k \in Objects /\ k.request = q
    BY <1>3, <2>2, <2>4 DEF Objects
  <2>6. p = [o EXCEPT !.net = r.net, !.conn = k]
    BY DEF Outcomes
  <2> HIDE DEF k
  <2>7. p \in Outcomes(ends) /\ p.conn = k
    BY <2>3, <2>5, <2>6 DEF Outcomes
  <2>8. \/ z = Drop(p) \/ z = [p EXCEPT !.on = r.status # "eof"]
        \/ ~(Len(q) < BodyLen) /\ z = [p EXCEPT !.conn.state = "WRITE_RESPONSE"]
    BY <2>1 DEF q
  <2> HIDE DEF p
  <2>9. [p EXCEPT !.on = r.status # "eof"] \in Outcomes(ends)
    BY <2>7 DEF Outcomes
  <2>10. ASSUME ~(Len(q) < BodyLen)
         PROVE  [p EXCEPT !.conn.state = "WRITE_RESPONSE"] \in Outcomes(ends)
    <3>1. Len(q) >= BodyLen
      BY <2>4, <2>10, Lengths
    <3>2. [k EXCEPT !.state = "WRITE_RESPONSE"] \in Objects
      BY <2>5, <3>1 DEF Objects, Stages
    <3>3. [p EXCEPT !.conn.state = "WRITE_RESPONSE"]
            = [p EXCEPT !.conn = [k EXCEPT !.state = "WRITE_RESPONSE"]]
      BY <2>7 DEF Outcomes
    <3> QED BY <2>7, <3>2, <3>3 DEF Outcomes
  <2> QED
    BY <2>7, <2>8, <2>9, <2>10, DropOutcome
<1> QED
  BY <1>1, <1>2, <1>3
\* What is executed is the call of a complete request.
LEMMA ExecuteOutcome ==
  ASSUME NEW ends, NEW o \in Outcomes(ends), o.conn.state = "WRITE_RESPONSE"
  PROVE  /\ ExecuteRequest(o) \in Outcomes(ends)
         /\ ExecuteRequest(o).conn.state = "WRITE_RESPONSE"
         /\ Len(ExecuteRequest(o).conn.response) = HeaderLen + BodyLen
         /\ ExecuteRequest(o).net = o.net
<1>1. CASE o.conn.response # <<>>
  <2>1. ExecuteRequest(o) = o
    BY <1>1 DEF ExecuteRequest
  <2> QED
    BY <1>1, <2>1 DEF Outcomes, Objects
<1>2. CASE o.conn.response = <<>>
  <2> DEFINE x == o.conn.request[1]
             m == Message(x)
             k == [o.conn EXCEPT !.response = m, !.written = 0]
  <2>1. o.conn \in Objects
    BY DEF Outcomes
  <2>2. o.conn.request \in Seq(Calls) /\ Len(o.conn.request) >= 1
    BY <2>1, Lengths DEF Objects
  <2>3. x \in Calls
    BY <2>2
  <2>4. ExecuteRequest(o) = [o EXCEPT !.conn.response = m, !.conn.written = 0, !.ran = {x}]
    BY <1>2 DEF ExecuteRequest
  <2> HIDE DEF x
  <2>5. m \in Seq(Calls) /\ Len(m) = HeaderLen + BodyLen
    BY <2>3, MessageIs
  <2> HIDE DEF m
  <2>6. k \in Objects /\ k.state = "WRITE_RESPONSE" /\ k.response = m
    <3>1. 0 \in Units
      BY Lengths DEF Units
    <3>2. k \in [state : Stages, header : Seq(Calls), request : Seq(Calls),
                 response : Seq(Calls), written : Units, keepAlive : BOOLEAN]
      BY <2>1, <2>5, <3>1 DEF Objects
    <3>3. k.state = "WRITE_RESPONSE" /\ k.response = m /\ k.request = o.conn.request
      BY <2>1 DEF Objects
    <3> HIDE DEF k
    <3> QED BY <2>1, <2>5, <3>2, <3>3 DEF Objects
  <2>7. ExecuteRequest(o) = [o EXCEPT !.conn = k, !.ran = {x}]
    BY <2>4 DEF Outcomes
  <2> HIDE DEF k
  <2> QED
    <3>1. {x} \in SUBSET Calls
      BY <2>3
    <3> DEFINE e == ExecuteRequest(o)
    <3>2. /\ e = [o EXCEPT !.conn = k, !.ran = {x}]
          /\ e.conn = k /\ e.net = o.net
      BY <2>7 DEF Outcomes
    <3>3. e \in Outcomes(ends)
      BY <2>6, <3>1, <3>2 DEF Outcomes
    <3> HIDE DEF e
    <3>4. e.conn.state = "WRITE_RESPONSE" /\ Len(e.conn.response) = HeaderLen + BodyLen
      BY <2>5, <2>6, <3>2
    <3> QED BY <3>2, <3>3, <3>4 DEF e
<1> QED
  BY <1>1, <1>2

LEMMA WriteOutcome ==
  ASSUME NEW ends, NEW o \in Outcomes(ends), NEW z \in WriteResponse(o)
  PROVE  z \in Outcomes(ends)
<1>1. CASE ~o.on \/ o.conn.state # "WRITE_RESPONSE"
  BY <1>1 DEF WriteResponse
<1>2. CASE ~(~o.on \/ o.conn.state # "WRITE_RESPONSE")
  <2> DEFINE p == ExecuteRequest(o)
             w == NbWrite(p.net, "server", p.conn.response, p.conn.written)
             q == [p EXCEPT !.net = w.net, !.conn.written = w.written]
             b == q.conn.keepAlive
  <2>1. p \in Outcomes(ends) /\ Len(p.conn.response) = HeaderLen + BodyLen
    BY <1>2, ExecuteOutcome
  <2>2. \/ z = Drop(q) \/ z = [q EXCEPT !.killed = TRUE] \/ z = [q EXCEPT !.on = b]
        \/ z = [q EXCEPT !.on = b,
                         !.conn = [NewServerConnection EXCEPT !.keepAlive = b]]
    BY <1>2 DEF WriteResponse
  <2> HIDE DEF p
  <2>3. /\ p.net \in Connection /\ p.net.end = ends /\ p.conn \in Objects /\ "server" \in Ends
        /\ p.conn.response \in Seq(Calls) /\ p.conn.written \in 0..Len(p.conn.response)
    BY <2>1 DEF Outcomes, Objects, Units, Ends
  <2>4. w.net \in Connection /\ w.net.end = ends /\ w.written \in Units
    <3>1. /\ w.net \in Connection /\ w.net.end = p.net.end
          /\ w.written \in p.conn.written..Len(p.conn.response)
      BY <2>3, WriteJoins
    <3> HIDE DEF w
    <3> QED
      BY <2>1, <2>3, <3>1, Lengths DEF Units
  <2> HIDE DEF w
  <2> DEFINE k == [p.conn EXCEPT !.written = w.written]
  <2>5. k \in Objects
    BY <2>3, <2>4 DEF Objects
  <2>6. q = [p EXCEPT !.net = w.net, !.conn = k]
    BY <2>1 DEF Outcomes
  <2> HIDE DEF k
  <2>7. q \in Outcomes(ends)
    BY <2>1, <2>4, <2>5, <2>6 DEF Outcomes
  <2> HIDE DEF q
  <2>8. b \in BOOLEAN
    BY <2>7 DEF Outcomes, Objects
  <2> HIDE DEF b
  <2>9. [q EXCEPT !.killed = TRUE] \in Outcomes(ends) /\ [q EXCEPT !.on = b] \in Outcomes(ends)
    BY <2>7, <2>8 DEF Outcomes
  <2>10. [NewServerConnection EXCEPT !.keepAlive = b] \in Objects
    BY <2>8, NewObject
  <2> DEFINE j == [NewServerConnection EXCEPT !.keepAlive = b]
  <2> HIDE DEF j
  <2>11. [q EXCEPT !.on = b, !.conn = j] \in Outcomes(ends)
    BY <2>7, <2>8, <2>10 DEF Outcomes, j
  <2> QED
    BY <2>2, <2>7, <2>9, <2>11, DropOutcome DEF j
<1> QED
  BY <1>1, <1>2

LEMMA HandleEventOutcome ==
  ASSUME NEW c \in Conns, NEW a \in BOOLEAN, sc[c] \in Objects, net[c] \in Connection,
         NEW z \in HandleEvent(c, a)
  PROVE  z \in Outcomes(net[c].end)
<1> DEFINE o == [conn |-> sc[c], net |-> net[c], on |-> TRUE, ran |-> {}, killed |-> FALSE]
<1>1. o \in Outcomes(net[c].end)
  BY DEF Outcomes
<1> DEFINE h == ServerReadHeader(o, a)
           r == UNION { ServerReadRequest(p, a /\ p.conn = sc[c]) : p \in h }
<1>2. z \in UNION { WriteResponse(p) : p \in r }
  BY DEF HandleEvent
<1> HIDE DEF o
<1>3. PICK p \in r : z \in WriteResponse(p)
  BY <1>2
<1>4. PICK y \in h : p \in ServerReadRequest(y, a /\ y.conn = sc[c])
  BY <1>3
<1>5. y \in Outcomes(net[c].end)
  BY <1>1, <1>4, ReadHeaderOutcome
<1>6. p \in Outcomes(net[c].end)
  <2>1. (a /\ y.conn = sc[c]) \in BOOLEAN
    OBVIOUS
  <2> QED BY <1>4, <1>5, <2>1, ReadRequestOutcome
<1> QED
  BY <1>3, <1>6, WriteOutcome
(***************************************************************************)
(* The server's steps.                                                     *)
(***************************************************************************)
OpenEnds(n) == {c \in Conns : n[c].end["server"] = "open"}

Sockets == {Listener} \cup Conns

ServerInv ==
  /\ NetTypeOK
  /\ spc \in {"out", "select", "pass", "interrupted", "ended"}
  /\ Distinct(sd, Sockets)
  /\ ready \subseteq Watched(sd)
  /\ sc \in [Conns -> Objects]
  /\ quit \in BOOLEAN
  /\ executed \in [Calls -> Nat]
  /\ WatchedAreOpen

LEMMA ListenerApart == Listener \notin Conns
BY Lengths DEF Listener, Conns

LEMMA ServerTypes ==
  ASSUME ServerInv
  PROVE  ServerTypeOK
<1>1. Watched(sd) \subseteq Sockets /\ sd.endTime \in EndTimes
      /\ sd.doClear \in BOOLEAN /\ sd.inWork \in BOOLEAN
  BY DispatcherFields DEF ServerInv
<1>2. \A c \in Conns : /\ sc[c].state \in Stages /\ sc[c].written \in Units
                       /\ sc[c].keepAlive \in BOOLEAN
  BY DEF ServerInv, Objects
<1> QED
  BY <1>1, <1>2 DEF ServerInv, ServerTypeOK, Sockets, Units

LEMMA AllClosed ==
  ASSUME NEW n \in [Conns -> Connection]
  PROVE  /\ ServerEndsClosed(n) \in [Conns -> Connection]
         /\ OpenEnds(ServerEndsClosed(n)) = {}
<1> DEFINE m == ServerEndsClosed(n)
<1>1. ASSUME NEW c \in Conns
      PROVE  m[c] \in Connection /\ m[c].end["server"] # "open"
  <2>1. "server" \in Ends /\ n[c] \in Connection
    BY DEF Ends
  <2> DEFINE k == CloseEnd(n[c], "server")
  <2>2. k \in Connection /\ k.end["server"] = "closed"
    BY <2>1, CloseJoins
  <2> HIDE DEF k
  <2>3. [k EXCEPT !.link = "reset"] \in Connection /\ [k EXCEPT !.link = "reset"].end = k.end
    <3>1. Joins(k)
      BY <2>2, ConnectionJoins
    <3>2. Joins([k EXCEPT !.link = "reset"]) /\ [k EXCEPT !.link = "reset"].end = k.end
      BY <3>1 DEF Joins
    <3> QED BY <3>2, ConnectionJoins
  <2>4. \/ m[c] = k \/ m[c] = [k EXCEPT !.link = "reset"]
        \/ m[c] = n[c] /\ n[c].end["server"] # "open"
    BY DEF ServerEndsClosed, k
  <2> QED
    BY <2>1, <2>2, <2>3, <2>4
<1>2. DOMAIN m = Conns /\ m = [c \in Conns |-> m[c]]
  BY DEF ServerEndsClosed
<1> QED
  BY <1>1, <1>2 DEF OpenEnds

LEMMA EndProcessInv ==
  ASSUME NEW n \in [Conns -> Connection], EndProcess(n),
         quit' \in BOOLEAN, executed' \in [Calls -> Nat]
  PROVE  ServerInv'
<1>1. net' \in [Conns -> Connection] /\ OpenEnds(net') = {}
  BY AllClosed DEF EndProcess
<1>2. Distinct(sd', Sockets) /\ Watched(sd') = {}
  BY NewIsDistinct DEF EndProcess
<1>3. sc' \in [Conns -> Objects]
  BY NewObject DEF EndProcess
<1> QED
  BY <1>1, <1>2, <1>3 DEF EndProcess, ServerInv, NetTypeOK, WatchedAreOpen, OpenEnds

LEMMA ServerStart ==
  ASSUME Init
  PROVE  ServerInv
<1>1. net \in [Conns -> Connection] /\ OpenEnds(net) = {}
  BY NoConnectionJoins DEF Init, OpenEnds, NoConnection, Ends
<1>2. Distinct(NewDispatcher, Sockets) /\ Watched(NewDispatcher) = {}
  BY NewIsDistinct
<1>3. /\ Distinct(AddSource(NewDispatcher, Listener, {"readable"}), Sockets)
      /\ Watched(AddSource(NewDispatcher, Listener, {"readable"})) = {Listener}
  BY <1>2, AddDistinct DEF Sockets, Events
<1>4. /\ Distinct(sd, Sockets)
      /\ Watched(sd) = IF listening THEN {Listener} ELSE {}
  BY <1>2, <1>3 DEF Init, ServerInit
<1>5. sc \in [Conns -> Objects]
  BY NewObject DEF Init, ServerInit
<1> QED
  BY <1>1, <1>4, <1>5 DEF Init, ServerInit, ServerInv, NetTypeOK, WatchedAreOpen, OpenEnds

LEMMA ToldDistinct ==
  ASSUME NEW d, Distinct(d, Sockets), NEW ran
  PROVE  Distinct(Told(d, ran), Sockets) /\ Watched(Told(d, ran)) = Watched(d)
<1>1. Told(d, ran) \in {d, [d EXCEPT !.endTime = "now"], [d EXCEPT !.doClear = TRUE]}
  BY DEF Told, ExitWork
<1>2. Told(d, ran) \in Dispatchers(Sockets) /\ Told(d, ran).sources = d.sources
  BY <1>1 DEF Distinct, Dispatchers, EndTimes
<1> QED
  BY <1>2 DEF Distinct, Watched

LEMMA HandleConnectionInv ==
  ASSUME ServerInv, NEW c \in Conns, HandleConnection(c)
  PROVE  ServerInv'
<1>1. PICK o \in HandleEvent(c, spc = "pass") :
       LET n == [net EXCEPT ![c] = o.net]
           d == Told(sd, o.ran)
       IN  /\ executed' = [x \in Calls |-> IF x \in o.ran THEN executed[x] + 1 ELSE executed[x]]
           /\ quit' = (quit \/ \E x \in o.ran : Does[x] = "quit")
           /\ IF o.killed THEN EndProcess(n) ELSE
              /\ ready' = ready \ {c}
              /\ IF o.on
                   THEN /\ sd' = SetMask(d, c, MaskFor(o.conn))
                        /\ sc' = [sc EXCEPT ![c] = o.conn]
                        /\ net' = n
                   ELSE /\ sd' = RemoveSource(d, c)
                        /\ sc' = [sc EXCEPT ![c] = NewServerConnection]
                        /\ net' = [n EXCEPT ![c] = CloseEnd(@, "server")]
              /\ UNCHANGED <<spc, listening>>
  BY DEF HandleConnection
<1> DEFINE n == [net EXCEPT ![c] = o.net]
           d == Told(sd, o.ran)
<1>2. o \in Outcomes(net[c].end)
  <2>1. (spc = "pass") \in BOOLEAN /\ sc[c] \in Objects /\ net[c] \in Connection
    BY DEF ServerInv, NetTypeOK
  <2> QED BY <2>1, HandleEventOutcome
<1>3. /\ o.net \in Connection /\ o.net.end = net[c].end /\ o.conn \in Objects
      /\ o.on \in BOOLEAN /\ o.killed \in BOOLEAN /\ o.ran \subseteq Calls
  BY <1>2 DEF Outcomes
<1>4. /\ n \in [Conns -> Connection] /\ OpenEnds(n) = OpenEnds(net)
      /\ n[c] = o.net /\ \A b \in Conns \ {c} : n[b] = net[b]
  BY <1>3 DEF ServerInv, NetTypeOK, OpenEnds
<1>5. executed' \in [Calls -> Nat] /\ quit' \in BOOLEAN
  BY <1>1 DEF ServerInv
<1>6. c \in Watched(sd)
  BY FirstIsReady DEF HandleConnection, InPass, ServerInv
<1>7. Distinct(d, Sockets) /\ Watched(d) = Watched(sd)
  BY ToldDistinct DEF ServerInv
<1>8. Watched(sd) = OpenEnds(net) \cup (IF listening THEN {Listener} ELSE {})
  BY DEF ServerInv, WatchedAreOpen, OpenEnds
<1>9. CASE o.killed
  BY <1>1, <1>4, <1>5, <1>9, EndProcessInv
<1>10. CASE ~o.killed /\ o.on
  <2>1. /\ sd' = SetMask(d, c, MaskFor(o.conn)) /\ sc' = [sc EXCEPT ![c] = o.conn]
        /\ net' = n /\ ready' = ready \ {c} /\ UNCHANGED <<spc, listening>>
    BY <1>1, <1>10
  <2>2. MaskFor(o.conn) \in SUBSET Events
    BY DEF MaskFor, Events
  <2> HIDE DEF n, d
  <2>3. Distinct(sd', Sockets) /\ Watched(sd') = Watched(sd)
    BY <1>6, <1>7, <2>1, <2>2, SetMaskDistinct
  <2>4. ready' \subseteq Watched(sd') /\ sc' \in [Conns -> Objects]
    BY <1>3, <2>1, <2>3 DEF ServerInv
  <2>5. Watched(sd') = OpenEnds(net') \cup (IF listening' THEN {Listener} ELSE {})
    BY <1>4, <1>8, <2>1, <2>3
  <2> QED
    BY <1>4, <1>5, <2>1, <2>3, <2>4, <2>5
    DEF ServerInv, NetTypeOK, WatchedAreOpen, OpenEnds
<1>11. CASE ~o.killed /\ ~o.on
  <2> DEFINE k == CloseEnd(o.net, "server")
  <2>1. /\ sd' = RemoveSource(d, c) /\ sc' = [sc EXCEPT ![c] = NewServerConnection]
        /\ net' = [n EXCEPT ![c] = k]
        /\ ready' = ready \ {c} /\ UNCHANGED <<spc, listening>>
    BY <1>1, <1>4, <1>11
  <2>2. k \in Connection /\ k.end["server"] = "closed"
    BY <1>3, CloseJoins DEF Ends
  <2> HIDE DEF n, d, k
  <2>3. Distinct(sd', Sockets) /\ Watched(sd') = Watched(sd) \ {c}
    BY <1>7, <2>1, RemoveDistinct
  <2>4. ready' \subseteq Watched(sd') /\ sc' \in [Conns -> Objects]
    BY NewObject, <2>1, <2>3 DEF ServerInv
  <2>5. net' \in [Conns -> Connection] /\ OpenEnds(net') = OpenEnds(net) \ {c}
    BY <1>4, <2>1, <2>2 DEF OpenEnds
  <2>6. Watched(sd') = OpenEnds(net') \cup (IF listening' THEN {Listener} ELSE {})
    BY <1>8, <2>1, <2>3, <2>5, ListenerApart
  <2> QED
    BY <1>5, <2>1, <2>3, <2>4, <2>5, <2>6
    DEF ServerInv, NetTypeOK, WatchedAreOpen, OpenEnds
<1> QED
  BY <1>3, <1>9, <1>10, <1>11
LEMMA AcceptInv ==
  ASSUME ServerInv, AcceptConnection
  PROVE  ServerInv'
<1>1. Watched(sd) = OpenEnds(net) \cup (IF listening THEN {Listener} ELSE {})
  BY DEF ServerInv, WatchedAreOpen, OpenEnds
<1>2. CASE Backlog = {}
  BY <1>2 DEF AcceptConnection, ServerInv, NetTypeOK, WatchedAreOpen
<1>3. CASE Backlog # {}
  <2> DEFINE c == CHOOSE c \in Backlog : \A b \in Backlog : c <= b
  <2>1. c \in Backlog
    <3>1. Backlog \subseteq Nat
      BY Lengths DEF Backlog, Conns
    <3>2. Min(Backlog) \in Backlog
      BY <1>3, <3>1, LeastOf
    <3>3. c = Min(Backlog)
      BY DEF Min
    <3> QED BY <3>2, <3>3
  <2>2. /\ net' = [net EXCEPT ![c].end["server"] = "open"]
        /\ sd' = AddSource(sd, c, {"readable"})
        /\ ready' = ready \ {Listener}
        /\ UNCHANGED <<spc, sc, quit, executed, listening>>
    BY <1>3 DEF AcceptConnection
  <2> HIDE DEF c
  <2>3. c \in Conns /\ net[c].end["server"] = "backlog" /\ net[c] \in Connection
    BY <2>1 DEF Backlog, ServerInv, NetTypeOK
  <2> DEFINE k == [net[c] EXCEPT !.end["server"] = "open"]
  <2>4. k \in Connection /\ k.end["server"] = "open"
    <3>1. Joins(net[c])
      BY <2>3, ConnectionJoins
    <3>2. Joins(k) /\ k.end["server"] = "open"
      BY <3>1 DEF Joins, Ends, EndStates
    <3> QED BY <3>2, ConnectionJoins
  <2>5. net' = [net EXCEPT ![c] = k]
    BY <2>2, <2>3 DEF ServerInv, NetTypeOK
  <2> HIDE DEF k
  <2>6. net' \in [Conns -> Connection] /\ OpenEnds(net') = OpenEnds(net) \cup {c}
    BY <2>3, <2>4, <2>5 DEF ServerInv, NetTypeOK, OpenEnds
  <2>7. c \notin Watched(sd)
    BY <1>1, <2>3, ListenerApart DEF OpenEnds
  <2>8. Distinct(sd', Sockets) /\ Watched(sd') = Watched(sd) \cup {c}
    BY <2>2, <2>3, <2>7, AddDistinct DEF ServerInv, Sockets, Events
  <2>9. Watched(sd') = OpenEnds(net') \cup (IF listening' THEN {Listener} ELSE {})
    BY <1>1, <2>2, <2>6, <2>8
  <2> QED
    BY <2>2, <2>6, <2>8, <2>9 DEF ServerInv, NetTypeOK, WatchedAreOpen, OpenEnds
<1> QED
  BY <1>2, <1>3

LEMMA EndPassInv ==
  ASSUME ServerInv, NEW timeUp \in BOOLEAN, EndPass(timeUp)
  PROVE  ServerInv'
<1> DEFINE d == IF sd.doClear THEN [sd EXCEPT !.sources = <<>>, !.doClear = FALSE] ELSE sd
           over == d.endTime = "now" \/ timeUp \/ d.sources = <<>>
<1>1. /\ sd' = IF over THEN EndWork(d) ELSE d
      /\ spc' = IF over THEN "out" ELSE "select"
      /\ UNCHANGED <<ready, quit, executed>> /\ ready = {}
  BY DEF EndPass
<1>2. /\ Distinct(d, Sockets)
      /\ Watched(d) = IF sd.doClear THEN {} ELSE Watched(sd)
  <2>1. CASE sd.doClear
    <3>1. d = [sd EXCEPT !.sources = <<>>, !.doClear = FALSE] /\ <<>> \in Seq(Sources(Sockets))
      BY <2>1, EmptySeq
    <3>2. d \in Dispatchers(Sockets) /\ d.sources = <<>>
      BY <3>1 DEF ServerInv, Distinct, Dispatchers
    <3> HIDE DEF d
    <3>3. Distinct(d, Sockets)
      BY <3>2 DEF Distinct
    <3>4. Watched(d) = {}
      BY <3>2, <3>3, DispatcherFields
    <3> QED BY <2>1, <3>3, <3>4
  <2>2. CASE ~sd.doClear
    BY <2>2 DEF ServerInv
  <2> QED BY <2>1, <2>2
<1> HIDE DEF d
<1>3. Distinct(EndWork(d), Sockets) /\ Watched(EndWork(d)) = Watched(d)
  <2>1. EndWork(d) \in Dispatchers(Sockets) /\ EndWork(d).sources = d.sources
    BY <1>2 DEF EndWork, Distinct, Dispatchers
  <2> QED BY <1>2, <2>1 DEF Distinct, Watched
<1>4. Distinct(sd', Sockets) /\ Watched(sd') = IF sd.doClear THEN {} ELSE Watched(sd)
  BY <1>1, <1>2, <1>3
<1>5. spc' \in {"out", "select"}
  BY <1>1
<1>6. CASE sd.doClear
  <2>1. /\ net' = ServerEndsClosed(net) /\ listening' = FALSE
        /\ sc' = [c \in Conns |-> NewServerConnection]
    BY <1>6 DEF EndPass
  <2>2. net' \in [Conns -> Connection] /\ OpenEnds(net') = {}
    BY <2>1, AllClosed DEF ServerInv, NetTypeOK
  <2>3. sc' \in [Conns -> Objects]
    BY <2>1, NewObject
  <2> QED
    BY <1>1, <1>4, <1>5, <1>6, <2>1, <2>2, <2>3
    DEF ServerInv, NetTypeOK, WatchedAreOpen, OpenEnds
<1>7. CASE ~sd.doClear
  <2>1. UNCHANGED <<net, listening, sc>>
    BY <1>7 DEF EndPass
  <2> QED
    BY <1>1, <1>4, <1>5, <1>7, <2>1 DEF ServerInv, NetTypeOK, WatchedAreOpen
<1> QED
  BY <1>6, <1>7

LEMMA ServerStep ==
  ASSUME ServerInv, ServerNext \/ SelectInterrupted \/ AcceptFails
  PROVE  ServerInv'
<1>1. CASE Work
  <2>1. sd' = [sd EXCEPT !.endTime = "later", !.doClear = FALSE, !.inWork = TRUE]
    BY <1>1 DEF Work, BeginWork
  <2>2. sd' \in Dispatchers(Sockets) /\ sd'.sources = sd.sources
    BY <2>1 DEF ServerInv, Distinct, Dispatchers, EndTimes
  <2>3. Distinct(sd', Sockets) /\ Watched(sd') = Watched(sd)
    BY <2>2 DEF ServerInv, Distinct, Watched
  <2> QED
    BY <1>1, <2>3 DEF Work, ServerInv, NetTypeOK, WatchedAreOpen
<1>2. CASE Quits
  BY <1>2, EndProcessInv DEF Quits, ServerInv, NetTypeOK
<1>3. ASSUME NEW R \in SUBSET Watched(sd), Select(R) PROVE ServerInv'
  BY <1>3 DEF Select, ServerInv, NetTypeOK, WatchedAreOpen
<1>4. ASSUME NEW timeUp \in BOOLEAN, EndPass(timeUp) PROVE ServerInv'
  BY <1>4, EndPassInv
<1>5. CASE AcceptConnection
  BY <1>5, AcceptInv
<1>6. ASSUME NEW c \in Conns, HandleConnection(c) PROVE ServerInv'
  BY <1>6, HandleConnectionInv
<1>7. CASE SelectInterrupted
  BY <1>7 DEF SelectInterrupted, ServerInv, NetTypeOK, WatchedAreOpen
<1>8. CASE AcceptFails
  BY <1>8 DEF AcceptFails, ServerInv, NetTypeOK, WatchedAreOpen
<1> QED
  BY <1>1, <1>2, <1>3, <1>4, <1>5, <1>6, <1>7, <1>8 DEF ServerNext

\* The steps of the others leave the server's ends alone.
LEMMA ElsewhereStep ==
  ASSUME ServerInv, net' \in [Conns -> Connection], OpenEnds(net') = OpenEnds(net),
         UNCHANGED <<listening, serverVars>>
  PROVE  ServerInv'
BY DEF ServerInv, NetTypeOK, WatchedAreOpen, OpenEnds, serverVars
(***************************************************************************)
(* The client's methods.                                                   *)
(***************************************************************************)
Cl ==
  [state : {"NO_CONNECTION", "IDLE", "WRITE_REQUEST", "READ_HEADER", "READ_RESPONSE"},
   fd : Conns \cup {NoFd}, header : Seq(Calls), response : Seq(Calls),
   written : Units, eof : BOOLEAN, attempts : 0..2]

Busy == {"WRITE_REQUEST", "READ_HEADER", "READ_RESPONSE"}

Watchers == {d \in Dispatchers({Client}) : Distinct(d, {Client})}

\* The connections with the server's ends as they are.
Nets == {n \in [Conns -> Connection] : OpenEnds(n) = OpenEnds(net)}

ClientOutcomes ==
  [cl : Cl, cd : Watchers, net : Nets, on : BOOLEAN,
   fate : {"select", "killed", "undefined"}, sent : 0..1]

\* The client has a connection, or its state says that it has none.
Tied(k) == k.fd = NoFd <=> k.state = "NO_CONNECTION"

Alike(o, z) ==
  /\ z.on = o.on /\ z.fate = o.fate /\ z.sent = o.sent
  /\ z.cl.attempts = o.cl.attempts

LEMMA SameEnds ==
  ASSUME NEW n \in Nets, NEW c \in Conns, NEW k \in Connection,
         k.end["server"] = "open" <=> n[c].end["server"] = "open"
  PROVE  [n EXCEPT ![c] = k] \in Nets
BY DEF Nets, OpenEnds

LEMMA NoFdApart == NoFd \notin Conns
BY Lengths DEF NoFd, Conns

LEMMA FalseOutcome ==
  ASSUME NEW o \in ClientOutcomes
  PROVE  /\ False(o) \in ClientOutcomes /\ ~False(o).on
         /\ False(o).cl = o.cl /\ False(o).fate = o.fate /\ False(o).sent = o.sent
BY DEF False, ClientOutcomes

LEMMA CloseFdOutcome ==
  ASSUME NEW o \in ClientOutcomes
  PROVE  /\ CloseFd(o) \in ClientOutcomes /\ Alike(o, CloseFd(o))
         /\ CloseFd(o).cl.fd = NoFd /\ CloseFd(o).cl.state = o.cl.state
<1>1. CASE o.cl.fd = NoFd
  BY <1>1 DEF CloseFd, Alike
<1>2. CASE o.cl.fd # NoFd
  <2> DEFINE c == o.cl.fd
             k == CloseEnd(o.net[c], "client")
             n == [o.net EXCEPT ![c] = k]
             l == [o.cl EXCEPT !.fd = NoFd]
  <2>1. c \in Conns /\ o.net \in Nets /\ o.net[c] \in Connection
    BY <1>2 DEF ClientOutcomes, Cl, Nets
  <2>2. /\ k \in Connection
        /\ k.end["server"] = "open" <=> o.net[c].end["server"] = "open"
    BY <2>1, CloseJoins DEF Ends
  <2>3. CloseFd(o) = [o EXCEPT !.net[c] = k, !.cl.fd = NoFd]
    BY <1>2 DEF CloseFd
  <2> HIDE DEF k, c
  <2>4. n \in Nets
    BY <2>1, <2>2, SameEnds
  <2>5. l \in Cl /\ l.fd = NoFd /\ l.state = o.cl.state /\ l.attempts = o.cl.attempts
    BY DEF ClientOutcomes, Cl
  <2>6. CloseFd(o) = [o EXCEPT !.net = n, !.cl = l]
    BY <2>3 DEF ClientOutcomes
  <2> HIDE DEF n, l
  <2> QED
    BY <2>4, <2>5, <2>6 DEF ClientOutcomes, Alike
<1> QED
  BY <1>1, <1>2

LEMMA Unwatched ==
  ASSUME NEW d \in Watchers
  PROVE  /\ RemoveSource(d, Client) \in Watchers /\ Watched(RemoveSource(d, Client)) = {}
         /\ RemoveSource(d, Client).sources = <<>>
<1>1. Distinct(d, {Client}) /\ Watched(d) \subseteq {Client}
  BY DispatcherFields DEF Watchers
<1>2. /\ Distinct(RemoveSource(d, Client), {Client})
      /\ Watched(RemoveSource(d, Client)) = {}
  BY <1>1, RemoveDistinct
<1> QED
  BY <1>2, DispatcherFields DEF Watchers, Distinct

LEMMA WatchedAgain ==
  ASSUME NEW d \in Watchers, NEW mask \in SUBSET Events
  PROVE  /\ AddSource(RemoveSource(d, Client), Client, mask) \in Watchers
         /\ Watched(AddSource(RemoveSource(d, Client), Client, mask)) = {Client}
<1>1. Distinct(RemoveSource(d, Client), {Client}) /\ Watched(RemoveSource(d, Client)) = {}
  BY Unwatched DEF Watchers
<1> DEFINE e == RemoveSource(d, Client)
<1> HIDE DEF e
<1>2. Distinct(AddSource(e, Client, mask), {Client}) /\ Watched(AddSource(e, Client, mask)) = {Client}
  BY <1>1, AddDistinct DEF e
<1> QED
  BY <1>2 DEF Watchers, Distinct, e

LEMMA CloseClientOutcome ==
  ASSUME NEW o \in ClientOutcomes
  PROVE  /\ CloseClient(o) \in ClientOutcomes /\ Alike(o, CloseClient(o))
         /\ CloseClient(o).cl.fd = NoFd /\ CloseClient(o).cl.state = "NO_CONNECTION"
<1> DEFINE d == RemoveSource(ExitWork(o.cd), Client)
           l == [o.cl EXCEPT !.state = "NO_CONNECTION"]
           p == [o EXCEPT !.cl = l, !.cd = d]
<1>1. ExitWork(o.cd) \in Watchers
  <2>1. /\ ExitWork(o.cd) \in Dispatchers({Client})
        /\ ExitWork(o.cd).sources = o.cd.sources
    BY DEF ClientOutcomes, Watchers, ExitWork, Dispatchers, EndTimes
  <2> QED
    BY <2>1 DEF ClientOutcomes, Watchers, Distinct
<1>2. d \in Watchers
  BY <1>1, Unwatched
<1>3. l \in Cl /\ l.state = "NO_CONNECTION" /\ l.attempts = o.cl.attempts
  BY DEF ClientOutcomes, Cl
<1>4. CloseClient(o) = CloseFd([o EXCEPT !.cl.state = "NO_CONNECTION", !.cd = d])
  BY DEF CloseClient, ClientOutcomes
<1>5. [o EXCEPT !.cl.state = "NO_CONNECTION", !.cd = d] = p
  BY DEF ClientOutcomes
<1> HIDE DEF d, l
<1>6. p \in ClientOutcomes /\ Alike(o, p) /\ p.cl.state = "NO_CONNECTION"
  BY <1>2, <1>3 DEF ClientOutcomes, Alike
<1> HIDE DEF p
<1> QED
  BY <1>4, <1>5, <1>6, CloseFdOutcome DEF Alike

LEMMA DoConnectOutcome ==
  ASSUME NEW o \in ClientOutcomes, o.on, NEW z \in DoConnect(o)
  PROVE  /\ z \in ClientOutcomes /\ z.fate = o.fate /\ z.sent = o.sent
         /\ z.cl.attempts = o.cl.attempts
         /\ z.on => z.cl.fd \in Conns
         /\ ~z.on => z.cl.fd = NoFd /\ z.cl.state = "NO_CONNECTION"
<1>1. ASSUME z = False(CloseClient(o))
      PROVE  /\ z \in ClientOutcomes /\ z.fate = o.fate /\ z.sent = o.sent
             /\ z.cl.attempts = o.cl.attempts
             /\ ~z.on /\ z.cl.fd = NoFd /\ z.cl.state = "NO_CONNECTION"
  BY <1>1, CloseClientOutcome, FalseOutcome DEF Alike
<1>2. ASSUME NEW k \in {Connected, Refused}, NEW c \in Fresh(o.net),
             z = [o EXCEPT !.cl.fd = c, !.net[c] = k]
      PROVE  /\ z \in ClientOutcomes /\ z.fate = o.fate /\ z.sent = o.sent
             /\ z.cl.attempts = o.cl.attempts
             /\ z.on /\ z.cl.fd \in Conns
  <2> DEFINE n == [o.net EXCEPT ![c] = k]
             l == [o.cl EXCEPT !.fd = c]
  <2>1. c \in Conns /\ o.net \in Nets /\ o.net[c] = NoConnection
    BY DEF Fresh, ClientOutcomes
  <2>2. k \in Connection /\ k.end["server"] # "open" /\ NoConnection.end["server"] # "open"
    BY NewJoins DEF NoConnection, Ends
  <2>3. n \in Nets
    BY <2>1, <2>2, SameEnds
  <2>4. l \in Cl /\ l.fd = c /\ l.attempts = o.cl.attempts
    BY <2>1 DEF ClientOutcomes, Cl
  <2>5. z = [o EXCEPT !.net = n, !.cl = l]
    BY <1>2 DEF ClientOutcomes
  <2> HIDE DEF n, l
  <2> QED
    BY <2>1, <2>3, <2>4, <2>5 DEF ClientOutcomes
<1>3. \/ z = False(CloseClient(o))
      \/ \E k \in {Connected, Refused}, c \in Fresh(o.net) :
           z = [o EXCEPT !.cl.fd = c, !.net[c] = k]
  BY DEF DoConnect
<1> QED
  BY <1>1, <1>2, <1>3

LEMMA SetupOutcome ==
  ASSUME NEW o \in ClientOutcomes, o.on, Tied(o.cl), NEW z \in SetupConnection(o)
  PROVE  /\ z \in ClientOutcomes /\ z.fate = o.fate /\ Tied(z.cl)
         /\ z.cl.attempts = o.cl.attempts
         /\ z.on => /\ z.sent = 1 /\ z.cl.state = "WRITE_REQUEST"
                    /\ Watched(z.cd) = {Client}
         /\ ~z.on => z.sent = o.sent /\ z.cl.state = "NO_CONNECTION"
<1> DEFINE p == IF o.cl.state \notin {"NO_CONNECTION", "IDLE"} \/ o.cl.eof
                  THEN CloseClient(o) ELSE o
           q == [p EXCEPT !.cl.eof = FALSE]
<1>1. /\ p \in ClientOutcomes /\ Tied(p.cl) /\ Alike(o, p)
      /\ p.cl.state \in {"NO_CONNECTION", "IDLE"}
  <2>1. CASE o.cl.state \notin {"NO_CONNECTION", "IDLE"} \/ o.cl.eof
    BY <2>1, CloseClientOutcome DEF Tied
  <2>2. CASE ~(o.cl.state \notin {"NO_CONNECTION", "IDLE"} \/ o.cl.eof)
    BY <2>2 DEF Alike
  <2> QED BY <2>1, <2>2
<1>2. PICK r \in IF q.cl.state = "NO_CONNECTION" THEN DoConnect(q) ELSE {q} :
        z = IF ~r.on THEN r ELSE
              [r EXCEPT !.sent       = 1,
                        !.cl.state   = "WRITE_REQUEST",
                        !.cl.written = 0,
                        !.cd = AddSource(RemoveSource(r.cd, Client), Client,
                                         {"writable", "exception"})]
  BY DEF SetupConnection
<1> HIDE DEF p
<1>3. /\ q \in ClientOutcomes /\ Tied(q.cl) /\ Alike(o, q)
      /\ q.cl.state \in {"NO_CONNECTION", "IDLE"}
  <2> DEFINE l == [p.cl EXCEPT !.eof = FALSE]
  <2>1. /\ l \in Cl /\ l.state = p.cl.state /\ l.fd = p.cl.fd
        /\ l.attempts = p.cl.attempts
    BY <1>1 DEF ClientOutcomes, Cl
  <2>2. q = [p EXCEPT !.cl = l]
    BY <1>1 DEF ClientOutcomes
  <2> HIDE DEF l
  <2> QED BY <1>1, <2>1, <2>2 DEF ClientOutcomes, Tied, Alike
<1> HIDE DEF q
<1>4. /\ r \in ClientOutcomes /\ r.fate = o.fate /\ r.sent = o.sent
      /\ r.cl.attempts = o.cl.attempts
      /\ r.on => r.cl.fd \in Conns
      /\ ~r.on => r.cl.fd = NoFd /\ r.cl.state = "NO_CONNECTION"
  <2>1. CASE q.cl.state = "NO_CONNECTION"
    BY <1>2, <1>3, <2>1, DoConnectOutcome DEF Alike
  <2>2. CASE q.cl.state # "NO_CONNECTION"
    BY <1>2, <1>3, <2>2 DEF Alike, Tied, ClientOutcomes, Cl
  <2> QED BY <2>1, <2>2
<1>5. CASE ~r.on
  BY <1>2, <1>4, <1>5 DEF Tied
<1>6. CASE r.on
  <2> DEFINE d == AddSource(RemoveSource(r.cd, Client), Client, {"writable", "exception"})
             l == [r.cl EXCEPT !.state = "WRITE_REQUEST", !.written = 0]
  <2>1. r.cd \in Watchers /\ {"writable", "exception"} \in SUBSET Events
    BY <1>4 DEF ClientOutcomes, Events
  <2>2. d \in Watchers /\ Watched(d) = {Client}
    BY <2>1, WatchedAgain
  <2>3. /\ l \in Cl /\ l.state = "WRITE_REQUEST" /\ l.fd = r.cl.fd
        /\ l.attempts = r.cl.attempts
    <3>1. 0 \in Units
      BY Lengths DEF Units
    <3> QED BY <1>4, <3>1 DEF ClientOutcomes, Cl
  <2> HIDE DEF d
  <2>4. z = [r EXCEPT !.sent = 1, !.cl = l, !.cd = d]
    BY <1>2, <1>4, <1>6 DEF ClientOutcomes, d
  <2> HIDE DEF l
  <2>5. z \in ClientOutcomes /\ z.cl = l /\ z.cd = d /\ z.sent = 1 /\ z.fate = r.fate /\ z.on = r.on
    <3>1. r \in ClientOutcomes /\ 1 \in 0..1
      BY <1>4
    <3>2. l \in Cl /\ d \in Watchers
      BY <2>2, <2>3
    <3> QED BY ONLY <2>4, <3>1, <3>2 DEF ClientOutcomes
  <2> QED
    BY <1>4, <1>6, <2>2, <2>3, <2>5, NoFdApart DEF Tied
<1> QED
  BY <1>5, <1>6
\* What a turn of work() has come to: cl is the object at its start.  A
\* request was set up again at most once, and is not another time.
Retried(o) ==
  IF o.sent = 1 THEN cl.attempts = 0 /\ o.cl.attempts # 0
  ELSE o.cl.attempts = 0 => cl.attempts = 0

Fit(o) ==
  /\ o \in ClientOutcomes /\ Tied(o.cl) /\ Retried(o)
  /\ o.on => /\ o.cl.state \in Busy /\ o.fate = "select"
             /\ Watched(o.cd) = {Client}
  /\ o.cl.state = "IDLE" => Len(o.cl.response) >= BodyLen

LEMMA FitFalse ==
  ASSUME NEW o, Fit(o)
  PROVE  Fit(False(o))
BY FalseOutcome DEF Fit, Retried

\* The object l and the connections n are what a stage makes of o's.
Turned(o, l, n) ==
  /\ Fit(o) /\ o.on
  /\ l \in Cl /\ n \in Nets
  /\ l.fd = o.cl.fd /\ l.attempts = o.cl.attempts
  /\ l.state \in Busy \cup {"IDLE"}
  /\ l.state = "IDLE" => Len(l.response) >= BodyLen

With(o, l, n)   == [o EXCEPT !.cl = l, !.net = n]
Ended(o, l, n)  == [o EXCEPT !.cl = l, !.net = n, !.on = FALSE]
Killed(o, l, n) == [o EXCEPT !.cl = l, !.net = n, !.on = FALSE, !.fate = "killed"]

LEMMA FitOn ==
  ASSUME NEW o, NEW l, NEW n, Turned(o, l, n), l.state # "IDLE"
  PROVE  /\ Fit(With(o, l, n)) /\ With(o, l, n).on
         /\ With(o, l, n).cl = l /\ With(o, l, n).net = n
<1> DEFINE z == With(o, l, n)
<1>1. /\ z \in ClientOutcomes /\ z.cl = l /\ z.net = n /\ z.on = o.on
      /\ z.fate = o.fate /\ z.cd = o.cd /\ z.sent = o.sent
  BY DEF Turned, Fit, ClientOutcomes, With
<1> HIDE DEF z
<1>2. Tied(z.cl) /\ Retried(z)
  BY <1>1 DEF Turned, Fit, Tied, Retried, Busy
<1>3. Fit(z) /\ z.on /\ z.cl = l /\ z.net = n
  BY <1>1, <1>2 DEF Turned, Fit, Busy
<1> QED
  BY <1>3 DEF z

LEMMA FitOff ==
  ASSUME NEW o, NEW l, NEW n, Turned(o, l, n)
  PROVE  Fit(Ended(o, l, n)) /\ Fit(Killed(o, l, n))
<1>1. ASSUME NEW z, z \in ClientOutcomes, z.cl = l, ~z.on, z.sent = o.sent
      PROVE  Fit(z)
  BY <1>1 DEF Turned, Fit, Tied, Retried, Busy
<1> DEFINE y == Ended(o, l, n)
           z == Killed(o, l, n)
<1>2. y \in ClientOutcomes /\ y.cl = l /\ ~y.on /\ y.sent = o.sent
  BY DEF Turned, Fit, ClientOutcomes, Ended, Killed
<1>3. z \in ClientOutcomes /\ z.cl = l /\ ~z.on /\ z.sent = o.sent
  BY DEF Turned, Fit, ClientOutcomes, Ended, Killed
<1> HIDE DEF y, z
<1>4. Fit(y) /\ Fit(z)
  BY <1>1, <1>2, <1>3
<1> QED
  BY <1>4 DEF y, z

LEMMA WriteRequestOutcome ==
  ASSUME NEW o, Fit(o), o.on, Call \in Calls, NEW z \in WriteRequest(o)
  PROVE  Fit(z)
<1>1. CASE o.cl.state # "WRITE_REQUEST"
  BY <1>1 DEF WriteRequest
<1>2. CASE o.cl.state = "WRITE_REQUEST"
  <2> DEFINE c == o.cl.fd
             m == Message(Call)
             w == NbWrite(o.net[c], "client", m, o.cl.written)
             n == [o.net EXCEPT ![c] = w.net]
             p == [o EXCEPT !.net[c] = w.net, !.cl.written = w.written]
             l == [o.cl EXCEPT !.written = w.written]
             k == [l EXCEPT !.header = <<>>, !.response = <<>>, !.state = "READ_HEADER"]
  <2>1. /\ c \in Conns /\ o.net \in Nets /\ o.net[c] \in Connection
        /\ o.cl.written \in Units /\ o.fate = "select" /\ o.cl \in Cl
        /\ o \in ClientOutcomes
    BY <1>2 DEF Fit, Tied, ClientOutcomes, Cl, Nets
  <2>2. m \in Seq(Calls) /\ Len(m) = HeaderLen + BodyLen
    BY MessageIs
  <2>3. \/ z = False(p) \/ z = [p EXCEPT !.fate = "killed", !.on = FALSE] \/ z = p
        \/ z = [p EXCEPT !.cl.header = <<>>, !.cl.response = <<>>,
                          !.cl.state = "READ_HEADER"]
    BY <1>2 DEF WriteRequest
  <2> HIDE DEF m
  <2>4. /\ w.net \in Connection /\ w.net.end = o.net[c].end
        /\ w.written \in Units
    <3>1. o.cl.written \in 0..Len(m)
      BY <2>1, <2>2 DEF Units
    <3>2. /\ w.net \in Connection /\ w.net.end = o.net[c].end
          /\ w.written \in o.cl.written..Len(m)
      BY <2>1, <2>2, <3>1, WriteJoins DEF Ends
    <3> HIDE DEF w
    <3> QED BY <2>1, <2>2, <3>2, Lengths DEF Units
  <2> HIDE DEF w
  <2>5. n \in Nets
    BY <2>1, <2>4, SameEnds
  <2>6. l \in Cl /\ l.fd = c /\ l.attempts = o.cl.attempts /\ l.state = "WRITE_REQUEST"
    BY <1>2, <2>1, <2>4 DEF Cl
  <2>7. p = [o EXCEPT !.net = n, !.cl = l]
    BY <2>1 DEF ClientOutcomes
  <2>8. k \in Cl /\ k.fd = c /\ k.attempts = o.cl.attempts /\ k.state = "READ_HEADER"
    <3>1. <<>> \in Seq(Calls)
      BY EmptySeq
    <3> HIDE DEF l
    <3> QED BY <2>6, <3>1 DEF Cl
  <2>9. [p EXCEPT !.cl.header = <<>>, !.cl.response = <<>>, !.cl.state = "READ_HEADER"]
          = [o EXCEPT !.net = n, !.cl = k]
    <3> HIDE DEF l, p, n
    <3> QED BY <2>1, <2>7 DEF ClientOutcomes, l
  <2> HIDE DEF l, k, n, p
  <2>13. Turned(o, l, n) /\ Turned(o, k, n)
    BY <2>5, <2>6, <2>8 DEF Turned, Busy
  <2>10. Fit(p)
    <3>1. p = With(o, l, n)
      BY <2>7 DEF With
    <3> QED BY <2>6, <2>13, <3>1, FitOn
  <2>11. Fit([p EXCEPT !.fate = "killed", !.on = FALSE])
    <3>1. [p EXCEPT !.fate = "killed", !.on = FALSE]
            = Killed(o, l, n)
      BY <2>1, <2>7 DEF ClientOutcomes, Killed
    <3> QED BY <2>13, <3>1, FitOff
  <2>12. Fit([o EXCEPT !.net = n, !.cl = k])
    <3>1. [o EXCEPT !.net = n, !.cl = k] = With(o, k, n)
      BY <2>1 DEF ClientOutcomes, With
    <3>2. Turned(o, k, n) /\ k.state # "IDLE"
      BY <2>8, <2>13
    <3>3. Fit(With(o, k, n))
      BY <3>2, FitOn
    <3> QED BY <3>1, <3>3
  <2> QED
    BY <2>3, <2>9, <2>10, <2>11, <2>12, FitFalse
<1> QED
  BY <1>1, <1>2

LEMMA RetryOutcome ==
  ASSUME NEW o, Fit(o), o.on, o.cl.attempts = 0, NEW z \in Retry(o)
  PROVE  Fit(z)
<1> DEFINE m == [o.cl EXCEPT !.attempts = 1]
           a == [o EXCEPT !.cl = m]
           p == CloseFd(a)
           l == [p.cl EXCEPT !.state = "NO_CONNECTION", !.eof = FALSE]
           b == [p EXCEPT !.cl = l]
<1>1. o \in ClientOutcomes /\ o.sent = 0 /\ cl.attempts = 0
  BY DEF Fit, Retried, ClientOutcomes
<1>2. m \in Cl /\ m.attempts = 1
  <2>1. o.cl \in Cl /\ 1 \in 0..2
    BY <1>1 DEF ClientOutcomes
  <2> QED BY ONLY <2>1 DEF Cl
<1>3. [o EXCEPT !.cl.attempts = 1] = a
  BY <1>1 DEF ClientOutcomes
<1> HIDE DEF m
<1>4. a \in ClientOutcomes /\ a.sent = 0 /\ a.on = o.on /\ a.cl.attempts = 1 /\ a.fate = o.fate
  BY <1>1, <1>2 DEF ClientOutcomes
<1> HIDE DEF a
<1>5. /\ p \in ClientOutcomes /\ p.sent = 0 /\ p.on = o.on /\ p.cl.attempts = 1
      /\ p.fate = o.fate /\ p.cl.fd = NoFd
  BY <1>4, CloseFdOutcome DEF Alike
<1>6. PICK q \in SetupConnection([p EXCEPT !.cl.state = "NO_CONNECTION", !.cl.eof = FALSE]) :
        z = IF q.on THEN q ELSE [q EXCEPT !.fate = "undefined"]
  BY <1>3 DEF Retry
<1> HIDE DEF p
<1>7. /\ l \in Cl /\ l.fd = NoFd /\ l.state = "NO_CONNECTION" /\ l.attempts = 1
  BY <1>5 DEF ClientOutcomes, Cl
<1>8. [p EXCEPT !.cl.state = "NO_CONNECTION", !.cl.eof = FALSE] = b
  BY <1>5 DEF ClientOutcomes
<1> HIDE DEF l
<1>9. /\ b \in ClientOutcomes /\ b.sent = 0 /\ b.on = o.on /\ b.cl = l /\ b.fate = o.fate
  BY <1>5, <1>7 DEF ClientOutcomes
<1> HIDE DEF b
<1>10. /\ q \in ClientOutcomes /\ q.fate = o.fate /\ Tied(q.cl)
       /\ q.cl.attempts = 1
       /\ q.on => /\ q.sent = 1 /\ q.cl.state = "WRITE_REQUEST"
                  /\ Watched(q.cd) = {Client}
       /\ ~q.on => q.sent = 0 /\ q.cl.state = "NO_CONNECTION"
  BY <1>6, <1>7, <1>8, <1>9, SetupOutcome DEF Tied
<1>11. CASE q.on
  BY <1>1, <1>6, <1>10, <1>11 DEF Fit, Retried, Busy
<1>12. CASE ~q.on
  <2>1. /\ z \in ClientOutcomes /\ z.cl = q.cl /\ ~z.on /\ z.sent = 0
    BY <1>6, <1>10, <1>12 DEF ClientOutcomes
  <2> QED
    BY <1>1, <1>10, <2>1 DEF Fit, Retried
<1> QED
  BY <1>11, <1>12

LEMMA ReadHeaderFit ==
  ASSUME NEW o, Fit(o), NEW a \in BOOLEAN, NEW z \in ReadHeader(o, a)
  PROVE  Fit(z)
<1>1. CASE ~o.on \/ o.cl.state # "READ_HEADER"
  BY <1>1 DEF ReadHeader
<1>2. CASE ~(~o.on \/ o.cl.state # "READ_HEADER")
  <2> DEFINE c == o.cl.fd
  <2>1. PICK r \in NbRead(o.net[c], "client") :
          LET h == o.cl.header \o r.got
              p == [o EXCEPT !.net[c] = r.net, !.cl.header = h, !.cl.eof = r.status = "eof"]
          IN  z \in
            IF r.status = "error" \/ (r.status = "eof" /\ h = <<>>)
              THEN IF KeepOpen /\ h = <<>> /\ o.cl.attempts = 0
                     THEN Retry(p)
                     ELSE {False([p EXCEPT !.cl.attempts = IF KeepOpen /\ h = <<>> THEN 2 ELSE @])}
            ELSE IF Len(h) <= HeaderLen THEN {[p EXCEPT !.on = r.status # "eof"]}
            ELSE {[p EXCEPT !.cl.header   = <<>>,
                            !.cl.response = SubSeq(h, HeaderLen + 1, Len(h)),
                            !.cl.state    = "READ_RESPONSE"]}
    BY <1>2 DEF ReadHeader
  <2> DEFINE h == o.cl.header \o r.got
             e == r.status = "eof"
             p == [o EXCEPT !.net[c] = r.net, !.cl.header = h, !.cl.eof = e]
             n == [o.net EXCEPT ![c] = r.net]
             l == [o.cl EXCEPT !.header = h, !.eof = e]
             t == SubSeq(h, HeaderLen + 1, Len(h))
             k == [l EXCEPT !.header = <<>>, !.response = t, !.state = "READ_RESPONSE"]
             j == [l EXCEPT !.attempts = 2]
  <2>2. /\ c \in Conns /\ o.net \in Nets /\ o.net[c] \in Connection
        /\ o.fate = "select" /\ o.cl \in Cl /\ o \in ClientOutcomes /\ o.on
        /\ o.cl.state = "READ_HEADER"
    BY <1>2 DEF Fit, Tied, ClientOutcomes, Cl, Nets
  <2>3. r.net \in Connection /\ r.net.end = o.net[c].end /\ r.got \in Seq(Calls)
    BY <2>2, ReadJoins DEF Ends
  <2>4. n \in Nets
    BY <2>2, <2>3, SameEnds
  <2>5. h \in Seq(Calls) /\ <<>> \in Seq(Calls)
    BY <2>2, <2>3, ConcatProperties, EmptySeq DEF Cl
  <2>6. t \in Seq(Calls)
    BY <2>5, Lengths, RestOf
  <2>7. \/ o.cl.attempts = 0 /\ z \in Retry(p)
        \/ z = False(p)
        \/ z = False([p EXCEPT !.cl.attempts = 2])
        \/ z = [p EXCEPT !.on = FALSE]
        \/ z = [p EXCEPT !.on = TRUE]
        \/ z = [p EXCEPT !.cl.header = <<>>, !.cl.response = t, !.cl.state = "READ_RESPONSE"]
    <3>1. [p EXCEPT !.cl.attempts = @] = p
      BY <2>2 DEF ClientOutcomes, Cl
    <3> DEFINE s == [p EXCEPT !.cl.attempts = 2]
    <3>2. [p EXCEPT !.cl.attempts = IF KeepOpen /\ h = <<>> THEN 2 ELSE @] \in {p, s}
      <4> HIDE DEF p
      <4> QED BY <3>1
    <3> HIDE DEF p, s, t, h
    <3>3. \/ o.cl.attempts = 0 /\ z \in Retry(p)
          \/ z = False([p EXCEPT !.cl.attempts = IF KeepOpen /\ h = <<>> THEN 2 ELSE @])
          \/ z = [p EXCEPT !.on = r.status # "eof"]
          \/ z = [p EXCEPT !.cl.header = <<>>, !.cl.response = t, !.cl.state = "READ_RESPONSE"]
      BY <2>1 DEF p, t, h
    <3> QED BY <3>2, <3>3 DEF s
  <2>8. e \in BOOLEAN
    OBVIOUS
  <2> HIDE DEF c, h, t, e
  <2>9. l \in Cl /\ l.fd = o.cl.fd /\ l.attempts = o.cl.attempts /\ l.state = "READ_HEADER"
    BY <2>2, <2>5, <2>8 DEF Cl
  <2>10. p = [o EXCEPT !.cl = l, !.net = n]
    BY <2>2 DEF ClientOutcomes
  <2> HIDE DEF l, p
  <2>11. /\ k \in Cl /\ k.fd = o.cl.fd /\ k.attempts = o.cl.attempts
         /\ k.state = "READ_RESPONSE"
    BY <2>5, <2>6, <2>9 DEF Cl
  <2>12. /\ j \in Cl /\ j.fd = o.cl.fd /\ j.attempts = 2 /\ j.state = "READ_HEADER"
    BY <2>9 DEF Cl
  <2> HIDE DEF n
  <2>13. Fit(p) /\ p.on /\ p.cl = l /\ p.net = n
    <3>1. Turned(o, l, n)
      BY <2>2, <2>4, <2>9 DEF Turned, Busy
    <3>2. l.state # "IDLE"
      BY <2>9
    <3>3. p = With(o, l, n)
      BY <2>10 DEF With
    <3> QED BY <3>1, <3>2, <3>3, FitOn
  <2>14. /\ p \in ClientOutcomes
         /\ [p EXCEPT !.on = FALSE] = False(p) /\ [p EXCEPT !.on = TRUE] = p
    BY <2>13 DEF Fit, False, ClientOutcomes
  <2>15. [p EXCEPT !.cl.header = <<>>, !.cl.response = t, !.cl.state = "READ_RESPONSE"]
           = With(o, k, n)
    BY <2>2, <2>10 DEF ClientOutcomes, With
  <2>16. Fit(False([p EXCEPT !.cl.attempts = 2]))
    <3> DEFINE f == False([p EXCEPT !.cl.attempts = 2])
    <3>1. f = [p EXCEPT !.cl = j, !.on = FALSE]
      BY <2>13, <2>14 DEF ClientOutcomes, False
    <3> HIDE DEF f, j
    <3>2. /\ f \in ClientOutcomes /\ f.cl = j /\ ~f.on /\ f.sent = p.sent
      BY <2>12, <2>14, <3>1 DEF ClientOutcomes
    <3>3. Retried(f) /\ Tied(f.cl)
      BY <2>9, <2>12, <2>13, <3>2 DEF Fit, Retried, Tied
    <3> QED BY <2>12, <3>2, <3>3 DEF Fit, f
  <2> HIDE DEF k
  <2>17. Fit(With(o, k, n))
    <3>1. Turned(o, k, n)
      BY <2>2, <2>4, <2>11 DEF Turned, Busy
    <3> QED BY <2>11, <3>1, FitOn
  <2>18. ASSUME o.cl.attempts = 0, z \in Retry(p)
         PROVE  Fit(z)
    BY <2>9, <2>13, <2>18, RetryOutcome
  <2> QED
    <3>1. Fit(False(p))
      BY <2>13, FitFalse
    <3> HIDE DEF Retry
    <3> QED BY <2>7, <2>13, <2>14, <2>15, <2>16, <2>17, <2>18, <3>1
<1> QED
  BY <1>1, <1>2
LEMMA ReadResponseFit ==
  ASSUME NEW o, Fit(o), NEW a \in BOOLEAN, NEW z \in ReadResponse(o, a)
  PROVE  Fit(z)
<1>1. CASE ~o.on \/ o.cl.state # "READ_RESPONSE"
  BY <1>1 DEF ReadResponse
<1>2. CASE ~(~o.on \/ o.cl.state # "READ_RESPONSE")
  <2> DEFINE c == o.cl.fd
             l == [o.cl EXCEPT !.state = "IDLE"]
  <2>1. /\ c \in Conns /\ o.net \in Nets /\ o.net[c] \in Connection
        /\ o.cl \in Cl /\ o \in ClientOutcomes /\ o.on
        /\ o.cl.state = "READ_RESPONSE"
    BY <1>2 DEF Fit, Tied, ClientOutcomes, Cl, Nets
  <2>2. CASE Len(o.cl.response) >= BodyLen
    <3>1. z = False([o EXCEPT !.cl.state = "IDLE"])
      BY <1>2, <2>2 DEF ReadResponse
    <3>2. l \in Cl /\ l.fd = o.cl.fd /\ l.attempts = o.cl.attempts /\ l.state = "IDLE"
          /\ l.response = o.cl.response
      BY <2>1 DEF Cl
    <3>3. z = Ended(o, l, o.net)
      BY <2>1, <3>1 DEF ClientOutcomes, False, Ended
    <3> HIDE DEF l
    <3>4. Turned(o, l, o.net)
      BY <2>1, <2>2, <3>2 DEF Turned
    <3> QED BY <3>3, <3>4, FitOff
  <2>3. CASE ~(Len(o.cl.response) >= BodyLen)
    <3>1. PICK r \in NbRead(o.net[c], "client") :
            LET b == o.cl.response \o r.got
                p == [o EXCEPT !.net[c] = r.net, !.cl.response = b, !.cl.eof = r.status = "eof"]
            IN  z = CASE r.status = "error" -> False(p)
                      [] r.status # "error" /\ Len(b) < BodyLen -> [p EXCEPT !.on = r.status # "eof"]
                      [] OTHER -> False([p EXCEPT !.cl.state = "IDLE"])
      BY <1>2, <2>3 DEF ReadResponse
    <3> DEFINE b == o.cl.response \o r.got
               e == r.status = "eof"
               p == [o EXCEPT !.net[c] = r.net, !.cl.response = b, !.cl.eof = e]
               n == [o.net EXCEPT ![c] = r.net]
               k == [o.cl EXCEPT !.response = b, !.eof = e]
               j == [k EXCEPT !.state = "IDLE"]
    <3>2. r.net \in Connection /\ r.net.end = o.net[c].end /\ r.got \in Seq(Calls)
      BY <2>1, ReadJoins DEF Ends
    <3>3. n \in Nets
      BY <2>1, <3>2, SameEnds
    <3>4. b \in Seq(Calls)
      BY <2>1, <3>2, ConcatProperties DEF Cl
    <3>5. e \in BOOLEAN
      OBVIOUS
    <3>6. \/ z = False(p)
          \/ z = [p EXCEPT !.on = FALSE]
          \/ z = [p EXCEPT !.on = TRUE]
          \/ ~(Len(b) < BodyLen) /\ z = False([p EXCEPT !.cl.state = "IDLE"])
      <4> HIDE DEF p, b
      <4>1. \/ z = False(p)
            \/ z = [p EXCEPT !.on = r.status # "eof"]
            \/ ~(Len(b) < BodyLen) /\ z = False([p EXCEPT !.cl.state = "IDLE"])
        BY <3>1 DEF p, b
      <4> QED BY <4>1
    <3> HIDE DEF c, b, e
    <3>7. k \in Cl /\ k.fd = o.cl.fd /\ k.attempts = o.cl.attempts /\ k.state = "READ_RESPONSE"
          /\ k.response = b
      BY <2>1, <3>4, <3>5 DEF Cl
    <3>8. p = [o EXCEPT !.cl = k, !.net = n]
      BY <2>1 DEF ClientOutcomes
    <3> HIDE DEF k, n, p
    <3>9. Turned(o, k, n) /\ k.state # "IDLE"
      BY <2>1, <3>3, <3>7 DEF Turned, Busy
    <3>10. p = With(o, k, n)
      BY <3>8 DEF With
    <3>11. Fit(p) /\ p.on /\ p.cl = k /\ p.net = n
      BY <3>9, <3>10, FitOn
    <3>12. /\ p \in ClientOutcomes
           /\ [p EXCEPT !.on = FALSE] = False(p) /\ [p EXCEPT !.on = TRUE] = p
      BY <3>11 DEF Fit, False, ClientOutcomes
    <3>13. ASSUME ~(Len(b) < BodyLen)
           PROVE  Fit(False([p EXCEPT !.cl.state = "IDLE"]))
      <4>1. Len(b) >= BodyLen
        BY <3>4, <3>13, Lengths
      <4>2. j \in Cl /\ j.fd = o.cl.fd /\ j.attempts = o.cl.attempts /\ j.state = "IDLE"
            /\ j.response = b
        BY <3>7 DEF Cl
      <4>3. False([p EXCEPT !.cl.state = "IDLE"]) = Ended(o, j, n)
        BY <2>1, <3>8 DEF ClientOutcomes, False, Ended
      <4> HIDE DEF j
      <4>4. Turned(o, j, n)
        BY <2>1, <3>3, <4>1, <4>2 DEF Turned
      <4> QED BY <4>3, <4>4, FitOff
    <3>14. Fit(False(p))
      BY <3>11, FitFalse
    <3> QED
      BY <3>6, <3>11, <3>12, <3>13, <3>14
  <2> QED BY <2>2, <2>3
<1> QED
  BY <1>1, <1>2

LEMMA ClientHandleEventFit ==
  ASSUME Fit(Begun(cl)), Call \in Calls, NEW a \in BOOLEAN,
         NEW z \in ClientHandleEvent(a)
  PROVE  Fit(z)
<1> DEFINE o == Begun(cl)
           Now(p) == a /\ p.cl.state = cl.state
           w == WriteRequest(o)
           h == UNION { ReadHeader(p, Now(p)) : p \in w }
<1>1. z \in UNION { ReadResponse(p, Now(p)) : p \in h }
  BY DEF ClientHandleEvent
<1>2. o.on /\ \A p : Now(p) \in BOOLEAN
  BY DEF Begun
<1> HIDE DEF o, Now
<1>3. PICK p \in h : z \in ReadResponse(p, Now(p))
  BY <1>1
<1>4. PICK y \in w : p \in ReadHeader(y, Now(y))
  BY <1>3
<1>5. Fit(o)
  BY DEF o
<1>6. Fit(y)
  BY <1>2, <1>4, <1>5, WriteRequestOutcome
<1>7. Fit(p)
  BY <1>2, <1>4, <1>6, ReadHeaderFit
<1> QED
  BY <1>2, <1>3, <1>7, ReadResponseFit
(***************************************************************************)
(* The client's steps.                                                     *)
(***************************************************************************)
ClientInv ==
  /\ cpc \in {"idle", "select", "killed", "undefined"}
  /\ cd \in Watchers
  /\ cl \in Cl /\ Tied(cl)
  /\ made \in 0..Len(Wanted)
  /\ tries \in [Calls -> 0..2]
  /\ result \in [Calls -> {"none", "false"} \cup Calls]
  /\ cpc = "select" => /\ made >= 1 /\ cl.state \in Busy
                       /\ Watched(cd) = {Client}
                       /\ cl.attempts = 0 => tries[Call] <= 1

LEMMA WantedCalls ==
  ASSUME NEW i \in Nat, 1 <= i, i <= Len(Wanted)
  PROVE  Wanted[i] \in Calls
BY ClientAssumption

LEMMA ClientTypes ==
  ASSUME ClientInv
  PROVE  ClientTypeOK
<1>1. cd.endTime \in EndTimes /\ Watched(cd) \subseteq {Client}
  BY DispatcherFields DEF ClientInv, Watchers
<1> QED
  BY <1>1 DEF ClientInv, ClientTypeOK, Cl, Units

LEMMA ClientStart ==
  ASSUME Init
  PROVE  ClientInv
<1>1. NewDispatcher \in Watchers
  BY NewIsDistinct DEF Watchers, Distinct
<1>2. <<>> \in Seq(Calls) /\ 0 \in Units /\ 0 \in 0..2
  BY EmptySeq, Lengths DEF Units
<1>3. cl \in Cl /\ Tied(cl)
  BY <1>2 DEF Init, ClientInit, Cl, Tied, NoFd
<1>4. Len(Wanted) \in Nat
  BY ClientAssumption
<1> QED
  BY <1>1, <1>2, <1>3, <1>4 DEF Init, ClientInit, ClientInv

LEMMA WatchersWork ==
  ASSUME NEW d \in Watchers, NEW t \in EndTimes
  PROVE  /\ BeginWork(d, t) \in Watchers /\ Watched(BeginWork(d, t)) = Watched(d)
         /\ EndWork(d) \in Watchers /\ Watched(EndWork(d)) = Watched(d)
<1> DEFINE b == BeginWork(d, t)
           e == EndWork(d)
<1>1. b \in Dispatchers({Client}) /\ b.sources = d.sources
  BY DEF Watchers, Dispatchers, BeginWork
<1>2. e \in Dispatchers({Client}) /\ e.sources = d.sources
  BY DEF Watchers, Dispatchers, EndWork
<1> HIDE DEF b, e
<1>3. b \in Watchers /\ Watched(b) = Watched(d)
  BY <1>1 DEF Watchers, Distinct, Watched
<1>4. e \in Watchers /\ Watched(e) = Watched(d)
  BY <1>2 DEF Watchers, Distinct, Watched
<1> QED
  BY <1>3, <1>4 DEF b, e

LEMMA ExecuteInv ==
  ASSUME ClientInv, NetTypeOK, Execute
  PROVE  ClientInv' /\ net' \in Nets
<1> DEFINE k == [cl EXCEPT !.attempts = 0]
           b == Begun(k)
           x == Wanted[made']
<1>1. PICK o \in SetupConnection(b) :
       /\ tries' = [tries EXCEPT ![x] = o.sent]
       /\ cl' = o.cl
       /\ net' = o.net
       /\ IF o.on THEN /\ cpc' = "select"
                       /\ cd' = BeginWork(o.cd, "never")
                       /\ UNCHANGED result
                  ELSE /\ cd' = o.cd
                       /\ result' = [result EXCEPT ![x] = "false"]
                       /\ UNCHANGED cpc
  BY DEF Execute
<1>2. k \in Cl /\ Tied(k) /\ k.attempts = 0
  <2>1. 0 \in 0..2
    OBVIOUS
  <2> QED BY <2>1 DEF ClientInv, Cl, Tied
<1> HIDE DEF k
<1>3. b \in ClientOutcomes /\ b.on /\ b.cl = k /\ b.sent = 0
  BY <1>2 DEF Begun, ClientOutcomes, ClientInv, Nets, NetTypeOK
<1> HIDE DEF b
<1>4. /\ o \in ClientOutcomes /\ Tied(o.cl) /\ o.cl.attempts = 0
      /\ o.on => /\ o.sent = 1 /\ o.cl.state = "WRITE_REQUEST"
                 /\ Watched(o.cd) = {Client}
  BY <1>2, <1>3, SetupOutcome
<1>5. /\ o.cl \in Cl /\ o.cd \in Watchers /\ o.net \in Nets /\ o.sent \in 0..2
      /\ o.on \in BOOLEAN /\ "never" \in EndTimes
  BY <1>4 DEF ClientOutcomes, EndTimes
<1>6. made' \in 1..Len(Wanted) /\ made' = made + 1 /\ Len(Wanted) \in Nat
  BY ClientAssumption DEF Execute, ClientInv
<1>7. x \in Calls /\ x = Call'
  BY <1>6, WantedCalls DEF Call
<1>8. tries' \in [Calls -> 0..2] /\ tries'[x] = o.sent
  BY <1>1, <1>5, <1>7 DEF ClientInv
<1> HIDE DEF x
<1>9. CASE o.on
  <2>1. cd' \in Watchers /\ Watched(cd') = {Client}
    BY <1>1, <1>4, <1>5, <1>9, WatchersWork
  <2> QED
    BY <1>1, <1>4, <1>5, <1>6, <1>7, <1>8, <1>9, <2>1 DEF ClientInv, Busy
<1>10. CASE ~o.on
  <2>1. result' \in [Calls -> {"none", "false"} \cup Calls]
    BY <1>1, <1>7, <1>10 DEF ClientInv
  <2>2. cpc' = "idle"
    BY <1>1, <1>10 DEF Execute
  <2> QED
    BY <1>1, <1>4, <1>5, <1>6, <1>8, <1>10, <2>1, <2>2 DEF ClientInv
<1> QED
  BY <1>5, <1>9, <1>10

LEMMA TurnInv ==
  ASSUME ClientInv, NetTypeOK, NEW a \in BOOLEAN, Turn(a)
  PROVE  ClientInv' /\ net' \in Nets
<1> DEFINE Mask(o) == IF o.cl.state = "WRITE_REQUEST" THEN {"writable"} ELSE {"readable"}
           Off(o) == [o EXCEPT !.cd = RemoveSource(o.cd, Client)]
           After(o) == IF o.on THEN [o EXCEPT !.cd = SetMask(o.cd, Client, Mask(o))]
                       ELSE IF KeepOpen THEN Off(o) ELSE CloseClient(Off(o))
<1>1. PICK o \in ClientHandleEvent(a) :
       LET p    == After(o)
           over == p.cd.sources = <<>> \/ p.cd.endTime = "now"
           ends == over /\ o.fate = "select"
       IN  /\ net' = p.net
           /\ cl' = IF ends /\ p.cl.state = "IDLE" THEN [p.cl EXCEPT !.response = <<>>] ELSE p.cl
           /\ cd' = IF over THEN EndWork(p.cd) ELSE p.cd
           /\ cpc' = IF ends THEN "idle" ELSE o.fate
           /\ tries' = [tries EXCEPT ![Call] = @ + o.sent]
           /\ result' = IF ~ends THEN result ELSE
                        [result EXCEPT ![Call] = IF p.cl.state = "IDLE"
                                                   THEN Parsed(p.cl.response) ELSE "false"]
  BY DEF Turn
<1>2. cpc = "select" /\ UNCHANGED <<listening, made>>
  BY DEF Turn
<1>3. /\ made \in 1..Len(Wanted) /\ cl.state \in Busy /\ Watched(cd) = {Client}
      /\ cl.attempts = 0 => tries[Call] <= 1
  BY <1>2, ClientAssumption DEF ClientInv
<1>4. Call \in Calls /\ Call' = Call
  BY <1>2, <1>3, WantedCalls, ClientAssumption DEF Call
<1>5. Fit(Begun(cl))
  <2> DEFINE b == Begun(cl)
  <2>1. /\ b \in ClientOutcomes /\ b.cl = cl /\ b.sent = 0 /\ b.cd = cd
        /\ b.fate = "select"
    BY DEF Begun, ClientOutcomes, ClientInv, Nets, NetTypeOK
  <2> HIDE DEF b
  <2>2. Fit(b)
    BY <1>3, <2>1 DEF Fit, Retried, ClientInv, Busy
  <2> QED BY <2>2 DEF b
<1>6. Fit(o)
  BY <1>4, <1>5, ClientHandleEventFit
<1> DEFINE p == After(o)
           over == p.cd.sources = <<>> \/ p.cd.endTime = "now"
           ends == over /\ o.fate = "select"
<1>7. /\ p \in ClientOutcomes /\ Tied(p.cl) /\ p.cl.attempts = o.cl.attempts
      /\ o.on => p.cl = o.cl /\ Watched(p.cd) = {Client}
      /\ ~o.on => p.cd.sources = <<>>
      /\ p.cl.state = "IDLE" => Len(p.cl.response) >= BodyLen
  <2>1. o \in ClientOutcomes /\ o.cd \in Watchers
    BY <1>6 DEF Fit, ClientOutcomes
  <2>2. CASE o.on
    <3> DEFINE d == SetMask(o.cd, Client, Mask(o))
    <3>1. Distinct(o.cd, {Client}) /\ Client \in Watched(o.cd) /\ Mask(o) \in SUBSET Events
      BY <1>6, <2>1, <2>2 DEF Fit, Watchers, Events
    <3> HIDE DEF Mask
    <3>2. d \in Watchers /\ Watched(d) = {Client}
      BY <1>6, <2>2, <3>1, SetMaskDistinct DEF Fit, Watchers, Distinct
    <3>3. p = [o EXCEPT !.cd = d]
      BY <2>2
    <3> HIDE DEF d, p
    <3>4. p \in ClientOutcomes /\ p.cl = o.cl /\ p.cd = d
      BY <2>1, <3>2, <3>3 DEF ClientOutcomes
    <3> QED BY <1>6, <2>2, <3>2, <3>4 DEF Fit, Busy
  <2>3. CASE ~o.on
    <3> DEFINE q == Off(o)
    <3>1. RemoveSource(o.cd, Client) \in Watchers /\ RemoveSource(o.cd, Client).sources = <<>>
      BY <2>1, Unwatched
    <3>2. q \in ClientOutcomes /\ q.cl = o.cl /\ q.cd.sources = <<>>
      BY <2>1, <3>1 DEF ClientOutcomes
    <3>3. p = IF KeepOpen THEN q ELSE CloseClient(q)
      BY <2>3
    <3> HIDE DEF q, p
    <3>4. CASE KeepOpen
      BY <1>6, <2>3, <3>2, <3>3, <3>4 DEF Fit
    <3>5. CASE ~KeepOpen
      <4>1. /\ p \in ClientOutcomes /\ p.cl.attempts = o.cl.attempts
            /\ p.cl.fd = NoFd /\ p.cl.state = "NO_CONNECTION"
        BY <3>2, <3>3, <3>5, CloseClientOutcome DEF Alike
      <4>2. p.cd.sources = <<>>
        <5> DEFINE e == ExitWork(q.cd)
        <5>1. e \in Watchers
          <6>1. e \in Dispatchers({Client}) /\ e.sources = q.cd.sources
            BY <3>2 DEF ClientOutcomes, Watchers, ExitWork, Dispatchers, EndTimes
          <6> HIDE DEF e
          <6> QED BY <3>2, <6>1 DEF ClientOutcomes, Watchers, Distinct
        <5>2. RemoveSource(e, Client).sources = <<>>
          BY <5>1, Unwatched
        <5>3. CloseClient(q).cd = RemoveSource(e, Client)
          BY <3>2 DEF CloseClient, CloseFd, ClientOutcomes
        <5> QED BY <3>3, <3>5, <5>2, <5>3
      <4> QED BY <2>3, <4>1, <4>2 DEF Tied
    <3> QED BY <3>4, <3>5
  <2> QED BY <2>2, <2>3
<1>8. /\ net' = p.net
      /\ cl' = IF ends /\ p.cl.state = "IDLE" THEN [p.cl EXCEPT !.response = <<>>] ELSE p.cl
      /\ cd' = IF over THEN EndWork(p.cd) ELSE p.cd
      /\ cpc' = IF ends THEN "idle" ELSE o.fate
      /\ tries' = [tries EXCEPT ![Call] = @ + o.sent]
      /\ result' = IF ~ends THEN result ELSE
                   [result EXCEPT ![Call] = IF p.cl.state = "IDLE"
                                              THEN Parsed(p.cl.response) ELSE "false"]
  BY <1>1
<1> HIDE DEF p, After
<1>9. /\ p.net \in Nets /\ p.cl \in Cl /\ p.cd \in Watchers /\ o.fate \in {"select", "killed", "undefined"}
      /\ o.sent \in 0..1 /\ o.cl \in Cl
  BY <1>6, <1>7 DEF ClientOutcomes, Fit
<1>10. cl' \in Cl /\ Tied(cl') /\ cl'.attempts = o.cl.attempts
       /\ (~ends => cl' = p.cl)
  <2>1. <<>> \in Seq(Calls)
    BY EmptySeq
  <2> DEFINE k == [p.cl EXCEPT !.response = <<>>]
  <2>2. k \in Cl /\ Tied(k) /\ k.attempts = p.cl.attempts
    BY <1>7, <1>9, <2>1 DEF Cl, Tied
  <2> HIDE DEF k
  <2>3. cl' = p.cl \/ cl' = k
    BY <1>8 DEF k
  <2>4. ~ends => cl' = p.cl
    BY <1>8
  <2> QED BY <1>7, <1>9, <2>2, <2>3, <2>4
<1>11. cd' \in Watchers /\ Watched(cd') = Watched(p.cd)
  <2>1. "now" \in EndTimes
    BY DEF EndTimes
  <2> HIDE DEF over
  <2> QED BY <1>8, <1>9, <2>1, WatchersWork
<1>12. tries' \in [Calls -> 0..2] /\ (o.cl.attempts = 0 => tries'[Call] <= 1)
  <2>1. tries[Call] \in 0..2 /\ tries \in [Calls -> 0..2]
    BY <1>4 DEF ClientInv
  <2>2. /\ o.sent = 1 => cl.attempts = 0 /\ o.cl.attempts # 0
        /\ o.sent # 1 /\ o.cl.attempts = 0 => cl.attempts = 0
    BY <1>6 DEF Fit, Retried
  <2>3. tries[Call] + o.sent \in 0..2 /\ (o.cl.attempts = 0 => tries[Call] + o.sent <= 1)
    BY <1>3, <1>9, <2>1, <2>2
  <2> QED BY <1>4, <1>8, <2>1, <2>3
<1>13. result' \in [Calls -> {"none", "false"} \cup Calls]
  <2>1. p.cl.state = "IDLE" => Parsed(p.cl.response) \in {"false"} \cup Calls
    <3>1. p.cl.response \in Seq(Calls)
      BY <1>9 DEF Cl
    <3>2. p.cl.state = "IDLE" => p.cl.response[1] \in Calls
      BY <1>7, <3>1, Lengths
    <3> QED BY <3>2 DEF Parsed
  <2> HIDE DEF ends
  <2> QED BY <1>4, <1>8, <2>1 DEF ClientInv
<1>14. cpc' \in {"idle", "select", "killed", "undefined"}
  BY <1>8, <1>9
<1>15. cpc' = "select" => ~over /\ o.on
  BY <1>7, <1>8
<1>16. cpc' = "select" => /\ made' >= 1 /\ cl'.state \in Busy /\ Watched(cd') = {Client}
                          /\ cl'.attempts = 0 => tries'[Call'] <= 1
  <2> SUFFICES ASSUME cpc' = "select"
               PROVE  /\ made' >= 1 /\ cl'.state \in Busy /\ Watched(cd') = {Client}
                      /\ cl'.attempts = 0 => tries'[Call'] <= 1
    OBVIOUS
  <2>1. o.on /\ ~ends
    BY <1>15
  <2>2. cl' = o.cl /\ o.cl.state \in Busy
    BY <1>6, <1>7, <1>10, <2>1 DEF Fit
  <2>3. made' >= 1
    BY <1>2, <1>3
  <2> QED BY <1>4, <1>7, <1>11, <1>12, <2>1, <2>2, <2>3
<1> QED
  BY <1>2, <1>8, <1>9, <1>10, <1>11, <1>12, <1>13, <1>14, <1>16 DEF ClientInv
(***************************************************************************)
(* The other peer, the faults, and the whole.                              *)
(***************************************************************************)
PeerInv ==
  peer \in [fd : Conns \cup {NoFd}, call : Theirs, sent : Units]

XmlRpcInv == ServerInv /\ ClientInv /\ PeerInv /\ faults \in 0..MaxFaults

LEMMA PeerStepInv ==
  ASSUME PeerInv, NetTypeOK, PeerStep
  PROVE  PeerInv' /\ net' \in Nets
<1>0. /\ net \in Nets /\ peer.sent \in Units /\ peer.call \in Calls
      /\ HeaderLen + BodyLen \in Units
  BY XmlRpcAssumption, Lengths DEF PeerInv, Nets, NetTypeOK, Units
<1>1. CASE PeerConnects
  <2>1. PICK c \in Fresh(net) : /\ peer' = [peer EXCEPT !.fd = c]
                               /\ net' = [net EXCEPT ![c] = Connected]
    BY <1>1 DEF PeerConnects
  <2>2. c \in Conns /\ net[c] = NoConnection
    BY DEF Fresh
  <2>3. /\ Connected \in Connection /\ Connected.end["server"] # "open"
        /\ NoConnection.end["server"] # "open"
    BY NewJoins DEF NoConnection, Ends
  <2>4. net' \in Nets
    BY <1>0, <2>1, <2>2, <2>3, SameEnds
  <2> QED BY <2>1, <2>2, <2>4 DEF PeerInv
<1>2. CASE PeerSends
  <2> DEFINE m == Message(peer.call)
             w == NbWrite(net[peer.fd], "client", m, peer.sent)
  <2>1. peer.fd \in Conns /\ net[peer.fd] \in Connection
    BY <1>2 DEF PeerSends, PeerInv, NetTypeOK
  <2>2. m \in Seq(Calls) /\ Len(m) = HeaderLen + BodyLen
    BY <1>0, MessageIs
  <2>3. net' = [net EXCEPT ![peer.fd] = w.net] /\ peer' = [peer EXCEPT !.sent = w.written]
    BY <1>2 DEF PeerSends
  <2> HIDE DEF m
  <2>4. /\ w.net \in Connection /\ w.net.end = net[peer.fd].end /\ w.written \in Units
    <3>1. peer.sent \in 0..Len(m)
      BY <1>0, <2>2 DEF Units
    <3>2. /\ w.net \in Connection /\ w.net.end = net[peer.fd].end
          /\ w.written \in peer.sent..Len(m)
      BY <2>1, <2>2, <3>1, WriteJoins DEF Ends
    <3> HIDE DEF w
    <3> QED BY <1>0, <2>2, <3>2, Lengths DEF Units
  <2> HIDE DEF w
  <2>5. net' \in Nets
    BY <1>0, <2>1, <2>3, <2>4, SameEnds
  <2> QED BY <2>3, <2>4, <2>5 DEF PeerInv
<1>3. CASE PeerReads
  <2> DEFINE c == peer.fd
             k == [net[c] EXCEPT !.data["client"] = <<>>]
  <2>1. c \in Conns /\ net[c] \in Connection /\ UNCHANGED peer
    BY <1>3 DEF PeerReads, PeerInv, NetTypeOK
  <2>2. net' = [net EXCEPT ![c].data["client"] = <<>>]
    BY <1>3 DEF PeerReads
  <2> HIDE DEF c
  <2>3. k \in Connection /\ k.end = net[c].end
    <3>1. Joins(net[c]) /\ <<>> \in Seq(Calls) /\ Len(<<>>) <= Cap
      BY <2>1, ConnectionJoins, EmptySeq, Lengths
    <3>2. Joins(k) /\ k.end = net[c].end
      BY <3>1 DEF Joins
    <3> QED BY <3>2, ConnectionJoins
  <2>4. net' = [net EXCEPT ![c] = k]
    BY <2>2
  <2> HIDE DEF k
  <2>5. net' \in Nets
    BY <1>0, <2>1, <2>3, <2>4, SameEnds
  <2> QED BY <2>1, <2>5 DEF PeerInv
<1>4. CASE PeerHangsUp
  <2> DEFINE c == peer.fd
             k == CloseEnd(net[c], "client")
  <2>1. c \in Conns /\ net[c] \in Connection
    BY <1>4 DEF PeerHangsUp, PeerInv, NetTypeOK
  <2>2. /\ net' = [net EXCEPT ![c] = k]
        /\ peer' = [peer EXCEPT !.fd = NoFd, !.sent = HeaderLen + BodyLen]
    BY <1>4 DEF PeerHangsUp
  <2>3. k \in Connection /\ (k.end["server"] = "open" <=> net[c].end["server"] = "open")
    BY <2>1, CloseJoins DEF Ends
  <2> HIDE DEF c, k
  <2>4. net' \in Nets
    BY <1>0, <2>1, <2>2, <2>3, SameEnds
  <2> QED BY <1>0, <2>2, <2>4 DEF PeerInv
<1> QED
  BY <1>1, <1>2, <1>3, <1>4 DEF PeerStep

LEMMA ResetNets ==
  ASSUME NetTypeOK, NEW c \in Conns, Reset(c)
  PROVE  net' \in Nets
<1> DEFINE k == [net[c] EXCEPT !.link = "reset"]
<1>1. net[c] \in Connection /\ net \in Nets
  BY DEF NetTypeOK, Nets
<1>2. k \in Connection /\ k.end = net[c].end
  <2>1. Joins(net[c])
    BY <1>1, ConnectionJoins
  <2>2. Joins(k) /\ k.end = net[c].end
    BY <2>1 DEF Joins
  <2> QED BY <2>2, ConnectionJoins
<1>3. net' = [net EXCEPT ![c] = k]
  BY DEF Reset
<1> HIDE DEF k
<1> QED
  BY <1>1, <1>2, <1>3, SameEnds

LEMMA XmlRpcStart == Init => XmlRpcInv
<1> SUFFICES ASSUME Init PROVE XmlRpcInv
  OBVIOUS
<1>1. PeerInv /\ faults \in 0..MaxFaults
  BY XmlRpcAssumption, Lengths DEF Init, PeerInv, Units, NoFd
<1> QED
  BY <1>1, ServerStart, ClientStart DEF XmlRpcInv

LEMMA XmlRpcStep == XmlRpcInv /\ [Next]_vars => XmlRpcInv'
<1> SUFFICES ASSUME XmlRpcInv, [Next]_vars PROVE XmlRpcInv'
  OBVIOUS
<1>0. ServerInv /\ ClientInv /\ PeerInv /\ faults \in 0..MaxFaults /\ NetTypeOK
  BY DEF XmlRpcInv, ServerInv
<1>1. ASSUME net' \in Nets, UNCHANGED <<listening, serverVars>> PROVE ServerInv'
  BY <1>0, <1>1, ElsewhereStep DEF Nets
<1>2. ASSUME UNCHANGED clientVars PROVE ClientInv'
  BY <1>0, <1>2 DEF ClientInv, clientVars, Tied, Call
<1>3. ASSUME UNCHANGED peer PROVE PeerInv'
  BY <1>0, <1>3 DEF PeerInv
<1>4. CASE ByServer(ServerNext)
  BY <1>0, <1>2, <1>3, <1>4, ServerStep DEF ByServer, XmlRpcInv
<1>5. CASE ByClient(ClientNext)
  <2>1. ClientInv' /\ net' \in Nets
    BY <1>0, <1>5, ExecuteInv, TurnInv DEF ByClient, ClientNext
  <2>2. UNCHANGED <<listening, serverVars, peer, faults>>
    BY <1>5 DEF ByClient, ClientNext, Execute, Turn
  <2> QED BY <1>0, <1>1, <1>3, <2>1, <2>2 DEF XmlRpcInv
<1>6. CASE PeerStep
  <2>1. PeerInv' /\ net' \in Nets
    BY <1>0, <1>6, PeerStepInv
  <2>2. UNCHANGED <<listening, serverVars, clientVars, faults>>
    BY <1>6 DEF PeerStep
  <2> QED BY <1>0, <1>1, <1>2, <2>1, <2>2 DEF XmlRpcInv
<1>7. CASE Fault
  <2>1. faults' \in 0..MaxFaults /\ UNCHANGED peer
    BY <1>0, <1>7, XmlRpcAssumption DEF Fault
  <2>2. ASSUME NEW c \in Conns, Reset(c), UNCHANGED <<listening, serverVars, clientVars>>
        PROVE  XmlRpcInv'
    BY <1>0, <1>1, <1>2, <1>3, <2>1, <2>2, ResetNets DEF XmlRpcInv
  <2>3. ASSUME SelectInterrupted \/ AcceptFails, UNCHANGED clientVars
        PROVE  XmlRpcInv'
    BY <1>0, <1>2, <1>3, <2>1, <2>3, ServerStep DEF XmlRpcInv
  <2>4. ASSUME Turn(FALSE), UNCHANGED serverVars
        PROVE  XmlRpcInv'
    <3>1. ClientInv' /\ net' \in Nets
      BY <1>0, <2>4, TurnInv
    <3>2. UNCHANGED listening
      BY <2>4 DEF Turn
    <3> QED BY <1>1, <1>3, <2>1, <2>4, <3>1, <3>2 DEF XmlRpcInv
  <2> QED BY <1>7, <2>2, <2>3, <2>4 DEF Fault
<1>8. CASE UNCHANGED vars
  BY <1>0, <1>2, <1>3, <1>8
  DEF vars, serverVars, XmlRpcInv, ServerInv, NetTypeOK, WatchedAreOpen
<1> QED
  BY <1>4, <1>5, <1>6, <1>7, <1>8 DEF Next

\* Whatever the calls, the network and the other peer do, the buffers, the
\* counters of what is written and the states of the connections stay in their
\* ranges: at most two attempts at a call, and no more than a message written.
THEOREM XmlRpcTypesCorrect == Spec => []TypeOK
<1>1. XmlRpcInv => TypeOK
  BY ServerTypes, ClientTypes
  DEF XmlRpcInv, ServerInv, PeerInv, TypeOK, Units
<1> QED
  BY XmlRpcStart, XmlRpcStep, <1>1, PTL DEF Spec

\* The server's dispatcher watches its listener and every open connection, and
\* nothing that is closed, at every step: also when a method calls exit() or
\* shutdown(), a connection breaks while its response is written, and select()
\* is interrupted (XmlRpcDispatch.cpp, XmlRpcServer.cpp).
THEOREM WatchedCorrect == Spec => []WatchedAreOpen
<1>1. XmlRpcInv => WatchedAreOpen
  BY DEF XmlRpcInv, ServerInv
<1> QED
  BY XmlRpcStart, XmlRpcStep, <1>1, PTL DEF Spec
=============================================================================
