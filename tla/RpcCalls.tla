------------------------------ MODULE RpcCalls ------------------------------
(***************************************************************************)
(* One call, from the client's parameters to the client's answer: the      *)
(* request is written (XmlRpcClient.cpp, or xmlrpclib for                  *)
(* ivysync-remote.py), read, executed by a method of xmlrpc.cpp or as a    *)
(* multicall, answered (XmlRpcServer.cpp), and the response is read.  The  *)
(* document travels whole, as module XmlRpc shows it does.  What the       *)
(* methods do on the decoders is kept as the sequence of what they call;   *)
(* module RpcServer has what that leads to.                                *)
(*                                                                         *)
(* A multicall within a multicall is not among the calls: the code gives   *)
(* it the parameters of the outer one, and it never ends.                  *)
(***************************************************************************)
EXTENDS XmlRpcValue

CONSTANTS Made,        \* the calls clients make: [client, method, params]
          Channels,    \* the channels present are 1..Channels
          Files,       \* the names of files that can be opened
          Percent,     \* where each channel is, as getpos() and
          Offset       \* getoffset() tell it, the latter narrowed to an int

Methods == {"Play", "Stop", "Pause", "Open", "GetPos", "SetPos", "GetOffset",
            "SetOffset", "Quit"}

ASSUME CallsAssumption ==
  /\ Channels \in Nat
  /\ Percent \in [1..Channels -> 0..100]
  /\ Offset \in [1..Channels -> Int]
  /\ \A c \in Made : c.client \in {"XmlRpcClient", "xmlrpclib"}

VARIABLES call,         \* the call made
          stage,        \* how far it has come
          wire,         \* the document under way
          received,     \* the method's name and parameters as the server read them
          executed,     \* what came of it: result, whether a fault, calls on decoders
          answer        \* what the client read

vars == <<call, stage, wire, received, executed, answer>>

One == <<"Double", 10000000>>
Zero == <<"Double", 0>>
Text(t) == <<"String", t>>

(***************************************************************************)
(* The request.                                                            *)
(***************************************************************************)
Param(x) == <<"<param>">> \o x \o <<"</param>">>

\* Each element of an array is a parameter of its own.
RequestParams(params) ==
  CASE params[1] = "Invalid" -> <<>>
    [] params[1] = "Array" ->
         <<"<params>">> \o FlattenSeq([i \in DOMAIN params[2] |-> Param(ToXml(params[2][i]))])
                        \o <<"</params>">>
    [] OTHER -> <<"<params>">> \o Param(ToXml(params)) \o <<"</params>">>

Request(method, params) ==
  <<"<?xml?>", "\n", "<methodCall>", "<methodName>">> \o method
    \o <<"</methodName>", "\n">> \o params \o <<"</methodCall>", "\n">>

\* xmlrpclib.escape() leaves quotes as they are.
LibraryEncode(raw) ==
  FlattenSeq([i \in DOMAIN raw |->
                IF raw[i] \in {"&", "<", ">"} THEN <<"&", Entity[raw[i]]>>
                                              ELSE <<raw[i]>>])

\* xmlrpclib.dumps(), of integers and strings: one more tag, and ends of lines.
LibraryParam(v) ==
  <<"<param>", "\n", "<value>">>
    \o (IF v[1] = "Int" THEN <<"<int>", ToString(v[2]), "</int>">>
        ELSE <<"<string>">> \o LibraryEncode(v[2]) \o <<"</string>">>)
    \o <<"</value>", "\n", "</param>", "\n">>

GenerateRequest(c) ==
  Request(c.method,
          IF c.client = "XmlRpcClient" THEN RequestParams(c.params)
          ELSE <<"<params>", "\n">>
                 \o FlattenSeq([i \in DOMAIN c.params[2] |-> LibraryParam(c.params[2][i])])
                 \o <<"</params>", "\n">>)

RECURSIVE ReadParams(_, _, _)
ReadParams(x, i, params) ==
  LET v == FromXml(x, Past("<param>", x, i))
  IN  IF ~NextTagIs("<param>", x, i) THEN params
      ELSE ReadParams(x, Past("</param>", x, v.at), Append(params, v.v))

ParseRequest(x) ==
  LET name   == ParseTag("<methodName>", "</methodName>", x, 1)
      start  == FindTag("<params>", x, name.at)
      params == ReadParams(x, start, <<>>)
  IN  [method |-> name.text,
       params |-> IF name.text = <<>> \/ start = name.at \/ params = <<>>
                  THEN Invalid ELSE <<"Array", params>>]

(***************************************************************************)
(* The methods of xmlrpc.cpp.  Each returns a result, which it may leave    *)
(* invalid, or throws; and makes calls on a channel's decoder.             *)
(***************************************************************************)
Done(v, calls) == [fault |-> FALSE, value |-> v, calls |-> calls]

Fault(code, message) ==
  [fault |-> TRUE, calls |-> <<>>,
   value |-> <<"Struct", <<"faultCode">> :> <<"Int", code>> @@
                         <<"faultString">> :> Text(message)>>]

TypeError == Fault(-1, <<"type error">>)

Sized(v) == v[1] \in {"String", "Base64", "Array", "Struct"}

Size(v) == IF v[1] = "Struct" THEN Cardinality(DOMAIN v[2]) ELSE Len(v[2])

\* An invalid value becomes the default of the type asked for.
Is(v, type) == v[1] \in {type, "Invalid"}

Contents(v, default) == IF v = Invalid THEN default ELSE v[2]

NeedsTwo == {"Open", "SetPos", "SetOffset"}

Quiet == {"GetPos", "GetOffset", "SetPos", "SetOffset"}

\* stop() and close() of every decoder.
QuitAll == FlattenSeq([c \in 1..Channels |-> <<<<"stop", c>>, <<"close", c>>>>])

\* Broken on purpose: stops and empties before it looks for the file.
OpenStopsFirst(c, arg) ==
  IF ~Is(arg, "String") THEN TypeError
  ELSE IF Contents(arg, <<>>) \notin Files THEN Done(Zero, <<<<"stop", c>>, <<"empty", c>>>>)
  ELSE Done(One, <<<<"stop", c>>, <<"empty", c>>, <<"append", c, arg[2]>>>>)

Open(c, arg) ==
  IF ~Is(arg, "String") THEN TypeError
  ELSE IF Contents(arg, <<>>) \notin Files THEN Done(Zero, <<>>)
  ELSE Done(One, <<<<"stop", c>>, <<"empty", c>>, <<"append", c, arg[2]>>>>)

OnChannel(method, c, arg) ==
  CASE method = "Play"      -> Done(One, <<<<"play", c>>>>)
    [] method = "Stop"      -> Done(One, <<<<"stop", c>>>>)
    [] method = "Pause"     -> Done(One, <<<<"pause", c>>>>)
    [] method = "GetPos"    -> Done(<<"Double", Percent[c] * 10000000>>, <<>>)
    [] method = "GetOffset" -> Done(<<"Int", Offset[c]>>, <<>>)
    [] method = "Open"      -> Open(c, arg)
    [] method = "SetPos"    ->
         IF ~Is(arg, "Int") THEN TypeError
         ELSE Done(Invalid, <<<<"setpos", c, Contents(arg, 0)>>>>)
    [] method = "SetOffset" ->
         IF ~Is(arg, "Int") THEN TypeError
         ELSE Done(Invalid, <<<<"setoffset", c, Contents(arg, 0)>>>>)

Execute(method, params) ==
  LET first == params[2][1]
      c     == Contents(first, 0)
      needed == IF method \in NeedsTwo THEN 2 ELSE 1
  IN  IF method = "Quit" THEN Done(One, QuitAll)
      ELSE IF ~Sized(params) THEN TypeError
      ELSE IF Size(params) < needed
        THEN Done(IF method \in Quiet THEN Invalid ELSE Zero, <<>>)
      ELSE IF params[1] # "Array" THEN Fault(-1, <<"type error: expected an array">>)
      ELSE IF ~Is(first, "Int") THEN TypeError
      ELSE IF c \notin 1..Channels THEN Done(Zero, <<>>)
      ELSE OnChannel(method, c, IF method \in NeedsTwo THEN params[2][2] ELSE Invalid)

(***************************************************************************)
(* The server.                                                             *)
(***************************************************************************)
Known(name) == \E m \in Methods : name = <<m>>

ExecuteMethod(name, params) ==
  LET e == Execute(name[1], params)
  IN  IF ~e.fault /\ e.value = Invalid THEN [e EXCEPT !.value = Text(<<>>)] ELSE e

Unknown(name) == Fault(-1, name \o <<": unknown method name">>)

Multicall == <<"system.multicall">>

IsCall(e) == e[1] = "Struct" /\ {<<"methodName">>, <<"params">>} \subseteq DOMAIN e[2]

\* Broken on purpose: a call that fails ends the multicall.
AppendAnswerThrows(s, r) ==
  IF r.fault THEN [r EXCEPT !.calls = s.calls]
  ELSE Done(<<"Array", Append(s.value[2], <<"Array", <<r.value>>>>)>>, s.calls \o r.calls)

AppendAnswer(s, r) ==
  Done(<<"Array", Append(s.value[2], IF r.fault THEN r.value ELSE <<"Array", <<r.value>>>>)>>,
       s.calls \o r.calls)

\* A method's name that is not a string throws through the whole of the multicall.
MulticallStep(s, e) ==
  LET name == e[2][<<"methodName">>]
      r == IF ~IsCall(e) THEN Fault(-1, Multicall \o <<": Invalid argument (expected a struct)">>)
           ELSE IF ~Known(name[2]) THEN Unknown(name[2])
           ELSE ExecuteMethod(name[2], e[2][<<"params">>])
  IN  IF s.fault THEN s
      ELSE IF IsCall(e) /\ name[1] # "String" THEN [TypeError EXCEPT !.calls = s.calls]
      ELSE AppendAnswer(s, r)

ExecuteMulticall(params) ==
  IF ~Sized(params) THEN TypeError
  ELSE IF Size(params) # 1 \/ params[2][1][1] # "Array"
    THEN Fault(-1, Multicall \o <<": Invalid argument (expected an array)">>)
  ELSE FoldLeft(MulticallStep, Done(<<"Array", <<>>>>, <<>>), params[2][1][2])

ExecuteNamed(name, params) ==
  IF Known(name) THEN ExecuteMethod(name, params)
  ELSE IF name = Multicall THEN ExecuteMulticall(params)
  ELSE Unknown(name)

GenerateResponse(e) ==
  <<"<?xml?>", "\n", "<methodResponse>">>
    \o (IF e.fault THEN <<"<fault>", "\n">> \o ToXml(e.value) \o <<"\n", "</fault>">>
        ELSE <<"<params>", "<param>", "\n">> \o ToXml(e.value)
               \o <<"\n", "</param>", "</params>">>)
    \o <<"</methodResponse>", "\n">>

\* The client's result, whether it is one and whether it is a fault.
ParseResponse(x) ==
  LET start == FindTag("<methodResponse>", x, 1)
      fault == NextTagIs("<fault>", x, start)
      r == FromXml(x, IF fault THEN Past("<fault>", x, start)
                               ELSE Past("<param>", x, Past("<params>", x, start)))
  IN  [ok |-> r.ok, fault |-> fault, value |-> r.v]

(***************************************************************************)
(* A call.                                                                 *)
(***************************************************************************)
Nothing == [ok |-> FALSE, fault |-> FALSE, value |-> Invalid]

Init ==
  /\ call \in Made
  /\ stage = "made"
  /\ wire = <<>>
  /\ received = [method |-> <<>>, params |-> Invalid]
  /\ executed = Done(Invalid, <<>>)
  /\ answer = Nothing

Send ==
  /\ stage = "made"
  /\ stage' = "sent"
  /\ wire' = GenerateRequest(call)
  /\ UNCHANGED <<call, received, executed, answer>>

ExecuteRequest ==
  /\ stage = "sent"
  /\ stage' = "executed"
  /\ received' = ParseRequest(wire)
  /\ executed' = ExecuteNamed(received'.method, received'.params)
  /\ wire' = GenerateResponse(executed')
  /\ UNCHANGED <<call, answer>>

Receive ==
  /\ stage = "executed"
  /\ stage' = "answered"
  /\ answer' = ParseResponse(wire)
  /\ wire' = <<>>
  /\ UNCHANGED <<call, received, executed>>

Next == Send \/ ExecuteRequest \/ Receive

Spec == Init /\ [][Next]_vars

(***************************************************************************)
(* Correctness.                                                            *)
(***************************************************************************)
\* What of a value can be sent: the doubles lose what "%f" does not print.
RECURSIVE Sendable(_)
Sendable(v) ==
  CASE v[1] = "Double" -> <<"Double", Rounded(v[2])>>
    [] v[1] = "Array"  -> <<"Array", [i \in DOMAIN v[2] |-> Sendable(v[2][i])]>>
    [] v[1] = "Struct" -> <<"Struct", [n \in DOMAIN v[2] |-> Sendable(v[2][n])]>>
    [] OTHER           -> v

\* A client that gives one value, or none, gives an array of it.
AsArray(params) ==
  IF params = Invalid \/ params = <<"Array", <<>>>> THEN Invalid
  ELSE IF params[1] = "Array" THEN params ELSE <<"Array", <<params>>>>

\* What is written is what is read: the server executes the call that was made, whatever
\* its parameters hold (strings of blanks or of characters that stand for themselves
\* nowhere else, binary data, arrays and structs in each other), and the client is
\* given the result or the fault that came of it (toXml(), fromXml()).
ArrivesUnchanged ==
  /\ stage \in {"executed", "answered"} =>
       received = [method |-> call.method, params |-> Sendable(AsArray(call.params))]
  /\ stage = "answered" =>
       answer = [ok |-> TRUE, fault |-> executed.fault, value |-> Sendable(executed.value)]

\* A client takes the answer 1 for done (ivysync-remote.py): of the calls that answer
\* so, one has done what its name says on the channel it names, and one that is
\* refused, by 0 or by a fault, has not touched any channel, be it for the number or the
\* types of its parameters, the channel or the file.
OneMeansDone ==
  stage = "answered" /\ (\E m \in {"Play", "Stop", "Pause", "Open", "Quit"} : call.method = <<m>>) =>
    LET p == AsArray(call.params)[2]
        c == p[1][2]
        named == CASE call.method = <<"Quit">>  -> QuitAll
                   [] call.method = <<"Open">>  ->
                        <<<<"stop", c>>, <<"empty", c>>, <<"append", c, p[2][2]>>>>
                   [] call.method = <<"Play">>  -> <<<<"play", c>>>>
                   [] call.method = <<"Stop">>  -> <<<<"stop", c>>>>
                   [] call.method = <<"Pause">> -> <<<<"pause", c>>>>
    IN  IF ~answer.fault /\ answer.value = One THEN executed.calls = named
        ELSE (answer.fault \/ answer.value = Zero) /\ executed.calls = <<>>

\* A multicall does what its calls do one by one, in their order, and answers each as
\* the call alone would be answered: a call that fails or is unknown does not keep those
\* after it from being executed.  One whose method's name is no string ends it with a fault:
\* those before it have been executed, and nobody is told.
MulticallIsEachCall ==
  stage = "answered" /\ call.method = Multicall /\ received.params # Invalid
  /\ Len(received.params[2]) = 1 /\ received.params[2][1][1] = "Array" =>
    LET calls == received.params[2][1][2]
        Bad(e) == IsCall(e) /\ e[2][<<"methodName">>][1] # "String"
        upTo == FirstFrom(calls, 1, Bad) - 1
        Alone(e) == ExecuteNamed(e[2][<<"methodName">>][2], e[2][<<"params">>])
        AnswerIs(a, e) ==
          IF ~IsCall(e) THEN a[1] = "Struct"
          ELSE IF Alone(e).fault THEN a = Alone(e).value
          ELSE a = <<"Array", <<Sendable(Alone(e).value)>>>>
        Does(e) == IF IsCall(e) THEN Alone(e).calls ELSE <<>>
    IN  /\ executed.calls = FlattenSeq([i \in 1..upTo |-> Does(calls[i])])
        /\ answer.fault <=> upTo < Len(calls)
        /\ ~answer.fault => /\ Len(answer.value[2]) = Len(calls)
                            /\ \A i \in 1..upTo : AnswerIs(answer.value[2][i], calls[i])
=============================================================================
