----------------------------- MODULE MCRpcCalls -----------------------------
(***************************************************************************)
(* Calls to make: every method with no parameters, one and two; values in  *)
(* values; what ivysync-remote.py sends; and multicalls of three calls.    *)
(***************************************************************************)
EXTENDS RpcCalls

MCInts == -1..9

MCDoubles == {0, 24, 10000000, 30000000, 500000000}

MCChannels == 2
MCPercent == <<50, 3>>
MCOffset == <<7, 0>>
MCFiles == {<<"a", ".">>, <<"&", "lt;", "\"">>}

\* Texts: with no character, blanks only, what looks like a tag or an entity.
Texts == {<<>>, <<" ">>, <<" ", "a">>, <<"<", "a", ">">>, <<"a", "&">>, <<"&", "amp;", "'">>} \union MCFiles

Strings == {Text(t) : t \in Texts}

\* Of one to three bytes beyond a group, and more than one line's worth.
Binaries == {<<"Base64", [i \in 1..n |-> (i * 89) % 256]>> : n \in {0, 1, 2, 3, 55}}

Scalars == {<<"Int", 1>>, <<"Int", 2>>, <<"Int", 3>>, <<"Bool", 1>>, <<"Double", 24>>}
             \union Strings \union Binaries

Nested ==
  LET Few == {<<"Int", 1>>, Text(<<>>), Text(<<"&", "lt;", "\"">>), <<"Array", <<>>>>, <<"Struct", <<>>>>}
      Pairs == {<<"Array", <<a, b>>>> : a, b \in Few}
                 \union {<<"Struct", <<"f">> :> a @@ <<"s">> :> b>> : a, b \in Few}
  IN  {<<"Array", <<a>>>> : a \in Scalars \union Pairs} \union Pairs

Parameters ==
  {Invalid, <<"Int", 1>>, Text(<<>>), <<"Array", <<>>>>}
    \union {<<"Array", <<a>>>> : a \in Scalars \union Nested}
    \union {<<"Array", <<a, b>>>> : a, b \in Scalars}

Plain == {[client |-> "XmlRpcClient", method |-> <<m>>, params |-> p] :
            m \in Methods \union {"Rewind"}, p \in Parameters}

Remote ==
  {[client |-> "xmlrpclib", method |-> <<m>>, params |-> <<"Array", <<<<"Int", c>>, <<"Int", n>>>>>>] :
     m \in Methods \ {"Open"}, c \in 0..3, n \in {0, 9}}
  \union {[client |-> "xmlrpclib", method |-> <<"Open">>,
           params |-> <<"Array", <<<<"Int", c>>, f>>>>] : c \in 0..3, f \in Strings}

ACall(m, p) == <<"Struct", <<"methodName">> :> m @@ <<"params">> :> p>>

Elements3 ==
  LET One1 == <<"Array", <<<<"Int", 1>>>>>>
  IN  {ACall(Text(<<"Play">>), One1), ACall(Text(<<"Stop">>), <<"Array", <<<<"Int", 3>>>>>>),
       ACall(Text(<<"Pause">>), <<"Array", <<>>>>), ACall(Text(<<"Stop">>), <<"Int", 1>>),
       ACall(Text(<<"GetPos">>), One1), ACall(Text(<<"SetPos">>), <<"Array", <<<<"Int", 2>>, <<"Int", 9>>>>>>),
       ACall(Text(<<"SetPos">>), <<"Array", <<<<"Int", 2>>, Text(<<>>)>>>>),
       ACall(Text(<<"Rewind">>), One1), ACall(<<"Int", 1>>, One1), ACall(Text(<<"Quit">>), Text(<<>>)),
       <<"Struct", <<"methodName">> :> Text(<<"Play">>)>>, <<"Int", 1>>}

Multicalls ==
  {[client |-> "XmlRpcClient", method |-> Multicall, params |-> <<"Array", <<a>>>>] :
     a \in {<<"Array", <<>>>>, <<"Int", 1>>} \union {<<"Array", s>> : s \in SeqOf(Elements3, 3)}}
  \union {[client |-> "XmlRpcClient", method |-> Multicall, params |-> p] :
            p \in {Invalid, <<"Array", <<<<"Int", 1>>, <<"Int", 2>>>>>>}}

MCMade == Plain \union Remote \union Multicalls
=============================================================================
