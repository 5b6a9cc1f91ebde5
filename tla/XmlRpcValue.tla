----------------------------- MODULE XmlRpcValue -----------------------------
(***************************************************************************)
(* The values of a call, and what they look like on the wire               *)
(* (XmlRpcValue.cpp, XmlRpcUtil.cpp, base64.h).                            *)
(*                                                                         *)
(* A value is a pair <<type, contents>>; that of a struct is a function of *)
(* the members' names.  A document is a sequence of tokens: a tag is one,  *)
(* a printed number is one, and so is a character of a text or a part of   *)
(* an entity ("&" and "lt;").  Doubles are counted in ten millionths, for  *)
(* print keeps six digits.  Dates, which nothing in the program sends, are *)
(* left out.                                                               *)
(***************************************************************************)
EXTENDS Integers, SequencesExt

CONSTANTS Ints,      \* the integers and
          Doubles    \* the doubles that are sent or answered

Invalid == <<"Invalid", <<>>>>

Blanks == {" ", "\n"}

Tags == {"<value>", "</value>", "<boolean>", "</boolean>", "<i4>", "</i4>",
         "<int>", "</int>", "<double>", "</double>", "<string>", "</string>",
         "<base64>", "</base64>", "<array>", "</array>", "<data>", "</data>",
         "<struct>", "</struct>", "<member>", "</member>", "<name>", "</name>",
         "<?xml?>", "<methodCall>", "</methodCall>", "<methodName>", "</methodName>",
         "<params>", "</params>", "<param>", "</param>", "<fault>", "</fault>",
         "<methodResponse>", "</methodResponse>"}

(***************************************************************************)
(* Scanning.  An offset is the index of the next token.                    *)
(***************************************************************************)
FirstFrom(x, i, Test(_)) ==
  LET j == SelectInSubSeq(x, i, Len(x), Test)
  IN  IF j = 0 THEN Len(x) + 1 ELSE j

TokenAt(x, i) == IF i \in DOMAIN x THEN x[i] ELSE ""

Skip(x, i) == FirstFrom(x, i, LAMBDA t : t \notin Blanks)

NextTagIs(tag, x, i) == TokenAt(x, Skip(x, i)) = tag

Past(tag, x, i) == IF NextTagIs(tag, x, i) THEN Skip(x, i) + 1 ELSE i

GetNextTag(x, i) ==
  LET t == TokenAt(x, Skip(x, i)) IN IF t \in Tags THEN t ELSE ""

FindTag(tag, x, i) ==
  LET j == FirstFrom(x, i, LAMBDA t : t = tag) IN IF j > Len(x) THEN i ELSE j + 1

ParseTag(tag, etag, x, i) ==
  LET from == FindTag(tag, x, i)
      to   == FindTag(etag, x, from)
  IN  IF from = i \/ to = from THEN [text |-> <<>>, at |-> i]
      ELSE [text |-> SubSeq(x, from, to - 2), at |-> to]

(***************************************************************************)
(* Texts.                                                                  *)
(***************************************************************************)
Entity == [c \in {"<", ">", "&", "'", "\""} |->
             CASE c = "<" -> "lt;" [] c = ">" -> "gt;" [] c = "&" -> "amp;"
               [] c = "'" -> "apos;" [] OTHER -> "quot;"]

\* Broken on purpose: takes an ampersand for the start of an entity.
XmlEncodeNoAmp(raw) ==
  FlattenSeq([i \in DOMAIN raw |->
                IF raw[i] \in DOMAIN Entity \ {"&"} THEN <<"&", Entity[raw[i]]>>
                                                    ELSE <<raw[i]>>])

XmlEncode(raw) ==
  FlattenSeq([i \in DOMAIN raw |->
                IF raw[i] \in DOMAIN Entity THEN <<"&", Entity[raw[i]]>>
                                            ELSE <<raw[i]>>])

RECURSIVE XmlDecode(_)
XmlDecode(x) ==
  LET named == {c \in DOMAIN Entity : Len(x) > 1 /\ x[2] = Entity[c]}
  IN  IF x = <<>> THEN <<>>
      ELSE IF x[1] = "&" /\ named # {}
        THEN <<CHOOSE c \in named : TRUE>> \o XmlDecode(SubSeq(x, 3, Len(x)))
        ELSE <<x[1]>> \o XmlDecode(Tail(x))

(***************************************************************************)
(* Base 64.  The n-th character of its alphabet, "=" and the end of a line *)
(* after eighteen groups.                                                  *)
(***************************************************************************)
Sextet(n) == "base64 " \o ToString(n)

Alphabet == [t \in {Sextet(n) : n \in 0..63} |-> CHOOSE n \in 0..63 : Sextet(n) = t]

Four(b) ==
  LET d == b \o <<0, 0>>
  IN  <<d[1] \div 4, (d[1] % 4) * 16 + d[2] \div 16,
        (d[2] % 16) * 4 + d[3] \div 64, d[3] % 64>>

Three(s) ==
  LET d == s \o <<0, 0>>
  IN  <<d[1] * 4 + d[2] \div 16, (d[2] % 16) * 16 + d[3] \div 4, (d[3] % 4) * 64 + d[4]>>

\* A line ends after eighteen groups of three bytes.
Put(bytes) ==
  LET n == Len(bytes)
      Group(g) == SubSeq(bytes, 3 * g - 2, Min({3 * g, n}))
      Signs(b) == [i \in 1..4 |-> IF i <= Len(b) + 1 THEN Sextet(Four(b)[i]) ELSE "="]
      EndsLine(g) == g % 18 = 0 /\ 3 * g <= n
  IN  FlattenSeq([g \in 1..((n + 2) \div 3) |->
                    Signs(Group(g)) \o (IF EndsLine(g) THEN <<"\n">> ELSE <<>>)])

\* Signs that are not of the alphabet are passed over, and the first "=" ends it.
Get(x) ==
  LET end == FirstFrom(x, 1, LAMBDA t : t = "=")
      signs == SelectSeq(SubSeq(x, 1, end - 1), LAMBDA t : t \in DOMAIN Alphabet)
      n == Len(signs)
      cut == IF end > Len(x) \/ n % 4 < 2 THEN 0 ELSE (n % 4) - 1
      Group(g) == [i \in 1..Min({4, n - 4 * g}) |-> Alphabet[signs[4 * g + i]]]
  IN  [b \in 1..(3 * (n \div 4) + cut) |-> Three(Group((b - 1) \div 3))[((b - 1) % 3) + 1]]

(***************************************************************************)
(* Numbers: "%d", and "%f", which prints millionths.                       *)
(***************************************************************************)
Rounded(d) == ((d + 5) \div 10) * 10

PrintedDouble(d) == ToString(Rounded(d) \div 10) \o " millionths"

NumbersIn(Numbers, Text(_), x, i) == {n \in Numbers : Text(n) = TokenAt(x, Skip(x, i))}

IntsAt(x, i) == NumbersIn(Ints, ToString, x, i)

DoublesAt(x, i) == NumbersIn({Rounded(d) : d \in Doubles}, PrintedDouble, x, i)

(***************************************************************************)
(* Writing.  The members of a struct come in one order, that of its map.   *)
(***************************************************************************)
Tagged(tag, etag, x) == <<"<value>", tag>> \o x \o <<etag, "</value>">>

RECURSIVE ToXml(_)
StructToXml(members) ==
  LET Member(n) == <<"<member>", "<name>">> \o XmlEncode(n) \o <<"</name>">>
                   \o ToXml(members[n]) \o <<"</member>">>
  IN  Tagged("<struct>", "</struct>",
             FlattenSeq([i \in 1..Cardinality(DOMAIN members) |->
                           Member(SetToSeq(DOMAIN members)[i])]))

ArrayToXml(elements) ==
  Tagged("<array>", "</array>",
         <<"<data>">> \o FlattenSeq([i \in DOMAIN elements |-> ToXml(elements[i])])
                      \o <<"</data>">>)

ToXml(v) ==
  LET c == v[2]
  IN  CASE v[1] = "Invalid" -> <<>>
        [] v[1] = "Bool"    -> Tagged("<boolean>", "</boolean>", <<ToString(c)>>)
        [] v[1] = "Int"     -> Tagged("<i4>", "</i4>", <<ToString(c)>>)
        [] v[1] = "Double"  -> Tagged("<double>", "</double>", <<PrintedDouble(c)>>)
        [] v[1] = "String"  -> <<"<value>">> \o XmlEncode(c) \o <<"</value>">>
        [] v[1] = "Base64"  -> Tagged("<base64>", "</base64>", Put(c))
        [] v[1] = "Array"   -> ArrayToXml(c)
        [] v[1] = "Struct"  -> StructToXml(c)

(***************************************************************************)
(* Reading.  The result of one is whether it succeeded, the value and the  *)
(* offset; a value that fails leaves the offset where it was.              *)
(***************************************************************************)
Fails(i) == [ok |-> FALSE, v |-> Invalid, at |-> i]

Reads(type, contents, i) == [ok |-> TRUE, v |-> <<type, contents>>, at |-> i]

NumberFromXml(type, numbers, x, i) ==
  IF numbers = {} THEN Fails(i)
  ELSE Reads(type, CHOOSE n \in numbers : TRUE, Skip(x, i) + 1)

TextEnd(x, i) == FirstFrom(x, i, LAMBDA t : t \in Tags \union {"<"})

\* The offset moves by the length of the decoded text, and </value> is found from there.
StringFromXml(x, i) ==
  LET text == XmlDecode(SubSeq(x, i, TextEnd(x, i) - 1))
  IN  IF TextEnd(x, i) > Len(x) THEN Fails(i) ELSE Reads("String", text, i + Len(text))

BinaryFromXml(x, i) ==
  IF TextEnd(x, i) > Len(x) THEN Fails(i)
  ELSE Reads("Base64", Get(SubSeq(x, i, TextEnd(x, i) - 1)), TextEnd(x, i))

RECURSIVE FromXml(_, _)
RECURSIVE Elements(_, _, _)
MoreElements(x, i, found, e) ==
  IF e.ok THEN Elements(x, e.at, Append(found, e.v)) ELSE Reads("Array", found, i)

Elements(x, i, found) == MoreElements(x, i, found, FromXml(x, i))

ArrayFromXml(x, i) ==
  LET Ended(a) == [a EXCEPT !.at = Past("</data>", x, @)]
  IN  IF NextTagIs("<data>", x, i) THEN Ended(Elements(x, Past("<data>", x, i), <<>>)) ELSE Fails(i)

RECURSIVE Members(_, _, _)
MoreMembers(x, i, found, name, val) ==
  IF val.ok THEN Members(x, Past("</member>", x, val.at), found @@ name :> val.v) ELSE Fails(i)

Members(x, i, found) ==
  LET Named(name) == MoreMembers(x, i, found, name.text, FromXml(x, name.at))
  IN  IF NextTagIs("<member>", x, i)
      THEN Named(ParseTag("<name>", "</name>", x, Past("<member>", x, i)))
      ELSE Reads("Struct", found, i)

TypedFromXml(tag, x, i) ==
  CASE tag = "<boolean>"        -> NumberFromXml("Bool", IntsAt(x, i) \intersect {0, 1}, x, i)
    [] tag \in {"<i4>", "<int>"} -> NumberFromXml("Int", IntsAt(x, i), x, i)
    [] tag = "<double>"         -> NumberFromXml("Double", DoublesAt(x, i), x, i)
    [] tag \in {"", "<string>"} -> StringFromXml(x, i)
    [] tag = "<base64>"         -> BinaryFromXml(x, i)
    [] tag = "<array>"          -> ArrayFromXml(x, i)
    [] tag = "<struct>"         -> Members(x, i, <<>>)
    [] OTHER                    -> Fails(i)

\* A text of blanks only, or none, is seen as the tag </value>: back up and read it again.
ValueFromXml(tag, x, i) ==
  IF tag = "</value>" THEN StringFromXml(x, i)
  ELSE TypedFromXml(tag, x, IF tag = "" THEN i ELSE Past(tag, x, i))

FromXml(x, i) ==
  LET start == Past("<value>", x, i)
      Closed(r) == IF r.ok THEN [r EXCEPT !.at = FindTag("</value>", x, @)] ELSE Fails(i)
  IN  IF NextTagIs("<value>", x, i) THEN Closed(ValueFromXml(GetNextTag(x, start), x, start))
      ELSE Fails(i)
=============================================================================
