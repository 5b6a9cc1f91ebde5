-------------------------- MODULE DeviceWriterProofs --------------------------
(***************************************************************************)
(* For a movie, a buffer and a device of any size, and any number of       *)
(* failed writes: which bytes the device gets, and that it gets them all.  *)
(*                                                                         *)
(* What is sent is known once the pointer is: in the writing loop it       *)
(* stands as far into the buffer as bytes of it were taken, less one for   *)
(* each write that failed.  That the rest belongs to the buffer at hand    *)
(* needs that buffers were read whole, so that offset is a multiple of     *)
(* their size.                                                             *)
(***************************************************************************)
EXTENDS DeviceWriter, SequenceTheorems, TLAPS

SentByte == [byte : {Other} \cup Nat \X Int, late : Nat]

\* What each variable may hold.
WriterTypes ==
  /\ pc \in {"read", "sync", "write", "poll", "drain", "next", "last", "done"}
  /\ round \in Nat
  /\ offset \in Nat
  /\ buf \in Int /\ written \in Int
  /\ writing \in 0..BufSize
  /\ room \in 0..Room
  /\ sent \in Seq(SentByte)
  /\ late \in Nat
  /\ quit \in BOOLEAN

\* Buffers were read whole, up to one the movie does not fill.
ReadWhole ==
  /\ \E k \in Nat : offset = k * BufSize
  /\ offset <= Size
  /\ pc \in {"drain", "next"} /\ ~quit => Size - offset < BufSize

\* What was read and is not sent is in the buffer, and the pointer, with what the
\* last write returned, is at it but for the writes that failed.
PointerKnown ==
  /\ Len(sent) = offset - writing
  /\ pc \notin {"sync", "write", "poll"} => writing = 0
  /\ pc \in {"sync", "write"} => writing > 0
  /\ pc \in {"sync", "write", "poll"} =>
       /\ offset >= BufSize
       /\ buffo = [i \in 0..(BufSize - 1) |-> Byte(offset - BufSize + i + 1)]
       /\ buf + written = BufSize - writing - late

\* The i-th byte sent in a round is the one of its place.
RightByte(r, i, e) ==
  LET before == (i - 1) - e.late
      start == ((i - 1) \div BufSize) * BufSize
  IN  e.byte = IF before < start THEN Other ELSE <<r, before + 1>>

BytesRight == \A i \in 1..Len(sent) : RightByte(round, i, sent[i])

WriterInv == WriterTypes /\ ReadWhole /\ PointerKnown /\ BytesRight

\* The buffer a byte is of: x is within the k-th.
LEMMA Quotient ==
  ASSUME NEW b \in Nat \ {0}, NEW k \in Nat, NEW x \in Nat,
         k * b <= x, x < k * b + b
  PROVE  x \div b = k
<1> DEFINE q == x \div b
<1>1. /\ q \in Int /\ x >= q * b /\ x < q * b + b
  BY SMT
<1>2. q * b + b = (q + 1) * b /\ k * b + b = (k + 1) * b
  BY <1>1, SMT
<1>3. CASE q < k
  BY <1>1, <1>2, <1>3, SMT
<1>4. CASE q > k
  BY <1>1, <1>2, <1>4, SMT
<1> QED
  BY <1>1, <1>3, <1>4

LEMMA Sizes ==
  /\ Size \in Nat /\ MaxLate \in Nat
  /\ BufSize \in Nat \ {0} /\ Room \in Nat \ {0} /\ Movies \in Nat \ {0}
BY WriterAssumption

LEMMA InitStep == Init => WriterInv
<1> SUFFICES ASSUME Init PROVE WriterInv
  OBVIOUS
<1> USE Sizes DEF Init
<1>1. WriterTypes
  <2>1. sent \in Seq(SentByte)
    BY EmptySeq
  <2>2. /\ pc = "read" /\ round \in Nat /\ offset \in Nat /\ late \in Nat
        /\ buf \in Int /\ written \in Int
        /\ writing \in 0..BufSize /\ room \in 0..Room
    OBVIOUS
  <2>3. quit \in BOOLEAN
    OBVIOUS
  <2> HIDE DEF Init
  <2> QED
    BY <2>1, <2>2, <2>3 DEF WriterTypes
<1>2. ReadWhole
  <2>1. offset = 0 * BufSize
    OBVIOUS
  <2> QED
    BY <2>1 DEF ReadWhole
<1>3. PointerKnown /\ BytesRight
  BY DEF PointerKnown, BytesRight
<1> QED
  BY <1>1, <1>2, <1>3 DEF WriterInv

\* A buffer is read.
LEMMA ReadStep == WriterInv /\ Read => WriterInv'
<1> SUFFICES ASSUME WriterInv, Read PROVE WriterInv'
  OBVIOUS
<1> USE Sizes DEF Read, loop
<1>0. WriterTypes /\ ReadWhole /\ PointerKnown /\ BytesRight
  BY DEF WriterInv
<1>1. CASE quit \/ ~Whole
  <2>1. WriterTypes' /\ PointerKnown'
    BY <1>0, <1>1 DEF PointerKnown, WriterTypes
  <2>2. ReadWhole'
    <3>1. PICK k \in Nat : offset = k * BufSize
      BY <1>0 DEF ReadWhole
    <3>2. offset' = k * BufSize /\ offset' <= Size
      BY <1>0, <1>1, <3>1 DEF ReadWhole
    <3>3. ~quit' => Size - offset' < BufSize
      BY <1>0, <1>1 DEF Whole, WriterTypes
    <3> QED
      BY <3>2, <3>3 DEF ReadWhole
  <2>3. BytesRight'
    BY <1>0, <1>1 DEF BytesRight
  <2> QED
    BY <2>1, <2>2, <2>3 DEF WriterInv
<1>2. CASE ~(quit \/ ~Whole)
  <2>1. WriterTypes'
    BY <1>0, <1>2 DEF WriterTypes
  <2>2. ReadWhole'
    <3>1. PICK k \in Nat : offset = k * BufSize
      BY <1>0 DEF ReadWhole
    <3>2. offset' = (k + 1) * BufSize
      BY <1>2, <3>1
    <3> QED
      BY <1>0, <1>2, <3>2 DEF ReadWhole, Whole, WriterTypes
  <2>3. PointerKnown'
    BY <1>0, <1>2 DEF PointerKnown, Byte, WriterTypes
  <2>4. BytesRight'
    BY <1>0, <1>2 DEF BytesRight
  <2> QED
    BY <2>1, <2>2, <2>3, <2>4 DEF WriterInv
<1> QED
  BY <1>1, <1>2

\* The device takes n bytes: those the pointer is at, which lie in the buffer from the
\* place they belong to, less the writes that failed.
LEMMA TakeStep == WriterInv /\ WriteTakes => WriterInv'
<1> SUFFICES ASSUME WriterInv, WriteTakes PROVE WriterInv'
  OBVIOUS
<1> USE Sizes
<1> DEFINE Taken(at) == [byte |-> IF at \in DOMAIN buffo THEN buffo[at] ELSE Other,
                         late |-> late]
           taken(n) == [i \in 1..n |-> Taken(buf' + i - 1)]
<1>0. WriterTypes /\ ReadWhole /\ PointerKnown /\ BytesRight
  BY DEF WriterInv
<1>1. PICK n \in 1..writing :
        /\ n <= room /\ written' = n /\ writing' = writing - n /\ room' = room - n
        /\ sent' = sent \o taken(n)
  BY DEF WriteTakes
<1>2. /\ pc = "write" /\ pc' = "poll" /\ buf' = buf + written
      /\ UNCHANGED <<round, offset, buffo, fd, late, quit>>
  BY DEF WriteTakes
<1>3. /\ buf' = BufSize - writing - late /\ buf' \in Int
      /\ offset >= BufSize /\ Len(sent) = offset - writing
      /\ offset \in Nat /\ late \in Nat /\ writing \in 1..BufSize /\ n \in 1..writing
      /\ sent \in Seq(SentByte)
  BY <1>0, <1>2 DEF PointerKnown, WriterTypes
<1>4. /\ DOMAIN buffo = 0..(BufSize - 1)
      /\ \A at \in 0..(BufSize - 1) : buffo[at] = <<round, offset - BufSize + at + 1>>
  BY <1>0, <1>2 DEF PointerKnown, Byte
<1>5. ASSUME NEW at \in Int
      PROVE  Taken(at) \in SentByte
  <2>1. CASE at \in DOMAIN buffo
    <3>1. buffo[at] = <<round, offset - BufSize + at + 1>>
      BY ONLY <1>4, <2>1
    <3>2. round \in Nat /\ offset - BufSize + at + 1 \in Int
      BY <1>0, <1>3 DEF WriterTypes
    <3>3. buffo[at] \in Nat \X Int
      BY ONLY <3>1, <3>2
    <3> QED
      BY <1>3, <2>1, <3>3 DEF SentByte
  <2>2. CASE at \notin DOMAIN buffo
    BY <1>3, <2>2 DEF SentByte
  <2> QED
    BY <2>1, <2>2
<1>6. /\ taken(n) \in Seq(SentByte) /\ Len(taken(n)) = n
      /\ \A i \in 1..n : taken(n)[i] = Taken(buf' + i - 1)
  <2> HIDE DEF Taken
  <2> QED
    BY <1>3, <1>5
<1>7. /\ sent' \in Seq(SentByte) /\ Len(sent') = Len(sent) + n
      /\ \A i \in 1..Len(sent') : sent'[i] = IF i <= Len(sent) THEN sent[i]
                                             ELSE Taken(buf' + (i - Len(sent)) - 1)
  <2> HIDE DEF taken, Taken
  <2>1. /\ sent' \in Seq(SentByte) /\ Len(sent') = Len(sent) + n
        /\ \A i \in 1..Len(sent') : sent'[i] = IF i <= Len(sent) THEN sent[i]
                                               ELSE taken(n)[i - Len(sent)]
    <3>1. sent' = sent \o taken(n) /\ sent \in Seq(SentByte) /\ taken(n) \in Seq(SentByte)
      BY <1>1, <1>3, <1>6
    <3>2. /\ sent' \in Seq(SentByte) /\ Len(sent') = Len(sent) + Len(taken(n))
          /\ \A i \in 1..Len(sent') : sent'[i] = IF i <= Len(sent) THEN sent[i]
                                                ELSE taken(n)[i - Len(sent)]
      BY ONLY <3>1, ConcatProperties
    <3> QED
      BY ONLY <3>2, <1>6
  <2>2. Len(sent) \in Nat /\ n \in Nat
    BY <1>3, LenProperties
  <2>3. ASSUME NEW i \in 1..Len(sent'), ~(i <= Len(sent))
        PROVE  taken(n)[i - Len(sent)] = Taken(buf' + (i - Len(sent)) - 1)
    <3>1. i - Len(sent) \in 1..n
      BY ONLY <2>1, <2>2, <2>3
    <3> QED
      BY ONLY <3>1, <1>6
  <2> QED
    BY ONLY <2>1, <2>3
<1> HIDE DEF taken, Taken
<1>8. WriterTypes'
  BY <1>0, <1>1, <1>2, <1>3, <1>7 DEF WriterTypes
<1>9. ReadWhole'
  BY <1>0, <1>2 DEF ReadWhole
<1>10. PointerKnown'
  BY <1>0, <1>1, <1>2, <1>3, <1>7 DEF PointerKnown, Byte
<1>11. ASSUME NEW i \in 1..Len(sent')
       PROVE  RightByte(round, i, sent'[i])
  <2>1. CASE i <= Len(sent)
    <3>1. i \in 1..Len(sent) /\ sent'[i] = sent[i]
      BY <1>3, <1>7, <2>1
    <3> QED
      BY ONLY <1>0, <3>1 DEF BytesRight
  <2>2. CASE i > Len(sent)
    <3> DEFINE at == buf' + (i - Len(sent)) - 1
    <3>1. /\ at \in Int /\ at < BufSize
          /\ (i - 1) - late = offset - BufSize + at
          /\ i - 1 \in Nat /\ offset - BufSize <= i - 1 /\ i - 1 < offset
      BY <1>3, <1>7, <2>2
    <3>2. sent'[i] = Taken(at)
      BY <1>7, <2>2
    <3> HIDE DEF at
    <3>3. sent'[i].late = late /\ sent'[i].byte = IF at \in DOMAIN buffo THEN buffo[at] ELSE Other
      BY <3>2 DEF Taken
    <3>4. ((i - 1) \div BufSize) * BufSize = offset - BufSize
      <4>1. PICK k \in Nat : offset = k * BufSize
        BY <1>0 DEF ReadWhole
      <4>2. k # 0
        BY <1>3, <4>1
      <4>3. k - 1 \in Nat /\ (k - 1) * BufSize = offset - BufSize
        BY <1>3, <4>1, <4>2
      <4>4. (k - 1) * BufSize <= i - 1 /\ i - 1 < (k - 1) * BufSize + BufSize
        BY <1>3, <3>1, <4>3
      <4>5. (i - 1) \div BufSize = k - 1
        BY ONLY <3>1, <4>3, <4>4, Sizes, Quotient
      <4> QED
        BY <4>3, <4>5
    <3> DEFINE start == ((i - 1) \div BufSize) * BufSize
    <3>5. RightByte(round, i, sent'[i])
            <=> sent'[i].byte = IF (i - 1) - sent'[i].late < start THEN Other
                                ELSE <<round, (i - 1) - sent'[i].late + 1>>
      BY DEF RightByte
    <3>6. start = offset - BufSize
      BY <3>4
    <3> HIDE DEF start
    <3>7. CASE at < 0
      BY <1>3, <1>4, <3>1, <3>3, <3>5, <3>6, <3>7
    <3>8. CASE at >= 0
      <4>1. at \in 0..(BufSize - 1)
        BY <3>1, <3>8
      <4>2. sent'[i].byte = <<round, offset - BufSize + at + 1>>
        BY ONLY <1>4, <3>3, <4>1
      <4>3. /\ ~((i - 1) - sent'[i].late < start)
            /\ (i - 1) - sent'[i].late + 1 = offset - BufSize + at + 1
        BY ONLY <1>3, <3>1, <3>3, <3>6, <3>8, Sizes
      <4> QED
        BY ONLY <3>5, <4>2, <4>3
    <3> QED
      BY <3>1, <3>7, <3>8
  <2> QED
    BY <1>3, <1>7, <2>1, <2>2
<1>12. BytesRight'
  BY <1>2, <1>11 DEF BytesRight
<1> QED
  BY <1>8, <1>9, <1>10, <1>12 DEF WriterInv

\* A step that neither reads nor sends a byte.
LEMMA SentStays ==
  ASSUME WriterInv, UNCHANGED <<round, sent>>
  PROVE  BytesRight'
BY DEF WriterInv, BytesRight

LEMMA OtherSteps ==
  WriterInv /\ (\/ Sync \/ WriteFails \/ Poll \/ Clear \/ NextMovie \/ Leave \/ End
                \/ Quit \/ Start \/ Plays)
    => WriterInv'
<1> SUFFICES ASSUME WriterInv,
                    \/ Sync \/ WriteFails \/ Poll \/ Clear \/ NextMovie \/ Leave \/ End
                    \/ Quit \/ Start \/ Plays
             PROVE  WriterInv'
  OBVIOUS
<1> USE Sizes DEF loop
<1>0. WriterTypes /\ ReadWhole /\ PointerKnown /\ BytesRight
  BY DEF WriterInv
<1>1. CASE WriteFails
  <2>1. WriterTypes' /\ PointerKnown'
    BY <1>0, <1>1 DEF WriteFails, WriterTypes, PointerKnown, Byte
  <2>2. ReadWhole' /\ BytesRight'
    BY <1>0, <1>1, SentStays DEF WriteFails, ReadWhole
  <2> QED
    BY <2>1, <2>2 DEF WriterInv
<1>2. CASE Poll
  <2>1. WriterTypes' /\ PointerKnown'
    BY <1>0, <1>2 DEF Poll, WriterTypes, PointerKnown, Byte
  <2>2. ReadWhole' /\ BytesRight'
    BY <1>0, <1>2, SentStays DEF Poll, ReadWhole
  <2> QED
    BY <2>1, <2>2 DEF WriterInv
<1>3. CASE Clear
  BY <1>0, <1>3, SentStays DEF Clear, WriterInv, WriterTypes, ReadWhole, PointerKnown
<1>4. CASE NextMovie
  <2>1. offset' = 0 * BufSize /\ sent' \in Seq(SentByte) /\ Len(sent') = 0
    BY <1>4, EmptySeq DEF NextMovie
  <2>2. ReadWhole'
    BY <1>4, <2>1 DEF NextMovie, ReadWhole
  <2>3. /\ pc = "next" /\ pc' = "read" /\ round' = round + 1 /\ offset' = 0 /\ late' = 0
        /\ UNCHANGED <<buf, written, writing, room, quit>>
    BY <1>4 DEF NextMovie
  <2>4. WriterTypes'
    BY ONLY <1>0, <2>1, <2>3 DEF WriterTypes
  <2>5. PointerKnown' /\ BytesRight'
    <3>1. Len(sent') = 0 /\ writing = 0
      BY <1>0, <2>1, <2>3 DEF PointerKnown
    <3> QED
      BY ONLY <2>3, <3>1 DEF PointerKnown, BytesRight
  <2> QED
    BY <2>2, <2>4, <2>5 DEF WriterInv
<1>5. CASE Leave
  BY <1>0, <1>5, SentStays DEF Leave, WriterInv, WriterTypes, ReadWhole, PointerKnown
<1>6. CASE End
  BY <1>0, <1>6, SentStays DEF End, WriterInv, WriterTypes, ReadWhole, PointerKnown
<1>7. CASE Sync \/ Quit \/ Start
  <2>1. WriterTypes' /\ PointerKnown'
    BY <1>0, <1>7 DEF Sync, Quit, Start, WriterTypes, PointerKnown, Byte
  <2>2. ReadWhole' /\ BytesRight'
    BY <1>0, <1>7, SentStays DEF Sync, Quit, Start, ReadWhole
  <2> QED
    BY <2>1, <2>2 DEF WriterInv
<1>8. CASE Plays
  <2>1. WriterTypes' /\ PointerKnown'
    BY <1>0, <1>8 DEF Plays, WriterTypes, PointerKnown, Byte
  <2>2. ReadWhole' /\ BytesRight'
    BY <1>0, <1>8, SentStays DEF Plays, ReadWhole
  <2> QED
    BY <2>1, <2>2 DEF WriterInv
<1> QED
  BY <1>1, <1>2, <1>3, <1>4, <1>5, <1>6, <1>7, <1>8

LEMMA WriterCorrect == Spec => []WriterInv
<1>1. WriterInv /\ [Next]_vars => WriterInv'
  <2> SUFFICES ASSUME WriterInv, [Next]_vars PROVE WriterInv'
    OBVIOUS
  <2>1. CASE Next
    BY <2>1, ReadStep, TakeStep, OtherSteps DEF Next, Thread
  <2>2. CASE UNCHANGED vars
    BY <2>2 DEF vars, loop, WriterInv, WriterTypes, ReadWhole, PointerKnown, BytesRight, Byte
  <2> QED
    BY <2>1, <2>2
<1> QED
  BY <1>1, InitStep, PTL DEF Spec

\* Whatever the device takes at a time and however often it fails, the bytes it is
\* given are those of the movie at their places, but for the rest of a buffer in which a
\* write failed (decoder.cpp:320-348).
THEOREM PlacesCorrect == Spec => []BytesAtTheirPlace
<1>1. WriterInv => BytesAtTheirPlace
  BY DEF WriterInv, BytesRight, RightByte, BytesAtTheirPlace, Byte
<1> QED
  BY <1>1, WriterCorrect, PTL

\* A movie that is left without a quit has had every full buffer sent, and nothing else
\* (decoder.cpp:309-354).
THEOREM BuffersCorrect == Spec => []SendsAllBuffers
<1>1. WriterInv => SendsAllBuffers
  <2> SUFFICES ASSUME WriterInv, pc \in {"drain", "next"}, ~quit
               PROVE  Len(sent) = (Size \div BufSize) * BufSize
    BY DEF SendsAllBuffers
  <2> USE Sizes DEF WriterInv, WriterTypes
  <2>1. Len(sent) = offset
    BY DEF PointerKnown
  <2>2. PICK k \in Nat : offset = k * BufSize
    BY DEF ReadWhole
  <2>3. Size \div BufSize = k
    BY <2>2, Quotient DEF ReadWhole
  <2> QED
    BY <2>1, <2>2, <2>3
<1> QED
  BY <1>1, WriterCorrect, PTL
=============================================================================
