------------------------ MODULE ChunkedStreamProofs ------------------------
(***************************************************************************)
(* Proofs about a fragmentizer that is fed with one stream, for every      *)
(* stream, every way of cutting it into reads and every limit: no byte is  *)
(* lost, and every step implements a step of FragmentStream or none.       *)
(***************************************************************************)
EXTENDS ChunkedStream, FragmentizerProofs

-----------------------------------------------------------------------------
(* Slices of the stream.                                                   *)

\* When a slice of s is p followed by u, what follows p in it is u.
LEMMA DropFront ==
  \A s, p, u \in Seq(Byte) : \A r \in 0 .. Len(s) : \A b \in 0 .. r :
    SubSeq(s, b + 1, r) = p \o u
      => b + Len(p) <= r /\ SubSeq(s, b + Len(p) + 1, r) = u
<1>. SUFFICES ASSUME NEW s \in Seq(Byte), NEW p \in Seq(Byte), NEW u \in Seq(Byte),
                     NEW r \in 0 .. Len(s), NEW b \in 0 .. r,
                     SubSeq(s, b + 1, r) = p \o u
              PROVE  b + Len(p) <= r /\ SubSeq(s, b + Len(p) + 1, r) = u
  OBVIOUS
<1>. DEFINE t == SubSeq(s, b + 1, r)
            c == b + Len(p)
            v == SubSeq(s, c + 1, r)
<1>1. Len(s) \in Nat /\ Len(p) \in Nat /\ Len(u) \in Nat
  BY LenProperties
<1>2. \A i \in b + 1 .. r : s[i] \in Byte
  BY <1>1, ElementOfSeq
<1>3. /\ Len(t) = r - b
      /\ \A i \in 1 .. r - b : t[i] = s[b + i]
  <2>1. /\ Len(t) = IF b + 1 <= r THEN r - (b + 1) + 1 ELSE 0
        /\ \A i \in 1 .. r - (b + 1) + 1 : t[i] = s[b + 1 + i - 1]
    BY <1>1, <1>2, SubSeqProperties
  <2>. HIDE DEF t
  <2>. QED  BY <2>1, <1>1
<1>4. /\ Len(t) = Len(p) + Len(u)
      /\ \A i \in 1 .. Len(p) + Len(u) :
            t[i] = IF i <= Len(p) THEN p[i] ELSE u[i - Len(p)]
  BY ConcatProperties
<1>. HIDE DEF t
<1>5. c <= r /\ r - c = Len(u) /\ c \in Nat
  BY <1>1, <1>3, <1>4
<1>6. v \in Seq(Byte) /\ Len(v) = Len(u) /\ \A i \in 1 .. Len(u) : v[i] = s[c + i]
  <2>1. \A i \in c + 1 .. r : s[i] \in Byte
    BY <1>1, <1>2, <1>5
  <2>2. /\ v \in Seq(Byte) /\ Len(v) = IF c + 1 <= r THEN r - (c + 1) + 1 ELSE 0
        /\ \A i \in 1 .. r - (c + 1) + 1 : v[i] = s[c + 1 + i - 1]
    <3>. HIDE DEF c
    <3>. QED  BY <2>1, <1>5, SubSeqProperties
  <2>. HIDE DEF v, c
  <2>3. r \in Nat /\ Len(v) = Len(u)
    BY <2>2, <1>1, <1>5
  <2>4. ASSUME NEW i \in 1 .. Len(u) PROVE v[i] = s[c + i]
    <3>1. i \in 1 .. r - (c + 1) + 1 /\ c + 1 + i - 1 = c + i
      BY <2>3, <1>1, <1>5
    <3>. QED  BY <3>1, <2>2
  <2>. QED  BY <2>2, <2>3, <2>4
<1>7. ASSUME NEW i \in 1 .. Len(u) PROVE v[i] = u[i]
  <2>1. /\ Len(p) + i \in 1 .. Len(p) + Len(u) /\ ~(Len(p) + i <= Len(p))
        /\ Len(p) + i - Len(p) = i
    BY <1>1
  <2>2. t[Len(p) + i] = u[i]
    BY <2>1, <1>4
  <2>3. t[Len(p) + i] = s[b + (Len(p) + i)] /\ b + (Len(p) + i) = c + i
    BY <2>1, <1>1, <1>3, <1>4
  <2>. QED  BY <2>2, <2>3, <1>6
<1>. HIDE DEF v
<1>8. v = u
  BY <1>6, <1>7, SeqEqual
<1>. QED  BY <1>5, <1>8 DEF v

\* A slice of bytes and the slice that follows it.
LEMMA AdjacentSlices ==
  \A s \in Seq(Byte) : \A r \in 0 .. Len(s) : \A b \in 0 .. r : \A k \in r .. Len(s) :
    SubSeq(s, b + 1, k) = SubSeq(s, b + 1, r) \o SubSeq(s, r + 1, k)
<1>. SUFFICES ASSUME NEW s \in Seq(Byte), NEW r \in 0 .. Len(s), NEW b \in 0 .. r,
                     NEW k \in r .. Len(s)
              PROVE  SubSeq(s, b + 1, k) = SubSeq(s, b + 1, r) \o SubSeq(s, r + 1, k)
  OBVIOUS
<1>1. b + 1 \in 1 .. Len(s) + 1 /\ r \in b + 1 - 1 .. Len(s)
  BY LenProperties
<1>. QED  BY <1>1, ConcatAdjacentSubSeq

-----------------------------------------------------------------------------
(* The invariant.                                                          *)

\* StreamInv is inductive once the message is known not to start after the
\* bytes that were received.
StreamIInv == StreamInv /\ base <= received

LEMMA StreamBounds ==
  ASSUME StreamTypeOK
  PROVE  /\ stream \in Seq(Byte) /\ Len(stream) \in Nat
         /\ received \in 0 .. Len(stream) /\ received \in Nat /\ base \in Nat
         /\ parsed \in Seq(Byte) /\ Len(parsed) \in Nat
         /\ unparsed_buffer \in Seq(Byte) /\ Len(unparsed_buffer) \in Nat
         /\ <<>> \in Seq(Byte)
BY StreamsAssumption, LenProperties, EmptySeq DEF StreamTypeOK, TypeOK

\* What follows the current message in the stream is what is not parsed yet.
LEMMA DropMessage ==
  ASSUME StreamIInv
  PROVE  /\ base + Len(parsed) <= received
         /\ SubSeq(stream, base + Len(parsed) + 1, received) = unparsed_buffer
<1>1. StreamTypeOK /\ base <= received
  BY DEF StreamIInv, StreamInv
<1>2. /\ stream \in Seq(Byte) /\ received \in 0 .. Len(stream)
      /\ base \in 0 .. received
      /\ parsed \in Seq(Byte) /\ unparsed_buffer \in Seq(Byte)
  BY <1>1, StreamBounds
<1>3. SubSeq(stream, base + 1, received) = parsed \o unparsed_buffer
  BY DEF StreamIInv, StreamInv, NothingLost
<1>4. \A p, u \in Seq(Byte) : \A r \in 0 .. Len(stream) : \A b \in 0 .. r :
        SubSeq(stream, b + 1, r) = p \o u
          => b + Len(p) <= r /\ SubSeq(stream, b + Len(p) + 1, r) = u
  BY <1>2, DropFront
<1>5. \A b \in 0 .. received :
        SubSeq(stream, b + 1, received) = parsed \o unparsed_buffer
          => /\ b + Len(parsed) <= received
             /\ SubSeq(stream, b + Len(parsed) + 1, received) = unparsed_buffer
  BY <1>2, <1>4
<1>6. SubSeq(stream, base + 1, received) = parsed \o unparsed_buffer
         => /\ base + Len(parsed) <= received
            /\ SubSeq(stream, base + Len(parsed) + 1, received) = unparsed_buffer
  BY <1>2, <1>5
<1>. QED  BY <1>3, <1>6

\* Where the message starts that progress works on, and what it has of it.
NextBase == IF IsMessageComplete THEN base + Len(parsed) ELSE base

LEMMA CurNothingLost ==
  ASSUME StreamIInv
  PROVE  /\ NextBase \in 0 .. received
         /\ SubSeq(stream, NextBase + 1, received) = Cur(parsed, <<>>) \o unparsed_buffer
<1>1. StreamTypeOK /\ NothingLost /\ base <= received
  BY DEF StreamIInv, StreamInv
<1>2. CASE IsMessageComplete
  <2>1. /\ base + Len(parsed) <= received
        /\ SubSeq(stream, base + Len(parsed) + 1, received) = unparsed_buffer
    BY DropMessage
  <2>2. NextBase = base + Len(parsed) /\ Cur(parsed, <<>>) = <<>>
    BY <1>2 DEF NextBase, Cur
  <2>3. <<>> \o unparsed_buffer = unparsed_buffer
    BY <1>1, StreamBounds, ConcatEmptySeq
  <2>4. NextBase \in 0 .. received
    BY <1>1, <2>1, <2>2, StreamBounds
  <2>. QED  BY <2>1, <2>2, <2>3, <2>4, Zenon
<1>3. CASE ~IsMessageComplete
  <2>1. base \in 0 .. received
    BY <1>1, StreamBounds
  <2>. QED  BY <2>1, <1>1, <1>3, Zenon DEF NextBase, Cur, NothingLost
<1>. QED  BY <1>2, <1>3

LEMMA ReceiveKeepsStream == StreamIInv /\ Receive => StreamIInv'
<1>. SUFFICES ASSUME StreamIInv, Receive PROVE StreamIInv'
  OBVIOUS
<1>1. PICK k \in received + 1 .. Len(stream) :
        EnqueueBytes(SubSeq(stream, received + 1, k)) /\ received' = k
  BY DEF Receive
<1>. DEFINE more == SubSeq(stream, received + 1, k)
<1>2. stream' = stream /\ base' = base /\ log' = log
  BY DEF Receive
<1>3. StreamTypeOK /\ NothingLost /\ base <= received
  BY DEF StreamIInv, StreamInv
<1>. USE StreamBounds
<1>4. more \in Seq(Byte)
  <2>1. \A i \in received + 1 .. k : stream[i] \in Byte
    BY <1>3, ElementOfSeq
  <2>. QED  BY <1>3, <2>1, SubSeqProperties
<1>5. unparsed_buffer' \in Seq(Byte)
  BY <1>1, <1>3, <1>4, ConcatProperties DEF EnqueueBytes
<1>6. StreamTypeOK'
  <2>1. received' \in 0 .. Len(stream)
    BY <1>1, <1>3
  <2>2. TypeOK'
    BY <1>1, <1>3, <1>5 DEF StreamTypeOK, TypeOK, EnqueueBytes
  <2>. QED  BY <1>2, <1>3, <2>1, <2>2 DEF StreamTypeOK
<1>7. NothingLost'
  <2>1. SubSeq(stream, base + 1, k) = SubSeq(stream, base + 1, received) \o more
    <3>1. /\ stream \in Seq(Byte) /\ received \in 0 .. Len(stream)
          /\ base \in 0 .. received /\ k \in received .. Len(stream)
      BY <1>1, <1>3
    <3>. QED  BY <3>1, AdjacentSlices, Zenon
  <2>2. unparsed_buffer' = unparsed_buffer \o more /\ parsed' = parsed
    BY <1>1 DEF EnqueueBytes
  <2>. HIDE DEF more
  <2>3. (parsed \o unparsed_buffer) \o more = parsed \o (unparsed_buffer \o more)
    <3>1. parsed \in Seq(Byte) /\ unparsed_buffer \in Seq(Byte)
      BY <1>3
    <3>. QED  BY <3>1, <1>4, BytesAssociate
  <2>. QED  BY <1>1, <1>2, <1>3, <2>1, <2>2, <2>3 DEF NothingLost
<1>8. base' <= received'
  BY <1>1, <1>2, <1>3
<1>. QED  BY <1>6, <1>7, <1>8 DEF StreamIInv, StreamInv

\* Whatever progress returns, its result is the last of the fragments.
LEMMA AdvanceLog ==
  ASSUME StreamTypeOK, Advance, TypeOK', base' \in Nat
  PROVE  log' \in Seq([message : Nat, fragment : FragmentInfo])
<1>1. log \in Seq([message : Nat, fragment : FragmentInfo]) /\ TypeOK
  BY DEF StreamTypeOK
<1>2. CASE fragments' = Cur(fragments, <<>>)
  BY <1>1, <1>2 DEF Advance
<1>3. CASE fragments' # Cur(fragments, <<>>)
  <2>1. \E f \in FragmentInfo : fragments' = Append(Cur(fragments, <<>>), f)
    <3>1. Progress
      BY DEF Advance
    <3>. QED  BY <1>1, <1>3, <3>1, ProgressStep
              DEF Continues, Finishes, ReturnNone, ReturnFragment
  <2>2. fragments' \in Seq(FragmentInfo) /\ Len(fragments') \in 1 .. Len(fragments')
    BY <1>1, <2>1, CurTypes, AppendProperties, LenProperties
  <2>3. fragments'[Len(fragments')] \in FragmentInfo
    BY <2>2, ElementOfSeq
  <2>4. log' = Append(log, [message |-> base', fragment |-> fragments'[Len(fragments')]])
    BY <1>3 DEF Advance
  <2>. QED  BY <1>1, <2>3, <2>4, AppendProperties
<1>. QED  BY <1>2, <1>3

LEMMA AdvanceKeepsStream == StreamIInv /\ Advance => StreamIInv'
<1>. SUFFICES ASSUME StreamIInv, Advance PROVE StreamIInv'
  OBVIOUS
<1>1. StreamTypeOK /\ NothingLost /\ base <= received /\ TypeOK
  BY DEF StreamIInv, StreamInv, StreamTypeOK
<1>2. Progress /\ base' = NextBase /\ stream' = stream /\ received' = received
  BY DEF Advance, NextBase
<1>3. /\ NextBase \in 0 .. received
      /\ SubSeq(stream, NextBase + 1, received) = Cur(parsed, <<>>) \o unparsed_buffer
  BY CurNothingLost
<1>4. TypeOK'
  BY <1>1, <1>2, NextTypes DEF Next
<1>5. StreamTypeOK'
  <2>1. base' \in Nat
    BY <1>1, <1>2, <1>3, StreamBounds
  <2>. QED  BY <2>1, <1>1, <1>2, <1>4, AdvanceLog DEF StreamTypeOK
<1>6. NothingLost'
  <2>1. PICK n \in 0 .. Len(unparsed_buffer) : DequeueParsedBytes(n)
    BY <1>1, <1>2, ProgressStep
  <2>. DEFINE P == Cur(parsed, <<>>)
              u == unparsed_buffer
              v == SubSeq(u, 1, n)
              w == SubSeq(u, n + 1, Len(u))
  <2>2. parsed' = P \o v /\ unparsed_buffer' = w
    BY <2>1 DEF DequeueParsedBytes
  <2>3. P \in Seq(Byte) /\ u \in Seq(Byte) /\ Len(u) \in Nat
    BY <1>1, CurTypes, StreamBounds
  <2>. HIDE DEF P, u
  <2>4. v \in Seq(Byte) /\ w \in Seq(Byte)
    BY <2>3, PrefixProperties, SuffixProperties DEF u
  <2>5. v \o w = u
    <3>1. /\ 1 \in 1 .. Len(u) + 1 /\ n \in 1 - 1 .. Len(u) /\ Len(u) \in n .. Len(u)
      BY <2>3 DEF u
    <3>2. v \o w = SubSeq(u, 1, Len(u))
      BY <3>1, <2>3, ConcatAdjacentSubSeq
    <3>. QED  BY <3>2, <2>3, SubSeqFull
  <2>. HIDE DEF v, w
  <2>6. (P \o v) \o w = P \o u
    <3>1. (P \o v) \o w = P \o (v \o w)
      BY <2>3, <2>4, BytesAssociate
    <3>. QED  BY <3>1, <2>5
  <2>. QED  BY <1>2, <1>3, <2>2, <2>6 DEF NothingLost, P, u
<1>. QED  BY <1>2, <1>3, <1>5, <1>6, <1>1, StreamBounds DEF StreamIInv, StreamInv

LEMMA RejectKeepsStream == StreamIInv /\ RejectLiteral => StreamIInv'
<1>. SUFFICES ASSUME StreamIInv, RejectLiteral PROVE StreamIInv'
  OBVIOUS
<1>1. StreamTypeOK /\ NothingLost /\ base <= received /\ TypeOK
  BY DEF StreamIInv, StreamInv, StreamTypeOK
<1>2. /\ SkipMessage /\ base' = base + Len(parsed) /\ parsed' = <<>>
      /\ stream' = stream /\ received' = received /\ log' = log
      /\ unparsed_buffer' = unparsed_buffer
  BY DEF RejectLiteral, SkipMessage
<1>. USE StreamBounds
<1>3. /\ base + Len(parsed) <= received
      /\ SubSeq(stream, base + Len(parsed) + 1, received) = unparsed_buffer
  BY DropMessage
<1>4. NothingLost'
  <2>1. <<>> \o unparsed_buffer = unparsed_buffer
    BY <1>1, ConcatEmptySeq
  <2>. QED  BY <2>1, <1>2, <1>3 DEF NothingLost
<1>5. StreamTypeOK'
  <2>1. TypeOK'
    BY <1>1, <1>2, NextTypes DEF Next
  <2>. QED  BY <2>1, <1>1, <1>2, <1>3 DEF StreamTypeOK
<1>. QED  BY <1>1, <1>2, <1>3, <1>4, <1>5 DEF StreamIInv, StreamInv

LEMMA PoisonKeepsStream == StreamIInv /\ Poison => StreamIInv'
<1>. SUFFICES ASSUME StreamIInv, Poison PROVE StreamIInv'
  OBVIOUS
<1>1. StreamTypeOK /\ NothingLost /\ base <= received /\ TypeOK
  BY DEF StreamIInv, StreamInv, StreamTypeOK
<1>2. TypeOK'
  BY <1>1, NextTypes DEF Next, Poison
<1>. QED  BY <1>1, <1>2
          DEF Poison, PoisonMessage, StreamIInv, StreamInv, StreamTypeOK, NothingLost

LEMMA StreamInductive == StreamSpec => []StreamIInv
<1>1. StreamInit => StreamIInv
  <2>. SUFFICES ASSUME StreamInit PROVE StreamIInv
    OBVIOUS
  <2>1. TypeOK
    BY InitTypes DEF StreamInit
  <2>2. stream \in Seq(Byte) /\ Len(stream) \in Nat
    BY StreamsAssumption, LenProperties DEF StreamInit
  <2>3. StreamTypeOK
    BY <2>1, <2>2, EmptySeq DEF StreamInit, StreamTypeOK
  <2>4. SubSeq(stream, 1, 0) = <<>>
    BY SubSeqEmpty
  <2>5. <<>> \o <<>> = <<>>
    BY EmptySeq, ConcatEmptySeq
  <2>. QED  BY <2>3, <2>4, <2>5
            DEF StreamInit, Init, StreamIInv, StreamInv, NothingLost
<1>2. StreamIInv /\ [StreamNext]_svars => StreamIInv'
  <2>1. StreamIInv /\ UNCHANGED svars => StreamIInv'
    BY DEF svars, vars, StreamIInv, StreamInv, StreamTypeOK, NothingLost, TypeOK
  <2>. QED  BY <2>1, ReceiveKeepsStream, AdvanceKeepsStream, RejectKeepsStream,
               PoisonKeepsStream DEF StreamNext
<1>. QED  BY <1>1, <1>2, PTL DEF StreamSpec

\* However the stream is cut into reads, wherever the limit drops bytes and
\* whichever messages the owner skips or poisons: the messages dropped, the
\* current one and the unparsed bytes are together exactly what was received.
THEOREM StreamCorrect == StreamSpec => []StreamInv
<1>1. StreamIInv => StreamInv
  BY DEF StreamIInv
<1>. QED  BY <1>1, StreamInductive, PTL

-----------------------------------------------------------------------------
(* The fragments, now of a stream.                                         *)

LEMMA StreamKeepsFragmentsInv ==
  ASSUME StreamIInv, FragmentsInv, [StreamNext]_svars
  PROVE  FragmentsInv'
<1>1. TypeOK
  BY DEF StreamIInv, StreamInv, StreamTypeOK
<1>2. CASE UNCHANGED <<parser, parsed, fragments>>
  BY <1>2, SameFragments
<1>3. CASE Progress \/ SkipMessage
  BY <1>1, <1>3, NextKeepsFragmentsInv DEF Next
<1>. QED  BY <1>2, <1>3 DEF StreamNext, Receive, EnqueueBytes, Advance, RejectLiteral,
                            Poison, PoisonMessage, svars, vars

LEMMA StreamFragments == StreamSpec => []FragmentsInv
<1>1. StreamInit => FragmentsInv
  BY InitFragmentsInv DEF StreamInit
<1>. QED  BY <1>1, StreamKeepsFragmentsInv, StreamInductive, PTL DEF StreamSpec

-----------------------------------------------------------------------------
(* The abstract stream.                                                    *)

\* The reference that the abstract stream refers to is the same.
LEMMA SameReference ==
  ASSUME NEW line
  PROVE  /\ Abstract!LineAnnouncement(line) = LineAnnouncement(line)
         /\ Abstract!Ending(line) = Ending(line)
<1>1. Abstract!Ending(line) = Ending(line)
  BY DEF Ending, Abstract!Ending, CR, Abstract!CR
<1>2. Abstract!Content(line) = Content(line)
  BY <1>1 DEF Content, Abstract!Content
<1>3. Abstract!AnnouncementsOf(line) = AnnouncementsOf(line)
  BY <1>2 DEF AnnouncementsOf, Abstract!AnnouncementsOf, Announcement, Abstract!Announcement,
              Modes, Abstract!Modes, Announce, Abstract!Announce, Number, Abstract!Number,
              DigitValue, Abstract!DigitValue, Spelled, Abstract!Spelled,
              Suffix, Abstract!Suffix, Digits, Abstract!Digits, OPEN, Abstract!OPEN,
              CLOSE, Abstract!CLOSE, PLUS, Abstract!PLUS
<1>4. Abstract!LineAnnouncement(line) = LineAnnouncement(line)
  BY <1>3 DEF LineAnnouncement, Abstract!LineAnnouncement,
              NoAnnouncement, Abstract!NoAnnouncement
<1>. QED  BY <1>1, <1>4

\* Whether or not a message is complete, the abstract state is that of the
\* message progress works on.
LEMMA CurAbstract ==
  ASSUME TypeOK, FragmentsInv, base \in Nat
  PROVE  /\ base + LastEnd(fragments) = NextBase + LastEnd(Cur(fragments, <<>>))
         /\ LastAnnounced(fragments) = LastAnnounced(Cur(fragments, <<>>))
<1>1. CASE IsMessageComplete
  <2>1. LastEnd(fragments) = Len(parsed)
    BY <1>1 DEF FragmentsInv, FragmentsTileMessage
  <2>2. parser.kind = "None"
    BY <1>1 DEF IsMessageComplete, NoParser
  <2>3. LastAnnounced(fragments) = NoAnnouncement
    BY <2>2 DEF FragmentsInv, LiteralsAsAnnounced
  <2>4. LastEnd(<<>>) = 0 /\ LastAnnounced(<<>>) = NoAnnouncement
    BY DEF LastEnd, LastAnnounced
  <2>5. Len(parsed) \in Nat
    BY LenProperties DEF TypeOK
  <2>6. Cur(fragments, <<>>) = <<>> /\ NextBase = base + Len(parsed)
    BY <1>1 DEF Cur, NextBase
  <2>. QED  BY <2>1, <2>3, <2>4, <2>5, <2>6
<1>2. CASE ~IsMessageComplete
  BY <1>2 DEF Cur, NextBase
<1>. QED  BY <1>1, <1>2

\* The parsed bytes are found in the stream where the message starts.
InStream ==
  /\ base + Len(parsed) <= Len(stream)
  /\ \A i \in 1 .. Len(parsed) : stream[base + i] = parsed[i]
  /\ \A a \in 1 .. Len(parsed) + 1, e \in 0 .. Len(parsed) :
       SubSeq(stream, base + a, base + e) = SubSeq(parsed, a, e)

LEMMA ParsedInStream == StreamIInv => InStream
<1>. SUFFICES ASSUME StreamIInv PROVE InStream
  OBVIOUS
<1>. DEFINE t == SubSeq(stream, base + 1, received)
<1>1. /\ stream \in Seq(Byte) /\ Len(stream) \in Nat
      /\ received \in 0 .. Len(stream) /\ base \in Nat /\ base <= received
      /\ parsed \in Seq(Byte) /\ Len(parsed) \in Nat
      /\ unparsed_buffer \in Seq(Byte) /\ Len(unparsed_buffer) \in Nat
  BY StreamBounds DEF StreamIInv, StreamInv
<1>2. base + Len(parsed) <= received
  BY DropMessage
<1>3. t = parsed \o unparsed_buffer
  BY DEF StreamIInv, StreamInv, NothingLost
<1>4. \A i \in 1 .. Len(parsed) : t[i] = parsed[i]
  BY <1>1, <1>3, ConcatProperties
<1>5. \A i \in 1 .. received - base : t[i] = stream[base + i]
  <2>1. \A i \in base + 1 .. received : stream[i] \in Byte
    BY <1>1, ElementOfSeq
  <2>2. base + 1 \in Int /\ received \in Int
    BY <1>1
  <2>3. \A i \in 1 .. received - (base + 1) + 1 : t[i] = stream[base + 1 + i - 1]
    BY <2>1, <2>2, SubSeqProperties
  <2>. HIDE DEF t
  <2>4. \A i \in 1 .. received - base :
          i \in 1 .. received - (base + 1) + 1 /\ base + 1 + i - 1 = base + i
    BY <1>1
  <2>. QED  BY <2>3, <2>4
<1>. HIDE DEF t
<1>6. \A i \in 1 .. Len(parsed) : stream[base + i] = parsed[i]
  <2>1. \A i \in 1 .. Len(parsed) : i \in 1 .. received - base
    BY <1>1, <1>2
  <2>. QED  BY <2>1, <1>4, <1>5
<1>7. ASSUME NEW a \in 1 .. Len(parsed) + 1, NEW e \in 0 .. Len(parsed)
      PROVE  SubSeq(stream, base + a, base + e) = SubSeq(parsed, a, e)
  <2>. DEFINE l == SubSeq(stream, base + a, base + e)
              r == SubSeq(parsed, a, e)
              x == base + a
              y == base + e
  <2>1. x \in Int /\ y \in Int /\ a \in Int /\ e \in Int /\ y - x + 1 = e - a + 1
        /\ (x <= y <=> a <= e)
    BY <1>1
  <2>2. \A i \in x .. y : stream[i] \in Byte
    <3>1. \A i \in x .. y : i \in 1 .. Len(stream)
      BY <1>1, <1>2
    <3>. QED  BY <1>1, <3>1, ElementOfSeq
  <2>3. \A i \in a .. e : parsed[i] \in Byte
    BY <1>1, ElementOfSeq
  <2>4. /\ l \in Seq(Byte) /\ Len(l) = IF x <= y THEN y - x + 1 ELSE 0
        /\ \A i \in 1 .. y - x + 1 : l[i] = stream[x + i - 1]
    <3>. HIDE DEF x, y
    <3>. QED  BY <2>1, <2>2, SubSeqProperties DEF x, y
  <2>5. /\ r \in Seq(Byte) /\ Len(r) = IF a <= e THEN e - a + 1 ELSE 0
        /\ \A i \in 1 .. e - a + 1 : r[i] = parsed[a + i - 1]
    <3>. HIDE DEF l, x, y
    <3>. QED  BY <2>1, <2>3, SubSeqProperties
  <2>. HIDE DEF l, r
  <2>6. Len(l) = Len(r)
    BY <2>1, <2>4, <2>5
  <2>7. ASSUME NEW i \in 1 .. Len(l) PROVE l[i] = r[i]
    <3>1. /\ i \in 1 .. e - a + 1 /\ i \in 1 .. y - x + 1
          /\ x + i - 1 = base + (a + i - 1) /\ a + i - 1 \in 1 .. Len(parsed)
      BY <1>1, <2>1, <2>4
    <3>2. stream[x + i - 1] = parsed[a + i - 1]
      BY <1>6, <3>1
    <3>. QED  BY <2>4, <2>5, <3>1, <3>2
  <2>8. l = r
    BY <2>4, <2>5, <2>6, <2>7, SeqEqual
  <2>. QED  BY <2>8 DEF l, r
<1>. QED  BY <1>1, <1>2, <1>6, <1>7 DEF InStream

-----------------------------------------------------------------------------
(* Every step is one of the abstract stream, or none.                      *)

\* What a step does to the variables of the abstract stream.
LEMMA AbstractStutter ==
  ASSUME StreamIInv, FragmentsInv, Advance, NEW p \in Parser \ {NoParser},
         ReturnNone(p)
  PROVE  UNCHANGED Abstract!vars
<1>1. TypeOK /\ base \in Nat
  BY StreamBounds DEF StreamIInv, StreamInv, StreamTypeOK
<1>2. /\ fragments' = Cur(fragments, <<>>) /\ parser' = p /\ p # NoParser
      /\ base' = NextBase /\ log' = log /\ stream' = stream
  BY DEF Advance, ReturnNone, NextBase
<1>3. ~IsMessageComplete'
  BY <1>2 DEF IsMessageComplete
<1>4. /\ base + LastEnd(fragments) = NextBase + LastEnd(Cur(fragments, <<>>))
      /\ LastAnnounced(fragments) = LastAnnounced(Cur(fragments, <<>>))
  BY <1>1, CurAbstract
<1>5. /\ base' + LastEnd(fragments') = base + LastEnd(fragments)
      /\ LastAnnounced(fragments') = LastAnnounced(fragments)
  BY <1>2, <1>4 DEF LastEnd, LastAnnounced
<1>6. (IF IsMessageComplete' THEN base' + Len(parsed') ELSE base') = NextBase
  BY <1>2, <1>3
<1>. QED  BY <1>2, <1>5, <1>6 DEF Abstract!vars, NextBase, LastEnd, LastAnnounced, IsMessageComplete

\* The abstract variables after a fragment was found.
LEMMA AbstractFinish ==
  ASSUME StreamIInv, StreamIInv', FragmentsInv, FragmentsInv', Advance,
         NEW n \in 0 .. Len(unparsed_buffer), DequeueParsedBytes(n),
         NEW f \in FragmentInfo, Finishes(f, n)
  PROVE  /\ base' = NextBase /\ base' \in Nat
         /\ log' = Append(log, [message |-> base', fragment |-> f])
         /\ base + LastEnd(fragments) = base' + f.start
         /\ LastAnnounced(fragments) = LastAnnounced(Cur(fragments, <<>>))
         /\ base' + LastEnd(fragments') = base' + f.end
         /\ LastAnnounced(fragments') = AnnouncementOf(f)
         /\ f.start \in Nat /\ f.end \in Nat /\ f.start <= f.end /\ f.end = Len(parsed')
         /\ LineSays(parsed', f)
<1>. DEFINE fs == Cur(fragments, <<>>)
            gs == Append(fs, f)
<1>1. TypeOK /\ base \in Nat /\ base' \in Nat /\ base' = NextBase
  BY StreamBounds DEF StreamIInv, StreamInv, StreamTypeOK, Advance, NextBase
<1>2. /\ fragments' = gs /\ f.start = CurParser.start /\ f.end = CurParser.end + n
      /\ f.kind = CurParser.kind
  BY DEF Finishes, ReturnFragment
<1>3. /\ fs \in Seq(FragmentInfo) /\ Len(fs) \in Nat
      /\ Len(gs) = Len(fs) + 1 /\ gs[Len(fs) + 1] = f /\ gs # <<>>
      /\ DOMAIN gs = 1 .. Len(fs) + 1
  BY <1>1, CurTypes, AppendProperties, LenProperties
<1>4. gs # fs
  BY <1>3
<1>5. log' = Append(log, [message |-> base', fragment |-> f])
  BY <1>2, <1>3, <1>4 DEF Advance
<1>6. /\ CurParser.start = LastEnd(fs) /\ CurParser.end = Len(Cur(parsed, <<>>))
      /\ CurParser.start <= CurParser.end
  BY <1>1, CurFragments DEF FragmentsInv
<1>7. /\ base + LastEnd(fragments) = NextBase + LastEnd(fs)
      /\ LastAnnounced(fragments) = LastAnnounced(fs)
  BY <1>1, CurAbstract
<1>8. f.start \in Nat /\ f.end \in Nat /\ n \in Nat
  BY <1>1, LenProperties DEF FragmentInfo, TypeOK
<1>9. Len(parsed') = Len(Cur(parsed, <<>>)) + n
  BY <1>1, ParsedGrows
<1>10. f.start <= f.end /\ f.end = Len(parsed')
  <2>1. CurParser.end \in Nat /\ CurParser.start \in Nat
    BY <1>1, CurTypes, ParserCases
  <2>. QED  BY <1>2, <1>6, <1>8, <1>9, <2>1
<1>11. LineSays(parsed', f)
  <2>1. LinesSayWhatTheyAnnounce'
    BY DEF FragmentsInv, LinesInv
  <2>2. Len(fs) + 1 \in DOMAIN gs
    BY <1>3
  <2>. HIDE DEF gs
  <2>. QED  BY <1>2, <1>3, <2>1, <2>2 DEF LinesSayWhatTheyAnnounce, LineSays, TextOf
<1>. HIDE DEF gs
<1>12. LastEnd(fragments') = f.end /\ LastAnnounced(fragments') = AnnouncementOf(f)
  BY <1>2, <1>3 DEF LastEnd, LastAnnounced
<1>. QED  BY <1>1, <1>2, <1>5, <1>6, <1>7, <1>8, <1>10, <1>11, <1>12

\* A line fragment is one of the abstract stream.
LEMMA AbstractLine ==
  ASSUME StreamIInv, StreamIInv', FragmentsInv, FragmentsInv', Advance,
         NEW n \in 0 .. Len(unparsed_buffer), DequeueParsedBytes(n),
         NEW f \in FragmentInfo, Finishes(f, n), f.kind = "Line"
  PROVE  Abstract!EmitLine
<1>. DEFINE position == base + LastEnd(fragments)
            e == base' + f.end
            text == SubSeq(stream, position + 1, e)
            a == f.announcement
<1>1. /\ base' = NextBase /\ base' \in Nat
      /\ log' = Append(log, [message |-> base', fragment |-> f])
      /\ position = base' + f.start
      /\ LastAnnounced(fragments) = LastAnnounced(Cur(fragments, <<>>))
      /\ base' + LastEnd(fragments') = e
      /\ LastAnnounced(fragments') = AnnouncementOf(f)
      /\ f.start \in Nat /\ f.end \in Nat /\ f.start <= f.end /\ f.end = Len(parsed')
      /\ LineSays(parsed', f)
  BY AbstractFinish
<1>2. /\ TypeOK /\ stream' = stream /\ parser' = ParserAfter(f) /\ CurParser.kind = "Line"
  BY StreamBounds DEF StreamIInv, StreamInv, StreamTypeOK, Advance, Finishes, ReturnFragment
<1>3. LastAnnounced(fragments) = NoAnnouncement
  BY <1>1, <1>2, CurFragments DEF FragmentsInv
<1>4. /\ base' + Len(parsed') <= Len(stream)
      /\ \A i \in 1 .. Len(parsed') : stream[base' + i] = parsed'[i]
      /\ \A x \in 1 .. Len(parsed') + 1, y \in 0 .. Len(parsed') :
           SubSeq(stream, base' + x, base' + y) = SubSeq(parsed', x, y)
  <2>1. InStream'
    BY ParsedInStream, PTL
  <2>. QED  BY <1>2, <2>1, Zenon DEF InStream
<1>5. text = SubSeq(parsed', f.start + 1, f.end)
  <2>1. /\ f.start + 1 \in 1 .. Len(parsed') + 1 /\ f.end \in 0 .. Len(parsed')
        /\ position + 1 = base' + (f.start + 1)
    BY <1>1
  <2>. QED  BY <1>4, <2>1
<1>6. /\ HasLf(text) /\ FirstLf(text) = Len(text)
      /\ a = LineAnnouncement(text) /\ f.ending = Ending(text)
  BY <1>1, <1>5 DEF LineSays
<1>7. /\ stream \in Seq(Byte) /\ Len(stream) \in Nat
  BY StreamBounds DEF StreamIInv, StreamInv
<1>8. position \in Nat /\ e \in Nat /\ e <= Len(stream) /\ position <= e
  BY <1>1, <1>4
<1>. HIDE DEF position, e
<1>9. /\ text \in Seq(Byte) /\ Len(text) = e - position
      /\ \A i \in 1 .. e - position : text[i] = stream[position + i]
  <2>1. \A i \in position + 1 .. e : stream[i] \in Byte
    <3>1. \A i \in position + 1 .. e : i \in 1 .. Len(stream)
      BY <1>7, <1>8
    <3>. QED  BY <1>7, <3>1, ElementOfSeq
  <2>2. position + 1 \in Int /\ e \in Int
    BY <1>8
  <2>3. /\ text \in Seq(Byte)
        /\ Len(text) = IF position + 1 <= e THEN e - (position + 1) + 1 ELSE 0
        /\ \A i \in 1 .. e - (position + 1) + 1 : text[i] = stream[position + 1 + i - 1]
    BY <2>1, <2>2, SubSeqProperties
  <2>. HIDE DEF text
  <2>4. /\ Len(text) = e - position
        /\ \A i \in 1 .. e - position :
             i \in 1 .. e - (position + 1) + 1 /\ position + 1 + i - 1 = position + i
    BY <1>8, <2>3
  <2>. QED  BY <2>3, <2>4
<1>. HIDE DEF text
<1>10. /\ text[Len(text)] = LF /\ Len(text) \in 1 .. Len(text)
       /\ \A j \in 1 .. Len(text) : text[j] = LF => Len(text) <= j
  BY <1>6, <1>9, FirstLfProperties
<1>11. e > position /\ e \in DOMAIN stream /\ stream[e] = LF
       /\ \A i \in position + 1 .. e - 1 : stream[i] # LF
  <2>1. Len(text) = e - position /\ Len(text) > 0 /\ position + (e - position) = e
    BY <1>8, <1>9, <1>10
  <2>2. e \in 1 .. Len(stream) /\ e - position \in 1 .. e - position
    BY <1>7, <1>8, <2>1
  <2>3. stream[e] = LF
    BY <1>9, <1>10, <2>1, <2>2
  <2>4. ASSUME NEW i \in position + 1 .. e - 1 PROVE stream[i] # LF
    <3>1. /\ i - position \in 1 .. e - position /\ position + (i - position) = i
          /\ ~(e - position <= i - position)
      BY <1>8
    <3>2. text[i - position] = stream[i]
      BY <1>9, <3>1
    <3>. QED  BY <1>10, <2>1, <3>1, <3>2
  <2>5. DOMAIN stream = 1 .. Len(stream)
    BY <1>7, LenProperties
  <2>. QED  BY <1>8, <2>1, <2>2, <2>3, <2>4, <2>5
<1>12. /\ Abstract!LineAnnouncement(text) = a /\ Abstract!Ending(text) = f.ending
  BY <1>6, SameReference
<1>13. f = Abstract!Line(f.start, f.end, a, f.ending)
  BY DEF FragmentInfo, Abstract!Line, a
<1>14. a = NoAnnouncement => IsMessageComplete'
  BY <1>2 DEF ParserAfter, IsMessageComplete, a
<1>15. a # NoAnnouncement => ~IsMessageComplete'
  BY <1>2 DEF ParserAfter, IsMessageComplete, NewLiteralParser, LiteralParser, NoParser, a
<1>16. AnnouncementOf(f) = a
  BY DEF AnnouncementOf, a
<1>. HIDE DEF a
<1>17. position - NextBase = f.start /\ e - NextBase = f.end
  BY <1>1 DEF position, e
<1>18. (IF IsMessageComplete' THEN base' + Len(parsed') ELSE base')
         = IF a = NoAnnouncement THEN e ELSE NextBase
  BY <1>1, <1>14, <1>15 DEF e
<1>. QED  BY <1>1, <1>2, <1>3, <1>11, <1>12, <1>13, <1>16, <1>17, <1>18
          DEF Abstract!EmitLine, Abstract!IsLineEnd, Abstract!Entry, Abstract!NoAnnouncement,
              NoAnnouncement, NextBase, position, text, Abstract!LF, LF

\* A literal fragment is one of the abstract stream.
LEMMA AbstractLiteral ==
  ASSUME StreamIInv, StreamIInv', FragmentsInv, FragmentsInv', Advance,
         NEW n \in 0 .. Len(unparsed_buffer), DequeueParsedBytes(n),
         NEW f \in FragmentInfo, Finishes(f, n), f.kind = "Literal"
  PROVE  Abstract!EmitLiteral
<1>. DEFINE position == base + LastEnd(fragments)
            a == LastAnnounced(fragments)
            c == CurParser
<1>1. /\ base' = NextBase /\ base' \in Nat
      /\ log' = Append(log, [message |-> base', fragment |-> f])
      /\ position = base' + f.start
      /\ a = LastAnnounced(Cur(fragments, <<>>))
      /\ base' + LastEnd(fragments') = base' + f.end
      /\ LastAnnounced(fragments') = AnnouncementOf(f)
      /\ f.start \in Nat /\ f.end \in Nat /\ f.start <= f.end /\ f.end = Len(parsed')
  BY AbstractFinish
<1>2. /\ TypeOK /\ stream' = stream /\ parser' = ParserAfter(f) /\ c.kind = "Literal"
      /\ f.start = c.start /\ f.end = c.end + n /\ n = c.remaining
  BY StreamBounds
  DEF StreamIInv, StreamInv, StreamTypeOK, Advance, Finishes, ReturnFragment
<1>3. /\ a # NoAnnouncement /\ a \in MaybeAnnouncement
      /\ c.remaining = a.length - (c.end - c.start)
  BY <1>1, <1>2, CurFragments DEF FragmentsInv
<1>4. a.length \in Nat /\ c.end \in Nat /\ c.start \in Nat
  BY <1>2, <1>3, CurTypes, ParserCases, MaxU32Assumption DEF MaybeAnnouncement, Announcement
<1>5. f.start + a.length = f.end
  BY <1>2, <1>3, <1>4
<1>6. base' + Len(parsed') <= Len(stream)
  <2>1. InStream'
    BY ParsedInStream, PTL
  <2>. QED  BY <1>2, <2>1 DEF InStream
<1>. HIDE DEF position, a
<1>7. /\ position + a.length = base' + f.end /\ position + a.length <= Len(stream)
      /\ position - NextBase = f.start /\ position + a.length - NextBase = f.end
  <2>. DEFINE k == a.length
  <2>1. k \in Nat /\ f.start + k = f.end
    BY <1>4, <1>5 DEF a
  <2>. HIDE DEF k
  <2>2. /\ position = base' + f.start /\ base' = NextBase /\ base' \in Nat
        /\ f.start \in Nat /\ f.end \in Nat
    BY <1>1, Zenon
  <2>3. position + k = base' + f.end /\ position - base' = f.start
    BY <2>1, <2>2
  <2>4. base' + f.end <= Len(stream)
    BY <1>1, <1>6, Zenon
  <2>5. position + k <= Len(stream)
    BY <2>3, <2>4
  <2>6. position - NextBase = f.start
    BY <2>2, <2>3
  <2>7. position + k - NextBase = f.end
    BY <2>1, <2>2
  <2>. QED  BY <2>3, <2>5, <2>6, <2>7 DEF k
<1>8. f = Abstract!Literal(f.start, f.end)
  BY DEF FragmentInfo, Abstract!Literal
<1>9. ~IsMessageComplete' /\ AnnouncementOf(f) = NoAnnouncement
  BY <1>2 DEF ParserAfter, IsMessageComplete, NewLineParser, LineParser, NoParser, AnnouncementOf
<1>10. (IF IsMessageComplete' THEN base' + Len(parsed') ELSE base') = NextBase
  BY <1>1, <1>9
<1>. QED  BY <1>1, <1>2, <1>3, <1>7, <1>8, <1>9, <1>10
          DEF Abstract!EmitLiteral, Abstract!Entry, Abstract!NoAnnouncement,
              NoAnnouncement, NextBase, position, a

\* A skipped message is a rejected literal of the abstract stream.
LEMMA AbstractReject ==
  ASSUME StreamIInv, FragmentsInv, RejectLiteral
  PROVE  Abstract!Reject
<1>1. /\ parsed \in Seq(Byte) /\ Len(parsed) \in Nat /\ base \in Nat
  BY StreamBounds DEF StreamIInv, StreamInv
<1>2. /\ LastAnnounced(fragments).mode = "Sync" /\ parser.end = parser.start
      /\ SkipMessage /\ base' = base + Len(parsed) /\ stream' = stream /\ log' = log
  BY DEF RejectLiteral
<1>3. LastAnnounced(fragments) # NoAnnouncement
  BY <1>2 DEF NoAnnouncement
<1>4. parser.kind = "Literal"
  BY <1>3 DEF FragmentsInv, LiteralsAsAnnounced
<1>5. ~IsMessageComplete
  BY <1>4 DEF IsMessageComplete, NoParser
<1>6. LastEnd(fragments) = Len(parsed)
  BY <1>2, <1>5 DEF FragmentsInv, FragmentsTileMessage
<1>7. fragments' = <<>> /\ parser' = NewLineParser(0) /\ parsed' = <<>>
  BY <1>2 DEF SkipMessage
<1>8. /\ LastEnd(fragments') = 0 /\ LastAnnounced(fragments') = NoAnnouncement
      /\ ~IsMessageComplete'
  BY <1>7 DEF LastEnd, LastAnnounced, IsMessageComplete, NewLineParser, LineParser, NoParser
<1>9. base + Len(parsed) + 0 = base + Len(parsed)
  BY <1>1
<1>. QED  BY <1>2, <1>5, <1>6, <1>8, <1>9
          DEF Abstract!Reject, Abstract!NoAnnouncement, NoAnnouncement

LEMMA AbstractStep ==
  StreamIInv /\ StreamIInv' /\ FragmentsInv /\ FragmentsInv' /\ [StreamNext]_svars
    => [Abstract!Next]_(Abstract!vars)
<1>. SUFFICES ASSUME StreamIInv, StreamIInv', FragmentsInv, FragmentsInv', [StreamNext]_svars
              PROVE  Abstract!Next \/ UNCHANGED Abstract!vars
  OBVIOUS
<1>1. CASE UNCHANGED <<parser, parsed, fragments, stream, base, log>>
  BY <1>1 DEF Abstract!vars, IsMessageComplete, LastEnd, LastAnnounced
<1>2. CASE Advance
  <2>1. TypeOK /\ Progress
    BY <1>2 DEF StreamIInv, StreamInv, StreamTypeOK, Advance
  <2>2. PICK n \in 0 .. Len(unparsed_buffer) :
          /\ DequeueParsedBytes(n)
          /\ \/ \E p \in Parser \ {NoParser} : Continues(p, n)
             \/ \E f \in FragmentInfo : Finishes(f, n)
    BY <2>1, ProgressStep
  <2>3. ASSUME NEW p \in Parser \ {NoParser}, Continues(p, n)
        PROVE  UNCHANGED Abstract!vars
    BY <1>2, <2>3, AbstractStutter DEF Continues
  <2>4. ASSUME NEW f \in FragmentInfo, Finishes(f, n)
        PROVE  Abstract!Next
    <3>1. f.kind = "Line" \/ f.kind = "Literal"
      BY DEF FragmentInfo
    <3>. QED  BY <1>2, <2>2, <2>4, <3>1, AbstractLine, AbstractLiteral DEF Abstract!Next
  <2>. QED  BY <2>2, <2>3, <2>4
<1>3. CASE RejectLiteral
  BY <1>3, AbstractReject DEF Abstract!Next
<1>. QED  BY <1>1, <1>2, <1>3 DEF StreamNext, Receive, EnqueueBytes, Poison, PoisonMessage,
                                  svars, vars

LEMMA AbstractInit == StreamInit => Abstract!Init
BY EmptySeq DEF StreamInit, Init, NewLineParser, LineParser, NoParser, Abstract!Init,
                IsMessageComplete, LastEnd, LastAnnounced, NoAnnouncement,
                Abstract!NoAnnouncement

\* The safety part of FragmentsDependOnBytesOnly: whatever the reads, the
\* limit, the poisoned messages and the moments at which progress is called,
\* the fragmentizer finds the fragments that the abstract stream determines
\* from the bytes, in their order, with their announcements, and no others.
THEOREM StreamImplements ==
  StreamSpec => Abstract!Init /\ [][Abstract!Next]_(Abstract!vars)
<1>. QED  BY AbstractInit, AbstractStep, StreamInductive, StreamFragments, PTL
          DEF StreamSpec
=============================================================================
