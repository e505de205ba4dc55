------------------------- MODULE FragmentizerProofs -------------------------
(***************************************************************************)
(* Proofs about Fragmentizer, for every width of the length, every limit,  *)
(* every way of slicing the bytes and every order of calls: what is kept   *)
(* of a message, and that the line parser, which reads byte by byte and    *)
(* across any number of calls, finds in every line what the reference      *)
(* definition of WireFormat says the whole line announces.                 *)
(***************************************************************************)
EXTENDS Fragmentizer, SequenceLemmas

-----------------------------------------------------------------------------
(* The line parser.                                                        *)

\* One byte leads from a state of the line parser to another: in particular
\* the accumulated length never exceeds u32::MAX.
LEMMA NextByteType ==
  ASSUME NEW s \in LatestByte, NEW b \in Byte
  PROVE  NextByte(s, b) \in LatestByte
<1>. DEFINE length == s.announcement.length
<1>1. s.announcement \in MaybeAnnouncement /\ s.at \in States
  BY DEF LatestByte
<1>2. length \in 0 .. MaxU32
  BY <1>1, MaxU32Assumption
  DEF MaybeAnnouncement, Announcement, NoAnnouncement
<1>3. \A st \in States, a \in MaybeAnnouncement : At(st, a) \in LatestByte
  BY DEF At, LatestByte
<1>4. \A m \in Modes, n \in 0 .. MaxU32 : Announce(m, n) \in MaybeAnnouncement
  BY DEF Announce, MaybeAnnouncement, Announcement
<1>5. NoAnnouncement \in MaybeAnnouncement /\ "Sync" \in Modes /\ "NonSync" \in Modes
  BY DEF MaybeAnnouncement, Modes
<1>6. /\ "Other" \in States /\ "OpeningBracket" \in States /\ "Digit" \in States
      /\ "Plus" \in States /\ "ClosingBracket" \in States /\ "Cr" \in States
  BY DEF States
<1>. HIDE DEF length
<1>7. /\ Other \in LatestByte /\ CrAfter(s) \in LatestByte
      /\ At("OpeningBracket", NoAnnouncement) \in LatestByte
      /\ At("ClosingBracket", s.announcement) \in LatestByte
      /\ At("Plus", Announce("NonSync", length)) \in LatestByte
  BY <1>1, <1>2, <1>3, <1>4, <1>5, <1>6 DEF Other, CrAfter
<1>8. b \in Digits => At("Digit", Announce("Sync", DigitValue(b))) \in LatestByte
  <2>1. b \in Digits => DigitValue(b) \in 0 .. MaxU32
    BY MaxU32Assumption DEF Digits, DigitValue
  <2>. QED  BY <2>1, <1>3, <1>4, <1>5, <1>6
<1>9. b \in Digits => Accumulate(length, b) \in LatestByte
  <2>. DEFINE newLength == 10 * length + DigitValue(b)
  <2>1. b \in Digits /\ newLength <= MaxU32 => newLength \in 0 .. MaxU32
    BY <1>2, MaxU32Assumption DEF Digits, DigitValue
  <2>2. /\ newLength <= MaxU32
           => Accumulate(length, b) = At("Digit", Announce("Sync", newLength))
        /\ ~(newLength <= MaxU32) => Accumulate(length, b) = Other
    BY DEF Accumulate
  <2>. HIDE DEF newLength
  <2>. QED  BY <2>1, <2>2, <1>3, <1>4, <1>5, <1>6, <1>7
<1>10. \/ NextByte(s, b) \in
            {Other, CrAfter(s), At("OpeningBracket", NoAnnouncement),
             At("ClosingBracket", s.announcement),
             At("Plus", Announce("NonSync", length))}
       \/ /\ b \in Digits
          /\ NextByte(s, b) \in {At("Digit", Announce("Sync", DigitValue(b))),
                                 Accumulate(length, b)}
  BY DEF NextByte, length
<1>. QED  BY <1>7, <1>8, <1>9, <1>10, Zenon

\* The recursive function of Scan exists: its values obey its definition.
LEMMA ScanEquations ==
  ASSUME NEW s, NEW bytes \in Seq(Byte)
  PROVE  /\ Scan(s, bytes)[0] = s
         /\ \A i \in 1 .. Len(bytes) :
              Scan(s, bytes)[i] = NextByte(Scan(s, bytes)[i-1], bytes[i])
<1>. DEFINE n == Len(bytes)
            Is(f, k) == f = [i \in 0 .. k |-> IF i = 0 THEN s
                                             ELSE NextByte(f[i-1], bytes[i])]
            Bad == {k \in 0 .. n : ~ \E f : Is(f, k)}
<1>1. n \in Nat
  BY LenProperties
<1>2. Bad = {}
  <2>1. SUFFICES ASSUME Bad # {} PROVE FALSE
    OBVIOUS
  <2>2. PICK m \in Bad : \A k \in Bad : m <= k
    <3>1. Bad \subseteq Nat  BY <1>1
    <3>. HIDE DEF Bad
    <3>. QED  BY <3>1, <2>1, LeastNumber
  <2>3. m # 0
    <3>. DEFINE f0 == [i \in 0 .. 0 |-> s]
    <3>1. f0 = [i \in 0 .. 0 |-> IF i = 0 THEN s ELSE NextByte(f0[i-1], bytes[i])]
      <4>1. \A i \in 0 .. 0 : i = 0  OBVIOUS
      <4>. QED  BY <4>1
    <3>. QED  BY <3>1
  <2>4. m - 1 \in 0 .. n /\ m - 1 \notin Bad /\ m \in Nat /\ m > 0
    <3>1. m \in 0 .. n /\ m - 1 \in 0 .. n /\ ~(m <= m - 1) /\ m \in Nat /\ m > 0
      BY <2>2, <2>3, <1>1
    <3>. HIDE DEF Bad
    <3>. QED  BY <3>1, <2>2
  <2>5. PICK g : Is(g, m - 1)
    BY <2>4
  <2>. DEFINE f == [i \in 0 .. m |-> IF i = m THEN NextByte(g[m-1], bytes[m])
                                    ELSE g[i]]
  <2>6. ASSUME NEW i \in 0 .. m
        PROVE  f[i] = IF i = 0 THEN s ELSE NextByte(f[i-1], bytes[i])
    <3>1. CASE i = m
      <4>1. f[i] = NextByte(g[m-1], bytes[m])  BY <3>1
      <4>2. f[i-1] = g[m-1]  BY <3>1, <2>4
      <4>. QED  BY <4>1, <4>2, <3>1, <2>4
    <3>2. CASE i # m
      <4>1. i \in 0 .. m - 1 /\ (i # 0 => i - 1 \in 0 .. m /\ i - 1 # m)
        BY <3>2, <2>4
      <4>2. f[i] = g[i] /\ (i # 0 => f[i-1] = g[i-1])  BY <4>1, <3>2
      <4>3. g[i] = IF i = 0 THEN s ELSE NextByte(g[i-1], bytes[i])
        BY <2>5, <4>1
      <4>. HIDE DEF f
      <4>. QED  BY <4>2, <4>3
    <3>. QED  BY <3>1, <3>2
  <2>7. Is(f, m)
    <3>1. f = [i \in 0 .. m |-> f[i]]  OBVIOUS
    <3>. HIDE DEF f
    <3>. QED  BY <3>1, <2>6
  <2>. QED  BY <2>2, <2>7
<1>3. \E f : Is(f, n)
  BY <1>1, <1>2
<1>4. Is(Scan(s, bytes), n)
  <2>1. Scan(s, bytes) = CHOOSE f : Is(f, n)
    BY DEF Scan
  <2>. HIDE DEF Is
  <2>. QED  BY <2>1, <1>3
<1>5. 0 \in 0 .. n /\ \A i \in 1 .. n : i \in 0 .. n /\ i # 0
  BY <1>1
<1>. QED  BY <1>4, <1>5

\* Reading bytes leads from states of the line parser to such states.
LEMMA ScanType ==
  ASSUME NEW s \in LatestByte, NEW bytes \in Seq(Byte), NEW i \in 0 .. Len(bytes)
  PROVE  Scan(s, bytes)[i] \in LatestByte
<1>. DEFINE Bad == {k \in 0 .. Len(bytes) : Scan(s, bytes)[k] \notin LatestByte}
<1>1. Len(bytes) \in Nat
  BY LenProperties
<1>2. ASSUME Bad # {} PROVE FALSE
  <2>1. PICK m \in Bad : \A k \in Bad : m <= k
    <3>1. Bad \subseteq Nat  BY <1>1
    <3>. HIDE DEF Bad
    <3>. QED  BY <3>1, <1>2, LeastNumber
  <2>2. m # 0
    BY <2>1, ScanEquations
  <2>3. m \in 1 .. Len(bytes) /\ m - 1 \in 0 .. Len(bytes) /\ m - 1 \notin Bad
    BY <2>1, <2>2, <1>1
  <2>4. Scan(s, bytes)[m] = NextByte(Scan(s, bytes)[m-1], bytes[m])
    BY <2>3, ScanEquations
  <2>5. bytes[m] \in Byte
    BY <2>3, ElementOfSeq
  <2>6. Scan(s, bytes)[m-1] \in LatestByte
    BY <2>3
  <2>. QED  BY <2>1, <2>4, <2>5, <2>6, NextByteType
<1>. QED  BY <1>2

\* FirstLf is the position of the first LF.
LEMMA FirstLfProperties ==
  ASSUME NEW bytes \in Seq(Byte), HasLf(bytes)
  PROVE  /\ FirstLf(bytes) \in 1 .. Len(bytes)
         /\ bytes[FirstLf(bytes)] = LF
         /\ \A j \in 1 .. Len(bytes) : bytes[j] = LF => FirstLf(bytes) <= j
<1>. DEFINE T == {i \in DOMAIN bytes : bytes[i] = LF}
<1>1. DOMAIN bytes = 1 .. Len(bytes) /\ Len(bytes) \in Nat
  BY LenProperties
<1>2. T \subseteq Nat /\ T # {}
  BY <1>1 DEF HasLf
<1>3. \E m \in T : \A k \in T : m <= k
  <2>. HIDE DEF T
  <2>. QED  BY <1>2, LeastNumber
<1>4. \E i \in DOMAIN bytes :
        bytes[i] = LF /\ \A j \in DOMAIN bytes : bytes[j] = LF => i <= j
  BY <1>3
<1>5. /\ FirstLf(bytes) \in DOMAIN bytes /\ bytes[FirstLf(bytes)] = LF
      /\ \A j \in DOMAIN bytes : bytes[j] = LF => FirstLf(bytes) <= j
  BY <1>4 DEF FirstLf
<1>. QED  BY <1>1, <1>5

-----------------------------------------------------------------------------
(* Type correctness.                                                       *)

LEMMA ParserTypes ==
  /\ \A start, end \in Nat, s \in LatestByte : LineParser(start, end, s) \in Parser
  /\ \A start, end \in Nat, r \in 0 .. MaxU32 : LiteralParser(start, end, r) \in Parser
  /\ Other \in LatestByte
  /\ NoParser \in Parser
<1>1. Other \in LatestByte
  BY DEF Other, At, LatestByte, States, MaybeAnnouncement
<1>. QED  BY <1>1 DEF LineParser, LiteralParser, Parser

\* A parser that is not None is a line or a literal parser.
LEMMA ParserCases ==
  ASSUME NEW p \in Parser, p # NoParser
  PROVE  \/ /\ p.kind = "Line" /\ p.start \in Nat /\ p.end \in Nat
            /\ p.latest_byte \in LatestByte
         \/ /\ p.kind = "Literal" /\ p.start \in Nat /\ p.end \in Nat
            /\ p.remaining \in 0 .. MaxU32
BY DEF Parser, NoParser

LEMMA AnnouncementTypes ==
  ASSUME NEW s \in LatestByte
  PROVE  AnnouncementAt(s) \in MaybeAnnouncement /\ EndingAt(s) \in {"Lf", "CrLf"}
BY DEF AnnouncementAt, EndingAt, LatestByte, MaybeAnnouncement

LEMMA InfoTypes ==
  /\ \A start, end \in Nat, a \in MaybeAnnouncement, e \in {"Lf", "CrLf"} :
       LineInfo(start, end, a, e) \in FragmentInfo
  /\ \A start, end \in Nat : LiteralInfo(start, end) \in FragmentInfo
BY DEF LineInfo, LiteralInfo, FragmentInfo

LEMMA ParserAfterType ==
  ASSUME NEW f \in FragmentInfo
  PROVE  ParserAfter(f) \in Parser
<1>1. CASE f.kind = "Literal"
  <2>1. f.end \in Nat  BY DEF FragmentInfo
  <2>. QED  BY <1>1, <2>1, ParserTypes DEF ParserAfter, NewLineParser
<1>2. CASE f.kind # "Literal"
  <2>1. f.kind = "Line" /\ f.end \in Nat /\ f.announcement \in MaybeAnnouncement
    BY <1>2 DEF FragmentInfo
  <2>2. CASE f.announcement = NoAnnouncement
    BY <2>1, <2>2, ParserTypes DEF ParserAfter
  <2>3. CASE f.announcement # NoAnnouncement
    <3>1. f.announcement.length \in 0 .. MaxU32
      BY <2>1, <2>3 DEF MaybeAnnouncement, Announcement
    <3>2. ParserAfter(f) = NewLiteralParser(f.end, f.announcement.length)
      BY <2>1, <2>3 DEF ParserAfter
    <3>. QED  BY <2>1, <3>1, <3>2, ParserTypes DEF NewLiteralParser
  <2>. QED  BY <2>2, <2>3
<1>. QED  BY <1>1, <1>2

\* The parser that progress uses, and what it keeps of the current message.
LEMMA CurTypes ==
  ASSUME TypeOK
  PROVE  /\ CurParser \in Parser /\ CurParser # NoParser
         /\ Cur(parsed, <<>>) \in Seq(Byte)
         /\ Cur(message_buffer, <<>>) \in Seq(Byte)
         /\ Cur(fragments, <<>>) \in Seq(FragmentInfo)
<1>1. <<>> \in Seq(Byte) /\ <<>> \in Seq(FragmentInfo)
  BY EmptySeq
<1>2. NewLineParser(0) \in Parser
  BY ParserTypes DEF NewLineParser
<1>3. NewLineParser(0) # NoParser
  BY DEF NewLineParser, LineParser, NoParser
<1>. QED  BY <1>1, <1>2, <1>3 DEF TypeOK, CurParser, Cur, IsMessageComplete

\* Dequeuing parsed bytes keeps the types of what it changes.
LEMMA DequeueTypes ==
  ASSUME TypeOK, NEW n \in 0 .. Len(unparsed_buffer), DequeueParsedBytes(n)
  PROVE  /\ unparsed_buffer' \in Seq(Byte)
         /\ max_message_size' \in MaybeLimit
         /\ max_message_size_exceeded' \in BOOLEAN
         /\ message_poisoned' \in BOOLEAN
         /\ message_buffer' \in Seq(Byte)
         /\ parsed' \in Seq(Byte)
<1>. DEFINE kept == Room(Cur(message_buffer, <<>>), n)
<1>1. unparsed_buffer \in Seq(Byte) /\ max_message_size \in MaybeLimit
  BY DEF TypeOK
<1>2. SubSeq(unparsed_buffer, 1, n) \in Seq(Byte)
  BY <1>1, PrefixProperties
<1>3. SubSeq(unparsed_buffer, n + 1, Len(unparsed_buffer)) \in Seq(Byte)
  BY <1>1, SuffixProperties
<1>4. Len(unparsed_buffer) \in Nat /\ Len(Cur(message_buffer, <<>>)) \in Nat
  BY <1>1, CurTypes, LenProperties
<1>5. kept \in Int /\ kept <= n
  BY <1>1, <1>4 DEF Room, Least, MaybeLimit, NoLimit
<1>6. SubSeq(unparsed_buffer, 1, kept) \in Seq(Byte)
  <2>. HIDE DEF kept
  <2>1. \A i \in 1 .. kept : unparsed_buffer[i] \in Byte
    BY <1>1, <1>4, <1>5, ElementOfSeq
  <2>. QED  BY <2>1, <1>5, SubSeqProperties
<1>7. message_buffer' \in Seq(Byte)
  BY <1>6, CurTypes, ConcatProperties DEF DequeueParsedBytes
<1>8. parsed' \in Seq(Byte)
  BY <1>2, CurTypes, ConcatProperties DEF DequeueParsedBytes
<1>9. /\ max_message_size_exceeded' \in BOOLEAN
      /\ message_poisoned' \in BOOLEAN
  BY Zenon DEF TypeOK, DequeueParsedBytes, Cur
<1>. QED  BY <1>1, <1>3, <1>7, <1>8, <1>9 DEF DequeueParsedBytes

-----------------------------------------------------------------------------
(* What a call of progress does, whichever parser it runs.                 *)

\* All n enqueued bytes were parsed and the fragment goes on.
Continues(p, n) ==
  /\ n = Len(unparsed_buffer)
  /\ ReturnNone(p)
  /\ p.kind = CurParser.kind
  /\ p.start = CurParser.start /\ p.end = CurParser.end + n
  /\ CurParser.kind = "Line" => ~HasLf(unparsed_buffer)
  /\ CurParser.kind = "Literal" =>
        p.remaining = CurParser.remaining - n /\ p.remaining > 0

\* The fragment f ends with the n-th enqueued byte.
Finishes(f, n) ==
  /\ ReturnFragment(f)
  /\ f.kind = CurParser.kind
  /\ f.start = CurParser.start /\ f.end = CurParser.end + n
  /\ CurParser.kind = "Literal" => n = CurParser.remaining

LEMMA ProgressStep ==
  ASSUME TypeOK, Progress
  PROVE  \E n \in 0 .. Len(unparsed_buffer) :
           /\ DequeueParsedBytes(n)
           /\ \/ \E p \in Parser \ {NoParser} : Continues(p, n)
              \/ \E f \in FragmentInfo : Finishes(f, n)
<1>. DEFINE u == unparsed_buffer
            c == CurParser
<1>1. u \in Seq(Byte) /\ Len(u) \in Nat
  BY LenProperties DEF TypeOK
<1>2. c \in Parser /\ c # NoParser
  BY CurTypes
<1>3. c.kind = "Line" => c.start \in Nat /\ c.end \in Nat /\ c.latest_byte \in LatestByte
  BY <1>2, ParserCases
<1>4. c.kind = "Literal" => c.start \in Nat /\ c.end \in Nat /\ c.remaining \in 0 .. MaxU32
  BY <1>2, ParserCases
<1>5. CASE ProgressPartialLine
  <2>. DEFINE n == Len(u)
              p == LineParser(c.start, c.end + n, Scan(c.latest_byte, u)[n])
  <2>1. c.kind = "Line" /\ ~HasLf(u) /\ DequeueParsedBytes(n) /\ ReturnNone(p)
    BY <1>5 DEF ProgressPartialLine
  <2>2. n \in 0 .. Len(u)  BY <1>1
  <2>3. Scan(c.latest_byte, u)[n] \in LatestByte
    BY <1>1, <1>3, <2>1, <2>2, ScanType
  <2>4. p \in Parser
    BY <1>1, <1>3, <2>1, <2>3, ParserTypes
  <2>5. p.kind = "Line" /\ p.start = c.start /\ p.end = c.end + n /\ p # NoParser
    BY DEF LineParser, NoParser
  <2>6. Continues(p, n)
    <3>. HIDE DEF p
    <3>. QED  BY <2>1, <2>5 DEF Continues
  <2>. HIDE DEF p
  <2>. QED  BY <2>1, <2>2, <2>4, <2>5, <2>6
<1>6. CASE ProgressLine
  <2>. DEFINE n == FirstLf(u)
              s == Scan(c.latest_byte, u)[n-1]
              f == LineInfo(c.start, c.end + n, AnnouncementAt(s), EndingAt(s))
  <2>1. c.kind = "Line" /\ HasLf(u) /\ DequeueParsedBytes(n) /\ ReturnFragment(f)
    BY <1>6 DEF ProgressLine
  <2>2. n \in 1 .. Len(u)
    BY <1>1, <2>1, FirstLfProperties
  <2>3. n \in 0 .. Len(u) /\ n - 1 \in 0 .. Len(u)
    <3>. HIDE DEF n
    <3>. QED  BY <1>1, <2>2
  <2>4. s \in LatestByte
    BY <1>1, <1>3, <2>1, <2>3, ScanType
  <2>5. f \in FragmentInfo
    <3>. HIDE DEF s, n
    <3>. QED  BY <1>1, <1>3, <2>1, <2>3, <2>4, AnnouncementTypes, InfoTypes
  <2>6. f.kind = "Line" /\ f.start = c.start /\ f.end = c.end + n
    BY DEF LineInfo
  <2>7. Finishes(f, n)
    <3>. HIDE DEF f, n
    <3>. QED  BY <2>1, <2>6 DEF Finishes
  <2>. HIDE DEF f, n
  <2>. QED  BY <2>1, <2>3, <2>5, <2>7
<1>7. CASE ProgressPartialLiteral
  <2>. DEFINE n == Len(u)
              p == LiteralParser(c.start, c.end + n, c.remaining - n)
  <2>1. /\ c.kind = "Literal" /\ n < c.remaining
        /\ DequeueParsedBytes(n) /\ ReturnNone(p)
    BY <1>7 DEF ProgressPartialLiteral
  <2>2. n \in 0 .. Len(u)  BY <1>1
  <2>3. c.remaining - n \in 0 .. MaxU32 /\ c.remaining - n > 0
    BY <1>1, <1>4, <2>1, MaxU32Assumption
  <2>4. p \in Parser
    BY <1>1, <1>4, <2>1, <2>3, ParserTypes
  <2>5. /\ p.kind = "Literal" /\ p.start = c.start /\ p.end = c.end + n
        /\ p.remaining = c.remaining - n /\ p # NoParser
    BY DEF LiteralParser, NoParser
  <2>6. Continues(p, n)
    <3>. HIDE DEF p
    <3>. QED  BY <2>1, <2>3, <2>5 DEF Continues
  <2>. HIDE DEF p
  <2>. QED  BY <2>1, <2>2, <2>4, <2>5, <2>6
<1>8. CASE ProgressLiteral
  <2>. DEFINE n == c.remaining
              f == LiteralInfo(c.start, c.end + n)
  <2>1. /\ c.kind = "Literal" /\ Len(u) >= n
        /\ DequeueParsedBytes(n) /\ ReturnFragment(f)
    BY <1>8 DEF ProgressLiteral
  <2>2. n \in 0 .. Len(u)
    BY <1>1, <1>4, <2>1, MaxU32Assumption
  <2>3. f \in FragmentInfo
    <3>. HIDE DEF n
    <3>. QED  BY <1>1, <1>4, <2>1, <2>2, InfoTypes
  <2>4. f.kind = "Literal" /\ f.start = c.start /\ f.end = c.end + n
    BY DEF LiteralInfo
  <2>5. Finishes(f, n)
    <3>. HIDE DEF f
    <3>. QED  BY <2>1, <2>4 DEF Finishes
  <2>. HIDE DEF f
  <2>. QED  BY <2>1, <2>2, <2>3, <2>5
<1>. QED  BY <1>5, <1>6, <1>7, <1>8 DEF Progress

LEMMA InitTypes == Init => TypeOK
<1>1. <<>> \in Seq(Byte) /\ <<>> \in Seq(FragmentInfo)
  BY EmptySeq
<1>. QED  BY <1>1, ParserTypes, FragmentizerAssumption
          DEF Init, TypeOK, NewLineParser

LEMMA NextTypes == TypeOK /\ [Next]_vars => TypeOK'
<1>. SUFFICES ASSUME TypeOK, [Next]_vars PROVE TypeOK'
  OBVIOUS
<1>1. CASE Enqueue
  <2>1. PICK bytes \in Chunks : EnqueueBytes(bytes)
    BY <1>1 DEF Enqueue
  <2>2. bytes \in Seq(Byte)
    BY FragmentizerAssumption
  <2>3. unparsed_buffer' \in Seq(Byte)
    BY <2>1, <2>2, ConcatProperties DEF TypeOK, EnqueueBytes
  <2>. QED  BY <2>1, <2>3 DEF TypeOK, EnqueueBytes
<1>2. CASE Progress
  <2>1. PICK n \in 0 .. Len(unparsed_buffer) :
          /\ DequeueParsedBytes(n)
          /\ \/ \E p \in Parser \ {NoParser} : Continues(p, n)
             \/ \E f \in FragmentInfo : Finishes(f, n)
    BY <1>2, ProgressStep
  <2>2. parser' \in Parser /\ fragments' \in Seq(FragmentInfo)
    <3>1. ASSUME NEW p \in Parser \ {NoParser}, Continues(p, n)
          PROVE  parser' \in Parser /\ fragments' \in Seq(FragmentInfo)
      BY <3>1, CurTypes DEF Continues, ReturnNone
    <3>2. ASSUME NEW f \in FragmentInfo, Finishes(f, n)
          PROVE  parser' \in Parser /\ fragments' \in Seq(FragmentInfo)
      BY <3>2, CurTypes, ParserAfterType, AppendProperties
      DEF Finishes, ReturnFragment
    <3>. QED  BY <2>1, <3>1, <3>2
  <2>. QED  BY <2>1, <2>2, DequeueTypes DEF TypeOK
<1>3. CASE SkipMessage
  <2>1. <<>> \in Seq(Byte) /\ <<>> \in Seq(FragmentInfo)
    BY EmptySeq
  <2>. QED  BY <1>3, <2>1, ParserTypes DEF SkipMessage, TypeOK, NewLineParser
<1>4. CASE PoisonMessage
  BY <1>4 DEF PoisonMessage, TypeOK
<1>5. CASE UNCHANGED vars
  BY <1>5 DEF vars, TypeOK
<1>. QED  BY <1>1, <1>2, <1>3, <1>4, <1>5 DEF Next

\* Every variable of the fragmentizer has its type in every reachable state;
\* in particular lengths stay within u32 (length.checked_mul, checked_add)
\* and the rest of a literal never underflows (remaining -= parsed).
THEOREM TypeCorrect == Spec => []TypeOK
BY InitTypes, NextTypes, PTL DEF Spec

-----------------------------------------------------------------------------
(* The message buffer.                                                     *)

\* What the limit admits of a message that grows.
LEMMA AdmittedGrows ==
  ASSUME NEW limit \in MaybeLimit, NEW a \in Nat, NEW n \in Nat
  PROVE  LET k == Admitted(limit, a)
             j == IF limit = NoLimit THEN n ELSE Least(limit - k, n)
         IN  /\ k \in 0 .. a /\ j \in 0 .. n
             /\ k < a => j = 0
             /\ Admitted(limit, a + n) = k + j
             /\ (k < a \/ j < n) <=> k + j < a + n
<1>1. CASE limit = NoLimit
  BY <1>1 DEF Admitted
<1>2. CASE limit # NoLimit
  <2>1. limit \in Nat  BY <1>2 DEF MaybeLimit
  <2>2. CASE limit <= a
    BY <1>2, <2>1, <2>2 DEF Admitted, Least
  <2>3. CASE limit > a
    BY <1>2, <2>1, <2>3 DEF Admitted, Least
  <2>. QED  BY <2>1, <2>2, <2>3
<1>. QED  BY <1>1, <1>2

\* BufferHoldsMessage also holds of the message progress works on, which is
\* empty when the previous one was complete.
LEMMA CurBuffer ==
  ASSUME TypeOK, BufferHoldsMessage
  PROVE  LET k == Admitted(max_message_size, Len(Cur(parsed, <<>>)))
         IN  /\ Cur(message_buffer, <<>>) = SubSeq(Cur(parsed, <<>>), 1, k)
             /\ Cur(max_message_size_exceeded, FALSE) <=> k < Len(Cur(parsed, <<>>))
<1>1. CASE IsMessageComplete
  <2>1. Cur(parsed, <<>>) = <<>> /\ Len(<<>>) = 0  BY <1>1, EmptySeq DEF Cur
  <2>2. Admitted(max_message_size, 0) = 0
    BY DEF Admitted, Least, MaybeLimit, NoLimit, TypeOK
  <2>3. SubSeq(<<>>, 1, 0) = <<>>  BY SubSeqEmpty
  <2>4. /\ Cur(message_buffer, <<>>) = <<>>
        /\ Cur(max_message_size_exceeded, FALSE) = FALSE
    BY <1>1 DEF Cur
  <2>5. ~(0 < 0)  OBVIOUS
  <2>. QED  BY <2>1, <2>2, <2>3, <2>4, <2>5, Zenon
<1>2. CASE ~IsMessageComplete
  BY <1>2, Zenon DEF Cur, BufferHoldsMessage
<1>. QED  BY <1>1, <1>2

LEMMA DequeueKeepsBuffer ==
  ASSUME TypeOK, BufferHoldsMessage,
         NEW n \in 0 .. Len(unparsed_buffer), DequeueParsedBytes(n)
  PROVE  BufferHoldsMessage'
<1>. DEFINE P == Cur(parsed, <<>>)
            M == Cur(message_buffer, <<>>)
            X == Cur(max_message_size_exceeded, FALSE)
            u == unparsed_buffer
            k == Admitted(max_message_size, Len(P))
            j == Room(M, n)
<1>1. P \in Seq(Byte) /\ Len(P) \in Nat /\ u \in Seq(Byte) /\ Len(u) \in Nat
  BY CurTypes, LenProperties DEF TypeOK
<1>2. M = SubSeq(P, 1, k) /\ (X <=> k < Len(P))
  BY CurBuffer, Zenon
<1>3. max_message_size \in MaybeLimit /\ n \in 0 .. Len(u) /\ n \in Nat
  BY <1>1 DEF TypeOK
<1>4. /\ message_buffer' = M \o SubSeq(u, 1, j)
      /\ max_message_size_exceeded' = (X \/ j < n)
      /\ parsed' = P \o SubSeq(u, 1, n)
      /\ max_message_size' = max_message_size
  BY DEF DequeueParsedBytes
<1>. HIDE DEF P, M, X, u
<1>5. k \in 0 .. Len(P)
  BY <1>1, <1>3, AdmittedGrows
<1>6. Len(M) = k
  <2>. HIDE DEF k
  <2>. QED  BY <1>1, <1>2, <1>5, PrefixProperties
<1>7. j = IF max_message_size = NoLimit THEN n ELSE Least(max_message_size - k, n)
  BY <1>6 DEF Room
<1>8. /\ j \in 0 .. n
      /\ k < Len(P) => j = 0
      /\ Admitted(max_message_size, Len(P) + n) = k + j
      /\ (k < Len(P) \/ j < n) <=> k + j < Len(P) + n
  <2>. HIDE DEF j
  <2>. QED  BY <1>1, <1>3, <1>7, AdmittedGrows
<1>. HIDE DEF k, j
<1>9. M \o SubSeq(u, 1, j) = SubSeq(P \o SubSeq(u, 1, n), 1, k + j)
  BY <1>1, <1>2, <1>3, <1>5, <1>8, KeepPrefix
<1>10. Len(parsed') = Len(P) + n
  <2>1. SubSeq(u, 1, n) \in Seq(Byte) /\ Len(SubSeq(u, 1, n)) = n
    BY <1>1, <1>3, PrefixProperties
  <2>. QED  BY <1>1, <1>4, <2>1, ConcatProperties
<1>11. Admitted(max_message_size', Len(parsed')) = k + j
  BY <1>4, <1>8, <1>10
<1>12. message_buffer' = SubSeq(parsed', 1, k + j)
  BY <1>4, <1>9
<1>13. max_message_size_exceeded' <=> k + j < Len(parsed')
  BY <1>2, <1>4, <1>8, <1>10, Zenon
<1>. QED  BY <1>11, <1>12, <1>13, Zenon DEF BufferHoldsMessage

LEMMA NextKeepsBuffer ==
  TypeOK /\ BufferHoldsMessage /\ [Next]_vars => BufferHoldsMessage'
<1>. SUFFICES ASSUME TypeOK, BufferHoldsMessage, [Next]_vars
              PROVE  BufferHoldsMessage'
  OBVIOUS
<1>1. CASE Enqueue
  <2>1. /\ message_buffer' = message_buffer /\ parsed' = parsed
        /\ max_message_size' = max_message_size
        /\ max_message_size_exceeded' = max_message_size_exceeded
    BY <1>1 DEF Enqueue, EnqueueBytes
  <2>. QED  BY <2>1, Zenon DEF BufferHoldsMessage
<1>2. CASE Progress
  BY <1>2, ProgressStep, DequeueKeepsBuffer
<1>3. CASE SkipMessage
  <2>1. /\ message_buffer' = <<>> /\ parsed' = <<>>
        /\ max_message_size_exceeded' = FALSE /\ max_message_size' \in MaybeLimit
    BY <1>3 DEF SkipMessage, TypeOK
  <2>2. SubSeq(<<>>, 1, 0) = <<>> /\ Len(<<>>) = 0
    BY SubSeqEmpty, EmptySeq
  <2>3. Admitted(max_message_size', 0) = 0
    BY <2>1 DEF Admitted, Least, MaybeLimit, NoLimit
  <2>4. ~(0 < 0)  OBVIOUS
  <2>. QED  BY <2>1, <2>2, <2>3, <2>4, Zenon DEF BufferHoldsMessage
<1>4. CASE PoisonMessage
  BY <1>4, Zenon DEF PoisonMessage, BufferHoldsMessage
<1>5. CASE UNCHANGED vars
  BY <1>5, Zenon DEF vars, BufferHoldsMessage
<1>. QED  BY <1>1, <1>2, <1>3, <1>4, <1>5, Zenon DEF Next

LEMMA InitBuffer == Init => BufferHoldsMessage
<1>1. SUFFICES ASSUME Init PROVE BufferHoldsMessage
  OBVIOUS
<1>2. max_message_size \in MaybeLimit
  BY <1>1, FragmentizerAssumption DEF Init
<1>3. SubSeq(<<>>, 1, 0) = <<>> /\ Len(<<>>) = 0
  BY SubSeqEmpty, EmptySeq
<1>4. Admitted(max_message_size, 0) = 0
  BY <1>2 DEF Admitted, Least, MaybeLimit, NoLimit
<1>5. ~(0 < 0)  OBVIOUS
<1>. QED  BY <1>1, <1>3, <1>4, <1>5, Zenon DEF Init, BufferHoldsMessage

\* Whatever the limit, the reads and the fragments, the message buffer holds
\* the longest admitted prefix of the message, and the flag that makes
\* decode_message fail is set exactly when bytes are missing.
THEOREM BufferCorrect == Spec => []BufferHoldsMessage
BY InitBuffer, NextKeepsBuffer, TypeCorrect, PTL DEF Spec

-----------------------------------------------------------------------------
(* The fragments.                                                          *)

\* The fragments of the message progress works on, and its parser, satisfy
\* both invariants about fragments; they are empty when it is a new message.
LEMMA CurFragments ==
  ASSUME TypeOK, FragmentsTileMessage, LiteralsAsAnnounced,
         NEW fs, fs = Cur(fragments, <<>>), NEW c, c = CurParser
  PROVE  /\ fs \in Seq(FragmentInfo)
         /\ c.start = LastEnd(fs) /\ c.end = Len(Cur(parsed, <<>>))
         /\ c.start <= c.end
         /\ Tiles(fs) /\ FollowsAnnouncements(fs)
         /\ LastAnnounced(fs) \in MaybeAnnouncement
         /\ IF LastAnnounced(fs) = NoAnnouncement
            THEN c.kind = "Line" /\ ~EndsWithLine(fs)
            ELSE /\ c.kind = "Literal"
                 /\ c.remaining = LastAnnounced(fs).length - (c.end - c.start)
<1>1. fs \in Seq(FragmentInfo) /\ c \in Parser /\ c # NoParser
  BY CurTypes
<1>2. LastAnnounced(fs) \in MaybeAnnouncement
  <2>1. CASE fs = <<>>
    BY <2>1 DEF LastAnnounced, MaybeAnnouncement
  <2>2. CASE fs # <<>>
    <3>1. fs[Len(fs)] \in FragmentInfo
      BY <1>1, <2>2, EmptySeq, ElementOfSeq
    <3>. QED  BY <2>2, <3>1
              DEF LastAnnounced, AnnouncementOf, FragmentInfo, MaybeAnnouncement
  <2>. QED  BY <2>1, <2>2
<1>3. CASE IsMessageComplete
  <2>1. fs = <<>> /\ DOMAIN fs = {} /\ Cur(parsed, <<>>) = <<>> /\ Len(<<>>) = 0
    BY <1>3, EmptySeq DEF Cur
  <2>2. c.kind = "Line" /\ c.start = 0 /\ c.end = 0
    BY <1>3 DEF CurParser, NewLineParser, LineParser
  <2>3. /\ LastEnd(fs) = 0 /\ LastAnnounced(fs) = NoAnnouncement
        /\ Tiles(fs) /\ FollowsAnnouncements(fs) /\ ~EndsWithLine(fs)
    BY <2>1 DEF LastEnd, LastAnnounced, Tiles, FollowsAnnouncements, EndsWithLine
  <2>. QED  BY <1>1, <1>2, <2>1, <2>2, <2>3
<1>4. CASE ~IsMessageComplete
  <2>1. fs = fragments /\ c = parser /\ Cur(parsed, <<>>) = parsed
    BY <1>4 DEF Cur, CurParser
  <2>2. c.kind # "None"
    BY <1>1, ParserCases
  <2>3. c.start = LastEnd(fs) /\ c.end = Len(parsed) /\ c.start <= c.end /\ Tiles(fs)
    BY <1>4, <2>1 DEF FragmentsTileMessage
  <2>4. /\ FollowsAnnouncements(fs)
        /\ IF LastAnnounced(fs) = NoAnnouncement
           THEN c.kind = "Line" /\ ~EndsWithLine(fs)
           ELSE /\ c.kind = "Literal"
                /\ c.remaining = LastAnnounced(fs).length - (c.end - c.start)
    BY <2>1, <2>2 DEF LiteralsAsAnnounced
  <2>. QED  BY <1>1, <1>2, <2>1, <2>3, <2>4
<1>. QED  BY <1>3, <1>4, Zenon

\* The message after n more bytes.
LEMMA ParsedGrows ==
  ASSUME TypeOK, NEW n \in 0 .. Len(unparsed_buffer), DequeueParsedBytes(n)
  PROVE  /\ Len(Cur(parsed, <<>>)) \in Nat
         /\ Len(parsed') = Len(Cur(parsed, <<>>)) + n
<1>1. unparsed_buffer \in Seq(Byte) /\ Cur(parsed, <<>>) \in Seq(Byte)
  BY CurTypes DEF TypeOK
<1>2. /\ SubSeq(unparsed_buffer, 1, n) \in Seq(Byte)
      /\ Len(SubSeq(unparsed_buffer, 1, n)) = n
  BY <1>1, PrefixProperties
<1>3. parsed' = Cur(parsed, <<>>) \o SubSeq(unparsed_buffer, 1, n)
  BY DEF DequeueParsedBytes
<1>. QED  BY <1>1, <1>2, <1>3, ConcatProperties, LenProperties

\* A call of progress that finds no fragment.
LEMMA ContinueKeepsFragments ==
  ASSUME TypeOK, FragmentsTileMessage, LiteralsAsAnnounced,
         NEW n \in 0 .. Len(unparsed_buffer), DequeueParsedBytes(n),
         NEW p \in Parser \ {NoParser}, Continues(p, n)
  PROVE  FragmentsTileMessage' /\ LiteralsAsAnnounced'
<1>. DEFINE fs == Cur(fragments, <<>>)
            c == CurParser
<1>1. fragments' = fs /\ parser' = p /\ p # NoParser
  BY DEF Continues, ReturnNone
<1>2. /\ p.kind = c.kind /\ p.start = c.start /\ p.end = c.end + n
      /\ c.kind = "Literal" => p.remaining = c.remaining - n
  BY DEF Continues
<1>3. /\ c.start = LastEnd(fs) /\ c.end = Len(Cur(parsed, <<>>))
      /\ c.start <= c.end
      /\ Tiles(fs) /\ FollowsAnnouncements(fs)
      /\ LastAnnounced(fs) \in MaybeAnnouncement
      /\ IF LastAnnounced(fs) = NoAnnouncement
         THEN c.kind = "Line" /\ ~EndsWithLine(fs)
         ELSE /\ c.kind = "Literal"
              /\ c.remaining = LastAnnounced(fs).length - (c.end - c.start)
  BY CurFragments
<1>4. Len(parsed') = Len(Cur(parsed, <<>>)) + n
  BY ParsedGrows
<1>5. c.start \in Nat /\ c.end \in Nat /\ n \in Nat
  BY CurTypes, ParserCases, LenProperties DEF TypeOK
<1>. HIDE DEF fs, c
<1>6. FragmentsTileMessage'
  BY <1>1, <1>2, <1>3, <1>4, <1>5 DEF FragmentsTileMessage, IsMessageComplete
<1>7. LastAnnounced(fs) # NoAnnouncement => LastAnnounced(fs).length \in Nat
  BY <1>3, MaxU32Assumption DEF MaybeAnnouncement, Announcement
<1>8. IF LastAnnounced(fs) = NoAnnouncement
      THEN p.kind = IF EndsWithLine(fs) THEN "None" ELSE "Line"
      ELSE /\ p.kind = "Literal"
           /\ p.remaining = LastAnnounced(fs).length - (p.end - p.start)
  BY <1>2, <1>3, <1>5, <1>7
<1>. QED  BY <1>1, <1>3, <1>6, <1>8 DEF LiteralsAsAnnounced

\* A call of progress that finds a fragment.
LEMMA FinishKeepsFragments ==
  ASSUME TypeOK, FragmentsTileMessage, LiteralsAsAnnounced,
         NEW n \in 0 .. Len(unparsed_buffer), DequeueParsedBytes(n),
         NEW f \in FragmentInfo, Finishes(f, n)
  PROVE  FragmentsTileMessage' /\ LiteralsAsAnnounced'
<1>. DEFINE fs == Cur(fragments, <<>>)
            gs == Append(fs, f)
            c == CurParser
            a == LastAnnounced(fs)
            b == AnnouncementOf(f)
<1>1. fragments' = gs /\ parser' = ParserAfter(f)
  BY DEF Finishes, ReturnFragment
<1>2. /\ f.kind = c.kind /\ f.start = c.start /\ f.end = c.end + n
      /\ c.kind = "Literal" => n = c.remaining
  BY DEF Finishes
<1>3. /\ fs \in Seq(FragmentInfo)
      /\ c.start = LastEnd(fs) /\ c.end = Len(Cur(parsed, <<>>))
      /\ c.start <= c.end
      /\ Tiles(fs) /\ FollowsAnnouncements(fs)
      /\ a \in MaybeAnnouncement
      /\ IF a = NoAnnouncement
         THEN c.kind = "Line"
         ELSE c.kind = "Literal" /\ c.remaining = a.length - (c.end - c.start)
  BY CurFragments
<1>4. Len(parsed') = Len(Cur(parsed, <<>>)) + n
  BY ParsedGrows
<1>5. c.start \in Nat /\ c.end \in Nat /\ n \in Nat
  BY CurTypes, ParserCases, LenProperties DEF TypeOK
<1>6. n <= n + c.end - c.start /\ c.start <= f.end /\ f.end \in Nat
  BY <1>2, <1>3, <1>5
<1>7. /\ DOMAIN fs = 1 .. Len(fs) /\ Len(fs) \in Nat
      /\ gs \in Seq(FragmentInfo) /\ gs # <<>> /\ Len(gs) = Len(fs) + 1
      /\ DOMAIN gs = 1 .. Len(fs) + 1
      /\ \A i \in 1 .. Len(fs) : gs[i] = fs[i]
      /\ gs[Len(fs) + 1] = f
  BY <1>3, AppendProperties, LenProperties
<1>8. /\ LastEnd(gs) = f.end /\ LastAnnounced(gs) = b
      /\ EndsWithLine(gs) <=> f.kind = "Line"
  <2>. HIDE DEF gs
  <2>. QED  BY <1>7 DEF LastEnd, LastAnnounced, EndsWithLine
<1>9. /\ fs = <<>> <=> Len(fs) = 0
  BY <1>3, EmptySeq
<1>. HIDE DEF fs, gs, c, a, b
<1>10. ASSUME NEW i \in 1 .. Len(fs) + 1
       PROVE  \/ i \in 1 .. Len(fs) /\ gs[i] = fs[i] /\ (i # 1 => gs[i-1] = fs[i-1])
              \/ /\ i = Len(fs) + 1 /\ gs[i] = f
                 /\ i # 1 => fs # <<>> /\ gs[i-1] = fs[Len(fs)]
                 /\ i = 1 => fs = <<>>
  BY <1>7, <1>9
<1>11. Tiles(gs)
  <2>1. SUFFICES ASSUME NEW i \in 1 .. Len(fs) + 1
                 PROVE  /\ gs[i].start = (IF i = 1 THEN 0 ELSE gs[i-1].end)
                        /\ gs[i].start <= gs[i].end
    BY <1>7 DEF Tiles
  <2>2. CASE i \in 1 .. Len(fs) /\ gs[i] = fs[i] /\ (i # 1 => gs[i-1] = fs[i-1])
    BY <2>2, <1>3, <1>7 DEF Tiles
  <2>3. CASE /\ i = Len(fs) + 1 /\ gs[i] = f
             /\ i # 1 => fs # <<>> /\ gs[i-1] = fs[Len(fs)]
             /\ i = 1 => fs = <<>>
    BY <2>3, <1>2, <1>3, <1>6 DEF LastEnd
  <2>. QED  BY <1>10, <2>2, <2>3, Zenon
<1>12. FollowsAnnouncements(gs)
  <2>. DEFINE before(i) == IF i = 1 THEN NoAnnouncement ELSE AnnouncementOf(gs[i-1])
              Ok(i) == IF before(i) = NoAnnouncement THEN gs[i].kind = "Line"
                       ELSE /\ gs[i].kind = "Literal"
                            /\ gs[i].end - gs[i].start = before(i).length
  <2>1. SUFFICES ASSUME NEW i \in 1 .. Len(fs) + 1 PROVE Ok(i)
    BY <1>7 DEF FollowsAnnouncements
  <2>2. CASE i \in 1 .. Len(fs) /\ gs[i] = fs[i] /\ (i # 1 => gs[i-1] = fs[i-1])
    <3>1. /\ FollowsAnnouncements(fs)
          /\ before(i) = (IF i = 1 THEN NoAnnouncement ELSE AnnouncementOf(fs[i-1]))
      BY <2>2, <1>3
    <3>. QED  BY <2>2, <3>1 DEF FollowsAnnouncements
  <2>3. CASE /\ i = Len(fs) + 1 /\ gs[i] = f
             /\ i # 1 => fs # <<>> /\ gs[i-1] = fs[Len(fs)]
             /\ i = 1 => fs = <<>>
    <3>1. before(i) = a
      BY <2>3 DEF LastAnnounced, a
    <3>2. a # NoAnnouncement => a.length \in Nat
      BY <1>3, MaxU32Assumption DEF MaybeAnnouncement, Announcement
    <3>3. f.kind = "Literal" => f.end - f.start = a.length
      BY <1>2, <1>3, <1>5, <3>2
    <3>. QED  BY <2>3, <3>1, <3>3, <1>2, <1>3
  <2>. HIDE DEF Ok
  <2>. QED  BY <1>10, <2>2, <2>3, Zenon
<1>13. CASE b = NoAnnouncement
  <2>1. f.kind = "Line" => parser' = NoParser
    BY <1>1, <1>13 DEF ParserAfter, AnnouncementOf, b
  <2>2. f.kind # "Line" => f.kind = "Literal" /\ parser' = NewLineParser(f.end)
    BY <1>1 DEF ParserAfter, FragmentInfo
  <2>3. parser'.kind = IF f.kind = "Line" THEN "None" ELSE "Line"
    BY <2>1, <2>2 DEF NoParser, NewLineParser, LineParser
  <2>4. LiteralsAsAnnounced'
    BY <1>1, <1>8, <1>12, <1>13, <2>3 DEF LiteralsAsAnnounced
  <2>5. /\ parser' = NoParser => f.kind = "Line"
        /\ f.kind # "Line" => parser'.start = f.end /\ parser'.end = f.end
    BY <2>2 DEF NoParser, NewLineParser, LineParser
  <2>6. FragmentsTileMessage'
    BY <1>1, <1>2, <1>3, <1>4, <1>6, <1>8, <1>11, <2>1, <2>5
    DEF FragmentsTileMessage, IsMessageComplete
  <2>. QED  BY <2>4, <2>6
<1>14. CASE b # NoAnnouncement
  <2>1. f.kind = "Line" /\ b = f.announcement
    BY <1>14 DEF AnnouncementOf, b
  <2>2. parser' = NewLiteralParser(f.end, b.length)
    BY <1>1, <1>14, <2>1 DEF ParserAfter
  <2>3. /\ parser'.kind = "Literal" /\ parser' # NoParser
        /\ parser'.start = f.end /\ parser'.end = f.end
        /\ parser'.remaining = b.length
    BY <2>2 DEF NewLiteralParser, LiteralParser, NoParser
  <2>4. b.length \in Nat
    BY <1>14, <2>1, MaxU32Assumption DEF FragmentInfo, MaybeAnnouncement, Announcement
  <2>5. parser'.remaining = b.length - (parser'.end - parser'.start)
    BY <1>6, <2>3, <2>4
  <2>6. LiteralsAsAnnounced'
    BY <1>1, <1>8, <1>12, <1>14, <2>3, <2>5 DEF LiteralsAsAnnounced
  <2>7. FragmentsTileMessage'
    BY <1>1, <1>2, <1>3, <1>4, <1>6, <1>8, <1>11, <2>3
    DEF FragmentsTileMessage, IsMessageComplete
  <2>. QED  BY <2>6, <2>7
<1>. QED  BY <1>13, <1>14

\* A message that has just begun.
LEMMA FreshFragments ==
  parser = NewLineParser(0) /\ parsed = <<>> /\ fragments = <<>>
    => FragmentsTileMessage /\ LiteralsAsAnnounced
<1>1. Len(<<>>) = 0
  BY EmptySeq
<1>. QED  BY <1>1 DEF FragmentsTileMessage, LiteralsAsAnnounced, IsMessageComplete,
            Tiles, FollowsAnnouncements, EndsWithLine, LastEnd, LastAnnounced,
            NewLineParser, LineParser, NoParser

LEMMA NextKeepsFragments ==
  /\ TypeOK /\ FragmentsTileMessage /\ LiteralsAsAnnounced
  /\ [Next]_vars
  => FragmentsTileMessage' /\ LiteralsAsAnnounced'
<1>. SUFFICES ASSUME TypeOK, FragmentsTileMessage, LiteralsAsAnnounced, [Next]_vars
              PROVE  FragmentsTileMessage' /\ LiteralsAsAnnounced'
  OBVIOUS
<1>1. CASE UNCHANGED <<parser, parsed, fragments>>
  BY <1>1 DEF FragmentsTileMessage, LiteralsAsAnnounced, IsMessageComplete
<1>2. CASE Progress
  BY <1>2, ProgressStep, ContinueKeepsFragments, FinishKeepsFragments
<1>3. CASE SkipMessage
  <2>1. parser' = NewLineParser(0) /\ parsed' = <<>> /\ fragments' = <<>>
    BY <1>3 DEF SkipMessage
  <2>2. Len(<<>>) = 0
    BY EmptySeq
  <2>. QED  BY <2>1, <2>2 DEF FragmentsTileMessage, LiteralsAsAnnounced,
              IsMessageComplete, Tiles, FollowsAnnouncements, EndsWithLine,
              LastEnd, LastAnnounced, NewLineParser, LineParser, NoParser
<1>. QED  BY <1>1, <1>2, <1>3 DEF Next, Enqueue, EnqueueBytes, PoisonMessage, vars

\* Both invariants about fragments.
LEMMA FragmentsCorrect == Spec => [](FragmentsTileMessage /\ LiteralsAsAnnounced)
<1>1. Init => FragmentsTileMessage /\ LiteralsAsAnnounced
  BY FreshFragments DEF Init
<1>. QED  BY <1>1, NextKeepsFragments, TypeCorrect, PTL DEF Spec

\* The fragments of a message follow each other without gap or overlap, and
\* their positions count every byte of the message, dropped or not.
THEOREM FragmentsTile == Spec => []FragmentsTileMessage
BY FragmentsCorrect, PTL

\* Literals are exactly the announced ones, of the announced lengths, and the
\* message is complete exactly after a line that announces nothing.
THEOREM LiteralsCorrect == Spec => []LiteralsAsAnnounced
BY FragmentsCorrect, PTL

-----------------------------------------------------------------------------
(* fragment_bytes                                                          *)

\* A slice of a prefix whose bounds are clamped to the prefix's length is the
\* slice of the whole whose end is clamped.
LEMMA SliceOfPrefix ==
  ASSUME NEW S, NEW p \in Seq(S), NEW k \in 0 .. Len(p),
         NEW a \in Nat, NEW b \in Nat
  PROVE  SubSeq(SubSeq(p, 1, k), Least(a, k) + 1, Least(b, k))
           = SubSeq(p, a + 1, Least(b, k))
<1>. DEFINE q == SubSeq(p, 1, k)
            x == Least(a, k)
            y == Least(b, k)
            l == SubSeq(q, x + 1, y)
            r == SubSeq(p, a + 1, y)
<1>1. q \in Seq(S) /\ Len(q) = k /\ \A i \in 1 .. k : q[i] = p[i]
  BY PrefixProperties
<1>2. Len(p) \in Nat
  BY LenProperties
<1>3. /\ x \in 0 .. k /\ (a <= k => x = a) /\ (a > k => x = k)
      /\ y \in 0 .. k
  BY <1>2 DEF Least
<1>. HIDE DEF q, x, y, l, r
<1>4. ASSUME a >= y PROVE l = r
  <2>1. y < a + 1 /\ y < x + 1 /\ y \in Int /\ x + 1 \in Int /\ a + 1 \in Int
    BY <1>2, <1>3, <1>4
  <2>. QED  BY <2>1, SubSeqEmpty DEF l, r
<1>5. ASSUME a < y PROVE l = r
  <2>1. x = a
    BY <1>2, <1>3, <1>5
  <2>2. \A i \in x + 1 .. y : q[i] = p[i] /\ i \in 1 .. Len(p) /\ i \in 1 .. k
    BY <1>1, <1>2, <1>3
  <2>3. \A i \in x + 1 .. y : p[i] \in S
    BY <2>2, ElementOfSeq
  <2>4. \A i \in x + 1 .. y : q[i] \in S
    BY <2>2, <2>3
  <2>5. /\ l \in Seq(S) /\ Len(l) = IF x + 1 <= y THEN y - (x + 1) + 1 ELSE 0
        /\ \A i \in 1 .. y - (x + 1) + 1 : l[i] = q[x + 1 + i - 1]
    BY <2>4, <1>3, SubSeqProperties DEF l
  <2>6. /\ r \in Seq(S) /\ Len(r) = IF x + 1 <= y THEN y - (x + 1) + 1 ELSE 0
        /\ \A i \in 1 .. y - (x + 1) + 1 : r[i] = p[x + 1 + i - 1]
    BY <2>1, <2>3, <1>3, SubSeqProperties DEF r
  <2>7. \A i \in 1 .. Len(l) : l[i] = r[i]
    BY <2>2, <2>5, <2>6, <1>3
  <2>. QED  BY <2>5, <2>6, <2>7, SeqEqual
<1>6. l = r
  BY <1>2, <1>3, <1>4, <1>5
<1>. QED  BY <1>6 DEF l, r, q, x, y

LEMMA BufferHasFragments ==
  TypeOK /\ BufferHoldsMessage => FragmentBytesAreItsText
<1>. SUFFICES ASSUME TypeOK, BufferHoldsMessage, NEW i \in DOMAIN fragments
              PROVE  FragmentBytes(fragments[i])
                       = SubSeq(parsed, fragments[i].start + 1,
                                Least(fragments[i].end,
                                      Admitted(max_message_size, Len(parsed))))
  BY DEF FragmentBytesAreItsText
<1>. DEFINE f == fragments[i]
            k == Admitted(max_message_size, Len(parsed))
<1>1. f.start \in Nat /\ f.end \in Nat
  <2>1. f \in FragmentInfo
    BY LenProperties, ElementOfSeq DEF TypeOK
  <2>. QED  BY <2>1 DEF FragmentInfo
<1>2. parsed \in Seq(Byte) /\ Len(parsed) \in Nat
  BY LenProperties DEF TypeOK
<1>3. k \in 0 .. Len(parsed)
  BY <1>2, AdmittedGrows DEF TypeOK
<1>4. message_buffer = SubSeq(parsed, 1, k)
  BY DEF BufferHoldsMessage
<1>. HIDE DEF f, k
<1>5. Len(message_buffer) = k
  BY <1>2, <1>3, <1>4, PrefixProperties
<1>6. FragmentBytes(f) = SubSeq(SubSeq(parsed, 1, k), Least(f.start, k) + 1, Least(f.end, k))
  BY <1>4, <1>5 DEF FragmentBytes
<1>7. FragmentBytes(f) = SubSeq(parsed, f.start + 1, Least(f.end, k))
  BY <1>1, <1>2, <1>3, <1>6, SliceOfPrefix
<1>. QED  BY <1>7 DEF f, k

\* fragment_bytes returns, for every fragment of the current message, the
\* bytes of the message that the fragment stands for, up to the limit.
THEOREM FragmentBytesCorrect == Spec => []FragmentBytesAreItsText
BY BufferHasFragments, TypeCorrect, BufferCorrect, PTL

-----------------------------------------------------------------------------
(* decode_message refuses.                                                 *)

\* decode_message refuses because of its flags and never because of them when
\* neither is set.
LEMMA RefusedByFlags ==
  ASSUME TypeOK
  PROVE  Refused <=> max_message_size_exceeded \/ message_poisoned
<1>1. max_message_size_exceeded \in BOOLEAN /\ message_poisoned \in BOOLEAN
  BY DEF TypeOK
<1>2. CASE max_message_size_exceeded
  BY <1>2, Zenon DEF Refused, DecodeMessage
<1>3. CASE ~max_message_size_exceeded /\ message_poisoned
  BY <1>3, Zenon DEF Refused, DecodeMessage
<1>4. CASE ~max_message_size_exceeded /\ ~message_poisoned
  <2>1. DecodeMessage("Ok") = "Ok"
    BY <1>4, Zenon DEF DecodeMessage
  <2>2. "Ok" \notin {"MessageTooLong", "MessagePoisoned"}
    OBVIOUS
  <2>. QED  BY <2>1, <2>2, <1>4, Zenon DEF Refused
<1>. QED  BY <1>1, <1>2, <1>3, <1>4, Zenon

LEMMA StepKeepsRefusal ==
  ASSUME TypeOK, TypeOK', [Next]_vars, Refused, ~Refused'
  PROVE  IsMessageComplete \/ (parsed' = <<>> /\ fragments' = <<>>)
<1>1. /\ max_message_size_exceeded \/ message_poisoned
      /\ ~max_message_size_exceeded' /\ ~message_poisoned'
  <2>1. Refused' <=> max_message_size_exceeded' \/ message_poisoned'
    BY RefusedByFlags, PTL
  <2>. QED  BY <2>1, RefusedByFlags, Zenon
<1>2. CASE UNCHANGED <<max_message_size_exceeded, message_poisoned>>
  BY <1>1, <1>2
<1>3. CASE Progress
  <2>1. PICK n \in 0 .. Len(unparsed_buffer) : DequeueParsedBytes(n)
    BY <1>3, ProgressStep
  <2>2. /\ ~Cur(max_message_size_exceeded, FALSE)
        /\ ~Cur(message_poisoned, FALSE)
    BY <2>1, <1>1, Zenon DEF DequeueParsedBytes
  <2>. QED  BY <2>2, <1>1, Zenon DEF Cur
<1>4. CASE SkipMessage
  BY <1>4 DEF SkipMessage
<1>5. CASE PoisonMessage
  BY <1>1, <1>5 DEF PoisonMessage
<1>. QED  BY <1>2, <1>3, <1>4, <1>5 DEF Next, Enqueue, EnqueueBytes, vars

\* A message that decode_message refuses stays refused until it ends or is
\* skipped: no later call of progress, enqueue_bytes or poison_message makes
\* it decodable.
THEOREM RefusalStays == Spec => RefusalIsFinal
<1>1. TypeOK /\ TypeOK' /\ [Next]_vars
        => [Refused /\ ~Refused'
              => IsMessageComplete \/ (parsed' = <<>> /\ fragments' = <<>>)]_vars
  BY StepKeepsRefusal
<1>. QED  BY <1>1, TypeCorrect, PTL DEF Spec, RefusalIsFinal

-----------------------------------------------------------------------------
(* progress returns None.                                                  *)

\* The line being parsed has no LF yet.
LineIsOpen ==
  parser.kind = "Line" =>
    \A i \in parser.start + 1 .. Len(parsed) : parsed[i] # LF

\* The same of the message progress works on.
LEMMA CurLineIsOpen ==
  ASSUME TypeOK, LineIsOpen, CurParser.kind = "Line"
  PROVE  \A i \in CurParser.start + 1 .. Len(Cur(parsed, <<>>)) :
           Cur(parsed, <<>>)[i] # LF
<1>1. CASE IsMessageComplete
  <2>1. CurParser.start = 0 /\ Cur(parsed, <<>>) = <<>> /\ Len(<<>>) = 0
    BY <1>1, EmptySeq DEF CurParser, Cur, NewLineParser, LineParser
  <2>. QED  BY <2>1
<1>2. CASE ~IsMessageComplete
  BY <1>2 DEF CurParser, Cur, LineIsOpen
<1>. QED  BY <1>1, <1>2

LEMMA ContinueKeepsLineOpen ==
  ASSUME TypeOK, LineIsOpen, FragmentsTileMessage, LiteralsAsAnnounced,
         NEW n \in 0 .. Len(unparsed_buffer), DequeueParsedBytes(n),
         NEW p \in Parser \ {NoParser}, Continues(p, n)
  PROVE  LineIsOpen'
<1>. DEFINE P == Cur(parsed, <<>>)
            u == unparsed_buffer
<1>1. SUFFICES ASSUME p.kind = "Line", NEW i \in p.start + 1 .. Len(parsed')
               PROVE  parsed'[i] # LF
  BY DEF Continues, ReturnNone, LineIsOpen
<1>2. /\ P \in Seq(Byte) /\ Len(P) \in Nat /\ u \in Seq(Byte) /\ Len(u) \in Nat
      /\ DOMAIN u = 1 .. Len(u)
  BY CurTypes, LenProperties DEF TypeOK
<1>3. /\ CurParser.kind = "Line" /\ p.start = CurParser.start /\ ~HasLf(u)
      /\ n = Len(u) /\ p.start \in Nat
  BY <1>1, ParserCases DEF Continues
<1>4. parsed' = P \o SubSeq(u, 1, n)
  BY DEF DequeueParsedBytes
<1>5. /\ SubSeq(u, 1, n) \in Seq(Byte) /\ Len(SubSeq(u, 1, n)) = n
      /\ \A j \in 1 .. n : SubSeq(u, 1, n)[j] = u[j]
  BY <1>2, <1>3, PrefixProperties
<1>6. \A j \in 1 .. n : u[j] # LF
  BY <1>2, <1>3 DEF HasLf
<1>7. \A j \in p.start + 1 .. Len(P) : P[j] # LF
  BY <1>3, CurLineIsOpen
<1>. HIDE DEF P, u
<1>. DEFINE w == SubSeq(u, 1, n)
<1>8. /\ Len(parsed') = Len(P) + n
      /\ \A j \in 1 .. Len(P) + n :
           parsed'[j] = IF j <= Len(P) THEN P[j] ELSE w[j - Len(P)]
  <2>1. w \in Seq(Byte) /\ Len(w) = n
    BY <1>5
  <2>. HIDE DEF w
  <2>. QED  BY <2>1, <1>2, <1>4, ConcatProperties DEF w
<1>9. \A j \in 1 .. n : w[j] # LF
  BY <1>5, <1>6
<1>. HIDE DEF w
<1>10. CASE i <= Len(P)
  BY <1>1, <1>2, <1>3, <1>7, <1>8, <1>10
<1>11. CASE i > Len(P)
  <2>1. i - Len(P) \in 1 .. n /\ i \in 1 .. Len(P) + n
    BY <1>1, <1>2, <1>3, <1>8, <1>11
  <2>. QED  BY <2>1, <1>8, <1>9, <1>11, <1>2
<1>12. i \in Int
  BY <1>1
<1>. QED  BY <1>2, <1>10, <1>11, <1>12

\* A parser that has just been made has an empty line before it.
LEMMA FinishKeepsLineOpen ==
  ASSUME TypeOK, FragmentsTileMessage, LiteralsAsAnnounced,
         NEW n \in 0 .. Len(unparsed_buffer), DequeueParsedBytes(n),
         NEW f \in FragmentInfo, Finishes(f, n)
  PROVE  LineIsOpen'
<1>1. parser' = ParserAfter(f) /\ f.end = CurParser.end + n
  BY DEF Finishes, ReturnFragment
<1>2. f.end = Len(parsed') /\ f.end \in Nat
  <2>1. CurParser.end = Len(Cur(parsed, <<>>))
    BY CurFragments
  <2>2. Len(parsed') = Len(Cur(parsed, <<>>)) + n
    BY ParsedGrows
  <2>. QED  BY <1>1, <2>1, <2>2 DEF FragmentInfo
<1>3. parser'.kind = "Line" => parser'.start = f.end
  BY <1>1 DEF ParserAfter, NewLineParser, LineParser, NewLiteralParser,
              LiteralParser, NoParser
<1>4. \A i \in f.end + 1 .. Len(parsed') : FALSE
  BY <1>2
<1>. QED  BY <1>3, <1>4 DEF LineIsOpen

LEMMA NextKeepsLineOpen ==
  /\ TypeOK /\ LineIsOpen /\ FragmentsTileMessage /\ LiteralsAsAnnounced
  /\ [Next]_vars
  => LineIsOpen'
<1>. SUFFICES ASSUME TypeOK, LineIsOpen, FragmentsTileMessage,
                     LiteralsAsAnnounced, [Next]_vars
              PROVE  LineIsOpen'
  OBVIOUS
<1>1. CASE UNCHANGED <<parser, parsed>>
  BY <1>1 DEF LineIsOpen
<1>2. CASE Progress
  BY <1>2, ProgressStep, ContinueKeepsLineOpen, FinishKeepsLineOpen
<1>3. CASE SkipMessage
  <2>1. parser' = NewLineParser(0) /\ parsed' = <<>> /\ Len(<<>>) = 0
    BY <1>3, EmptySeq DEF SkipMessage
  <2>. QED  BY <2>1 DEF LineIsOpen, NewLineParser, LineParser
<1>. QED  BY <1>1, <1>2, <1>3 DEF Next, Enqueue, EnqueueBytes, PoisonMessage, vars

LEMMA InitLineOpen == Init => LineIsOpen
<1>1. Len(<<>>) = 0  BY EmptySeq
<1>. QED  BY <1>1 DEF Init, LineIsOpen, NewLineParser, LineParser

LEMMA LineStaysOpen == Spec => []LineIsOpen
BY InitLineOpen, NextKeepsLineOpen, TypeCorrect, FragmentsCorrect, PTL DEF Spec

LEMMA NoneLeavesNothing ==
  ASSUME TypeOK, TypeOK', LineIsOpen', Progress,
         fragments' = Cur(fragments, <<>>)
  PROVE  /\ unparsed_buffer' = <<>>
         /\ IF parser'.kind = "Line"
            THEN ~HasLf(SubSeq(parsed', parser'.start + 1, Len(parsed')))
            ELSE parser'.remaining > 0
<1>1. PICK n \in 0 .. Len(unparsed_buffer) :
        /\ DequeueParsedBytes(n)
        /\ \/ \E p \in Parser \ {NoParser} : Continues(p, n)
           \/ \E f \in FragmentInfo : Finishes(f, n)
  BY ProgressStep
<1>2. ASSUME NEW f \in FragmentInfo, Finishes(f, n) PROVE FALSE
  <2>1. fragments' = Append(Cur(fragments, <<>>), f)
    BY <1>2 DEF Finishes, ReturnFragment
  <2>2. /\ Len(Append(Cur(fragments, <<>>), f)) = Len(Cur(fragments, <<>>)) + 1
        /\ Len(Cur(fragments, <<>>)) \in Nat
    BY CurTypes, AppendProperties, LenProperties
  <2>. QED  BY <2>1, <2>2
<1>3. PICK p \in Parser \ {NoParser} : Continues(p, n)
  BY <1>1, <1>2
<1>4. /\ parser' = p /\ n = Len(unparsed_buffer) /\ p.kind = CurParser.kind
      /\ CurParser.kind = "Literal" => p.remaining > 0
  BY <1>3 DEF Continues, ReturnNone
<1>5. (p.kind = "Line" /\ p.start \in Nat) \/ p.kind = "Literal"
  BY ParserCases
<1>6. unparsed_buffer' = <<>>
  <2>1. unparsed_buffer' = SubSeq(unparsed_buffer, n + 1, n)
    BY <1>1, <1>4 DEF DequeueParsedBytes
  <2>2. n \in Nat
    BY LenProperties DEF TypeOK
  <2>. QED  BY <2>1, <2>2, SubSeqEmpty
<1>7. ASSUME p.kind = "Line"
      PROVE  ~HasLf(SubSeq(parsed', p.start + 1, Len(parsed')))
  <2>. DEFINE s == p.start
              q == parsed'
              t == SubSeq(q, s + 1, Len(q))
  <2>1. s \in Nat /\ q \in Seq(Byte) /\ Len(q) \in Nat
    BY <1>5, <1>7, LenProperties DEF TypeOK
  <2>2. \A i \in s + 1 .. Len(q) : q[i] # LF
    BY <1>4, <1>7 DEF LineIsOpen
  <2>. HIDE DEF s, q
  <2>3. \A i \in s + 1 .. Len(q) : q[i] \in Byte
    BY <2>1, ElementOfSeq
  <2>4. /\ t \in Seq(Byte) /\ Len(t) = IF s + 1 <= Len(q) THEN Len(q) - (s + 1) + 1 ELSE 0
        /\ \A i \in 1 .. Len(q) - (s + 1) + 1 : t[i] = q[s + 1 + i - 1]
    BY <2>1, <2>3, SubSeqProperties
  <2>. HIDE DEF t
  <2>5. DOMAIN t = 1 .. Len(t)
    BY <2>4, LenProperties
  <2>6. \A i \in 1 .. Len(t) : t[i] # LF
    BY <2>1, <2>2, <2>4
  <2>7. ~HasLf(t)
    BY <2>5, <2>6 DEF HasLf
  <2>. QED  BY <2>7 DEF t, s, q
<1>. QED  BY <1>4, <1>5, <1>6, <1>7

\* When progress returns None, every enqueued byte was parsed and the fragment
\* being parsed is not complete: a caller that then waits for its peer never
\* has the next fragment in its hands already.
THEOREM NoneIsRight == Spec => NoneMeansMoreBytesNeeded
<1>1. TypeOK /\ TypeOK' /\ LineIsOpen'
        => [Progress /\ fragments' = Cur(fragments, <<>>)
              => /\ unparsed_buffer' = <<>>
                 /\ IF parser'.kind = "Line"
                    THEN ~HasLf(SubSeq(parsed', parser'.start + 1, Len(parsed')))
                    ELSE parser'.remaining > 0]_vars
  BY NoneLeavesNothing
<1>. QED  BY <1>1, TypeCorrect, LineStaysOpen, PTL
          DEF Spec, NoneMeansMoreBytesNeeded

-----------------------------------------------------------------------------
(* decode_tag                                                              *)

\* Once the first line is parsed, the message holds its LF.
FirstLineIsThere == fragments # <<>> => HasLf(parsed)

LEMMA PrefixHasLf ==
  ASSUME NEW s \in Seq(Byte), NEW t \in Seq(Byte), HasLf(s)
  PROVE  HasLf(s \o t)
<1>1. DOMAIN s = 1 .. Len(s) /\ Len(s) \in Nat /\ Len(t) \in Nat
  BY LenProperties
<1>2. PICK i \in 1 .. Len(s) : s[i] = LF
  BY <1>1 DEF HasLf
<1>3. /\ s \o t \in Seq(Byte) /\ Len(s \o t) = Len(s) + Len(t)
      /\ (s \o t)[i] = s[i]
  BY <1>1, <1>2, ConcatProperties
<1>4. i \in DOMAIN (s \o t)
  BY <1>1, <1>3, LenProperties
<1>. QED  BY <1>2, <1>3, <1>4 DEF HasLf

LEMMA ProgressKeepsFirstLine ==
  ASSUME TypeOK, FragmentsTileMessage, LiteralsAsAnnounced, FirstLineIsThere,
         Progress
  PROVE  FirstLineIsThere'
<1>. DEFINE P == Cur(parsed, <<>>)
            fs == Cur(fragments, <<>>)
            u == unparsed_buffer
<1>1. P \in Seq(Byte) /\ u \in Seq(Byte) /\ Len(P) \in Nat /\ Len(u) \in Nat
  BY CurTypes, LenProperties DEF TypeOK
<1>2. fs # <<>> => HasLf(P)
  BY DEF Cur, FirstLineIsThere
<1>3. ASSUME fs # <<>> PROVE FirstLineIsThere'
  <2>1. PICK n \in 0 .. Len(u) : parsed' = P \o SubSeq(u, 1, n)
    BY ProgressStep DEF DequeueParsedBytes
  <2>2. SubSeq(u, 1, n) \in Seq(Byte)
    BY <1>1, PrefixProperties
  <2>. HIDE DEF P, u
  <2>. QED  BY <1>1, <1>2, <1>3, <2>1, <2>2, PrefixHasLf DEF FirstLineIsThere
<1>4. CASE ProgressLine
  <2>. DEFINE n == FirstLf(u)
              v == SubSeq(u, 1, n)
  <2>1. n \in 1 .. Len(u) /\ u[n] = LF /\ parsed' = P \o v
    BY <1>1, <1>4, FirstLfProperties DEF ProgressLine, DequeueParsedBytes
  <2>. HIDE DEF n
  <2>2. v \in Seq(Byte) /\ Len(v) = n /\ v[n] = LF
    BY <1>1, <2>1, PrefixProperties
  <2>. HIDE DEF P, u, v
  <2>3. /\ P \o v \in Seq(Byte) /\ Len(P \o v) = Len(P) + n
        /\ \A i \in 1 .. Len(P) + n :
              (P \o v)[i] = IF i <= Len(P) THEN P[i] ELSE v[i - Len(P)]
    BY <1>1, <2>2, ConcatProperties
  <2>4. Len(P) + n \in 1 .. Len(P) + n /\ ~(Len(P) + n <= Len(P)) /\ Len(P) + n - Len(P) = n
    BY <1>1, <2>1
  <2>5. parsed' \in Seq(Byte) /\ Len(parsed') = Len(P) + n /\ parsed'[Len(P) + n] = LF
    BY <2>1, <2>2, <2>3, <2>4
  <2>6. Len(P) + n \in DOMAIN parsed'
    BY <2>4, <2>5, LenProperties
  <2>. QED  BY <2>5, <2>6 DEF FirstLineIsThere, HasLf
<1>5. CASE ProgressPartialLine \/ ProgressPartialLiteral
  <2>1. fragments' = fs
    BY <1>5 DEF ProgressPartialLine, ProgressPartialLiteral, ReturnNone
  <2>. QED  BY <1>3, <2>1 DEF FirstLineIsThere
<1>6. CASE ProgressLiteral
  <2>1. CurParser.kind = "Literal"
    BY <1>6 DEF ProgressLiteral
  <2>2. LastAnnounced(fs) # NoAnnouncement
    BY <2>1, CurFragments
  <2>3. fs # <<>>
    BY <2>2 DEF LastAnnounced
  <2>. QED  BY <1>3, <2>3
<1>. QED  BY <1>4, <1>5, <1>6 DEF Progress

LEMMA NextKeepsFirstLine ==
  /\ TypeOK /\ FirstLineIsThere /\ FragmentsTileMessage /\ LiteralsAsAnnounced
  /\ [Next]_vars
  => FirstLineIsThere'
<1>. SUFFICES ASSUME TypeOK, FirstLineIsThere, FragmentsTileMessage,
                     LiteralsAsAnnounced, [Next]_vars
              PROVE  FirstLineIsThere'
  OBVIOUS
<1>1. CASE UNCHANGED <<fragments, parsed>>
  BY <1>1 DEF FirstLineIsThere
<1>2. CASE Progress
  BY <1>2, ProgressKeepsFirstLine
<1>3. CASE SkipMessage
  BY <1>3 DEF SkipMessage, FirstLineIsThere
<1>. QED  BY <1>1, <1>2, <1>3 DEF Next, Enqueue, EnqueueBytes, PoisonMessage, vars

LEMMA FirstLineStays == Spec => []FirstLineIsThere
<1>1. Init => FirstLineIsThere
  BY DEF Init, FirstLineIsThere
<1>. QED  BY <1>1, NextKeepsFirstLine, TypeCorrect, FragmentsCorrect, PTL DEF Spec

\* Where the tag of a message would end.
Delimiter(bytes, i) == bytes[i] = SP /\ \A j \in 1..(i-1) : bytes[j] \notin {SP, LF}

\* More bytes do not change the result when there is one, or when there is a
\* whole line.
LEMMA TagOfPrefix ==
  ASSUME NEW b \in Seq(Byte), NEW w \in Seq(Byte), ParseTag(b) # NoTag \/ HasLf(b)
  PROVE  ParseTag(b \o w) = ParseTag(b)
<1>. DEFINE c == b \o w
<1>1. /\ Len(b) \in Nat /\ DOMAIN b = 1 .. Len(b)
      /\ c \in Seq(Byte) /\ Len(c) = Len(b) + Len(w) /\ Len(w) \in Nat
      /\ \A i \in 1 .. Len(b) : c[i] = b[i]
  BY LenProperties, ConcatProperties
<1>2. DOMAIN c = 1 .. Len(c)
  BY <1>1, LenProperties
<1>. HIDE DEF c
<1>3. \A i \in 1 .. Len(b) : Delimiter(c, i) <=> Delimiter(b, i)
  BY <1>1 DEF Delimiter
<1>4. CASE \E i \in DOMAIN b : Delimiter(b, i)
  <2>1. PICK i \in 1 .. Len(b) : Delimiter(b, i)
    BY <1>1, <1>4
  <2>2. \A j \in DOMAIN b : Delimiter(b, j) => j = i
    BY <1>1, <2>1 DEF Delimiter
  <2>3. \A j \in DOMAIN c : Delimiter(c, j) => j = i
    BY <1>1, <1>2, <1>3, <2>1 DEF Delimiter
  <2>4. i \in DOMAIN b /\ i \in DOMAIN c /\ Delimiter(c, i)
    BY <1>1, <1>2, <1>3, <2>1
  <2>5. (CHOOSE j \in DOMAIN b : Delimiter(b, j)) = i
    BY <2>1, <2>2, <2>4
  <2>6. (CHOOSE j \in DOMAIN c : Delimiter(c, j)) = i
    BY <2>3, <2>4
  <2>7. SubSeq(c, 1, i - 1) = SubSeq(b, 1, i - 1)
    <3>1. i - 1 \in 0 .. Len(b) /\ i - 1 \in 0 .. Len(c)
      BY <1>1, <2>1
    <3>2. /\ SubSeq(b, 1, i - 1) \in Seq(Byte) /\ Len(SubSeq(b, 1, i - 1)) = i - 1
          /\ \A k \in 1 .. i - 1 : SubSeq(b, 1, i - 1)[k] = b[k]
      BY <3>1, PrefixProperties
    <3>3. /\ SubSeq(c, 1, i - 1) \in Seq(Byte) /\ Len(SubSeq(c, 1, i - 1)) = i - 1
          /\ \A k \in 1 .. i - 1 : SubSeq(c, 1, i - 1)[k] = c[k]
      BY <1>1, <3>1, PrefixProperties
    <3>4. \A k \in 1 .. i - 1 : SubSeq(c, 1, i - 1)[k] = SubSeq(b, 1, i - 1)[k]
      BY <1>1, <2>1, <3>2, <3>3
    <3>. QED  BY <3>2, <3>3, <3>4, SeqEqual
  <2>. DEFINE Result(tag) == IF IsTag(tag) THEN tag ELSE NoTag
  <2>8. ParseTag(b) = Result(SubSeq(b, 1, i - 1))
    BY <1>4, <2>5 DEF ParseTag, Delimiter
  <2>9. ParseTag(c) = Result(SubSeq(c, 1, i - 1))
    BY <2>4, <2>6 DEF ParseTag, Delimiter
  <2>. HIDE DEF Result
  <2>. QED  BY <2>7, <2>8, <2>9 DEF c
<1>5. CASE ~ \E i \in DOMAIN b : Delimiter(b, i)
  <2>1. ParseTag(b) = NoTag
    BY <1>5 DEF ParseTag, Delimiter
  <2>2. PICK k \in 1 .. Len(b) : b[k] = LF
    BY <1>1, <2>1 DEF HasLf
  <2>3. ASSUME NEW i \in DOMAIN c, Delimiter(c, i) PROVE FALSE
    <3>1. i > Len(b)
      BY <1>1, <1>2, <1>3, <1>5, <2>3
    <3>2. k \in 1 .. i - 1 /\ c[k] = LF
      BY <1>1, <1>2, <2>2, <3>1
    <3>. QED  BY <2>3, <3>2 DEF Delimiter
  <2>4. ParseTag(c) = NoTag
    BY <2>3 DEF ParseTag, Delimiter
  <2>. QED  BY <2>1, <2>4 DEF c
<1>. QED  BY <1>4, <1>5

LEMMA StepKeepsTag ==
  ASSUME TypeOK, TypeOK', BufferHoldsMessage, FirstLineIsThere, [Next]_vars,
         DecodeTag # NoTag \/ fragments # <<>>,
         ~IsMessageComplete, Len(parsed') >= Len(parsed)
  PROVE  DecodeTag' = DecodeTag
<1>. DEFINE b == message_buffer
            u == unparsed_buffer
            k == Admitted(max_message_size, Len(parsed))
<1>1. /\ b \in Seq(Byte) /\ parsed \in Seq(Byte) /\ u \in Seq(Byte)
      /\ Len(parsed) \in Nat /\ Len(b) \in Nat /\ Len(u) \in Nat
      /\ max_message_size \in MaybeLimit
  BY LenProperties DEF TypeOK
<1>2. k \in 0 .. Len(parsed) /\ b = SubSeq(parsed, 1, k)
  BY <1>1 DEF BufferHoldsMessage, Admitted, Least, MaybeLimit, NoLimit
<1>3. Len(b) = k
  BY <1>1, <1>2, PrefixProperties
<1>4. CASE message_buffer' = message_buffer
  BY <1>4 DEF DecodeTag
<1>5. CASE Progress
  <2>1. PICK n \in 0 .. Len(u) : DequeueParsedBytes(n)
    BY <1>5, ProgressStep
  <2>. DEFINE j == Room(b, n)
              w == SubSeq(u, 1, j)
  <2>2. message_buffer' = b \o w
    BY <2>1 DEF DequeueParsedBytes, Cur
  <2>3. j \in 0 .. n /\ (k < Len(parsed) => j = 0)
    BY <1>1, <1>2, <1>3 DEF Room, Admitted, Least, MaybeLimit, NoLimit
  <2>4. w \in Seq(Byte) /\ Len(w) = j
    BY <1>1, <2>3, PrefixProperties
  <2>5. CASE DecodeTag # NoTag \/ HasLf(b)
    <3>1. ParseTag(b) # NoTag \/ HasLf(b)
      BY <2>5 DEF DecodeTag
    <3>2. ParseTag(b \o w) = ParseTag(b)
      <4>. HIDE DEF b, w
      <4>. QED  BY <3>1, <1>1, <2>4, TagOfPrefix
    <3>. QED  BY <2>2, <3>2 DEF DecodeTag
  <2>6. CASE fragments # <<>> /\ ~HasLf(b)
    <3>1. k # Len(parsed)
      <4>1. HasLf(parsed)
        BY <2>6 DEF FirstLineIsThere
      <4>2. SubSeq(parsed, 1, Len(parsed)) = parsed
        BY <1>1, SubSeqFull
      <4>. QED  BY <1>2, <2>6, <4>1, <4>2
    <3>2. j = 0
      BY <1>1, <1>2, <2>3, <3>1
    <3>3. w = <<>>
      <4>. HIDE DEF j
      <4>. QED  BY <3>2, SubSeqEmpty
    <3>4. b \o w = b
      <4>. HIDE DEF b, w
      <4>. QED  BY <1>1, <3>3, ConcatEmptySeq
    <3>. QED  BY <1>4, <2>2, <3>4
  <2>. QED  BY <2>5, <2>6
<1>6. CASE SkipMessage
  <2>1. message_buffer' = <<>> /\ parsed' = <<>>
    BY <1>6 DEF SkipMessage
  <2>2. Len(b) = 0
    BY <1>1, <1>2, <1>3, <2>1, EmptySeq
  <2>3. b = <<>>
    BY <1>1, <2>2, EmptySeq
  <2>. QED  BY <1>4, <2>1, <2>3
<1>. QED  BY <1>4, <1>5, <1>6 DEF Next, Enqueue, EnqueueBytes, PoisonMessage, vars

\* Once decode_tag has found a tag, or the first line is parsed, more bytes of
\* the same message never change the result, wherever the limit drops bytes.
THEOREM TagStays == Spec => TagIsStable
<1>1. TypeOK /\ TypeOK' /\ BufferHoldsMessage /\ FirstLineIsThere /\ [Next]_vars
        => [(DecodeTag # NoTag \/ fragments # <<>>)
              /\ ~IsMessageComplete /\ Len(parsed') >= Len(parsed)
              => DecodeTag' = DecodeTag]_vars
  BY StepKeepsTag
<1>. QED  BY <1>1, TypeCorrect, BufferCorrect, FirstLineStays, PTL
          DEF Spec, TagIsStable

-----------------------------------------------------------------------------
(* Slices of a sequence with one more byte.                                *)

LEMMA SliceOfAppend ==
  ASSUME NEW t \in Seq(Byte), NEW b \in Byte,
         NEW m \in 1 .. Len(t) + 1, NEW e \in 0 .. Len(t)
  PROVE  SubSeq(Append(t, b), m, e) = SubSeq(t, m, e)
<1>. DEFINE T == Append(t, b)
<1>1. /\ Len(t) \in Nat /\ T \in Seq(Byte) /\ Len(T) = Len(t) + 1
      /\ \A i \in 1 .. Len(t) : T[i] = t[i]
  BY LenProperties, AppendProperties
<1>. HIDE DEF T
<1>2. \A i \in m .. e : i \in 1 .. Len(t) /\ i \in 1 .. Len(T)
  BY <1>1
<1>3. \A i \in m .. e : t[i] \in Byte /\ T[i] = t[i] /\ T[i] \in Byte
  BY <1>1, <1>2, ElementOfSeq
<1>4. /\ SubSeq(t, m, e) \in Seq(Byte)
      /\ Len(SubSeq(t, m, e)) = IF m <= e THEN e - m + 1 ELSE 0
      /\ \A i \in 1 .. e - m + 1 : SubSeq(t, m, e)[i] = t[m+i-1]
  BY <1>3, SubSeqProperties
<1>5. /\ SubSeq(T, m, e) \in Seq(Byte)
      /\ Len(SubSeq(T, m, e)) = IF m <= e THEN e - m + 1 ELSE 0
      /\ \A i \in 1 .. e - m + 1 : SubSeq(T, m, e)[i] = T[m+i-1]
  BY <1>3, SubSeqProperties
<1>6. \A i \in 1 .. Len(SubSeq(t, m, e)) : SubSeq(T, m, e)[i] = SubSeq(t, m, e)[i]
  <2>1. ASSUME NEW i \in 1 .. Len(SubSeq(t, m, e)) PROVE i \in 1 .. e - m + 1 /\ m+i-1 \in m .. e
    BY <1>1, <1>4
  <2>. QED  BY <2>1, <1>3, <1>4, <1>5
<1>. QED  BY <1>4, <1>5, <1>6, SeqEqual DEF T

LEMMA EndOfAppend ==
  ASSUME NEW t \in Seq(Byte), NEW b \in Byte, NEW m \in 1 .. Len(t) + 1
  PROVE  /\ SubSeq(t, m, Len(t)) \in Seq(Byte)
         /\ Len(SubSeq(t, m, Len(t))) = Len(t) - m + 1
         /\ SubSeq(Append(t, b), m, Len(t) + 1) = Append(SubSeq(t, m, Len(t)), b)
<1>. DEFINE T == Append(t, b)
            v == SubSeq(t, m, Len(t))
<1>1. /\ Len(t) \in Nat /\ T \in Seq(Byte) /\ Len(T) = Len(t) + 1
      /\ T[Len(t) + 1] = b
  BY LenProperties, AppendProperties
<1>2. SubSeq(T, m, Len(t)) = v
  BY <1>1, SliceOfAppend
<1>3. v \in Seq(Byte) /\ Len(v) = Len(t) - m + 1
  <2>1. \A i \in m .. Len(t) : t[i] \in Byte
    BY <1>1, ElementOfSeq
  <2>2. v \in Seq(Byte) /\ Len(v) = IF m <= Len(t) THEN Len(t) - m + 1 ELSE 0
    BY <1>1, <2>1, SubSeqProperties
  <2>. HIDE DEF v
  <2>. QED  BY <1>1, <2>2
<1>. HIDE DEF T, v
<1>4. SubSeq(T, m, Len(T)) = SubSeq(T, m, Len(T) - 1) \o <<T[Len(T)]>>
  <2>1. m \in 1 .. Len(T) /\ Len(T) \in m .. Len(T)
    BY <1>1
  <2>. QED  BY <1>1, <2>1, SubSeqRecursiveSecond, Zenon
<1>5. SubSeq(T, m, Len(t) + 1) = v \o <<b>>
  <2>1. Len(T) = Len(t) + 1 /\ Len(T) - 1 = Len(t) /\ T[Len(T)] = b
    BY <1>1
  <2>. QED  BY <1>2, <1>4, <2>1, Zenon
<1>6. v \o <<b>> = Append(v, b)
  BY <1>3, AppendIsConcat
<1>. QED  BY <1>3, <1>5, <1>6 DEF T, v

-----------------------------------------------------------------------------
(* The number that digits denote.                                          *)

\* The recursive function of Number.
UpTo(d) ==
  LET upTo[i \in 0..Len(d)] ==
        IF i = 0 THEN 0 ELSE 10 * upTo[i-1] + DigitValue(d[i])
  IN  upTo

LEMMA UpToEquations ==
  ASSUME NEW d \in Seq(Byte)
  PROVE  /\ UpTo(d)[0] = 0
         /\ \A i \in 1 .. Len(d) : UpTo(d)[i] = 10 * UpTo(d)[i-1] + DigitValue(d[i])
<1>. DEFINE n == Len(d)
            Is(f, k) == f = [i \in 0 .. k |-> IF i = 0 THEN 0
                                             ELSE 10 * f[i-1] + DigitValue(d[i])]
            Bad == {k \in 0 .. n : ~ \E f : Is(f, k)}
<1>1. n \in Nat
  BY LenProperties
<1>2. Bad = {}
  <2>1. SUFFICES ASSUME Bad # {} PROVE FALSE
    OBVIOUS
  <2>2. PICK m \in Bad : \A k \in Bad : m <= k
    <3>1. Bad \subseteq Nat  BY <1>1
    <3>. HIDE DEF Bad
    <3>. QED  BY <3>1, <2>1, LeastNumber
  <2>3. m # 0
    <3>. DEFINE f0 == [i \in 0 .. 0 |-> 0]
    <3>1. f0 = [i \in 0 .. 0 |-> IF i = 0 THEN 0 ELSE 10 * f0[i-1] + DigitValue(d[i])]
      <4>1. \A i \in 0 .. 0 : i = 0  OBVIOUS
      <4>. QED  BY <4>1
    <3>. QED  BY <3>1
  <2>4. m - 1 \in 0 .. n /\ m - 1 \notin Bad /\ m \in Nat /\ m > 0
    <3>1. m \in 0 .. n /\ m - 1 \in 0 .. n /\ ~(m <= m - 1) /\ m \in Nat /\ m > 0
      BY <2>2, <2>3, <1>1
    <3>. HIDE DEF Bad
    <3>. QED  BY <3>1, <2>2
  <2>5. PICK g : Is(g, m - 1)
    BY <2>4
  <2>. DEFINE last == 10 * g[m-1] + DigitValue(d[m])
              f == [i \in 0 .. m |-> IF i = m THEN last ELSE g[i]]
  <2>6. ASSUME NEW i \in 0 .. m
        PROVE  f[i] = IF i = 0 THEN 0 ELSE 10 * f[i-1] + DigitValue(d[i])
    <3>1. CASE i = m
      <4>1. f[i] = last  BY <3>1
      <4>2. f[i-1] = g[m-1]  BY <3>1, <2>4
      <4>. QED  BY <4>1, <4>2, <3>1, <2>4
    <3>2. CASE i # m
      <4>1. i \in 0 .. m - 1 /\ (i # 0 => i - 1 \in 0 .. m /\ i - 1 # m)
        BY <3>2, <2>4
      <4>2. f[i] = g[i] /\ (i # 0 => f[i-1] = g[i-1])  BY <4>1, <3>2
      <4>3. g[i] = IF i = 0 THEN 0 ELSE 10 * g[i-1] + DigitValue(d[i])
        BY <2>5, <4>1
      <4>. HIDE DEF f
      <4>. QED  BY <4>2, <4>3
    <3>. QED  BY <3>1, <3>2
  <2>7. Is(f, m)
    <3>1. f = [i \in 0 .. m |-> f[i]]  OBVIOUS
    <3>. HIDE DEF f
    <3>. QED  BY <3>1, <2>6
  <2>. QED  BY <2>2, <2>7
<1>3. \E f : Is(f, n)
  BY <1>1, <1>2
<1>4. Is(UpTo(d), n)
  <2>1. UpTo(d) = CHOOSE f : Is(f, n)
    BY DEF UpTo
  <2>. HIDE DEF Is
  <2>. QED  BY <2>1, <1>3
<1>5. 0 \in 0 .. n /\ \A i \in 1 .. n : i \in 0 .. n /\ i # 0
  BY <1>1
<1>. QED  BY <1>4, <1>5

LEMMA NumberIsUpTo ==
  ASSUME NEW d
  PROVE  Number(d) = UpTo(d)[Len(d)]
BY DEF Number, UpTo

AllDigits(d) == \A k \in DOMAIN d : d[k] \in Digits

LEMMA NumberType ==
  ASSUME NEW d \in Seq(Byte), AllDigits(d)
  PROVE  Number(d) \in Nat
<1>. DEFINE Bad == {k \in 0 .. Len(d) : UpTo(d)[k] \notin Nat}
<1>1. Len(d) \in Nat /\ DOMAIN d = 1 .. Len(d)
  BY LenProperties
<1>2. ASSUME Bad # {} PROVE FALSE
  <2>1. PICK m \in Bad : \A k \in Bad : m <= k
    <3>1. Bad \subseteq Nat  BY <1>1
    <3>. HIDE DEF Bad
    <3>. QED  BY <3>1, <1>2, LeastNumber
  <2>2. m # 0
    BY <2>1, UpToEquations
  <2>3. m \in 1 .. Len(d) /\ m - 1 \in 0 .. Len(d) /\ m - 1 \notin Bad
    BY <2>1, <2>2, <1>1
  <2>4. UpTo(d)[m] = 10 * UpTo(d)[m-1] + DigitValue(d[m])
    BY <2>3, UpToEquations
  <2>5. DigitValue(d[m]) \in Nat
    BY <2>3, <1>1 DEF AllDigits, Digits, DigitValue
  <2>6. UpTo(d)[m-1] \in Nat
    BY <2>3
  <2>. QED  BY <2>1, <2>4, <2>5, <2>6
<1>3. Len(d) \in 0 .. Len(d)
  BY <1>1
<1>. QED  BY <1>2, <1>3, NumberIsUpTo

LEMMA NumberOfAppend ==
  ASSUME NEW d \in Seq(Byte), NEW b \in Byte
  PROVE  Number(Append(d, b)) = 10 * Number(d) + DigitValue(b)
<1>. DEFINE e == Append(d, b)
            Bad == {k \in 0 .. Len(d) : UpTo(d)[k] # UpTo(e)[k]}
<1>1. /\ Len(d) \in Nat /\ e \in Seq(Byte) /\ Len(e) = Len(d) + 1
      /\ \A i \in 1 .. Len(d) : e[i] = d[i]
      /\ e[Len(d) + 1] = b
  BY LenProperties, AppendProperties
<1>. HIDE DEF e
<1>2. ASSUME Bad # {} PROVE FALSE
  <2>1. PICK m \in Bad : \A k \in Bad : m <= k
    <3>1. Bad \subseteq Nat  BY <1>1
    <3>. HIDE DEF Bad
    <3>. QED  BY <3>1, <1>2, LeastNumber
  <2>2. m # 0
    BY <2>1, <1>1, UpToEquations
  <2>3. /\ m \in 1 .. Len(d) /\ m \in 1 .. Len(e)
        /\ m - 1 \in 0 .. Len(d) /\ m - 1 \notin Bad
    BY <2>1, <2>2, <1>1
  <2>4. UpTo(d)[m] = 10 * UpTo(d)[m-1] + DigitValue(d[m])
    BY <2>3, UpToEquations
  <2>5. UpTo(e)[m] = 10 * UpTo(e)[m-1] + DigitValue(e[m])
    BY <1>1, <2>3, UpToEquations
  <2>6. UpTo(d)[m-1] = UpTo(e)[m-1] /\ d[m] = e[m]
    BY <2>3, <1>1
  <2>. QED  BY <2>1, <2>4, <2>5, <2>6
<1>3. UpTo(d)[Len(d)] = UpTo(e)[Len(d)]
  <2>1. Len(d) \in 0 .. Len(d)
    BY <1>1
  <2>. QED  BY <1>2, <2>1
<1>4. UpTo(e)[Len(e)] = 10 * UpTo(e)[Len(d)] + DigitValue(b)
  <2>1. Len(e) \in 1 .. Len(e) /\ Len(e) - 1 = Len(d) /\ e[Len(e)] = b
    BY <1>1
  <2>. QED  BY <1>1, <2>1, UpToEquations
<1>. QED  BY <1>3, <1>4, NumberIsUpTo DEF e

LEMMA NumberOfOne ==
  ASSUME NEW b \in Digits
  PROVE  Number(<<b>>) = DigitValue(b)
<1>1. b \in Byte /\ DigitValue(b) \in Nat
  BY DEF Digits, Byte, DigitValue
<1>2. <<>> \in Seq(Byte) /\ Append(<<>>, b) = <<b>> /\ Len(<<>>) = 0
  BY EmptySeq
<1>3. Number(<<>>) = 0
  BY <1>2, NumberIsUpTo, UpToEquations
<1>4. Number(Append(<<>>, b)) = 10 * Number(<<>>) + DigitValue(b)
  BY <1>1, <1>2, NumberOfAppend, Zenon
<1>. QED  BY <1>1, <1>2, <1>3, <1>4

-----------------------------------------------------------------------------
(* The announcement that a text ends with.                                 *)

LEMMA SpelledIs ==
  ASSUME NEW t, NEW suffix, NEW d
  PROVE  LET end == Len(t) - Len(suffix)
         IN  d \in Spelled(t, suffix) <=>
               \E i \in 1 .. end :
                 /\ t[i] = OPEN /\ d = SubSeq(t, i + 1, end)
                 /\ SubSeq(t, end + 1, Len(t)) = suffix
                 /\ d # <<>> /\ AllDigits(d)
BY DEF Spelled, AllDigits

LEMMA AppendDigits ==
  ASSUME NEW d \in Seq(Byte), NEW b \in Byte
  PROVE  AllDigits(Append(d, b)) <=> AllDigits(d) /\ b \in Digits
<1>. DEFINE e == Append(d, b)
<1>1. /\ Len(d) \in Nat /\ DOMAIN d = 1 .. Len(d) /\ e \in Seq(Byte)
      /\ Len(e) = Len(d) + 1 /\ e[Len(d) + 1] = b
      /\ \A i \in 1 .. Len(d) : e[i] = d[i]
  BY LenProperties, AppendProperties
<1>2. DOMAIN e = 1 .. Len(d) + 1
  BY <1>1, LenProperties
<1>. HIDE DEF e
<1>. QED  BY <1>1, <1>2 DEF AllDigits, e

\* The digits of an announcement make a number.
LEMMA SpelledType ==
  ASSUME NEW t \in Seq(Byte), NEW suffix \in Seq(Byte), NEW d \in Spelled(t, suffix)
  PROVE  d \in Seq(Byte) /\ d # <<>> /\ AllDigits(d) /\ Number(d) \in Nat
<1>. DEFINE end == Len(t) - Len(suffix)
<1>1. Len(t) \in Nat /\ Len(suffix) \in Nat
  BY LenProperties
<1>2. PICK i \in 1 .. end : d = SubSeq(t, i + 1, end) /\ d # <<>> /\ AllDigits(d)
  BY SpelledIs
<1>3. \A k \in i + 1 .. end : t[k] \in Byte
  <2>1. \A k \in i + 1 .. end : k \in 1 .. Len(t)
    BY <1>1, <1>2
  <2>. QED  BY <2>1, ElementOfSeq
<1>4. i + 1 \in Int /\ end \in Int
  BY <1>1
<1>. HIDE DEF end
<1>5. d \in Seq(Byte)
  BY <1>2, <1>3, <1>4, SubSeqProperties
<1>. QED  BY <1>2, <1>5, NumberType

\* One more byte that belongs to the end of the announcement.
LEMMA SpelledAppend ==
  ASSUME NEW t \in Seq(Byte), NEW suffix \in Seq(Byte), NEW b \in Byte, NEW c \in Byte,
         NEW d
  PROVE  d \in Spelled(Append(t, b), Append(suffix, c)) <=> b = c /\ d \in Spelled(t, suffix)
<1>. DEFINE T == Append(t, b)
            S == Append(suffix, c)
            e == Len(t) - Len(suffix)
<1>1. /\ Len(t) \in Nat /\ Len(suffix) \in Nat
      /\ Len(T) = Len(t) + 1 /\ Len(S) = Len(suffix) + 1
      /\ \A i \in 1 .. Len(t) : T[i] = t[i]
  BY LenProperties, AppendProperties
<1>2. Len(T) - Len(S) = e /\ e <= Len(t) /\ e \in Int
  BY <1>1
<1>3. ASSUME NEW i \in 1 .. e
      PROVE  /\ T[i] = t[i] /\ SubSeq(T, i + 1, e) = SubSeq(t, i + 1, e)
             /\ SubSeq(T, e + 1, Len(T)) = S <=> SubSeq(t, e + 1, Len(t)) = suffix /\ b = c
  <2>1. /\ i \in 1 .. Len(t) /\ i + 1 \in 1 .. Len(t) + 1
        /\ e \in 0 .. Len(t) /\ e + 1 \in 1 .. Len(t) + 1
    BY <1>1, <1>2
  <2>2. SubSeq(T, i + 1, e) = SubSeq(t, i + 1, e)
    <3>. HIDE DEF e
    <3>. QED  BY <2>1, SliceOfAppend
  <2>3. /\ SubSeq(t, e + 1, Len(t)) \in Seq(Byte)
        /\ SubSeq(T, e + 1, Len(t) + 1) = Append(SubSeq(t, e + 1, Len(t)), b)
    <3>. HIDE DEF e
    <3>. QED  BY <2>1, EndOfAppend
  <2>4. Append(SubSeq(t, e + 1, Len(t)), b) = S <=> SubSeq(t, e + 1, Len(t)) = suffix /\ b = c
    <3>. DEFINE v == SubSeq(t, e + 1, Len(t))
    <3>1. v \in Seq(Byte)
      BY <2>3
    <3>. HIDE DEF v
    <3>2. Append(v, b) = Append(suffix, c) <=> v = suffix /\ b = c
      BY <3>1, AppendInjective
    <3>. QED  BY <3>2 DEF v
  <2>5. SubSeq(T, e + 1, Len(T)) = SubSeq(T, e + 1, Len(t) + 1)
    BY <1>1
  <2>. HIDE DEF T, S, e
  <2>. QED  BY <1>1, <2>1, <2>2, <2>3, <2>4, <2>5
<1>4. d \in Spelled(T, S) <=>
        \E i \in 1 .. e : /\ T[i] = OPEN /\ d = SubSeq(T, i + 1, e)
                          /\ SubSeq(T, e + 1, Len(T)) = S
                          /\ d # <<>> /\ AllDigits(d)
  <2>. DEFINE E == Len(T) - Len(S)
  <2>1. d \in Spelled(T, S) <=>
          \E i \in 1 .. E : /\ T[i] = OPEN /\ d = SubSeq(T, i + 1, E)
                            /\ SubSeq(T, E + 1, Len(T)) = S
                            /\ d # <<>> /\ AllDigits(d)
    BY SpelledIs
  <2>2. E = e
    BY <1>2
  <2>. HIDE DEF E
  <2>. QED  BY <2>1, <2>2
<1>5. d \in Spelled(t, suffix) <=>
        \E i \in 1 .. e : /\ t[i] = OPEN /\ d = SubSeq(t, i + 1, e)
                          /\ SubSeq(t, e + 1, Len(t)) = suffix
                          /\ d # <<>> /\ AllDigits(d)
  BY SpelledIs
<1>. HIDE DEF T, S, e
<1>6. d \in Spelled(T, S) <=> b = c /\ d \in Spelled(t, suffix)
  BY <1>3, <1>4, <1>5, Zenon
<1>. QED  BY <1>6 DEF T, S

\* The digits at the end of a text, with an opening bracket before them.
LEMMA SpelledBare ==
  ASSUME NEW t \in Seq(Byte), NEW d
  PROVE  d \in Spelled(t, <<>>) <=>
           \E i \in 1 .. Len(t) :
             t[i] = OPEN /\ d = SubSeq(t, i + 1, Len(t)) /\ d # <<>> /\ AllDigits(d)
<1>1. Len(t) \in Nat /\ Len(<<>>) = 0
  BY LenProperties, EmptySeq
<1>2. SubSeq(t, Len(t) + 1, Len(t)) = <<>>
  BY <1>1, SubSeqEmpty
<1>3. Len(t) - Len(<<>>) = Len(t)
  BY <1>1
<1>. DEFINE end == Len(t) - Len(<<>>)
<1>4. d \in Spelled(t, <<>>) <=>
        \E i \in 1 .. end :
          /\ t[i] = OPEN /\ d = SubSeq(t, i + 1, end)
          /\ SubSeq(t, end + 1, Len(t)) = <<>>
          /\ d # <<>> /\ AllDigits(d)
  BY SpelledIs
<1>5. end = Len(t)
  BY <1>3
<1>. HIDE DEF end
<1>. QED  BY <1>2, <1>4, <1>5

\* One more byte after an opening bracket and digits.
LEMMA SpelledDigits ==
  ASSUME NEW t \in Seq(Byte), NEW b \in Byte, NEW d
  PROVE  d \in Spelled(Append(t, b), <<>>) <=>
           /\ b \in Digits
           /\ \/ t # <<>> /\ t[Len(t)] = OPEN /\ d = <<b>>
              \/ \E c \in Spelled(t, <<>>) : d = Append(c, b)
<1>. DEFINE T == Append(t, b)
            n == Len(t)
            End(i) == SubSeq(t, i + 1, n)
<1>1. /\ n \in Nat /\ T \in Seq(Byte) /\ Len(T) = n + 1 /\ Len(<<>>) = 0
      /\ \A i \in 1 .. n : T[i] = t[i]
      /\ (t # <<>> => n > 0) /\ (t = <<>> => n = 0)
  BY LenProperties, AppendProperties, EmptySeq
<1>. HIDE DEF T
<1>2. d \in Spelled(T, <<>>) <=>
        \E i \in 1 .. n + 1 : /\ T[i] = OPEN /\ d = SubSeq(T, i + 1, n + 1)
                              /\ d # <<>> /\ AllDigits(d)
  <2>1. d \in Spelled(T, <<>>) <=>
          \E i \in 1 .. Len(T) : /\ T[i] = OPEN /\ d = SubSeq(T, i + 1, Len(T))
                                 /\ d # <<>> /\ AllDigits(d)
    <3>1. T \in Seq(Byte)
      BY <1>1
    <3>. QED  BY <3>1, SpelledBare
  <2>2. Len(T) = n + 1
    BY <1>1
  <2>. HIDE DEF n
  <2>. QED  BY <2>1, <2>2
<1>4. \A c : c \in Spelled(t, <<>>) <=>
        \E i \in 1 .. n : t[i] = OPEN /\ c = End(i) /\ c # <<>> /\ AllDigits(c)
  BY SpelledBare
<1>5. ASSUME NEW i \in 1 .. n
      PROVE  /\ End(i) \in Seq(Byte)
             /\ SubSeq(T, i + 1, n + 1) = Append(End(i), b)
             /\ End(i) = <<>> <=> i = n
             /\ Append(End(i), b) # <<>>
             /\ AllDigits(Append(End(i), b)) <=> AllDigits(End(i)) /\ b \in Digits
  <2>1. i + 1 \in 1 .. n + 1
    BY <1>1
  <2>. DEFINE v == End(i)
  <2>2. /\ v \in Seq(Byte) /\ Len(v) = n - (i + 1) + 1
        /\ SubSeq(T, i + 1, n + 1) = Append(v, b)
    BY <2>1, EndOfAppend DEF T
  <2>. HIDE DEF v, n
  <2>3. /\ v \in Seq(Byte) /\ Len(v) = n - i
        /\ SubSeq(T, i + 1, n + 1) = Append(v, b)
    BY <1>1, <2>2
  <2>4. v = <<>> <=> Len(v) = 0
    BY <2>3, EmptySeq
  <2>5. Append(v, b) # <<>>
    <3>1. v \in Seq(Byte)
      BY <2>3
    <3>. QED  BY <3>1, AppendProperties
  <2>6. AllDigits(Append(v, b)) <=> AllDigits(v) /\ b \in Digits
    BY <2>3, AppendDigits
  <2>7. v = <<>> <=> i = n
    BY <1>1, <2>3, <2>4
  <2>. QED  BY <2>3, <2>5, <2>6, <2>7 DEF v
<1>6. SubSeq(T, n + 1 + 1, n + 1) = <<>>
  BY <1>1, SubSeqEmpty
<1>7. n > 0 => AllDigits(End(n)) /\ Append(End(n), b) = <<b>>
  <2>1. n > 0 => End(n) = <<>>
    BY <1>1, <1>5
  <2>2. DOMAIN <<>> = {} /\ Append(<<>>, b) = <<b>>
    BY EmptySeq
  <2>. QED  BY <2>1, <2>2 DEF AllDigits
<1>. HIDE DEF End
<1>8. ASSUME d \in Spelled(T, <<>>)
      PROVE  /\ b \in Digits
             /\ \/ t # <<>> /\ t[n] = OPEN /\ d = <<b>>
                \/ \E c \in Spelled(t, <<>>) : d = Append(c, b)
  <2>1. PICK i \in 1 .. n + 1 : /\ T[i] = OPEN /\ d = SubSeq(T, i + 1, n + 1)
                                /\ d # <<>> /\ AllDigits(d)
    BY <1>2, <1>8
  <2>2. i # n + 1
    BY <2>1, <1>6
  <2>3. i \in 1 .. n
    BY <1>1, <2>2
  <2>4. /\ t[i] = OPEN /\ d = Append(End(i), b) /\ AllDigits(End(i)) /\ b \in Digits
        /\ (End(i) = <<>> <=> i = n)
    BY <1>1, <1>5, <2>1, <2>3
  <2>5. CASE i = n
    BY <1>1, <1>7, <2>3, <2>4, <2>5
  <2>6. CASE i # n
    BY <1>4, <2>3, <2>4, <2>6
  <2>. QED  BY <2>4, <2>5, <2>6
<1>9. ASSUME b \in Digits, t # <<>>, t[n] = OPEN, d = <<b>>
      PROVE  d \in Spelled(T, <<>>)
  <2>1. n \in 1 .. n /\ n \in 1 .. n + 1 /\ n > 0
    BY <1>1, <1>9
  <2>2. T[n] = OPEN /\ d = SubSeq(T, n + 1, n + 1) /\ d # <<>> /\ AllDigits(d)
    BY <1>1, <1>5, <1>7, <1>9, <2>1
  <2>. QED  BY <1>2, <2>1, <2>2
<1>10. ASSUME b \in Digits, NEW c \in Spelled(t, <<>>), d = Append(c, b)
       PROVE  d \in Spelled(T, <<>>)
  <2>1. PICK i \in 1 .. n : t[i] = OPEN /\ c = End(i) /\ c # <<>> /\ AllDigits(c)
    BY <1>4
  <2>2. i \in 1 .. n + 1
    BY <1>1
  <2>3. T[i] = OPEN /\ d = SubSeq(T, i + 1, n + 1) /\ d # <<>> /\ AllDigits(d)
    BY <1>1, <1>5, <1>10, <2>1
  <2>. QED  BY <1>2, <2>2, <2>3
<1>. QED  BY <1>8, <1>9, <1>10 DEF T, n

-----------------------------------------------------------------------------
(* What the state of the line parser says about the line so far.           *)

\* The text ends with an opening bracket, digits d whose number fits, and the
\* suffix.
Says(t, suffix, d) == d \in Spelled(t, suffix) /\ Number(d) <= MaxU32

\* The text ends with the announcement of a.
Announces(t, a) ==
  \E m \in Modes, d \in Seq(Byte) : Says(t, Suffix[m], d) /\ a = Announce(m, Number(d))

EndsWith(t, b) == t # <<>> /\ t[Len(t)] = b

\* s is the state after the bytes t of the line.
MeansBracket(t, s) == s.at = "OpeningBracket" <=> EndsWith(t, OPEN)

MeansDigit(t, s) ==
  /\ s.at = "Digit" <=> \E d \in Seq(Byte) : Says(t, <<>>, d)
  /\ \A d \in Seq(Byte) : Says(t, <<>>, d) => s.announcement = Announce("Sync", Number(d))

MeansPlus(t, s) ==
  /\ s.at = "Plus" <=> \E d \in Seq(Byte) : Says(t, <<PLUS>>, d)
  /\ \A d \in Seq(Byte) : Says(t, <<PLUS>>, d) => s.announcement = Announce("NonSync", Number(d))

MeansClosing(t, s) ==
  /\ s.at = "ClosingBracket" <=> \E a \in Announcement : Announces(t, a)
  /\ \A a : Announces(t, a) => s.announcement = a

MeansCr(t, s) ==
  /\ s.at = "Cr" <=> EndsWith(t, CR)
  /\ s.at = "Cr" => /\ \A a : Announces(Front(t), a) => s.announcement = a
                    /\ s.announcement # NoAnnouncement => Announces(Front(t), s.announcement)

Means(t, s) ==
  /\ MeansBracket(t, s) /\ MeansDigit(t, s) /\ MeansPlus(t, s)
  /\ MeansClosing(t, s) /\ MeansCr(t, s)

\* The parser of a new line has read nothing.

LEMMA SuffixIs ==
  /\ Suffix["Sync"] = <<CLOSE>> /\ Suffix["NonSync"] = <<PLUS, CLOSE>>
  /\ <<>> \in Seq(Byte) /\ <<PLUS>> \in Seq(Byte)
  /\ <<CLOSE>> \in Seq(Byte) /\ <<PLUS, CLOSE>> \in Seq(Byte)
  /\ <<PLUS>> = Append(<<>>, PLUS) /\ <<CLOSE>> = Append(<<>>, CLOSE)
  /\ <<PLUS, CLOSE>> = Append(<<PLUS>>, CLOSE)
<1>1. Suffix["Sync"] = <<CLOSE>> /\ Suffix["NonSync"] = <<PLUS, CLOSE>>
  BY DEF Suffix
<1>2. <<>> \in Seq(Byte) /\ PLUS \in Byte /\ CLOSE \in Byte
  BY EmptySeq DEF PLUS, CLOSE, Byte
<1>3. /\ <<PLUS>> = Append(<<>>, PLUS) /\ <<CLOSE>> = Append(<<>>, CLOSE)
      /\ <<PLUS, CLOSE>> = Append(<<PLUS>>, CLOSE)
  OBVIOUS
<1>4. <<PLUS>> \in Seq(Byte) /\ <<CLOSE>> \in Seq(Byte)
  BY <1>2
<1>5. <<PLUS, CLOSE>> \in Seq(Byte)
  BY <1>2
<1>. QED  BY <1>1, <1>2, <1>3, <1>4, <1>5

LEMMA AnnouncesType ==
  ASSUME NEW t \in Seq(Byte), NEW a, Announces(t, a)
  PROVE  a \in Announcement
<1>1. PICK m \in Modes, d \in Seq(Byte) : Says(t, Suffix[m], d) /\ a = Announce(m, Number(d))
  BY DEF Announces
<1>2. Suffix[m] \in Seq(Byte)
  BY SuffixIs DEF Modes
<1>3. Number(d) \in Nat /\ Number(d) <= MaxU32
  BY <1>1, <1>2, SpelledType DEF Says
<1>. QED  BY <1>1, <1>3, MaxU32Assumption DEF Announce, Announcement

\* The parser of a new line has read nothing.
LEMMA MeansNothing == Means(<<>>, Other)
<1>1. Other.at = "Other"
  BY DEF Other, At
<1>2. Len(<<>>) = 0
  BY EmptySeq
<1>3. ASSUME NEW suffix \in Seq(Byte), NEW d PROVE d \notin Spelled(<<>>, suffix)
  <2>. DEFINE end == Len(<<>>) - Len(suffix)
  <2>1. Len(suffix) \in Nat
    BY LenProperties
  <2>2. end \in Int /\ end <= 0
    BY <1>2, <2>1
  <2>3. d \in Spelled(<<>>, suffix) => 1 .. end # {}
    BY SpelledIs
  <2>. HIDE DEF end
  <2>. QED  BY <2>2, <2>3
<1>4. \A d : ~Says(<<>>, <<>>, d) /\ ~Says(<<>>, <<PLUS>>, d)
  BY <1>3, SuffixIs DEF Says
<1>5. \A a : ~Announces(<<>>, a)
  <2>1. \A m \in Modes : Suffix[m] \in Seq(Byte)
    BY SuffixIs DEF Modes
  <2>. QED  BY <1>3, <2>1 DEF Announces, Says
<1>6. ~EndsWith(<<>>, OPEN) /\ ~EndsWith(<<>>, CR)
  BY DEF EndsWith
<1>. QED  BY <1>1, <1>4, <1>5, <1>6
          DEF Means, MeansBracket, MeansDigit, MeansPlus, MeansClosing, MeansCr

\* The next state, state by state.
LEMMA NextAt ==
  ASSUME NEW s \in LatestByte, NEW b \in Byte
  PROVE  LET r == NextByte(s, b)
             length == s.announcement.length
             newLength == 10 * length + DigitValue(b)
         IN  /\ r.at = "OpeningBracket" <=> b = OPEN
             /\ r.at = "Cr" <=> b = CR
             /\ r.at = "Cr" => r.announcement = IF s.at = "ClosingBracket" THEN s.announcement
                                                ELSE NoAnnouncement
             /\ r.at = "Digit" <=> /\ b \in Digits
                                   /\ \/ s.at = "OpeningBracket"
                                      \/ s.at = "Digit" /\ newLength <= MaxU32
             /\ b \in Digits /\ s.at = "OpeningBracket"
                  => r.announcement = Announce("Sync", DigitValue(b))
             /\ b \in Digits /\ s.at = "Digit" /\ newLength <= MaxU32
                  => r.announcement = Announce("Sync", newLength)
             /\ r.at = "Plus" <=> b = PLUS /\ s.at = "Digit"
             /\ r.at = "Plus" => r.announcement = Announce("NonSync", length)
             /\ r.at = "ClosingBracket" <=> b = CLOSE /\ s.at \in {"Digit", "Plus"}
             /\ r.at = "ClosingBracket" => r.announcement = s.announcement
<1>. DEFINE r == NextByte(s, b)
            length == s.announcement.length
<1>. USE DEF CR, OPEN, PLUS, CLOSE, Digits
<1>1. CASE b = CR
  <2>1. r = CrAfter(s)
    BY <1>1 DEF NextByte
  <2>. QED  BY <1>1, <2>1 DEF CrAfter, At
<1>2. CASE b = OPEN
  <2>1. r = At("OpeningBracket", NoAnnouncement)
    BY <1>2 DEF NextByte
  <2>. QED  BY <1>2, <2>1 DEF At
<1>3. CASE b \in Digits /\ s.at = "OpeningBracket"
  <2>1. r = At("Digit", Announce("Sync", DigitValue(b)))
    BY <1>3 DEF NextByte
  <2>. QED  BY <1>3, <2>1 DEF At
<1>4. CASE b \in Digits /\ s.at = "Digit"
  <2>. DEFINE newLength == 10 * length + DigitValue(b)
  <2>1. r = Accumulate(length, b)
    BY <1>4 DEF NextByte
  <2>2. r = IF newLength <= MaxU32 THEN At("Digit", Announce("Sync", newLength)) ELSE Other
    BY <2>1 DEF Accumulate
  <2>. HIDE DEF newLength
  <2>3. /\ newLength <= MaxU32 => r.at = "Digit" /\ r.announcement = Announce("Sync", newLength)
        /\ ~(newLength <= MaxU32) => r.at = "Other"
    BY <2>2 DEF At, Other
  <2>. QED  BY <1>4, <2>3 DEF newLength
<1>5. CASE b = PLUS /\ s.at = "Digit"
  <2>1. r = At("Plus", Announce("NonSync", length))
    BY <1>5 DEF NextByte
  <2>. QED  BY <1>5, <2>1 DEF At
<1>6. CASE b = CLOSE /\ s.at \in {"Digit", "Plus"}
  <2>1. r = At("ClosingBracket", s.announcement)
    BY <1>6 DEF NextByte
  <2>. QED  BY <1>6, <2>1 DEF At
<1>7. CASE /\ b # CR /\ b # OPEN
           /\ ~(b \in Digits /\ s.at \in {"OpeningBracket", "Digit"})
           /\ ~(b = PLUS /\ s.at = "Digit") /\ ~(b = CLOSE /\ s.at \in {"Digit", "Plus"})
  <2>1. r = Other
    BY <1>7 DEF NextByte
  <2>. QED  BY <1>7, <2>1 DEF Other, At
<1>. QED  BY <1>1, <1>2, <1>3, <1>4, <1>5, <1>6, <1>7

LEMMA EndsWithAppended ==
  ASSUME NEW t \in Seq(Byte), NEW b \in Byte
  PROVE  /\ \A c : EndsWith(Append(t, b), c) <=> b = c
         /\ Front(Append(t, b)) = t
<1>. DEFINE T == Append(t, b)
<1>1. /\ T # <<>> /\ Len(T) = Len(t) + 1 /\ T[Len(t) + 1] = b /\ Len(t) \in Nat
  BY AppendProperties, LenProperties
<1>2. SubSeq(T, 1, Len(t)) = SubSeq(t, 1, Len(t))
  BY <1>1, SliceOfAppend
<1>3. SubSeq(t, 1, Len(t)) = t
  BY SubSeqFull
<1>4. Len(T) - 1 = Len(t)
  BY <1>1
<1>. HIDE DEF T
<1>. QED  BY <1>1, <1>2, <1>3, <1>4 DEF EndsWith, Front, T

\* One more byte of the announcement.
LEMMA SaysAppend ==
  ASSUME NEW t \in Seq(Byte), NEW suffix \in Seq(Byte), NEW b \in Byte, NEW c \in Byte,
         NEW d
  PROVE  Says(Append(t, b), Append(suffix, c), d) <=> b = c /\ Says(t, suffix, d)
BY SpelledAppend DEF Says

LEMMA SaysDigits ==
  ASSUME NEW t \in Seq(Byte), NEW b \in Byte, NEW d \in Seq(Byte)
  PROVE  Says(Append(t, b), <<>>, d) <=>
           /\ b \in Digits
           /\ \/ EndsWith(t, OPEN) /\ d = <<b>>
              \/ \E c \in Seq(Byte) : /\ Says(t, <<>>, c) /\ d = Append(c, b)
                                      /\ 10 * Number(c) + DigitValue(b) <= MaxU32
<1>. DEFINE T == Append(t, b)
<1>1. d \in Spelled(T, <<>>) <=>
        /\ b \in Digits
        /\ \/ t # <<>> /\ t[Len(t)] = OPEN /\ d = <<b>>
           \/ \E c \in Spelled(t, <<>>) : d = Append(c, b)
  BY SpelledDigits
<1>2. b \in Digits => DigitValue(b) \in 0 .. 9 /\ Number(<<b>>) = DigitValue(b)
  <2>1. b \in Digits => DigitValue(b) \in 0 .. 9
    BY DEF Digits, DigitValue
  <2>. QED  BY <2>1, NumberOfOne
<1>3. \A c \in Spelled(t, <<>>) : c \in Seq(Byte) /\ Number(c) \in Nat
  BY SpelledType, SuffixIs
<1>4. \A c \in Seq(Byte) : Number(Append(c, b)) = 10 * Number(c) + DigitValue(b)
  BY NumberOfAppend
<1>. HIDE DEF T
<1>5. ASSUME Says(T, <<>>, d), ~(EndsWith(t, OPEN) /\ d = <<b>>)
      PROVE  \E c \in Seq(Byte) : /\ Says(t, <<>>, c) /\ d = Append(c, b)
                                  /\ 10 * Number(c) + DigitValue(b) <= MaxU32
  <2>1. PICK c \in Spelled(t, <<>>) : d = Append(c, b)
    BY <1>1, <1>5 DEF Says, EndsWith
  <2>2. b \in Digits /\ 10 * Number(c) + DigitValue(b) <= MaxU32
    BY <1>1, <1>3, <1>4, <1>5, <2>1 DEF Says
  <2>3. Number(c) <= MaxU32
    BY <1>2, <1>3, <2>2, MaxU32Assumption
  <2>. QED  BY <1>3, <2>1, <2>2, <2>3 DEF Says
<1>6. ASSUME b \in Digits, EndsWith(t, OPEN), d = <<b>> PROVE Says(T, <<>>, d)
  <2>1. Number(d) <= MaxU32
    BY <1>2, <1>6, MaxU32Assumption
  <2>. QED  BY <1>1, <1>6, <2>1 DEF Says, EndsWith
<1>7. ASSUME b \in Digits, NEW c \in Seq(Byte), Says(t, <<>>, c), d = Append(c, b),
             10 * Number(c) + DigitValue(b) <= MaxU32
      PROVE  Says(T, <<>>, d)
  BY <1>1, <1>4, <1>7 DEF Says
<1>. QED  BY <1>1, <1>5, <1>6, <1>7 DEF Says, T

\* An announcement is complete with the closing bracket.
LEMMA AnnouncesAppend ==
  ASSUME NEW t \in Seq(Byte), NEW b \in Byte, NEW a
  PROVE  Announces(Append(t, b), a) <=>
           /\ b = CLOSE
           /\ \E d \in Seq(Byte) :
                \/ Says(t, <<>>, d) /\ a = Announce("Sync", Number(d))
                \/ Says(t, <<PLUS>>, d) /\ a = Announce("NonSync", Number(d))
<1>. DEFINE T == Append(t, b)
<1>1. \A d : Says(T, <<CLOSE>>, d) <=> b = CLOSE /\ Says(t, <<>>, d)
  <2>. TAKE d
  <2>1. CLOSE \in Byte /\ <<>> \in Seq(Byte)
    BY SuffixIs DEF CLOSE, Byte
  <2>2. Says(T, Append(<<>>, CLOSE), d) <=> b = CLOSE /\ Says(t, <<>>, d)
    BY <2>1, SaysAppend
  <2>3. <<CLOSE>> = Append(<<>>, CLOSE)
    BY SuffixIs
  <2>. HIDE DEF T
  <2>. QED  BY <2>2, <2>3, Zenon
<1>2. \A d : Says(T, <<PLUS, CLOSE>>, d) <=> b = CLOSE /\ Says(t, <<PLUS>>, d)
  <2>. TAKE d
  <2>1. CLOSE \in Byte /\ <<PLUS>> \in Seq(Byte)
    BY SuffixIs DEF CLOSE, Byte
  <2>2. Says(T, Append(<<PLUS>>, CLOSE), d) <=> b = CLOSE /\ Says(t, <<PLUS>>, d)
    BY <2>1, SaysAppend
  <2>3. <<PLUS, CLOSE>> = Append(<<PLUS>>, CLOSE)
    BY SuffixIs
  <2>. HIDE DEF T
  <2>. QED  BY <2>2, <2>3, Zenon
<1>. HIDE DEF T
<1>3. Announces(T, a) <=>
        \E d \in Seq(Byte) : \/ Says(T, Suffix["Sync"], d) /\ a = Announce("Sync", Number(d))
                             \/ Says(T, Suffix["NonSync"], d) /\ a = Announce("NonSync", Number(d))
  BY DEF Announces, Modes
<1>4. Suffix["Sync"] = <<CLOSE>> /\ Suffix["NonSync"] = <<PLUS, CLOSE>>
  BY SuffixIs
<1>5. Announces(T, a) <=>
        \E d \in Seq(Byte) : \/ Says(T, <<CLOSE>>, d) /\ a = Announce("Sync", Number(d))
                             \/ Says(T, <<PLUS, CLOSE>>, d) /\ a = Announce("NonSync", Number(d))
  BY <1>3, <1>4, Zenon
<1>6. Announces(T, a) <=>
           /\ b = CLOSE
           /\ \E d \in Seq(Byte) :
                \/ Says(t, <<>>, d) /\ a = Announce("Sync", Number(d))
                \/ Says(t, <<PLUS>>, d) /\ a = Announce("NonSync", Number(d))
  BY <1>1, <1>2, <1>5, Zenon
<1>. QED  BY <1>6 DEF T

\* One round of the loop of LineParser::parse keeps the meaning of the state.
LEMMA MeansStep ==
  ASSUME NEW t \in Seq(Byte), NEW s \in LatestByte, NEW b \in Byte, Means(t, s)
  PROVE  Means(Append(t, b), NextByte(s, b))
<1>. DEFINE T == Append(t, b)
            r == NextByte(s, b)
            length == s.announcement.length
            newLength == 10 * length + DigitValue(b)
<1>1. /\ r.at = "OpeningBracket" <=> b = OPEN
      /\ r.at = "Cr" <=> b = CR
      /\ r.at = "Cr" => r.announcement = IF s.at = "ClosingBracket" THEN s.announcement
                                         ELSE NoAnnouncement
      /\ r.at = "Digit" <=> /\ b \in Digits
                            /\ \/ s.at = "OpeningBracket"
                               \/ s.at = "Digit" /\ newLength <= MaxU32
      /\ b \in Digits /\ s.at = "OpeningBracket"
           => r.announcement = Announce("Sync", DigitValue(b))
      /\ b \in Digits /\ s.at = "Digit" /\ newLength <= MaxU32
           => r.announcement = Announce("Sync", newLength)
      /\ r.at = "Plus" <=> b = PLUS /\ s.at = "Digit"
      /\ r.at = "Plus" => r.announcement = Announce("NonSync", length)
      /\ r.at = "ClosingBracket" <=> b = CLOSE /\ s.at \in {"Digit", "Plus"}
      /\ r.at = "ClosingBracket" => r.announcement = s.announcement
  BY NextAt
<1>2. (\A c : EndsWith(T, c) <=> b = c) /\ Front(T) = t
  BY EndsWithAppended
<1>3. /\ s.at = "OpeningBracket" <=> EndsWith(t, OPEN)
      /\ s.at = "Digit" <=> \E d \in Seq(Byte) : Says(t, <<>>, d)
      /\ \A d \in Seq(Byte) : Says(t, <<>>, d) => s.announcement = Announce("Sync", Number(d))
      /\ s.at = "Plus" <=> \E d \in Seq(Byte) : Says(t, <<PLUS>>, d)
      /\ \A d \in Seq(Byte) : Says(t, <<PLUS>>, d) => s.announcement = Announce("NonSync", Number(d))
      /\ s.at = "ClosingBracket" <=> \E a \in Announcement : Announces(t, a)
      /\ \A a : Announces(t, a) => s.announcement = a
  BY DEF Means, MeansBracket, MeansDigit, MeansPlus, MeansClosing
<1>4. \A d \in Seq(Byte) : Says(T, <<>>, d) <=>
           /\ b \in Digits
           /\ \/ EndsWith(t, OPEN) /\ d = <<b>>
              \/ \E c \in Seq(Byte) : /\ Says(t, <<>>, c) /\ d = Append(c, b)
                                      /\ 10 * Number(c) + DigitValue(b) <= MaxU32
  BY SaysDigits
<1>5. \A d : Says(T, <<PLUS>>, d) <=> b = PLUS /\ Says(t, <<>>, d)
  <2>. TAKE d
  <2>1. PLUS \in Byte /\ <<>> \in Seq(Byte)
    BY SuffixIs DEF PLUS, Byte
  <2>2. Says(T, Append(<<>>, PLUS), d) <=> b = PLUS /\ Says(t, <<>>, d)
    BY <2>1, SaysAppend
  <2>3. <<PLUS>> = Append(<<>>, PLUS)
    BY SuffixIs
  <2>. HIDE DEF T
  <2>. QED  BY <2>2, <2>3, Zenon
<1>6. \A a : Announces(T, a) <=>
           /\ b = CLOSE
           /\ \E d \in Seq(Byte) :
                \/ Says(t, <<>>, d) /\ a = Announce("Sync", Number(d))
                \/ Says(t, <<PLUS>>, d) /\ a = Announce("NonSync", Number(d))
  BY AnnouncesAppend
<1>7. \A d \in Seq(Byte) : Says(t, <<>>, d) => length = Number(d)
  <2>1. \A k : Announce("Sync", k).length = k
    BY DEF Announce
  <2>. TAKE d \in Seq(Byte)
  <2>2. Says(t, <<>>, d) => s.announcement = Announce("Sync", Number(d))
    BY <1>3
  <2>. QED  BY <2>1, <2>2
<1>8. \A c \in Seq(Byte) : Append(c, b) \in Seq(Byte) /\ Number(Append(c, b)) = 10 * Number(c) + DigitValue(b)
  BY AppendProperties, NumberOfAppend
<1>9. b \in Digits => <<b>> \in Seq(Byte) /\ Number(<<b>>) = DigitValue(b)
  BY NumberOfOne
<1>10. \A a : Announces(T, a) => a \in Announcement
  <2>1. T \in Seq(Byte)
    BY AppendProperties
  <2>. HIDE DEF T
  <2>. QED  BY <2>1, AnnouncesType
<1>11. \A a : Announces(t, a) => a \in Announcement
  BY AnnouncesType
<1>. HIDE DEF T, r, length
<1>12. MeansBracket(T, r)
  BY <1>1, <1>2 DEF MeansBracket
<1>13. MeansDigit(T, r)
  <2>1. ASSUME NEW d \in Seq(Byte), Says(T, <<>>, d)
        PROVE  r.at = "Digit" /\ r.announcement = Announce("Sync", Number(d))
    <3>1. CASE EndsWith(t, OPEN) /\ d = <<b>>
      BY <1>1, <1>3, <1>4, <1>9, <2>1, <3>1
    <3>2. CASE \E c \in Seq(Byte) : /\ Says(t, <<>>, c) /\ d = Append(c, b)
                                    /\ 10 * Number(c) + DigitValue(b) <= MaxU32
      <4>1. PICK c \in Seq(Byte) : /\ Says(t, <<>>, c) /\ d = Append(c, b)
                                   /\ 10 * Number(c) + DigitValue(b) <= MaxU32
        BY <3>2
      <4>2. s.at = "Digit" /\ length = Number(c) /\ b \in Digits
        BY <1>3, <1>4, <1>7, <2>1, <4>1
      <4>3. newLength = Number(d) /\ newLength <= MaxU32
        BY <1>8, <4>1, <4>2
      <4>. HIDE DEF newLength
      <4>. QED  BY <1>1, <4>2, <4>3
    <3>. QED  BY <1>4, <2>1, <3>1, <3>2
  <2>2. ASSUME r.at = "Digit" PROVE \E d \in Seq(Byte) : Says(T, <<>>, d)
    <3>1. CASE s.at = "OpeningBracket"
      BY <1>1, <1>3, <1>4, <1>9, <2>2, <3>1
    <3>2. CASE s.at # "OpeningBracket"
      <4>1. b \in Digits /\ s.at = "Digit" /\ newLength <= MaxU32
        BY <1>1, <2>2, <3>2
      <4>2. PICK c \in Seq(Byte) : Says(t, <<>>, c) /\ length = Number(c)
        BY <1>3, <1>7, <4>1
      <4>3. Says(T, <<>>, Append(c, b))
        BY <1>4, <1>8, <4>1, <4>2
      <4>. QED  BY <1>8, <4>3
    <3>. QED  BY <3>1, <3>2
  <2>. QED  BY <2>1, <2>2 DEF MeansDigit
<1>. HIDE DEF newLength
<1>14. MeansPlus(T, r)
  <2>1. ASSUME NEW d \in Seq(Byte), Says(T, <<PLUS>>, d)
        PROVE  r.at = "Plus" /\ r.announcement = Announce("NonSync", Number(d))
    BY <1>1, <1>3, <1>5, <1>7, <2>1
  <2>2. ASSUME r.at = "Plus" PROVE \E d \in Seq(Byte) : Says(T, <<PLUS>>, d)
    BY <1>1, <1>3, <1>5, <2>2
  <2>. QED  BY <2>1, <2>2 DEF MeansPlus
<1>15. MeansClosing(T, r)
  <2>1. ASSUME NEW a, Announces(T, a)
        PROVE  a \in Announcement /\ r.at = "ClosingBracket" /\ r.announcement = a
    BY <1>1, <1>3, <1>6, <1>10, <2>1
  <2>2. ASSUME r.at = "ClosingBracket" PROVE \E a \in Announcement : Announces(T, a)
    <3>1. b = CLOSE /\ (s.at = "Digit" \/ s.at = "Plus")
      BY <1>1, <2>2
    <3>2. \E a : Announces(T, a)
      BY <1>3, <1>6, <3>1
    <3>. QED  BY <1>10, <3>2
  <2>. QED  BY <2>1, <2>2 DEF MeansClosing
<1>16. MeansCr(T, r)
  <2>1. ASSUME r.at = "Cr", NEW a, Announces(t, a) PROVE r.announcement = a
    BY <1>1, <1>3, <1>11, <2>1
  <2>2. ASSUME r.at = "Cr", r.announcement # NoAnnouncement
        PROVE  Announces(t, r.announcement)
    BY <1>1, <1>3, <2>2
  <2>. QED  BY <1>1, <1>2, <2>1, <2>2 DEF MeansCr
<1>. QED  BY <1>12, <1>13, <1>14, <1>15, <1>16 DEF Means, T, r

\* Reading more bytes, in one call, keeps the meaning of the state.
LEMMA MeansScan ==
  ASSUME NEW t \in Seq(Byte), NEW s \in LatestByte, NEW u \in Seq(Byte), Means(t, s),
         NEW n \in 0 .. Len(u)
  PROVE  Means(t \o SubSeq(u, 1, n), Scan(s, u)[n])
<1>. DEFINE Read(k) == t \o SubSeq(u, 1, k)
            Bad == {k \in 0 .. Len(u) : ~Means(Read(k), Scan(s, u)[k])}
<1>1. Len(u) \in Nat
  BY LenProperties
<1>2. ASSUME Bad # {} PROVE FALSE
  <2>1. PICK m \in Bad : \A k \in Bad : m <= k
    <3>1. Bad \subseteq Nat  BY <1>1
    <3>. HIDE DEF Bad
    <3>. QED  BY <3>1, <1>2, LeastNumber
  <2>2. m # 0
    <3>1. SubSeq(u, 1, 0) = <<>>
      BY SubSeqEmpty
    <3>2. t \o <<>> = t
      BY ConcatEmptySeq
    <3>3. Scan(s, u)[0] = s
      BY ScanEquations
    <3>. QED  BY <2>1, <3>1, <3>2, <3>3
  <2>3. m \in 1 .. Len(u) /\ m - 1 \in 0 .. Len(u) /\ m - 1 \notin Bad
    BY <2>1, <2>2, <1>1
  <2>4. Means(Read(m - 1), Scan(s, u)[m-1])
    BY <2>3
  <2>5. Scan(s, u)[m] = NextByte(Scan(s, u)[m-1], u[m])
    BY <2>3, ScanEquations
  <2>6. u[m] \in Byte /\ Scan(s, u)[m-1] \in LatestByte
    BY <2>3, ElementOfSeq, ScanType
  <2>7. Read(m - 1) \in Seq(Byte) /\ Read(m) = Append(Read(m - 1), u[m])
    <3>. DEFINE v == SubSeq(u, 1, m - 1)
                o == <<u[m]>>
    <3>1. v \in Seq(Byte)
      BY <2>3, PrefixProperties
    <3>2. SubSeq(u, 1, m) = v \o o
      <4>1. 1 \in 1 .. Len(u) /\ m \in 1 .. Len(u)
        BY <2>3
      <4>. QED  BY <4>1, SubSeqRecursiveSecond
    <3>3. o \in Seq(Byte)
      BY <2>6
    <3>4. t \o v \in Seq(Byte)
      <4>. HIDE DEF v
      <4>. QED  BY <3>1, ConcatProperties
    <3>5. (t \o v) \o o = t \o (v \o o)
      <4>. HIDE DEF v, o
      <4>. QED  BY <3>1, <3>3, ConcatAssociative
    <3>6. Append(t \o v, u[m]) = (t \o v) \o o
      <4>. HIDE DEF v
      <4>. QED  BY <2>6, <3>4, AppendIsConcat
    <3>. QED  BY <3>2, <3>4, <3>5, <3>6
  <2>. HIDE DEF Read
  <2>8. Means(Read(m), Scan(s, u)[m])
    BY <2>4, <2>5, <2>6, <2>7, MeansStep
  <2>. QED  BY <2>1, <2>8
<1>. HIDE DEF Read
<1>3. Means(Read(n), Scan(s, u)[n])
  BY <1>2
<1>. QED  BY <1>3 DEF Read

-----------------------------------------------------------------------------
(* Whole lines.                                                            *)

\* The announcements of the reference definition.
LEMMA AnnouncementsAre ==
  ASSUME NEW line, Content(line) \in Seq(Byte)
  PROVE  \A a : a \in AnnouncementsOf(line) <=> Announces(Content(line), a)
<1>. DEFINE c == Content(line)
<1>1. \A m \in Modes : Suffix[m] \in Seq(Byte)
  BY SuffixIs DEF Modes
<1>2. \A m \in Modes : \A d \in Spelled(c, Suffix[m]) : d \in Seq(Byte) /\ Number(d) \in Nat
  <2>. HIDE DEF c
  <2>. QED  BY <1>1, SpelledType DEF c
<1>3. \A m \in Modes, k \in Nat : Announce(m, k) \in Announcement <=> k <= MaxU32
  BY MaxU32Assumption DEF Announce, Announcement
<1>. TAKE a
<1>4. a \in AnnouncementsOf(line) <=>
        \E m \in Modes : \E d \in Spelled(c, Suffix[m]) :
          a = Announce(m, Number(d)) /\ a \in Announcement
  BY DEF AnnouncementsOf
<1>. HIDE DEF c
<1>5. a \in AnnouncementsOf(line) => Announces(c, a)
  BY <1>2, <1>3, <1>4 DEF Announces, Says
<1>6. Announces(c, a) => a \in AnnouncementsOf(line)
  BY <1>2, <1>3, <1>4 DEF Announces, Says
<1>. QED  BY <1>5, <1>6 DEF c

\* What LineParser::parse says of a line is what the whole line says.
LEMMA WholeLine ==
  ASSUME NEW t \in Seq(Byte), NEW s \in LatestByte, Means(t, s)
  PROVE  /\ LineAnnouncement(Append(t, LF)) = AnnouncementAt(s)
         /\ Ending(Append(t, LF)) = EndingAt(s)
<1>. DEFINE line == Append(t, LF)
<1>1. /\ line \in Seq(Byte) /\ Len(line) = Len(t) + 1 /\ Len(t) \in Nat
      /\ \A i \in 1 .. Len(t) : line[i] = t[i]
      /\ (t # <<>> <=> Len(t) > 0)
  <2>1. LF \in Byte
    BY DEF LF, Byte
  <2>. QED  BY <2>1, AppendProperties, LenProperties, EmptySeq
<1>2. LF \in Byte
  BY DEF LF, Byte
<1>3. \A e \in 0 .. Len(t) : SubSeq(line, 1, e) = SubSeq(t, 1, e)
  BY <1>1, <1>2, SliceOfAppend
<1>. HIDE DEF line
<1>4. Len(line) >= 2 /\ line[Len(line)-1] = CR <=> EndsWith(t, CR)
  <2>1. Len(line) - 1 = Len(t) /\ (Len(line) >= 2 <=> Len(t) > 0)
    BY <1>1
  <2>2. Len(t) > 0 => line[Len(t)] = t[Len(t)]
    BY <1>1
  <2>. QED  BY <1>1, <2>1, <2>2 DEF EndsWith
<1>5. Ending(line) = IF s.at = "Cr" THEN "CrLf" ELSE "Lf"
  BY <1>4 DEF Ending, Means, MeansCr
<1>6. ASSUME NEW c \in Seq(Byte), Content(line) = c, NEW b \in MaybeAnnouncement,
             \A a : Announces(c, a) => b = a,
             b # NoAnnouncement => Announces(c, b)
      PROVE  LineAnnouncement(line) = b
  <2>1. \A a : a \in AnnouncementsOf(line) <=> Announces(c, a)
    BY <1>6, AnnouncementsAre
  <2>2. CASE AnnouncementsOf(line) = {}
    BY <1>6, <2>1, <2>2 DEF LineAnnouncement
  <2>3. CASE AnnouncementsOf(line) # {}
    <3>1. (CHOOSE a \in AnnouncementsOf(line) : TRUE) \in AnnouncementsOf(line)
      BY <2>3
    <3>2. (CHOOSE a \in AnnouncementsOf(line) : TRUE) = b
      BY <1>6, <2>1, <3>1
    <3>. QED  BY <2>3, <3>2 DEF LineAnnouncement
  <2>. QED  BY <2>2, <2>3
<1>7. s.announcement \in MaybeAnnouncement /\ NoAnnouncement \in MaybeAnnouncement
  BY DEF LatestByte, MaybeAnnouncement
<1>8. CASE s.at = "Cr"
  <2>1. Len(t) > 0
    BY <1>1, <1>8 DEF Means, MeansCr, EndsWith
  <2>2. Content(line) = Front(t)
    <3>1. Len(line) - 2 = Len(t) - 1 /\ Len(t) - 1 \in 0 .. Len(t)
      BY <1>1, <2>1
    <3>. QED  BY <1>3, <1>5, <1>8, <3>1 DEF Content, Front
  <2>3. Front(t) \in Seq(Byte)
    <3>1. Len(t) - 1 \in 0 .. Len(t)
      BY <1>1, <2>1
    <3>. QED  BY <3>1, PrefixProperties DEF Front
  <2>4. /\ \A a : Announces(Front(t), a) => s.announcement = a
        /\ s.announcement # NoAnnouncement => Announces(Front(t), s.announcement)
    BY <1>8 DEF Means, MeansCr
  <2>5. LineAnnouncement(line) = s.announcement
    BY <1>6, <1>7, <2>2, <2>3, <2>4
  <2>. QED  BY <1>5, <1>8, <2>5 DEF AnnouncementAt, EndingAt, line
<1>9. CASE s.at # "Cr"
  <2>. DEFINE b == IF s.at = "ClosingBracket" THEN s.announcement ELSE NoAnnouncement
  <2>1. Content(line) = t
    <3>1. Len(line) - 1 = Len(t) /\ Len(t) \in 0 .. Len(t)
      BY <1>1
    <3>2. SubSeq(t, 1, Len(t)) = t
      BY SubSeqFull
    <3>. QED  BY <1>3, <1>5, <1>9, <3>1, <3>2 DEF Content
  <2>2. \A a : Announces(t, a) => s.at = "ClosingBracket" /\ s.announcement = a
    <3>. TAKE a
    <3>1. Announces(t, a) => a \in Announcement
      BY AnnouncesType
    <3>. QED  BY <3>1 DEF Means, MeansClosing
  <2>3. s.at = "ClosingBracket" => Announces(t, s.announcement)
    BY DEF Means, MeansClosing
  <2>4. LineAnnouncement(line) = b
    <3>1. b \in MaybeAnnouncement /\ (\A a : Announces(t, a) => b = a)
          /\ (b # NoAnnouncement => Announces(t, b))
      BY <1>7, <2>2, <2>3
    <3>. HIDE DEF b
    <3>. QED  BY <1>6, <2>1, <3>1
  <2>. QED  BY <1>5, <1>9, <2>4 DEF AnnouncementAt, EndingAt, line
<1>. QED  BY <1>8, <1>9

-----------------------------------------------------------------------------
(* The lines of a message.                                                 *)

\* Slices of a sequence that grows.
LEMMA SliceOfConcat ==
  ASSUME NEW p \in Seq(Byte), NEW w \in Seq(Byte),
         NEW a \in 1 .. Len(p) + 1, NEW e \in 0 .. Len(p)
  PROVE  SubSeq(p \o w, a, e) = SubSeq(p, a, e)
<1>. DEFINE T == p \o w
            l == SubSeq(T, a, e)
            r == SubSeq(p, a, e)
<1>1. /\ Len(p) \in Nat /\ Len(w) \in Nat /\ T \in Seq(Byte)
      /\ \A i \in 1 .. Len(p) : T[i] = p[i]
  BY LenProperties, ConcatProperties
<1>. HIDE DEF T
<1>2. \A i \in a .. e : p[i] \in Byte /\ T[i] = p[i] /\ T[i] \in Byte
  BY <1>1, ElementOfSeq
<1>3. a \in Int /\ e \in Int
  BY <1>1
<1>4. /\ l \in Seq(Byte) /\ Len(l) = IF a <= e THEN e - a + 1 ELSE 0
      /\ \A i \in 1 .. e - a + 1 : l[i] = T[a + i - 1]
  BY <1>2, <1>3, SubSeqProperties
<1>5. /\ r \in Seq(Byte) /\ Len(r) = IF a <= e THEN e - a + 1 ELSE 0
      /\ \A i \in 1 .. e - a + 1 : r[i] = p[a + i - 1]
  BY <1>2, <1>3, SubSeqProperties
<1>. HIDE DEF l, r
<1>6. \A i \in 1 .. Len(l) : l[i] = r[i]
  <2>1. \A i \in 1 .. Len(l) : i \in 1 .. e - a + 1 /\ a + i - 1 \in a .. e
    BY <1>3, <1>4
  <2>. QED  BY <1>2, <1>4, <1>5, <2>1
<1>7. l = r
  BY <1>4, <1>5, <1>6, SeqEqual
<1>. QED  BY <1>7 DEF l, r, T

LEMMA RestOfConcat ==
  ASSUME NEW p \in Seq(Byte), NEW w \in Seq(Byte), NEW m \in 0 .. Len(p)
  PROVE  /\ SubSeq(p, m + 1, Len(p)) \in Seq(Byte)
         /\ Len(SubSeq(p, m + 1, Len(p))) = Len(p) - m
         /\ SubSeq(p \o w, m + 1, Len(p) + Len(w)) = SubSeq(p, m + 1, Len(p)) \o w
<1>. DEFINE T == p \o w
            v == SubSeq(p, m + 1, Len(p))
            l == SubSeq(T, m + 1, Len(T))
            r == v \o w
<1>1. /\ Len(p) \in Nat /\ Len(w) \in Nat /\ T \in Seq(Byte)
      /\ Len(T) = Len(p) + Len(w)
      /\ \A i \in 1 .. Len(p) + Len(w) : T[i] = IF i <= Len(p) THEN p[i] ELSE w[i - Len(p)]
  BY LenProperties, ConcatProperties
<1>2. /\ v \in Seq(Byte) /\ Len(v) = Len(p) - m
      /\ \A i \in 1 .. Len(p) - m : v[i] = p[m + i]
  BY SuffixProperties
<1>. HIDE DEF T, v
<1>3. m \in 0 .. Len(T)
  BY <1>1
<1>4. /\ l \in Seq(Byte) /\ Len(l) = Len(T) - m
      /\ \A i \in 1 .. Len(T) - m : l[i] = T[m + i]
  BY <1>1, <1>3, SuffixProperties
<1>5. /\ r \in Seq(Byte) /\ Len(r) = Len(v) + Len(w)
      /\ \A i \in 1 .. Len(v) + Len(w) : r[i] = IF i <= Len(v) THEN v[i] ELSE w[i - Len(v)]
  <2>1. v \in Seq(Byte) /\ w \in Seq(Byte)
    BY <1>2
  <2>. QED  BY <2>1, ConcatProperties
<1>. HIDE DEF l, r
<1>6. Len(l) = Len(r)
  BY <1>1, <1>2, <1>4, <1>5
<1>7. ASSUME NEW i \in 1 .. Len(l) PROVE l[i] = r[i]
  <2>1. /\ i \in 1 .. Len(T) - m /\ m + i \in 1 .. Len(p) + Len(w)
        /\ i \in 1 .. Len(v) + Len(w) /\ (m + i <= Len(p) <=> i <= Len(v))
        /\ (i <= Len(v) => i \in 1 .. Len(p) - m)
        /\ m + i - Len(p) = i - Len(v)
    BY <1>1, <1>2, <1>4
  <2>2. l[i] = T[m + i]
    BY <1>4, <2>1
  <2>3. T[m + i] = IF m + i <= Len(p) THEN p[m + i] ELSE w[m + i - Len(p)]
    BY <1>1, <2>1
  <2>4. r[i] = IF i <= Len(v) THEN v[i] ELSE w[i - Len(v)]
    BY <1>5, <2>1
  <2>5. i <= Len(v) => v[i] = p[m + i]
    BY <1>2, <2>1
  <2>. QED  BY <2>1, <2>2, <2>3, <2>4, <2>5
<1>8. l = r
  BY <1>4, <1>5, <1>6, <1>7, SeqEqual
<1>. QED  BY <1>1, <1>2, <1>8 DEF l, r, v, T

\* What the parser of a line has read of it is all its state depends on.
LineMeans ==
  parser.kind = "Line" =>
    Means(SubSeq(parsed, parser.start + 1, Len(parsed)), parser.latest_byte)

\* The fragments lie within the message.
Within(fs, m) == \A i \in DOMAIN fs : fs[i].start <= fs[i].end /\ fs[i].end <= m
FragmentsWithinMessage == Within(fragments, Len(parsed))

\* A line fragment of the bytes says what it is.
LineSays(bytes, f) ==
  LET text == SubSeq(bytes, f.start + 1, f.end)
  IN  f.kind = "Line" =>
        /\ HasLf(text) /\ FirstLf(text) = Len(text)
        /\ f.announcement = LineAnnouncement(text)
        /\ f.ending = Ending(text)

LEMMA LinesSayIs ==
  LinesSayWhatTheyAnnounce <=> \A i \in DOMAIN fragments : LineSays(parsed, fragments[i])
BY DEF LinesSayWhatTheyAnnounce, LineSays, TextOf

LinesInv == LineMeans /\ FragmentsWithinMessage /\ LinesSayWhatTheyAnnounce

\* The same of the message progress works on.
LEMMA CurLines ==
  ASSUME TypeOK, FragmentsTileMessage, LiteralsAsAnnounced, LineIsOpen, LinesInv,
         CurParser.kind = "Line",
         NEW P, P = Cur(parsed, <<>>), NEW m, m = CurParser.start
  PROVE  /\ P \in Seq(Byte) /\ m \in 0 .. Len(P)
         /\ CurParser.latest_byte \in LatestByte
         /\ Means(SubSeq(P, m + 1, Len(P)), CurParser.latest_byte)
         /\ \A i \in m + 1 .. Len(P) : P[i] # LF
<1>1. P \in Seq(Byte) /\ Len(P) \in Nat
  BY CurTypes, LenProperties
<1>2. m \in Nat /\ CurParser.latest_byte \in LatestByte
  BY CurTypes, ParserCases
<1>3. m <= Len(P)
  BY CurFragments
<1>4. \A i \in m + 1 .. Len(P) : P[i] # LF
  BY CurLineIsOpen
<1>5. CASE IsMessageComplete
  <2>1. P = <<>> /\ Len(P) = 0 /\ m = 0 /\ CurParser.latest_byte = Other
    BY <1>5, EmptySeq DEF Cur, CurParser, NewLineParser, LineParser
  <2>2. SubSeq(P, m + 1, Len(P)) = <<>>
    BY <2>1, SubSeqEmpty
  <2>3. Means(SubSeq(P, m + 1, Len(P)), CurParser.latest_byte)
    BY <2>1, <2>2, MeansNothing, Zenon
  <2>. QED  BY <1>1, <1>2, <1>3, <1>4, <2>3
<1>6. CASE ~IsMessageComplete
  <2>1. P = parsed /\ CurParser = parser
    BY <1>6 DEF Cur, CurParser
  <2>2. Means(SubSeq(P, m + 1, Len(P)), CurParser.latest_byte)
    BY <2>1 DEF LinesInv, LineMeans
  <2>. QED  BY <1>1, <1>2, <1>3, <1>4, <2>2
<1>. QED  BY <1>5, <1>6

LEMMA CurLinesSay ==
  ASSUME TypeOK, LinesInv
  PROVE  /\ Within(Cur(fragments, <<>>), Len(Cur(parsed, <<>>)))
         /\ \A i \in DOMAIN Cur(fragments, <<>>) :
              LineSays(Cur(parsed, <<>>), Cur(fragments, <<>>)[i])
<1>1. CASE IsMessageComplete
  <2>1. Cur(fragments, <<>>) = <<>> /\ DOMAIN <<>> = {}
    BY <1>1, EmptySeq DEF Cur
  <2>. QED  BY <2>1 DEF Within
<1>2. CASE ~IsMessageComplete
  <2>1. Cur(fragments, <<>>) = fragments /\ Cur(parsed, <<>>) = parsed
    BY <1>2 DEF Cur
  <2>2. FragmentsWithinMessage /\ \A i \in DOMAIN fragments : LineSays(parsed, fragments[i])
    BY LinesSayIs DEF LinesInv
  <2>. QED  BY <2>1, <2>2 DEF FragmentsWithinMessage
<1>. QED  BY <1>1, <1>2

\* What a line fragment says does not change while the message grows.
LEMMA LinesStillSay ==
  ASSUME NEW p \in Seq(Byte), NEW w \in Seq(Byte), NEW f \in FragmentInfo,
         f.start <= f.end, f.end <= Len(p), LineSays(p, f)
  PROVE  LineSays(p \o w, f)
<1>1. f.start \in Nat /\ f.end \in Nat /\ Len(p) \in Nat
  BY LenProperties DEF FragmentInfo
<1>2. f.start + 1 \in 1 .. Len(p) + 1 /\ f.end \in 0 .. Len(p)
  BY <1>1
<1>3. SubSeq(p \o w, f.start + 1, f.end) = SubSeq(p, f.start + 1, f.end)
  BY <1>2, SliceOfConcat
<1>. QED  BY <1>3 DEF LineSays

\* The fragments found so far still are what they were.
LEMMA OldFragments ==
  ASSUME TypeOK, LinesInv, NEW n \in 0 .. Len(unparsed_buffer), DequeueParsedBytes(n)
  PROVE  /\ Within(Cur(fragments, <<>>), Len(parsed'))
         /\ \A i \in DOMAIN Cur(fragments, <<>>) : LineSays(parsed', Cur(fragments, <<>>)[i])
<1>. DEFINE P == Cur(parsed, <<>>)
            fs == Cur(fragments, <<>>)
            w == SubSeq(unparsed_buffer, 1, n)
<1>1. /\ P \in Seq(Byte) /\ Len(P) \in Nat /\ fs \in Seq(FragmentInfo)
      /\ unparsed_buffer \in Seq(Byte) /\ n \in Nat
  BY CurTypes, LenProperties DEF TypeOK
<1>2. w \in Seq(Byte) /\ parsed' = P \o w
  BY <1>1, PrefixProperties DEF DequeueParsedBytes
<1>3. Len(parsed') = Len(P) + n
  BY ParsedGrows
<1>4. Within(fs, Len(P)) /\ \A i \in DOMAIN fs : LineSays(P, fs[i])
  BY CurLinesSay
<1>5. ASSUME NEW i \in DOMAIN fs
      PROVE  /\ fs[i] \in FragmentInfo /\ fs[i].start \in Nat /\ fs[i].end \in Nat
             /\ fs[i].start <= fs[i].end /\ fs[i].end <= Len(P)
  <2>1. fs[i] \in FragmentInfo
    BY <1>1, <1>5, LenProperties, ElementOfSeq
  <2>. QED  BY <1>4, <2>1 DEF Within, FragmentInfo
<1>. HIDE DEF P, fs, w
<1>6. \A i \in DOMAIN fs : fs[i].end <= Len(parsed')
  BY <1>1, <1>3, <1>5
<1>7. \A i \in DOMAIN fs : LineSays(P \o w, fs[i])
  BY <1>1, <1>2, <1>4, <1>5, LinesStillSay
<1>. QED  BY <1>2, <1>5, <1>6, <1>7 DEF Within, fs

-----------------------------------------------------------------------------
(* The calls of progress.                                                  *)

LEMMA PartialLineKeepsLines ==
  ASSUME TypeOK, FragmentsTileMessage, LiteralsAsAnnounced, LineIsOpen, LinesInv,
         ProgressPartialLine
  PROVE  LinesInv'
<1>. DEFINE P == Cur(parsed, <<>>)
            u == unparsed_buffer
            n == Len(u)
            m == CurParser.start
            w == SubSeq(u, 1, n)
            s == Scan(CurParser.latest_byte, u)[n]
<1>1. u \in Seq(Byte) /\ n \in Nat /\ n \in 0 .. Len(u)
  BY LenProperties DEF TypeOK
<1>2. /\ CurParser.kind = "Line" /\ DequeueParsedBytes(n)
      /\ parser' = LineParser(m, CurParser.end + n, s)
      /\ fragments' = Cur(fragments, <<>>)
  BY DEF ProgressPartialLine, ReturnNone
<1>3. /\ P \in Seq(Byte) /\ m \in 0 .. Len(P) /\ CurParser.latest_byte \in LatestByte
      /\ Means(SubSeq(P, m + 1, Len(P)), CurParser.latest_byte)
  BY <1>2, CurLines
<1>4. parsed' = P \o w /\ w \in Seq(Byte) /\ Len(w) = n
  BY <1>1, <1>2, PrefixProperties DEF DequeueParsedBytes
<1>5. Len(parsed') = Len(P) + n
  BY <1>1, <1>2, ParsedGrows
<1>6. Within(fragments', Len(parsed')) /\ \A i \in DOMAIN fragments' : LineSays(parsed', fragments'[i])
  BY <1>1, <1>2, OldFragments
<1>7. FragmentsWithinMessage' /\ LinesSayWhatTheyAnnounce'
  BY <1>6 DEF FragmentsWithinMessage, LinesSayWhatTheyAnnounce, LineSays, TextOf
<1>8. parser'.kind = "Line" /\ parser'.start = m /\ parser'.latest_byte = s
  BY <1>2 DEF LineParser
<1>. HIDE DEF P, u, m
<1>. DEFINE L == SubSeq(P, m + 1, Len(P))
<1>9. L \in Seq(Byte) /\ SubSeq(P \o w, m + 1, Len(P) + n) = L \o w
  <2>. HIDE DEF w, n
  <2>. QED  BY <1>3, <1>4, RestOfConcat
<1>10. Means(L \o w, s)
  <2>1. Means(L, CurParser.latest_byte)
    BY <1>3
  <2>. HIDE DEF L
  <2>. QED  BY <1>1, <1>3, <1>9, <2>1, MeansScan
<1>11. LineMeans'
  <2>1. SubSeq(parsed', m + 1, Len(parsed')) = L \o w
    BY <1>4, <1>5, <1>9
  <2>. HIDE DEF L, w, s, n
  <2>. QED  BY <1>8, <1>10, <2>1 DEF LineMeans
<1>. QED  BY <1>7, <1>11 DEF LinesInv

\* A new parser has read nothing.
LEMMA NewParserMeans ==
  ASSUME NEW f \in FragmentInfo, parser' = ParserAfter(f), f.end = Len(parsed')
  PROVE  LineMeans'
<1>1. ASSUME parser'.kind = "Line"
      PROVE  parser'.start = Len(parsed') /\ parser'.latest_byte = Other
  BY <1>1 DEF ParserAfter, NewLineParser, LineParser, NewLiteralParser,
              LiteralParser, NoParser
<1>2. Len(parsed') \in Nat
  BY DEF FragmentInfo
<1>3. SubSeq(parsed', Len(parsed') + 1, Len(parsed')) = <<>>
  BY <1>2, SubSeqEmpty
<1>. QED  BY <1>1, <1>3, MeansNothing DEF LineMeans

\* One more fragment.
LEMMA FinishKeepsLines ==
  ASSUME TypeOK, FragmentsTileMessage, LiteralsAsAnnounced, LinesInv,
         NEW n \in 0 .. Len(unparsed_buffer), DequeueParsedBytes(n),
         NEW f \in FragmentInfo, Finishes(f, n), LineSays(parsed', f)
  PROVE  LinesInv'
<1>. DEFINE fs == Cur(fragments, <<>>)
            gs == Append(fs, f)
<1>1. /\ fragments' = gs /\ parser' = ParserAfter(f)
      /\ f.start = CurParser.start /\ f.end = CurParser.end + n
  BY DEF Finishes, ReturnFragment
<1>2. /\ Len(parsed') = Len(Cur(parsed, <<>>)) + n
      /\ CurParser.end = Len(Cur(parsed, <<>>)) /\ CurParser.start <= CurParser.end
  BY ParsedGrows, CurFragments
<1>3. /\ f.start <= f.end /\ f.end = Len(parsed') /\ f.end \in Nat
  <2>1. CurParser.start \in Nat /\ CurParser.end \in Nat /\ n \in Nat
    BY CurTypes, ParserCases, LenProperties DEF TypeOK
  <2>. QED  BY <1>1, <1>2, <2>1
<1>4. LineMeans'
  BY <1>1, <1>3, NewParserMeans
<1>5. /\ fs \in Seq(FragmentInfo) /\ DOMAIN fs = 1 .. Len(fs) /\ Len(fs) \in Nat
      /\ DOMAIN gs = 1 .. Len(fs) + 1
      /\ \A i \in 1 .. Len(fs) : gs[i] = fs[i]
      /\ gs[Len(fs) + 1] = f
  BY CurTypes, AppendProperties, LenProperties
<1>6. Within(fs, Len(parsed')) /\ \A i \in DOMAIN fs : LineSays(parsed', fs[i])
  BY OldFragments
<1>. HIDE DEF fs, gs
<1>7. \A i \in DOMAIN gs : (i \in DOMAIN fs /\ gs[i] = fs[i]) \/ gs[i] = f
  BY <1>5
<1>8. Within(gs, Len(parsed'))
  BY <1>3, <1>6, <1>7 DEF Within
<1>9. \A i \in DOMAIN gs : LineSays(parsed', gs[i])
  BY <1>6, <1>7
<1>10. FragmentsWithinMessage' /\ LinesSayWhatTheyAnnounce'
  BY <1>1, <1>8, <1>9 DEF FragmentsWithinMessage, LinesSayWhatTheyAnnounce, LineSays, TextOf
<1>. QED  BY <1>4, <1>10 DEF LinesInv

\* The first LF ends the line.
LEMMA LineKeepsLines ==
  ASSUME TypeOK, FragmentsTileMessage, LiteralsAsAnnounced, LineIsOpen, LinesInv,
         ProgressLine
  PROVE  LinesInv'
<1>. DEFINE P == Cur(parsed, <<>>)
            u == unparsed_buffer
            n == FirstLf(u)
            m == CurParser.start
            w == SubSeq(u, 1, n)
            v == SubSeq(u, 1, n - 1)
            s == Scan(CurParser.latest_byte, u)[n-1]
            f == LineInfo(m, CurParser.end + n, AnnouncementAt(s), EndingAt(s))
            L == SubSeq(P, m + 1, Len(P))
            t == L \o v
<1>1. u \in Seq(Byte) /\ Len(u) \in Nat
  BY LenProperties DEF TypeOK
<1>2. /\ CurParser.kind = "Line" /\ DequeueParsedBytes(n) /\ HasLf(u)
      /\ ReturnFragment(f)
  BY DEF ProgressLine
<1>3. n \in 1 .. Len(u) /\ u[n] = LF /\ \A j \in 1 .. Len(u) : u[j] = LF => n <= j
  BY <1>1, <1>2, FirstLfProperties
<1>. HIDE DEF n
<1>4. n \in 0 .. Len(u) /\ n - 1 \in 0 .. Len(u) /\ n \in Nat /\ 1 \in 1 .. Len(u)
  BY <1>1, <1>3
<1>5. /\ P \in Seq(Byte) /\ m \in 0 .. Len(P) /\ CurParser.latest_byte \in LatestByte
      /\ Means(L, CurParser.latest_byte)
      /\ \A i \in m + 1 .. Len(P) : P[i] # LF
  BY <1>2, CurLines
<1>6. parsed' = P \o w
  BY <1>2 DEF DequeueParsedBytes
<1>7. w \in Seq(Byte) /\ Len(w) = n
  BY <1>1, <1>4, PrefixProperties
<1>8. /\ v \in Seq(Byte) /\ Len(v) = n - 1
      /\ \A i \in 1 .. n - 1 : v[i] = u[i]
  BY <1>1, <1>4, PrefixProperties
<1>9. /\ f.kind = "Line" /\ f.start = m /\ f.end = CurParser.end + n
      /\ f.announcement = AnnouncementAt(s) /\ f.ending = EndingAt(s)
  BY DEF LineInfo
<1>10. s \in LatestByte
  BY <1>1, <1>4, <1>5, ScanType
<1>11. CurParser.end \in Nat /\ m \in Nat /\ CurParser.end = Len(P)
  BY CurTypes, ParserCases, <1>2, CurFragments
<1>12. f \in FragmentInfo
  <2>. HIDE DEF s, m
  <2>. QED  BY <1>4, <1>10, <1>11, AnnouncementTypes, InfoTypes
<1>. HIDE DEF P, u, w, v, s, f, m
<1>13. /\ L \in Seq(Byte) /\ Len(L) = Len(P) - m
       /\ \A i \in 1 .. Len(P) - m : L[i] = P[m + i]
  BY <1>5, SuffixProperties
<1>14. SubSeq(P \o w, m + 1, Len(P) + Len(w)) = L \o w
  BY <1>5, <1>7, RestOfConcat
<1>. HIDE DEF L
<1>15. Means(t, s)
  BY <1>1, <1>4, <1>5, <1>13, MeansScan DEF v, s
<1>16. w = v \o <<LF>>
  BY <1>3, <1>4, SubSeqRecursiveSecond DEF w, v
<1>17. LF \in Byte /\ <<LF>> \in Seq(Byte)
  BY DEF LF, Byte
<1>18. t \in Seq(Byte) /\ Len(t) = Len(L) + Len(v)
       /\ \A i \in 1 .. Len(L) + Len(v) : t[i] = IF i <= Len(L) THEN L[i] ELSE v[i - Len(L)]
  BY <1>8, <1>13, ConcatProperties
<1>19. L \o w = Append(t, LF)
  <2>1. (L \o v) \o <<LF>> = L \o (v \o <<LF>>)
    BY <1>8, <1>13, <1>17, ConcatAssociative
  <2>2. Append(t, LF) = t \o <<LF>>
    <3>. HIDE DEF t
    <3>. QED  BY <1>17, <1>18, AppendIsConcat
  <2>. QED  BY <1>16, <2>1, <2>2
<1>20. \A i \in 1 .. Len(t) : t[i] # LF
  <2>1. Len(P) \in Nat /\ m \in Nat
    BY <1>5, LenProperties
  <2>2. \A i \in 1 .. Len(P) - m : m + i \in m + 1 .. Len(P)
    BY <2>1
  <2>3. \A i \in 1 .. Len(L) : L[i] # LF
    BY <1>5, <1>13, <2>2
  <2>4. \A i \in 1 .. n - 1 : i \in 1 .. Len(u) /\ ~(n <= i)
    BY <1>1, <1>3
  <2>5. \A i \in 1 .. Len(v) : v[i] # LF
    BY <1>3, <1>8, <2>4
  <2>6. Len(L) \in Nat /\ Len(v) \in Nat
    BY <1>8, <1>13, LenProperties
  <2>7. \A i \in 1 .. Len(L) + Len(v) : i \in 1 .. Len(L) \/ (~(i <= Len(L)) /\ i - Len(L) \in 1 .. Len(v))
    BY <2>6
  <2>8. \A i \in 1 .. Len(L) : i <= Len(L)
    BY <2>6
  <2>. HIDE DEF t
  <2>. QED  BY <1>18, <2>3, <2>5, <2>7, <2>8
<1>. HIDE DEF t
<1>. DEFINE text == Append(t, LF)
<1>21. /\ text \in Seq(Byte) /\ Len(text) = Len(t) + 1 /\ Len(t) \in Nat
       /\ \A i \in 1 .. Len(t) : text[i] = t[i]
       /\ text[Len(t) + 1] = LF
       /\ DOMAIN text = 1 .. Len(text) /\ text # <<>>
  BY <1>17, <1>18, AppendProperties, LenProperties
<1>22. LineAnnouncement(text) = AnnouncementAt(s) /\ Ending(text) = EndingAt(s)
  BY <1>10, <1>15, <1>18, WholeLine
<1>. HIDE DEF text
<1>23. HasLf(text) /\ FirstLf(text) = Len(text)
  <2>1. HasLf(text)
    <3>1. Len(t) + 1 \in DOMAIN text
      BY <1>21
    <3>. QED  BY <1>21, <3>1 DEF HasLf
  <2>2. /\ FirstLf(text) \in 1 .. Len(text) /\ text[FirstLf(text)] = LF
    BY <1>21, <2>1, FirstLfProperties
  <2>3. \A i \in 1 .. Len(t) : text[i] # LF
    BY <1>20, <1>21
  <2>. QED  BY <1>21, <2>1, <2>2, <2>3
<1>24. /\ SubSeq(parsed', f.start + 1, f.end) = text
  <2>1. f.end = Len(P) + Len(w)
    BY <1>7, <1>9, <1>11
  <2>. QED  BY <1>6, <1>9, <1>14, <1>19, <2>1 DEF text
<1>25. LineSays(parsed', f)
  BY <1>9, <1>21, <1>22, <1>23, <1>24 DEF LineSays
<1>26. Finishes(f, n)
  BY <1>2, <1>9 DEF Finishes, m
<1>27. n \in 0 .. Len(unparsed_buffer)
  BY <1>4 DEF u
<1>. QED  BY <1>2, <1>12, <1>25, <1>26, <1>27, FinishKeepsLines

\* The bytes of a literal, and every other step, leave the lines alone.
LEMMA LiteralKeepsLines ==
  ASSUME TypeOK, FragmentsTileMessage, LiteralsAsAnnounced, LinesInv,
         ProgressPartialLiteral \/ ProgressLiteral
  PROVE  LinesInv'
<1>1. CurParser.kind = "Literal" /\ Progress
  BY DEF ProgressPartialLiteral, ProgressLiteral, Progress
<1>2. PICK n \in 0 .. Len(unparsed_buffer) :
        /\ DequeueParsedBytes(n)
        /\ \/ \E p \in Parser \ {NoParser} : Continues(p, n)
           \/ \E f \in FragmentInfo : Finishes(f, n)
  BY <1>1, ProgressStep
<1>3. ASSUME NEW p \in Parser \ {NoParser}, Continues(p, n) PROVE LinesInv'
  <2>1. fragments' = Cur(fragments, <<>>) /\ parser'.kind = "Literal"
    BY <1>1, <1>3 DEF Continues, ReturnNone
  <2>2. Within(fragments', Len(parsed')) /\ \A i \in DOMAIN fragments' : LineSays(parsed', fragments'[i])
    BY <1>2, <2>1, OldFragments
  <2>3. LineMeans'
    BY <2>1 DEF LineMeans
  <2>. QED  BY <2>2, <2>3 DEF LinesInv, FragmentsWithinMessage, LinesSayWhatTheyAnnounce,
                              LineSays, TextOf
<1>4. ASSUME NEW f \in FragmentInfo, Finishes(f, n) PROVE LinesInv'
  <2>1. LineSays(parsed', f)
    BY <1>1, <1>4 DEF Finishes, LineSays
  <2>. QED  BY <1>2, <1>4, <2>1, FinishKeepsLines
<1>. QED  BY <1>2, <1>3, <1>4

LEMMA NewMessageLines ==
  ASSUME parser' = NewLineParser(0), parsed' = <<>>, fragments' = <<>>
  PROVE  LinesInv'
<1>1. /\ parser'.start = 0 /\ parser'.latest_byte = Other
      /\ Len(parsed') = 0 /\ DOMAIN fragments' = {}
  BY EmptySeq DEF NewLineParser, LineParser
<1>2. SubSeq(parsed', 0 + 1, 0) = <<>>
  BY SubSeqEmpty
<1>3. LineMeans'
  BY <1>1, <1>2, MeansNothing DEF LineMeans
<1>. QED  BY <1>1, <1>3 DEF LinesInv, FragmentsWithinMessage, Within, LinesSayWhatTheyAnnounce

LEMMA NextKeepsLines ==
  /\ TypeOK /\ FragmentsTileMessage /\ LiteralsAsAnnounced /\ LineIsOpen
  /\ LinesInv /\ [Next]_vars
  => LinesInv'
<1>. SUFFICES ASSUME TypeOK, FragmentsTileMessage, LiteralsAsAnnounced, LineIsOpen,
                     LinesInv, [Next]_vars
              PROVE  LinesInv'
  OBVIOUS
<1>1. CASE UNCHANGED <<parser, parsed, fragments>>
  BY <1>1 DEF LinesInv, LineMeans, FragmentsWithinMessage, LinesSayWhatTheyAnnounce, TextOf
<1>2. CASE Progress
  BY <1>2, PartialLineKeepsLines, LineKeepsLines, LiteralKeepsLines DEF Progress
<1>3. CASE SkipMessage
  BY <1>3, NewMessageLines DEF SkipMessage
<1>. QED  BY <1>1, <1>2, <1>3 DEF Next, Enqueue, EnqueueBytes, PoisonMessage, vars

LEMMA InitLines == Init => LinesInv
<1>1. SUFFICES ASSUME Init PROVE LinesInv
  OBVIOUS
<1>2. /\ parser.start = 0 /\ parser.latest_byte = Other
      /\ Len(parsed) = 0 /\ DOMAIN fragments = {}
  BY <1>1, EmptySeq DEF Init, NewLineParser, LineParser
<1>3. SubSeq(parsed, 0 + 1, 0) = <<>>
  BY SubSeqEmpty
<1>4. LineMeans
  BY <1>2, <1>3, MeansNothing DEF LineMeans
<1>. QED  BY <1>2, <1>4 DEF LinesInv, FragmentsWithinMessage, Within, LinesSayWhatTheyAnnounce

LEMMA LinesInvariant == Spec => []LinesInv
BY InitLines, NextKeepsLines, TypeCorrect, FragmentsCorrect, LineStaysOpen, PTL DEF Spec

\* However many calls of progress it took to read a line and whatever came
\* before it: the line ends at its first LF, and LineParser::parse finds in it
\* the announcement and the line ending that the whole line spells out.
THEOREM LinesCorrect == Spec => []LinesSayWhatTheyAnnounce
<1>1. LinesInv => LinesSayWhatTheyAnnounce
  BY DEF LinesInv
<1>. QED  BY <1>1, LinesInvariant, PTL

-----------------------------------------------------------------------------
(* For the proofs about the owners of a fragmentizer.                      *)

\* Three strings of bytes, one after the other.
LEMMA BytesAssociate ==
  \A s, t, u \in Seq(Byte) : (s \o t) \o u = s \o (t \o u)
BY ConcatAssociative

\* What is invariant of the fragments of a message.
FragmentsInv ==
  FragmentsTileMessage /\ LiteralsAsAnnounced /\ LineIsOpen /\ LinesInv

LEMMA InitFragmentsInv == Init => FragmentsInv
<1>1. SUFFICES ASSUME Init PROVE FragmentsInv
  OBVIOUS
<1>2. FragmentsTileMessage /\ LiteralsAsAnnounced
  BY <1>1, FreshFragments DEF Init
<1>. QED  BY <1>1, <1>2, InitLineOpen, InitLines DEF FragmentsInv

LEMMA NextKeepsFragmentsInv ==
  ASSUME TypeOK, FragmentsInv, [Next]_vars
  PROVE  FragmentsInv'
BY NextKeepsFragments, NextKeepsLineOpen, NextKeepsLines DEF FragmentsInv

LEMMA SameFragments ==
  ASSUME FragmentsInv, UNCHANGED <<parser, parsed, fragments>>
  PROVE  FragmentsInv'
BY DEF FragmentsInv, FragmentsTileMessage, LiteralsAsAnnounced, LineIsOpen, LinesInv,
       LineMeans, FragmentsWithinMessage, LinesSayWhatTheyAnnounce, TextOf,
       IsMessageComplete
=============================================================================
