---------------------------- MODULE Fragmentizer ----------------------------
(***************************************************************************)
(* imap-codec/src/fragmentizer.rs: splits the bytes received from a peer   *)
(* into the line and literal fragments of IMAP messages, without decoding  *)
(* them, and keeps at most max_message_size bytes of the current message.  *)
(*                                                                         *)
(* One action per public method that changes state.  The methods that only *)
(* read (fragment_bytes, decode_tag, decode_message, is_message_complete)  *)
(* are operators.  Positions are usize and not bounded here; the announced *)
(* length is a u32 whose width is the constant MaxU32.                     *)
(***************************************************************************)
EXTENDS WireFormat

CONSTANTS
  Limits,     \* the values max_message_size may have: subset of MaybeLimit
  Chunks,     \* the slices of bytes a caller may enqueue
  MaxBytes    \* bound of the model: bytes of a message plus unparsed bytes

\* Option<u32> of max_message_size; NoLimit is None, which allows any size.
NoLimit == -1
MaybeLimit == Nat \cup {NoLimit}

ASSUME FragmentizerAssumption ==
  /\ Limits \subseteq MaybeLimit
  /\ Chunks \subseteq Seq(Byte)
  /\ MaxBytes \in Nat

VARIABLES
  unparsed_buffer,            \* enqueued, not parsed yet
  max_message_size,           \* fixed by the constructor
  max_message_size_exceeded,  \* bytes of the current message were dropped
  message_poisoned,           \* decoding of the current message is prevented
  message_buffer,             \* the kept bytes of the current message
  parser,                     \* parser of the next fragment, or NoParser
  (* history: what has been parsed of the current message *)
  parsed,                     \* its bytes, those that were dropped included
  fragments                   \* the fragments that progress returned for it

vars == <<unparsed_buffer, max_message_size, max_message_size_exceeded,
          message_poisoned, message_buffer, parser, parsed, fragments>>

-----------------------------------------------------------------------------
(* LatestByte: the latest byte of a line and what was accumulated so far.  *)

States == {"Other", "OpeningBracket", "Digit", "Plus", "ClosingBracket", "Cr"}

\* Digit and Plus carry a length, ClosingBracket an announcement and Cr an
\* optional announcement; the other states carry nothing.
LatestByte == [at : States, announcement : MaybeAnnouncement]

At(s, a) == [at |-> s, announcement |-> a]
Other == At("Other", NoAnnouncement)

\* Mutant: the length wraps around at u32::MAX.
AccumulateWrapping(length, b) ==
  At("Digit", Announce("Sync", (10 * length + DigitValue(b)) % (MaxU32 + 1)))

\* Mutant: the length is not checked against u32::MAX.
AccumulateUnchecked(length, b) ==
  At("Digit", Announce("Sync", 10 * length + DigitValue(b)))

\* length.checked_mul(10).and_then(|x| x.checked_add(digit)): one more digit
\* ends the announcement when the length would exceed u32::MAX.
Accumulate(length, b) ==
  LET newLength == 10 * length + DigitValue(b)
  IN  IF newLength <= MaxU32 THEN At("Digit", Announce("Sync", newLength)) ELSE Other

\* Mutant: a second CR keeps the announcement.
CrAfterAny(s) == At("Cr", s.announcement)

\* CR keeps the announcement of the closing bracket right before it only.
CrAfter(s) ==
  At("Cr", IF s.at = "ClosingBracket" THEN s.announcement ELSE NoAnnouncement)

\* One round of the loop of LineParser::parse, the check for a line end apart.
NextByte(s, b) ==
  CASE b = CR -> CrAfter(s)
    [] b = OPEN -> At("OpeningBracket", NoAnnouncement)
    [] b \in Digits /\ s.at = "OpeningBracket" ->
         At("Digit", Announce("Sync", DigitValue(b)))
    [] b \in Digits /\ s.at = "Digit" -> Accumulate(s.announcement.length, b)
    [] b = PLUS /\ s.at = "Digit" ->
         At("Plus", Announce("NonSync", s.announcement.length))
    [] b = CLOSE /\ s.at \in {"Digit", "Plus"} -> At("ClosingBracket", s.announcement)
    [] OTHER -> Other

\* The announcement of a line that ends with LF in state s.
AnnouncementAt(s) ==
  IF s.at \in {"ClosingBracket", "Cr"} THEN s.announcement ELSE NoAnnouncement

\* The line ending that is recorded for LF in state s.
EndingAt(s) == IF s.at = "Cr" THEN "CrLf" ELSE "Lf"

\* The state after each number of bytes of a sequence.
Scan(s, bytes) ==
  LET at[i \in 0..Len(bytes)] == IF i = 0 THEN s ELSE NextByte(at[i-1], bytes[i])
  IN  at

-----------------------------------------------------------------------------
(* Parser and FragmentInfo.                                                *)

NoParser == [kind |-> "None"]
LineParser(start, end, s) ==
  [kind |-> "Line", start |-> start, end |-> end, latest_byte |-> s]
LiteralParser(start, end, remaining) ==
  [kind |-> "Literal", start |-> start, end |-> end, remaining |-> remaining]

NewLineParser(start) == LineParser(start, start, Other)
NewLiteralParser(start, length) == LiteralParser(start, start, length)

Parser ==
  {NoParser}
    \cup [kind : {"Line"}, start : Nat, end : Nat, latest_byte : LatestByte]
    \cup [kind : {"Literal"}, start : Nat, end : Nat, remaining : 0..MaxU32]

LineInfo(start, end, a, ending) ==
  [kind |-> "Line", start |-> start, end |-> end,
   announcement |-> a, ending |-> ending]
LiteralInfo(start, end) == [kind |-> "Literal", start |-> start, end |-> end]

FragmentInfo ==
  [kind : {"Line"}, start : Nat, end : Nat,
   announcement : MaybeAnnouncement, ending : {"Lf", "CrLf"}]
    \cup [kind : {"Literal"}, start : Nat, end : Nat]

IsMessageComplete == parser = NoParser

\* Mutant: positions start again after a literal.
ParserAfterRestart(f) ==
  CASE f.kind = "Literal" -> NewLineParser(0)
    [] f.kind = "Line" /\ f.announcement = NoAnnouncement -> NoParser
    [] OTHER -> NewLiteralParser(f.end, f.announcement.length)

\* The parser that reads the fragment after f; None when f ends the message.
ParserAfter(f) ==
  CASE f.kind = "Literal" -> NewLineParser(f.end)
    [] f.kind = "Line" /\ f.announcement = NoAnnouncement -> NoParser
    [] OTHER -> NewLiteralParser(f.end, f.announcement.length)

-----------------------------------------------------------------------------
(* progress                                                                *)

\* The first match of progress: when the previous message is complete, its
\* state is dropped and a line of the next message is expected.
CurParser == IF IsMessageComplete THEN NewLineParser(0) ELSE parser

\* Mutant: the state of the message is dropped with every fragment.
CurEveryFragment(value, fresh) ==
  IF parser.kind # "None" /\ parser.end > parser.start THEN value ELSE fresh

Cur(value, fresh) == IF IsMessageComplete THEN fresh ELSE value

Least(a, b) == IF a <= b THEN a ELSE b

\* Mutant: the limit is applied to each call instead of the whole message.
RoomPerCall(buffer, count) ==
  IF max_message_size = NoLimit THEN count ELSE Least(max_message_size, count)

\* How many of count bytes fit into a buffer of the given length.
Room(buffer, count) ==
  IF max_message_size = NoLimit THEN count
  ELSE Least(max_message_size - Len(buffer), count)

\* dequeue_parsed_bytes: the parsed bytes leave unparsed_buffer even when
\* they are not added to the message buffer.
DequeueParsedBytes(count) ==
  LET buffer == Cur(message_buffer, <<>>)
      kept == Room(buffer, count)
  IN  /\ message_buffer' = buffer \o SubSeq(unparsed_buffer, 1, kept)
      /\ max_message_size_exceeded' =
           (Cur(max_message_size_exceeded, FALSE) \/ kept < count)
      /\ message_poisoned' = Cur(message_poisoned, FALSE)
      /\ unparsed_buffer' =
           SubSeq(unparsed_buffer, count + 1, Len(unparsed_buffer))
      /\ parsed' = Cur(parsed, <<>>) \o SubSeq(unparsed_buffer, 1, count)
      /\ UNCHANGED max_message_size

HasLf(bytes) == \E i \in DOMAIN bytes : bytes[i] = LF
FirstLf(bytes) ==
  CHOOSE i \in DOMAIN bytes :
    bytes[i] = LF /\ \A j \in DOMAIN bytes : bytes[j] = LF => i <= j

\* progress returned None: more bytes are needed.
ReturnNone(p) ==
  /\ parser' = p
  /\ fragments' = Cur(fragments, <<>>)

\* progress returned Some(f).
ReturnFragment(f) ==
  /\ parser' = ParserAfter(f)
  /\ fragments' = Append(Cur(fragments, <<>>), f)

\* Mutant: what was read of the announcement is forgotten between two calls.
ProgressPartialLineForgetful ==
  LET n == Len(unparsed_buffer)
      p == CurParser
  IN  /\ p.kind = "Line"
      /\ ~HasLf(unparsed_buffer)
      /\ DequeueParsedBytes(n)
      /\ ReturnNone(LineParser(p.start, p.end + n, Other))

\* LineParser::parse consumed everything without meeting the end of the line.
ProgressPartialLine ==
  LET n == Len(unparsed_buffer)
      p == CurParser
  IN  /\ p.kind = "Line"
      /\ ~HasLf(unparsed_buffer)
      /\ DequeueParsedBytes(n)
      /\ ReturnNone(LineParser(p.start, p.end + n,
                               Scan(p.latest_byte, unparsed_buffer)[n]))

\* LineParser::parse stopped after the first LF.
ProgressLine ==
  LET n == FirstLf(unparsed_buffer)
      p == CurParser
      s == Scan(p.latest_byte, unparsed_buffer)[n-1]
  IN  /\ p.kind = "Line"
      /\ HasLf(unparsed_buffer)
      /\ DequeueParsedBytes(n)
      /\ ReturnFragment(LineInfo(p.start, p.end + n, AnnouncementAt(s), EndingAt(s)))

\* Mutant: the parsed part of a literal is not subtracted.
ProgressPartialLiteralUncounted ==
  LET n == Len(unparsed_buffer)
      p == CurParser
  IN  /\ p.kind = "Literal"
      /\ n < p.remaining
      /\ DequeueParsedBytes(n)
      /\ ReturnNone(LiteralParser(p.start, p.end + n, p.remaining))

\* Mutant: whatever is enqueued belongs to the literal.
ProgressPartialLiteralGreedy ==
  LET n == Len(unparsed_buffer)
      p == CurParser
  IN  /\ p.kind = "Literal"
      /\ DequeueParsedBytes(n)
      /\ ReturnNone(LiteralParser(p.start, p.end + n, p.remaining - n))

\* Mutant: a literal that is just complete waits for another byte.
ProgressPartialLiteralLate ==
  LET n == Len(unparsed_buffer)
      p == CurParser
  IN  /\ p.kind = "Literal"
      /\ n <= p.remaining
      /\ DequeueParsedBytes(n)
      /\ ReturnNone(LiteralParser(p.start, p.end + n, p.remaining - n))

\* LiteralParser::parse consumed everything and needs more.
ProgressPartialLiteral ==
  LET n == Len(unparsed_buffer)
      p == CurParser
  IN  /\ p.kind = "Literal"
      /\ n < p.remaining
      /\ DequeueParsedBytes(n)
      /\ ReturnNone(LiteralParser(p.start, p.end + n, p.remaining - n))

\* LiteralParser::parse consumed the rest of the literal.
ProgressLiteral ==
  LET p == CurParser
  IN  /\ p.kind = "Literal"
      /\ Len(unparsed_buffer) >= p.remaining
      /\ DequeueParsedBytes(p.remaining)
      /\ ReturnFragment(LiteralInfo(p.start, p.end + p.remaining))

Progress ==
  \/ ProgressPartialLine
  \/ ProgressLine
  \/ ProgressPartialLiteral
  \/ ProgressLiteral

-----------------------------------------------------------------------------
(* The other methods that change state.                                    *)

\* Mutant: new bytes overtake the unparsed ones.
EnqueueBytesInFront(bytes) ==
  /\ unparsed_buffer' = bytes \o unparsed_buffer
  /\ UNCHANGED <<max_message_size, max_message_size_exceeded,
                 message_poisoned, message_buffer, parser, parsed, fragments>>

EnqueueBytes(bytes) ==
  /\ unparsed_buffer' = unparsed_buffer \o bytes
  /\ UNCHANGED <<max_message_size, max_message_size_exceeded,
                 message_poisoned, message_buffer, parser, parsed, fragments>>

\* May be called at any point, also in the middle of a fragment; the bytes
\* that were not parsed yet stay.
SkipMessage ==
  /\ max_message_size_exceeded' = FALSE
  /\ message_poisoned' = FALSE
  /\ message_buffer' = <<>>
  /\ parser' = NewLineParser(0)
  /\ parsed' = <<>>
  /\ fragments' = <<>>
  /\ UNCHANGED <<unparsed_buffer, max_message_size>>

PoisonMessage ==
  /\ message_poisoned' = TRUE
  /\ UNCHANGED <<unparsed_buffer, max_message_size, max_message_size_exceeded,
                 message_buffer, parser, parsed, fragments>>

-----------------------------------------------------------------------------
(* The methods that read.                                                  *)

\* Mutant: the end of the range is taken as inclusive and clamped.
FragmentBytesInclusive(f) ==
  SubSeq(message_buffer, Least(f.start, Len(message_buffer)) + 1,
                         Least(f.end + 1, Len(message_buffer)))

FragmentBytes(f) ==
  SubSeq(message_buffer, Least(f.start, Len(message_buffer)) + 1,
                         Least(f.end, Len(message_buffer)))

DecodeErrors ==
  {"MessageTooLong", "MessagePoisoned", "DecodingFailure", "DecodingRemainder"}

\* codec: what the given decoder makes of the bytes of the message buffer,
\* one of "Ok", "DecodingFailure" and "DecodingRemainder".
DecodeMessage(codec) ==
  CASE max_message_size_exceeded -> "MessageTooLong"
    [] ~max_message_size_exceeded /\ message_poisoned -> "MessagePoisoned"
    [] OTHER -> codec

\* Tag::validate: ASTRING-CHAR without "+", at least one.
NoTagChars == {32, 34, 37, 40, 41, 42, PLUS, 92, OPEN}
IsTag(bytes) ==
  bytes # <<>> /\ \A i \in DOMAIN bytes : bytes[i] \in (33..126) \ NoTagChars

NoTag == <<>>      \* None; a tag is not empty

\* Mutant: the tag ends at the last SP.
ParseTagLast(bytes) ==
  LET Delimits(i) == bytes[i] = SP /\ \A j \in DOMAIN bytes : bytes[j] = SP => j <= i
      tags == {SubSeq(bytes, 1, i - 1) : i \in {k \in DOMAIN bytes : Delimits(k)}}
  IN  IF \E t \in tags : IsTag(t) THEN CHOOSE t \in tags : IsTag(t) ELSE NoTag

\* parse_tag: the bytes before the first SP of the first line.
ParseTag(bytes) ==
  LET Delimits(i) == bytes[i] = SP /\ \A j \in 1..(i-1) : bytes[j] \notin {SP, LF}
  IN  IF \E i \in DOMAIN bytes : Delimits(i)
      THEN LET tag == SubSeq(bytes, 1, (CHOOSE i \in DOMAIN bytes : Delimits(i)) - 1)
           IN  IF IsTag(tag) THEN tag ELSE NoTag
      ELSE NoTag

DecodeTag == ParseTag(message_buffer)

-----------------------------------------------------------------------------
Init ==
  /\ unparsed_buffer = <<>>
  /\ max_message_size \in Limits
  /\ max_message_size_exceeded = FALSE
  /\ message_poisoned = FALSE
  /\ message_buffer = <<>>
  /\ parser = NewLineParser(0)
  /\ parsed = <<>>
  /\ fragments = <<>>

\* The bytes arrive in any slices, up to the bound.
Enqueue ==
  \E bytes \in Chunks :
    /\ Len(parsed) + Len(unparsed_buffer) + Len(bytes) <= MaxBytes
    /\ EnqueueBytes(bytes)

Next == Enqueue \/ Progress \/ SkipMessage \/ PoisonMessage

Spec == Init /\ [][Next]_vars

-----------------------------------------------------------------------------
(* Properties.                                                             *)

TypeOK ==
  /\ unparsed_buffer \in Seq(Byte)
  /\ max_message_size \in MaybeLimit
  /\ max_message_size_exceeded \in BOOLEAN
  /\ message_poisoned \in BOOLEAN
  /\ message_buffer \in Seq(Byte)
  /\ parser \in Parser
  /\ parsed \in Seq(Byte)
  /\ fragments \in Seq(FragmentInfo)

\* How many of the n bytes of a message a limit admits.
Admitted(limit, n) == IF limit = NoLimit THEN n ELSE Least(limit, n)

\* The message buffer is the longest prefix of the message that the limit
\* admits, however the message was cut into reads and fragments, and
\* max_message_size_exceeded tells exactly whether bytes are missing.  (In
\* dequeue_parsed_bytes, size - len never underflows.)
BufferHoldsMessage ==
  LET kept == Admitted(max_message_size, Len(parsed))
  IN  /\ message_buffer = SubSeq(parsed, 1, kept)
      /\ max_message_size_exceeded <=> kept < Len(parsed)

\* The end of a sequence of fragments, and what its last one announces.
LastEnd(fs) == IF fs = <<>> THEN 0 ELSE fs[Len(fs)].end
AnnouncementOf(f) == IF f.kind = "Line" THEN f.announcement ELSE NoAnnouncement
LastAnnounced(fs) == IF fs = <<>> THEN NoAnnouncement ELSE AnnouncementOf(fs[Len(fs)])

\* Each fragment starts where the one before it ends.
Tiles(fs) ==
  \A i \in DOMAIN fs :
    /\ fs[i].start = (IF i = 1 THEN 0 ELSE fs[i-1].end)
    /\ fs[i].start <= fs[i].end

\* The fragments of a message follow each other without gap or overlap and
\* the parser of the next fragment continues where the last one ended; all
\* positions count the bytes of the message, dropped or not.
FragmentsTileMessage ==
  /\ Tiles(fragments)
  /\ IF IsMessageComplete THEN LastEnd(fragments) = Len(parsed)
     ELSE /\ parser.start = LastEnd(fragments) /\ parser.end = Len(parsed)
          /\ parser.start <= parser.end

\* The bytes of the message that a fragment stands for.
TextOf(f) == SubSeq(parsed, f.start + 1, f.end)

\* fragment_bytes returns the bytes of the fragment, cut off where the limit
\* cuts off the message: never bytes of another fragment, and never too few.
FragmentBytesAreItsText ==
  \A i \in DOMAIN fragments :
    FragmentBytes(fragments[i]) =
      SubSeq(parsed, fragments[i].start + 1,
             Least(fragments[i].end, Admitted(max_message_size, Len(parsed))))

\* Every line fragment ends at its first LF, and its announcement and line
\* ending are what the whole line says by the reference definition, however
\* many calls of progress it took to read it and whatever came before it.
LinesSayWhatTheyAnnounce ==
  \A i \in DOMAIN fragments :
    LET f == fragments[i]
        text == TextOf(f)
    IN  f.kind = "Line" =>
          /\ HasLf(text) /\ FirstLf(text) = Len(text)
          /\ f.announcement = LineAnnouncement(text)
          /\ f.ending = Ending(text)

\* A fragment is a literal, of the announced length, when the one before it
\* announces it, and a line otherwise.
FollowsAnnouncements(fs) ==
  \A i \in DOMAIN fs :
    LET a == IF i = 1 THEN NoAnnouncement ELSE AnnouncementOf(fs[i-1])
    IN  IF a = NoAnnouncement THEN fs[i].kind = "Line"
        ELSE fs[i].kind = "Literal" /\ fs[i].end - fs[i].start = a.length

EndsWithLine(fs) == fs # <<>> /\ fs[Len(fs)].kind = "Line"

\* Literals are exactly what lines announce; the parser goes on accordingly,
\* and the message is complete exactly after a line that announces nothing.
LiteralsAsAnnounced ==
  /\ FollowsAnnouncements(fragments)
  /\ LET a == LastAnnounced(fragments)
     IN  IF a = NoAnnouncement
         THEN parser.kind = IF EndsWithLine(fragments) THEN "None" ELSE "Line"
         ELSE /\ parser.kind = "Literal"
              /\ parser.remaining = a.length - (parser.end - parser.start)

\* decode_message refuses the message whatever the decoder says.
Refused == \A codec \in {"Ok", "DecodingFailure", "DecodingRemainder"} :
             DecodeMessage(codec) \in {"MessageTooLong", "MessagePoisoned"}

\* A poisoned message, and a message with missing bytes, is refused until the
\* next message begins: nothing that is parsed later makes it decodable.
RefusalIsFinal ==
  [][Refused /\ ~Refused' => IsMessageComplete \/ (parsed' = <<>> /\ fragments' = <<>>)]_vars

\* Once decode_tag has found a tag, or the first line is parsed, more of the
\* same message never changes the result, also when the limit drops bytes; a
\* server may answer a message with the tag of its first part.
TagIsStable ==
  [][(DecodeTag # NoTag \/ fragments # <<>>)
       /\ ~IsMessageComplete /\ Len(parsed') >= Len(parsed)
       => DecodeTag' = DecodeTag]_vars

\* When progress returns None (no fragment was added), more bytes really are
\* needed: every enqueued byte was parsed and the fragment being parsed is not
\* complete.  A caller that then waits for its peer never does so while the
\* next fragment is already in its hands.
NoneMeansMoreBytesNeeded ==
  [][Progress /\ fragments' = Cur(fragments, <<>>)
       => /\ unparsed_buffer' = <<>>
          /\ IF parser'.kind = "Line"
             THEN ~HasLf(SubSeq(parsed', parser'.start + 1, Len(parsed')))
             ELSE parser'.remaining > 0]_vars

\* The documentation of poison_message: "decode_message is guaranteed to fail
\* and return DecodeMessageError::MessagePoisoned".
PoisonGuarantee ==
  message_poisoned =>
    \A codec \in {"Ok", "DecodingFailure", "DecodingRemainder"} :
      DecodeMessage(codec) = "MessagePoisoned"
=============================================================================
