----------------------------- MODULE WireFormat -----------------------------
(***************************************************************************)
(* The bytes the fragmentizer tells apart, and the reference definition of *)
(* a literal announcement: what the last characters of a line must look    *)
(* like for the line to announce a literal.  The reference looks at a      *)
(* whole line at once; the code (module Fragmentizer) reads it byte by     *)
(* byte and across any number of reads.                                    *)
(***************************************************************************)
EXTENDS Integers, Sequences

CONSTANT MaxU32     \* u32::MAX, the largest length a literal can announce

ASSUME MaxU32Assumption == MaxU32 \in Nat /\ MaxU32 >= 9

Byte == 0..255

LF == 10
CR == 13
SP == 32
PLUS == 43
OPEN == 123         \* {
CLOSE == 125        \* }

Digits == 48..57
DigitValue(b) == b - 48

Modes == {"Sync", "NonSync"}

\* Option<LiteralAnnouncement>: NoAnnouncement is None.
NoAnnouncement == [mode |-> "None", length |-> 0]
Announcement == [mode : Modes, length : 0..MaxU32]
MaybeAnnouncement == Announcement \cup {NoAnnouncement}
Announce(m, n) == [mode |-> m, length |-> n]

-----------------------------------------------------------------------------
(* The reference: "{" 1*DIGIT ["+"] "}" [CR] LF at the end of a line, the  *)
(* number fitting into a u32.                                              *)

\* The number that a sequence of digits denotes.
Number(digits) ==
  LET upTo[i \in 0..Len(digits)] ==
        IF i = 0 THEN 0 ELSE 10 * upTo[i-1] + DigitValue(digits[i])
  IN  upTo[Len(digits)]

Ending(line) == IF Len(line) >= 2 /\ line[Len(line)-1] = CR THEN "CrLf" ELSE "Lf"

\* The line without its line ending.
Content(line) ==
  SubSeq(line, 1, Len(line) - (IF Ending(line) = "CrLf" THEN 2 ELSE 1))

Suffix == [Sync |-> <<CLOSE>>, NonSync |-> <<PLUS, CLOSE>>]

\* The digits d for which text ends with "{" d suffix (there is at most one).
Spelled(text, suffix) ==
  LET end == Len(text) - Len(suffix)
  IN  {d \in {SubSeq(text, i + 1, end) : i \in {k \in 1..end : text[k] = OPEN}} :
         /\ SubSeq(text, end + 1, Len(text)) = suffix
         /\ d # <<>> /\ \A k \in DOMAIN d : d[k] \in Digits}

AnnouncementsOf(line) ==
  Announcement \cap
    UNION {{Announce(m, Number(d)) : d \in Spelled(Content(line), Suffix[m])}
             : m \in Modes}

\* What a whole line announces.
LineAnnouncement(line) ==
  IF AnnouncementsOf(line) = {} THEN NoAnnouncement
  ELSE CHOOSE a \in AnnouncementsOf(line) : TRUE
=============================================================================
