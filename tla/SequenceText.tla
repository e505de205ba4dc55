----------------------------- MODULE SequenceText -----------------------------
(***************************************************************************)
(* Sequence sets as texts.  There are two readers: FromStr of imap-types,  *)
(* for what an application or its user writes, and the parser of           *)
(* imap-codec, for what a client sends.  The formal syntax that both       *)
(* follow is defined apart from them, as a reference.                      *)
(***************************************************************************)
EXTENDS SequenceNumbers

CONSTANTS
  Alphabet, \* the characters of the texts
  MaxLength \* bound on the length of a text

ASSUME AlphabetAssumption == Alphabet \subseteq {"0", "1", "2", "+", ":", ",", "*"} /\ MaxLength \in Nat

VARIABLE written  \* the text so far

Digit == [c \in {"0", "1", "2"} |-> CASE c = "0" -> 0 [] c = "1" -> 1 [] c = "2" -> 2]
AllDigits(t) == \A i \in DOMAIN t : t[i] \in DOMAIN Digit
NumberOf(t) == FoldLeft(LAMBDA n, d : 10 * n + Digit[d], 0, t)

Piece(t, i, j) == SubSeq(t, i + 1, j - 1)

-----------------------------------------------------------------------------
(* The formal syntax: sequence-set, seq-range, seq-number, nz-number; and   *)
(* where the two readers are laxer: the parser takes leading zeros, and     *)
(* FromStr a plus sign, behind which there may be zeros.                    *)

IsNumber(t, reader) ==
  \/ t # <<>> /\ AllDigits(t) /\ NumberOf(t) \in NonZero /\ (reader = "parser" \/ t[1] # "0")
  \/ reader = "FromStr" /\ Len(t) > 1 /\ t[1] = "+" /\ AllDigits(Tail(t)) /\ NumberOf(Tail(t)) \in NonZero
IsSeqNumber(t, reader) == t = <<"*">> \/ IsNumber(t, reader)
IsSequence(t, reader) ==
  \/ IsSeqNumber(t, reader)
  \/ \E i \in DOMAIN t :
       t[i] = ":" /\ IsSeqNumber(Piece(t, 0, i), reader) /\ IsSeqNumber(Piece(t, i, Len(t) + 1), reader)

\* Neighbouring commas, and the ends of the text.
Commas(t) == {0, Len(t) + 1} \cup {i \in DOMAIN t : t[i] = ","}
IsSequenceSet(t, reader) ==
  \A i, j \in Commas(t) :
    i < j /\ (\A k \in Commas(t) : ~(i < k /\ k < j)) => IsSequence(Piece(t, i, j), reader)

-----------------------------------------------------------------------------
(* FromStr: the set of its value, empty for an error.                      *)

SplitOff(pieces, c, separator) ==
  IF c = separator THEN Append(pieces, <<>>)
  ELSE [pieces EXCEPT ![Len(pieces)] = Append(@, c)]
Split(t, separator) == FoldLeft(LAMBDA pieces, c : SplitOff(pieces, c, separator), <<<<>>>>, t)

\* NonZeroU32::from_str takes a sign.
NonZeroFromStr(t) ==
  LET digits == IF t # <<>> /\ t[1] = "+" THEN Tail(t) ELSE t
  IN  {n \in {NumberOf(d) : d \in {x \in {digits} : x # <<>> /\ AllDigits(x)}} : n \in NonZero}

\* Mutant: the asterisk is tried last, as a number.
SeqOrUidFromStrNumber(t) == IF t = <<"*">> THEN {MaxU32} ELSE NonZeroFromStr(t)

SeqOrUidFromStr(t) ==
  IF t = <<"*">> THEN {Asterisk}
  ELSE IF t # <<>> /\ t[1] = "0" THEN {}
  ELSE NonZeroFromStr(t)

SequenceFromStr(t) ==
  LET pieces == Split(t, ":")
  IN  CASE Len(pieces) = 1 -> {Single(a) : a \in SeqOrUidFromStr(t)}
        [] Len(pieces) = 2 -> {Between(a, b) : a \in SeqOrUidFromStr(pieces[1]), b \in SeqOrUidFromStr(pieces[2])}
        [] OTHER -> {}

SequenceSetFromStr(t) ==
  LET results == [i \in DOMAIN Split(t, ",") |-> SequenceFromStr(Split(t, ",")[i])]
  IN  {[i \in DOMAIN r |-> CHOOSE q \in r[i] : TRUE] : r \in {x \in {results} : {} \notin Range(x)}}

-----------------------------------------------------------------------------
(* The parser, at position i of a text that is followed by something else: *)
(* the set of <<value, position behind it>>, empty for an error.           *)

At(t, i) == IF i \in DOMAIN t THEN t[i] ELSE "end"

nz_number(t, i) ==
  LET IsEnd(j) == AllDigits(SubSeq(t, i, j - 1)) /\ At(t, j) \notin DOMAIN Digit
  IN  {n \in {<<NumberOf(SubSeq(t, i, j - 1)), j>> : j \in {k \in i + 1..Len(t) + 1 : IsEnd(k)}} : n[1] \in NonZero}

seq_number(t, i) == IF At(t, i) = "*" THEN {<<Asterisk, i + 1>>} ELSE nz_number(t, i)

seq_range(t, i) ==
  UNION {{<<Between(from[1], to[1]), to[2]>> : to \in seq_number(t, from[2] + 1)}
           : from \in {n \in seq_number(t, i) : At(t, n[2]) = ":"}}

SingleAt(t, i) == {<<Single(n[1]), n[2]>> : n \in seq_number(t, i)}

\* Mutant: the number is tried before the range.
SequenceAtNumberFirst(t, i) == IF SingleAt(t, i) # {} THEN SingleAt(t, i) ELSE seq_range(t, i)

SequenceAt(t, i) == IF seq_range(t, i) # {} THEN seq_range(t, i) ELSE SingleAt(t, i)

\* One sequence more, if there is one behind a comma: all is the set so far and
\* the position behind it.
OneMore(t, all) ==
  LET next == IF At(t, all[2]) = "," THEN SequenceAt(t, all[2] + 1) ELSE {}
  IN  IF next = {} THEN all
      ELSE LET n == CHOOSE n \in next : TRUE IN <<Append(all[1], n[1]), n[2]>>

\* The sequences that follow the first, up to the first that is none; there are
\* less of them than characters.
MoreSequences(t, first) ==
  FoldLeft(LAMBDA all, c : OneMore(t, all), <<<<first[1]>>, first[2]>>, t)

\* sequence_set, when it takes the whole text.
sequence_set(t) ==
  {all[1] : all \in {r \in {MoreSequences(t, first) : first \in SequenceAt(t, 1)} : r[2] = Len(t) + 1}}

-----------------------------------------------------------------------------
TextInit == written = <<>>
WriteText == \E c \in Alphabet : Len(written) < MaxLength /\ written' = Append(written, c)

-----------------------------------------------------------------------------
(* Properties.                                                             *)

\* What a text means does not depend on who reads it: both readers take every
\* text of the formal syntax whose numbers fit into 32 bits and nothing else
\* but, each of them, one kind of numbers; what an application may pass to
\* FromStr and a client may send is the same set for both.
ReadersAgree ==
  \A fromStr \in {SequenceSetFromStr(written)}, parsed \in {sequence_set(written)} :
    /\ fromStr # {} <=> IsSequenceSet(written, "FromStr")
    /\ parsed # {} <=> IsSequenceSet(written, "parser")
    /\ fromStr # {} /\ parsed # {} => fromStr = parsed
=============================================================================
