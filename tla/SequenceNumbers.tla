--------------------------- MODULE SequenceNumbers ---------------------------
(***************************************************************************)
(* imap-types/src/sequence.rs: the values SeqOrUid and Sequence, their     *)
(* comparison and normalize, which the encoder applies to every set of     *)
(* message numbers that it writes.                                         *)
(***************************************************************************)
EXTENDS Naturals, Integers, Sequences, SequencesExt

CONSTANT MaxU32  \* u32::MAX

ASSUME MaxU32Assumption == MaxU32 \in Nat /\ MaxU32 > 2

NonZero == 1..MaxU32
Asterisk == 0
SeqOrUid == NonZero \cup {Asterisk}

-----------------------------------------------------------------------------
(* SeqOrUid and Sequence.                                                  *)

ToNonZero(x) == IF x = Asterisk THEN MaxU32 ELSE x
FromNonZero(n) == IF n = MaxU32 THEN Asterisk ELSE n
Expand(x, largest) == IF x = Asterisk THEN largest ELSE x

\* Mutant: the arm of the asterisk below comes first.
CmpAsteriskFirst(x, y) ==
  CASE y = Asterisk -> "Less"
    [] x = Asterisk /\ y # Asterisk -> "Greater"
    [] x < y /\ Asterisk \notin {x, y} -> "Less"
    [] x = y /\ Asterisk \notin {x, y} -> "Equal"
    [] x > y /\ Asterisk \notin {x, y} -> "Greater"

\* Ord::cmp: numbers compare as numbers, and the asterisk is above them all.
Cmp(x, y) ==
  CASE x < y /\ Asterisk \notin {x, y} -> "Less"
    [] x = y /\ Asterisk \notin {x, y} -> "Equal"
    [] x > y /\ Asterisk \notin {x, y} -> "Greater"
    [] x = Asterisk /\ y = Asterisk -> "Equal"
    [] x # Asterisk /\ y = Asterisk -> "Less"
    [] x = Asterisk /\ y # Asterisk -> "Greater"

IsLess(x, y) == Cmp(x, y) = "Less"
IsGreater(x, y) == Cmp(x, y) = "Greater"

\* Ord::min and Ord::max.
Lesser(x, y) == IF IsLess(y, x) THEN y ELSE x
Greater(x, y) == IF IsLess(y, x) THEN x ELSE y

Single(a) == [kind |-> "Single", a |-> a, b |-> a]
Between(a, b) == [kind |-> "Range", a |-> a, b |-> b]
Sequence == [kind : {"Range"}, a : SeqOrUid, b : SeqOrUid]
              \cup {Single(a) : a \in SeqOrUid}

NormalSequence(s) ==
  CASE s.kind = "Range" /\ s.a = s.b -> Single(s.a)
    [] s.kind = "Range" /\ IsGreater(s.a, s.b) -> Between(s.b, s.a)
    [] OTHER -> s

\* Mutant: the number is compared with the first bound of the range only.
CmpSingleRangeFirst(a, t) ==
  IF IsLess(a, t.a) THEN "Less"
  ELSE IF IsGreater(a, t.a) THEN "Greater"
  ELSE "None"

\* Mutant: the arm is a copy of the one before it, with its results.
CmpRangeSingleCopied(s, b) ==
  IF IsLess(b, Lesser(s.a, s.b)) THEN "Less"
  ELSE IF IsGreater(b, Greater(s.a, s.b)) THEN "Greater"
  ELSE "None"

\* Mutant: the second bound of the other range is forgotten.
CmpRangesFirst(s, t) ==
  IF IsLess(Greater(s.a, s.b), t.a) THEN "Less"
  ELSE IF IsGreater(Lesser(s.a, s.b), t.a) THEN "Greater"
  ELSE "None"

\* The arms of partial_cmp; a range gives its bounds in either order.
CmpSingleRange(a, t) ==
  IF IsLess(a, Lesser(t.a, t.b)) THEN "Less"
  ELSE IF IsGreater(a, Greater(t.a, t.b)) THEN "Greater"
  ELSE "None"

CmpRangeSingle(s, b) ==
  IF IsLess(b, Lesser(s.a, s.b)) THEN "Greater"
  ELSE IF IsGreater(b, Greater(s.a, s.b)) THEN "Less"
  ELSE "None"

CmpRanges(s, t) ==
  IF IsLess(Greater(s.a, s.b), t.a) /\ IsLess(Greater(s.a, s.b), t.b) THEN "Less"
  ELSE IF IsGreater(Lesser(s.a, s.b), t.a) /\ IsGreater(Lesser(s.a, s.b), t.b) THEN "Greater"
  ELSE "None"

\* A range compares as equal to nothing, not even to itself.
PartialCmp(s, t) ==
  CASE s.kind = "Single" /\ t.kind = "Single" -> Cmp(s.a, t.a)
    [] s.kind = "Single" /\ t.kind = "Range" -> CmpSingleRange(s.a, t)
    [] s.kind = "Range" /\ t.kind = "Single" -> CmpRangeSingle(s, t.a)
    [] s.kind = "Range" /\ t.kind = "Range" -> CmpRanges(s, t)

-----------------------------------------------------------------------------
(* normalize                                                               *)

SaturatingInc(n) == Min({n + 1, MaxU32})

\* Half-open ranges; at u32::MAX the end saturates and the range is short of
\* its last number.
HalfOpen(s) == [start |-> ToNonZero(s.a), end |-> SaturatingInc(ToNonZero(s.b))]

InRange(n, r) == r.start <= n /\ n < r.end
JustBefore(r) == Max({r.start, 2}) - 1

\* One single and every range: the range is extended downwards to a single
\* right before it.
Extend(rs, n) ==
  [i \in DOMAIN rs |->
     IF n = JustBefore(rs[i]) THEN [rs[i] EXCEPT !.start = n] ELSE rs[i]]
Absorbed(rs, n) ==
  \E i \in DOMAIN rs : n \in {JustBefore(rs[i]), rs[i].end} \/ InRange(n, rs[i])

\* The loop over the singles, in the given order: the ranges after it, and
\* the singles that are left.
AbsorbSingle(acc, n) ==
  [ranges |-> Extend(acc.ranges, n),
   left |-> IF Absorbed(acc.ranges, n) THEN acc.left \ {n} ELSE acc.left]
AbsorbSingles(order, rs) ==
  FoldLeft(AbsorbSingle, [ranges |-> rs, left |-> ToSet(order)], order)

\* Ranges that start together are sorted in any order.
SortedByStart(S) ==
  CHOOSE s \in SetToSeqs(S) :
    \A i, j \in DOMAIN s : i < j => s[i].start <= s[j].start

\* Mutant: the end of a range inside a longer one cuts the longer one off.
MergeRangeCut(merged, r) ==
  IF merged # <<>> /\ r.start <= Last(merged).end
  THEN [merged EXCEPT ![Len(merged)].end = r.end]
  ELSE Append(merged, r)

\* Mutant: ranges that touch are not joined.
MergeRangeApart(merged, r) ==
  IF merged # <<>> /\ r.start < Last(merged).end
  THEN [merged EXCEPT ![Len(merged)].end = Max({@, r.end})]
  ELSE Append(merged, r)

MergeRange(merged, r) ==
  IF merged # <<>> /\ r.start <= Last(merged).end
  THEN [merged EXCEPT ![Len(merged)].end = Max({@, r.end})]
  ELSE Append(merged, r)

MergeRanges(rs) == FoldLeft(MergeRange, <<>>, SortedByStart(ToSet(rs)))

\* A merged range as a sequence.
ToSequence(r) ==
  CASE r.start = r.end \/ SaturatingInc(r.start) = r.end -> Single(FromNonZero(r.start))
    [] r.start # r.end /\ SaturatingInc(r.start) # r.end /\ r.end = MaxU32 ->
         Between(FromNonZero(r.start), Asterisk)
    [] OTHER -> Between(FromNonZero(r.start), FromNonZero(Max({r.end, 2}) - 1))

\* Mutant: the single numbers are not pushed as ranges of length one.
RangesOfRanges(s) ==
  LET rs == SelectSeq(s, LAMBDA q : q.kind = "Range")
  IN  [i \in DOMAIN rs |-> HalfOpen(rs[i])]

RangesOf(s) == [i \in DOMAIN s |-> HalfOpen(s[i])]

SortedByNumber(S) ==
  CHOOSE s \in SetToSeqs(S) :
    \A i, j \in DOMAIN s : i < j => ToNonZero(s[i].a) <= ToNonZero(s[j].a)

\* The results that normalize may have: the singles are kept in a HashSet,
\* which is iterated in any order.
Normalizations(s) ==
  LET normal == [i \in DOMAIN s |-> NormalSequence(s[i])]
      singles == {ToNonZero(q.a) : q \in {r \in ToSet(normal) : r.kind = "Single"}}
      Result(order) ==
        LET acc == AbsorbSingles(order, RangesOf(normal))
            merged == MergeRanges(acc.ranges)
            left == {n \in acc.left : \A i \in DOMAIN merged : ~InRange(n, merged[i])}
        IN  SortedByNumber({ToSequence(r) : r \in ToSet(merged)}
                             \cup {Single(FromNonZero(n)) : n \in left})
  IN  {Result(order) : order \in SetToSeqs(singles)}
=============================================================================
