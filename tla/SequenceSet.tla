----------------------------- MODULE SequenceSet -----------------------------
(***************************************************************************)
(* imap-types/src/sequence.rs: the sets of message numbers that commands   *)
(* name ("1:5,7,9:*"), how they are made from Rust ranges, normalize,      *)
(* which the encoder applies to every set it writes, and the two iterators *)
(* over the numbers of a set.                                              *)
(*                                                                         *)
(* A set is used by one owner at a time: the iterators borrow it, so it is *)
(* not normalized while one of them is alive.                              *)
(***************************************************************************)
EXTENDS SequenceNumbers

CONSTANTS
  Values,       \* the numbers that the sets of the model are made from
  Types,        \* the types of the ranges: "Int" (i8 to usize), "NonZero"
  Largests,     \* largest message numbers, for the iterators
  MaxSequences  \* bound of the model: sequences in a set

ASSUME SequenceSetAssumption ==
  /\ Values \subseteq NonZero /\ Largests \subseteq NonZero
  /\ Types \subseteq {"Int", "NonZero"}
  /\ MaxSequences \in Nat

VARIABLES
  set,            \* the SequenceSet; <<>> while there is none
  ranges,         \* of the iterator: the ranges it has not begun
  active_range,   \* of the iterator: the rest of the range it has begun
  (* history *)
  origin,         \* the Rust range that set was converted from, or NoOrigin
  call,           \* the iterator: which one and for which largest number
  items           \* what it returned so far

vars == <<set, ranges, active_range, origin, call, items>>

-----------------------------------------------------------------------------
(* Conversions from Rust ranges.                                           *)

Invalid == -1

\* TryFrom<$num> for SeqOrUid, and From<NonZeroU32> for SeqOrUid.
TryFromNum(n) == IF n \in NonZero THEN n ELSE Invalid
FromNum(type, n) == IF type = "NonZero" THEN FromNonZero(n) ELSE TryFromNum(n)

Forms == {"RangeFull", "RangeFrom", "RangeTo", "RangeToInclusive",
          "Range", "RangeInclusive"}

\* Mutant: an exclusive end is converted like an inclusive one.
ConvertInclusive(type, form, start, end) ==
  Between(IF form \in {"RangeFrom", "Range", "RangeInclusive"}
            THEN FromNum(type, start) ELSE FromNonZero(1),
          IF form \in {"RangeFull", "RangeFrom"} THEN Asterisk ELSE FromNum(type, end))

\* The conversion of Range<NonZeroU32> starts at MIN, whatever the range does.
Convert(type, form, start, end) ==
  LET fromMin == \/ form \in {"RangeFull", "RangeTo", "RangeToInclusive"}
                 \/ form = "Range" /\ type = "NonZero"
  IN  Between(
        IF fromMin THEN FromNonZero(1) ELSE FromNum(type, start),
        CASE form \in {"RangeFull", "RangeFrom"} -> Asterisk
          [] form \in {"RangeTo", "Range"} -> TryFromNum(end - 1)
          [] OTHER -> FromNum(type, end))

-----------------------------------------------------------------------------
(* The iterators.                                                          *)

\* Pairs of numbers; sorted pairs for iter, as they stand for iter_naive.
Simplify(s, largest, sort) ==
  [i \in DOMAIN s |->
     LET a == Expand(s[i].a, largest)
         b == Expand(s[i].b, largest)
     IN  IF sort THEN [start |-> Min({a, b}), end |-> Max({a, b})]
         ELSE [start |-> a, end |-> b]]

\* Mutant: the end of a contained range replaces the end of the longer one.
PushRangeCut(stack, r) ==
  IF stack # <<>> /\ Last(stack).start <= r.start
     /\ r.start <= SaturatingInc(Last(stack).end)
  THEN [stack EXCEPT ![Len(stack)].end = r.end]
  ELSE Append(stack, r)

PushRange(stack, r) ==
  IF stack # <<>> /\ Last(stack).start <= r.start
     /\ r.start <= SaturatingInc(Last(stack).end)
  THEN [stack EXCEPT ![Len(stack)].end = Max({@, r.end})]
  ELSE Append(stack, r)

Cleanup(rs) == FoldLeft(PushRange, <<>>, SortedByStart(ToSet(rs)))

\* The numbers that the iterator over one range yields, in its direction.
Walk(r) ==
  IF r.start <= r.end THEN [i \in 1..(r.end - r.start + 1) |-> r.start + i - 1]
  ELSE [i \in 1..(r.start - r.end + 1) |-> r.start - i + 1]

-----------------------------------------------------------------------------
NoOrigin == [type |-> "None"]
NoCall == [kind |-> "None"]

Init ==
  /\ set = <<>> /\ origin = NoOrigin
  /\ ranges = <<>> /\ active_range = <<>> /\ call = NoCall /\ items = <<>>

Idle == call.kind = "None"

\* A set as it is parsed or put together by the user of the crate.
NewSet ==
  /\ set = <<>>
  /\ LET bounds == Values \cup {Asterisk}
         sequences == {Single(a) : a \in bounds} \cup {Between(a, b) : a, b \in bounds}
     IN  set' \in UNION {[1..n -> sequences] : n \in 1..MaxSequences}
  /\ UNCHANGED <<origin, ranges, active_range, call, items>>

\* From and TryFrom; a bound that is no NonZeroU32 is refused.
FromRange ==
  /\ set = <<>>
  /\ \E type \in Types, form \in Forms :
       \E start, end \in IF type = "Int" THEN -1..(MaxU32 + 1) ELSE NonZero :
         LET s == Convert(type, form, start, end)
         IN  /\ s.a # Invalid /\ s.b # Invalid
             /\ set' = <<s>>
             /\ origin' = [type |-> type, form |-> form, start |-> start, end |-> end]
  /\ UNCHANGED <<ranges, active_range, call, items>>

Normalize ==
  /\ set # <<>> /\ Idle
  /\ set' \in Normalizations(set)
  /\ origin' = NoOrigin
  /\ UNCHANGED <<ranges, active_range, call, items>>

Iter ==
  /\ set # <<>> /\ Idle
  /\ \E largest \in Largests :
       /\ ranges' = Cleanup(Simplify(set, largest, TRUE))
       /\ call' = [kind |-> "iter", largest |-> largest]
  /\ UNCHANGED <<set, origin, active_range, items>>

IterNaive ==
  /\ set # <<>> /\ Idle
  /\ \E largest \in Largests :
       /\ ranges' = Simplify(set, largest, FALSE)
       /\ call' = [kind |-> "iter_naive", largest |-> largest]
  /\ UNCHANGED <<set, origin, active_range, items>>

\* next() returns Some: from the active range, or from the next one.
NextItem ==
  /\ ~Idle
  /\ LET rest == IF active_range = <<>> /\ ranges # <<>> THEN Walk(Head(ranges))
                 ELSE active_range
     IN  /\ rest # <<>>
         /\ items' = Append(items, Head(rest))
         /\ active_range' = Tail(rest)
         /\ ranges' = IF active_range = <<>> THEN Tail(ranges) ELSE ranges
  /\ UNCHANGED <<set, origin, call>>

Exhausted == active_range = <<>> /\ ranges = <<>>

\* next() returned None and the iterator is dropped.
DropIterator ==
  /\ ~Idle /\ Exhausted
  /\ call' = NoCall /\ items' = <<>>
  /\ UNCHANGED <<set, origin, ranges, active_range>>

Next ==
  \/ NewSet \/ FromRange \/ Normalize \/ Iter \/ IterNaive \/ NextItem \/ DropIterator

Spec == Init /\ [][Next]_vars

-----------------------------------------------------------------------------
(* Properties.                                                             *)

TypeOK ==
  /\ set \in Seq(Sequence)
  /\ ranges \in Seq([start : NonZero, end : NonZero])
  /\ active_range \in Seq(NonZero)
  /\ origin \in {NoOrigin}
       \cup [type : Types, form : Forms, start : -1..(MaxU32 + 1), end : -1..(MaxU32 + 1)]
  /\ call \in {NoCall} \cup [kind : {"iter", "iter_naive"}, largest : NonZero]
  /\ items \in Seq(NonZero)

\* The numbers that a set stands for when largest is the largest number.
NumbersOf(q, largest) ==
  {n \in NonZero : \/ Expand(q.a, largest) <= n /\ n <= Expand(q.b, largest)
                   \/ Expand(q.b, largest) <= n /\ n <= Expand(q.a, largest)}
Numbers(s, largest) == UNION {NumbersOf(q, largest) : q \in ToSet(s)}

\* The messages among 1..largest that a set names in a mailbox.
Messages(s, largest) == Numbers(s, largest) \cap 1..largest

\* normalize changes how a set is written, never which messages it names,
\* whatever the mailbox: the encoder normalizes every set behind the back of
\* the client that asks for the messages.
NormalizeKeepsMessages ==
  [][set # <<>> /\ set' # set =>
       \A largest \in NonZero : Messages(set', largest) = Messages(set, largest)]_vars

\* It is so for every set whose numbers stay two below u32::MAX, with which and
\* with whose predecessor half-open ranges end like ranges to the asterisk.
NormalizeKeepsMessagesBelowMax ==
  [][set # <<>> /\ set' # set /\ (\A q \in ToSet(set) : {q.a, q.b} \cap {MaxU32 - 1, MaxU32} = {}) =>
       \A largest \in NonZero : Messages(set', largest) = Messages(set, largest)]_vars

\* A normalized set is ascending, and its sequences neither overlap nor touch,
\* so that it is as short as it can be; normalizing it again changes nothing.
IsNormal(s) ==
  /\ \A i \in DOMAIN s : NormalSequence(s[i]) = s[i]
  /\ \A i \in 1..(Len(s) - 1) : ToNonZero(s[i].b) + 1 < ToNonZero(s[i+1].a)
  /\ Normalizations(s) = {s}
NormalizeReachesNormalForm == [][set # <<>> /\ set' # set => IsNormal(set')]_vars

\* The order in which the HashSet of the single numbers is iterated, which
\* differs from run to run, never shows in the result.
HashOrderDoesNotShow ==
  set # <<>> /\ Idle => \A r, s \in Normalizations(set) : r = s

\* An iterator that is run to its end returned exactly the numbers of the
\* set, however its sequences overlap; iter returned each of them once and in
\* ascending order, at every moment.
IteratorsYieldTheSet ==
  ~Idle =>
    /\ ToSet(items) \subseteq Numbers(set, call.largest)
    /\ Exhausted => ToSet(items) = Numbers(set, call.largest)
    /\ call.kind = "iter" => \A i, j \in DOMAIN items : i < j => items[i] < items[j]

\* What a sequence stands for in a mailbox beyond every number that can be
\* written, where the asterisk names a message above them all.
Extent(q) ==
  LET a == Expand(q.a, MaxU32 + 1)
      b == Expand(q.b, MaxU32 + 1)
  IN  {n \in 1..(MaxU32 + 1) : (a <= n /\ n <= b) \/ (b <= n /\ n <= a)}
Before(p, q) == \A m \in Extent(p), n \in Extent(q) : m < n

\* partial_cmp agrees with what sequences mean, in each of its arms and in
\* whichever order a range gives its bounds: one is less than another exactly
\* if each of its messages comes before each of the other's, "Greater" is the
\* converse, only a single is equal to anything, and that to itself alone.  And
\* it agrees with normalize: what that leaves alone ascends in this order.
ComparisonIsAnOrder ==
  Idle =>
    /\ \A i, j \in DOMAIN set :
         LET cmp == PartialCmp(set[i], set[j])
         IN  /\ cmp = "Less" <=> Before(set[i], set[j])
             /\ cmp = "Greater" <=> Before(set[j], set[i])
             /\ cmp = "Equal" <=> set[i] = set[j] /\ set[i].kind = "Single"
    /\ Normalizations(set) = {set} =>
         \A i, j \in DOMAIN set : i < j => PartialCmp(set[i], set[j]) = "Less"

\* The numbers of a Rust range.
RangeNumbers(o) ==
  LET first == IF o.form \in {"RangeFrom", "Range", "RangeInclusive"} THEN o.start ELSE 1
      last == CASE o.form \in {"RangeFull", "RangeFrom"} -> MaxU32
                [] o.form \in {"RangeTo", "Range"} -> o.end - 1
                [] OTHER -> o.end
  IN  first..last

\* A set that was made from a Rust range names the messages of the range: all
\* of them and no other.  (A range without numbers has no counterpart, and the
\* mailbox reaches to the start of the range: below it, an asterisk names the
\* last message, which no Rust range does.)
ConversionKeepsRange ==
  origin # NoOrigin /\ Idle /\ RangeNumbers(origin) # {} =>
    \A largest \in Min(RangeNumbers(origin))..MaxU32 :
      Messages(set, largest) = RangeNumbers(origin) \cap 1..largest
=============================================================================
