--------------------------- MODULE SequenceProofs ---------------------------
(***************************************************************************)
(* Proofs about sets of message numbers, for every u32::MAX.               *)
(*                                                                         *)
(* First normalize, for every set: what merge_ranges and the loop over the *)
(* single numbers compute, that the order of the HashSet does not matter,  *)
(* and which form and which messages come out.  Then: a converted range    *)
(* names the messages of the range, the comparison of sequences is an      *)
(* order, and the iterators yield the numbers of the set.  At the end, the *)
(* two readers of a set's text: what they make of its pieces.              *)
(***************************************************************************)
EXTENDS SequenceSet, SequenceText, SequenceLemmas

-----------------------------------------------------------------------------
(* merge_ranges: one step.                                                 *)

\* The ranges merge_ranges works on: both ends are numbers, and the first is
\* not above the second.
Rng == {r \in [start : NonZero, end : NonZero] : r.start <= r.end}

\* What a range is made of, and that its two numbers make it.
LEMMA RngFacts ==
  ASSUME NEW r \in Rng
  PROVE  /\ r.start \in NonZero /\ r.end \in NonZero /\ r.start <= r.end
         /\ r.start \in Nat /\ r.end \in Nat
         /\ r = [start |-> r.start, end |-> r.end]
BY MaxU32Assumption DEF Rng, NonZero

\* Two numbers in order are a range.
LEMMA RngMade ==
  ASSUME NEW a \in NonZero, NEW b \in NonZero, a <= b
  PROVE  [start |-> a, end |-> b] \in Rng
BY DEF Rng

\* The last range of a sequence grows to the end of another one.
Grown(m, r) ==
  [i \in 1 .. Len(m) |->
     IF i = Len(m)
     THEN [start |-> m[i].start, end |-> IF m[i].end >= r.end THEN m[i].end ELSE r.end]
     ELSE m[i]]

\* The model's update of the last range is Grown, which is a sequence of ranges
\* of the same length.
LEMMA GrownType ==
  ASSUME NEW m \in Seq(Rng), m # <<>>, NEW r \in Rng
  PROVE  /\ [m EXCEPT ![Len(m)].end = Max({@, r.end})] = Grown(m, r)
         /\ Grown(m, r) \in Seq(Rng)
         /\ Len(Grown(m, r)) = Len(m)
<1>. DEFINE n == Len(m)
<1>1. n \in Nat /\ n > 0 /\ DOMAIN m = 1 .. n
  BY LenProperties, EmptySeq
<1>2. \A i \in 1 .. n : m[i] \in Rng
  BY ElementOfSeq
<1>3. Max({m[n].end, r.end}) = IF m[n].end >= r.end THEN m[n].end ELSE r.end
  BY <1>1, <1>2, RngFacts, MaxOfTwo
<1>4. \A i \in 1 .. n : Grown(m, r)[i] \in Rng
  <2>. TAKE i \in 1 .. n
  <2>1. CASE i = n
    <3>1. Grown(m, r)[i] = [start |-> m[i].start,
                            end |-> IF m[i].end >= r.end THEN m[i].end ELSE r.end]
      BY <2>1 DEF Grown
    <3>2. m[i].start \in NonZero /\ m[i].end \in NonZero /\ r.end \in NonZero
          /\ m[i].start <= m[i].end /\ m[i].start \in Nat /\ m[i].end \in Nat /\ r.end \in Nat
      BY <1>2, RngFacts
    <3>3. m[i].start <= IF m[i].end >= r.end THEN m[i].end ELSE r.end
      BY <3>2
    <3>. QED  BY <3>1, <3>2, <3>3, RngMade
  <2>2. CASE i # n
    BY <2>2, <1>2 DEF Grown
  <2>. QED  BY <2>1, <2>2
<1>5. Grown(m, r) = [i \in 1 .. n |-> Grown(m, r)[i]]
  BY DEF Grown
<1>6. Grown(m, r) \in Seq(Rng) /\ Len(Grown(m, r)) = n
  <2>1. Grown(m, r) \in [1 .. n -> Rng]
    BY <1>4, <1>5
  <2>. QED  BY <2>1, <1>1, SeqDef, LenProperties
<1>7. [m EXCEPT ![n].end = Max({@, r.end})] = Grown(m, r)
  <2>1. [m EXCEPT ![n].end = Max({@, r.end})]
          = [i \in 1 .. n |-> IF i = n THEN [m[i] EXCEPT !.end = Max({m[n].end, r.end})] ELSE m[i]]
    BY <1>1
  <2>2. [m[n] EXCEPT !.end = Max({m[n].end, r.end})]
          = [start |-> m[n].start, end |-> Max({m[n].end, r.end})]
    <3>1. m[n] = [start |-> m[n].start, end |-> m[n].end]
      BY <1>1, <1>2, RngFacts
    <3>. QED  BY <3>1
  <2>. QED  BY <2>1, <2>2, <1>3 DEF Grown
<1>. QED  BY <1>6, <1>7

\* One step of merge_ranges lets the last range grow, or adds a range.
LEMMA MergeRangeIs ==
  ASSUME NEW m \in Seq(Rng), NEW r \in Rng
  PROVE  /\ MergeRange(m, r) = IF m # <<>> /\ r.start <= m[Len(m)].end
                               THEN Grown(m, r) ELSE Append(m, r)
         /\ MergeRange(m, r) \in Seq(Rng)
<1>1. Last(m) = m[Len(m)]
  BY DEF Last
<1>2. m # <<>> => /\ [m EXCEPT ![Len(m)].end = Max({@, r.end})] = Grown(m, r)
                  /\ Grown(m, r) \in Seq(Rng)
  BY GrownType
<1>3. Append(m, r) \in Seq(Rng)
  BY AppendProperties
<1>. QED  BY <1>1, <1>2, <1>3 DEF MergeRange

\* The fold over the ranges goes through one result for each prefix.
LEMMA MergeSteps ==
  ASSUME NEW s \in Seq(Rng)
  PROVE  \E F : /\ F[0] = <<>> /\ F[Len(s)] = FoldLeft(MergeRange, <<>>, s)
                /\ \A k \in 1 .. Len(s) : F[k] = MergeRange(F[k - 1], s[k])
<1>. DEFINE n == Len(s)
            X == Seq(Rng)
            step == [p \in X \X (1 .. n) |-> MergeRange(p[1], s[p[2]])]
            Is(g) == g = [T \in SUBSET (1 .. n) |->
                            IF T = {} THEN <<>> ELSE MergeRange(g[T \ {Max(T)}], s[Max(T)])]
            iter == CHOOSE g : Is(g)
<1>1. n \in Nat /\ DOMAIN s = 1 .. n /\ \A i \in 1 .. n : s[i] \in Rng
  BY LenProperties, ElementOfSeq
<1>2. FoldLeft(MergeRange, <<>>, s) = iter[1 .. n]
  BY <1>1 DEF FoldLeft, MapThenFoldSet
<1>3. \E g : Is(g)
  <2>1. step \in [X \X (1 .. n) -> X] /\ <<>> \in X
    <3>1. \A p \in X \X (1 .. n) : MergeRange(p[1], s[p[2]]) \in X
      BY <1>1, MergeRangeIs
    <3>. QED  BY <3>1, EmptySeq
  <2>. HIDE DEF step, X
  <2>2. PICK f : Folds(f, X, n, <<>>, step)
    <3>1. n \in Nat
      BY <1>1
    <3>. HIDE DEF n
    <3>. QED  BY <2>1, <3>1, FoldExists, Zenon
  <2>3. ASSUME NEW T \in SUBSET (1 .. n), T # {}
        PROVE  step[<<f[T \ {Max(T)}], Max(T)>>] = MergeRange(f[T \ {Max(T)}], s[Max(T)])
    <3>1. Max(T) \in 1 .. n
      BY <2>3, <1>1, MaxOf
    <3>2. f[T \ {Max(T)}] \in X
      BY <2>2 DEF Folds
    <3>. QED  BY <3>1, <3>2 DEF step
  <2>4. f = [T \in SUBSET (1 .. n) |-> f[T]]
    BY <2>2 DEF Folds
  <2>5. Is(f)
    BY <2>2, <2>3, <2>4 DEF Folds
  <2>. QED  BY <2>5
<1>4. Is(iter)
  <2>. HIDE DEF Is
  <2>. QED  BY <1>3
<1>. HIDE DEF iter
<1>. DEFINE F == [k \in 0 .. n |-> iter[1 .. k]]
<1>5. F[0] = <<>>
  <2>1. 1 .. 0 = {} /\ 0 \in 0 .. n
    BY <1>1
  <2>. QED  BY <2>1, <1>4
<1>6. ASSUME NEW k \in 1 .. n PROVE F[k] = MergeRange(F[k - 1], s[k])
  <2>1. 1 .. k \in SUBSET (1 .. n) /\ 1 .. k # {} /\ k \in 0 .. n /\ k - 1 \in 0 .. n
    BY <1>1, InitialInterval
  <2>2. Max(1 .. k) = k /\ (1 .. k) \ {k} = 1 .. k - 1
    BY MaxOfInterval
  <2>. QED  BY <2>1, <2>2, <1>4
<1>7. F[n] = FoldLeft(MergeRange, <<>>, s)
  BY <1>1, <1>2
<1>. HIDE DEF F
<1>. QED  BY <1>5, <1>6, <1>7

\* The order in which merge_ranges sorts: by start, then by end.
StartsBefore(r, s) ==
  \/ r.start < s.start
  \/ r.start = s.start /\ r.end < s.end

\* The sorted sequence has the elements of the set, by ascending start.
LEMMA SortedFacts ==
  ASSUME NEW S \in SUBSET Rng, IsFiniteSet(S)
  PROVE  /\ SortedByStart(S) \in Seq(Rng) /\ ToSet(SortedByStart(S)) = S
         /\ \A i, j \in 1 .. Len(SortedByStart(S)) :
              i < j => SortedByStart(S)[i].start <= SortedByStart(S)[j].start
<1>. DEFINE R == {p \in S \X S : StartsBefore(p[1], p[2])}
<1>1. \A x \in S : /\ x.start \in Nat /\ x.end \in Nat
                   /\ x = [start |-> x.start, end |-> x.end]
  BY RngFacts
<1>2. \A x, y \in S : <<x, y>> \in R <=> StartsBefore(x, y)
  OBVIOUS
<1>. HIDE DEF R
<1>3. \A x \in S : <<x, x>> \notin R
  BY <1>1, <1>2 DEF StartsBefore
<1>4. \A x, y \in S : x # y => <<x, y>> \in R \/ <<y, x>> \in R
  <2>. SUFFICES ASSUME NEW x \in S, NEW y \in S, x # y
                PROVE  <<x, y>> \in R \/ <<y, x>> \in R
    OBVIOUS
  <2>1. x.start # y.start \/ x.end # y.end
    BY <1>1
  <2>2. x.start \in Nat /\ y.start \in Nat /\ x.end \in Nat /\ y.end \in Nat
    BY <1>1
  <2>. QED  BY <2>1, <2>2, <1>2 DEF StartsBefore
<1>5. \A x, y, z \in S : <<x, y>> \in R /\ <<y, z>> \in R => <<x, z>> \in R
  <2>. SUFFICES ASSUME NEW x \in S, NEW y \in S, NEW z \in S,
                       <<x, y>> \in R, <<y, z>> \in R
                PROVE  <<x, z>> \in R
    OBVIOUS
  <2>2. /\ x.start \in Nat /\ y.start \in Nat /\ x.end \in Nat /\ y.end \in Nat
        /\ z.start \in Nat /\ z.end \in Nat
    BY <1>1
  <2>. QED  BY <2>2, <1>2 DEF StartsBefore
<1>6. PICK t \in SetToSeqs(S) : \A i, j \in DOMAIN t : i < j => <<t[i], t[j]>> \in R
  BY <1>3, <1>4, <1>5, SortExists
<1>7. \A i, j \in DOMAIN t : i < j => t[i].start <= t[j].start
  <2>. SUFFICES ASSUME NEW i \in DOMAIN t, NEW j \in DOMAIN t, i < j
                PROVE  t[i].start <= t[j].start
    OBVIOUS
  <2>1. t[i] \in S /\ t[j] \in S
    <3>1. t \in Seq(S) /\ DOMAIN t = 1 .. Len(t)
      BY ArrangedFacts
    <3>. QED  BY <3>1, ElementOfSeq
  <2>2. t[i].start \in Nat /\ t[j].start \in Nat
    BY <2>1, <1>1
  <2>3. <<t[i], t[j]>> \in R
    BY <1>6
  <2>4. StartsBefore(t[i], t[j])
    BY <2>1, <2>3, <1>2
  <2>. QED  BY <2>2, <2>4 DEF StartsBefore
<1>8. /\ SortedByStart(S) \in SetToSeqs(S)
      /\ \A i, j \in DOMAIN SortedByStart(S) :
           i < j => SortedByStart(S)[i].start <= SortedByStart(S)[j].start
  BY <1>7, Zenon DEF SortedByStart
<1>9. /\ SortedByStart(S) \in Seq(S) /\ ToSet(SortedByStart(S)) = S
      /\ DOMAIN SortedByStart(S) = 1 .. Len(SortedByStart(S))
  BY <1>8, ArrangedFacts
<1>10. SortedByStart(S) \in Seq(Rng)
  BY <1>9
<1>. QED  BY <1>8, <1>9, <1>10

\* The first k ranges of s reach the number n, or lead on from it.
Reach(s, k, n) == \E i \in 1 .. k : s[i].start <= n /\ n <= s[i].end

Lead(s, k, n) == \E i \in 1 .. k : s[i].start <= n /\ n < s[i].end

\* There is a gap between any two ranges: each ends before the next starts.
Gapped(m) == \A i, j \in 1 .. Len(m) : i < j => m[i].end < m[j].start

\* What the loop of merge_ranges keeps: m is made from the first k ranges of s.
Merged(m, s, k) ==
  /\ m \in Seq(Rng) /\ Gapped(m)
  /\ k > 0 => m # <<>> /\ m[Len(m)].start <= s[k].start
  /\ k = 0 => m = <<>>
  /\ \A n \in Nat : Reach(m, Len(m), n) <=> Reach(s, k, n)
  /\ \A n \in Nat : Lead(m, Len(m), n) <=> Lead(s, k, n)

\* One range more reaches, or leads on from, what it reaches itself.
LEMMA ReachNext ==
  ASSUME NEW s, NEW k \in Nat, k > 0, NEW n
  PROVE  /\ Reach(s, k, n) <=> (Reach(s, k - 1, n) \/ (s[k].start <= n /\ n <= s[k].end))
         /\ Lead(s, k, n) <=> (Lead(s, k - 1, n) \/ (s[k].start <= n /\ n < s[k].end))
<1>1. 1 .. k = (1 .. k - 1) \cup {k}
  OBVIOUS
<1>. QED  BY <1>1 DEF Reach, Lead

\* Growing the last range adds what the other one reaches, if it begins inside
\* or right after it.
LEMMA GrownReach ==
  ASSUME NEW m \in Seq(Rng), m # <<>>, NEW r \in Rng,
         m[Len(m)].start <= r.start, r.start <= m[Len(m)].end + 1, NEW n \in Nat
  PROVE  /\ Reach(Grown(m, r), Len(m), n)
              <=> (Reach(m, Len(m), n) \/ (r.start <= n /\ n <= r.end))
         /\ r.start <= m[Len(m)].end =>
              (Lead(Grown(m, r), Len(m), n)
                <=> (Lead(m, Len(m), n) \/ (r.start <= n /\ n < r.end)))
<1>. DEFINE l == Len(m)
            g == Grown(m, r)
<1>1. l \in Nat /\ l > 0
  BY LenProperties, EmptySeq
<1>2. \A i \in 1 .. l : /\ m[i].start \in Nat /\ m[i].end \in Nat /\ m[i] \in Rng
                        /\ g[i].start = m[i].start
                        /\ i # l => g[i] = m[i]
  <2>. TAKE i \in 1 .. l
  <2>1. m[i] \in Rng
    BY ElementOfSeq
  <2>. QED  BY <2>1, RngFacts DEF Grown
<1>3. g[l].end = IF m[l].end >= r.end THEN m[l].end ELSE r.end
  BY <1>1 DEF Grown
<1>4. r.start \in Nat /\ r.end \in Nat /\ r.start <= r.end
  BY RngFacts
<1>. HIDE DEF l, g
<1>5. /\ Reach(g, l - 1, n) <=> Reach(m, l - 1, n)
      /\ Lead(g, l - 1, n) <=> Lead(m, l - 1, n)
  <2>1. \A i \in 1 .. l - 1 : g[i] = m[i]
    BY <1>1, <1>2
  <2>. QED  BY <2>1 DEF Reach, Lead
<1>6. m[l].start \in Nat /\ m[l].end \in Nat /\ g[l].start = m[l].start
  BY <1>1, <1>2
<1>7. m[l].start <= r.start /\ r.start <= m[l].end + 1
  BY DEF l
<1>8. /\ (g[l].start <= n /\ n <= g[l].end) <=>
           (m[l].start <= n /\ n <= m[l].end) \/ (r.start <= n /\ n <= r.end)
      /\ r.start <= m[l].end =>
           ((g[l].start <= n /\ n < g[l].end) <=>
              (m[l].start <= n /\ n < m[l].end) \/ (r.start <= n /\ n < r.end))
  BY <1>3, <1>4, <1>6, <1>7
<1>9. Reach(g, l, n) <=> (Reach(m, l, n) \/ (r.start <= n /\ n <= r.end))
  <2>1. /\ Reach(g, l, n) <=> (Reach(g, l - 1, n) \/ (g[l].start <= n /\ n <= g[l].end))
        /\ Reach(m, l, n) <=> (Reach(m, l - 1, n) \/ (m[l].start <= n /\ n <= m[l].end))
    BY <1>1, ReachNext
  <2>. QED  BY <2>1, <1>5, <1>8
<1>10. r.start <= m[l].end =>
         (Lead(g, l, n) <=> (Lead(m, l, n) \/ (r.start <= n /\ n < r.end)))
  <2>1. /\ Lead(g, l, n) <=> (Lead(g, l - 1, n) \/ (g[l].start <= n /\ n < g[l].end))
        /\ Lead(m, l, n) <=> (Lead(m, l - 1, n) \/ (m[l].start <= n /\ n < m[l].end))
    BY <1>1, ReachNext
  <2>. QED  BY <2>1, <1>5, <1>8
<1>. QED  BY <1>9, <1>10 DEF l, g

\* A range that is added counts in full.
LEMMA AppendReach ==
  ASSUME NEW m \in Seq(Rng), NEW r \in Rng, NEW n \in Nat
  PROVE  /\ Reach(Append(m, r), Len(m) + 1, n)
              <=> (Reach(m, Len(m), n) \/ (r.start <= n /\ n <= r.end))
         /\ Lead(Append(m, r), Len(m) + 1, n)
              <=> (Lead(m, Len(m), n) \/ (r.start <= n /\ n < r.end))
<1>. DEFINE l == Len(m)
            a == Append(m, r)
<1>1. l \in Nat /\ a[l + 1] = r /\ \A i \in 1 .. l : a[i] = m[i]
  BY AppendProperties, LenProperties
<1>. HIDE DEF l, a
<1>2. l + 1 \in Nat /\ l + 1 > 0 /\ (l + 1) - 1 = l
  BY <1>1
<1>3. /\ Reach(a, l + 1, n) <=> (Reach(a, l, n) \/ (r.start <= n /\ n <= r.end))
      /\ Lead(a, l + 1, n) <=> (Lead(a, l, n) \/ (r.start <= n /\ n < r.end))
  BY <1>1, <1>2, ReachNext
<1>4. /\ Reach(a, l, n) <=> Reach(m, l, n)
      /\ Lead(a, l, n) <=> Lead(m, l, n)
  BY <1>1 DEF Reach, Lead
<1>. QED  BY <1>3, <1>4 DEF l, a

\* Neither of the two closes a gap.
LEMMA GrownGapped ==
  ASSUME NEW m \in Seq(Rng), m # <<>>, Gapped(m), NEW r \in Rng
  PROVE  /\ Gapped(Grown(m, r)) /\ Grown(m, r) # <<>>
         /\ Grown(m, r)[Len(m)].start = m[Len(m)].start
<1>. DEFINE l == Len(m)
            g == Grown(m, r)
<1>1. l \in Nat /\ l > 0 /\ l \in 1 .. l /\ g \in Seq(Rng) /\ Len(g) = l
  <2>1. l \in Nat /\ l > 0
    BY LenProperties, EmptySeq
  <2>2. g \in Seq(Rng) /\ Len(g) = l
    BY GrownType
  <2>. HIDE DEF g, l
  <2>. QED  BY <2>1, <2>2
<1>2. \A i \in 1 .. l : g[i].start = m[i].start /\ (i < l => g[i].end = m[i].end)
  <2>. TAKE i \in 1 .. l
  <2>1. g[i] = IF i = l
               THEN [start |-> m[i].start, end |-> IF m[i].end >= r.end THEN m[i].end ELSE r.end]
               ELSE m[i]
    BY DEF Grown
  <2>. HIDE DEF g
  <2>. QED  BY <2>1, <1>1
<1>3. \A i, j \in 1 .. l : i < j => m[i].end < m[j].start
  BY DEF Gapped
<1>. HIDE DEF l, g
<1>4. g # <<>>
  BY <1>1, EmptySeq
<1>5. \A i, j \in 1 .. l : i < j => g[i].end < g[j].start
  BY <1>1, <1>2, <1>3
<1>6. Gapped(g)
  BY <1>1, <1>5 DEF Gapped
<1>. QED  BY <1>1, <1>2, <1>4, <1>6 DEF l, g

\* A range that starts above the end of the last one leaves a gap.
LEMMA AppendGapped ==
  ASSUME NEW m \in Seq(Rng), Gapped(m), NEW r \in Rng, m # <<>> => m[Len(m)].end < r.start
  PROVE  Gapped(Append(m, r))
<1>. DEFINE l == Len(m)
            g == Append(m, r)
<1>1. l \in Nat /\ Len(g) = l + 1 /\ g[l + 1] = r /\ \A i \in 1 .. l : g[i] = m[i]
  BY AppendProperties, LenProperties
<1>2. \A i \in 1 .. l : m[i].start \in Nat /\ m[i].end \in Nat /\ m[i].start <= m[i].end
  BY ElementOfSeq, RngFacts
<1>3. \A i, j \in 1 .. l : i < j => m[i].end < m[j].start
  BY DEF Gapped
<1>4. l > 0 => m[l].end < r.start
  BY EmptySeq
<1>5. r.start \in Nat
  BY RngFacts
<1>. HIDE DEF l, g
<1>6. ASSUME NEW i \in 1 .. l + 1, NEW j \in 1 .. l + 1, i < j
      PROVE  g[i].end < g[j].start
  <2>1. i \in 1 .. l /\ l > 0 /\ l \in 1 .. l
    BY <1>1, <1>6
  <2>2. CASE j \in 1 .. l
    BY <2>1, <2>2, <1>1, <1>3, <1>6
  <2>3. CASE j = l + 1
    <3>1. i = l \/ m[i].end < m[l].start
      <4>1. i # l => i < l
        BY <2>1
      <4>. QED  BY <4>1, <2>1, <1>3
    <3>2. m[i].end < r.start
      BY <3>1, <2>1, <1>2, <1>4, <1>5
    <3>. QED  BY <3>2, <2>1, <2>3, <1>1
  <2>. QED  BY <2>2, <2>3, <1>1
<1>7. Gapped(g)
  BY <1>1, <1>6 DEF Gapped
<1>. QED  BY <1>7 DEF g

\* A step of merge_ranges, by either branch, merges one range more.
LEMMA MergedStep ==
  ASSUME NEW s \in Seq(Rng), NEW k \in 1 .. Len(s), NEW m, Merged(m, s, k - 1),
         \A i, j \in 1 .. Len(s) : i < j => s[i].start <= s[j].start
  PROVE  Merged(MergeRange(m, s[k]), s, k)
<1>. DEFINE r == s[k]
            l == Len(m)
<1>1. /\ m \in Seq(Rng) /\ Gapped(m) /\ k \in Nat /\ k > 0 /\ k - 1 \in Nat
      /\ \A n \in Nat : Reach(m, l, n) <=> Reach(s, k - 1, n)
      /\ \A n \in Nat : Lead(m, l, n) <=> Lead(s, k - 1, n)
  BY DEF Merged
<1>2. r \in Rng /\ l \in Nat
  BY <1>1, ElementOfSeq, LenProperties
<1>3. \A i \in 1 .. l : m[i] \in Rng /\ m[i].start \in Nat /\ m[i].end \in Nat /\ m[i].start <= m[i].end
  BY <1>1, ElementOfSeq, RngFacts
<1>4. r.start \in Nat /\ r.end \in Nat /\ r.start <= r.end
  BY <1>2, RngFacts
<1>5. m # <<>> => l > 0 /\ m[l].start <= r.start
  <2>. SUFFICES ASSUME m # <<>> PROVE l > 0 /\ m[l].start <= r.start
    OBVIOUS
  <2>1. l > 0 /\ k - 1 > 0 /\ m[l].start <= s[k - 1].start
    <3>1. l > 0
      BY <1>1, <1>2, EmptySeq
    <3>2. k - 1 # 0
      BY DEF Merged
    <3>. QED  BY <3>1, <3>2, <1>1 DEF Merged
  <2>2. k - 1 \in 1 .. Len(s) /\ k - 1 < k
    BY <2>1, <1>1, LenProperties
  <2>3. s[k - 1].start <= r.start
    BY <2>2
  <2>4. s[k - 1].start \in Nat /\ m[l].start \in Nat
    <3>1. s[k - 1] \in Rng
      BY <2>2, ElementOfSeq
    <3>2. l \in 1 .. l
      BY <2>1, <1>2
    <3>. QED  BY <3>1, <3>2, <1>3, RngFacts
  <2>. QED  BY <2>1, <2>3, <2>4, <1>4
<1>. HIDE DEF l
<1>6. CASE m # <<>> /\ r.start <= m[l].end
  <2>. DEFINE g == Grown(m, r)
  <2>1. MergeRange(m, r) = g /\ g \in Seq(Rng) /\ Len(g) = l
    BY <1>1, <1>2, <1>6, MergeRangeIs, GrownType DEF l
  <2>2. \A n \in Nat : /\ Reach(g, l, n) <=> (Reach(m, l, n) \/ (r.start <= n /\ n <= r.end))
                       /\ Lead(g, l, n) <=> (Lead(m, l, n) \/ (r.start <= n /\ n < r.end))
    <3>1. l \in 1 .. l
      BY <1>2, <1>5, <1>6
    <3>2. m[l].start <= r.start /\ r.start <= m[l].end /\ r.start <= m[l].end + 1
      BY <3>1, <1>3, <1>4, <1>5, <1>6
    <3>. QED  BY <3>2, <1>1, <1>2, <1>6, GrownReach DEF l
  <2>3. \A n \in Nat : /\ Reach(g, l, n) <=> Reach(s, k, n)
                       /\ Lead(g, l, n) <=> Lead(s, k, n)
    <3>. TAKE n \in Nat
    <3>1. /\ Reach(s, k, n) <=> (Reach(s, k - 1, n) \/ (r.start <= n /\ n <= r.end))
          /\ Lead(s, k, n) <=> (Lead(s, k - 1, n) \/ (r.start <= n /\ n < r.end))
      BY <1>1, ReachNext
    <3>. QED  BY <3>1, <2>2, <1>1
  <2>4. Gapped(g) /\ g # <<>> /\ g[l].start <= r.start
    BY <1>1, <1>2, <1>5, <1>6, GrownGapped DEF l
  <2>. HIDE DEF g
  <2>. QED  BY <2>1, <2>3, <2>4, <1>1 DEF Merged
<1>7. CASE ~(m # <<>> /\ r.start <= m[l].end)
  <2>. DEFINE g == Append(m, r)
  <2>1. MergeRange(m, r) = g /\ g \in Seq(Rng) /\ Len(g) = l + 1
    BY <1>1, <1>2, <1>7, MergeRangeIs, AppendProperties, ZenonT(40) DEF l
  <2>2. \A n \in Nat : /\ Reach(g, l + 1, n) <=> (Reach(m, l, n) \/ (r.start <= n /\ n <= r.end))
                       /\ Lead(g, l + 1, n) <=> (Lead(m, l, n) \/ (r.start <= n /\ n < r.end))
    BY <1>1, <1>2, AppendReach DEF l
  <2>3. \A n \in Nat : /\ Reach(g, l + 1, n) <=> Reach(s, k, n)
                       /\ Lead(g, l + 1, n) <=> Lead(s, k, n)
    <3>. TAKE n \in Nat
    <3>1. /\ Reach(s, k, n) <=> (Reach(s, k - 1, n) \/ (r.start <= n /\ n <= r.end))
          /\ Lead(s, k, n) <=> (Lead(s, k - 1, n) \/ (r.start <= n /\ n < r.end))
      BY <1>1, ReachNext
    <3>. QED  BY <3>1, <2>2, <1>1
  <2>4. Gapped(g)
    <3>1. m # <<>> => m[l].end < r.start
      <4>. SUFFICES ASSUME m # <<>> PROVE m[l].end < r.start
        OBVIOUS
      <4>1. l \in 1 .. l
        BY <1>2, <1>5
      <4>. QED  BY <4>1, <1>3, <1>4, <1>7
    <3>. QED  BY <3>1, <1>1, <1>2, AppendGapped DEF l
  <2>5. g[l + 1] = r
    BY <1>1, <1>2, AppendProperties DEF l
  <2>. HIDE DEF g
  <2>6. g # <<>> /\ g[l + 1].start <= r.start
    BY <2>1, <2>5, <1>2, <1>4, EmptySeq
  <2>. QED  BY <2>1, <2>3, <2>4, <2>6, <1>1 DEF Merged
<1>. QED  BY <1>6, <1>7

-----------------------------------------------------------------------------
(* merge_ranges: the result depends on the extent of the ranges.           *)

\* A range of the set S reaches the number n, or leads on from it.
Reached(S, n) == \E r \in S : r.start <= n /\ n <= r.end

Linked(S, n) == \E r \in S : r.start <= n /\ n < r.end

\* All the ranges of a sequence together are the set of them.
LEMMA ReachedIsReach ==
  ASSUME NEW s \in Seq(Rng), NEW n
  PROVE  /\ Reached(ToSet(s), n) <=> Reach(s, Len(s), n)
         /\ Linked(ToSet(s), n) <=> Lead(s, Len(s), n)
<1>1. ToSet(s) = {s[i] : i \in 1 .. Len(s)}
  BY ToSetFinite
<1>. QED  BY <1>1 DEF Reached, Linked, Reach, Lead

\* The extent of a set of ranges: the numbers that they reach, and those from
\* which they lead on to the next number.
SameExtent(S, T) ==
  \A n \in Nat : (Reached(S, n) <=> Reached(T, n)) /\ (Linked(S, n) <=> Linked(T, n))

\* merge_ranges: the result is in order, with gaps, and extends as far as the
\* ranges did.
LEMMA MergeRangesFacts ==
  ASSUME NEW rs \in Seq(Rng)
  PROVE  /\ MergeRanges(rs) \in Seq(Rng) /\ Gapped(MergeRanges(rs))
         /\ SameExtent(ToSet(MergeRanges(rs)), ToSet(rs))
<1>. DEFINE s == SortedByStart(ToSet(rs))
            n == Len(s)
<1>1. ToSet(rs) \in SUBSET Rng /\ IsFiniteSet(ToSet(rs))
  BY ToSetFinite
<1>2. /\ s \in Seq(Rng) /\ ToSet(s) = ToSet(rs)
      /\ \A i, j \in 1 .. Len(s) : i < j => s[i].start <= s[j].start
  BY <1>1, SortedFacts
<1>3. n \in Nat
  BY <1>2, LenProperties
<1>. HIDE DEF s
<1>4. PICK F : /\ F[0] = <<>> /\ F[Len(s)] = FoldLeft(MergeRange, <<>>, s)
               /\ \A k \in 1 .. Len(s) : F[k] = MergeRange(F[k - 1], s[k])
  BY <1>2, MergeSteps
<1>. HIDE DEF n
<1>. DEFINE Wrong == {k \in 0 .. n : ~Merged(F[k], s, k)}
<1>5. Wrong = {}
  <2>1. SUFFICES ASSUME Wrong # {} PROVE FALSE
    OBVIOUS
  <2>2. PICK k \in Wrong : \A i \in Wrong : k <= i
    <3>1. Wrong \subseteq Nat  BY <1>3
    <3>. HIDE DEF Wrong
    <3>. QED  BY <3>1, <2>1, LeastNumber
  <2>3. k # 0
    <3>1. <<>> \in Seq(Rng) /\ Len(<<>>) = 0
      BY EmptySeq
    <3>2. Merged(<<>>, s, 0)
      BY <3>1 DEF Merged, Gapped, Reach, Lead
    <3>. QED  BY <3>2, <1>4
  <2>4. k \in 1 .. n /\ k - 1 \in 0 .. n /\ k - 1 \notin Wrong
    <3>1. k \in 0 .. n /\ k \in 1 .. n /\ k - 1 \in 0 .. n /\ ~(k <= k - 1)
      BY <1>3, <2>3
    <3>. HIDE DEF Wrong
    <3>. QED  BY <3>1, <2>2
  <2>5. Merged(F[k - 1], s, k - 1)
    BY <2>4
  <2>6. F[k] = MergeRange(F[k - 1], s[k])
    BY <2>4, <1>4 DEF n
  <2>7. Merged(F[k], s, k)
    BY <2>4, <2>5, <2>6, <1>2, MergedStep DEF n
  <2>. QED  BY <2>2, <2>7
<1>6. Merged(F[n], s, n) /\ F[n] = MergeRanges(rs)
  <2>1. n \in 0 .. n
    BY <1>3
  <2>. QED  BY <2>1, <1>5, <1>4 DEF n, MergeRanges, s
<1>7. MergeRanges(rs) \in Seq(Rng) /\ Gapped(MergeRanges(rs))
  BY <1>6 DEF Merged
<1>8. SameExtent(ToSet(MergeRanges(rs)), ToSet(rs))
  <2>. SUFFICES ASSUME NEW x \in Nat
                PROVE  /\ Reached(ToSet(MergeRanges(rs)), x) <=> Reached(ToSet(rs), x)
                       /\ Linked(ToSet(MergeRanges(rs)), x) <=> Linked(ToSet(rs), x)
    BY DEF SameExtent
  <2>. DEFINE m == MergeRanges(rs)
  <2>1. /\ Reach(m, Len(m), x) <=> Reach(s, n, x)
        /\ Lead(m, Len(m), x) <=> Lead(s, n, x)
    BY <1>6 DEF Merged
  <2>2. /\ Reached(ToSet(m), x) <=> Reach(m, Len(m), x)
        /\ Linked(ToSet(m), x) <=> Lead(m, Len(m), x)
    BY <1>7, ReachedIsReach
  <2>3. /\ Reached(ToSet(rs), x) <=> Reach(s, n, x)
        /\ Linked(ToSet(rs), x) <=> Lead(s, n, x)
    BY <1>2, ReachedIsReach DEF n
  <2>. QED  BY <2>1, <2>2, <2>3
<1>. QED  BY <1>7, <1>8

\* The longest ranges without a gap that a set of ranges extends over: the
\* result of merge_ranges, which depends on the extent alone.
Components(S) ==
  {r \in Rng : /\ Reached(S, r.start) /\ ~Linked(S, r.start - 1) /\ ~Linked(S, r.end)
               /\ \A n \in Nat : r.start <= n /\ n < r.end => Linked(S, n)}

\* Ranges with gaps between them are the components of their extent.
LEMMA GappedFacts ==
  ASSUME NEW m \in Seq(Rng), Gapped(m), NEW S, SameExtent(ToSet(m), S)
  PROVE  /\ Components(S) = ToSet(m)
         /\ \A i \in 1 .. Len(m) :
              /\ m[i] \in Rng /\ Reached(S, m[i].start) /\ Reached(S, m[i].end)
              /\ ~Linked(S, m[i].end) /\ ~Linked(S, m[i].start - 1)
              /\ \A n \in Nat : m[i].start <= n /\ n < m[i].end => Linked(S, n)
<1>. DEFINE l == Len(m)
            T == ToSet(m)
<1>1. /\ l \in Nat /\ T = {m[i] : i \in 1 .. l}
      /\ \A i \in 1 .. l : /\ m[i] \in Rng /\ m[i].start \in Nat /\ m[i].end \in Nat
                           /\ m[i].start <= m[i].end /\ m[i].start - 1 \in Nat
  <2>1. \A i \in 1 .. l : m[i] \in Rng /\ m[i].start \in NonZero
    BY ElementOfSeq, RngFacts
  <2>2. \A x \in NonZero : x - 1 \in Nat
    BY MaxU32Assumption DEF NonZero
  <2>. QED  BY <2>1, <2>2, RngFacts, LenProperties, ToSetFinite
<1>2. \A i, j \in 1 .. l : i = j \/ m[i].end < m[j].start \/ m[j].end < m[i].start
  BY <1>1 DEF Gapped
<1>3. \A n \in Nat : /\ Reached(S, n) <=> \E i \in 1 .. l : m[i].start <= n /\ n <= m[i].end
                     /\ Linked(S, n) <=> \E i \in 1 .. l : m[i].start <= n /\ n < m[i].end
  <2>. TAKE n \in Nat
  <2>1. /\ Reached(S, n) <=> Reached(T, n)
        /\ Linked(S, n) <=> Linked(T, n)
    BY DEF SameExtent
  <2>. QED  BY <2>1, <1>1 DEF Reached, Linked
<1>. HIDE DEF l, T
<1>4. ASSUME NEW i \in 1 .. l
      PROVE  /\ Reached(S, m[i].start) /\ Reached(S, m[i].end)
             /\ ~Linked(S, m[i].end) /\ ~Linked(S, m[i].start - 1)
             /\ \A n \in Nat : m[i].start <= n /\ n < m[i].end => Linked(S, n)
  <2>1. Reached(S, m[i].start) /\ Reached(S, m[i].end)
    BY <1>1, <1>3
  <2>2. ~Linked(S, m[i].end)
    <3>. SUFFICES ASSUME NEW j \in 1 .. l, m[j].start <= m[i].end, m[i].end < m[j].end
                  PROVE  FALSE
      BY <1>1, <1>3
    <3>1. /\ m[i].start \in Nat /\ m[i].end \in Nat /\ m[i].start <= m[i].end
          /\ m[j].start \in Nat /\ m[j].end \in Nat /\ m[j].start <= m[j].end
      BY <1>1
    <3>2. m[i].end < m[j].start \/ m[j].end < m[i].start \/ m[i].end = m[j].end
      BY <1>2
    <3>. QED  BY <3>1, <3>2
  <2>3. ~Linked(S, m[i].start - 1)
    <3>. SUFFICES ASSUME NEW j \in 1 .. l, m[j].start <= m[i].start - 1,
                         m[i].start - 1 < m[j].end
                  PROVE  FALSE
      BY <1>1, <1>3
    <3>1. /\ m[i].start \in Nat /\ m[i].end \in Nat /\ m[i].start <= m[i].end
          /\ m[j].start \in Nat /\ m[j].end \in Nat
      BY <1>1
    <3>2. m[i].end < m[j].start \/ m[j].end < m[i].start \/ m[i].start = m[j].start
      BY <1>2
    <3>. QED  BY <3>1, <3>2
  <2>4. \A n \in Nat : m[i].start <= n /\ n < m[i].end => Linked(S, n)
    BY <1>3
  <2>. QED  BY <2>1, <2>2, <2>3, <2>4
<1>5. ASSUME NEW r \in Components(S)
      PROVE  r \in T
  <2>1. /\ r \in Rng /\ Reached(S, r.start) /\ ~Linked(S, r.start - 1) /\ ~Linked(S, r.end)
        /\ \A n \in Nat : r.start <= n /\ n < r.end => Linked(S, n)
    BY DEF Components
  <2>2. /\ r.start \in Nat /\ r.end \in Nat /\ r.start <= r.end /\ r.start - 1 \in Nat
        /\ r = [start |-> r.start, end |-> r.end]
    <3>1. r.start \in NonZero
      BY <2>1, RngFacts
    <3>2. \A x \in NonZero : x - 1 \in Nat
      BY MaxU32Assumption DEF NonZero
    <3>. QED  BY <2>1, <3>1, <3>2, RngFacts
  <2>3. PICK i \in 1 .. l : m[i].start <= r.start /\ r.start <= m[i].end
    BY <2>1, <2>2, <1>3
  <2>4. /\ m[i].start \in Nat /\ m[i].end \in Nat /\ m[i].start <= m[i].end /\ m[i] \in Rng
        /\ m[i] = [start |-> m[i].start, end |-> m[i].end]
    BY <1>1, RngFacts
  <2>5. m[i].start = r.start
    <3>1. ~(m[i].start <= r.start - 1 /\ r.start - 1 < m[i].end)
      BY <2>1, <2>2, <1>3
    <3>. QED  BY <3>1, <2>2, <2>3, <2>4
  <2>6. ~(m[i].end < r.end)
    <3>. SUFFICES ASSUME m[i].end < r.end PROVE FALSE
      OBVIOUS
    <3>1. Linked(S, m[i].end)
      BY <2>1, <2>3, <2>4
    <3>. QED  BY <3>1, <1>4
  <2>7. ~(r.end < m[i].end)
    <3>. SUFFICES ASSUME r.end < m[i].end PROVE FALSE
      OBVIOUS
    <3>1. Linked(S, r.end)
      BY <2>2, <2>5, <1>4
    <3>. QED  BY <3>1, <2>1
  <2>8. m[i].end = r.end
    BY <2>2, <2>4, <2>6, <2>7
  <2>9. m[i] = r
    BY <2>2, <2>4, <2>5, <2>8
  <2>. QED  BY <2>9, <1>1
<1>6. Components(S) = T
  <2>1. ASSUME NEW r \in T PROVE r \in Components(S)
    <3>1. PICK i \in 1 .. l : r = m[i]
      BY <1>1
    <3>. QED  BY <3>1, <1>1, <1>4 DEF Components
  <2>. QED  BY <2>1, <1>5
<1>. QED  BY <1>1, <1>4, <1>6 DEF l, T

\* A component depends on the extent alone.
LEMMA SameComponents ==
  ASSUME NEW S \in SUBSET Rng, NEW T \in SUBSET Rng, SameExtent(S, T)
  PROVE  Components(S) = Components(T)
<1>1. ASSUME NEW r \in Rng
      PROVE  r.start \in Nat /\ r.end \in Nat /\ r.start - 1 \in Nat
  <2>1. r.start \in NonZero
    BY RngFacts
  <2>2. \A x \in NonZero : x - 1 \in Nat
    BY MaxU32Assumption DEF NonZero
  <2>. QED  BY <2>1, <2>2, RngFacts
<1>2. \A n \in Nat : (Reached(S, n) <=> Reached(T, n)) /\ (Linked(S, n) <=> Linked(T, n))
  BY DEF SameExtent
<1>. QED  BY <1>1, <1>2 DEF Components

-----------------------------------------------------------------------------
(* The loop over the single numbers.                                       *)

\* saturating_add of one adds one, except to u32::MAX.
LEMMA SaturatingIncIs ==
  ASSUME NEW n \in NonZero
  PROVE  /\ SaturatingInc(n) = (IF n = MaxU32 THEN MaxU32 ELSE n + 1)
         /\ SaturatingInc(n) \in NonZero /\ n <= SaturatingInc(n)
<1>1. n \in Int /\ n + 1 \in Int /\ MaxU32 \in Int /\ n <= MaxU32 /\ 1 <= n
  BY MaxU32Assumption DEF NonZero
<1>2. SaturatingInc(n) = IF n + 1 <= MaxU32 THEN n + 1 ELSE MaxU32
  BY <1>1, MinOfTwo DEF SaturatingInc
<1>. QED  BY <1>1, <1>2 DEF NonZero

\* The number right before a range is one less than its start, or 1.
LEMMA JustBeforeIs ==
  ASSUME NEW r \in Rng
  PROVE  /\ JustBefore(r) = (IF r.start >= 2 THEN r.start - 1 ELSE r.start)
         /\ JustBefore(r) \in NonZero /\ JustBefore(r) <= r.start
<1>1. r.start \in Nat /\ r.start \in NonZero /\ 2 \in Int /\ r.start \in Int
  BY RngFacts
<1>2. Max({r.start, 2}) = IF r.start >= 2 THEN r.start ELSE 2
  BY <1>1, MaxOfTwo
<1>3. r.start >= 1 /\ r.start <= MaxU32
  BY <1>1, MaxU32Assumption DEF NonZero
<1>. QED  BY <1>1, <1>2, <1>3, MaxU32Assumption DEF JustBefore, NonZero

\* A single right before a range extends it by one, and no other single does.
LEMMA ExtendFacts ==
  ASSUME NEW rs \in Seq(Rng), NEW n \in NonZero
  PROVE  /\ Extend(rs, n) \in Seq(Rng) /\ Len(Extend(rs, n)) = Len(rs)
         /\ \A i \in 1 .. Len(rs) :
              /\ Extend(rs, n)[i].end = rs[i].end
              /\ Extend(rs, n)[i].start <= rs[i].start
              /\ \A x \in Nat : Extend(rs, n)[i].start <= x /\ x < rs[i].start => x = n
<1>. DEFINE e == Extend(rs, n)
            l == Len(rs)
<1>1. l \in Nat /\ DOMAIN rs = 1 .. l /\ \A i \in 1 .. l : rs[i] \in Rng
  BY LenProperties, ElementOfSeq
<1>2. e = [i \in 1 .. l |-> IF n = JustBefore(rs[i]) THEN [rs[i] EXCEPT !.start = n] ELSE rs[i]]
  BY <1>1 DEF Extend
<1>. HIDE DEF e, l
<1>3. ASSUME NEW i \in 1 .. l
      PROVE  /\ e[i] \in Rng /\ e[i].end = rs[i].end /\ e[i].start <= rs[i].start
             /\ \A x \in Nat : e[i].start <= x /\ x < rs[i].start => x = n
  <2>1. /\ rs[i].start \in Nat /\ rs[i].end \in NonZero /\ rs[i].end \in Nat
        /\ rs[i] = [start |-> rs[i].start, end |-> rs[i].end]
        /\ rs[i].start <= rs[i].end
    BY <1>1, RngFacts
  <2>2. CASE n = JustBefore(rs[i])
    <3>1. e[i] = [start |-> n, end |-> rs[i].end]
      BY <2>1, <2>2, <1>2
    <3>2. n = (IF rs[i].start >= 2 THEN rs[i].start - 1 ELSE rs[i].start) /\ n <= rs[i].start
      BY <2>2, <1>1, JustBeforeIs
    <3>3. n \in Nat /\ n <= rs[i].end
      BY <3>2, <2>1, MaxU32Assumption DEF NonZero
    <3>4. e[i] \in Rng
      BY <3>1, <3>3, <2>1, RngMade
    <3>5. \A x \in Nat : n <= x /\ x < rs[i].start => x = n
      BY <3>2, <3>3, <2>1
    <3>. QED  BY <3>1, <3>2, <3>4, <3>5
  <2>3. CASE n # JustBefore(rs[i])
    <3>1. e[i] = rs[i]
      BY <2>3, <1>2
    <3>. QED  BY <3>1, <2>1, <1>1
  <2>. QED  BY <2>2, <2>3
<1>4. e \in Seq(Rng) /\ Len(e) = l
  <2>1. e = [i \in 1 .. l |-> e[i]]
    BY <1>2
  <2>2. e \in [1 .. l -> Rng]
    BY <2>1, <1>3
  <2>. QED  BY <2>2, <1>1, SeqDef, LenProperties
<1>. QED  BY <1>3, <1>4 DEF e, l

\* What the loop over the single numbers carries along: the ranges, and the
\* numbers that no range has absorbed.
Acc == [ranges : Seq(Rng), left : SUBSET NonZero]

\* A step of the loop over the single numbers keeps the types.
LEMMA AbsorbType ==
  ASSUME NEW acc \in Acc, NEW n \in NonZero
  PROVE  /\ acc.ranges \in Seq(Rng) /\ acc.left \in SUBSET NonZero
         /\ AbsorbSingle(acc, n) \in Acc
<1>1. acc.ranges \in Seq(Rng) /\ acc.left \in SUBSET NonZero
  BY DEF Acc
<1>2. Extend(acc.ranges, n) \in Seq(Rng)
  BY <1>1, ExtendFacts
<1>3. (IF Absorbed(acc.ranges, n) THEN acc.left \ {n} ELSE acc.left) \in SUBSET NonZero
  BY <1>1
<1>. QED  BY <1>1, <1>2, <1>3 DEF AbsorbSingle, Acc

\* The fold over the single numbers goes through one result for each prefix.
LEMMA AbsorbSteps ==
  ASSUME NEW s \in Seq(NonZero), NEW base \in Acc
  PROVE  \E F : /\ F[0] = base /\ F[Len(s)] = FoldLeft(AbsorbSingle, base, s)
                /\ \A k \in 1 .. Len(s) : F[k] = AbsorbSingle(F[k - 1], s[k])
<1>. DEFINE n == Len(s)
            step == [p \in Acc \X (1 .. n) |-> AbsorbSingle(p[1], s[p[2]])]
            Is(g) == g = [T \in SUBSET (1 .. n) |->
                            IF T = {} THEN base ELSE AbsorbSingle(g[T \ {Max(T)}], s[Max(T)])]
            iter == CHOOSE g : Is(g)
<1>1. n \in Nat /\ DOMAIN s = 1 .. n /\ \A i \in 1 .. n : s[i] \in NonZero
  BY LenProperties, ElementOfSeq
<1>2. FoldLeft(AbsorbSingle, base, s) = iter[1 .. n]
  BY <1>1 DEF FoldLeft, MapThenFoldSet
<1>3. \E g : Is(g)
  <2>1. step \in [Acc \X (1 .. n) -> Acc]
    <3>1. \A p \in Acc \X (1 .. n) : AbsorbSingle(p[1], s[p[2]]) \in Acc
      BY <1>1, AbsorbType
    <3>. QED  BY <3>1
  <2>. HIDE DEF step
  <2>2. PICK f : Folds(f, Acc, n, base, step)
    <3>1. n \in Nat
      BY <1>1
    <3>. HIDE DEF n
    <3>. QED  BY <2>1, <3>1, FoldExists, Zenon
  <2>3. ASSUME NEW T \in SUBSET (1 .. n), T # {}
        PROVE  step[<<f[T \ {Max(T)}], Max(T)>>] = AbsorbSingle(f[T \ {Max(T)}], s[Max(T)])
    <3>1. Max(T) \in 1 .. n
      BY <2>3, <1>1, MaxOf
    <3>2. f[T \ {Max(T)}] \in Acc
      BY <2>2 DEF Folds
    <3>. QED  BY <3>1, <3>2 DEF step
  <2>4. f = [T \in SUBSET (1 .. n) |-> f[T]]
    BY <2>2 DEF Folds
  <2>5. Is(f)
    BY <2>2, <2>3, <2>4 DEF Folds
  <2>. QED  BY <2>5
<1>4. Is(iter)
  <2>. HIDE DEF Is
  <2>. QED  BY <1>3
<1>. HIDE DEF iter
<1>. DEFINE F == [k \in 0 .. n |-> iter[1 .. k]]
<1>5. F[0] = base
  <2>1. 1 .. 0 = {} /\ 0 \in 0 .. n
    BY <1>1
  <2>. QED  BY <2>1, <1>4
<1>6. ASSUME NEW k \in 1 .. n PROVE F[k] = AbsorbSingle(F[k - 1], s[k])
  <2>1. 1 .. k \in SUBSET (1 .. n) /\ 1 .. k # {} /\ k \in 0 .. n /\ k - 1 \in 0 .. n
    BY <1>1, InitialInterval
  <2>2. Max(1 .. k) = k /\ (1 .. k) \ {k} = 1 .. k - 1
    BY MaxOfInterval
  <2>. QED  BY <2>1, <2>2, <1>4
<1>7. F[n] = FoldLeft(AbsorbSingle, base, s)
  BY <1>1, <1>2
<1>. HIDE DEF F
<1>. QED  BY <1>5, <1>6, <1>7

\* What the loop over the singles keeps: ranges only grow, by singles, and
\* the singles that were met are gone.
Absorbing(acc, rs, order, k) ==
  /\ acc.ranges \in Seq(Rng) /\ Len(acc.ranges) = Len(rs)
  /\ \A i \in 1 .. Len(rs) :
       /\ acc.ranges[i].end = rs[i].end
       /\ acc.ranges[i].start <= rs[i].start
       /\ \A x \in Nat : acc.ranges[i].start <= x /\ x < rs[i].start => x \in ToSet(order)
  /\ acc.left = {order[j] : j \in k + 1 .. Len(order)}

\* A single number, whose own half-open range is among the ranges, is absorbed
\* and moves no start beyond a number that was there.
LEMMA AbsorbingStep ==
  ASSUME NEW rs \in Seq(Rng), NEW order \in Seq(NonZero), NEW k \in 1 .. Len(order),
         NEW acc, Absorbing(acc, rs, order, k - 1),
         \A i, j \in 1 .. Len(order) : order[i] = order[j] => i = j,
         NEW own \in 1 .. Len(rs),
         rs[own].start = order[k], rs[own].end = SaturatingInc(order[k])
  PROVE  Absorbing(AbsorbSingle(acc, order[k]), rs, order, k)
<1>. DEFINE n == order[k]
            a == acc.ranges
            e == Extend(a, n)
<1>1. n \in NonZero /\ k \in Nat /\ n \in Nat
  <2>1. n \in NonZero
    BY ElementOfSeq
  <2>. QED  BY <2>1 DEF NonZero
<1>2. /\ a \in Seq(Rng) /\ Len(a) = Len(rs)
      /\ \A i \in 1 .. Len(rs) :
           /\ a[i].end = rs[i].end
           /\ a[i].start <= rs[i].start
           /\ \A x \in Nat : a[i].start <= x /\ x < rs[i].start => x \in ToSet(order)
      /\ acc.left = {order[j] : j \in k .. Len(order)}
  <2>1. k - 1 + 1 = k
    BY <1>1
  <2>. QED  BY <2>1, Zenon DEF Absorbing
<1>3. /\ e \in Seq(Rng) /\ Len(e) = Len(a)
      /\ \A i \in 1 .. Len(a) :
           /\ e[i].end = a[i].end /\ e[i].start <= a[i].start
           /\ \A x \in Nat : e[i].start <= x /\ x < a[i].start => x = n
  <2>1. a \in Seq(Rng) /\ n \in NonZero
    BY <1>1, <1>2
  <2>. HIDE DEF a, n
  <2>. QED  BY <2>1, ExtendFacts
<1>4. \A i \in 1 .. Len(rs) : /\ a[i].start \in Nat /\ rs[i].start \in Nat /\ e[i].start \in Nat
  BY <1>2, <1>3, ElementOfSeq, RngFacts
<1>5. Absorbed(a, n)
  <2>1. DOMAIN a = 1 .. Len(rs)
    BY <1>2, LenProperties
  <2>2. a[own].start <= n /\ a[own].end = SaturatingInc(n)
    BY <1>2
  <2>3. n = a[own].end \/ n < a[own].end
    <3>1. SaturatingInc(n) = (IF n = MaxU32 THEN MaxU32 ELSE n + 1)
      BY <1>1, SaturatingIncIs
    <3>. QED  BY <3>1, <2>2, <1>1
  <2>4. n = a[own].end \/ InRange(n, a[own])
    BY <2>2, <2>3 DEF InRange
  <2>. QED  BY <2>1, <2>4 DEF Absorbed
<1>6. n \in ToSet(order)
  BY ToSetFinite
<1>. DEFINE A == AbsorbSingle(acc, n)
<1>7. A.ranges = e /\ A.left = acc.left \ {n}
  BY <1>5 DEF AbsorbSingle
<1>8. A.left = {order[j] : j \in k + 1 .. Len(order)}
  <2>1. \A j \in k .. Len(order) : j \in 1 .. Len(order) /\ (j = k \/ j \in k + 1 .. Len(order))
    BY <1>1, LenProperties
  <2>2. \A j \in k + 1 .. Len(order) : j \in 1 .. Len(order) /\ j # k /\ j \in k .. Len(order)
    BY <1>1, LenProperties
  <2>3. \A j \in k + 1 .. Len(order) : order[j] # n
    BY <2>2
  <2>. QED  BY <2>1, <2>2, <2>3, <1>2, <1>7
<1>. HIDE DEF n, a, e, A
<1>9. ASSUME NEW i \in 1 .. Len(rs)
      PROVE  /\ e[i].end = rs[i].end /\ e[i].start <= rs[i].start
             /\ \A x \in Nat : e[i].start <= x /\ x < rs[i].start => x \in ToSet(order)
  <2>1. e[i].end = rs[i].end
    BY <1>2, <1>3
  <2>2. e[i].start <= rs[i].start
    <3>1. e[i].start <= a[i].start /\ a[i].start <= rs[i].start
      BY <1>2, <1>3
    <3>2. e[i].start \in Nat /\ a[i].start \in Nat /\ rs[i].start \in Nat
      BY <1>4
    <3>. QED  BY <3>1, <3>2
  <2>3. ASSUME NEW x \in Nat, e[i].start <= x, x < rs[i].start PROVE x \in ToSet(order)
    <3>1. CASE a[i].start <= x
      BY <3>1, <2>3, <1>2
    <3>2. CASE x < a[i].start
      BY <3>2, <2>3, <1>2, <1>3, <1>6
    <3>. QED  BY <3>1, <3>2, <1>4
  <2>. QED  BY <2>1, <2>2, <2>3
<1>10. Absorbing(A, rs, order, k)
  BY <1>2, <1>3, <1>7, <1>8, <1>9 DEF Absorbing
<1>. QED  BY <1>10 DEF A, n

\* When every single number has a range of its own, as in normalize, the loop
\* leaves no number over, and the extent as it was.
LEMMA AbsorbSinglesFacts ==
  ASSUME NEW rs \in Seq(Rng), NEW order \in Seq(NonZero),
         \A i, j \in 1 .. Len(order) : order[i] = order[j] => i = j,
         \A k \in 1 .. Len(order) :
           \E i \in 1 .. Len(rs) :
             rs[i].start = order[k] /\ rs[i].end = SaturatingInc(order[k])
  PROVE  /\ AbsorbSingles(order, rs).ranges \in Seq(Rng)
         /\ AbsorbSingles(order, rs).left = {}
         /\ SameExtent(ToSet(AbsorbSingles(order, rs).ranges), ToSet(rs))
<1>. DEFINE base == [ranges |-> rs, left |-> ToSet(order)]
            n == Len(order)
<1>1. n \in Nat /\ ToSet(order) = {order[j] : j \in 1 .. n} /\ ToSet(order) \subseteq NonZero
  <2>1. n \in Nat
    BY LenProperties
  <2>2. ToSet(order) = {order[j] : j \in 1 .. Len(order)} /\ ToSet(order) \subseteq NonZero
    BY ToSetFinite
  <2>. QED  BY <2>1, <2>2
<1>2. base \in Acc
  BY <1>1 DEF Acc
<1>. HIDE DEF base
<1>3. PICK F : /\ F[0] = base /\ F[Len(order)] = FoldLeft(AbsorbSingle, base, order)
               /\ \A k \in 1 .. Len(order) : F[k] = AbsorbSingle(F[k - 1], order[k])
  BY <1>2, AbsorbSteps
<1>. HIDE DEF n
<1>. DEFINE Wrong == {k \in 0 .. n : ~Absorbing(F[k], rs, order, k)}
<1>5. Wrong = {}
  <2>1. SUFFICES ASSUME Wrong # {} PROVE FALSE
    OBVIOUS
  <2>2. PICK k \in Wrong : \A i \in Wrong : k <= i
    <3>1. Wrong \subseteq Nat  BY <1>1
    <3>. HIDE DEF Wrong
    <3>. QED  BY <3>1, <2>1, LeastNumber
  <2>3. k # 0
    <3>1. Absorbing(base, rs, order, 0)
      <4>1. \A i \in 1 .. Len(rs) : rs[i].start \in Nat
        BY ElementOfSeq, RngFacts
      <4>. QED  BY <4>1, <1>1 DEF Absorbing, base, n
    <3>. QED  BY <3>1, <1>3
  <2>4. k \in 1 .. n /\ k - 1 \in 0 .. n /\ k - 1 \notin Wrong
    <3>1. k \in 0 .. n /\ k \in 1 .. n /\ k - 1 \in 0 .. n /\ ~(k <= k - 1)
      BY <1>1, <2>3
    <3>. HIDE DEF Wrong
    <3>. QED  BY <3>1, <2>2
  <2>5. Absorbing(F[k - 1], rs, order, k - 1)
    BY <2>4
  <2>6. F[k] = AbsorbSingle(F[k - 1], order[k])
    BY <2>4, <1>3 DEF n
  <2>7. PICK own \in 1 .. Len(rs) :
          rs[own].start = order[k] /\ rs[own].end = SaturatingInc(order[k])
    BY <2>4 DEF n
  <2>8. Absorbing(F[k], rs, order, k)
    BY <2>4, <2>5, <2>6, <2>7, AbsorbingStep DEF n
  <2>. QED  BY <2>2, <2>8
<1>. DEFINE acc == AbsorbSingles(order, rs)
            a == acc.ranges
<1>6. Absorbing(acc, rs, order, n)
  <2>1. n \in 0 .. n
    BY <1>1
  <2>. QED  BY <2>1, <1>5, <1>3 DEF n, AbsorbSingles, base
<1>. HIDE DEF acc
<1>7. /\ a \in Seq(Rng) /\ Len(a) = Len(rs) /\ acc.left = {}
      /\ \A i \in 1 .. Len(rs) :
           /\ a[i].end = rs[i].end /\ a[i].start <= rs[i].start
           /\ \A x \in Nat : a[i].start <= x /\ x < rs[i].start => x \in ToSet(order)
  <2>1. n + 1 .. Len(order) = {}
    BY <1>1 DEF n
  <2>. QED  BY <2>1, <1>6 DEF Absorbing
<1>. HIDE DEF a
<1>8. \A i \in 1 .. Len(rs) : /\ a[i].start \in Nat /\ rs[i].start \in Nat /\ rs[i].end \in Nat
                              /\ rs[i].start <= MaxU32
  BY <1>7, ElementOfSeq, RngFacts, MaxU32Assumption DEF NonZero
<1>9. \A x \in Nat : /\ Reached(ToSet(rs), x) <=> \E i \in 1 .. Len(rs) : rs[i].start <= x /\ x <= rs[i].end
                     /\ Linked(ToSet(rs), x) <=> \E i \in 1 .. Len(rs) : rs[i].start <= x /\ x < rs[i].end
                     /\ Reached(ToSet(a), x) <=> \E i \in 1 .. Len(rs) : a[i].start <= x /\ x <= rs[i].end
                     /\ Linked(ToSet(a), x) <=> \E i \in 1 .. Len(rs) : a[i].start <= x /\ x < rs[i].end
  <2>. TAKE x \in Nat
  <2>1. /\ Reached(ToSet(rs), x) <=> Reach(rs, Len(rs), x)
        /\ Linked(ToSet(rs), x) <=> Lead(rs, Len(rs), x)
    BY ReachedIsReach
  <2>2. /\ Reached(ToSet(a), x) <=> Reach(a, Len(rs), x)
        /\ Linked(ToSet(a), x) <=> Lead(a, Len(rs), x)
    BY <1>7, ReachedIsReach
  <2>3. /\ Reach(rs, Len(rs), x) <=> \E i \in 1 .. Len(rs) : rs[i].start <= x /\ x <= rs[i].end
        /\ Lead(rs, Len(rs), x) <=> \E i \in 1 .. Len(rs) : rs[i].start <= x /\ x < rs[i].end
    BY DEF Reach, Lead
  <2>4. /\ Reach(a, Len(rs), x) <=> \E i \in 1 .. Len(rs) : a[i].start <= x /\ x <= rs[i].end
        /\ Lead(a, Len(rs), x) <=> \E i \in 1 .. Len(rs) : a[i].start <= x /\ x < rs[i].end
    BY <1>7 DEF Reach, Lead
  <2>. QED  BY <2>1, <2>2, <2>3, <2>4

\* A number that a range has grown by is a single, which has a range of its own.
<1>10. ASSUME NEW x \in Nat, NEW i \in 1 .. Len(rs), a[i].start <= x, x < rs[i].start
       PROVE  \E o \in 1 .. Len(rs) : rs[o].start <= x /\ x < rs[o].end
  <2>1. PICK k \in 1 .. n : x = order[k]
    BY <1>10, <1>7, <1>1
  <2>2. PICK o \in 1 .. Len(rs) : rs[o].start = x /\ rs[o].end = SaturatingInc(x)
    BY <2>1 DEF n
  <2>3. x \in NonZero /\ x < MaxU32
    BY <2>1, <1>1, <1>10, <1>8, MaxU32Assumption
  <2>4. SaturatingInc(x) = x + 1
    BY <2>3, SaturatingIncIs
  <2>5. x < SaturatingInc(x) /\ x <= x
    BY <2>4
  <2>. QED  BY <2>2, <2>5, Zenon
<1>11. ASSUME NEW x \in Nat
       PROVE  /\ Reached(ToSet(a), x) <=> Reached(ToSet(rs), x)
              /\ Linked(ToSet(a), x) <=> Linked(ToSet(rs), x)
  <2>0. \A i \in 1 .. Len(rs) : rs[i].start <= x => a[i].start <= x
    <3>. SUFFICES ASSUME NEW i \in 1 .. Len(rs), rs[i].start <= x PROVE a[i].start <= x
      OBVIOUS
    <3>1. a[i].start \in Nat /\ rs[i].start \in Nat /\ a[i].start <= rs[i].start
      BY <1>7, <1>8
    <3>. QED  BY <3>1
  <2>1. Reached(ToSet(rs), x) => Reached(ToSet(a), x)
    BY <2>0, <1>9
  <2>2. Linked(ToSet(rs), x) => Linked(ToSet(a), x)
    BY <2>0, <1>9
  <2>3. ASSUME NEW i \in 1 .. Len(rs), a[i].start <= x, x <= rs[i].end
        PROVE  Reached(ToSet(rs), x)
    <3>0. rs[i].start \in Nat
      BY <1>8
    <3>1. CASE rs[i].start <= x
      BY <3>1, <2>3, <1>9
    <3>2. CASE x < rs[i].start
      <4>1. PICK o \in 1 .. Len(rs) : rs[o].start <= x /\ x < rs[o].end
        BY <3>2, <2>3, <1>10
      <4>2. x <= rs[o].end
        BY <4>1, <1>8
      <4>. QED  BY <4>1, <4>2, <1>9
    <3>. QED  BY <3>0, <3>1, <3>2
  <2>4. ASSUME NEW i \in 1 .. Len(rs), a[i].start <= x, x < rs[i].end
        PROVE  Linked(ToSet(rs), x)
    <3>0. rs[i].start \in Nat
      BY <1>8
    <3>1. CASE rs[i].start <= x
      BY <3>1, <2>4, <1>9
    <3>2. CASE x < rs[i].start
      BY <3>2, <2>4, <1>10, <1>9
    <3>. QED  BY <3>0, <3>1, <3>2
  <2>. QED  BY <2>1, <2>2, <2>3, <2>4, <1>9
<1>. QED  BY <1>7, <1>11 DEF SameExtent, acc, a

-----------------------------------------------------------------------------
(* normalize.                                                              *)

\* The place of a bound among the numbers, with the asterisk above them all.
Rank(x) == IF x = Asterisk THEN MaxU32 + 1 ELSE x

\* Ord::cmp goes by the rank.
LEMMA CmpIs ==
  ASSUME NEW x \in SeqOrUid, NEW y \in SeqOrUid
  PROVE  /\ Rank(x) \in Nat /\ 1 <= Rank(x) /\ Rank(x) <= MaxU32 + 1
         /\ IsLess(x, y) <=> Rank(x) < Rank(y)
         /\ IsGreater(x, y) <=> Rank(x) > Rank(y)
         /\ Cmp(x, y) = "Equal" <=> x = y
         /\ x = y <=> Rank(x) = Rank(y)
BY MaxU32Assumption DEF Rank, Cmp, IsLess, IsGreater, SeqOrUid, NonZero, Asterisk

\* normalize of one sequence, by the rank of its bounds.
LEMMA NormalSequenceIs ==
  ASSUME NEW q \in Sequence
  PROVE  /\ q.kind = "Range" /\ q.a = q.b => NormalSequence(q) = Single(q.a)
         /\ q.kind = "Range" /\ Rank(q.a) > Rank(q.b) => NormalSequence(q) = Between(q.b, q.a)
         /\ q.kind # "Range" \/ (q.a # q.b /\ ~(Rank(q.a) > Rank(q.b))) => NormalSequence(q) = q
<1>1. q.a \in SeqOrUid /\ q.b \in SeqOrUid
  BY DEF Sequence, Single
<1>2. /\ IsGreater(q.a, q.b) <=> Rank(q.a) > Rank(q.b)
      /\ q.a = q.b <=> Rank(q.a) = Rank(q.b)
      /\ Rank(q.a) \in Nat /\ Rank(q.b) \in Nat
  BY <1>1, CmpIs
<1>3. ~(q.a = q.b /\ IsGreater(q.a, q.b))
  BY <1>2
<1>. QED  BY <1>2, <1>3 DEF NormalSequence

\* A sequence with its ends in order, and the half-open range it stands for.
LEMMA NormalSequenceFacts ==
  ASSUME NEW q \in Sequence
  PROVE  LET p == NormalSequence(q)
         IN  /\ p \in Sequence /\ p.a \in SeqOrUid /\ p.b \in SeqOrUid
             /\ ToNonZero(p.a) \in NonZero /\ ToNonZero(p.b) \in NonZero
             /\ ToNonZero(p.a) <= ToNonZero(p.b)
             /\ p.kind = "Single" => p.a = p.b
             /\ HalfOpen(p) \in Rng
             /\ HalfOpen(p).start = ToNonZero(p.a)
             /\ HalfOpen(p).end = SaturatingInc(ToNonZero(p.b))
<1>. DEFINE p == NormalSequence(q)
<1>1. q.a \in SeqOrUid /\ q.b \in SeqOrUid /\ q.kind \in {"Single", "Range"}
      /\ (q.kind = "Single" => q.a = q.b)
  BY DEF Sequence, Single
<1>2. \A x \in SeqOrUid : Single(x) \in Sequence
  BY DEF Sequence
<1>3. \A x, y \in SeqOrUid : Between(x, y) \in Sequence
  BY DEF Sequence, Between
<1>4. p \in Sequence
  BY <1>1, <1>2, <1>3 DEF NormalSequence
<1>5. /\ p.a \in SeqOrUid /\ p.b \in SeqOrUid /\ (p.kind = "Single" => p.a = p.b)
      /\ p.kind \in {"Single", "Range"}
  BY <1>4 DEF Sequence, Single
<1>6. ~(Rank(p.a) > Rank(p.b))
  <2>1. CASE q.kind = "Range" /\ q.a = q.b
    <3>0. ~(Rank(q.a) > Rank(q.b))
      <4>1. Rank(q.a) \in Nat /\ Rank(q.b) = Rank(q.a)
        BY <2>1, <1>1, MaxU32Assumption DEF Rank, SeqOrUid, NonZero, Asterisk
      <4>. QED  BY <4>1
    <3>1. p = Single(q.a)
      BY <2>1, <3>0, NormalSequenceIs
    <3>2. p.a = p.b
      BY <3>1 DEF Single
    <3>. QED  BY <3>2, <1>5, MaxU32Assumption DEF Rank, SeqOrUid, NonZero, Asterisk
  <2>2. CASE q.kind = "Range" /\ q.a # q.b /\ Rank(q.a) > Rank(q.b)
    <3>1. p = Between(q.b, q.a)
      BY <2>2, NormalSequenceIs
    <3>2. p.a = q.b /\ p.b = q.a
      BY <3>1 DEF Between
    <3>. QED  BY <3>2, <2>2, <1>1, MaxU32Assumption DEF Rank, SeqOrUid, NonZero, Asterisk
  <2>3. CASE q.kind = "Range" /\ q.a # q.b /\ ~(Rank(q.a) > Rank(q.b))
    <3>1. p = q
      BY <2>3, NormalSequenceIs
    <3>. QED  BY <3>1, <2>3
  <2>4. CASE q.kind # "Range"
    <3>1. p = q /\ q.a = q.b
      BY <2>4, <1>1, NormalSequenceIs
    <3>. QED  BY <3>1, <1>1, MaxU32Assumption DEF Rank, SeqOrUid, NonZero, Asterisk
  <2>. QED  BY <2>1, <2>2, <2>3, <2>4
<1>. HIDE DEF p
<1>7. ToNonZero(p.a) \in NonZero /\ ToNonZero(p.b) \in NonZero /\ ToNonZero(p.a) <= ToNonZero(p.b)
  BY <1>5, <1>6, MaxU32Assumption DEF Rank, SeqOrUid, NonZero, Asterisk, ToNonZero
<1>8. /\ HalfOpen(p).start = ToNonZero(p.a)
      /\ HalfOpen(p).end = SaturatingInc(ToNonZero(p.b))
  BY DEF HalfOpen
<1>9. HalfOpen(p) \in Rng
  <2>1. SaturatingInc(ToNonZero(p.b)) \in NonZero /\ ToNonZero(p.b) <= SaturatingInc(ToNonZero(p.b))
    BY <1>7, SaturatingIncIs
  <2>2. ToNonZero(p.a) <= SaturatingInc(ToNonZero(p.b))
    BY <2>1, <1>7, MaxU32Assumption DEF NonZero
  <2>. QED  BY <2>1, <2>2, <1>7, RngMade DEF HalfOpen
<1>. QED  BY <1>4, <1>5, <1>7, <1>8, <1>9 DEF p

\* The half-open ranges of the sequences of a set.
NormalRanges(s) == {HalfOpen(NormalSequence(q)) : q \in ToSet(s)}

\* The form that normalize gives a set, whatever order its HashSet has.
NormalForm(s) == SortedByNumber({ToSequence(r) : r \in Components(NormalRanges(s))})

\* Whatever the order of the HashSet, normalize gives the normal form.
LEMMA NormalizationIs ==
  ASSUME NEW s \in Seq(Sequence)
  PROVE  Normalizations(s) = {NormalForm(s)}
<1>. DEFINE normal == [i \in DOMAIN s |-> NormalSequence(s[i])]
            singles == {ToNonZero(q.a) : q \in {r \in ToSet(normal) : r.kind = "Single"}}
            rs == RangesOf(normal)
            Left(acc, merged) ==
              {n \in acc.left : \A i \in DOMAIN merged : ~InRange(n, merged[i])}
            Result(order) ==
              LET acc == AbsorbSingles(order, rs)
                  merged == MergeRanges(acc.ranges)
                  left == Left(acc, merged)
              IN  SortedByNumber({ToSequence(r) : r \in ToSet(merged)}
                                   \cup {Single(FromNonZero(n)) : n \in left})
<1>1. Normalizations(s) = {Result(order) : order \in SetToSeqs(singles)}
  BY DEF Normalizations
<1>2. Len(s) \in Nat /\ DOMAIN s = 1 .. Len(s) /\ \A i \in 1 .. Len(s) : s[i] \in Sequence
  BY LenProperties, ElementOfSeq
<1>3. /\ normal \in Seq(Sequence) /\ Len(normal) = Len(s)
      /\ \A i \in 1 .. Len(s) : normal[i] = NormalSequence(s[i])
  <2>1. normal \in [1 .. Len(s) -> Sequence]
    BY <1>2, NormalSequenceFacts
  <2>. QED  BY <2>1, <1>2, SeqDef, LenProperties
<1>. HIDE DEF normal
<1>4. /\ rs \in Seq(Rng) /\ Len(rs) = Len(s)
      /\ \A i \in 1 .. Len(s) : rs[i] = HalfOpen(NormalSequence(s[i]))
  <2>1. DOMAIN normal = 1 .. Len(s)
    BY <1>3, LenProperties
  <2>2. rs = [i \in 1 .. Len(s) |-> HalfOpen(NormalSequence(s[i]))]
    BY <2>1, <1>3 DEF RangesOf
  <2>3. rs \in [1 .. Len(s) -> Rng]
    BY <2>2, <1>2, NormalSequenceFacts
  <2>. HIDE DEF rs
  <2>. QED  BY <2>2, <2>3, <1>2, SeqDef, LenProperties
<1>. HIDE DEF rs
<1>5. ToSet(rs) = NormalRanges(s) /\ NormalRanges(s) \subseteq Rng
  <2>1. ToSet(rs) = {rs[i] : i \in 1 .. Len(s)} /\ ToSet(s) = {s[i] : i \in 1 .. Len(s)}
        /\ ToSet(rs) \subseteq Rng
    BY <1>4, ToSetFinite
  <2>. QED  BY <2>1, <1>4 DEF NormalRanges
<1>6. \A n \in singles : n \in NonZero /\ \E i \in 1 .. Len(s) : /\ rs[i].start = n
                                                                /\ rs[i].end = SaturatingInc(n)
  <2>. SUFFICES ASSUME NEW q \in ToSet(normal), q.kind = "Single"
                PROVE  /\ ToNonZero(q.a) \in NonZero
                       /\ \E i \in 1 .. Len(s) : /\ rs[i].start = ToNonZero(q.a)
                                                 /\ rs[i].end = SaturatingInc(ToNonZero(q.a))
    OBVIOUS
  <2>1. PICK i \in 1 .. Len(s) : q = normal[i]
    BY <1>3, ToSetFinite
  <2>2. q = NormalSequence(s[i]) /\ s[i] \in Sequence /\ rs[i] = HalfOpen(q)
    BY <2>1, <1>2, <1>3, <1>4
  <2>3. q.a = q.b /\ ToNonZero(q.a) \in NonZero
    BY <2>2, NormalSequenceFacts
  <2>4. HalfOpen(q).start = ToNonZero(q.a) /\ HalfOpen(q).end = SaturatingInc(ToNonZero(q.b))
    BY <2>2, NormalSequenceFacts
  <2>. QED  BY <2>2, <2>3, <2>4
<1>7. IsFiniteSet(singles) /\ singles \subseteq NonZero
  <2>1. singles \subseteq NonZero
    BY <1>6
  <2>. HIDE DEF singles
  <2>2. IsFiniteSet(NonZero)
    BY MaxU32Assumption, FS_Interval DEF NonZero
  <2>. QED  BY <2>1, <2>2, FS_Subset
<1>. HIDE DEF singles
<1>8. ASSUME NEW order \in SetToSeqs(singles)
      PROVE  Result(order) = NormalForm(s)
  <2>. DEFINE acc == AbsorbSingles(order, rs)
              merged == MergeRanges(acc.ranges)
  <2>1. /\ order \in Seq(singles) /\ ToSet(order) = singles
        /\ \A i, j \in 1 .. Len(order) : order[i] = order[j] => i = j
    BY <1>7, ArrangedFacts
  <2>2. order \in Seq(NonZero) /\ \A k \in 1 .. Len(order) : order[k] \in singles
    BY <2>1, <1>7, ElementOfSeq
  <2>3. /\ acc.ranges \in Seq(Rng) /\ acc.left = {}
        /\ SameExtent(ToSet(acc.ranges), ToSet(rs))
    <3>1. \A k \in 1 .. Len(order) :
            \E i \in 1 .. Len(rs) :
              rs[i].start = order[k] /\ rs[i].end = SaturatingInc(order[k])
      BY <2>2, <1>6, <1>4
    <3>. QED  BY <3>1, <2>1, <2>2, <1>4, AbsorbSinglesFacts
  <2>. HIDE DEF acc
  <2>4. /\ merged \in Seq(Rng) /\ Gapped(merged)
        /\ SameExtent(ToSet(merged), ToSet(acc.ranges))
    BY <2>3, MergeRangesFacts
  <2>. HIDE DEF merged
  <2>5. SameExtent(ToSet(merged), NormalRanges(s))
    BY <2>3, <2>4, <1>5 DEF SameExtent
  <2>6. ToSet(merged) = Components(NormalRanges(s))
    BY <2>4, <2>5, GappedFacts
  <2>7. Left(acc, merged) = {}
    BY <2>3
  <2>8. Result(order) = SortedByNumber({ToSequence(r) : r \in ToSet(merged)}
                                       \cup {Single(FromNonZero(n)) : n \in Left(acc, merged)})
    BY DEF acc, merged
  <2>. QED  BY <2>6, <2>7, <2>8 DEF NormalForm
<1>9. SetToSeqs(singles) # {}
  <2>1. \E f : f \in Bijection(1 .. Cardinality(singles), singles)
    BY <1>7, FS_CardinalityType DEF ExistsBijection
  <2>2. PICK f : f \in Injection(1 .. Cardinality(singles), singles)
    BY <2>1 DEF Bijection
  <2>3. f \in SetToSeqs(singles)
    BY <2>2 DEF Injection, IsInjective, SetToSeqs
  <2>. QED  BY <2>3
<1>. HIDE DEF Result
<1>. QED  BY <1>1, <1>8, <1>9

-----------------------------------------------------------------------------
(* How merged ranges are written, and the normal form.                     *)

\* Only the range of the asterisk alone is empty.
Proper(r) == r.start = r.end => r.end = MaxU32

\* The ranges of a set are proper, and merge_ranges gives their components.
LEMMA NormalRangesFacts ==
  ASSUME NEW s \in Seq(Sequence)
  PROVE  /\ NormalRanges(s) \in SUBSET Rng /\ \A r \in NormalRanges(s) : Proper(r)
         /\ \E m \in Seq(Rng) : /\ Gapped(m) /\ SameExtent(ToSet(m), NormalRanges(s))
                                /\ ToSet(m) = Components(NormalRanges(s))
<1>1. /\ Len(s) \in Nat /\ ToSet(s) = {s[i] : i \in 1 .. Len(s)}
      /\ \A i \in 1 .. Len(s) : s[i] \in Sequence
  BY LenProperties, ElementOfSeq, ToSetFinite
<1>. DEFINE rs == [i \in 1 .. Len(s) |-> HalfOpen(NormalSequence(s[i]))]
<1>2. rs \in Seq(Rng) /\ Len(rs) = Len(s)
  <2>1. rs \in [1 .. Len(s) -> Rng]
    BY <1>1, NormalSequenceFacts
  <2>. QED  BY <2>1, <1>1, SeqDef, LenProperties
<1>3. ToSet(rs) = NormalRanges(s)
  <2>1. \A i \in 1 .. Len(s) : rs[i] = HalfOpen(NormalSequence(s[i]))
    OBVIOUS
  <2>. HIDE DEF rs
  <2>2. ToSet(rs) = {rs[i] : i \in 1 .. Len(s)}
    BY <1>2, ToSetFinite
  <2>. QED  BY <2>1, <2>2, <1>1 DEF NormalRanges
<1>. HIDE DEF rs
<1>4. NormalRanges(s) \in SUBSET Rng
  BY <1>2, <1>3, ToSetFinite
<1>5. \A r \in NormalRanges(s) : Proper(r)
  <2>. SUFFICES ASSUME NEW q \in ToSet(s) PROVE Proper(HalfOpen(NormalSequence(q)))
    BY DEF NormalRanges
  <2>. DEFINE p == NormalSequence(q)
              x == ToNonZero(p.a)
              y == ToNonZero(p.b)
  <2>1. q \in Sequence
    BY <1>1
  <2>2. x \in NonZero /\ y \in NonZero /\ x <= y
        /\ HalfOpen(p).start = x /\ HalfOpen(p).end = SaturatingInc(y)
    BY <2>1, NormalSequenceFacts
  <2>. HIDE DEF p, x, y
  <2>3. SaturatingInc(y) = IF y = MaxU32 THEN MaxU32 ELSE y + 1
    BY <2>2, SaturatingIncIs
  <2>4. x = SaturatingInc(y) => SaturatingInc(y) = MaxU32
    BY <2>2, <2>3, MaxU32Assumption DEF NonZero
  <2>5. Proper(HalfOpen(p))
    BY <2>2, <2>4 DEF Proper
  <2>. QED  BY <2>5 DEF p
<1>6. /\ MergeRanges(rs) \in Seq(Rng) /\ Gapped(MergeRanges(rs))
      /\ SameExtent(ToSet(MergeRanges(rs)), NormalRanges(s))
  BY <1>2, <1>3, MergeRangesFacts
<1>7. ToSet(MergeRanges(rs)) = Components(NormalRanges(s))
  BY <1>6, GappedFacts
<1>. QED  BY <1>4, <1>5, <1>6, <1>7

\* How a range is written, and that it is read as the same range.
WrittenAs(r, q) ==
  /\ q \in Sequence /\ NormalSequence(q) = q /\ HalfOpen(q) = r
  /\ ToNonZero(q.a) = r.start
  /\ r.end < MaxU32 => ToNonZero(q.b) + 1 = r.end

\* The conversion of a range back to a sequence loses nothing of it.
LEMMA ToSequenceFacts ==
  ASSUME NEW r \in Rng, Proper(r)
  PROVE  WrittenAs(r, ToSequence(r))
<1>. DEFINE q == ToSequence(r)
            x == r.start
            y == r.end
<1>1. /\ x \in NonZero /\ y \in NonZero /\ x <= y /\ x \in Nat /\ y \in Nat
      /\ r = [start |-> x, end |-> y] /\ x <= MaxU32 /\ y <= MaxU32 /\ 1 <= x
  BY RngFacts, MaxU32Assumption DEF NonZero
<1>2. SaturatingInc(x) = IF x = MaxU32 THEN MaxU32 ELSE x + 1
  BY <1>1, SaturatingIncIs
<1>3. SaturatingInc(MaxU32) = MaxU32
  <2>1. MaxU32 \in NonZero
    BY MaxU32Assumption DEF NonZero
  <2>. QED  BY <2>1, SaturatingIncIs
<1>4. \A a \in SeqOrUid : Single(a) \in Sequence /\ Single(a).a = a /\ Single(a).b = a
                          /\ Single(a).kind = "Single"
  BY DEF Sequence, Single
<1>5. \A a, b \in SeqOrUid : /\ Between(a, b) \in Sequence
                             /\ Between(a, b).a = a /\ Between(a, b).b = b
                             /\ Between(a, b).kind = "Range"
  BY DEF Sequence, Between
<1>6. Asterisk \in SeqOrUid /\ \A n \in NonZero : n \in SeqOrUid
  BY DEF SeqOrUid
<1>7. \A a \in SeqOrUid : NormalSequence(Single(a)) = Single(a)
  BY <1>4 DEF NormalSequence
<1>8. \A a, b \in SeqOrUid : Rank(a) < Rank(b) => NormalSequence(Between(a, b)) = Between(a, b)
  <2>. SUFFICES ASSUME NEW a \in SeqOrUid, NEW b \in SeqOrUid, Rank(a) < Rank(b)
                PROVE  NormalSequence(Between(a, b)) = Between(a, b)
    OBVIOUS
  <2>1. Rank(a) \in Nat /\ Rank(b) \in Nat
    BY MaxU32Assumption DEF Rank, SeqOrUid, NonZero, Asterisk
  <2>2. a # b /\ ~(Rank(a) > Rank(b))
    BY <2>1
  <2>3. Between(a, b) \in Sequence
    BY <1>5
  <2>. QED  BY <2>2, <2>3, <1>5, NormalSequenceIs
<1>9. CASE x = MaxU32
  <2>1. y = MaxU32
    BY <1>9, <1>1
  <2>2. q = Single(Asterisk)
    BY <1>9, <2>1 DEF ToSequence, FromNonZero
  <2>3. NormalSequence(q) = q /\ q \in Sequence /\ q.a = Asterisk /\ q.b = Asterisk
    BY <2>2, <1>4, <1>6, <1>7
  <2>4. HalfOpen(q) = r
    BY <2>1, <2>3, <1>1, <1>3, <1>9 DEF HalfOpen, ToNonZero
  <2>5. ToNonZero(q.a) = x
    BY <2>3, <1>9 DEF ToNonZero
  <2>10. WrittenAs(r, q)
    <3>. HIDE DEF q
    <3>. QED  BY <2>1, <2>3, <2>4, <2>5, <1>1 DEF WrittenAs
  <2>. QED  BY <2>10
<1>10. CASE x # MaxU32 /\ y = x + 1
  <2>1. q = Single(x)
    BY <1>10, <1>2 DEF ToSequence, FromNonZero
  <2>2. NormalSequence(q) = q /\ q \in Sequence /\ q.a = x /\ q.b = x
    BY <2>1, <1>1, <1>4, <1>6, <1>7
  <2>3. ToNonZero(x) = x
    BY <1>1 DEF ToNonZero, Asterisk
  <2>4. HalfOpen(q) = r
    BY <2>2, <2>3, <1>1, <1>2, <1>10 DEF HalfOpen
  <2>5. ToNonZero(q.a) = x /\ ToNonZero(q.b) + 1 = y
    BY <2>2, <2>3, <1>10
  <2>10. WrittenAs(r, q)
    <3>. HIDE DEF q
    <3>. QED  BY <2>2, <2>4, <2>5 DEF WrittenAs
  <2>. QED  BY <2>10
<1>11. CASE x # MaxU32 /\ y # x + 1 /\ y = MaxU32
  <2>0. x # y /\ SaturatingInc(x) # y /\ x + 1 < MaxU32
    BY <1>11, <1>1, <1>2, MaxU32Assumption
  <2>1. q = Between(x, Asterisk)
    BY <1>11, <2>0 DEF ToSequence, FromNonZero
  <2>2. q \in Sequence /\ q.a = x /\ q.b = Asterisk
    BY <2>1, <1>1, <1>5, <1>6
  <2>3. Rank(x) < Rank(Asterisk) /\ ToNonZero(x) = x /\ ToNonZero(Asterisk) = MaxU32
    BY <1>1, MaxU32Assumption DEF Rank, ToNonZero, Asterisk
  <2>4. NormalSequence(q) = q
    BY <2>1, <2>3, <1>1, <1>6, <1>8
  <2>5. HalfOpen(q) = r
    BY <2>2, <2>3, <1>1, <1>3, <1>11 DEF HalfOpen
  <2>6. ToNonZero(q.a) = x /\ ~(y < MaxU32)
    BY <2>2, <2>3, <1>1, <1>11
  <2>10. WrittenAs(r, q)
    <3>. HIDE DEF q
    <3>. QED  BY <2>2, <2>4, <2>5, <2>6 DEF WrittenAs
  <2>. QED  BY <2>10
<1>12. CASE x # MaxU32 /\ y # x + 1 /\ y # MaxU32
  <2>0. x # y /\ SaturatingInc(x) # y /\ x + 1 < y /\ y < MaxU32 /\ y > 2
    BY <1>12, <1>1, <1>2, MaxU32Assumption DEF Proper
  <2>1. Max({y, 2}) = y
    BY <2>0, <1>1, MaxOfTwo
  <2>2. y - 1 \in NonZero /\ y - 1 # MaxU32 /\ y - 1 \in Nat /\ (y - 1) + 1 = y
    BY <2>0, <1>1, MaxU32Assumption DEF NonZero
  <2>3. q = Between(x, y - 1)
    BY <1>12, <2>0, <2>1, <2>2 DEF ToSequence, FromNonZero
  <2>4. q \in Sequence /\ q.a = x /\ q.b = y - 1
    BY <2>2, <2>3, <1>1, <1>5, <1>6
  <2>5. Rank(x) < Rank(y - 1) /\ ToNonZero(x) = x /\ ToNonZero(y - 1) = y - 1
    BY <1>1, <2>0, <2>2 DEF Rank, ToNonZero, Asterisk
  <2>6. NormalSequence(q) = q
    BY <2>2, <2>3, <2>5, <1>1, <1>6, <1>8
  <2>7. SaturatingInc(y - 1) = y
    BY <2>2, SaturatingIncIs
  <2>8. HalfOpen(q) = r
    BY <2>4, <2>5, <2>7, <1>1 DEF HalfOpen
  <2>9. ToNonZero(q.a) = x /\ ToNonZero(q.b) + 1 = y
    BY <2>2, <2>4, <2>5
  <2>10. WrittenAs(r, q)
    <3>. HIDE DEF q
    <3>. QED  BY <2>4, <2>6, <2>8, <2>9 DEF WrittenAs
  <2>. QED  BY <2>10
<1>. QED  BY <1>9, <1>10, <1>11, <1>12

\* A component is proper, as it begins where a range begins.
LEMMA ComponentFacts ==
  ASSUME NEW s \in Seq(Sequence), NEW c \in Components(NormalRanges(s))
  PROVE  /\ c \in Rng /\ Proper(c)
         /\ \E r \in NormalRanges(s) : r.start = c.start
         /\ \E r \in NormalRanges(s) : r.end = c.end
<1>. DEFINE S == NormalRanges(s)
<1>1. S \in SUBSET Rng /\ \A r \in S : Proper(r)
  BY NormalRangesFacts
<1>2. PICK m \in Seq(Rng) : Gapped(m) /\ SameExtent(ToSet(m), S) /\ ToSet(m) = Components(S)
  BY NormalRangesFacts
<1>. HIDE DEF S
<1>3. PICK i \in 1 .. Len(m) : c = m[i]
  <2>1. ToSet(m) = {m[i] : i \in 1 .. Len(m)}
    BY ToSetFinite
  <2>. QED  BY <2>1, <1>2 DEF S
<1>4. /\ c \in Rng /\ Reached(S, c.start) /\ Reached(S, c.end)
      /\ ~Linked(S, c.end) /\ ~Linked(S, c.start - 1)
  BY <1>2, <1>3, GappedFacts
<1>5. c.start \in Nat /\ c.end \in Nat /\ \A r \in S : r.start \in Nat /\ r.end \in Nat
  BY <1>1, <1>4, RngFacts
<1>6. PICK r \in S : r.start <= c.start /\ c.start <= r.end
  BY <1>4 DEF Reached
<1>7. r.start = c.start
  <2>1. ~(r.start <= c.start - 1 /\ c.start - 1 < r.end)
    BY <1>4 DEF Linked
  <2>. QED  BY <2>1, <1>5, <1>6
<1>8. PICK e \in S : e.start <= c.end /\ c.end <= e.end
  BY <1>4 DEF Reached
<1>9. e.end = c.end
  <2>1. ~(e.start <= c.end /\ c.end < e.end)
    BY <1>4 DEF Linked
  <2>. QED  BY <2>1, <1>5, <1>8
<1>10. Proper(c)
  <2>. SUFFICES ASSUME c.start = c.end PROVE c.end = MaxU32
    BY DEF Proper
  <2>1. ~(r.start <= c.start /\ c.start < r.end)
    BY <1>4 DEF Linked
  <2>2. r.end = c.end
    BY <2>1, <1>5, <1>6, <1>7
  <2>. QED  BY <2>2, <1>1, <1>7 DEF Proper
<1>. QED  BY <1>4, <1>7, <1>9, <1>10 DEF S

\* Two components have a gap between them.
LEMMA ComponentsApart ==
  ASSUME NEW s \in Seq(Sequence)
  PROVE  LET C == Components(NormalRanges(s))
         IN  /\ IsFiniteSet(C)
             /\ \A c, d \in C : /\ c.start < d.start => c.end < d.start
                                /\ c.start = d.start => c = d
<1>. DEFINE C == Components(NormalRanges(s))
<1>1. PICK m \in Seq(Rng) : Gapped(m) /\ ToSet(m) = C
  BY NormalRangesFacts
<1>2. IsFiniteSet(C) /\ C = {m[i] : i \in 1 .. Len(m)} /\ Len(m) \in Nat
  BY <1>1, ToSetFinite, LenProperties
<1>3. ASSUME NEW c \in C, NEW d \in C
      PROVE  /\ c.start < d.start => c.end < d.start
             /\ c.start = d.start => c = d
  <2>. HIDE DEF C
  <2>1. PICK i \in 1 .. Len(m), j \in 1 .. Len(m) : c = m[i] /\ d = m[j]
    BY <1>2, <1>3
  <2>2. m[i] \in Rng /\ m[j] \in Rng
    BY ElementOfSeq
  <2>3. /\ c.start \in Nat /\ c.end \in Nat /\ d.start \in Nat /\ d.end \in Nat
        /\ c.start <= c.end /\ d.start <= d.end
    BY <2>1, <2>2, RngFacts
  <2>4. (i < j => c.end < d.start) /\ (j < i => d.end < c.start) /\ (i = j => c = d)
    BY <1>1, <2>1 DEF Gapped
  <2>5. i < j \/ j < i \/ i = j
    BY <1>2
  <2>. QED  BY <2>3, <2>4, <2>5
<1>. QED  BY <1>2, <1>3

\* The sequences of the normal form: one for each component, in order.
Written(s) == {ToSequence(c) : c \in Components(NormalRanges(s))}

\* The sequences of a normal form are well formed, one for each component.
LEMMA WrittenFacts ==
  ASSUME NEW s \in Seq(Sequence)
  PROVE  /\ IsFiniteSet(Written(s)) /\ Written(s) \subseteq Sequence
         /\ \A c \in Components(NormalRanges(s)) : /\ c \in Rng
                                                   /\ WrittenAs(c, ToSequence(c))
                                                   /\ ToSequence(c) \in Sequence
                                                   /\ ToNonZero(ToSequence(c).a) = c.start
<1>. DEFINE C == Components(NormalRanges(s))
<1>1. IsFiniteSet(C)
  BY ComponentsApart
<1>2. \A c \in C : /\ c \in Rng /\ WrittenAs(c, ToSequence(c)) /\ ToSequence(c) \in Sequence
                   /\ ToNonZero(ToSequence(c).a) = c.start
  <2>. SUFFICES ASSUME NEW c \in C
                PROVE  /\ c \in Rng /\ WrittenAs(c, ToSequence(c)) /\ ToSequence(c) \in Sequence
                       /\ ToNonZero(ToSequence(c).a) = c.start
    OBVIOUS
  <2>1. c \in Rng /\ Proper(c)
    BY ComponentFacts
  <2>2. WrittenAs(c, ToSequence(c))
    BY <2>1, ToSequenceFacts
  <2>. QED  BY <2>1, <2>2 DEF WrittenAs
<1>. HIDE DEF C
<1>3. IsFiniteSet({ToSequence(c) : c \in C})
  <2>. DEFINE W == {ToSequence(c) : c \in C}
              f == [c \in C |-> ToSequence(c)]
  <2>1. f \in Surjection(C, W)
    BY DEF Surjection
  <2>. HIDE DEF f, W
  <2>2. IsFiniteSet(W)
    BY <1>1, <2>1, FS_Surjection
  <2>. QED  BY <2>2 DEF W
<1>. QED  BY <1>2, <1>3 DEF C, Written

\* A normal form holds its sequences in order, with a gap between any two.
LEMMA NormalFormFacts ==
  ASSUME NEW s \in Seq(Sequence)
  PROVE  /\ NormalForm(s) \in Seq(Sequence) /\ ToSet(NormalForm(s)) = Written(s)
         /\ \A i, j \in 1 .. Len(NormalForm(s)) :
              i < j => \E c, d \in Components(NormalRanges(s)) :
                         /\ NormalForm(s)[i] = ToSequence(c)
                         /\ NormalForm(s)[j] = ToSequence(d)
                         /\ c.end < d.start
<1>. DEFINE C == Components(NormalRanges(s))
            W == Written(s)
            t == NormalForm(s)
            R == {p \in W \X W : ToNonZero(p[1].a) < ToNonZero(p[2].a)}
            Key(q) == ToNonZero(q.a)
            Sorted(u) == \A i, j \in DOMAIN u : i < j => Key(u[i]) <= Key(u[j])
<1>1. /\ IsFiniteSet(W) /\ W \subseteq Sequence
      /\ \A c \in C : Key(ToSequence(c)) = c.start /\ c.start \in Nat /\ c.end \in Nat
      /\ \A q \in W : \E c \in C : q = ToSequence(c)
  BY WrittenFacts, RngFacts DEF Written
<1>2. \A c, d \in C : /\ c.start < d.start => c.end < d.start
                      /\ c.start = d.start => c = d
  BY ComponentsApart
<1>. HIDE DEF C, W
<1>3. /\ \A x \in W : Key(x) \in Nat
      /\ \A x, y \in W : Key(x) = Key(y) => x = y
  BY <1>1, <1>2
<1>4. \A x, y \in W : <<x, y>> \in R <=> Key(x) < Key(y)
  OBVIOUS
<1>5. \E u \in SetToSeqs(W) : \A i, j \in DOMAIN u : i < j => <<u[i], u[j]>> \in R
  <2>. HIDE DEF R, Key
  <2>1. \A x \in W : <<x, x>> \notin R
    BY <1>3, <1>4
  <2>2. \A x, y \in W : x # y => <<x, y>> \in R \/ <<y, x>> \in R
    <3>. SUFFICES ASSUME NEW x \in W, NEW y \in W, x # y
                  PROVE  <<x, y>> \in R \/ <<y, x>> \in R
      OBVIOUS
    <3>1. Key(x) \in Nat /\ Key(y) \in Nat /\ Key(x) # Key(y)
      BY <1>3
    <3>2. Key(x) < Key(y) \/ Key(y) < Key(x)
      BY <3>1
    <3>. QED  BY <3>2, <1>4
  <2>3. \A x, y, z \in W : <<x, y>> \in R /\ <<y, z>> \in R => <<x, z>> \in R
    <3>. SUFFICES ASSUME NEW x \in W, NEW y \in W, NEW z \in W,
                         Key(x) < Key(y), Key(y) < Key(z)
                  PROVE  Key(x) < Key(z)
      BY <1>4
    <3>. QED  BY <1>3
  <2>. QED  BY <1>1, <2>1, <2>2, <2>3, SortExists
<1>6. t \in SetToSeqs(W) /\ Sorted(t)
  <2>1. PICK u \in SetToSeqs(W) : \A i, j \in DOMAIN u : i < j => <<u[i], u[j]>> \in R
    BY <1>5
  <2>2. Sorted(u)
    <3>1. DOMAIN u = 1 .. Len(u) /\ u \in Seq(W)
      BY <2>1, <1>1, ArrangedFacts
    <3>2. \A i \in DOMAIN u : u[i] \in W
      BY <3>1, ElementOfSeq
    <3>3. \A i, j \in DOMAIN u : i < j => Key(u[i]) < Key(u[j])
      BY <2>1, <3>2, <1>4
    <3>. HIDE DEF Key
    <3>. QED  BY <3>2, <3>3, <1>3
  <2>3. t = CHOOSE v \in SetToSeqs(W) : Sorted(v)
    BY DEF NormalForm, SortedByNumber, Written, W
  <2>. HIDE DEF Sorted, t
  <2>. QED  BY <2>1, <2>2, <2>3
<1>7. /\ t \in Seq(W) /\ DOMAIN t = 1 .. Len(t) /\ ToSet(t) = W
      /\ \A i, j \in 1 .. Len(t) : t[i] = t[j] => i = j
  <2>. HIDE DEF t
  <2>. QED  BY <1>1, <1>6, ArrangedFacts
<1>8. ASSUME NEW i \in 1 .. Len(t), NEW j \in 1 .. Len(t), i < j
      PROVE  \E c, d \in C : t[i] = ToSequence(c) /\ t[j] = ToSequence(d) /\ c.end < d.start
  <2>. HIDE DEF t
  <2>1. t[i] \in W /\ t[j] \in W
    BY <1>7, ElementOfSeq
  <2>2. i # j
    BY <1>7, <1>8, LenProperties
  <2>3. t[i] # t[j] /\ Key(t[i]) <= Key(t[j])
    BY <1>6, <1>7, <1>8, <2>2
  <2>4. Key(t[i]) < Key(t[j])
    <3>. HIDE DEF Key
    <3>. QED  BY <1>3, <2>1, <2>3
  <2>5. PICK c \in C, d \in C : t[i] = ToSequence(c) /\ t[j] = ToSequence(d)
    BY <1>1, <2>1
  <2>6. c.start < d.start
    BY <1>1, <2>4, <2>5
  <2>. QED  BY <1>2, <2>5, <2>6
<1>9. t \in Seq(Sequence)
  <2>. HIDE DEF t
  <2>1. \A i \in 1 .. Len(t) : t[i] \in Sequence
    BY <1>1, <1>7, ElementOfSeq
  <2>. QED  BY <2>1, <1>7, SeqDef
<1>. QED  BY <1>7, <1>8, <1>9 DEF C, W

\* The ranges of the normal form are the components of the ranges before.
LEMMA RangesOfNormalForm ==
  ASSUME NEW s \in Seq(Sequence)
  PROVE  NormalRanges(NormalForm(s)) = Components(NormalRanges(s))
<1>. DEFINE C == Components(NormalRanges(s))
<1>1. NormalRanges(NormalForm(s)) = {HalfOpen(NormalSequence(q)) : q \in Written(s)}
  BY NormalFormFacts DEF NormalRanges
<1>2. \A c \in C : HalfOpen(NormalSequence(ToSequence(c))) = c
  BY WrittenFacts DEF WrittenAs
<1>3. Written(s) = {ToSequence(c) : c \in C}
  BY DEF Written
<1>. HIDE DEF C
<1>4. NormalRanges(NormalForm(s)) = C
  BY <1>1, <1>2, <1>3
<1>. QED  BY <1>4 DEF C

\* Writing the components of a set does not change what they are.
LEMMA NormalFormIsNormal ==
  ASSUME NEW s \in Seq(Sequence)
  PROVE  IsNormal(NormalForm(s))
<1>. DEFINE S == NormalRanges(s)
            C == Components(S)
            t == NormalForm(s)
<1>1. /\ t \in Seq(Sequence) /\ ToSet(t) = Written(s) /\ Len(t) \in Nat /\ DOMAIN t = 1 .. Len(t)
      /\ \A i, j \in 1 .. Len(t) :
           i < j => \E c, d \in C : /\ t[i] = ToSequence(c) /\ t[j] = ToSequence(d)
                                    /\ c.end < d.start
  <2>1. t \in Seq(Sequence)
    BY NormalFormFacts
  <2>2. Len(t) \in Nat /\ DOMAIN t = 1 .. Len(t)
    <3>. HIDE DEF t
    <3>. QED  BY <2>1, LenProperties
  <2>. QED  BY <2>1, <2>2, NormalFormFacts
<1>2. \A c \in C : /\ c \in Rng /\ c.end \in Nat /\ c.start \in Nat
                   /\ c.start <= MaxU32
                   /\ WrittenAs(c, ToSequence(c))
  BY WrittenFacts, RngFacts, MaxU32Assumption DEF NonZero
<1>3. PICK m \in Seq(Rng) : Gapped(m) /\ SameExtent(ToSet(m), S) /\ ToSet(m) = C
  BY NormalRangesFacts
<1>. HIDE DEF t, S, C
<1>4. \A i \in DOMAIN t : NormalSequence(t[i]) = t[i]
  <2>. SUFFICES ASSUME NEW i \in 1 .. Len(t) PROVE NormalSequence(t[i]) = t[i]
    BY <1>1
  <2>1. t[i] \in Written(s)
    <3>1. ToSet(t) = {t[j] : j \in 1 .. Len(t)}
      BY <1>1, ToSetFinite
    <3>. QED  BY <1>1, <3>1
  <2>2. PICK c \in C : t[i] = ToSequence(c)
    BY <2>1 DEF Written, C, S
  <2>. QED  BY <1>2, <2>2 DEF WrittenAs
<1>5. \A i \in 1 .. (Len(t) - 1) : ToNonZero(t[i].b) + 1 < ToNonZero(t[i + 1].a)
  <2>. SUFFICES ASSUME NEW i \in 1 .. (Len(t) - 1)
                PROVE  ToNonZero(t[i].b) + 1 < ToNonZero(t[i + 1].a)
    OBVIOUS
  <2>1. i \in 1 .. Len(t) /\ i + 1 \in 1 .. Len(t) /\ i < i + 1
    BY <1>1
  <2>2. PICK c \in C, d \in C : /\ t[i] = ToSequence(c) /\ t[i + 1] = ToSequence(d)
                                /\ c.end < d.start
    BY <1>1, <2>1
  <2>3. c.end < MaxU32
    BY <1>2, <2>2, MaxU32Assumption
  <2>4. ToNonZero(t[i].b) + 1 = c.end /\ ToNonZero(t[i + 1].a) = d.start
    BY <1>2, <2>2, <2>3 DEF WrittenAs
  <2>. QED  BY <2>2, <2>4
<1>6. Normalizations(t) = {t}
  <2>1. NormalRanges(t) = C
    BY RangesOfNormalForm DEF t, C, S
  <2>2. Components(C) = C
    <3>1. SameExtent(ToSet(m), ToSet(m))
      BY DEF SameExtent
    <3>. QED  BY <1>3, <3>1, GappedFacts
  <2>3. NormalForm(t) = NormalForm(s)
    BY <2>1, <2>2 DEF NormalForm, C, S
  <2>. QED  BY <1>1, <2>3, NormalizationIs DEF t
<1>7. IsNormal(t)
  BY <1>4, <1>5, <1>6 DEF IsNormal
<1>. QED  BY <1>7 DEF t

-----------------------------------------------------------------------------
(* Which messages the normal form names.                                   *)

\* Both bounds keep away from u32::MAX.
Plain(q) == {q.a, q.b} \cap {MaxU32 - 1, MaxU32} = {}

\* What a sequence names in a mailbox, read off its half-open range.
Named(r, largest) ==
  {n \in 1 .. largest : \/ r.start <= n /\ n < r.end
                        \/ r.end = MaxU32 /\ n = largest}

\* A sequence and its normal form name the same numbers.
LEMMA NumbersOfNormal ==
  ASSUME NEW q \in Sequence, NEW largest
  PROVE  /\ NumbersOf(NormalSequence(q), largest) = NumbersOf(q, largest)
         /\ {NormalSequence(q).a, NormalSequence(q).b} = {q.a, q.b}
<1>1. q.kind \in {"Single", "Range"}
  BY DEF Sequence, Single
<1>2. CASE q.kind = "Range" /\ q.a = q.b
  <2>0. Rank(q.a) \in Nat
    BY MaxU32Assumption DEF Sequence, Single, SeqOrUid, NonZero, Asterisk, Rank
  <2>1. NormalSequence(q) = Single(q.a)
    <3>1. ~(Rank(q.a) > Rank(q.b))
      BY <2>0, <1>2
    <3>. QED  BY <3>1, <1>2, NormalSequenceIs
  <2>2. Single(q.a).a = q.a /\ Single(q.a).b = q.b
    BY <1>2 DEF Single
  <2>3. NumbersOf(Single(q.a), largest) = NumbersOf(q, largest)
    BY <2>2 DEF NumbersOf
  <2>. QED  BY <2>1, <2>2, <2>3
<1>3. CASE q.kind = "Range" /\ q.a # q.b /\ Rank(q.a) > Rank(q.b)
  <2>1. NormalSequence(q) = Between(q.b, q.a)
    BY <1>3, NormalSequenceIs
  <2>2. Between(q.b, q.a).a = q.b /\ Between(q.b, q.a).b = q.a
    BY DEF Between
  <2>3. NumbersOf(Between(q.b, q.a), largest) = NumbersOf(q, largest)
    BY <2>2 DEF NumbersOf
  <2>. QED  BY <2>1, <2>2, <2>3
<1>4. CASE ~(q.kind = "Range" /\ q.a = q.b) /\ ~(q.kind = "Range" /\ Rank(q.a) > Rank(q.b))
  BY <1>4, NormalSequenceIs
<1>. QED  BY <1>1, <1>2, <1>3, <1>4

\* Away from u32::MAX, what a sequence names is read off its half-open range.
LEMMA MessagesOfPlain ==
  ASSUME NEW q \in Sequence, Plain(q), NEW largest \in NonZero
  PROVE  NumbersOf(q, largest) \cap 1 .. largest
           = Named(HalfOpen(NormalSequence(q)), largest)
<1>. DEFINE p == NormalSequence(q)
            r == HalfOpen(p)
            x == ToNonZero(p.a)
            y == ToNonZero(p.b)
<1>1. /\ p.a \in SeqOrUid /\ p.b \in SeqOrUid
      /\ x \in NonZero /\ y \in NonZero /\ x <= y
      /\ r.start = x /\ r.end = SaturatingInc(y)
  BY NormalSequenceFacts
<1>2. NumbersOf(q, largest) = NumbersOf(p, largest) /\ {p.a, p.b} = {q.a, q.b}
  BY NumbersOfNormal
<1>3. /\ p.a # MaxU32 /\ p.a # MaxU32 - 1
      /\ p.b # MaxU32 /\ p.b # MaxU32 - 1
  BY <1>2 DEF Plain
<1>4. x = (IF p.a = Asterisk THEN MaxU32 ELSE p.a) /\ y = (IF p.b = Asterisk THEN MaxU32 ELSE p.b)
  BY DEF ToNonZero
<1>. HIDE DEF p, r, x, y
<1>5. r.end = (IF y = MaxU32 THEN MaxU32 ELSE y + 1)
  BY <1>1, SaturatingIncIs
<1>6. /\ largest \in Nat /\ 1 <= largest /\ largest <= MaxU32
      /\ MaxU32 \in Nat /\ MaxU32 > 2 /\ x \in Nat /\ y \in Nat /\ 1 <= x /\ y <= MaxU32
  BY <1>1, MaxU32Assumption DEF NonZero
<1>7. /\ p.a \in Nat /\ p.a <= MaxU32 /\ p.b \in Nat /\ p.b <= MaxU32
  BY <1>1, <1>6 DEF SeqOrUid, NonZero, Asterisk
<1>8. ASSUME NEW n \in 1 .. largest
      PROVE  n \in NumbersOf(p, largest) <=> n \in Named(r, largest)
  <2>1. n \in Nat /\ n <= MaxU32 /\ 1 <= n /\ n <= largest /\ n \in NonZero
    BY <1>6 DEF NonZero
  <2>2. n \in Named(r, largest) <=> (r.start <= n /\ n < r.end) \/ (r.end = MaxU32 /\ n = largest)
    BY DEF Named
  <2>3. n \in NumbersOf(p, largest)
          <=> \/ Expand(p.a, largest) <= n /\ n <= Expand(p.b, largest)
              \/ Expand(p.b, largest) <= n /\ n <= Expand(p.a, largest)
    BY <2>1 DEF NumbersOf
  <2>4. CASE p.b = Asterisk /\ p.a = Asterisk
    <3>1. Expand(p.a, largest) = largest /\ Expand(p.b, largest) = largest
      BY <2>4 DEF Expand
    <3>2. x = MaxU32 /\ r.end = MaxU32 /\ r.start = MaxU32
      BY <2>4, <1>1, <1>4, <1>5
    <3>. QED  BY <3>1, <3>2, <2>1, <2>2, <2>3, <1>6
  <2>5. CASE p.b = Asterisk /\ p.a # Asterisk
    <3>1. Expand(p.a, largest) = p.a /\ Expand(p.b, largest) = largest
      BY <2>5 DEF Expand
    <3>2. x = p.a /\ r.end = MaxU32 /\ r.start = p.a
      BY <2>5, <1>1, <1>4, <1>5
    <3>. QED  BY <3>1, <3>2, <2>1, <2>2, <2>3, <1>6, <1>7
  <2>6. CASE p.b # Asterisk
    <3>1. y = p.b /\ y < MaxU32 - 1
      BY <2>6, <1>3, <1>4, <1>6, <1>7
    <3>2. p.a # Asterisk /\ x = p.a
      BY <3>1, <1>1, <1>4, <1>6
    <3>3. Expand(p.a, largest) = x /\ Expand(p.b, largest) = y
      BY <3>1, <3>2, <2>6 DEF Expand
    <3>4. r.end = y + 1 /\ r.end # MaxU32 /\ r.start = x
      BY <3>1, <1>1, <1>5, <1>6
    <3>. QED  BY <3>3, <3>4, <2>1, <2>2, <2>3, <1>1, <1>6
  <2>. QED  BY <2>4, <2>5, <2>6
<1>9. Named(r, largest) \subseteq 1 .. largest
  BY DEF Named
<1>10. NumbersOf(p, largest) \cap 1 .. largest = Named(r, largest)
  BY <1>8, <1>9
<1>. QED  BY <1>2, <1>10 DEF r, p

\* Which messages a set names depends on the extent of its ranges alone.
LEMMA MessagesByExtent ==
  ASSUME NEW s \in Seq(Sequence), \A q \in ToSet(s) : Plain(q), NEW largest \in NonZero
  PROVE  Messages(s, largest)
           = {n \in 1 .. largest : \/ Linked(NormalRanges(s), n)
                                   \/ n = largest /\ Reached(NormalRanges(s), MaxU32)}
<1>. DEFINE S == NormalRanges(s)
            M == {n \in 1 .. largest : Linked(S, n) \/ (n = largest /\ Reached(S, MaxU32))}
<1>1. \A q \in ToSet(s) : q \in Sequence
  BY ToSetFinite
<1>2. \A r \in S : r.end \in Nat /\ r.end <= MaxU32 /\ r.start <= MaxU32
  BY NormalRangesFacts, RngFacts, MaxU32Assumption DEF NonZero
<1>3. MaxU32 \in Nat
  BY MaxU32Assumption
<1>4. \A n : n \in Messages(s, largest)
               <=> \E q \in ToSet(s) : n \in NumbersOf(q, largest) \cap 1 .. largest
  BY DEF Messages, Numbers
<1>5. \A n : n \in Messages(s, largest)
               <=> \E q \in ToSet(s) : n \in Named(HalfOpen(NormalSequence(q)), largest)
  BY <1>1, <1>4, MessagesOfPlain
<1>6. \A n : n \in Messages(s, largest) <=> \E r \in S : n \in Named(r, largest)
  BY <1>5 DEF NormalRanges
<1>. HIDE DEF S
<1>7. (\E r \in S : r.end = MaxU32) <=> Reached(S, MaxU32)
  BY <1>2, <1>3 DEF Reached
<1>8. \A n : n \in Messages(s, largest) <=> n \in M
  <2>. TAKE n
  <2>1. (\E r \in S : n \in Named(r, largest))
          <=> n \in 1 .. largest /\ (Linked(S, n) \/ (n = largest /\ \E r \in S : r.end = MaxU32))
    BY DEF Named, Linked
  <2>. QED  BY <2>1, <1>6, <1>7
<1>9. Messages(s, largest) = M
  <2>. HIDE DEF M
  <2>. QED  BY <1>8
<1>. QED  BY <1>9 DEF S

\* A written range keeps away from u32::MAX if it does not begin right there.
LEMMA WrittenIsPlain ==
  ASSUME NEW r \in Rng, Proper(r), r.start # MaxU32 - 1
  PROVE  Plain(ToSequence(r))
<1>. DEFINE q == ToSequence(r)
            x == r.start
            y == r.end
<1>1. /\ x \in NonZero /\ y \in NonZero /\ x <= y /\ x \in Nat /\ y \in Nat
      /\ MaxU32 \in Nat /\ MaxU32 > 2 /\ y <= MaxU32 /\ x <= MaxU32
  BY RngFacts, MaxU32Assumption DEF NonZero
<1>2. WrittenAs(r, q)
  BY ToSequenceFacts
<1>3. SaturatingInc(x) = (IF x = MaxU32 THEN MaxU32 ELSE x + 1)
  BY <1>1, SaturatingIncIs
<1>4. FromNonZero(x) = (IF x = MaxU32 THEN Asterisk ELSE x)
  BY DEF FromNonZero
<1>5. q.a = FromNonZero(x)
  BY DEF ToSequence, Single, Between
<1>6. q.a # MaxU32 /\ q.a # MaxU32 - 1
  BY <1>1, <1>4, <1>5 DEF Asterisk
<1>7. CASE y = MaxU32
  <2>1. SaturatingInc(x) = y => x = MaxU32
    BY <1>1, <1>3, <1>7
  <2>2. q.b = Asterisk
    BY <2>1, <1>4, <1>7 DEF ToSequence, Single, Between
  <2>. QED  BY <2>2, <1>1, <1>6 DEF Plain, Asterisk
<1>8. CASE y # MaxU32
  <2>1. ToNonZero(q.b) + 1 = y
    BY <1>1, <1>2, <1>8 DEF WrittenAs
  <2>2. q.b \in SeqOrUid
    BY <1>2 DEF WrittenAs, Sequence, Single
  <2>3. q.b # MaxU32 /\ q.b # MaxU32 - 1
    BY <2>1, <2>2, <1>1, <1>8 DEF ToNonZero, Asterisk, SeqOrUid, NonZero
  <2>. QED  BY <2>3, <1>6 DEF Plain
<1>. QED  BY <1>7, <1>8

\* normalize keeps the messages of a set that keeps away from u32::MAX.
LEMMA NormalFormKeepsMessages ==
  ASSUME NEW s \in Seq(Sequence), \A q \in ToSet(s) : Plain(q), NEW largest \in NonZero
  PROVE  Messages(NormalForm(s), largest) = Messages(s, largest)
<1>. DEFINE S == NormalRanges(s)
            C == Components(S)
            t == NormalForm(s)
<1>1. \A q \in ToSet(s) : q \in Sequence
  BY ToSetFinite
<1>2. \A r \in S : r.start # MaxU32 - 1
  <2>. SUFFICES ASSUME NEW q \in ToSet(s)
                PROVE  HalfOpen(NormalSequence(q)).start # MaxU32 - 1
    BY DEF NormalRanges
  <2>1. HalfOpen(NormalSequence(q)).start = ToNonZero(NormalSequence(q).a)
    BY <1>1, NormalSequenceFacts
  <2>2. NormalSequence(q).a # MaxU32 - 1
    BY <1>1, NumbersOfNormal DEF Plain
  <2>. QED  BY <2>1, <2>2, MaxU32Assumption DEF ToNonZero
<1>3. \A q \in ToSet(t) : Plain(q)
  <2>. SUFFICES ASSUME NEW c \in C PROVE Plain(ToSequence(c))
    BY NormalFormFacts DEF Written
  <2>1. c \in Rng /\ Proper(c) /\ \E r \in S : r.start = c.start
    BY ComponentFacts
  <2>. QED  BY <2>1, <1>2, WrittenIsPlain
<1>4. NormalRanges(t) = C /\ t \in Seq(Sequence)
  BY RangesOfNormalForm, NormalFormFacts
<1>5. SameExtent(C, S)
  BY NormalRangesFacts
<1>. HIDE DEF S, C, t
<1>6. Messages(t, largest)
        = {n \in 1 .. largest : Linked(C, n) \/ (n = largest /\ Reached(C, MaxU32))}
  BY <1>3, <1>4, MessagesByExtent
<1>7. Messages(s, largest)
        = {n \in 1 .. largest : Linked(S, n) \/ (n = largest /\ Reached(S, MaxU32))}
  BY MessagesByExtent DEF S
<1>8. \A n \in 1 .. largest : Linked(C, n) <=> Linked(S, n)
  BY <1>5 DEF SameExtent
<1>9. Reached(C, MaxU32) <=> Reached(S, MaxU32)
  BY <1>5, MaxU32Assumption DEF SameExtent
<1>10. Messages(t, largest) = Messages(s, largest)
  BY <1>6, <1>7, <1>8, <1>9
<1>. QED  BY <1>10 DEF t

-----------------------------------------------------------------------------
(* Every set that the program makes.                                       *)

\* Only sequences get into a set.
SetOK == set \in Seq(Sequence)

\* What the conversions accept is a sequence.
LEMMA ConvertedIsSequence ==
  ASSUME NEW type \in {"Int", "NonZero"}, NEW form \in Forms, NEW start, NEW end,
         type = "NonZero" => start \in NonZero /\ end \in NonZero,
         Convert(type, form, start, end).a # Invalid,
         Convert(type, form, start, end).b # Invalid
  PROVE  Convert(type, form, start, end) \in Sequence
<1>. DEFINE q == Convert(type, form, start, end)
<1>1. \A n : TryFromNum(n) # Invalid => TryFromNum(n) \in SeqOrUid
  BY DEF TryFromNum, SeqOrUid
<1>2. \A n \in NonZero : FromNonZero(n) \in SeqOrUid
  BY DEF FromNonZero, SeqOrUid
<1>3. 1 \in NonZero /\ Asterisk \in SeqOrUid
  BY MaxU32Assumption DEF NonZero, SeqOrUid
<1>4. \A n : (type = "NonZero" => n \in NonZero) /\ FromNum(type, n) # Invalid
               => FromNum(type, n) \in SeqOrUid
  BY <1>1, <1>2 DEF FromNum
<1>5. q.a \in SeqOrUid
  BY <1>2, <1>3, <1>4 DEF Convert, Between, Forms
<1>6. q.b \in SeqOrUid
  <2>1. CASE form \in {"RangeFull", "RangeFrom"}
    <3>1. q.b = Asterisk
      BY <2>1 DEF Convert, Between
    <3>. QED  BY <3>1, <1>3
  <2>2. CASE form \in {"RangeTo", "Range"}
    <3>1. q.b = TryFromNum(end - 1)
      BY <2>2 DEF Convert, Between
    <3>. QED  BY <3>1, <1>1
  <2>3. CASE form \notin {"RangeFull", "RangeFrom", "RangeTo", "Range"}
    <3>1. q.b = FromNum(type, end)
      BY <2>3 DEF Convert, Between
    <3>. QED  BY <3>1, <1>4
  <2>. QED  BY <2>1, <2>2, <2>3
<1>7. q = [kind |-> "Range", a |-> q.a, b |-> q.b]
  BY DEF Convert, Between
<1>. HIDE DEF q
<1>8. q \in Sequence
  BY <1>5, <1>6, <1>7 DEF Sequence
<1>. QED  BY <1>8 DEF q

\* The set is a sequence of well-formed sequences in every reachable state.
LEMMA SetInductive == Spec => []SetOK
<1>1. Init => SetOK
  BY EmptySeq DEF Init, SetOK
<1>2. ASSUME SetOK, [Next]_vars PROVE SetOK'
  <2>1. CASE NewSet
    <3>. DEFINE bounds == Values \cup {Asterisk}
                sequences == {Single(a) : a \in bounds} \cup {Between(a, b) : a, b \in bounds}
    <3>0. set' \in UNION {[1 .. n -> sequences] : n \in 1 .. MaxSequences}
      BY <2>1 DEF NewSet
    <3>1. bounds \subseteq SeqOrUid
      BY SequenceSetAssumption DEF SeqOrUid
    <3>. HIDE DEF bounds
    <3>2. sequences \subseteq Sequence
      BY <3>1 DEF Sequence, Single, Between
    <3>. HIDE DEF sequences
    <3>3. PICK n \in 1 .. MaxSequences : set' \in [1 .. n -> sequences]
      BY <3>0
    <3>4. n \in Nat
      OBVIOUS
    <3>5. set' \in [1 .. n -> Sequence]
      BY <3>2, <3>3
    <3>. QED  BY <3>4, <3>5, SeqDef DEF SetOK
  <2>2. CASE FromRange
    <3>1. PICK type \in Types, form \in Forms :
            \E start, end \in IF type = "Int" THEN -1..(MaxU32 + 1) ELSE NonZero :
              LET s == Convert(type, form, start, end)
              IN  /\ s.a # Invalid /\ s.b # Invalid
                  /\ set' = <<s>>
      BY <2>2, ZenonT(40) DEF FromRange
    <3>2. PICK start \in IF type = "Int" THEN -1..(MaxU32 + 1) ELSE NonZero,
               end \in IF type = "Int" THEN -1..(MaxU32 + 1) ELSE NonZero :
            /\ Convert(type, form, start, end).a # Invalid
            /\ Convert(type, form, start, end).b # Invalid
            /\ set' = <<Convert(type, form, start, end)>>
      BY <3>1
    <3>3. type \in {"Int", "NonZero"}
      BY SequenceSetAssumption
    <3>4. Convert(type, form, start, end) \in Sequence
      BY <3>2, <3>3, ConvertedIsSequence
    <3>. QED  BY <3>2, <3>4 DEF SetOK
  <2>3. CASE Normalize
    <3>1. set' \in Normalizations(set) /\ set \in Seq(Sequence)
      BY <1>2, <2>3 DEF Normalize, SetOK
    <3>2. set' = NormalForm(set)
      BY <3>1, NormalizationIs
    <3>. QED  BY <3>1, <3>2, NormalFormFacts DEF SetOK
  <2>4. CASE Iter \/ IterNaive \/ NextItem \/ DropIterator \/ UNCHANGED vars
    <3>1. set' = set
      BY <2>4 DEF Iter, IterNaive, NextItem, DropIterator, vars
    <3>. QED  BY <1>2, <3>1 DEF SetOK
  <2>. QED  BY <1>2, <2>1, <2>2, <2>3, <2>4 DEF Next
<1>. QED  BY <1>1, <1>2, PTL DEF Spec

\* Only normalize changes a set.
LEMMA SetChanges ==
  ASSUME SetOK, [Next]_vars, set # <<>>, set' # set
  PROVE  set' = NormalForm(set)
<1>1. ~NewSet /\ ~FromRange
  BY DEF NewSet, FromRange
<1>2. ~Iter /\ ~IterNaive /\ ~NextItem /\ ~DropIterator /\ vars' # vars
  BY DEF Iter, IterNaive, NextItem, DropIterator, vars
<1>3. Normalize
  BY <1>1, <1>2 DEF Next
<1>. QED  BY <1>3, NormalizationIs DEF Normalize, SetOK

\* normalize leaves a set ascending, without sequences that overlap or touch,
\* and changes nothing when it is called again: for every set, and in every
\* order in which the HashSet of its single numbers may be iterated.
THEOREM NormalFormReached == Spec => NormalizeReachesNormalForm
<1>1. ASSUME SetOK, [Next]_vars PROVE [set # <<>> /\ set' # set => IsNormal(set')]_vars
  <2>. SUFFICES ASSUME set # <<>>, set' # set PROVE IsNormal(set')
    OBVIOUS
  <2>1. set' = NormalForm(set)
    BY <1>1, SetChanges
  <2>. QED  BY <1>1, <2>1, NormalFormIsNormal DEF SetOK
<1>. QED  BY <1>1, SetInductive, PTL DEF Spec, NormalizeReachesNormalForm

\* normalize keeps the messages that a set names in every mailbox, when no
\* bound of it is u32::MAX or the number before it, where the saturating end
\* of a half-open range loses a number.
THEOREM NormalizeKeeps == Spec => NormalizeKeepsMessagesBelowMax
<1>1. ASSUME SetOK, [Next]_vars
      PROVE  [set # <<>> /\ set' # set /\ (\A q \in ToSet(set) : {q.a, q.b} \cap {MaxU32 - 1, MaxU32} = {}) =>
                \A largest \in NonZero : Messages(set', largest) = Messages(set, largest)]_vars
  <2>. SUFFICES ASSUME set # <<>>, set' # set,
                       \A q \in ToSet(set) : {q.a, q.b} \cap {MaxU32 - 1, MaxU32} = {},
                       NEW largest \in NonZero
                PROVE  Messages(set', largest) = Messages(set, largest)
    OBVIOUS
  <2>1. set' = NormalForm(set)
    BY <1>1, SetChanges
  <2>2. \A q \in ToSet(set) : Plain(q)
    BY DEF Plain
  <2>. QED  BY <1>1, <2>1, <2>2, NormalFormKeepsMessages DEF SetOK
<1>. QED  BY <1>1, SetInductive, PTL DEF Spec, NormalizeKeepsMessagesBelowMax

\* Whatever the order of the HashSet, normalize gives one result.
THEOREM HashOrderIsHidden == Spec => []HashOrderDoesNotShow
<1>1. SetOK => HashOrderDoesNotShow
  BY NormalizationIs DEF SetOK, HashOrderDoesNotShow
<1>. QED  BY <1>1, SetInductive, PTL

-----------------------------------------------------------------------------
(* Conversions.                                                            *)

\* The bounds a range of integers may have in the model.
Bound == -1 .. MaxU32 + 1

\* What a set that was converted from a range of integers looks like.
ConvertedFrom(o) == Convert("Int", o.form, o.start, o.end)
IsConverted ==
  origin # NoOrigin =>
    /\ origin.form \in Forms /\ origin.start \in Bound /\ origin.end \in Bound
    /\ ConvertedFrom(origin).a # Invalid /\ ConvertedFrom(origin).b # Invalid
    /\ set = <<ConvertedFrom(origin)>>

\* Every step leaves the set as its origin says.
LEMMA ConvertedInductive ==
  ASSUME Types = {"Int"}
  PROVE  Spec => []IsConverted
<1>1. Init => IsConverted
  BY DEF Init, IsConverted
<1>2. ASSUME IsConverted, [Next]_vars PROVE IsConverted'
  <2>. USE DEF IsConverted
  <2>1. CASE NewSet
    <3>1. origin = NoOrigin
      BY <1>2, <2>1 DEF NewSet
    <3>. QED  BY <2>1, <3>1 DEF NewSet
  <2>2. CASE FromRange
    <3>1. PICK type \in Types, form \in Forms :
            \E start, end \in IF type = "Int" THEN -1..(MaxU32 + 1) ELSE NonZero :
              LET s == Convert(type, form, start, end)
              IN  /\ s.a # Invalid /\ s.b # Invalid
                  /\ set' = <<s>>
                  /\ origin' = [type |-> type, form |-> form, start |-> start, end |-> end]
      BY <2>2 DEF FromRange
    <3>2. type = "Int"
      OBVIOUS
    <3>3. PICK start \in Bound, end \in Bound :
            /\ Convert(type, form, start, end).a # Invalid
            /\ Convert(type, form, start, end).b # Invalid
            /\ set' = <<Convert(type, form, start, end)>>
            /\ origin' = [type |-> type, form |-> form, start |-> start, end |-> end]
      BY <3>1, <3>2 DEF Bound
    <3>. QED  BY <3>2, <3>3 DEF ConvertedFrom
  <2>3. CASE Normalize
    BY <2>3 DEF Normalize
  <2>4. CASE Iter \/ IterNaive \/ NextItem \/ DropIterator \/ UNCHANGED vars
    <3>1. set' = set /\ origin' = origin
      BY <2>4 DEF Iter, IterNaive, NextItem, DropIterator, vars
    <3>. QED  BY <1>2, <3>1
  <2>. QED  BY <1>2, <2>1, <2>2, <2>3, <2>4 DEF Next
<1>. QED  BY <1>1, <1>2, PTL DEF Spec

\* The bounds of a converted range are the first and the last of its numbers,
\* or the asterisk for an open end.
LEMMA ConvertedBounds ==
  ASSUME NEW o, o.form \in Forms, o.start \in Bound, o.end \in Bound,
         ConvertedFrom(o).a # Invalid, ConvertedFrom(o).b # Invalid
  PROVE  \E first \in NonZero, last \in NonZero :
           /\ RangeNumbers(o) = first .. last
           /\ ConvertedFrom(o).a = first
           /\ \/ ConvertedFrom(o).b = last
              \/ ConvertedFrom(o).b = Asterisk /\ last = MaxU32
<1>. USE MaxU32Assumption DEF Asterisk, NonZero, Invalid, Bound
<1>. DEFINE first == IF o.form \in {"RangeFrom", "Range", "RangeInclusive"} THEN o.start ELSE 1
            last == CASE o.form \in {"RangeFull", "RangeFrom"} -> MaxU32
                      [] o.form \in {"RangeTo", "Range"} -> o.end - 1
                      [] OTHER -> o.end
<1>1. first \in NonZero /\ ConvertedFrom(o).a = first
  BY DEF ConvertedFrom, Convert, Between, FromNum, TryFromNum, FromNonZero, Forms
<1>2. /\ last \in NonZero
      /\ ConvertedFrom(o).b = last \/ (ConvertedFrom(o).b = Asterisk /\ last = MaxU32)
  BY DEF ConvertedFrom, Convert, Between, FromNum, TryFromNum, FromNonZero, Forms
<1>3. RangeNumbers(o) = first .. last
  BY DEF RangeNumbers
<1>. QED  BY <1>1, <1>2, <1>3

\* The least number of an interval.
LEMMA LeastOfInterval ==
  ASSUME NEW m \in Int, NEW n \in Int, m <= n
  PROVE  Min(m .. n) = m
<1>1. m \in m .. n /\ \A y \in m .. n : m <= y
  OBVIOUS
<1>2. \A x \in m .. n : (\A y \in m .. n : x <= y) => x = m
  OBVIOUS
<1>. QED  BY <1>1, <1>2 DEF Min

\* A set of one range names what is between its bounds.
LEMMA MessagesOfOne ==
  ASSUME NEW q, NEW largest
  PROVE  Messages(<<q>>, largest) = NumbersOf(q, largest) \cap 1..largest
<1>1. ToSet(<<q>>) = {q}
  BY DEF ToSet
<1>. QED  BY <1>1 DEF Messages, Numbers

\* The conversions From<RangeFull>, TryFrom<RangeFrom<u8>> and so on, for every
\* integer type and every largest number: the set that comes out names in a
\* mailbox exactly the messages that the Rust range has.
THEOREM ConversionCorrect ==
  ASSUME Types = {"Int"}
  PROVE  Spec => []ConversionKeepsRange
<1>1. ASSUME IsConverted PROVE ConversionKeepsRange
  <2>. SUFFICES ASSUME origin # NoOrigin, RangeNumbers(origin) # {},
                       NEW largest \in Min(RangeNumbers(origin))..MaxU32
                PROVE  Messages(set, largest) = RangeNumbers(origin) \cap 1..largest
    BY DEF ConversionKeepsRange
  <2>. DEFINE q == ConvertedFrom(origin)
  <2>1. PICK first \in NonZero, last \in NonZero :
           /\ RangeNumbers(origin) = first .. last
           /\ q.a = first
           /\ q.b = last \/ (q.b = Asterisk /\ last = MaxU32)
    BY <1>1, ConvertedBounds DEF IsConverted
  <2>2. first <= last /\ largest \in first .. MaxU32
    <3>1. first <= last
      BY <2>1, MaxU32Assumption DEF NonZero
    <3>2. Min(first .. last) = first
      BY <3>1, LeastOfInterval, MaxU32Assumption DEF NonZero
    <3>. QED  BY <2>1, <3>1, <3>2
  <2>3. Messages(set, largest) = NumbersOf(q, largest) \cap 1..largest
    BY <1>1, MessagesOfOne DEF IsConverted
  <2>. HIDE DEF q
  <2>4. NumbersOf(q, largest) \cap 1..largest = first .. last \cap 1..largest
    BY <2>1, <2>2, MaxU32Assumption DEF NumbersOf, Expand, NonZero, Asterisk
  <2>. QED  BY <2>1, <2>3, <2>4
<1>. QED  BY <1>1, ConvertedInductive, PTL

-----------------------------------------------------------------------------
(* Comparison.                                                             *)

\* One sequence below another one, by the rank of their bounds.
Below(s, t) == \A x \in {s.a, s.b}, y \in {t.a, t.b} : Rank(x) < Rank(y)

\* A sequence and its bounds.
LEMMA BoundsAre ==
  ASSUME NEW s \in Sequence
  PROVE  /\ s.kind \in {"Single", "Range"} /\ s.a \in SeqOrUid /\ s.b \in SeqOrUid
         /\ s.kind = "Single" => s.a = s.b /\ s = Single(s.a)
BY DEF Sequence, Single

\* Ord::min and Ord::max go by the rank.
LEMMA LesserGreater ==
  ASSUME NEW x \in SeqOrUid, NEW y \in SeqOrUid
  PROVE  /\ Lesser(x, y) \in SeqOrUid /\ Greater(x, y) \in SeqOrUid
         /\ Rank(Lesser(x, y)) = IF Rank(x) <= Rank(y) THEN Rank(x) ELSE Rank(y)
         /\ Rank(Greater(x, y)) = IF Rank(x) <= Rank(y) THEN Rank(y) ELSE Rank(x)
<1>1. Rank(x) \in Nat /\ Rank(y) \in Nat /\ (IsLess(y, x) <=> Rank(y) < Rank(x))
  BY CmpIs
<1>2. CASE Rank(y) < Rank(x)
  <2>1. Lesser(x, y) = y /\ Greater(x, y) = x
    BY <1>1, <1>2 DEF Lesser, Greater
  <2>. QED  BY <2>1, <1>1, <1>2
<1>3. CASE ~(Rank(y) < Rank(x))
  <2>1. Lesser(x, y) = x /\ Greater(x, y) = y
    BY <1>1, <1>3 DEF Lesser, Greater
  <2>. QED  BY <2>1, <1>1, <1>3
<1>. QED  BY <1>2, <1>3

\* What a comparison must say of two sequences, by the rank of their bounds.
SaysBelow(cmp, s, t) ==
  /\ cmp = "Less" <=> Below(s, t)
  /\ cmp = "Greater" <=> Below(t, s)
  /\ cmp = "Equal" <=> s = t /\ s.kind = "Single"

\* The arm of two singles.
LEMMA SinglesCompared ==
  ASSUME NEW s \in Sequence, NEW t \in Sequence, s.kind = "Single", t.kind = "Single"
  PROVE  SaysBelow(Cmp(s.a, t.a), s, t)
<1>1. /\ s.a \in SeqOrUid /\ s.b = s.a /\ s = Single(s.a)
      /\ t.a \in SeqOrUid /\ t.b = t.a /\ t = Single(t.a)
  BY BoundsAre
<1>2. /\ Cmp(s.a, t.a) = "Less" <=> Rank(s.a) < Rank(t.a)
      /\ Cmp(s.a, t.a) = "Greater" <=> Rank(s.a) > Rank(t.a)
      /\ Cmp(s.a, t.a) = "Equal" <=> s.a = t.a
      /\ Rank(s.a) \in Nat /\ Rank(t.a) \in Nat
  BY <1>1, CmpIs DEF IsLess, IsGreater
<1>3. /\ Below(s, t) <=> Rank(s.a) < Rank(t.a)
      /\ Below(t, s) <=> Rank(t.a) < Rank(s.a)
  BY <1>1 DEF Below
<1>4. s = t <=> s.a = t.a
  BY <1>1
<1>. QED  BY <1>2, <1>3, <1>4 DEF SaysBelow

\* The arm of a single and a range.
LEMMA SingleRangeCompared ==
  ASSUME NEW s \in Sequence, NEW t \in Sequence, s.kind = "Single", t.kind = "Range"
  PROVE  SaysBelow(CmpSingleRange(s.a, t), s, t)
<1>1. s.a \in SeqOrUid /\ s.b = s.a /\ t.a \in SeqOrUid /\ t.b \in SeqOrUid
  BY BoundsAre
<1>. DEFINE x == Rank(s.a)
            a == Rank(t.a)
            b == Rank(t.b)
<1>2. x \in Nat /\ a \in Nat /\ b \in Nat
  BY <1>1, CmpIs
<1>3. /\ IsLess(s.a, Lesser(t.a, t.b)) <=> x < (IF a <= b THEN a ELSE b)
      /\ IsGreater(s.a, Greater(t.a, t.b)) <=> x > (IF a <= b THEN b ELSE a)
  BY <1>1, CmpIs, LesserGreater
<1>4. /\ Below(s, t) <=> x < a /\ x < b
      /\ Below(t, s) <=> a < x /\ b < x
  BY <1>1 DEF Below
<1>. HIDE DEF x, a, b
<1>5. /\ IsLess(s.a, Lesser(t.a, t.b)) <=> Below(s, t)
      /\ IsGreater(s.a, Greater(t.a, t.b)) <=> Below(t, s)
      /\ ~(Below(s, t) /\ Below(t, s))
  BY <1>2, <1>3, <1>4
<1>6. s # t
  OBVIOUS
<1>. QED  BY <1>5, <1>6 DEF CmpSingleRange, SaysBelow

\* The arm of a range and a single.
LEMMA RangeSingleCompared ==
  ASSUME NEW s \in Sequence, NEW t \in Sequence, s.kind = "Range", t.kind = "Single"
  PROVE  SaysBelow(CmpRangeSingle(s, t.a), s, t)
<1>1. t.a \in SeqOrUid /\ t.b = t.a /\ s.a \in SeqOrUid /\ s.b \in SeqOrUid
  BY BoundsAre
<1>. DEFINE y == Rank(t.a)
            a == Rank(s.a)
            b == Rank(s.b)
<1>2. y \in Nat /\ a \in Nat /\ b \in Nat
  BY <1>1, CmpIs
<1>3. /\ IsLess(t.a, Lesser(s.a, s.b)) <=> y < (IF a <= b THEN a ELSE b)
      /\ IsGreater(t.a, Greater(s.a, s.b)) <=> y > (IF a <= b THEN b ELSE a)
  BY <1>1, CmpIs, LesserGreater
<1>4. /\ Below(s, t) <=> a < y /\ b < y
      /\ Below(t, s) <=> y < a /\ y < b
  BY <1>1 DEF Below
<1>. HIDE DEF y, a, b
<1>5. /\ IsLess(t.a, Lesser(s.a, s.b)) <=> Below(t, s)
      /\ IsGreater(t.a, Greater(s.a, s.b)) <=> Below(s, t)
      /\ ~(Below(s, t) /\ Below(t, s))
  BY <1>2, <1>3, <1>4
<1>6. s # t
  OBVIOUS
<1>. QED  BY <1>5, <1>6 DEF CmpRangeSingle, SaysBelow

\* The arm of two ranges.
LEMMA RangesCompared ==
  ASSUME NEW s \in Sequence, NEW t \in Sequence, s.kind = "Range", t.kind = "Range"
  PROVE  SaysBelow(CmpRanges(s, t), s, t)
<1>1. s.a \in SeqOrUid /\ s.b \in SeqOrUid /\ t.a \in SeqOrUid /\ t.b \in SeqOrUid
  BY BoundsAre
<1>. DEFINE sa == Rank(s.a)
            sb == Rank(s.b)
            ta == Rank(t.a)
            tb == Rank(t.b)
            upper == Greater(s.a, s.b)
            lower == Lesser(s.a, s.b)
<1>2. sa \in Nat /\ sb \in Nat /\ ta \in Nat /\ tb \in Nat
  BY <1>1, CmpIs
<1>3. /\ upper \in SeqOrUid /\ Rank(upper) = IF sa <= sb THEN sb ELSE sa
      /\ lower \in SeqOrUid /\ Rank(lower) = IF sa <= sb THEN sa ELSE sb
  BY <1>1, LesserGreater
<1>. HIDE DEF upper, lower
<1>4. /\ IsLess(upper, t.a) <=> Rank(upper) < ta
      /\ IsLess(upper, t.b) <=> Rank(upper) < tb
      /\ IsGreater(lower, t.a) <=> Rank(lower) > ta
      /\ IsGreater(lower, t.b) <=> Rank(lower) > tb
  BY <1>1, <1>3, CmpIs
<1>5. /\ Below(s, t) <=> sa < ta /\ sa < tb /\ sb < ta /\ sb < tb
      /\ Below(t, s) <=> ta < sa /\ ta < sb /\ tb < sa /\ tb < sb
  BY DEF Below
<1>. HIDE DEF sa, sb, ta, tb
<1>6. /\ IsLess(upper, t.a) /\ IsLess(upper, t.b) <=> Below(s, t)
      /\ IsGreater(lower, t.a) /\ IsGreater(lower, t.b) <=> Below(t, s)
      /\ ~(Below(s, t) /\ Below(t, s))
  BY <1>2, <1>3, <1>4, <1>5
<1>7. CmpRanges(s, t) = IF IsLess(upper, t.a) /\ IsLess(upper, t.b) THEN "Less"
                        ELSE IF IsGreater(lower, t.a) /\ IsGreater(lower, t.b) THEN "Greater"
                        ELSE "None"
  BY DEF CmpRanges, upper, lower
<1>. QED  BY <1>6, <1>7 DEF SaysBelow

\* The messages of one sequence come before those of another if and only if
\* its bounds are below the other's.
LEMMA BeforeIsBelow ==
  ASSUME NEW s \in Sequence, NEW t \in Sequence
  PROVE  Before(s, t) <=> Below(s, t)
<1>. DEFINE sa == Rank(s.a)
            sb == Rank(s.b)
            ta == Rank(t.a)
            tb == Rank(t.b)
            Top == MaxU32 + 1
<1>1. s.a \in SeqOrUid /\ s.b \in SeqOrUid /\ t.a \in SeqOrUid /\ t.b \in SeqOrUid
  BY BoundsAre
<1>2. sa \in 1 .. Top /\ sb \in 1 .. Top /\ ta \in 1 .. Top /\ tb \in 1 .. Top
  BY <1>1, CmpIs
<1>3. /\ Extent(s) = {n \in 1 .. Top : (sa <= n /\ n <= sb) \/ (sb <= n /\ n <= sa)}
      /\ Extent(t) = {n \in 1 .. Top : (ta <= n /\ n <= tb) \/ (tb <= n /\ n <= ta)}
  BY DEF Extent, Expand, Rank
<1>4. Below(s, t) <=> sa < ta /\ sa < tb /\ sb < ta /\ sb < tb
  BY DEF Below
<1>. HIDE DEF sa, sb, ta, tb, Top
<1>5. Top \in Nat
  BY MaxU32Assumption DEF Top
<1>6. ASSUME Before(s, t) PROVE Below(s, t)
  <2>1. {sa, sb} \subseteq Extent(s) /\ {ta, tb} \subseteq Extent(t)
    BY <1>2, <1>3, <1>5
  <2>. QED  BY <2>1, <1>4, <1>6 DEF Before
<1>7. ASSUME Below(s, t) PROVE Before(s, t)
  <2>. SUFFICES ASSUME NEW m \in Extent(s), NEW n \in Extent(t) PROVE m < n
    BY DEF Before
  <2>. QED  BY <1>2, <1>3, <1>4, <1>5, <1>7
<1>. QED  BY <1>6, <1>7

\* partial_cmp, whichever of its arms is taken and in whichever order a range
\* gives its bounds: "Less" exactly if all messages of the one sequence come
\* before all messages of the other, "Greater" exactly the other way round, and
\* "Equal" exactly for a single and itself.
THEOREM PartialCmpIsBefore ==
  ASSUME NEW s \in Sequence, NEW t \in Sequence
  PROVE  /\ PartialCmp(s, t) = "Less" <=> Before(s, t)
         /\ PartialCmp(s, t) = "Greater" <=> Before(t, s)
         /\ PartialCmp(s, t) = "Equal" <=> s = t /\ s.kind = "Single"
<1>1. s.kind \in {"Single", "Range"} /\ t.kind \in {"Single", "Range"}
  BY BoundsAre
<1>2. SaysBelow(PartialCmp(s, t), s, t)
  <2>1. CASE s.kind = "Single" /\ t.kind = "Single"
    <3>1. PartialCmp(s, t) = Cmp(s.a, t.a)
      BY <2>1 DEF PartialCmp
    <3>. QED  BY <2>1, <3>1, SinglesCompared
  <2>2. CASE s.kind = "Single" /\ t.kind = "Range"
    <3>1. PartialCmp(s, t) = CmpSingleRange(s.a, t)
      BY <2>2 DEF PartialCmp
    <3>. QED  BY <2>2, <3>1, SingleRangeCompared
  <2>3. CASE s.kind = "Range" /\ t.kind = "Single"
    <3>1. PartialCmp(s, t) = CmpRangeSingle(s, t.a)
      BY <2>3 DEF PartialCmp
    <3>. QED  BY <2>3, <3>1, RangeSingleCompared
  <2>4. CASE s.kind = "Range" /\ t.kind = "Range"
    <3>1. PartialCmp(s, t) = CmpRanges(s, t)
      BY <2>4 DEF PartialCmp
    <3>. QED  BY <2>4, <3>1, RangesCompared
  <2>. QED  BY <1>1, <2>1, <2>2, <2>3, <2>4
<1>. QED  BY <1>2, BeforeIsBelow DEF SaysBelow

\* The sequences of a normal form ascend in the order of partial_cmp.
LEMMA NormalFormAscends ==
  ASSUME NEW s \in Seq(Sequence), NEW i \in 1 .. Len(NormalForm(s)),
         NEW j \in 1 .. Len(NormalForm(s)), i < j
  PROVE  PartialCmp(NormalForm(s)[i], NormalForm(s)[j]) = "Less"
<1>. DEFINE C == Components(NormalRanges(s))
            p == NormalForm(s)[i]
            q == NormalForm(s)[j]
<1>1. PICK c \in C, d \in C : p = ToSequence(c) /\ q = ToSequence(d) /\ c.end < d.start
  BY NormalFormFacts
<1>2. /\ c \in Rng /\ WrittenAs(c, p) /\ p \in Sequence /\ ToNonZero(p.a) = c.start
      /\ d \in Rng /\ WrittenAs(d, q) /\ q \in Sequence /\ ToNonZero(q.a) = d.start
  BY <1>1, WrittenFacts
<1>. HIDE DEF C, p, q
<1>3. /\ c.start \in Nat /\ c.end \in Nat /\ d.start \in Nat /\ d.start <= MaxU32
      /\ c.start <= c.end /\ MaxU32 \in Nat
  BY <1>2, RngFacts, MaxU32Assumption DEF NonZero
<1>4. /\ NormalSequence(p) = p /\ NormalSequence(q) = q
      /\ ToNonZero(p.b) + 1 = c.end
  BY <1>1, <1>2, <1>3 DEF WrittenAs
<1>5. /\ p.a \in SeqOrUid /\ p.b \in SeqOrUid /\ q.a \in SeqOrUid /\ q.b \in SeqOrUid
      /\ ToNonZero(p.a) \in NonZero /\ ToNonZero(p.b) \in NonZero /\ ToNonZero(q.b) \in NonZero
      /\ ToNonZero(p.a) <= ToNonZero(p.b) /\ ToNonZero(q.a) <= ToNonZero(q.b)
  BY <1>2, <1>4, NormalSequenceFacts
<1>6. \A x, y \in SeqOrUid : ToNonZero(x) < ToNonZero(y) => Rank(x) < Rank(y)
  BY MaxU32Assumption DEF Rank, ToNonZero, SeqOrUid, NonZero, Asterisk
<1>7. \A x \in {p.a, p.b}, y \in {q.a, q.b} : ToNonZero(x) < ToNonZero(y)
  <2>1. /\ ToNonZero(p.a) \in Nat /\ ToNonZero(p.b) \in Nat /\ ToNonZero(q.b) \in Nat
    BY <1>5, MaxU32Assumption DEF NonZero
  <2>2. /\ ToNonZero(p.a) < ToNonZero(q.a) /\ ToNonZero(p.b) < ToNonZero(q.a)
        /\ ToNonZero(p.a) < ToNonZero(q.b) /\ ToNonZero(p.b) < ToNonZero(q.b)
    BY <2>1, <1>1, <1>2, <1>3, <1>4, <1>5
  <2>. QED  BY <2>2
<1>8. Below(p, q)
  BY <1>5, <1>6, <1>7 DEF Below
<1>. QED  BY <1>2, <1>8, PartialCmpIsBefore, BeforeIsBelow DEF p, q

\* In every set that the program makes, partial_cmp agrees with what the
\* sequences mean, and what normalize leaves alone ascends.
THEOREM ComparisonOrders == Spec => []ComparisonIsAnOrder
<1>1. ASSUME SetOK PROVE ComparisonIsAnOrder
  <2>1. set \in Seq(Sequence) /\ DOMAIN set = 1 .. Len(set)
    BY <1>1, LenProperties DEF SetOK
  <2>2. \A i \in DOMAIN set : set[i] \in Sequence
    BY <2>1, ElementOfSeq
  <2>3. ASSUME NEW i \in DOMAIN set, NEW j \in DOMAIN set
        PROVE  LET cmp == PartialCmp(set[i], set[j])
               IN  /\ cmp = "Less" <=> Before(set[i], set[j])
                   /\ cmp = "Greater" <=> Before(set[j], set[i])
                   /\ cmp = "Equal" <=> set[i] = set[j] /\ set[i].kind = "Single"
    BY <2>2, PartialCmpIsBefore
  <2>4. ASSUME Normalizations(set) = {set}, NEW i \in DOMAIN set, NEW j \in DOMAIN set, i < j
        PROVE  PartialCmp(set[i], set[j]) = "Less"
    <3>1. set = NormalForm(set)
      BY <2>1, <2>4, NormalizationIs
    <3>. QED  BY <2>1, <2>4, <3>1, NormalFormAscends
  <2>. QED  BY <2>3, <2>4 DEF ComparisonIsAnOrder
<1>. QED  BY <1>1, SetInductive, PTL

-----------------------------------------------------------------------------
(* The iterators: cleanup.                                                 *)

\* The function that cleanup folds with.
LEMMA PushRangeIs ==
  ASSUME NEW m \in Seq(Rng), NEW r \in Rng
  PROVE  /\ PushRange(m, r) =
              IF m # <<>> /\ m[Len(m)].start <= r.start
                 /\ r.start <= SaturatingInc(m[Len(m)].end)
              THEN Grown(m, r) ELSE Append(m, r)
         /\ PushRange(m, r) \in Seq(Rng)
<1>1. Last(m) = m[Len(m)]
  BY DEF Last
<1>2. m # <<>> => /\ [m EXCEPT ![Len(m)].end = Max({@, r.end})] = Grown(m, r)
                  /\ Grown(m, r) \in Seq(Rng)
  BY GrownType
<1>3. Append(m, r) \in Seq(Rng)
  BY AppendProperties
<1>. QED  BY <1>1, <1>2, <1>3 DEF PushRange

\* The fold of cleanup goes through one result for each prefix.
LEMMA PushSteps ==
  ASSUME NEW s \in Seq(Rng)
  PROVE  \E F : /\ F[0] = <<>> /\ F[Len(s)] = FoldLeft(PushRange, <<>>, s)
                /\ \A k \in 1 .. Len(s) : F[k] = PushRange(F[k - 1], s[k])
<1>. DEFINE n == Len(s)
            X == Seq(Rng)
            step == [p \in X \X (1 .. n) |-> PushRange(p[1], s[p[2]])]
            Is(g) == g = [T \in SUBSET (1 .. n) |->
                            IF T = {} THEN <<>> ELSE PushRange(g[T \ {Max(T)}], s[Max(T)])]
            iter == CHOOSE g : Is(g)
<1>1. n \in Nat /\ DOMAIN s = 1 .. n /\ \A i \in 1 .. n : s[i] \in Rng
  BY LenProperties, ElementOfSeq
<1>2. FoldLeft(PushRange, <<>>, s) = iter[1 .. n]
  BY <1>1 DEF FoldLeft, MapThenFoldSet
<1>3. \E g : Is(g)
  <2>1. step \in [X \X (1 .. n) -> X] /\ <<>> \in X
    <3>1. \A p \in X \X (1 .. n) : PushRange(p[1], s[p[2]]) \in X
      BY <1>1, PushRangeIs
    <3>. QED  BY <3>1, EmptySeq
  <2>. HIDE DEF step, X
  <2>2. PICK f : Folds(f, X, n, <<>>, step)
    <3>1. n \in Nat
      BY <1>1
    <3>. HIDE DEF n
    <3>. QED  BY <2>1, <3>1, FoldExists, Zenon
  <2>3. ASSUME NEW T \in SUBSET (1 .. n), T # {}
        PROVE  step[<<f[T \ {Max(T)}], Max(T)>>] = PushRange(f[T \ {Max(T)}], s[Max(T)])
    <3>1. Max(T) \in 1 .. n
      BY <2>3, <1>1, MaxOf
    <3>2. f[T \ {Max(T)}] \in X
      BY <2>2 DEF Folds
    <3>. QED  BY <3>1, <3>2 DEF step
  <2>4. f = [T \in SUBSET (1 .. n) |-> f[T]]
    BY <2>2 DEF Folds
  <2>5. Is(f)
    BY <2>2, <2>3, <2>4 DEF Folds
  <2>. QED  BY <2>5
<1>4. Is(iter)
  <2>. HIDE DEF Is
  <2>. QED  BY <1>3
<1>. HIDE DEF iter
<1>. DEFINE F == [k \in 0 .. n |-> iter[1 .. k]]
<1>5. F[0] = <<>>
  <2>1. 1 .. 0 = {} /\ 0 \in 0 .. n
    BY <1>1
  <2>. QED  BY <2>1, <1>4
<1>6. ASSUME NEW k \in 1 .. n PROVE F[k] = PushRange(F[k - 1], s[k])
  <2>1. 1 .. k \in SUBSET (1 .. n) /\ 1 .. k # {} /\ k \in 0 .. n /\ k - 1 \in 0 .. n
    BY <1>1, InitialInterval
  <2>2. Max(1 .. k) = k /\ (1 .. k) \ {k} = 1 .. k - 1
    BY MaxOfInterval
  <2>. QED  BY <2>1, <2>2, <1>4
<1>7. F[n] = FoldLeft(PushRange, <<>>, s)
  BY <1>1, <1>2
<1>. HIDE DEF F
<1>. QED  BY <1>5, <1>6, <1>7

\* What the loop of cleanup keeps: the stack is made from the first k ranges.
Pushed(m, s, k) ==
  /\ m \in Seq(Rng) /\ Gapped(m)
  /\ k > 0 => m # <<>> /\ m[Len(m)].start <= s[k].start
  /\ k = 0 => m = <<>>
  /\ \A n \in Nat : Reach(m, Len(m), n) <=> Reach(s, k, n)

\* A step of the fold leaves gaps and reaches what one range more reaches.
LEMMA PushedStep ==
  ASSUME NEW s \in Seq(Rng), NEW k \in 1 .. Len(s), NEW m, Pushed(m, s, k - 1),
         \A i, j \in 1 .. Len(s) : i < j => s[i].start <= s[j].start
  PROVE  Pushed(PushRange(m, s[k]), s, k)
<1>. DEFINE r == s[k]
            l == Len(m)
<1>1. /\ m \in Seq(Rng) /\ Gapped(m) /\ k \in Nat /\ k > 0 /\ k - 1 \in Nat
      /\ \A n \in Nat : Reach(m, l, n) <=> Reach(s, k - 1, n)
  BY DEF Pushed
<1>2. r \in Rng /\ l \in Nat
  BY <1>1, ElementOfSeq, LenProperties
<1>3. r.start \in Nat /\ r.end \in Nat /\ r.start <= r.end
  BY <1>2, RngFacts
<1>4. m # <<>> => /\ m[l].start <= r.start /\ m[l].start \in Nat /\ m[l].end \in Nat
                  /\ m[l].end \in NonZero
  <2>. SUFFICES ASSUME m # <<>>
                PROVE  /\ m[l].start <= r.start /\ m[l].start \in Nat /\ m[l].end \in Nat
                       /\ m[l].end \in NonZero
    OBVIOUS
  <2>1. l > 0 /\ k - 1 > 0 /\ m[l].start <= s[k - 1].start
    <3>1. l > 0
      BY <1>1, <1>2, EmptySeq
    <3>2. k - 1 # 0
      BY DEF Pushed
    <3>. QED  BY <3>1, <3>2, <1>1 DEF Pushed
  <2>2. k - 1 \in 1 .. Len(s) /\ k - 1 < k /\ l \in 1 .. l
    BY <2>1, <1>1, <1>2, LenProperties
  <2>3. s[k - 1].start <= r.start
    BY <2>2
  <2>4. m[l] \in Rng /\ s[k - 1] \in Rng
    BY <2>2, <1>1, ElementOfSeq
  <2>5. /\ s[k - 1].start \in Nat /\ m[l].start \in Nat /\ m[l].end \in Nat
        /\ m[l].end \in NonZero
    BY <2>4, RngFacts
  <2>. QED  BY <2>1, <2>3, <2>5, <1>3
<1>5. \A n \in Nat : Reach(s, k, n)
                       <=> (Reach(s, k - 1, n) \/ (r.start <= n /\ n <= r.end))
  BY <1>1, ReachNext
<1>6. m # <<>> => /\ SaturatingInc(m[l].end) = (IF m[l].end = MaxU32 THEN MaxU32 ELSE m[l].end + 1)
                  /\ r.start <= MaxU32
  <2>1. r.start \in NonZero
    BY <1>2, RngFacts
  <2>2. r.start <= MaxU32
    BY <2>1, MaxU32Assumption DEF NonZero
  <2>3. m # <<>> => SaturatingInc(m[l].end) = (IF m[l].end = MaxU32 THEN MaxU32 ELSE m[l].end + 1)
    BY <1>4, SaturatingIncIs
  <2>. QED  BY <2>2, <2>3
<1>. HIDE DEF l, r
<1>7. CASE m # <<>> /\ r.start <= SaturatingInc(m[l].end)
  <2>. DEFINE g == Grown(m, r)
  <2>1. PushRange(m, r) = g /\ g \in Seq(Rng) /\ Len(g) = l
    BY <1>1, <1>2, <1>4, <1>7, PushRangeIs, GrownType DEF l
  <2>2. r.start <= m[l].end + 1
    BY <1>3, <1>4, <1>6, <1>7, MaxU32Assumption
  <2>3. \A n \in Nat : Reach(g, l, n) <=> Reach(s, k, n)
    <3>. TAKE n \in Nat
    <3>1. Reach(g, l, n) <=> (Reach(m, l, n) \/ (r.start <= n /\ n <= r.end))
      BY <2>2, <1>1, <1>2, <1>4, <1>7, GrownReach, SMTT(30) DEF l
    <3>. QED  BY <3>1, <1>1, <1>5
  <2>4. Gapped(g) /\ g # <<>> /\ g[l].start <= r.start
    BY <1>1, <1>2, <1>4, <1>7, GrownGapped DEF l
  <2>. HIDE DEF g
  <2>. QED  BY <2>1, <2>3, <2>4, <1>1 DEF Pushed, r
<1>8. CASE ~(m # <<>> /\ r.start <= SaturatingInc(m[l].end))
  <2>. DEFINE g == Append(m, r)
  <2>1. PushRange(m, r) = g /\ g \in Seq(Rng) /\ Len(g) = l + 1 /\ g[l + 1] = r
    BY <1>1, <1>2, <1>8, PushRangeIs, AppendProperties, ZenonT(40) DEF l
  <2>2. \A n \in Nat : Reach(g, l + 1, n) <=> Reach(s, k, n)
    <3>. TAKE n \in Nat
    <3>1. Reach(g, l + 1, n) <=> (Reach(m, l, n) \/ (r.start <= n /\ n <= r.end))
      BY <1>1, <1>2, AppendReach DEF l
    <3>. QED  BY <3>1, <1>1, <1>5
  <2>3. Gapped(g)
    <3>1. m # <<>> => m[l].end < r.start
      BY <1>3, <1>4, <1>6, <1>8, MaxU32Assumption
    <3>. QED  BY <3>1, <1>1, <1>2, AppendGapped DEF l
  <2>. HIDE DEF g
  <2>4. g # <<>> /\ g[l + 1].start <= r.start
    BY <2>1, <1>2, <1>3, EmptySeq
  <2>. QED  BY <2>1, <2>2, <2>3, <2>4, <1>1 DEF Pushed, r
<1>. QED  BY <1>7, <1>8 DEF r

\* cleanup: the ranges of iter are in order, with gaps, and reach the numbers
\* that they reached before.
LEMMA CleanupFacts ==
  ASSUME NEW rs \in Seq(Rng)
  PROVE  /\ Cleanup(rs) \in Seq(Rng) /\ Gapped(Cleanup(rs))
         /\ \A x \in Nat : Reached(ToSet(Cleanup(rs)), x) <=> Reached(ToSet(rs), x)
<1>. DEFINE s == SortedByStart(ToSet(rs))
            n == Len(s)
<1>1. ToSet(rs) \in SUBSET Rng /\ IsFiniteSet(ToSet(rs))
  BY ToSetFinite
<1>2. /\ s \in Seq(Rng) /\ ToSet(s) = ToSet(rs)
      /\ \A i, j \in 1 .. Len(s) : i < j => s[i].start <= s[j].start
  BY <1>1, SortedFacts
<1>3. n \in Nat
  BY <1>2, LenProperties
<1>. HIDE DEF s
<1>4. PICK F : /\ F[0] = <<>> /\ F[Len(s)] = FoldLeft(PushRange, <<>>, s)
               /\ \A k \in 1 .. Len(s) : F[k] = PushRange(F[k - 1], s[k])
  BY <1>2, PushSteps
<1>. HIDE DEF n
<1>. DEFINE Wrong == {k \in 0 .. n : ~Pushed(F[k], s, k)}
<1>5. Wrong = {}
  <2>1. SUFFICES ASSUME Wrong # {} PROVE FALSE
    OBVIOUS
  <2>2. PICK k \in Wrong : \A i \in Wrong : k <= i
    <3>1. Wrong \subseteq Nat  BY <1>3
    <3>. HIDE DEF Wrong
    <3>. QED  BY <3>1, <2>1, LeastNumber
  <2>3. k # 0
    <3>1. <<>> \in Seq(Rng) /\ Len(<<>>) = 0
      BY EmptySeq
    <3>2. Pushed(<<>>, s, 0)
      BY <3>1 DEF Pushed, Gapped, Reach
    <3>. QED  BY <3>2, <1>4
  <2>4. k \in 1 .. n /\ k - 1 \in 0 .. n /\ k - 1 \notin Wrong
    <3>1. k \in 0 .. n /\ k \in 1 .. n /\ k - 1 \in 0 .. n /\ ~(k <= k - 1)
      BY <1>3, <2>3
    <3>. HIDE DEF Wrong
    <3>. QED  BY <3>1, <2>2
  <2>5. Pushed(F[k - 1], s, k - 1)
    BY <2>4
  <2>6. F[k] = PushRange(F[k - 1], s[k])
    BY <2>4, <1>4 DEF n
  <2>7. Pushed(F[k], s, k)
    BY <2>4, <2>5, <2>6, <1>2, PushedStep DEF n
  <2>. QED  BY <2>2, <2>7
<1>6. Pushed(F[n], s, n) /\ F[n] = Cleanup(rs)
  <2>1. n \in 0 .. n
    BY <1>3
  <2>. QED  BY <2>1, <1>5, <1>4 DEF n, Cleanup, s
<1>7. Cleanup(rs) \in Seq(Rng) /\ Gapped(Cleanup(rs))
  BY <1>6 DEF Pushed
<1>8. \A x \in Nat : Reached(ToSet(Cleanup(rs)), x) <=> Reached(ToSet(rs), x)
  <2>. TAKE x \in Nat
  <2>. DEFINE m == Cleanup(rs)
  <2>1. Reach(m, Len(m), x) <=> Reach(s, n, x)
    BY <1>6 DEF Pushed
  <2>2. Reached(ToSet(m), x) <=> Reach(m, Len(m), x)
    BY <1>7, ReachedIsReach
  <2>3. Reached(ToSet(rs), x) <=> Reach(s, n, x)
    BY <1>2, ReachedIsReach DEF n
  <2>. QED  BY <2>1, <2>2, <2>3
<1>. QED  BY <1>7, <1>8

-----------------------------------------------------------------------------
(* The iterators: from call to call.                                       *)

\* A range as the iterators have it, which may be read backwards.
Pair == [start : NonZero, end : NonZero]

\* The numbers between the ends of a pair, in whichever order they are.
Span(r) == {n \in NonZero : \/ r.start <= n /\ n <= r.end
                            \/ r.end <= n /\ n <= r.start}

\* A sequence in ascending order, without repetition.
Rising(s) == \A i, j \in 1 .. Len(s) : i < j => s[i] < s[j]

\* What an iterator has returned, and what it still has, are the numbers N.
Yields(N, done, rest, rs) ==
  /\ done \in Seq(NonZero) /\ rest \in Seq(NonZero) /\ rs \in Seq(Pair)
  /\ \A n \in NonZero : n \in N <=> \/ n \in ToSet(done) \/ n \in ToSet(rest)
                                    \/ \E i \in 1 .. Len(rs) : n \in Span(rs[i])

\* iter has them in ascending order.
InOrder(done, rest, rs) ==
  /\ Rising(done) /\ Rising(rest)
  /\ \A x \in ToSet(done), y \in ToSet(rest) : x < y
  /\ rs \in Seq(Rng) /\ Gapped(rs)
  /\ \A i \in 1 .. Len(rs) : \A x \in ToSet(done) \cup ToSet(rest) : x < rs[i].start

\* The numbers of one range, in its direction.
LEMMA WalkFacts ==
  ASSUME NEW r \in Pair
  PROVE  /\ Walk(r) \in Seq(NonZero) /\ Walk(r) # <<>> /\ ToSet(Walk(r)) = Span(r)
         /\ r.start <= r.end => Rising(Walk(r))
<1>. DEFINE w == Walk(r)
            a == r.start
            b == r.end
<1>1. /\ a \in Nat /\ b \in Nat /\ 1 <= a /\ 1 <= b /\ a <= MaxU32 /\ b <= MaxU32
      /\ MaxU32 \in Nat
  BY MaxU32Assumption DEF Pair, NonZero
<1>2. CASE a <= b
  <2>. DEFINE l == b - a + 1
  <2>1. w = [i \in 1 .. l |-> a + i - 1]
    BY <1>2 DEF Walk
  <2>2. l \in Nat /\ l > 0
    BY <1>1, <1>2
  <2>3. \A i \in 1 .. l : a + i - 1 \in NonZero /\ a <= a + i - 1 /\ a + i - 1 <= b
    BY <1>1, <1>2 DEF NonZero
  <2>4. \A n \in NonZero : a <= n /\ n <= b => n - a + 1 \in 1 .. l /\ n = a + (n - a + 1) - 1
    BY <1>1 DEF NonZero
  <2>. HIDE DEF w, l
  <2>5. w \in Seq(NonZero) /\ Len(w) = l
    <3>1. w \in [1 .. l -> NonZero]
      BY <2>1, <2>3
    <3>. QED  BY <3>1, <2>2, SeqDef, LenProperties
  <2>6. ToSet(w) = {w[i] : i \in 1 .. l}
    BY <2>5, ToSetFinite
  <2>7. ToSet(w) = Span(r)
    <3>1. Span(r) = {n \in NonZero : a <= n /\ n <= b}
      BY <1>1, <1>2 DEF Span, NonZero
    <3>2. ASSUME NEW n \in NonZero, a <= n, n <= b PROVE \E i \in 1 .. l : w[i] = n
      <4>1. n - a + 1 \in 1 .. l /\ n = a + (n - a + 1) - 1
        BY <2>4, <3>2
      <4>2. w[n - a + 1] = n
        BY <4>1, <2>1
      <4>. QED  BY <4>1, <4>2
    <3>3. \A i \in 1 .. l : w[i] \in NonZero /\ a <= w[i] /\ w[i] <= b
      BY <2>1, <2>3
    <3>. QED  BY <3>1, <3>2, <3>3, <2>6
  <2>8. Rising(w)
    <3>1. \A i, j \in 1 .. l : i < j => a + i - 1 < a + j - 1
      BY <1>1, <2>2
    <3>. QED  BY <3>1, <2>1, <2>5 DEF Rising
  <2>9. w # <<>>
    BY <2>2, <2>5, EmptySeq
  <2>. QED  BY <2>5, <2>7, <2>8, <2>9 DEF w
<1>3. CASE ~(a <= b)
  <2>. DEFINE l == a - b + 1
  <2>1. w = [i \in 1 .. l |-> a - i + 1]
    BY <1>3 DEF Walk
  <2>2. l \in Nat /\ l > 0
    BY <1>1, <1>3
  <2>3. \A i \in 1 .. l : a - i + 1 \in NonZero /\ b <= a - i + 1 /\ a - i + 1 <= a
    BY <1>1, <1>3 DEF NonZero
  <2>4. \A n \in NonZero : b <= n /\ n <= a => a - n + 1 \in 1 .. l /\ n = a - (a - n + 1) + 1
    BY <1>1 DEF NonZero
  <2>. HIDE DEF w, l
  <2>5. w \in Seq(NonZero) /\ Len(w) = l
    <3>1. w \in [1 .. l -> NonZero]
      BY <2>1, <2>3
    <3>. QED  BY <3>1, <2>2, SeqDef, LenProperties
  <2>6. ToSet(w) = {w[i] : i \in 1 .. l}
    BY <2>5, ToSetFinite
  <2>7. ToSet(w) = Span(r)
    <3>1. Span(r) = {n \in NonZero : b <= n /\ n <= a}
      BY <1>1, <1>3 DEF Span, NonZero
    <3>2. ASSUME NEW n \in NonZero, b <= n, n <= a PROVE \E i \in 1 .. l : w[i] = n
      <4>1. a - n + 1 \in 1 .. l /\ n = a - (a - n + 1) + 1
        BY <2>4, <3>2
      <4>2. w[a - n + 1] = n
        BY <4>1, <2>1
      <4>. QED  BY <4>1, <4>2
    <3>3. \A i \in 1 .. l : w[i] \in NonZero /\ b <= w[i] /\ w[i] <= a
      BY <2>1, <2>3
    <3>. QED  BY <3>1, <3>2, <3>3, <2>6
  <2>9. w # <<>>
    BY <2>2, <2>5, EmptySeq
  <2>. QED  BY <2>5, <2>7, <2>9, <1>3 DEF w
<1>. QED  BY <1>2, <1>3

\* The empty sequence, before anything is returned.
LEMMA EmptySet == ToSet(<<>>) = {} /\ Rising(<<>>) /\ \A X : <<>> \in Seq(X) /\ Len(<<>>) = 0
<1>1. \A X : <<>> \in Seq(X) /\ Len(<<>>) = 0
  BY EmptySeq
<1>2. ToSet(<<>>) = {}
  <2>. DEFINE e == <<>>
  <2>1. e \in Seq(NonZero) /\ Len(e) = 0
    BY <1>1
  <2>. HIDE DEF e
  <2>2. ToSet(e) = {e[i] : i \in 1 .. Len(e)}
    BY <2>1, ToSetFinite
  <2>3. ToSet(e) = {}
    BY <2>1, <2>2
  <2>. QED  BY <2>3 DEF e
<1>. QED  BY <1>1, <1>2 DEF Rising

\* An iterator begins its next range.
LEMMA BeginRange ==
  ASSUME NEW N, NEW done, NEW rs, rs # <<>>, Yields(N, done, <<>>, rs)
  PROVE  /\ Walk(Head(rs)) # <<>>
         /\ Yields(N, done, Walk(Head(rs)), Tail(rs))
         /\ InOrder(done, <<>>, rs) => InOrder(done, Walk(Head(rs)), Tail(rs))
<1>. DEFINE h == Head(rs)
            w == Walk(h)
            t == Tail(rs)
<1>1. /\ done \in Seq(NonZero) /\ rs \in Seq(Pair)
      /\ \A n \in NonZero : n \in N <=> \/ n \in ToSet(done)
                                        \/ \E i \in 1 .. Len(rs) : n \in Span(rs[i])
  BY EmptySet DEF Yields
<1>2. /\ h \in Pair /\ t \in Seq(Pair) /\ Len(t) \in Nat /\ Len(rs) = Len(t) + 1 /\ h = rs[1]
      /\ \A i \in 1 .. Len(t) : t[i] = rs[i + 1]
  BY <1>1, HeadTailSet
<1>. HIDE DEF h, t
<1>3. w \in Seq(NonZero) /\ w # <<>> /\ ToSet(w) = Span(h) /\ (h.start <= h.end => Rising(w))
  BY <1>2, WalkFacts
<1>. HIDE DEF w
<1>4. \A n : (\E i \in 1 .. Len(rs) : n \in Span(rs[i]))
               <=> (n \in Span(h) \/ \E i \in 1 .. Len(t) : n \in Span(t[i]))
  <2>1. \A i \in 1 .. Len(rs) : i = 1 \/ (i - 1 \in 1 .. Len(t) /\ (i - 1) + 1 = i)
    BY <1>2
  <2>2. 1 \in 1 .. Len(rs) /\ \A i \in 1 .. Len(t) : i + 1 \in 1 .. Len(rs)
    BY <1>2
  <2>3. \A i \in 1 .. Len(rs) : rs[i] = h \/ \E j \in 1 .. Len(t) : rs[i] = t[j]
    BY <2>1, <1>2
  <2>4. \A j \in 1 .. Len(t) : \E i \in 1 .. Len(rs) : t[j] = rs[i]
    BY <2>2, <1>2
  <2>. QED  BY <2>2, <2>3, <2>4, <1>2
<1>5. Yields(N, done, w, t)
  BY <1>1, <1>2, <1>3, <1>4 DEF Yields
<1>6. ASSUME InOrder(done, <<>>, rs) PROVE InOrder(done, w, t)
  <2>1. /\ Rising(done) /\ rs \in Seq(Rng) /\ Gapped(rs)
        /\ \A i \in 1 .. Len(rs) : \A x \in ToSet(done) : x < rs[i].start
    BY <1>6 DEF InOrder
  <2>2. t \in Seq(Rng) /\ h \in Rng
    BY <2>1, HeadTailProperties, HeadTailSet DEF t, h
  <2>3. h.start <= h.end /\ h.start \in Nat /\ h.end \in Nat
    BY <2>2, RngFacts
  <2>4. Gapped(t)
    <3>1. \A i \in 1 .. Len(t) : i + 1 \in 1 .. Len(rs)
      BY <1>2
    <3>2. \A i, j \in 1 .. Len(t) : i < j => i + 1 < j + 1
      BY <1>2
    <3>. QED  BY <3>1, <3>2, <2>1, <1>2 DEF Gapped
  <2>5. ASSUME NEW i \in 1 .. Len(t)
        PROVE  h.end < t[i].start /\ t[i].start \in Nat /\ \A x \in ToSet(done) : x < t[i].start
    <3>1. 1 \in 1 .. Len(rs) /\ i + 1 \in 1 .. Len(rs) /\ 1 < i + 1
      BY <1>2
    <3>2. h.end < t[i].start /\ \A x \in ToSet(done) : x < t[i].start
      BY <3>1, <2>1, <1>2 DEF Gapped
    <3>3. t[i].start \in Nat
      BY <2>2, ElementOfSeq, RngFacts
    <3>. QED  BY <3>2, <3>3
  <2>6. \A y \in ToSet(w) : y \in Nat /\ h.start <= y /\ y <= h.end
    BY <1>3, <2>3, MaxU32Assumption DEF Span, NonZero
  <2>7. ToSet(done) \subseteq NonZero
    BY <1>1, ToSetFinite
  <2>8. \A x \in ToSet(done), y \in ToSet(w) : x < y
    <3>. TAKE x \in ToSet(done), y \in ToSet(w)
    <3>1. 1 \in 1 .. Len(rs)
      BY <1>2
    <3>2. x < h.start
      BY <3>1, <2>1, <1>2
    <3>3. x \in Nat
      BY <2>7, MaxU32Assumption DEF NonZero
    <3>. QED  BY <3>2, <3>3, <2>3, <2>6
  <2>9. \A i \in 1 .. Len(t) : \A x \in ToSet(done) \cup ToSet(w) : x < t[i].start
    <3>. TAKE i \in 1 .. Len(t)
    <3>. TAKE x \in ToSet(done) \cup ToSet(w)
    <3>1. CASE x \in ToSet(done)
      BY <3>1, <2>5
    <3>2. CASE x \in ToSet(w)
      BY <3>2, <2>3, <2>5, <2>6
    <3>. QED  BY <3>1, <3>2
  <2>. QED  BY <1>3, <2>1, <2>2, <2>3, <2>4, <2>8, <2>9 DEF InOrder
<1>. QED  BY <1>3, <1>5, <1>6 DEF w, h, t

\* An iterator returns the next number of the range it has begun.
LEMMA TakeItem ==
  ASSUME NEW N, NEW done, NEW rest, NEW rs, rest # <<>>, Yields(N, done, rest, rs)
  PROVE  /\ Yields(N, Append(done, Head(rest)), Tail(rest), rs)
         /\ InOrder(done, rest, rs) => InOrder(Append(done, Head(rest)), Tail(rest), rs)
<1>. DEFINE h == Head(rest)
            t == Tail(rest)
            d == Append(done, h)
<1>1. /\ done \in Seq(NonZero) /\ rest \in Seq(NonZero) /\ rs \in Seq(Pair)
      /\ \A n \in NonZero : n \in N <=> \/ n \in ToSet(done) \/ n \in ToSet(rest)
                                        \/ \E i \in 1 .. Len(rs) : n \in Span(rs[i])
  BY DEF Yields
<1>2. /\ h \in NonZero /\ t \in Seq(NonZero) /\ Len(t) \in Nat /\ Len(rest) = Len(t) + 1
      /\ h = rest[1] /\ (\A i \in 1 .. Len(t) : t[i] = rest[i + 1])
      /\ ToSet(rest) = {h} \cup ToSet(t)
  BY <1>1, HeadTailSet
<1>. HIDE DEF h, t
<1>3. /\ d \in Seq(NonZero) /\ ToSet(d) = ToSet(done) \cup {h}
      /\ Len(done) \in Nat /\ Len(d) = Len(done) + 1 /\ d[Len(done) + 1] = h
      /\ \A i \in 1 .. Len(done) : d[i] = done[i]
  BY <1>1, <1>2, AppendSet
<1>. HIDE DEF d
<1>4. Yields(N, d, t, rs)
  BY <1>1, <1>2, <1>3 DEF Yields
<1>5. ASSUME InOrder(done, rest, rs) PROVE InOrder(d, t, rs)
  <2>1. /\ Rising(done) /\ Rising(rest) /\ rs \in Seq(Rng) /\ Gapped(rs)
        /\ (\A x \in ToSet(done), y \in ToSet(rest) : x < y)
        /\ \A i \in 1 .. Len(rs) : \A x \in ToSet(done) \cup ToSet(rest) : x < rs[i].start
    BY <1>5 DEF InOrder
  <2>2. \A i \in 1 .. Len(done) : done[i] < h
    <3>. TAKE i \in 1 .. Len(done)
    <3>1. done[i] \in ToSet(done)
      BY <1>1, ToSetFinite
    <3>. QED  BY <3>1, <2>1, <1>2
  <2>3. \A y \in ToSet(t) : h < y
    <3>1. ToSet(t) = {t[i] : i \in 1 .. Len(t)}
      BY <1>2, ToSetFinite
    <3>2. ASSUME NEW i \in 1 .. Len(t) PROVE h < t[i]
      <4>1. 1 \in 1 .. Len(rest) /\ i + 1 \in 1 .. Len(rest) /\ 1 < i + 1
        BY <1>2
      <4>2. rest[1] < rest[i + 1]
        BY <4>1, <2>1 DEF Rising
      <4>. QED  BY <4>2, <1>2
    <3>. QED  BY <3>1, <3>2
  <2>4. Rising(d)
    <3>. SUFFICES ASSUME NEW i \in 1 .. Len(done) + 1, NEW j \in 1 .. Len(done) + 1, i < j
                  PROVE  d[i] < d[j]
      BY <1>3 DEF Rising
    <3>1. i \in 1 .. Len(done) /\ (j \in 1 .. Len(done) \/ j = Len(done) + 1)
      BY <1>3
    <3>. QED  BY <3>1, <2>1, <2>2, <1>3 DEF Rising
  <2>5. Rising(t)
    <3>1. \A i \in 1 .. Len(t) : i + 1 \in 1 .. Len(rest)
      BY <1>2
    <3>2. \A i, j \in 1 .. Len(t) : i < j => i + 1 < j + 1
      BY <1>2
    <3>. QED  BY <3>1, <3>2, <2>1, <1>2 DEF Rising
  <2>6. \A x \in ToSet(d), y \in ToSet(t) : x < y
    BY <2>1, <2>3, <1>2, <1>3
  <2>7. \A i \in 1 .. Len(rs) : \A x \in ToSet(d) \cup ToSet(t) : x < rs[i].start
    BY <2>1, <1>2, <1>3
  <2>. QED  BY <2>1, <2>4, <2>5, <2>6, <2>7 DEF InOrder
<1>. QED  BY <1>4, <1>5 DEF d, t, h

\* The pairs of numbers that an iterator is made from span what the set names.
LEMMA SimplifyFacts ==
  ASSUME NEW s \in Seq(Sequence), NEW largest \in NonZero, NEW sort \in BOOLEAN
  PROVE  LET u == Simplify(s, largest, sort)
         IN  /\ u \in Seq(Pair) /\ (sort => u \in Seq(Rng))
             /\ \A n \in NonZero : n \in Numbers(s, largest)
                                     <=> \E i \in 1 .. Len(u) : n \in Span(u[i])
<1>. DEFINE u == Simplify(s, largest, sort)
            a(i) == Expand(s[i].a, largest)
            b(i) == Expand(s[i].b, largest)
<1>1. Len(s) \in Nat /\ DOMAIN s = 1 .. Len(s) /\ \A i \in 1 .. Len(s) : s[i] \in Sequence
  BY LenProperties, ElementOfSeq
<1>2. ASSUME NEW i \in 1 .. Len(s)
      PROVE  a(i) \in NonZero /\ b(i) \in NonZero /\ a(i) \in Nat /\ b(i) \in Nat
  <2>1. s[i].a \in SeqOrUid /\ s[i].b \in SeqOrUid
    BY <1>1 DEF Sequence, Single
  <2>2. a(i) \in NonZero /\ b(i) \in NonZero
    BY <2>1 DEF Expand, SeqOrUid
  <2>. QED  BY <2>2, MaxU32Assumption DEF NonZero
<1>3. u = [i \in 1 .. Len(s) |->
             IF sort THEN [start |-> Min({a(i), b(i)}), end |-> Max({a(i), b(i)})]
             ELSE [start |-> a(i), end |-> b(i)]]
  BY <1>1 DEF Simplify
<1>4. \A i \in 1 .. Len(s) : \A n : n \in NumbersOf(s[i], largest)
        <=> n \in NonZero /\ ((a(i) <= n /\ n <= b(i)) \/ (b(i) <= n /\ n <= a(i)))
  BY DEF NumbersOf
<1>5. ASSUME NEW i \in 1 .. Len(s)
      PROVE  /\ u[i] \in Pair /\ (sort => u[i] \in Rng)
             /\ Span(u[i]) = NumbersOf(s[i], largest)
  <2>0. a(i) \in NonZero /\ b(i) \in NonZero /\ a(i) \in Nat /\ b(i) \in Nat
    BY <1>2
  <2>1. \A n : n \in NumbersOf(s[i], largest)
          <=> n \in NonZero /\ ((a(i) <= n /\ n <= b(i)) \/ (b(i) <= n /\ n <= a(i)))
    BY <1>4
  <2>. DEFINE x == a(i)
              y == b(i)
  <2>2. CASE ~sort
    <3>1. u[i] = [start |-> x, end |-> y]
      BY <1>3, <2>2
    <3>. HIDE DEF u, x, y
    <3>2. u[i] \in Pair /\ u[i].start = x /\ u[i].end = y
      BY <3>1, <2>0 DEF Pair, x, y
    <3>. QED  BY <3>2, <2>1, <2>2 DEF Span, x, y
  <2>3. CASE sort
    <3>1. u[i] = [start |-> Min({x, y}), end |-> Max({x, y})]
      BY <1>3, <2>3
    <3>2. Min({x, y}) = (IF x <= y THEN x ELSE y) /\ Max({x, y}) = (IF x >= y THEN x ELSE y)
      <4>. HIDE DEF x, y
      <4>1. x \in Int /\ y \in Int
        BY <2>0 DEF x, y
      <4>. QED  BY <4>1, MinOfTwo, MaxOfTwo
    <3>3. u[i] = [start |-> IF x <= y THEN x ELSE y, end |-> IF x >= y THEN x ELSE y]
      BY <3>1, <3>2
    <3>. HIDE DEF u, x, y
    <3>4. /\ u[i] \in Rng /\ u[i] \in Pair
          /\ u[i].start = (IF x <= y THEN x ELSE y) /\ u[i].end = (IF x >= y THEN x ELSE y)
      BY <3>3, <2>0 DEF Rng, Pair, x, y
    <3>5. ASSUME NEW n \in NonZero
          PROVE  n \in Span(u[i]) <=> ((x <= n /\ n <= y) \/ (y <= n /\ n <= x))
      <4>1. n \in Nat
        BY MaxU32Assumption DEF NonZero
      <4>. QED  BY <4>1, <3>4, <2>0 DEF Span, x, y
    <3>6. Span(u[i]) \subseteq NonZero
      BY DEF Span
    <3>. QED  BY <3>4, <3>5, <3>6, <2>1 DEF x, y
  <2>. QED  BY <2>2, <2>3
<1>. HIDE DEF a, b
<1>6. /\ u \in Seq(Pair) /\ Len(u) = Len(s) /\ (sort => u \in Seq(Rng))
  <2>1. u \in [1 .. Len(s) -> Pair] /\ (sort => u \in [1 .. Len(s) -> Rng])
    BY <1>3, <1>5
  <2>. HIDE DEF u
  <2>. QED  BY <2>1, <1>1, SeqDef, LenProperties
<1>. HIDE DEF u
<1>7. ASSUME NEW n \in NonZero
      PROVE  n \in Numbers(s, largest) <=> \E i \in 1 .. Len(u) : n \in Span(u[i])
  <2>1. ToSet(s) = {s[i] : i \in 1 .. Len(s)}
    BY ToSetFinite
  <2>2. n \in Numbers(s, largest) <=> \E i \in 1 .. Len(s) : n \in NumbersOf(s[i], largest)
    BY <2>1 DEF Numbers
  <2>. QED  BY <2>2, <1>5, <1>6
<1>. QED  BY <1>6, <1>7 DEF u

\* What the iterators keep.
IterInv ==
  /\ Idle => ranges = <<>> /\ active_range = <<>> /\ items = <<>>
  /\ ~Idle => /\ set # <<>>
              /\ Yields(Numbers(set, call.largest), items, active_range, ranges)
  /\ call.kind = "iter" => InOrder(items, active_range, ranges)

\* iter starts with the cleaned-up ranges, which span the numbers of the set.
LEMMA IterBegins ==
  ASSUME SetOK, IterInv, Iter
  PROVE  IterInv'
<1>1. PICK largest \in Largests : /\ ranges' = Cleanup(Simplify(set, largest, TRUE))
                                  /\ call' = [kind |-> "iter", largest |-> largest]
  BY DEF Iter
<1>2. /\ largest \in NonZero /\ set # <<>> /\ set \in Seq(Sequence)
      /\ set' = set /\ items' = <<>> /\ active_range' = <<>>
  BY SequenceSetAssumption DEF Iter, IterInv, SetOK
<1>. DEFINE u == Simplify(set, largest, TRUE)
            c == Cleanup(u)
<1>3. /\ u \in Seq(Rng)
      /\ \A n \in NonZero : n \in Numbers(set, largest)
                              <=> \E i \in 1 .. Len(u) : n \in Span(u[i])
  BY <1>2, SimplifyFacts
<1>. HIDE DEF u
<1>4. /\ c \in Seq(Rng) /\ Gapped(c)
      /\ \A x \in Nat : Reached(ToSet(c), x) <=> Reached(ToSet(u), x)
  BY <1>3, CleanupFacts
<1>. HIDE DEF c
<1>5. \A n \in NonZero : \A r \in Rng : n \in Span(r) <=> r.start <= n /\ n <= r.end
  <2>. SUFFICES ASSUME NEW n \in NonZero, NEW r \in Rng
                PROVE  n \in Span(r) <=> r.start <= n /\ n <= r.end
    OBVIOUS
  <2>1. r.start \in Nat /\ r.end \in Nat /\ r.start <= r.end /\ n \in Nat
    BY RngFacts, MaxU32Assumption DEF NonZero
  <2>. QED  BY <2>1 DEF Span
<1>6. ASSUME NEW m \in Seq(Rng), NEW n \in NonZero
      PROVE  Reached(ToSet(m), n) <=> \E i \in 1 .. Len(m) : n \in Span(m[i])
  <2>1. Reached(ToSet(m), n) <=> Reach(m, Len(m), n)
    BY ReachedIsReach
  <2>2. \A i \in 1 .. Len(m) : n \in Span(m[i]) <=> m[i].start <= n /\ n <= m[i].end
    BY <1>5, ElementOfSeq
  <2>. QED  BY <2>1, <2>2 DEF Reach
<1>7. \A n \in NonZero : n \in Numbers(set, largest)
                           <=> \E i \in 1 .. Len(c) : n \in Span(c[i])
  <2>. TAKE n \in NonZero
  <2>1. n \in Nat
    BY MaxU32Assumption DEF NonZero
  <2>. QED  BY <2>1, <1>3, <1>4, <1>6
<1>8. c \in Seq(Pair)
  <2>1. \A i \in 1 .. Len(c) : c[i] \in Pair
    BY <1>4, ElementOfSeq DEF Rng, Pair
  <2>. QED  BY <2>1, <1>4, SeqDef, LenProperties
<1>9. Yields(Numbers(set, largest), <<>>, <<>>, c)
  BY <1>7, <1>8, EmptySet DEF Yields
<1>10. InOrder(<<>>, <<>>, c)
  BY <1>4, EmptySet DEF InOrder
<1>11. ranges' = c /\ call'.kind = "iter" /\ call'.largest = largest
  BY <1>1 DEF c, u
<1>. QED  BY <1>2, <1>9, <1>10, <1>11 DEF IterInv, Idle

\* iter_naive starts with the ranges as they are.
LEMMA IterNaiveBegins ==
  ASSUME SetOK, IterInv, IterNaive
  PROVE  IterInv'
<1>1. PICK largest \in Largests : /\ ranges' = Simplify(set, largest, FALSE)
                                  /\ call' = [kind |-> "iter_naive", largest |-> largest]
  BY DEF IterNaive
<1>2. /\ largest \in NonZero /\ set # <<>> /\ set \in Seq(Sequence)
      /\ set' = set /\ items' = <<>> /\ active_range' = <<>>
  BY SequenceSetAssumption DEF IterNaive, IterInv, SetOK
<1>3. Yields(Numbers(set, largest), <<>>, <<>>, ranges')
  BY <1>1, <1>2, SimplifyFacts, EmptySet DEF Yields
<1>4. call'.kind = "iter_naive" /\ call'.largest = largest
  BY <1>1
<1>. QED  BY <1>2, <1>3, <1>4 DEF IterInv, Idle

\* A call of next moves numbers from what is left to what was returned.
LEMMA NextItemKeeps ==
  ASSUME IterInv, NextItem
  PROVE  IterInv'
<1>. DEFINE N == Numbers(set, call.largest)
            rest == IF active_range = <<>> /\ ranges # <<>> THEN Walk(Head(ranges))
                    ELSE active_range
<1>1. /\ rest # <<>> /\ items' = Append(items, Head(rest)) /\ active_range' = Tail(rest)
      /\ ranges' = IF active_range = <<>> THEN Tail(ranges) ELSE ranges
      /\ set' = set /\ call' = call /\ ~Idle
  BY DEF NextItem
<1>2. set # <<>> /\ Yields(N, items, active_range, ranges)
  BY <1>1 DEF IterInv
<1>3. call.kind = "iter" => InOrder(items, active_range, ranges)
  BY DEF IterInv
<1>. HIDE DEF N
<1>4. /\ Yields(N, items, rest, ranges')
      /\ call.kind = "iter" => InOrder(items, rest, ranges')
  <2>1. CASE active_range = <<>>
    <3>1. ranges # <<>> /\ rest = Walk(Head(ranges)) /\ ranges' = Tail(ranges)
      BY <2>1, <1>1
    <3>2. Yields(N, items, <<>>, ranges) /\ (call.kind = "iter" => InOrder(items, <<>>, ranges))
      BY <2>1, <1>2, <1>3
    <3>3. Yields(N, items, Walk(Head(ranges)), Tail(ranges))
          /\ (InOrder(items, <<>>, ranges) => InOrder(items, Walk(Head(ranges)), Tail(ranges)))
      BY <3>1, <3>2, BeginRange
    <3>. QED  BY <3>1, <3>2, <3>3
  <2>2. CASE active_range # <<>>
    BY <2>2, <1>1, <1>2, <1>3
  <2>. QED  BY <2>1, <2>2
<1>. HIDE DEF rest
<1>5. /\ Yields(N, items', active_range', ranges')
      /\ call.kind = "iter" => InOrder(items', active_range', ranges')
  BY <1>1, <1>4, TakeItem
<1>. QED  BY <1>1, <1>2, <1>5 DEF IterInv, Idle, N

\* The invariant of the iterators is inductive.
LEMMA IterInductive == Spec => []IterInv
<1>1. Init => IterInv
  BY DEF Init, IterInv, Idle, NoCall
<1>2. ASSUME SetOK, IterInv, [Next]_vars PROVE IterInv'
  <2>1. CASE NewSet \/ FromRange \/ Normalize
    <3>1. /\ Idle /\ Idle' /\ call' = call
          /\ ranges' = ranges /\ active_range' = active_range /\ items' = items
      BY <2>1, <1>2 DEF NewSet, FromRange, Normalize, IterInv, Idle
    <3>2. call'.kind # "iter"
      BY <3>1 DEF Idle
    <3>. QED  BY <3>1, <3>2, <1>2 DEF IterInv
  <2>2. CASE Iter
    BY <2>2, <1>2, IterBegins
  <2>3. CASE IterNaive
    BY <2>3, <1>2, IterNaiveBegins
  <2>4. CASE NextItem
    BY <2>4, <1>2, NextItemKeeps
  <2>5. CASE DropIterator
    BY <2>5 DEF DropIterator, Exhausted, IterInv, Idle, NoCall
  <2>6. CASE UNCHANGED vars
    BY <2>6, <1>2 DEF vars, IterInv, Idle
  <2>. QED  BY <1>2, <2>1, <2>2, <2>3, <2>4, <2>5, <2>6 DEF Next
<1>. QED  BY <1>1, <1>2, SetInductive, PTL DEF Spec

\* Both iterators return numbers of the set only, and all of them by the time
\* they are exhausted; iter returns each of them once and in ascending order.
THEOREM IteratorsCorrect == Spec => []IteratorsYieldTheSet
<1>1. ASSUME IterInv PROVE IteratorsYieldTheSet
  <2>. SUFFICES ASSUME ~Idle
                PROVE  /\ ToSet(items) \subseteq Numbers(set, call.largest)
                       /\ Exhausted => ToSet(items) = Numbers(set, call.largest)
                       /\ call.kind = "iter" =>
                            \A i, j \in DOMAIN items : i < j => items[i] < items[j]
    BY DEF IteratorsYieldTheSet
  <2>. DEFINE N == Numbers(set, call.largest)
  <2>1. Yields(N, items, active_range, ranges)
    BY <1>1 DEF IterInv
  <2>2. N \subseteq NonZero
    BY DEF Numbers, NumbersOf
  <2>. HIDE DEF N
  <2>3. /\ items \in Seq(NonZero) /\ ToSet(items) \subseteq NonZero
        /\ \A n \in NonZero : n \in N <=> \/ n \in ToSet(items) \/ n \in ToSet(active_range)
                                          \/ \E i \in 1 .. Len(ranges) : n \in Span(ranges[i])
    BY <2>1, ToSetFinite DEF Yields
  <2>4. ToSet(items) \subseteq N
    BY <2>3
  <2>5. Exhausted => ToSet(items) = N
    <3>. SUFFICES ASSUME active_range = <<>>, ranges = <<>> PROVE N \subseteq ToSet(items)
      BY <2>4 DEF Exhausted
    <3>1. ToSet(active_range) = {} /\ 1 .. Len(ranges) = {}
      BY EmptySet
    <3>. QED  BY <3>1, <2>2, <2>3
  <2>6. call.kind = "iter" => \A i, j \in DOMAIN items : i < j => items[i] < items[j]
    <3>1. DOMAIN items = 1 .. Len(items)
      BY <2>3, LenProperties
    <3>. QED  BY <3>1, <1>1 DEF IterInv, InOrder, Rising
  <2>. QED  BY <2>4, <2>5, <2>6 DEF N
<1>. QED  BY <1>1, IterInductive, PTL

-----------------------------------------------------------------------------
(* Texts of sequence sets: pieces.                                         *)

Characters == {"0", "1", "2", "+", ":", ",", "*"}
Text == Seq(Characters)

\* The characters that are no digits.
LEMMA DigitsAre == DOMAIN Digit = {"0", "1", "2"}
  BY DEF Digit

\* The part of a text between two positions.
LEMMA PieceIs ==
  ASSUME NEW t \in Text, NEW a \in Nat, NEW b \in Nat, a < b, b <= Len(t) + 1
  PROVE  /\ Piece(t, a, b) \in Text /\ Len(Piece(t, a, b)) = b - a - 1
         /\ DOMAIN Piece(t, a, b) = 1 .. b - a - 1
         /\ \A i \in 1 .. b - a - 1 : Piece(t, a, b)[i] = t[a + i]
<1>1. Len(t) \in Nat /\ \A i \in 1 .. Len(t) : t[i] \in Characters
  BY LenProperties, ElementOfSeq DEF Text
<1>2. /\ a + 1 \in Nat /\ b - 1 \in Int
      /\ \A i \in a + 1 .. b - 1 : t[i] \in Characters
  BY <1>1
<1>. DEFINE p == SubSeq(t, a + 1, b - 1)
<1>3. /\ p \in Seq(Characters)
      /\ Len(p) = IF a + 1 <= b - 1 THEN b - 1 - (a + 1) + 1 ELSE 0
      /\ \A i \in 1 .. b - 1 - (a + 1) + 1 : p[i] = t[a + 1 + i - 1]
  BY <1>2, SubSeqProperties DEF Text
<1>. HIDE DEF p
<1>4. Len(p) = b - a - 1 /\ DOMAIN p = 1 .. Len(p)
  BY <1>3, LenProperties
<1>5. \A i \in 1 .. b - a - 1 : p[i] = t[a + i]
  <2>1. SUFFICES ASSUME NEW i \in 1 .. b - a - 1 PROVE p[i] = t[a + i]
    OBVIOUS
  <2>2. i \in 1 .. b - 1 - (a + 1) + 1 /\ a + 1 + i - 1 = a + i
    OBVIOUS
  <2>. QED  BY <2>2, <1>3
<1>. QED  BY <1>3, <1>4, <1>5 DEF p, Piece, Text

\* The same for a piece of a given length.
LEMMA PieceOf ==
  ASSUME NEW t \in Text, NEW a \in Nat, NEW b \in Nat, NEW n \in Nat, b = a + n + 1, b <= Len(t) + 1
  PROVE  /\ Piece(t, a, b) \in Text /\ Len(Piece(t, a, b)) = n
         /\ \A i \in 1 .. n : Piece(t, a, b)[i] = t[a + i]
<1>1. a < b /\ b - a - 1 = n
  OBVIOUS
<1>. QED  BY <1>1, PieceIs

\* Two texts with the same characters.
LEMMA SameText ==
  ASSUME NEW p \in Text, NEW q \in Text, Len(p) = Len(q), \A i \in 1 .. Len(p) : p[i] = q[i]
  PROVE  p = q
  BY SeqEqual DEF Text

\* A piece of a piece.
LEMMA PieceInside ==
  ASSUME NEW t \in Text, NEW a \in Nat, NEW b \in Nat, a < b, b <= Len(t) + 1,
         NEW i \in Nat, NEW j \in Nat, i < j, j <= b - a
  PROVE  Piece(Piece(t, a, b), i, j) = Piece(t, a + i, a + j)
<1>. DEFINE p == Piece(t, a, b)
            q == Piece(p, i, j)
            r == Piece(t, a + i, a + j)
<1>1. Len(t) \in Nat
  BY LenProperties DEF Text
<1>2. p \in Text /\ Len(p) = b - a - 1 /\ \A k \in 1 .. b - a - 1 : p[k] = t[a + k]
  BY PieceIs
<1>. HIDE DEF p
<1>3. j <= Len(p) + 1
  BY <1>2
<1>4. q \in Text /\ Len(q) = j - i - 1 /\ \A k \in 1 .. j - i - 1 : q[k] = p[i + k]
  BY <1>2, <1>3, PieceIs
<1>6. r \in Text /\ Len(r) = j - i - 1 /\ \A k \in 1 .. j - i - 1 : r[k] = t[a + i + k]
  <2>. DEFINE x == a + i
              y == a + j
              n == j - i - 1
  <2>1. x \in Nat /\ y \in Nat /\ n \in Nat /\ y = x + n + 1 /\ y <= Len(t) + 1
    BY <1>1
  <2>. HIDE DEF x, y, n
  <2>2. /\ Piece(t, x, y) \in Text /\ Len(Piece(t, x, y)) = n
        /\ \A k \in 1 .. n : Piece(t, x, y)[k] = t[x + k]
    BY <2>1, PieceOf
  <2>. QED  BY <2>2 DEF x, y, n
<1>. HIDE DEF q, r
<1>7. ASSUME NEW k \in 1 .. Len(q) PROVE q[k] = r[k]
  <2>1. k \in 1 .. j - i - 1 /\ i + k \in 1 .. b - a - 1 /\ a + (i + k) = a + i + k
    BY <1>4
  <2>. QED  BY <2>1, <1>2, <1>4, <1>6
<1>8. q = r
  BY <1>4, <1>6, <1>7, SameText
<1>. QED  BY <1>8 DEF p, q, r

\* A piece grows by the next character.
LEMMA PieceGrows ==
  ASSUME NEW t \in Text, NEW a \in Nat, NEW b \in Nat, a < b, b <= Len(t)
  PROVE  Piece(t, a, b + 1) = Append(Piece(t, a, b), t[b])
<1>. DEFINE p == Piece(t, a, b)
            q == Piece(t, a, b + 1)
<1>1. Len(t) \in Nat /\ b <= Len(t) + 1 /\ b + 1 <= Len(t) + 1 /\ b \in 1 .. Len(t) /\ b + 1 \in Nat /\ a < b + 1
  BY LenProperties DEF Text
<1>2. p \in Text /\ Len(p) = b - a - 1 /\ \A i \in 1 .. b - a - 1 : p[i] = t[a + i]
  BY <1>1, PieceIs
<1>3. q \in Text /\ Len(q) = b - a /\ \A i \in 1 .. b - a : q[i] = t[a + i]
  <2>. DEFINE x == b + 1
              n == b - a
  <2>1. x \in Nat /\ n \in Nat /\ x = a + n + 1 /\ x <= Len(t) + 1
    BY <1>1
  <2>. HIDE DEF x, n
  <2>2. /\ Piece(t, a, x) \in Text /\ Len(Piece(t, a, x)) = n
        /\ \A k \in 1 .. n : Piece(t, a, x)[k] = t[a + k]
    BY <2>1, PieceOf
  <2>. QED  BY <2>2 DEF x, n
<1>4. t[b] \in Characters
  BY <1>1, ElementOfSeq DEF Text
<1>. DEFINE r == Append(p, t[b])
<1>. HIDE DEF p, q
<1>5. r \in Text /\ Len(r) = Len(p) + 1 /\ r[Len(p) + 1] = t[b] /\ \A i \in 1 .. Len(p) : r[i] = p[i]
  BY <1>2, <1>4, AppendProperties DEF Text
<1>. HIDE DEF r
<1>6. ASSUME NEW i \in 1 .. Len(q) PROVE q[i] = r[i]
  <2>1. CASE i \in 1 .. Len(p)
    <3>1. i \in 1 .. b - a - 1 /\ i \in 1 .. b - a
      BY <2>1, <1>2
    <3>. QED  BY <2>1, <3>1, <1>2, <1>3, <1>5
  <2>2. CASE i \notin 1 .. Len(p)
    <3>1. i = Len(p) + 1 /\ a + i = b /\ i \in 1 .. b - a
      BY <2>2, <1>2, <1>3
    <3>. QED  BY <3>1, <1>3, <1>5
  <2>. QED  BY <2>1, <2>2
<1>7. Len(q) = Len(r)
  BY <1>2, <1>3, <1>5
<1>8. q = r
  BY <1>3, <1>5, <1>6, <1>7, SameText
<1>. QED  BY <1>8 DEF p, q, r

\* The piece that has no character, and the one that has all of them.
LEMMA PieceEnds ==
  ASSUME NEW t \in Text
  PROVE  /\ \A a \in Nat : a <= Len(t) => Piece(t, a, a + 1) = <<>>
         /\ Piece(t, 0, Len(t) + 1) = t
<1>1. Len(t) \in Nat
  BY LenProperties DEF Text
<1>2. ASSUME NEW a \in Nat, a <= Len(t) PROVE Piece(t, a, a + 1) = <<>>
  <2>1. a + 1 \in Nat /\ a < a + 1 /\ a + 1 <= Len(t) + 1 /\ a + 1 - a - 1 = 0
    BY <1>1, <1>2
  <2>2. Piece(t, a, a + 1) \in Text /\ Len(Piece(t, a, a + 1)) = 0
    BY <2>1, PieceIs
  <2>. QED  BY <2>2, EmptySeq DEF Text
<1>3. Piece(t, 0, Len(t) + 1) = t
  <2>. DEFINE p == Piece(t, 0, Len(t) + 1)
  <2>. DEFINE x == Len(t) + 1
              n == Len(t)
  <2>1. x \in Nat /\ n \in Nat /\ x = 0 + n + 1 /\ x <= Len(t) + 1 /\ \A i \in 1 .. n : 0 + i = i
    BY <1>1
  <2>2. p = Piece(t, 0, x) /\ n = Len(t)
    OBVIOUS
  <2>. HIDE DEF x, n, p
  <2>3. /\ Piece(t, 0, x) \in Text /\ Len(Piece(t, 0, x)) = n
        /\ \A i \in 1 .. n : Piece(t, 0, x)[i] = t[0 + i]
    BY <2>1, PieceOf
  <2>4. Len(p) = Len(t) /\ p \in Text /\ \A i \in 1 .. Len(p) : p[i] = t[i]
    BY <2>1, <2>2, <2>3
  <2>5. p = t
    BY <2>4, SameText
  <2>. QED  BY <2>5 DEF p
<1>. QED  BY <1>2, <1>3

-----------------------------------------------------------------------------
(* What split returns.                                                     *)

\* ps are the pieces of the first m characters of t between separators, and e
\* says where each of them ends.
SplitUpTo(t, m, c, ps, e) ==
  /\ ps \in Seq(Text) /\ Len(ps) \in 1 .. m + 1
  /\ e \in [0 .. Len(ps) -> 0 .. m + 1] /\ e[0] = 0 /\ e[Len(ps)] = m + 1
  /\ \A k \in 1 .. Len(ps) : e[k - 1] < e[k] /\ ps[k] = Piece(t, e[k - 1], e[k])
  /\ \A k \in 1 .. Len(ps) : \A i \in 1 .. m : e[k - 1] < i /\ i < e[k] => t[i] # c
  /\ \A k \in 1 .. Len(ps) - 1 : t[e[k]] = c
  /\ \A i \in 1 .. m : t[i] = c => \E k \in 1 .. Len(ps) - 1 : e[k] = i

\* Nothing of the text, in one piece.
LEMMA SplitNothing ==
  ASSUME NEW t \in Text, NEW c
  PROVE  SplitUpTo(t, 0, c, <<<<>>>>, [k \in 0 .. 1 |-> k])
<1>. DEFINE ps == <<<<>>>>
            e == [k \in 0 .. 1 |-> k]
<1>1. <<>> \in Text /\ Piece(t, 0, 1) = <<>>
  <2>1. 0 \in Nat /\ 0 <= Len(t) /\ 0 + 1 = 1
    BY LenProperties DEF Text
  <2>. QED  BY <2>1, PieceEnds, EmptySeq DEF Text
<1>2. ps \in Seq(Text) /\ Len(ps) = 1 /\ ps[1] = <<>>
  BY <1>1
<1>3. e \in [0 .. 1 -> 0 .. 0 + 1] /\ e[0] = 0 /\ e[1] = 1
  OBVIOUS
<1>. HIDE DEF ps, e
<1>4. \A k \in 1 .. Len(ps) : e[k - 1] < e[k] /\ ps[k] = Piece(t, e[k - 1], e[k])
  <2>1. \A k \in 1 .. Len(ps) : k = 1 /\ k - 1 = 0
    BY <1>2
  <2>. QED  BY <2>1, <1>1, <1>2, <1>3
<1>5. 1 .. 0 = {} /\ 1 .. Len(ps) - 1 = {} /\ Len(ps) \in 1 .. 0 + 1
  BY <1>2
<1>6. SplitUpTo(t, 0, c, ps, e)
  BY <1>2, <1>3, <1>4, <1>5 DEF SplitUpTo
<1>. QED  BY <1>6 DEF ps, e

\* One character more.
LEMMA SplitNext ==
  ASSUME NEW t \in Text, NEW c, NEW m \in Nat, m < Len(t), NEW ps, NEW e, SplitUpTo(t, m, c, ps, e)
  PROVE  \E f : SplitUpTo(t, m + 1, c, SplitOff(ps, t[m + 1], c), f)
<1>. DEFINE n == Len(ps)
            x == t[m + 1]
<1>1. /\ ps \in Seq(Text) /\ n \in 1 .. m + 1
      /\ e \in [0 .. n -> 0 .. m + 1] /\ e[0] = 0 /\ e[n] = m + 1
      /\ \A k \in 1 .. n : e[k - 1] < e[k] /\ ps[k] = Piece(t, e[k - 1], e[k])
      /\ \A k \in 1 .. n : \A i \in 1 .. m : e[k - 1] < i /\ i < e[k] => t[i] # c
      /\ \A k \in 1 .. n - 1 : t[e[k]] = c
      /\ \A i \in 1 .. m : t[i] = c => \E k \in 1 .. n - 1 : e[k] = i
  BY DEF SplitUpTo
<1>2. Len(t) \in Nat /\ m + 1 \in 1 .. Len(t) /\ x \in Characters
  BY LenProperties, ElementOfSeq DEF Text
<1>3. n \in Nat /\ n > 0 /\ n \in 1 .. n /\ n - 1 \in 0 .. n
  BY <1>1
<1>4. CASE x = c
  <2>. DEFINE qs == Append(ps, <<>>)
              f == [k \in 0 .. n + 1 |-> IF k = n + 1 THEN m + 2 ELSE e[k]]
  <2>1. <<>> \in Text
    BY EmptySeq DEF Text
  <2>2. qs \in Seq(Text) /\ Len(qs) = n + 1 /\ qs[n + 1] = <<>> /\ \A k \in 1 .. n : qs[k] = ps[k]
    BY <2>1, <1>1, AppendProperties
  <2>3. /\ f \in [0 .. n + 1 -> 0 .. m + 1 + 1] /\ f[n + 1] = m + 2
        /\ \A k \in 0 .. n : f[k] = e[k]
    BY <1>1, <1>3
  <2>. HIDE DEF f, qs, n, x
  <2>4. f[0] = 0 /\ f[n] = m + 1
    BY <2>3, <1>1, <1>3
  <2>5. ASSUME NEW k \in 1 .. n + 1
        PROVE  /\ f[k - 1] < f[k] /\ qs[k] = Piece(t, f[k - 1], f[k])
               /\ \A i \in 1 .. m + 1 : f[k - 1] < i /\ i < f[k] => t[i] # c
    <3>1. CASE k = n + 1
      <4>1. k - 1 = n /\ f[k - 1] = m + 1 /\ f[k] = m + 1 + 1
        BY <3>1, <2>3, <2>4, <1>3
      <4>2. Piece(t, m + 1, m + 1 + 1) = <<>>
        BY <1>2, PieceEnds
      <4>3. qs[k] = <<>>
        BY <3>1, <2>2
      <4>. QED  BY <4>1, <4>2, <4>3
    <3>2. CASE k \in 1 .. n
      <4>1. k \in 0 .. n /\ k - 1 \in 0 .. n /\ f[k] = e[k] /\ f[k - 1] = e[k - 1] /\ qs[k] = ps[k]
        BY <3>2, <2>2, <2>3, <1>3
      <4>2. e[k] \in 0 .. m + 1
        BY <4>1, <1>1
      <4>3. \A i \in 1 .. m + 1 : i < e[k] => i \in 1 .. m
        BY <4>2
      <4>. QED  BY <4>1, <4>3, <3>2, <1>1
    <3>. QED  BY <3>1, <3>2, <1>3
  <2>. DEFINE l == n + 1
  <2>12. 1 .. l - 1 = 1 .. n
    BY <1>3
  <2>. HIDE DEF l
  <2>6. \A k \in 1 .. l - 1 : t[f[k]] = c
    <3>1. SUFFICES ASSUME NEW k \in 1 .. n PROVE t[f[k]] = c
      BY <2>12
    <3>2. CASE k = n
      BY <3>2, <2>4, <1>4 DEF x
    <3>3. CASE k # n
      <4>1. k \in 1 .. n - 1 /\ k \in 0 .. n
        BY <3>3, <1>3
      <4>. QED  BY <4>1, <2>3, <1>1
    <3>. QED  BY <3>2, <3>3
  <2>7. ASSUME NEW i \in 1 .. m + 1, t[i] = c PROVE \E k \in 1 .. l - 1 : f[k] = i
    <3>1. CASE i = m + 1
      <4>1. n \in 1 .. l - 1
        BY <1>3, <2>12
      <4>. QED  BY <3>1, <4>1, <2>4
    <3>2. CASE i # m + 1
      <4>1. i \in 1 .. m
        BY <3>2
      <4>2. PICK k \in 1 .. n - 1 : e[k] = i
        BY <4>1, <2>7, <1>1
      <4>4. k \in 1 .. n /\ k \in 0 .. n
        BY <1>3
      <4>3. k \in 1 .. l - 1 /\ k \in 0 .. n
        BY <4>4, <2>12
      <4>. QED  BY <4>2, <4>3, <2>3
    <3>. QED  BY <3>1, <3>2
  <2>8. n + 1 \in 1 .. m + 1 + 1
    BY <1>1
  <2>9. SplitUpTo(t, m + 1, c, qs, f)
    <3>1. qs \in Seq(Text) /\ Len(qs) = n + 1 /\ f[n + 1] = m + 1 + 1
      BY <2>2, <2>3
    <3>2. \A k \in 1 .. l : f[k - 1] < f[k] /\ qs[k] = Piece(t, f[k - 1], f[k])
      BY <2>5 DEF l
    <3>3. \A k \in 1 .. l : \A i \in 1 .. m + 1 : f[k - 1] < i /\ i < f[k] => t[i] # c
      BY <2>5 DEF l
    <3>4. f \in [0 .. l -> 0 .. m + 1 + 1] /\ l \in 1 .. m + 1 + 1 /\ f[l] = m + 1 + 1 /\ Len(qs) = l
      BY <2>2, <2>3, <2>8, <3>1 DEF l
    <3>5. \A k \in 1 .. l - 1 : t[f[k]] = c
      BY <2>6
    <3>6. \A i \in 1 .. m + 1 : t[i] = c => \E k \in 1 .. l - 1 : f[k] = i
      BY <2>7
    <3>. QED  BY <2>4, <3>1, <3>2, <3>3, <3>4, <3>5, <3>6 DEF SplitUpTo
  <2>10. SplitOff(ps, x, c) = qs
    BY <1>4 DEF SplitOff, qs
  <2>. QED  BY <2>9, <2>10 DEF x
<1>5. CASE x # c
  <2>. DEFINE q == Append(ps[n], x)
              qs == [ps EXCEPT ![n] = q]
              f == [k \in 0 .. n |-> IF k = n THEN m + 2 ELSE e[k]]
  <2>1. /\ f \in [0 .. n -> 0 .. m + 1 + 1] /\ f[n] = m + 1 + 1
        /\ \A k \in 0 .. n - 1 : f[k] = e[k]
    BY <1>1, <1>3
  <2>2. ps[n] = Piece(t, e[n - 1], m + 1) /\ e[n - 1] < m + 1 /\ e[n - 1] \in Nat
    <3>1. e[n - 1] \in 0 .. m + 1
      BY <1>1, <1>3
    <3>. QED  BY <3>1, <1>1, <1>3
  <2>. HIDE DEF n, x
  <2>3. q = Piece(t, e[n - 1], m + 1 + 1) /\ q \in Text
    <3>1. m + 1 \in Nat /\ m + 1 <= Len(t) /\ m + 1 + 1 \in Nat /\ m + 1 + 1 <= Len(t) + 1
          /\ e[n - 1] < m + 1 + 1
      BY <1>2, <2>2
    <3>2. q = Piece(t, e[n - 1], m + 1 + 1)
      BY <3>1, <2>2, PieceGrows DEF x
    <3>3. Piece(t, e[n - 1], m + 1 + 1) \in Text
      BY <3>1, <2>2, PieceIs
    <3>. QED  BY <3>2, <3>3
  <2>. HIDE DEF q
  <2>4. qs \in Seq(Text) /\ Len(qs) = n /\ qs[n] = q /\ \A k \in 1 .. n - 1 : qs[k] = ps[k]
    <3>1. n \in 1 .. Len(ps)
      BY <1>3 DEF n
    <3>2. /\ qs \in Seq(Text) /\ Len(qs) = Len(ps)
          /\ \A k \in 1 .. Len(ps) : qs[k] = IF k = n THEN q ELSE ps[k]
      BY <3>1, <2>3, <1>1, ExceptSeq
    <3>3. \A k \in 1 .. n - 1 : k \in 1 .. n /\ k # n
      BY <1>3
    <3>. QED  BY <3>1, <3>2, <3>3 DEF n
  <2>. HIDE DEF f, qs
  <2>5. f[0] = 0
    <3>1. 0 \in 0 .. n - 1
      BY <1>3
    <3>. QED  BY <3>1, <2>1, <1>1
  <2>6. ASSUME NEW k \in 1 .. n
        PROVE  /\ f[k - 1] < f[k] /\ qs[k] = Piece(t, f[k - 1], f[k])
               /\ \A i \in 1 .. m + 1 : f[k - 1] < i /\ i < f[k] => t[i] # c
    <3>1. k - 1 \in 0 .. n - 1 /\ f[k - 1] = e[k - 1]
      BY <2>1, <1>3
    <3>2. CASE k = n
      <4>1. f[k] = m + 1 + 1 /\ f[k - 1] = e[n - 1] /\ f[k - 1] < m + 1 + 1
        BY <3>1, <3>2, <2>1, <2>2
      <4>2. ASSUME NEW i \in 1 .. m + 1, f[k - 1] < i PROVE t[i] # c
        <5>1. CASE i = m + 1
          BY <5>1, <1>5 DEF x
        <5>2. CASE i # m + 1
          <6>1. i \in 1 .. m /\ i < m + 1
            BY <5>2
          <6>. QED  BY <6>1, <4>1, <4>2, <1>1, <1>3
        <5>. QED  BY <5>1, <5>2
      <4>. QED  BY <4>1, <4>2, <3>2, <2>3, <2>4
    <3>3. CASE k # n
      <4>1. k \in 1 .. n - 1 /\ k \in 0 .. n - 1 /\ k \in 0 .. n
        BY <3>3, <1>3
      <4>2. f[k] = e[k] /\ qs[k] = ps[k] /\ e[k] \in 0 .. m + 1
        BY <4>1, <2>1, <2>4, <1>1
      <4>3. \A i \in 1 .. m + 1 : i < e[k] => i \in 1 .. m
        BY <4>2
      <4>. QED  BY <3>1, <4>2, <4>3, <1>1
    <3>. QED  BY <3>2, <3>3
  <2>7. \A k \in 1 .. n - 1 : t[f[k]] = c
    <3>1. \A k \in 1 .. n - 1 : k \in 0 .. n - 1
      BY <1>3
    <3>. QED  BY <3>1, <2>1, <1>1
  <2>8. ASSUME NEW i \in 1 .. m + 1, t[i] = c PROVE \E k \in 1 .. n - 1 : f[k] = i
    <3>1. i # m + 1
      BY <2>8, <1>5 DEF x
    <3>2. i \in 1 .. m
      BY <3>1
    <3>3. PICK k \in 1 .. n - 1 : e[k] = i
      BY <3>2, <2>8, <1>1
    <3>4. k \in 0 .. n - 1
      BY <1>3
    <3>. QED  BY <3>3, <3>4, <2>1
  <2>9. n \in 1 .. m + 1 + 1
    BY <1>1
  <2>10. SplitUpTo(t, m + 1, c, qs, f)
    BY <2>1, <2>4, <2>5, <2>6, <2>7, <2>8, <2>9 DEF SplitUpTo
  <2>11. SplitOff(ps, x, c) = qs
    BY <1>5 DEF SplitOff, qs, q, n
  <2>. QED  BY <2>10, <2>11 DEF x
<1>. QED  BY <1>4, <1>5

\* Splitting off a character leaves a list of pieces.
LEMMA SplitOffType ==
  ASSUME NEW ps \in Seq(Text), Len(ps) > 0, NEW x \in Characters, NEW c
  PROVE  SplitOff(ps, x, c) \in Seq(Text) /\ Len(SplitOff(ps, x, c)) > 0
<1>1. Len(ps) \in Nat /\ Len(ps) \in 1 .. Len(ps)
  BY LenProperties
<1>2. CASE x = c
  <2>1. <<>> \in Text
    BY EmptySeq DEF Text
  <2>2. Append(ps, <<>>) \in Seq(Text) /\ Len(Append(ps, <<>>)) = Len(ps) + 1
    BY <2>1, AppendProperties
  <2>. QED  BY <2>2, <1>1, <1>2 DEF SplitOff
<1>3. CASE x # c
  <2>. DEFINE q == Append(ps[Len(ps)], x)
  <2>1. q \in Text
    <3>1. ps[Len(ps)] \in Text
      BY <1>1, ElementOfSeq
    <3>. QED  BY <3>1, AppendProperties DEF Text
  <2>. HIDE DEF q
  <2>2. [ps EXCEPT ![Len(ps)] = q] \in Seq(Text) /\ Len([ps EXCEPT ![Len(ps)] = q]) = Len(ps)
    BY <2>1, <1>1, ExceptSeq
  <2>. QED  BY <2>2, <1>1, <1>3 DEF SplitOff, q
<1>. QED  BY <1>2, <1>3

\* The fold over the characters goes through one result for each prefix.
LEMMA SplitSteps ==
  ASSUME NEW t \in Text, NEW c
  PROVE  \E F : /\ F[0] = <<<<>>>> /\ F[Len(t)] = Split(t, c)
                /\ \A k \in 1 .. Len(t) : F[k] = SplitOff(F[k - 1], t[k], c)
<1>. DEFINE n == Len(t)
            X == {p \in Seq(Text) : Len(p) > 0}
            base == <<<<>>>>
            step == [p \in X \X (1 .. n) |-> SplitOff(p[1], t[p[2]], c)]
            Is(g) == g = [T \in SUBSET (1 .. n) |->
                            IF T = {} THEN base ELSE SplitOff(g[T \ {Max(T)}], t[Max(T)], c)]
            iter == CHOOSE g : Is(g)
<1>1. n \in Nat /\ DOMAIN t = 1 .. n /\ \A i \in 1 .. n : t[i] \in Characters
  BY LenProperties, ElementOfSeq DEF Text
<1>2. Split(t, c) = iter[1 .. n]
  BY <1>1 DEF Split, FoldLeft, MapThenFoldSet
<1>3. \E g : Is(g)
  <2>1. step \in [X \X (1 .. n) -> X] /\ base \in X
    <3>1. \A p \in X \X (1 .. n) : SplitOff(p[1], t[p[2]], c) \in X
      BY <1>1, SplitOffType
    <3>2. <<>> \in Text
      BY EmptySeq DEF Text
    <3>. QED  BY <3>1, <3>2
  <2>. HIDE DEF step, X, base
  <2>2. PICK f : Folds(f, X, n, base, step)
    <3>1. n \in Nat
      BY <1>1
    <3>. HIDE DEF n
    <3>. QED  BY <2>1, <3>1, FoldExists, Zenon
  <2>3. ASSUME NEW T \in SUBSET (1 .. n), T # {}
        PROVE  step[<<f[T \ {Max(T)}], Max(T)>>] = SplitOff(f[T \ {Max(T)}], t[Max(T)], c)
    <3>1. Max(T) \in 1 .. n
      BY <2>3, <1>1, MaxOf
    <3>2. f[T \ {Max(T)}] \in X
      BY <2>2 DEF Folds
    <3>. QED  BY <3>1, <3>2 DEF step
  <2>4. f = [T \in SUBSET (1 .. n) |-> f[T]]
    BY <2>2 DEF Folds
  <2>5. Is(f)
    BY <2>2, <2>3, <2>4 DEF Folds
  <2>. QED  BY <2>5
<1>4. Is(iter)
  <2>. HIDE DEF Is
  <2>. QED  BY <1>3
<1>. HIDE DEF iter
<1>. DEFINE F == [k \in 0 .. n |-> iter[1 .. k]]
<1>5. F[0] = base
  <2>1. 1 .. 0 = {} /\ 0 \in 0 .. n
    BY <1>1
  <2>. QED  BY <2>1, <1>4
<1>6. ASSUME NEW k \in 1 .. n PROVE F[k] = SplitOff(F[k - 1], t[k], c)
  <2>1. 1 .. k \in SUBSET (1 .. n) /\ 1 .. k # {} /\ k \in 0 .. n /\ k - 1 \in 0 .. n
    BY <1>1, InitialInterval
  <2>2. Max(1 .. k) = k /\ (1 .. k) \ {k} = 1 .. k - 1
    BY MaxOfInterval
  <2>. QED  BY <2>1, <2>2, <1>4
<1>7. F[n] = Split(t, c)
  BY <1>1, <1>2
<1>. HIDE DEF F
<1>. QED  BY <1>5, <1>6, <1>7

\* split returns the pieces between separators, all of them and in order.
LEMMA SplitIs ==
  ASSUME NEW t \in Text, NEW c
  PROVE  \E e : SplitUpTo(t, Len(t), c, Split(t, c), e)
<1>1. PICK F : /\ F[0] = <<<<>>>> /\ F[Len(t)] = Split(t, c)
               /\ \A k \in 1 .. Len(t) : F[k] = SplitOff(F[k - 1], t[k], c)
  BY SplitSteps
<1>. DEFINE n == Len(t)
            Good(k) == \E e : SplitUpTo(t, k, c, F[k], e)
            Wrong == {k \in 0 .. n : ~Good(k)}
<1>2. n \in Nat
  BY LenProperties DEF Text
<1>3. Wrong = {}
  <2>1. SUFFICES ASSUME Wrong # {} PROVE FALSE
    OBVIOUS
  <2>2. PICK k \in Wrong : \A i \in Wrong : k <= i
    <3>1. Wrong \subseteq Nat  BY <1>2
    <3>. HIDE DEF Wrong
    <3>. QED  BY <3>1, <2>1, LeastNumber
  <2>3. k # 0
    BY <1>1, SplitNothing
  <2>. HIDE DEF Good
  <2>4. k \in 1 .. n /\ k - 1 \in Nat /\ k - 1 < n /\ Good(k - 1) /\ k - 1 + 1 = k
    <3>1. k \in 0 .. n /\ k \in 1 .. n /\ k - 1 \in 0 .. n /\ ~(k <= k - 1)
      BY <1>2, <2>3
    <3>2. k - 1 \notin Wrong
      <4>. HIDE DEF Wrong
      <4>. QED  BY <3>1, <2>2
    <3>. QED  BY <3>1, <3>2, <1>2
  <2>5. PICK e : SplitUpTo(t, k - 1, c, F[k - 1], e)
    BY <2>4 DEF Good
  <2>6. PICK f : SplitUpTo(t, k - 1 + 1, c, SplitOff(F[k - 1], t[k - 1 + 1], c), f)
    BY <2>4, <2>5, SplitNext, Zenon
  <2>7. Good(k)
    BY <2>4, <2>6, <1>1 DEF Good
  <2>. QED  BY <2>2, <2>7
<1>4. Good(n)
  <2>. HIDE DEF Good
  <2>. QED  BY <1>2, <1>3
<1>. QED  BY <1>1, <1>4

-----------------------------------------------------------------------------
(* Numbers and sequences, as FromStr reads them.                           *)

\* What a number of the formal syntax means to the parser.
Meant(p) == IF p = <<"*">> THEN Asterisk ELSE NumberOf(p)

\* A number has no separator in it.
LEMMA NumbersAreWhole ==
  ASSUME NEW p \in Text, NEW r, IsSeqNumber(p, r)
  PROVE  Len(p) > 0 /\ \A i \in 1 .. Len(p) : p[i] # ":" /\ p[i] # ","
<1>1. Len(p) \in Nat /\ DOMAIN p = 1 .. Len(p) /\ (p # <<>> => Len(p) > 0)
  BY LenProperties, EmptySeq DEF Text
<1>2. CASE p = <<"*">>
  <2>1. Len(p) = 1 /\ p[1] = "*"
    BY <1>2
  <2>2. \A i \in 1 .. Len(p) : i = 1
    BY <2>1
  <2>3. \A i \in 1 .. Len(p) : p[i] # ":" /\ p[i] # ","
    BY <2>1, <2>2
  <2>4. Len(p) > 0
    BY <2>1
  <2>. QED  BY <2>3, <2>4
<1>3. CASE p # <<>> /\ AllDigits(p)
  <2>1. \A i \in 1 .. Len(p) : p[i] \in {"0", "1", "2"}
    BY <1>1, <1>3, DigitsAre DEF AllDigits
  <2>. QED  BY <2>1, <1>1, <1>3
<1>4. CASE Len(p) > 1 /\ p[1] = "+" /\ AllDigits(Tail(p))
  <2>1. Len(Tail(p)) = Len(p) - 1 /\ DOMAIN Tail(p) = 1 .. Len(p) - 1
        /\ \A i \in 1 .. Len(p) - 1 : Tail(p)[i] = p[i + 1]
    <3>1. p # <<>>
      BY <1>4, EmptySeq
    <3>2. /\ Tail(p) \in Seq(Characters) /\ Len(Tail(p)) = Len(p) - 1
          /\ \A i \in 1 .. Len(Tail(p)) : Tail(p)[i] = p[i + 1]
      BY <3>1, HeadTailProperties DEF Text
    <3>. QED  BY <3>2, LenProperties
  <2>2. ASSUME NEW i \in 1 .. Len(p) PROVE p[i] # ":" /\ p[i] # ","
    <3>1. CASE i = 1
      BY <3>1, <1>4
    <3>2. CASE i # 1
      <4>1. i - 1 \in 1 .. Len(p) - 1 /\ i - 1 + 1 = i
        BY <3>2, <1>1
      <4>2. Tail(p)[i - 1] \in {"0", "1", "2"}
        BY <4>1, <2>1, <1>4, DigitsAre DEF AllDigits
      <4>3. Tail(p)[i - 1] = p[i]
        BY <4>1, <2>1
      <4>. QED  BY <4>2, <4>3
    <3>. QED  BY <3>1, <3>2
  <2>3. Len(p) > 0
    BY <1>1, <1>4
  <2>. QED  BY <2>2, <2>3
<1>. QED  BY <1>2, <1>3, <1>4 DEF IsSeqNumber, IsNumber

\* FromStr takes the numbers of its syntax, and those that the parser takes as well
\* mean the same to both.
LEMMA NumberFromStr ==
  ASSUME NEW p \in Text
  PROVE  /\ SeqOrUidFromStr(p) # {} <=> IsSeqNumber(p, "FromStr")
         /\ IsSeqNumber(p, "FromStr") /\ IsSeqNumber(p, "parser") => SeqOrUidFromStr(p) = {Meant(p)}
<1>1. Len(p) \in Nat /\ DOMAIN p = 1 .. Len(p) /\ (p # <<>> <=> Len(p) > 0)
  BY LenProperties, EmptySeq DEF Text
<1>2. CASE p = <<"*">>
  <2>1. SeqOrUidFromStr(p) = {Asterisk} /\ Meant(p) = Asterisk /\ IsSeqNumber(p, "FromStr")
    BY <1>2 DEF SeqOrUidFromStr, Meant, IsSeqNumber
  <2>. QED  BY <2>1
<1>3. CASE p # <<"*">> /\ p = <<>>
  <2>1. ~IsSeqNumber(p, "FromStr")
    BY <1>3, <1>1 DEF IsSeqNumber, IsNumber
  <2>2. SeqOrUidFromStr(p) = {}
    BY <1>3 DEF SeqOrUidFromStr, NonZeroFromStr
  <2>. QED  BY <2>1, <2>2
<1>4. CASE p # <<"*">> /\ p # <<>> /\ p[1] = "0"
  <2>1. ~IsSeqNumber(p, "FromStr")
    BY <1>4 DEF IsSeqNumber, IsNumber
  <2>2. SeqOrUidFromStr(p) = {}
    BY <1>4 DEF SeqOrUidFromStr
  <2>. QED  BY <2>1, <2>2
<1>5. CASE p # <<"*">> /\ p # <<>> /\ p[1] = "+"
  <2>1. ~AllDigits(p)
    <3>1. 1 \in DOMAIN p /\ "+" \notin DOMAIN Digit
      BY <1>1, <1>5, DigitsAre
    <3>. QED  BY <3>1, <1>5 DEF AllDigits
  <2>2. Tail(p) # <<>> <=> Len(p) > 1
    <3>1. Tail(p) \in Seq(Characters) /\ Len(Tail(p)) = Len(p) - 1
      BY <1>5, HeadTailProperties DEF Text
    <3>2. Tail(p) # <<>> <=> Len(Tail(p)) > 0
      <4>. DEFINE q == Tail(p)
      <4>1. q \in Seq(Characters)
        BY <3>1
      <4>. HIDE DEF q
      <4>2. Len(q) \in Nat /\ (q = <<>> => Len(q) = 0) /\ (q # <<>> => Len(q) \in Nat \ {0})
        BY <4>1, EmptySeq, LenProperties
      <4>3. q # <<>> <=> Len(q) > 0
        BY <4>2
      <4>. QED  BY <4>3 DEF q
    <3>. QED  BY <3>1, <3>2, <1>1
  <2>3. IsSeqNumber(p, "FromStr") <=> Tail(p) # <<>> /\ AllDigits(Tail(p)) /\ NumberOf(Tail(p)) \in NonZero
    BY <1>5, <2>1, <2>2 DEF IsSeqNumber, IsNumber
  <2>4. SeqOrUidFromStr(p) = {n \in {NumberOf(d) : d \in {x \in {Tail(p)} : x # <<>> /\ AllDigits(x)}} : n \in NonZero}
    BY <1>5 DEF SeqOrUidFromStr, NonZeroFromStr
  <2>5. SeqOrUidFromStr(p) # {} <=> Tail(p) # <<>> /\ AllDigits(Tail(p)) /\ NumberOf(Tail(p)) \in NonZero
    BY <2>4
  <2>6. ~IsSeqNumber(p, "parser")
    BY <1>5, <2>1 DEF IsSeqNumber, IsNumber
  <2>. QED  BY <2>3, <2>5, <2>6
<1>6. CASE p # <<"*">> /\ p # <<>> /\ p[1] # "0" /\ p[1] # "+"
  <2>1. IsSeqNumber(p, "FromStr") <=> AllDigits(p) /\ NumberOf(p) \in NonZero
    BY <1>6 DEF IsSeqNumber, IsNumber
  <2>2. SeqOrUidFromStr(p) = {n \in {NumberOf(d) : d \in {x \in {p} : x # <<>> /\ AllDigits(x)}} : n \in NonZero}
    BY <1>6 DEF SeqOrUidFromStr, NonZeroFromStr
  <2>3. SeqOrUidFromStr(p) # {} <=> AllDigits(p) /\ NumberOf(p) \in NonZero
    BY <2>2, <1>6
  <2>4. AllDigits(p) /\ NumberOf(p) \in NonZero => SeqOrUidFromStr(p) = {NumberOf(p)}
    BY <2>2, <1>6
  <2>. QED  BY <2>1, <2>3, <2>4, <1>6 DEF Meant
<1>. QED  BY <1>2, <1>3, <1>4, <1>5, <1>6

\* The sequence that the parser makes of a piece between commas.
Reads(p, q) ==
  \/ IsSeqNumber(p, "parser") /\ q = Single(Meant(p))
  \/ \E i \in 1 .. Len(p) :
       /\ p[i] = ":" /\ IsSeqNumber(Piece(p, 0, i), "parser") /\ IsSeqNumber(Piece(p, i, Len(p) + 1), "parser")
       /\ q = Between(Meant(Piece(p, 0, i)), Meant(Piece(p, i, Len(p) + 1)))

\* It makes one of what the formal syntax calls a sequence.
LEMMA ReadsSequences ==
  ASSUME NEW p \in Text
  PROVE  IsSequence(p, "parser") <=> \E q : Reads(p, q)
<1>1. DOMAIN p = 1 .. Len(p)
  BY LenProperties DEF Text
<1>. QED  BY <1>1, Zenon DEF IsSequence, Reads

\* A range has one colon, and the numbers of the range are on its sides.
LEMMA OneColon ==
  ASSUME NEW p \in Text, NEW i \in 1 .. Len(p), NEW r,
         IsSeqNumber(Piece(p, 0, i), r), IsSeqNumber(Piece(p, i, Len(p) + 1), r)
  PROVE  \A j \in 1 .. Len(p) : p[j] = ":" => j = i
<1>. DEFINE x == Piece(p, 0, i)
            n == Len(p) - i
            y == Piece(p, i, Len(p) + 1)
<1>1. Len(p) \in Nat
  BY LenProperties DEF Text
<1>2. x \in Text /\ Len(x) = i - 1 /\ \A k \in 1 .. i - 1 : x[k] = p[k]
  <2>. DEFINE m == i - 1
  <2>1. m \in Nat /\ 0 \in Nat /\ i \in Nat /\ i = 0 + m + 1 /\ i <= Len(p) + 1 /\ \A k \in 1 .. m : 0 + k = k
    BY <1>1
  <2>. HIDE DEF m
  <2>2. x \in Text /\ Len(x) = m /\ \A k \in 1 .. m : x[k] = p[0 + k]
    BY <2>1, PieceOf
  <2>. QED  BY <2>1, <2>2 DEF m
<1>3. y \in Text /\ Len(y) = n /\ \A k \in 1 .. n : y[k] = p[i + k]
  <2>. DEFINE b == Len(p) + 1
  <2>1. n \in Nat /\ i \in Nat /\ b \in Nat /\ b = i + n + 1 /\ b <= Len(p) + 1
    BY <1>1
  <2>. HIDE DEF b, n
  <2>2. Piece(p, i, b) \in Text /\ Len(Piece(p, i, b)) = n /\ \A k \in 1 .. n : Piece(p, i, b)[k] = p[i + k]
    BY <2>1, PieceOf
  <2>. QED  BY <2>2 DEF b
<1>4. \A k \in 1 .. Len(x) : x[k] # ":"
  BY <1>2, NumbersAreWhole
<1>5. \A k \in 1 .. Len(y) : y[k] # ":"
  BY <1>3, NumbersAreWhole
<1>. HIDE DEF x, y
<1>6. ASSUME NEW j \in 1 .. Len(p), p[j] = ":", j # i PROVE FALSE
  <2>1. CASE j < i
    <3>1. j \in 1 .. i - 1
      BY <2>1
    <3>. QED  BY <3>1, <1>2, <1>4, <1>6
  <2>2. CASE j > i
    <3>1. j - i \in 1 .. n /\ i + (j - i) = j
      BY <2>2, <1>1
    <3>. HIDE DEF n
    <3>2. y[j - i] = p[i + (j - i)]
      BY <3>1, <1>3
    <3>3. y[j - i] # ":"
      BY <3>1, <1>3, <1>5
    <3>. QED  BY <3>1, <3>2, <3>3, <1>6
  <2>. QED  BY <2>1, <2>2, <1>6
<1>. QED  BY <1>6

\* What FromStr makes of a piece between commas.
LEMMA PieceFromStr ==
  ASSUME NEW p \in Text
  PROVE  /\ SequenceFromStr(p) # {} <=> IsSequence(p, "FromStr")
         /\ \A q : IsSequence(p, "FromStr") /\ Reads(p, q) => SequenceFromStr(p) = {q}
<1>. DEFINE ps == Split(p, ":")
            n == Len(p)
<1>1. n \in Nat /\ DOMAIN p = 1 .. n
  BY LenProperties DEF Text
<1>2. PICK e : SplitUpTo(p, n, ":", ps, e)
  BY SplitIs
<1>. HIDE DEF ps
<1>3. /\ Len(ps) \in 1 .. n + 1
      /\ e \in [0 .. Len(ps) -> 0 .. n + 1] /\ e[0] = 0 /\ e[Len(ps)] = n + 1
      /\ \A k \in 1 .. Len(ps) : e[k - 1] < e[k] /\ ps[k] = Piece(p, e[k - 1], e[k])
      /\ \A k \in 1 .. Len(ps) - 1 : p[e[k]] = ":"
      /\ \A i \in 1 .. n : p[i] = ":" => \E k \in 1 .. Len(ps) - 1 : e[k] = i
  BY <1>2 DEF SplitUpTo
<1>. DEFINE Halves(i, r) ==
              p[i] = ":" /\ IsSeqNumber(Piece(p, 0, i), r) /\ IsSeqNumber(Piece(p, i, n + 1), r)
<1>4. \A r : IsSequence(p, r) <=> IsSeqNumber(p, r) \/ \E i \in 1 .. n : Halves(i, r)
  BY <1>1 DEF IsSequence
<1>5. \A q : Reads(p, q) <=>
        \/ IsSeqNumber(p, "parser") /\ q = Single(Meant(p))
        \/ \E i \in 1 .. n : /\ Halves(i, "parser")
                            /\ q = Between(Meant(Piece(p, 0, i)), Meant(Piece(p, i, n + 1)))
  BY DEF Reads
<1>6. \A r : \A i \in 1 .. n : Halves(i, r) =>
        ~IsSeqNumber(p, r) /\ \A j \in 1 .. n : p[j] = ":" => j = i
  BY OneColon, NumbersAreWhole
<1>7. \A r : IsSeqNumber(p, r) => \A i \in 1 .. n : p[i] # ":"
  BY NumbersAreWhole
<1>. HIDE DEF Halves
<1>8. CASE Len(ps) = 1
  <2>1. \A i \in 1 .. n : p[i] # ":"
    <3>1. 1 .. Len(ps) - 1 = {}
      BY <1>8
    <3>. QED  BY <3>1, <1>3
  <2>2. \A r : \A i \in 1 .. n : ~Halves(i, r)
    BY <2>1 DEF Halves
  <2>3. SequenceFromStr(p) = {Single(a) : a \in SeqOrUidFromStr(p)}
    BY <1>8 DEF SequenceFromStr, ps
  <2>4. \A q : Reads(p, q) => IsSeqNumber(p, "parser") /\ q = Single(Meant(p))
    BY <2>2, <1>5
  <2>5. IsSequence(p, "FromStr") <=> IsSeqNumber(p, "FromStr")
    BY <2>2, <1>4
  <2>6. SequenceFromStr(p) # {} <=> SeqOrUidFromStr(p) # {}
    BY <2>3
  <2>7. \A x : SeqOrUidFromStr(p) = {x} => SequenceFromStr(p) = {Single(x)}
    BY <2>3
  <2>. QED  BY <2>4, <2>5, <2>6, <2>7, NumberFromStr
<1>9. CASE Len(ps) = 2
  <2>. DEFINE i == e[1]
              x == Piece(p, 0, i)
              y == Piece(p, i, n + 1)
  <2>1. i \in 1 .. n /\ p[i] = ":" /\ ps[1] = x /\ ps[2] = y
    <3>1. 1 \in 1 .. Len(ps) /\ 2 \in 1 .. Len(ps) /\ 1 - 1 = 0 /\ 2 - 1 = 1 /\ 1 \in 1 .. Len(ps) - 1 /\ 1 \in 0 .. Len(ps)
      BY <1>9
    <3>2. e[0] < e[1] /\ e[1] < e[2] /\ e[2] = n + 1 /\ e[1] \in 0 .. n + 1
      BY <3>1, <1>3, <1>9
    <3>. QED  BY <3>1, <3>2, <1>1, <1>3, <1>9
  <2>2. \A j \in 1 .. n : p[j] = ":" => j = i
    <3>1. \A k \in 1 .. Len(ps) - 1 : k = 1
      BY <1>9
    <3>. QED  BY <3>1, <1>3
  <2>3. x \in Text /\ y \in Text
    <3>1. 0 \in Nat /\ i \in Nat /\ n + 1 \in Nat /\ 0 < i /\ i < n + 1 /\ i <= n + 1 /\ n + 1 <= n + 1
      BY <2>1, <1>1
    <3>. QED  BY <3>1, PieceIs
  <2>4. \A r : ~IsSeqNumber(p, r)
    BY <2>1, <1>7
  <2>5. \A r : \A j \in 1 .. n : Halves(j, r) <=> j = i /\ IsSeqNumber(x, r) /\ IsSeqNumber(y, r)
    BY <2>1, <2>2 DEF Halves
  <2>6. SequenceFromStr(p) = {Between(a, b) : a \in SeqOrUidFromStr(x), b \in SeqOrUidFromStr(y)}
    BY <1>9, <2>1 DEF SequenceFromStr, ps
  <2>. HIDE DEF x, y, i
  <2>7. IsSequence(p, "FromStr") <=> IsSeqNumber(x, "FromStr") /\ IsSeqNumber(y, "FromStr")
    BY <2>1, <2>4, <2>5, <1>4
  <2>8. \A q : Reads(p, q) => /\ IsSeqNumber(x, "parser") /\ IsSeqNumber(y, "parser")
                             /\ q = Between(Meant(x), Meant(y))
    BY <2>1, <2>4, <2>5, <1>5 DEF x, y
  <2>9. SequenceFromStr(p) # {} <=> SeqOrUidFromStr(x) # {} /\ SeqOrUidFromStr(y) # {}
    <3>1. ASSUME NEW a \in SeqOrUidFromStr(x), NEW b \in SeqOrUidFromStr(y)
          PROVE  Between(a, b) \in SequenceFromStr(p)
      BY <2>6
    <3>2. ASSUME NEW q \in SequenceFromStr(p)
          PROVE  \E a \in SeqOrUidFromStr(x) : \E b \in SeqOrUidFromStr(y) : TRUE
      BY <2>6
    <3>. QED  BY <3>1, <3>2
  <2>10. \A a, b : SeqOrUidFromStr(x) = {a} /\ SeqOrUidFromStr(y) = {b} => SequenceFromStr(p) = {Between(a, b)}
    BY <2>6
  <2>11. /\ SeqOrUidFromStr(x) # {} <=> IsSeqNumber(x, "FromStr")
         /\ SeqOrUidFromStr(y) # {} <=> IsSeqNumber(y, "FromStr")
    BY <2>3, NumberFromStr
  <2>12. ASSUME NEW q, IsSequence(p, "FromStr"), Reads(p, q) PROVE SequenceFromStr(p) = {q}
    <3>1. /\ IsSeqNumber(x, "FromStr") /\ IsSeqNumber(x, "parser")
          /\ IsSeqNumber(y, "FromStr") /\ IsSeqNumber(y, "parser")
          /\ q = Between(Meant(x), Meant(y))
      BY <2>12, <2>7, <2>8
    <3>2. SeqOrUidFromStr(x) = {Meant(x)} /\ SeqOrUidFromStr(y) = {Meant(y)}
      BY <3>1, <2>3, NumberFromStr
    <3>. QED  BY <3>1, <3>2, <2>10
  <2>. QED  BY <2>7, <2>9, <2>11, <2>12
<1>10. CASE Len(ps) # 1 /\ Len(ps) # 2
  <2>1. \E i, j \in 1 .. n : i # j /\ p[i] = ":" /\ p[j] = ":"
    <3>1. /\ Len(ps) > 2 /\ 1 \in 1 .. Len(ps) - 1 /\ 2 \in 1 .. Len(ps) - 1
          /\ 1 \in 1 .. Len(ps) /\ 2 \in 1 .. Len(ps) /\ 3 \in 1 .. Len(ps)
          /\ 1 - 1 = 0 /\ 2 - 1 = 1 /\ 3 - 1 = 2
      <4>1. Len(ps) \in Nat /\ Len(ps) > 0 /\ Len(ps) # 1 /\ Len(ps) # 2
        BY <1>3, <1>10
      <4>2. Len(ps) > 2
        <5>1. \A l \in Nat : l > 0 /\ l # 1 /\ l # 2 => l > 2
          OBVIOUS
        <5>. QED  BY <4>1, <5>1, Zenon
      <4>. QED  BY <4>1, <4>2
    <3>2. e[0] < e[1] /\ e[1] < e[2] /\ e[2] < e[3]
      BY <3>1, <1>3
    <3>3. e[1] \in 0 .. n + 1 /\ e[2] \in 0 .. n + 1 /\ e[3] \in 0 .. n + 1
      <4>1. 1 \in 0 .. Len(ps) /\ 2 \in 0 .. Len(ps) /\ 3 \in 0 .. Len(ps)
        BY <3>1
      <4>. QED  BY <4>1, <1>3
    <3>4. e[1] \in 1 .. n /\ e[2] \in 1 .. n /\ e[1] # e[2]
      BY <3>2, <3>3, <1>1, <1>3
    <3>. QED  BY <3>1, <3>4, <1>3
  <2>2. \A r : ~IsSeqNumber(p, r) /\ \A i \in 1 .. n : ~Halves(i, r)
    BY <2>1, <1>6, <1>7
  <2>3. SequenceFromStr(p) = {}
    BY <1>10 DEF SequenceFromStr, ps
  <2>. QED  BY <2>2, <2>3, <1>4, <1>5
<1>. QED  BY <1>8, <1>9, <1>10

-----------------------------------------------------------------------------
(* Numbers and sequences, as the parser reads them.                        *)

\* The character at a position, and the end.
LEMMA AtIs ==
  ASSUME NEW t \in Text, NEW i \in Nat
  PROVE  /\ i \in 1 .. Len(t) => At(t, i) = t[i]
         /\ i \notin 1 .. Len(t) => At(t, i) = "end"
         /\ At(t, i) = "," <=> i \in 1 .. Len(t) /\ t[i] = ","
         /\ At(t, i) = ":" <=> i \in 1 .. Len(t) /\ t[i] = ":"
         /\ At(t, i) = "*" <=> i \in 1 .. Len(t) /\ t[i] = "*"
<1>1. DOMAIN t = 1 .. Len(t)
  BY LenProperties DEF Text
<1>. QED  BY <1>1 DEF At

\* The first character of a piece, and a piece of one character.
LEMMA PieceBegins ==
  ASSUME NEW t \in Text, NEW a \in Nat, NEW b \in Nat, a + 1 < b, b <= Len(t) + 1
  PROVE  /\ Piece(t, a, b) \in Text /\ Piece(t, a, b) # <<>>
         /\ Piece(t, a, b)[1] = t[a + 1] /\ a + 1 \in 1 .. Len(t)
         /\ DOMAIN Piece(t, a, b) = 1 .. b - a - 1
         /\ \A i \in 1 .. b - a - 1 : Piece(t, a, b)[i] = t[a + i]
         /\ Piece(t, a, b) = <<"*">> <=> b = a + 2 /\ t[a + 1] = "*"
<1>. DEFINE p == Piece(t, a, b)
            n == b - a - 1
<1>1. Len(t) \in Nat /\ a < b /\ n \in Nat /\ n > 0 /\ 1 \in 1 .. n /\ a + 1 \in 1 .. Len(t)
  BY LenProperties DEF Text
<1>2. p \in Text /\ Len(p) = n /\ DOMAIN p = 1 .. n /\ \A i \in 1 .. n : p[i] = t[a + i]
  BY <1>1, PieceIs
<1>3. n = 1 <=> b = a + 2
  OBVIOUS
<1>. HIDE DEF p, n
<1>4. p[1] = t[a + 1] /\ p # <<>>
  BY <1>1, <1>2, EmptySeq
<1>5. p = <<"*">> <=> n = 1 /\ p[1] = "*"
  <2>1. p = <<"*">> => n = 1 /\ p[1] = "*"
    BY <1>2
  <2>2. ASSUME n = 1, p[1] = "*" PROVE p = <<"*">>
    <3>. DEFINE s == <<"*">>
    <3>0. "*" \in Characters
      BY DEF Characters
    <3>1. s \in Text /\ Len(s) = 1 /\ s[1] = "*"
      BY <3>0 DEF Text
    <3>. HIDE DEF s
    <3>2. \A i \in 1 .. Len(p) : p[i] = s[i]
      <4>1. \A i \in 1 .. Len(p) : i = 1
        BY <1>2, <2>2
      <4>. QED  BY <4>1, <3>1, <2>2
    <3>3. p = s
      BY <3>1, <3>2, <1>2, <2>2, SameText
    <3>. QED  BY <3>3 DEF s
  <2>. QED  BY <2>1, <2>2
<1>. QED  BY <1>1, <1>2, <1>3, <1>4, <1>5 DEF p, n

\* The number behind a position ends where the digits end.
EndsAt(t, a, b) == b \in a + 1 + 1 .. Len(t) + 1 /\ AllDigits(Piece(t, a, b)) /\ At(t, b) \notin DOMAIN Digit

\* There is only one place where the digits end.
LEMMA OneEnd ==
  ASSUME NEW t \in Text, NEW a \in Nat, NEW b, NEW c, EndsAt(t, a, b), EndsAt(t, a, c)
  PROVE  b = c
<1>1. Len(t) \in Nat
  BY LenProperties DEF Text
<1>2. ASSUME NEW i, NEW j, EndsAt(t, a, i), EndsAt(t, a, j), i < j PROVE FALSE
  <2>1. /\ i \in Nat /\ j \in Nat /\ a + 1 < i /\ a + 1 < j /\ j <= Len(t) + 1 /\ i \in 1 .. Len(t)
        /\ i - a \in 1 .. j - a - 1 /\ a + (i - a) = i
    BY <1>1, <1>2 DEF EndsAt
  <2>2. DOMAIN Piece(t, a, j) = 1 .. j - a - 1 /\ \A k \in 1 .. j - a - 1 : Piece(t, a, j)[k] = t[a + k]
    BY <2>1, PieceBegins
  <2>3. Piece(t, a, j)[i - a] = t[i] /\ i - a \in DOMAIN Piece(t, a, j)
    BY <2>1, <2>2
  <2>4. t[i] \in DOMAIN Digit
    BY <2>3, <1>2 DEF EndsAt, AllDigits
  <2>5. At(t, i) = t[i]
    BY <2>1, AtIs
  <2>. QED  BY <2>4, <2>5, <1>2 DEF EndsAt
<1>3. b \in Nat /\ c \in Nat
  BY <1>1 DEF EndsAt
<1>. QED  BY <1>2, <1>3

\* The numbers that nz_number finds.
LEMMA NumbersAt ==
  ASSUME NEW t \in Text, NEW a \in Nat, NEW q
  PROVE  q \in nz_number(t, a + 1)
           <=> \E b : EndsAt(t, a, b) /\ q = <<NumberOf(Piece(t, a, b)), b>> /\ NumberOf(Piece(t, a, b)) \in NonZero
<1>. DEFINE Ends == {k \in a + 1 + 1 .. Len(t) + 1 : AllDigits(Piece(t, a, k)) /\ At(t, k) \notin DOMAIN Digit}
<1>1. nz_number(t, a + 1) = {n \in {<<NumberOf(Piece(t, a, j)), j>> : j \in Ends} : n[1] \in NonZero}
  BY DEF nz_number, Piece
<1>2. \A b : b \in Ends <=> EndsAt(t, a, b)
  BY DEF EndsAt
<1>. HIDE DEF Ends
<1>3. q \in nz_number(t, a + 1) <=> \E b \in Ends : q = <<NumberOf(Piece(t, a, b)), b>> /\ q[1] \in NonZero
  BY <1>1
<1>4. \A b : q = <<NumberOf(Piece(t, a, b)), b>> => q[1] = NumberOf(Piece(t, a, b))
  OBVIOUS
<1>. QED  BY <1>2, <1>3, <1>4

\* The parser takes a number of its syntax as it is meant.
LEMMA NumberIsTaken ==
  ASSUME NEW t \in Text, NEW a \in Nat, NEW b \in Nat, a < b, b <= Len(t) + 1,
         At(t, b) \notin DOMAIN Digit, IsSeqNumber(Piece(t, a, b), "parser")
  PROVE  seq_number(t, a + 1) = {<<Meant(Piece(t, a, b)), b>>}
<1>. DEFINE p == Piece(t, a, b)
<1>1. p \in Text /\ Len(p) = b - a - 1 /\ Len(t) \in Nat
  BY PieceIs, LenProperties DEF Text
<1>2. Len(p) > 0
  BY <1>1, NumbersAreWhole
<1>3. a + 1 < b /\ a + 1 \in Nat /\ b \in a + 1 + 1 .. Len(t) + 1
  BY <1>1, <1>2
<1>4. /\ p # <<>> /\ p[1] = t[a + 1] /\ a + 1 \in 1 .. Len(t) /\ 1 \in DOMAIN p
      /\ (p = <<"*">> <=> b = a + 2 /\ t[a + 1] = "*")
  <2>1. 1 \in 1 .. b - a - 1
    BY <1>3
  <2>. QED  BY <2>1, <1>3, PieceBegins
<1>5. At(t, a + 1) = t[a + 1]
  BY <1>3, <1>4, AtIs
<1>6. CASE p = <<"*">>
  <2>1. At(t, a + 1) = "*" /\ b = a + 1 + 1 /\ Meant(p) = Asterisk
    BY <1>4, <1>5, <1>6 DEF Meant
  <2>. QED  BY <2>1 DEF seq_number
<1>7. CASE p # <<"*">>
  <2>. HIDE DEF p
  <2>1. AllDigits(p) /\ NumberOf(p) \in NonZero /\ Meant(p) = NumberOf(p)
    BY <1>7 DEF IsSeqNumber, IsNumber, Meant, p
  <2>2. At(t, a + 1) # "*"
    <3>1. p[1] \in DOMAIN Digit
      BY <2>1, <1>4 DEF AllDigits
    <3>. QED  BY <3>1, <1>4, <1>5, DigitsAre
  <2>3. EndsAt(t, a, b)
    BY <2>1, <1>3 DEF EndsAt, p
  <2>4. \A c : EndsAt(t, a, c) => c = b
    BY <2>3, OneEnd
  <2>5. \A q : q \in nz_number(t, a + 1) <=> q = <<NumberOf(p), b>>
    BY <2>1, <2>3, <2>4, NumbersAt DEF p
  <2>6. nz_number(t, a + 1) = {<<NumberOf(p), b>>}
    BY <2>5
  <2>. QED  BY <2>1, <2>2, <2>6 DEF seq_number, p
<1>. QED  BY <1>6, <1>7

\* The parser takes nothing but numbers of its syntax.
LEMMA TakenIsNumber ==
  ASSUME NEW t \in Text, NEW a \in Nat, NEW q \in seq_number(t, a + 1)
  PROVE  \E b \in a + 2 .. Len(t) + 1 :
           q = <<Meant(Piece(t, a, b)), b>> /\ IsSeqNumber(Piece(t, a, b), "parser")
<1>1. Len(t) \in Nat /\ a + 1 \in Nat /\ a + 1 + 1 = a + 2
  BY LenProperties DEF Text
<1>2. CASE At(t, a + 1) = "*"
  <2>1. a + 1 \in 1 .. Len(t) /\ t[a + 1] = "*"
    BY <1>1, <1>2, AtIs
  <2>. DEFINE b == a + 2
  <2>2. b \in a + 2 .. Len(t) + 1 /\ b \in Nat /\ a + 1 < b /\ b <= Len(t) + 1
    BY <2>1, <1>1
  <2>3. Piece(t, a, b) = <<"*">>
    <3>1. b = a + 2
      OBVIOUS
    <3>. HIDE DEF b
    <3>. QED  BY <3>1, <2>1, <2>2, PieceBegins
  <2>4. q = <<Asterisk, b>>
    BY <1>1, <1>2 DEF seq_number
  <2>5. Meant(Piece(t, a, b)) = Asterisk /\ IsSeqNumber(Piece(t, a, b), "parser")
    BY <2>3 DEF Meant, IsSeqNumber
  <2>. QED  BY <2>2, <2>4, <2>5
<1>3. CASE At(t, a + 1) # "*"
  <2>1. q \in nz_number(t, a + 1)
    BY <1>3 DEF seq_number
  <2>2. PICK b : EndsAt(t, a, b) /\ q = <<NumberOf(Piece(t, a, b)), b>> /\ NumberOf(Piece(t, a, b)) \in NonZero
    BY <2>1, NumbersAt
  <2>. DEFINE p == Piece(t, a, b)
  <2>3. b \in a + 2 .. Len(t) + 1 /\ b \in Nat /\ a + 1 < b /\ b <= Len(t) + 1 /\ AllDigits(p)
    BY <2>2, <1>1 DEF EndsAt
  <2>4. p # <<>> /\ p[1] = t[a + 1] /\ a + 1 \in 1 .. Len(t) /\ (p = <<"*">> => t[a + 1] = "*")
    BY <2>3, PieceBegins
  <2>5. p # <<"*">>
    BY <2>4, <1>1, <1>3, AtIs
  <2>6. IsSeqNumber(p, "parser") /\ Meant(p) = NumberOf(p)
    BY <2>2, <2>3, <2>4, <2>5 DEF IsSeqNumber, IsNumber, Meant
  <2>. QED  BY <2>2, <2>3, <2>6
<1>. QED  BY <1>2, <1>3

\* What the results of a single number and of a range are made of.
LEMMA ResultsAt ==
  ASSUME NEW t, NEW i, NEW r
  PROVE  /\ r \in SingleAt(t, i) <=> \E n \in seq_number(t, i) : r = <<Single(n[1]), n[2]>>
         /\ r \in seq_range(t, i) <=>
              \E from \in seq_number(t, i) : At(t, from[2]) = ":"
                /\ \E to \in seq_number(t, from[2] + 1) : r = <<Between(from[1], to[1]), to[2]>>
<1>1. r \in SingleAt(t, i) <=> \E n \in seq_number(t, i) : r = <<Single(n[1]), n[2]>>
  BY Zenon DEF SingleAt
<1>. DEFINE Starts == {n \in seq_number(t, i) : At(t, n[2]) = ":"}
            From(from) == {<<Between(from[1], to[1]), to[2]>> : to \in seq_number(t, from[2] + 1)}
<1>2. r \in seq_range(t, i) <=> \E from \in Starts : r \in From(from)
  BY Zenon DEF seq_range
<1>3. \A from : r \in From(from)
        <=> \E to \in seq_number(t, from[2] + 1) : r = <<Between(from[1], to[1]), to[2]>>
  BY Zenon
<1>4. \A from : from \in Starts <=> from \in seq_number(t, i) /\ At(t, from[2]) = ":"
  OBVIOUS
<1>. HIDE DEF Starts, From
<1>. QED  BY <1>1, <1>2, <1>3, <1>4, Zenon

\* A piece of a piece, by the positions in the text.
LEMMA PieceThere ==
  ASSUME NEW t \in Text, NEW a \in Nat, NEW b \in Nat, a < b, b <= Len(t) + 1,
         NEW i \in Nat, NEW j \in Nat, i < j, NEW c, NEW d, c = a + i, d = a + j, d <= b
  PROVE  Piece(Piece(t, a, b), i, j) = Piece(t, c, d)
<1>1. j <= b - a
  OBVIOUS
<1>. QED  BY <1>1, PieceInside

\* The parser takes a sequence as it is meant, where a comma or the end follows.
LEMMA SequenceIsTaken ==
  ASSUME NEW t \in Text, NEW a \in Nat, NEW b \in Nat, a < b, b <= Len(t) + 1
  PROVE  \A q : At(t, b) \in {",", "end"} /\ Reads(Piece(t, a, b), q) => SequenceAt(t, a + 1) = {<<q, b>>}
<1>. DEFINE p == Piece(t, a, b)
            n == b - a - 1
            Follows == At(t, b) \in {",", "end"}
<1>1. Follows => At(t, b) \notin DOMAIN Digit /\ At(t, b) # ":"
  BY DigitsAre
<1>2. p \in Text /\ Len(p) = n /\ \A i \in 1 .. n : p[i] = t[a + i]
  BY PieceIs
<1>3. Len(t) \in Nat /\ n \in Nat
  BY LenProperties DEF Text
<1>. HIDE DEF p, n, Follows
<1>4. ASSUME Follows, NEW q, IsSeqNumber(p, "parser"), q = Single(Meant(p))
      PROVE  SequenceAt(t, a + 1) = {<<q, b>>}
  <2>. DEFINE v == Meant(p)
  <2>1. seq_number(t, a + 1) = {<<v, b>>}
    BY <1>1, <1>4, NumberIsTaken DEF p
  <2>. HIDE DEF v
  <2>2. seq_range(t, a + 1) = {}
    <3>1. \A k \in seq_number(t, a + 1) : At(t, k[2]) # ":"
      BY <2>1, <1>1, <1>4
    <3>. QED  BY <3>1, ResultsAt, Zenon
  <2>3. SingleAt(t, a + 1) = {<<Single(v), b>>}
    <3>1. \A r : r \in SingleAt(t, a + 1) <=> r = <<Single(v), b>>
      <4>1. <<v, b>>[1] = v /\ <<v, b>>[2] = b
        OBVIOUS
      <4>2. ASSUME NEW r, r \in SingleAt(t, a + 1) PROVE r = <<Single(v), b>>
        <5>1. PICK n1 \in seq_number(t, a + 1) : r = <<Single(n1[1]), n1[2]>>
          BY <4>2, ResultsAt
        <5>. QED  BY <5>1, <4>1, <2>1
      <4>3. <<Single(v), b>> \in SingleAt(t, a + 1)
        <5>. DEFINE o == <<v, b>>
        <5>1. o \in seq_number(t, a + 1) /\ o[1] = v /\ o[2] = b
          BY <2>1
        <5>. HIDE DEF o
        <5>. QED  BY <5>1, ResultsAt
      <4>. QED  BY <4>2, <4>3
    <3>. QED  BY <3>1, Zenon
  <2>. QED  BY <2>2, <2>3, <1>4 DEF SequenceAt, v
<1>5. ASSUME Follows, NEW i \in 1 .. n, p[i] = ":", NEW q,
             IsSeqNumber(Piece(p, 0, i), "parser"), IsSeqNumber(Piece(p, i, n + 1), "parser"),
             q = Between(Meant(Piece(p, 0, i)), Meant(Piece(p, i, n + 1)))
      PROVE  SequenceAt(t, a + 1) = {<<q, b>>}
  <2>. DEFINE c == a + i
              m == n + 1
              x == Piece(t, a, c)
              y == Piece(t, c, b)
  <2>1. /\ c \in Nat /\ a < c /\ c < b /\ c <= Len(t) + 1 /\ c \in 1 .. Len(t) /\ c + 1 \in Nat
        /\ i \in Nat /\ m \in Nat /\ 0 \in Nat /\ 0 < i /\ i < m /\ c <= b /\ a + m = b
        /\ a + 0 = a /\ a + i = c
    BY <1>3 DEF n
  <2>2. t[c] = ":"
    BY <1>2, <1>5
  <2>3. x = Piece(p, 0, i)
    BY <2>1, PieceThere DEF p
  <2>4. y = Piece(p, i, m)
    BY <2>1, PieceThere DEF p
  <2>5. IsSeqNumber(x, "parser") /\ IsSeqNumber(y, "parser") /\ q = Between(Meant(x), Meant(y))
    BY <2>3, <2>4, <1>5 DEF m
  <2>. HIDE DEF c, m
  <2>6. At(t, c) = ":" /\ At(t, c) \notin DOMAIN Digit
    BY <2>1, <2>2, AtIs, DigitsAre
  <2>. DEFINE v == Meant(x)
              w == Meant(y)
  <2>7. seq_number(t, a + 1) = {<<v, c>>}
    BY <2>1, <2>5, <2>6, NumberIsTaken
  <2>8. seq_number(t, c + 1) = {<<w, b>>}
    BY <2>1, <2>5, <1>1, <1>5, NumberIsTaken
  <2>. HIDE DEF v, w
  <2>10. seq_range(t, a + 1) = {<<Between(v, w), b>>}
    <3>1. \A r : r \in seq_range(t, a + 1) <=> r = <<Between(v, w), b>>
      <4>1. <<v, c>>[1] = v /\ <<v, c>>[2] = c /\ <<w, b>>[1] = w /\ <<w, b>>[2] = b
        OBVIOUS
      <4>2. ASSUME NEW r, r \in seq_range(t, a + 1) PROVE r = <<Between(v, w), b>>
        <5>1. PICK from \in seq_number(t, a + 1) :
                \E to \in seq_number(t, from[2] + 1) : r = <<Between(from[1], to[1]), to[2]>>
          BY <4>2, ResultsAt
        <5>2. from = <<v, c>>
          BY <5>1, <2>7
        <5>3. from[1] = v /\ from[2] = c
          BY <5>2
        <5>4. PICK to \in seq_number(t, c + 1) : r = <<Between(v, to[1]), to[2]>>
          BY <5>1, <5>3
        <5>5. to = <<w, b>>
          BY <5>4, <2>8
        <5>6. to[1] = w /\ to[2] = b
          BY <5>5
        <5>. QED  BY <5>4, <5>6
      <4>3. <<Between(v, w), b>> \in seq_range(t, a + 1)
        <5>. DEFINE from == <<v, c>>
                    to == <<w, b>>
        <5>1. from \in seq_number(t, a + 1) /\ from[1] = v /\ from[2] = c
          BY <2>7
        <5>2. to \in seq_number(t, c + 1) /\ to[1] = w /\ to[2] = b
          BY <2>8
        <5>. HIDE DEF from, to
        <5>3. At(t, from[2]) = ":" /\ to \in seq_number(t, from[2] + 1)
              /\ <<Between(v, w), b>> = <<Between(from[1], to[1]), to[2]>>
          BY <5>1, <5>2, <2>6
        <5>. QED  BY <5>1, <5>3, ResultsAt, Zenon
      <4>. QED  BY <4>2, <4>3
    <3>. QED  BY <3>1, Zenon
  <2>11. q = Between(v, w)
    BY <2>5 DEF v, w
  <2>. QED  BY <2>10, <2>11 DEF SequenceAt
<1>6. ASSUME NEW q, Follows, Reads(p, q) PROVE SequenceAt(t, a + 1) = {<<q, b>>}
  BY <1>2, <1>4, <1>5, <1>6 DEF Reads
<1>7. SUFFICES ASSUME NEW q, At(t, b) \in {",", "end"} /\ Reads(Piece(t, a, b), q)
               PROVE  SequenceAt(t, a + 1) = {<<q, b>>}
  OBVIOUS
<1>8. Follows
  BY <1>7 DEF Follows
<1>9. Reads(p, q)
  BY <1>7 DEF p
<1>. QED  BY <1>6, <1>8, <1>9

\* The parser takes nothing but sequences, and no comma in them.
LEMMA TakenIsSequence ==
  ASSUME NEW t \in Text, NEW a \in Nat, NEW r \in SequenceAt(t, a + 1)
  PROVE  \E b \in a + 2 .. Len(t) + 1 :
           /\ r[2] = b /\ Reads(Piece(t, a, b), r[1])
           /\ \A i \in a + 1 .. b - 1 : t[i] # ","
<1>. DEFINE N(x, y) == Piece(t, x, y)
            Whole(x, y) == N(x, y) \in Text /\ Len(N(x, y)) = y - x - 1
                           /\ \A i \in x + 1 .. y - 1 : t[i] # "," /\ N(x, y)[i - x] = t[i]
<1>1. Len(t) \in Nat
  BY LenProperties DEF Text
<1>2. ASSUME NEW x \in Nat, NEW y \in x + 2 .. Len(t) + 1, IsSeqNumber(N(x, y), "parser")
      PROVE  Whole(x, y)
  <2>. DEFINE p == Piece(t, x, y)
  <2>1. y \in Nat /\ x < y /\ y <= Len(t) + 1
    BY <1>1, <1>2
  <2>2. p \in Text /\ Len(p) = y - x - 1 /\ \A i \in 1 .. y - x - 1 : p[i] = t[x + i]
    BY <2>1, PieceIs
  <2>3. \A i \in 1 .. Len(p) : p[i] # ","
    BY <2>2, <1>2, NumbersAreWhole
  <2>. HIDE DEF p
  <2>4. ASSUME NEW i \in x + 1 .. y - 1 PROVE t[i] # "," /\ p[i - x] = t[i]
    <3>1. i - x \in 1 .. y - x - 1 /\ x + (i - x) = i /\ i - x \in 1 .. Len(p)
      BY <2>1, <2>2
    <3>. QED  BY <3>1, <2>2, <2>3
  <2>. QED  BY <2>2, <2>4 DEF p
<1>. HIDE DEF N
<1>3. CASE r \in SingleAt(t, a + 1)
  <2>1. PICK q \in seq_number(t, a + 1) : r = <<Single(q[1]), q[2]>>
    BY <1>3 DEF SingleAt
  <2>2. PICK b \in a + 2 .. Len(t) + 1 : q = <<Meant(Piece(t, a, b)), b>> /\ IsSeqNumber(Piece(t, a, b), "parser")
    BY TakenIsNumber
  <2>3. r[1] = Single(Meant(Piece(t, a, b))) /\ r[2] = b
    BY <2>1, <2>2
  <2>4. Whole(a, b)
    BY <2>2, <1>2 DEF N
  <2>5. Reads(Piece(t, a, b), r[1])
    BY <2>2, <2>3 DEF Reads
  <2>. QED  BY <2>3, <2>4, <2>5
<1>4. CASE r \in seq_range(t, a + 1)
  <2>0. PICK from \in seq_number(t, a + 1) : \E to \in seq_number(t, from[2] + 1) :
              At(t, from[2]) = ":" /\ r = <<Between(from[1], to[1]), to[2]>>
    BY <1>4 DEF seq_range
  <2>1. PICK to \in seq_number(t, from[2] + 1) :
              At(t, from[2]) = ":" /\ r = <<Between(from[1], to[1]), to[2]>>
    BY <2>0
  <2>2. PICK c \in a + 2 .. Len(t) + 1 : from = <<Meant(Piece(t, a, c)), c>> /\ IsSeqNumber(Piece(t, a, c), "parser")
    BY TakenIsNumber
  <2>3. from[2] = c /\ from[1] = Meant(Piece(t, a, c)) /\ c \in Nat
    BY <2>2, <1>1
  <2>4. to \in seq_number(t, c + 1)
    BY <2>1, <2>3
  <2>5. PICK b \in c + 2 .. Len(t) + 1 : to = <<Meant(Piece(t, c, b)), b>> /\ IsSeqNumber(Piece(t, c, b), "parser")
    BY <2>3, <2>4, TakenIsNumber
  <2>6. r[1] = Between(Meant(Piece(t, a, c)), Meant(Piece(t, c, b))) /\ r[2] = b
    BY <2>1, <2>3, <2>5
  <2>7. At(t, c) = ":" /\ c \in 1 .. Len(t) /\ t[c] = ":"
    BY <2>1, <2>3, AtIs
  <2>8. Whole(a, c) /\ Whole(c, b)
    BY <2>2, <2>3, <2>5, <1>2 DEF N
  <2>9. b \in Nat /\ a < b /\ b <= Len(t) + 1 /\ a < c /\ c < b /\ b \in a + 2 .. Len(t) + 1
    BY <2>3, <1>1
  <2>10. \A i \in a + 1 .. b - 1 : t[i] # ","
    <3>1. \A i \in a + 1 .. b - 1 : i \in a + 1 .. c - 1 \/ i = c \/ i \in c + 1 .. b - 1
      BY <2>3, <2>9
    <3>. QED  BY <3>1, <2>7, <2>8
  <2>. DEFINE p == Piece(t, a, b)
              n == b - a - 1
              i == c - a
  <2>11. p \in Text /\ Len(p) = n /\ \A k \in 1 .. n : p[k] = t[a + k]
    BY <2>9, PieceIs
  <2>12. i \in 1 .. n /\ i \in Nat /\ 0 < i /\ i <= b - a /\ a + i = c /\ a + 0 = a /\ n + 1 \in Nat /\ i < n + 1
         /\ n + 1 <= b - a /\ a + (n + 1) = b
    BY <2>3, <2>9
  <2>. HIDE DEF p, n, i
  <2>13. p[i] = ":"
    BY <2>7, <2>11, <2>12
  <2>14. Piece(p, 0, i) = Piece(t, a, c)
    <3>1. 0 \in Nat /\ a = a + 0 /\ c = a + i /\ c <= b /\ c \in Nat
      BY <2>3, <2>9, <2>12
    <3>. QED  BY <2>9, <2>12, <3>1, PieceThere DEF p
  <2>15. Piece(p, i, n + 1) = Piece(t, c, b)
    <3>. DEFINE m == n + 1
    <3>1. m \in Nat /\ i < m /\ b = a + m /\ c = a + i /\ b <= b
      BY <2>9, <2>12
    <3>. HIDE DEF m
    <3>2. Piece(p, i, m) = Piece(t, c, b)
      BY <2>9, <2>12, <3>1, PieceThere DEF p
    <3>. QED  BY <3>2 DEF m
  <2>16. Reads(p, r[1])
    BY <2>2, <2>5, <2>6, <2>11, <2>12, <2>13, <2>14, <2>15 DEF Reads
  <2>. QED  BY <2>6, <2>9, <2>10, <2>16 DEF p
<1>. QED  BY <1>3, <1>4 DEF SequenceAt

-----------------------------------------------------------------------------
(* Sets of sequences.                                                      *)

\* The l pieces of a text of n characters between its commas, and where each of
\* them ends.
Pieces(t, n, l, ps, e) == n = Len(t) /\ l = Len(ps) /\ SplitUpTo(t, n, ",", ps, e)

\* How many pieces there are, and where the first begins and the last ends.
LEMMA PiecesAre ==
  ASSUME NEW t \in Text, NEW n, NEW l, NEW ps, NEW e, Pieces(t, n, l, ps, e)
  PROVE  /\ n \in Nat /\ l \in Nat /\ l > 0 /\ l <= n + 1
         /\ DOMAIN ps = 1 .. l /\ DOMAIN t = 1 .. n /\ Len(t) = n /\ Len(ps) = l
         /\ e[0] = 0 /\ e[l] = n + 1
<1>1. n \in Nat /\ DOMAIN t = 1 .. n /\ Len(t) = n
  BY LenProperties DEF Pieces, Text
<1>2. /\ l \in 1 .. n + 1 /\ ps \in Seq(Text) /\ Len(ps) = l
      /\ e[0] = 0 /\ e[l] = n + 1
  BY DEF Pieces, SplitUpTo
<1>3. DOMAIN ps = 1 .. l
  BY <1>2, LenProperties
<1>4. \A y \in Nat : \A x \in 1 .. y + 1 : x \in Nat /\ x > 0 /\ x <= y + 1
  OBVIOUS
<1>5. l \in 1 .. n + 1
  BY <1>2, Zenon
<1>6. l \in Nat /\ l > 0 /\ l <= n + 1
  BY <1>1, <1>4, <1>5, Zenon
<1>. QED  BY <1>1, <1>2, <1>3, <1>6, Zenon

\* Where a piece ends.
LEMMA PieceEnd ==
  ASSUME NEW t \in Text, NEW n, NEW l, NEW ps, NEW e, Pieces(t, n, l, ps, e),
         NEW k \in Nat, k <= l
  PROVE  e[k] \in Nat /\ e[k] <= n + 1
<1>1. n \in Nat /\ l \in Nat
  BY PiecesAre
<1>2. e \in [0 .. l -> 0 .. n + 1]
  BY DEF Pieces, SplitUpTo
<1>3. k \in 0 .. l
  BY <1>1
<1>4. e[k] \in 0 .. n + 1
  BY <1>2, <1>3
<1>. QED  BY <1>1, <1>4

\* The piece of a text behind the piece j.
LEMMA PieceK ==
  ASSUME NEW t \in Text, NEW n, NEW l, NEW ps, NEW e, Pieces(t, n, l, ps, e),
         NEW j \in Nat, j < l, NEW k, k = j + 1
  PROVE  /\ k \in 1 .. l /\ e[j] \in Nat /\ e[k] \in Nat /\ e[j] < e[k] /\ e[k] <= n + 1
         /\ ps[k] = Piece(t, e[j], e[k]) /\ ps[k] \in Text
<1>1. n \in Nat /\ l \in Nat
  BY PiecesAre
<1>2. k \in 1 .. l /\ k \in Nat /\ k <= l /\ j <= l /\ k - 1 = j
  BY <1>1
<1>3. e[j] \in Nat
  BY <1>2, PieceEnd
<1>4. e[k] \in Nat /\ e[k] <= n + 1
  BY <1>2, PieceEnd
<1>5. ps \in Seq(Text) /\ Len(ps) = l /\ \A x \in 1 .. l : e[x - 1] < e[x] /\ ps[x] = Piece(t, e[x - 1], e[x])
  BY DEF Pieces, SplitUpTo
<1>6. e[k - 1] < e[k] /\ ps[k] = Piece(t, e[k - 1], e[k])
  BY <1>2, <1>5
<1>7. ps[k] \in Text
  BY <1>2, <1>5, ElementOfSeq
<1>. QED  BY <1>2, <1>3, <1>4, <1>6, <1>7

\* There is no comma in it.
LEMMA NoCommaInside ==
  ASSUME NEW t \in Text, NEW n, NEW l, NEW ps, NEW e, Pieces(t, n, l, ps, e),
         NEW j \in Nat, j < l, NEW k, k = j + 1, NEW i \in Nat, e[j] < i, i < e[k]
  PROVE  i \in 1 .. n /\ t[i] # ","
<1>1. n \in Nat /\ l \in Nat /\ k \in 1 .. l /\ e[j] \in Nat /\ e[k] \in Nat /\ e[k] <= n + 1
  BY PiecesAre, PieceK
<1>2. i \in 1 .. n /\ k - 1 = j
  BY <1>1
<1>3. \A x \in 1 .. l : \A y \in 1 .. n : e[x - 1] < y /\ y < e[x] => t[y] # ","
  BY DEF Pieces, SplitUpTo
<1>. QED  BY <1>1, <1>2, <1>3

\* A comma or the end is behind it.
LEMMA CommaBehind ==
  ASSUME NEW t \in Text, NEW n, NEW l, NEW ps, NEW e, Pieces(t, n, l, ps, e),
         NEW k \in 1 .. l
  PROVE  /\ k < l => e[k] \in 1 .. n /\ t[e[k]] = "," /\ e[k] # n + 1 /\ At(t, e[k]) = ","
         /\ At(t, e[k]) \in {",", "end"}
<1>1. n \in Nat /\ l \in Nat /\ e[l] = n + 1 /\ Len(t) = n
  BY PiecesAre
<1>2. CASE k < l
  <2>. DEFINE m == k + 1
              j == k - 1
  <2>1. j \in Nat /\ j < l /\ k = j + 1 /\ k \in Nat /\ m = k + 1
    BY <1>1, <1>2
  <2>. HIDE DEF m, j
  <2>2. e[j] \in Nat /\ e[k] \in Nat /\ e[j] < e[k]
    BY <2>1, PieceK
  <2>3. e[m] \in Nat /\ e[k] < e[m] /\ e[m] <= n + 1
    BY <2>1, <1>2, PieceK
  <2>4. e[k] \in 1 .. n /\ e[k] # n + 1
    BY <2>2, <2>3, <1>1
  <2>5. t[e[k]] = ","
    <3>1. k \in 1 .. l - 1
      BY <1>1, <1>2
    <3>2. \A x \in 1 .. l - 1 : t[e[x]] = ","
      BY DEF Pieces, SplitUpTo
    <3>. QED  BY <3>1, <3>2
  <2>6. At(t, e[k]) = ","
    BY <2>2, <2>4, <2>5, <1>1, AtIs
  <2>. QED  BY <2>4, <2>5, <2>6
<1>3. CASE ~(k < l)
  <2>1. k = l
    BY <1>1, <1>3
  <2>2. n + 1 \in Nat /\ n + 1 \notin 1 .. n
    BY <1>1
  <2>3. At(t, n + 1) = "end"
    <3>. DEFINE x == n + 1
    <3>1. x \in Nat /\ x \notin 1 .. Len(t)
      BY <2>2, <1>1
    <3>. HIDE DEF x
    <3>2. At(t, x) = "end"
      BY <3>1, AtIs
    <3>. QED  BY <3>2 DEF x
  <2>. QED  BY <2>1, <2>3, <1>1, <1>3
<1>. QED  BY <1>2, <1>3

\* The ends of the pieces are the commas of the text and its end.
LEMMA CommasAre ==
  ASSUME NEW t \in Text, NEW n, NEW l, NEW ps, NEW e, Pieces(t, n, l, ps, e)
  PROVE  \A i : i \in Commas(t) <=> \E k \in 0 .. l : e[k] = i
<1>1. n \in Nat /\ l \in Nat /\ l > 0 /\ e[0] = 0 /\ e[l] = n + 1 /\ Len(t) = n /\ DOMAIN t = 1 .. n
  BY PiecesAre, Zenon
<1>2. \A i \in 1 .. n : t[i] = "," => \E k \in 1 .. l - 1 : e[k] = i
  BY DEF Pieces, SplitUpTo
<1>3. \A i : i \in Commas(t) <=> i = 0 \/ i = n + 1 \/ (i \in 1 .. n /\ t[i] = ",")
  BY <1>1 DEF Commas
<1>4. ASSUME NEW k \in 1 .. l, k < l PROVE e[k] \in Commas(t)
  <2>1. e[k] \in 1 .. n /\ t[e[k]] = ","
    BY <1>4, CommaBehind, ZenonT(40)
  <2>. QED  BY <2>1, <1>3, Zenon
<1>5. e[0] \in Commas(t) /\ e[l] \in Commas(t)
  BY <1>1, <1>3, Zenon
<1>6. \A x \in Nat : x > 0 => /\ 0 \in 0 .. x /\ x \in 0 .. x
                              /\ \A k \in 0 .. x : k = 0 \/ k = x \/ (k \in 1 .. x /\ k < x)
                              /\ \A k \in 1 .. x - 1 : k \in 0 .. x
  OBVIOUS
<1>7. /\ 0 \in 0 .. l /\ l \in 0 .. l
      /\ \A k \in 0 .. l : k = 0 \/ k = l \/ (k \in 1 .. l /\ k < l)
      /\ \A k \in 1 .. l - 1 : k \in 0 .. l
  BY <1>1, <1>6, Zenon
<1>8. \A k \in 0 .. l : e[k] \in Commas(t)
  BY <1>4, <1>5, <1>7, Zenon
<1>9. \A i \in 1 .. n : t[i] = "," => \E k \in 0 .. l : e[k] = i
  BY <1>2, <1>7, Zenon
<1>10. \A i \in Commas(t) : \E k \in 0 .. l : e[k] = i
  BY <1>1, <1>3, <1>7, <1>9, Zenon
<1>. QED  BY <1>8, <1>10, Zenon

\* The ends come one after the other.
LEMMA EndsInOrder ==
  ASSUME NEW t \in Text, NEW n, NEW l, NEW ps, NEW e, Pieces(t, n, l, ps, e)
  PROVE  \A j \in 0 .. l : \A k \in 0 .. l : j < k => e[j] < e[k]
<1>. DEFINE Wrong == {k \in 0 .. l : \E j \in 0 .. l : j < k /\ ~(e[j] < e[k])}
<1>1. l \in Nat
  BY PiecesAre
<1>2. \A k \in 0 .. l : k \in Nat /\ k <= l
  BY <1>1
<1>3. \A k \in 0 .. l : e[k] \in Nat
  BY <1>2, PieceEnd
<1>4. Wrong = {}
  <2>1. SUFFICES ASSUME Wrong # {} PROVE FALSE
    OBVIOUS
  <2>2. Wrong \subseteq Nat
    BY <1>2
  <2>3. PICK k \in Wrong : \A x \in Wrong : k <= x
    BY <2>1, <2>2, LeastNumber
  <2>4. PICK j \in 0 .. l : j < k /\ ~(e[j] < e[k])
    OBVIOUS
  <2>. DEFINE m == k - 1
  <2>5. k \in Nat /\ k <= l /\ m \in Nat /\ m < l /\ k = m + 1 /\ m \in 0 .. l /\ k \in 0 .. l /\ m < k /\ (j < m \/ j = m)
    BY <2>4, <1>1
  <2>. HIDE DEF m
  <2>6. e[m] < e[k]
    BY <2>5, PieceK
  <2>7. m \notin Wrong
    BY <2>3, <2>5
  <2>8. j < m => e[j] < e[m]
    BY <2>5, <2>7
  <2>. QED  BY <2>4, <2>5, <2>6, <2>8, <1>3
<1>. QED  BY <1>4

\* The formal syntax looks at the pieces one by one.
LEMMA PieceByPiece ==
  ASSUME NEW t \in Text, NEW n, NEW l, NEW ps, NEW e, Pieces(t, n, l, ps, e), NEW r
  PROVE  IsSequenceSet(t, r) <=> \A k \in 1 .. l : IsSequence(ps[k], r)
<1>1. n \in Nat /\ l \in Nat /\ l > 0
  BY PiecesAre
<1>2. \A i : i \in Commas(t) <=> \E k \in 0 .. l : e[k] = i
  BY CommasAre
<1>3. \A j \in 0 .. l : \A k \in 0 .. l : j < k => e[j] < e[k]
  BY EndsInOrder
<1>4. \A k \in 0 .. l : e[k] \in Nat
  BY <1>1, PieceEnd
<1>5. ASSUME IsSequenceSet(t, r), NEW k \in 1 .. l PROVE IsSequence(ps[k], r)
  <2>. DEFINE j == k - 1
  <2>1. j \in Nat /\ j < l /\ k = j + 1 /\ j \in 0 .. l /\ k \in 0 .. l
    BY <1>1
  <2>. HIDE DEF j
  <2>2. e[j] < e[k] /\ ps[k] = Piece(t, e[j], e[k])
    BY <2>1, PieceK
  <2>3. e[j] \in Commas(t) /\ e[k] \in Commas(t)
    BY <2>1, <1>2
  <2>4. \A m \in Commas(t) : ~(e[j] < m /\ m < e[k])
    <3>1. SUFFICES ASSUME NEW m \in 0 .. l, e[j] < e[m], e[m] < e[k] PROVE FALSE
      BY <1>2
    <3>2. m < k \/ m = k \/ k < m
      BY <1>1
    <3>3. m < k => m = j \/ m < j
      BY <2>1, <1>1
    <3>. QED  BY <3>1, <3>2, <3>3, <2>1, <1>3, <1>4
  <2>5. IsSequence(Piece(t, e[j], e[k]), r)
    BY <2>2, <2>3, <2>4, <1>5 DEF IsSequenceSet
  <2>. QED  BY <2>5, <2>2
<1>6. ASSUME \A k \in 1 .. l : IsSequence(ps[k], r), NEW a \in Commas(t), NEW b \in Commas(t),
             a < b, \A m \in Commas(t) : ~(a < m /\ m < b)
      PROVE  IsSequence(Piece(t, a, b), r)
  <2>1. PICK j \in 0 .. l : e[j] = a
    BY <1>2
  <2>2. PICK m \in 0 .. l : e[m] = b
    BY <1>2
  <2>. DEFINE k == j + 1
  <2>3. j < m
    <3>1. m < j \/ m = j \/ j < m
      BY <1>1
    <3>. QED  BY <3>1, <2>1, <2>2, <1>3, <1>4, <1>6
  <2>4. j \in Nat /\ j < l /\ k = j + 1 /\ k \in 0 .. l /\ (k = m \/ k < m) /\ j < k
    BY <2>3, <1>1
  <2>. HIDE DEF k
  <2>5. e[j] < e[k] /\ k \in 1 .. l /\ ps[k] = Piece(t, e[j], e[k])
    BY <2>4, PieceK
  <2>6. ~(k < m)
    <3>1. SUFFICES ASSUME k < m PROVE FALSE
      OBVIOUS
    <3>2. e[k] < e[m] /\ e[k] \in Commas(t)
      BY <3>1, <2>4, <1>2, <1>3
    <3>. QED  BY <3>2, <2>1, <2>2, <2>5, <1>6
  <2>7. k = m
    BY <2>4, <2>6
  <2>. QED  BY <2>1, <2>2, <2>5, <2>7, <1>6
<1>7. ASSUME IsSequenceSet(t, r) PROVE \A k \in 1 .. l : IsSequence(ps[k], r)
  BY <1>5, <1>7
<1>8. ASSUME \A k \in 1 .. l : IsSequence(ps[k], r) PROVE IsSequenceSet(t, r)
  BY <1>6, <1>8, Zenon DEF IsSequenceSet
<1>. QED  BY <1>7, <1>8

\* What FromStr makes of the pieces.
ReadFromStr(ps, l) == [k \in 1 .. l |-> SequenceFromStr(ps[k])]
Taken(S) == CHOOSE q \in S : TRUE
TakenFromStr(ps, l) == [k \in 1 .. l |-> Taken(SequenceFromStr(ps[k]))]

\* It takes a text if it takes each of the pieces.
LEMMA EachFromStr ==
  ASSUME NEW t \in Text, NEW n, NEW l, NEW ps, NEW e, Pieces(t, n, l, ps, e), ps = Split(t, ",")
  PROVE  SequenceSetFromStr(t) =
           IF \E k \in 1 .. l : SequenceFromStr(ps[k]) = {} THEN {}
           ELSE {TakenFromStr(ps, l)}
<1>. DEFINE results == ReadFromStr(ps, l)
            Chosen(r) == [i \in DOMAIN r |-> Taken(r[i])]
            Good == {x \in {results} : {} \notin Range(x)}
<1>1. DOMAIN ps = 1 .. l
  BY PiecesAre, ZenonT(40)
<1>2. SequenceSetFromStr(t) = {Chosen(r) : r \in Good}
  BY <1>1 DEF SequenceSetFromStr, ReadFromStr, Taken
<1>3. DOMAIN results = 1 .. l /\ \A k \in 1 .. l : results[k] = SequenceFromStr(ps[k])
  BY DEF ReadFromStr
<1>4. Chosen(results) = TakenFromStr(ps, l)
  <2>. HIDE DEF results
  <2>. QED  BY <1>3 DEF TakenFromStr
<1>5. {} \in Range(results) <=> \E k \in 1 .. l : SequenceFromStr(ps[k]) = {}
  BY <1>3 DEF Range
<1>. HIDE DEF results, Chosen
<1>6. CASE {} \in Range(results)
  <2>1. Good = {}
    BY <1>6
  <2>. QED  BY <2>1, <1>2, <1>5, <1>6
<1>7. CASE {} \notin Range(results)
  <2>1. Good = {results}
    BY <1>7
  <2>. HIDE DEF Good
  <2>2. SequenceSetFromStr(t) = {Chosen(results)}
    BY <2>1, <1>2
  <2>. QED  BY <2>2, <1>4, <1>5, <1>7
<1>. QED  BY <1>6, <1>7

\* What it makes of a text, then.
LEMMA SetFromStr ==
  ASSUME NEW t \in Text, NEW n, NEW l, NEW ps, NEW e, Pieces(t, n, l, ps, e), ps = Split(t, ",")
  PROVE  /\ SequenceSetFromStr(t) # {} <=> IsSequenceSet(t, "FromStr")
         /\ \A z : /\ IsSequenceSet(t, "FromStr") /\ z = [k \in 1 .. l |-> z[k]]
                   /\ \A k \in 1 .. l : Reads(ps[k], z[k])
                   => SequenceSetFromStr(t) = {z}
<1>. DEFINE Chosen == TakenFromStr(ps, l)
<1>1. SequenceSetFromStr(t) = IF \E k \in 1 .. l : SequenceFromStr(ps[k]) = {} THEN {} ELSE {Chosen}
  BY EachFromStr, Zenon
<1>2. \A k \in 1 .. l : ps[k] \in Text
  <2>1. ps \in Seq(Text) /\ Len(ps) = l
    BY DEF Pieces, SplitUpTo
  <2>. QED  BY <2>1, ElementOfSeq
<1>3. IsSequenceSet(t, "FromStr") <=> \A k \in 1 .. l : IsSequence(ps[k], "FromStr")
  BY PieceByPiece
<1>4. \A k \in 1 .. l : SequenceFromStr(ps[k]) # {} <=> IsSequence(ps[k], "FromStr")
  BY <1>2, PieceFromStr
<1>5. SequenceSetFromStr(t) # {} <=> IsSequenceSet(t, "FromStr")
  <2>. HIDE DEF Chosen
  <2>. QED  BY <1>1, <1>3, <1>4
<1>6. ASSUME NEW z, IsSequenceSet(t, "FromStr"), z = [k \in 1 .. l |-> z[k]],
             \A k \in 1 .. l : Reads(ps[k], z[k])
      PROVE  SequenceSetFromStr(t) = {z}
  <2>1. \A k \in 1 .. l : SequenceFromStr(ps[k]) = {z[k]}
    BY <1>2, <1>3, <1>6, PieceFromStr
  <2>2. \A x : Taken({x}) = x
    BY DEF Taken
  <2>3. \A k \in 1 .. l : Taken(SequenceFromStr(ps[k])) = z[k]
    BY <2>1, <2>2
  <2>4. Chosen = [k \in 1 .. l |-> z[k]]
    BY <2>3 DEF TakenFromStr
  <2>5. Chosen = z
    BY <2>4, <1>6
  <2>. HIDE DEF Chosen
  <2>. QED  BY <2>5, <1>1, <1>3, <1>4, <1>6
<1>. QED  BY <1>5, <1>6, Zenon

-----------------------------------------------------------------------------
(* What the parser makes of the pieces.                                    *)

\* F has the parser's result after each character.
Steps(F, t, n, first) ==
  /\ F[0] = <<<<first[1]>>, first[2]>> /\ F[n] = MoreSequences(t, first)
  /\ \A k \in 1 .. n : F[k] = OneMore(t, F[k - 1])

\* The parser's fold goes through one result for each character.
LEMMA ReadingSteps ==
  ASSUME NEW t \in Text, NEW n, n = Len(t), NEW first \in SequenceAt(t, 1)
  PROVE  \E F : Steps(F, t, n, first)
<1>. DEFINE V == {r[1] : r \in UNION {SequenceAt(t, i + 1) : i \in Nat}}
            P == 1 .. n + 1
            X == Seq(V) \X P
            base == <<<<first[1]>>, first[2]>>
            step == [p \in X \X (1 .. n) |-> OneMore(t, p[1])]
            Is(g) == g = [T \in SUBSET (1 .. n) |->
                            IF T = {} THEN base ELSE OneMore(t, g[T \ {Max(T)}])]
            iter == CHOOSE g : Is(g)
<1>1. n \in Nat /\ DOMAIN t = 1 .. n
  BY LenProperties DEF Text
<1>2. MoreSequences(t, first) = iter[1 .. n]
  BY <1>1 DEF MoreSequences, FoldLeft, MapThenFoldSet
<1>3. ASSUME NEW a \in Nat, NEW r \in SequenceAt(t, a + 1)
      PROVE  r[1] \in V /\ r[2] \in P
  <2>1. r[1] \in V
    OBVIOUS
  <2>2. PICK b \in a + 2 .. Len(t) + 1 : r[2] = b
    BY TakenIsSequence
  <2>3. b \in P
    BY <2>2, <1>1
  <2>. QED  BY <2>1, <2>2, <2>3
<1>4. \A i \in P : i \in Nat
  BY <1>1
<1>5. first[1] \in V /\ first[2] \in P
  <2>1. 0 + 1 = 1 /\ 0 \in Nat
    OBVIOUS
  <2>. HIDE DEF V, P
  <2>. QED  BY <2>1, <1>3
<1>. HIDE DEF V, P
<1>6. base \in X
  <2>1. \A v \in V : <<v>> \in Seq(V)
    OBVIOUS
  <2>. QED  BY <2>1, <1>5, SMTT(30)
<1>7. ASSUME NEW all \in X PROVE OneMore(t, all) \in X
  <2>. DEFINE next == IF At(t, all[2]) = "," THEN SequenceAt(t, all[2] + 1) ELSE {}
              x == CHOOSE x \in next : TRUE
  <2>1. all[1] \in Seq(V) /\ all[2] \in P /\ all[2] \in Nat
    BY <1>4
  <2>2. OneMore(t, all) = IF next = {} THEN all ELSE <<Append(all[1], x[1]), x[2]>>
    BY Zenon DEF OneMore
  <2>3. CASE next # {}
    <3>1. x \in next
      BY <2>3
    <3>. HIDE DEF x
    <3>2. x \in SequenceAt(t, all[2] + 1)
      BY <3>1
    <3>. HIDE DEF next
    <3>3. x[1] \in V /\ x[2] \in P
      BY <2>1, <3>2, <1>3
    <3>4. Append(all[1], x[1]) \in Seq(V)
      BY <2>1, <3>3, AppendProperties
    <3>5. OneMore(t, all) = <<Append(all[1], x[1]), x[2]>>
      BY <2>2, <2>3, Zenon
    <3>. HIDE DEF X
    <3>6. \A y \in Seq(V), z \in P : <<y, z>> \in X
      BY DEF X
    <3>. QED  BY <3>3, <3>4, <3>5, <3>6, Zenon
  <2>4. CASE next = {}
    <3>. HIDE DEF next, x
    <3>. QED  BY <2>2, <2>4, Zenon
  <2>. QED  BY <2>3, <2>4
<1>8. \E g : Is(g)
  <2>1. step \in [X \X (1 .. n) -> X]
    <3>. HIDE DEF X
    <3>1. \A p \in X \X (1 .. n) : OneMore(t, p[1]) \in X
      BY <1>7
    <3>. QED  BY <3>1
  <2>. HIDE DEF step, X, base
  <2>2. PICK f : Folds(f, X, n, base, step)
    BY <2>1, <1>1, <1>6, FoldExists, Zenon
  <2>3. ASSUME NEW T \in SUBSET (1 .. n), T # {}
        PROVE  step[<<f[T \ {Max(T)}], Max(T)>>] = OneMore(t, f[T \ {Max(T)}])
    <3>1. Max(T) \in 1 .. n
      BY <2>3, <1>1, MaxOf
    <3>2. f[T \ {Max(T)}] \in X
      BY <2>2 DEF Folds
    <3>. QED  BY <3>1, <3>2 DEF step
  <2>4. f = [T \in SUBSET (1 .. n) |-> f[T]]
    BY <2>2 DEF Folds
  <2>5. Is(f)
    BY <2>2, <2>3, <2>4 DEF Folds
  <2>. QED  BY <2>5
<1>9. Is(iter)
  <2>. HIDE DEF Is
  <2>. QED  BY <1>8
<1>. HIDE DEF iter, base
<1>. DEFINE F == [k \in 0 .. n |-> iter[1 .. k]]
<1>10. F[0] = base
  <2>1. 1 .. 0 = {} /\ 0 \in 0 .. n
    BY <1>1
  <2>. QED  BY <2>1, <1>9
<1>11. ASSUME NEW k \in 1 .. n PROVE F[k] = OneMore(t, F[k - 1])
  <2>1. 1 .. k \in SUBSET (1 .. n) /\ 1 .. k # {} /\ k \in 0 .. n /\ k - 1 \in 0 .. n
    BY <1>1, InitialInterval
  <2>2. Max(1 .. k) = k /\ (1 .. k) \ {k} = 1 .. k - 1
    BY MaxOfInterval
  <2>. QED  BY <2>1, <2>2, <1>9
<1>12. F[n] = MoreSequences(t, first)
  BY <1>1, <1>2
<1>. HIDE DEF F
<1>. QED  BY <1>10, <1>11, <1>12 DEF base, Steps

\* What the parser takes behind the piece j is the next piece, or the beginning
\* of it.
LEMMA NextPiece ==
  ASSUME NEW t \in Text, NEW n, NEW l, NEW ps, NEW e, Pieces(t, n, l, ps, e),
         NEW j \in Nat, j < l, NEW k, k = j + 1, NEW i, i = e[j] + 1, NEW r \in SequenceAt(t, i)
  PROVE  /\ r[2] \in Nat /\ e[j] < r[2] /\ r[2] <= e[k]
         /\ r[2] = e[k] => Reads(ps[k], r[1])
<1>. DEFINE a == e[j]
<1>1. n \in Nat /\ l \in Nat /\ Len(t) = n /\ e[l] = n + 1
  BY PiecesAre
<1>2. k \in 1 .. l /\ a \in Nat /\ e[k] \in Nat /\ a < e[k] /\ ps[k] = Piece(t, a, e[k])
  BY PieceK
<1>. HIDE DEF a
<1>3. PICK b \in a + 2 .. Len(t) + 1 : /\ r[2] = b /\ Reads(Piece(t, a, b), r[1])
                                      /\ \A x \in a + 1 .. b - 1 : t[x] # ","
  <2>1. r \in SequenceAt(t, a + 1)
    BY DEF a
  <2>. QED  BY <2>1, <1>2, TakenIsSequence
<1>4. b \in Nat /\ a < b /\ b <= n + 1
  BY <1>1, <1>2
<1>5. b <= e[k]
  <2>1. SUFFICES ASSUME e[k] < b PROVE FALSE
    BY <1>2, <1>4
  <2>2. e[k] # n + 1
    BY <2>1, <1>1, <1>2, <1>4
  <2>3. k < l
    <3>1. k # l
      BY <2>2, <1>1
    <3>. QED  BY <3>1, <1>1, <1>2
  <2>4. t[e[k]] = ","
    BY <2>3, <1>2, CommaBehind
  <2>5. e[k] \in a + 1 .. b - 1
    BY <2>1, <1>2, <1>4
  <2>. QED  BY <2>4, <2>5, <1>3
<1>. QED  BY <1>2, <1>3, <1>4, <1>5 DEF a

\* It takes all of the next piece, if that is a sequence.
LEMMA NextPieceIsTaken ==
  ASSUME NEW t \in Text, NEW n, NEW l, NEW ps, NEW e, Pieces(t, n, l, ps, e),
         NEW j \in Nat, j < l, NEW k, k = j + 1, NEW i, i = e[j] + 1, IsSequence(ps[k], "parser")
  PROVE  SequenceAt(t, i) # {} /\ \A r \in SequenceAt(t, i) : r[2] = e[k]
<1>. DEFINE a == e[j]
            b == e[k]
<1>1. n \in Nat /\ Len(t) = n
  BY PiecesAre
<1>2. k \in 1 .. l /\ a \in Nat /\ b \in Nat /\ a < b /\ b <= n + 1 /\ ps[k] = Piece(t, a, b) /\ ps[k] \in Text
  BY PieceK
<1>3. At(t, b) \in {",", "end"}
  BY <1>2, CommaBehind
<1>4. PICK q : Reads(ps[k], q)
  BY <1>2, ReadsSequences
<1>5. i = a + 1
  OBVIOUS
<1>. HIDE DEF a, b
<1>6. SequenceAt(t, a + 1) = {<<q, b>>}
  <2>1. b <= Len(t) + 1
    BY <1>1, <1>2
  <2>2. Reads(Piece(t, a, b), q)
    BY <1>2, <1>4, Zenon
  <2>. QED  BY <1>2, <1>3, <2>1, <2>2, SequenceIsTaken, Zenon
<1>7. SequenceAt(t, i) = {<<q, b>>}
  BY <1>5, <1>6, Zenon
<1>8. <<q, b>>[2] = b
  OBVIOUS
<1>. QED  BY <1>7, <1>8 DEF b

\* The parser is in the piece m with its set s, at the position p.
InPiece(t, l, ps, e, s, p, m) ==
  /\ s \in Seq(ToSet(s)) /\ Len(s) = m /\ m \in 1 .. l
  /\ \A k \in 1 .. m : k < m => Reads(ps[k], s[k])
  /\ p \in Nat /\ e[m - 1] < p /\ p <= e[m]
  /\ p = e[m] => Reads(ps[m], s[m])

\* It is in the first piece after the first sequence.
LEMMA FirstPiece ==
  ASSUME NEW t \in Text, NEW n, NEW l, NEW ps, NEW e, Pieces(t, n, l, ps, e), NEW first \in SequenceAt(t, 1)
  PROVE  InPiece(t, l, ps, e, <<first[1]>>, first[2], 1)
<1>. DEFINE s == <<first[1]>>
<1>1. l \in Nat /\ l > 0 /\ e[0] = 0
  BY PiecesAre
<1>2. /\ first[2] \in Nat /\ e[0] < first[2] /\ first[2] <= e[1]
      /\ first[2] = e[1] => Reads(ps[1], first[1])
  <2>1. 0 \in Nat /\ 0 < l /\ 1 = 0 + 1 /\ 1 = e[0] + 1
    BY <1>1
  <2>. QED  BY <2>1, NextPiece
<1>3. s \in Seq({first[1]}) /\ Len(s) = 1 /\ s[1] = first[1]
  OBVIOUS
<1>4. ToSet(s) = {first[1]}
  BY <1>3 DEF ToSet
<1>. HIDE DEF s
<1>5. 1 \in 1 .. l /\ 1 - 1 = 0 /\ \A k \in 1 .. 1 : ~(k < 1)
  BY <1>1
<1>6. InPiece(t, l, ps, e, s, first[2], 1)
  BY <1>2, <1>3, <1>4, <1>5 DEF InPiece
<1>. QED  BY <1>6 DEF s

CommaAt(t, p) == At(t, p) = ","

\* A comma at its position is the end of the piece, which has one behind it.
LEMMA CommaEnds ==
  ASSUME NEW t \in Text, NEW n, NEW l, NEW ps, NEW e, Pieces(t, n, l, ps, e),
         NEW s, NEW p, NEW m, InPiece(t, l, ps, e, s, p, m), CommaAt(t, p)
  PROVE  p = e[m] /\ m < l
<1>. DEFINE j == m - 1
<1>1. n \in Nat /\ l \in Nat /\ Len(t) = n /\ e[l] = n + 1
  BY PiecesAre
<1>2. m \in 1 .. l /\ p \in Nat /\ e[j] < p /\ p <= e[m]
  BY DEF InPiece
<1>3. j \in Nat /\ j < l /\ m = j + 1 /\ m \in Nat /\ m <= l
  <2>1. \A y \in Nat : \A x \in 1 .. y : x - 1 \in Nat /\ x - 1 < y /\ x = (x - 1) + 1 /\ x \in Nat /\ x <= y
    OBVIOUS
  <2>. QED  BY <2>1, <1>1, <1>2, Zenon
<1>. HIDE DEF j
<1>4. p \in 1 .. n /\ t[p] = ","
  BY <1>1, <1>2, AtIs DEF CommaAt
<1>5. e[m] \in Nat
  BY <1>3, PieceEnd
<1>6. ~(p < e[m])
  BY <1>2, <1>3, <1>4, NoCommaInside, Zenon
<1>7. \A x \in Nat : p <= x /\ ~(p < x) => p = x
  BY <1>2
<1>8. p = e[m]
  BY <1>2, <1>5, <1>6, <1>7, Zenon
<1>9. p # n + 1
  <2>1. \A x \in Nat : \A y \in 1 .. x : y # x + 1
    OBVIOUS
  <2>. QED  BY <2>1, <1>1, <1>4, Zenon
<1>10. m # l
  BY <1>1, <1>8, <1>9, Zenon
<1>11. m < l
  BY <1>1, <1>3, <1>10
<1>. QED  BY <1>8, <1>11

\* One more step leaves it there, or moves it on into the next piece; and to the end of
\* it, if it was at the end of this one and the next one is a sequence.
LEMMA OneMoreIs ==
  ASSUME NEW t \in Text, NEW n, NEW l, NEW ps, NEW e, Pieces(t, n, l, ps, e),
         NEW all, NEW m, InPiece(t, l, ps, e, all[1], all[2], m), NEW o, o = OneMore(t, all)
  PROVE  \/ /\ o = all
            /\ ~(all[2] = e[m] /\ m < l /\ IsSequence(ps[m + 1], "parser"))
         \/ /\ m < l /\ all[2] = e[m] /\ InPiece(t, l, ps, e, o[1], o[2], m + 1)
            /\ IsSequence(ps[m + 1], "parser") => o[2] = e[m + 1]
<1>. DEFINE s == all[1]
            p == all[2]
            k == m + 1
            i == p + 1
            Here == SequenceAt(t, i)
            next == IF At(t, p) = "," THEN Here ELSE {}
            x == CHOOSE x \in next : TRUE
<1>1. n \in Nat /\ l \in Nat /\ e[l] = n + 1
  BY PiecesAre
<1>2. m \in 1 .. l /\ Len(s) = m /\ s \in Seq(ToSet(s)) /\ p \in Nat /\ InPiece(t, l, ps, e, s, p, m)
  BY DEF InPiece
<1>3. m \in Nat /\ k \in Nat /\ (m < l => k \in 1 .. l) /\ k - 1 = m /\ k = m + 1 /\ \A y \in 1 .. k : y < k => y \in 1 .. m
  BY <1>1, <1>2
<1>4. o = IF next = {} THEN all ELSE <<Append(s, x[1]), x[2]>>
  BY Zenon DEF OneMore
<1>. HIDE DEF k, s, p
<1>5. CASE next = {}
  <2>1. o = all
    BY <1>4, <1>5, Zenon
  <2>2. ASSUME p = e[m], m < l, IsSequence(ps[k], "parser") PROVE FALSE
    <3>1. At(t, e[m]) = ","
      BY <2>2, <1>2, CommaBehind
    <3>2. i = e[m] + 1
      BY <2>2
    <3>. HIDE DEF i
    <3>3. Here # {}
      BY <3>2, <2>2, <1>3, NextPieceIsTaken
    <3>. HIDE DEF Here
    <3>. QED  BY <3>1, <3>3, <2>2, <1>5
  <2>. QED  BY <2>1, <2>2 DEF k, p
<1>6. CASE next # {}
  <2>1. At(t, p) = "," /\ x \in Here
    <3>1. x \in next
      BY <1>6
    <3>. HIDE DEF x, Here
    <3>. QED  BY <3>1
  <2>2. o = <<Append(s, x[1]), x[2]>>
    BY <1>4, <1>6, Zenon
  <2>. HIDE DEF x, next
  <2>3. p = e[m] /\ m < l
    <3>1. CommaAt(t, p)
      BY <2>1 DEF CommaAt
    <3>2. Pieces(t, n, l, ps, e) /\ InPiece(t, l, ps, e, s, p, m)
      BY <1>2
    <3>. QED  BY <3>1, <3>2, CommaEnds
  <2>4. i = e[m] + 1
    BY <2>3
  <2>. HIDE DEF i
  <2>5. x \in SequenceAt(t, i)
    BY <2>1
  <2>6. /\ x[2] \in Nat /\ e[m] < x[2] /\ x[2] <= e[k]
        /\ x[2] = e[k] => Reads(ps[k], x[1])
    BY <2>3, <2>4, <2>5, <1>3, NextPiece
  <2>7. IsSequence(ps[k], "parser") => x[2] = e[k]
    BY <2>3, <2>4, <2>5, <1>3, NextPieceIsTaken
  <2>. DEFINE z == Append(s, x[1])
  <2>8. /\ z \in Seq(ToSet(z)) /\ Len(z) = k /\ z[k] = x[1]
        /\ \A y \in 1 .. m : z[y] = s[y]
    BY <1>2, <1>3, QueueAppend
  <2>. HIDE DEF z
  <2>9. \A y \in 1 .. m : Reads(ps[y], s[y])
    <3>1. \A y \in 1 .. m : y < m \/ y = m
      BY <1>3
    <3>. QED  BY <3>1, <2>3, <1>2 DEF InPiece
  <2>10. \A y \in 1 .. k : y < k => Reads(ps[y], z[y])
    BY <2>8, <2>9, <1>3
  <2>11. InPiece(t, l, ps, e, z, x[2], k)
    BY <2>3, <2>6, <2>8, <2>10, <1>3 DEF InPiece
  <2>12. o[1] = z /\ o[2] = x[2]
    BY <2>2 DEF z
  <2>. QED  BY <2>3, <2>7, <2>11, <2>12 DEF k, p
<1>. QED  BY <1>5, <1>6

\* The parser after i characters: in the piece m; and if all pieces are sequences at
\* the end of it, with a piece for each character, as long as there are some.
AllSequences(ps, l) == \A k \in 1 .. l : IsSequence(ps[k], "parser")
Reading(t, l, ps, e, all, m, i) ==
  /\ InPiece(t, l, ps, e, all[1], all[2], m)
  /\ AllSequences(ps, l) => all[2] = e[m] /\ (i < m \/ m = l)

\* It begins there.
LEMMA ReadingBegins ==
  ASSUME NEW t \in Text, NEW n, NEW l, NEW ps, NEW e, Pieces(t, n, l, ps, e), NEW first \in SequenceAt(t, 1)
  PROVE  Reading(t, l, ps, e, <<<<first[1]>>, first[2]>>, 1, 0)
<1>. DEFINE s == <<first[1]>>
<1>1. l \in Nat /\ l > 0 /\ e[0] = 0
  BY PiecesAre
<1>2. InPiece(t, l, ps, e, s, first[2], 1)
  BY FirstPiece
<1>3. <<s, first[2]>>[1] = s /\ <<s, first[2]>>[2] = first[2]
  OBVIOUS
<1>. HIDE DEF s
<1>4. ASSUME AllSequences(ps, l) PROVE first[2] = e[1]
  <2>1. 0 \in Nat /\ 0 < l /\ 1 = 0 + 1 /\ 1 = e[0] + 1 /\ 1 \in 1 .. l
    BY <1>1
  <2>2. IsSequence(ps[1], "parser")
    BY <2>1, <1>4 DEF AllSequences
  <2>. QED  BY <2>1, <2>2, NextPieceIsTaken
<1>5. 0 < 1
  OBVIOUS
<1>6. Reading(t, l, ps, e, <<s, first[2]>>, 1, 0)
  BY <1>2, <1>3, <1>4, <1>5, Zenon DEF Reading
<1>. QED  BY <1>6 DEF s

\* And stays there.
LEMMA ReadingGoesOn ==
  ASSUME NEW t \in Text, NEW n, NEW l, NEW ps, NEW e, Pieces(t, n, l, ps, e),
         NEW all, NEW m, NEW i \in Nat, Reading(t, l, ps, e, all, m, i), NEW k, k = i + 1
  PROVE  \E x : Reading(t, l, ps, e, OneMore(t, all), x, k)
<1>. DEFINE o == OneMore(t, all)
            q == m + 1
<1>1. l \in Nat
  BY PiecesAre
<1>2. InPiece(t, l, ps, e, all[1], all[2], m) /\ m \in 1 .. l
  BY DEF Reading, InPiece
<1>3. AllSequences(ps, l) => all[2] = e[m] /\ (i < m \/ m = l)
  BY DEF Reading
<1>4. m \in Nat /\ m <= l /\ q \in Nat /\ (m < l => q \in 1 .. l) /\ (m = l \/ m < l) /\ (i < m => k < q)
  BY <1>1, <1>2
<1>5. \/ o = all /\ ~(all[2] = e[m] /\ m < l /\ IsSequence(ps[q], "parser"))
      \/ /\ m < l /\ all[2] = e[m] /\ InPiece(t, l, ps, e, o[1], o[2], q)
         /\ IsSequence(ps[q], "parser") => o[2] = e[q]
  BY <1>2, OneMoreIs
<1>6. m < l /\ AllSequences(ps, l) => IsSequence(ps[q], "parser")
  BY <1>4 DEF AllSequences
<1>. HIDE DEF o, q
<1>7. CASE o = all /\ ~(all[2] = e[m] /\ m < l /\ IsSequence(ps[q], "parser"))
  <2>1. AllSequences(ps, l) => all[2] = e[m] /\ m = l
    BY <1>3, <1>4, <1>6, <1>7, Zenon
  <2>2. Reading(t, l, ps, e, o, m, k)
    BY <2>1, <1>2, <1>7, Zenon DEF Reading
  <2>. QED  BY <2>2 DEF o
<1>8. CASE /\ m < l /\ all[2] = e[m] /\ InPiece(t, l, ps, e, o[1], o[2], q)
           /\ IsSequence(ps[q], "parser") => o[2] = e[q]
  <2>1. m # l
    BY <1>1, <1>4, <1>8
  <2>2. AllSequences(ps, l) => o[2] = e[q] /\ k < q
    BY <2>1, <1>3, <1>4, <1>6, <1>8, Zenon
  <2>3. Reading(t, l, ps, e, o, q, k)
    BY <2>2, <1>8, Zenon DEF Reading
  <2>. QED  BY <2>3 DEF o
<1>. QED  BY <1>5, <1>7, <1>8

\* After all characters.
LEMMA ReadingEnds ==
  ASSUME NEW t \in Text, NEW n, NEW l, NEW ps, NEW e, Pieces(t, n, l, ps, e), NEW first \in SequenceAt(t, 1)
  PROVE  \E m : Reading(t, l, ps, e, MoreSequences(t, first), m, n)
<1>1. n \in Nat /\ n = Len(t)
  BY PiecesAre
<1>2. PICK F : Steps(F, t, n, first)
  BY <1>1, ReadingSteps, Zenon
<1>. DEFINE Good(k) == \E m : Reading(t, l, ps, e, F[k], m, k)
            Wrong == {k \in 0 .. n : ~Good(k)}
<1>3. Good(0)
  BY <1>2, ReadingBegins DEF Steps
<1>4. ASSUME NEW j \in Nat, NEW k \in 1 .. n, k = j + 1, Good(j) PROVE Good(k)
  <2>1. PICK m : Reading(t, l, ps, e, F[j], m, j)
    BY <1>4
  <2>2. PICK x : Reading(t, l, ps, e, OneMore(t, F[j]), x, k)
    BY <2>1, <1>4, ReadingGoesOn
  <2>3. F[k] = OneMore(t, F[j])
    <3>1. k - 1 = j
      BY <1>4
    <3>. QED  BY <3>1, <1>2 DEF Steps
  <2>. QED  BY <2>2, <2>3
<1>. HIDE DEF Good
<1>5. Wrong = {}
  <2>1. SUFFICES ASSUME Wrong # {} PROVE FALSE
    OBVIOUS
  <2>2. PICK k \in Wrong : \A i \in Wrong : k <= i
    <3>1. Wrong \subseteq Nat  BY <1>1
    <3>. HIDE DEF Wrong
    <3>. QED  BY <3>1, <2>1, LeastNumber
  <2>. DEFINE j == k - 1
  <2>3. k # 0
    BY <1>3
  <2>4. k \in 1 .. n /\ j \in Nat /\ j \in 0 .. n /\ k = j + 1 /\ ~(k <= j)
    BY <2>3, <1>1
  <2>5. Good(j)
    BY <2>2, <2>4
  <2>. HIDE DEF j
  <2>6. Good(k)
    BY <2>4, <2>5, <1>4
  <2>. QED  BY <2>6
<1>6. Good(n)
  BY <1>1, <1>5
<1>. QED  BY <1>2, <1>6 DEF Good, Steps

\* What the parser makes of a text: each piece is read as it is meant.
AllRead(ps, l, z) == z = [k \in 1 .. l |-> z[k]] /\ \A k \in 1 .. l : Reads(ps[k], z[k])

\* It takes all pieces, each as it is meant, or nothing.
LEMMA SetParsed ==
  ASSUME NEW t \in Text, NEW n, NEW l, NEW ps, NEW e, Pieces(t, n, l, ps, e)
  PROVE  /\ \A z \in sequence_set(t) : AllRead(ps, l, z)
         /\ sequence_set(t) # {} <=> IsSequenceSet(t, "parser")
<1>1. n \in Nat /\ l \in Nat /\ l > 0 /\ l <= n + 1 /\ e[0] = 0 /\ e[l] = n + 1 /\ Len(t) = n
  BY PiecesAre
<1>2. \A z : z \in sequence_set(t)
        <=> \E first \in SequenceAt(t, 1) : MoreSequences(t, first)[2] = n + 1 /\ z = MoreSequences(t, first)[1]
  <2>1. sequence_set(t) = {all[1] : all \in {r \in {MoreSequences(t, first) : first \in SequenceAt(t, 1)} : r[2] = n + 1}}
    BY <1>1 DEF sequence_set
  <2>. QED  BY <2>1, Zenon
<1>3. ASSUME NEW z \in sequence_set(t) PROVE AllRead(ps, l, z)
  <2>1. PICK first \in SequenceAt(t, 1) : MoreSequences(t, first)[2] = n + 1 /\ z = MoreSequences(t, first)[1]
    BY <1>2, Zenon
  <2>2. PICK m : Reading(t, l, ps, e, MoreSequences(t, first), m, n)
    BY ReadingEnds
  <2>3. InPiece(t, l, ps, e, z, n + 1, m)
    BY <2>1, <2>2, Zenon DEF Reading
  <2>4. /\ z \in Seq(ToSet(z)) /\ Len(z) = m /\ m \in 1 .. l
        /\ \A k \in 1 .. m : k < m => Reads(ps[k], z[k])
        /\ n + 1 <= e[m] /\ (n + 1 = e[m] => Reads(ps[m], z[m]))
    BY <2>3, Zenon DEF InPiece
  <2>5. m = l
    <3>1. SUFFICES ASSUME m # l PROVE FALSE
      OBVIOUS
    <3>2. m < l
      BY <3>1, <2>4, <1>1
    <3>3. e[m] \in 1 .. n
      BY <3>2, <2>4, CommaBehind
    <3>4. \A x \in Nat : \A y \in 1 .. x : ~(x + 1 <= y)
      OBVIOUS
    <3>. QED  BY <3>3, <3>4, <2>4, <1>1, Zenon
  <2>6. \A k \in 1 .. l : Reads(ps[k], z[k])
    <3>1. \A x \in Nat : \A k \in 1 .. x : k < x \/ k = x
      OBVIOUS
    <3>. QED  BY <3>1, <2>4, <2>5, <1>1, Zenon
  <2>7. z = [k \in 1 .. l |-> z[k]]
    BY <2>4, <2>5, LenProperties
  <2>. QED  BY <2>6, <2>7, Zenon DEF AllRead
<1>4. IsSequenceSet(t, "parser") <=> AllSequences(ps, l)
  BY PieceByPiece DEF AllSequences
<1>5. ASSUME NEW z \in sequence_set(t) PROVE AllSequences(ps, l)
  <2>1. \A k \in 1 .. l : Reads(ps[k], z[k])
    BY <1>3, <1>5 DEF AllRead
  <2>2. \A k \in 1 .. l : ps[k] \in Text
    <3>1. ps \in Seq(Text) /\ Len(ps) = l
      BY DEF Pieces, SplitUpTo
    <3>. QED  BY <3>1, ElementOfSeq
  <2>. QED  BY <2>1, <2>2, ReadsSequences DEF AllSequences
<1>6. ASSUME AllSequences(ps, l) PROVE \E z : z \in sequence_set(t)
  <2>1. 0 \in Nat /\ 0 < l /\ 1 = 0 + 1 /\ 1 = e[0] + 1 /\ 1 \in 1 .. l
    BY <1>1
  <2>2. IsSequence(ps[1], "parser")
    BY <2>1, <1>6 DEF AllSequences
  <2>3. PICK first : first \in SequenceAt(t, 1)
    BY <2>1, <2>2, NextPieceIsTaken
  <2>. DEFINE r == MoreSequences(t, first)
  <2>4. PICK m : Reading(t, l, ps, e, r, m, n)
    BY <2>3, ReadingEnds
  <2>. HIDE DEF r
  <2>5. r[2] = e[m] /\ (n < m \/ m = l) /\ m \in 1 .. l
    BY <2>4, <1>6, Zenon DEF Reading, InPiece
  <2>6. \A x \in Nat, y \in Nat : y <= x + 1 => \A w \in 1 .. y : x < w => w = y
    OBVIOUS
  <2>7. m = l
    BY <2>5, <2>6, <1>1, Zenon
  <2>8. r[2] = n + 1
    BY <2>5, <2>7, <1>1, Zenon
  <2>. QED  BY <2>3, <2>8, <1>2, Zenon DEF r
<1>. QED  BY <1>3, <1>4, <1>5, <1>6, Zenon

\* The readers agree on each text.
LEMMA ReadersOf ==
  ASSUME NEW t \in Text
  PROVE  /\ SequenceSetFromStr(t) # {} <=> IsSequenceSet(t, "FromStr")
         /\ sequence_set(t) # {} <=> IsSequenceSet(t, "parser")
         /\ SequenceSetFromStr(t) # {} /\ sequence_set(t) # {} => SequenceSetFromStr(t) = sequence_set(t)
<1>. DEFINE n == Len(t)
            ps == Split(t, ",")
            l == Len(ps)
<1>1. PICK e : SplitUpTo(t, n, ",", ps, e)
  BY SplitIs
<1>2. Pieces(t, n, l, ps, e)
  BY <1>1 DEF Pieces
<1>3. ps = Split(t, ",")
  OBVIOUS
<1>. HIDE DEF n, l, ps
<1>4. /\ SequenceSetFromStr(t) # {} <=> IsSequenceSet(t, "FromStr")
      /\ \A z : IsSequenceSet(t, "FromStr") /\ AllRead(ps, l, z) => SequenceSetFromStr(t) = {z}
  BY <1>2, <1>3, SetFromStr, Zenon DEF AllRead
<1>5. /\ \A z \in sequence_set(t) : AllRead(ps, l, z)
      /\ sequence_set(t) # {} <=> IsSequenceSet(t, "parser")
  BY <1>2, SetParsed, Zenon
<1>6. ASSUME SequenceSetFromStr(t) # {}, sequence_set(t) # {} PROVE SequenceSetFromStr(t) = sequence_set(t)
  <2>1. \A z \in sequence_set(t) : SequenceSetFromStr(t) = {z}
    BY <1>4, <1>5, <1>6, Zenon
  <2>. DEFINE A == SequenceSetFromStr(t)
              B == sequence_set(t)
  <2>2. B # {} /\ \A z \in B : A = {z}
    BY <2>1, <1>6
  <2>. HIDE DEF A, B
  <2>3. A = B
    BY <2>2
  <2>. QED  BY <2>3 DEF A, B
<1>. QED  BY <1>4, <1>5, <1>6, Zenon

\* What is written is a text.
IsText == written \in Text

\* FromStr and the parser agree on every text that can be written, of any length and with
\* any largest number: each takes what its syntax says and nothing else, and what
\* both take is the same set.
THEOREM ReadersAgreeOnTexts == TextInit /\ [][WriteText]_written => []ReadersAgree
<1>1. Alphabet \subseteq Characters
  BY AlphabetAssumption DEF Characters
<1>2. TextInit => IsText
  BY EmptySeq DEF TextInit, IsText, Text
<1>3. IsText /\ [WriteText]_written => IsText'
  <2>1. ASSUME written \in Text, WriteText PROVE written' \in Text
    <3>1. PICK c \in Alphabet : written' = Append(written, c)
      BY <2>1 DEF WriteText
    <3>. QED  BY <3>1, <2>1, <1>1, AppendProperties DEF Text
  <2>. QED  BY <2>1 DEF IsText
<1>4. IsText => ReadersAgree
  <2>1. SUFFICES ASSUME written \in Text,
                        NEW fromStr \in {SequenceSetFromStr(written)}, NEW parsed \in {sequence_set(written)}
                 PROVE  /\ fromStr # {} <=> IsSequenceSet(written, "FromStr")
                        /\ parsed # {} <=> IsSequenceSet(written, "parser")
                        /\ fromStr # {} /\ parsed # {} => fromStr = parsed
    BY Zenon DEF ReadersAgree, IsText
  <2>2. fromStr = SequenceSetFromStr(written) /\ parsed = sequence_set(written)
    OBVIOUS
  <2>. QED  BY <2>1, <2>2, ReadersOf, Zenon
<1>. QED  BY <1>2, <1>3, <1>4, PTL
=============================================================================
