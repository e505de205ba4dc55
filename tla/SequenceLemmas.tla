--------------------------- MODULE SequenceLemmas ---------------------------
(***************************************************************************)
(* Facts about natural numbers, sequences, folds and sorting that the      *)
(* proofs of the other modules rest on.                                    *)
(***************************************************************************)
EXTENDS Integers, Sequences, SequencesExt, SequenceTheorems, FiniteSetTheorems,
        WellFoundedInduction, TLAPS

\* The least-number principle.  Induction over the natural numbers is used in
\* this form: a property without a least counterexample has none.
LEMMA LeastNumber ==
  ASSUME NEW T, T \subseteq Nat, T # {}
  PROVE  \E m \in T : \A k \in T : m <= k
<1>. DEFINE R == StrictSubsetOrdering(Nat)
            F == {0 .. k : k \in T}
<1>1. IsWellFoundedOn(R, FiniteSubsetsOf(Nat))
  BY FS_StrictSubsetOrderingWellFounded
<1>2. F \subseteq FiniteSubsetsOf(Nat) /\ F # {}
  <2>1. \A k \in T : IsFiniteSet(0 .. k) /\ 0 .. k \subseteq Nat
    BY FS_Interval
  <2>. QED  BY <2>1 DEF FiniteSubsetsOf
<1>. HIDE DEF R, F
<1>3. \E x \in F : \A y \in F : ~(<<y, x>> \in R)
  BY <1>1, <1>2, WFMin, Zenon
<1>. USE DEF R, F
<1>4. PICK m \in T : \A k \in T : ~(<<0 .. k, 0 .. m>> \in R)
  BY <1>3
<1>5. \A k \in T : k < m => <<0 .. k, 0 .. m>> \in R
  <2>1. ASSUME NEW k \in T, k < m
        PROVE  0 .. k \subseteq 0 .. m /\ 0 .. k # 0 .. m
    <3>1. m \in 0 .. m /\ m \notin 0 .. k  BY <2>1, SMT
    <3>. QED  BY <3>1, <2>1
  <2>. QED  BY <2>1 DEF StrictSubsetOrdering
<1>6. \A k \in T : ~(k < m)
  BY <1>4, <1>5
<1>. QED  BY <1>6

\* A slice from the beginning of a sequence.
LEMMA PrefixProperties ==
  ASSUME NEW S, NEW s \in Seq(S), NEW n \in 0 .. Len(s)
  PROVE  /\ SubSeq(s, 1, n) \in Seq(S)
         /\ Len(SubSeq(s, 1, n)) = n
         /\ \A i \in 1 .. n : SubSeq(s, 1, n)[i] = s[i]
<1>1. \A i \in 1 .. n : s[i] \in S
  BY ElementOfSeq
<1>. QED  BY <1>1, SubSeqProperties, Z3

\* A slice up to the end of a sequence.
LEMMA SuffixProperties ==
  ASSUME NEW S, NEW s \in Seq(S), NEW n \in 0 .. Len(s)
  PROVE  /\ SubSeq(s, n + 1, Len(s)) \in Seq(S)
         /\ Len(SubSeq(s, n + 1, Len(s))) = Len(s) - n
         /\ \A i \in 1 .. Len(s) - n : SubSeq(s, n + 1, Len(s))[i] = s[n + i]
<1>1. \A i \in n + 1 .. Len(s) : s[i] \in S
  BY ElementOfSeq
<1>. DEFINE t == SubSeq(s, n + 1, Len(s))
<1>2. /\ t \in Seq(S)
      /\ Len(t) = IF n + 1 <= Len(s) THEN Len(s) - (n + 1) + 1 ELSE 0
      /\ \A i \in 1 .. Len(s) - (n + 1) + 1 : t[i] = s[n + 1 + i - 1]
  BY <1>1, SubSeqProperties
<1>. HIDE DEF t
<1>3. Len(t) = Len(s) - n
  BY <1>2, LenProperties
<1>4. \A i \in 1 .. Len(s) - n : t[i] = s[n + i]
  BY <1>2, LenProperties
<1>. QED  BY <1>2, <1>3, <1>4 DEF t

\* Growing a sequence p by c elements of u and keeping k elements of p and j
\* of the c keeps the first k + j elements of the longer sequence, when
\* nothing is added once something was left out.
LEMMA KeepPrefix ==
  ASSUME NEW S, NEW p \in Seq(S), NEW u \in Seq(S),
         NEW c \in 0 .. Len(u), NEW k \in 0 .. Len(p), NEW j \in 0 .. c,
         k < Len(p) => j = 0
  PROVE  SubSeq(p, 1, k) \o SubSeq(u, 1, j)
           = SubSeq(p \o SubSeq(u, 1, c), 1, k + j)
<1>. DEFINE a == SubSeq(p, 1, k)
            b == SubSeq(u, 1, j)
            w == SubSeq(u, 1, c)
            t == p \o w
            r == SubSeq(t, 1, k + j)
<1>1. a \in Seq(S) /\ Len(a) = k /\ \A i \in 1 .. k : a[i] = p[i]
  BY PrefixProperties
<1>2. b \in Seq(S) /\ Len(b) = j /\ \A i \in 1 .. j : b[i] = u[i]
  BY PrefixProperties, LenProperties
<1>3. w \in Seq(S) /\ Len(w) = c /\ \A i \in 1 .. c : w[i] = u[i]
  BY PrefixProperties, LenProperties
<1>4. /\ t \in Seq(S) /\ Len(t) = Len(p) + c
      /\ \A i \in 1 .. Len(p) + c :
            t[i] = IF i <= Len(p) THEN p[i] ELSE w[i - Len(p)]
  <2>. HIDE DEF a, b, w, r
  <2>. QED  BY <1>3, ConcatProperties
<1>5. r \in Seq(S) /\ Len(r) = k + j /\ \A i \in 1 .. k + j : r[i] = t[i]
  <2>1. k + j \in 0 .. Len(t)  BY <1>4, LenProperties
  <2>. HIDE DEF t
  <2>. QED  BY <2>1, <1>4, PrefixProperties
<1>6. /\ a \o b \in Seq(S) /\ Len(a \o b) = k + j
      /\ \A i \in 1 .. k + j : (a \o b)[i] = IF i <= k THEN a[i] ELSE b[i - k]
  <2>. HIDE DEF a, b
  <2>. QED  BY <1>1, <1>2, ConcatProperties
<1>. HIDE DEF a, b, w, t, r
<1>7. Len(p) \in Nat /\ Len(u) \in Nat  BY LenProperties
<1>8. ASSUME NEW i \in 1 .. k + j PROVE (a \o b)[i] = r[i]
  <2>1. CASE i <= k
    <3>1. i \in 1 .. k /\ i \in 1 .. Len(p) + c /\ i <= Len(p)  BY <2>1, <1>7
    <3>2. (a \o b)[i] = p[i]  BY <2>1, <3>1, <1>1, <1>6
    <3>3. r[i] = p[i]  BY <3>1, <1>4, <1>5
    <3>. QED  BY <3>2, <3>3
  <2>2. CASE i > k
    <3>1. j > 0 /\ k = Len(p)  BY <2>2, <1>7
    <3>2. i - k \in 1 .. j /\ i - k \in 1 .. c  BY <2>2
    <3>3. (a \o b)[i] = u[i - k]  BY <2>2, <3>2, <1>2, <1>6
    <3>4. t[i] = w[i - k]  BY <2>2, <3>1, <3>2, <1>4, <1>7
    <3>5. r[i] = u[i - k]  BY <3>2, <3>4, <1>3, <1>5
    <3>. QED  BY <3>3, <3>5
  <2>3. i <= k \/ i > k  BY <1>7
  <2>. QED  BY <2>1, <2>2, <2>3, Zenon
<1>9. a \o b = r
  BY <1>5, <1>6, <1>8, SeqEqual
<1>. QED  BY <1>9 DEF a, b, w, t, r

-----------------------------------------------------------------------------
(* Elements.                                                               *)

\* The set of the elements of a sequence is finite.
LEMMA ToSetFinite ==
  ASSUME NEW X, NEW s \in Seq(X)
  PROVE  /\ IsFiniteSet(ToSet(s)) /\ ToSet(s) \subseteq X
         /\ ToSet(s) = {s[i] : i \in 1 .. Len(s)}
<1>1. Len(s) \in Nat /\ DOMAIN s = 1 .. Len(s) /\ \A i \in 1 .. Len(s) : s[i] \in X
  BY LenProperties, ElementOfSeq
<1>2. ToSet(s) = {s[i] : i \in 1 .. Len(s)}
  BY <1>1 DEF ToSet
<1>3. [i \in 1 .. Len(s) |-> s[i]] \in Surjection(1 .. Len(s), ToSet(s))
  BY <1>2 DEF Surjection
<1>4. ExistsSurjection(1 .. Len(s), ToSet(s))
  BY <1>3 DEF ExistsSurjection
<1>. QED  BY <1>1, <1>2, <1>4, FS_NatSurjection

\* The elements of a sequence are its first one and those of the rest; and
\* those of a longer one are the elements and the new one.
LEMMA HeadTailSet ==
  ASSUME NEW X, NEW s \in Seq(X), s # <<>>
  PROVE  /\ Head(s) \in X /\ Tail(s) \in Seq(X) /\ Len(Tail(s)) \in Nat
         /\ Len(s) = Len(Tail(s)) + 1 /\ Head(s) = s[1]
         /\ \A i \in 1 .. Len(Tail(s)) : Tail(s)[i] = s[i + 1]
         /\ ToSet(s) = {Head(s)} \cup ToSet(Tail(s))
<1>. DEFINE t == Tail(s)
<1>1. /\ Head(s) \in X /\ t \in Seq(X) /\ Len(t) = Len(s) - 1 /\ Head(s) = s[1]
      /\ \A i \in 1 .. Len(t) : t[i] = s[i + 1]
  BY HeadTailProperties
<1>2. Len(s) \in Nat /\ Len(s) > 0 /\ Len(t) \in Nat /\ Len(s) = Len(t) + 1
  BY <1>1, LenProperties, EmptySeq
<1>. HIDE DEF t
<1>3. ToSet(s) = {s[i] : i \in 1 .. Len(s)} /\ ToSet(t) = {t[i] : i \in 1 .. Len(t)}
  BY <1>1, ToSetFinite
<1>4. ASSUME NEW i \in 1 .. Len(s) PROVE s[i] \in {Head(s)} \cup ToSet(t)
  <2>1. i = 1 \/ (i - 1 \in 1 .. Len(t) /\ (i - 1) + 1 = i)
    BY <1>2
  <2>. QED  BY <2>1, <1>1, <1>3
<1>5. Head(s) \in ToSet(s)
  <2>1. 1 \in 1 .. Len(s)
    BY <1>2
  <2>. QED  BY <2>1, <1>1, <1>3
<1>6. ASSUME NEW i \in 1 .. Len(t) PROVE t[i] \in ToSet(s)
  <2>1. i + 1 \in 1 .. Len(s)
    BY <1>2
  <2>. QED  BY <2>1, <1>1, <1>3
<1>7. ToSet(s) = {Head(s)} \cup ToSet(t)
  BY <1>3, <1>4, <1>5, <1>6
<1>. QED  BY <1>1, <1>2, <1>7 DEF t

\* Append adds one element.
LEMMA AppendSet ==
  ASSUME NEW X, NEW s \in Seq(X), NEW x \in X
  PROVE  /\ Append(s, x) \in Seq(X) /\ ToSet(Append(s, x)) = ToSet(s) \cup {x}
         /\ Len(s) \in Nat /\ Len(Append(s, x)) = Len(s) + 1
         /\ Append(s, x)[Len(s) + 1] = x
         /\ \A i \in 1 .. Len(s) : Append(s, x)[i] = s[i]
<1>. DEFINE t == Append(s, x)
<1>1. /\ t \in Seq(X) /\ Len(s) \in Nat /\ Len(t) = Len(s) + 1 /\ t[Len(s) + 1] = x
      /\ \A i \in 1 .. Len(s) : t[i] = s[i]
  BY AppendProperties, LenProperties
<1>. HIDE DEF t
<1>2. ToSet(s) = {s[i] : i \in 1 .. Len(s)} /\ ToSet(t) = {t[i] : i \in 1 .. Len(t)}
  BY <1>1, ToSetFinite
<1>3. 1 .. Len(t) = 1 .. Len(s) \cup {Len(s) + 1}
  BY <1>1
<1>4. ToSet(t) = ToSet(s) \cup {x}
  BY <1>1, <1>2, <1>3
<1>. QED  BY <1>1, <1>4 DEF t

\* A sequence is one over its own elements.
LEMMA OwnElements ==
  ASSUME NEW X, NEW q \in Seq(X)
  PROVE  q \in Seq(ToSet(q)) /\ DOMAIN q = 1 .. Len(q) /\ Len(q) \in Nat
<1>1. Len(q) \in Nat /\ DOMAIN q = 1 .. Len(q) /\ q \in [1 .. Len(q) -> X]
  BY LenProperties
<1>2. \A i \in 1 .. Len(q) : q[i] \in ToSet(q)
  BY <1>1 DEF ToSet
<1>3. q \in [1 .. Len(q) -> ToSet(q)]
  BY <1>1, <1>2
<1>4. q \in Seq(ToSet(q))
  BY <1>1, <1>3, IsASeq
<1>. QED  BY <1>1, <1>4

\* What is left of a queue when the first element is taken.
LEMMA QueueTail ==
  ASSUME NEW q, q \in Seq(ToSet(q)), q # <<>>
  PROVE  /\ DOMAIN q = 1 .. Len(q) /\ Len(q) \in Nat /\ Len(q) > 0 /\ Head(q) = q[1]
         /\ Tail(q) \in Seq(ToSet(Tail(q))) /\ DOMAIN Tail(q) = 1 .. Len(Tail(q))
         /\ Len(Tail(q)) = Len(q) - 1
         /\ \A i \in 1 .. Len(q) - 1 : Tail(q)[i] = q[i + 1]
<1>. DEFINE X == ToSet(q)
            t == Tail(q)
<1>1. q \in Seq(X)
  OBVIOUS
<1>. HIDE DEF X
<1>2. /\ t \in Seq(X) /\ Len(t) \in Nat /\ Len(q) = Len(t) + 1 /\ Head(q) = q[1]
      /\ \A i \in 1 .. Len(t) : t[i] = q[i + 1]
  BY <1>1, HeadTailSet
<1>. HIDE DEF t
<1>3. t \in Seq(ToSet(t)) /\ DOMAIN t = 1 .. Len(t)
  BY <1>2, OwnElements
<1>4. DOMAIN q = 1 .. Len(q)
  BY <1>1, LenProperties
<1>5. Len(q) \in Nat /\ Len(q) > 0 /\ Len(t) = Len(q) - 1
  BY <1>2
<1>. QED  BY <1>2, <1>3, <1>4, <1>5 DEF t

\* A queue with one element more.
LEMMA QueueAppend ==
  ASSUME NEW q, q \in Seq(ToSet(q)), NEW x
  PROVE  /\ DOMAIN q = 1 .. Len(q) /\ Len(q) \in Nat
         /\ Append(q, x) \in Seq(ToSet(Append(q, x))) /\ DOMAIN Append(q, x) = 1 .. Len(q) + 1
         /\ Len(Append(q, x)) = Len(q) + 1 /\ Append(q, x)[Len(q) + 1] = x
         /\ \A i \in 1 .. Len(q) : Append(q, x)[i] = q[i]
<1>. DEFINE X == ToSet(q) \cup {x}
            t == Append(q, x)
<1>1. q \in Seq(X) /\ x \in X
  BY SeqMonotonic
<1>. HIDE DEF X
<1>2. /\ t \in Seq(X) /\ Len(q) \in Nat /\ Len(t) = Len(q) + 1 /\ t[Len(q) + 1] = x
      /\ \A i \in 1 .. Len(q) : t[i] = q[i]
  BY <1>1, AppendSet
<1>. HIDE DEF t
<1>3. t \in Seq(ToSet(t)) /\ DOMAIN t = 1 .. Len(t)
  BY <1>2, OwnElements
<1>4. DOMAIN q = 1 .. Len(q)
  BY <1>1, LenProperties
<1>. QED  BY <1>2, <1>3, <1>4 DEF t

-----------------------------------------------------------------------------
(* Folds.                                                                  *)

\* A set of indices that is not empty has a largest one, Max.
LEMMA MaxOf ==
  ASSUME NEW n \in Nat, NEW T \in SUBSET (1 .. n), T # {}
  PROVE  Max(T) \in T /\ \A y \in T : y <= Max(T)
<1>. DEFINE D == {n - y : y \in T}
<1>0. \A y \in T : y \in 1 .. n /\ y \in Int /\ n - y \in Nat
  OBVIOUS
<1>1. PICK d \in D : \A e \in D : d <= e
  <2>1. D \subseteq Nat /\ D # {}
    BY <1>0
  <2>. HIDE DEF D
  <2>. QED  BY <2>1, LeastNumber
<1>2. PICK x \in T : d = n - x
  OBVIOUS
<1>3. \A y \in T : x >= y
  <2>. TAKE y \in T
  <2>1. n - x <= n - y
    BY <1>1, <1>2
  <2>2. x \in Int /\ y \in Int /\ n \in Int
    BY <1>0
  <2>. QED  BY <2>1, <2>2
<1>4. \E m \in T : \A y \in T : m >= y
  BY <1>3
<1>5. Max(T) \in T /\ \A y \in T : Max(T) >= y
  BY <1>4, Zenon DEF Max
<1>. QED  BY <1>5

\* The largest number of an interval.
LEMMA MaxOfInterval ==
  ASSUME NEW n \in Nat, n > 0
  PROVE  Max(1 .. n) = n /\ (1 .. n) \ {n} = 1 .. n - 1
<1>1. Max(1 .. n) \in 1 .. n /\ \A y \in 1 .. n : y <= Max(1 .. n)
  <2>1. 1 .. n \in SUBSET (1 .. n) /\ 1 .. n # {}
    OBVIOUS
  <2>. QED  BY <2>1, MaxOf
<1>. QED  BY <1>1

\* The first k indices of n are a set of indices that is not empty.
LEMMA InitialInterval ==
  ASSUME NEW n \in Nat, NEW k \in 1 .. n
  PROVE  1 .. k \in SUBSET (1 .. n) /\ 1 .. k # {} /\ k \in 0 .. n /\ k - 1 \in 0 .. n
<1>1. k \in 1 .. k /\ k \in Nat /\ k <= n
  OBVIOUS
<1>2. \A i \in 1 .. k : i \in 1 .. n
  BY <1>1
<1>. QED  BY <1>1, <1>2

\* A fold over a sequence is defined: there is a function that follows its
\* equation on all sets of indices.
Folds(f, X, k, base, step) ==
  /\ f \in [SUBSET (1 .. k) -> X]
  /\ \A T \in SUBSET (1 .. k) :
       f[T] = IF T = {} THEN base ELSE step[<<f[T \ {Max(T)}], Max(T)>>]

\* FoldLeft over a sequence goes through one result for each prefix.
LEMMA FoldExists ==
  ASSUME NEW X, NEW n \in Nat, NEW base \in X, NEW step \in [X \X (1 .. n) -> X]
  PROVE  \E f : Folds(f, X, n, base, step)
<1>. USE DEF Folds
<1>. DEFINE Is(f, k) == Folds(f, X, k, base, step)
            Unmade == {k \in 0 .. n : ~ \E f : Is(f, k)}
<1>1. Unmade = {}
  <2>1. SUFFICES ASSUME Unmade # {} PROVE FALSE
    OBVIOUS
  <2>2. PICK m \in Unmade : \A k \in Unmade : m <= k
    <3>1. Unmade \subseteq Nat  OBVIOUS
    <3>. HIDE DEF Unmade
    <3>. QED  BY <3>1, <2>1, LeastNumber
  <2>3. m # 0
    <3>. DEFINE f0 == [T \in SUBSET (1 .. 0) |-> base]
    <3>1. \A T \in SUBSET (1 .. 0) : T = {}
      OBVIOUS
    <3>2. Is(f0, 0)
      BY <3>1
    <3>. HIDE DEF Is, f0
    <3>. QED  BY <3>2
  <2>4. m - 1 \in 0 .. n /\ m - 1 \notin Unmade /\ m \in 1 .. n
    <3>1. m \in 0 .. n /\ m - 1 \in 0 .. n /\ ~(m <= m - 1) /\ m \in 1 .. n
      BY <2>2, <2>3
    <3>. HIDE DEF Unmade
    <3>. QED  BY <3>1, <2>2
  <2>5. PICK g : Is(g, m - 1)
    <3>. HIDE DEF Is
    <3>. QED  BY <2>4
  <2>. DEFINE f == [T \in SUBSET (1 .. m) |->
                      IF m \in T THEN step[<<g[T \ {m}], m>>] ELSE g[T]]
  <2>6. ASSUME NEW T \in SUBSET (1 .. m)
        PROVE  /\ f[T] \in X
               /\ f[T] = IF T = {} THEN base ELSE step[<<f[T \ {Max(T)}], Max(T)>>]
    <3>0. T \ {m} \in SUBSET (1 .. m - 1) /\ T \ {m} \in SUBSET (1 .. m)
      BY <2>4
    <3>1. CASE m \in T
      <4>1. Max(T) = m
        <5>0. m \in Nat /\ T # {}
          BY <3>1, <2>4
        <5>1. Max(T) \in T /\ m <= Max(T)
          BY <5>0, <3>1, MaxOf
        <5>2. Max(T) \in 1 .. m
          BY <5>1
        <5>. QED  BY <5>0, <5>1, <5>2
      <4>2. f[T] = step[<<g[T \ {m}], m>>] /\ f[T \ {m}] = g[T \ {m}]
        BY <3>1, <3>0
      <4>3. g[T \ {m}] \in X
        BY <3>0, <2>5
      <4>4. step[<<g[T \ {m}], m>>] \in X
        BY <4>3, <2>4
      <4>. QED  BY <3>1, <4>1, <4>2, <4>4
    <3>2. CASE m \notin T
      <4>1. T \in SUBSET (1 .. m - 1)
        BY <3>2, <3>0
      <4>2. f[T] = g[T]
        BY <3>2
      <4>3. g[T] \in X /\ g[T] = IF T = {} THEN base ELSE step[<<g[T \ {Max(T)}], Max(T)>>]
        BY <4>1, <2>5
      <4>4. T # {} => f[T \ {Max(T)}] = g[T \ {Max(T)}]
        BY <3>2
      <4>. HIDE DEF f
      <4>. QED  BY <4>2, <4>3, <4>4
    <3>. QED  BY <3>1, <3>2
  <2>7. Is(f, m)
    <3>1. f = [T \in SUBSET (1 .. m) |-> f[T]]  OBVIOUS
    <3>. HIDE DEF f
    <3>. QED  BY <3>1, <2>6
  <2>. HIDE DEF Is
  <2>. QED  BY <2>2, <2>7
<1>2. \E f : Is(f, n)
  <2>. HIDE DEF Is
  <2>. QED  BY <1>1
<1>. QED  BY <1>2

\* The larger one of two numbers.
LEMMA MaxOfTwo ==
  ASSUME NEW x \in Int, NEW y \in Int
  PROVE  Max({x, y}) = IF x >= y THEN x ELSE y
<1>1. \A m \in {x, y} : (\A z \in {x, y} : m >= z) => m = IF x >= y THEN x ELSE y
  OBVIOUS
<1>2. \E m \in {x, y} : \A z \in {x, y} : m >= z
  OBVIOUS
<1>. QED  BY <1>1, <1>2 DEF Max

\* The smaller one of two numbers.
LEMMA MinOfTwo ==
  ASSUME NEW x \in Int, NEW y \in Int
  PROVE  Min({x, y}) = IF x <= y THEN x ELSE y
<1>1. \A m \in {x, y} : (\A z \in {x, y} : m <= z) => m = IF x <= y THEN x ELSE y
  OBVIOUS
<1>2. \E m \in {x, y} : \A z \in {x, y} : m <= z
  OBVIOUS
<1>. QED  BY <1>1, <1>2 DEF Min

-----------------------------------------------------------------------------
(* Sorting.                                                                *)

\* A finite set that R orders strictly and totally has a sorted sequence: an
\* element comes as many places after the first as it has elements below it.
LEMMA SortExists ==
  ASSUME NEW S, IsFiniteSet(S), NEW R,
         \A x \in S : <<x, x>> \notin R,
         \A x, y \in S : x # y => <<x, y>> \in R \/ <<y, x>> \in R,
         \A x, y, z \in S : <<x, y>> \in R /\ <<y, z>> \in R => <<x, z>> \in R
  PROVE  \E s \in SetToSeqs(S) : \A i, j \in DOMAIN s : i < j => <<s[i], s[j]>> \in R
<1>. DEFINE n == Cardinality(S)
            Under(x) == {y \in S : <<y, x>> \in R}
            rank == [x \in S |-> Cardinality(Under(x)) + 1]
<1>1. n \in Nat /\ IsFiniteSet(1 .. n) /\ Cardinality(1 .. n) = n
  BY FS_CardinalityType, FS_Interval
<1>2. \A x \in S : /\ IsFiniteSet(Under(x)) /\ Cardinality(Under(x)) \in Nat
                   /\ Cardinality(Under(x)) < n
  <2>. TAKE x \in S
  <2>1. Under(x) \in SUBSET S /\ Under(x) # S
    OBVIOUS
  <2>. HIDE DEF Under
  <2>2. IsFiniteSet(Under(x)) /\ Cardinality(Under(x)) <= n /\ Cardinality(Under(x)) # n
    BY <2>1, FS_Subset
  <2>3. Cardinality(Under(x)) \in Nat
    BY <2>2, FS_CardinalityType
  <2>. QED  BY <2>2, <2>3, <1>1
<1>3. \A x, y \in S : <<x, y>> \in R => Cardinality(Under(x)) < Cardinality(Under(y))
  <2>. SUFFICES ASSUME NEW x \in S, NEW y \in S, <<x, y>> \in R
                PROVE  Cardinality(Under(x)) < Cardinality(Under(y))
    OBVIOUS
  <2>1. Under(x) \in SUBSET Under(y) /\ x \in Under(y) /\ x \notin Under(x)
    OBVIOUS
  <2>2. IsFiniteSet(Under(y)) /\ Cardinality(Under(x)) \in Nat /\ Cardinality(Under(y)) \in Nat
    BY <1>2
  <2>. HIDE DEF Under
  <2>3. Cardinality(Under(x)) <= Cardinality(Under(y))
    BY <2>1, <2>2, FS_Subset
  <2>4. Cardinality(Under(x)) # Cardinality(Under(y))
    BY <2>1, <2>2, FS_Subset
  <2>. QED  BY <2>2, <2>3, <2>4
<1>. HIDE DEF Under
<1>4. rank \in [S -> 1 .. n]
  <2>1. \A x \in S : Cardinality(Under(x)) + 1 \in 1 .. n
    BY <1>1, <1>2
  <2>. QED  BY <2>1
<1>5. \A x, y \in S : <<x, y>> \in R => rank[x] < rank[y]
  <2>. TAKE x, y \in S
  <2>. HAVE <<x, y>> \in R
  <2>1. Cardinality(Under(x)) < Cardinality(Under(y)) /\ Cardinality(Under(x)) \in Nat
        /\ Cardinality(Under(y)) \in Nat
    BY <1>2, <1>3
  <2>. QED  BY <2>1
<1>. HIDE DEF rank
<1>6. rank \in Injection(S, 1 .. n)
  <2>1. \A x, y \in S : rank[x] = rank[y] => x = y
    <3>. SUFFICES ASSUME NEW x \in S, NEW y \in S, x # y PROVE rank[x] # rank[y]
      OBVIOUS
    <3>1. rank[x] < rank[y] \/ rank[y] < rank[x]
      BY <1>5
    <3>2. rank[x] \in Nat /\ rank[y] \in Nat
      BY <1>4
    <3>. QED  BY <3>1, <3>2
  <2>. QED  BY <2>1, <1>4 DEF Injection, IsInjective
<1>7. rank \in Surjection(S, 1 .. n)
  BY <1>6, <1>1, FS_Injection
<1>8. \A i \in 1 .. n : \E x \in S : rank[x] = i
  BY <1>7 DEF Surjection
<1>. DEFINE s == [i \in 1 .. n |-> CHOOSE x \in S : rank[x] = i]
<1>9. \A i \in 1 .. n : s[i] \in S /\ rank[s[i]] = i
  BY <1>8
<1>10. s \in [1 .. n -> S] /\ DOMAIN s = 1 .. n
  BY <1>9
<1>. HIDE DEF s
<1>11. \A i, j \in 1 .. n : i # j => s[i] # s[j]
  BY <1>9
<1>12. s \in SetToSeqs(S)
  BY <1>10, <1>11 DEF SetToSeqs
<1>13. \A i, j \in 1 .. n : i < j => <<s[i], s[j]>> \in R
  <2>. SUFFICES ASSUME NEW i \in 1 .. n, NEW j \in 1 .. n, i < j PROVE <<s[i], s[j]>> \in R
    OBVIOUS
  <2>1. <<s[i], s[j]>> \in R \/ <<s[j], s[i]>> \in R
    BY <1>9, <1>11
  <2>2. ~(<<s[j], s[i]>> \in R)
    <3>1. ASSUME <<s[j], s[i]>> \in R PROVE FALSE
      <4>1. j < i
        BY <3>1, <1>5, <1>9
      <4>. QED  BY <4>1
    <3>. QED  BY <3>1
  <2>. QED  BY <2>1, <2>2
<1>. QED  BY <1>10, <1>12, <1>13

\* The sequences that SetToSeqs makes have each element of the set once.
LEMMA ArrangedFacts ==
  ASSUME NEW S, IsFiniteSet(S), NEW s \in SetToSeqs(S)
  PROVE  /\ s \in Seq(S) /\ DOMAIN s = 1 .. Len(s) /\ ToSet(s) = S
         /\ \A i, j \in 1 .. Len(s) : s[i] = s[j] => i = j
<1>. DEFINE n == Cardinality(S)
<1>1. n \in Nat /\ IsFiniteSet(1 .. n) /\ Cardinality(1 .. n) = n
  BY FS_CardinalityType, FS_Interval
<1>. HIDE DEF n
<1>2. s \in [1 .. n -> S] /\ \A i, j \in 1 .. n : i # j => s[i] # s[j]
  BY DEF SetToSeqs, n
<1>3. s \in Seq(S) /\ Len(s) = n /\ DOMAIN s = 1 .. n
  BY <1>1, <1>2, SeqDef, LenProperties
<1>4. s \in Injection(1 .. n, S)
  BY <1>2 DEF Injection, IsInjective
<1>5. s \in Surjection(1 .. n, S)
  BY <1>1, <1>4, FS_Injection DEF n
<1>6. ToSet(s) = S
  BY <1>3, <1>5, <1>2 DEF ToSet, Surjection
<1>. QED  BY <1>2, <1>3, <1>6

-----------------------------------------------------------------------------
(* The elements of a sequence of sequences, one after another.             *)

\* What the first k elements of ss come to.
Beginning(ss, k) == FlattenSeq(SubSeq(ss, 1, k))

\* One result for each number of elements.
Flattens(h, ss, X) ==
  /\ h \in [0 .. Len(ss) -> Seq(X)]
  /\ h[0] = <<>>
  /\ \A k \in 1 .. Len(ss) : h[k] = h[k - 1] \o ss[k]

\* There are such results.
LEMMA FlattenExists ==
  ASSUME NEW X, NEW ss \in Seq(Seq(X))
  PROVE  \E h : Flattens(h, ss, X)
<1>. DEFINE n == Len(ss)
            Is(h, m) == /\ h \in [0 .. m -> Seq(X)]
                        /\ h[0] = <<>>
                        /\ \A k \in 1 .. m : h[k] = h[k - 1] \o ss[k]
            Unmade == {k \in 0 .. n : ~ \E h : Is(h, k)}
<1>1. n \in Nat /\ \A k \in 1 .. n : ss[k] \in Seq(X)
  BY LenProperties, ElementOfSeq
<1>2. ASSUME Unmade # {} PROVE FALSE
  <2>1. PICK m \in Unmade : \A k \in Unmade : m <= k
    <3>. HIDE DEF Is
    <3>1. Unmade \subseteq Nat  BY <1>1
    <3>. HIDE DEF Unmade
    <3>. QED  BY <3>1, <1>2, LeastNumber
  <2>2. m # 0
    <3>. DEFINE f0 == [i \in 0 .. 0 |-> <<>>]
    <3>1. f0 \in [0 .. 0 -> Seq(X)] /\ f0[0] = <<>>
      BY EmptySeq
    <3>2. 1 .. 0 = {}
      OBVIOUS
    <3>. HIDE DEF f0
    <3>3. Is(f0, 0)
      BY <3>1, <3>2
    <3>. QED  BY <3>3
  <2>3. m \in 1 .. n /\ m - 1 \in 0 .. n /\ m - 1 \notin Unmade /\ m \in Nat
    <3>1. m \in 0 .. n /\ m \in 1 .. n /\ m - 1 \in 0 .. n /\ ~(m <= m - 1) /\ m \in Nat
      BY <2>1, <2>2, <1>1
    <3>. HIDE DEF Unmade
    <3>. QED  BY <3>1, <2>1
  <2>4. PICK g : Is(g, m - 1)
    BY <2>3
  <2>. DEFINE last == g[m - 1] \o ss[m]
  <2>5. last \in Seq(X)
    <3>1. m - 1 \in 0 .. m - 1
      BY <2>3
    <3>2. g[m - 1] \in Seq(X) /\ ss[m] \in Seq(X)
      BY <3>1, <2>4, <2>3, <1>1
    <3>. QED  BY <3>2, ConcatProperties
  <2>. HIDE DEF last
  <2>. DEFINE f == [i \in 0 .. m |-> IF i = m THEN last ELSE g[i]]
  <2>6. f[m] = last /\ f[m - 1] = g[m - 1]
    BY <2>3
  <2>7. f \in [0 .. m -> Seq(X)] /\ f[0] = <<>> /\ \A k \in 1 .. m - 1 : f[k] = g[k] /\ f[k - 1] = g[k - 1]
    <3>1. g \in [0 .. m - 1 -> Seq(X)] /\ g[0] = <<>>
      BY <2>4
    <3>. HIDE DEF Is
    <3>2. \A i \in 0 .. m : i = m \/ i \in 0 .. m - 1
      BY <2>3
    <3>3. f \in [0 .. m -> Seq(X)]
      BY <2>5, <3>1, <3>2
    <3>4. /\ 0 \in 0 .. m /\ 0 # m
          /\ \A k \in 1 .. m - 1 : k \in 0 .. m /\ k # m /\ k - 1 \in 0 .. m /\ k - 1 # m
      BY <2>3
    <3>5. f[0] = <<>> /\ \A k \in 1 .. m - 1 : f[k] = g[k] /\ f[k - 1] = g[k - 1]
      BY <3>1, <3>4
    <3>. QED  BY <3>3, <3>5
  <2>. HIDE DEF f
  <2>8. \A k \in 1 .. m : k \in 1 .. m - 1 \/ k = m
    BY <2>3
  <2>9. Is(f, m)
    <3>1. \A k \in 1 .. m : f[k] = f[k - 1] \o ss[k]
      BY <2>4, <2>6, <2>7, <2>8 DEF last
    <3>. QED  BY <3>1, <2>7
  <2>. QED  BY <2>1, <2>9
<1>3. \E h : Is(h, n)
  <2>1. n \in 0 .. n
    BY <1>1
  <2>. HIDE DEF Is
  <2>. QED  BY <2>1, <1>2
<1>. QED  BY <1>3 DEF Flattens

\* The first k elements come to the k-th result.
LEMMA FlattenIs ==
  ASSUME NEW X, NEW ss \in Seq(Seq(X)), NEW h, Flattens(h, ss, X), NEW k \in 0 .. Len(ss)
  PROVE  Beginning(ss, k) = h[k]
<1>. DEFINE t == SubSeq(ss, 1, k)
            Is(f) == f = [i \in 1 .. Len(t) |-> IF i = 1 THEN t[i] ELSE f[i - 1] \o t[i]]
            F == CHOOSE f : Is(f)
            g == [i \in 1 .. Len(t) |-> h[i]]
<1>1. Len(ss) \in Nat /\ t \in Seq(Seq(X)) /\ Len(t) = k /\ \A i \in 1 .. k : t[i] = ss[i]
  BY LenProperties, PrefixProperties
<1>2. FlattenSeq(t) = IF Len(t) = 0 THEN t ELSE F[Len(t)]
  BY DEF FlattenSeq
<1>. HIDE DEF t
<1>3. CASE k = 0
  <2>1. t = <<>>
    BY <1>1, <1>3, EmptySeq
  <2>. QED  BY <2>1, <1>1, <1>2, <1>3 DEF Beginning, Flattens, t
<1>4. CASE k # 0
  <2>1. k \in 1 .. Len(ss) /\ \A i \in 1 .. k : i \in 1 .. Len(ss) /\ i - 1 \in 0 .. k /\ (i # 1 => i - 1 \in 1 .. k)
    BY <1>1, <1>4
  <2>2. h[1] = ss[1] /\ \A i \in 1 .. k : h[i] = h[i - 1] \o ss[i]
    <3>1. 1 \in 1 .. Len(ss)
      BY <2>1
    <3>2. h[0] \o ss[1] = ss[1]
      <4>1. ss[1] \in Seq(X) /\ h[0] = <<>>
        BY <3>1, ElementOfSeq DEF Flattens
      <4>. QED  BY <4>1, ConcatEmptySeq
    <3>3. h[1] = h[0] \o ss[1]
      <4>1. \A i \in 1 .. Len(ss) : i = 1 => h[i] = h[0] \o ss[i]
        <5>1. 1 - 1 = 0
          OBVIOUS
        <5>. QED  BY <5>1 DEF Flattens
      <4>. QED  BY <4>1, <3>1
    <3>4. \A i \in 1 .. k : h[i] = h[i - 1] \o ss[i]
      BY <2>1 DEF Flattens
    <3>. QED  BY <3>2, <3>3, <3>4
  <2>3. \E f : Is(f)
    <3>1. ASSUME NEW i \in 1 .. k
          PROVE  g[i] = IF i = 1 THEN t[i] ELSE g[i - 1] \o t[i]
      <4>1. g[i] = h[i] /\ (i # 1 => g[i - 1] = h[i - 1]) /\ t[i] = ss[i]
        BY <1>1, <2>1
      <4>2. CASE i = 1
        BY <4>1, <4>2, <2>2
      <4>3. CASE i # 1
        <5>. HIDE DEF g
        <5>. QED  BY <4>1, <4>3, <2>2
      <4>. QED  BY <4>2, <4>3
    <3>2. g = [i \in 1 .. Len(t) |-> g[i]]
      OBVIOUS
    <3>. HIDE DEF g
    <3>3. Is(g)
      BY <3>1, <3>2, <1>1
    <3>. HIDE DEF Is
    <3>. QED  BY <3>3
  <2>4. Is(F)
    <3>. HIDE DEF Is
    <3>. QED  BY <2>3
  <2>. HIDE DEF F
  <2>. DEFINE Wrong == {i \in 1 .. k : F[i] # h[i]}
  <2>5. ASSUME Wrong # {} PROVE FALSE
    <3>1. PICK m \in Wrong : \A i \in Wrong : m <= i
      <4>1. Wrong \subseteq Nat  OBVIOUS
      <4>. HIDE DEF Wrong
      <4>. QED  BY <4>1, <2>5, LeastNumber
    <3>2. m \in 1 .. k /\ F[m] # h[m] /\ (m # 1 => m - 1 \in 1 .. k /\ m - 1 \notin Wrong)
      BY <3>1, <2>1
    <3>3. F[m] = IF m = 1 THEN t[m] ELSE F[m - 1] \o t[m]
      BY <3>2, <2>4, <1>1
    <3>4. t[m] = ss[m] /\ h[m] = h[m - 1] \o ss[m]
      BY <3>2, <1>1, <2>2
    <3>5. CASE m = 1
      BY <3>2, <3>3, <3>4, <3>5, <2>2
    <3>6. CASE m # 1
      <4>1. F[m - 1] = h[m - 1]
        BY <3>2, <3>6
      <4>. QED  BY <4>1, <3>2, <3>3, <3>4, <3>6, Zenon
    <3>. QED  BY <3>5, <3>6
  <2>6. F[k] = h[k]
    <3>1. k \in 1 .. k
      BY <2>1
    <3>. QED  BY <3>1, <2>5
  <2>. QED  BY <2>6, <1>1, <1>2, <1>4 DEF Beginning, t
<1>. QED  BY <1>3, <1>4

\* The equations of Beginning.
LEMMA BeginningEquations ==
  ASSUME NEW X, NEW ss \in Seq(Seq(X))
  PROVE  /\ Beginning(ss, 0) = <<>>
         /\ \A k \in 0 .. Len(ss) : Beginning(ss, k) \in Seq(X)
         /\ \A k \in 1 .. Len(ss) : Beginning(ss, k) = Beginning(ss, k - 1) \o ss[k]
         /\ Beginning(ss, Len(ss)) = FlattenSeq(ss)
<1>1. PICK h : Flattens(h, ss, X)
  BY FlattenExists
<1>2. \A k \in 0 .. Len(ss) : Beginning(ss, k) = h[k]
  BY <1>1, FlattenIs
<1>3. Len(ss) \in Nat /\ 0 \in 0 .. Len(ss) /\ \A k \in 1 .. Len(ss) : k \in 0 .. Len(ss) /\ k - 1 \in 0 .. Len(ss)
  <2>1. Len(ss) \in Nat
    BY LenProperties
  <2>. QED  BY <2>1
<1>4. SubSeq(ss, 1, Len(ss)) = ss
  BY SubSeqFull
<1>5. Beginning(ss, 0) = <<>> /\ \A k \in 0 .. Len(ss) : Beginning(ss, k) \in Seq(X)
  BY <1>1, <1>2, <1>3 DEF Flattens
<1>6. \A k \in 1 .. Len(ss) : Beginning(ss, k) = Beginning(ss, k - 1) \o ss[k]
  BY <1>1, <1>2, <1>3 DEF Flattens
<1>7. Beginning(ss, Len(ss)) = FlattenSeq(ss)
  BY <1>4 DEF Beginning
<1>. QED  BY <1>5, <1>6, <1>7

-----------------------------------------------------------------------------
(* Where a sequence stands in a longer one.                                *)

\* q is what comes after the first o elements of stream.
StandsAt(q, stream, o) ==
  o + Len(q) <= Len(stream) /\ \A i \in 1 .. Len(q) : q[i] = stream[o + i]

\* The two halves of a sequence that stands in a stream, and the other way round.
LEMMA StandsConcat ==
  ASSUME NEW X, NEW a \in Seq(X), NEW b \in Seq(X), NEW stream \in Seq(X), NEW o \in Nat
  PROVE  StandsAt(a \o b, stream, o)
           <=> StandsAt(a, stream, o) /\ StandsAt(b, stream, o + Len(a))
<1>. DEFINE c == a \o b
<1>1. /\ Len(a) \in Nat /\ Len(b) \in Nat /\ Len(stream) \in Nat /\ Len(c) = Len(a) + Len(b)
      /\ \A i \in 1 .. Len(a) + Len(b) : c[i] = IF i <= Len(a) THEN a[i] ELSE b[i - Len(a)]
  BY ConcatProperties, LenProperties
<1>. HIDE DEF c
<1>2. ASSUME StandsAt(c, stream, o) PROVE StandsAt(a, stream, o)
  <2>1. \A i \in 1 .. Len(a) : i \in 1 .. Len(a) + Len(b) /\ i <= Len(a)
    BY <1>1
  <2>. QED  BY <1>1, <1>2, <2>1 DEF StandsAt
<1>3. ASSUME StandsAt(c, stream, o) PROVE StandsAt(b, stream, o + Len(a))
  <2>1. ASSUME NEW i \in 1 .. Len(b) PROVE b[i] = stream[o + Len(a) + i]
    <3>1. /\ Len(a) + i \in 1 .. Len(a) + Len(b) /\ ~(Len(a) + i <= Len(a))
          /\ (Len(a) + i) - Len(a) = i /\ o + (Len(a) + i) = o + Len(a) + i
      BY <1>1
    <3>2. c[Len(a) + i] = b[i]
      BY <3>1, <1>1
    <3>3. c[Len(a) + i] = stream[o + (Len(a) + i)]
      BY <3>1, <1>1, <1>3 DEF StandsAt
    <3>. QED  BY <3>1, <3>2, <3>3, Zenon
  <2>2. o + Len(a) + Len(b) <= Len(stream)
    BY <1>1, <1>3 DEF StandsAt
  <2>. QED  BY <2>1, <2>2 DEF StandsAt
<1>4. ASSUME StandsAt(a, stream, o), StandsAt(b, stream, o + Len(a)) PROVE StandsAt(c, stream, o)
  <2>1. ASSUME NEW i \in 1 .. Len(a) + Len(b) PROVE c[i] = stream[o + i]
    <3>1. CASE i <= Len(a)
      <4>1. i \in 1 .. Len(a)
        BY <3>1, <1>1
      <4>. QED  BY <4>1, <3>1, <1>1, <1>4 DEF StandsAt
    <3>2. CASE ~(i <= Len(a))
      <4>1. i - Len(a) \in 1 .. Len(b) /\ o + Len(a) + (i - Len(a)) = o + i
        BY <3>2, <1>1
      <4>2. c[i] = b[i - Len(a)]
        BY <3>2, <1>1
      <4>3. b[i - Len(a)] = stream[o + Len(a) + (i - Len(a))]
        BY <4>1, <1>4 DEF StandsAt
      <4>. QED  BY <4>1, <4>2, <4>3, Zenon
    <3>. QED  BY <3>1, <3>2
  <2>2. o + Len(c) <= Len(stream)
    BY <1>1, <1>4 DEF StandsAt
  <2>. QED  BY <2>1, <2>2, <1>1 DEF StandsAt
<1>. QED  BY <1>2, <1>3, <1>4 DEF c

\* A sequence and what is left of it stand in themselves.
LEMMA StandsSame ==
  ASSUME NEW X, NEW s \in Seq(X)
  PROVE  StandsAt(s, s, 0)
<1>1. Len(s) \in Nat /\ \A i \in 1 .. Len(s) : 0 + i = i
  BY LenProperties
<1>. QED  BY <1>1 DEF StandsAt

\* What stands in a sequence that stands in a stream stands in that stream.
LEMMA StandsInside ==
  ASSUME NEW X, NEW q \in Seq(X), NEW s \in Seq(X), NEW stream \in Seq(X), NEW o \in Nat, NEW p \in Nat,
         StandsAt(q, s, o), StandsAt(s, stream, p)
  PROVE  StandsAt(q, stream, p + o)
<1>1. Len(q) \in Nat /\ Len(s) \in Nat /\ Len(stream) \in Nat
  BY LenProperties
<1>2. ASSUME NEW i \in 1 .. Len(q) PROVE q[i] = stream[p + o + i]
  <2>1. o + i \in 1 .. Len(s) /\ p + (o + i) = p + o + i
    BY <1>1 DEF StandsAt
  <2>2. q[i] = s[o + i] /\ s[o + i] = stream[p + (o + i)]
    BY <2>1 DEF StandsAt
  <2>. QED  BY <2>1, <2>2, Zenon
<1>. QED  BY <1>1, <1>2 DEF StandsAt

\* Two sequences of the same length in the same place are equal.
LEMMA StandsEqual ==
  ASSUME NEW X, NEW a \in Seq(X), NEW b \in Seq(X), NEW stream, NEW o,
         StandsAt(a, stream, o), StandsAt(b, stream, o), Len(a) = Len(b)
  PROVE  a = b
<1>1. \A i \in 1 .. Len(a) : a[i] = b[i]
  BY DEF StandsAt
<1>. QED  BY <1>1, SeqEqual

\* The empty sequence stands everywhere.
LEMMA StandsEmpty ==
  ASSUME NEW X, NEW stream \in Seq(X), NEW o \in 0 .. Len(stream)
  PROVE  StandsAt(<<>>, stream, o)
<1>1. Len(<<>>) = 0 /\ Len(stream) \in Nat /\ \A i \in 1 .. 0 : FALSE
  BY EmptySeq, LenProperties
<1>. QED  BY <1>1 DEF StandsAt

\* What stands in a stream is a slice of it.
LEMMA StandsSlice ==
  ASSUME NEW X, NEW q \in Seq(X), NEW stream \in Seq(X), NEW o \in Nat, StandsAt(q, stream, o)
  PROVE  q = SubSeq(stream, o + 1, o + Len(q)) /\ o + Len(q) \in o .. Len(stream)
<1>. DEFINE t == SubSeq(stream, o + 1, o + Len(q))
<1>1. Len(q) \in Nat /\ Len(stream) \in Nat /\ o + Len(q) <= Len(stream)
  BY LenProperties DEF StandsAt
<1>2. \A i \in o + 1 .. o + Len(q) : stream[i] \in X
  <2>1. \A i \in o + 1 .. o + Len(q) : i \in 1 .. Len(stream)
    BY <1>1
  <2>. QED  BY <2>1, ElementOfSeq
<1>3. o + 1 \in Int /\ o + Len(q) \in Int
  BY <1>1
<1>4. /\ t \in Seq(X)
      /\ Len(t) = (IF o + 1 <= o + Len(q) THEN (o + Len(q)) - (o + 1) + 1 ELSE 0)
      /\ \A i \in 1 .. (o + Len(q)) - (o + 1) + 1 : t[i] = stream[o + 1 + i - 1]
  BY <1>2, <1>3, SubSeqProperties
<1>. HIDE DEF t
<1>5. Len(t) = Len(q)
  BY <1>1, <1>4
<1>6. ASSUME NEW i \in 1 .. Len(q) PROVE t[i] = q[i]
  <2>1. i \in 1 .. (o + Len(q)) - (o + 1) + 1 /\ o + 1 + i - 1 = o + i
    BY <1>1
  <2>2. t[i] = stream[o + 1 + i - 1]
    BY <2>1, <1>4
  <2>3. q[i] = stream[o + i]
    BY DEF StandsAt
  <2>. QED  BY <2>1, <2>2, <2>3, Zenon
<1>7. t = q
  BY <1>4, <1>5, <1>6, SeqEqual
<1>. QED  BY <1>1, <1>7 DEF t

\* A sequence is its first k elements and the others.
LEMMA StandsRest ==
  ASSUME NEW X, NEW q \in Seq(X), NEW stream \in Seq(X), NEW o \in Nat, StandsAt(q, stream, o), NEW k \in 0 .. Len(q)
  PROVE  /\ SubSeq(q, k + 1, Len(q)) \in Seq(X)
         /\ Len(SubSeq(q, k + 1, Len(q))) = Len(q) - k
         /\ StandsAt(SubSeq(q, k + 1, Len(q)), stream, o + k)
<1>. DEFINE t == SubSeq(q, k + 1, Len(q))
<1>1. Len(q) \in Nat /\ Len(stream) \in Nat /\ o + Len(q) <= Len(stream)
  BY LenProperties DEF StandsAt
<1>2. t \in Seq(X) /\ Len(t) = Len(q) - k /\ \A i \in 1 .. Len(q) - k : t[i] = q[k + i]
  BY SuffixProperties
<1>. HIDE DEF t
<1>3. ASSUME NEW i \in 1 .. Len(t) PROVE t[i] = stream[o + k + i]
  <2>1. i \in 1 .. Len(q) - k /\ k + i \in 1 .. Len(q) /\ o + (k + i) = o + k + i
    BY <1>1, <1>2
  <2>2. t[i] = q[k + i] /\ q[k + i] = stream[o + (k + i)]
    BY <2>1, <1>2 DEF StandsAt
  <2>. QED  BY <2>1, <2>2, Zenon
<1>4. o + k + Len(t) <= Len(stream)
  BY <1>1, <1>2
<1>. QED  BY <1>2, <1>3, <1>4 DEF t, StandsAt

\* When the first element of what comes goes to the end of what has come, both
\* stand where they stood.
LEMMA StandsMove ==
  ASSUME NEW X, NEW a \in Seq(X), NEW b \in Seq(X), NEW stream \in Seq(X), NEW o \in Nat, b # <<>>,
         StandsAt(a, stream, o), StandsAt(b, stream, o + Len(a))
  PROVE  /\ Append(a, Head(b)) \in Seq(X) /\ Tail(b) \in Seq(X)
         /\ Len(Append(a, Head(b))) = Len(a) + 1 /\ Len(Tail(b)) = Len(b) - 1 /\ Len(b) > 0
         /\ StandsAt(Append(a, Head(b)), stream, o)
         /\ StandsAt(Tail(b), stream, o + Len(Append(a, Head(b))))
<1>. DEFINE x == Head(b)
            c == Append(a, x)
            t == Tail(b)
<1>1. /\ x \in X /\ t \in Seq(X) /\ Len(b) = Len(t) + 1 /\ x = b[1] /\ Len(t) \in Nat
      /\ \A i \in 1 .. Len(t) : t[i] = b[i + 1]
  BY HeadTailSet
<1>2. /\ c \in Seq(X) /\ Len(a) \in Nat /\ Len(c) = Len(a) + 1 /\ c[Len(a) + 1] = x
      /\ \A i \in 1 .. Len(a) : c[i] = a[i]
  <2>1. x \in X
    BY <1>1
  <2>. HIDE DEF x
  <2>. QED  BY <2>1, AppendSet
<1>. HIDE DEF x, c, t
<1>3. Len(stream) \in Nat /\ o + Len(a) + Len(b) <= Len(stream)
  BY LenProperties DEF StandsAt
<1>4. ASSUME NEW i \in 1 .. Len(c) PROVE c[i] = stream[o + i]
  <2>1. CASE i = Len(a) + 1
    <3>1. 1 \in 1 .. Len(b) /\ o + Len(a) + 1 = o + i
      BY <2>1, <1>1, <1>2
    <3>2. b[1] = stream[o + Len(a) + 1]
      BY <3>1 DEF StandsAt
    <3>3. c[i] = b[1]
      BY <2>1, <1>1, <1>2
    <3>. QED  BY <3>1, <3>2, <3>3, Zenon
  <2>2. CASE i # Len(a) + 1
    <3>1. i \in 1 .. Len(a)
      BY <2>2, <1>2
    <3>. QED  BY <3>1, <1>2 DEF StandsAt
  <2>. QED  BY <2>1, <2>2
<1>5. ASSUME NEW i \in 1 .. Len(t) PROVE t[i] = stream[o + Len(c) + i]
  <2>1. i + 1 \in 1 .. Len(b) /\ o + Len(a) + (i + 1) = o + Len(c) + i
    BY <1>1, <1>2
  <2>2. b[i + 1] = stream[o + Len(a) + (i + 1)]
    BY <2>1 DEF StandsAt
  <2>. QED  BY <2>1, <2>2, <1>1, Zenon
<1>6. o + Len(c) <= Len(stream) /\ o + Len(c) + Len(t) <= Len(stream)
  BY <1>1, <1>2, <1>3
<1>7. StandsAt(c, stream, o) /\ StandsAt(t, stream, o + Len(c))
  BY <1>4, <1>5, <1>6 DEF StandsAt
<1>8. Len(b) > 0 /\ Len(t) = Len(b) - 1
  BY <1>1
<1>. QED  BY <1>1, <1>2, <1>7, <1>8 DEF c, t, x

\* The first elements stand at the beginning of the whole.
LEMMA BeginningStands ==
  ASSUME NEW X, NEW ss \in Seq(Seq(X))
  PROVE  \A k \in 0 .. Len(ss) : StandsAt(Beginning(ss, k), FlattenSeq(ss), 0)
<1>. DEFINE n == Len(ss)
            B(k) == Beginning(ss, k)
            whole == FlattenSeq(ss)
            Wrong == {d \in 0 .. n : ~StandsAt(B(n - d), whole, 0)}
<1>1. /\ n \in Nat /\ B(n) = whole /\ whole \in Seq(X)
      /\ \A k \in 0 .. n : B(k) \in Seq(X)
      /\ \A k \in 1 .. n : B(k) = B(k - 1) \o ss[k] /\ ss[k] \in Seq(X)
  <2>1. n \in Nat /\ n \in 0 .. n
    <3>1. n \in Nat
      BY LenProperties
    <3>. QED  BY <3>1
  <2>. QED  BY <2>1, BeginningEquations, ElementOfSeq
<1>. HIDE DEF B, whole
<1>2. ASSUME Wrong # {} PROVE FALSE
  <2>1. PICK m \in Wrong : \A d \in Wrong : m <= d
    <3>1. Wrong \subseteq Nat  BY <1>1
    <3>. HIDE DEF Wrong
    <3>. QED  BY <3>1, <1>2, LeastNumber
  <2>2. m # 0
    <3>1. StandsAt(B(n), whole, 0) /\ n - 0 = n
      BY <1>1, StandsSame
    <3>. QED  BY <3>1, <2>1
  <2>3. /\ m - 1 \in 0 .. n /\ m - 1 \notin Wrong /\ n - (m - 1) \in 1 .. n
        /\ n - m \in 0 .. n /\ (n - (m - 1)) - 1 = n - m /\ n - (m - 1) \in 0 .. n
    <3>1. /\ m \in Nat /\ m - 1 \in 0 .. n /\ ~(m <= m - 1) /\ n - (m - 1) \in 1 .. n
          /\ n - m \in 0 .. n /\ (n - (m - 1)) - 1 = n - m /\ n - (m - 1) \in 0 .. n
      BY <2>1, <2>2, <1>1
    <3>. HIDE DEF Wrong
    <3>. QED  BY <3>1, <2>1
  <2>4. StandsAt(B(n - (m - 1)), whole, 0)
    BY <2>3
  <2>. DEFINE a == B(n - m)
              b == ss[n - (m - 1)]
  <2>5. B(n - (m - 1)) = a \o b /\ a \in Seq(X) /\ b \in Seq(X)
    BY <2>3, <1>1
  <2>. HIDE DEF a, b
  <2>6. StandsAt(a \o b, whole, 0)
    BY <2>4, <2>5
  <2>7. StandsAt(a, whole, 0)
    BY <2>5, <2>6, <1>1, StandsConcat
  <2>. QED  BY <2>7, <2>1 DEF a
<1>3. ASSUME NEW k \in 0 .. n PROVE StandsAt(B(k), whole, 0)
  <2>1. n - k \in 0 .. n /\ n - (n - k) = k
    BY <1>1
  <2>. QED  BY <2>1, <1>2
<1>. QED  BY <1>3 DEF B, whole

\* Each element stands after those before it.
LEMMA BeginningPlaces ==
  ASSUME NEW X, NEW ss \in Seq(Seq(X)), NEW k \in 1 .. Len(ss)
  PROVE  /\ Len(Beginning(ss, k)) = Len(Beginning(ss, k - 1)) + Len(ss[k])
         /\ StandsAt(ss[k], FlattenSeq(ss), Len(Beginning(ss, k - 1)))
<1>. DEFINE n == Len(ss)
            B(i) == Beginning(ss, i)
            whole == FlattenSeq(ss)
            b == ss[k]
            a == B(k - 1)
            c == B(k)
<1>1. n \in Nat /\ k \in 0 .. n /\ k - 1 \in 0 .. n /\ n \in 0 .. n
  <2>1. n \in Nat
    BY LenProperties
  <2>. QED  BY <2>1
<1>2. a \in Seq(X) /\ b \in Seq(X) /\ c = a \o b /\ whole \in Seq(X) /\ StandsAt(c, whole, 0)
  BY <1>1, BeginningEquations, BeginningStands, ElementOfSeq
<1>. HIDE DEF a, b, c, whole
<1>3. Len(c) = Len(a) + Len(b) /\ Len(a) \in Nat
  BY <1>2, ConcatProperties, LenProperties
<1>4. StandsAt(a \o b, whole, 0)
  BY <1>2
<1>5. StandsAt(b, whole, 0 + Len(a)) /\ 0 + Len(a) = Len(a)
  BY <1>2, <1>3, <1>4, StandsConcat
<1>. QED  BY <1>3, <1>5 DEF a, b, c, whole

\* More elements do not come to less.
LEMMA BeginningGrows ==
  ASSUME NEW X, NEW ss \in Seq(Seq(X)), NEW j \in 0 .. Len(ss), NEW k \in j .. Len(ss)
  PROVE  Len(Beginning(ss, j)) <= Len(Beginning(ss, k))
<1>. DEFINE n == Len(ss)
            L(i) == Len(Beginning(ss, i))
            Wrong == {i \in j .. n : ~(L(j) <= L(i))}
<1>1. /\ n \in Nat /\ j \in Nat
      /\ \A i \in 0 .. n : L(i) \in Nat
      /\ \A i \in 1 .. n : L(i) = L(i - 1) + Len(ss[i]) /\ Len(ss[i]) \in Nat
  <2>1. n \in Nat /\ \A i \in 1 .. n : ss[i] \in Seq(X)
    BY LenProperties, ElementOfSeq
  <2>2. \A i \in 0 .. n : Beginning(ss, i) \in Seq(X)
    BY BeginningEquations
  <2>3. \A i \in 0 .. n : L(i) \in Nat
    BY <2>2, LenProperties
  <2>4. \A i \in 1 .. n : Len(ss[i]) \in Nat
    BY <2>1, LenProperties
  <2>5. \A i \in 1 .. n : L(i) = L(i - 1) + Len(ss[i])
    BY BeginningPlaces
  <2>. HIDE DEF L
  <2>. QED  BY <2>1, <2>3, <2>4, <2>5
<1>. HIDE DEF L
<1>2. ASSUME Wrong # {} PROVE FALSE
  <2>1. PICK m \in Wrong : \A i \in Wrong : m <= i
    <3>1. Wrong \subseteq Nat  BY <1>1
    <3>. HIDE DEF Wrong
    <3>. QED  BY <3>1, <1>2, LeastNumber
  <2>2. m # j
    <3>1. L(j) \in Nat
      BY <1>1
    <3>. QED  BY <3>1, <2>1
  <2>3. m \in 1 .. n /\ m - 1 \in j .. n /\ m - 1 \in 0 .. n /\ ~(m <= m - 1)
    BY <2>1, <2>2, <1>1
  <2>4. L(j) <= L(m - 1)
    BY <2>3, <2>1
  <2>5. L(m) = L(m - 1) + Len(ss[m]) /\ L(m - 1) \in Nat /\ Len(ss[m]) \in Nat /\ L(j) \in Nat
    BY <2>3, <1>1
  <2>6. L(j) <= L(m)
    BY <2>4, <2>5
  <2>. QED  BY <2>6, <2>1
<1>3. L(j) <= L(k)
  BY <1>2
<1>. QED  BY <1>3 DEF L

-----------------------------------------------------------------------------
(* Octets in records, and the records in sequences: where the octets of    *)
(* each record stand in those of all sequences.                            *)

\* The records of R have octets of X.
HaveContent(R, X) == \A r \in R : r.data \in Seq(X)

Contents(fs) == [j \in DOMAIN fs |-> fs[j].data]
FullContent(fs) == FlattenSeq(Contents(fs))
ContentParts(ms) == [i \in DOMAIN ms |-> FullContent(ms[i])]
AllContent(ms) == FlattenSeq(ContentParts(ms))

\* Where the i-th sequence stands, and what follows its first k records.
StartIn(ms, i) == Len(AllContent(SubSeq(ms, 1, i - 1)))
PlaceIn(ms, i, k) == StartIn(ms, i) + Len(FullContent(SubSeq(ms[i], 1, k)))

\* The octets of the first k records.
LEMMA ContentIs ==
  ASSUME NEW X, NEW R, HaveContent(R, X), NEW fs \in Seq(R)
  PROVE  /\ Contents(fs) \in Seq(Seq(X)) /\ Len(Contents(fs)) = Len(fs) /\ Len(fs) \in Nat
         /\ \A k \in 1 .. Len(fs) : Contents(fs)[k] = fs[k].data
         /\ \A k \in 0 .. Len(fs) : FullContent(SubSeq(fs, 1, k)) = Beginning(Contents(fs), k)
         /\ FullContent(fs) = FlattenSeq(Contents(fs))
<1>1. Len(fs) \in Nat /\ DOMAIN fs = 1 .. Len(fs) /\ \A k \in 1 .. Len(fs) : fs[k] \in R
  BY LenProperties, ElementOfSeq
<1>2. \A k \in 1 .. Len(fs) : fs[k].data \in Seq(X)
  BY <1>1 DEF HaveContent
<1>3. Contents(fs) = [k \in 1 .. Len(fs) |-> fs[k].data]
  BY <1>1 DEF Contents
<1>4. Contents(fs) \in Seq(Seq(X)) /\ Len(Contents(fs)) = Len(fs)
  <2>1. Contents(fs) \in [1 .. Len(fs) -> Seq(X)]
    BY <1>2, <1>3
  <2>. HIDE DEF Contents
  <2>. QED  BY <2>1, <1>1, IsASeq, LenProperties
<1>5. \A k \in 1 .. Len(fs) : Contents(fs)[k] = fs[k].data
  BY <1>3
<1>6. ASSUME NEW k \in 0 .. Len(fs)
      PROVE  FullContent(SubSeq(fs, 1, k)) = Beginning(Contents(fs), k)
  <2>. DEFINE t == SubSeq(fs, 1, k)
              u == SubSeq(Contents(fs), 1, k)
  <2>1. t \in Seq(R) /\ Len(t) = k /\ \A j \in 1 .. k : t[j] = fs[j]
    BY PrefixProperties
  <2>2. u \in Seq(Seq(X)) /\ Len(u) = k /\ \A j \in 1 .. k : u[j] = Contents(fs)[j]
    <3>1. k \in 0 .. Len(Contents(fs))
      BY <1>4
    <3>. HIDE DEF Contents
    <3>. QED  BY <3>1, <1>4, PrefixProperties
  <2>. HIDE DEF t, u
  <2>3. DOMAIN t = 1 .. k
    BY <2>1, LenProperties
  <2>4. \A j \in 1 .. k : j \in 1 .. Len(fs)
    BY <1>1
  <2>5. \A j \in 1 .. k : t[j].data = u[j]
    BY <2>1, <2>2, <2>4, <1>5
  <2>6. [j \in DOMAIN t |-> t[j].data] = [j \in 1 .. k |-> u[j]]
    BY <2>3, <2>5
  <2>7. u = [j \in 1 .. k |-> u[j]]
    BY <2>2, LenProperties
  <2>8. FullContent(t) = FlattenSeq(u)
    BY <2>6, <2>7 DEF FullContent, Contents
  <2>. QED  BY <2>8 DEF Beginning, t, u
<1>7. FullContent(fs) = FlattenSeq(Contents(fs))
  BY DEF FullContent
<1>. QED  BY <1>1, <1>4, <1>5, <1>6, <1>7

\* The octets of the first k records begin those of all.
LEMMA ContentBegins ==
  ASSUME NEW X, NEW R, HaveContent(R, X), NEW fs \in Seq(R), NEW k \in 0 .. Len(fs)
  PROVE  FullContent(SubSeq(fs, 1, k)) = Beginning(Contents(fs), k)
BY ContentIs

\* A sequence stands after those before it.
LEMMA StartInIs ==
  ASSUME NEW X, NEW R, HaveContent(R, X), NEW ms \in Seq(Seq(R))
  PROVE  /\ ContentParts(ms) \in Seq(Seq(X)) /\ Len(ContentParts(ms)) = Len(ms) /\ Len(ms) \in Nat
         /\ \A i \in 1 .. Len(ms) : ContentParts(ms)[i] = FullContent(ms[i])
         /\ \A i \in 1 .. Len(ms) + 1 : StartIn(ms, i) = Len(Beginning(ContentParts(ms), i - 1))
         /\ AllContent(ms) = FlattenSeq(ContentParts(ms))
<1>1. Len(ms) \in Nat /\ DOMAIN ms = 1 .. Len(ms) /\ \A i \in 1 .. Len(ms) : ms[i] \in Seq(R)
  BY LenProperties, ElementOfSeq
<1>2. \A i \in 1 .. Len(ms) : FullContent(ms[i]) \in Seq(X)
  <2>. TAKE i \in 1 .. Len(ms)
  <2>1. ms[i] \in Seq(R)
    BY <1>1
  <2>2. Contents(ms[i]) \in Seq(Seq(X)) /\ FullContent(ms[i]) = FlattenSeq(Contents(ms[i]))
    BY <2>1, ContentIs
  <2>3. Len(Contents(ms[i])) \in Nat
    BY <2>2, LenProperties
  <2>4. Len(Contents(ms[i])) \in 0 .. Len(Contents(ms[i]))
    BY <2>3
  <2>. QED  BY <2>2, <2>4, BeginningEquations
<1>3. ContentParts(ms) = [i \in 1 .. Len(ms) |-> FullContent(ms[i])]
  BY <1>1 DEF ContentParts
<1>4. ContentParts(ms) \in Seq(Seq(X)) /\ Len(ContentParts(ms)) = Len(ms)
  <2>1. ContentParts(ms) \in [1 .. Len(ms) -> Seq(X)]
    BY <1>2, <1>3
  <2>. HIDE DEF ContentParts
  <2>2. ContentParts(ms) \in Seq(Seq(X))
    <3>. DEFINE n == Len(ms)
                Y == Seq(X)
    <3>1. n \in Nat /\ ContentParts(ms) \in [1 .. n -> Y]
      BY <2>1, <1>1
    <3>. HIDE DEF n, Y
    <3>2. ContentParts(ms) \in Seq(Y)
      BY <3>1, IsASeq
    <3>. QED  BY <3>2 DEF Y
  <2>3. DOMAIN ContentParts(ms) = 1 .. Len(ms)
    BY <2>1
  <2>4. Len(ContentParts(ms)) = Len(ms)
    BY <2>2, <2>3, <1>1, LenProperties
  <2>. QED  BY <2>2, <2>4
<1>5. \A i \in 1 .. Len(ms) : ContentParts(ms)[i] = FullContent(ms[i])
  BY <1>3
<1>6. ASSUME NEW i \in 1 .. Len(ms) + 1
      PROVE  StartIn(ms, i) = Len(Beginning(ContentParts(ms), i - 1))
  <2>. DEFINE k == i - 1
              t == SubSeq(ms, 1, k)
              u == SubSeq(ContentParts(ms), 1, k)
  <2>0. k \in 0 .. Len(ms)
    BY <1>1
  <2>. HIDE DEF k
  <2>1. t \in Seq(Seq(R)) /\ Len(t) = k /\ \A j \in 1 .. k : t[j] = ms[j]
    BY <2>0, PrefixProperties
  <2>2. u \in Seq(Seq(X)) /\ Len(u) = k /\ \A j \in 1 .. k : u[j] = ContentParts(ms)[j]
    <3>1. k \in 0 .. Len(ContentParts(ms))
      BY <1>4, <2>0
    <3>. HIDE DEF ContentParts
    <3>. QED  BY <3>1, <1>4, PrefixProperties
  <2>. HIDE DEF t, u
  <2>3. DOMAIN t = 1 .. k
    BY <2>1, LenProperties
  <2>4. \A j \in 1 .. k : j \in 1 .. Len(ms)
    BY <1>1, <2>0
  <2>5. \A j \in 1 .. k : FullContent(t[j]) = u[j]
    BY <2>1, <2>2, <2>4, <1>5
  <2>6. [j \in DOMAIN t |-> FullContent(t[j])] = [j \in 1 .. k |-> u[j]]
    BY <2>3, <2>5
  <2>7. u = [j \in 1 .. k |-> u[j]]
    BY <2>2, LenProperties
  <2>8. AllContent(t) = FlattenSeq(u)
    BY <2>6, <2>7 DEF AllContent, ContentParts
  <2>. QED  BY <2>8 DEF Beginning, StartIn, t, u, k
<1>7. AllContent(ms) = FlattenSeq(ContentParts(ms))
  BY DEF AllContent, ContentParts
<1>. QED  BY <1>1, <1>4, <1>5, <1>6, <1>7

\* What stands before a sequence begins the octets of all.
LEMMA StartIsBeginning ==
  ASSUME NEW X, NEW R, HaveContent(R, X), NEW ms \in Seq(Seq(R)), NEW i \in 1 .. Len(ms) + 1
  PROVE  StartIn(ms, i) = Len(Beginning(ContentParts(ms), i - 1))
BY StartInIs

\* Where the sequences stand.
LEMMA StreamStarts ==
  ASSUME NEW X, NEW R, HaveContent(R, X), NEW ms \in Seq(Seq(R))
  PROVE  /\ AllContent(ms) \in Seq(X) /\ Len(AllContent(ms)) \in Nat /\ StartIn(ms, 1) = 0
         /\ \A i \in 1 .. Len(ms) + 1 : StartIn(ms, i) \in 0 .. Len(AllContent(ms))
         /\ \A i \in 1 .. Len(ms) :
              /\ StartIn(ms, i + 1) = StartIn(ms, i) + Len(FullContent(ms[i]))
              /\ FullContent(ms[i]) \in Seq(X)
              /\ StandsAt(FullContent(ms[i]), AllContent(ms), StartIn(ms, i))
         /\ \A i \in 1 .. Len(ms) + 1 : \A j \in i .. Len(ms) + 1 : StartIn(ms, i) <= StartIn(ms, j)
<1>. DEFINE n == Len(ms)
            ps == ContentParts(ms)
            L(i) == Len(Beginning(ps, i))
<1>1. n \in Nat
  BY LenProperties
<1>3. /\ ps \in Seq(Seq(X)) /\ Len(ps) = n
      /\ \A i \in 1 .. n : ps[i] = FullContent(ms[i])
      /\ \A i \in 1 .. n + 1 : StartIn(ms, i) = L(i - 1)
      /\ AllContent(ms) = FlattenSeq(ps)
  <2>1. ps \in Seq(Seq(X)) /\ Len(ps) = n
    BY StartInIs
  <2>2. \A i \in 1 .. n : ps[i] = FullContent(ms[i])
    BY StartInIs
  <2>3. ASSUME NEW i \in 1 .. n + 1 PROVE StartIn(ms, i) = Len(Beginning(ps, i - 1))
    BY StartIsBeginning
  <2>4. AllContent(ms) = FlattenSeq(ps)
    BY StartInIs
  <2>. QED  BY <2>1, <2>2, <2>3, <2>4
<1>. HIDE DEF ps
<1>4. \A i \in 1 .. n : ps[i] \in Seq(X)
  BY <1>3, ElementOfSeq
<1>5. /\ Beginning(ps, 0) = <<>> /\ Beginning(ps, n) = AllContent(ms)
      /\ \A i \in 0 .. n : Beginning(ps, i) \in Seq(X) /\ StandsAt(Beginning(ps, i), AllContent(ms), 0)
  BY <1>3, BeginningEquations, BeginningStands
<1>6. \A i \in 1 .. n : L(i) = L(i - 1) + Len(ps[i]) /\ StandsAt(ps[i], AllContent(ms), L(i - 1))
  BY <1>3, BeginningPlaces
<1>7. \A i \in 0 .. n : \A j \in i .. n : L(i) <= L(j)
  BY <1>3, BeginningGrows
<1>8. AllContent(ms) \in Seq(X) /\ Len(AllContent(ms)) \in Nat /\ L(0) = 0 /\ L(n) = Len(AllContent(ms))
  <2>1. n \in 0 .. n
    BY <1>1
  <2>2. AllContent(ms) \in Seq(X) /\ Len(<<>>) = 0
    BY <2>1, <1>5, EmptySeq
  <2>. QED  BY <2>2, <1>5, LenProperties
<1>9. \A i \in 0 .. n : L(i) \in Nat
  BY <1>5, LenProperties
<1>. HIDE DEF L
<1>10. ASSUME NEW i \in 1 .. n + 1 PROVE StartIn(ms, i) \in 0 .. Len(AllContent(ms))
  <2>1. i - 1 \in 0 .. n /\ n \in (i - 1) .. n
    BY <1>1
  <2>2. L(i - 1) <= L(n) /\ L(i - 1) \in Nat
    BY <2>1, <1>7, <1>9
  <2>. QED  BY <2>2, <1>3, <1>8
<1>11. ASSUME NEW i \in 1 .. n
       PROVE  /\ StartIn(ms, i + 1) = StartIn(ms, i) + Len(FullContent(ms[i]))
              /\ FullContent(ms[i]) \in Seq(X)
              /\ StandsAt(FullContent(ms[i]), AllContent(ms), StartIn(ms, i))
  <2>1. i \in 1 .. n + 1 /\ i + 1 \in 1 .. n + 1 /\ (i + 1) - 1 = i
    BY <1>1
  <2>2. StartIn(ms, i) = L(i - 1) /\ StartIn(ms, i + 1) = L(i) /\ ps[i] = FullContent(ms[i])
    BY <2>1, <1>3
  <2>. QED  BY <2>2, <1>4, <1>6
<1>12. ASSUME NEW i \in 1 .. n + 1, NEW j \in i .. n + 1 PROVE StartIn(ms, i) <= StartIn(ms, j)
  <2>1. i - 1 \in 0 .. n /\ j - 1 \in (i - 1) .. n /\ j \in 1 .. n + 1
    BY <1>1
  <2>. QED  BY <2>1, <1>3, <1>7
<1>13. StartIn(ms, 1) = 0
  <2>1. 1 \in 1 .. n + 1 /\ 1 - 1 = 0
    BY <1>1
  <2>. QED  BY <2>1, <1>3, <1>8
<1>. QED  BY <1>8, <1>10, <1>11, <1>12, <1>13

\* Where the records of a sequence stand.
LEMMA StreamPlaces ==
  ASSUME NEW X, NEW R, HaveContent(R, X), NEW ms \in Seq(Seq(R)), NEW i \in 1 .. Len(ms)
  PROVE  /\ ms[i] \in Seq(R) /\ Len(ms[i]) \in Nat /\ DOMAIN ms[i] = 1 .. Len(ms[i])
         /\ PlaceIn(ms, i, 0) = StartIn(ms, i) /\ PlaceIn(ms, i, Len(ms[i])) = StartIn(ms, i + 1)
         /\ StartIn(ms, i) \in Nat /\ StartIn(ms, i + 1) = StartIn(ms, i) + Len(FullContent(ms[i]))
         /\ \A k \in 0 .. Len(ms[i]) :
              /\ PlaceIn(ms, i, k) \in Nat
              /\ PlaceIn(ms, i, k) = StartIn(ms, i) + Len(FullContent(SubSeq(ms[i], 1, k)))
         /\ \A k \in 1 .. Len(ms[i]) :
              /\ ms[i][k].data \in Seq(X)
              /\ PlaceIn(ms, i, k) = PlaceIn(ms, i, k - 1) + Len(ms[i][k].data)
              /\ StandsAt(ms[i][k].data, AllContent(ms), PlaceIn(ms, i, k - 1))
         /\ \A j \in 0 .. Len(ms[i]) : \A k \in j .. Len(ms[i]) : PlaceIn(ms, i, j) <= PlaceIn(ms, i, k)
<1>. DEFINE fs == ms[i]
            m == Len(fs)
            ds == Contents(fs)
            L(k) == Len(Beginning(ds, k))
            base == StartIn(ms, i)
            written == FullContent(fs)
<1>1. fs \in Seq(R) /\ m \in Nat /\ DOMAIN fs = 1 .. m
  BY ElementOfSeq, LenProperties
<1>2. /\ AllContent(ms) \in Seq(X) /\ Len(AllContent(ms)) \in Nat /\ base \in 0 .. Len(AllContent(ms))
      /\ StartIn(ms, i + 1) = base + Len(written) /\ written \in Seq(X) /\ StandsAt(written, AllContent(ms), base)
  <2>1. i \in 1 .. Len(ms) + 1
    BY LenProperties
  <2>. QED  BY <2>1, StreamStarts
<1>3. base \in Nat
  BY <1>2
<1>. HIDE DEF fs, base
<1>4. /\ ds \in Seq(Seq(X)) /\ Len(ds) = m
      /\ \A k \in 1 .. m : ds[k] = fs[k].data
      /\ \A k \in 0 .. m : FullContent(SubSeq(fs, 1, k)) = Beginning(ds, k)
      /\ written = FlattenSeq(ds)
  <2>1. ds \in Seq(Seq(X)) /\ Len(ds) = m
    BY <1>1, ContentIs
  <2>2. \A k \in 1 .. m : ds[k] = fs[k].data
    BY <1>1, ContentIs
  <2>3. ASSUME NEW k \in 0 .. m PROVE FullContent(SubSeq(fs, 1, k)) = Beginning(ds, k)
    BY <1>1, ContentBegins
  <2>4. written = FlattenSeq(ds)
    BY <1>1, ContentIs
  <2>. QED  BY <2>1, <2>2, <2>3, <2>4
<1>5. \A k \in 0 .. m : PlaceIn(ms, i, k) = base + L(k) /\ PlaceIn(ms, i, k) = base + Len(FullContent(SubSeq(fs, 1, k)))
  BY <1>4 DEF PlaceIn, base, fs
<1>. HIDE DEF ds, m, written
<1>6. \A k \in 1 .. m : ds[k] \in Seq(X) /\ fs[k].data \in Seq(X)
  BY <1>4, ElementOfSeq
<1>7. /\ Beginning(ds, 0) = <<>> /\ Beginning(ds, m) = written
      /\ \A k \in 0 .. m : Beginning(ds, k) \in Seq(X)
  BY <1>4, BeginningEquations
<1>8. \A k \in 1 .. m : L(k) = L(k - 1) + Len(fs[k].data) /\ StandsAt(fs[k].data, written, L(k - 1))
  BY <1>4, BeginningPlaces
<1>9. \A j \in 0 .. m : \A k \in j .. m : L(j) <= L(k)
  BY <1>4, BeginningGrows
<1>10. \A k \in 0 .. m : L(k) \in Nat
  BY <1>7, LenProperties
<1>11. L(0) = 0 /\ L(m) = Len(written)
  BY <1>7, EmptySeq
<1>. HIDE DEF L
<1>12. \A k \in 1 .. m : k \in 0 .. m /\ k - 1 \in 0 .. m
  BY <1>1
<1>13. ASSUME NEW k \in 1 .. m
       PROVE  PlaceIn(ms, i, k) = PlaceIn(ms, i, k - 1) + Len(fs[k].data) /\ StandsAt(fs[k].data, AllContent(ms), PlaceIn(ms, i, k - 1))
  <2>1. PlaceIn(ms, i, k) = base + L(k) /\ PlaceIn(ms, i, k - 1) = base + L(k - 1)
    BY <1>5, <1>12
  <2>2. L(k - 1) \in Nat /\ fs[k].data \in Seq(X) /\ L(k) = L(k - 1) + Len(fs[k].data)
    BY <1>6, <1>8, <1>10, <1>12
  <2>3. StandsAt(fs[k].data, AllContent(ms), base + L(k - 1))
    BY <2>2, <1>2, <1>3, <1>8, StandsInside
  <2>4. Len(fs[k].data) \in Nat
    BY <2>2, LenProperties
  <2>. QED  BY <2>1, <2>2, <2>3, <2>4, <1>3
<1>14. ASSUME NEW j \in 0 .. m, NEW k \in j .. m PROVE PlaceIn(ms, i, j) <= PlaceIn(ms, i, k)
  <2>1. k \in 0 .. m
    BY <1>1
  <2>. QED  BY <2>1, <1>3, <1>5, <1>9, <1>10
<1>15. \A k \in 0 .. m : PlaceIn(ms, i, k) \in Nat
  BY <1>3, <1>5, <1>10
<1>16. PlaceIn(ms, i, 0) = base /\ PlaceIn(ms, i, m) = StartIn(ms, i + 1)
  <2>1. 0 \in 0 .. m /\ m \in 0 .. m
    BY <1>1
  <2>2. PlaceIn(ms, i, 0) = base + L(0) /\ PlaceIn(ms, i, m) = base + L(m)
    BY <2>1, <1>5
  <2>3. PlaceIn(ms, i, 0) = base
    BY <2>2, <1>3, <1>11
  <2>4. PlaceIn(ms, i, m) = base + Len(written)
    BY <2>2, <1>11
  <2>. QED  BY <2>3, <2>4, <1>2
<1>. QED  BY <1>1, <1>2, <1>3, <1>5, <1>6, <1>13, <1>14, <1>15, <1>16 DEF m, fs, base, written
=============================================================================
