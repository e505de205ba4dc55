--------------------------- MODULE SessionProofs ---------------------------
(***************************************************************************)
(* Proofs that client and server agree on the messages, whatever the       *)
(* commands, the limits, the pieces in which the bytes arrive and the      *)
(* order in which the two work.                                            *)
(***************************************************************************)
EXTENDS Session, FragmentizerProofs

-----------------------------------------------------------------------------
(* The bytes of a message.                                                 *)

LEMMA BytesJoin == \A s, t \in Seq(Byte) : s \o t \in Seq(Byte)
BY ConcatProperties

\* The recursive function of Dump: the bytes of the first fragments.
DumpUpTo(its) ==
  LET upTo[i \in 0..Len(its)] == IF i = 0 THEN <<>> ELSE upTo[i-1] \o its[i].data
  IN  upTo

LEMMA DumpEquations ==
  ASSUME NEW its \in Seq(Item)
  PROVE  /\ DumpUpTo(its)[0] = <<>>
         /\ \A i \in 1 .. Len(its) :
              DumpUpTo(its)[i] = DumpUpTo(its)[i-1] \o its[i].data
<1>. DEFINE n == Len(its)
            Step(bytes, i) == bytes \o its[i].data
            Is(f, k) == f = [i \in 0 .. k |-> IF i = 0 THEN <<>>
                                             ELSE Step(f[i-1], i)]
            Unmade == {k \in 0 .. n : ~ \E f : Is(f, k)}
<1>1. n \in Nat
  BY LenProperties
<1>. HIDE DEF Step
<1>2. Unmade = {}
  <2>1. SUFFICES ASSUME Unmade # {} PROVE FALSE
    OBVIOUS
  <2>2. PICK m \in Unmade : \A k \in Unmade : m <= k
    <3>1. Unmade \subseteq Nat  BY <1>1
    <3>. HIDE DEF Unmade
    <3>. QED  BY <3>1, <2>1, LeastNumber
  <2>3. m # 0
    <3>. DEFINE f0 == [i \in 0 .. 0 |-> <<>>]
    <3>1. f0 = [i \in 0 .. 0 |-> IF i = 0 THEN <<>> ELSE Step(f0[i-1], i)]
      <4>1. \A i \in 0 .. 0 : i = 0  OBVIOUS
      <4>. QED  BY <4>1
    <3>. QED  BY <3>1
  <2>4. m - 1 \in 0 .. n /\ m - 1 \notin Unmade /\ m \in Nat /\ m > 0
    <3>1. m \in 0 .. n /\ m - 1 \in 0 .. n /\ ~(m <= m - 1) /\ m \in Nat /\ m > 0
      BY <2>2, <2>3, <1>1
    <3>. HIDE DEF Unmade
    <3>. QED  BY <3>1, <2>2
  <2>5. PICK g : Is(g, m - 1)
    BY <2>4
  <2>. DEFINE last == Step(g[m-1], m)
              f == [i \in 0 .. m |-> IF i = m THEN last ELSE g[i]]
  <2>6. ASSUME NEW i \in 0 .. m
        PROVE  f[i] = IF i = 0 THEN <<>> ELSE Step(f[i-1], i)
    <3>1. CASE i = m
      <4>1. f[i] = last  BY <3>1
      <4>2. f[i-1] = g[m-1]  BY <3>1, <2>4
      <4>. QED  BY <4>1, <4>2, <3>1, <2>4
    <3>2. CASE i # m
      <4>1. i \in 0 .. m - 1 /\ (i # 0 => i - 1 \in 0 .. m /\ i - 1 # m)
        BY <3>2, <2>4
      <4>2. f[i] = g[i] /\ (i # 0 => f[i-1] = g[i-1])  BY <4>1, <3>2
      <4>3. g[i] = IF i = 0 THEN <<>> ELSE Step(g[i-1], i)
        BY <2>5, <4>1
      <4>. HIDE DEF f
      <4>. QED  BY <4>2, <4>3
    <3>. QED  BY <3>1, <3>2
  <2>7. Is(f, m)
    <3>1. f = [i \in 0 .. m |-> f[i]]  OBVIOUS
    <3>. HIDE DEF f
    <3>. QED  BY <3>1, <2>6
  <2>. QED  BY <2>2, <2>7
<1>3. \E f : Is(f, n)
  BY <1>1, <1>2
<1>4. Is(DumpUpTo(its), n)
  <2>1. DumpUpTo(its) = CHOOSE f : Is(f, n)
    BY DEF DumpUpTo, Step
  <2>. HIDE DEF Is
  <2>. QED  BY <2>1, <1>3
<1>5. 0 \in 0 .. n /\ \A i \in 1 .. n : i \in 0 .. n /\ i # 0
  BY <1>1
<1>. QED  BY <1>4, <1>5 DEF Step

LEMMA DumpIsUpTo ==
  ASSUME NEW its
  PROVE  Dump(its) = DumpUpTo(its)[Len(its)]
BY DEF Dump, DumpUpTo

LEMMA ItemData ==
  ASSUME NEW its \in Seq(Item), NEW i \in 1 .. Len(its)
  PROVE  its[i] \in Item /\ its[i].data \in Seq(Byte) /\ Len(its[i].data) \in Nat
<1>1. its[i] \in Item
  BY ElementOfSeq
<1>2. its[i].data \in Seq(Byte)
  BY <1>1 DEF Item
<1>. QED  BY <1>1, <1>2, LenProperties

LEMMA DumpType ==
  ASSUME NEW its \in Seq(Item)
  PROVE  \A i \in 0 .. Len(its) : DumpUpTo(its)[i] \in Seq(Byte)
<1>. DEFINE Wrong == {k \in 0 .. Len(its) : DumpUpTo(its)[k] \notin Seq(Byte)}
<1>1. Len(its) \in Nat
  BY LenProperties
<1>2. ASSUME Wrong # {} PROVE FALSE
  <2>1. PICK m \in Wrong : \A k \in Wrong : m <= k
    <3>1. Wrong \subseteq Nat  BY <1>1
    <3>. HIDE DEF Wrong
    <3>. QED  BY <3>1, <1>2, LeastNumber
  <2>2. m # 0
    <3>1. DumpUpTo(its)[0] \in Seq(Byte)
      BY DumpEquations, EmptySeq
    <3>2. DumpUpTo(its)[m] \notin Seq(Byte)
      BY <2>1
    <3>. QED  BY <3>1, <3>2, Zenon
  <2>3. m \in 1 .. Len(its) /\ m - 1 \in 0 .. Len(its) /\ m - 1 \notin Wrong
    BY <2>1, <2>2, <1>1
  <2>4. DumpUpTo(its)[m] = DumpUpTo(its)[m-1] \o its[m].data
    BY <2>3, DumpEquations
  <2>5. its[m].data \in Seq(Byte) /\ DumpUpTo(its)[m-1] \in Seq(Byte)
    BY <2>3, ItemData
  <2>. QED  BY <2>1, <2>4, <2>5, ConcatProperties
<1>. QED  BY <1>2

LEMMA DumpStep ==
  ASSUME NEW its \in Seq(Item), NEW i \in Nat, i < Len(its)
  PROVE  DumpUpTo(its)[i + 1] = DumpUpTo(its)[i] \o its[i + 1].data
<1>1. i + 1 \in 1 .. Len(its)
  <2>1. Len(its) \in Nat  BY LenProperties
  <2>. QED  BY <2>1
<1>. DEFINE U == DumpUpTo(its)
<1>2. \A k \in 1 .. Len(its) : U[k] = U[k - 1] \o its[k].data
  BY DumpEquations
<1>. HIDE DEF U
<1>3. ASSUME NEW k \in 1 .. Len(its), k = i + 1 PROVE U[k] = U[i] \o its[k].data
  <2>1. i = k - 1  BY <1>3
  <2>. QED  BY <1>2, <2>1
<1>. QED  BY <1>1, <1>3 DEF U

\* Fragments with the same data have the same bytes.
LEMMA DumpAgrees ==
  ASSUME NEW x \in Seq(Item), NEW y \in Seq(Item), NEW n \in Nat,
         n <= Len(x), n <= Len(y), \A i \in 1 .. n : x[i].data = y[i].data
  PROVE  \A i \in 0 .. n : DumpUpTo(x)[i] = DumpUpTo(y)[i]
<1>. DEFINE Wrong == {k \in 0 .. n : DumpUpTo(x)[k] # DumpUpTo(y)[k]}
<1>1. Len(x) \in Nat /\ Len(y) \in Nat
  BY LenProperties
<1>2. ASSUME Wrong # {} PROVE FALSE
  <2>1. PICK m \in Wrong : \A k \in Wrong : m <= k
    <3>1. Wrong \subseteq Nat  OBVIOUS
    <3>. HIDE DEF Wrong
    <3>. QED  BY <3>1, <1>2, LeastNumber
  <2>2. m # 0
    BY <2>1, DumpEquations
  <2>3. /\ m \in 1 .. n /\ m \in 1 .. Len(x) /\ m \in 1 .. Len(y)
        /\ m - 1 \in 0 .. n /\ m - 1 \notin Wrong
    BY <2>1, <2>2, <1>1
  <2>4. DumpUpTo(x)[m] = DumpUpTo(x)[m-1] \o x[m].data
    BY <2>3, DumpEquations
  <2>5. DumpUpTo(y)[m] = DumpUpTo(y)[m-1] \o y[m].data
    BY <2>3, DumpEquations
  <2>6. DumpUpTo(x)[m-1] = DumpUpTo(y)[m-1] /\ x[m].data = y[m].data
    BY <2>3
  <2>. QED  BY <2>1, <2>4, <2>5, <2>6
<1>. QED  BY <1>2

\* The bytes of fewer fragments are the beginning of the bytes of more.
LEMMA DumpPrefix ==
  ASSUME NEW its \in Seq(Item), NEW i \in 0 .. Len(its), NEW j \in i .. Len(its)
  PROVE  \E r \in Seq(Byte) : DumpUpTo(its)[j] = DumpUpTo(its)[i] \o r
<1>. DEFINE U == DumpUpTo(its)
            Wrong == {k \in i .. Len(its) : ~ \E r \in Seq(Byte) : U[k] = U[i] \o r}
<1>1. Len(its) \in Nat /\ i \in Nat /\ <<>> \in Seq(Byte)
  BY LenProperties, EmptySeq
<1>2. U[i] \in Seq(Byte)
  BY DumpType
<1>3. ASSUME Wrong # {} PROVE FALSE
  <2>1. PICK m \in Wrong : \A k \in Wrong : m <= k
    <3>1. Wrong \subseteq Nat  BY <1>1
    <3>. HIDE DEF Wrong
    <3>. QED  BY <3>1, <1>3, LeastNumber
  <2>2. m # i
    <3>1. U[i] = U[i] \o <<>>
      <4>. HIDE DEF U
      <4>. QED  BY <1>2, ConcatEmptySeq
    <3>. QED  BY <2>1, <3>1, <1>1
  <2>3. m \in 1 .. Len(its) /\ m - 1 \in i .. Len(its) /\ m - 1 \notin Wrong
    <3>1. m \in 1 .. Len(its) /\ m - 1 \in i .. Len(its) /\ ~(m <= m - 1)
      BY <2>1, <2>2, <1>1
    <3>. HIDE DEF Wrong
    <3>. QED  BY <2>1, <3>1
  <2>4. U[m] = U[m-1] \o its[m].data /\ its[m].data \in Seq(Byte)
    BY <2>3, DumpEquations, ItemData
  <2>5. PICK r \in Seq(Byte) : U[m-1] = U[i] \o r
    BY <2>3
  <2>6. (U[i] \o r) \o its[m].data = U[i] \o (r \o its[m].data)
    <3>. HIDE DEF U
    <3>. QED  BY <1>2, <2>4, BytesAssociate
  <2>7. r \o its[m].data \in Seq(Byte)
    BY <2>4, ConcatProperties
  <2>. QED  BY <2>1, <2>4, <2>5, <2>6, <2>7
<1>. QED  BY <1>3

\* Messages, one after the other, as the lines of one.
AsItems(ms) == [i \in DOMAIN ms |-> LineItem(ms[i].bytes)]
AllBytes(ms) == Dump(AsItems(ms))

LEMMA AsItemsType ==
  ASSUME NEW S, \A m \in S : m.bytes \in Seq(Byte), NEW ms \in Seq(S)
  PROVE  /\ AsItems(ms) \in Seq(Item) /\ Len(AsItems(ms)) = Len(ms)
         /\ \A i \in 1 .. Len(ms) : AsItems(ms)[i].data = ms[i].bytes
<1>1. DOMAIN ms = 1 .. Len(ms) /\ Len(ms) \in Nat
  BY LenProperties
<1>2. ASSUME NEW i \in 1 .. Len(ms) PROVE LineItem(ms[i].bytes) \in Item
  <2>1. ms[i] \in S
    BY ElementOfSeq
  <2>. QED  BY <2>1 DEF LineItem, Item
<1>3. AsItems(ms) \in [1 .. Len(ms) -> Item]
  BY <1>1, <1>2 DEF AsItems
<1>4. AsItems(ms) \in Seq(Item)
  BY <1>1, <1>3, IsASeq DEF AsItems
<1>5. Len(AsItems(ms)) = Len(ms)
  BY <1>1, <1>3, <1>4, LenProperties
<1>6. \A i \in 1 .. Len(ms) : AsItems(ms)[i].data = ms[i].bytes
  BY <1>1 DEF AsItems, LineItem
<1>. QED  BY <1>4, <1>5, <1>6

LEMMA AllBytesType ==
  ASSUME NEW S, \A m \in S : m.bytes \in Seq(Byte), NEW ms \in Seq(S)
  PROVE  AllBytes(ms) \in Seq(Byte)
<1>1. AsItems(ms) \in Seq(Item)
  BY AsItemsType
<1>2. Len(AsItems(ms)) \in 0 .. Len(AsItems(ms))
  BY <1>1, LenProperties
<1>. QED  BY <1>1, <1>2, DumpType, DumpIsUpTo DEF AllBytes

LEMMA AllBytesAppend ==
  ASSUME NEW S, \A m \in S : m.bytes \in Seq(Byte), NEW ms \in Seq(S), NEW m \in S
  PROVE  AllBytes(Append(ms, m)) = AllBytes(ms) \o m.bytes
<1>. DEFINE ns == Append(ms, m)
            x == AsItems(ms)
            y == AsItems(ns)
            n == Len(ms)
<1>1. /\ n \in Nat /\ ns \in Seq(S) /\ Len(ns) = n + 1
      /\ \A i \in 1 .. n : ns[i] = ms[i]
      /\ ns[n + 1] = m
  BY LenProperties, AppendProperties
<1>2. /\ x \in Seq(Item) /\ Len(x) = n
      /\ \A i \in 1 .. n : x[i].data = ms[i].bytes
  BY AsItemsType
<1>3. /\ y \in Seq(Item) /\ Len(y) = n + 1
      /\ \A i \in 1 .. n + 1 : y[i].data = ns[i].bytes
  <2>. HIDE DEF ns, n
  <2>1. /\ y \in Seq(Item) /\ Len(y) = Len(ns)
        /\ \A i \in 1 .. Len(ns) : y[i].data = ns[i].bytes
    BY <1>1, AsItemsType
  <2>. QED  BY <1>1, <2>1
<1>. HIDE DEF ns, x, y, n
<1>4. \A i \in 1 .. n : x[i].data = y[i].data
  BY <1>1, <1>2, <1>3
<1>5. DumpUpTo(y)[n] = DumpUpTo(x)[n]
  <2>1. n \in 0 .. n /\ n <= Len(x) /\ n <= Len(y)
    BY <1>1, <1>2, <1>3
  <2>2. \A i \in 0 .. n : DumpUpTo(x)[i] = DumpUpTo(y)[i]
    BY <1>1, <1>2, <1>3, <1>4, <2>1, DumpAgrees
  <2>. QED  BY <2>1, <2>2
<1>6. DumpUpTo(y)[n + 1] = DumpUpTo(y)[n] \o m.bytes
  <2>1. n < Len(y) /\ n + 1 \in 1 .. n + 1
    BY <1>1, <1>3
  <2>2. y[n + 1].data = m.bytes
    BY <1>1, <1>3, <2>1
  <2>. QED  BY <1>1, <1>3, <2>1, <2>2, DumpStep
<1>. QED  BY <1>2, <1>3, <1>5, <1>6, DumpIsUpTo DEF AllBytes, ns, x, y

\* When the first messages are those of ms, what follows is the next one.
LEMMA AllBytesNext ==
  ASSUME NEW S, \A m \in S : m.bytes \in Seq(Byte), NEW ms \in Seq(S),
         NEW T, \A m \in T : m.bytes \in Seq(Byte), NEW ns \in Seq(T),
         Len(ms) <= Len(ns), \A i \in 1 .. Len(ms) : ms[i].bytes = ns[i].bytes
  PROVE  /\ Len(ms) = Len(ns) => AllBytes(ns) = AllBytes(ms)
         /\ Len(ms) < Len(ns) =>
              \E r \in Seq(Byte) :
                AllBytes(ns) = AllBytes(ms) \o (ns[Len(ms) + 1].bytes \o r)
<1>. DEFINE x == AsItems(ms)
            y == AsItems(ns)
            n == Len(ms)
<1>1. n \in Nat /\ Len(ns) \in Nat
  BY LenProperties
<1>2. /\ x \in Seq(Item) /\ Len(x) = n
      /\ \A i \in 1 .. n : x[i].data = ms[i].bytes
  BY AsItemsType
<1>3. /\ y \in Seq(Item) /\ Len(y) = Len(ns)
      /\ \A i \in 1 .. Len(ns) : y[i].data = ns[i].bytes
  BY AsItemsType
<1>4. n <= Len(ns) /\ \A i \in 1 .. n : ms[i].bytes = ns[i].bytes
  OBVIOUS
<1>. HIDE DEF x, y, n
<1>5. \A i \in 1 .. n : x[i].data = y[i].data
  BY <1>1, <1>2, <1>3, <1>4
<1>6. DumpUpTo(y)[n] = DumpUpTo(x)[n]
  <2>1. n \in 0 .. n /\ n <= Len(x) /\ n <= Len(y)
    BY <1>1, <1>2, <1>3, <1>4
  <2>2. \A i \in 0 .. n : DumpUpTo(x)[i] = DumpUpTo(y)[i]
    BY <1>1, <1>2, <1>3, <1>5, <2>1, DumpAgrees
  <2>. QED  BY <2>1, <2>2
<1>7. AllBytes(ms) = DumpUpTo(y)[n] /\ AllBytes(ns) = DumpUpTo(y)[Len(ns)]
  BY <1>2, <1>3, <1>6, DumpIsUpTo DEF AllBytes, x, y
<1>8. ASSUME n < Len(ns)
      PROVE  \E r \in Seq(Byte) : AllBytes(ns) = AllBytes(ms) \o (ns[n + 1].bytes \o r)
  <2>1. n + 1 \in 0 .. Len(y) /\ n + 1 \in 1 .. Len(y) /\ Len(y) \in n + 1 .. Len(y)
        /\ n + 1 - 1 = n /\ n \in 0 .. Len(y)
    BY <1>1, <1>3, <1>8
  <2>2. PICK r \in Seq(Byte) : DumpUpTo(y)[Len(y)] = DumpUpTo(y)[n + 1] \o r
    BY <1>3, <2>1, DumpPrefix
  <2>3. DumpUpTo(y)[n + 1] = DumpUpTo(y)[n] \o y[n + 1].data
    BY <1>1, <1>3, <1>8, DumpStep
  <2>4. y[n + 1].data = ns[n + 1].bytes
    BY <1>3, <2>1
  <2>5. DumpUpTo(y)[n] \in Seq(Byte) /\ y[n + 1].data \in Seq(Byte)
    BY <1>3, <2>1, DumpType, ItemData
  <2>6. (DumpUpTo(y)[n] \o y[n + 1].data) \o r = DumpUpTo(y)[n] \o (y[n + 1].data \o r)
    BY <2>5, BytesAssociate
  <2>. QED  BY <1>3, <1>7, <2>2, <2>3, <2>4, <2>6
<1>. QED  BY <1>1, <1>3, <1>7, <1>8 DEF n

-----------------------------------------------------------------------------
(* The fragments that the server finds are those that the client sends.    *)

LEMMA ConcatParts ==
  ASSUME NEW u \in Seq(Byte), NEW v \in Seq(Byte)
  PROVE  /\ u \o v \in Seq(Byte) /\ Len(u \o v) = Len(u) + Len(v)
         /\ \A i \in 1 .. Len(u) : (u \o v)[i] = u[i]
         /\ \A i \in 1 .. Len(v) : (u \o v)[Len(u) + i] = v[i]
<1>. DEFINE t == u \o v
<1>1. Len(u) \in Nat /\ Len(v) \in Nat
  BY LenProperties
<1>2. /\ t \in Seq(Byte) /\ Len(t) = Len(u) + Len(v)
      /\ \A i \in 1 .. Len(u) + Len(v) : t[i] = IF i <= Len(u) THEN u[i] ELSE v[i - Len(u)]
  BY ConcatProperties
<1>. HIDE DEF t
<1>3. ASSUME NEW i \in 1 .. Len(u) PROVE t[i] = u[i]
  <2>1. i \in 1 .. Len(u) + Len(v) /\ i <= Len(u)  BY <1>1
  <2>. QED  BY <1>2, <2>1
<1>4. ASSUME NEW i \in 1 .. Len(v) PROVE t[Len(u) + i] = v[i]
  <2>1. /\ Len(u) + i \in 1 .. Len(u) + Len(v) /\ ~(Len(u) + i <= Len(u))
        /\ Len(u) + i - Len(u) = i
    BY <1>1
  <2>. QED  BY <1>2, <2>1
<1>. QED  BY <1>2, <1>3, <1>4 DEF t

\* The bytes t begin with u and d.
Begins(u, d, t) == \E z \in Seq(Byte) : t = u \o (d \o z)

\* The bytes of P from e to x are text.
Reads(P, e, x, text) == x \in e .. Len(P) /\ text = SubSeq(P, e + 1, x)

IsLine(text) == HasLf(text) /\ FirstLf(text) = Len(text)

\* A line that is complete in the bytes P and the line d of the stream that P
\* is the beginning of are the same when they start at the same byte.
LEMMA SameLine ==
  ASSUME NEW P \in Seq(Byte), NEW w \in Seq(Byte), NEW u \in Seq(Byte),
         NEW d \in Seq(Byte), NEW stream, Begins(P, w, stream), Begins(u, d, stream),
         NEW x, NEW text, Reads(P, Len(u), x, text), IsLine(text), IsLine(d)
  PROVE  text = d /\ x = Len(u) + Len(d)
<1>. DEFINE e == Len(u)
            t == stream
<1>a. PICK z \in Seq(Byte) : t = u \o (d \o z)
  BY DEF Begins
<1>b. PICK y \in Seq(Byte) : t = P \o (w \o y)
  BY DEF Begins
<1>c. /\ x \in Len(u) .. Len(P) /\ text = SubSeq(P, Len(u) + 1, x)
       /\ HasLf(text) /\ FirstLf(text) = Len(text) /\ HasLf(d) /\ FirstLf(d) = Len(d)
  BY DEF Reads, IsLine
<1>1. /\ e \in Nat /\ Len(P) \in Nat /\ Len(w) \in Nat /\ Len(d) \in Nat
      /\ Len(z) \in Nat /\ e + 1 \in Int /\ x \in Nat /\ e <= x /\ x <= Len(P)
  BY <1>c, LenProperties
<1>. HIDE DEF e
<1>2. \A i \in 1 .. Len(P) : t[i] = P[i]
  <2>1. w \o y \in Seq(Byte)
    BY ConcatParts
  <2>. DEFINE v == w \o y
  <2>2. v \in Seq(Byte) /\ t = P \o v
    BY <1>b, <2>1
  <2>. HIDE DEF v, t
  <2>. QED  BY <2>2, ConcatParts
<1>3. \A i \in 1 .. Len(d) : t[e + i] = d[i]
  <2>1. /\ d \o z \in Seq(Byte) /\ Len(d \o z) = Len(d) + Len(z)
        /\ \A i \in 1 .. Len(d) : (d \o z)[i] = d[i]
    BY ConcatParts
  <2>2. \A i \in 1 .. Len(d \o z) : t[e + i] = (d \o z)[i]
    BY <1>a, <2>1, ConcatParts DEF e
  <2>3. \A i \in 1 .. Len(d) : i \in 1 .. Len(d) + Len(z)
    BY <1>1
  <2>. HIDE DEF t
  <2>. QED  BY <2>1, <2>2, <2>3, Zenon
<1>. HIDE DEF t
<1>4. /\ text \in Seq(Byte) /\ Len(text) = x - e
      /\ \A i \in 1 .. x - e : text[i] = P[e + i]
  <2>1. text = SubSeq(P, e + 1, x)
    BY <1>c DEF e
  <2>2. \A i \in e + 1 .. x : P[i] \in Byte
    BY <1>1, ElementOfSeq
  <2>3. /\ text \in Seq(Byte) /\ Len(text) = IF e + 1 <= x THEN x - (e + 1) + 1 ELSE 0
        /\ \A i \in 1 .. x - (e + 1) + 1 : text[i] = P[e + 1 + i - 1]
    BY <1>1, <2>1, <2>2, SubSeqProperties
  <2>4. \A i \in 1 .. x - e : i \in 1 .. x - (e + 1) + 1 /\ e + 1 + i - 1 = e + i
    BY <1>1
  <2>5. Len(text) = x - e
    <3>1. IF e + 1 <= x THEN x - (e + 1) + 1 = x - e ELSE 0 = x - e
      BY <1>1
    <3>. QED  BY <2>3, <3>1
  <2>. QED  BY <2>3, <2>4, <2>5
<1>5. \A i \in 1 .. Len(text) : text[i] = t[e + i]
  <2>1. \A i \in 1 .. x - e : e + i \in 1 .. Len(P)
    BY <1>1
  <2>. QED  BY <1>2, <1>4, <2>1
<1>6. /\ Len(text) \in 1 .. Len(text) /\ text[Len(text)] = LF
      /\ \A j \in 1 .. Len(text) : text[j] = LF => Len(text) <= j
  BY <1>c, <1>4, FirstLfProperties
<1>7. /\ Len(d) \in 1 .. Len(d) /\ d[Len(d)] = LF
      /\ \A j \in 1 .. Len(d) : d[j] = LF => Len(d) <= j
  BY <1>c, FirstLfProperties
<1>8. ~(Len(text) < Len(d))
  <2>1. SUFFICES ASSUME Len(text) < Len(d) PROVE FALSE
    OBVIOUS
  <2>2. Len(text) \in 1 .. Len(d) /\ ~(Len(d) <= Len(text))
    BY <1>1, <1>6, <2>1
  <2>. QED  BY <1>3, <1>5, <1>6, <1>7, <2>2
<1>9. ~(Len(d) < Len(text))
  <2>1. SUFFICES ASSUME Len(d) < Len(text) PROVE FALSE
    OBVIOUS
  <2>2. Len(d) \in 1 .. Len(text) /\ ~(Len(text) <= Len(d))
    BY <1>1, <1>4, <1>7, <2>1
  <2>. QED  BY <1>3, <1>5, <1>6, <1>7, <2>2
<1>10. Len(text) = Len(d)
  <2>1. Len(text) \in Nat
    BY <1>4, LenProperties
  <2>2. \A a, b \in Nat : a < b \/ b < a \/ a = b
    OBVIOUS
  <2>. QED  BY <1>1, <1>8, <1>9, <2>1, <2>2, Zenon
<1>11. text = d
  BY <1>3, <1>4, <1>5, <1>10, SeqEqual
<1>. QED  BY <1>1, <1>4, <1>10, <1>11 DEF e

\* The fragment f is the i-th of a message of which n fragments were sent; an
\* empty literal may be found before it is.
Describes(its, n, f, i) ==
  /\ i \in 1 .. Len(its)
  /\ f.end = Len(DumpUpTo(its)[i]) /\ f.kind = its[i].kind
  /\ AnnouncementOf(f) = Said(its, i)
  /\ i <= n \/ (i = n + 1 /\ its[i].data = <<>>)

\* Bytes P that were parsed, and bytes w that follow them, of a message of
\* which n fragments were sent, and of messages after it.
Carries(its, n, P, w) ==
  \E r \in Seq(Byte) :
    /\ P \o w = DumpUpTo(its)[n] \o r
    /\ n < Len(its) => r = <<>>

\* One more fragment of a message.
LEMMA OneMore ==
  ASSUME NEW its \in Seq(Item), NEW k \in Nat, NEW m \in 1 .. Len(its), m = k + 1
  PROVE  /\ DumpUpTo(its)[k] \in Seq(Byte) /\ DumpUpTo(its)[m] \in Seq(Byte)
         /\ its[m].data \in Seq(Byte)
         /\ DumpUpTo(its)[m] = DumpUpTo(its)[k] \o its[m].data
<1>1. Len(its) \in Nat /\ k \in 0 .. Len(its) /\ m \in 0 .. Len(its) /\ m - 1 = k
  BY LenProperties
<1>2. DumpUpTo(its)[m] = DumpUpTo(its)[m - 1] \o its[m].data
  BY DumpEquations
<1>. QED  BY <1>1, <1>2, DumpType, ItemData

\* Concatenations, one at a time.
LEMMA Regroup ==
  ASSUME NEW u \in Seq(Byte), NEW d \in Seq(Byte), NEW v, v = u \o d,
         NEW q \in Seq(Byte), NEW a, a = v \o q,
         NEW r \in Seq(Byte), NEW t, t = a \o r
  PROVE  Begins(u, d, t)
<1>1. q \o r \in Seq(Byte) /\ v \in Seq(Byte)
  BY BytesJoin, Zenon
<1>2. t = v \o (q \o r)
  <2>1. (v \o q) \o r = v \o (q \o r)
    BY <1>1, BytesAssociate, ZenonT(30)
  <2>. QED  BY <2>1, Zenon
<1>. DEFINE z == q \o r
<1>3. z \in Seq(Byte) /\ t = v \o z
  BY <1>1, <1>2
<1>. HIDE DEF z
<1>4. v \o z = u \o (d \o z)
  <2>1. (u \o d) \o z = u \o (d \o z)
    BY <1>3, BytesAssociate, ZenonT(30)
  <2>. QED  BY <2>1, Zenon
<1>. QED  BY <1>3, <1>4 DEF Begins

LEMMA FramedItem ==
  ASSUME NEW its \in Seq(Item), Framed(its), NEW i \in 1 .. Len(its)
  PROVE  /\ Said(its, i - 1) = NoAnnouncement =>
              /\ its[i].kind = "Line" /\ its[i].data # <<>>
              /\ HasLf(its[i].data) /\ FirstLf(its[i].data) = Len(its[i].data)
              /\ Said(its, i) = LineAnnouncement(its[i].data)
         /\ Said(its, i - 1) # NoAnnouncement =>
              /\ its[i].kind = "Literal" /\ Said(its, i) = NoAnnouncement
              /\ Len(its[i].data) = Said(its, i - 1).length
         /\ i = Len(its) <=> its[i].kind = "Line" /\ Said(its, i) = NoAnnouncement
<1>1. i \in DOMAIN its /\ i # 0
  BY LenProperties
<1>2. HasLf(its[i].data) => its[i].data # <<>>
  BY EmptySeq DEF HasLf
<1>. QED  BY <1>1, <1>2 DEF Framed, Said

LEMMA NextLineMatches ==
  ASSUME NEW its \in Seq(Item), Framed(its), NEW n \in 0 .. Len(its),
         NEW P \in Seq(Byte), NEW w \in Seq(Byte), Carries(its, n, P, w),
         NEW k \in Nat, k < Len(its), k <= n \/ (k = n + 1 /\ its[k].data = <<>>),
         Said(its, k) = NoAnnouncement,
         NEW f \in FragmentInfo, f.kind = "Line", LineSays(P, f),
         f.start = Len(DumpUpTo(its)[k]), f.start <= f.end, f.end <= Len(P)
  PROVE  Describes(its, n, f, k + 1)
<1>. DEFINE U == DumpUpTo(its)
            e == Len(U[k])
            m == k + 1
            chunk == its[m].data
            piece == SubSeq(P, e + 1, f.end)
<1>1. /\ Len(its) \in Nat /\ m \in 1 .. Len(its) /\ m - 1 = k /\ k \in 0 .. Len(its)
      /\ n \in Nat
  BY LenProperties
<1>2. /\ its[m].kind = "Line" /\ chunk # <<>> /\ HasLf(chunk) /\ FirstLf(chunk) = Len(chunk)
      /\ Said(its, m) = LineAnnouncement(chunk)
  BY <1>1, FramedItem
<1>3. /\ U[k] \in Seq(Byte) /\ U[n] \in Seq(Byte) /\ U[m] \in Seq(Byte)
      /\ chunk \in Seq(Byte) /\ U[m] = U[k] \o chunk
  <2>1. U[n] \in Seq(Byte)
    BY DumpType
  <2>2. m \in 1 .. Len(its) /\ m = k + 1
    BY <1>1
  <2>. HIDE DEF m
  <2>. QED  BY <2>1, <2>2, OneMore
<1>4. /\ HasLf(piece) /\ FirstLf(piece) = Len(piece)
      /\ f.announcement = LineAnnouncement(piece)
  BY DEF LineSays
<1>5. e \in Nat /\ Len(P) \in Nat /\ Len(w) \in Nat /\ f.end \in Nat /\ f.end \in e .. Len(P)
  BY <1>3, LenProperties DEF FragmentInfo
<1>6. e < f.end
  <2>1. SUFFICES ASSUME f.end = e PROVE FALSE
    BY <1>5
  <2>2. piece = <<>>
    <3>. HIDE DEF e
    <3>1. e \in Int /\ e + 1 \in Int /\ e + 1 > e
      BY <1>5
    <3>2. SubSeq(P, e + 1, e) = <<>>
      BY <3>1, SubSeqEmpty
    <3>. QED  BY <2>1, <3>2 DEF piece
  <2>3. ~HasLf(<<>>)
    BY EmptySeq DEF HasLf
  <2>. HIDE DEF piece
  <2>. QED  BY <1>4, <2>2, <2>3
<1>7. PICK r \in Seq(Byte) : P \o w = U[n] \o r /\ (n < Len(its) => r = <<>>)
  BY DEF Carries
<1>. HIDE DEF U, e, m, chunk, piece
<1>8. k < n
  <2>1. SUFFICES ASSUME ~(k < n) PROVE FALSE
    OBVIOUS
  <2>2. n < Len(its) /\ r = <<>>
    BY <1>1, <1>7, <2>1
  <2>3. Len(U[n]) = e
    <3>1. CASE k = n
      BY <3>1 DEF e
    <3>2. CASE k = n + 1 /\ its[k].data = <<>>
      <4>1. U[n + 1] = U[n] \o its[n + 1].data
        BY <1>1, <2>2, DumpStep DEF U
      <4>2. U[n] \o <<>> = U[n]
        BY <1>3, ConcatEmptySeq
      <4>. QED  BY <3>2, <4>1, <4>2 DEF e
    <3>. QED  BY <2>1, <1>1, <3>1, <3>2
  <2>4. Len(U[n] \o r) = e + 0
    BY <1>3, <2>2, <2>3, EmptySeq, ConcatProperties
  <2>5. Len(P \o w) = Len(P) + Len(w)
    BY ConcatProperties
  <2>6. Len(P) + Len(w) = e + 0
    BY <1>7, <2>4, <2>5
  <2>. QED  BY <1>5, <1>6, <2>6
<1>. DEFINE stream == P \o w
<1>9. Begins(U[k], chunk, stream)
  <2>1. m \in 0 .. Len(its) /\ n \in m .. Len(its)
    BY <1>1, <1>8 DEF m
  <2>2. PICK q \in Seq(Byte) : U[n] = U[m] \o q
    BY <2>1, DumpPrefix DEF U
  <2>3. stream = U[n] \o r
    BY <1>7
  <2>. HIDE DEF stream
  <2>. QED  BY <1>3, <2>2, <2>3, Regroup
<1>10. piece = chunk /\ f.end = e + Len(chunk)
  <2>2. piece = SubSeq(P, e + 1, f.end)
    BY DEF piece
  <2>3. stream = P \o w
    OBVIOUS
  <2>. DEFINE before == U[k]
              x == f.end
  <2>4. before \in Seq(Byte) /\ chunk \in Seq(Byte) /\ Begins(before, chunk, stream)
        /\ IsLine(chunk)
    BY <1>2, <1>3, <1>9 DEF IsLine
  <2>5. Reads(P, Len(before), x, piece) /\ IsLine(piece)
    BY <1>4, <1>5, <2>2 DEF Reads, IsLine, e
  <2>6. Begins(P, w, stream)
    <3>. HIDE DEF stream
    <3>1. P \o (w \o <<>>) = P \o w /\ <<>> \in Seq(Byte)
      BY EmptySeq, ConcatEmptySeq
    <3>. QED  BY <2>3, <3>1 DEF Begins
  <2>. HIDE DEF stream, before, piece, x
  <2>7. piece = chunk /\ x = Len(before) + Len(chunk)
    BY <2>4, <2>5, <2>6, SameLine
  <2>. QED  BY <2>7 DEF x, e, before
<1>11. f.end = Len(U[m])
  BY <1>3, <1>10, ConcatProperties DEF e
<1>12. m <= n
  BY <1>1, <1>8 DEF m
<1>13. AnnouncementOf(f) = Said(its, m)
  BY <1>2, <1>4, <1>10 DEF AnnouncementOf
<1>14. Describes(its, n, f, m)
  BY <1>1, <1>2, <1>11, <1>12, <1>13 DEF Describes, U
<1>. QED  BY <1>14 DEF m

LEMMA NextLiteralMatches ==
  ASSUME NEW its \in Seq(Item), Framed(its), NEW n \in 0 .. Len(its),
         NEW P \in Seq(Byte), NEW w \in Seq(Byte), Carries(its, n, P, w),
         NEW k \in Nat, k < Len(its), k <= n \/ (k = n + 1 /\ its[k].data = <<>>),
         Said(its, k) # NoAnnouncement,
         NEW f \in FragmentInfo, f.kind = "Literal",
         f.end - f.start = Said(its, k).length,
         f.start = Len(DumpUpTo(its)[k]), f.start <= f.end, f.end <= Len(P)
  PROVE  Describes(its, n, f, k + 1)
<1>. DEFINE U == DumpUpTo(its)
            e == Len(U[k])
            m == k + 1
            chunk == its[m].data
<1>1. /\ Len(its) \in Nat /\ m \in 1 .. Len(its) /\ m - 1 = k /\ k \in 0 .. Len(its)
      /\ n \in Nat
  BY LenProperties
<1>2. /\ its[m].kind = "Literal" /\ Said(its, m) = NoAnnouncement
      /\ Len(chunk) = Said(its, k).length
  BY <1>1, FramedItem
<1>3. /\ U[k] \in Seq(Byte) /\ U[n] \in Seq(Byte) /\ U[m] \in Seq(Byte)
      /\ chunk \in Seq(Byte) /\ U[m] = U[k] \o chunk
  <2>1. U[n] \in Seq(Byte)
    BY DumpType
  <2>2. m \in 1 .. Len(its) /\ m = k + 1
    BY <1>1
  <2>. HIDE DEF m
  <2>. QED  BY <2>1, <2>2, OneMore
<1>4. e \in Nat /\ Len(P) \in Nat /\ Len(w) \in Nat /\ f.end \in Nat /\ Len(chunk) \in Nat
  BY <1>3, LenProperties DEF FragmentInfo
<1>5. PICK r \in Seq(Byte) : P \o w = U[n] \o r /\ (n < Len(its) => r = <<>>)
  BY DEF Carries
<1>6. f.end = e + Len(chunk)
  BY <1>2, <1>4
<1>7. Len(U[m]) = e + Len(chunk)
  BY <1>3, ConcatProperties
<1>8. AnnouncementOf(f) = NoAnnouncement
  BY DEF AnnouncementOf
<1>9. k <= n
  <2>1. SUFFICES ASSUME k = n + 1, its[k].data = <<>> PROVE FALSE
    OBVIOUS
  <2>2. k \in 1 .. Len(its) /\ k # 0
    BY <1>1, <2>1
  <2>3. its[k].kind # "Literal"
    BY <2>2 DEF Said
  <2>. QED  BY <2>1, <2>2, <2>3, FramedItem
<1>. HIDE DEF U, e, m, chunk
<1>10. k = n => chunk = <<>>
  <2>1. SUFFICES ASSUME k = n PROVE chunk = <<>>
    OBVIOUS
  <2>2. r = <<>>
    BY <1>5, <2>1
  <2>3. Len(U[n] \o r) = e + 0
    BY <1>3, <2>1, <2>2, EmptySeq, ConcatProperties DEF e
  <2>4. Len(P \o w) = Len(P) + Len(w)
    BY ConcatProperties
  <2>5. Len(P) + Len(w) = e + 0
    BY <1>5, <2>3, <2>4
  <2>6. Len(chunk) = 0
    BY <1>4, <1>6, <2>5
  <2>. QED  BY <1>3, <2>6, EmptySeq
<1>11. m <= n \/ (m = n + 1 /\ chunk = <<>>)
  BY <1>1, <1>9, <1>10 DEF m
<1>12. Describes(its, n, f, m)
  BY <1>1, <1>2, <1>6, <1>7, <1>8, <1>11 DEF Describes, U, chunk
<1>. QED  BY <1>12 DEF m

\* No line but the last of a message announces nothing.
OneMessage(fs) ==
  \A i \in 1 .. Len(fs) - 1 : fs[i].kind = "Line" => fs[i].announcement # NoAnnouncement

\* What the fragments of a message are when P was parsed of it.
Fragmented(fs, P) ==
  /\ fs \in Seq(FragmentInfo)
  /\ Tiles(fs) /\ FollowsAnnouncements(fs) /\ Within(fs, Len(P)) /\ OneMessage(fs)
  /\ \A i \in DOMAIN fs : LineSays(P, fs[i])

LEMMA FragmentsMatch ==
  ASSUME NEW its \in Seq(Item), Framed(its), NEW n \in 0 .. Len(its),
         NEW P \in Seq(Byte), NEW w \in Seq(Byte), Carries(its, n, P, w),
         NEW fs, Fragmented(fs, P)
  PROVE  \A i \in 1 .. Len(fs) : Describes(its, n, fs[i], i)
<1>. DEFINE Wrong == {i \in 1 .. Len(fs) : ~Describes(its, n, fs[i], i)}
<1>1. /\ fs \in Seq(FragmentInfo) /\ Len(fs) \in Nat /\ DOMAIN fs = 1 .. Len(fs)
      /\ Len(its) \in Nat /\ n \in Nat /\ its # <<>>
  BY LenProperties DEF Fragmented, Framed
<1>2. Len(its) > 0
  BY <1>1, EmptySeq
<1>3. SUFFICES ASSUME Wrong # {} PROVE FALSE
  OBVIOUS
<1>4. PICK m \in Wrong : \A i \in Wrong : m <= i
  <2>1. Wrong \subseteq Nat  OBVIOUS
  <2>. HIDE DEF Wrong
  <2>. QED  BY <2>1, <1>3, LeastNumber
<1>. DEFINE k == m - 1
<1>5. m \in 1 .. Len(fs) /\ ~Describes(its, n, fs[m], m) /\ k \in Nat /\ k + 1 = m
  BY <1>4
<1>6. k # 0 => k \in 1 .. Len(fs) - 1 /\ k \in 1 .. Len(fs) /\ Describes(its, n, fs[k], k)
  <2>1. k # 0 => k \in 1 .. Len(fs) - 1 /\ k \in 1 .. Len(fs) /\ ~(m <= k)
    BY <1>1, <1>5
  <2>2. k \notin Wrong \/ m <= k
    <3>. HIDE DEF Wrong
    <3>. QED  BY <1>4
  <2>. QED  BY <2>1, <2>2
<1>7. /\ fs[m] \in FragmentInfo /\ LineSays(P, fs[m])
      /\ fs[m].start <= fs[m].end /\ fs[m].end <= Len(P)
      /\ fs[m].start = (IF m = 1 THEN 0 ELSE fs[k].end)
  BY <1>1, <1>5, ElementOfSeq DEF Fragmented, Within, Tiles
<1>8. LET a == IF m = 1 THEN NoAnnouncement ELSE AnnouncementOf(fs[k])
      IN  IF a = NoAnnouncement THEN fs[m].kind = "Line"
          ELSE fs[m].kind = "Literal" /\ fs[m].end - fs[m].start = a.length
  BY <1>1, <1>5 DEF Fragmented, FollowsAnnouncements
<1>. HIDE DEF k, Wrong
<1>9. /\ k < Len(its) /\ (k <= n \/ (k = n + 1 /\ its[k].data = <<>>))
      /\ fs[m].start = Len(DumpUpTo(its)[k])
      /\ Said(its, k) = IF m = 1 THEN NoAnnouncement ELSE AnnouncementOf(fs[k])
  <2>1. CASE k = 0
    <3>1. m = 1 /\ Said(its, k) = NoAnnouncement
      BY <1>5, <2>1 DEF Said
    <3>2. Len(DumpUpTo(its)[k]) = 0
      BY <2>1, DumpEquations, EmptySeq
    <3>. QED  BY <1>1, <1>2, <1>7, <2>1, <3>1, <3>2
  <2>2. CASE k # 0
    <3>1. /\ k \in 1 .. Len(fs) - 1 /\ Describes(its, n, fs[k], k) /\ m # 1
      BY <1>5, <1>6, <2>2
    <3>2. /\ k \in 1 .. Len(its) /\ fs[k].end = Len(DumpUpTo(its)[k])
          /\ fs[k].kind = its[k].kind /\ AnnouncementOf(fs[k]) = Said(its, k)
          /\ (k <= n \/ (k = n + 1 /\ its[k].data = <<>>))
      BY <3>1 DEF Describes
    <3>3. k # Len(its)
      <4>1. SUFFICES ASSUME k = Len(its) PROVE FALSE
        OBVIOUS
      <4>2. its[k].kind = "Line" /\ Said(its, k) = NoAnnouncement
        BY <3>2, <4>1, FramedItem
      <4>3. fs[k].announcement # NoAnnouncement
        BY <3>1, <3>2, <4>2 DEF Fragmented, OneMessage
      <4>. QED  BY <3>2, <4>2, <4>3 DEF AnnouncementOf
    <3>. QED  BY <1>1, <1>7, <3>1, <3>2, <3>3
  <2>. QED  BY <2>1, <2>2
<1>10. CASE Said(its, k) = NoAnnouncement
  <2>1. fs[m].kind = "Line"
    BY <1>8, <1>9, <1>10
  <2>2. Describes(its, n, fs[m], k + 1)
    BY <1>5, <1>7, <1>9, <1>10, <2>1, NextLineMatches
  <2>. QED  BY <1>5, <2>2
<1>11. CASE Said(its, k) # NoAnnouncement
  <2>1. fs[m].kind = "Literal" /\ fs[m].end - fs[m].start = Said(its, k).length
    BY <1>8, <1>9, <1>11
  <2>2. Describes(its, n, fs[m], k + 1)
    BY <1>5, <1>7, <1>9, <1>11, <2>1, NextLiteralMatches
  <2>. QED  BY <1>5, <2>2
<1>. QED  BY <1>10, <1>11

\* The same of the last fragment.
LEMMA LastMatches ==
  ASSUME NEW its \in Seq(Item), Framed(its), NEW n \in 0 .. Len(its),
         NEW P \in Seq(Byte), NEW w \in Seq(Byte), Carries(its, n, P, w),
         NEW fs, Fragmented(fs, P), NEW k, k = Len(fs)
  PROVE  /\ k \in 0 .. Len(its) /\ k \in Nat
         /\ k <= n \/ (k = n + 1 /\ its[k].data = <<>>)
         /\ LastEnd(fs) = Len(DumpUpTo(its)[k])
         /\ LastAnnounced(fs) = Said(its, k)
         /\ EndsWithLine(fs) /\ LastAnnounced(fs) = NoAnnouncement => k = Len(its) /\ k <= n
<1>1. fs \in Seq(FragmentInfo) /\ Len(fs) \in Nat /\ Len(its) \in Nat /\ n \in Nat
  BY LenProperties DEF Fragmented
<1>2. CASE k = 0
  <2>1. fs = <<>>
    BY <1>1, <1>2, EmptySeq
  <2>2. Len(DumpUpTo(its)[k]) = 0
    BY <1>2, DumpEquations, EmptySeq
  <2>. QED  BY <1>1, <1>2, <2>1, <2>2 DEF LastEnd, LastAnnounced, Said, EndsWithLine
<1>3. CASE k # 0
  <2>1. k \in 1 .. Len(fs) /\ fs # <<>>
    BY <1>1, <1>3, EmptySeq
  <2>2. Describes(its, n, fs[k], k)
    BY <2>1, FragmentsMatch
  <2>3. /\ k \in 1 .. Len(its) /\ fs[k].end = Len(DumpUpTo(its)[k])
        /\ fs[k].kind = its[k].kind /\ AnnouncementOf(fs[k]) = Said(its, k)
        /\ (k <= n \/ (k = n + 1 /\ its[k].data = <<>>))
    BY <2>2 DEF Describes
  <2>4. LastEnd(fs) = fs[k].end /\ LastAnnounced(fs) = AnnouncementOf(fs[k])
    BY <2>1 DEF LastEnd, LastAnnounced
  <2>5. ASSUME EndsWithLine(fs), LastAnnounced(fs) = NoAnnouncement
        PROVE  k = Len(its) /\ k <= n
    <3>1. its[k].kind = "Line" /\ Said(its, k) = NoAnnouncement
      BY <2>3, <2>4, <2>5 DEF EndsWithLine
    <3>2. k = Len(its)
      BY <2>3, <3>1, FramedItem
    <3>3. its[k].data # <<>>
      <4>1. Said(its, k - 1) = NoAnnouncement
        BY <2>3, <3>1, FramedItem
      <4>. QED  BY <2>3, <4>1, FramedItem
    <3>. QED  BY <2>3, <3>2, <3>3
  <2>. QED  BY <1>1, <2>3, <2>4, <2>5
<1>. QED  BY <1>2, <1>3

-----------------------------------------------------------------------------
(* The invariant.                                                          *)

\* What the client sends for a message.
CommandOf(bytes) == CHOOSE c \in Commands : Dump(c.items) = bytes
Encoding(m) ==
  IF m.codec = "Command" THEN CommandOf(m.bytes).items ELSE <<LineItem(m.bytes)>>

\* The message is one that the client may send.
Encoded(m) ==
  CASE m.codec = "Command" -> \E c \in Commands : Dump(c.items) = m.bytes
    [] m.codec = "Authenticate" -> m.bytes = DataLine
    [] m.codec = "Idle" -> m.bytes = DoneLine

\* The message that the server is to serve next, if the client has sent it
\* completely.
AllServed == Len(served) = Len(sent)
NextMessage == sent[Len(served) + 1]

\* What the server has of its current message.  Between two messages that is
\* nothing, although the fragmentizer still keeps the one that was served.
Between == IsMessageComplete /\ pc # "react"
Frags == IF Between THEN <<>> ELSE fragments
Bytes == IF Between THEN <<>> ELSE parsed
Poisoned == ~Between /\ message_poisoned

\* How many fragments the client has sent of the command it still sends.  The
\* rest of a rejected command is never sent.
Rejected == client = "awaits literal" /\ to_client # <<>> /\ Head(to_client).kind = "Bad"
Sending == client \in {"sending", "awaits literal"} /\ ~Rejected
SentItems == IF Sending THEN Len(command.items) - Len(items) ELSE 0

\* The fragments of the message that the server works on, and how many of them
\* the client has sent.
Current == IF AllServed THEN command.items ELSE Encoding(NextMessage)
Available == IF AllServed THEN SentItems ELSE Len(Current)

\* The server has answered the announcement of fragment i.
Answered(i) == Len(Frags) >= i \/ (Len(Frags) = i - 1 /\ pc # "react")

\* The items that are left are the last ones of the command.
ItemsInv ==
  client \in {"sending", "awaits literal"} =>
    /\ Len(items) \in 1 .. Len(command.items)
    /\ items = SubSeq(command.items, Len(command.items) - Len(items) + 1, Len(command.items))

\* No byte is lost, invented or taken for another message: what was served and
\* what is on its way is what was sent.
Wire(b, u, w) == b \o (u \o w)
Flow == Wire(Bytes, unparsed_buffer, to_server)
Partial == DumpUpTo(command.items)[SentItems]
Balanced(s, f, t, p) == s \o f = t \o p
FlowOK == Balanced(AllBytes(served), Flow, AllBytes(sent), Partial)

\* The next message is for the codec of the state, all others are commands.
QueueInv ==
  /\ \A j \in 1 .. Len(sent) : Encoded(sent[j])
  /\ \A j \in Len(served) + 1 .. Len(sent) :
       sent[j].codec = IF j = Len(served) + 1 THEN state.codec ELSE "Command"

\* The message asks for one that is not a command.
Asks(m) == m.codec = "Command" /\ KindsOf(m.bytes) \cap {"Authenticate", "Idle"} # {}
Calm(n) == \A j \in Len(served) + 1 .. n : ~Asks(sent[j])

Requests(c) == IF c = "awaits data" THEN "Authenticate" ELSE "Idle"

\* Where the two are in their dialogue: no message on its way asks for
\* anything; the last one does; it was granted; the data was sent.
Working ==
  /\ client \in {"idle", "sending", "awaits literal"}
  /\ client # "awaits literal" => to_client = <<>>
  /\ state.codec # "Authenticate" /\ (AllServed => state.codec = "Command")
  /\ Calm(Len(sent))
Requested ==
  /\ client \in {"awaits data", "awaits idle"} /\ command.kind = Requests(client)
  /\ to_client = <<>>
  /\ state.codec # "Authenticate" /\ (AllServed => state.codec = "Command")
  /\ Calm(Len(sent) - 1)
  /\ ~AllServed => sent[Len(sent)] = Message("Command", Dump(command.items))
Granted ==
  /\ client \in {"awaits data", "awaits idle"} /\ command.kind = Requests(client)
  /\ to_client = <<Continue>> /\ AllServed
  /\ state = [codec |-> command.kind, tag |-> TagOf(command)]
Authenticating ==
  /\ client = "awaits ok" /\ Len(sent) <= Len(served) + 1
  /\ \/ /\ to_client = <<>> /\ state.codec = "Authenticate"
        /\ ~AllServed => state.tag = TagOf(command)
     \/ /\ to_client = <<OkReply(TagOf(command))>> /\ state.codec = "Command"
        /\ AllServed

DialogueInv == Working \/ Requested \/ Granted \/ Authenticating

NoSync(its, n) == \A i \in 1 .. n : its[i].mode # "Sync"

\* A synchronizing literal is sent only after the server has answered its
\* announcement, and then nothing else is on its way.
WaitInv ==
  /\ \A i \in 1 .. Available : Current[i].mode = "Sync" => Answered(i)
  /\ \A j \in Len(served) + 2 .. Len(sent) :
       NoSync(Encoding(sent[j]), Len(Encoding(sent[j])))
  /\ ~AllServed => NoSync(command.items, SentItems)
  /\ client = "sending" /\ Head(items).mode = "Sync" =>
       AllServed /\ Answered(SentItems + 1)
  /\ client = "awaits literal" =>
       /\ Head(items).mode = "Sync"
       /\ to_client \in {<<>>, <<Continue>>, <<Bad(TagOf(command))>>}
       /\ ~AllServed => to_client = <<>>
       /\ to_client = <<Continue>> => Answered(SentItems + 1)

\* The server has refused a literal but has no tag to say so.
Stuck ==
  /\ AllServed /\ client = "awaits literal" /\ to_client = <<>> /\ pc # "react"
  /\ Len(Frags) = SentItems /\ Said(command.items, SentItems).length > AcceptLimit

\* A message is poisoned when it misbehaves, or when it goes no further.
PoisonInv ==
  /\ Poisoned => Frags # <<>>
  /\ Poisoned /\ Behaves(Current) => Stuck
  /\ Misbehaves(Current) =>
       \A i \in 1 .. Len(Frags) :
         Said(Current, i).mode = "Sync" /\ (i < Len(Frags) \/ pc # "react") => Poisoned

ReactInv == pc = "react" => fragments # <<>> /\ LastEnd(fragments) = Len(parsed)

\* What is known of the server alone.
ServerInv ==
  /\ SessionTypeOK /\ max_message_size \in Limits
  /\ BufferHoldsMessage /\ FragmentsInv /\ OneMessage(fragments) /\ ReactInv

\* The inductive invariant.
IInv ==
  /\ ServerInv
  /\ ItemsInv /\ AgreeOnMessages /\ DecodedAsSent /\ FlowOK
  /\ QueueInv /\ DialogueInv /\ WaitInv /\ PoisonInv

-----------------------------------------------------------------------------
(* Messages and their encodings.                                           *)

LEMMA CommandFacts ==
  ASSUME NEW c \in Commands
  PROVE  /\ c.items \in Seq(Item) /\ Framed(c.items) /\ Dump(c.items) \in Seq(Byte)
         /\ c.kind \in Kinds
         /\ IF c.kind = "Malformed" THEN Misbehaves(c.items) ELSE Behaves(c.items)
         /\ KindsOf(Dump(c.items)) = {c.kind}
         /\ CommandOf(Dump(c.items)) = c
<1>1. c.items \in Seq(Item) /\ c.kind \in Kinds
  BY SessionAssumption
<1>2. Framed(c.items) /\ IF c.kind = "Malformed" THEN Misbehaves(c.items) ELSE Behaves(c.items)
  BY CommandsAssumption
<1>3. Dump(c.items) \in Seq(Byte)
  <2>1. Len(c.items) \in 0 .. Len(c.items)
    BY <1>1, LenProperties
  <2>. QED  BY <1>1, <2>1, DumpType, DumpIsUpTo
<1>4. \A d \in Commands : Dump(d.items) = Dump(c.items) => d = c
  BY CommandsAssumption
<1>5. KindsOf(Dump(c.items)) = {c.kind}
  BY <1>4 DEF KindsOf
<1>6. CommandOf(Dump(c.items)) = c
  BY <1>4 DEF CommandOf
<1>. QED  BY <1>1, <1>2, <1>3, <1>5, <1>6

LEMMA LineFacts ==
  ASSUME NEW line \in {DataLine, DoneLine}, NEW its, its = <<LineItem(line)>>
  PROVE  /\ line \in Seq(Byte)
         /\ its \in Seq(Item) /\ Framed(its) /\ Behaves(its) /\ Dump(its) = line
         /\ NoSync(its, Len(its))
<1>1. line \in Seq(Byte)
  BY SessionAssumption
<1>2. LineItem(line) \in Item
  BY <1>1 DEF LineItem, Item
<1>3. its \in Seq(Item) /\ Len(its) = 1 /\ its[1] = LineItem(line) /\ DOMAIN its = 1 .. 1
  BY <1>2
<1>4. Framed(its)
  BY LinesAssumption
<1>5. Dump(its) = line
  <2>1. 1 \in 1 .. Len(its) /\ 1 - 1 = 0
    BY <1>3
  <2>2. DumpUpTo(its)[1] = DumpUpTo(its)[0] \o its[1].data /\ DumpUpTo(its)[0] = <<>>
    BY <1>3, <2>1, DumpEquations
  <2>3. its[1].data = line
    BY <1>3 DEF LineItem
  <2>4. <<>> \o line = line
    BY <1>1, ConcatEmptySeq
  <2>. QED  BY <1>3, <2>2, <2>3, <2>4, DumpIsUpTo
<1>6. \A i \in 1 .. 1 : its[i].mode = "None" /\ i - 1 = 0
  BY <1>3 DEF LineItem
<1>7. Said(its, 0).mode = "None"
  BY DEF Said, NoAnnouncement
<1>8. Behaves(its) /\ NoSync(its, Len(its))
  BY <1>3, <1>6, <1>7 DEF Behaves, NoSync
<1>. QED  BY <1>1, <1>3, <1>4, <1>5, <1>8

LEMMA EncodingFacts ==
  ASSUME NEW m, m.codec \in Codecs, Encoded(m)
  PROVE  /\ Encoding(m) \in Seq(Item) /\ Framed(Encoding(m)) /\ Dump(Encoding(m)) = m.bytes
         /\ m.bytes \in Seq(Byte)
         /\ Behaves(Encoding(m)) \/ Misbehaves(Encoding(m))
         /\ m.codec # "Command" =>
              /\ m.bytes = IF m.codec = "Authenticate" THEN DataLine ELSE DoneLine
              /\ Behaves(Encoding(m)) /\ KindsOf(m.bytes) # {"Malformed"}
         /\ m.codec = "Command" =>
              \E c \in Commands : /\ Encoding(m) = c.items /\ m.bytes = Dump(c.items)
                                  /\ KindsOf(m.bytes) = {c.kind}
<1>1. CASE m.codec = "Command"
  <2>1. PICK c \in Commands : Dump(c.items) = m.bytes
    BY <1>1 DEF Encoded
  <2>2. Encoding(m) = c.items
    BY <1>1, <2>1, CommandFacts DEF Encoding
  <2>. QED  BY <1>1, <2>1, <2>2, CommandFacts
<1>2. CASE m.codec \in {"Authenticate", "Idle"}
  <2>1. m.bytes = IF m.codec = "Authenticate" THEN DataLine ELSE DoneLine
    BY <1>2 DEF Encoded
  <2>2. Encoding(m) = <<LineItem(m.bytes)>> /\ m.bytes \in {DataLine, DoneLine}
    BY <1>2, <2>1 DEF Encoding
  <2>3. KindsOf(m.bytes) # {"Malformed"}
    BY <2>2, LinesAssumption
  <2>. QED  BY <1>2, <2>1, <2>2, <2>3, LineFacts
<1>. QED  BY <1>1, <1>2 DEF Codecs

\* A message cannot both behave and misbehave.
LEMMA EitherOr ==
  ASSUME NEW its \in Seq(Item), Framed(its), Behaves(its), Misbehaves(its)
  PROVE  FALSE
<1>1. PICK i \in DOMAIN its : Said(its, i).mode = "Sync"
  BY DEF Misbehaves
<1>2. DOMAIN its = 1 .. Len(its) /\ Len(its) \in Nat
  BY LenProperties
<1>3. i # Len(its)
  BY <1>1, <1>2, FramedItem DEF NoAnnouncement
<1>4. i + 1 \in DOMAIN its /\ i + 1 - 1 = i
  BY <1>2, <1>3
<1>. DEFINE j == i + 1
<1>5. j \in DOMAIN its /\ j - 1 = i
  BY <1>4
<1>. HIDE DEF j
<1>6. its[j].mode = Said(its, j - 1).mode /\ its[j].mode # "Sync"
  BY <1>5 DEF Behaves, Misbehaves
<1>. QED  BY <1>1, <1>5, <1>6

-----------------------------------------------------------------------------
(* What the server works on is what the client sends.                      *)

\* The part of the invariant that relates the bytes.
StreamPart == ServerInv /\ ItemsInv /\ AgreeOnMessages /\ FlowOK /\ QueueInv

LEMMA MessageTypes ==
  ASSUME SessionTypeOK
  PROVE  /\ Len(sent) \in Nat /\ Len(served) \in Nat
         /\ \A i \in 1 .. Len(sent) : sent[i] \in [codec : Codecs, bytes : Seq(Byte)]
         /\ \A i \in 1 .. Len(served) : served[i].bytes \in Seq(Byte)
         /\ AllBytes(sent) \in Seq(Byte) /\ AllBytes(served) \in Seq(Byte)
<1>. DEFINE S == [codec : Codecs, bytes : Seq(Byte)]
            T == [codec : Codecs, bytes : Seq(Byte), result : DecodeErrors \cup {"Ok"}]
<1>1. sent \in Seq(S) /\ served \in Seq(T)
  BY DEF SessionTypeOK
<1>2. \A m \in S : m.bytes \in Seq(Byte)
  OBVIOUS
<1>3. \A m \in T : m.bytes \in Seq(Byte)
  OBVIOUS
<1>. HIDE DEF S, T
<1>4. \A i \in 1 .. Len(sent) : sent[i] \in S
  BY <1>1, ElementOfSeq
<1>5. \A i \in 1 .. Len(served) : served[i] \in T
  BY <1>1, ElementOfSeq
<1>6. AllBytes(sent) \in Seq(Byte)
  BY <1>1, <1>2, AllBytesType
<1>7. AllBytes(served) \in Seq(Byte)
  BY <1>1, <1>3, AllBytesType
<1>. QED  BY <1>1, <1>3, <1>4, <1>5, <1>6, <1>7, LenProperties DEF S

LEMMA CommandIs ==
  ASSUME SessionTypeOK
  PROVE  /\ command \in Commands /\ command.items \in Seq(Item) /\ Framed(command.items)
         /\ Len(command.items) \in Nat /\ Len(command.items) >= 1
<1>1. command \in Commands
  BY DEF SessionTypeOK
<1>2. command.items \in Seq(Item) /\ Framed(command.items)
  BY <1>1, CommandFacts
<1>3. command.items # <<>>
  BY <1>2 DEF Framed
<1>4. Len(command.items) \in Nat /\ Len(command.items) # 0
  BY <1>2, <1>3, EmptySeq, LenProperties
<1>. QED  BY <1>1, <1>2, <1>4

\* Which items are left to be sent.
LEMMA ItemsLeft ==
  ASSUME SessionTypeOK, ItemsInv
  PROVE  /\ SentItems \in Nat /\ SentItems < Len(command.items)
         /\ Partial \in Seq(Byte)
         /\ client \in {"sending", "awaits literal"} => items # <<>>
         /\ Sending => /\ Len(items) = Len(command.items) - SentItems
                       /\ Head(items) = command.items[SentItems + 1]
<1>. DEFINE its == command.items
            n == Len(its)
            m == Len(items)
<1>1. its \in Seq(Item) /\ n \in Nat /\ n >= 1 /\ items \in Seq(Item) /\ m \in Nat
  BY CommandIs, LenProperties DEF SessionTypeOK
<1>2. ~Sending => SentItems = 0
  BY DEF SentItems
<1>3. Sending => SentItems = n - m
  BY DEF SentItems
<1>4. CASE client \notin {"sending", "awaits literal"}
  <2>1. ~Sending
    BY <1>4 DEF Sending
  <2>2. SentItems = 0 /\ 0 \in 0 .. n
    BY <1>1, <1>2, <2>1
  <2>3. Partial \in Seq(Byte)
    BY <1>1, <2>2, DumpType DEF Partial
  <2>4. SentItems \in Nat /\ SentItems < Len(command.items)
    BY <1>1, <2>2
  <2>. QED  BY <1>4, <2>1, <2>3, <2>4
<1>5. CASE client \in {"sending", "awaits literal"}
  <2>. DEFINE a == n - m + 1
  <2>1. m \in 1 .. n /\ items = SubSeq(its, a, n)
    BY <1>5 DEF ItemsInv
  <2>. HIDE DEF its, n, m
  <2>2. a \in 1 .. n /\ n \in Nat /\ n - m \in 0 .. n /\ n - m < n /\ n - (n - m) = m
        /\ n >= a
    BY <1>1, <2>1
  <2>. DEFINE t == SubSeq(its, a, n)
  <2>3. t # <<>> /\ Head(t) = its[a]
    <3>. HIDE DEF a
    <3>1. \A i \in a .. n : its[i] \in Item
      BY <1>1, <2>2, ElementOfSeq DEF n
    <3>2. /\ t \in Seq(Item)
          /\ Len(t) = IF a <= n THEN n - a + 1 ELSE 0
          /\ \A i \in 1 .. n - a + 1 : t[i] = its[a + i - 1]
      BY <2>2, <3>1, SubSeqProperties
    <3>3. 1 \in 1 .. n - a + 1 /\ a + 1 - 1 = a /\ n - a + 1 # 0
      BY <2>2
    <3>4. t[1] = its[a]
      BY <3>2, <3>3
    <3>. HIDE DEF t
    <3>5. Head(t) = its[a]
      BY <3>4
    <3>. QED  BY <2>2, <3>2, <3>3, <3>5, EmptySeq
  <2>4. items # <<>> /\ Head(items) = its[n - m + 1]
    <3>. HIDE DEF t
    <3>1. items = t
      BY <2>1 DEF t
    <3>. QED  BY <2>3, <3>1
  <2>. HIDE DEF a
  <2>5. SentItems \in 0 .. n /\ SentItems < n
    <3>1. SentItems = n - m \/ SentItems = 0
      BY <1>2, <1>3
    <3>. QED  BY <1>1, <2>2, <3>1
  <2>6. Partial \in Seq(Byte)
    BY <1>1, <2>5, DumpType DEF Partial, its, n
  <2>7. ASSUME Sending PROVE m = n - SentItems /\ Head(items) = its[SentItems + 1]
    <3>1. SentItems = n - m
      BY <1>3, <2>7
    <3>2. n - SentItems = m
      BY <2>2, <3>1
    <3>. QED  BY <2>4, <3>1, <3>2
  <2>8. Sending => Len(items) = Len(command.items) - SentItems
                   /\ Head(items) = command.items[SentItems + 1]
    BY <2>7 DEF m, n, its
  <2>9. SentItems \in Nat /\ SentItems < Len(command.items)
    BY <2>5 DEF n, its
  <2>. QED  BY <2>4, <2>6, <2>8, <2>9
<1>. QED  BY <1>4, <1>5

LEMMA NextMessageFacts ==
  ASSUME SessionTypeOK, AgreeOnMessages, QueueInv, ~AllServed
  PROVE  /\ Len(served) < Len(sent) /\ Len(served) + 1 \in 1 .. Len(sent)
         /\ NextMessage \in [codec : Codecs, bytes : Seq(Byte)]
         /\ Encoded(NextMessage) /\ NextMessage.codec = state.codec
<1>1. Len(sent) \in Nat /\ Len(served) \in Nat
  BY MessageTypes
<1>2. Len(served) < Len(sent)
  BY <1>1 DEF AllServed, AgreeOnMessages
<1>. DEFINE j == Len(served) + 1
<1>3. j \in 1 .. Len(sent) /\ j \in Len(served) + 1 .. Len(sent) /\ j = Len(served) + 1
  BY <1>1, <1>2
<1>. HIDE DEF j
<1>4. sent[j] \in [codec : Codecs, bytes : Seq(Byte)]
  BY <1>3, MessageTypes
<1>5. Encoded(sent[j]) /\ sent[j].codec = state.codec
  BY <1>3 DEF QueueInv
<1>. QED  BY <1>2, <1>3, <1>4, <1>5 DEF NextMessage

LEMMA CurrentFacts ==
  ASSUME SessionTypeOK, ItemsInv, AgreeOnMessages, QueueInv
  PROVE  /\ Current \in Seq(Item) /\ Framed(Current)
         /\ Behaves(Current) \/ Misbehaves(Current)
         /\ Available \in 0 .. Len(Current)
         /\ AllServed => Current = command.items /\ Available = SentItems
         /\ ~AllServed => Dump(Current) = NextMessage.bytes /\ Available = Len(Current)
<1>1. CASE AllServed
  <2>1. Current = command.items /\ Available = SentItems
    BY <1>1 DEF Current, Available
  <2>2. command \in Commands /\ Len(command.items) \in Nat
    BY CommandIs
  <2>3. SentItems \in 0 .. Len(command.items)
    <3>1. SentItems \in Nat /\ SentItems < Len(command.items)
      BY ItemsLeft
    <3>. QED  BY <2>2, <3>1
  <2>4. Behaves(command.items) \/ Misbehaves(command.items)
    BY <2>2, CommandFacts
  <2>. QED  BY <1>1, <2>1, <2>3, <2>4, CommandIs
<1>2. CASE ~AllServed
  <2>1. Current = Encoding(NextMessage) /\ Available = Len(Current)
    BY <1>2 DEF Current, Available
  <2>2. NextMessage.codec \in Codecs /\ Encoded(NextMessage)
    BY <1>2, NextMessageFacts
  <2>3. /\ Current \in Seq(Item) /\ Framed(Current) /\ Dump(Current) = NextMessage.bytes
        /\ Behaves(Current) \/ Misbehaves(Current)
    BY <2>1, <2>2, EncodingFacts
  <2>4. Len(Current) \in 0 .. Len(Current)
    BY <2>3, LenProperties
  <2>. QED  BY <1>2, <2>1, <2>3, <2>4
<1>. QED  BY <1>1, <1>2

LEMMA ServerTypes ==
  ASSUME SessionTypeOK
  PROVE  /\ TypeOK /\ Bytes \in Seq(Byte) /\ Frags \in Seq(FragmentInfo)
         /\ Len(Frags) \in Nat
         /\ unparsed_buffer \in Seq(Byte) /\ to_server \in Seq(Byte)
         /\ unparsed_buffer \o to_server \in Seq(Byte)
         /\ parsed \in Seq(Byte) /\ fragments \in Seq(FragmentInfo)
         /\ Flow \in Seq(Byte)
<1>1. TypeOK /\ to_server \in Seq(Byte)
  BY DEF SessionTypeOK
<1>2. unparsed_buffer \in Seq(Byte) /\ parsed \in Seq(Byte) /\ fragments \in Seq(FragmentInfo)
  BY <1>1 DEF TypeOK
<1>3. Bytes \in Seq(Byte) /\ Frags \in Seq(FragmentInfo)
  BY <1>2, EmptySeq DEF Bytes, Frags
<1>4. unparsed_buffer \o to_server \in Seq(Byte)
  BY <1>1, <1>2, ConcatProperties
<1>. DEFINE v == unparsed_buffer \o to_server
<1>5. Bytes \o v \in Seq(Byte)
  <2>1. v \in Seq(Byte)
    BY <1>4
  <2>. HIDE DEF v
  <2>. QED  BY <1>3, <2>1, ConcatProperties
<1>6. Flow \in Seq(Byte)
  BY <1>5 DEF Flow, Wire
<1>. QED  BY <1>1, <1>2, <1>3, <1>4, <1>6, LenProperties

LEMMA CurrentIsCarried ==
  ASSUME StreamPart
  PROVE  Carries(Current, Available, Bytes, unparsed_buffer \o to_server)
<1>. DEFINE s == AllBytes(served)
            p == Partial
            v == unparsed_buffer \o to_server
<1>1. SessionTypeOK /\ ItemsInv /\ AgreeOnMessages /\ FlowOK /\ QueueInv
  BY DEF StreamPart, ServerInv
<1>2. s \in Seq(Byte) /\ p \in Seq(Byte) /\ Flow \in Seq(Byte)
  BY <1>1, MessageTypes, ItemsLeft, ServerTypes
<1>3. Flow = Bytes \o v
  BY DEF Flow, Wire
<1>4. s \o Flow = AllBytes(sent) \o p
  BY <1>1 DEF FlowOK, Balanced
<1>5. /\ AllServed => AllBytes(sent) = s
      /\ ~AllServed => \E r \in Seq(Byte) : AllBytes(sent) = s \o (NextMessage.bytes \o r)
  <2>. DEFINE S == [codec : Codecs, bytes : Seq(Byte)]
              T == [codec : Codecs, bytes : Seq(Byte), result : DecodeErrors \cup {"Ok"}]
  <2>1. sent \in Seq(S) /\ served \in Seq(T)
    BY <1>1 DEF SessionTypeOK
  <2>2. (\A m \in S : m.bytes \in Seq(Byte)) /\ (\A m \in T : m.bytes \in Seq(Byte))
    OBVIOUS
  <2>. HIDE DEF S, T
  <2>3. Len(served) <= Len(sent) /\ \A i \in 1 .. Len(served) : served[i].bytes = sent[i].bytes
    <3>1. DOMAIN served = 1 .. Len(served)
      BY <2>1, LenProperties
    <3>. QED  BY <1>1, <3>1 DEF AgreeOnMessages
  <2>4. /\ Len(served) = Len(sent) => AllBytes(sent) = AllBytes(served)
        /\ Len(served) < Len(sent) =>
             \E r \in Seq(Byte) :
               AllBytes(sent) = AllBytes(served) \o (sent[Len(served) + 1].bytes \o r)
    BY <2>1, <2>2, <2>3, AllBytesNext
  <2>5. ~AllServed => Len(served) < Len(sent)
    BY <1>1, NextMessageFacts
  <2>. QED  BY <2>4, <2>5 DEF AllServed, NextMessage
<1>6. /\ Current \in Seq(Item) /\ Available \in 0 .. Len(Current)
      /\ DumpUpTo(Current)[Available] \in Seq(Byte)
  BY <1>1, CurrentFacts, DumpType
<1>. HIDE DEF s, p, v
<1>7. CASE AllServed
  <2>1. s \o Flow = s \o p
    BY <1>4, <1>5, <1>7
  <2>2. Flow = p
    BY <1>2, <2>1, ConcatSimplifications
  <2>3. Current = command.items /\ Available = SentItems
    BY <1>1, <1>7, CurrentFacts
  <2>4. p = DumpUpTo(Current)[Available]
    BY <2>3 DEF p, Partial
  <2>5. p \o <<>> = p /\ <<>> \in Seq(Byte)
    BY <1>2, EmptySeq, ConcatEmptySeq
  <2>6. Bytes \o v = DumpUpTo(Current)[Available] \o <<>>
    BY <1>3, <2>2, <2>4, <2>5
  <2>. QED  BY <2>5, <2>6 DEF Carries, v
<1>8. CASE ~AllServed
  <2>. DEFINE b == NextMessage.bytes
  <2>1. PICK r \in Seq(Byte) : AllBytes(sent) = s \o (b \o r)
    BY <1>5, <1>8
  <2>2. b \in Seq(Byte) /\ Dump(Current) = b /\ Available = Len(Current)
    BY <1>1, <1>8, NextMessageFacts, CurrentFacts
  <2>3. DumpUpTo(Current)[Available] = b
    BY <2>2, DumpIsUpTo
  <2>. HIDE DEF b
  <2>4. Flow = b \o (r \o p)
    <3>. DEFINE c == b \o r
    <3>1. c \in Seq(Byte) /\ r \o p \in Seq(Byte)
      BY <1>2, <2>2, BytesJoin, Zenon
    <3>2. c \o p = b \o (r \o p)
      BY <1>2, <2>2, BytesAssociate
    <3>3. s \o Flow = (s \o c) \o p
      BY <1>4, <2>1
    <3>. HIDE DEF c
    <3>4. (s \o c) \o p = s \o (c \o p) /\ c \o p \in Seq(Byte)
      <4>1. (s \o c) \o p = s \o (c \o p)
        BY <1>2, <3>1, BytesAssociate, ZenonT(30)
      <4>2. c \o p \in Seq(Byte)
        BY <1>2, <3>1, BytesJoin, Zenon
      <4>. QED  BY <4>1, <4>2
    <3>. DEFINE d == c \o p
    <3>5. s \o Flow = s \o d /\ d \in Seq(Byte)
      BY <3>3, <3>4
    <3>. HIDE DEF d
    <3>6. Flow = d
      BY <1>2, <3>5, ConcatSimplifications
    <3>. QED  BY <3>2, <3>6 DEF d
  <2>5. r \o p \in Seq(Byte)
    BY <1>2, ConcatProperties
  <2>. DEFINE z == r \o p
  <2>6. Bytes \o v = DumpUpTo(Current)[Available] \o z /\ z \in Seq(Byte)
    BY <1>3, <2>3, <2>4, <2>5
  <2>. HIDE DEF z
  <2>7. Len(Current) \in Nat
    BY <1>6, LenProperties
  <2>8. Carries(Current, Available, Bytes, v)
    <3>1. Available < Len(Current) => z = <<>>
      BY <2>2, <2>7
    <3>. QED  BY <2>6, <3>1, Zenon DEF Carries
  <2>. QED  BY <2>8 DEF v
<1>. QED  BY <1>7, <1>8

LEMMA FragsAreFragmented ==
  ASSUME ServerInv
  PROVE  Fragmented(Frags, Bytes)
<1>1. SessionTypeOK /\ FragmentsInv /\ OneMessage(fragments)
  BY DEF ServerInv
<1>2. CASE Between
  <2>1. Frags = <<>> /\ Bytes = <<>> /\ Len(<<>>) = 0 /\ <<>> \in Seq(FragmentInfo)
    BY <1>2, EmptySeq DEF Frags, Bytes
  <2>2. \A i \in DOMAIN <<>> : FALSE
    BY EmptySeq
  <2>3. \A i \in 1 .. 0 - 1 : FALSE
    OBVIOUS
  <2>. QED  BY <2>1, <2>2, <2>3 DEF Fragmented, Tiles, FollowsAnnouncements, Within, OneMessage
<1>3. CASE ~Between
  <2>1. Frags = fragments /\ Bytes = parsed
    BY <1>3 DEF Frags, Bytes
  <2>2. FragmentsTileMessage /\ LiteralsAsAnnounced /\ LinesInv
    BY <1>1 DEF FragmentsInv
  <2>3. Tiles(fragments) /\ FollowsAnnouncements(fragments)
    BY <2>2 DEF FragmentsTileMessage, LiteralsAsAnnounced
  <2>4. /\ Within(fragments, Len(parsed))
        /\ \A i \in DOMAIN fragments : LineSays(parsed, fragments[i])
    BY <2>2, LinesSayIs DEF LinesInv, FragmentsWithinMessage
  <2>. QED  BY <1>1, <2>1, <2>3, <2>4, ServerTypes DEF Fragmented
<1>. QED  BY <1>2, <1>3

\* The fragments that the server has are the first ones of the message.
Matches ==
  LET k == Len(Frags)
  IN  /\ k \in 0 .. Len(Current) /\ k \in Nat
      /\ k <= Available \/ (k = Available + 1 /\ Current[k].data = <<>>)
      /\ LastEnd(Frags) = Len(DumpUpTo(Current)[k])
      /\ LastAnnounced(Frags) = Said(Current, k)
      /\ EndsWithLine(Frags) /\ LastAnnounced(Frags) = NoAnnouncement =>
           k = Len(Current) /\ k <= Available

LEMMA Matching == StreamPart => Matches
<1>. SUFFICES ASSUME StreamPart PROVE Matches
  OBVIOUS
<1>. DEFINE v == unparsed_buffer \o to_server
            its == Current
            n == Available
            P == Bytes
            fs == Frags
            k == Len(fs)
<1>1. SessionTypeOK /\ ItemsInv /\ AgreeOnMessages /\ QueueInv /\ ServerInv
  BY DEF StreamPart, ServerInv
<1>2. its \in Seq(Item) /\ Framed(its) /\ n \in 0 .. Len(its)
  BY <1>1, CurrentFacts
<1>3. P \in Seq(Byte) /\ v \in Seq(Byte)
  BY <1>1, ServerTypes
<1>4. Carries(its, n, P, v)
  BY CurrentIsCarried
<1>5. Fragmented(fs, P)
  BY <1>1, FragsAreFragmented
<1>. HIDE DEF v, its, n, P, fs, k
<1>6. /\ k \in 0 .. Len(its) /\ k \in Nat
      /\ k <= n \/ (k = n + 1 /\ its[k].data = <<>>)
      /\ LastEnd(fs) = Len(DumpUpTo(its)[k])
      /\ LastAnnounced(fs) = Said(its, k)
      /\ EndsWithLine(fs) /\ LastAnnounced(fs) = NoAnnouncement => k = Len(its) /\ k <= n
  <2>1. k = Len(fs)
    BY DEF k
  <2>. QED  BY <1>2, <1>3, <1>4, <1>5, <2>1, LastMatches
<1>. QED  BY <1>6 DEF Matches, its, n, P, fs, k

-----------------------------------------------------------------------------
(* Where client and server are when the server reacts.                     *)

\* Two beginnings of the same bytes that are equally long.
Joined(t, a, v) == t = a \o v

LEMMA SameBeginning ==
  ASSUME NEW a \in Seq(Byte), NEW v \in Seq(Byte), NEW b \in Seq(Byte), NEW w \in Seq(Byte),
         NEW t, Joined(t, a, v), Joined(t, b, w), Len(a) = Len(b)
  PROVE  a = b /\ v = w
<1>. USE DEF Joined
<1>1. /\ \A i \in 1 .. Len(a) : t[i] = a[i]
      /\ \A i \in 1 .. Len(b) : t[i] = b[i]
  <2>1. \A i \in 1 .. Len(a) : (a \o v)[i] = a[i]
    BY ConcatParts, Zenon
  <2>2. \A i \in 1 .. Len(b) : (b \o w)[i] = b[i]
    BY ConcatParts, Zenon
  <2>. QED  BY <2>1, <2>2, Zenon
<1>2. a = b
  <2>1. Len(a) \in Nat
    BY LenProperties
  <2>2. \A i \in 1 .. Len(a) : a[i] = b[i]
    BY <1>1
  <2>. QED  BY <2>2, SeqEqual
<1>3. a \o v = a \o w
  BY <1>2
<1>4. v = w
  BY <1>3, ConcatSimplifications
<1>. QED  BY <1>2, <1>4

\* When what was parsed ends with the fragment k, it is the bytes of the first
\* k fragments; when no more fragments were sent, nothing is left.
LEMMA BytesAreSent ==
  ASSUME NEW its \in Seq(Item), NEW n \in 0 .. Len(its),
         NEW P \in Seq(Byte), NEW w \in Seq(Byte), Carries(its, n, P, w),
         NEW k \in 0 .. Len(its), k <= n \/ (k = n + 1 /\ its[k].data = <<>>),
         Len(P) = Len(DumpUpTo(its)[k])
  PROVE  /\ P = DumpUpTo(its)[k]
         /\ k = n /\ n < Len(its) => w = <<>>
<1>. DEFINE U == DumpUpTo(its)
            t == P \o w
<1>1. n \in Nat /\ k \in Nat /\ Len(its) \in Nat /\ <<>> \in Seq(Byte)
  BY LenProperties, EmptySeq
<1>2. U[n] \in Seq(Byte) /\ U[k] \in Seq(Byte)
  BY DumpType
<1>3. PICK r \in Seq(Byte) : t = U[n] \o r /\ (n < Len(its) => r = <<>>)
  BY DEF Carries
<1>. HIDE DEF U
<1>4. \E q \in Seq(Byte) : U[n] = U[k] \o q /\ (k = n => q = <<>>)
  <2>1. CASE k = n
    <3>1. U[n] = U[k] \o <<>>
      BY <1>2, <2>1, ConcatEmptySeq
    <3>. QED  BY <1>1, <3>1
  <2>2. CASE k < n
    <3>1. n \in k .. Len(its)
      BY <1>1, <2>2
    <3>2. PICK q \in Seq(Byte) : U[n] = U[k] \o q
      BY <3>1, DumpPrefix DEF U
    <3>3. k # n
      BY <1>1, <2>2
    <3>. QED  BY <3>2, <3>3, Zenon
  <2>3. CASE k = n + 1 /\ its[k].data = <<>>
    <3>1. k \in 1 .. Len(its)
      BY <1>1, <2>3
    <3>2. U[k] = U[n] \o its[k].data
      BY <1>1, <2>3, <3>1, OneMore DEF U
    <3>3. U[n] \o <<>> = U[n] /\ U[k] \o <<>> = U[k]
      BY <1>2, ConcatEmptySeq
    <3>4. U[n] = U[k] \o <<>> /\ k # n
      BY <1>1, <2>3, <3>2, <3>3
    <3>. QED  BY <1>1, <3>4
  <2>4. k = n \/ k < n \/ (k = n + 1 /\ its[k].data = <<>>)
    BY <1>1
  <2>. QED  BY <2>1, <2>2, <2>3, <2>4, Zenon
<1>5. PICK q \in Seq(Byte) : U[n] = U[k] \o q /\ (k = n => q = <<>>)
  BY <1>4
<1>. DEFINE z == q \o r
<1>6. z \in Seq(Byte) /\ t = U[k] \o z
  <2>1. z \in Seq(Byte)
    BY ConcatProperties
  <2>. DEFINE a == U[k]
              b == U[n]
  <2>2. a \in Seq(Byte) /\ b = a \o q /\ t = b \o r
    BY <1>2, <1>3, <1>5
  <2>. HIDE DEF a, b, t
  <2>3. t = a \o (q \o r)
    BY <2>2, BytesAssociate
  <2>. QED  BY <2>1, <2>3 DEF a
<1>. HIDE DEF z
<1>7. P = U[k] /\ w = z
  <2>. DEFINE a == U[k]
  <2>1. a \in Seq(Byte) /\ Joined(t, a, z) /\ Len(P) = Len(a) /\ Joined(t, P, w)
    BY <1>2, <1>6 DEF U, Joined
  <2>. HIDE DEF a, t
  <2>2. P = a /\ w = z
    BY <1>6, <2>1, SameBeginning
  <2>. QED  BY <2>2 DEF a
<1>8. ASSUME k = n, n < Len(its) PROVE w = <<>>
  <2>1. q = <<>> /\ r = <<>>
    BY <1>3, <1>5, <1>8
  <2>2. <<>> \o <<>> = <<>>
    BY <1>1, ConcatEmptySeq
  <2>. QED  BY <1>7, <2>1, <2>2 DEF z
<1>. QED  BY <1>7, <1>8 DEF U

IsBeginning(b, p) == \E j \in 0 .. Len(p) : b = SubSeq(p, 1, j)

\* The tag of the beginning of a part of a message is that of the message.
LEMMA TagOfPart ==
  ASSUME NEW p \in Seq(Byte), NEW q \in Seq(Byte), NEW t, Joined(t, p, q),
         NEW b, IsBeginning(b, p), ParseTag(b) # NoTag
  PROVE  ParseTag(t) = ParseTag(b)
<1>. PICK j \in 0 .. Len(p) : b = SubSeq(p, 1, j)
  BY DEF IsBeginning
<1>. DEFINE x == SubSeq(p, j + 1, Len(p))
<1>1. Len(p) \in Nat /\ j \in Nat
  BY LenProperties
<1>2. b \in Seq(Byte) /\ x \in Seq(Byte)
  BY PrefixProperties, SuffixProperties
<1>3. p = b \o x
  <2>1. /\ 1 \in 1 .. Len(p) + 1 /\ j \in 1 - 1 .. Len(p) /\ Len(p) \in j .. Len(p)
    BY <1>1
  <2>2. b \o x = SubSeq(p, 1, Len(p))
    BY <2>1, ConcatAdjacentSubSeq
  <2>. QED  BY <2>2, SubSeqFull
<1>. HIDE DEF x
<1>. DEFINE y == x \o q
<1>4. y \in Seq(Byte)
  BY <1>2, ConcatProperties
<1>5. (b \o x) \o q = b \o (x \o q)
  BY <1>2, BytesAssociate, Zenon
<1>6. t = b \o y
  BY <1>3, <1>5, Zenon DEF Joined
<1>. HIDE DEF y
<1>7. ParseTag(b \o y) = ParseTag(b)
  BY <1>2, <1>4, TagOfPrefix
<1>. QED  BY <1>6, <1>7

\* Nothing was sent of the message: nothing was received of it.
LEMMA NothingYet ==
  ASSUME StreamPart, PoisonInv, AllServed, SentItems = 0
  PROVE  Frags = <<>> /\ ~Poisoned
<1>1. SessionTypeOK /\ ItemsInv /\ AgreeOnMessages /\ QueueInv
  BY DEF StreamPart, ServerInv
<1>2. Current \in Seq(Item) /\ Framed(Current) /\ Available = 0
  BY <1>1, CurrentFacts
<1>. DEFINE k == Len(Frags)
            its == Current
<1>3. k \in 0 .. Len(its) /\ k \in Nat /\ (k <= 0 \/ (k = 0 + 1 /\ its[k].data = <<>>))
  BY <1>2, Matching DEF Matches
<1>. HIDE DEF k, its
<1>4. k = 0
  <2>1. SUFFICES ASSUME k = 1, its[1].data = <<>> PROVE FALSE
    BY <1>3
  <2>2. 1 \in 1 .. Len(its) /\ 1 - 1 = 0
    BY <1>3, <2>1
  <2>3. Said(its, 0) = NoAnnouncement
    BY DEF Said
  <2>4. its[1].data # <<>>
    BY <1>2, <2>2, <2>3, FramedItem DEF its
  <2>. QED  BY <2>1, <2>4
<1>5. Frags = <<>>
  BY <1>1, <1>4, ServerTypes, EmptySeq DEF k
<1>. QED  BY <1>5 DEF PoisonInv

LEMMA WhatIsRead ==
  ASSUME StreamPart, pc = "react"
  PROVE  /\ ~Between /\ Frags = fragments /\ Bytes = parsed
         /\ Frags # <<>>
         /\ parsed = DumpUpTo(Current)[Len(Frags)]
         /\ Len(Frags) = Available /\ Available < Len(Current) =>
              unparsed_buffer \o to_server = <<>>
<1>1. SessionTypeOK /\ ItemsInv /\ AgreeOnMessages /\ QueueInv /\ ReactInv
  BY DEF StreamPart, ServerInv
<1>2. ~Between /\ Frags = fragments /\ Bytes = parsed
  BY DEF Between, Frags, Bytes
<1>3. fragments # <<>> /\ LastEnd(Frags) = Len(parsed)
  BY <1>1, <1>2 DEF ReactInv
<1>. DEFINE v == unparsed_buffer \o to_server
            its == Current
            n == Available
            P == parsed
            k == Len(Frags)
<1>4. its \in Seq(Item) /\ n \in 0 .. Len(its)
  BY <1>1, CurrentFacts
<1>5. P \in Seq(Byte) /\ v \in Seq(Byte)
  BY <1>1, ServerTypes
<1>6. Carries(its, n, P, v)
  BY <1>2, CurrentIsCarried
<1>7. /\ k \in 0 .. Len(its) /\ (k <= n \/ (k = n + 1 /\ its[k].data = <<>>))
      /\ LastEnd(Frags) = Len(DumpUpTo(its)[k])
  BY Matching DEF Matches
<1>8. Len(P) = Len(DumpUpTo(its)[k])
  BY <1>3, <1>7
<1>. HIDE DEF v, its, n, P, k
<1>9. P = DumpUpTo(its)[k] /\ (k = n /\ n < Len(its) => v = <<>>)
  BY <1>4, <1>5, <1>6, <1>7, <1>8, BytesAreSent
<1>. QED  BY <1>2, <1>3, <1>9 DEF v, its, n, P, k

LEMMA BufferIsPrefix ==
  ASSUME ServerInv
  PROVE  /\ Admitted(max_message_size, Len(parsed)) \in 0 .. Len(parsed)
         /\ message_buffer = SubSeq(parsed, 1, Admitted(max_message_size, Len(parsed)))
         /\ max_message_size_exceeded <=>
              Admitted(max_message_size, Len(parsed)) < Len(parsed)
<1>1. BufferHoldsMessage /\ max_message_size \in MaybeLimit /\ parsed \in Seq(Byte)
  BY DEF ServerInv, SessionTypeOK, TypeOK
<1>2. Len(parsed) \in Nat
  BY <1>1, LenProperties
<1>3. Admitted(max_message_size, Len(parsed)) \in 0 .. Len(parsed)
  <2>. DEFINE l == max_message_size
              n == Len(parsed)
  <2>1. l \in MaybeLimit /\ n \in Nat
    BY <1>1, <1>2
  <2>. HIDE DEF l, n
  <2>2. Admitted(l, n) \in 0 .. n
    BY <2>1 DEF Admitted, Least, MaybeLimit, NoLimit
  <2>. QED  BY <2>2 DEF l, n
<1>. QED  BY <1>1, <1>3 DEF BufferHoldsMessage

LEMMA InvariantParts ==
  ASSUME IInv
  PROVE  /\ StreamPart /\ ServerInv /\ SessionTypeOK /\ ItemsInv /\ AgreeOnMessages
         /\ DecodedAsSent /\ FlowOK /\ QueueInv /\ DialogueInv /\ WaitInv /\ PoisonInv
         /\ TypeOK /\ FragmentsInv /\ FragmentsTileMessage /\ LiteralsAsAnnounced
         /\ BufferHoldsMessage /\ OneMessage(fragments) /\ ReactInv
         /\ max_message_size \in Limits
BY DEF IInv, StreamPart, ServerInv, SessionTypeOK, FragmentsInv

\* The fragments of the message, as sequences.
LEMMA CurrentItems ==
  ASSUME IInv
  PROVE  /\ Current \in Seq(Item) /\ Framed(Current) /\ Len(Current) \in Nat
         /\ DOMAIN Current = 1 .. Len(Current) /\ Available \in Nat
         /\ Available <= Len(Current)
         /\ Behaves(Current) \/ Misbehaves(Current)
         /\ ~(Behaves(Current) /\ Misbehaves(Current))
<1>1. /\ Current \in Seq(Item) /\ Framed(Current) /\ Available \in 0 .. Len(Current)
      /\ Behaves(Current) \/ Misbehaves(Current)
  BY InvariantParts, CurrentFacts
<1>2. ~(Behaves(Current) /\ Misbehaves(Current))
  BY <1>1, EitherOr
<1>3. Len(Current) \in Nat /\ DOMAIN Current = 1 .. Len(Current)
  BY <1>1, LenProperties
<1>4. Available \in Nat /\ Available <= Len(Current)
  BY <1>1, <1>3
<1>. QED  BY <1>1, <1>2, <1>3, <1>4

\* The last fragment announces a synchronizing literal.  A client that behaves
\* waits for the reply and has sent nothing after the announcement; of one that
\* misbehaves the literal is too long and there is no tag.
LEMMA AtSync ==
  ASSUME IInv, pc = "react", SyncAnnounced
  PROVE  /\ ~IsMessageComplete
         /\ Behaves(Current) =>
              /\ AllServed /\ client = "awaits literal" /\ to_client = <<>> /\ ~Rejected
              /\ Len(Frags) = SentItems /\ unparsed_buffer \o to_server = <<>>
              /\ ~Poisoned
         /\ Misbehaves(Current) => TooLong /\ DecodeTag = NoTag
<1>. DEFINE k == Len(Frags)
            its == Current
            n == Available
<1>1. /\ StreamPart /\ ServerInv /\ SessionTypeOK /\ ItemsInv /\ LiteralsAsAnnounced
      /\ WaitInv /\ PoisonInv /\ AgreeOnMessages /\ QueueInv /\ DialogueInv
  BY InvariantParts
<1>2. /\ Frags = fragments /\ parsed = DumpUpTo(its)[k]
      /\ k = n /\ n < Len(its) => unparsed_buffer \o to_server = <<>>
  BY <1>1, WhatIsRead
<1>3. /\ k \in 0 .. Len(its) /\ k \in Nat /\ (k <= n \/ (k = n + 1 /\ its[k].data = <<>>))
      /\ LastAnnounced(fragments) = Said(its, k)
  BY <1>1, <1>2, Matching DEF Matches
<1>4. /\ its \in Seq(Item) /\ Framed(its) /\ Len(its) \in Nat /\ DOMAIN its = 1 .. Len(its)
      /\ n \in Nat /\ n <= Len(its)
  BY CurrentItems
<1>5. Said(its, k).mode = "Sync" /\ Said(its, k) # NoAnnouncement
  BY <1>3 DEF SyncAnnounced, NoAnnouncement
<1>6. ~IsMessageComplete
  <2>1. parser.kind = "Literal"
    BY <1>1, <1>3, <1>5 DEF LiteralsAsAnnounced
  <2>. QED  BY <2>1 DEF IsMessageComplete, NoParser
<1>. HIDE DEF k, its, n
<1>7. k \in 1 .. Len(its) /\ its[k].kind = "Line"
  <2>1. k # 0 /\ its[k].kind # "Literal"
    BY <1>5 DEF Said
  <2>2. k \in 1 .. Len(its)
    <3>1. k \in 0 .. Len(its)  BY <1>3
    <3>2. k # 0  BY <2>1
    <3>3. Len(its) \in Nat  BY <1>4
    <3>. QED  BY <3>1, <3>2, <3>3
  <2>3. its[k] \in Item
    BY <1>4, <2>2, ItemData
  <2>. QED  BY <2>1, <2>2, <2>3 DEF Item
<1>8. k < Len(its)
  <2>1. k # Len(its)
    BY <1>4, <1>5, <1>7, FramedItem
  <2>2. k \in 1 .. Len(its) /\ Len(its) \in Nat
    BY <1>4, <1>7
  <2>. QED  BY <2>1, <2>2
<1>9. its[k].data # <<>>
  <2>1. Said(its, k - 1) = NoAnnouncement
    BY <1>4, <1>7, FramedItem
  <2>. QED  BY <1>4, <1>7, <2>1, FramedItem
<1>10. k <= n
  BY <1>3, <1>9
<1>. DEFINE m == k + 1
<1>11. m \in 1 .. Len(its) /\ m - 1 = k /\ m \in DOMAIN its
  BY <1>4, <1>7, <1>8
<1>12. ~Answered(m)
  BY <1>3 DEF Answered, k
<1>. HIDE DEF m
<1>13. ASSUME Behaves(Current)
       PROVE  /\ AllServed /\ client = "awaits literal" /\ to_client = <<>> /\ ~Rejected
              /\ Len(Frags) = SentItems /\ unparsed_buffer \o to_server = <<>>
              /\ ~Poisoned
  <2>1. its[m].mode = "Sync"
    BY <1>5, <1>11, <1>13 DEF Behaves, its
  <2>2. ~(m <= n)
    <3>1. \A i \in 1 .. n : its[i].mode = "Sync" => Answered(i)
      BY <1>1 DEF WaitInv, its, n
    <3>2. m <= n => m \in 1 .. n
      BY <1>4, <1>11
    <3>. QED  BY <1>12, <2>1, <3>1, <3>2
  <2>3. k = n
    BY <1>3, <1>4, <1>10, <2>2 DEF m
  <2>4. AllServed
    <3>1. ~AllServed => n = Len(its)
      BY <1>1, CurrentFacts DEF its, n
    <3>2. Len(its) \in Nat /\ n \in Nat /\ n # Len(its)
      <4>1. Len(its) \in Nat /\ n \in Nat  BY <1>4
      <4>. QED  BY <1>8, <2>3, <4>1
    <3>. QED  BY <3>1, <3>2
  <2>5. its = command.items /\ n = SentItems
    BY <1>1, <2>4, CurrentFacts DEF its, n
  <2>6. Sending
    BY <1>7, <2>3, <2>5 DEF SentItems
  <2>7. Head(items) = its[m] /\ SentItems + 1 = m
    BY <1>1, <2>3, <2>5, <2>6, ItemsLeft DEF m
  <2>8. client # "sending"
    BY <1>1, <1>12, <2>1, <2>7 DEF WaitInv
  <2>9. client = "awaits literal" /\ ~Rejected
    BY <2>6, <2>8 DEF Sending
  <2>10. to_client = <<>>
    <3>1. /\ to_client \in {<<>>, <<Continue>>, <<Bad(TagOf(command))>>}
          /\ to_client = <<Continue>> => Answered(SentItems + 1)
      BY <1>1, <2>9 DEF WaitInv
    <3>2. to_client # <<Continue>>
      BY <1>12, <2>7, <3>1
    <3>3. to_client = <<Bad(TagOf(command))>> => Rejected
      <4>. DEFINE b == Bad(TagOf(command))
      <4>1. b.kind = "Bad"
        BY DEF Bad
      <4>. HIDE DEF b
      <4>2. <<b>> # <<>> /\ Head(<<b>>) = b
        OBVIOUS
      <4>. QED  BY <2>9, <4>1, <4>2 DEF Rejected, b
    <3>. QED  BY <2>9, <3>1, <3>2, <3>3
  <2>11. unparsed_buffer \o to_server = <<>>
    BY <1>2, <1>8, <2>3
  <2>12. ~Poisoned
    BY <1>1, <1>13 DEF PoisonInv, Stuck
  <2>. QED  BY <2>3, <2>4, <2>5, <2>9, <2>10, <2>11, <2>12 DEF k
<1>14. ASSUME Misbehaves(Current)
       PROVE  TooLong /\ DecodeTag = NoTag
  <2>1. k \in DOMAIN its
    BY <1>4, <1>7
  <2>2. Said(its, k).length > AcceptLimit /\ ParseTag(Dump(its)) = NoTag
    BY <1>5, <1>14, <2>1 DEF Misbehaves, its
  <2>3. TooLong
    BY <1>3, <2>2 DEF TooLong
  <2>4. DecodeTag = NoTag
    <3>1. SUFFICES ASSUME DecodeTag # NoTag PROVE FALSE
      OBVIOUS
    <3>2. k \in 0 .. Len(its) /\ Len(its) \in k .. Len(its)
      BY <1>3, <1>4
    <3>3. PICK q \in Seq(Byte) : DumpUpTo(its)[Len(its)] = DumpUpTo(its)[k] \o q
      BY <1>4, <3>2, DumpPrefix
    <3>. DEFINE t == Dump(its)
    <3>4. Joined(t, parsed, q)
      BY <1>2, <3>3, DumpIsUpTo DEF its, k, Joined
    <3>5. IsBeginning(message_buffer, parsed)
      BY <1>1, BufferIsPrefix DEF IsBeginning
    <3>6. ParseTag(message_buffer) # NoTag
      BY <3>1 DEF DecodeTag
    <3>7. parsed \in Seq(Byte)
      BY <1>1, ServerTypes
    <3>. HIDE DEF t
    <3>8. ParseTag(t) = ParseTag(message_buffer)
      BY <3>3, <3>4, <3>5, <3>6, <3>7, TagOfPart
    <3>. QED  BY <2>2, <3>6, <3>8 DEF t
  <2>. QED  BY <2>3, <2>4
<1>. QED  BY <1>6, <1>13, <1>14

\* A client that waits for the reply gets its own tag.
LEMMA TagAtSync ==
  ASSUME IInv, pc = "react", SyncAnnounced, Behaves(Current), DecodeTag # NoTag
  PROVE  DecodeTag = TagOf(command)
<1>. DEFINE its == command.items
            t == Dump(its)
            n == SentItems
<1>1. StreamPart /\ ServerInv /\ SessionTypeOK /\ ItemsInv /\ AgreeOnMessages /\ QueueInv
  BY InvariantParts
<1>2. AllServed /\ Len(Frags) = n
  BY AtSync
<1>3. Current = its
  BY <1>1, <1>2, CurrentFacts
<1>4. parsed = DumpUpTo(its)[n] /\ parsed \in Seq(Byte)
  BY <1>1, <1>2, <1>3, WhatIsRead, ServerTypes
<1>5. its \in Seq(Item) /\ n \in 0 .. Len(its) /\ Len(its) \in n .. Len(its)
  <2>1. its \in Seq(Item) /\ Len(its) \in Nat /\ n \in Nat /\ n < Len(its)
    BY <1>1, CommandIs, ItemsLeft
  <2>. HIDE DEF its, n
  <2>. QED  BY <2>1
<1>6. PICK q \in Seq(Byte) : DumpUpTo(its)[Len(its)] = DumpUpTo(its)[n] \o q
  BY <1>5, DumpPrefix
<1>7. Joined(t, parsed, q)
  BY <1>4, <1>6, DumpIsUpTo DEF Joined
<1>8. IsBeginning(message_buffer, parsed)
  BY <1>1, BufferIsPrefix DEF IsBeginning
<1>9. ParseTag(message_buffer) # NoTag
  BY DEF DecodeTag
<1>. HIDE DEF t
<1>10. ParseTag(t) = ParseTag(message_buffer)
  BY <1>4, <1>6, <1>7, <1>8, <1>9, TagOfPart
<1>. QED  BY <1>10 DEF t, DecodeTag, TagOf

\* The message is complete: it is the next one that the client has sent.
LEMMA AtEnd ==
  ASSUME IInv, pc = "react", IsMessageComplete
  PROVE  /\ ~AllServed /\ parsed = NextMessage.bytes
         /\ Frags = fragments /\ Bytes = parsed
         /\ Len(Frags) = Len(Current)
         /\ Behaves(Current) => ~message_poisoned
         /\ Misbehaves(Current) => message_poisoned
<1>. DEFINE k == Len(Frags)
            its == Current
            n == Available
<1>1. /\ StreamPart /\ ServerInv /\ SessionTypeOK /\ ItemsInv /\ LiteralsAsAnnounced
      /\ PoisonInv /\ AgreeOnMessages /\ QueueInv
  BY InvariantParts
<1>2. Frags = fragments /\ Bytes = parsed /\ parsed = DumpUpTo(its)[k] /\ ~Between
  BY <1>1, WhatIsRead
<1>3. EndsWithLine(fragments) /\ LastAnnounced(fragments) = NoAnnouncement
  BY <1>1 DEF LiteralsAsAnnounced, IsMessageComplete, NoParser
<1>4. k = Len(its) /\ k <= n
  BY <1>1, <1>2, <1>3, Matching DEF Matches
<1>5. /\ its \in Seq(Item) /\ Framed(its) /\ Len(its) \in Nat /\ DOMAIN its = 1 .. Len(its)
  BY CurrentItems
<1>6. ~AllServed
  <2>1. SUFFICES ASSUME AllServed PROVE FALSE
    OBVIOUS
  <2>2. its = command.items /\ n = SentItems
    BY <1>1, <2>1, CurrentFacts
  <2>3. SentItems \in Nat /\ SentItems < Len(command.items)
    BY <1>1, ItemsLeft
  <2>. QED  BY <1>4, <1>5, <2>2, <2>3
<1>7. parsed = NextMessage.bytes
  BY <1>1, <1>2, <1>4, <1>6, CurrentFacts, DumpIsUpTo
<1>8. Behaves(its) => ~message_poisoned
  BY <1>1, <1>2, <1>6 DEF PoisonInv, Poisoned, Stuck
<1>9. ASSUME Misbehaves(its) PROVE message_poisoned
  <2>. HIDE DEF its
  <2>1. PICK i \in DOMAIN its : Said(its, i).mode = "Sync"
    BY <1>9 DEF Misbehaves
  <2>2. i # Len(its)
    BY <1>5, <2>1, FramedItem DEF NoAnnouncement
  <2>3. i \in 1 .. Len(Frags) /\ i < Len(Frags)
    BY <1>4, <1>5, <2>1, <2>2
  <2>. QED  BY <1>1, <1>2, <1>9, <2>1, <2>3 DEF PoisonInv, Poisoned, its
<1>. QED  BY <1>2, <1>4, <1>6, <1>7, <1>8, <1>9

\* What the server makes of the message.
LEMMA ResultIs ==
  ASSUME IInv, pc = "react", IsMessageComplete
  PROVE  /\ NextMessage.codec = state.codec /\ parsed \in Seq(Byte)
         /\ Admitted(max_message_size, Len(parsed)) < Len(parsed) =>
              Result = "MessageTooLong"
         /\ ~(Admitted(max_message_size, Len(parsed)) < Len(parsed)) =>
              /\ message_buffer = parsed
              /\ Result = IF KindsOf(parsed) = {"Malformed"} THEN "MessagePoisoned" ELSE "Ok"
         /\ state.codec = "Idle" => Result = "Ok"
         /\ state.codec = "Command" =>
              \E c \in Commands : /\ Current = c.items /\ parsed = Dump(c.items)
                                  /\ KindsOf(parsed) = {c.kind}
<1>1. /\ ServerInv /\ SessionTypeOK /\ ItemsInv /\ AgreeOnMessages /\ QueueInv
      /\ max_message_size \in Limits
  BY InvariantParts
<1>2. /\ ~AllServed /\ parsed = NextMessage.bytes
      /\ Behaves(Current) => ~message_poisoned
      /\ Misbehaves(Current) => message_poisoned
  BY AtEnd
<1>3. /\ NextMessage.codec \in Codecs /\ Encoded(NextMessage)
      /\ NextMessage.codec = state.codec /\ NextMessage.bytes \in Seq(Byte)
  BY <1>1, <1>2, NextMessageFacts
<1>4. Current = Encoding(NextMessage)
  BY <1>2 DEF Current
<1>. DEFINE j == Admitted(max_message_size, Len(parsed))
<1>5. /\ j \in 0 .. Len(parsed) /\ message_buffer = SubSeq(parsed, 1, j)
      /\ max_message_size_exceeded <=> j < Len(parsed)
  BY <1>1, BufferIsPrefix
<1>6. Len(parsed) \in Nat /\ parsed \in Seq(Byte)
  BY <1>2, <1>3, LenProperties
<1>7. ~(j < Len(parsed)) => message_buffer = parsed
  <2>. HIDE DEF j
  <2>1. ~(j < Len(parsed)) => j = Len(parsed)
    BY <1>5, <1>6
  <2>2. SubSeq(parsed, 1, Len(parsed)) = parsed
    BY <1>6, SubSeqFull
  <2>. QED  BY <1>5, <2>1, <2>2
<1>8. /\ state.codec = "Command" =>
           \E c \in Commands : /\ Current = c.items /\ parsed = Dump(c.items)
                               /\ KindsOf(parsed) = {c.kind}
      /\ state.codec # "Command" =>
           /\ parsed = IF state.codec = "Authenticate" THEN DataLine ELSE DoneLine
           /\ Behaves(Current) /\ KindsOf(parsed) # {"Malformed"}
  <2>. DEFINE m == NextMessage
  <2>1. m.codec \in Codecs /\ Encoded(m) /\ Current = Encoding(m) /\ parsed = m.bytes
        /\ m.codec = state.codec
    BY <1>2, <1>3, <1>4
  <2>. HIDE DEF m
  <2>. QED  BY <2>1, EncodingFacts
<1>9. state.codec \in Codecs
  BY <1>3
<1>10. /\ message_poisoned = (KindsOf(parsed) = {"Malformed"})
       /\ KindsOf(parsed) # {"Malformed"} => Accepts(state.codec, parsed)
  <2>0. message_poisoned \in BOOLEAN
    BY <1>1 DEF SessionTypeOK, TypeOK
  <2>1. CASE state.codec = "Command"
    <3>1. PICK c \in Commands : /\ Current = c.items /\ parsed = Dump(c.items)
                                /\ KindsOf(parsed) = {c.kind}
      BY <1>8, <2>1
    <3>2. c.kind \in Kinds
          /\ IF c.kind = "Malformed" THEN Misbehaves(c.items) ELSE Behaves(c.items)
      BY CommandFacts
    <3>3. KindsOf(parsed) = {"Malformed"} <=> c.kind = "Malformed"
      BY <3>1
    <3>4. message_poisoned <=> c.kind = "Malformed"
      BY <1>2, <3>1, <3>2
    <3>5. c.kind # "Malformed" => KindsOf(parsed) \cap Codecs # {}
      BY <3>1, <3>2 DEF Kinds
    <3>. QED  BY <2>0, <2>1, <3>3, <3>4, <3>5 DEF Accepts
  <2>2. CASE state.codec # "Command"
    <3>1. ~message_poisoned /\ KindsOf(parsed) # {"Malformed"}
      BY <1>2, <1>8, <2>2
    <3>2. Accepts(state.codec, parsed)
      BY <1>8, <1>9, <2>2 DEF Accepts, Codecs
    <3>. QED  BY <2>0, <3>1, <3>2
  <2>. QED  BY <2>1, <2>2
<1>11. j < Len(parsed) => Result = "MessageTooLong"
  BY <1>5 DEF Result, DecodeMessage
<1>12. ~(j < Len(parsed)) =>
         Result = IF KindsOf(parsed) = {"Malformed"} THEN "MessagePoisoned" ELSE "Ok"
  BY <1>5, <1>7, <1>10 DEF Result, DecodeMessage
<1>13. state.codec = "Idle" => Result = "Ok"
  <2>1. SUFFICES ASSUME state.codec = "Idle" PROVE Result = "Ok"
    OBVIOUS
  <2>2. parsed = DoneLine /\ KindsOf(parsed) # {"Malformed"}
    BY <1>8, <2>1
  <2>3. j = Len(parsed)
    BY <1>1, <2>2, LinesAssumption
  <2>. QED  BY <1>6, <1>12, <2>2, <2>3
<1>. QED  BY <1>3, <1>6, <1>7, <1>8, <1>11, <1>12, <1>13

-----------------------------------------------------------------------------
(* Bytes on their way.                                                     *)

LEMMA WireType ==
  ASSUME NEW b \in Seq(Byte), NEW u \in Seq(Byte), NEW w \in Seq(Byte)
  PROVE  Wire(b, u, w) \in Seq(Byte)
<1>. DEFINE v == u \o w
<1>1. v \in Seq(Byte)
  BY ConcatProperties
<1>2. Wire(b, u, w) = b \o v
  BY DEF Wire
<1>. HIDE DEF v
<1>. QED  BY <1>1, <1>2, ConcatProperties

\* The client sends.
LEMMA WireGrows ==
  ASSUME NEW b \in Seq(Byte), NEW u \in Seq(Byte), NEW w \in Seq(Byte),
         NEW d \in Seq(Byte), NEW z, z = w \o d
  PROVE  Joined(Wire(b, u, z), Wire(b, u, w), d)
<1>. DEFINE v == u \o w
            x == u \o z
<1>1. v \in Seq(Byte)
  BY ConcatProperties
<1>2. x = u \o (w \o d)
  OBVIOUS
<1>3. x = (u \o w) \o d
  BY <1>2, BytesAssociate, Zenon
<1>4. x = v \o d
  BY <1>3
<1>5. Wire(b, u, w) = b \o v /\ Wire(b, u, z) = b \o x
  BY DEF Wire
<1>. HIDE DEF v, x
<1>6. b \o (v \o d) = (b \o v) \o d
  BY <1>1, BytesAssociate, Zenon
<1>. QED  BY <1>4, <1>5, <1>6, Zenon DEF Joined

\* The bytes w are cut into x and y.
Cut(w, x, y) ==
  \E k \in 0 .. Len(w) : x = SubSeq(w, 1, k) /\ y = SubSeq(w, k + 1, Len(w))

LEMMA CutJoins ==
  ASSUME NEW w \in Seq(Byte), NEW x, NEW y, Cut(w, x, y)
  PROVE  x \in Seq(Byte) /\ y \in Seq(Byte) /\ x \o y = w
<1>1. PICK k \in 0 .. Len(w) : x = SubSeq(w, 1, k) /\ y = SubSeq(w, k + 1, Len(w))
  BY DEF Cut
<1>2. x \in Seq(Byte) /\ y \in Seq(Byte)
  BY <1>1, PrefixProperties, SuffixProperties
<1>3. Len(w) \in Nat /\ k \in Nat
  BY LenProperties
<1>4. /\ 1 \in 1 .. Len(w) + 1 /\ k \in 1 - 1 .. Len(w) /\ Len(w) \in k .. Len(w)
  BY <1>3
<1>5. x \o y = SubSeq(w, 1, Len(w))
  BY <1>1, <1>4, ConcatAdjacentSubSeq
<1>. QED  BY <1>2, <1>5, SubSeqFull

\* The server reads.
LEMMA WireRead ==
  ASSUME NEW b, NEW u \in Seq(Byte), NEW w \in Seq(Byte),
         NEW x, NEW y, Cut(w, x, y), NEW z, Joined(z, u, x)
  PROVE  Wire(b, z, y) = Wire(b, u, w)
<1>1. x \in Seq(Byte) /\ y \in Seq(Byte) /\ x \o y = w
  BY CutJoins
<1>2. x \in Seq(Byte) /\ y \in Seq(Byte)
  BY <1>1
<1>3. (u \o x) \o y = u \o (x \o y)
  BY <1>2, BytesAssociate, Zenon
<1>4. z \o y = u \o w
  BY <1>1, <1>3, Zenon DEF Joined
<1>. QED  BY <1>4, Zenon DEF Wire

\* The server parses.
LEMMA WireParsed ==
  ASSUME NEW b \in Seq(Byte), NEW u \in Seq(Byte), NEW w \in Seq(Byte),
         NEW x, NEW y, Cut(u, x, y), NEW z, Joined(z, b, x)
  PROVE  Wire(z, y, w) = Wire(b, u, w)
<1>1. x \in Seq(Byte) /\ y \in Seq(Byte) /\ x \o y = u
  BY CutJoins
<1>. DEFINE v == y \o w
<1>2. x \in Seq(Byte) /\ y \in Seq(Byte)
  BY <1>1
<1>3. v \in Seq(Byte)
  BY <1>2, BytesJoin, Zenon
<1>4. (x \o y) \o w = x \o (y \o w)
  BY <1>2, BytesAssociate, Zenon
<1>5. u \o w = x \o v
  BY <1>1, <1>4, Zenon
<1>6. Wire(z, y, w) = z \o v
  BY DEF Wire
<1>. HIDE DEF v
<1>7. (b \o x) \o v = b \o (x \o v)
  BY <1>2, <1>3, BytesAssociate, ZenonT(30)
<1>8. Wire(b, u, w) = b \o (u \o w)
  BY DEF Wire
<1>. QED  BY <1>5, <1>6, <1>7, <1>8, Zenon DEF Joined

\* What is sent arrives on both sides of the balance.
LEMMA BothGrow ==
  ASSUME NEW s \in Seq(Byte), NEW f \in Seq(Byte), NEW t \in Seq(Byte), NEW p \in Seq(Byte),
         NEW d \in Seq(Byte), Balanced(s, f, t, p),
         NEW g, Joined(g, f, d), NEW q, Joined(q, p, d)
  PROVE  Balanced(s, g, t, q)
<1>1. (s \o f) \o d = s \o (f \o d)
  BY BytesAssociate, Zenon
<1>2. (t \o p) \o d = t \o (p \o d)
  BY BytesAssociate, Zenon
<1>. QED  BY <1>1, <1>2, Zenon DEF Balanced, Joined

\* The client has sent the last part of a message.
LEMMA MessageSent ==
  ASSUME NEW s, NEW f, NEW t \in Seq(Byte), NEW p \in Seq(Byte), Balanced(s, f, t, p),
         NEW q, Joined(q, t, p)
  PROVE  Balanced(s, f, q, <<>>)
<1>1. t \o p \in Seq(Byte)
  BY ConcatProperties
<1>2. q \in Seq(Byte)
  BY <1>1 DEF Joined
<1>3. q \o <<>> = q
  BY <1>2, ConcatEmptySeq
<1>. QED  BY <1>3, Zenon DEF Balanced, Joined

\* The server has served a message.
LEMMA MessageServed ==
  ASSUME NEW s \in Seq(Byte), NEW b \in Seq(Byte), NEW u \in Seq(Byte), NEW w \in Seq(Byte),
         NEW t, NEW p, Balanced(s, Wire(b, u, w), t, p), NEW r, Joined(r, s, b)
  PROVE  Balanced(r, Wire(<<>>, u, w), t, p)
<1>. DEFINE v == u \o w
<1>1. v \in Seq(Byte)
  BY ConcatProperties
<1>2. Wire(b, u, w) = b \o v /\ Wire(<<>>, u, w) = <<>> \o v
  BY DEF Wire
<1>. HIDE DEF v
<1>3. <<>> \o v = v
  BY <1>1, ConcatEmptySeq
<1>4. (s \o b) \o v = s \o (b \o v)
  BY <1>1, BytesAssociate, Zenon
<1>. QED  BY <1>2, <1>3, <1>4, Zenon DEF Balanced, Joined

\* When everything is served, what is on its way belongs to the command that
\* the client still sends.
LEMMA OnItsWay ==
  ASSUME StreamPart, AllServed
  PROVE  /\ AllBytes(sent) = AllBytes(served) /\ Flow = Partial
         /\ \A g, q : g = q => Balanced(AllBytes(served), g, AllBytes(sent), q)
<1>. DEFINE s == AllBytes(served)
            p == Partial
<1>1. SessionTypeOK /\ ItemsInv /\ AgreeOnMessages /\ FlowOK
  BY DEF StreamPart, ServerInv
<1>2. s \in Seq(Byte) /\ p \in Seq(Byte) /\ Flow \in Seq(Byte)
  BY <1>1, MessageTypes, ItemsLeft, ServerTypes
<1>3. AllBytes(sent) = s
  <2>. DEFINE S == [codec : Codecs, bytes : Seq(Byte)]
              T == [codec : Codecs, bytes : Seq(Byte), result : DecodeErrors \cup {"Ok"}]
  <2>1. sent \in Seq(S) /\ served \in Seq(T)
    BY <1>1 DEF SessionTypeOK
  <2>2. (\A m \in S : m.bytes \in Seq(Byte)) /\ (\A m \in T : m.bytes \in Seq(Byte))
    OBVIOUS
  <2>. HIDE DEF S, T
  <2>3. Len(served) <= Len(sent) /\ \A i \in 1 .. Len(served) : served[i].bytes = sent[i].bytes
    <3>1. DOMAIN served = 1 .. Len(served)
      BY <2>1, LenProperties
    <3>. QED  BY <1>1, <3>1 DEF AgreeOnMessages
  <2>4. Len(served) = Len(sent) => AllBytes(sent) = AllBytes(served)
    BY <2>1, <2>2, <2>3, AllBytesNext
  <2>. QED  BY <2>4 DEF AllServed
<1>4. s \o Flow = AllBytes(sent) \o p
  BY <1>1 DEF FlowOK, Balanced
<1>. HIDE DEF s, p
<1>5. s \o Flow = s \o p
  BY <1>3, <1>4, Zenon
<1>6. Flow = p
  BY <1>2, <1>5, ConcatSimplifications
<1>7. \A g, q : g = q => Balanced(s, g, AllBytes(sent), q)
  BY <1>3 DEF Balanced
<1>. QED  BY <1>3, <1>6, <1>7 DEF s, p

-----------------------------------------------------------------------------
(* The client works.                                                       *)

\* The server has what it had.
LEMMA ServerRests ==
  ASSUME IInv, UNCHANGED <<fvars, svars>>, SessionTypeOK'
  PROVE  /\ ServerInv' /\ DecodedAsSent'
         /\ Frags' = Frags /\ Bytes' = Bytes /\ Poisoned' = Poisoned
         /\ \A i : Answered(i)' <=> Answered(i)
<1>1. /\ ServerInv /\ DecodedAsSent /\ FragmentsInv /\ BufferHoldsMessage
      /\ OneMessage(fragments) /\ ReactInv /\ max_message_size \in Limits
  BY InvariantParts
<1>2. /\ parser' = parser /\ parsed' = parsed /\ fragments' = fragments
      /\ message_buffer' = message_buffer /\ message_poisoned' = message_poisoned
      /\ max_message_size' = max_message_size
      /\ max_message_size_exceeded' = max_message_size_exceeded
      /\ pc' = pc /\ served' = served
  BY DEF fvars, vars, svars
<1>3. FragmentsInv'
  BY <1>1, <1>2, SameFragments
<1>4. BufferHoldsMessage'
  BY <1>1, <1>2 DEF BufferHoldsMessage
<1>5. OneMessage(fragments)' /\ ReactInv' /\ (max_message_size \in Limits)'
  BY <1>1, <1>2 DEF OneMessage, ReactInv
<1>6. DecodedAsSent'
  BY <1>1, <1>2 DEF DecodedAsSent
<1>7. Frags' = Frags /\ Bytes' = Bytes /\ Poisoned' = Poisoned
  BY <1>2 DEF Frags, Bytes, Poisoned, Between, IsMessageComplete
<1>8. \A i : Answered(i)' <=> Answered(i)
  BY <1>2, <1>7 DEF Answered
<1>. QED  BY <1>3, <1>4, <1>5, <1>6, <1>7, <1>8 DEF ServerInv

\* The client has sent a message.
LEMMA NewMessage ==
  ASSUME IInv, UNCHANGED <<fvars, svars>>, SessionTypeOK',
         NEW m \in [codec : Codecs, bytes : Seq(Byte)], Encoded(m),
         sent' = Append(sent, m), NEW d \in Seq(Byte), to_server' = to_server \o d,
         Joined(m.bytes, Partial, d), SentItems' = 0,
         IF AllServed THEN m.codec = state.codec ELSE m.codec = "Command"
  PROVE  /\ AgreeOnMessages' /\ FlowOK' /\ QueueInv'
         /\ Len(sent) \in Nat /\ Len(sent') = Len(sent) + 1
         /\ Len(served) \in Nat /\ Len(served) <= Len(sent) /\ ~AllServed'
         /\ \A j \in 1 .. Len(sent) : sent'[j] = sent[j]
         /\ sent'[Len(sent) + 1] = m
         /\ NextMessage' = IF AllServed THEN m ELSE NextMessage
<1>. DEFINE S == [codec : Codecs, bytes : Seq(Byte)]
<1>1. /\ SessionTypeOK /\ ItemsInv /\ AgreeOnMessages /\ FlowOK /\ QueueInv
  BY InvariantParts
<1>2. sent \in Seq(S) /\ m \in S
  BY <1>1 DEF SessionTypeOK
<1>3. \A x \in S : x.bytes \in Seq(Byte)
  OBVIOUS
<1>4. served' = served /\ state' = state /\ unparsed_buffer' = unparsed_buffer
  BY DEF fvars, vars, svars
<1>5. Len(served) <= Len(sent)
  BY <1>1 DEF AgreeOnMessages
<1>6. Len(sent) \in Nat /\ Len(served) \in Nat
  BY <1>1, MessageTypes
<1>. HIDE DEF S
<1>7. /\ Len(sent') = Len(sent) + 1
      /\ \A j \in 1 .. Len(sent) : sent'[j] = sent[j]
      /\ sent'[Len(sent) + 1] = m
  BY <1>2, AppendProperties
<1>8. ~AllServed'
  BY <1>4, <1>5, <1>6, <1>7 DEF AllServed
<1>9. NextMessage' = IF AllServed THEN m ELSE NextMessage
  <2>1. CASE AllServed
    BY <1>4, <1>7, <2>1 DEF AllServed, NextMessage
  <2>2. CASE ~AllServed
    <3>1. Len(served) + 1 \in 1 .. Len(sent)
      BY <1>5, <1>6, <2>2 DEF AllServed
    <3>. QED  BY <1>4, <1>7, <2>2, <3>1 DEF NextMessage
  <2>. QED  BY <2>1, <2>2
<1>10. AgreeOnMessages'
  <2>1. DOMAIN served \subseteq 1 .. Len(sent)
    <3>1. DOMAIN served = 1 .. Len(served)
      BY <1>1, LenProperties DEF SessionTypeOK
    <3>. QED  BY <1>5, <1>6, <3>1
  <2>2. Len(served)' <= Len(sent)'
    BY <1>4, <1>5, <1>6, <1>7
  <2>3. \A i \in DOMAIN served : sent'[i] = sent[i]
    BY <1>7, <2>1
  <2>. QED  BY <1>1, <1>4, <2>2, <2>3 DEF AgreeOnMessages
<1>11. FlowOK'
  <2>1. AllBytes(sent') = AllBytes(sent) \o m.bytes
    BY <1>2, <1>3, AllBytesAppend
  <2>2. /\ AllBytes(served) \in Seq(Byte) /\ AllBytes(sent) \in Seq(Byte)
        /\ Partial \in Seq(Byte) /\ m.bytes \in Seq(Byte) /\ Flow \in Seq(Byte)
        /\ Bytes \in Seq(Byte) /\ unparsed_buffer \in Seq(Byte) /\ to_server \in Seq(Byte)
    BY <1>1, <1>2, <1>3, MessageTypes, ItemsLeft, ServerTypes
  <2>3. Flow' = Wire(Bytes, unparsed_buffer, to_server')
    BY <1>4, ServerRests DEF Flow
  <2>4. Joined(Flow', Flow, d)
    <3>1. Joined(Wire(Bytes, unparsed_buffer, to_server'), Wire(Bytes, unparsed_buffer, to_server), d)
      BY <2>2, WireGrows
    <3>. QED  BY <2>3, <3>1 DEF Flow
  <2>5. Balanced(AllBytes(served), Flow', AllBytes(sent), m.bytes)
    <3>1. Balanced(AllBytes(served), Flow, AllBytes(sent), Partial)
      BY <1>1 DEF FlowOK
    <3>. QED  BY <2>2, <2>4, <3>1, BothGrow
  <2>6. Balanced(AllBytes(served), Flow', AllBytes(sent'), <<>>)
    <3>1. Joined(AllBytes(sent'), AllBytes(sent), m.bytes)
      BY <2>1 DEF Joined
    <3>. QED  BY <2>2, <2>5, <3>1, MessageSent
  <2>7. Partial' = <<>>
    <3>1. SessionTypeOK'
      OBVIOUS
    <3>2. (command.items)' \in Seq(Item)
      BY <3>1, CommandFacts DEF SessionTypeOK
    <3>. QED  BY <3>2, DumpEquations DEF Partial
  <2>. QED  BY <1>4, <2>6, <2>7 DEF FlowOK
<1>12. QueueInv'
  <2>1. \A j \in 1 .. Len(sent) + 1 : j \in 1 .. Len(sent) \/ j = Len(sent) + 1
    BY <1>6
  <2>2. \A j \in 1 .. Len(sent) + 1 : Encoded(sent'[j])
    BY <1>1, <1>7, <2>1 DEF QueueInv
  <2>3. ASSUME NEW j \in Len(served) + 1 .. Len(sent) + 1
        PROVE  sent'[j].codec = IF j = Len(served) + 1 THEN state.codec ELSE "Command"
    <3>1. CASE j = Len(sent) + 1
      <4>1. j = Len(served) + 1 <=> AllServed
        BY <1>6, <3>1 DEF AllServed
      <4>. QED  BY <1>7, <3>1, <4>1
    <3>2. CASE j # Len(sent) + 1
      <4>1. j \in Len(served) + 1 .. Len(sent) /\ j \in 1 .. Len(sent)
        BY <1>6, <3>2
      <4>. QED  BY <1>1, <1>7, <4>1 DEF QueueInv
    <3>. QED  BY <3>1, <3>2
  <2>. QED  BY <1>4, <1>7, <2>2, <2>3 DEF QueueInv
<1>. QED  BY <1>5, <1>6, <1>7, <1>8, <1>9, <1>10, <1>11, <1>12

\* The first item of a message is not synchronizing.
LEMMA FirstItem ==
  ASSUME NEW its \in Seq(Item), Framed(its), Behaves(its) \/ Misbehaves(its)
  PROVE  its # <<>> /\ Len(its) \in Nat /\ Len(its) >= 1 /\ Head(its).mode # "Sync"
<1>1. its # <<>>
  BY DEF Framed
<1>2. Len(its) \in Nat /\ Len(its) # 0
  BY <1>1, EmptySeq, LenProperties
<1>3. 1 \in DOMAIN its /\ 1 - 1 = 0
  BY <1>2, LenProperties
<1>4. its[1].mode # "Sync"
  <2>1. CASE Behaves(its)
    <3>1. its[1].mode = Said(its, 0).mode
      BY <1>3, <2>1 DEF Behaves
    <3>. QED  BY <3>1 DEF Said, NoAnnouncement
  <2>2. CASE Misbehaves(its)
    BY <1>3, <2>2 DEF Misbehaves
  <2>. QED  BY <2>1, <2>2
<1>5. Head(its) = its[1]
  BY <1>1
<1>6. Len(its) >= 1
  BY <1>2
<1>. QED  BY <1>1, <1>2, <1>4, <1>5, <1>6

LEMMA StartKeepsIt ==
  ASSUME IInv, Start
  PROVE  IInv'
<1>1. PICK c \in Commands : command' = c /\ items' = c.items
  BY DEF Start
<1>2. /\ client = "idle" /\ client' = "sending" /\ started < MaxMessages
      /\ started' = started + 1 /\ UNCHANGED <<fvars, svars>>
      /\ sent' = sent /\ to_server' = to_server /\ to_client' = to_client
  BY DEF Start
<1>3. /\ pc' = pc /\ state' = state /\ served' = served
      /\ unparsed_buffer' = unparsed_buffer
  BY <1>2 DEF svars, fvars, vars
<1>4. /\ StreamPart /\ SessionTypeOK /\ ItemsInv /\ AgreeOnMessages /\ FlowOK /\ QueueInv
      /\ DialogueInv /\ WaitInv /\ PoisonInv
  BY InvariantParts
<1>5. /\ c.items \in Seq(Item) /\ Framed(c.items)
      /\ Behaves(c.items) \/ Misbehaves(c.items)
  BY CommandFacts
<1>6. /\ c.items # <<>> /\ Len(c.items) \in Nat /\ Len(c.items) >= 1
      /\ Head(c.items).mode # "Sync"
  BY <1>5, FirstItem
<1>7. SessionTypeOK'
  <2>1. TypeOK'
    BY <1>2, <1>4 DEF SessionTypeOK, TypeOK, fvars, vars
  <2>2. started' \in 0 .. MaxMessages
    BY <1>2, <1>4, SessionAssumption DEF SessionTypeOK
  <2>. QED  BY <1>1, <1>2, <1>3, <1>4, <1>5, <2>1, <2>2 DEF SessionTypeOK
<1>8. /\ ServerInv' /\ DecodedAsSent' /\ Frags' = Frags /\ Bytes' = Bytes /\ Poisoned' = Poisoned
      /\ \A i : Answered(i)' <=> Answered(i)
  BY <1>2, <1>7, ServerRests
<1>9. SentItems = 0 /\ SentItems' = 0
  BY <1>1, <1>2, <1>6 DEF SentItems, Sending, Rejected
<1>10. ItemsInv'
  <2>1. c.items = SubSeq(c.items, 1, Len(c.items))
    BY <1>5, SubSeqFull
  <2>2. Len(c.items) - Len(c.items) + 1 = 1 /\ Len(c.items) \in 1 .. Len(c.items)
    BY <1>6
  <2>. QED  BY <1>1, <2>1, <2>2 DEF ItemsInv
<1>11. AgreeOnMessages' /\ QueueInv'
  BY <1>2, <1>3, <1>4 DEF AgreeOnMessages, QueueInv
<1>12. FlowOK'
  <2>1. Partial = <<>> /\ Partial' = <<>>
    <3>1. command.items \in Seq(Item)
      BY <1>4, CommandIs
    <3>. QED  BY <1>1, <1>5, <1>9, <3>1, DumpEquations DEF Partial
  <2>2. Flow' = Flow
    BY <1>2, <1>3, <1>8 DEF Flow
  <2>. QED  BY <1>2, <1>3, <1>4, <2>1, <2>2 DEF FlowOK
<1>13. AllServed' = AllServed /\ (~AllServed => Current' = Current /\ Available' = Available)
  BY <1>2, <1>3 DEF AllServed, Current, Available, NextMessage
<1>14. DialogueInv'
  <2>1. Working
    BY <1>2, <1>4 DEF DialogueInv, Requested, Granted, Authenticating
  <2>2. Working'
    BY <1>2, <1>3, <1>13, <2>1 DEF Working, Calm
  <2>. QED  BY <2>2 DEF DialogueInv
<1>15. AllServed => Frags = <<>> /\ ~Poisoned
  BY <1>4, <1>9, NothingYet
<1>16. WaitInv'
  <2>1. \A i \in 1 .. Available' : Current'[i].mode = "Sync" => Answered(i)'
    <3>1. CASE AllServed
      <4>1. Available' = 0
        BY <1>9, <1>13, <3>1 DEF Available
      <4>. QED  BY <4>1
    <3>2. CASE ~AllServed
      BY <1>4, <1>8, <1>13, <3>2 DEF WaitInv
    <3>. QED  BY <3>1, <3>2
  <2>2. \A j \in Len(served') + 2 .. Len(sent') :
          NoSync(Encoding(sent'[j]), Len(Encoding(sent'[j])))
    BY <1>2, <1>3, <1>4 DEF WaitInv
  <2>3. NoSync(command.items', SentItems')
    BY <1>9 DEF NoSync
  <2>4. Head(items').mode # "Sync"
    BY <1>1, <1>6
  <2>. QED  BY <1>2, <2>1, <2>2, <2>3, <2>4 DEF WaitInv
<1>17. PoisonInv'
  <2>1. CASE AllServed
    <3>1. Frags' = <<>> /\ ~Poisoned'
      BY <1>8, <1>15, <2>1
    <3>2. Len(Frags') = 0
      BY <3>1
    <3>. QED  BY <3>1, <3>2 DEF PoisonInv
  <2>2. CASE ~AllServed
    <3>1. ~Stuck
      BY <2>2 DEF Stuck
    <3>. QED  BY <1>3, <1>4, <1>8, <1>13, <2>2, <3>1 DEF PoisonInv
  <2>. QED  BY <2>1, <2>2
<1>. QED  BY <1>8, <1>10, <1>11, <1>12, <1>14, <1>16, <1>17 DEF IInv

\* All items but the first of those that are left are left.
LEMMA TailIsLeft ==
  ASSUME NEW its \in Seq(Item), NEW s \in Seq(Item), Len(s) \in 1 .. Len(its),
         s = SubSeq(its, Len(its) - Len(s) + 1, Len(its))
  PROVE  /\ Tail(s) \in Seq(Item) /\ Len(Tail(s)) = Len(s) - 1
         /\ Tail(s) # <<>> => Len(s) - 1 \in 1 .. Len(its)
         /\ Tail(s) = SubSeq(its, Len(its) - (Len(s) - 1) + 1, Len(its))
<1>. DEFINE n == Len(its)
            m == Len(s)
            a == n - m + 1
            t == SubSeq(its, a, n)
            b == n - (m - 1) + 1
            u == SubSeq(its, b, n)
<1>1. n \in Nat /\ m \in Nat
  BY LenProperties
<1>2. m \in 1 .. n /\ s = t
  OBVIOUS
<1>3. s # <<>>
  BY <1>1, <1>2, EmptySeq
<1>4. Tail(s) \in Seq(Item) /\ Len(Tail(s)) = m - 1
      /\ \A i \in 1 .. m - 1 : Tail(s)[i] = s[i + 1]
  BY <1>3, HeadTailProperties
<1>. HIDE DEF n, m
<1>5. /\ a \in 1 .. n /\ b \in 1 .. n + 1 /\ n - a + 1 = m /\ n - b + 1 = m - 1
      /\ b = a + 1 /\ n \in Nat /\ a <= n /\ (b <= n \/ (b = n + 1 /\ m - 1 = 0))
      /\ \A i \in 1 .. m - 1 : i + 1 \in 1 .. m /\ a + (i + 1) - 1 = b + i - 1
  BY <1>1, <1>2
<1>. HIDE DEF a, b
<1>6. (\A i \in a .. n : its[i] \in Item) /\ (\A i \in b .. n : its[i] \in Item)
  BY <1>5, ElementOfSeq DEF n
<1>7. /\ Len(t) = m
      /\ \A i \in 1 .. m : t[i] = its[a + i - 1]
  <2>1. /\ t \in Seq(Item)
        /\ Len(t) = IF a <= n THEN n - a + 1 ELSE 0
        /\ \A i \in 1 .. n - a + 1 : t[i] = its[a + i - 1]
    BY <1>5, <1>6, SubSeqProperties
  <2>. HIDE DEF t
  <2>. QED  BY <1>5, <2>1
<1>8. /\ u \in Seq(Item) /\ Len(u) = m - 1
      /\ \A i \in 1 .. m - 1 : u[i] = its[b + i - 1]
  <2>1. /\ u \in Seq(Item)
        /\ Len(u) = IF b <= n THEN n - b + 1 ELSE 0
        /\ \A i \in 1 .. n - b + 1 : u[i] = its[b + i - 1]
    BY <1>5, <1>6, SubSeqProperties
  <2>. HIDE DEF u
  <2>. QED  BY <1>1, <1>5, <2>1
<1>. HIDE DEF t, u
<1>9. \A i \in 1 .. m - 1 : Tail(s)[i] = u[i]
  <2>. TAKE i \in 1 .. m - 1
  <2>1. Tail(s)[i] = s[i + 1] /\ u[i] = its[b + i - 1]
    BY <1>4, <1>8
  <2>2. s[i + 1] = its[a + (i + 1) - 1]
    BY <1>2, <1>5, <1>7
  <2>. QED  BY <1>5, <2>1, <2>2
<1>10. Tail(s) = u
  BY <1>4, <1>8, <1>9, SeqEqual
<1>11. Tail(s) # <<>> => m - 1 \in 1 .. n
  BY <1>1, <1>2, <1>4, EmptySeq
<1>. QED  BY <1>4, <1>10, <1>11 DEF u, n, m, b

\* What the client sends, and what it knows of the server then.
LEMMA AtSend ==
  ASSUME IInv, Send
  PROVE  /\ client = "sending" /\ UNCHANGED <<fvars, svars>>
         /\ pc' = pc /\ state' = state /\ served' = served
         /\ unparsed_buffer' = unparsed_buffer
         /\ command' = command /\ to_client' = to_client /\ started' = started
         /\ items' = Tail(items) /\ Sending
         /\ items # <<>> /\ items \in Seq(Item)
         /\ SentItems \in Nat /\ SentItems + 1 \in 1 .. Len(command.items)
         /\ SentItems = Len(command.items) - Len(items)
         /\ Head(items) = command.items[SentItems + 1]
         /\ Head(items).data \in Seq(Byte)
         /\ to_server' = to_server \o Head(items).data
         /\ to_server' \in Seq(Byte)
         /\ Joined(DumpUpTo(command.items)[SentItems + 1], Partial, Head(items).data)
         /\ Working /\ ~Stuck
<1>. DEFINE its == command.items
            k == SentItems
<1>1. /\ client = "sending" /\ UNCHANGED <<fvars, svars>>
      /\ command' = command /\ to_client' = to_client /\ started' = started
      /\ items' = Tail(items) /\ to_server' = to_server \o Head(items).data
  BY DEF Send
<1>2. pc' = pc /\ state' = state /\ served' = served /\ unparsed_buffer' = unparsed_buffer
  BY <1>1 DEF svars, fvars, vars
<1>3. SessionTypeOK /\ ItemsInv /\ DialogueInv
  BY InvariantParts
<1>4. Sending /\ ~Stuck
  BY <1>1 DEF Sending, Rejected, Stuck
<1>5. /\ k \in Nat /\ k < Len(its) /\ items # <<>> /\ Head(items) = its[k + 1]
      /\ its \in Seq(Item) /\ Len(its) \in Nat
  BY <1>1, <1>3, <1>4, ItemsLeft, CommandIs
<1>6. k = Len(its) - Len(items)
  BY <1>4 DEF SentItems
<1>. DEFINE d == Head(items).data
<1>. HIDE DEF its, k
<1>7. k + 1 \in 1 .. Len(its)
  BY <1>5
<1>8. d \in Seq(Byte)
  BY <1>5, <1>7, ItemData
<1>9. DumpUpTo(its)[k + 1] = DumpUpTo(its)[k] \o its[k + 1].data
  BY <1>5, DumpStep
<1>10. Joined(DumpUpTo(its)[k + 1], Partial, d)
  BY <1>5, <1>9 DEF Joined, Partial, its, k
<1>11. Working
  BY <1>1, <1>3 DEF DialogueInv, Requested, Granted, Authenticating
<1>12. to_server' \in Seq(Byte)
  BY <1>1, <1>3, <1>8, ConcatProperties DEF SessionTypeOK
<1>13. items \in Seq(Item)
  BY <1>3 DEF SessionTypeOK
<1>. QED  BY <1>1, <1>2, <1>4, <1>5, <1>6, <1>7, <1>8, <1>10, <1>11, <1>12, <1>13
          DEF its, k

\* One of the items, more follow.
LEMMA SendPartKeepsIt ==
  ASSUME IInv, Send, Tail(items) # <<>>
  PROVE  IInv'
<1>. DEFINE its == command.items
            k == SentItems
            d == Head(items).data
<1>1. /\ StreamPart /\ SessionTypeOK /\ ItemsInv /\ AgreeOnMessages /\ FlowOK /\ QueueInv
      /\ DialogueInv /\ WaitInv /\ PoisonInv
  BY InvariantParts
<1>2. /\ client = "sending" /\ UNCHANGED <<fvars, svars>>
      /\ pc' = pc /\ state' = state /\ served' = served
      /\ unparsed_buffer' = unparsed_buffer
      /\ command' = command /\ to_client' = to_client /\ started' = started
      /\ items' = Tail(items) /\ to_server' = to_server \o d /\ to_server' \in Seq(Byte)
      /\ Working /\ ~Stuck
  BY AtSend
<1>3. /\ items \in Seq(Item) /\ k \in Nat /\ k + 1 \in 1 .. Len(its)
      /\ k = Len(its) - Len(items)
      /\ Head(items) = its[k + 1] /\ d \in Seq(Byte)
      /\ Joined(DumpUpTo(its)[k + 1], Partial, d)
  BY AtSend
<1>4. /\ sent' = sent
      /\ client' = IF Head(Tail(items)).mode = "Sync" THEN "awaits literal" ELSE "sending"
  BY DEF Send
<1>5. /\ Len(items) \in 1 .. Len(its)
      /\ items = SubSeq(its, Len(its) - Len(items) + 1, Len(its))
      /\ its \in Seq(Item) /\ Len(its) \in Nat
  BY <1>1, <1>2, CommandIs DEF ItemsInv
<1>6. /\ Tail(items) \in Seq(Item) /\ Len(Tail(items)) = Len(items) - 1
      /\ Len(items) - 1 \in 1 .. Len(its)
      /\ Tail(items) = SubSeq(its, Len(its) - (Len(items) - 1) + 1, Len(its))
  BY <1>3, <1>5, TailIsLeft
<1>7. ItemsInv'
  BY <1>2, <1>6 DEF ItemsInv
<1>8. SessionTypeOK'
  <2>1. TypeOK'
    BY <1>1, <1>2 DEF SessionTypeOK, TypeOK, fvars, vars
  <2>. QED  BY <1>1, <1>2, <1>4, <1>6, <2>1 DEF SessionTypeOK
<1>9. /\ ServerInv' /\ DecodedAsSent' /\ Frags' = Frags /\ Bytes' = Bytes /\ Poisoned' = Poisoned
      /\ \A i : Answered(i)' <=> Answered(i)
  BY <1>2, <1>8, ServerRests
<1>10. to_client = <<>> /\ to_client' = <<>>
  BY <1>2 DEF Working
<1>11. SentItems' = k + 1
  <2>1. Sending'
    BY <1>4, <1>10 DEF Sending, Rejected
  <2>2. SentItems' = Len(its) - Len(Tail(items))
    BY <1>2, <2>1 DEF SentItems
  <2>3. Len(items) \in Nat
    BY <1>3, LenProperties
  <2>. HIDE DEF its, k
  <2>4. Len(its) - (Len(items) - 1) = k + 1
    BY <1>3, <1>5, <2>3
  <2>. QED  BY <1>6, <2>2, <2>4
<1>12. AgreeOnMessages' /\ QueueInv'
  BY <1>1, <1>2, <1>4 DEF AgreeOnMessages, QueueInv
<1>13. FlowOK'
  <2>1. /\ AllBytes(served) \in Seq(Byte) /\ AllBytes(sent) \in Seq(Byte)
        /\ Partial \in Seq(Byte) /\ Flow \in Seq(Byte)
        /\ Bytes \in Seq(Byte) /\ unparsed_buffer \in Seq(Byte) /\ to_server \in Seq(Byte)
    BY <1>1, MessageTypes, ItemsLeft, ServerTypes
  <2>2. Joined(Flow', Flow, d)
    <3>1. Joined(Wire(Bytes, unparsed_buffer, to_server'),
                 Wire(Bytes, unparsed_buffer, to_server), d)
      BY <1>2, <1>3, <2>1, WireGrows
    <3>. QED  BY <1>2, <1>9, <3>1 DEF Flow
  <2>3. Partial' = DumpUpTo(its)[k + 1]
    BY <1>2, <1>11 DEF Partial
  <2>4. Balanced(AllBytes(served), Flow, AllBytes(sent), Partial)
    BY <1>1 DEF FlowOK
  <2>. HIDE DEF d, k, its
  <2>5. Balanced(AllBytes(served), Flow', AllBytes(sent), Partial')
    BY <1>3, <2>1, <2>2, <2>3, <2>4, BothGrow
  <2>. QED  BY <1>2, <1>4, <2>5 DEF FlowOK
<1>14. /\ AllServed' = AllServed /\ Current' = Current
       /\ Available' = IF AllServed THEN k + 1 ELSE Available
       /\ AllServed => Current = its /\ Available = k
  BY <1>2, <1>4, <1>11 DEF AllServed, Current, Available, NextMessage
<1>15. DialogueInv'
  <2>1. Working'
    BY <1>2, <1>4, <1>10, <1>14 DEF Working, Calm
  <2>. QED  BY <2>1 DEF DialogueInv
<1>16. Head(items).mode = "Sync" => AllServed /\ Answered(k + 1)
  BY <1>1, <1>2 DEF WaitInv
<1>17. \A i \in 1 .. k + 1 : i \in 1 .. k \/ i = k + 1
  <2>. HIDE DEF k
  <2>. QED  BY <1>3
<1>18. WaitInv'
  <2>1. \A i \in 1 .. Available : Current[i].mode = "Sync" => Answered(i)
    BY <1>1 DEF WaitInv
  <2>2. \A i \in 1 .. Available' : Current'[i].mode = "Sync" => Answered(i)'
    <3>1. CASE AllServed
      <4>. HIDE DEF k, its
      <4>. QED  BY <1>3, <1>9, <1>14, <1>16, <1>17, <2>1, <3>1
    <3>2. CASE ~AllServed
      BY <1>9, <1>14, <2>1, <3>2
    <3>. QED  BY <3>1, <3>2
  <2>3. \A j \in Len(served') + 2 .. Len(sent') :
          NoSync(Encoding(sent'[j]), Len(Encoding(sent'[j])))
    BY <1>1, <1>2, <1>4 DEF WaitInv
  <2>4. ~AllServed' => NoSync(command.items', SentItems')
    <3>1. ~AllServed => NoSync(its, k)
      BY <1>1 DEF WaitInv
    <3>2. ~AllServed => its[k + 1].mode # "Sync"
      BY <1>3, <1>16
    <3>. HIDE DEF k, its
    <3>3. ~AllServed => NoSync(its, k + 1)
      BY <1>17, <3>1, <3>2 DEF NoSync
    <3>. QED  BY <1>2, <1>11, <1>14, <3>3 DEF k, its
  <2>5. client' = "sending" => Head(items').mode # "Sync"
    BY <1>2, <1>4
  <2>6. client' = "awaits literal" => Head(items').mode = "Sync"
    BY <1>2, <1>4
  <2>7. to_client' # <<Continue>>
    BY <1>10
  <2>. QED  BY <1>10, <2>2, <2>3, <2>4, <2>5, <2>6, <2>7 DEF WaitInv
<1>19. PoisonInv'
  BY <1>1, <1>2, <1>9, <1>14 DEF PoisonInv
<1>. QED  BY <1>7, <1>9, <1>12, <1>13, <1>15, <1>18, <1>19 DEF IInv

\* The last of the items.
LEMMA SendLastKeepsIt ==
  ASSUME IInv, Send, Tail(items) = <<>>
  PROVE  IInv'
<1>. DEFINE its == command.items
            k == SentItems
            d == Head(items).data
            m == Message("Command", Dump(its))
<1>1. /\ StreamPart /\ SessionTypeOK /\ ItemsInv /\ AgreeOnMessages /\ FlowOK /\ QueueInv
      /\ DialogueInv /\ WaitInv /\ PoisonInv
  BY InvariantParts
<1>2. /\ client = "sending" /\ UNCHANGED <<fvars, svars>>
      /\ pc' = pc /\ state' = state /\ served' = served
      /\ unparsed_buffer' = unparsed_buffer
      /\ command' = command /\ to_client' = to_client /\ started' = started
      /\ items' = Tail(items) /\ to_server' = to_server \o d /\ to_server' \in Seq(Byte)
      /\ Working /\ ~Stuck
  BY AtSend
<1>3. /\ items \in Seq(Item) /\ k \in Nat /\ k + 1 \in 1 .. Len(its)
      /\ k = Len(its) - Len(items)
      /\ Head(items) = its[k + 1] /\ d \in Seq(Byte)
      /\ Joined(DumpUpTo(its)[k + 1], Partial, d)
  BY AtSend
<1>4. Complete
  BY DEF Send
<1>5. /\ command \in Commands /\ its \in Seq(Item) /\ Framed(its) /\ Dump(its) \in Seq(Byte)
      /\ command.kind \in Kinds /\ KindsOf(Dump(its)) = {command.kind}
      /\ CommandOf(Dump(its)) = command
  BY <1>1, CommandIs, CommandFacts
<1>6. /\ sent' = Append(sent, m) /\ to_client = <<>> /\ to_client' = <<>>
      /\ client' = CASE command.kind \in {"Command", "Malformed"} -> "idle"
                     [] command.kind = "Authenticate" -> "awaits data"
                     [] command.kind = "Idle" -> "awaits idle"
  BY <1>2, <1>4 DEF Complete, Working
<1>7. /\ command.kind \in {"Command", "Malformed"} => client' = "idle"
      /\ command.kind = "Authenticate" => client' = "awaits data"
      /\ command.kind = "Idle" => client' = "awaits idle"
      /\ command.kind \in {"Command", "Malformed", "Authenticate", "Idle"}
  BY <1>5, <1>6 DEF Kinds, Codecs
<1>8. k + 1 = Len(its)
  <2>1. /\ Len(items) \in 1 .. Len(its)
        /\ items = SubSeq(its, Len(its) - Len(items) + 1, Len(its))
        /\ Len(its) \in Nat /\ Len(items) \in Nat
    BY <1>1, <1>2, <1>3, CommandIs, LenProperties DEF ItemsInv
  <2>2. Len(Tail(items)) = Len(items) - 1
    BY <1>3, <1>5, <2>1, TailIsLeft
  <2>3. Len(items) - 1 = 0
    BY <2>2
  <2>. DEFINE x == Len(items)
              n == Len(its)
  <2>4. k = n - x /\ n \in Nat /\ x \in Nat /\ x - 1 = 0
    BY <1>3, <2>1, <2>3
  <2>. HIDE DEF k, x, n
  <2>5. k + 1 = n
    BY <2>4
  <2>. QED  BY <2>5 DEF n
<1>9. /\ m \in [codec : Codecs, bytes : Seq(Byte)] /\ m.codec = "Command"
      /\ m.bytes = Dump(its) /\ Encoded(m) /\ Encoding(m) = its
  <2>1. m.codec = "Command" /\ m.bytes = Dump(its)
    BY DEF Message
  <2>2. m \in [codec : Codecs, bytes : Seq(Byte)]
    BY <1>5 DEF Message, Codecs
  <2>3. Encoded(m)
    BY <1>5, <2>1 DEF Encoded
  <2>4. Encoding(m) = its
    BY <1>5, <2>1 DEF Encoding
  <2>. QED  BY <2>1, <2>2, <2>3, <2>4
<1>10. SessionTypeOK'
  <2>1. TypeOK'
    BY <1>1, <1>2 DEF SessionTypeOK, TypeOK, fvars, vars
  <2>2. sent' \in Seq([codec : Codecs, bytes : Seq(Byte)])
    BY <1>1, <1>6, <1>9, AppendProperties DEF SessionTypeOK
  <2>3. items' \in Seq(Item)
    BY <1>2, EmptySeq
  <2>4. client' \in {"idle", "sending", "awaits literal", "awaits data", "awaits ok",
                     "awaits idle"}
    BY <1>7
  <2>. QED  BY <1>1, <1>2, <2>1, <2>2, <2>3, <2>4 DEF SessionTypeOK
<1>11. /\ ServerInv' /\ DecodedAsSent' /\ Frags' = Frags /\ Bytes' = Bytes /\ Poisoned' = Poisoned
       /\ \A i : Answered(i)' <=> Answered(i)
  BY <1>2, <1>10, ServerRests
<1>12. SentItems' = 0 /\ ItemsInv'
  BY <1>7 DEF SentItems, Sending, ItemsInv
<1>13. Joined(m.bytes, Partial, d)
  BY <1>3, <1>8, <1>9, DumpIsUpTo
<1>14. AllServed => state.codec = "Command"
  BY <1>2 DEF Working
<1>15. /\ AgreeOnMessages' /\ FlowOK' /\ QueueInv'
       /\ Len(sent) \in Nat /\ Len(sent') = Len(sent) + 1
       /\ Len(served) \in Nat /\ Len(served) <= Len(sent) /\ ~AllServed'
       /\ \A j \in 1 .. Len(sent) : sent'[j] = sent[j]
       /\ sent'[Len(sent) + 1] = m
       /\ NextMessage' = IF AllServed THEN m ELSE NextMessage
  <2>. HIDE DEF m, d
  <2>. QED  BY <1>2, <1>3, <1>6, <1>9, <1>10, <1>12, <1>13, <1>14, NewMessage
<1>16. /\ AllServed => Current = its /\ Available = k
       /\ Current' = Current
       /\ Available' = IF AllServed THEN k + 1 ELSE Available
  <2>. HIDE DEF m
  <2>1. CASE AllServed
    <3>1. Current = its /\ Available = k
      BY <2>1 DEF Current, Available
    <3>2. Current' = its
      BY <1>9, <1>15, <2>1 DEF Current, Encoding, CommandOf
    <3>3. Available' = Len(its)
      BY <1>15, <3>2 DEF Available
    <3>. QED  BY <1>8, <2>1, <3>1, <3>2, <3>3
  <2>2. CASE ~AllServed
    <3>1. Current' = Current
      BY <1>15, <2>2 DEF Current, Encoding, CommandOf
    <3>2. Available' = Len(Current)
      BY <1>15, <3>1 DEF Available
    <3>. QED  BY <2>2, <3>1, <3>2 DEF Available
  <2>. QED  BY <2>1, <2>2
<1>17. DialogueInv'
  <2>1. \A j \in Len(served) + 1 .. Len(sent) :
          j \in 1 .. Len(sent) /\ sent'[j] = sent[j] /\ ~Asks(sent'[j])
    <3>1. \A j \in Len(served) + 1 .. Len(sent) : j \in 1 .. Len(sent)
      BY <1>15
    <3>. QED  BY <1>2, <1>15, <3>1 DEF Working, Calm
  <2>2. state'.codec # "Authenticate"
    BY <1>2 DEF Working
  <2>3. CASE command.kind \in {"Command", "Malformed"}
    <3>1. ~Asks(m)
      BY <1>5, <1>9, <2>3 DEF Asks
    <3>2. \A j \in Len(served) + 1 .. Len(sent) + 1 :
            j \in Len(served) + 1 .. Len(sent) \/ j = Len(sent) + 1
      BY <1>15
    <3>3. Calm(Len(sent))'
      BY <1>2, <1>15, <2>1, <3>1, <3>2 DEF Calm
    <3>4. Working'
      BY <1>6, <1>7, <1>15, <2>2, <2>3, <3>3 DEF Working
    <3>. QED  BY <3>4 DEF DialogueInv
  <2>4. CASE command.kind \in {"Authenticate", "Idle"}
    <3>1. Len(sent') - 1 = Len(sent)
      BY <1>15
    <3>2. Calm(Len(sent) - 1)'
      BY <1>2, <2>1, <3>1 DEF Calm
    <3>3. client' \in {"awaits data", "awaits idle"} /\ command.kind = Requests(client')
      BY <1>7, <2>4 DEF Requests
    <3>4. sent'[Len(sent')] = m
      BY <1>15
    <3>5. Requested'
      BY <1>2, <1>6, <1>15, <2>2, <3>2, <3>3, <3>4 DEF Requested
    <3>. QED  BY <3>5 DEF DialogueInv
  <2>. QED  BY <1>7, <2>3, <2>4
<1>18. Head(items).mode = "Sync" => AllServed /\ Answered(k + 1)
  BY <1>1, <1>2 DEF WaitInv
<1>19. \A i \in 1 .. k + 1 : i \in 1 .. k \/ i = k + 1
  <2>. HIDE DEF k
  <2>. QED  BY <1>3
<1>20. WaitInv'
  <2>1. \A i \in 1 .. Available : Current[i].mode = "Sync" => Answered(i)
    BY <1>1 DEF WaitInv
  <2>2. \A i \in 1 .. Available' : Current'[i].mode = "Sync" => Answered(i)'
    <3>1. CASE AllServed
      <4>. HIDE DEF k, its
      <4>. QED  BY <1>3, <1>11, <1>16, <1>18, <1>19, <2>1, <3>1
    <3>2. CASE ~AllServed
      BY <1>11, <1>16, <2>1, <3>2
    <3>. QED  BY <3>1, <3>2
  <2>3. ASSUME NEW j \in Len(served) + 2 .. Len(sent) + 1
        PROVE  NoSync(Encoding(sent'[j]), Len(Encoding(sent'[j])))
    <3>1. CASE j = Len(sent) + 1
      <4>1. ~AllServed
        BY <1>15, <3>1 DEF AllServed
      <4>2. NoSync(its, k)
        BY <1>1, <4>1 DEF WaitInv
      <4>3. its[k + 1].mode # "Sync"
        BY <1>3, <1>18, <4>1
      <4>4. NoSync(its, Len(its))
        <5>. HIDE DEF k, its
        <5>. QED  BY <1>8, <1>19, <4>2, <4>3 DEF NoSync
      <4>5. sent'[j] = m
        BY <1>15, <3>1
      <4>. QED  BY <1>9, <4>4, <4>5
    <3>2. CASE j # Len(sent) + 1
      <4>1. j \in Len(served) + 2 .. Len(sent) /\ j \in 1 .. Len(sent)
        BY <1>15, <3>2
      <4>. QED  BY <1>1, <1>15, <4>1 DEF WaitInv
    <3>. QED  BY <3>1, <3>2
  <2>4. \A j \in Len(served') + 2 .. Len(sent') :
          NoSync(Encoding(sent'[j]), Len(Encoding(sent'[j])))
    BY <1>2, <1>15, <2>3
  <2>5. NoSync(command.items', SentItems')
    BY <1>12 DEF NoSync
  <2>6. client' # "sending" /\ client' # "awaits literal"
    BY <1>7
  <2>. QED  BY <2>2, <2>4, <2>5, <2>6 DEF WaitInv, Encoding, CommandOf
<1>21. PoisonInv'
  BY <1>1, <1>2, <1>11, <1>16 DEF PoisonInv
<1>. QED  BY <1>11, <1>12, <1>15, <1>17, <1>20, <1>21 DEF IInv

LEMMA SendKeepsIt ==
  ASSUME IInv, Send
  PROVE  IInv'
BY SendPartKeepsIt, SendLastKeepsIt

\* The replies of the server differ, and one is received at a time.
LEMMA Replies ==
  ASSUME NEW t
  PROVE  /\ Continue.kind = "Continue" /\ Bad(t).kind = "Bad" /\ OkReply(t).kind = "Ok"
         /\ \A r : <<r>> # <<>> /\ Head(<<r>>) = r /\ Tail(<<r>>) = <<>>
<1>1. Continue.kind = "Continue" /\ Bad(t).kind = "Bad" /\ OkReply(t).kind = "Ok"
  BY DEF Continue, Bad, OkReply
<1>2. \A r : <<r>> # <<>> /\ Head(<<r>>) = r /\ Tail(<<r>>) = <<>>
  OBVIOUS
<1>. QED  BY <1>1, <1>2

\* The client takes a reply, and everything it sent before is served.
LEMMA AtReceive ==
  ASSUME IInv, Receive
  PROVE  /\ UNCHANGED <<fvars, svars>>
         /\ pc' = pc /\ state' = state /\ served' = served
         /\ unparsed_buffer' = unparsed_buffer
         /\ command' = command /\ started' = started
         /\ to_client # <<>> /\ to_client' = <<>> /\ AllServed
         /\ \/ /\ client = "awaits literal" /\ to_client = <<Continue>>
               /\ client' = "sending" /\ items' = items /\ sent' = sent /\ to_server' = to_server
               /\ Answered(SentItems + 1) /\ state.codec = "Command"
            \/ /\ client = "awaits literal" /\ to_client = <<Bad(TagOf(command))>>
               /\ client' = "idle" /\ items' = <<>> /\ sent' = sent /\ to_server' = to_server
               /\ state.codec = "Command"
            \/ /\ client = "awaits ok" /\ client' = "idle" /\ items' = items /\ sent' = sent
               /\ to_server' = to_server /\ state.codec = "Command"
            \/ /\ client = "awaits data" /\ client' = "awaits ok" /\ items' = items
               /\ state = [codec |-> "Authenticate", tag |-> TagOf(command)]
               /\ SendLine("Authenticate", DataLine)
            \/ /\ client = "awaits idle" /\ client' = "idle" /\ items' = items
               /\ state = [codec |-> "Idle", tag |-> TagOf(command)]
               /\ SendLine("Idle", DoneLine)
<1>. DEFINE t == TagOf(command)
            r == Head(to_client)
<1>1. /\ UNCHANGED <<fvars, svars>> /\ command' = command /\ started' = started
      /\ to_client # <<>> /\ to_client' = Tail(to_client)
      /\ \/ /\ client = "awaits literal" /\ r = Continue
            /\ client' = "sending" /\ items' = items /\ sent' = sent /\ to_server' = to_server
         \/ /\ client = "awaits literal" /\ r = Bad(t)
            /\ client' = "idle" /\ items' = <<>> /\ sent' = sent /\ to_server' = to_server
         \/ /\ client = "awaits data" /\ r = Continue
            /\ SendLine("Authenticate", DataLine)
            /\ client' = "awaits ok" /\ items' = items
         \/ /\ client = "awaits ok" /\ r = OkReply(t)
            /\ client' = "idle" /\ items' = items /\ sent' = sent /\ to_server' = to_server
         \/ /\ client = "awaits idle" /\ r = Continue
            /\ SendLine("Idle", DoneLine)
            /\ client' = "idle" /\ items' = items
  BY DEF Receive
<1>2. /\ pc' = pc /\ state' = state /\ served' = served
      /\ unparsed_buffer' = unparsed_buffer
  BY <1>1 DEF svars, fvars, vars
<1>3. DialogueInv /\ WaitInv
  BY InvariantParts
<1>4. CASE client = "awaits literal"
  <2>1. /\ to_client \in {<<Continue>>, <<Bad(t)>>} /\ AllServed
        /\ to_client = <<Continue>> => Answered(SentItems + 1)
    BY <1>1, <1>3, <1>4 DEF WaitInv
  <2>2. state.codec = "Command"
    BY <1>3, <1>4, <2>1 DEF DialogueInv, Working, Requested, Granted, Authenticating
  <2>3. to_client' = <<>>
    BY <1>1, <2>1, Replies
  <2>4. r = Continue => to_client = <<Continue>>
    BY <2>1, Replies
  <2>5. r = Bad(t) => to_client = <<Bad(t)>>
    BY <2>1, Replies
  <2>. QED  BY <1>1, <1>2, <1>4, <2>1, <2>2, <2>3, <2>4, <2>5
<1>5. CASE client \in {"awaits data", "awaits idle"}
  <2>1. Granted
    BY <1>1, <1>3, <1>5 DEF DialogueInv, Working, Requested, Authenticating
  <2>2. to_client' = <<>> /\ AllServed
    BY <1>1, <2>1, Replies DEF Granted
  <2>3. state = [codec |-> Requests(client), tag |-> t]
    BY <2>1 DEF Granted
  <2>. QED  BY <1>1, <1>2, <1>5, <2>2, <2>3 DEF Requests
<1>6. CASE client = "awaits ok"
  <2>1. Authenticating
    BY <1>3, <1>6 DEF DialogueInv, Working, Requested, Granted
  <2>2. to_client = <<OkReply(t)>> /\ state.codec = "Command" /\ AllServed
    BY <1>1, <2>1 DEF Authenticating
  <2>3. to_client' = <<>>
    BY <1>1, <2>2, Replies
  <2>. QED  BY <1>1, <1>2, <1>6, <2>2, <2>3
<1>. QED  BY <1>1, <1>4, <1>5, <1>6

\* The client goes on with its message, gives it up, or was answered.
LEMMA ReceiveReplyKeepsIt ==
  ASSUME IInv, Receive, sent' = sent
  PROVE  IInv'
<1>1. /\ StreamPart /\ SessionTypeOK /\ ItemsInv /\ AgreeOnMessages /\ FlowOK /\ QueueInv
      /\ DialogueInv /\ WaitInv /\ PoisonInv
  BY InvariantParts
<1>2. /\ UNCHANGED <<fvars, svars>>
      /\ pc' = pc /\ state' = state /\ served' = served /\ unparsed_buffer' = unparsed_buffer
      /\ command' = command /\ started' = started
      /\ to_client # <<>> /\ to_client' = <<>> /\ AllServed
  BY AtReceive
<1>3. Len(sent) \in Nat /\ Len(served) = Len(sent)
  BY <1>1, <1>2, MessageTypes DEF AllServed
<1>4. /\ to_server' = to_server /\ state.codec = "Command"
      /\ \/ /\ client = "awaits literal" /\ to_client = <<Continue>>
            /\ client' = "sending" /\ items' = items /\ Answered(SentItems + 1)
         \/ /\ client = "awaits literal" /\ to_client = <<Bad(TagOf(command))>>
            /\ client' = "idle" /\ items' = <<>>
         \/ /\ client = "awaits ok" /\ client' = "idle" /\ items' = items
  <2>1. \A c, l : ~SendLine(c, l)
    <3>1. SUFFICES ASSUME NEW c, NEW l, sent' = Append(sent, Message(c, l)) PROVE FALSE
      BY DEF SendLine
    <3>. DEFINE S == [codec : Codecs, bytes : Seq(Byte)]
    <3>2. sent \in Seq(S)
      BY <1>1 DEF SessionTypeOK
    <3>. HIDE DEF S
    <3>3. Len(Append(sent, Message(c, l))) = Len(sent) + 1
      BY <3>2
    <3>. QED  BY <1>3, <3>1, <3>3
  <2>. QED  BY <2>1, AtReceive
<1>5. SessionTypeOK'
  <2>1. TypeOK'
    BY <1>1, <1>2 DEF SessionTypeOK, TypeOK, fvars, vars
  <2>2. to_client' \in Seq([kind : {"Continue", "Bad", "Ok"}, tag : Seq(Byte)])
    BY <1>2, EmptySeq
  <2>3. items' \in Seq(Item)
    BY <1>1, <1>4, EmptySeq DEF SessionTypeOK
  <2>4. client' \in {"idle", "sending"}
    BY <1>4
  <2>. QED  BY <1>1, <1>2, <1>4, <2>1, <2>2, <2>3, <2>4 DEF SessionTypeOK
<1>6. /\ ServerInv' /\ DecodedAsSent' /\ Frags' = Frags /\ Bytes' = Bytes /\ Poisoned' = Poisoned
      /\ \A i : Answered(i)' <=> Answered(i)
  BY <1>2, <1>5, ServerRests
<1>7. SentItems' = SentItems
  <2>1. CASE to_client = <<Continue>> /\ client = "awaits literal"
    <3>1. Head(to_client).kind = "Continue"
      BY <2>1, Replies
    <3>2. client' = "sending" /\ items' = items
      <4>1. <<Continue>> # <<Bad(TagOf(command))>>
        BY Replies
      <4>. QED  BY <1>4, <2>1, <4>1
    <3>3. Sending /\ Sending'
      BY <2>1, <3>1, <3>2 DEF Sending, Rejected
    <3>. QED  BY <1>2, <3>2, <3>3 DEF SentItems
  <2>2. CASE to_client = <<Bad(TagOf(command))>> /\ client = "awaits literal"
    <3>1. Head(to_client).kind = "Bad"
      BY <2>2, Replies
    <3>2. client' = "idle"
      <4>1. <<Continue>> # <<Bad(TagOf(command))>>
        BY Replies
      <4>. QED  BY <1>4, <2>2, <4>1
    <3>3. ~Sending /\ ~Sending'
      BY <1>2, <2>2, <3>1, <3>2 DEF Sending, Rejected
    <3>. QED  BY <3>3 DEF SentItems
  <2>3. CASE client = "awaits ok"
    <3>1. ~Sending /\ ~Sending'
      BY <1>4, <2>3 DEF Sending, Rejected
    <3>. QED  BY <3>1 DEF SentItems
  <2>. QED  BY <1>4, <2>1, <2>2, <2>3
<1>8. /\ AllServed' /\ Current' = Current /\ Available' = Available
  BY <1>2, <1>7 DEF AllServed, Current, Available
<1>9. ItemsInv'
  BY <1>1, <1>2, <1>4 DEF ItemsInv
<1>10. AgreeOnMessages' /\ QueueInv'
  BY <1>1, <1>2 DEF AgreeOnMessages, QueueInv
<1>11. FlowOK'
  BY <1>1, <1>2, <1>4, <1>6, <1>7 DEF FlowOK, Flow, Partial
<1>12. DialogueInv'
  <2>1. Calm(Len(sent))'
    BY <1>2, <1>3 DEF Calm
  <2>2. Working'
    BY <1>2, <1>4, <2>1 DEF Working
  <2>. QED  BY <2>2 DEF DialogueInv
<1>13. WaitInv'
  <2>1. client' = "sending" => Answered(SentItems + 1)'
    BY <1>4, <1>6, <1>7
  <2>2. client' # "awaits literal"
    BY <1>4
  <2>. QED  BY <1>1, <1>2, <1>6, <1>8, <2>1, <2>2 DEF WaitInv
<1>14. PoisonInv'
  BY <1>1, <1>2, <1>6, <1>8 DEF PoisonInv, Stuck
<1>. QED  BY <1>6, <1>9, <1>10, <1>11, <1>12, <1>13, <1>14 DEF IInv

\* The client may go on with the data or with the end of the idling.
GrantTaken(codec, line) ==
  /\ codec \in {"Authenticate", "Idle"}
  /\ line = IF codec = "Authenticate" THEN DataLine ELSE DoneLine
  /\ SendLine(codec, line) /\ items' = items
  /\ state.codec = codec /\ state.tag = TagOf(command)
  /\ client \in {"awaits data", "awaits idle"}
  /\ client' = IF codec = "Authenticate" THEN "awaits ok" ELSE "idle"

LEMMA ReceiveGrantKeepsIt ==
  ASSUME IInv, Receive, NEW codec, NEW line, GrantTaken(codec, line)
  PROVE  IInv'
<1>. DEFINE m == Message(codec, line)
<1>1. /\ StreamPart /\ SessionTypeOK /\ ItemsInv /\ AgreeOnMessages /\ FlowOK /\ QueueInv
      /\ DialogueInv /\ WaitInv /\ PoisonInv
  BY InvariantParts
<1>2. /\ UNCHANGED <<fvars, svars>>
      /\ pc' = pc /\ state' = state /\ served' = served /\ unparsed_buffer' = unparsed_buffer
      /\ command' = command /\ started' = started
      /\ to_client # <<>> /\ to_client' = <<>> /\ AllServed
  BY AtReceive
<1>3. to_server' = to_server \o line /\ sent' = Append(sent, m)
  BY DEF GrantTaken, SendLine
<1>4. /\ line \in Seq(Byte) /\ line \in {DataLine, DoneLine}
      /\ \A its : its = <<LineItem(line)>> => NoSync(its, Len(its))
  BY LineFacts DEF GrantTaken
<1>5. /\ m \in [codec : Codecs, bytes : Seq(Byte)] /\ m.codec = codec /\ m.bytes = line
      /\ Encoded(m) /\ Encoding(m) = <<LineItem(line)>> /\ ~Asks(m)
  <2>1. m.codec = codec /\ m.bytes = line
    BY DEF Message
  <2>2. m \in [codec : Codecs, bytes : Seq(Byte)]
    BY <1>4 DEF GrantTaken, Message, Codecs
  <2>3. Encoded(m)
    BY <2>1 DEF GrantTaken, Encoded
  <2>4. Encoding(m) = <<LineItem(line)>> /\ ~Asks(m)
    BY <2>1 DEF GrantTaken, Encoding, Asks
  <2>. QED  BY <2>1, <2>2, <2>3, <2>4
<1>6. SessionTypeOK'
  <2>1. TypeOK'
    BY <1>1, <1>2 DEF SessionTypeOK, TypeOK, fvars, vars
  <2>2. to_client' \in Seq([kind : {"Continue", "Bad", "Ok"}, tag : Seq(Byte)])
    BY <1>2, EmptySeq
  <2>3. sent' \in Seq([codec : Codecs, bytes : Seq(Byte)])
    BY <1>1, <1>3, <1>5, AppendProperties DEF SessionTypeOK
  <2>4. client' \in {"idle", "awaits ok"} /\ items' = items
    BY DEF GrantTaken
  <2>5. to_server' \in Seq(Byte)
    BY <1>1, <1>3, <1>4, ConcatProperties DEF SessionTypeOK
  <2>. QED  BY <1>1, <1>2, <2>1, <2>2, <2>3, <2>4, <2>5 DEF SessionTypeOK
<1>7. /\ ServerInv' /\ DecodedAsSent' /\ Frags' = Frags /\ Bytes' = Bytes /\ Poisoned' = Poisoned
      /\ \A i : Answered(i)' <=> Answered(i)
  BY <1>2, <1>6, ServerRests
<1>8. SentItems = 0 /\ SentItems' = 0 /\ ItemsInv'
  BY DEF GrantTaken, SentItems, Sending, ItemsInv
<1>9. Joined(m.bytes, Partial, line)
  <2>1. command.items \in Seq(Item)
    BY <1>1, CommandIs
  <2>2. Partial = <<>>
    BY <1>8, <2>1, DumpEquations DEF Partial
  <2>3. <<>> \o line = line
    BY <1>4, ConcatEmptySeq
  <2>. QED  BY <1>5, <2>2, <2>3 DEF Joined
<1>. HIDE DEF m
<1>10. /\ state.codec = codec /\ state.tag = TagOf(command)
       /\ codec = "Authenticate" => client' = "awaits ok"
       /\ codec = "Idle" => client' = "idle"
       /\ codec \in {"Authenticate", "Idle"}
  BY DEF GrantTaken
<1>11. /\ AgreeOnMessages' /\ FlowOK' /\ QueueInv'
       /\ Len(sent) \in Nat /\ Len(sent') = Len(sent) + 1
       /\ Len(served) \in Nat /\ Len(served) <= Len(sent) /\ ~AllServed'
       /\ \A j \in 1 .. Len(sent) : sent'[j] = sent[j]
       /\ sent'[Len(sent) + 1] = m
       /\ NextMessage' = IF AllServed THEN m ELSE NextMessage
  <2>1. IF AllServed THEN m.codec = state.codec ELSE m.codec = "Command"
    BY <1>2, <1>5, <1>10
  <2>. QED  BY <1>2, <1>3, <1>4, <1>5, <1>6, <1>8, <1>9, <2>1, NewMessage
<1>12. /\ Len(served) = Len(sent) /\ Len(sent) \in Nat /\ Len(sent') = Len(sent) + 1
       /\ sent'[Len(sent) + 1] = m /\ ~AllServed' /\ NextMessage' = m
  BY <1>2, <1>11, Zenon DEF AllServed
<1>13. Frags = <<>> /\ ~Poisoned
  BY <1>1, <1>2, <1>8, NothingYet
<1>14. Current' = Encoding(m) /\ Available' = Len(Encoding(m)) /\ NoSync(Encoding(m), Len(Encoding(m)))
  <2>2. Current' = Encoding(m)
    BY <1>12 DEF Current, Encoding, CommandOf
  <2>3. Available' = Len(Encoding(m))
    BY <1>12, <2>2 DEF Available
  <2>. QED  BY <1>4, <1>5, <2>2, <2>3
<1>15. DialogueInv'
  <2>1. CASE codec = "Authenticate"
    <3>1. client' = "awaits ok" /\ to_client' = <<>>
      BY <1>2, <1>10, <2>1
    <3>2. Len(sent') <= Len(served') + 1
      <4>. DEFINE n == Len(sent)
      <4>1. n \in Nat /\ Len(served') = n /\ Len(sent') = n + 1
        BY <1>2, <1>12, Zenon
      <4>. HIDE DEF n
      <4>. QED  BY <4>1
    <3>3. state'.codec = "Authenticate" /\ state'.tag = TagOf(command')
      BY <1>2, <1>10, <2>1
    <3>4. Authenticating'
      BY <3>1, <3>2, <3>3 DEF Authenticating, TagOf
    <3>. QED  BY <3>4 DEF DialogueInv
  <2>2. CASE codec = "Idle"
    <3>1. \A j \in Len(served) + 1 .. Len(sent) + 1 : j = Len(sent) + 1
      <4>. DEFINE n == Len(sent)
      <4>1. n \in Nat /\ Len(served) = n
        BY <1>12, Zenon
      <4>. HIDE DEF n
      <4>2. \A j \in n + 1 .. n + 1 : j = n + 1
        BY <4>1
      <4>. QED  BY <4>1, <4>2, Zenon DEF n
    <3>2. Calm(Len(sent))'
      BY <1>2, <1>5, <1>12, <3>1 DEF Calm
    <3>3. Working'
      BY <1>2, <1>10, <1>12, <2>2, <3>2 DEF Working
    <3>. QED  BY <3>3 DEF DialogueInv
  <2>. QED  BY <1>10, <2>1, <2>2
<1>16. WaitInv'
  <2>1. \A i \in 1 .. Available' : Current'[i].mode = "Sync" => Answered(i)'
    BY <1>14 DEF NoSync
  <2>2. \A j \in Len(served') + 2 .. Len(sent') : FALSE
    <3>. DEFINE n == Len(sent)
    <3>1. n \in Nat /\ Len(served') = n /\ Len(sent') = n + 1
      BY <1>2, <1>12, Zenon
    <3>. HIDE DEF n
    <3>2. \A j \in n + 2 .. n + 1 : FALSE
      BY <3>1
    <3>. QED  BY <3>1, <3>2, Zenon
  <2>3. NoSync(command.items', SentItems')
    BY <1>8 DEF NoSync
  <2>4. client' # "sending" /\ client' # "awaits literal"
    BY <1>10
  <2>. QED  BY <2>1, <2>2, <2>3, <2>4 DEF WaitInv
<1>17. PoisonInv'
  <2>1. Frags' = <<>> /\ ~Poisoned'
    BY <1>7, <1>13
  <2>2. Len(Frags') = 0
    BY <2>1
  <2>. QED  BY <2>1, <2>2 DEF PoisonInv
<1>. QED  BY <1>7, <1>8, <1>11, <1>15, <1>16, <1>17 DEF IInv

LEMMA ReceiveKeepsIt ==
  ASSUME IInv, Receive
  PROVE  IInv'
<1>1. CASE sent' = sent
  BY <1>1, ReceiveReplyKeepsIt
<1>2. CASE /\ client = "awaits data" /\ client' = "awaits ok" /\ items' = items
           /\ state = [codec |-> "Authenticate", tag |-> TagOf(command)]
           /\ SendLine("Authenticate", DataLine)
  <2>1. GrantTaken("Authenticate", DataLine)
    BY <1>2 DEF GrantTaken
  <2>. QED  BY <2>1, ReceiveGrantKeepsIt
<1>3. CASE /\ client = "awaits idle" /\ client' = "idle" /\ items' = items
           /\ state = [codec |-> "Idle", tag |-> TagOf(command)]
           /\ SendLine("Idle", DoneLine)
  <2>1. GrantTaken("Idle", DoneLine)
    BY <1>3 DEF GrantTaken
  <2>. QED  BY <2>1, ReceiveGrantKeepsIt
<1>. QED  BY <1>1, <1>2, <1>3, AtReceive

-----------------------------------------------------------------------------
(* The server reads and parses.                                            *)

\* The client has what it had.
LEMMA ClientRests ==
  ASSUME IInv, UNCHANGED <<cvars, state, served, to_client>>
  PROVE  /\ client' = client /\ command' = command /\ items' = items /\ started' = started
         /\ sent' = sent /\ state' = state /\ served' = served /\ to_client' = to_client
         /\ ItemsInv' /\ AgreeOnMessages'
         /\ max_message_size' = max_message_size => DecodedAsSent'
         /\ SentItems' = SentItems /\ Partial' = Partial
         /\ AllServed' = AllServed /\ Current' = Current /\ Available' = Available
         /\ QueueInv' /\ DialogueInv'
<1>1. ItemsInv /\ AgreeOnMessages /\ DecodedAsSent /\ QueueInv /\ DialogueInv
  BY InvariantParts
<1>2. /\ client' = client /\ command' = command /\ items' = items /\ started' = started
      /\ sent' = sent /\ state' = state /\ served' = served /\ to_client' = to_client
  BY DEF cvars
<1>3. ItemsInv' /\ AgreeOnMessages' /\ QueueInv'
  BY <1>1, <1>2 DEF ItemsInv, AgreeOnMessages, QueueInv
<1>4. max_message_size' = max_message_size => DecodedAsSent'
  BY <1>1, <1>2 DEF DecodedAsSent
<1>5. SentItems' = SentItems /\ AllServed' = AllServed
  BY <1>2 DEF SentItems, Sending, Rejected, AllServed
<1>6. Partial' = Partial
  BY <1>2, <1>5 DEF Partial
<1>7. Current' = Current /\ Available' = Available
  BY <1>2, <1>5 DEF Current, Available, NextMessage
<1>8. DialogueInv'
  <2>1. /\ Working => Working'
        /\ Requested => Requested'
        /\ Granted => Granted'
        /\ Authenticating => Authenticating'
    BY <1>2, <1>5 DEF Working, Requested, Granted, Authenticating, Calm
  <2>. QED  BY <1>1, <2>1 DEF DialogueInv
<1>. QED  BY <1>2, <1>3, <1>4, <1>5, <1>6, <1>7, <1>8, Zenon

\* The server does not know more than before of the fragments.
LEMMA OnlyBytesMove ==
  ASSUME IInv, UNCHANGED <<cvars, state, served, to_client>>,
         max_message_size' = max_message_size, ServerInv',
         Flow' = Flow, Frags' = Frags, Poisoned' <=> Poisoned, pc # "react", pc' # "react"
  PROVE  IInv'
<1>1. /\ client' = client /\ command' = command /\ items' = items /\ started' = started
      /\ sent' = sent /\ state' = state /\ served' = served /\ to_client' = to_client
      /\ ItemsInv' /\ AgreeOnMessages' /\ DecodedAsSent'
      /\ SentItems' = SentItems /\ Partial' = Partial
      /\ AllServed' = AllServed /\ Current' = Current /\ Available' = Available
      /\ QueueInv' /\ DialogueInv'
  BY ClientRests
<1>2. FlowOK /\ WaitInv /\ PoisonInv
  BY InvariantParts
<1>3. FlowOK'
  BY <1>1, <1>2 DEF FlowOK
<1>4. \A i : Answered(i)' <=> Answered(i)
  BY DEF Answered
<1>5. WaitInv'
  BY <1>1, <1>2, <1>4 DEF WaitInv
<1>6. Stuck' <=> Stuck
  BY <1>1 DEF Stuck
<1>7. PoisonInv'
  BY <1>1, <1>2, <1>6 DEF PoisonInv
<1>. QED  BY <1>1, <1>3, <1>5, <1>7 DEF IInv

LEMMA ServerReadKeepsIt ==
  ASSUME IInv, ServerRead
  PROVE  IInv'
<1>1. /\ SessionTypeOK /\ FragmentsInv /\ BufferHoldsMessage /\ OneMessage(fragments)
      /\ max_message_size \in Limits
  BY InvariantParts
<1>2. /\ pc = "read" /\ pc' = "progress"
      /\ UNCHANGED <<cvars, state, served, to_client>>
  BY DEF ServerRead
<1>3. PICK k \in 1 .. Len(to_server) :
        /\ EnqueueBytes(SubSeq(to_server, 1, k))
        /\ to_server' = SubSeq(to_server, k + 1, Len(to_server))
  BY DEF ServerRead
<1>. DEFINE x == SubSeq(to_server, 1, k)
<1>4. /\ unparsed_buffer' = unparsed_buffer \o x
      /\ max_message_size' = max_message_size
      /\ max_message_size_exceeded' = max_message_size_exceeded
      /\ message_poisoned' = message_poisoned /\ message_buffer' = message_buffer
      /\ parser' = parser /\ parsed' = parsed /\ fragments' = fragments
  BY <1>3 DEF EnqueueBytes
<1>5. /\ to_server \in Seq(Byte) /\ unparsed_buffer \in Seq(Byte) /\ TypeOK
      /\ Bytes \in Seq(Byte) /\ Len(to_server) \in Nat
  BY <1>1, ServerTypes, LenProperties
<1>6. k \in 0 .. Len(to_server)
  BY <1>5
<1>7. x \in Seq(Byte) /\ to_server' \in Seq(Byte)
  BY <1>3, <1>5, <1>6, PrefixProperties, SuffixProperties
<1>8. SessionTypeOK'
  <2>1. unparsed_buffer' \in Seq(Byte)
    BY <1>4, <1>5, <1>7, ConcatProperties
  <2>. HIDE DEF x
  <2>2. TypeOK'
    BY <1>4, <1>5, <2>1 DEF TypeOK
  <2>. QED  BY <1>1, <1>2, <1>7, <2>2 DEF SessionTypeOK, cvars
<1>. HIDE DEF x
<1>9. ServerInv'
  <2>1. FragmentsInv'
    BY <1>1, <1>4, SameFragments
  <2>2. BufferHoldsMessage' /\ OneMessage(fragments)' /\ (max_message_size \in Limits)'
    BY <1>1, <1>4 DEF BufferHoldsMessage, OneMessage
  <2>3. ReactInv'
    BY <1>2 DEF ReactInv
  <2>. QED  BY <1>8, <2>1, <2>2, <2>3 DEF ServerInv
<1>10. Frags' = Frags /\ Bytes' = Bytes /\ (Poisoned' <=> Poisoned)
  BY <1>2, <1>4 DEF Frags, Bytes, Poisoned, Between, IsMessageComplete
<1>11. Flow' = Flow
  <2>1. Wire(Bytes, unparsed_buffer', to_server') = Wire(Bytes, unparsed_buffer, to_server)
    <3>1. Cut(to_server, x, to_server')
      BY <1>3, <1>6 DEF Cut, x
    <3>2. Joined(unparsed_buffer', unparsed_buffer, x)
      BY <1>4 DEF Joined
    <3>. QED  BY <1>5, <3>1, <3>2, WireRead
  <2>. QED  BY <1>10, <2>1 DEF Flow
<1>. QED  BY <1>2, <1>4, <1>9, <1>10, <1>11, OnlyBytesMove

\* What the server has when it starts to parse, and what is new then.
LEMMA AtProgress ==
  ASSUME IInv, ServerProgress
  PROVE  /\ pc = "progress" /\ UNCHANGED <<cvars, state, served, to_client>>
         /\ max_message_size' = max_message_size
         /\ Frags = Cur(fragments, <<>>) /\ Bytes = Cur(parsed, <<>>)
         /\ Flow' = Flow \/ Bytes' # parsed'
         /\ message_poisoned' <=> Poisoned
         /\ SessionTypeOK' /\ FragmentsInv' /\ BufferHoldsMessage'
         /\ (max_message_size \in Limits)' /\ OneMessage(Frags)
<1>1. /\ SessionTypeOK /\ TypeOK /\ FragmentsInv /\ BufferHoldsMessage /\ OneMessage(fragments)
      /\ max_message_size \in Limits
  BY InvariantParts
<1>2. /\ pc = "progress" /\ Progress /\ to_server' = to_server
      /\ pc' \in {"read", "react"}
      /\ UNCHANGED <<cvars, state, served, to_client>>
  BY DEF ServerProgress
<1>3. PICK n \in 0 .. Len(unparsed_buffer) : DequeueParsedBytes(n)
  BY <1>1, <1>2, ProgressStep
<1>4. [Next]_vars
  BY <1>2 DEF Next
<1>5. TypeOK' /\ FragmentsInv' /\ BufferHoldsMessage'
  BY <1>1, <1>4, NextTypes, NextKeepsFragmentsInv, NextKeepsBuffer
<1>6. SessionTypeOK'
  BY <1>1, <1>2, <1>5 DEF SessionTypeOK, cvars
<1>7. /\ Frags = Cur(fragments, <<>>) /\ Bytes = Cur(parsed, <<>>)
      /\ Cur(message_poisoned, FALSE) <=> Poisoned
  BY <1>2 DEF Frags, Bytes, Poisoned, Between, Cur
<1>. DEFINE x == SubSeq(unparsed_buffer, 1, n)
            y == SubSeq(unparsed_buffer, n + 1, Len(unparsed_buffer))
<1>8. /\ parsed' = Bytes \o x /\ unparsed_buffer' = y
      /\ message_poisoned' = Cur(message_poisoned, FALSE)
      /\ max_message_size' = max_message_size
  BY <1>3, <1>7 DEF DequeueParsedBytes
<1>9. /\ to_server \in Seq(Byte) /\ unparsed_buffer \in Seq(Byte) /\ Bytes \in Seq(Byte)
  BY <1>1, ServerTypes
<1>10. Wire(parsed', unparsed_buffer', to_server) = Wire(Bytes, unparsed_buffer, to_server)
  <2>1. Joined(parsed', Bytes, x)
    BY <1>8 DEF Joined
  <2>2. Cut(unparsed_buffer, x, unparsed_buffer')
    BY <1>3, <1>8 DEF Cut
  <2>. HIDE DEF x, y
  <2>. QED  BY <1>9, <2>1, <2>2, WireParsed
<1>11. Flow' = Flow \/ Bytes' # parsed'
  BY <1>2, <1>10 DEF Flow
<1>12. OneMessage(Frags)
  BY <1>1 DEF OneMessage, Frags
<1>13. (max_message_size \in Limits)'
  BY <1>1, <1>8
<1>. QED  BY <1>2, <1>5, <1>6, <1>7, <1>8, <1>11, <1>12, <1>13

\* No fragment is complete.
LEMMA ProgressNoneKeepsIt ==
  ASSUME IInv, ServerProgress, fragments' = Frags
  PROVE  IInv'
<1>1. /\ pc = "progress" /\ UNCHANGED <<cvars, state, served, to_client>>
      /\ max_message_size' = max_message_size
      /\ Frags = Cur(fragments, <<>>)
      /\ Flow' = Flow \/ Bytes' # parsed'
      /\ message_poisoned' <=> Poisoned
      /\ SessionTypeOK' /\ FragmentsInv' /\ BufferHoldsMessage'
      /\ (max_message_size \in Limits)' /\ OneMessage(Frags)
  BY AtProgress
<1>2. pc' = "read"
  BY <1>1 DEF ServerProgress
<1>3. ~IsMessageComplete'
  <2>1. SessionTypeOK /\ TypeOK
    BY InvariantParts
  <2>2. Progress
    BY DEF ServerProgress
  <2>3. PICK n \in 0 .. Len(unparsed_buffer) :
           \/ \E p \in Parser \ {NoParser} : Continues(p, n)
           \/ \E f \in FragmentInfo : Finishes(f, n)
    BY <2>1, <2>2, ProgressStep
  <2>4. CASE \E p \in Parser \ {NoParser} : Continues(p, n)
    BY <2>4 DEF Continues, ReturnNone, IsMessageComplete
  <2>5. CASE \E f \in FragmentInfo : Finishes(f, n)
    <3>1. PICK f \in FragmentInfo : fragments' = Append(Frags, f)
      BY <1>1, <2>5 DEF Finishes, ReturnFragment
    <3>2. Frags \in Seq(FragmentInfo) /\ Len(Frags) \in Nat
      BY <2>1, ServerTypes
    <3>3. Len(Append(Frags, f)) = Len(Frags) + 1
      BY <3>2, AppendProperties
    <3>. QED  BY <3>1, <3>2, <3>3
  <2>. QED  BY <2>3, <2>4, <2>5
<1>4. Frags' = fragments' /\ Bytes' = parsed' /\ (Poisoned' <=> message_poisoned')
  BY <1>3 DEF Frags, Bytes, Poisoned, Between
<1>5. ServerInv'
  <2>1. OneMessage(fragments')
    BY <1>1
  <2>2. ReactInv'
    BY <1>2 DEF ReactInv
  <2>. QED  BY <1>1, <2>1, <2>2 DEF ServerInv
<1>. QED  BY <1>1, <1>2, <1>4, <1>5, OnlyBytesMove

\* One more fragment is.
LEMMA NewFragment ==
  ASSUME IInv, ServerProgress, fragments' # Frags
  PROVE  /\ pc' = "react" /\ ~Between' /\ fragments' # <<>>
         /\ Len(fragments') = Len(Frags) + 1 /\ Len(Frags) \in Nat
         /\ OneMessage(fragments') /\ LastEnd(fragments') = Len(parsed')
<1>1. /\ pc = "progress" /\ Frags = Cur(fragments, <<>>) /\ Bytes = Cur(parsed, <<>>)
      /\ OneMessage(Frags)
  BY AtProgress
<1>2. SessionTypeOK /\ TypeOK /\ FragmentsTileMessage /\ LiteralsAsAnnounced
  BY InvariantParts
<1>3. pc' = "react" /\ Progress
  BY <1>1 DEF ServerProgress
<1>4. PICK n \in 0 .. Len(unparsed_buffer) :
           /\ DequeueParsedBytes(n)
           /\ \/ \E p \in Parser \ {NoParser} : Continues(p, n)
              \/ \E f \in FragmentInfo : Finishes(f, n)
  BY <1>2, <1>3, ProgressStep
<1>5. PICK f \in FragmentInfo : Finishes(f, n)
  BY <1>1, <1>4 DEF Continues, ReturnNone
<1>6. fragments' = Append(Frags, f) /\ f.end = CurParser.end + n
  BY <1>1, <1>5 DEF Finishes, ReturnFragment
<1>7. /\ Frags \in Seq(FragmentInfo) /\ Len(Frags) \in Nat
  BY <1>2, ServerTypes
<1>8. /\ Len(fragments') = Len(Frags) + 1
      /\ \A i \in 1 .. Len(Frags) : fragments'[i] = Frags[i]
      /\ fragments'[Len(Frags) + 1] = f /\ fragments' \in Seq(FragmentInfo)
  BY <1>6, <1>7, AppendProperties
<1>9. fragments' # <<>>
  BY <1>7, <1>8, EmptySeq
<1>. DEFINE c == CurParser
<1>10. /\ c.end = Len(Bytes)
       /\ LastAnnounced(Frags) = NoAnnouncement => ~EndsWithLine(Frags)
  <2>1. Frags = Cur(fragments, <<>>) /\ c = CurParser
    BY <1>1
  <2>. HIDE DEF c
  <2>. QED  BY <1>1, <1>2, <2>1, CurFragments
<1>11. Len(parsed') = Len(Bytes) + n
  BY <1>1, <1>2, <1>4, ParsedGrows
<1>12. LastEnd(fragments') = Len(parsed')
  BY <1>6, <1>8, <1>9, <1>10, <1>11 DEF LastEnd
<1>13. OneMessage(fragments')
  <2>. DEFINE k == Len(Frags)
  <2>. SUFFICES ASSUME NEW i \in 1 .. Len(fragments') - 1, fragments'[i].kind = "Line"
                PROVE  fragments'[i].announcement # NoAnnouncement
    BY DEF OneMessage
  <2>1. k \in Nat /\ Len(fragments') - 1 = k
    BY <1>7, <1>8
  <2>. HIDE DEF k
  <2>2. i \in 1 .. k
    BY <2>1
  <2>3. fragments'[i] = Frags[i]
    BY <1>8, <2>2 DEF k
  <2>4. CASE i # k
    <3>1. i \in 1 .. k - 1
      BY <2>1, <2>2, <2>4
    <3>. QED  BY <1>1, <2>3, <3>1 DEF OneMessage, k
  <2>5. CASE i = k
    <3>1. Frags # <<>>
      BY <2>1, <2>2, <2>5 DEF k
    <3>2. EndsWithLine(Frags)
      BY <2>3, <2>5, <3>1 DEF EndsWithLine, k
    <3>3. LastAnnounced(Frags) = Frags[k].announcement
      BY <2>3, <2>5, <3>1 DEF LastAnnounced, AnnouncementOf, k
    <3>. QED  BY <1>10, <2>3, <2>5, <3>2, <3>3
  <2>. QED  BY <2>4, <2>5
<1>14. ~Between'
  BY <1>3 DEF Between
<1>. QED  BY <1>3, <1>7, <1>8, <1>9, <1>12, <1>13, <1>14

LEMMA ProgressSomeKeepsIt ==
  ASSUME IInv, ServerProgress, fragments' # Frags
  PROVE  IInv'
<1>1. /\ pc = "progress" /\ UNCHANGED <<cvars, state, served, to_client>>
      /\ max_message_size' = max_message_size
      /\ Flow' = Flow \/ Bytes' # parsed'
      /\ message_poisoned' <=> Poisoned
      /\ SessionTypeOK' /\ FragmentsInv' /\ BufferHoldsMessage'
      /\ (max_message_size \in Limits)'
  BY AtProgress
<1>2. /\ pc' = "react" /\ ~Between' /\ fragments' # <<>>
      /\ Len(fragments') = Len(Frags) + 1 /\ Len(Frags) \in Nat
      /\ OneMessage(fragments') /\ LastEnd(fragments') = Len(parsed')
  BY NewFragment
<1>3. Frags' = fragments' /\ Bytes' = parsed' /\ (Poisoned' <=> Poisoned) /\ Flow' = Flow
  <2>1. Frags' = fragments' /\ Bytes' = parsed' /\ (Poisoned' <=> message_poisoned')
    BY <1>2 DEF Frags, Bytes, Poisoned
  <2>. QED  BY <1>1, <2>1
<1>4. ServerInv'
  BY <1>1, <1>2 DEF ServerInv, ReactInv
<1>5. /\ client' = client /\ command' = command /\ items' = items
      /\ sent' = sent /\ state' = state /\ served' = served /\ to_client' = to_client
      /\ ItemsInv' /\ AgreeOnMessages' /\ DecodedAsSent'
      /\ SentItems' = SentItems /\ Partial' = Partial
      /\ AllServed' = AllServed /\ Current' = Current /\ Available' = Available
      /\ QueueInv' /\ DialogueInv'
  BY <1>1, ClientRests
<1>6. SessionTypeOK /\ ItemsInv /\ AgreeOnMessages /\ FlowOK /\ QueueInv /\ WaitInv /\ PoisonInv
  BY InvariantParts
<1>7. FlowOK'
  BY <1>3, <1>5, <1>6 DEF FlowOK
<1>. DEFINE k == Len(Frags)
<1>8. k \in Nat /\ Len(Frags') = k + 1
  BY <1>2, <1>3
<1>. HIDE DEF k
<1>9. ASSUME NEW i \in Nat, Answered(i) PROVE Answered(i)'
  <2>1. k >= i \/ k = i - 1
    BY <1>9 DEF Answered, k
  <2>2. k + 1 >= i
    BY <1>8, <2>1
  <2>. QED  BY <1>8, <2>2 DEF Answered
<1>10. WaitInv'
  <2>1. \A i \in 1 .. Available : i \in Nat
    OBVIOUS
  <2>2. \A i \in 1 .. Available' : Current'[i].mode = "Sync" => Answered(i)'
    <3>1. ASSUME NEW i \in 1 .. Available, Current[i].mode = "Sync" PROVE Answered(i)'
      <4>1. Answered(i) /\ i \in Nat
        BY <1>6, <2>1, <3>1 DEF WaitInv
      <4>. QED  BY <1>9, <4>1
    <3>. QED  BY <1>5, <3>1
  <2>3. SentItems + 1 \in Nat
    <3>1. SentItems \in Nat
      BY <1>6, ItemsLeft
    <3>. QED  BY <3>1
  <2>4. Answered(SentItems + 1) => Answered(SentItems + 1)'
    <3>. DEFINE j == SentItems + 1
    <3>1. j \in Nat /\ j' = j
      BY <1>5, <2>3
    <3>2. Answered(j) => Len(Frags') >= j
      <4>1. SUFFICES ASSUME Answered(j) PROVE Len(Frags') >= j
        OBVIOUS
      <4>. HIDE DEF j
      <4>2. k >= j \/ k = j - 1
        BY <4>1 DEF Answered, k
      <4>. QED  BY <1>8, <3>1, <4>2
    <3>. QED  BY <1>5, <3>2 DEF Answered
  <2>. QED  BY <1>5, <1>6, <2>2, <2>4 DEF WaitInv
<1>11. StreamPart'
  BY <1>4, <1>5, <1>7 DEF StreamPart
<1>12. Matches'
  BY <1>11, Matching, PTL
<1>13. ~(Poisoned /\ Behaves(Current))
  <2>1. SUFFICES ASSUME Poisoned, Behaves(Current) PROVE FALSE
    OBVIOUS
  <2>2. Stuck
    BY <1>6, <2>1 DEF PoisonInv
  <2>. DEFINE its == command.items
              m == k + 1
              d == its[m].data
  <2>3. /\ AllServed /\ k = SentItems /\ Said(its, k).length > AcceptLimit
    BY <2>2 DEF Stuck, k
  <2>4. /\ its \in Seq(Item) /\ Framed(its) /\ k < Len(its) /\ Len(its) \in Nat
    BY <1>6, <2>3, ItemsLeft, CommandIs
  <2>5. Current' = its /\ Available' = k
    <3>1. Current = its /\ Available = k
      BY <1>6, <2>3, CurrentFacts
    <3>. QED  BY <1>5, <3>1
  <2>6. Said(its, k) # NoAnnouncement
    <3>1. NoAnnouncement.length = 0
      BY DEF NoAnnouncement
    <3>2. AcceptLimit \in Nat
      BY SessionAssumption
    <3>. QED  BY <2>3, <3>1, <3>2
  <2>. HIDE DEF its
  <2>7. m \in 1 .. Len(its) /\ m - 1 = k
    BY <1>8, <2>4
  <2>8. Len(d) = Said(its, k).length
    <3>1. Said(its, m - 1) # NoAnnouncement
      BY <2>6, <2>7
    <3>2. Len(its[m].data) = Said(its, m - 1).length
      BY <2>4, <2>7, <3>1, FramedItem
    <3>. QED  BY <2>7, <3>2
  <2>9. d = <<>>
    <3>1. m <= k \/ (m = k + 1 /\ its[m].data = <<>>)
      BY <1>8, <1>12, <2>5 DEF Matches
    <3>2. ~(m <= k)
      BY <1>8
    <3>. QED  BY <3>1, <3>2
  <2>10. Len(d) = 0
    BY <2>9
  <2>11. AcceptLimit \in Nat
    BY SessionAssumption
  <2>. HIDE DEF d
  <2>. QED  BY <2>3, <2>8, <2>10, <2>11
<1>14. PoisonInv'
  <2>1. ASSUME NEW i \in 1 .. Len(Frags'), i < Len(Frags'), Misbehaves(Current),
               Said(Current, i).mode = "Sync"
        PROVE  Poisoned
    <3>1. i \in 1 .. k
      BY <1>8, <2>1
    <3>. QED  BY <1>1, <1>6, <2>1, <3>1 DEF PoisonInv, k
  <2>. QED  BY <1>2, <1>3, <1>5, <1>13, <2>1 DEF PoisonInv
<1>. QED  BY <1>4, <1>5, <1>7, <1>10, <1>14 DEF IInv

LEMMA ServerProgressKeepsIt ==
  ASSUME IInv, ServerProgress
  PROVE  IInv'
BY ProgressNoneKeepsIt, ProgressSomeKeepsIt

-----------------------------------------------------------------------------
(* The server reacts to a fragment that does not end the message.          *)

\* The server goes on with the fragments that it has.
GoesOn ==
  /\ pc = "react" /\ pc' = "progress" /\ ~IsMessageComplete
  /\ UNCHANGED <<cvars, state, served, to_server>>
  /\ UNCHANGED <<unparsed_buffer, max_message_size, max_message_size_exceeded,
                 message_buffer, parser, parsed, fragments>>
  /\ SentItems' = SentItems /\ SessionTypeOK'

LEMMA Reacted ==
  ASSUME IInv, GoesOn
  PROVE  /\ client' = client /\ command' = command /\ items' = items
         /\ sent' = sent /\ state' = state /\ served' = served
         /\ ServerInv' /\ ItemsInv' /\ AgreeOnMessages' /\ DecodedAsSent' /\ FlowOK' /\ QueueInv'
         /\ Frags # <<>> /\ Frags' = Frags /\ (Poisoned <=> message_poisoned)
         /\ (Poisoned' <=> message_poisoned')
         /\ AllServed' = AllServed /\ Current' = Current /\ Available' = Available
         /\ \A i : Answered(i) => Answered(i)'
         /\ Answered(Len(Frags) + 1)'
<1>1. /\ StreamPart /\ SessionTypeOK /\ ItemsInv /\ AgreeOnMessages /\ DecodedAsSent /\ FlowOK
      /\ QueueInv /\ FragmentsInv /\ BufferHoldsMessage /\ OneMessage(fragments)
      /\ max_message_size \in Limits
  BY InvariantParts
<1>2. /\ pc = "react" /\ pc' = "progress" /\ ~IsMessageComplete
      /\ client' = client /\ command' = command /\ items' = items
      /\ sent' = sent /\ state' = state /\ served' = served /\ to_server' = to_server
      /\ unparsed_buffer' = unparsed_buffer /\ max_message_size' = max_message_size
      /\ max_message_size_exceeded' = max_message_size_exceeded
      /\ message_buffer' = message_buffer /\ parser' = parser
      /\ parsed' = parsed /\ fragments' = fragments
      /\ SentItems' = SentItems /\ SessionTypeOK'
  BY DEF GoesOn, cvars
<1>3. ~Between /\ ~Between'
  BY <1>2 DEF Between, IsMessageComplete
<1>4. /\ Frags = fragments /\ Bytes = parsed /\ Frags' = Frags /\ Bytes' = Bytes
      /\ (Poisoned <=> message_poisoned) /\ (Poisoned' <=> message_poisoned')
  BY <1>2, <1>3 DEF Frags, Bytes, Poisoned
<1>5. ServerInv'
  <2>1. FragmentsInv'
    BY <1>1, <1>2, SameFragments
  <2>2. BufferHoldsMessage' /\ OneMessage(fragments)' /\ (max_message_size \in Limits)'
    BY <1>1, <1>2 DEF BufferHoldsMessage, OneMessage
  <2>3. ReactInv'
    BY <1>2 DEF ReactInv
  <2>. QED  BY <1>2, <2>1, <2>2, <2>3 DEF ServerInv
<1>6. ItemsInv' /\ AgreeOnMessages' /\ DecodedAsSent' /\ QueueInv'
  BY <1>1, <1>2 DEF ItemsInv, AgreeOnMessages, DecodedAsSent, QueueInv
<1>7. FlowOK'
  BY <1>1, <1>2, <1>4 DEF FlowOK, Flow, Partial
<1>8. AllServed' = AllServed /\ Current' = Current /\ Available' = Available
  BY <1>2 DEF AllServed, Current, Available, NextMessage
<1>9. \A i : Answered(i) => Answered(i)'
  BY <1>2, <1>4 DEF Answered
<1>10. Answered(Len(Frags) + 1)'
  <2>. DEFINE k == Len(Frags)
  <2>1. k \in Nat /\ Len(Frags') = k
    BY <1>1, <1>4, ServerTypes
  <2>. HIDE DEF k
  <2>2. k = (k + 1) - 1
    BY <2>1
  <2>3. \A i : k = i - 1 => Answered(i)'
    BY <1>2, <2>1 DEF Answered
  <2>4. \A i : i = k + 1 => Answered(i)'
    BY <2>2, <2>3
  <2>5. k' = k
    BY <1>4 DEF k
  <2>. QED  BY <2>4, <2>5 DEF k
<1>11. Frags # <<>>
  BY <1>1, <1>2, WhatIsRead
<1>. QED  BY <1>2, <1>4, <1>5, <1>6, <1>7, <1>8, <1>9, <1>10, <1>11

\* What the client waits for after the reaction.
LEMMA StillWaits ==
  ASSUME IInv, GoesOn,
         client = "awaits literal" =>
           /\ to_client' \in {<<>>, <<Continue>>, <<Bad(TagOf(command))>>}
           /\ ~AllServed => to_client' = <<>>
           /\ to_client' = <<Continue>> => Answered(SentItems + 1)'
  PROVE  WaitInv'
<1>1. /\ client' = client /\ command' = command /\ items' = items
      /\ sent' = sent /\ served' = served
      /\ AllServed' = AllServed /\ Current' = Current /\ Available' = Available
      /\ \A i : Answered(i) => Answered(i)'
  BY Reacted
<1>2. WaitInv
  BY InvariantParts
<1>3. SentItems' = SentItems
  BY DEF GoesOn
<1>4. Answered(SentItems + 1) => Answered(SentItems + 1)'
  BY <1>1, <1>3
<1>. QED  BY <1>1, <1>2, <1>3, <1>4 DEF WaitInv, TagOf

LEMMA NextFragmentKeepsIt ==
  ASSUME IInv, NextFragment
  PROVE  IInv'
<1>1. /\ pc = "react" /\ pc' = "progress" /\ ~SyncAnnounced /\ ~IsMessageComplete
      /\ UNCHANGED <<fvars, cvars, state, served, to_server, to_client>>
  BY DEF NextFragment
<1>2. /\ StreamPart /\ SessionTypeOK /\ WaitInv /\ PoisonInv
  BY InvariantParts
<1>3. DialogueInv' /\ SentItems' = SentItems
  BY <1>1, ClientRests
<1>4. SessionTypeOK'
  <2>1. TypeOK'
    BY <1>1, <1>2 DEF SessionTypeOK, TypeOK, fvars, vars
  <2>. QED  BY <1>1, <1>2, <2>1 DEF SessionTypeOK, cvars
<1>5. GoesOn
  BY <1>1, <1>3, <1>4 DEF GoesOn, fvars, vars
<1>6. /\ ServerInv' /\ ItemsInv' /\ AgreeOnMessages' /\ DecodedAsSent' /\ FlowOK' /\ QueueInv'
      /\ Frags # <<>> /\ Frags' = Frags /\ (Poisoned <=> message_poisoned)
      /\ (Poisoned' <=> message_poisoned')
      /\ AllServed' = AllServed /\ Current' = Current
      /\ \A i : Answered(i) => Answered(i)'
  BY <1>5, Reacted
<1>7. WaitInv'
  <2>1. Answered(SentItems + 1) => Answered(SentItems + 1)'
    BY <1>3, <1>6
  <2>2. to_client' = to_client
    BY <1>1
  <2>3. client = "awaits literal" =>
           /\ to_client' \in {<<>>, <<Continue>>, <<Bad(TagOf(command))>>}
           /\ ~AllServed => to_client' = <<>>
           /\ to_client' = <<Continue>> => Answered(SentItems + 1)'
    BY <1>2, <2>1, <2>2 DEF WaitInv
  <2>. QED  BY <1>5, <2>3, StillWaits
<1>8. PoisonInv'
  <2>. DEFINE k == Len(Frags)
  <2>1. Poisoned' <=> Poisoned
    BY <1>1, <1>6 DEF fvars, vars
  <2>2. ~Stuck
    BY <1>1 DEF Stuck
  <2>3. Said(Current, k).mode # "Sync"
    <3>1. Frags = fragments
      BY <1>1, <1>2, WhatIsRead
    <3>2. LastAnnounced(Frags) = Said(Current, k)
      BY <1>2, Matching DEF Matches
    <3>. QED  BY <1>1, <3>1, <3>2 DEF SyncAnnounced
  <2>4. ASSUME NEW i \in 1 .. k, Misbehaves(Current), Said(Current, i).mode = "Sync"
        PROVE  Poisoned
    <3>1. i # k
      BY <2>3, <2>4
    <3>2. k \in Nat
      BY <1>2, ServerTypes
    <3>. HIDE DEF k
    <3>3. i < k
      BY <3>1, <3>2
    <3>. QED  BY <1>2, <2>4, <3>3 DEF PoisonInv, k
  <2>. QED  BY <1>2, <1>6, <2>1, <2>2, <2>4 DEF PoisonInv
<1>. QED  BY <1>3, <1>6, <1>7, <1>8 DEF IInv

LEMMA OneReply == \A r : Append(<<>>, r) = <<r>>
<1>. SUFFICES ASSUME NEW r PROVE Append(<<>>, r) = <<r>>
  OBVIOUS
<1>1. <<>> \in Seq({r}) /\ <<r>> \in Seq({r}) /\ Len(<<>>) = 0
  BY EmptySeq
<1>. QED  BY <1>1

\* A client that behaves waits for the reply.
LEMMA AcceptLiteralKeepsIt ==
  ASSUME IInv, AcceptLiteral
  PROVE  IInv'
<1>1. /\ pc = "react" /\ pc' = "progress" /\ SyncAnnounced /\ ~TooLong
      /\ to_client' = Append(to_client, Continue)
      /\ UNCHANGED <<fvars, cvars, state, served, to_server>>
  BY DEF AcceptLiteral, Reply
<1>2. /\ StreamPart /\ SessionTypeOK /\ DialogueInv /\ PoisonInv
  BY InvariantParts
<1>3. Behaves(Current)
  BY <1>1, AtSync, CurrentItems
<1>4. /\ ~IsMessageComplete
      /\ AllServed /\ client = "awaits literal" /\ to_client = <<>> /\ ~Rejected
      /\ Len(Frags) = SentItems /\ ~Poisoned
  BY <1>1, <1>3, AtSync
<1>5. to_client' = <<Continue>>
  BY <1>1, <1>4, OneReply, Zenon
<1>6. /\ client' = client /\ command' = command /\ items' = items /\ sent' = sent
      /\ state' = state /\ served' = served
  BY <1>1 DEF cvars
<1>7. SentItems' = SentItems
  <2>1. ~Rejected'
    <3>1. Head(to_client').kind = "Continue"
      BY <1>5, Replies
    <3>. QED  BY <3>1 DEF Rejected
  <2>. QED  BY <1>4, <1>6, <2>1 DEF SentItems, Sending
<1>8. SessionTypeOK'
  <2>1. TypeOK'
    BY <1>1, <1>2 DEF SessionTypeOK, TypeOK, fvars, vars
  <2>2. to_client' \in Seq([kind : {"Continue", "Bad", "Ok"}, tag : Seq(Byte)])
    <3>1. Continue \in [kind : {"Continue", "Bad", "Ok"}, tag : Seq(Byte)]
      BY EmptySeq DEF Continue, NoTag
    <3>2. to_client \in Seq([kind : {"Continue", "Bad", "Ok"}, tag : Seq(Byte)])
      BY <1>2 DEF SessionTypeOK
    <3>. QED  BY <1>1, <3>1, <3>2, AppendProperties
  <2>. QED  BY <1>1, <1>2, <2>1, <2>2 DEF SessionTypeOK, cvars
<1>9. GoesOn
  BY <1>1, <1>4, <1>7, <1>8 DEF GoesOn, fvars, vars
<1>10. /\ ServerInv' /\ ItemsInv' /\ AgreeOnMessages' /\ DecodedAsSent' /\ FlowOK' /\ QueueInv'
       /\ Frags' = Frags /\ (Poisoned <=> message_poisoned)
       /\ (Poisoned' <=> message_poisoned')
       /\ AllServed' = AllServed /\ Current' = Current
       /\ Answered(Len(Frags) + 1)'
  BY <1>9, Reacted
<1>11. WaitInv'
  <2>1. Answered(SentItems + 1)'
    BY <1>4, <1>7, <1>10
  <2>. QED  BY <1>4, <1>5, <1>9, <2>1, StillWaits
<1>12. DialogueInv'
  <2>1. Working
    BY <1>2, <1>4 DEF DialogueInv, Requested, Granted, Authenticating
  <2>2. Working'
    BY <1>4, <1>6, <1>10, <2>1 DEF Working, Calm
  <2>. QED  BY <2>2 DEF DialogueInv
<1>13. PoisonInv'
  <2>1. ~Poisoned'
    BY <1>1, <1>4, <1>10 DEF fvars, vars
  <2>2. ~Misbehaves(Current')
    BY <1>3, <1>10, CurrentItems
  <2>. QED  BY <2>1, <2>2 DEF PoisonInv
<1>. QED  BY <1>10, <1>11, <1>12, <1>13 DEF IInv

\* A client that behaves waits for ever; one that does not goes on.
LEMMA PoisonLiteralKeepsIt ==
  ASSUME IInv, PoisonLiteral
  PROVE  IInv'
<1>1. /\ pc = "react" /\ pc' = "progress" /\ SyncAnnounced /\ TooLong /\ PoisonMessage
      /\ UNCHANGED <<cvars, state, served, to_server, to_client>>
  BY DEF PoisonLiteral
<1>2. /\ StreamPart /\ SessionTypeOK /\ WaitInv /\ PoisonInv
  BY InvariantParts
<1>3. /\ ~IsMessageComplete
      /\ Behaves(Current) =>
           /\ AllServed /\ client = "awaits literal" /\ to_client = <<>>
           /\ Len(Frags) = SentItems
  BY <1>1, AtSync
<1>4. DialogueInv' /\ SentItems' = SentItems
  BY <1>1, ClientRests
<1>5. SessionTypeOK'
  <2>1. TypeOK'
    BY <1>1, <1>2 DEF SessionTypeOK, TypeOK, PoisonMessage
  <2>. QED  BY <1>1, <1>2, <2>1 DEF SessionTypeOK, cvars
<1>6. GoesOn
  BY <1>1, <1>3, <1>4, <1>5 DEF GoesOn, PoisonMessage
<1>7. /\ client' = client /\ command' = command
      /\ ServerInv' /\ ItemsInv' /\ AgreeOnMessages' /\ DecodedAsSent' /\ FlowOK' /\ QueueInv'
      /\ Frags # <<>> /\ Frags' = Frags
      /\ (Poisoned' <=> message_poisoned')
      /\ AllServed' = AllServed /\ Current' = Current
      /\ \A i : Answered(i) => Answered(i)'
  BY <1>6, Reacted
<1>8. WaitInv'
  <2>1. Answered(SentItems + 1) => Answered(SentItems + 1)'
    BY <1>4, <1>7
  <2>2. to_client' = to_client
    BY <1>1
  <2>3. client = "awaits literal" =>
           /\ to_client' \in {<<>>, <<Continue>>, <<Bad(TagOf(command))>>}
           /\ ~AllServed => to_client' = <<>>
           /\ to_client' = <<Continue>> => Answered(SentItems + 1)'
    BY <1>2, <2>1, <2>2 DEF WaitInv
  <2>. QED  BY <1>6, <2>3, StillWaits
<1>9. PoisonInv'
  <2>1. Poisoned'
    BY <1>1, <1>7 DEF PoisonMessage
  <2>2. Behaves(Current) => Stuck'
    <3>1. SUFFICES ASSUME Behaves(Current) PROVE Stuck'
      OBVIOUS
    <3>2. /\ AllServed /\ client = "awaits literal" /\ to_client = <<>>
          /\ Len(Frags) = SentItems
      BY <1>3, <3>1
    <3>3. Frags = fragments /\ Current = command.items
      BY <1>1, <1>2, <3>2, WhatIsRead DEF Current
    <3>4. LastAnnounced(Frags) = Said(Current, Len(Frags))
      BY <1>2, Matching DEF Matches
    <3>5. Said(command.items, SentItems).length > AcceptLimit
      BY <1>1, <3>2, <3>3, <3>4 DEF TooLong
    <3>6. Said(command.items', SentItems').length > AcceptLimit
      BY <1>4, <1>7, <3>5
    <3>. QED  BY <1>1, <1>4, <1>7, <3>2, <3>6 DEF Stuck
  <2>. QED  BY <1>7, <2>1, <2>2 DEF PoisonInv
<1>. QED  BY <1>4, <1>7, <1>8, <1>9 DEF IInv

LEMMA TagType ==
  ASSUME NEW b \in Seq(Byte)
  PROVE  ParseTag(b) \in Seq(Byte)
<1>. DEFINE Delimits(i) == b[i] = SP /\ \A j \in 1..(i-1) : b[j] \notin {SP, LF}
            i == CHOOSE k \in DOMAIN b : Delimits(k)
            Tagged(t) == IF IsTag(t) THEN t ELSE NoTag
            t == SubSeq(b, 1, i - 1)
<1>1. ParseTag(b) = IF \E k \in DOMAIN b : Delimits(k) THEN Tagged(t) ELSE NoTag
  BY DEF ParseTag
<1>2. NoTag \in Seq(Byte)
  BY EmptySeq DEF NoTag
<1>3. ASSUME \E k \in DOMAIN b : Delimits(k) PROVE t \in Seq(Byte)
  <2>1. i \in DOMAIN b
    BY <1>3
  <2>2. DOMAIN b = 1 .. Len(b) /\ Len(b) \in Nat
    BY LenProperties
  <2>. HIDE DEF i
  <2>3. i - 1 \in 0 .. Len(b)
    BY <2>1, <2>2
  <2>. QED  BY <2>3, PrefixProperties
<1>. HIDE DEF t
<1>. QED  BY <1>1, <1>2, <1>3

\* The rest of the message is never sent: both forget what they have of it.
LEMMA RejectLiteralKeepsIt ==
  ASSUME IInv, RejectLiteral
  PROVE  IInv'
<1>1. /\ pc = "react" /\ pc' = "progress" /\ SyncAnnounced /\ TooLong /\ DecodeTag # NoTag
      /\ to_client' = Append(to_client, Bad(DecodeTag)) /\ SkipMessage
      /\ UNCHANGED <<cvars, state, served, to_server>>
  BY DEF RejectLiteral, Reply
<1>2. /\ StreamPart /\ SessionTypeOK /\ TypeOK /\ ItemsInv /\ AgreeOnMessages /\ DecodedAsSent
      /\ QueueInv /\ DialogueInv /\ WaitInv /\ FragmentsInv /\ BufferHoldsMessage
      /\ max_message_size \in Limits
  BY InvariantParts
<1>3. Behaves(Current)
  BY <1>1, AtSync, CurrentItems
<1>4. /\ AllServed /\ client = "awaits literal" /\ to_client = <<>>
      /\ unparsed_buffer \o to_server = <<>>
  BY <1>1, <1>3, AtSync
<1>5. /\ client' = client /\ command' = command /\ items' = items /\ sent' = sent
      /\ state' = state /\ served' = served /\ started' = started /\ to_server' = to_server
  BY <1>1 DEF cvars
<1>6. /\ unparsed_buffer' = unparsed_buffer /\ max_message_size' = max_message_size
      /\ message_poisoned' = FALSE /\ parsed' = <<>> /\ fragments' = <<>>
  BY <1>1 DEF SkipMessage
<1>7. to_client' = <<Bad(TagOf(command))>>
  <2>1. DecodeTag = TagOf(command)
    BY <1>1, <1>3, TagAtSync
  <2>. QED  BY <1>1, <1>4, <2>1, OneReply, Zenon
<1>8. SentItems' = 0
  <2>1. to_client' # <<>> /\ Head(to_client').kind = "Bad"
    BY <1>7, Replies
  <2>. QED  BY <1>4, <1>5, <2>1 DEF SentItems, Sending, Rejected
<1>9. Frags' = <<>> /\ Bytes' = <<>> /\ ~Poisoned' /\ Len(Frags') = 0
  BY <1>6 DEF Frags, Bytes, Poisoned
<1>10. [Next]_vars
  BY <1>1 DEF Next
<1>11. SessionTypeOK'
  <2>1. TypeOK'
    BY <1>2, <1>10, NextTypes
  <2>2. to_client' \in Seq([kind : {"Continue", "Bad", "Ok"}, tag : Seq(Byte)])
    <3>1. DecodeTag \in Seq(Byte)
      BY <1>2, TagType DEF TypeOK, DecodeTag
    <3>2. Bad(DecodeTag) \in [kind : {"Continue", "Bad", "Ok"}, tag : Seq(Byte)]
      BY <3>1 DEF Bad
    <3>3. to_client \in Seq([kind : {"Continue", "Bad", "Ok"}, tag : Seq(Byte)])
      BY <1>2 DEF SessionTypeOK
    <3>. QED  BY <1>1, <3>2, <3>3, AppendProperties
  <2>. QED  BY <1>1, <1>2, <1>5, <2>1, <2>2 DEF SessionTypeOK
<1>12. ServerInv'
  <2>1. FragmentsInv' /\ BufferHoldsMessage'
    BY <1>2, <1>10, NextKeepsFragmentsInv, NextKeepsBuffer
  <2>2. OneMessage(fragments)' /\ ReactInv' /\ (max_message_size \in Limits)'
    <3>1. \A i \in 1 .. 0 - 1 : FALSE
      OBVIOUS
    <3>2. Len(fragments') - 1 = 0 - 1
      BY <1>6
    <3>. QED  BY <1>1, <1>2, <1>6, <3>1, <3>2 DEF OneMessage, ReactInv
  <2>. QED  BY <1>11, <2>1, <2>2 DEF ServerInv
<1>13. ItemsInv' /\ AgreeOnMessages' /\ DecodedAsSent' /\ QueueInv'
  BY <1>2, <1>5, <1>6 DEF ItemsInv, AgreeOnMessages, DecodedAsSent, QueueInv
<1>14. AllServed'
  BY <1>4, <1>5 DEF AllServed
<1>15. FlowOK'
  <2>1. Partial' = <<>>
    <3>1. command.items \in Seq(Item)
      BY <1>2, CommandIs
    <3>. QED  BY <1>5, <1>8, <3>1, DumpEquations DEF Partial
  <2>2. Flow' = <<>>
    <3>1. Flow' = Wire(<<>>, unparsed_buffer, to_server)
      BY <1>5, <1>6, <1>9 DEF Flow
    <3>2. <<>> \o <<>> = <<>>
      BY EmptySeq, ConcatEmptySeq
    <3>. QED  BY <1>4, <3>1, <3>2 DEF Wire
  <2>3. Balanced(AllBytes(served), <<>>, AllBytes(sent), <<>>)
    BY <1>2, <1>4, OnItsWay
  <2>. QED  BY <1>5, <2>1, <2>2, <2>3 DEF FlowOK
<1>16. DialogueInv'
  <2>1. Working
    BY <1>2, <1>4 DEF DialogueInv, Requested, Granted, Authenticating
  <2>2. Working'
    BY <1>4, <1>5, <1>14, <2>1 DEF Working, Calm
  <2>. QED  BY <2>2 DEF DialogueInv
<1>17. WaitInv'
  <2>1. Available' = 0
    BY <1>8, <1>14 DEF Available
  <2>2. \A i \in 1 .. Available' : FALSE
    BY <2>1
  <2>3. <<Bad(TagOf(command))>> # <<Continue>>
    BY Replies
  <2>4. to_client' # <<Continue>> /\ TagOf(command') = TagOf(command)
    BY <1>5, <1>7, <2>3
  <2>. QED  BY <1>2, <1>4, <1>5, <1>7, <1>14, <2>2, <2>4 DEF WaitInv
<1>18. PoisonInv'
  BY <1>9 DEF PoisonInv
<1>. QED  BY <1>12, <1>13, <1>15, <1>16, <1>17, <1>18 DEF IInv

-----------------------------------------------------------------------------
(* The server serves a message.                                            *)

\* The message served is the next one, and nothing is on its way to a client
\* whose messages are not all served.
LEMMA AtServe ==
  ASSUME IInv, Serve
  PROVE  /\ pc = "react" /\ pc' = "progress" /\ IsMessageComplete /\ UNCHANGED fvars
         /\ client' = client /\ command' = command /\ items' = items /\ started' = started
         /\ sent' = sent /\ to_server' = to_server
         /\ served' = Append(served, [codec |-> state.codec, bytes |-> parsed, result |-> Result])
         /\ ~AllServed /\ parsed = NextMessage.bytes /\ NextMessage.codec = state.codec
         /\ Len(served) \in Nat /\ Len(sent) \in Nat /\ Len(served) < Len(sent)
         /\ served' \in Seq([codec : Codecs, bytes : Seq(Byte), result : DecodeErrors \cup {"Ok"}])
         /\ Len(served') = Len(served) + 1
         /\ \A i \in 1 .. Len(served) : served'[i] = served[i]
         /\ served'[Len(served) + 1] =
              [codec |-> state.codec, bytes |-> parsed, result |-> Result]
         /\ to_client = <<>>
<1>. DEFINE S == [codec : Codecs, bytes : Seq(Byte), result : DecodeErrors \cup {"Ok"}]
            m == [codec |-> state.codec, bytes |-> parsed, result |-> Result]
<1>1. /\ pc = "react" /\ pc' = "progress" /\ IsMessageComplete /\ UNCHANGED fvars
      /\ client' = client /\ command' = command /\ items' = items /\ started' = started
      /\ sent' = sent /\ to_server' = to_server
      /\ served' = Append(served, m)
  BY DEF Serve, cvars
<1>2. SessionTypeOK /\ AgreeOnMessages /\ QueueInv /\ DialogueInv /\ WaitInv
  BY InvariantParts
<1>3. ~AllServed /\ parsed = NextMessage.bytes
  BY <1>1, AtEnd
<1>4. /\ NextMessage.codec = state.codec /\ parsed \in Seq(Byte)
      /\ Len(served) < Len(sent) /\ Len(served) \in Nat /\ Len(sent) \in Nat
  BY <1>1, <1>2, <1>3, ResultIs, NextMessageFacts, MessageTypes
<1>5. m \in S
  <2>1. state.codec \in Codecs
    BY <1>2 DEF SessionTypeOK
  <2>2. Result \in DecodeErrors \cup {"Ok"}
    BY DEF Result, DecodeMessage, DecodeErrors
  <2>. QED  BY <1>4, <2>1, <2>2
<1>6. served \in Seq(S)
  BY <1>2 DEF SessionTypeOK
<1>. HIDE DEF S, m
<1>7. /\ served' \in Seq(S) /\ Len(served') = Len(served) + 1
      /\ \A i \in 1 .. Len(served) : served'[i] = served[i]
      /\ served'[Len(served) + 1] = m
  BY <1>1, <1>5, <1>6, AppendProperties
<1>8. to_client = <<>>
  BY <1>2, <1>3 DEF DialogueInv, Working, Requested, Granted, Authenticating, WaitInv
<1>. QED  BY <1>1, <1>3, <1>4, <1>7, <1>8 DEF S, m

\* What does not depend on the reply.
LEMMA ServedKeepsFlow ==
  ASSUME IInv, Serve
  PROVE  /\ AgreeOnMessages' /\ DecodedAsSent' /\ ItemsInv' /\ PoisonInv'
         /\ SentItems' = SentItems => FlowOK'
         /\ SessionTypeOK' => ServerInv'
<1>1. /\ pc = "react" /\ pc' = "progress" /\ IsMessageComplete /\ UNCHANGED fvars
      /\ client' = client /\ command' = command /\ items' = items
      /\ sent' = sent /\ to_server' = to_server
      /\ served' = Append(served, [codec |-> state.codec, bytes |-> parsed, result |-> Result])
      /\ ~AllServed /\ parsed = NextMessage.bytes /\ NextMessage.codec = state.codec
      /\ Len(served) \in Nat /\ Len(sent) \in Nat /\ Len(served) < Len(sent)
      /\ served' \in Seq([codec : Codecs, bytes : Seq(Byte), result : DecodeErrors \cup {"Ok"}])
      /\ Len(served') = Len(served) + 1
      /\ \A i \in 1 .. Len(served) : served'[i] = served[i]
      /\ served'[Len(served) + 1] =
           [codec |-> state.codec, bytes |-> parsed, result |-> Result]
  BY AtServe
<1>2. /\ StreamPart /\ SessionTypeOK /\ AgreeOnMessages /\ DecodedAsSent /\ ItemsInv /\ FlowOK
      /\ FragmentsInv /\ BufferHoldsMessage /\ OneMessage(fragments)
      /\ max_message_size \in Limits
  BY InvariantParts
<1>3. /\ unparsed_buffer' = unparsed_buffer /\ max_message_size' = max_message_size
      /\ max_message_size_exceeded' = max_message_size_exceeded
      /\ message_poisoned' = message_poisoned /\ message_buffer' = message_buffer
      /\ parser' = parser /\ parsed' = parsed /\ fragments' = fragments
  BY <1>1 DEF fvars, vars
<1>4. Between'
  BY <1>1, <1>3 DEF Between, IsMessageComplete
<1>5. Frags' = <<>> /\ Bytes' = <<>> /\ ~Poisoned' /\ Len(Frags') = 0
  BY <1>4 DEF Frags, Bytes, Poisoned
<1>6. PoisonInv'
  BY <1>5 DEF PoisonInv
<1>7. ItemsInv'
  BY <1>1, <1>2 DEF ItemsInv
<1>. DEFINE n == Len(served)
<1>8. /\ DOMAIN served = 1 .. n /\ DOMAIN served' = 1 .. n + 1
      /\ \A i \in 1 .. n + 1 : i \in 1 .. n \/ i = n + 1
  <2>1. DOMAIN served = 1 .. n
    BY <1>2, LenProperties DEF SessionTypeOK
  <2>2. DOMAIN served' = 1 .. n + 1
    BY <1>1, LenProperties
  <2>3. n \in Nat
    BY <1>1
  <2>. HIDE DEF n
  <2>4. \A i \in 1 .. n + 1 : i \in 1 .. n \/ i = n + 1
    BY <2>3
  <2>. QED  BY <2>1, <2>2, <2>4
<1>9. AgreeOnMessages'
  <2>1. n + 1 <= Len(sent)
    BY <1>1
  <2>2. served'[n + 1].bytes = sent[n + 1].bytes /\ served'[n + 1].codec = sent[n + 1].codec
    BY <1>1 DEF NextMessage
  <2>. HIDE DEF n
  <2>3. Len(served') = n + 1 /\ sent' = sent /\ \A i \in 1 .. n : served'[i] = served[i]
    BY <1>1 DEF n
  <2>4. \A i \in DOMAIN served : served[i].bytes = sent[i].bytes /\ served[i].codec = sent[i].codec
    BY <1>2 DEF AgreeOnMessages
  <2>. QED  BY <1>8, <2>1, <2>2, <2>3, <2>4 DEF AgreeOnMessages
<1>. DEFINE Fate(bytes) ==
              CASE Admitted(max_message_size, Len(bytes)) < Len(bytes) -> "MessageTooLong"
                [] OTHER -> IF KindsOf(bytes) = {"Malformed"} THEN "MessagePoisoned" ELSE "Ok"
<1>10. DecodedAsSent'
  <2>1. Result = Fate(parsed)
    BY <1>1, ResultIs
  <2>2. DecodedAsSent <=> \A i \in DOMAIN served : served[i].result = Fate(served[i].bytes)
    BY DEF DecodedAsSent
  <2>3. DecodedAsSent' <=> \A i \in DOMAIN served' : served'[i].result = Fate(served'[i].bytes)
    BY <1>3 DEF DecodedAsSent
  <2>. HIDE DEF Fate
  <2>4. served'[n + 1].result = Fate(served'[n + 1].bytes)
    BY <1>1, <2>1
  <2>5. \A i \in 1 .. n : served'[i] = served[i]
    BY <1>1
  <2>. HIDE DEF n
  <2>. QED  BY <1>2, <1>8, <2>2, <2>3, <2>4, <2>5
<1>11. ASSUME SentItems' = SentItems PROVE FlowOK'
  <2>. DEFINE S == [codec : Codecs, bytes : Seq(Byte), result : DecodeErrors \cup {"Ok"}]
              m == [codec |-> state.codec, bytes |-> parsed, result |-> Result]
  <2>1. served \in Seq(S) /\ \A x \in S : x.bytes \in Seq(Byte)
    BY <1>2 DEF SessionTypeOK
  <2>2. m \in S /\ m.bytes = parsed
    <3>1. n + 1 \in 1 .. Len(served') /\ served'[n + 1] = m
      BY <1>1
    <3>2. served' \in Seq(S)
      BY <1>1
    <3>. HIDE DEF S, m
    <3>3. m \in S
      BY <3>1, <3>2, ElementOfSeq
    <3>. QED  BY <3>3 DEF m
  <2>3. served' = Append(served, m)
    BY <1>1
  <2>. HIDE DEF S, m
  <2>4. AllBytes(served') = AllBytes(served) \o parsed
    BY <2>1, <2>2, <2>3, AllBytesAppend
  <2>5. Joined(AllBytes(served'), AllBytes(served), parsed)
    BY <2>4 DEF Joined
  <2>6. Bytes = parsed
    BY <1>1, AtEnd
  <2>7. Balanced(AllBytes(served), Wire(parsed, unparsed_buffer, to_server), AllBytes(sent), Partial)
    BY <1>2, <2>6 DEF FlowOK, Flow
  <2>8. /\ AllBytes(served) \in Seq(Byte) /\ parsed \in Seq(Byte)
        /\ unparsed_buffer \in Seq(Byte) /\ to_server \in Seq(Byte)
    BY <1>2, MessageTypes, ServerTypes
  <2>9. Balanced(AllBytes(served'), Wire(<<>>, unparsed_buffer, to_server), AllBytes(sent), Partial)
    BY <2>5, <2>7, <2>8, MessageServed
  <2>10. /\ Flow' = Wire(<<>>, unparsed_buffer, to_server) /\ Partial' = Partial
         /\ AllBytes(served)' = AllBytes(served') /\ AllBytes(sent)' = AllBytes(sent)
    BY <1>1, <1>3, <1>5, <1>11 DEF Flow, Partial
  <2>. QED  BY <2>9, <2>10 DEF FlowOK
<1>12. ASSUME SessionTypeOK' PROVE ServerInv'
  <2>1. FragmentsInv'
    BY <1>2, <1>3, SameFragments
  <2>2. BufferHoldsMessage' /\ OneMessage(fragments)' /\ (max_message_size \in Limits)'
    BY <1>2, <1>3 DEF BufferHoldsMessage, OneMessage
  <2>3. ReactInv'
    BY <1>1 DEF ReactInv
  <2>. QED  BY <1>12, <2>1, <2>2, <2>3 DEF ServerInv
<1>. QED  BY <1>6, <1>7, <1>9, <1>10, <1>11, <1>12

LEMMA AfterNext ==
  ASSUME NEW n \in Nat, NEW m \in Nat, n < m
  PROVE  /\ \A j \in (n + 1) + 1 .. m : j \in n + 2 .. m
         /\ \A j \in (n + 1) + 2 .. m : j \in n + 2 .. m
         /\ \A j \in n + 2 .. m : j \in n + 1 .. m /\ j # n + 1
         /\ n + 1 + 1 = n + 2
         /\ n + 1 = m => \A j \in n + 2 .. m : FALSE
         /\ n + 1 # m => n + 2 \in n + 2 .. m
OBVIOUS

LEMMA ServedKeepsIt ==
  ASSUME IInv, Serve, DialogueInv',
         state' \in [codec : Codecs, tag : Seq(Byte)],
         to_client' \in Seq([kind : {"Continue", "Bad", "Ok"}, tag : Seq(Byte)]),
         to_client' = <<>> \/ client \notin {"sending", "awaits literal"},
         state'.codec = "Command" \/ AllServed'
  PROVE  IInv'
<1>1. /\ pc' = "progress" /\ UNCHANGED fvars
      /\ client' = client /\ command' = command /\ items' = items /\ started' = started
      /\ sent' = sent /\ to_server' = to_server
      /\ ~AllServed
      /\ Len(served) \in Nat /\ Len(sent) \in Nat /\ Len(served) < Len(sent)
      /\ served' \in Seq([codec : Codecs, bytes : Seq(Byte), result : DecodeErrors \cup {"Ok"}])
      /\ Len(served') = Len(served) + 1
      /\ to_client = <<>>
  BY AtServe
<1>2. SessionTypeOK /\ QueueInv /\ WaitInv
  BY InvariantParts
<1>3. SessionTypeOK'
  <2>1. TypeOK'
    BY <1>1, <1>2 DEF SessionTypeOK, TypeOK, fvars, vars
  <2>. QED  BY <1>1, <1>2, <2>1 DEF SessionTypeOK
<1>4. SentItems' = SentItems
  BY <1>1 DEF SentItems, Sending, Rejected
<1>5. /\ ServerInv' /\ AgreeOnMessages' /\ DecodedAsSent' /\ ItemsInv' /\ PoisonInv' /\ FlowOK'
  BY <1>3, <1>4, ServedKeepsFlow
<1>. DEFINE n == Len(served)
<1>6. n \in Nat /\ n < Len(sent) /\ Len(sent) \in Nat /\ Len(served') = n + 1
  BY <1>1
<1>7. AllServed' <=> n + 1 = Len(sent)
  BY <1>1 DEF AllServed
<1>9. /\ \A j \in (n + 1) + 1 .. Len(sent) : j \in n + 2 .. Len(sent)
      /\ \A j \in (n + 1) + 2 .. Len(sent) : j \in n + 2 .. Len(sent)
      /\ \A j \in n + 2 .. Len(sent) : j \in n + 1 .. Len(sent) /\ j # n + 1
      /\ n + 1 + 1 = n + 2
      /\ n + 1 = Len(sent) => \A j \in n + 2 .. Len(sent) : FALSE
      /\ n + 1 # Len(sent) => n + 2 \in n + 2 .. Len(sent)
  BY <1>6, AfterNext
<1>8. ~AllServed' => n + 2 \in n + 2 .. Len(sent)
  BY <1>7, <1>9, Zenon
<1>10. QueueInv'
  <2>1. \A j \in n + 2 .. Len(sent) : sent[j].codec = "Command"
    <3>1. \A j \in n + 1 .. Len(sent) :
            sent[j].codec = IF j = n + 1 THEN state.codec ELSE "Command"
      BY <1>2 DEF QueueInv
    <3>. HIDE DEF n
    <3>. QED  BY <1>9, <3>1
  <2>2. \A j \in (n + 1) + 1 .. Len(sent) :
          sent[j].codec = IF j = (n + 1) + 1 THEN state'.codec ELSE "Command"
    <3>1. CASE state'.codec = "Command"
      BY <1>9, <2>1, <3>1
    <3>2. CASE AllServed'
      BY <1>7, <1>9, <3>2
    <3>. QED  BY <3>1, <3>2
  <2>. HIDE DEF n
  <2>3. \A j \in Len(served') + 1 .. Len(sent') :
          sent'[j].codec = IF j = Len(served') + 1 THEN state'.codec ELSE "Command"
    BY <1>1, <1>6, <2>2, Zenon
  <2>4. \A j \in 1 .. Len(sent') : Encoded(sent'[j])
    BY <1>1, <1>2 DEF QueueInv
  <2>5. \A m : Encoded(m)' <=> Encoded(m)
    BY DEF Encoded
  <2>6. \A j \in 1 .. Len(sent') : Encoded(sent[j])'
    BY <1>1, <2>4 DEF Encoded
  <2>. QED  BY <2>3, <2>6 DEF QueueInv
<1>11. WaitInv'
  <2>. DEFINE Silent(m) == NoSync(Encoding(m), Len(Encoding(m)))
  <2>1. \A j \in n + 2 .. Len(sent) : Silent(sent[j])
    BY <1>2 DEF WaitInv
  <2>2. NoSync(command.items, SentItems)
    BY <1>1, <1>2 DEF WaitInv
  <2>3. NoSync(Current', Available')
    <3>1. CASE AllServed'
      <4>1. Current' = command.items /\ Available' = SentItems
        BY <1>1, <1>4, <3>1 DEF Current, Available
      <4>. QED  BY <2>2, <4>1
    <3>2. CASE ~AllServed'
      <4>1. Silent(sent[n + 2])
        BY <1>8, <2>1, <3>2
      <4>2. NextMessage' = sent[n + 2]
        <5>1. NextMessage' = sent[Len(served') + 1]
          BY <1>1 DEF NextMessage
        <5>. HIDE DEF n
        <5>. QED  BY <1>6, <1>9, <5>1, Zenon
      <4>3. Current' = Encoding(sent[n + 2])
        <5>1. Current' = Encoding(NextMessage')
          BY <3>2 DEF Current, Encoding, CommandOf
        <5>. QED  BY <4>2, <5>1
      <4>4. Available' = Len(Current')
        BY <3>2 DEF Available
      <4>. QED  BY <4>1, <4>3, <4>4
    <3>. QED  BY <3>1, <3>2
  <2>4. \A i \in 1 .. Available' : Current'[i].mode # "Sync"
    BY <2>3 DEF NoSync
  <2>5. \A j \in Len(served') + 2 .. Len(sent') : Silent(sent'[j])
    <3>. HIDE DEF n, Silent
    <3>. QED  BY <1>1, <1>6, <1>9, <2>1, Zenon
  <2>6. client = "awaits literal" => to_client' = <<>> /\ Head(items).mode = "Sync"
    BY <1>2 DEF WaitInv
  <2>7. ~(client = "sending" /\ Head(items).mode = "Sync")
    BY <1>1, <1>2 DEF WaitInv
  <2>8. \A j \in Len(served') + 2 .. Len(sent') :
          NoSync(Encoding(sent[j]), Len(Encoding(sent[j])))'
    BY <2>5 DEF NoSync, Encoding, CommandOf
  <2>9. <<>> # <<Continue>>
    BY Replies
  <2>. QED  BY <1>1, <1>4, <2>2, <2>4, <2>6, <2>7, <2>8, <2>9 DEF WaitInv
<1>. QED  BY <1>5, <1>10, <1>11 DEF IInv

\* The messages that ask for something are as far away as before.
LEMMA ServedKeepsCalm ==
  ASSUME IInv, Serve
  PROVE  /\ Calm(Len(sent)) => Calm(Len(sent))'
         /\ Calm(Len(sent) - 1) => Calm(Len(sent) - 1)'
         /\ Asks(NextMessage) => ~Calm(Len(sent))
         /\ Asks(NextMessage) /\ Calm(Len(sent) - 1) => AllServed' /\ NextMessage = sent[Len(sent)]
         /\ Len(sent) <= Len(served) + 1 => AllServed'
         /\ Len(sent) <= Len(served) + 1 => Len(sent') <= Len(served') + 1
<1>1. /\ Len(served) \in Nat /\ Len(sent) \in Nat /\ Len(served) < Len(sent)
      /\ Len(served') = Len(served) + 1 /\ sent' = sent
  BY AtServe
<1>. DEFINE n == Len(served)
            m == Len(sent)
<1>2. /\ n \in Nat /\ m \in Nat /\ n < m /\ Len(served') = n + 1
  BY <1>1
<1>3. AllServed' <=> n + 1 = m
  BY <1>1 DEF AllServed
<1>4. Len(sent') = m
  BY <1>1
<1>. HIDE DEF n, m
<1>5. /\ n + 1 \in n + 1 .. m
      /\ n + 1 = m \/ n + 1 \in n + 1 .. m - 1
      /\ \A k : \A j \in (n + 1) + 1 .. k : j \in n + 1 .. k
      /\ m <= n + 1 => n + 1 = m
      /\ m <= n + 1 => m <= n + 1 + 1
  <2>1. /\ n + 1 \in n + 1 .. m
        /\ n + 1 = m \/ n + 1 \in n + 1 .. m - 1
        /\ m <= n + 1 => n + 1 = m
        /\ m <= n + 1 => m <= n + 1 + 1
    BY <1>2
  <2>2. \A k : \A j \in (n + 1) + 1 .. k : j \in n + 1 .. k
    BY <1>2
  <2>. QED  BY <2>1, <2>2
<1>6. \A k : Calm(k) <=> \A j \in n + 1 .. k : ~Asks(sent[j])
  BY DEF Calm, n
<1>7. ASSUME NEW k, Calm(k) PROVE \A j \in Len(served') + 1 .. k : ~Asks(sent'[j])
  BY <1>1, <1>2, <1>5, <1>6, <1>7, Zenon
<1>8. NextMessage = sent[n + 1]
  BY DEF NextMessage, n
<1>9. Calm(m) => Calm(Len(sent))'
  BY <1>4, <1>7 DEF Calm, Asks
<1>10. Calm(m - 1) => Calm(Len(sent) - 1)'
  BY <1>4, <1>7 DEF Calm, Asks
<1>11. Asks(NextMessage) => ~Calm(m)
  BY <1>5, <1>6, <1>8, Zenon
<1>12. Asks(NextMessage) /\ Calm(m - 1) => AllServed' /\ NextMessage = sent[m]
  BY <1>3, <1>5, <1>6, <1>8, Zenon
<1>13. /\ m <= n + 1 => AllServed'
       /\ m <= n + 1 => Len(sent') <= Len(served') + 1
  BY <1>2, <1>3, <1>4, <1>5, Zenon
<1>. QED  BY <1>9, <1>10, <1>11, <1>12, <1>13 DEF m, n

\* The server goes on to the next command.
LEMMA ServeStaysKeepsIt ==
  ASSUME IInv, ServeRefused \/ ServeCommand
  PROVE  IInv'
<1>1. Serve /\ state' = state /\ to_client' = to_client
  BY DEF ServeRefused, ServeCommand, Decoded
<1>2. state.codec # "Idle"
  <2>1. pc = "react" /\ IsMessageComplete
    BY <1>1, AtServe
  <2>2. state.codec = "Idle" => Result = "Ok"
    BY <2>1, ResultIs
  <2>. QED  BY <2>2 DEF ServeRefused, ServeCommand, Decoded
<1>3. /\ client' = client /\ command' = command /\ sent' = sent
      /\ ~AllServed /\ to_client = <<>>
  BY <1>1, AtServe
<1>4. SessionTypeOK /\ DialogueInv
  BY InvariantParts
<1>5. /\ Calm(Len(sent)) => Calm(Len(sent))'
      /\ Calm(Len(sent) - 1) => Calm(Len(sent) - 1)'
      /\ Len(sent) <= Len(served) + 1 => AllServed'
      /\ Len(sent) <= Len(served) + 1 => Len(sent') <= Len(served') + 1
  BY <1>1, ServedKeepsCalm
<1>6. state.codec = "Command" \/ AllServed'
  BY <1>2, <1>3, <1>4, <1>5 DEF SessionTypeOK, Codecs, DialogueInv, Working, Requested, Granted,
                             Authenticating
<1>7. DialogueInv'
  <2>1. CASE Working
    <3>1. state.codec = "Command"
      BY <1>2, <1>4, <2>1 DEF SessionTypeOK, Codecs, Working
    <3>2. Working'
      BY <1>1, <1>3, <1>5, <2>1, <3>1 DEF Working
    <3>. QED  BY <3>2 DEF DialogueInv
  <2>2. CASE Requested
    <3>1. state.codec = "Command"
      BY <1>2, <1>4, <2>2 DEF SessionTypeOK, Codecs, Requested
    <3>2. Requested'
      BY <1>1, <1>3, <1>5, <2>2, <3>1 DEF Requested, Requests
    <3>. QED  BY <3>2 DEF DialogueInv
  <2>3. CASE Authenticating
    <3>1. Authenticating'
      BY <1>1, <1>3, <1>5, <2>3 DEF Authenticating
    <3>. QED  BY <3>1 DEF DialogueInv
  <2>. QED  BY <1>3, <1>4, <2>1, <2>2, <2>3 DEF DialogueInv, Granted
<1>8. /\ state' \in [codec : Codecs, tag : Seq(Byte)] /\ to_client' = <<>>
      /\ to_client' \in Seq([kind : {"Continue", "Bad", "Ok"}, tag : Seq(Byte)])
  BY <1>1, <1>3, <1>4 DEF SessionTypeOK
<1>. QED  BY <1>1, <1>6, <1>7, <1>8, ServedKeepsIt

\* The client that asked waits for it.
LEMMA ServeRequestKeepsIt ==
  ASSUME IInv, ServeRequest
  PROVE  IInv'
<1>1. /\ Serve /\ state.codec = "Command" /\ Result = "Ok"
      /\ to_client' = Append(to_client, Continue)
  BY DEF ServeRequest, Decoded, Reply
<1>2. PICK codec \in KindsOf(message_buffer) \cap {"Authenticate", "Idle"} :
        state' = [codec |-> codec, tag |-> DecodeTag]
  BY DEF ServeRequest, Enter
<1>3. /\ pc = "react" /\ IsMessageComplete /\ client' = client /\ command' = command /\ sent' = sent
      /\ ~AllServed /\ to_client = <<>> /\ parsed = NextMessage.bytes
      /\ NextMessage.codec = "Command"
  BY <1>1, AtServe
<1>4. SessionTypeOK /\ TypeOK /\ DialogueInv
  BY InvariantParts
<1>5. to_client' = <<Continue>>
  BY <1>1, <1>3, OneReply, Zenon
<1>6. message_buffer = parsed
  <2>1. ~(Admitted(max_message_size, Len(parsed)) < Len(parsed))
    BY <1>1, <1>3, ResultIs
  <2>. QED  BY <1>3, <2>1, ResultIs
<1>7. Asks(NextMessage)
  BY <1>2, <1>3, <1>6 DEF Asks
<1>8. Requested
  BY <1>1, <1>1, <1>3, <1>4, <1>7, ServedKeepsCalm DEF DialogueInv, Working, Granted, Authenticating
<1>9. AllServed' /\ NextMessage = Message("Command", Dump(command.items))
  BY <1>1, <1>3, <1>7, <1>8, ServedKeepsCalm DEF Requested
<1>10. parsed = Dump(command.items)
  BY <1>3, <1>9 DEF Message
<1>11. codec = command.kind
  <2>1. command \in Commands
    BY <1>4, CommandIs
  <2>2. KindsOf(parsed) = {command.kind}
    BY <1>10, <2>1, CommandFacts
  <2>. QED  BY <1>2, <1>6, <2>2
<1>12. DecodeTag = TagOf(command)
  BY <1>6, <1>10 DEF DecodeTag, TagOf
<1>13. DialogueInv'
  <2>1. Granted'
    BY <1>2, <1>3, <1>5, <1>8, <1>9, <1>11, <1>12 DEF Granted, Requested, Requests, TagOf
  <2>. QED  BY <2>1 DEF DialogueInv
<1>14. state' \in [codec : Codecs, tag : Seq(Byte)]
  <2>1. DecodeTag \in Seq(Byte)
    BY <1>4, TagType DEF TypeOK, DecodeTag
  <2>. QED  BY <1>2, <2>1 DEF Codecs
<1>15. to_client' \in Seq([kind : {"Continue", "Bad", "Ok"}, tag : Seq(Byte)])
  <2>1. Continue \in [kind : {"Continue", "Bad", "Ok"}, tag : Seq(Byte)]
    BY EmptySeq DEF Continue, NoTag
  <2>2. to_client \in Seq([kind : {"Continue", "Bad", "Ok"}, tag : Seq(Byte)])
    BY <1>4 DEF SessionTypeOK
  <2>. QED  BY <1>1, <2>1, <2>2, AppendProperties
<1>16. client \notin {"sending", "awaits literal"}
  BY <1>8 DEF Requested
<1>. QED  BY <1>1, <1>9, <1>13, <1>14, <1>15, <1>16, ServedKeepsIt

\* The client that sent the data waits for the tagged reply.
LEMMA ServeDataKeepsIt ==
  ASSUME IInv, ServeData
  PROVE  IInv'
<1>1. /\ Serve /\ state.codec = "Authenticate"
      /\ to_client' = Append(to_client, OkReply(state.tag))
      /\ state' = [codec |-> "Command", tag |-> NoTag]
  BY DEF ServeData, Decoded, Reply, Enter
<1>2. /\ client' = client /\ command' = command /\ ~AllServed /\ to_client = <<>>
  BY <1>1, AtServe
<1>3. SessionTypeOK /\ DialogueInv
  BY InvariantParts
<1>4. Authenticating
  BY <1>1, <1>2, <1>3 DEF DialogueInv, Working, Requested, Granted
<1>5. to_client' = <<OkReply(state.tag)>>
  BY <1>1, <1>2, OneReply, Zenon
<1>6. DialogueInv'
  <2>1. state.tag = TagOf(command)
    BY <1>2, <1>4 DEF Authenticating
  <2>2. AllServed' /\ Len(sent') <= Len(served') + 1
    BY <1>1, <1>4, ServedKeepsCalm DEF Authenticating
  <2>3. client = "awaits ok"
    BY <1>4 DEF Authenticating
  <2>4. Authenticating'
    BY <1>1, <1>2, <1>5, <2>1, <2>2, <2>3 DEF Authenticating, TagOf
  <2>. QED  BY <2>4 DEF DialogueInv
<1>7. state' \in [codec : Codecs, tag : Seq(Byte)]
  BY <1>1, EmptySeq DEF Codecs, NoTag
<1>8. to_client' \in Seq([kind : {"Continue", "Bad", "Ok"}, tag : Seq(Byte)])
  <2>1. OkReply(state.tag) \in [kind : {"Continue", "Bad", "Ok"}, tag : Seq(Byte)]
    BY <1>3 DEF OkReply, SessionTypeOK
  <2>2. to_client \in Seq([kind : {"Continue", "Bad", "Ok"}, tag : Seq(Byte)])
    BY <1>3 DEF SessionTypeOK
  <2>. QED  BY <1>1, <2>1, <2>2, AppendProperties
<1>9. client \notin {"sending", "awaits literal"}
  BY <1>4 DEF Authenticating
<1>. QED  BY <1>1, <1>6, <1>7, <1>8, <1>9, ServedKeepsIt

\* The client that ended its idling goes on with commands.
LEMMA ServeDoneKeepsIt ==
  ASSUME IInv, ServeDone
  PROVE  IInv'
<1>1. /\ Serve /\ state.codec = "Idle" /\ to_client' = to_client
      /\ state' = [codec |-> "Command", tag |-> NoTag]
  BY DEF ServeDone, Decoded, Enter
<1>2. /\ client' = client /\ command' = command /\ sent' = sent
      /\ ~AllServed /\ to_client = <<>>
  BY <1>1, AtServe
<1>3. SessionTypeOK /\ DialogueInv
  BY InvariantParts
<1>4. DialogueInv'
  <2>1. /\ Calm(Len(sent)) => Calm(Len(sent))'
        /\ Calm(Len(sent) - 1) => Calm(Len(sent) - 1)'
    BY <1>1, ServedKeepsCalm
  <2>2. Working \/ Requested
    BY <1>1, <1>2, <1>3 DEF DialogueInv, Granted, Authenticating
  <2>3. Working => Working'
    BY <1>1, <1>2, <2>1 DEF Working
  <2>4. Requested => Requested'
    BY <1>1, <1>2, <2>1 DEF Requested, Requests
  <2>. QED  BY <2>2, <2>3, <2>4 DEF DialogueInv
<1>5. /\ state' \in [codec : Codecs, tag : Seq(Byte)] /\ to_client' = <<>>
      /\ to_client' \in Seq([kind : {"Continue", "Bad", "Ok"}, tag : Seq(Byte)])
  BY <1>1, <1>2, <1>3, EmptySeq DEF SessionTypeOK, Codecs, NoTag
<1>. QED  BY <1>1, <1>4, <1>5, ServedKeepsIt

-----------------------------------------------------------------------------
(* All steps, and the theorems.                                            *)

LEMMA StutterKeepsIt ==
  ASSUME IInv, UNCHANGED sessionVars
  PROVE  IInv'
<1>1. UNCHANGED <<fvars, cvars, svars, to_server, to_client>>
  BY DEF sessionVars
<1>2. /\ SessionTypeOK /\ FlowOK /\ WaitInv /\ PoisonInv
  BY InvariantParts
<1>3. /\ pc' = pc /\ unparsed_buffer' = unparsed_buffer
      /\ UNCHANGED <<cvars, state, served, to_client>>
  BY <1>1 DEF svars, fvars, vars
<1>4. SessionTypeOK'
  <2>1. TypeOK'
    BY <1>1, <1>2 DEF SessionTypeOK, TypeOK, fvars, vars
  <2>. QED  BY <1>1, <1>2, <1>3, <2>1 DEF SessionTypeOK, cvars
<1>5. /\ ServerInv' /\ DecodedAsSent'
      /\ Frags' = Frags /\ Bytes' = Bytes /\ Poisoned' = Poisoned
      /\ \A i : Answered(i)' <=> Answered(i)
  BY <1>1, <1>4, ServerRests
<1>6. /\ client' = client /\ command' = command /\ items' = items
      /\ sent' = sent /\ state' = state /\ served' = served /\ to_client' = to_client
      /\ ItemsInv' /\ AgreeOnMessages'
      /\ SentItems' = SentItems /\ Partial' = Partial
      /\ AllServed' = AllServed /\ Current' = Current /\ Available' = Available
      /\ QueueInv' /\ DialogueInv'
  BY <1>3, ClientRests
<1>7. FlowOK'
  BY <1>1, <1>2, <1>3, <1>5, <1>6 DEF FlowOK, Flow
<1>8. WaitInv'
  <2>1. Answered(SentItems + 1)' <=> Answered(SentItems + 1)
    BY <1>5, <1>6
  <2>. QED  BY <1>2, <1>5, <1>6, <2>1 DEF WaitInv, TagOf
<1>9. PoisonInv'
  BY <1>2, <1>3, <1>5, <1>6 DEF PoisonInv, Stuck
<1>. QED  BY <1>5, <1>6, <1>7, <1>8, <1>9 DEF IInv

LEMMA NextKeepsIt == IInv /\ [SessionNext]_sessionVars => IInv'
<1>. SUFFICES ASSUME IInv, [SessionNext]_sessionVars PROVE IInv'
  OBVIOUS
<1>1. CASE Start
  BY <1>1, StartKeepsIt
<1>2. CASE Send
  BY <1>2, SendKeepsIt
<1>3. CASE Receive
  BY <1>3, ReceiveKeepsIt
<1>4. CASE ServerProgress
  BY <1>4, ServerProgressKeepsIt
<1>5. CASE ServerRead
  BY <1>5, ServerReadKeepsIt
<1>6. CASE AcceptLiteral
  BY <1>6, AcceptLiteralKeepsIt
<1>7. CASE RejectLiteral
  BY <1>7, RejectLiteralKeepsIt
<1>8. CASE PoisonLiteral
  BY <1>8, PoisonLiteralKeepsIt
<1>9. CASE NextFragment
  BY <1>9, NextFragmentKeepsIt
<1>10. CASE ServeRefused \/ ServeCommand
  BY <1>10, ServeStaysKeepsIt
<1>11. CASE ServeRequest
  BY <1>11, ServeRequestKeepsIt
<1>12. CASE ServeData
  BY <1>12, ServeDataKeepsIt
<1>13. CASE ServeDone
  BY <1>13, ServeDoneKeepsIt
<1>14. CASE UNCHANGED sessionVars
  BY <1>14, StutterKeepsIt
<1>. QED  BY <1>1, <1>2, <1>3, <1>4, <1>5, <1>6, <1>7, <1>8, <1>9, <1>10, <1>11, <1>12, <1>13,
             <1>14 DEF SessionNext, Server

LEMMA InitIsGood == SessionInit => IInv
<1>. SUFFICES ASSUME SessionInit PROVE IInv
  OBVIOUS
<1>1. /\ Init /\ to_server = <<>> /\ to_client = <<>> /\ pc = "progress"
      /\ state = [codec |-> "Command", tag |-> NoTag] /\ served = <<>>
      /\ client = "idle" /\ items = <<>> /\ command = CHOOSE c \in Commands : TRUE
      /\ started = 0 /\ sent = <<>>
  BY DEF SessionInit
<1>2. /\ unparsed_buffer = <<>> /\ max_message_size \in Limits /\ message_poisoned = FALSE
      /\ parsed = <<>> /\ fragments = <<>> /\ parser # NoParser
  <2>1. parser = NewLineParser(0)
    BY <1>1 DEF Init
  <2>2. parser # NoParser
    BY <2>1 DEF NewLineParser, LineParser, NoParser
  <2>. QED  BY <1>1, <2>2 DEF Init
<1>3. TypeOK /\ BufferHoldsMessage /\ FragmentsInv
  BY <1>1, InitTypes, InitBuffer, InitFragmentsInv
<1>4. command \in Commands
  BY <1>1, CommandsAssumption
<1>5. Len(<<>>) = 0 /\ \A i \in 1 .. 0 : FALSE
  OBVIOUS
<1>6. SessionTypeOK
  <2>1. state \in [codec : Codecs, tag : Seq(Byte)]
    BY <1>1, EmptySeq DEF Codecs, NoTag
  <2>2. started \in 0 .. MaxMessages
    BY <1>1, SessionAssumption
  <2>3. /\ to_server \in Seq(Byte) /\ items \in Seq(Item)
        /\ to_client \in Seq([kind : {"Continue", "Bad", "Ok"}, tag : Seq(Byte)])
        /\ sent \in Seq([codec : Codecs, bytes : Seq(Byte)])
        /\ served \in Seq([codec : Codecs, bytes : Seq(Byte), result : DecodeErrors \cup {"Ok"}])
    BY <1>1, EmptySeq
  <2>. QED  BY <1>1, <1>3, <1>4, <2>1, <2>2, <2>3 DEF SessionTypeOK
<1>7. ServerInv
  <2>1. OneMessage(fragments)
    <3>1. \A i \in 1 .. 0 - 1 : FALSE
      OBVIOUS
    <3>. QED  BY <1>2, <1>5, <3>1 DEF OneMessage
  <2>2. ReactInv
    BY <1>1 DEF ReactInv
  <2>. QED  BY <1>2, <1>3, <1>6, <2>1, <2>2 DEF ServerInv
<1>8. SentItems = 0 /\ AllServed /\ Available = 0
  BY <1>1 DEF SentItems, Sending, AllServed, Available
<1>9. Frags = <<>> /\ Bytes = <<>> /\ ~Poisoned
  BY <1>2 DEF Frags, Bytes, Poisoned
<1>10. ItemsInv
  BY <1>1 DEF ItemsInv
<1>11. AgreeOnMessages /\ DecodedAsSent
  <2>1. \A i \in DOMAIN served : FALSE
    BY <1>1
  <2>2. Len(served) <= Len(sent)
    BY <1>1, <1>5
  <2>. QED  BY <2>1, <2>2 DEF AgreeOnMessages, DecodedAsSent
<1>12. FlowOK
  <2>1. Partial = <<>>
    <3>1. command.items \in Seq(Item)
      BY <1>4, CommandFacts
    <3>. QED  BY <1>8, <3>1, DumpEquations DEF Partial
  <2>2. Flow = <<>>
    <3>1. <<>> \o <<>> = <<>>
      BY EmptySeq, ConcatEmptySeq
    <3>. QED  BY <1>1, <1>2, <1>9, <3>1 DEF Flow, Wire
  <2>. QED  BY <1>1, <2>1, <2>2 DEF FlowOK, Balanced
<1>13. \A j \in Len(served) + 1 .. Len(sent) : FALSE
  <2>1. \A j \in 0 + 1 .. 0 : FALSE
    OBVIOUS
  <2>. QED  BY <1>1, <1>5, <2>1
<1>14. QueueInv
  <2>1. \A j \in 1 .. Len(sent) : FALSE
    BY <1>1, <1>5
  <2>. QED  BY <1>13, <2>1 DEF QueueInv
<1>15. DialogueInv
  <2>1. Working
    BY <1>1, <1>8, <1>13 DEF Working, Calm
  <2>. QED  BY <2>1 DEF DialogueInv
<1>16. WaitInv
  <2>1. \A i \in 1 .. Available : FALSE
    BY <1>8
  <2>2. \A j \in Len(served) + 2 .. Len(sent) : FALSE
    <3>1. \A j \in 0 + 2 .. 0 : FALSE
      OBVIOUS
    <3>. QED  BY <1>1, <1>5, <3>1
  <2>. QED  BY <1>1, <1>8, <2>1, <2>2 DEF WaitInv
<1>17. PoisonInv
  BY <1>5, <1>9 DEF PoisonInv
<1>. QED  BY <1>7, <1>10, <1>11, <1>12, <1>14, <1>15, <1>16, <1>17 DEF IInv

\* Whatever the client sends, however its bytes arrive and whichever of the
\* two works first, what the client and the server know of each other stays
\* right: no byte is lost or taken for another message, a literal is answered
\* before it comes, and only the message that is broken is refused.
THEOREM SessionInvariant == SessionSpec => []IInv
BY InitIsGood, NextKeepsIt, PTL DEF SessionSpec

\* The server takes exactly the messages that the client sent completely, in
\* their order and each with the codec that it was meant for (the loop of
\* examples/server.rs and the fragmentizer under it).
THEOREM MessagesAgree == SessionSpec => []AgreeOnMessages
<1>1. IInv => AgreeOnMessages
  BY DEF IInv
<1>. QED  BY <1>1, SessionInvariant, PTL

\* Whether a message is decoded depends on its own bytes and the limit alone:
\* what was rejected, skipped or poisoned before it leaves no trace in
\* decode_message.
THEOREM FateIsItsOwn == SessionSpec => []DecodedAsSent
<1>1. IInv => DecodedAsSent
  BY DEF IInv
<1>. QED  BY <1>1, SessionInvariant, PTL

\* At most one reply is on its way, and the client is waiting for just that
\* one: the continuation of the literal, of AUTHENTICATE or of IDLE, or the
\* tagged reply with its own tag.
THEOREM RepliesFindTheirClient == SessionSpec => []SessionInv
<1>1. IInv => SessionInv
  <2>. SUFFICES ASSUME IInv PROVE SessionInv
    OBVIOUS
  <2>1. SessionTypeOK /\ DialogueInv /\ WaitInv
    BY InvariantParts
  <2>2. \A r : Len(<<r>>) = 1 /\ Len(<<>>) = 0
    OBVIOUS
  <2>. DEFINE t == TagOf(command)
  <2>3. \/ to_client = <<>>
        \/ to_client = <<Continue>> /\ client \in {"awaits literal", "awaits data", "awaits idle"}
        \/ to_client = <<Bad(t)>> /\ client = "awaits literal"
        \/ to_client = <<OkReply(t)>> /\ client = "awaits ok"
    <3>1. CASE Working
      BY <2>1, <3>1 DEF Working, WaitInv
    <3>2. CASE Requested \/ Granted \/ Authenticating
      BY <3>2 DEF Requested, Granted, Authenticating
    <3>. QED  BY <2>1, <3>1, <3>2 DEF DialogueInv
  <2>4. Len(to_client) <= 1
    <3>1. Len(to_client) \in {0, 1}
      <4>. HIDE DEF t
      <4>. QED  BY <2>2, <2>3, Zenon
    <3>. QED  BY <3>1
  <2>5. to_client # <<>> =>
          \/ client \in {"awaits literal", "awaits data", "awaits idle"}
               /\ Head(to_client) = Continue
          \/ client = "awaits literal" /\ Head(to_client) = Bad(t)
          \/ client = "awaits ok" /\ Head(to_client) = OkReply(t)
    <3>. HIDE DEF t
    <3>. QED  BY <2>3, Replies
  <2>. QED  BY <2>1, <2>4, <2>5 DEF SessionInv, RepliesAreAwaited
<1>. QED  BY <1>1, SessionInvariant, PTL
=============================================================================
