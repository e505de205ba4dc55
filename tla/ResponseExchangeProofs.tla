------------------------ MODULE ResponseExchangeProofs ------------------------
(***************************************************************************)
(* Proofs that the client reads what the server says, for every set of     *)
(* scripts and every encoder and decoder that fit them: however the octets *)
(* arrive, whatever the client rejects, and however far the server is      *)
(* ahead of it.                                                            *)
(***************************************************************************)
EXTENDS ResponseExchange, SequenceLemmas

-----------------------------------------------------------------------------
(* Where the messages and their fragments stand in the octets of a script. *)

\* The octets of fragments and of messages are those of SequenceLemmas.
LEMMA OctetsAre ==
  /\ \A fs : Written(fs) = FullContent(fs)
  /\ \A ms : StreamOf(ms) = AllContent(ms)
  /\ \A ms, i : StartOf(ms, i) = StartIn(ms, i)
<1>1. \A fs : Written(fs) = FullContent(fs)
  BY DEF Written, FullContent, Contents
<1>2. \A ms : StreamOf(ms) = AllContent(ms)
  BY <1>1 DEF StreamOf, AllContent, ContentParts
<1>. QED  BY <1>1, <1>2 DEF StartOf, StartIn

\* What fragments are made of.
LEMMA FragmentsAre == HaveContent(Fragments, Octet)
<1>1. \A f \in Fragments : f.data \in Seq(Octet)
  BY Zenon DEF Fragments
<1>. QED  BY <1>1 DEF HaveContent

Whole(s) == StreamOf(Encoded(s))
Parted(s, i) == encode(s[i])
Start(s, i) == StartOf(Encoded(s), i)

\* Where the fragment after the k-th one of a message stands.
Place(s, i, k) == Start(s, i) + Len(Written(SubSeq(Parted(s, i), 1, k)))

\* The messages of a script.
LEMMA MessagesAre ==
  ASSUME NEW s \in Scripts
  PROVE  /\ Len(s) \in Nat /\ DOMAIN s = 1 .. Len(s)
         /\ Encoded(s) \in Seq(Seq(Fragments)) /\ Len(Encoded(s)) = Len(s)
         /\ \A i \in 1 .. Len(s) :
              Parted(s, i) \in Seq(Fragments) /\ Encoded(s)[i] = Parted(s, i)
<1>1. s \in Seq(ToSet(s)) /\ \A i \in DOMAIN s : Parted(s, i) \in Seq(Fragments)
  BY ScriptsAssumption DEF Parted
<1>2. Len(s) \in Nat /\ DOMAIN s = 1 .. Len(s)
  BY <1>1, LenProperties
<1>3. Encoded(s) = [i \in 1 .. Len(s) |-> Parted(s, i)]
  BY <1>2 DEF Encoded, Parted
<1>4. \A i \in 1 .. Len(s) : Parted(s, i) \in Seq(Fragments)
  BY <1>1, <1>2
<1>. HIDE DEF Encoded, Parted
<1>5. Encoded(s) \in [1 .. Len(s) -> Seq(Fragments)]
  BY <1>3, <1>4
<1>6. Encoded(s) \in Seq(Seq(Fragments)) /\ DOMAIN Encoded(s) = 1 .. Len(s)
  BY <1>5, <1>2, IsASeq
<1>7. Len(Encoded(s)) = Len(s)
  BY <1>6, <1>2, LenProperties
<1>. QED  BY <1>2, <1>3, <1>4, <1>6, <1>7

\* Where the messages stand.
LEMMA StartsAre ==
  ASSUME NEW s \in Scripts
  PROVE  /\ Whole(s) \in Seq(Octet) /\ Len(Whole(s)) \in Nat /\ Start(s, 1) = 0
         /\ \A i \in 1 .. Len(s) + 1 : Start(s, i) \in 0 .. Len(Whole(s))
         /\ \A i \in 1 .. Len(s) :
              /\ Start(s, i + 1) = Start(s, i) + Len(Written(Parted(s, i)))
              /\ Written(Parted(s, i)) \in Seq(Octet)
              /\ StandsAt(Written(Parted(s, i)), Whole(s), Start(s, i))
         /\ \A i \in 1 .. Len(s) + 1 : \A j \in i .. Len(s) + 1 : Start(s, i) <= Start(s, j)
<1>. DEFINE ms == Encoded(s)
            n == Len(s)
<1>1. /\ ms \in Seq(Seq(Fragments)) /\ Len(ms) = n
      /\ \A i \in 1 .. n : ms[i] = Parted(s, i)
  BY MessagesAre
<1>2. /\ Whole(s) = AllContent(ms) /\ \A i : Start(s, i) = StartIn(ms, i)
      /\ \A fs : Written(fs) = FullContent(fs)
  BY OctetsAre DEF Whole, Start
<1>. HIDE DEF ms
<1>3. /\ AllContent(ms) \in Seq(Octet) /\ Len(AllContent(ms)) \in Nat /\ StartIn(ms, 1) = 0
      /\ \A i \in 1 .. n + 1 : StartIn(ms, i) \in 0 .. Len(AllContent(ms))
      /\ \A i \in 1 .. n :
           /\ StartIn(ms, i + 1) = StartIn(ms, i) + Len(FullContent(ms[i]))
           /\ FullContent(ms[i]) \in Seq(Octet)
           /\ StandsAt(FullContent(ms[i]), AllContent(ms), StartIn(ms, i))
      /\ \A i \in 1 .. n + 1 : \A j \in i .. n + 1 : StartIn(ms, i) <= StartIn(ms, j)
  BY <1>1, FragmentsAre, StreamStarts
<1>4. ASSUME NEW i \in 1 .. n PROVE FullContent(ms[i]) = Written(Parted(s, i))
  BY <1>1, <1>2
<1>. QED  BY <1>2, <1>3, <1>4

\* Where the fragments of a message stand.
LEMMA PlacesAre ==
  ASSUME NEW s \in Scripts, NEW i \in 1 .. Len(s)
  PROVE  /\ Parted(s, i) \in Seq(Fragments) /\ Len(Parted(s, i)) \in Nat /\ DOMAIN Parted(s, i) = 1 .. Len(Parted(s, i))
         /\ Place(s, i, 0) = Start(s, i) /\ Place(s, i, Len(Parted(s, i))) = Start(s, i + 1)
         /\ Start(s, i) \in Nat /\ Start(s, i + 1) = Start(s, i) + Len(Written(Parted(s, i)))
         /\ \A k \in 0 .. Len(Parted(s, i)) :
              /\ Place(s, i, k) \in Nat
              /\ Place(s, i, k) = Start(s, i) + Len(Written(SubSeq(Parted(s, i), 1, k)))
         /\ \A k \in 1 .. Len(Parted(s, i)) :
              /\ Parted(s, i)[k].data \in Seq(Octet)
              /\ Place(s, i, k) = Place(s, i, k - 1) + Len(Parted(s, i)[k].data)
              /\ StandsAt(Parted(s, i)[k].data, Whole(s), Place(s, i, k - 1))
         /\ \A j \in 0 .. Len(Parted(s, i)) : \A k \in j .. Len(Parted(s, i)) : Place(s, i, j) <= Place(s, i, k)
<1>. DEFINE ms == Encoded(s)
            fs == Parted(s, i)
<1>1. ms \in Seq(Seq(Fragments)) /\ i \in 1 .. Len(ms) /\ ms[i] = fs
  BY MessagesAre
<1>2. /\ Whole(s) = AllContent(ms) /\ \A j : Start(s, j) = StartIn(ms, j)
      /\ \A t : Written(t) = FullContent(t)
  BY OctetsAre DEF Whole, Start
<1>3. \A k : Place(s, i, k) = PlaceIn(ms, i, k)
  BY <1>1, <1>2 DEF Place, PlaceIn
<1>. HIDE DEF ms, fs
<1>4. /\ ms[i] \in Seq(Fragments) /\ Len(ms[i]) \in Nat /\ DOMAIN ms[i] = 1 .. Len(ms[i])
      /\ PlaceIn(ms, i, 0) = StartIn(ms, i) /\ PlaceIn(ms, i, Len(ms[i])) = StartIn(ms, i + 1)
      /\ StartIn(ms, i) \in Nat /\ StartIn(ms, i + 1) = StartIn(ms, i) + Len(FullContent(ms[i]))
      /\ \A k \in 0 .. Len(ms[i]) :
           /\ PlaceIn(ms, i, k) \in Nat
           /\ PlaceIn(ms, i, k) = StartIn(ms, i) + Len(FullContent(SubSeq(ms[i], 1, k)))
      /\ \A k \in 1 .. Len(ms[i]) :
           /\ ms[i][k].data \in Seq(Octet)
           /\ PlaceIn(ms, i, k) = PlaceIn(ms, i, k - 1) + Len(ms[i][k].data)
           /\ StandsAt(ms[i][k].data, AllContent(ms), PlaceIn(ms, i, k - 1))
      /\ \A j \in 0 .. Len(ms[i]) : \A k \in j .. Len(ms[i]) : PlaceIn(ms, i, j) <= PlaceIn(ms, i, k)
  BY <1>1, FragmentsAre, StreamPlaces
<1>. QED  BY <1>1, <1>2, <1>3, <1>4 DEF fs

-----------------------------------------------------------------------------
(* What the contract says of a message.                                    *)

\* The last fragment is not empty, and octets that stand where a message does
\* are decoded as the contract says.
LEMMA ContractIs ==
  ASSUME NEW s \in Scripts, ScriptFits(s), NEW i \in 1 .. Len(s)
  PROVE  /\ Len(Parted(s, i)) > 0 /\ Parted(s, i)[Len(Parted(s, i))].data # <<>>
         /\ \A octets \in Arrivals(Encoded(s), i) :
              Fits(decode(CodecOf(i), octets), s[i].value, Parted(s, i), octets)
<1>1. DOMAIN s = 1 .. Len(s) /\ Parted(s, i) \in Seq(Fragments)
  BY MessagesAre
<1>. DEFINE fs == Parted(s, i)
<1>2. Len(fs) \in Nat /\ (fs # <<>> => Len(fs) # 0)
  BY <1>1, LenProperties, EmptySeq
<1>3. /\ fs # <<>> /\ Last(fs).data # <<>>
      /\ \A octets \in Arrivals(Encoded(s), i) : Fits(decode(CodecOf(i), octets), s[i].value, fs, octets)
  BY <1>1, Zenon DEF ScriptFits, Parted
<1>4. Last(fs) = fs[Len(fs)]
  BY DEF Last
<1>. HIDE DEF fs
<1>5. Len(fs) > 0
  BY <1>2, <1>3
<1>6. fs[Len(fs)].data # <<>>
  BY <1>3, <1>4
<1>. QED  BY <1>3, <1>5, <1>6 DEF fs

\* Octets that stand where a message does have arrived of it.
LEMMA DecodedIs ==
  ASSUME NEW s \in Scripts, ScriptFits(s), NEW i \in 1 .. Len(s),
         NEW q \in Seq(Octet), q # <<>>, StandsAt(q, Whole(s), Start(s, i))
  PROVE  Fits(decode(CodecOf(i), q), s[i].value, Parted(s, i), q)
<1>1. /\ Whole(s) \in Seq(Octet) /\ Len(Whole(s)) \in Nat
      /\ Start(s, i) \in Nat
  BY StartsAre, PlacesAre
<1>2. /\ q = SubSeq(Whole(s), Start(s, i) + 1, Start(s, i) + Len(q))
      /\ Start(s, i) + Len(q) \in Start(s, i) .. Len(Whole(s))
  BY <1>1, StandsSlice
<1>3. Len(q) \in Nat /\ Len(q) # 0
  BY LenProperties, EmptySeq
<1>4. Start(s, i) + Len(q) \in (Start(s, i) + 1) .. Len(Whole(s))
  BY <1>1, <1>2, <1>3
<1>5. q \in Arrivals(Encoded(s), i)
  BY <1>2, <1>4 DEF Arrivals, Whole, Start
<1>. QED  BY <1>5, ContractIs

\* What the client can conclude from what the decoder says of octets.
Understood(value, fs, octets, d) ==
  /\ d.res \in {"Ok", "Failed", "Incomplete", "LiteralFound"}
  /\ d.res = "Ok" =>
       /\ Len(octets) >= Len(Written(fs)) /\ value # <<>>
       /\ d.out = value /\ d.at = Len(Written(fs)) + 1
  /\ d.res = "Failed" => value = <<>>
  /\ d.res \in {"Incomplete", "LiteralFound"} => Len(octets) < Len(Written(fs))
  /\ d.res = "LiteralFound" => StopsAtLiteral(fs, octets, d)

\* The decoder says nothing else.
LEMMA FitsIs ==
  ASSUME NEW d, NEW value, NEW fs, NEW octets,
         Len(octets) \in Nat, Len(Written(fs)) \in Nat, Fits(d, value, fs, octets)
  PROVE  Understood(value, fs, octets, d)
<1>. DEFINE size == Len(Written(fs))
<1>1. CASE Len(octets) >= size /\ value # <<>>
  <2>1. ~(Len(octets) >= size /\ value = <<>>) /\ ~(Len(octets) < size)
    BY <1>1
  <2>2. d.res = "Ok" /\ d.out = value /\ d.at = size + 1
    BY <1>1, <2>1, Zenon DEF Fits
  <2>. QED  BY <1>1, <2>2 DEF Understood
<1>2. CASE Len(octets) >= size /\ value = <<>>
  <2>1. ~(Len(octets) >= size /\ value # <<>>) /\ ~(Len(octets) < size)
    BY <1>2
  <2>2. d.res = "Failed"
    BY <1>2, <2>1, Zenon DEF Fits
  <2>. QED  BY <1>2, <2>2 DEF Understood
<1>3. CASE Len(octets) < size
  <2>1. ~(Len(octets) >= size /\ value # <<>>) /\ ~(Len(octets) >= size /\ value = <<>>)
    BY <1>3
  <2>2. \/ d.res = "Incomplete"
        \/ d.res = "Failed" /\ value = <<>>
        \/ d.res = "LiteralFound" /\ StopsAtLiteral(fs, octets, d)
    BY <1>3, <2>1, Zenon DEF Fits
  <2>. QED  BY <1>3, <2>2 DEF Understood
<1>4. \/ Len(octets) >= size /\ value # <<>>
      \/ Len(octets) >= size /\ value = <<>>
      \/ Len(octets) < size
  OBVIOUS
<1>. QED  BY <1>1, <1>2, <1>3, <1>4, Zenon

\* What is at the beginning of a sequence stays there when the sequence grows.
LEMMA PrefixOfMore ==
  ASSUME NEW X, NEW p \in Seq(X), NEW q \in Seq(X), NEW x \in X, IsPrefix(p, q)
  PROVE  IsPrefix(p, Append(q, x))
<1>. DEFINE t == Append(q, x)
            n == Len(p)
<1>1. n \in Nat /\ Len(q) \in Nat /\ n <= Len(q) /\ SubSeq(p, 1, n) = SubSeq(q, 1, n)
  BY LenProperties DEF IsPrefix
<1>2. t \in Seq(X) /\ Len(t) = Len(q) + 1 /\ \A i \in 1 .. Len(q) : t[i] = q[i]
  BY AppendSet
<1>. HIDE DEF t
<1>3. n <= Len(t) /\ n \in 0 .. Len(t) /\ n \in 0 .. Len(q)
  BY <1>1, <1>2
<1>. HIDE DEF n
<1>4. /\ SubSeq(t, 1, n) \in Seq(X) /\ Len(SubSeq(t, 1, n)) = n
      /\ \A i \in 1 .. n : SubSeq(t, 1, n)[i] = t[i]
  BY <1>2, <1>3, PrefixProperties
<1>5. /\ SubSeq(q, 1, n) \in Seq(X) /\ Len(SubSeq(q, 1, n)) = n
      /\ \A i \in 1 .. n : SubSeq(q, 1, n)[i] = q[i]
  BY <1>3, PrefixProperties
<1>6. \A i \in 1 .. n : SubSeq(t, 1, n)[i] = SubSeq(q, 1, n)[i]
  <2>1. \A i \in 1 .. n : i \in 1 .. Len(q)
    BY <1>1
  <2>. QED  BY <2>1, <1>2, <1>4, <1>5
<1>7. SubSeq(t, 1, n) = SubSeq(q, 1, n)
  BY <1>4, <1>5, <1>6, SeqEqual
<1>. QED  BY <1>1, <1>3, <1>7 DEF IsPrefix, t, n

\* The first fragments are octets.
LEMMA PartsAre ==
  ASSUME NEW fs \in Seq(Fragments), NEW i \in 2 .. Len(fs)
  PROVE  Written(SubSeq(fs, 1, i - 1)) \in Seq(Octet)
<1>1. Len(fs) \in Nat
  BY LenProperties
<1>2. i - 1 \in 0 .. Len(fs)
  BY <1>1
<1>3. /\ Contents(fs) \in Seq(Seq(Octet)) /\ Len(Contents(fs)) = Len(fs)
      /\ FullContent(SubSeq(fs, 1, i - 1)) = Beginning(Contents(fs), i - 1)
  BY <1>2, FragmentsAre, ContentIs
<1>4. Beginning(Contents(fs), i - 1) \in Seq(Octet)
  <2>. HIDE DEF Contents
  <2>. QED  BY <1>2, <1>3, BeginningEquations
<1>. QED  BY <1>3, <1>4, OctetsAre

-----------------------------------------------------------------------------
(* The inductive invariant.                                                *)

\* How many fragments of the current message have been sent, and how many octets
\* of the script.
Gone == Len(Parted(script, current)) - Len(fragments)
Reached == IF current = 0 THEN 0 ELSE Place(script, current, Gone)

ServerTypes ==
  /\ script \in Scripts /\ ScriptFits(script)
  /\ current \in 0 .. Len(script)
  /\ sent \in Seq(Seq(Fragments)) /\ Len(sent) = current
  /\ \A i \in 1 .. current : sent[i] = Parted(script, i)
  /\ fragments \in Seq(Fragments)
  /\ current = 0 => fragments = <<>>
  /\ current # 0 =>
       /\ Len(fragments) <= Len(Parted(script, current))
       /\ \A j \in 1 .. Len(fragments) : fragments[j] = Parted(script, current)[Gone + j]
  /\ to_client \in Seq(Octet)

ClientTypes ==
  /\ buffer \in Seq(Octet)
  /\ fresh \in BOOLEAN
  /\ fresh => buffer # <<>>
  /\ Len(expected) <= 1
  /\ log \in Seq(ToSet(log))
  /\ \A i \in DOMAIN log : log[i].what \in {"Accepted", "Failed"}

Types == ServerTypes /\ ClientTypes

\* What has become of a message is what the server meant.
History ==
  \A i \in DOMAIN log :
    \/ /\ log[i].what = "Accepted" /\ log[i].value = script[i].value
       /\ i < current \/ (i = current /\ fragments = <<>>)
    \/ log[i].what = "Failed" /\ script[i].value = <<>>

\* The client has lost track of the server.
Stopped == codec = "None" /\ expected = <<>> /\ log # <<>>

\* What the client has not decoded and what is on its way are the octets from
\* the next message that is to be decoded up to the next fragment that is to be
\* sent, and the client has the decoder for that message.
Underway ==
  /\ codec = CodecOf(Len(log) + 1)
  /\ Len(log) <= current
  /\ Len(log) = current => fragments = <<>>
  /\ StandsAt(buffer, Whole(script), Start(script, Len(log) + 1))
  /\ StandsAt(to_client, Whole(script), Start(script, Len(log) + 1) + Len(buffer))
  /\ Start(script, Len(log) + 1) + Len(buffer) + Len(to_client) = Reached

\* The client waits only when a part of a message is all that it has.
Waiting ==
  ~fresh => \/ buffer = <<>>
            \/ Len(log) < current /\ Len(buffer) < Len(Written(Parted(script, Len(log) + 1)))

\* The literal that the client is told to expect is one of the message that it is
\* reading, and it has all that comes before it.
Announced(fs, length, octets) ==
  \E i \in 2 .. Len(fs) :
    /\ fs[i].kind = "Literal"
    /\ Len(fs[i].data) = length
    /\ IsPrefix(Written(SubSeq(fs, 1, i - 1)), octets)

Awaited ==
  expected # <<>> => Len(log) < current /\ Announced(Parted(script, Len(log) + 1), expected[1], buffer)

InStep == Underway /\ Waiting /\ Awaited

Inv == Types /\ History /\ (Stopped \/ InStep)

-----------------------------------------------------------------------------
(* The server.                                                             *)

\* What the server is sending, and how far it has come.
LEMMA ServerIs ==
  ASSUME ServerTypes
  PROVE  /\ script \in Scripts /\ ScriptFits(script) /\ Len(script) \in Nat
         /\ current \in 0 .. Len(script) /\ current \in Nat
         /\ Len(fragments) \in Nat
         /\ fragments = <<>> => Reached = Start(script, current + 1)
         /\ fragments # <<>> => current # 0
         /\ current # 0 =>
              /\ current \in 1 .. Len(script) /\ Len(Parted(script, current)) \in Nat
              /\ Gone \in 0 .. Len(Parted(script, current))
              /\ fragments # <<>> => /\ Gone + 1 \in 1 .. Len(Parted(script, current))
                                     /\ Head(fragments) = Parted(script, current)[Gone + 1]
              /\ fragments = <<>> <=> Gone = Len(Parted(script, current))
<1>1. /\ script \in Scripts /\ ScriptFits(script) /\ current \in 0 .. Len(script)
      /\ fragments \in Seq(Fragments) /\ (current = 0 => fragments = <<>>)
  BY DEF ServerTypes
<1>2. Len(script) \in Nat /\ current \in Nat
  BY <1>1, MessagesAre
<1>3. Len(fragments) \in Nat /\ (fragments = <<>> <=> Len(fragments) = 0)
  BY <1>1, LenProperties, EmptySeq
<1>4. ASSUME current # 0
      PROVE  /\ current \in 1 .. Len(script) /\ Len(Parted(script, current)) \in Nat
             /\ Gone \in 0 .. Len(Parted(script, current))
             /\ fragments # <<>> => /\ Gone + 1 \in 1 .. Len(Parted(script, current))
                                    /\ Head(fragments) = Parted(script, current)[Gone + 1]
             /\ fragments = <<>> <=> Gone = Len(Parted(script, current))
  <2>. DEFINE fs == Parted(script, current)
  <2>1. current \in 1 .. Len(script)
    BY <1>1, <1>2, <1>4
  <2>2. Len(fs) \in Nat
    BY <2>1, <1>1, PlacesAre
  <2>3. /\ Len(fragments) <= Len(fs) /\ \A j \in 1 .. Len(fragments) : fragments[j] = fs[Gone + j]
        /\ Gone = Len(fs) - Len(fragments)
    BY <1>4 DEF ServerTypes, Gone
  <2>. HIDE DEF fs
  <2>4. Gone \in 0 .. Len(fs) /\ (fragments = <<>> <=> Gone = Len(fs))
    BY <1>3, <2>2, <2>3
  <2>5. ASSUME fragments # <<>> PROVE Gone + 1 \in 1 .. Len(fs) /\ Head(fragments) = fs[Gone + 1]
    <3>1. 1 \in 1 .. Len(fragments) /\ Gone + 1 \in 1 .. Len(fs)
      BY <1>3, <2>2, <2>3, <2>5
    <3>2. Head(fragments) = fragments[1]
      BY <1>1, <2>5, HeadTailSet
    <3>. QED  BY <3>1, <3>2, <2>3
  <2>. QED  BY <2>1, <2>2, <2>4, <2>5 DEF fs
<1>5. ASSUME fragments = <<>> PROVE Reached = Start(script, current + 1)
  <2>1. CASE current = 0
    <3>1. Start(script, 1) = 0 /\ 0 + 1 = 1
      BY <1>1, StartsAre
    <3>. QED  BY <2>1, <3>1 DEF Reached
  <2>2. CASE current # 0
    <3>1. current \in 1 .. Len(script) /\ Gone = Len(Parted(script, current))
      BY <1>4, <1>5, <2>2
    <3>2. Place(script, current, Gone) = Start(script, current + 1)
      BY <3>1, <1>1, PlacesAre
    <3>. QED  BY <2>2, <3>2 DEF Reached
  <2>. QED  BY <2>1, <2>2
<1>. QED  BY <1>1, <1>2, <1>3, <1>4, <1>5

\* The messages that have been decoded are some of those that have been sent.
LEMMA UnderwayIs ==
  ASSUME Types, Underway
  PROVE  /\ script \in Scripts /\ Len(script) \in Nat /\ current \in Nat /\ current \in 0 .. Len(script)
         /\ Len(log) \in Nat /\ DOMAIN log = 1 .. Len(log) /\ Len(log) + 1 \in 1 .. Len(script) + 1
         /\ Start(script, Len(log) + 1) \in Nat /\ Whole(script) \in Seq(Octet)
         /\ buffer \in Seq(Octet) /\ Len(buffer) \in Nat
         /\ to_client \in Seq(Octet) /\ Len(to_client) \in Nat
<1>1. /\ script \in Scripts /\ Len(script) \in Nat /\ current \in Nat /\ current \in 0 .. Len(script)
  BY ServerIs DEF Types
<1>2. Len(log) \in Nat /\ DOMAIN log = 1 .. Len(log) /\ Len(log) <= current
  BY OwnElements DEF Types, ClientTypes, Underway
<1>3. Len(log) + 1 \in 1 .. Len(script) + 1
  BY <1>1, <1>2
<1>4. Start(script, Len(log) + 1) \in 0 .. Len(Whole(script)) /\ Whole(script) \in Seq(Octet)
  BY <1>1, <1>3, StartsAre
<1>5. buffer \in Seq(Octet) /\ Len(buffer) \in Nat /\ to_client \in Seq(Octet) /\ Len(to_client) \in Nat
  BY LenProperties DEF Types, ServerTypes, ClientTypes
<1>. QED  BY <1>1, <1>2, <1>3, <1>4, <1>5

\* A fragment goes to the end of what is on its way.
LEMMA SendKeepsInv ==
  ASSUME Inv, SendFragment
  PROVE  Inv'
<1>. DEFINE fs == Parted(script, current)
            t == Tail(fragments)
            x == fs[Gone + 1].data
<1>1. /\ Types /\ History
      /\ fragments # <<>> /\ to_client' = to_client \o Head(fragments).data /\ fragments' = t
      /\ script' = script /\ current' = current /\ sent' = sent /\ codec' = codec
      /\ buffer' = buffer /\ fresh' = fresh /\ expected' = expected /\ log' = log
  BY DEF Inv, SendFragment
<1>2. ServerTypes /\ ClientTypes
  BY <1>1 DEF Types
<1>3. /\ script \in Scripts /\ Len(script) \in Nat /\ current \in 1 .. Len(script) /\ current # 0
      /\ Len(fs) \in Nat /\ Len(fragments) \in Nat
      /\ Gone \in 0 .. Len(fs) /\ Gone + 1 \in 1 .. Len(fs) /\ Head(fragments) = fs[Gone + 1]
  BY <1>1, <1>2, ServerIs
<1>4. /\ fragments \in Seq(Fragments) /\ Len(fragments) <= Len(fs)
      /\ \A j \in 1 .. Len(fragments) : fragments[j] = fs[Gone + j]
      /\ Gone = Len(fs) - Len(fragments) /\ to_client \in Seq(Octet)
  BY <1>2, <1>3 DEF ServerTypes, Gone
<1>5. /\ t \in Seq(Fragments) /\ Len(t) \in Nat /\ Len(fragments) = Len(t) + 1
      /\ \A j \in 1 .. Len(t) : t[j] = fragments[j + 1]
  BY <1>1, <1>4, HeadTailSet
<1>6. fs' = fs
  BY <1>1 DEF Parted
<1>7. /\ x \in Seq(Octet) /\ Place(script, current, Gone + 1) = Place(script, current, Gone) + Len(x)
      /\ StandsAt(x, Whole(script), Place(script, current, Gone)) /\ Place(script, current, Gone) \in Nat
  <2>1. (Gone + 1) - 1 = Gone
    BY <1>3
  <2>2. /\ \A k \in 0 .. Len(fs) : Place(script, current, k) \in Nat
        /\ \A k \in 1 .. Len(fs) :
             /\ fs[k].data \in Seq(Octet)
             /\ Place(script, current, k) = Place(script, current, k - 1) + Len(fs[k].data)
             /\ StandsAt(fs[k].data, Whole(script), Place(script, current, k - 1))
    BY <1>3, PlacesAre
  <2>. QED  BY <2>1, <2>2, <1>3
<1>8. Gone' = Len(fs) - Len(t)
  BY <1>1, <1>6 DEF Gone
<1>9. to_client' = to_client \o x
  <2>. HIDE DEF fs
  <2>. QED  BY <1>1, <1>3
<1>. HIDE DEF fs, t, x
<1>10. to_client' \in Seq(Octet) /\ Len(to_client') = Len(to_client) + Len(x) /\ Len(x) \in Nat /\ Len(to_client) \in Nat
  BY <1>4, <1>7, <1>9, ConcatProperties, LenProperties
<1>11. Gone' = Gone + 1 /\ Len(t) <= Len(fs)
  BY <1>3, <1>4, <1>5, <1>8
<1>12. \A j \in 1 .. Len(t) : t[j] = fs[Gone' + j]
  <2>1. \A j \in 1 .. Len(t) : j + 1 \in 1 .. Len(fragments) /\ Gone + (j + 1) = (Gone + 1) + j
    BY <1>3, <1>4, <1>5
  <2>. QED  BY <2>1, <1>4, <1>5, <1>11
<1>13. ServerTypes'
  <2>1. \A i : Parted(script, i)' = Parted(script, i)
    BY <1>1 DEF Parted
  <2>2. /\ Len(fragments') <= Len(Parted(script', current'))
        /\ \A j \in 1 .. Len(fragments') : fragments'[j] = Parted(script', current')[Gone' + j]
    BY <1>1, <1>6, <1>11, <1>12 DEF fs
  <2>. QED  BY <2>1, <2>2, <1>1, <1>2, <1>3, <1>5, <1>10 DEF ServerTypes
<1>14. ClientTypes'
  BY <1>1, <1>2 DEF ClientTypes
<1>15. History'
  BY <1>1 DEF History
<1>16. CASE Stopped
  BY <1>1, <1>13, <1>14, <1>15, <1>16 DEF Inv, Types, Stopped
<1>17. CASE InStep
  <2>. DEFINE w == Whole(script)
              base == Start(script, Len(log) + 1)
              at == Place(script, current, Gone)
  <2>1. Underway /\ Waiting /\ Awaited
    BY <1>17 DEF InStep
  <2>2. /\ Len(log) \in Nat /\ base \in Nat /\ w \in Seq(Octet) /\ Len(buffer) \in Nat /\ current \in Nat
    BY <2>1, <1>1, UnderwayIs
  <2>3. /\ StandsAt(buffer, w, base) /\ StandsAt(to_client, w, base + Len(buffer))
        /\ base + Len(buffer) + Len(to_client) = at
    BY <2>1, <1>3 DEF Underway, Reached
  <2>4. StandsAt(x, w, at) /\ Place(script, current, Gone + 1) = at + Len(x) /\ at \in Nat
    BY <1>7
  <2>5. Reached' = Place(script, current, Gone + 1)
    BY <1>1, <1>3, <1>11 DEF Reached
  <2>. HIDE DEF w, base, at
  <2>6. StandsAt(to_client', w, base + Len(buffer))
    <3>1. base + Len(buffer) \in Nat
      BY <2>2
    <3>2. StandsAt(to_client \o x, w, base + Len(buffer))
      BY <3>1, <2>2, <2>3, <2>4, <1>4, <1>7, StandsConcat
    <3>. QED  BY <3>2, <1>9
  <2>7. base + Len(buffer) + Len(to_client') = Reached'
    BY <2>2, <2>3, <2>4, <2>5, <1>10
  <2>8. Len(log) <= current /\ Len(log) # current
    BY <2>1, <1>1 DEF Underway
  <2>9. Underway'
    <3>1. /\ StandsAt(buffer', Whole(script'), Start(script', Len(log') + 1))
          /\ StandsAt(to_client', Whole(script'), Start(script', Len(log') + 1) + Len(buffer'))
          /\ Start(script', Len(log') + 1) + Len(buffer') + Len(to_client') = Reached'
      BY <1>1, <2>3, <2>6, <2>7 DEF w, base
    <3>2. codec' = CodecOf(Len(log') + 1) /\ Len(log') <= current' /\ (Len(log') = current' => fragments' = <<>>)
      BY <1>1, <2>1, <2>8 DEF Underway
    <3>. QED  BY <3>1, <3>2, Zenon DEF Underway
  <2>10. Waiting' /\ Awaited'
    BY <1>1, <2>1, Zenon DEF Waiting, Awaited
  <2>. QED  BY <2>9, <2>10, <1>13, <1>14, <1>15 DEF Inv, Types, InStep
<1>. QED  BY <1>16, <1>17 DEF Inv

\* The server goes on to its next message.
LEMMA NextResponseKeepsInv ==
  ASSUME Inv, NextResponse
  PROVE  Inv'
<1>. DEFINE fs == Parted(script, current + 1)
<1>1. /\ Types /\ History
      /\ fragments = <<>> /\ current < Len(script) /\ current' = current + 1
      /\ sent' = Append(sent, fs) /\ fragments' = fs
      /\ script' = script /\ to_client' = to_client /\ codec' = codec
      /\ buffer' = buffer /\ fresh' = fresh /\ expected' = expected /\ log' = log
  BY DEF Inv, NextResponse, Parted
<1>2. /\ ServerTypes /\ ClientTypes
      /\ script \in Scripts /\ Len(script) \in Nat /\ current \in Nat /\ current \in 0 .. Len(script)
      /\ Reached = Start(script, current + 1)
  BY <1>1, ServerIs DEF Types
<1>3. current + 1 \in 1 .. Len(script) /\ current + 1 # 0
  BY <1>1, <1>2
<1>4. fs \in Seq(Fragments) /\ Len(fs) \in Nat /\ Place(script, current + 1, 0) = Start(script, current + 1)
  BY <1>2, <1>3, PlacesAre
<1>5. Gone' = Len(fs) - Len(fs)
  BY <1>1 DEF Gone
<1>. HIDE DEF fs
<1>6. Gone' = 0
  BY <1>4, <1>5
<1>7. Reached' = Reached
  BY <1>1, <1>2, <1>3, <1>4, <1>6 DEF Reached
<1>8. ServerTypes'
  <2>1. sent \in Seq(Seq(Fragments)) /\ Len(sent) = current /\ \A i \in 1 .. current : sent[i] = Parted(script, i)
    BY <1>2 DEF ServerTypes
  <2>2. /\ sent' \in Seq(Seq(Fragments)) /\ Len(sent') = current + 1 /\ sent'[current + 1] = fs
        /\ \A i \in 1 .. current : sent'[i] = sent[i]
    BY <2>1, <1>1, <1>4, AppendSet
  <2>3. \A i \in 1 .. current + 1 : sent'[i] = Parted(script, i)
    <3>1. \A i \in 1 .. current + 1 : i \in 1 .. current \/ i = current + 1
      BY <1>2
    <3>. QED  BY <3>1, <2>1, <2>2 DEF fs
  <2>4. /\ Len(fragments') <= Len(Parted(script', current'))
        /\ \A j \in 1 .. Len(fragments') : fragments'[j] = Parted(script', current')[Gone' + j]
    <3>1. \A j \in 1 .. Len(fs) : 0 + j = j
      BY <1>4
    <3>2. Len(fs) <= Len(fs) /\ fs = Parted(script', current')
      BY <1>1, <1>4 DEF fs
    <3>. QED  BY <3>1, <3>2, <1>1, <1>6
  <2>5. current' \in 0 .. Len(script')
    BY <1>1, <1>2
  <2>. QED  BY <2>2, <2>3, <2>4, <2>5, <1>1, <1>2, <1>3, <1>4 DEF ServerTypes
<1>9. ClientTypes'
  BY <1>1, <1>2 DEF ClientTypes
<1>10. History'
  <2>1. ASSUME NEW i \in DOMAIN log
        PROVE  \/ /\ log[i].what = "Accepted" /\ log[i].value = script[i].value
                  /\ i < current + 1 \/ (i = current + 1 /\ fragments' = <<>>)
               \/ log[i].what = "Failed" /\ script[i].value = <<>>
    <3>1. i \in Nat
      BY <1>2, OwnElements DEF ClientTypes
    <3>2. i < current \/ i = current => i < current + 1
      BY <3>1, <1>2
    <3>. QED  BY <3>2, <1>1 DEF History
  <2>. QED  BY <2>1, <1>1 DEF History
<1>11. CASE Stopped
  BY <1>1, <1>8, <1>9, <1>10, <1>11 DEF Inv, Types, Stopped
<1>12. CASE InStep
  <2>1. Underway /\ Waiting /\ Awaited
    BY <1>12 DEF InStep
  <2>2. Len(log) \in Nat /\ Len(log) <= current
    BY <2>1, <1>1, UnderwayIs DEF Underway
  <2>3. /\ Len(log) <= current + 1 /\ Len(log) # current + 1
        /\ Len(log) < current => Len(log) < current + 1
    BY <2>2, <1>2
  <2>4. Underway'
    BY <2>1, <2>3, <1>1, <1>7, Zenon DEF Underway
  <2>5. Waiting' /\ Awaited'
    BY <2>1, <2>3, <1>1, Zenon DEF Waiting, Awaited
  <2>. QED  BY <2>4, <2>5, <1>8, <1>9, <1>10 DEF Inv, Types, InStep
<1>. QED  BY <1>11, <1>12 DEF Inv

-----------------------------------------------------------------------------
(* The client.                                                             *)

\* The client receives an octet.
LEMMA ReceiveKeepsInv ==
  ASSUME Inv, Receive
  PROVE  Inv'
<1>1. /\ Types /\ History
      /\ to_client # <<>> /\ buffer' = Append(buffer, Head(to_client)) /\ to_client' = Tail(to_client)
      /\ fresh' = TRUE
      /\ script' = script /\ current' = current /\ sent' = sent /\ fragments' = fragments
      /\ codec' = codec /\ expected' = expected /\ log' = log
  BY DEF Inv, Receive
<1>2. ServerTypes /\ ClientTypes /\ to_client \in Seq(Octet) /\ buffer \in Seq(Octet)
  BY <1>1 DEF Types, ServerTypes, ClientTypes
<1>3. Head(to_client) \in Octet /\ Tail(to_client) \in Seq(Octet)
  BY <1>1, <1>2, HeadTailSet
<1>4. /\ buffer' \in Seq(Octet) /\ to_client' \in Seq(Octet) /\ buffer' # <<>>
      /\ Len(buffer') = Len(buffer) + 1 /\ Len(buffer) \in Nat
  <2>1. buffer' \in Seq(Octet) /\ Len(buffer') = Len(buffer) + 1 /\ Len(buffer) \in Nat
    BY <1>1, <1>2, <1>3, AppendSet
  <2>2. buffer' # <<>>
    <3>1. Len(buffer') # 0
      BY <2>1
    <3>. QED  BY <3>1, EmptySeq
  <2>. QED  BY <2>1, <2>2, <1>1, <1>3
<1>5. Gone' = Gone /\ Reached' = Reached
  BY <1>1 DEF Gone, Reached
<1>6. ServerTypes' /\ ClientTypes'
  <2>1. ClientTypes'
    BY <1>1, <1>2, <1>4 DEF ClientTypes
  <2>2. ServerTypes'
    BY <1>1, <1>2, <1>4, <1>5 DEF ServerTypes
  <2>. QED  BY <2>1, <2>2
<1>7. History'
  BY <1>1 DEF History
<1>8. CASE Stopped
  BY <1>1, <1>6, <1>7, <1>8 DEF Inv, Types, Stopped
<1>9. CASE InStep
  <2>. DEFINE w == Whole(script)
              base == Start(script, Len(log) + 1)
  <2>1. Underway /\ Waiting /\ Awaited
    BY <1>9 DEF InStep
  <2>2. base \in Nat /\ w \in Seq(Octet) /\ Len(to_client) \in Nat /\ script \in Scripts
        /\ Len(log) \in Nat /\ current \in Nat /\ current \in 0 .. Len(script) /\ Len(script) \in Nat
    BY <2>1, <1>1, UnderwayIs
  <2>3. /\ StandsAt(buffer, w, base) /\ StandsAt(to_client, w, base + Len(buffer))
        /\ base + Len(buffer) + Len(to_client) = Reached
    BY <2>1 DEF Underway
  <2>. HIDE DEF w, base
  <2>4. /\ StandsAt(buffer', w, base) /\ StandsAt(to_client', w, base + Len(buffer'))
        /\ Len(to_client') = Len(to_client) - 1 /\ Len(to_client) > 0
    BY <2>2, <2>3, <1>1, <1>2, StandsMove
  <2>5. base + Len(buffer') + Len(to_client') = Reached'
    BY <2>2, <2>3, <2>4, <1>4, <1>5
  <2>6. Underway'
    <3>1. /\ StandsAt(buffer', Whole(script'), Start(script', Len(log') + 1))
          /\ StandsAt(to_client', Whole(script'), Start(script', Len(log') + 1) + Len(buffer'))
          /\ Start(script', Len(log') + 1) + Len(buffer') + Len(to_client') = Reached'
      BY <1>1, <2>4, <2>5 DEF w, base
    <3>2. codec' = CodecOf(Len(log') + 1) /\ Len(log') <= current' /\ (Len(log') = current' => fragments' = <<>>)
      BY <1>1, <2>1 DEF Underway
    <3>. QED  BY <3>1, <3>2, Zenon DEF Underway
  <2>7. Waiting'
    BY <1>1 DEF Waiting
  <2>8. Awaited'
    <3>. DEFINE fs == Parted(script, Len(log) + 1)
    <3>1. SUFFICES ASSUME expected # <<>>
                   PROVE  Len(log) < current /\ Announced(fs, expected[1], buffer')
      BY <1>1 DEF Awaited
    <3>2. Len(log) < current /\ Announced(fs, expected[1], buffer)
      BY <2>1, <3>1 DEF Awaited
    <3>3. Len(log) + 1 \in 1 .. Len(script)
      BY <3>2, <2>2
    <3>4. fs \in Seq(Fragments)
      BY <3>3, <2>2, PlacesAre
    <3>. HIDE DEF fs
    <3>5. PICK i \in 2 .. Len(fs) :
            /\ fs[i].kind = "Literal" /\ Len(fs[i].data) = expected[1]
            /\ IsPrefix(Written(SubSeq(fs, 1, i - 1)), buffer)
      BY <3>2 DEF Announced
    <3>6. Written(SubSeq(fs, 1, i - 1)) \in Seq(Octet)
      BY <3>4, PartsAre
    <3>7. IsPrefix(Written(SubSeq(fs, 1, i - 1)), buffer')
      BY <3>5, <3>6, <1>1, <1>2, <1>3, PrefixOfMore
    <3>. QED  BY <3>2, <3>5, <3>7 DEF Announced
  <2>. QED  BY <2>6, <2>7, <2>8, <1>6, <1>7 DEF Inv, Types, InStep
<1>. QED  BY <1>8, <1>9 DEF Inv

\* What the decoder is given, and what it makes of it.
LEMMA DecodeFacts ==
  ASSUME Inv, DecodeBuffer
  PROVE  /\ Types /\ History /\ Underway /\ Waiting /\ Awaited
         /\ script' = script /\ current' = current /\ sent' = sent
         /\ fragments' = fragments /\ to_client' = to_client
         /\ Len(log) < current /\ Len(log) + 1 \in 1 .. Len(script)
         /\ Len(Written(Parted(script, Len(log) + 1))) \in Nat
         /\ ServerTypes' /\ Reached' = Reached
         /\ Understood(script[Len(log) + 1].value, Parted(script, Len(log) + 1), buffer, decode(codec, buffer))
<1>. DEFINE n == Len(log) + 1
            w == Whole(script)
<1>1. /\ Types /\ History /\ fresh /\ codec # "None"
      /\ script' = script /\ current' = current /\ sent' = sent
      /\ fragments' = fragments /\ to_client' = to_client
  BY DEF Inv, DecodeBuffer
<1>2. Underway /\ Waiting /\ Awaited
  BY <1>1 DEF Inv, Stopped, InStep
<1>3. /\ script \in Scripts /\ Len(script) \in Nat /\ current \in Nat /\ current \in 0 .. Len(script)
      /\ Len(log) \in Nat /\ Start(script, n) \in Nat
      /\ buffer \in Seq(Octet) /\ Len(buffer) \in Nat /\ Len(to_client) \in Nat /\ ScriptFits(script)
  BY <1>1, <1>2, UnderwayIs DEF Types, ServerTypes
<1>4. buffer # <<>> /\ Len(buffer) # 0
  BY <1>1, <1>3, EmptySeq DEF Types, ClientTypes
<1>5. Len(log) < current
  <2>1. SUFFICES ASSUME Len(log) = current PROVE FALSE
    BY <1>2, <1>3 DEF Underway
  <2>2. Reached = Start(script, n)
    BY <2>1, <1>1, <1>2, ServerIs DEF Types, Underway
  <2>3. Start(script, n) + Len(buffer) + Len(to_client) = Reached
    BY <1>2 DEF Underway
  <2>. HIDE DEF n
  <2>. QED  BY <2>2, <2>3, <1>3, <1>4
<1>6. n \in 1 .. Len(script)
  BY <1>3, <1>5
<1>7. codec = CodecOf(n) /\ StandsAt(buffer, w, Start(script, n))
  BY <1>2 DEF Underway
<1>. HIDE DEF n
<1>8. Fits(decode(codec, buffer), script[n].value, Parted(script, n), buffer)
  BY <1>3, <1>4, <1>6, <1>7, DecodedIs
<1>9. Len(Written(Parted(script, n))) \in Nat
  BY <1>3, <1>6, StartsAre, LenProperties
<1>10. Understood(script[n].value, Parted(script, n), buffer, decode(codec, buffer))
  BY <1>3, <1>8, <1>9, FitsIs
<1>11. Gone' = Gone /\ Reached' = Reached
  BY <1>1 DEF Gone, Reached
<1>12. ServerTypes'
  BY <1>1, <1>11 DEF Types, ServerTypes
<1>. QED  BY <1>1, <1>2, <1>5, <1>6, <1>9, <1>10, <1>11, <1>12 DEF n

\* There is a part of a message.
LEMMA WaitKeepsInv ==
  ASSUME Inv, DecodeBuffer, WaitForMore(decode(codec, buffer))
  PROVE  Inv'
<1>1. /\ decode(codec, buffer).res = "Incomplete" /\ fresh' = FALSE
      /\ buffer' = buffer /\ codec' = codec /\ expected' = expected /\ log' = log
  BY DEF WaitForMore
<1>2. /\ Types /\ History /\ Underway /\ Awaited
      /\ script' = script /\ current' = current /\ fragments' = fragments /\ to_client' = to_client
      /\ ServerTypes' /\ Reached' = Reached
      /\ Len(log) < current /\ Len(buffer) < Len(Written(Parted(script, Len(log) + 1)))
  BY <1>1, DecodeFacts DEF Understood
<1>3. ClientTypes' /\ History'
  BY <1>1, <1>2 DEF Types, ClientTypes, History
<1>4. Underway' /\ Awaited'
  BY <1>1, <1>2, Zenon DEF Underway, Awaited
<1>5. Waiting'
  BY <1>1, <1>2, Zenon DEF Waiting
<1>. QED  BY <1>2, <1>3, <1>4, <1>5 DEF Inv, Types, InStep

\* There is an announcement of a literal.
LEMMA ExpectKeepsInv ==
  ASSUME Inv, DecodeBuffer, ExpectLiteral(decode(codec, buffer))
  PROVE  Inv'
<1>. DEFINE d == decode(codec, buffer)
            fs == Parted(script, Len(log) + 1)
<1>1. /\ d.res = "LiteralFound" /\ expected' = <<d.length>> /\ fresh' = FALSE
      /\ buffer' = buffer /\ codec' = codec /\ log' = log
  BY DEF ExpectLiteral
<1>2. /\ Types /\ History /\ Underway
      /\ script' = script /\ current' = current /\ fragments' = fragments /\ to_client' = to_client
      /\ ServerTypes' /\ Reached' = Reached
      /\ Len(log) < current /\ Len(buffer) < Len(Written(fs)) /\ StopsAtLiteral(fs, buffer, d)
  BY <1>1, DecodeFacts DEF Understood
<1>. HIDE DEF d
<1>3. Len(expected') = 1 /\ expected'[1] = d.length
  BY <1>1
<1>4. ClientTypes' /\ History'
  <2>1. Len(expected') <= 1
    BY <1>3
  <2>. QED  BY <2>1, <1>1, <1>2 DEF Types, ClientTypes, History
<1>5. Underway'
  BY <1>1, <1>2, Zenon DEF Underway
<1>6. Waiting'
  BY <1>1, <1>2, Zenon DEF Waiting
<1>7. Announced(fs, expected'[1], buffer')
  BY <1>1, <1>2, <1>3, Zenon DEF StopsAtLiteral, Announced
<1>8. Awaited'
  BY <1>1, <1>2, <1>7, Zenon DEF Awaited
<1>. QED  BY <1>2, <1>4, <1>5, <1>6, <1>8 DEF Inv, Types, InStep

\* What comes next is no message.
LEMMA FailKeepsInv ==
  ASSUME Inv, DecodeBuffer, Fail(decode(codec, buffer))
  PROVE  Inv'
<1>. DEFINE d == decode(codec, buffer)
            entry == [what |-> d.res, value |-> <<>>]
<1>1. /\ d.res \in {"Failed", "Panic"} /\ log' = Append(log, entry)
      /\ buffer' = <<>> /\ fresh' = FALSE /\ codec' = "None" /\ expected' = <<>>
  BY DEF Fail
<1>2. /\ Types /\ History
      /\ script' = script /\ current' = current /\ fragments' = fragments
      /\ ServerTypes'
  BY DecodeFacts
<1>3. d.res = "Failed" /\ script[Len(log) + 1].value = <<>>
  <2>1. d.res \in {"Ok", "Failed", "Incomplete", "LiteralFound"} /\ (d.res = "Failed" => script[Len(log) + 1].value = <<>>)
    BY DecodeFacts DEF Understood
  <2>. HIDE DEF d
  <2>. QED  BY <2>1, <1>1
<1>4. entry.what = "Failed"
  BY <1>3
<1>. HIDE DEF d, entry
<1>5. /\ Len(log) \in Nat /\ DOMAIN log = 1 .. Len(log)
      /\ log' \in Seq(ToSet(log')) /\ DOMAIN log' = 1 .. Len(log) + 1 /\ Len(log') = Len(log) + 1
      /\ log'[Len(log) + 1] = entry /\ \A i \in 1 .. Len(log) : log'[i] = log[i]
  BY <1>1, <1>2, QueueAppend, OwnElements DEF Types, ClientTypes
<1>6. \A i \in DOMAIN log' : \/ i = Len(log) + 1 /\ log'[i] = entry
                             \/ i \in DOMAIN log /\ log'[i] = log[i]
  BY <1>5
<1>7. History'
  <2>1. ASSUME NEW i \in DOMAIN log'
        PROVE  \/ /\ log'[i].what = "Accepted" /\ log'[i].value = script[i].value
                  /\ i < current \/ (i = current /\ fragments = <<>>)
               \/ log'[i].what = "Failed" /\ script[i].value = <<>>
    BY <1>2, <1>3, <1>4, <1>6 DEF History
  <2>. QED  BY <2>1, <1>2 DEF History
<1>8. ClientTypes'
  <2>1. <<>> \in Seq(Octet) /\ Len(<<>>) = 0 /\ 0 <= 1
    BY EmptySeq
  <2>2. Len(expected') <= 1 /\ buffer' \in Seq(Octet)
    BY <2>1, <1>1
  <2>3. fresh' \in BOOLEAN /\ (fresh' => buffer' # <<>>)
    BY <1>1
  <2>4. \A i \in DOMAIN log' : log'[i].what \in {"Accepted", "Failed"}
    BY <1>2, <1>4, <1>6 DEF Types, ClientTypes
  <2>. QED  BY <2>2, <2>3, <2>4, <1>5 DEF ClientTypes
<1>9. Stopped'
  <2>1. Len(log') # 0
    BY <1>5
  <2>. QED  BY <2>1, <1>1, EmptySeq DEF Stopped
<1>. QED  BY <1>2, <1>7, <1>8, <1>9 DEF Inv, Types

\* When a message has been decoded, all of it has been sent.
LEMMA AcceptFacts ==
  ASSUME Inv, DecodeBuffer, Accept(decode(codec, buffer))
  PROVE  /\ decode(codec, buffer).out = script[Len(log) + 1].value
         /\ Len(log) + 1 = current => fragments = <<>>
         /\ codec' = CodecOf(Len(log) + 2)
         /\ buffer' \in Seq(Octet)
         /\ StandsAt(buffer', Whole(script), Start(script, Len(log) + 2))
         /\ StandsAt(to_client, Whole(script), Start(script, Len(log) + 2) + Len(buffer'))
         /\ Start(script, Len(log) + 2) + Len(buffer') + Len(to_client) = Reached
<1>. DEFINE d == decode(codec, buffer)
            n == Len(log) + 1
            fs == Parted(script, n)
            size == Len(Written(fs))
            base == Start(script, n)
            w == Whole(script)
            next == Start(script, n + 1)
<1>1. d.res = "Ok" /\ buffer' = SubSeq(buffer, d.at, Len(buffer)) /\ codec' = "Response"
  BY DEF Accept
<1>2. /\ Types /\ ServerTypes /\ Underway /\ Len(log) < current /\ n \in 1 .. Len(script)
      /\ Understood(script[n].value, fs, buffer, d)
  BY DecodeFacts DEF Types
<1>3. /\ script \in Scripts /\ ScriptFits(script) /\ Len(script) \in Nat /\ Len(log) \in Nat /\ current \in Nat
      /\ w \in Seq(Octet) /\ base \in Nat
      /\ buffer \in Seq(Octet) /\ Len(buffer) \in Nat /\ Len(to_client) \in Nat
  BY <1>2, UnderwayIs DEF ServerTypes
<1>4. Len(buffer) >= size /\ d.out = script[n].value /\ d.at = size + 1
  BY <1>1, <1>2 DEF Understood
<1>5. /\ next = base + size /\ size \in Nat
      /\ Place(script, n, Len(fs)) = next /\ Len(fs) \in Nat
  <2>1. Written(fs) \in Seq(Octet)
    BY <1>2, <1>3, StartsAre
  <2>. QED  BY <2>1, <1>2, <1>3, PlacesAre, LenProperties
<1>6. /\ StandsAt(buffer, w, base) /\ StandsAt(to_client, w, base + Len(buffer))
      /\ base + Len(buffer) + Len(to_client) = Reached
  BY <1>2 DEF Underway
<1>7. n + 1 = Len(log) + 2 /\ n \in Nat /\ n # 0 /\ n + 1 # 1
  BY <1>3
<1>8. codec' = CodecOf(Len(log) + 2)
  BY <1>1, <1>7 DEF CodecOf
<1>. HIDE DEF d, n, fs, size, base, w, next
<1>9. /\ buffer' \in Seq(Octet) /\ Len(buffer') = Len(buffer) - size
      /\ StandsAt(buffer', w, base + size)
  <2>1. size \in 0 .. Len(buffer)
    BY <1>3, <1>4, <1>5
  <2>2. buffer' = SubSeq(buffer, size + 1, Len(buffer))
    BY <1>1, <1>4
  <2>. QED  BY <2>1, <2>2, <1>3, <1>6, StandsRest
<1>10. base + Len(buffer) = next + Len(buffer') /\ next + Len(buffer') + Len(to_client) = Reached /\ next \in Nat
  BY <1>3, <1>4, <1>5, <1>6, <1>9
<1>11. StandsAt(buffer', w, next) /\ StandsAt(to_client, w, next + Len(buffer'))
  BY <1>5, <1>6, <1>9, <1>10
<1>12. ASSUME n = current PROVE fragments = <<>>
  <2>1. /\ Gone \in 0 .. Len(fs) /\ (fragments = <<>> <=> Gone = Len(fs))
        /\ Reached = Place(script, n, Gone)
    BY <1>2, <1>7, <1>12, ServerIs DEF fs, Reached
  <2>2. SUFFICES ASSUME Gone # Len(fs) PROVE FALSE
    BY <2>1
  <2>3. /\ Len(fs) \in 1 .. Len(fs) /\ Len(fs) - 1 \in Gone .. Len(fs) /\ Len(fs) - 1 \in 0 .. Len(fs)
    BY <2>1, <2>2, <1>5
  <2>. DEFINE P(k) == Place(script, n, k)
              x == fs[Len(fs)].data
  <2>4. /\ P(Gone) <= P(Len(fs) - 1) /\ P(Len(fs) - 1) \in Nat /\ P(Gone) \in Nat
        /\ P(Len(fs)) = P(Len(fs) - 1) + Len(x) /\ x \in Seq(Octet)
    <3>1. /\ \A k \in 0 .. Len(fs) : P(k) \in Nat
          /\ \A k \in 1 .. Len(fs) : fs[k].data \in Seq(Octet) /\ P(k) = P(k - 1) + Len(fs[k].data)
          /\ \A i \in 0 .. Len(fs) : \A k \in i .. Len(fs) : P(i) <= P(k)
      BY <1>2, <1>3, PlacesAre DEF fs
    <3>. HIDE DEF P
    <3>. QED  BY <3>1, <2>1, <2>3
  <2>5. Len(x) \in Nat /\ Len(x) # 0
    <3>1. x # <<>>
      BY <1>2, <1>3, ContractIs DEF fs
    <3>. QED  BY <3>1, <2>4, LenProperties, EmptySeq
  <2>6. P(Gone) = Reached /\ P(Len(fs)) = next
    BY <1>5, <2>1
  <2>. HIDE DEF P, x
  <2>7. Len(buffer') \in Nat
    BY <1>9, LenProperties
  <2>8. next <= Reached
    BY <2>7, <1>3, <1>10
  <2>. QED  BY <2>4, <2>5, <2>6, <2>8
<1>13. /\ StandsAt(buffer', Whole(script), Start(script, Len(log) + 2))
       /\ StandsAt(to_client, Whole(script), Start(script, Len(log) + 2) + Len(buffer'))
       /\ Start(script, Len(log) + 2) + Len(buffer') + Len(to_client) = Reached
  BY <1>7, <1>10, <1>11 DEF w, next
<1>. QED  BY <1>4, <1>8, <1>9, <1>12, <1>13 DEF d, n

\* A message is decoded.
LEMMA AcceptKeepsInv ==
  ASSUME Inv, DecodeBuffer, Accept(decode(codec, buffer))
  PROVE  Inv'
<1>. DEFINE d == decode(codec, buffer)
            entry == [what |-> "Accepted", value |-> d.out]
<1>1. /\ fresh' = (buffer' # <<>>) /\ log' = Append(log, entry) /\ expected' = <<>>
  BY DEF Accept
<1>2. /\ Types /\ History /\ ServerTypes' /\ Reached' = Reached
      /\ script' = script /\ current' = current /\ fragments' = fragments /\ to_client' = to_client
      /\ Len(log) < current /\ Underway
  BY DecodeFacts
<1>3. Len(log) \in Nat /\ current \in Nat
  BY <1>2, UnderwayIs
<1>4. /\ d.out = script[Len(log) + 1].value
      /\ Len(log) + 1 = current => fragments = <<>>
      /\ codec' = CodecOf(Len(log) + 2) /\ buffer' \in Seq(Octet)
  BY AcceptFacts
<1>5. /\ StandsAt(buffer', Whole(script), Start(script, Len(log) + 2))
      /\ StandsAt(to_client, Whole(script), Start(script, Len(log) + 2) + Len(buffer'))
      /\ Start(script, Len(log) + 2) + Len(buffer') + Len(to_client) = Reached
  BY AcceptFacts
<1>6. entry.what = "Accepted" /\ entry.value = script[Len(log) + 1].value
  BY <1>4
<1>. HIDE DEF d, entry
<1>7. /\ DOMAIN log = 1 .. Len(log)
      /\ log' \in Seq(ToSet(log')) /\ DOMAIN log' = 1 .. Len(log) + 1 /\ Len(log') = Len(log) + 1
      /\ log'[Len(log) + 1] = entry /\ \A i \in 1 .. Len(log) : log'[i] = log[i]
  BY <1>1, <1>2, QueueAppend, OwnElements DEF Types, ClientTypes
<1>8. \A i \in DOMAIN log' : \/ i = Len(log) + 1 /\ log'[i] = entry
                             \/ i \in DOMAIN log /\ log'[i] = log[i]
  BY <1>7
<1>9. ClientTypes'
  <2>1. Len(expected') <= 1
    <3>1. Len(<<>>) = 0 /\ 0 <= 1
      BY EmptySeq
    <3>. QED  BY <3>1, <1>1
  <2>2. fresh' \in BOOLEAN /\ (fresh' => buffer' # <<>>)
    BY <1>1
  <2>3. \A i \in DOMAIN log' : log'[i].what \in {"Accepted", "Failed"}
    BY <1>2, <1>6, <1>8 DEF Types, ClientTypes
  <2>. QED  BY <2>1, <2>2, <2>3, <1>4, <1>7 DEF ClientTypes
<1>10. History'
  <2>1. ASSUME NEW i \in DOMAIN log'
        PROVE  \/ /\ log'[i].what = "Accepted" /\ log'[i].value = script[i].value
                  /\ i < current \/ (i = current /\ fragments = <<>>)
               \/ log'[i].what = "Failed" /\ script[i].value = <<>>
    <3>1. CASE i = Len(log) + 1 /\ log'[i] = entry
      <4>1. Len(log) + 1 < current \/ (Len(log) + 1 = current /\ fragments = <<>>)
        BY <1>2, <1>3, <1>4
      <4>. QED  BY <4>1, <3>1, <1>6
    <3>2. CASE i \in DOMAIN log /\ log'[i] = log[i]
      BY <3>2, <1>2 DEF History
    <3>. QED  BY <3>1, <3>2, <1>8
  <2>. QED  BY <2>1, <1>2 DEF History
<1>11. Len(log') + 1 = Len(log) + 2 /\ Len(log') <= current
  BY <1>2, <1>3, <1>7
<1>12. Underway'
  <2>1. codec' = CodecOf(Len(log') + 1) /\ (Len(log') = current' => fragments' = <<>>)
    BY <1>2, <1>4, <1>7, <1>11
  <2>2. /\ StandsAt(buffer', Whole(script'), Start(script', Len(log') + 1))
        /\ StandsAt(to_client', Whole(script'), Start(script', Len(log') + 1) + Len(buffer'))
        /\ Start(script', Len(log') + 1) + Len(buffer') + Len(to_client') = Reached'
    BY <1>2, <1>5, <1>11, Zenon
  <2>. QED  BY <2>1, <2>2, <1>2, <1>11, Zenon DEF Underway
<1>13. Waiting' /\ Awaited'
  BY <1>1 DEF Waiting, Awaited
<1>. QED  BY <1>2, <1>9, <1>10, <1>12, <1>13 DEF Inv, Types, InStep

-----------------------------------------------------------------------------
(* The theorems.                                                           *)

\* The invariant holds at the beginning, when the codecs fit the scripts.
LEMMA InitInv ==
  ASSUME \A s \in Scripts : ScriptFits(s)
  PROVE  Init => Inv
<1>1. SUFFICES ASSUME Init PROVE Inv
  OBVIOUS
<1>2. /\ script \in Scripts /\ ScriptFits(script) /\ current = 0 /\ sent = <<>> /\ fragments = <<>>
      /\ to_client = <<>> /\ codec = "Greeting" /\ buffer = <<>> /\ fresh = FALSE
      /\ expected = <<>> /\ log = <<>>
  BY <1>1 DEF Init
<1>3. /\ Len(script) \in Nat /\ Start(script, 1) = 0
      /\ Whole(script) \in Seq(Octet) /\ Len(Whole(script)) \in Nat
  BY <1>2, MessagesAre, StartsAre
<1>4. \A X : <<>> \in Seq(X) /\ Len(<<>>) = 0
  BY EmptySeq
<1>5. DOMAIN <<>> = {} /\ 0 <= 1 /\ 0 + 1 = 1
  OBVIOUS
<1>6. ServerTypes
  <2>1. current \in 0 .. Len(script) /\ 1 .. current = {}
    BY <1>2, <1>3
  <2>. QED  BY <2>1, <1>2, <1>4 DEF ServerTypes
<1>7. ClientTypes
  <2>1. buffer \in Seq(Octet) /\ log \in Seq(ToSet(log)) /\ Len(expected) <= 1
    BY <1>2, <1>4, <1>5
  <2>2. fresh \in BOOLEAN /\ (fresh => buffer # <<>>) /\ \A i \in DOMAIN log : FALSE
    BY <1>2, <1>5
  <2>. QED  BY <2>1, <2>2 DEF ClientTypes
<1>8. History
  BY <1>2, <1>5 DEF History
<1>9. Underway
  <2>1. StandsAt(<<>>, Whole(script), 0)
    <3>1. 0 \in 0 .. Len(Whole(script))
      BY <1>3
    <3>. QED  BY <3>1, <1>3, StandsEmpty
  <2>2. Len(log) = 0 /\ Len(buffer) = 0 /\ Len(to_client) = 0 /\ Len(log) + 1 = 1 /\ Reached = 0
    BY <1>2, <1>4 DEF Reached
  <2>3. CodecOf(1) = "Greeting"
    BY DEF CodecOf
  <2>4. codec = CodecOf(Len(log) + 1) /\ Len(log) <= current /\ fragments = <<>>
    BY <2>2, <2>3, <1>2
  <2>5. /\ StandsAt(buffer, Whole(script), Start(script, Len(log) + 1))
        /\ StandsAt(to_client, Whole(script), Start(script, Len(log) + 1) + Len(buffer))
        /\ Start(script, Len(log) + 1) + Len(buffer) + Len(to_client) = Reached
    <3>1. 0 + 0 = 0
      OBVIOUS
    <3>. QED  BY <2>1, <2>2, <3>1, <1>2, <1>3
  <2>. QED  BY <2>4, <2>5, Zenon DEF Underway
<1>10. Waiting /\ Awaited
  BY <1>2 DEF Waiting, Awaited
<1>. QED  BY <1>6, <1>7, <1>8, <1>9, <1>10 DEF Inv, Types, InStep

\* Every step keeps the invariant.
LEMMA NextKeepsInv == Inv /\ [Next]_vars => Inv'
<1>1. SUFFICES ASSUME Inv, [Next]_vars PROVE Inv'
  OBVIOUS
<1>2. CASE ServerStep
  BY <1>1, <1>2, SendKeepsInv, NextResponseKeepsInv DEF ServerStep
<1>3. CASE Receive
  BY <1>1, <1>3, ReceiveKeepsInv
<1>4. CASE DecodeBuffer
  <2>. DEFINE d == decode(codec, buffer)
  <2>1. Accept(d) \/ WaitForMore(d) \/ ExpectLiteral(d) \/ Fail(d)
    BY <1>4, Zenon DEF DecodeBuffer
  <2>. QED  BY <2>1, <1>1, <1>4, AcceptKeepsInv, WaitKeepsInv, ExpectKeepsInv, FailKeepsInv
<1>5. CASE UNCHANGED vars
  <2>1. /\ script' = script /\ current' = current /\ sent' = sent /\ fragments' = fragments
        /\ to_client' = to_client /\ codec' = codec /\ buffer' = buffer /\ fresh' = fresh
        /\ expected' = expected /\ log' = log
    BY <1>5 DEF vars
  <2>2. Gone' = Gone /\ Reached' = Reached
    BY <2>1 DEF Gone, Reached
  <2>3. Types' = Types /\ History' = History /\ Stopped' = Stopped
    BY <2>1, <2>2 DEF Types, ServerTypes, ClientTypes, History, Stopped
  <2>4. Underway' = Underway /\ Waiting' = Waiting /\ Awaited' = Awaited
    BY <2>1, <2>2 DEF Underway, Waiting, Awaited
  <2>. QED  BY <2>3, <2>4, <1>1 DEF Inv, InStep
<1>. QED  BY <1>1, <1>2, <1>3, <1>4, <1>5 DEF Next, ClientStep

\* The invariant is one of the specification.
LEMMA Invariance ==
  ASSUME \A s \in Scripts : ScriptFits(s)
  PROVE  Spec => []Inv
<1>1. Init => Inv
  BY InitInv
<1>2. Inv /\ [Next]_vars => Inv'
  BY NextKeepsInv
<1>. QED  BY <1>1, <1>2, PTL DEF Spec

\* The types of the state are right, there is one greeting, when the client is told
\* to expect a literal, the server sends one of just that length next, and nothing
\* is accepted before all of it was sent.
THEOREM ResponseInvariant ==
  ASSUME \A s \in Scripts : ScriptFits(s)
  PROVE  Spec => []ResponseInv
<1>1. Inv => ResponseInv
  <2>1. SUFFICES ASSUME Inv PROVE ResponseInv
    OBVIOUS
  <2>2. ServerTypes /\ ClientTypes /\ Types
    BY <2>1 DEF Inv, Types
  <2>3. current \in 0 .. Len(script) /\ Len(sent) = current /\ current \in Nat /\ Len(script) \in Nat
    BY <2>2, ServerIs DEF ServerTypes
  <2>4. Len(log) \in Nat /\ (log = <<>> <=> Len(log) = 0)
    BY <2>2, LenProperties, EmptySeq DEF ClientTypes
  <2>5. codec \in {"Greeting", "Response", "None"} /\ (codec = "Greeting" <=> log = <<>>)
    <3>1. CASE Stopped
      BY <3>1 DEF Stopped
    <3>2. CASE InStep
      <4>1. codec = CodecOf(Len(log) + 1)
        BY <3>2 DEF InStep, Underway
      <4>2. Len(log) + 1 = 1 <=> Len(log) = 0
        BY <2>4
      <4>. QED  BY <4>1, <4>2, <2>4 DEF CodecOf
    <3>. QED  BY <3>1, <3>2, <2>1 DEF Inv
  <2>6. ResponseTypeOK
    <3>1. \A i \in DOMAIN log : log[i].what \in {"Accepted", "Failed", "Panic"}
      BY <2>2 DEF ClientTypes
    <3>. QED  BY <2>2, <2>3, <2>5, <3>1 DEF ResponseTypeOK, ClientTypes
  <2>7. LiteralsAreOnTheirWay
    <3>1. SUFFICES ASSUME expected # <<>>
                   PROVE  LET fs == sent[Len(log) + 1]
                          IN  \E i \in 2 .. Len(fs) :
                                /\ fs[i].kind = "Literal"
                                /\ Len(fs[i].data) = expected[1]
                                /\ IsPrefix(Written(SubSeq(fs, 1, i - 1)), buffer)
      BY DEF LiteralsAreOnTheirWay
    <3>2. Len(log) < current /\ Announced(Parted(script, Len(log) + 1), expected[1], buffer)
      BY <2>1, <3>1 DEF Inv, Stopped, InStep, Awaited
    <3>3. Len(log) + 1 \in 1 .. current
      BY <2>3, <2>4, <3>2
    <3>4. sent[Len(log) + 1] = Parted(script, Len(log) + 1)
      BY <2>2, <3>3 DEF ServerTypes
    <3>. QED  BY <3>2, <3>4, Zenon DEF Announced
  <2>8. NothingIsReadEarly
    BY <2>1 DEF Inv, History, NothingIsReadEarly
  <2>. QED  BY <2>6, <2>7, <2>8 DEF ResponseInv
<1>2. Spec => []Inv
  BY Invariance
<1>. QED  BY <1>1, <1>2, PTL

\* What the client makes of a message is what the server meant, and no decoder
\* panics.
THEOREM MessagesAreReadAsMeant ==
  ASSUME \A s \in Scripts : ScriptFits(s)
  PROVE  Spec => []ReadAsMeant
<1>1. Inv => ReadAsMeant
  <2>1. SUFFICES ASSUME Inv, NEW i \in DOMAIN log
                 PROVE  CASE log[i].what = "Accepted" -> log[i].value = script[i].value
                          [] OTHER -> script[i].value = <<>>
    BY DEF ReadAsMeant
  <2>2. \/ log[i].what = "Accepted" /\ log[i].value = script[i].value
        \/ log[i].what = "Failed" /\ script[i].value = <<>>
    BY <2>1 DEF Inv, History
  <2>. QED  BY <2>2
<1>2. Spec => []Inv
  BY Invariance
<1>. QED  BY <1>1, <1>2, PTL

\* No message is decoded before the server has sent all of it.
THEOREM NoMessageIsReadEarly ==
  ASSUME \A s \in Scripts : ScriptFits(s)
  PROVE  Spec => []NothingIsReadEarly
<1>1. Inv => NothingIsReadEarly
  BY DEF Inv, History, NothingIsReadEarly
<1>2. Spec => []Inv
  BY Invariance
<1>. QED  BY <1>1, <1>2, PTL

\* The client never waits for octets that nobody sends.
THEOREM ClientGoesOn ==
  ASSUME \A s \in Scripts : ScriptFits(s)
  PROVE  Spec => []ClientIsNeverStuck
<1>1. Inv => ClientIsNeverStuck
  <2>1. SUFFICES ASSUME Inv, codec # "None", ~fresh, to_client = <<>>, fragments = <<>>, current = Len(script)
                 PROVE  Len(log) = Len(script) /\ buffer = <<>>
    BY DEF ClientIsNeverStuck
  <2>2. Types /\ Underway /\ Waiting /\ ServerTypes
    BY <2>1 DEF Inv, Stopped, InStep, Types
  <2>3. /\ script \in Scripts /\ Len(script) \in Nat /\ current \in Nat
        /\ Len(log) \in Nat /\ Len(buffer) \in Nat /\ Start(script, Len(log) + 1) \in Nat
        /\ Len(log) <= current /\ (buffer = <<>> <=> Len(buffer) = 0)
    BY <2>2, UnderwayIs, EmptySeq DEF Underway
  <2>4. Len(to_client) = 0
    BY <2>1, EmptySeq
  <2>5. Start(script, Len(log) + 1) + Len(buffer) = Start(script, current + 1)
    <3>1. Reached = Start(script, current + 1)
      BY <2>1, <2>2, ServerIs
    <3>2. Start(script, Len(log) + 1) + Len(buffer) + Len(to_client) = Reached
      BY <2>2 DEF Underway
    <3>. QED  BY <3>1, <3>2, <2>3, <2>4
  <2>6. CASE Len(log) = current
    <3>1. Len(buffer) = 0
      BY <2>3, <2>5, <2>6
    <3>. QED  BY <3>1, <2>1, <2>3, <2>6
  <2>7. CASE Len(log) < current
    <3>. DEFINE n == Len(log) + 1
                size == Len(Written(Parted(script, n)))
    <3>1. n \in 1 .. Len(script) /\ current + 1 \in 1 .. Len(script) + 1 /\ n + 1 \in 1 .. Len(script) + 1
          /\ current + 1 \in (n + 1) .. Len(script) + 1
      BY <2>1, <2>3, <2>7
    <3>2. Start(script, n + 1) = Start(script, n) + size /\ size \in Nat
          /\ Start(script, n + 1) <= Start(script, current + 1)
      BY <3>1, <2>3, StartsAre, LenProperties
    <3>3. Len(buffer) >= size
      <4>1. Start(script, n) + Len(buffer) = Start(script, current + 1)
        BY <2>5
      <4>2. Start(script, n) \in Nat
        BY <2>3
      <4>. HIDE DEF n, size
      <4>. QED  BY <3>2, <4>1, <4>2, <2>3
    <3>4. buffer = <<>>
      BY <2>1, <2>2, <2>3, <3>2, <3>3 DEF Waiting
    <3>5. size = 0
      <4>. HIDE DEF size
      <4>. QED  BY <2>3, <3>2, <3>3, <3>4
    <3>6. size > 0
      <4>. DEFINE fs == Parted(script, n)
                  P(k) == Place(script, n, k)
                  x == fs[Len(fs)].data
      <4>1. Len(fs) > 0 /\ x # <<>>
        BY <2>2, <2>3, <3>1, ContractIs DEF ServerTypes
      <4>2. /\ Len(fs) \in Nat /\ P(0) = Start(script, n) /\ P(Len(fs)) = Start(script, n + 1)
            /\ \A k \in 0 .. Len(fs) : P(k) \in Nat
            /\ \A k \in 1 .. Len(fs) : fs[k].data \in Seq(Octet) /\ P(k) = P(k - 1) + Len(fs[k].data)
            /\ \A i \in 0 .. Len(fs) : \A k \in i .. Len(fs) : P(i) <= P(k)
        BY <2>3, <3>1, PlacesAre
      <4>. HIDE DEF P, fs
      <4>3. Len(fs) \in 1 .. Len(fs) /\ Len(fs) - 1 \in 0 .. Len(fs) /\ 0 \in 0 .. Len(fs)
        BY <4>1, <4>2
      <4>4. P(Len(fs)) = P(Len(fs) - 1) + Len(x) /\ P(0) <= P(Len(fs) - 1) /\ P(Len(fs) - 1) \in Nat
            /\ P(0) \in Nat /\ x \in Seq(Octet)
        BY <4>2, <4>3
      <4>5. Len(x) \in Nat /\ Len(x) # 0
        BY <4>1, <4>4, LenProperties, EmptySeq
      <4>. HIDE DEF x, size
      <4>. QED  BY <3>2, <4>2, <4>4, <4>5
    <3>. QED  BY <3>5, <3>6
  <2>. QED  BY <2>3, <2>6, <2>7
<1>2. Spec => []Inv
  BY Invariance
<1>. QED  BY <1>1, <1>2, PTL
===============================================================================
