------------------------ MODULE CommandExchangeProofs ------------------------
(***************************************************************************)
(* Proofs that client and server understand each other, for every set of   *)
(* scripts and every decoder that fits them: however the octets arrive,    *)
(* whatever the server refuses, and however many commands are underway.    *)
(***************************************************************************)
EXTENDS CommandExchange, SequenceLemmas

-----------------------------------------------------------------------------
(* Where the messages and their fragments stand in the octets of a script. *)

\* The octets of fragments and of messages are those of SequenceLemmas.
LEMMA OctetsAre ==
  /\ \A fs : Written(fs) = FullContent(fs)
  /\ \A ms : StreamOf(ms) = AllContent(ms)
  /\ \A ms, i : StartOf(ms, i) = StartIn(ms, i)
<1>1. \A fs : Written(fs) = FullContent(fs)
  BY DEF Written, FullContent, Contents
<1>2. \A ms : StreamOf(ms) = AllContent(ms)
  BY <1>1 DEF StreamOf, AllContent, ContentParts
<1>. QED  BY <1>1, <1>2 DEF StartOf, StartIn

\* What fragments are made of.
LEMMA FragmentsAre == HaveContent(Fragments, Octet)
<1>1. \A f \in Fragments : f.data \in Seq(Octet)
  BY Zenon DEF Fragments
<1>. QED  BY <1>1 DEF HaveContent

Whole(s) == StreamOf(Encoded(s))
Parted(s, i) == s[i].fragments
Start(s, i) == StartOf(Encoded(s), i)

\* Where the fragment after the k-th one of a message stands.
Place(s, i, k) == Start(s, i) + Len(Written(SubSeq(Parted(s, i), 1, k)))

\* The messages of a script.
LEMMA MessagesAre ==
  ASSUME NEW s \in Scripts
  PROVE  /\ Len(s) \in Nat /\ Len(s) > 0 /\ DOMAIN s = 1 .. Len(s)
         /\ Encoded(s) \in Seq(Seq(Fragments)) /\ Len(Encoded(s)) = Len(s)
         /\ \A i \in 1 .. Len(s) :
              Parted(s, i) \in Seq(Fragments) /\ Encoded(s)[i] = Parted(s, i)
<1>1. /\ s # <<>> /\ s \in Seq(ToSet(s))
      /\ \A i \in DOMAIN s : s[i].fragments \in Seq(Fragments)
  BY ScriptsAssumption
<1>2. Len(s) \in Nat /\ DOMAIN s = 1 .. Len(s) /\ Len(s) # 0
  BY <1>1, LenProperties, EmptySeq
<1>3. Len(s) > 0
  BY <1>2
<1>4. Encoded(s) = [i \in 1 .. Len(s) |-> Parted(s, i)]
  BY <1>2 DEF Encoded, Parted
<1>5. \A i \in 1 .. Len(s) : Parted(s, i) \in Seq(Fragments)
  BY <1>1, <1>2 DEF Parted
<1>. HIDE DEF Encoded, Parted
<1>6. Encoded(s) \in [1 .. Len(s) -> Seq(Fragments)]
  BY <1>4, <1>5
<1>7. Encoded(s) \in Seq(Seq(Fragments)) /\ DOMAIN Encoded(s) = 1 .. Len(s)
  BY <1>6, <1>2, IsASeq
<1>8. Len(Encoded(s)) = Len(s)
  BY <1>7, <1>2, LenProperties
<1>. QED  BY <1>2, <1>3, <1>4, <1>5, <1>7, <1>8

\* Where the messages stand.
LEMMA StartsAre ==
  ASSUME NEW s \in Scripts
  PROVE  /\ Whole(s) \in Seq(Octet) /\ Len(Whole(s)) \in Nat /\ Start(s, 1) = 0
         /\ \A i \in 1 .. Len(s) + 1 : Start(s, i) \in 0 .. Len(Whole(s))
         /\ \A i \in 1 .. Len(s) :
              /\ Start(s, i + 1) = Start(s, i) + Len(Written(Parted(s, i)))
              /\ Written(Parted(s, i)) \in Seq(Octet)
              /\ StandsAt(Written(Parted(s, i)), Whole(s), Start(s, i))
         /\ \A i \in 1 .. Len(s) + 1 : \A j \in i .. Len(s) + 1 : Start(s, i) <= Start(s, j)
<1>. DEFINE ms == Encoded(s)
            n == Len(s)
<1>1. /\ ms \in Seq(Seq(Fragments)) /\ Len(ms) = n
      /\ \A i \in 1 .. n : ms[i] = Parted(s, i)
  BY MessagesAre
<1>2. /\ Whole(s) = AllContent(ms) /\ \A i : Start(s, i) = StartIn(ms, i)
      /\ \A fs : Written(fs) = FullContent(fs)
  BY OctetsAre DEF Whole, Start
<1>. HIDE DEF ms
<1>3. /\ AllContent(ms) \in Seq(Octet) /\ Len(AllContent(ms)) \in Nat /\ StartIn(ms, 1) = 0
      /\ \A i \in 1 .. n + 1 : StartIn(ms, i) \in 0 .. Len(AllContent(ms))
      /\ \A i \in 1 .. n :
           /\ StartIn(ms, i + 1) = StartIn(ms, i) + Len(FullContent(ms[i]))
           /\ FullContent(ms[i]) \in Seq(Octet)
           /\ StandsAt(FullContent(ms[i]), AllContent(ms), StartIn(ms, i))
      /\ \A i \in 1 .. n + 1 : \A j \in i .. n + 1 : StartIn(ms, i) <= StartIn(ms, j)
  BY <1>1, FragmentsAre, StreamStarts
<1>4. ASSUME NEW i \in 1 .. n PROVE FullContent(ms[i]) = Written(Parted(s, i))
  BY <1>1, <1>2
<1>. QED  BY <1>2, <1>3, <1>4

\* Where the fragments of a message stand.
LEMMA PlacesAre ==
  ASSUME NEW s \in Scripts, NEW i \in 1 .. Len(s)
  PROVE  /\ Parted(s, i) \in Seq(Fragments) /\ Len(Parted(s, i)) \in Nat /\ DOMAIN Parted(s, i) = 1 .. Len(Parted(s, i))
         /\ Place(s, i, 0) = Start(s, i) /\ Place(s, i, Len(Parted(s, i))) = Start(s, i + 1)
         /\ Start(s, i) \in Nat /\ Start(s, i + 1) = Start(s, i) + Len(Written(Parted(s, i)))
         /\ \A k \in 0 .. Len(Parted(s, i)) :
              /\ Place(s, i, k) \in Nat
              /\ Place(s, i, k) = Start(s, i) + Len(Written(SubSeq(Parted(s, i), 1, k)))
         /\ \A k \in 1 .. Len(Parted(s, i)) :
              /\ Parted(s, i)[k].data \in Seq(Octet)
              /\ Place(s, i, k) = Place(s, i, k - 1) + Len(Parted(s, i)[k].data)
              /\ StandsAt(Parted(s, i)[k].data, Whole(s), Place(s, i, k - 1))
         /\ \A j \in 0 .. Len(Parted(s, i)) : \A k \in j .. Len(Parted(s, i)) : Place(s, i, j) <= Place(s, i, k)
<1>. DEFINE ms == Encoded(s)
            fs == Parted(s, i)
<1>1. ms \in Seq(Seq(Fragments)) /\ i \in 1 .. Len(ms) /\ ms[i] = fs
  BY MessagesAre
<1>2. /\ Whole(s) = AllContent(ms) /\ \A j : Start(s, j) = StartIn(ms, j)
      /\ \A t : Written(t) = FullContent(t)
  BY OctetsAre DEF Whole, Start
<1>3. \A k : Place(s, i, k) = PlaceIn(ms, i, k)
  BY <1>1, <1>2 DEF Place, PlaceIn
<1>. HIDE DEF ms, fs
<1>4. /\ ms[i] \in Seq(Fragments) /\ Len(ms[i]) \in Nat /\ DOMAIN ms[i] = 1 .. Len(ms[i])
      /\ PlaceIn(ms, i, 0) = StartIn(ms, i) /\ PlaceIn(ms, i, Len(ms[i])) = StartIn(ms, i + 1)
      /\ StartIn(ms, i) \in Nat /\ StartIn(ms, i + 1) = StartIn(ms, i) + Len(FullContent(ms[i]))
      /\ \A k \in 0 .. Len(ms[i]) :
           /\ PlaceIn(ms, i, k) \in Nat
           /\ PlaceIn(ms, i, k) = StartIn(ms, i) + Len(FullContent(SubSeq(ms[i], 1, k)))
      /\ \A k \in 1 .. Len(ms[i]) :
           /\ ms[i][k].data \in Seq(Octet)
           /\ PlaceIn(ms, i, k) = PlaceIn(ms, i, k - 1) + Len(ms[i][k].data)
           /\ StandsAt(ms[i][k].data, AllContent(ms), PlaceIn(ms, i, k - 1))
      /\ \A j \in 0 .. Len(ms[i]) : \A k \in j .. Len(ms[i]) : PlaceIn(ms, i, j) <= PlaceIn(ms, i, k)
  BY <1>1, FragmentsAre, StreamPlaces
<1>. QED  BY <1>1, <1>2, <1>3, <1>4 DEF fs

-----------------------------------------------------------------------------
(* What the contract says of a message.                                    *)

\* The last fragment is not empty, nor is the one before a literal that waits.
LEMMA OrderIs ==
  ASSUME NEW s \in Scripts, ScriptFits(s), NEW i \in 1 .. Len(s)
  PROVE  /\ s[1].codec = "Command"
         /\ Len(Parted(s, i)) > 0 /\ Parted(s, i)[Len(Parted(s, i))].data # <<>>
         /\ \A k \in 1 .. Len(Parted(s, i)) : IsSync(Parted(s, i)[k]) =>
              /\ s[i].codec = "Command"
              /\ k > 1 /\ Parted(s, i)[k - 1].data # <<>>
              /\ i < Len(s) => s[i + 1].codec = "Command"
         /\ i < Len(s) /\ s[i].value # <<>> => s[i + 1].codec = CodecAfter(s[i].codec, s[i].value)
<1>1. DOMAIN s = 1 .. Len(s) /\ Parted(s, i) \in Seq(Fragments)
  BY MessagesAre
<1>. DEFINE fs == Parted(s, i)
<1>2. DOMAIN fs = 1 .. Len(fs) /\ Len(fs) \in Nat /\ (fs # <<>> => Len(fs) # 0)
  BY <1>1, LenProperties, EmptySeq
<1>3. /\ s[1].codec = "Command"
      /\ fs # <<>> /\ Last(fs).data # <<>>
      /\ \A k \in DOMAIN fs : IsSync(fs[k]) =>
            /\ s[i].codec = "Command"
            /\ k > 1 /\ fs[k - 1].data # <<>>
            /\ i < Len(s) => s[i + 1].codec = "Command"
      /\ i < Len(s) /\ s[i].value # <<>> => s[i + 1].codec = CodecAfter(s[i].codec, s[i].value)
  BY <1>1, Zenon DEF ScriptFits, InOrder, Parted
<1>4. Last(fs) = fs[Len(fs)]
  BY DEF Last
<1>. HIDE DEF fs
<1>5. Len(fs) > 0
  BY <1>2, <1>3
<1>6. \A k \in 1 .. Len(fs) : IsSync(fs[k]) =>
            /\ s[i].codec = "Command"
            /\ k > 1 /\ fs[k - 1].data # <<>>
            /\ i < Len(s) => s[i + 1].codec = "Command"
  BY <1>2, <1>3
<1>7. fs[Len(fs)].data # <<>>
  BY <1>3, <1>4
<1>. QED  BY <1>3, <1>5, <1>6, <1>7 DEF fs

\* Octets that stand where a message does are decoded as the contract says.
LEMMA DecodedIs ==
  ASSUME NEW s \in Scripts, ScriptFits(s), NEW i \in 1 .. Len(s),
         NEW q \in Seq(Octet), q # <<>>, StandsAt(q, Whole(s), Start(s, i))
  PROVE  Fits(s[i], q)
<1>1. /\ DOMAIN s = 1 .. Len(s) /\ Len(s) \in Nat
      /\ Whole(s) \in Seq(Octet) /\ Len(Whole(s)) \in Nat
      /\ Start(s, i) \in Nat
  BY MessagesAre, StartsAre, PlacesAre
<1>2. /\ q = SubSeq(Whole(s), Start(s, i) + 1, Start(s, i) + Len(q))
      /\ Start(s, i) + Len(q) \in Start(s, i) .. Len(Whole(s))
  BY <1>1, StandsSlice
<1>3. Len(q) \in Nat /\ Len(q) # 0
  BY LenProperties, EmptySeq
<1>4. Start(s, i) + Len(q) \in (Start(s, i) + 1) .. Len(Whole(s))
  BY <1>1, <1>2, <1>3
<1>5. q \in Arrivals(Encoded(s), i)
  BY <1>2, <1>4 DEF Arrivals, Whole, Start
<1>. QED  BY <1>1, <1>5, Zenon DEF ScriptFits

\* What the server can conclude from what the decoder says of octets.
Understood(s, i, q, d) ==
  /\ d.res = "Ok" =>
       /\ Len(q) >= Len(Written(Parted(s, i))) /\ s[i].value # <<>>
       /\ d.out = s[i].value /\ d.at = Len(Written(Parted(s, i))) + 1
  /\ d.res = "Failed" => s[i].value = <<>>
  /\ d.res = "LiteralFound" /\ d.mode = "" => StopsAtLiteral(s[i], q, d)

\* The decoder says nothing else.
LEMMA FitsIs ==
  ASSUME NEW s \in Scripts, NEW i \in 1 .. Len(s), NEW q \in Seq(Octet), Fits(s[i], q)
  PROVE  Understood(s, i, q, decode(s[i].codec, q))
<1>. DEFINE d == decode(s[i].codec, q)
            m == s[i]
            size == Len(Written(m.fragments))
<1>1. /\ Len(q) \in Nat /\ size \in Nat /\ Parted(s, i) = m.fragments
  <2>1. Written(Parted(s, i)) \in Seq(Octet) /\ Parted(s, i) = m.fragments
    BY StartsAre DEF Parted
  <2>. QED  BY <2>1, LenProperties
<1>2. CASE Len(q) >= size /\ m.value # <<>>
  <2>1. ~(Len(q) >= size /\ m.value = <<>>) /\ ~(Len(q) < size)
    BY <1>1, <1>2
  <2>2. d.res = "Ok" /\ d.out = m.value /\ d.at = size + 1
    <3>. HIDE DEF size, d, m
    <3>1. CASE Fits(m, q)
      BY <1>2, <2>1, <3>1, Zenon DEF Fits, size, d, m
    <3>. QED  BY <3>1 DEF m
  <2>. QED  BY <1>1, <1>2, <2>2 DEF Understood
<1>3. CASE Len(q) >= size /\ m.value = <<>>
  <2>1. ~(Len(q) >= size /\ m.value # <<>>) /\ ~(Len(q) < size)
    BY <1>1, <1>3
  <2>2. d.res = "Failed"
    BY <1>3, <2>1, Zenon DEF Fits
  <2>. QED  BY <1>1, <1>3, <2>2 DEF Understood
<1>4. CASE Len(q) < size
  <2>1. ~(Len(q) >= size /\ m.value # <<>>) /\ ~(Len(q) >= size /\ m.value = <<>>)
    BY <1>1, <1>4
  <2>2. \/ d.res = "Incomplete"
        \/ d.res = "Failed" /\ m.value = <<>>
        \/ d.res = "LiteralFound" /\ (d.mode = "+" \/ (d.mode = "" /\ StopsAtLiteral(m, q, d)))
    BY <1>4, <2>1, Zenon DEF Fits
  <2>. QED  BY <2>2 DEF Understood
<1>5. \/ Len(q) >= size /\ m.value # <<>>
      \/ Len(q) >= size /\ m.value = <<>>
      \/ Len(q) < size
  BY <1>1
<1>. QED  BY <1>2, <1>3, <1>4, <1>5, Zenon

-----------------------------------------------------------------------------
(* The inductive invariant.                                                *)

\* How many fragments of the current message have been sent, and whether there
\* is a reply of a kind on its way.
Gone == Len(Parted(script, current)) - Len(fragments)
Replied(kind) == \E i \in DOMAIN to_client : to_client[i].kind = kind

ClientTypes ==
  /\ script \in Scripts /\ ScriptFits(script)
  /\ current \in 1 .. Len(script)
  /\ fragments \in Seq(Fragments)
  /\ Len(fragments) <= Len(Parted(script, current))
  /\ \A j \in 1 .. Len(fragments) : fragments[j] = Parted(script, current)[Gone + j]
  /\ to_server \in Seq(Octet)

ServerTypes ==
  /\ buffer \in Seq(Octet)
  /\ fresh \in BOOLEAN
  /\ fresh => buffer # <<>>
  /\ codec \in {"Command", "AuthenticateData", "IdleDone", "None"}

ReplyTypes ==
  /\ to_client \in Seq(ToSet(to_client))
  /\ \A i \in DOMAIN to_client : to_client[i].kind \in {"Continuation", "OK", "BAD"}

LogTypes ==
  /\ log \in Seq(ToSet(log))
  /\ \A i \in DOMAIN log : log[i].what \in {"Served", "Rejected", "Failed"}

\* What has become of a message is what the client meant.
History ==
  \A i \in DOMAIN log :
    \/ /\ log[i].what = "Served" /\ log[i].value = script[i].value
       /\ i < current \/ (i = current /\ fragments = <<>>)
    \/ log[i].what = "Failed" /\ script[i].value = <<>>
    \/ /\ log[i].what = "Rejected"
       /\ \E j \in DOMAIN script[i].fragments : IsSync(script[i].fragments[j])

\* The server has lost track of the client.
Stopped == codec = "None" /\ ~Replied("Continuation")

\* The server has refused the literal that the client holds back, and the client
\* does not know it yet.
Rejected ==
  /\ codec = "Command"
  /\ Len(log) = current /\ fragments # <<>> /\ IsSync(Head(fragments))
  /\ buffer = <<>> /\ to_server = <<>>
  /\ ~Replied("Continuation")
  /\ \E i \in DOMAIN to_client :
       /\ to_client[i].kind = "BAD" /\ to_client[i].tag = Sending.tag
       /\ \A j \in DOMAIN to_client : to_client[j].kind = "BAD" => j = i

\* What the server has not decoded and what is on its way are the octets from
\* the next message that is to be decoded up to the next fragment that is to be
\* sent, and the server has the codec for that message.
Underway ==
  /\ codec # "None"
  /\ Len(log) <= current
  /\ Len(log) = current => fragments = <<>>
  /\ Len(log) < Len(script) => codec = script[Len(log) + 1].codec
  /\ ~Replied("BAD")
  /\ StandsAt(buffer, Whole(script), Start(script, Len(log) + 1))
  /\ StandsAt(to_server, Whole(script), Start(script, Len(log) + 1) + Len(buffer))
  /\ Start(script, Len(log) + 1) + Len(buffer) + Len(to_server) = Place(script, current, Gone)

\* Of the messages after the next one that is to be decoded, nothing has been sent
\* that had to wait.
Later ==
  \A j \in (Len(log) + 2) .. current :
    /\ script[j].codec # "Command" => j = current /\ Gone = 0
    /\ \A k \in 1 .. Len(Parted(script, j)) :
         IsSync(Parted(script, j)[k]) => j = current /\ Gone < k

\* A literal of the next message that had to wait has been sent only when the
\* server had all that comes before it, and had seen it.
Now ==
  \A k \in 1 .. Len(Parted(script, Len(log) + 1)) :
    /\ Len(log) < current
    /\ IsSync(Parted(script, Len(log) + 1)[k])
    /\ current > Len(log) + 1 \/ Gone >= k
    => /\ Place(script, Len(log) + 1, k - 1) <= Start(script, Len(log) + 1) + Len(buffer)
       /\ Place(script, Len(log) + 1, k - 1) = Start(script, Len(log) + 1) + Len(buffer) => ~fresh

\* A continuation on its way is the last reply, nobody else does anything, and
\* it is for what the client waits to send.
Granted ==
  \A i \in DOMAIN to_client : to_client[i].kind = "Continuation" =>
    /\ i = Len(to_client) /\ ~fresh /\ to_server = <<>>
    /\ to_client[i].mode = "" =>
         /\ current = Len(log) + 1 /\ fragments # <<>> /\ IsSync(Head(fragments))
         /\ to_client[i].length = Len(Head(fragments).data) /\ to_client[i].tag = Sending.tag
    /\ to_client[i].mode # "" =>
         /\ buffer = <<>> /\ codec = to_client[i].mode /\ codec # "Command"
         /\ current = Len(log) \/ (current = Len(log) + 1 /\ Gone = 0)

InStep == Underway /\ Later /\ Now /\ Granted

Types == ClientTypes /\ ServerTypes /\ ReplyTypes /\ LogTypes

Inv == Types /\ History /\ (Stopped \/ Rejected \/ InStep)

-----------------------------------------------------------------------------
(* The client sends a fragment.                                            *)

\* The current message.
LEMMA CurrentIs ==
  ASSUME ClientTypes
  PROVE  /\ script \in Scripts /\ ScriptFits(script)
         /\ Len(script) \in Nat /\ current \in 1 .. Len(script) /\ current \in Nat
         /\ Parted(script, current) = Sending.fragments
         /\ Parted(script, current) \in Seq(Fragments) /\ Len(Parted(script, current)) \in Nat
         /\ Len(Parted(script, current)) > 0
         /\ Len(fragments) \in Nat /\ Gone \in 0 .. Len(Parted(script, current))
         /\ (fragments = <<>> <=> Gone = Len(Parted(script, current)))
         /\ fragments # <<>> => /\ Head(fragments) = Parted(script, current)[Gone + 1]
                                /\ Gone + 1 \in 1 .. Len(Parted(script, current))
         /\ (fragments = Sending.fragments <=> Gone = 0)
<1>1. script \in Scripts /\ ScriptFits(script) /\ current \in 1 .. Len(script)
  BY DEF ClientTypes
<1>2. Len(script) \in Nat /\ current \in Nat /\ Parted(script, current) = Sending.fragments
  BY <1>1, MessagesAre DEF Parted, Sending
<1>. DEFINE fs == Parted(script, current)
<1>3. fs \in Seq(Fragments) /\ Len(fs) \in Nat /\ Len(fs) > 0
  BY <1>1, PlacesAre, OrderIs
<1>4. /\ fragments \in Seq(Fragments) /\ Len(fragments) <= Len(fs)
      /\ \A j \in 1 .. Len(fragments) : fragments[j] = fs[Gone + j]
      /\ Gone = Len(fs) - Len(fragments)
  BY DEF ClientTypes, Gone
<1>. HIDE DEF fs
<1>5. Len(fragments) \in Nat /\ (fragments = <<>> <=> Len(fragments) = 0)
  BY <1>4, LenProperties, EmptySeq
<1>6. Gone \in 0 .. Len(fs) /\ (fragments = <<>> <=> Gone = Len(fs))
  BY <1>3, <1>4, <1>5
<1>7. ASSUME fragments # <<>> PROVE Head(fragments) = fs[Gone + 1] /\ Gone + 1 \in 1 .. Len(fs)
  <2>1. 1 \in 1 .. Len(fragments) /\ Gone + 1 \in 1 .. Len(fs)
    BY <1>3, <1>4, <1>5, <1>7
  <2>2. Head(fragments) = fragments[1]
    BY <1>4, <1>7, HeadTailSet
  <2>. QED  BY <2>1, <2>2, <1>4
<1>8. ASSUME Gone = 0 PROVE fragments = fs
  <2>1. Len(fragments) = Len(fs)
    BY <1>3, <1>4, <1>5, <1>8
  <2>2. \A j \in 1 .. Len(fragments) : fragments[j] = fs[j]
    <3>1. \A j \in 1 .. Len(fragments) : 0 + j = j
      BY <1>5
    <3>. QED  BY <3>1, <1>4, <1>8
  <2>. QED  BY <2>1, <2>2, <1>3, <1>4, SeqEqual
<1>9. fragments = fs => Gone = 0
  BY <1>3, <1>4
<1>. QED  BY <1>1, <1>2, <1>3, <1>5, <1>6, <1>7, <1>8, <1>9 DEF fs

\* What is left of the message, and what is on its way.
LEMMA SendFacts ==
  ASSUME ClientTypes, SendFragment
  PROVE  /\ ClientTypes' /\ Gone' = Gone + 1
         /\ to_server' = to_server \o Parted(script, current)[Gone + 1].data
         /\ fragments # <<>>
<1>. DEFINE fs == Parted(script, current)
            t == Tail(fragments)
<1>1. /\ script' = script /\ current' = current /\ fragments # <<>> /\ fragments' = t
      /\ to_server' = to_server \o Head(fragments).data
  BY DEF SendFragment
<1>2. /\ Head(fragments) = fs[Gone + 1] /\ Gone + 1 \in 1 .. Len(fs)
      /\ script \in Scripts /\ current \in 1 .. Len(script)
      /\ fs \in Seq(Fragments) /\ Len(fs) \in Nat /\ Len(fragments) \in Nat
  BY <1>1, CurrentIs
<1>3. /\ fragments \in Seq(Fragments) /\ Len(fragments) <= Len(fs)
      /\ \A j \in 1 .. Len(fragments) : fragments[j] = fs[Gone + j]
      /\ Gone = Len(fs) - Len(fragments) /\ to_server \in Seq(Octet)
  BY DEF ClientTypes, Gone
<1>4. /\ t \in Seq(Fragments) /\ Len(t) \in Nat /\ Len(fragments) = Len(t) + 1
      /\ \A j \in 1 .. Len(t) : t[j] = fragments[j + 1]
  BY <1>1, <1>3, HeadTailSet
<1>5. fs' = fs
  BY <1>1 DEF Parted
<1>6. fs[Gone + 1].data \in Seq(Octet)
  BY <1>2, PlacesAre
<1>7. to_server' \in Seq(Octet) /\ to_server' = to_server \o fs[Gone + 1].data
  <2>. HIDE DEF fs
  <2>1. to_server' = to_server \o fs[Gone + 1].data
    BY <1>1, <1>2
  <2>. QED  BY <2>1, <1>3, <1>6, ConcatProperties
<1>8. Gone' = Len(fs) - Len(t)
  BY <1>1, <1>5 DEF Gone
<1>. HIDE DEF fs, t
<1>9. Gone' = Gone + 1 /\ Len(t) <= Len(fs)
  BY <1>2, <1>3, <1>4, <1>8
<1>10. \A j \in 1 .. Len(t) : t[j] = fs[Gone' + j]
  <2>1. \A j \in 1 .. Len(t) : j + 1 \in 1 .. Len(fragments) /\ Gone + (j + 1) = (Gone + 1) + j
    BY <1>2, <1>3, <1>4
  <2>. QED  BY <2>1, <1>3, <1>4, <1>9
<1>11. ClientTypes'
  BY <1>1, <1>4, <1>5, <1>7, <1>9, <1>10 DEF ClientTypes, fs
<1>. QED  BY <1>1, <1>7, <1>9, <1>11 DEF fs

\* What sending leaves alone.
LEMMA SendKeepsTypes ==
  ASSUME Types, History, SendFragment
  PROVE  ClientTypes' /\ ServerTypes' /\ LogTypes' /\ History'
<1>1. ClientTypes'
  BY SendFacts DEF Types
<1>2. /\ script' = script /\ current' = current /\ fragments # <<>> /\ log' = log
      /\ buffer' = buffer /\ fresh' = fresh /\ codec' = codec
  BY DEF SendFragment
<1>3. ServerTypes' /\ LogTypes'
  BY <1>2 DEF Types, ServerTypes, LogTypes
<1>4. History'
  <2>1. ASSUME NEW i \in DOMAIN log
        PROVE  \/ /\ log[i].what = "Served" /\ log[i].value = script[i].value
                  /\ i < current \/ (i = current /\ fragments' = <<>>)
               \/ log[i].what = "Failed" /\ script[i].value = <<>>
               \/ /\ log[i].what = "Rejected"
                  /\ \E j \in DOMAIN script[i].fragments : IsSync(script[i].fragments[j])
    BY <1>2 DEF History
  <2>. QED  BY <1>2, <2>1 DEF History
<1>. QED  BY <1>1, <1>3, <1>4

\* A fragment goes to the end of what is on its way.
LEMMA SendUnderway ==
  ASSUME ClientTypes, ServerTypes, LogTypes, Underway, SendFragment, ~Replied("BAD")'
  PROVE  Underway' /\ Len(log) < current /\ Len(log) \in Nat
<1>. DEFINE w == Whole(script)
            base == Start(script, Len(log) + 1)
            x == Parted(script, current)[Gone + 1].data
            at == Place(script, current, Gone)
            n == Len(log)
<1>1. /\ script' = script /\ current' = current /\ fragments # <<>> /\ log' = log
      /\ buffer' = buffer /\ codec' = codec
  BY DEF SendFragment
<1>2. ClientTypes' /\ Gone' = Gone + 1 /\ to_server' = to_server \o x
  BY SendFacts
<1>3. /\ script \in Scripts /\ ScriptFits(script) /\ current \in 1 .. Len(script)
      /\ Len(script) \in Nat /\ current \in Nat
      /\ Gone \in 0 .. Len(Parted(script, current)) /\ Gone + 1 \in 1 .. Len(Parted(script, current))
      /\ Len(Parted(script, current)) \in Nat
  BY <1>1, CurrentIs
<1>4. n \in Nat
  BY LenProperties DEF LogTypes
<1>5. n < current
  BY <1>1, <1>3, <1>4 DEF Underway
<1>6. n + 1 \in 1 .. Len(script) /\ base \in Nat /\ w \in Seq(Octet)
  <2>1. n + 1 \in 1 .. Len(script)
    BY <1>3, <1>4, <1>5
  <2>. QED  BY <2>1, <1>3, StartsAre, PlacesAre
<1>7. /\ x \in Seq(Octet) /\ Place(script, current, Gone + 1) = at + Len(x)
      /\ StandsAt(x, w, at) /\ at \in Nat /\ (Gone + 1) - 1 = Gone
  <2>1. (Gone + 1) - 1 = Gone
    BY <1>3
  <2>2. /\ \A k \in 0 .. Len(Parted(script, current)) : Place(script, current, k) \in Nat
        /\ \A k \in 1 .. Len(Parted(script, current)) :
              /\ Parted(script, current)[k].data \in Seq(Octet)
              /\ Place(script, current, k) = Place(script, current, k - 1) + Len(Parted(script, current)[k].data)
              /\ StandsAt(Parted(script, current)[k].data, w, Place(script, current, k - 1))
    BY <1>3, PlacesAre
  <2>. QED  BY <2>1, <2>2, <1>3
<1>8. /\ StandsAt(buffer, w, base) /\ StandsAt(to_server, w, base + Len(buffer))
      /\ base + Len(buffer) + Len(to_server) = at
      /\ to_server \in Seq(Octet) /\ Len(to_server) \in Nat /\ Len(buffer) \in Nat
  BY LenProperties DEF Underway, ClientTypes, ServerTypes
<1>. HIDE DEF w, base, x, at
<1>9. StandsAt(to_server', w, base + Len(buffer)) /\ Len(to_server') = Len(to_server) + Len(x) /\ Len(x) \in Nat
  <2>1. base + Len(buffer) \in Nat
    BY <1>6, <1>8
  <2>2. StandsAt(to_server \o x, w, base + Len(buffer))
    BY <2>1, <1>6, <1>7, <1>8, StandsConcat
  <2>3. Len(to_server \o x) = Len(to_server) + Len(x) /\ Len(x) \in Nat
    BY <1>7, <1>8, ConcatProperties, LenProperties
  <2>. QED  BY <2>2, <2>3, <1>2
<1>10. base + Len(buffer) + Len(to_server') = Place(script, current, Gone')
  <2>1. Gone' = Gone + 1 /\ base + Len(buffer) + Len(to_server) = at
    BY <1>2, <1>8
  <2>2. Len(to_server') = Len(to_server) + Len(x) /\ Len(x) \in Nat
    BY <1>9
  <2>3. Place(script, current, Gone + 1) = at + Len(x)
    BY <1>7
  <2>4. Len(buffer) \in Nat /\ Len(to_server) \in Nat
    BY <1>8
  <2>5. base + Len(buffer) + (Len(to_server) + Len(x)) = at + Len(x)
    BY <2>1, <2>2, <2>4, <1>6
  <2>. QED  BY <2>1, <2>2, <2>3, <2>5
<1>11. Underway'
  <2>1. base' = base /\ w' = w
    BY <1>1 DEF base, w
  <2>2. /\ codec # "None" /\ n < Len(script) => codec = script[n + 1].codec
    BY DEF Underway
  <2>3. /\ StandsAt(buffer, Whole(script), Start(script, Len(log) + 1))
        /\ StandsAt(to_server', Whole(script), Start(script, Len(log) + 1) + Len(buffer))
        /\ Start(script, Len(log) + 1) + Len(buffer) + Len(to_server') = Place(script, current, Gone')
    BY <1>8, <1>9, <1>10 DEF w, base
  <2>4. Len(log) <= current /\ Len(log) # current
    BY <1>3, <1>4, <1>5
  <2>5. /\ codec' # "None" /\ Len(log') <= current' /\ (Len(log') = current' => fragments' = <<>>)
        /\ (Len(log') < Len(script') => codec' = script'[Len(log') + 1].codec)
    BY <1>1, <2>2, <2>4 DEF Underway
  <2>6. /\ StandsAt(buffer', Whole(script'), Start(script', Len(log') + 1))
        /\ StandsAt(to_server', Whole(script'), Start(script', Len(log') + 1) + Len(buffer'))
        /\ Start(script', Len(log') + 1) + Len(buffer') + Len(to_server') = Place(script', current', Gone')
    BY <1>1, <2>3, Zenon
  <2>. QED  BY <2>5, <2>6, Zenon DEF Underway
<1>. QED  BY <1>4, <1>5, <1>11

\* A line, or a literal that need not wait.
LEMMA SendAtOnceKeepsInv ==
  ASSUME Inv, SendAtOnce
  PROVE  Inv'
<1>1. /\ Types /\ History /\ SendFragment /\ ~MustWait /\ to_client' = to_client
      /\ fragments # <<>> /\ script' = script /\ current' = current /\ log' = log
      /\ codec' = codec /\ buffer' = buffer /\ fresh' = fresh
  BY DEF Inv, SendAtOnce, SendFragment
<1>2. ClientTypes' /\ ServerTypes' /\ LogTypes' /\ History'
  BY <1>1, SendKeepsTypes
<1>3. ReplyTypes' /\ \A kind : Replied(kind)' = Replied(kind)
  BY <1>1 DEF Types, ReplyTypes, Replied
<1>4. /\ ~IsSync(Parted(script, current)[Gone + 1]) /\ (Gone = 0 => Sending.codec = "Command")
      /\ Gone' = Gone + 1 /\ Gone \in Nat /\ current \in Nat /\ Sending = script[current]
      /\ ~IsSync(Head(fragments))
  <2>1. ~IsSync(Head(fragments)) /\ (fragments = Sending.fragments => Sending.codec = "Command")
    BY <1>1 DEF MustWait
  <2>2. ClientTypes
    BY <1>1 DEF Types
  <2>. QED  BY <2>1, <2>2, <1>1, CurrentIs, SendFacts DEF Sending
<1>5. CASE Stopped
  BY <1>1, <1>2, <1>3, <1>5 DEF Inv, Types, Stopped
<1>6. CASE Rejected
  BY <1>4, <1>6 DEF Rejected
<1>7. CASE InStep
  <2>1. Underway /\ Later /\ Now /\ Granted /\ ClientTypes /\ ServerTypes /\ LogTypes /\ ~Replied("BAD")'
    BY <1>1, <1>3, <1>7 DEF InStep, Types, Underway
  <2>2. Underway' /\ Len(log) < current /\ Len(log) \in Nat
    BY <1>1, <2>1, SendUnderway
  <2>3. Later'
    <3>1. ASSUME NEW j \in (Len(log) + 2) .. current
          PROVE  /\ script[j].codec # "Command" => j = current /\ Gone' = 0
                 /\ \A k \in 1 .. Len(Parted(script, j)) :
                      IsSync(Parted(script, j)[k]) => j = current /\ Gone' < k
      <4>1. script[j].codec = "Command"
        BY <2>1, <1>4 DEF Later
      <4>2. ASSUME NEW k \in 1 .. Len(Parted(script, j)), IsSync(Parted(script, j)[k])
            PROVE  j = current /\ Gone' < k
        <5>1. j = current /\ Gone < k
          BY <2>1, <4>2 DEF Later
        <5>2. k # Gone + 1
          BY <5>1, <4>2, <1>4
        <5>. QED  BY <5>1, <5>2, <1>4
      <4>. QED  BY <4>1, <4>2
    <3>. QED  BY <3>1, <1>1 DEF Later
  <2>4. Now'
    <3>1. ASSUME NEW k \in 1 .. Len(Parted(script, Len(log) + 1)),
                 IsSync(Parted(script, Len(log) + 1)[k]),
                 current > Len(log) + 1 \/ Gone' >= k
          PROVE  current > Len(log) + 1 \/ Gone >= k
      <4>1. CASE current > Len(log) + 1
        BY <4>1
      <4>2. CASE ~(current > Len(log) + 1)
        <5>1. current = Len(log) + 1
          BY <4>2, <2>2, <1>4
        <5>2. k # Gone + 1
          BY <5>1, <3>1, <1>4
        <5>. QED  BY <4>2, <3>1, <5>2, <1>4
      <4>. QED  BY <4>1, <4>2
    <3>. QED  BY <3>1, <2>1, <1>1 DEF Now
  <2>5. \A i \in DOMAIN to_client : to_client[i].kind # "Continuation"
    <3>1. SUFFICES ASSUME NEW i \in DOMAIN to_client, to_client[i].kind = "Continuation"
                   PROVE  FALSE
      OBVIOUS
    <3>2. to_client[i].mode # "" /\ codec = to_client[i].mode /\ codec # "Command"
          /\ (current = Len(log) \/ (current = Len(log) + 1 /\ Gone = 0))
      BY <2>1, <3>1, <1>4 DEF Granted
    <3>3. current = Len(log) + 1 /\ Gone = 0
      <4>1. current # Len(log)
        <5>1. ~(Len(log) < Len(log))
          BY <2>2
        <5>. QED  BY <5>1, <2>2
      <4>. QED  BY <3>2, <4>1
    <3>4. Len(log) < Len(script)
      <4>1. current \in 1 .. Len(script) /\ Len(script) \in Nat
        BY <2>1, CurrentIs
      <4>. QED  BY <4>1, <2>2, <3>3
    <3>5. codec = script[current].codec
      BY <3>3, <3>4, <2>1 DEF Underway
    <3>. QED  BY <3>2, <3>3, <3>5, <1>4
  <2>6. Granted'
    BY <2>5, <1>1 DEF Granted
  <2>. QED  BY <2>2, <2>3, <2>4, <2>6, <1>2, <1>3 DEF Inv, Types, InStep
<1>. QED  BY <1>5, <1>6, <1>7 DEF Inv

\* A literal, or a message that waits, once there is a continuation.
LEMMA SendOnContinuationKeepsInv ==
  ASSUME Inv, SendOnContinuation
  PROVE  Inv'
<1>1. /\ Types /\ History /\ SendFragment /\ MustWait
      /\ to_client # <<>> /\ Head(to_client).kind = "Continuation" /\ to_client' = Tail(to_client)
      /\ fragments # <<>> /\ script' = script /\ current' = current /\ log' = log
      /\ codec' = codec /\ buffer' = buffer /\ fresh' = fresh
  BY DEF Inv, SendOnContinuation, SendFragment
<1>2. ClientTypes' /\ ServerTypes' /\ LogTypes' /\ History'
  BY <1>1, SendKeepsTypes
<1>3. /\ DOMAIN to_client = 1 .. Len(to_client) /\ Len(to_client) \in Nat /\ Len(to_client) > 0
      /\ Head(to_client) = to_client[1]
      /\ to_client' \in Seq(ToSet(to_client')) /\ DOMAIN to_client' = 1 .. Len(to_client')
      /\ Len(to_client') = Len(to_client) - 1
      /\ \A i \in 1 .. Len(to_client) - 1 : to_client'[i] = to_client[i + 1]
  BY <1>1, QueueTail DEF Types, ReplyTypes
<1>4. 1 \in DOMAIN to_client /\ to_client[1].kind = "Continuation" /\ Replied("Continuation")
  <2>1. 1 \in DOMAIN to_client /\ to_client[1].kind = "Continuation"
    BY <1>1, <1>3
  <2>. QED  BY <2>1 DEF Replied
<1>5. InStep
  BY <1>4 DEF Inv, Stopped, Rejected
<1>6. Underway /\ Later /\ Now /\ Granted /\ ClientTypes /\ ServerTypes /\ LogTypes
  BY <1>1, <1>5 DEF InStep, Types
<1>7. 1 = Len(to_client) /\ ~fresh /\ to_server = <<>> /\ current \in {Len(log), Len(log) + 1}
  BY <1>4, <1>6 DEF Granted
<1>8. DOMAIN to_client' = {}
  <2>1. Len(to_client') = 0
    <3>1. Len(to_client') = Len(to_client) - 1
      BY <1>3
    <3>2. Len(to_client) = 1
      BY <1>7
    <3>. QED  BY <3>1, <3>2
  <2>2. 1 .. 0 = {}
    OBVIOUS
  <2>. QED  BY <2>1, <2>2, <1>3
<1>9. ReplyTypes' /\ Granted' /\ ~Replied("BAD")'
  BY <1>3, <1>8 DEF ReplyTypes, Granted, Replied
<1>10. Underway' /\ Len(log) < current /\ Len(log) \in Nat
  BY <1>1, <1>6, <1>9, SendUnderway
<1>11. current = Len(log) + 1
  <2>1. ~(Len(log) < Len(log))
    BY <1>10
  <2>. QED  BY <2>1, <1>7, <1>10
<1>12. Later'
  <2>1. ~ \E j : j \in (Len(log) + 2) .. current
    BY <1>10, <1>11
  <2>. QED  BY <2>1, <1>1 DEF Later
<1>13. Now'
  <2>0. /\ Gone' = Gone + 1 /\ Gone \in Nat /\ Parted(script, current) = Parted(script, Len(log) + 1)
        /\ Gone \in 0 .. Len(Parted(script, current)) /\ Len(Parted(script, current)) \in Nat
    BY <1>1, <1>6, <1>11, CurrentIs, SendFacts
  <2>1. ASSUME NEW k \in 1 .. Len(Parted(script, Len(log) + 1)),
               IsSync(Parted(script, Len(log) + 1)[k]),
               current > Len(log) + 1 \/ Gone' >= k
        PROVE  /\ Place(script, Len(log) + 1, k - 1) <= Start(script, Len(log) + 1) + Len(buffer)
               /\ Place(script, Len(log) + 1, k - 1) = Start(script, Len(log) + 1) + Len(buffer) => ~fresh
    <3>1. Gone >= k \/ k = Gone + 1
      BY <2>0, <2>1, <1>10, <1>11
    <3>2. CASE Gone >= k
      BY <3>2, <2>1, <1>6, <1>10 DEF Now
    <3>3. CASE k = Gone + 1
      <4>1. Start(script, Len(log) + 1) + Len(buffer) + Len(to_server) = Place(script, Len(log) + 1, Gone)
        BY <1>6, <1>11 DEF Underway
      <4>2. Len(to_server) = 0 /\ k - 1 = Gone
        <5>1. Len(to_server) = 0
          BY <1>7
        <5>2. k - 1 = Gone
          BY <2>0, <3>3
        <5>. QED  BY <5>1, <5>2
      <4>3. Len(buffer) \in Nat /\ Start(script, Len(log) + 1) \in Nat
        <5>1. buffer \in Seq(Octet) /\ script \in Scripts /\ Len(log) + 1 \in 1 .. Len(script)
          BY <1>6, <1>11 DEF ServerTypes, ClientTypes
        <5>. QED  BY <5>1, PlacesAre, LenProperties
      <4>4. Place(script, Len(log) + 1, k - 1) = Start(script, Len(log) + 1) + Len(buffer)
        BY <4>1, <4>2, <4>3
      <4>5. Start(script, Len(log) + 1) + Len(buffer) \in Nat
        BY <4>3
      <4>6. Place(script, Len(log) + 1, k - 1) <= Start(script, Len(log) + 1) + Len(buffer)
        BY <4>4, <4>5
      <4>7. ~fresh
        BY <1>7
      <4>. QED  BY <4>6, <4>7
    <3>. QED  BY <3>1, <3>2, <3>3
  <2>. QED  BY <2>1, <1>1 DEF Now
<1>. QED  BY <1>2, <1>9, <1>10, <1>12, <1>13 DEF Inv, Types, InStep

\* An answer is taken from the queue; the client may give up a literal.
LEMMA ReceiveAnswerKeepsInv ==
  ASSUME Inv, ReceiveAnswer
  PROVE  Inv'
<1>. DEFINE r == Head(to_client)
            gives == /\ MustWait /\ Sending.codec = "Command"
                     /\ r.kind = "BAD" /\ r.tag = Sending.tag
<1>1. /\ Types /\ History
      /\ to_client # <<>> /\ r.kind # "Continuation" /\ to_client' = Tail(to_client)
      /\ fragments' = IF gives THEN <<>> ELSE fragments
      /\ script' = script /\ current' = current /\ to_server' = to_server /\ log' = log
      /\ codec' = codec /\ buffer' = buffer /\ fresh' = fresh
  BY DEF Inv, ReceiveAnswer
<1>2. /\ DOMAIN to_client = 1 .. Len(to_client) /\ Len(to_client) \in Nat /\ Len(to_client) > 0
      /\ r = to_client[1]
      /\ to_client' \in Seq(ToSet(to_client')) /\ DOMAIN to_client' = 1 .. Len(to_client')
      /\ Len(to_client') = Len(to_client) - 1
      /\ \A i \in 1 .. Len(to_client) - 1 : to_client'[i] = to_client[i + 1]
  BY <1>1, QueueTail DEF Types, ReplyTypes
<1>. HIDE DEF gives, r
<1>3. \A i \in DOMAIN to_client' : i + 1 \in DOMAIN to_client /\ to_client'[i] = to_client[i + 1]
  <2>1. \A i \in 1 .. Len(to_client) - 1 : i + 1 \in 1 .. Len(to_client)
    BY <1>2
  <2>. QED  BY <2>1, <1>2
<1>4. ReplyTypes' /\ \A kind : Replied(kind)' => Replied(kind)
  BY <1>1, <1>2, <1>3 DEF Types, ReplyTypes, Replied
<1>5. ServerTypes' /\ LogTypes'
  BY <1>1 DEF Types, ServerTypes, LogTypes
<1>6. /\ ClientTypes /\ script \in Scripts /\ ScriptFits(script) /\ current \in 1 .. Len(script)
      /\ Parted(script, current) \in Seq(Fragments) /\ Len(Parted(script, current)) \in Nat
  BY <1>1, CurrentIs DEF Types
<1>7. ClientTypes' /\ (fragments' = <<>> => Gone' = Len(Parted(script, current)))
  <2>1. CASE gives
    <3>1. fragments' = <<>> /\ Len(<<>>) = 0 /\ <<>> \in Seq(Fragments)
      BY <1>1, <2>1, EmptySeq
    <3>2. Gone' = Len(Parted(script, current)) - Len(fragments')
      BY <1>1 DEF Gone
    <3>3. Gone' = Len(Parted(script, current))
      BY <3>1, <3>2, <1>6
    <3>. QED  BY <3>1, <3>3, <1>1, <1>6 DEF ClientTypes
  <2>2. CASE ~gives
    <3>1. fragments' = fragments /\ Gone' = Gone
      BY <1>1, <2>2 DEF Gone
    <3>. QED  BY <3>1, <1>1, <1>6, CurrentIs DEF ClientTypes
  <2>. QED  BY <2>1, <2>2
<1>8. History'
  <2>1. fragments' = <<>> \/ fragments' = fragments
    BY <1>1
  <2>2. ASSUME NEW i \in DOMAIN log
        PROVE  \/ /\ log[i].what = "Served" /\ log[i].value = script[i].value
                  /\ i < current \/ (i = current /\ fragments' = <<>>)
               \/ log[i].what = "Failed" /\ script[i].value = <<>>
               \/ /\ log[i].what = "Rejected"
                  /\ \E j \in DOMAIN script[i].fragments : IsSync(script[i].fragments[j])
    BY <1>1, <2>1 DEF History
  <2>. QED  BY <1>1, <2>2 DEF History
<1>9. CASE Stopped
  BY <1>1, <1>4, <1>5, <1>7, <1>8, <1>9 DEF Inv, Types, Stopped
<1>10. CASE Rejected
  <2>1. /\ codec = "Command" /\ Len(log) = current /\ fragments # <<>> /\ IsSync(Head(fragments))
        /\ buffer = <<>> /\ to_server = <<>> /\ ~Replied("Continuation")
    BY <1>10 DEF Rejected
  <2>2. PICK i \in DOMAIN to_client :
          /\ to_client[i].kind = "BAD" /\ to_client[i].tag = Sending.tag
          /\ \A j \in DOMAIN to_client : to_client[j].kind = "BAD" => j = i
    BY <1>10 DEF Rejected
  <2>3. Head(fragments) = Parted(script, current)[Gone + 1] /\ Gone + 1 \in 1 .. Len(Parted(script, current))
        /\ Sending = script[current]
    BY <2>1, <1>6, CurrentIs DEF Sending
  <2>4. Sending.codec = "Command" /\ (current < Len(script) => script[current + 1].codec = "Command")
    BY <2>1, <2>3, <1>6, OrderIs
  <2>5. CASE i = 1
    <3>1. gives
      BY <2>1, <2>2, <2>4, <2>5, <1>2 DEF gives, MustWait
    <3>2. fragments' = <<>> /\ Gone' = Len(Parted(script, current))
      BY <3>1, <1>1, <1>7
    <3>3. ~Replied("BAD")' /\ ~Replied("Continuation")'
      <4>1. \A j \in DOMAIN to_client' : to_client'[j].kind # "BAD"
        <5>1. \A j \in DOMAIN to_client' : j + 1 # 1
          BY <1>2
        <5>. QED  BY <5>1, <1>3, <2>2, <2>5
      <4>. QED  BY <4>1, <2>1, <1>4 DEF Replied
    <3>4. Underway'
      <4>1. /\ Len(script) \in Nat /\ current \in Nat /\ current + 1 \in 1 .. Len(script) + 1
            /\ Place(script, current, Len(Parted(script, current))) = Start(script, current + 1)
            /\ Start(script, current + 1) \in 0 .. Len(Whole(script)) /\ Whole(script) \in Seq(Octet)
        <5>1. current + 1 \in 1 .. Len(script) + 1 /\ Len(script) \in Nat /\ current \in Nat
          BY <1>6, CurrentIs
        <5>. QED  BY <5>1, <1>6, PlacesAre, StartsAre
      <4>2. Len(<<>>) = 0
        BY EmptySeq
      <4>3. /\ Start(script, current + 1) + 0 = Start(script, current + 1)
            /\ Start(script, current + 1) + 0 + 0 = Start(script, current + 1)
        BY <4>1
      <4>4. StandsAt(<<>>, Whole(script), Start(script, current + 1))
        BY <4>1, StandsEmpty
      <4>5. /\ codec' # "None" /\ Len(log') <= current' /\ (Len(log') = current' => fragments' = <<>>)
            /\ (Len(log') < Len(script') => codec' = script'[Len(log') + 1].codec)
        BY <1>1, <2>1, <2>4, <3>2, <4>1
      <4>6. /\ StandsAt(buffer', Whole(script'), Start(script', Len(log') + 1))
            /\ StandsAt(to_server', Whole(script'), Start(script', Len(log') + 1) + Len(buffer'))
            /\ Start(script', Len(log') + 1) + Len(buffer') + Len(to_server') = Place(script', current', Gone')
        <5>1. buffer' = <<>> /\ to_server' = <<>> /\ Len(log') = current /\ script' = script /\ current' = current
          BY <1>1, <2>1
        <5>. QED  BY <5>1, <3>2, <4>1, <4>2, <4>3, <4>4
      <4>. QED  BY <3>3, <4>5, <4>6, Zenon DEF Underway
    <3>5. Later' /\ Now'
      <4>1. current \in Nat /\ Len(log') = current /\ current' = current
        BY <1>1, <2>1, <1>6, CurrentIs
      <4>2. ~ \E j : j \in (current + 2) .. current
        BY <4>1
      <4>3. ~(current < current)
        BY <4>1
      <4>. QED  BY <4>1, <4>2, <4>3 DEF Later, Now
    <3>6. Granted'
      BY <3>3 DEF Granted, Replied
    <3>. QED  BY <3>4, <3>5, <3>6, <1>4, <1>5, <1>7, <1>8 DEF Inv, Types, InStep
  <2>6. CASE i # 1
    <3>1. r.kind # "BAD"
      <4>1. 1 \in DOMAIN to_client
        BY <1>2
      <4>. QED  BY <4>1, <2>2, <2>6, <1>2
    <3>2. fragments' = fragments /\ Sending' = Sending
      BY <3>1, <1>1 DEF gives, Sending
    <3>3. i - 1 \in DOMAIN to_client' /\ (i - 1) + 1 = i
      BY <2>6, <1>2
    <3>4. to_client'[i - 1].kind = "BAD" /\ to_client'[i - 1].tag = Sending.tag
      BY <3>3, <1>3, <2>2
    <3>5. \A j \in DOMAIN to_client' : to_client'[j].kind = "BAD" => j = i - 1
      <4>1. \A j \in DOMAIN to_client' : to_client'[j].kind = "BAD" => j + 1 = i
        BY <1>3, <2>2
      <4>2. \A j \in DOMAIN to_client' : j + 1 = i => j = i - 1
        BY <1>2
      <4>. QED  BY <4>1, <4>2
    <3>6. ~Replied("Continuation")'
      BY <2>1, <1>4
    <3>7. Rejected'
      BY <3>2, <3>3, <3>4, <3>5, <3>6, <2>1, <1>1 DEF Rejected
    <3>. QED  BY <3>7, <1>4, <1>5, <1>7, <1>8 DEF Inv, Types
  <2>. QED  BY <2>5, <2>6
<1>11. CASE InStep
  <2>1. Underway /\ Later /\ Now /\ Granted
    BY <1>11 DEF InStep
  <2>2. r.kind # "BAD"
    <3>1. 1 \in DOMAIN to_client
      BY <1>2
    <3>. QED  BY <3>1, <2>1, <1>2 DEF Underway, Replied
  <2>3. fragments' = fragments /\ Gone' = Gone /\ Sending' = Sending
    BY <2>2, <1>1 DEF gives, Gone, Sending
  <2>4. ~Replied("BAD")'
    BY <2>1, <1>4 DEF Underway
  <2>5. Underway'
    BY <2>1, <2>3, <2>4, <1>1, Zenon DEF Underway
  <2>6. Later' /\ Now'
    BY <2>1, <2>3, <1>1, Zenon DEF Later, Now
  <2>7. Granted'
    <3>1. ASSUME NEW i \in DOMAIN to_client', to_client'[i].kind = "Continuation"
          PROVE  /\ i = Len(to_client') /\ ~fresh /\ to_server = <<>>
                 /\ to_client'[i].mode = "" =>
                      /\ current = Len(log) + 1 /\ fragments # <<>> /\ IsSync(Head(fragments))
                      /\ to_client'[i].length = Len(Head(fragments).data) /\ to_client'[i].tag = Sending.tag
                 /\ to_client'[i].mode # "" =>
                      /\ buffer = <<>> /\ codec = to_client'[i].mode /\ codec # "Command"
                      /\ current = Len(log) \/ (current = Len(log) + 1 /\ Gone = 0)
      <4>1. i + 1 \in DOMAIN to_client /\ to_client'[i] = to_client[i + 1]
        BY <1>3
      <4>2. i + 1 = Len(to_client)
        BY <2>1, <3>1, <4>1 DEF Granted
      <4>3. i = Len(to_client')
        <5>1. i \in Nat
          BY <1>2
        <5>. QED  BY <5>1, <4>2, <1>2
      <4>. QED  BY <2>1, <3>1, <4>1, <4>3, Zenon DEF Granted
    <3>. QED  BY <3>1, <2>3, <1>1, Zenon DEF Granted
  <2>. QED  BY <2>5, <2>6, <2>7, <1>4, <1>5, <1>7, <1>8 DEF Inv, Types, InStep
<1>. QED  BY <1>9, <1>10, <1>11 DEF Inv

\* The client goes on to its next message.
LEMMA NextMessageKeepsInv ==
  ASSUME Inv, NextMessage
  PROVE  Inv'
<1>1. /\ Types /\ History
      /\ fragments = <<>> /\ current < Len(script) /\ current' = current + 1
      /\ fragments' = Parted(script, current + 1)
      /\ script' = script /\ to_server' = to_server /\ to_client' = to_client /\ log' = log
      /\ codec' = codec /\ buffer' = buffer /\ fresh' = fresh
  BY DEF Inv, NextMessage, Parted
<1>2. /\ ClientTypes /\ script \in Scripts /\ ScriptFits(script) /\ current \in 1 .. Len(script)
      /\ Len(script) \in Nat /\ current \in Nat
      /\ Gone = Len(Parted(script, current)) /\ Gone \in Nat /\ Gone > 0
      /\ to_server \in Seq(Octet)
  <2>1. ClientTypes
    BY <1>1 DEF Types
  <2>2. /\ script \in Scripts /\ ScriptFits(script) /\ current \in 1 .. Len(script)
        /\ Len(script) \in Nat /\ current \in Nat
        /\ Gone = Len(Parted(script, current))
        /\ Len(Parted(script, current)) \in Nat /\ Len(Parted(script, current)) > 0
    BY <1>1, <2>1, CurrentIs
  <2>. QED  BY <2>1, <2>2 DEF ClientTypes
<1>3. /\ current + 1 \in 1 .. Len(script)
      /\ Parted(script, current + 1) \in Seq(Fragments) /\ Len(Parted(script, current + 1)) \in Nat
      /\ Place(script, current, Gone) = Place(script, current + 1, 0)
  <2>1. current + 1 \in 1 .. Len(script)
    BY <1>1, <1>2
  <2>. QED  BY <2>1, <1>2, PlacesAre
<1>4. Gone' = 0
  <2>1. Gone' = Len(Parted(script, current + 1)) - Len(Parted(script, current + 1))
    BY <1>1 DEF Gone
  <2>. QED  BY <2>1, <1>3
<1>5. ClientTypes'
  <2>1. \A j \in 1 .. Len(Parted(script, current + 1)) : 0 + j = j
    BY <1>3
  <2>2. Len(fragments') <= Len(Parted(script, current + 1))
    BY <1>1, <1>3
  <2>3. \A j \in 1 .. Len(fragments') : fragments'[j] = Parted(script', current')[Gone' + j]
    BY <2>1, <1>1, <1>4
  <2>. QED  BY <2>2, <2>3, <1>1, <1>2, <1>3 DEF ClientTypes
<1>6. ServerTypes' /\ LogTypes' /\ ReplyTypes' /\ \A kind : Replied(kind)' = Replied(kind)
  BY <1>1 DEF Types, ServerTypes, LogTypes, ReplyTypes, Replied
<1>7. History'
  <2>1. ASSUME NEW i \in DOMAIN log
        PROVE  \/ /\ log[i].what = "Served" /\ log[i].value = script[i].value
                  /\ i < current + 1 \/ (i = current + 1 /\ fragments' = <<>>)
               \/ log[i].what = "Failed" /\ script[i].value = <<>>
               \/ /\ log[i].what = "Rejected"
                  /\ \E j \in DOMAIN script[i].fragments : IsSync(script[i].fragments[j])
    <3>1. i \in Nat
      BY <1>1, OwnElements DEF Types, LogTypes
    <3>2. i < current \/ i = current => i < current + 1
      BY <3>1, <1>2
    <3>. QED  BY <3>2 , <1>1 DEF History
  <2>. QED  BY <2>1, <1>1 DEF History
<1>8. CASE Stopped
  BY <1>1, <1>5, <1>6, <1>7, <1>8 DEF Inv, Types, Stopped
<1>9. CASE Rejected
  BY <1>1, <1>9 DEF Rejected
<1>10. CASE InStep
  <2>1. Underway /\ Later /\ Now /\ Granted
    BY <1>10 DEF InStep
  <2>2. Len(log) \in Nat /\ Len(log) <= current
    BY <2>1, <1>1, LenProperties DEF Underway, Types, LogTypes
  <2>3. Underway'
    <3>1. Len(log) <= current + 1 /\ Len(log) # current + 1
      BY <2>2, <1>2
    <3>2. Start(script, Len(log) + 1) + Len(buffer) + Len(to_server) = Place(script, current + 1, 0)
      BY <2>1, <1>3 DEF Underway
    <3>. QED  BY <3>1, <3>2, <2>1, <1>1, <1>4, <1>6, Zenon DEF Underway
  <2>4. Later'
    <3>1. ASSUME NEW j \in (Len(log) + 2) .. current + 1
          PROVE  /\ script[j].codec # "Command" => j = current + 1 /\ Gone' = 0
                 /\ \A k \in 1 .. Len(Parted(script, j)) :
                      IsSync(Parted(script, j)[k]) => j = current + 1 /\ Gone' < k
      <4>1. CASE j = current + 1
        <5>1. \A k \in 1 .. Len(Parted(script, j)) : 0 < k
          BY <1>3, <4>1
        <5>. QED  BY <5>1, <4>1, <1>4
      <4>2. CASE j # current + 1
        <5>1. j \in (Len(log) + 2) .. current
          BY <4>2, <1>2, <2>2
        <5>2. script[j].codec = "Command"
          <6>1. Gone # 0
            BY <1>2
          <6>. QED  BY <6>1, <5>1, <2>1 DEF Later
        <5>3. ASSUME NEW k \in 1 .. Len(Parted(script, j)), IsSync(Parted(script, j)[k])
              PROVE  FALSE
          <6>1. j = current /\ Gone < k
            BY <5>1, <5>3, <2>1 DEF Later
          <6>. QED  BY <6>1, <1>2
        <5>. QED  BY <5>2, <5>3
      <4>. QED  BY <4>1, <4>2
    <3>. QED  BY <3>1, <1>1 DEF Later
  <2>5. Now'
    <3>1. ASSUME NEW k \in 1 .. Len(Parted(script, Len(log) + 1)),
                 IsSync(Parted(script, Len(log) + 1)[k]),
                 current + 1 > Len(log) + 1 \/ Gone' >= k
          PROVE  Len(log) < current /\ (current > Len(log) + 1 \/ Gone >= k)
      <4>1. Len(Parted(script, Len(log) + 1)) \in Nat
        <5>1. Len(log) + 1 \in 1 .. Len(script)
          BY <1>1, <1>2, <2>2
        <5>. QED  BY <5>1, <1>2, PlacesAre
      <4>2. k \in Nat /\ ~(0 >= k) /\ k <= Len(Parted(script, Len(log) + 1))
        BY <4>1
      <4>3. Len(log) < current
        BY <4>2, <3>1, <1>2, <1>4, <2>2
      <4>4. CASE current > Len(log) + 1
        BY <4>3, <4>4
      <4>5. CASE ~(current > Len(log) + 1)
        <5>1. current = Len(log) + 1
          BY <4>3, <4>5, <1>2, <2>2
        <5>2. Gone >= k
          BY <5>1, <4>2, <1>2
        <5>. QED  BY <5>2, <4>3
      <4>. QED  BY <4>4, <4>5
    <3>. QED  BY <3>1, <2>1, <1>1 DEF Now
  <2>6. Granted'
    <3>1. ASSUME NEW i \in DOMAIN to_client, to_client[i].kind = "Continuation"
          PROVE  /\ i = Len(to_client) /\ ~fresh /\ to_server = <<>>
                 /\ to_client[i].mode # "" /\ buffer = <<>> /\ codec = to_client[i].mode /\ codec # "Command"
                 /\ current + 1 = Len(log) + 1 /\ Gone' = 0
      <4>1. Gone # 0
        BY <1>2
      <4>. QED  BY <4>1, <3>1, <2>1, <1>1, <1>4 DEF Granted
    <3>. QED  BY <3>1, <1>1 DEF Granted
  <2>. QED  BY <2>3, <2>4, <2>5, <2>6, <1>5, <1>6, <1>7 DEF Inv, Types, InStep
<1>. QED  BY <1>8, <1>9, <1>10 DEF Inv

\* The server receives an octet.
LEMMA ReceiveKeepsInv ==
  ASSUME Inv, Receive
  PROVE  Inv'
<1>1. /\ Types /\ History
      /\ to_server # <<>> /\ buffer' = Append(buffer, Head(to_server)) /\ to_server' = Tail(to_server)
      /\ fresh' = TRUE
      /\ script' = script /\ current' = current /\ fragments' = fragments /\ to_client' = to_client
      /\ codec' = codec /\ log' = log
  BY DEF Inv, Receive
<1>2. /\ ClientTypes /\ script \in Scripts /\ current \in 1 .. Len(script)
      /\ to_server \in Seq(Octet) /\ buffer \in Seq(Octet) /\ Len(script) \in Nat /\ current \in Nat
  BY <1>1, CurrentIs DEF Types, ClientTypes, ServerTypes
<1>3. /\ buffer' \in Seq(Octet) /\ to_server' \in Seq(Octet) /\ buffer' # <<>>
      /\ Len(buffer') = Len(buffer) + 1 /\ Len(buffer) \in Nat
  <2>1. Head(to_server) \in Octet /\ Tail(to_server) \in Seq(Octet)
    BY <1>1, <1>2, HeadTailSet
  <2>2. buffer' \in Seq(Octet) /\ Len(buffer') = Len(buffer) + 1 /\ Len(buffer) \in Nat
    BY <2>1, <1>1, <1>2, AppendSet
  <2>3. buffer' # <<>>
    <3>1. Len(buffer') # 0
      BY <2>2
    <3>. QED  BY <3>1, EmptySeq
  <2>. QED  BY <2>1, <2>2, <2>3, <1>1
<1>4. Gone' = Gone /\ Sending' = Sending
  BY <1>1 DEF Gone, Sending
<1>5. ClientTypes' /\ ServerTypes' /\ LogTypes' /\ ReplyTypes' /\ \A kind : Replied(kind)' = Replied(kind)
  <2>1. ServerTypes'
    BY <1>1, <1>3 DEF Types, ServerTypes
  <2>2. ClientTypes'
    BY <1>1, <1>3, <1>4 DEF Types, ClientTypes
  <2>3. LogTypes' /\ ReplyTypes' /\ \A kind : Replied(kind)' = Replied(kind)
    BY <1>1 DEF Types, LogTypes, ReplyTypes, Replied
  <2>. QED  BY <2>1, <2>2, <2>3
<1>6. History'
  BY <1>1 DEF History
<1>7. CASE Stopped
  BY <1>1, <1>5, <1>6, <1>7 DEF Inv, Types, Stopped
<1>8. CASE Rejected
  BY <1>1, <1>8 DEF Rejected
<1>9. CASE InStep
  <2>1. Underway /\ Later /\ Now /\ Granted
    BY <1>9 DEF InStep
  <2>2. /\ Len(log) \in Nat /\ Len(log) + 1 \in 1 .. Len(script) + 1
        /\ Start(script, Len(log) + 1) \in Nat /\ Whole(script) \in Seq(Octet)
    <3>1. Len(log) \in Nat /\ Len(log) <= current
      BY <2>1, <1>1, LenProperties DEF Underway, Types, LogTypes
    <3>2. Len(log) + 1 \in 1 .. Len(script) + 1
      BY <3>1, <1>2
    <3>3. Start(script, Len(log) + 1) \in 0 .. Len(Whole(script)) /\ Whole(script) \in Seq(Octet)
      BY <3>2, <1>2, StartsAre
    <3>. QED  BY <3>1, <3>2, <3>3
  <2>3. Underway'
    <3>. DEFINE w == Whole(script)
                base == Start(script, Len(log) + 1)
                at == Place(script, current, Gone)
    <3>1. /\ StandsAt(buffer, w, base) /\ StandsAt(to_server, w, base + Len(buffer))
          /\ base + Len(buffer) + Len(to_server) = at
      BY <2>1 DEF Underway
    <3>2. w \in Seq(Octet) /\ base \in Nat
      BY <2>2
    <3>. HIDE DEF w, base, at
    <3>3. /\ StandsAt(buffer', w, base) /\ StandsAt(to_server', w, base + Len(buffer'))
          /\ Len(to_server') = Len(to_server) - 1 /\ Len(to_server) > 0
      BY <3>1, <3>2, <1>1, <1>2, StandsMove
    <3>4. base + Len(buffer') + Len(to_server') = at
      <4>1. Len(to_server) \in Nat
        BY <1>2, LenProperties
      <4>. QED  BY <4>1, <3>1, <3>2, <3>3, <1>3
    <3>5. /\ StandsAt(buffer', Whole(script), Start(script, Len(log) + 1))
          /\ StandsAt(to_server', Whole(script), Start(script, Len(log) + 1) + Len(buffer'))
          /\ Start(script, Len(log) + 1) + Len(buffer') + Len(to_server') = Place(script, current, Gone)
      BY <3>3, <3>4 DEF w, base, at
    <3>6. /\ StandsAt(buffer', Whole(script'), Start(script', Len(log') + 1))
          /\ StandsAt(to_server', Whole(script'), Start(script', Len(log') + 1) + Len(buffer'))
          /\ Start(script', Len(log') + 1) + Len(buffer') + Len(to_server') = Place(script', current', Gone')
      BY <3>5, <1>1, <1>4, Zenon
    <3>7. /\ codec' # "None" /\ Len(log') <= current' /\ (Len(log') = current' => fragments' = <<>>)
          /\ (Len(log') < Len(script') => codec' = script'[Len(log') + 1].codec) /\ ~Replied("BAD")'
      BY <2>1, <1>1, <1>5 DEF Underway
    <3>. QED  BY <3>6, <3>7, Zenon DEF Underway
  <2>4. Later'
    BY <2>1, <1>1, <1>4, Zenon DEF Later
  <2>5. Now'
    <3>1. ASSUME NEW k \in 1 .. Len(Parted(script, Len(log) + 1)), Len(log) < current,
                 IsSync(Parted(script, Len(log) + 1)[k]),
                 current > Len(log) + 1 \/ Gone >= k
          PROVE  /\ Place(script, Len(log) + 1, k - 1) <= Start(script, Len(log) + 1) + Len(buffer')
                 /\ Place(script, Len(log) + 1, k - 1) # Start(script, Len(log) + 1) + Len(buffer')
      <4>1. Place(script, Len(log) + 1, k - 1) <= Start(script, Len(log) + 1) + Len(buffer)
        BY <3>1, <2>1 DEF Now
      <4>2. Place(script, Len(log) + 1, k - 1) \in Nat
        <5>1. Len(log) + 1 \in 1 .. Len(script)
          BY <3>1, <2>2, <1>2
        <5>2. Len(Parted(script, Len(log) + 1)) \in Nat
              /\ \A m \in 0 .. Len(Parted(script, Len(log) + 1)) : Place(script, Len(log) + 1, m) \in Nat
          BY <5>1, <1>2, PlacesAre
        <5>3. k - 1 \in 0 .. Len(Parted(script, Len(log) + 1))
          BY <5>2
        <5>. QED  BY <5>2, <5>3
      <4>. QED  BY <4>1, <4>2, <2>2, <1>3
    <3>. QED  BY <3>1, <1>1, <1>4 DEF Now
  <2>6. Granted'
    <3>1. ASSUME NEW i \in DOMAIN to_client, to_client[i].kind = "Continuation"
          PROVE  FALSE
      BY <3>1, <2>1, <1>1 DEF Granted
    <3>. QED  BY <3>1, <1>1 DEF Granted
  <2>. QED  BY <2>3, <2>4, <2>5, <2>6, <1>5, <1>6 DEF Inv, Types, InStep
<1>. QED  BY <1>7, <1>8, <1>9 DEF Inv

-----------------------------------------------------------------------------
(* The server decodes what it has.                                         *)

\* When there is something new, it belongs to a message that has not been
\* decoded, and no continuation is on its way.
LEMMA DecodeFacts ==
  ASSUME Inv, DecodeBuffer
  PROVE  /\ InStep /\ Types /\ History
         /\ script \in Scripts /\ ScriptFits(script) /\ Len(script) \in Nat
         /\ Len(log) \in Nat /\ Len(log) < current /\ current \in 1 .. Len(script) /\ current \in Nat
         /\ Len(log) + 1 \in 1 .. Len(script)
         /\ codec = script[Len(log) + 1].codec
         /\ buffer \in Seq(Octet) /\ to_server \in Seq(Octet) /\ fresh
         /\ Understood(script, Len(log) + 1, buffer, decode(codec, buffer))
         /\ ~Replied("Continuation") /\ ~Replied("BAD")
<1>1. fresh /\ codec # "None" /\ Types /\ History
  BY DEF Inv, DecodeBuffer
<1>2. buffer # <<>> /\ buffer \in Seq(Octet) /\ to_server \in Seq(Octet) /\ ClientTypes
  BY <1>1 DEF Types, ServerTypes, ClientTypes
<1>3. InStep
  BY <1>1, <1>2 DEF Inv, Stopped, Rejected
<1>4. Underway /\ Granted
  BY <1>3 DEF InStep
<1>5. ~Replied("Continuation") /\ ~Replied("BAD")
  <2>1. ~Replied("Continuation")
    BY <1>1, <1>4 DEF Granted, Replied
  <2>. QED  BY <2>1, <1>4 DEF Underway
<1>6. /\ script \in Scripts /\ ScriptFits(script) /\ Len(script) \in Nat /\ current \in 1 .. Len(script)
      /\ current \in Nat
      /\ (fragments = <<>> => Gone = Len(Parted(script, current)))
  BY <1>2, CurrentIs
<1>7. Len(log) \in Nat /\ Len(log) <= current /\ Len(buffer) \in Nat /\ Len(buffer) # 0 /\ Len(to_server) \in Nat
  BY <1>1, <1>2, <1>4, LenProperties, EmptySeq DEF Types, LogTypes, Underway
<1>8. Len(log) < current
  <2>1. SUFFICES ASSUME Len(log) = current PROVE FALSE
    BY <1>6, <1>7
  <2>2. Gone = Len(Parted(script, current))
    BY <2>1, <1>4, <1>6 DEF Underway
  <2>3. Place(script, current, Gone) = Start(script, current + 1) /\ Start(script, current + 1) \in Nat
    <3>1. /\ Place(script, current, Len(Parted(script, current))) = Start(script, current + 1)
          /\ current + 1 \in 1 .. Len(script) + 1
      BY <1>6, PlacesAre
    <3>2. Start(script, current + 1) \in 0 .. Len(Whole(script)) /\ Len(Whole(script)) \in Nat
      BY <3>1, <1>6, StartsAre
    <3>. QED  BY <3>1, <3>2, <2>2
  <2>4. Start(script, current + 1) + Len(buffer) + Len(to_server) = Start(script, current + 1)
    BY <2>1, <2>3, <1>4 DEF Underway
  <2>. QED  BY <2>3, <2>4, <1>7
<1>9. Len(log) + 1 \in 1 .. Len(script) /\ Len(log) < Len(script)
  BY <1>6, <1>7, <1>8
<1>10. codec = script[Len(log) + 1].codec /\ StandsAt(buffer, Whole(script), Start(script, Len(log) + 1))
  BY <1>4, <1>9 DEF Underway
<1>11. Fits(script[Len(log) + 1], buffer)
  BY <1>2, <1>6, <1>9, <1>10, DecodedIs
<1>12. Understood(script, Len(log) + 1, buffer, decode(codec, buffer))
  BY <1>2, <1>6, <1>9, <1>10, <1>11, FitsIs
<1>. QED  BY <1>1, <1>2, <1>3, <1>5, <1>6, <1>7, <1>8, <1>9, <1>10, <1>12

\* The server waits for what is missing.
LEMMA WaitKeepsInv ==
  ASSUME Inv, DecodeBuffer, NEW d, WaitForMore(d)
  PROVE  Inv'
<1>1. /\ script' = script /\ current' = current /\ fragments' = fragments /\ to_server' = to_server
      /\ fresh' = FALSE /\ buffer' = buffer /\ to_client' = to_client /\ codec' = codec /\ log' = log
  BY DEF DecodeBuffer, WaitForMore
<1>2. InStep /\ Types /\ History /\ ~Replied("Continuation")
  BY DecodeFacts
<1>3. Gone' = Gone
  BY <1>1 DEF Gone
<1>4. Types' /\ History'
  BY <1>1, <1>2, <1>3 DEF Types, ClientTypes, ServerTypes, LogTypes, ReplyTypes, History
<1>5. Underway' /\ Later'
  BY <1>1, <1>2, <1>3, Zenon DEF InStep, Underway, Later, Replied
<1>6. Now'
  BY <1>1, <1>2, <1>3 DEF InStep, Now
<1>7. Granted'
  BY <1>1, <1>2 DEF Granted, Replied
<1>. QED  BY <1>4, <1>5, <1>6, <1>7 DEF Inv, InStep

\* The server stops.
LEMMA FailKeepsInv ==
  ASSUME Inv, DecodeBuffer, Fail(decode(codec, buffer))
  PROVE  Inv'
<1>. DEFINE d == decode(codec, buffer)
            entry == [what |-> "Failed", value |-> <<>>]
<1>1. /\ script' = script /\ current' = current /\ fragments' = fragments /\ to_server' = to_server
      /\ d.res = "Failed" /\ log' = Append(log, entry)
      /\ fresh' = FALSE /\ buffer' = <<>> /\ to_client' = to_client /\ codec' = "None"
  BY DEF DecodeBuffer, Fail
<1>2. /\ Types /\ History /\ ~Replied("Continuation")
      /\ Understood(script, Len(log) + 1, buffer, d)
  BY DecodeFacts
<1>3. script[Len(log) + 1].value = <<>>
  BY <1>1, <1>2 DEF Understood
<1>4. entry.what = "Failed"
  OBVIOUS
<1>. HIDE DEF entry, d
<1>5. /\ DOMAIN log = 1 .. Len(log) /\ Len(log) \in Nat
      /\ log' \in Seq(ToSet(log')) /\ DOMAIN log' = 1 .. Len(log) + 1
      /\ log'[Len(log) + 1] = entry /\ \A i \in 1 .. Len(log) : log'[i] = log[i]
  BY <1>1, <1>2, QueueAppend DEF Types, LogTypes
<1>6. \A i \in DOMAIN log' : i = Len(log) + 1 \/ (i \in DOMAIN log /\ log'[i] = log[i])
  BY <1>5
<1>10. LogTypes'
  BY <1>2, <1>4, <1>5, <1>6 DEF Types, LogTypes
<1>7. ClientTypes' /\ ServerTypes' /\ ReplyTypes'
  <2>1. Gone' = Gone /\ <<>> \in Seq(Octet)
    BY <1>1, EmptySeq DEF Gone
  <2>. QED  BY <2>1, <1>1, <1>2 DEF Types, ClientTypes, ServerTypes, ReplyTypes
<1>8. History'
  BY <1>1, <1>2, <1>3, <1>4, <1>5, <1>6 DEF History
<1>9. Stopped'
  BY <1>1, <1>2 DEF Stopped, Replied
<1>. QED  BY <1>10, <1>7, <1>8, <1>9 DEF Inv, Types

\* The decoder has stopped at a literal that waits.
AtLiteral(d) == d.res = "LiteralFound" /\ d.mode = ""

\* When the decoder stops at a literal that waits, the client is about to send it
\* and everything before it has arrived.
LEMMA LiteralFacts ==
  ASSUME Inv, DecodeBuffer, AtLiteral(decode(codec, buffer))
  PROVE  /\ current = Len(log) + 1 /\ fragments # <<>> /\ IsSync(Head(fragments))
         /\ to_server = <<>> /\ codec = "Command" /\ Sending = script[current]
         /\ decode(codec, buffer).length = Len(Head(fragments).data)
         /\ decode(codec, buffer).tag = Sending.tag
         /\ \E j \in DOMAIN script[current].fragments : IsSync(script[current].fragments[j])
<1>. DEFINE d == decode(codec, buffer)
            n == Len(log) + 1
            fs == Parted(script, n)
            P(k) == Place(script, n, k)
            base == Start(script, n)
<1>1. /\ InStep /\ Types /\ script \in Scripts /\ ScriptFits(script) /\ n \in 1 .. Len(script)
      /\ Len(log) \in Nat /\ Len(log) < current /\ current \in Nat /\ codec = script[n].codec
      /\ buffer \in Seq(Octet) /\ to_server \in Seq(Octet) /\ fresh
      /\ Understood(script, n, buffer, d)
  BY DecodeFacts
<1>2. Underway /\ Now /\ ClientTypes
  BY <1>1 DEF InStep, Types
<1>3. StopsAtLiteral(script[n], buffer, d) /\ fs = script[n].fragments
  BY <1>1, Zenon DEF Understood, Parted, AtLiteral
<1>4. PICK j \in DOMAIN fs :
        /\ IsSync(fs[j]) /\ buffer = Written(SubSeq(fs, 1, j - 1))
        /\ d.length = Len(fs[j].data) /\ d.tag = script[n].tag
  BY <1>3 DEF StopsAtLiteral
<1>5. /\ Len(fs) \in Nat /\ DOMAIN fs = 1 .. Len(fs)
      /\ \A k \in 0 .. Len(fs) : P(k) \in Nat
      /\ \A k \in 1 .. Len(fs) : fs[k].data \in Seq(Octet) /\ P(k) = P(k - 1) + Len(fs[k].data)
      /\ \A i \in 0 .. Len(fs) : \A k \in i .. Len(fs) : P(i) <= P(k)
  BY <1>1, PlacesAre
<1>6. base \in Nat /\ \A k \in 0 .. Len(fs) : P(k) = base + Len(Written(SubSeq(fs, 1, k)))
  BY <1>1, PlacesAre
<1>. HIDE DEF d, P, base, fs, n
<1>7. j \in 1 .. Len(fs) /\ j - 1 \in 0 .. Len(fs) /\ j \in Nat /\ Len(fs) \in Nat
  <2>1. j \in 1 .. Len(fs) /\ Len(fs) \in Nat
    BY <1>5
  <2>. QED  BY <2>1
<1>8. P(j - 1) = base + Len(buffer) /\ Len(buffer) \in Nat /\ Len(to_server) \in Nat
  <2>1. P(j - 1) = base + Len(buffer)
    BY <1>4, <1>6, <1>7
  <2>. QED  BY <2>1, <1>1, LenProperties
<1>9. codec = "Command" /\ j > 1 /\ fs[j - 1].data # <<>>
  BY <1>1, <1>4, <1>7, OrderIs DEF fs
<1>10. ~(current > n) /\ ~(Gone >= j)
  <2>1. /\ Len(log) < current /\ IsSync(Parted(script, Len(log) + 1)[j])
        /\ j \in 1 .. Len(Parted(script, Len(log) + 1))
        /\ Place(script, Len(log) + 1, j - 1) = Start(script, Len(log) + 1) + Len(buffer)
    BY <1>1, <1>4, <1>7, <1>8 DEF P, base, fs, n
  <2>2. ~(current > Len(log) + 1) /\ ~(Gone >= j)
    BY <2>1, <1>1, <1>2 DEF Now
  <2>. QED  BY <2>2 DEF n
<1>11. current = n /\ Sending = script[current]
  <2>1. Len(log) \in Nat /\ current \in Nat /\ Len(log) < current /\ ~(current > Len(log) + 1)
    BY <1>1, <1>10 DEF n
  <2>2. current = Len(log) + 1
    BY <2>1
  <2>. QED  BY <2>2 DEF n, Sending
<1>12. /\ Gone \in 0 .. Len(fs)
       /\ (fragments # <<>> => Head(fragments) = fs[Gone + 1])
       /\ (fragments = <<>> <=> Gone = Len(fs))
  BY <1>2, <1>11, CurrentIs DEF fs
<1>13. base + Len(buffer) + Len(to_server) = P(Gone)
  BY <1>2, <1>11 DEF Underway, P, base, n
<1>14. Gone \in Nat /\ Gone <= j - 1 /\ j - 1 \in Gone .. Len(fs)
  <2>1. Gone \in 0 .. Len(fs) /\ ~(Gone >= j)
    BY <1>10, <1>12
  <2>. QED  BY <2>1, <1>7
<1>15. P(Gone) <= P(j - 1)
  BY <1>5, <1>12, <1>14
<1>16. Len(to_server) = 0 /\ P(Gone) = P(j - 1) /\ P(j - 1) \in Nat
  <2>1. P(j - 1) = base + Len(buffer) /\ Len(buffer) \in Nat /\ Len(to_server) \in Nat /\ base \in Nat
    BY <1>6, <1>8
  <2>2. Len(to_server) = 0
    BY <2>1, <1>13, <1>15
  <2>. QED  BY <2>1, <2>2, <1>13
<1>20. Gone = j - 1
  <2>1. SUFFICES ASSUME Gone # j - 1 PROVE FALSE
    OBVIOUS
  <2>2. /\ j - 1 \in 1 .. Len(fs) /\ (j - 1) - 1 \in Gone .. Len(fs) /\ (j - 1) - 1 \in 0 .. Len(fs)
    BY <2>1, <1>7, <1>9, <1>14
  <2>3. P(Gone) <= P((j - 1) - 1) /\ P((j - 1) - 1) \in Nat
    BY <2>2, <1>5, <1>12
  <2>4. P(j - 1) = P((j - 1) - 1) + Len(fs[j - 1].data) /\ fs[j - 1].data \in Seq(Octet)
    BY <2>2, <1>5
  <2>5. Len(fs[j - 1].data) \in Nat /\ Len(fs[j - 1].data) # 0
    BY <2>4, <1>9, LenProperties, EmptySeq
  <2>6. P(j - 1) = P((j - 1) - 1) + Len(fs[j - 1].data) /\ P(j - 1) <= P((j - 1) - 1)
    BY <2>3, <2>4, <1>16
  <2>. QED  BY <2>3, <2>5, <2>6
<1>17. fragments # <<>> /\ Head(fragments) = fs[j]
  <2>1. Gone # Len(fs) /\ Gone + 1 = j
    BY <1>7, <1>20
  <2>. QED  BY <2>1, <1>12
<1>18. to_server = <<>>
  BY <1>1, <1>16, EmptySeq
<1>19. \E k \in DOMAIN script[current].fragments : IsSync(script[current].fragments[k])
  BY <1>3, <1>4, <1>11
<1>. QED  BY <1>4, <1>9, <1>11, <1>17, <1>18, <1>19 DEF d, n

\* The server tells the client to send the literal.
LEMMA AcceptKeepsInv ==
  ASSUME Inv, DecodeBuffer, AcceptLiteral(decode(codec, buffer))
  PROVE  Inv'
<1>. DEFINE d == decode(codec, buffer)
            r == Continuation(d.tag, d.length, d.mode)
<1>1. /\ script' = script /\ current' = current /\ fragments' = fragments /\ to_server' = to_server
      /\ AtLiteral(d) /\ to_client' = Append(to_client, r)
      /\ fresh' = FALSE /\ buffer' = buffer /\ codec' = codec /\ log' = log
  BY DEF DecodeBuffer, AcceptLiteral, AtLiteral
<1>2. /\ InStep /\ Types /\ History /\ ~Replied("Continuation") /\ ~Replied("BAD")
  BY DecodeFacts
<1>3. /\ current = Len(log) + 1 /\ fragments # <<>> /\ IsSync(Head(fragments)) /\ to_server = <<>>
      /\ d.length = Len(Head(fragments).data) /\ d.tag = Sending.tag
  BY <1>1, LiteralFacts
<1>4. r.kind = "Continuation" /\ r.mode = "" /\ r.length = Len(Head(fragments).data) /\ r.tag = Sending.tag
  BY <1>1, <1>3 DEF Continuation, AtLiteral
<1>. HIDE DEF r, d
<1>5. /\ DOMAIN to_client = 1 .. Len(to_client) /\ Len(to_client) \in Nat
      /\ to_client' \in Seq(ToSet(to_client')) /\ DOMAIN to_client' = 1 .. Len(to_client) + 1
      /\ Len(to_client') = Len(to_client) + 1
      /\ to_client'[Len(to_client) + 1] = r /\ \A i \in 1 .. Len(to_client) : to_client'[i] = to_client[i]
  BY <1>1, <1>2, QueueAppend DEF Types, ReplyTypes
<1>6. \A i \in DOMAIN to_client' : \/ i = Len(to_client) + 1 /\ to_client'[i] = r
                                   \/ i \in DOMAIN to_client /\ to_client'[i] = to_client[i]
  BY <1>5
<1>7. ReplyTypes' /\ ~Replied("BAD")'
  BY <1>2, <1>4, <1>5, <1>6 DEF Types, ReplyTypes, Replied
<1>8. Gone' = Gone /\ Sending' = Sending
  BY <1>1 DEF Gone, Sending
<1>9. ClientTypes' /\ ServerTypes' /\ LogTypes' /\ History'
  BY <1>1, <1>2, <1>8 DEF Types, ClientTypes, ServerTypes, LogTypes, History
<1>10. Underway' /\ Later'
  BY <1>1, <1>2, <1>7, <1>8, Zenon DEF InStep, Underway, Later
<1>11. Now'
  BY <1>1, <1>2, <1>8 DEF InStep, Now
<1>12. Granted'
  <2>1. ASSUME NEW i \in DOMAIN to_client', to_client'[i].kind = "Continuation"
        PROVE  i = Len(to_client') /\ to_client'[i] = r
    BY <2>1, <1>2, <1>5, <1>6 DEF Replied
  <2>. QED  BY <2>1, <1>1, <1>3, <1>4, <1>8 DEF Granted
<1>. QED  BY <1>7, <1>9, <1>10, <1>11, <1>12 DEF Inv, Types, InStep

\* The server refuses the literal.
LEMMA RejectKeepsInv ==
  ASSUME Inv, DecodeBuffer, RejectLiteral(decode(codec, buffer))
  PROVE  Inv'
<1>. DEFINE d == decode(codec, buffer)
            r == Tagged(d.tag, "BAD")
            entry == [what |-> "Rejected", value |-> <<>>]
<1>1. /\ script' = script /\ current' = current /\ fragments' = fragments /\ to_server' = to_server
      /\ AtLiteral(d) /\ to_client' = Append(to_client, r)
      /\ fresh' = FALSE /\ buffer' = <<>> /\ codec' = codec /\ log' = Append(log, entry)
  BY DEF DecodeBuffer, RejectLiteral, AtLiteral
<1>2. /\ InStep /\ Types /\ History /\ ~Replied("Continuation") /\ ~Replied("BAD") /\ current \in Nat
  BY DecodeFacts
<1>3. /\ current = Len(log) + 1 /\ fragments # <<>> /\ IsSync(Head(fragments)) /\ to_server = <<>>
      /\ d.tag = Sending.tag /\ codec = "Command"
      /\ \E j \in DOMAIN script[current].fragments : IsSync(script[current].fragments[j])
  BY <1>1, LiteralFacts
<1>4. r.kind = "BAD" /\ r.tag = Sending.tag /\ entry.what = "Rejected"
  BY <1>3 DEF Tagged
<1>. HIDE DEF r, d, entry
<1>5. /\ DOMAIN to_client = 1 .. Len(to_client) /\ Len(to_client) \in Nat
      /\ to_client' \in Seq(ToSet(to_client')) /\ DOMAIN to_client' = 1 .. Len(to_client) + 1
      /\ to_client'[Len(to_client) + 1] = r /\ \A i \in 1 .. Len(to_client) : to_client'[i] = to_client[i]
  BY <1>1, <1>2, QueueAppend DEF Types, ReplyTypes
<1>6. /\ DOMAIN log = 1 .. Len(log) /\ Len(log) \in Nat
      /\ log' \in Seq(ToSet(log')) /\ DOMAIN log' = 1 .. Len(log) + 1 /\ Len(log') = Len(log) + 1
      /\ log'[Len(log) + 1] = entry /\ \A i \in 1 .. Len(log) : log'[i] = log[i]
  BY <1>1, <1>2, QueueAppend DEF Types, LogTypes
<1>7. \A i \in DOMAIN to_client' : \/ i = Len(to_client) + 1 /\ to_client'[i] = r
                                   \/ i \in DOMAIN to_client /\ to_client'[i] = to_client[i]
  BY <1>5
<1>8. \A i \in DOMAIN log' : i = Len(log) + 1 \/ (i \in DOMAIN log /\ log'[i] = log[i])
  BY <1>6
<1>9. ReplyTypes' /\ LogTypes' /\ ~Replied("Continuation")'
  BY <1>2, <1>4, <1>5, <1>6, <1>7, <1>8 DEF Types, ReplyTypes, LogTypes, Replied
<1>10. Gone' = Gone /\ Sending' = Sending /\ <<>> \in Seq(Octet)
  BY <1>1, EmptySeq DEF Gone, Sending
<1>11. ClientTypes' /\ ServerTypes'
  BY <1>1, <1>2, <1>10 DEF Types, ClientTypes, ServerTypes
<1>12. History'
  <2>1. ASSUME NEW i \in DOMAIN log'
        PROVE  \/ /\ log'[i].what = "Served" /\ log'[i].value = script[i].value
                  /\ i < current \/ (i = current /\ fragments = <<>>)
               \/ log'[i].what = "Failed" /\ script[i].value = <<>>
               \/ /\ log'[i].what = "Rejected"
                  /\ \E j \in DOMAIN script[i].fragments : IsSync(script[i].fragments[j])
    <3>1. CASE i = Len(log) + 1
      BY <3>1, <1>3, <1>4, <1>6
    <3>2. CASE i \in DOMAIN log /\ log'[i] = log[i]
      BY <3>2, <1>2 DEF History
    <3>. QED  BY <3>1, <3>2, <1>8
  <2>. QED  BY <2>1, <1>1 DEF History
<1>13. Rejected'
  <2>1. Len(to_client) + 1 \in DOMAIN to_client'
    BY <1>5
  <2>2. \A j \in DOMAIN to_client' : to_client'[j].kind = "BAD" => j = Len(to_client) + 1
    BY <1>2, <1>7 DEF Replied
  <2>3. \E i \in DOMAIN to_client' :
          /\ to_client'[i].kind = "BAD" /\ to_client'[i].tag = Sending'.tag
          /\ \A j \in DOMAIN to_client' : to_client'[j].kind = "BAD" => j = i
    BY <2>1, <2>2, <1>4, <1>5, <1>10
  <2>. QED  BY <2>3, <1>1, <1>3, <1>6, <1>9 DEF Rejected
<1>. QED  BY <1>9, <1>11, <1>12, <1>13 DEF Inv, Types

\* The codec for what follows a message is one of three.
LEMMA CodecAfterIs ==
  ASSUME NEW c, NEW v
  PROVE  CodecAfter(c, v) \in {"Command", "AuthenticateData", "IdleDone"}
<1>1. CASE c = "Command" /\ Last(v).n = "AUTHENTICATE" /\ Len(Last(v).c) = 1
  <2>1. ~(c = "Command" /\ Last(v).n = "IDLE")
    BY <1>1
  <2>. QED  BY <1>1, <2>1, Zenon DEF CodecAfter
<1>2. CASE c = "Command" /\ Last(v).n = "IDLE"
  <2>1. ~(c = "Command" /\ Last(v).n = "AUTHENTICATE" /\ Len(Last(v).c) = 1)
    BY <1>2
  <2>. QED  BY <1>2, <2>1, Zenon DEF CodecAfter
<1>3. CASE ~(c = "Command" /\ Last(v).n = "AUTHENTICATE" /\ Len(Last(v).c) = 1) /\ ~(c = "Command" /\ Last(v).n = "IDLE")
  BY <1>3, Zenon DEF CodecAfter
<1>. QED  BY <1>1, <1>2, <1>3, Zenon

\* When a message has been decoded, all of it has been sent; when the next one
\* has another codec, nothing of it has been sent.
LEMMA ServeFacts ==
  ASSUME Inv, DecodeBuffer, Serve(decode(codec, buffer))
  PROVE  /\ decode(codec, buffer).out = script[Len(log) + 1].value
         /\ Len(log) + 1 = current => fragments = <<>>
         /\ Len(log) + 1 < Len(script) => codec' = script[Len(log) + 2].codec
         /\ codec' \in {"Command", "AuthenticateData", "IdleDone"}
         /\ buffer' \in Seq(Octet)
         /\ StandsAt(buffer', Whole(script), Start(script, Len(log) + 2))
         /\ StandsAt(to_server, Whole(script), Start(script, Len(log) + 2) + Len(buffer'))
         /\ Start(script, Len(log) + 2) + Len(buffer') + Len(to_server) = Place(script, current, Gone)
         /\ Start(script, Len(log) + 2) \in Nat
<1>. DEFINE d == decode(codec, buffer)
            n == Len(log) + 1
            fs == Parted(script, n)
            size == Len(Written(fs))
            base == Start(script, n)
            w == Whole(script)
            next == Start(script, n + 1)
            at == Place(script, current, Gone)
<1>1. /\ d.res = "Ok" /\ buffer' = SubSeq(buffer, d.at, Len(buffer)) /\ codec' = CodecAfter(codec, d.out)
  BY DEF Serve
<1>2. /\ InStep /\ Types /\ script \in Scripts /\ ScriptFits(script) /\ n \in 1 .. Len(script)
      /\ Len(log) \in Nat /\ Len(log) < current /\ current \in Nat /\ codec = script[n].codec
      /\ buffer \in Seq(Octet) /\ to_server \in Seq(Octet) /\ current \in 1 .. Len(script)
      /\ Len(script) \in Nat
      /\ Understood(script, n, buffer, d)
  BY DecodeFacts
<1>3. Underway /\ ClientTypes /\ Len(buffer) \in Nat /\ Len(to_server) \in Nat
  BY <1>2, LenProperties DEF InStep, Types
<1>4. /\ Len(buffer) >= size /\ script[n].value # <<>> /\ d.out = script[n].value /\ d.at = size + 1
  BY <1>1, <1>2 DEF Understood
<1>5. /\ base \in Nat /\ next = base + size /\ size \in Nat
      /\ Place(script, n, Len(fs)) = next /\ Len(fs) \in Nat
      /\ w \in Seq(Octet)
  <2>1. Written(fs) \in Seq(Octet) /\ w \in Seq(Octet)
    BY <1>2, StartsAre
  <2>. QED  BY <2>1, <1>2, PlacesAre, LenProperties
<1>6. /\ StandsAt(buffer, w, base) /\ StandsAt(to_server, w, base + Len(buffer))
      /\ base + Len(buffer) + Len(to_server) = at
  BY <1>3 DEF Underway
<1>7. n + 1 = Len(log) + 2 /\ n \in Nat /\ n <= current
  BY <1>2
<1>8. n < Len(script) => codec' = script[n + 1].codec
  BY <1>1, <1>2, <1>4, OrderIs
<1>9. codec' \in {"Command", "AuthenticateData", "IdleDone"}
  BY <1>1, CodecAfterIs
<1>. HIDE DEF d, fs, size, base, w, next, at
<1>10. /\ buffer' \in Seq(Octet) /\ Len(buffer') = Len(buffer) - size
       /\ StandsAt(buffer', w, base + size)
  <2>1. size \in 0 .. Len(buffer)
    BY <1>3, <1>4, <1>5
  <2>2. buffer' = SubSeq(buffer, size + 1, Len(buffer))
    BY <1>1, <1>4
  <2>. QED  BY <2>1, <2>2, <1>2, <1>5, <1>6, StandsRest
<1>11. base + Len(buffer) = next + Len(buffer') /\ next + Len(buffer') + Len(to_server) = at /\ next \in Nat
  BY <1>3, <1>4, <1>5, <1>6, <1>10
<1>12. StandsAt(buffer', w, next) /\ StandsAt(to_server, w, next + Len(buffer'))
  BY <1>5, <1>6, <1>10, <1>11
<1>13. ASSUME n = current PROVE fragments = <<>>
  <2>1. /\ Gone \in 0 .. Len(fs) /\ (fragments = <<>> <=> Gone = Len(fs))
    BY <1>3, <1>13, CurrentIs DEF fs
  <2>2. SUFFICES ASSUME Gone # Len(fs) PROVE FALSE
    BY <2>1
  <2>3. /\ Len(fs) \in 1 .. Len(fs) /\ Len(fs) - 1 \in Gone .. Len(fs) /\ Len(fs) - 1 \in 0 .. Len(fs)
    BY <2>1, <2>2, <1>5
  <2>. DEFINE P(k) == Place(script, n, k)
              x == fs[Len(fs)].data
  <2>4. /\ P(Gone) <= P(Len(fs) - 1) /\ P(Len(fs) - 1) \in Nat
        /\ P(Len(fs)) = P(Len(fs) - 1) + Len(x) /\ x \in Seq(Octet)
    <3>1. /\ \A k \in 0 .. Len(fs) : P(k) \in Nat
          /\ \A k \in 1 .. Len(fs) : fs[k].data \in Seq(Octet) /\ P(k) = P(k - 1) + Len(fs[k].data)
          /\ \A i \in 0 .. Len(fs) : \A k \in i .. Len(fs) : P(i) <= P(k)
      BY <1>2, PlacesAre DEF fs
    <3>. HIDE DEF P
    <3>. QED  BY <3>1, <2>1, <2>3
  <2>5. Len(x) \in Nat /\ Len(x) # 0
    <3>1. x # <<>>
      BY <1>2, OrderIs DEF fs
    <3>. QED  BY <3>1, <2>4, LenProperties, EmptySeq
  <2>6. P(Gone) = at /\ P(Len(fs)) = next
    BY <1>5, <1>13 DEF at
  <2>. HIDE DEF P, x
  <2>7. Len(buffer') \in Nat
    BY <1>10, LenProperties
  <2>8. next <= at
    BY <2>7, <1>3, <1>11
  <2>9. at < next
    <3>1. at <= P(Len(fs) - 1) /\ next = P(Len(fs) - 1) + Len(x)
      BY <2>4, <2>6
    <3>2. at \in Nat
      BY <2>7, <1>3, <1>11
    <3>. QED  BY <3>1, <3>2, <2>4, <2>5
  <2>10. at \in Nat
    BY <2>7, <1>3, <1>11
  <2>. QED  BY <2>8, <2>9, <2>10, <1>11
<1>14. Len(log) + 1 < Len(script) => codec' = script[Len(log) + 2].codec
  BY <1>7, <1>8
<1>15. /\ StandsAt(buffer', Whole(script), Start(script, Len(log) + 2))
       /\ StandsAt(to_server, Whole(script), Start(script, Len(log) + 2) + Len(buffer'))
       /\ Start(script, Len(log) + 2) + Len(buffer') + Len(to_server) = Place(script, current, Gone)
       /\ Start(script, Len(log) + 2) \in Nat
  BY <1>7, <1>11, <1>12 DEF w, next, at
<1>16. d.out = script[Len(log) + 1].value /\ (Len(log) + 1 = current => fragments = <<>>)
  BY <1>4, <1>13
<1>. QED  BY <1>9, <1>10, <1>14, <1>15, <1>16 DEF d

\* When the codec changes, there is nothing left and nothing on its way.
LEMMA NothingFollows ==
  ASSUME Inv, DecodeBuffer, Serve(decode(codec, buffer)), codec' # "Command"
  PROVE  /\ buffer' = <<>> /\ to_server = <<>>
         /\ current = Len(log) + 1 \/ (current = Len(log) + 2 /\ Gone = 0)
<1>1. /\ InStep /\ Types /\ script \in Scripts /\ Len(log) \in Nat /\ Len(log) < current
      /\ current \in 1 .. Len(script) /\ current \in Nat /\ Len(script) \in Nat
      /\ to_server \in Seq(Octet)
  BY DecodeFacts
<1>2. /\ Len(log) + 1 = current => fragments = <<>>
      /\ Len(log) + 1 < Len(script) => codec' = script[Len(log) + 2].codec
      /\ buffer' \in Seq(Octet)
      /\ Start(script, Len(log) + 2) + Len(buffer') + Len(to_server) = Place(script, current, Gone)
      /\ Start(script, Len(log) + 2) \in Nat
  BY ServeFacts
<1>3. ASSUME current # Len(log) + 1 PROVE current = Len(log) + 2 /\ Gone = 0
  <2>1. Len(log) + 2 \in (Len(log) + 2) .. current /\ Len(log) + 1 < Len(script)
    BY <1>1, <1>3
  <2>2. script[Len(log) + 2].codec # "Command"
    BY <2>1, <1>2
  <2>. QED  BY <2>1, <2>2, <1>1 DEF InStep, Later
<1>4. Place(script, current, Gone) = Start(script, Len(log) + 2)
  <2>1. CASE current = Len(log) + 1
    <3>1. Gone = Len(Parted(script, current))
      BY <2>1, <1>1, <1>2, CurrentIs DEF Types
    <3>2. Place(script, current, Gone) = Start(script, current + 1)
      BY <3>1, <1>1, PlacesAre
    <3>3. current + 1 = Len(log) + 2
      BY <2>1, <1>1
    <3>. QED  BY <3>2, <3>3
  <2>2. CASE current = Len(log) + 2 /\ Gone = 0
    <3>1. Place(script, current, 0) = Start(script, current)
      BY <1>1, PlacesAre
    <3>. QED  BY <2>2, <3>1
  <2>. QED  BY <2>1, <2>2, <1>3
<1>5. Len(buffer') \in Nat /\ Len(to_server) \in Nat
  BY <1>1, <1>2, LenProperties
<1>6. Len(buffer') = 0 /\ Len(to_server) = 0
  <2>1. Start(script, Len(log) + 2) + Len(buffer') + Len(to_server) = Start(script, Len(log) + 2)
        /\ Start(script, Len(log) + 2) \in Nat
    BY <1>2, <1>4
  <2>. QED  BY <2>1, <1>5
<1>. QED  BY <1>1, <1>2, <1>3, <1>6, EmptySeq

\* A message is decoded.
LEMMA ServeKeepsInv ==
  ASSUME Inv, DecodeBuffer, Serve(decode(codec, buffer))
  PROVE  Inv'
<1>. DEFINE d == decode(codec, buffer)
            r == IF codec' # "Command" THEN Continuation(d.out[1].t, 0, codec') ELSE Tagged(d.out[1].t, "OK")
            entry == [what |-> "Served", value |-> d.out]
<1>1. /\ script' = script /\ current' = current /\ fragments' = fragments /\ to_server' = to_server
      /\ fresh' = (buffer' # <<>>) /\ to_client' = Append(to_client, r) /\ log' = Append(log, entry)
  BY DEF DecodeBuffer, Serve
<1>2. /\ InStep /\ Types /\ History /\ ~Replied("Continuation") /\ ~Replied("BAD")
      /\ Len(log) \in Nat /\ Len(log) < current /\ current \in Nat /\ current \in 1 .. Len(script)
      /\ Len(script) \in Nat
  BY DecodeFacts
<1>3. /\ d.out = script[Len(log) + 1].value
      /\ Len(log) + 1 = current => fragments = <<>>
      /\ Len(log) + 1 < Len(script) => codec' = script[Len(log) + 2].codec
      /\ codec' \in {"Command", "AuthenticateData", "IdleDone"}
      /\ buffer' \in Seq(Octet)
  BY ServeFacts
<1>4. /\ StandsAt(buffer', Whole(script), Start(script, Len(log) + 2))
      /\ StandsAt(to_server, Whole(script), Start(script, Len(log) + 2) + Len(buffer'))
      /\ Start(script, Len(log) + 2) + Len(buffer') + Len(to_server) = Place(script, current, Gone)
  BY ServeFacts
<1>5. /\ entry.what = "Served" /\ entry.value = script[Len(log) + 1].value
      /\ r.kind \in {"Continuation", "OK"}
      /\ r.kind = "Continuation" => codec' # "Command" /\ r.mode = codec'
  BY <1>3 DEF Continuation, Tagged
<1>. HIDE DEF d, r, entry
<1>6. /\ DOMAIN to_client = 1 .. Len(to_client) /\ Len(to_client) \in Nat
      /\ to_client' \in Seq(ToSet(to_client')) /\ DOMAIN to_client' = 1 .. Len(to_client) + 1
      /\ Len(to_client') = Len(to_client) + 1
      /\ to_client'[Len(to_client) + 1] = r /\ \A i \in 1 .. Len(to_client) : to_client'[i] = to_client[i]
  BY <1>1, <1>2, QueueAppend DEF Types, ReplyTypes
<1>7. /\ DOMAIN log = 1 .. Len(log)
      /\ log' \in Seq(ToSet(log')) /\ DOMAIN log' = 1 .. Len(log) + 1 /\ Len(log') = Len(log) + 1
      /\ log'[Len(log) + 1] = entry /\ \A i \in 1 .. Len(log) : log'[i] = log[i]
  BY <1>1, <1>2, QueueAppend DEF Types, LogTypes
<1>8. \A i \in DOMAIN to_client' : \/ i = Len(to_client) + 1 /\ to_client'[i] = r
                                   \/ i \in DOMAIN to_client /\ to_client'[i] = to_client[i]
  BY <1>6
<1>9. \A i \in DOMAIN log' : \/ i = Len(log) + 1 /\ log'[i] = entry
                             \/ i \in DOMAIN log /\ log'[i] = log[i]
  BY <1>7
<1>10. ReplyTypes' /\ ~Replied("BAD")'
  BY <1>2, <1>5, <1>6, <1>8 DEF Types, ReplyTypes, Replied
<1>11. LogTypes'
  BY <1>2, <1>5, <1>7, <1>9 DEF Types, LogTypes
<1>12. Gone' = Gone
  BY <1>1 DEF Gone
<1>13. ClientTypes' /\ ServerTypes'
  <2>1. ServerTypes'
    BY <1>1, <1>3 DEF ServerTypes
  <2>. QED  BY <2>1, <1>1, <1>2, <1>12 DEF Types, ClientTypes
<1>14. History'
  <2>1. ASSUME NEW i \in DOMAIN log'
        PROVE  \/ /\ log'[i].what = "Served" /\ log'[i].value = script[i].value
                  /\ i < current \/ (i = current /\ fragments = <<>>)
               \/ log'[i].what = "Failed" /\ script[i].value = <<>>
               \/ /\ log'[i].what = "Rejected"
                  /\ \E j \in DOMAIN script[i].fragments : IsSync(script[i].fragments[j])
    <3>1. CASE i = Len(log) + 1 /\ log'[i] = entry
      <4>1. Len(log) + 1 < current \/ (Len(log) + 1 = current /\ fragments = <<>>)
        BY <1>2, <1>3
      <4>. QED  BY <4>1, <3>1, <1>5
    <3>2. CASE i \in DOMAIN log /\ log'[i] = log[i]
      BY <3>2, <1>2 DEF History
    <3>. QED  BY <3>1, <3>2, <1>9
  <2>. QED  BY <2>1, <1>1 DEF History
<1>15. Len(log') + 1 = Len(log) + 2 /\ Len(log') + 2 = Len(log) + 3 /\ Len(log') <= current
  BY <1>2, <1>7
<1>16. Underway'
  <2>1. codec' # "None"
    BY <1>3
  <2>2. (Len(log') = current' => fragments' = <<>>) /\ (Len(log') < Len(script') => codec' = script'[Len(log') + 1].codec)
    BY <1>1, <1>3, <1>7, <1>15
  <2>3. /\ StandsAt(buffer', Whole(script'), Start(script', Len(log') + 1))
        /\ StandsAt(to_server', Whole(script'), Start(script', Len(log') + 1) + Len(buffer'))
        /\ Start(script', Len(log') + 1) + Len(buffer') + Len(to_server') = Place(script', current', Gone')
    BY <1>1, <1>4, <1>12, <1>15, Zenon
  <2>. QED  BY <2>1, <2>2, <2>3, <1>1, <1>10, <1>15, Zenon DEF Underway
<1>17. Later'
  <2>1. \A j \in (Len(log) + 3) .. current : j \in (Len(log) + 2) .. current
    BY <1>2
  <2>. QED  BY <2>1, <1>1, <1>2, <1>12, <1>15 DEF InStep, Later
<1>18. Now'
  <2>1. ASSUME NEW k \in 1 .. Len(Parted(script, Len(log) + 2)), Len(log) + 1 < current,
               IsSync(Parted(script, Len(log) + 2)[k]),
               current > Len(log) + 2 \/ Gone >= k
        PROVE  FALSE
    <3>1. Len(log) + 2 \in (Len(log) + 2) .. current /\ Len(log) + 2 \in 1 .. Len(script)
      BY <2>1, <1>2
    <3>2. Len(log) + 2 = current /\ Gone < k
      BY <2>1, <3>1, <1>2 DEF InStep, Later
    <3>3. k \in Nat /\ Gone \in Nat
      <4>1. ClientTypes
        BY <1>2 DEF Types
      <4>2. Gone \in 0 .. Len(Parted(script, current)) /\ Len(Parted(script, current)) \in Nat
        BY <4>1, CurrentIs
      <4>. QED  BY <4>2, <3>2
    <3>. QED  BY <2>1, <3>2, <3>3, <1>2
  <2>. QED  BY <2>1, <1>1, <1>7, <1>12, <1>15 DEF Now
<1>19. Granted'
  <2>1. ASSUME NEW i \in DOMAIN to_client', to_client'[i].kind = "Continuation"
        PROVE  i = Len(to_client') /\ to_client'[i].mode = codec' /\ codec' # "Command"
    <3>1. to_client'[i] = r /\ i = Len(to_client) + 1
      BY <2>1, <1>2, <1>8 DEF Replied
    <3>. QED  BY <2>1, <3>1, <1>5, <1>6
  <2>2. ASSUME codec' # "Command"
        PROVE  /\ ~fresh' /\ to_server' = <<>> /\ buffer' = <<>>
               /\ current' = Len(log') \/ (current' = Len(log') + 1 /\ Gone' = 0)
    BY <2>2, <1>1, <1>7, <1>12, <1>15, NothingFollows
  <2>3. codec' # ""
    BY <1>3
  <2>. QED  BY <2>1, <2>2, <2>3, Zenon DEF Granted
<1>. QED  BY <1>10, <1>11, <1>13, <1>14, <1>16, <1>17, <1>18, <1>19 DEF Inv, Types, InStep

-----------------------------------------------------------------------------
(* The theorems.                                                           *)

\* The invariant holds at the beginning, when the codecs fit the scripts.
LEMMA InitInv ==
  ASSUME \A s \in Scripts : ScriptFits(s)
  PROVE  Init => Inv
<1>1. SUFFICES ASSUME Init PROVE Inv
  OBVIOUS
<1>2. /\ script \in Scripts /\ current = 1 /\ fragments = Parted(script, 1)
      /\ to_server = <<>> /\ to_client = <<>> /\ codec = "Command"
      /\ buffer = <<>> /\ fresh = FALSE /\ log = <<>>
  BY <1>1 DEF Init, Parted
<1>3. /\ ScriptFits(script) /\ Len(script) \in Nat /\ 1 \in 1 .. Len(script)
  BY <1>2, MessagesAre
<1>4. /\ Parted(script, 1) \in Seq(Fragments) /\ Len(Parted(script, 1)) \in Nat
      /\ Place(script, 1, 0) = Start(script, 1) /\ Start(script, 1) = 0
      /\ Whole(script) \in Seq(Octet) /\ Len(Whole(script)) \in Nat
      /\ script[1].codec = "Command"
  BY <1>2, <1>3, PlacesAre, StartsAre, OrderIs
<1>5. \A X : <<>> \in Seq(X) /\ Len(<<>>) = 0
  BY EmptySeq
<1>6. DOMAIN <<>> = {}
  OBVIOUS
<1>7. Gone = 0
  BY <1>2, <1>4 DEF Gone
<1>8. ClientTypes
  <2>1. \A j \in 1 .. Len(Parted(script, 1)) : 0 + j = j
    BY <1>4
  <2>2. Len(fragments) <= Len(Parted(script, current))
    BY <1>2, <1>4
  <2>. QED  BY <2>1, <2>2, <1>2, <1>3, <1>4, <1>5, <1>7 DEF ClientTypes
<1>9. ServerTypes /\ ReplyTypes /\ LogTypes /\ History /\ ~Replied("BAD") /\ Granted
  BY <1>2, <1>5, <1>6 DEF ServerTypes, ReplyTypes, LogTypes, History, Replied, Granted
<1>10. Underway
  <2>1. StandsAt(<<>>, Whole(script), 0)
    <3>1. 0 \in 0 .. Len(Whole(script))
      BY <1>4
    <3>. QED  BY <3>1, <1>4, StandsEmpty
  <2>2. /\ codec # "None" /\ Len(log) <= current /\ Len(log) # current /\ codec = script[Len(log) + 1].codec
    BY <1>2, <1>4, <1>5
  <2>3. /\ StandsAt(buffer, Whole(script), Start(script, Len(log) + 1))
        /\ StandsAt(to_server, Whole(script), Start(script, Len(log) + 1) + Len(buffer))
        /\ Start(script, Len(log) + 1) + Len(buffer) + Len(to_server) = Place(script, current, Gone)
    <3>1. Len(log) + 1 = 1 /\ Len(buffer) = 0 /\ Len(to_server) = 0 /\ current = 1
      BY <1>2, <1>5
    <3>. QED  BY <2>1, <3>1, <1>2, <1>4, <1>7
  <2>. QED  BY <2>2, <2>3, <1>9, Zenon DEF Underway
<1>11. Later /\ Now
  <2>1. Len(log) = 0 /\ current = 1
    BY <1>2, <1>5
  <2>2. Len(log) + 1 = 1 /\ ~(1 > 1) /\ ~ \E j : j \in (0 + 2) .. 1
    BY <2>1
  <2>3. \A k \in 1 .. Len(Parted(script, 1)) : ~(0 >= k)
    BY <1>4
  <2>4. Later
    BY <2>1, <2>2 DEF Later
  <2>5. Now
    BY <2>1, <2>2, <2>3, <1>7 DEF Now
  <2>. QED  BY <2>4, <2>5
<1>. QED  BY <1>8, <1>9, <1>10, <1>11 DEF Inv, Types, InStep

\* Every step keeps the invariant.
LEMMA NextKeepsInv == Inv /\ [Next]_vars => Inv'
<1>1. SUFFICES ASSUME Inv, [Next]_vars PROVE Inv'
  OBVIOUS
<1>2. CASE ClientStep
  BY <1>1, <1>2, SendAtOnceKeepsInv, SendOnContinuationKeepsInv, ReceiveAnswerKeepsInv,
     NextMessageKeepsInv DEF ClientStep
<1>3. CASE Receive
  BY <1>1, <1>3, ReceiveKeepsInv
<1>4. CASE DecodeBuffer
  <2>. DEFINE d == decode(codec, buffer)
  <2>1. Serve(d) \/ WaitForMore(d) \/ AcceptLiteral(d) \/ RejectLiteral(d) \/ Fail(d)
    BY <1>4, Zenon DEF DecodeBuffer
  <2>. QED  BY <2>1, <1>1, <1>4, ServeKeepsInv, WaitKeepsInv, AcceptKeepsInv, RejectKeepsInv, FailKeepsInv
<1>5. CASE UNCHANGED vars
  <2>1. /\ script' = script /\ current' = current /\ fragments' = fragments /\ to_server' = to_server
        /\ to_client' = to_client /\ codec' = codec /\ buffer' = buffer /\ fresh' = fresh /\ log' = log
    BY <1>5 DEF vars
  <2>2. Gone' = Gone /\ Sending' = Sending
    BY <2>1 DEF Gone, Sending
  <2>3. Types' = Types /\ History' = History /\ (\A kind : Replied(kind)' = Replied(kind))
    BY <2>1, <2>2 DEF Types, ClientTypes, ServerTypes, ReplyTypes, LogTypes, History, Replied
  <2>4. Stopped' = Stopped /\ Rejected' = Rejected
    BY <2>1, <2>2, <2>3 DEF Stopped, Rejected
  <2>5. Underway' = Underway /\ Later' = Later /\ Now' = Now /\ Granted' = Granted
    BY <2>1, <2>2, <2>3 DEF Underway, Later, Now, Granted
  <2>. QED  BY <2>3, <2>4, <2>5, <1>1 DEF Inv, InStep
<1>. QED  BY <1>1, <1>2, <1>3, <1>4, <1>5 DEF Next, ServerStep

\* The invariant is one of the specification.
LEMMA Invariance ==
  ASSUME \A s \in Scripts : ScriptFits(s)
  PROVE  Spec => []Inv
<1>1. Init => Inv
  BY InitInv
<1>2. Inv /\ [Next]_vars => Inv'
  BY NextKeepsInv
<1>. QED  BY <1>1, <1>2, PTL DEF Spec

\* The types of the state are right, a continuation is on its way only to a client
\* that waits for just that one, and nothing is served before all of it was sent,
\* whatever the codecs make of octets, as long as they fit the messages.
THEOREM ExchangeInvariant ==
  ASSUME \A s \in Scripts : ScriptFits(s)
  PROVE  Spec => []ExchangeInv
<1>1. Inv => ExchangeInv
  <2>1. SUFFICES ASSUME Inv PROVE ExchangeInv
    OBVIOUS
  <2>2. ClientTypes /\ ServerTypes /\ ReplyTypes /\ LogTypes
    BY <2>1 DEF Inv, Types
  <2>3. ExchangeTypeOK
    BY <2>2 DEF ExchangeTypeOK, ClientTypes, ServerTypes, ReplyTypes, LogTypes
  <2>6. NothingIsServedEarly
    BY <2>1 DEF Inv, History, NothingIsServedEarly
  <2>4. CASE ~Replied("Continuation")
    <3>1. ContinuationsAreAwaited
      BY <2>4 DEF ContinuationsAreAwaited, Replied
    <3>. QED  BY <2>3, <2>6, <3>1 DEF ExchangeInv
  <2>5. CASE Granted
    <3>1. DOMAIN to_client = 1 .. Len(to_client) /\ Len(to_client) \in Nat
      BY <2>2, OwnElements DEF ReplyTypes
    <3>2. ASSUME NEW i \in DOMAIN to_client, to_client[i].kind = "Continuation"
          PROVE  /\ \A j \in DOMAIN to_client : j > i => to_client[j].kind # "Continuation"
                 /\ to_client[i].mode = "" =>
                      /\ fragments # <<>>
                      /\ IsSync(Head(fragments))
                      /\ Len(Head(fragments).data) = to_client[i].length
                      /\ to_client[i].tag = Sending.tag
                      /\ to_server = <<>>
      <4>1. i = Len(to_client)
        BY <3>2, <2>5 DEF Granted
      <4>2. \A j \in DOMAIN to_client : ~(j > i)
        BY <4>1, <3>1
      <4>3. to_client[i].mode = "" =>
                      /\ fragments # <<>>
                      /\ IsSync(Head(fragments))
                      /\ Len(Head(fragments).data) = to_client[i].length
                      /\ to_client[i].tag = Sending.tag
                      /\ to_server = <<>>
        BY <3>2, <2>5, Zenon DEF Granted
      <4>. QED  BY <4>2, <4>3
    <3>3. ContinuationsAreAwaited
      BY <3>2, Zenon DEF ContinuationsAreAwaited
    <3>. QED  BY <2>3, <2>6, <3>3 DEF ExchangeInv
  <2>. QED  BY <2>1, <2>4, <2>5 DEF Inv, Stopped, Rejected, InStep
<1>2. Spec => []Inv
  BY Invariance
<1>. QED  BY <1>1, <1>2, PTL

\* What the server makes of a message is what the client meant: every octet is
\* decoded once, as part of the message it was written for, with the codec that
\* message was written for.
THEOREM MessagesAreDecodedAsMeant ==
  ASSUME \A s \in Scripts : ScriptFits(s)
  PROVE  Spec => []DecodedAsMeant
<1>1. Inv => DecodedAsMeant
  <2>1. SUFFICES ASSUME Inv, NEW i \in DOMAIN log
                 PROVE  CASE log[i].what = "Served" -> log[i].value = script[i].value
                          [] log[i].what = "Failed" -> script[i].value = <<>>
                          [] log[i].what = "Rejected" -> \E j \in DOMAIN script[i].fragments :
                               IsSync(script[i].fragments[j])
    BY DEF DecodedAsMeant
  <2>2. \/ log[i].what = "Served" /\ log[i].value = script[i].value
        \/ log[i].what = "Failed" /\ script[i].value = <<>>
        \/ /\ log[i].what = "Rejected"
           /\ \E j \in DOMAIN script[i].fragments : IsSync(script[i].fragments[j])
    BY <2>1 DEF Inv, History
  <2>. QED  BY <2>2
<1>2. Spec => []Inv
  BY Invariance
<1>. QED  BY <1>1, <1>2, PTL

\* No message is decoded before the client has sent all of it.
THEOREM NoMessageIsServedEarly ==
  ASSUME \A s \in Scripts : ScriptFits(s)
  PROVE  Spec => []NothingIsServedEarly
<1>1. Inv => NothingIsServedEarly
  BY DEF Inv, History, NothingIsServedEarly
<1>2. Spec => []Inv
  BY Invariance
<1>. QED  BY <1>1, <1>2, PTL
==============================================================================
