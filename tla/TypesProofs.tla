----------------------------- MODULE TypesProofs ----------------------------
(***************************************************************************)
(* Proofs about two parts of imap-types, names and tags: names are kept,   *)
(* and a fallback holds unknown names only, for every atom that a peer may *)
(* send and all variants that have a reader; tags are unique for every     *)
(* number of threads and every width of the two counters, as long as no    *)
(* counter is used beyond its width.                                       *)
(***************************************************************************)
EXTENDS Names, TagGenerator, SequenceLemmas

-----------------------------------------------------------------------------
(* Atoms.                                                                  *)

\* The words that the readers look for, and all others.  (That a word written
\* as a literal is a STRING is beyond the provers.)
Word ==
  STRING \cup
  {"PLAIN", "LOGIN", "OAUTHBEARER", "XOAUTH2", "SCRAM-SHA-1", "SCRAM-SHA-1-PLUS", "SCRAM-SHA-256", "SCRAM-SHA-256-PLUS",
   "IMAP4REV1", "LOGINDISABLED", "STARTTLS", "MAILBOX-REFERRALS", "LOGIN-REFERRALS", "SASL-IR", "IDLE", "ENABLE",
   "QUOTA", "QUOTASET", "LITERAL", "+", "-", "MOVE", "ID", "UNSELECT", "SORT", "METADATA", "METADATA-SERVER", "BINARY",
   "UIDPLUS", "LIST-EXTENDED", "CONDSTORE", "QRESYNC", "STATUS", "=", "SIZE", "WITHIN", "STORAGE", "MESSAGE", "MAILBOX",
   "ANNOTATION-STORAGE", "ORDEREDSUBJECT", "REFERENCES", "DISPLAY", "NOINFERIORS", "NOSELECT", "MARKED", "UNMARKED",
   "ANSWERED", "DELETED", "DRAFT", "FLAGGED", "SEEN", "AUTH", "COMPRESS", "DEFLATE", "RES-", "THREAD", "RECENT",
   "\\", "\\\\", "*"}
Spelling == STRING \cup {"usual", "lower"}

Letter == [w : Word, s : Spelling]
Letters == Seq(Letter)

\* Atoms are sequences of letters.
LEMMA AtomsAreLetters == Atoms \subseteq Letters
<1>. DEFINE L == [w : STRING, s : STRING]
<1>1. L \subseteq Letter
  BY DEF Letter, Word, Spelling
<1>. HIDE DEF L
<1>2. Seq(L) \subseteq Seq(Letter)
  BY <1>1, SeqMonotonic
<1>. QED  BY <1>2 DEF L, Atoms, Letters

\* An atom: its length, its letters, and its words.
LEMMA AtomFacts ==
  ASSUME NEW a \in Letters
  PROVE  /\ Len(a) \in Nat /\ DOMAIN a = 1 .. Len(a) /\ (a = <<>> <=> Len(a) = 0)
         /\ \A i \in 1 .. Len(a) : a[i] \in Letter /\ a[i].w \in Word
         /\ Folded(a) \in Seq(Word) /\ Len(Folded(a)) = Len(a)
         /\ \A i \in 1 .. Len(a) : Folded(a)[i] = a[i].w
<1>1. Len(a) \in Nat /\ DOMAIN a = 1 .. Len(a) /\ (a = <<>> <=> Len(a) = 0)
  BY LenProperties, EmptySeq DEF Letters
<1>2. \A i \in 1 .. Len(a) : a[i] \in Letter /\ a[i].w \in Word
  <2>1. \A i \in 1 .. Len(a) : a[i] \in Letter
    BY ElementOfSeq DEF Letters, Letter
  <2>. QED  BY <2>1 DEF Letter
<1>3. Folded(a) = [i \in 1 .. Len(a) |-> a[i].w]
  BY <1>1 DEF Folded
<1>4. Folded(a) \in [1 .. Len(a) -> Word]
  BY <1>2, <1>3
<1>5. Folded(a) \in Seq(Word) /\ Len(Folded(a)) = Len(a)
  BY <1>1, <1>4, IsASeq
<1>. QED  BY <1>1, <1>2, <1>3, <1>5

\* A name in a spelling is an atom with the name's words.
LEMMA SpelledFacts ==
  ASSUME NEW n \in Seq(Word), NEW s \in Spelling
  PROVE  /\ Spelled(n, s) \in Letters /\ Folded(Spelled(n, s)) = n
         /\ Len(Spelled(n, s)) = Len(n)
         /\ \A i \in 1 .. Len(n) : Spelled(n, s)[i].w = n[i]
<1>. DEFINE a == Spelled(n, s)
<1>1. Len(n) \in Nat /\ DOMAIN n = 1 .. Len(n)
  BY LenProperties
<1>2. \A i \in 1 .. Len(n) : n[i] \in Word
  BY ElementOfSeq
<1>3. a = [i \in 1 .. Len(n) |-> [w |-> n[i], s |-> s]]
  BY <1>1 DEF Spelled
<1>4. a \in [1 .. Len(n) -> Letter]
  BY <1>2, <1>3 DEF Letter
<1>5. a \in Seq(Letter) /\ Len(a) = Len(n)
  <2>. HIDE DEF a
  <2>. QED  BY <1>1, <1>4, LenProperties, SeqDef
<1>6. a \in Letters
  BY <1>5 DEF Letters, Letter
<1>7. \A i \in 1 .. Len(n) : a[i].w = n[i]
  BY <1>3
<1>. HIDE DEF a
<1>8. Folded(a) \in Seq(Word) /\ Len(Folded(a)) = Len(n)
      /\ \A i \in 1 .. Len(n) : Folded(a)[i] = n[i]
  BY <1>5, <1>6, <1>7, AtomFacts
<1>9. Folded(a) = n
  BY <1>8, SeqEqual
<1>. QED  BY <1>5, <1>6, <1>7, <1>9 DEF a

\* Display spells as usual.
LEMMA UsualFacts ==
  ASSUME NEW n \in Seq(Word)
  PROVE  /\ Usual(n) \in Letters /\ Folded(Usual(n)) = n /\ Len(Usual(n)) = Len(n)
         /\ \A i \in 1 .. Len(n) : Usual(n)[i].w = n[i]
<1>1. "usual" \in Spelling
  BY DEF Spelling
<1>2. /\ Spelled(n, "usual") \in Letters /\ Folded(Spelled(n, "usual")) = n
      /\ Len(Spelled(n, "usual")) = Len(n)
      /\ \A i \in 1 .. Len(n) : Spelled(n, "usual")[i].w = n[i]
  BY <1>1, SpelledFacts
<1>. QED  BY <1>2 DEF Usual

\* The letters that Display writes.
LEMMA UsualLetters ==
  ASSUME NEW n \in Seq(Word)
  PROVE  /\ Usual(n) \in Letters /\ Len(Usual(n)) = Len(n)
         /\ \A i \in 1 .. Len(n) : Usual(n)[i] = [w |-> n[i], s |-> "usual"]
<1>1. DOMAIN n = 1 .. Len(n)
  BY LenProperties
<1>2. \A i \in 1 .. Len(n) : Usual(n)[i] = [w |-> n[i], s |-> "usual"]
  BY <1>1 DEF Usual, Spelled
<1>. QED  BY <1>2, UsualFacts

\* Making an atom lower case keeps its words, and is idempotent.
LEMMA LoweredFacts ==
  ASSUME NEW a \in Letters
  PROVE  /\ Lowered(a) \in Letters /\ Folded(Lowered(a)) = Folded(a)
         /\ Lowered(Lowered(a)) = Lowered(a)
<1>1. "lower" \in Spelling
  BY DEF Spelling
<1>2. Folded(a) \in Seq(Word)
  BY AtomFacts
<1>3. Lowered(a) \in Letters /\ Folded(Lowered(a)) = Folded(a)
  BY <1>1, <1>2, SpelledFacts DEF Lowered
<1>. QED  BY <1>3 DEF Lowered

\* Letters are joined: an atom, with the words of both.
LEMMA JoinFacts ==
  ASSUME NEW a \in Letters, NEW b \in Letters
  PROVE  /\ a \o b \in Letters /\ Len(a \o b) = Len(a) + Len(b)
         /\ \A i \in 1 .. Len(a) : (a \o b)[i] = a[i]
         /\ \A i \in 1 .. Len(b) : (a \o b)[Len(a) + i] = b[i]
<1>. DEFINE c == a \o b
<1>1. Len(a) \in Nat /\ Len(b) \in Nat
  BY AtomFacts
<1>2. /\ c \in Letters /\ Len(c) = Len(a) + Len(b)
      /\ \A i \in 1 .. Len(a) + Len(b) : c[i] = IF i <= Len(a) THEN a[i] ELSE b[i - Len(a)]
  BY ConcatProperties DEF Letters
<1>. HIDE DEF c
<1>3. \A i \in 1 .. Len(a) : c[i] = a[i]
  BY <1>1, <1>2
<1>4. \A i \in 1 .. Len(b) : Len(a) + i \in 1 .. Len(a) + Len(b) /\ ~(Len(a) + i <= Len(a)) /\ Len(a) + i - Len(a) = i
  BY <1>1
<1>5. \A i \in 1 .. Len(b) : c[Len(a) + i] = b[i]
  BY <1>2, <1>4
<1>. QED  BY <1>2, <1>3, <1>5 DEF c

\* Two atoms have the same words.
Alike(a, b) == Len(a) = Len(b) /\ \A i \in 1 .. Len(a) : a[i].w = b[i].w

\* Letter by letter the same words are the same words as a whole.
LEMMA AlikeIsFolded ==
  ASSUME NEW a \in Letters, NEW b \in Letters
  PROVE  Alike(a, b) <=> Folded(a) = Folded(b)
<1>1. ASSUME Folded(a) = Folded(b) PROVE Alike(a, b)
  BY <1>1, AtomFacts DEF Alike
<1>2. ASSUME Alike(a, b) PROVE Folded(a) = Folded(b)
  <2>1. /\ Folded(a) \in Seq(Word) /\ Folded(b) \in Seq(Word)
        /\ Len(Folded(a)) = Len(Folded(b))
        /\ \A i \in 1 .. Len(Folded(a)) : Folded(a)[i] = Folded(b)[i]
    BY <1>2, AtomFacts DEF Alike
  <2>. QED  BY <2>1, SeqEqual
<1>. QED  BY <1>1, <1>2

-----------------------------------------------------------------------------
(* Tables.                                                                 *)

\* A table of names: what is read is written the same, and no two variants
\* are read from the same name.
Table(read, written) ==
  /\ DOMAIN read \subseteq DOMAIN written
  /\ \A v \in DOMAIN read : written[v] = read[v] /\ read[v] \in Seq(Word)
  /\ \A u, v \in DOMAIN read : read[u] = read[v] => u = v
  /\ {"Other", "Extension", "Keyword"} \cap DOMAIN written = {}

\* Names of one to three words.
Name == {<<x>> : x \in Word} \cup {<<x, y>> : x, y \in Word} \cup {<<x, y, z>> : x, y, z \in Word}

\* Names are sequences of words.
LEMMA NameSeq == Name \subseteq Seq(Word)
<1>1. ASSUME NEW x \in Word PROVE <<x>> \in Seq(Word)
  OBVIOUS
<1>2. ASSUME NEW x \in Word, NEW y \in Word PROVE <<x, y>> \in Seq(Word)
  OBVIOUS
<1>3. ASSUME NEW x \in Word, NEW y \in Word, NEW z \in Word PROVE <<x, y, z>> \in Seq(Word)
  OBVIOUS
<1>4. ASSUME NEW n \in Name PROVE n \in Seq(Word)
  <2>1. CASE \E x \in Word : n = <<x>>
    BY <2>1, <1>1
  <2>2. CASE \E x, y \in Word : n = <<x, y>>
    BY <2>2, <1>2
  <2>3. CASE \E x, y, z \in Word : n = <<x, y, z>>
    BY <2>3, <1>3
  <2>. QED  BY <2>1, <2>2, <2>3 DEF Name
<1>. QED  BY <1>4

\* The table of mechanism names.
LEMMA MechanismTable == Table(MechanismRead, MechanismWritten)
<1>1. DOMAIN MechanismRead \subseteq DOMAIN MechanismWritten
  BY DEF MechanismRead, MechanismWritten
<1>2. \A v \in DOMAIN MechanismRead : MechanismWritten[v] = MechanismRead[v]
  BY SMTT(90) DEF MechanismRead, MechanismWritten
<1>3. \A v \in DOMAIN MechanismRead : MechanismRead[v] \in Name
  BY SMTT(90) DEF MechanismRead, Name, Word
<1>4. \A u, v \in DOMAIN MechanismRead : MechanismRead[u] = MechanismRead[v] => u = v
  BY SMTT(90) DEF MechanismRead
<1>5. {"Other", "Extension", "Keyword"} \cap DOMAIN MechanismWritten = {}
  BY DEF MechanismWritten
<1>. QED  BY <1>1, <1>2, <1>3, <1>4, <1>5, NameSeq DEF Table

\* The table of resource names.
LEMMA ResourceTable == Table(ResourceRead, ResourceWritten)
<1>1. DOMAIN ResourceRead \subseteq DOMAIN ResourceWritten
  BY DEF ResourceRead, ResourceWritten
<1>2. \A v \in DOMAIN ResourceRead : ResourceWritten[v] = ResourceRead[v]
  BY SMTT(90) DEF ResourceRead, ResourceWritten
<1>3. \A v \in DOMAIN ResourceRead : ResourceRead[v] \in Name
  BY SMTT(90) DEF ResourceRead, Name, Word
<1>4. \A u, v \in DOMAIN ResourceRead : ResourceRead[u] = ResourceRead[v] => u = v
  BY SMTT(90) DEF ResourceRead
<1>5. {"Other", "Extension", "Keyword"} \cap DOMAIN ResourceWritten = {}
  BY DEF ResourceWritten
<1>. QED  BY <1>1, <1>2, <1>3, <1>4, <1>5, NameSeq DEF Table

\* The table of threading names.
LEMMA ThreadingTable == Table(ThreadingRead, ThreadingWritten)
<1>1. DOMAIN ThreadingRead \subseteq DOMAIN ThreadingWritten
  BY DEF ThreadingRead, ThreadingWritten
<1>2. \A v \in DOMAIN ThreadingRead : ThreadingWritten[v] = ThreadingRead[v]
  BY SMTT(90) DEF ThreadingRead, ThreadingWritten
<1>3. \A v \in DOMAIN ThreadingRead : ThreadingRead[v] \in Name
  BY SMTT(90) DEF ThreadingRead, Name, Word
<1>4. \A u, v \in DOMAIN ThreadingRead : ThreadingRead[u] = ThreadingRead[v] => u = v
  BY SMTT(90) DEF ThreadingRead
<1>5. {"Other", "Extension", "Keyword"} \cap DOMAIN ThreadingWritten = {}
  BY DEF ThreadingWritten
<1>. QED  BY <1>1, <1>2, <1>3, <1>4, <1>5, NameSeq DEF Table

\* The table of sort names.
LEMMA SortTable == Table(SortRead, SortWritten)
<1>1. DOMAIN SortRead \subseteq DOMAIN SortWritten
  BY DEF SortRead, SortWritten
<1>2. \A v \in DOMAIN SortRead : SortWritten[v] = SortRead[v]
  BY SMTT(90) DEF SortRead, SortWritten
<1>3. \A v \in DOMAIN SortRead : SortRead[v] \in Name
  BY SMTT(90) DEF SortRead, Name, Word
<1>4. \A u, v \in DOMAIN SortRead : SortRead[u] = SortRead[v] => u = v
  BY SMTT(90) DEF SortRead
<1>5. {"Other", "Extension", "Keyword"} \cap DOMAIN SortWritten = {}
  BY DEF SortWritten
<1>. QED  BY <1>1, <1>2, <1>3, <1>4, <1>5, NameSeq DEF Table

\* The table of enable names.
LEMMA EnableTable == Table(EnableRead, EnableWritten)
<1>1. DOMAIN EnableRead \subseteq DOMAIN EnableWritten
  BY DEF EnableRead, EnableWritten
<1>2. \A v \in DOMAIN EnableRead : EnableWritten[v] = EnableRead[v]
  BY SMTT(90) DEF EnableRead, EnableWritten
<1>3. \A v \in DOMAIN EnableRead : EnableRead[v] \in Name
  BY SMTT(90) DEF EnableRead, Name, Word
<1>4. \A u, v \in DOMAIN EnableRead : EnableRead[u] = EnableRead[v] => u = v
  BY SMTT(90) DEF EnableRead
<1>5. {"Other", "Extension", "Keyword"} \cap DOMAIN EnableWritten = {}
  BY DEF EnableWritten
<1>. QED  BY <1>1, <1>2, <1>3, <1>4, <1>5, NameSeq DEF Table

\* The table of attribute names.
LEMMA AttributeTable == Table(AttributeRead, AttributeWritten)
<1>1. DOMAIN AttributeRead \subseteq DOMAIN AttributeWritten
  BY DEF AttributeRead, AttributeWritten
<1>2. \A v \in DOMAIN AttributeRead : AttributeWritten[v] = AttributeRead[v]
  BY SMTT(90) DEF AttributeRead, AttributeWritten
<1>3. \A v \in DOMAIN AttributeRead : AttributeRead[v] \in Name
  BY SMTT(90) DEF AttributeRead, Name, Word
<1>4. \A u, v \in DOMAIN AttributeRead : AttributeRead[u] = AttributeRead[v] => u = v
  BY SMTT(90) DEF AttributeRead
<1>5. {"Other", "Extension", "Keyword"} \cap DOMAIN AttributeWritten = {}
  BY DEF AttributeWritten
<1>. QED  BY <1>1, <1>2, <1>3, <1>4, <1>5, NameSeq DEF Table

\* The table of flag names.
LEMMA FlagTable == Table(FlagRead, FlagWritten)
<1>1. DOMAIN FlagRead \subseteq DOMAIN FlagWritten
  BY DEF FlagRead, FlagWritten
<1>2. \A v \in DOMAIN FlagRead : FlagWritten[v] = FlagRead[v]
  BY SMTT(90) DEF FlagRead, FlagWritten
<1>3. \A v \in DOMAIN FlagRead : FlagRead[v] \in Name
  BY SMTT(90) DEF FlagRead, Name, Word
<1>4. \A u, v \in DOMAIN FlagRead : FlagRead[u] = FlagRead[v] => u = v
  BY SMTT(90) DEF FlagRead
<1>5. {"Other", "Extension", "Keyword"} \cap DOMAIN FlagWritten = {}
  BY DEF FlagWritten
<1>. QED  BY <1>1, <1>2, <1>3, <1>4, <1>5, NameSeq DEF Table

\* The table of capability names.
LEMMA CapabilityTable == Table(CapabilityRead, CapabilityWritten)
<1>1. DOMAIN CapabilityRead \subseteq DOMAIN CapabilityWritten
  BY DEF CapabilityRead, CapabilityWritten
<1>2. \A v \in DOMAIN CapabilityRead : CapabilityWritten[v] = CapabilityRead[v]
  BY SMTT(90) DEF CapabilityRead, CapabilityWritten
<1>3. \A v \in DOMAIN CapabilityRead : CapabilityRead[v] \in Name
  BY SMTT(90) DEF CapabilityRead, Name, Word
<1>4. \A u, v \in DOMAIN CapabilityRead : CapabilityRead[u] = CapabilityRead[v] => u = v
  BY SMTT(90) DEF CapabilityRead
<1>5. {"Other", "Extension", "Keyword"} \cap DOMAIN CapabilityWritten = {}
  BY DEF CapabilityWritten
<1>. QED  BY <1>1, <1>2, <1>3, <1>4, <1>5, NameSeq DEF Table

-----------------------------------------------------------------------------
(* Matching an atom against the arms of a table.                           *)

\* What is matched is written with the same words, and is matched as before.
LEMMA MatchKept ==
  ASSUME NEW read, NEW written, Table(read, written), NEW a \in Letters,
         NEW fallback \in {"Other", "Extension"}
  PROVE  LET m == match(read, fallback, a)
             w == Written(written, m)
         IN  /\ w \in Letters /\ Folded(w) = Folded(a) /\ match(read, fallback, w) = m
             /\ m.v # fallback => m.of = <<>>
             /\ m.v \in DOMAIN written \cup {fallback}
<1>. DEFINE m == match(read, fallback, a)
            hits(x) == {v \in DOMAIN read : read[v] = Folded(x)}
            w == Written(written, m)
<1>1. CASE hits(a) = {}
  <2>1. m = Value(fallback, a)
    BY <1>1 DEF match
  <2>2. m.v = fallback /\ m.of = a
    BY <2>1 DEF Value
  <2>3. w = a
    BY <2>2 DEF Written, Table
  <2>. QED  BY <2>2, <2>3
<1>2. CASE hits(a) # {}
  <2>. DEFINE v == CHOOSE u \in hits(a) : TRUE
  <2>1. v \in DOMAIN read /\ read[v] = Folded(a)
    BY <1>2
  <2>2. m = Value(v, <<>>)
    BY <1>2 DEF match
  <2>. HIDE DEF v
  <2>3. m.v = v /\ m.of = <<>> /\ v \in DOMAIN written /\ written[v] = Folded(a)
    BY <2>1, <2>2 DEF Value, Table
  <2>4. w = Usual(written[v])
    BY <2>3 DEF Written
  <2>5. w \in Letters /\ Folded(w) = Folded(a)
    BY <2>3, <2>4, UsualFacts, AtomFacts
  <2>6. hits(w) = hits(a)
    BY <2>5
  <2>7. match(read, fallback, w) = m
    <3>1. m = Value(CHOOSE u \in hits(a) : TRUE, <<>>)
      BY <1>2 DEF match
    <3>2. hits(w) # {} => match(read, fallback, w) = Value(CHOOSE u \in hits(w) : TRUE, <<>>)
      BY DEF match
    <3>. HIDE DEF hits, m, w
    <3>. QED  BY <1>2, <2>6, <3>1, <3>2
  <2>8. m.v # fallback
    BY <2>3 DEF Table
  <2>. QED  BY <2>3, <2>5, <2>7, <2>8
<1>. QED  BY <1>1, <1>2

\* Which variant is matched depends on the words only.
LEMMA MatchFolds ==
  ASSUME NEW read, NEW fallback, NEW a, NEW b, Folded(a) = Folded(b)
  PROVE  /\ match(read, fallback, a).v = match(read, fallback, b).v
         /\ match(read, fallback, a).v # fallback => match(read, fallback, a) = match(read, fallback, b)
<1>. DEFINE hits(x) == {v \in DOMAIN read : read[v] = Folded(x)}
<1>1. hits(a) = hits(b)
  OBVIOUS
<1>2. CASE hits(a) = {}
  <2>1. match(read, fallback, a) = Value(fallback, a) /\ match(read, fallback, b) = Value(fallback, b)
    BY <1>1, <1>2 DEF match
  <2>. QED  BY <2>1 DEF Value
<1>3. CASE hits(a) # {}
  BY <1>1, <1>3 DEF match
<1>. QED  BY <1>2, <1>3

\* The name of a variant is matched by the variant.
LEMMA MatchBuilt ==
  ASSUME NEW read, NEW written, Table(read, written), NEW v \in DOMAIN read, NEW fallback
  PROVE  /\ Usual(read[v]) \in Letters /\ Folded(Usual(read[v])) = read[v]
         /\ match(read, fallback, Usual(read[v])) = Value(v, <<>>)
<1>1. Usual(read[v]) \in Letters /\ Folded(Usual(read[v])) = read[v]
  BY UsualFacts DEF Table
<1>. DEFINE hits == {u \in DOMAIN read : read[u] = Folded(Usual(read[v]))}
<1>2. hits = {v}
  BY <1>1 DEF Table
<1>3. (CHOOSE u \in hits : TRUE) = v
  BY <1>2
<1>. QED  BY <1>1, <1>2, <1>3 DEF match

-----------------------------------------------------------------------------
(* Splitting an atom.                                                      *)

\* The first occurrence of a word, and what follows it.
First(word, a, i) == i \in 1 .. Len(a) /\ a[i].w = word /\ \A k \in 1 .. i - 1 : a[k].w # word

\* The rest of an atom after its i-th letter.
IsRest(r, a, i) ==
  r \in Letters /\ Len(r) = Len(a) - i /\ \A k \in 1 .. Len(a) - i : r[k] = a[i + k]

\* After gives the rest after the first occurrence.
LEMMA AfterFirst ==
  ASSUME NEW a \in Letters, NEW word, NEW i, First(word, a, i)
  PROVE  IsRest(After(word, a), a, i)
<1>. DEFINE I == {k \in 1 .. Len(a) : a[k].w = word}
            r == After(word, a)
<1>1. Len(a) \in Nat /\ i \in 1 .. Len(a) /\ a[i].w = word
  BY AtomFacts DEF First
<1>2. i \in I /\ \A k \in I : i <= k
  <2>1. \A k \in 1 .. Len(a) : k < i => k \in 1 .. i - 1
    BY <1>1
  <2>2. \A k \in 1 .. Len(a) : k < i => a[k].w # word
    BY <2>1 DEF First
  <2>. QED  BY <1>1, <2>2
<1>3. Min(I) = i
  <2>1. \A k \in I : k \in Int /\ i \in Int
    BY <1>1
  <2>2. \A x \in I : (\A y \in I : x <= y) => x = i
    BY <1>2, <2>1
  <2>. HIDE DEF I
  <2>. QED  BY <1>2, <2>2 DEF Min
<1>4. I # {} /\ i # 0
  BY <1>1, <1>2
<1>5. r = SubSeq(a, i + 1, Len(a))
  BY <1>3, <1>4 DEF After, SelectInSeq
<1>. HIDE DEF r
<1>6. \A k \in i + 1 .. Len(a) : a[k] \in Letter
  BY <1>1, AtomFacts
<1>7. /\ r \in Seq(Letter) /\ Len(r) = IF i + 1 <= Len(a) THEN Len(a) - (i + 1) + 1 ELSE 0
      /\ \A k \in 1 .. Len(a) - (i + 1) + 1 : r[k] = a[i + 1 + k - 1]
  BY <1>1, <1>5, <1>6, SubSeqProperties
<1>8. Len(r) = Len(a) - i /\ Len(a) - (i + 1) + 1 = Len(a) - i
  BY <1>1, <1>7
<1>9. \A k \in 1 .. Len(a) - i : i + 1 + k - 1 = i + k
  BY <1>1
<1>10. \A k \in 1 .. Len(a) - i : r[k] = a[i + k]
  BY <1>7, <1>8, <1>9
<1>11. IsRest(r, a, i)
  BY <1>7, <1>8, <1>10 DEF IsRest, Letters
<1>. QED  BY <1>11 DEF r

\* Nothing follows a word that does not occur.
LEMMA AfterNone ==
  ASSUME NEW a \in Letters, NEW word, \A k \in 1 .. Len(a) : a[k].w # word
  PROVE  After(word, a) = <<>>
<1>1. {k \in 1 .. Len(a) : a[k].w = word} = {}
  OBVIOUS
<1>. QED  BY <1>1 DEF After, SelectInSeq

\* A word occurs first somewhere, or not at all.
LEMMA FirstOrNone ==
  ASSUME NEW a \in Letters, NEW word
  PROVE  (\E i \in 1 .. Len(a) : First(word, a, i)) \/ \A k \in 1 .. Len(a) : a[k].w # word
<1>. DEFINE I == {k \in 1 .. Len(a) : a[k].w = word}
<1>1. CASE I = {}
  BY <1>1
<1>2. CASE I # {}
  <2>1. I \subseteq Nat /\ Len(a) \in Nat
    BY AtomFacts
  <2>2. PICK i \in I : \A k \in I : i <= k
    <3>. HIDE DEF I
    <3>. QED  BY <1>2, <2>1, LeastNumber
  <2>3. \A k \in 1 .. i - 1 : k \in 1 .. Len(a) /\ ~(i <= k)
    BY <2>1
  <2>4. First(word, a, i)
    BY <2>2, <2>3 DEF First
  <2>. QED  BY <2>4
<1>. QED  BY <1>1, <1>2

\* What follows a word is an atom, and has the same words in atoms of the same words.
LEMMA AfterFolds ==
  ASSUME NEW a \in Letters, NEW b \in Letters, NEW word, Folded(a) = Folded(b)
  PROVE  /\ After(word, a) \in Letters /\ After(word, b) \in Letters
         /\ Folded(After(word, a)) = Folded(After(word, b))
         /\ After(word, a) = <<>> <=> After(word, b) = <<>>
<1>1. Len(a) = Len(b) /\ (\A i \in 1 .. Len(a) : a[i].w = b[i].w) /\ Len(a) \in Nat
  BY AlikeIsFolded, AtomFacts DEF Alike
<1>2. CASE \E i \in 1 .. Len(a) : First(word, a, i)
  <2>. DEFINE r == After(word, a)
              q == After(word, b)
  <2>1. PICK i \in 1 .. Len(a) : First(word, a, i)
    BY <1>2
  <2>2. First(word, b, i)
    <3>1. \A k \in 1 .. i - 1 : k \in 1 .. Len(a)
      BY <1>1
    <3>. QED  BY <1>1, <2>1, <3>1 DEF First
  <2>3. r \in Letters /\ Len(r) = Len(a) - i /\ \A k \in 1 .. Len(a) - i : r[k] = a[i + k]
    <3>1. IsRest(After(word, a), a, i)
      BY <2>1, AfterFirst
    <3>. QED  BY <3>1 DEF IsRest
  <2>4. q \in Letters /\ Len(q) = Len(a) - i /\ \A k \in 1 .. Len(a) - i : q[k] = b[i + k]
    <3>1. IsRest(After(word, b), b, i)
      BY <2>2, AfterFirst
    <3>. QED  BY <1>1, <3>1 DEF IsRest
  <2>. HIDE DEF r, q
  <2>5. Alike(r, q)
    <3>1. \A k \in 1 .. Len(a) - i : i + k \in 1 .. Len(a)
      BY <1>1
    <3>. QED  BY <1>1, <2>3, <2>4, <3>1 DEF Alike
  <2>6. Folded(r) = Folded(q)
    BY <2>3, <2>4, <2>5, AlikeIsFolded
  <2>7. r = <<>> <=> q = <<>>
    BY <2>3, <2>4, AtomFacts
  <2>. QED  BY <2>3, <2>4, <2>6, <2>7 DEF r, q
<1>3. CASE \A k \in 1 .. Len(a) : a[k].w # word
  <2>1. \A k \in 1 .. Len(b) : b[k].w # word
    BY <1>1, <1>3
  <2>2. After(word, a) = <<>> /\ After(word, b) = <<>>
    BY <1>3, <2>1, AfterNone
  <2>. QED  BY <2>2, EmptySeq DEF Letters
<1>. QED  BY <1>2, <1>3, FirstOrNone

\* What follows a word that ends a prefix, and does not occur before.
LEMMA AfterJoin ==
  ASSUME NEW p \in Letters, NEW word, First(word, p, Len(p)), NEW a \in Letters
  PROVE  After(word, p \o a) = a
<1>. DEFINE c == p \o a
            n == Len(p)
            r == After(word, c)
<1>1. n \in Nat /\ Len(a) \in Nat /\ n \in 1 .. n
  BY AtomFacts DEF First
<1>2. /\ c \in Letters /\ Len(c) = n + Len(a)
      /\ \A i \in 1 .. n : c[i] = p[i]
      /\ \A i \in 1 .. Len(a) : c[n + i] = a[i]
  BY JoinFacts
<1>. HIDE DEF c
<1>3. First(word, c, n)
  <2>1. n \in 1 .. n + Len(a) /\ \A k \in 1 .. n - 1 : k \in 1 .. n
    BY <1>1
  <2>. QED  BY <1>1, <1>2, <2>1 DEF First
<1>4. r \in Letters /\ Len(r) = Len(c) - n /\ \A k \in 1 .. Len(c) - n : r[k] = c[n + k]
  BY <1>2, <1>3, AfterFirst DEF IsRest
<1>. HIDE DEF r
<1>5. Len(r) = Len(a) /\ \A k \in 1 .. Len(a) : r[k] = a[k]
  BY <1>1, <1>2, <1>4
<1>6. r = a
  BY <1>4, <1>5, SeqEqual DEF Letters
<1>. QED  BY <1>6 DEF r, c

\* A word, an equals sign or the like, and what follows: how it is written.
LEMMA AfterTwo ==
  ASSUME NEW x \in Word, NEW y \in Word, x # y, NEW a \in Letters
  PROVE  After(y, Usual(<<x, y>>) \o a) = a
<1>. DEFINE p == Usual(<<x, y>>)
            n == <<x, y>>
<1>1. n \in Seq(Word) /\ Len(n) = 2 /\ n[1] = x /\ n[2] = y
  OBVIOUS
<1>2. p \in Letters /\ Len(p) = 2 /\ p[1].w = x /\ p[2].w = y
  <2>. HIDE DEF n
  <2>1. Usual(n) \in Letters /\ Len(Usual(n)) = Len(n) /\ \A i \in 1 .. Len(n) : Usual(n)[i].w = n[i]
    BY <1>1, UsualFacts
  <2>2. Usual(n) \in Letters /\ Len(Usual(n)) = 2 /\ Usual(n)[1].w = x /\ Usual(n)[2].w = y
    BY <1>1, <2>1
  <2>. QED  BY <2>2 DEF n
<1>. HIDE DEF p
<1>3. First(y, p, Len(p))
  BY <1>2 DEF First
<1>. QED  BY <1>2, <1>3, AfterJoin DEF p

\* The same of one word.
LEMMA AfterOne ==
  ASSUME NEW x \in Word, NEW a \in Letters
  PROVE  After(x, Usual(<<x>>) \o a) = a
<1>. DEFINE p == Usual(<<x>>)
            n == <<x>>
<1>1. n \in Seq(Word) /\ Len(n) = 1 /\ n[1] = x
  OBVIOUS
<1>2. p \in Letters /\ Len(p) = 1 /\ p[1].w = x
  <2>. HIDE DEF n
  <2>1. Usual(n) \in Letters /\ Len(Usual(n)) = Len(n) /\ \A i \in 1 .. Len(n) : Usual(n)[i].w = n[i]
    BY <1>1, UsualFacts
  <2>2. Usual(n) \in Letters /\ Len(Usual(n)) = 1 /\ Usual(n)[1].w = x
    BY <1>1, <2>1
  <2>. QED  BY <2>2 DEF n
<1>. HIDE DEF p
<1>3. First(x, p, Len(p))
  BY <1>2 DEF First
<1>. QED  BY <1>2, <1>3, AfterJoin DEF p

\* What StartsWith compares.
LEMMA StartsWithIs ==
  ASSUME NEW a \in Letters, NEW n \in Seq(Word)
  PROVE  StartsWith(n, a) <=> Len(n) <= Len(a) /\ \A i \in 1 .. Len(n) : a[i].w = n[i]
<1>. DEFINE p == SubSeq(a, 1, Len(n))
<1>1. Len(a) \in Nat /\ Len(n) \in Nat
  BY AtomFacts, LenProperties
<1>2. CASE Len(n) <= Len(a)
  <2>1. p \in Letters /\ Len(p) = Len(n) /\ \A i \in 1 .. Len(n) : p[i] = a[i]
    <3>1. Len(n) \in 0 .. Len(a)
      BY <1>1, <1>2
    <3>. QED  BY <3>1, PrefixProperties DEF Letters
  <2>. HIDE DEF p
  <2>2. Folded(p) \in Seq(Word) /\ Len(Folded(p)) = Len(n)
        /\ \A i \in 1 .. Len(n) : Folded(p)[i] = a[i].w
    BY <2>1, AtomFacts
  <2>3. Folded(p) = n <=> \A i \in 1 .. Len(n) : a[i].w = n[i]
    <3>1. ASSUME \A i \in 1 .. Len(n) : a[i].w = n[i] PROVE Folded(p) = n
      BY <2>2, <3>1, SeqEqual
    <3>. QED  BY <2>2, <3>1
  <2>. QED  BY <1>2, <2>3 DEF p, StartsWith
<1>3. CASE ~(Len(n) <= Len(a))
  BY <1>3 DEF StartsWith
<1>. QED  BY <1>2, <1>3

\* Atoms of the same words start with the same names.
LEMMA StartsFolds ==
  ASSUME NEW a \in Letters, NEW b \in Letters, Folded(a) = Folded(b), NEW n \in Seq(Word)
  PROVE  StartsWith(n, a) <=> StartsWith(n, b)
<1>1. Len(a) = Len(b) /\ (\A i \in 1 .. Len(a) : a[i].w = b[i].w) /\ Len(a) \in Nat /\ Len(n) \in Nat
  BY AlikeIsFolded, AtomFacts, LenProperties DEF Alike
<1>2. Len(n) <= Len(a) => \A i \in 1 .. Len(n) : i \in 1 .. Len(a)
  BY <1>1
<1>. QED  BY <1>1, <1>2, StartsWithIs

\* Joined atoms have the words of both.
LEMMA JoinFolds ==
  ASSUME NEW a \in Letters, NEW b \in Letters, NEW c \in Letters, NEW d \in Letters,
         Folded(a) = Folded(b), Folded(c) = Folded(d)
  PROVE  Folded(a \o c) = Folded(b \o d)
<1>. DEFINE p == a \o c
            q == b \o d
<1>1. /\ Alike(a, b) /\ Alike(c, d) /\ Len(a) \in Nat /\ Len(c) \in Nat
  BY AlikeIsFolded, AtomFacts
<1>2. /\ p \in Letters /\ Len(p) = Len(a) + Len(c)
      /\ \A i \in 1 .. Len(a) : p[i] = a[i]
      /\ \A i \in 1 .. Len(c) : p[Len(a) + i] = c[i]
  BY JoinFacts
<1>3. /\ q \in Letters /\ Len(q) = Len(b) + Len(d)
      /\ \A i \in 1 .. Len(b) : q[i] = b[i]
      /\ \A i \in 1 .. Len(d) : q[Len(b) + i] = d[i]
  BY JoinFacts
<1>. HIDE DEF p, q
<1>4. Len(p) = Len(q) /\ Len(a) = Len(b) /\ Len(c) = Len(d)
  BY <1>1, <1>2, <1>3 DEF Alike
<1>5. ASSUME NEW i \in 1 .. Len(p) PROVE p[i].w = q[i].w
  <2>1. CASE i \in 1 .. Len(a)
    BY <2>1, <1>1, <1>2, <1>3, <1>4 DEF Alike
  <2>2. CASE i \notin 1 .. Len(a)
    <3>1. i - Len(a) \in 1 .. Len(c) /\ i = Len(a) + (i - Len(a))
      BY <2>2, <1>1, <1>2
    <3>2. p[i] = c[i - Len(a)] /\ q[i] = d[i - Len(a)]
      BY <3>1, <1>2, <1>3, <1>4
    <3>. QED  BY <3>1, <3>2, <1>1 DEF Alike
  <2>. QED  BY <2>1, <2>2
<1>6. Alike(p, q)
  BY <1>4, <1>5 DEF Alike
<1>7. Folded(p) = Folded(q)
  BY <1>2, <1>3, <1>6, AlikeIsFolded
<1>. QED  BY <1>7 DEF p, q

\* An atom that starts with two words has these and what follows them.
LEMMA SplitTwo ==
  ASSUME NEW x \in Word, NEW y \in Word, x # y, NEW a \in Letters, StartsWith(<<x, y>>, a)
  PROVE  /\ First(y, a, 2) /\ a[1].w = x /\ After(y, a) \in Letters
         /\ Folded(Usual(<<x, y>>) \o After(y, a)) = Folded(a)
<1>. DEFINE n == <<x, y>>
            r == After(y, a)
            p == Usual(n)
            c == p \o r
<1>1. n \in Seq(Word) /\ Len(n) = 2 /\ n[1] = x /\ n[2] = y
  OBVIOUS
<1>2. StartsWith(n, a)
  OBVIOUS
<1>. HIDE DEF n
<1>3. Len(a) \in Nat /\ 2 <= Len(a) /\ a[1].w = x /\ a[2].w = y
  <2>1. 2 <= Len(a) /\ \A i \in 1 .. 2 : a[i].w = n[i]
    BY <1>1, <1>2, StartsWithIs
  <2>. QED  BY <1>1, <2>1, AtomFacts
<1>4. First(y, a, 2)
  BY <1>3 DEF First
<1>5. r \in Letters /\ Len(r) = Len(a) - 2 /\ \A k \in 1 .. Len(a) - 2 : r[k] = a[2 + k]
  <2>1. IsRest(After(y, a), a, 2)
    BY <1>4, AfterFirst
  <2>. QED  BY <2>1 DEF IsRest
<1>6. p \in Letters /\ Len(p) = 2 /\ \A i \in 1 .. 2 : p[i].w = n[i]
  BY <1>1, UsualFacts
<1>. HIDE DEF r, p
<1>7. /\ c \in Letters /\ Len(c) = Len(p) + Len(r)
      /\ \A i \in 1 .. Len(p) : c[i] = p[i]
      /\ \A i \in 1 .. Len(r) : c[Len(p) + i] = r[i]
  BY <1>5, <1>6, JoinFacts
<1>. HIDE DEF c
<1>8. ASSUME NEW i \in 1 .. Len(a) PROVE c[i].w = a[i].w
  <2>1. CASE i \in 1 .. 2
    BY <2>1, <1>1, <1>3, <1>6, <1>7
  <2>2. CASE i \notin 1 .. 2
    <3>1. i - 2 \in 1 .. Len(a) - 2 /\ i = 2 + (i - 2)
      BY <2>2, <1>3
    <3>2. c[2 + (i - 2)] = r[i - 2]
      BY <3>1, <1>5, <1>6, <1>7
    <3>3. r[i - 2] = a[2 + (i - 2)]
      BY <3>1, <1>5
    <3>. QED  BY <3>1, <3>2, <3>3
  <2>. QED  BY <2>1, <2>2
<1>9. Alike(c, a)
  BY <1>3, <1>5, <1>6, <1>7, <1>8 DEF Alike
<1>10. Folded(c) = Folded(a)
  BY <1>7, <1>9, AlikeIsFolded
<1>11. First(y, a, 2) /\ a[1].w = x /\ r \in Letters
  BY <1>3, <1>4, <1>5
<1>. QED  BY <1>10, <1>11 DEF c, p, r, n

-----------------------------------------------------------------------------
(* Each type.                                                              *)

\* What is read of an atom is written with the atom's words, and is read again.
Kept(t, a) ==
  LET v == From(t, a)
      w == Display(t, v)
  IN  w \in Letters /\ Folded(w) = Folded(a) /\ From(t, w) = v

\* A type that is one table.
LEMMA OneTable ==
  ASSUME NEW t, NEW read, NEW written, Table(read, written), NEW a \in Letters,
         \A x : From(t, x) = match(read, "Other", x) /\ Display(t, x) = Written(written, x)
  PROVE  Kept(t, a)
<1>. DEFINE m == match(read, "Other", a)
            w == Written(written, m)
<1>1. w \in Letters /\ Folded(w) = Folded(a) /\ match(read, "Other", w) = m
  BY MatchKept, ZenonT(40)
<1>2. From(t, a) = m /\ Display(t, m) = w /\ From(t, w) = match(read, "Other", w)
  OBVIOUS
<1>. HIDE DEF m, w
<1>. QED  BY <1>1, <1>2 DEF Kept

\* The types that are one table.
LEMMA TablesKept ==
  ASSUME NEW a \in Letters
  PROVE  /\ Kept("AuthMechanism", a) /\ Kept("Resource", a) /\ Kept("ThreadingAlgorithm", a)
         /\ Kept("SortAlgorithm", a) /\ Kept("CapabilityEnable", a)
<1>1. Kept("AuthMechanism", a)
  <2>1. \A x : /\ From("AuthMechanism", x) = match(MechanismRead, "Other", x)
              /\ Display("AuthMechanism", x) = Written(MechanismWritten, x)
    BY DEF From, Display, AuthMechanism
  <2>. QED  BY <2>1, MechanismTable, OneTable
<1>2. Kept("Resource", a)
  <2>1. \A x : /\ From("Resource", x) = match(ResourceRead, "Other", x)
              /\ Display("Resource", x) = Written(ResourceWritten, x)
    BY DEF From, Display, Resource
  <2>. QED  BY <2>1, ResourceTable, OneTable
<1>3. Kept("ThreadingAlgorithm", a)
  <2>1. \A x : /\ From("ThreadingAlgorithm", x) = match(ThreadingRead, "Other", x)
              /\ Display("ThreadingAlgorithm", x) = Written(ThreadingWritten, x)
    BY DEF From, Display, ThreadingAlgorithm
  <2>. QED  BY <2>1, ThreadingTable, OneTable
<1>4. Kept("SortAlgorithm", a)
  <2>1. \A x : /\ From("SortAlgorithm", x) = match(SortRead, "Other", x)
              /\ Display("SortAlgorithm", x) = Written(SortWritten, x)
    BY DEF From, Display, SortAlgorithm
  <2>. QED  BY <2>1, SortTable, OneTable
<1>5. Kept("CapabilityEnable", a)
  <2>1. \A x : /\ From("CapabilityEnable", x) = match(EnableRead, "Other", x)
              /\ Display("CapabilityEnable", x) = Written(EnableWritten, x)
    BY DEF From, Display, CapabilityEnable
  <2>. QED  BY <2>1, EnableTable, OneTable
<1>. QED  BY <1>1, <1>2, <1>3, <1>4, <1>5

\* The first letter and the tail of an atom.
LEMMA TailFacts ==
  ASSUME NEW a \in Letters, a # <<>>
  PROVE  /\ Tail(a) \in Letters /\ Len(Tail(a)) = Len(a) - 1
         /\ \A i \in 1 .. Len(a) - 1 : Tail(a)[i] = a[i + 1]
         /\ Len(a) \in Nat /\ Len(a) > 0
<1>1. Len(a) \in Nat /\ Len(a) > 0
  BY AtomFacts
<1>2. /\ Tail(a) \in Seq(Letter) /\ Len(Tail(a)) = Len(a) - 1
      /\ \A i \in 1 .. Len(Tail(a)) : Tail(a)[i] = a[i + 1]
  BY HeadTailProperties DEF Letters
<1>. QED  BY <1>1, <1>2 DEF Letters

\* Atoms of the same words have the same first word, and tails of the same words.
LEMMA TailFolds ==
  ASSUME NEW a \in Letters, NEW b \in Letters, Folded(a) = Folded(b), a # <<>>
  PROVE  b # <<>> /\ a[1].w = b[1].w /\ Folded(Tail(a)) = Folded(Tail(b))
<1>1. /\ Len(a) = Len(b) /\ Len(a) \in Nat /\ Len(a) > 0 /\ b # <<>>
      /\ \A i \in 1 .. Len(a) : a[i].w = b[i].w
  BY AlikeIsFolded, AtomFacts DEF Alike
<1>2. /\ Tail(a) \in Letters /\ Len(Tail(a)) = Len(a) - 1
      /\ \A i \in 1 .. Len(a) - 1 : Tail(a)[i] = a[i + 1]
  BY TailFacts
<1>3. /\ Tail(b) \in Letters /\ Len(Tail(b)) = Len(a) - 1
      /\ \A i \in 1 .. Len(a) - 1 : Tail(b)[i] = b[i + 1]
  BY <1>1, TailFacts
<1>4. \A i \in 1 .. Len(a) - 1 : i + 1 \in 1 .. Len(a)
  BY <1>1
<1>5. Alike(Tail(a), Tail(b))
  BY <1>1, <1>2, <1>3, <1>4 DEF Alike
<1>. QED  BY <1>1, <1>2, <1>3, <1>5, AlikeIsFolded

\* One word is written before an atom.
LEMMA PrefixOne ==
  ASSUME NEW x \in Word, NEW a \in Letters
  PROVE  LET c == Usual(<<x>>) \o a
         IN c \in Letters /\ c # <<>> /\ c[1].w = x /\ Tail(c) = a
<1>. DEFINE n == <<x>>
            p == Usual(n)
            c == p \o a
<1>1. n \in Seq(Word) /\ Len(n) = 1 /\ n[1] = x
  OBVIOUS
<1>. HIDE DEF n
<1>2. p \in Letters /\ Len(p) = 1 /\ p[1].w = x
  <2>1. p \in Letters /\ Len(p) = 1 /\ \A i \in 1 .. 1 : p[i].w = n[i]
    BY <1>1, UsualFacts
  <2>. QED  BY <1>1, <2>1
<1>. HIDE DEF p
<1>3. /\ c \in Letters /\ Len(c) = Len(p) + Len(a)
      /\ \A i \in 1 .. Len(p) : c[i] = p[i]
      /\ \A i \in 1 .. Len(a) : c[Len(p) + i] = a[i]
  BY <1>2, JoinFacts
<1>. HIDE DEF c
<1>4. Len(a) \in Nat /\ Len(c) = Len(a) + 1 /\ c[1].w = x /\ c # <<>>
  BY <1>2, <1>3, AtomFacts
<1>5. /\ Tail(c) \in Letters /\ Len(Tail(c)) = Len(a)
      /\ \A i \in 1 .. Len(a) : Tail(c)[i] = c[i + 1]
  BY <1>3, <1>4, TailFacts
<1>6. \A i \in 1 .. Len(a) : i + 1 = Len(p) + i
  BY <1>2, <1>4
<1>7. \A i \in 1 .. Len(a) : Tail(c)[i] = a[i]
  BY <1>3, <1>5, <1>6
<1>8. Tail(c) = a
  BY <1>5, <1>7, SeqEqual DEF Letters
<1>. QED  BY <1>3, <1>4, <1>8 DEF c, p, n

\* A table behind a backslash.
LEMMA BehindBackslash ==
  ASSUME NEW x \in Word, NEW read, NEW written, Table(read, written),
         NEW a \in Letters, a # <<>>, a[1].w = x
  PROVE  LET m == match(read, "Extension", Tail(a))
             w == Backslashed(x, written, m)
         IN  /\ w \in Letters /\ w # <<>> /\ w[1].w = x /\ Folded(w) = Folded(a)
             /\ match(read, "Extension", Tail(w)) = m
<1>. DEFINE m == match(read, "Extension", Tail(a))
            w == Backslashed(x, written, m)
            u == Written(written, m)
            d == Usual(<<x>>) \o Tail(a)
<1>1. Tail(a) \in Letters
  BY TailFacts
<1>2. u \in Letters /\ Folded(u) = Folded(Tail(a)) /\ match(read, "Extension", u) = m
      /\ m.v \in DOMAIN written \cup {"Extension"}
  BY <1>1, MatchKept, ZenonT(40)
<1>. HIDE DEF m, u
<1>3. w = Usual(<<x>>) \o u
  BY <1>2 DEF Backslashed, Table, u
<1>4. w \in Letters /\ w # <<>> /\ w[1].w = x /\ Tail(w) = u
  BY <1>2, <1>3, PrefixOne, SMTT(30)
<1>5. d \in Letters /\ d # <<>> /\ d[1].w = x /\ Tail(d) = Tail(a)
  BY <1>1, PrefixOne
<1>. HIDE DEF w, d
<1>6. Folded(w) = Folded(a)
  <2>. DEFINE h == Tail(w)
              g == Tail(a)
  <2>1. /\ Len(h) = Len(w) - 1 /\ \A i \in 1 .. Len(w) - 1 : h[i] = w[i + 1]
        /\ Len(w) \in Nat /\ Len(w) > 0
    BY <1>4, TailFacts
  <2>2. /\ Len(g) = Len(a) - 1 /\ \A i \in 1 .. Len(a) - 1 : g[i] = a[i + 1]
        /\ Len(a) \in Nat /\ Len(a) > 0
    BY TailFacts
  <2>3. Alike(h, g)
    BY <1>1, <1>2, <1>4, AlikeIsFolded
  <2>. HIDE DEF h, g
  <2>4. Len(w) = Len(a) /\ \A i \in 1 .. Len(a) - 1 : w[i + 1].w = a[i + 1].w
    BY <2>1, <2>2, <2>3 DEF Alike
  <2>5. ASSUME NEW i \in 1 .. Len(a) PROVE w[i].w = a[i].w
    <3>1. CASE i = 1
      BY <3>1, <1>4
    <3>2. CASE i # 1
      <4>1. i - 1 \in 1 .. Len(a) - 1 /\ (i - 1) + 1 = i
        BY <2>2, <3>2
      <4>. QED  BY <2>4, <4>1
    <3>. QED  BY <3>1, <3>2
  <2>6. Alike(w, a)
    BY <2>4, <2>5 DEF Alike
  <2>. QED  BY <1>4, <2>6, AlikeIsFolded
<1>7. match(read, "Extension", Tail(w)) = m
  BY <1>2, <1>4
<1>. QED  BY <1>4, <1>6, <1>7 DEF w, m

\* A mailbox attribute.
LEMMA AttributeKept ==
  ASSUME NEW a \in Letters, a # <<>>, a[1].w = "\\"
  PROVE  Kept("FlagNameAttribute", a)
<1>1. \A x : From("FlagNameAttribute", x) = match(AttributeRead, "Extension", Tail(x))
             /\ Display("FlagNameAttribute", x) = Backslashed("\\", AttributeWritten, x)
  BY DEF From, Display, FlagNameAttribute
<1>2. "\\" \in Word
  BY DEF Word
<1>. DEFINE m == match(AttributeRead, "Extension", Tail(a))
            w == Backslashed("\\", AttributeWritten, m)
<1>3. w \in Letters /\ Folded(w) = Folded(a) /\ match(AttributeRead, "Extension", Tail(w)) = m
  BY <1>2, AttributeTable, BehindBackslash, ZenonT(40)
<1>4. From("FlagNameAttribute", a) = m /\ Display("FlagNameAttribute", m) = w
      /\ From("FlagNameAttribute", w) = match(AttributeRead, "Extension", Tail(w))
  BY <1>1
<1>. HIDE DEF m, w
<1>. QED  BY <1>3, <1>4 DEF Kept

\* A flag, behind one backslash or two, or a keyword.
LEMMA FlagAfterKept ==
  ASSUME NEW x \in Word, NEW a \in Letters, a # <<>>
  PROVE  LET v == FlagAfter(x, a)
             w == Backslashed(x, FlagWritten, v)
         IN  w \in Letters /\ w # <<>> /\ Folded(w) = Folded(a) /\ FlagAfter(x, w) = v
<1>1. CASE a[1].w = x
  <2>. DEFINE v == match(FlagRead, "Extension", Tail(a))
              w == Backslashed(x, FlagWritten, v)
  <2>1. FlagAfter(x, a) = v
    BY <1>1 DEF FlagAfter
  <2>2. /\ w \in Letters /\ w # <<>> /\ w[1].w = x /\ Folded(w) = Folded(a)
        /\ match(FlagRead, "Extension", Tail(w)) = v
    BY <1>1, FlagTable, BehindBackslash
  <2>. HIDE DEF v
  <2>3. FlagAfter(x, w) = v
    BY <2>2 DEF FlagAfter
  <2>. QED  BY <2>1, <2>2, <2>3
<1>2. CASE a[1].w # x
  <2>1. FlagAfter(x, a) = Value("Keyword", a)
    BY <1>2 DEF FlagAfter
  <2>2. Backslashed(x, FlagWritten, Value("Keyword", a)) = a
    BY DEF Backslashed, Value
  <2>. QED  BY <2>1, <2>2
<1>. QED  BY <1>1, <1>2

\* The types of flags.
LEMMA FlagKept ==
  ASSUME NEW a \in Letters, a # <<>>
  PROVE  Kept("Flag", a) /\ Kept("AttributeFlag", a)
<1>1. "\\" \in Word /\ "\\\\" \in Word
  BY DEF Word
<1>2. \A x : From("Flag", x) = FlagAfter("\\", x) /\ Display("Flag", x) = Backslashed("\\", FlagWritten, x)
  BY DEF From, Display, Flag, WrittenFlag
<1>3. \A x : From("AttributeFlag", x) = FlagAfter("\\\\", x)
             /\ Display("AttributeFlag", x) = Backslashed("\\\\", FlagWritten, x)
  BY DEF From, Display, AttributeFlag
<1>4. Kept("Flag", a)
  BY <1>1, <1>2, FlagAfterKept DEF Kept
<1>5. Kept("AttributeFlag", a)
  BY <1>1, <1>3, FlagAfterKept DEF Kept
<1>. QED  BY <1>4, <1>5

\* A flag of a message, next to one more that is not a flag.
LEMMA FlagOrKept ==
  ASSUME NEW a \in Letters, a # <<>>
  PROVE  Kept("FlagFetch", a) /\ Kept("FlagPerm", a)
<1>. DEFINE v == Flag(a)
            w == WrittenFlag(v)
<1>1. "\\" \in Word /\ "*" \in Word /\ "RECENT" \in Word
  BY DEF Word
<1>2. w \in Letters /\ Folded(w) = Folded(a) /\ Flag(w) = v
  BY <1>1, FlagAfterKept DEF Flag, WrittenFlag
<1>3. ASSUME NEW y \in Word
      PROVE  Usual(<<"\\", y>>) \in Letters /\ Folded(Usual(<<"\\", y>>)) = <<"\\", y>>
  <2>1. <<"\\", y>> \in Seq(Word)
    BY <1>1
  <2>. QED  BY <2>1, UsualFacts
<1>. HIDE DEF v, w
<1>4. Kept("FlagFetch", a)
  <2>1. CASE Folded(a) = <<"\\", "RECENT">>
    <3>1. From("FlagFetch", a) = Value("Recent", <<>>)
      BY <2>1 DEF From, FlagFetch
    <3>2. Display("FlagFetch", Value("Recent", <<>>)) = Usual(<<"\\", "RECENT">>)
      BY DEF Display, Value
    <3>3. From("FlagFetch", Usual(<<"\\", "RECENT">>)) = Value("Recent", <<>>)
      BY <1>1, <1>3 DEF From, FlagFetch
    <3>. QED  BY <1>1, <1>3, <2>1, <3>1, <3>2, <3>3 DEF Kept
  <2>2. CASE Folded(a) # <<"\\", "RECENT">>
    <3>1. From("FlagFetch", a) = Value("Flag", <<v>>)
      BY <2>2 DEF From, FlagFetch, v
    <3>2. Display("FlagFetch", Value("Flag", <<v>>)) = w
      BY DEF Display, Value, w
    <3>3. From("FlagFetch", w) = Value("Flag", <<v>>)
      BY <1>2, <2>2 DEF From, FlagFetch
    <3>. QED  BY <1>2, <3>1, <3>2, <3>3 DEF Kept
  <2>. QED  BY <2>1, <2>2
<1>5. Kept("FlagPerm", a)
  <2>1. CASE Folded(a) = <<"\\", "*">>
    <3>1. From("FlagPerm", a) = Value("Asterisk", <<>>)
      BY <2>1 DEF From, FlagPerm
    <3>2. Display("FlagPerm", Value("Asterisk", <<>>)) = Usual(<<"\\", "*">>)
      BY DEF Display, Value
    <3>3. From("FlagPerm", Usual(<<"\\", "*">>)) = Value("Asterisk", <<>>)
      BY <1>1, <1>3 DEF From, FlagPerm
    <3>. QED  BY <1>1, <1>3, <2>1, <3>1, <3>2, <3>3 DEF Kept
  <2>2. CASE Folded(a) # <<"\\", "*">>
    <3>1. From("FlagPerm", a) = Value("Flag", <<v>>)
      BY <2>2 DEF From, FlagPerm, v
    <3>2. Display("FlagPerm", Value("Flag", <<v>>)) = w
      BY DEF Display, Value, w
    <3>3. From("FlagPerm", w) = Value("Flag", <<v>>)
      BY <1>2, <2>2 DEF From, FlagPerm
    <3>. QED  BY <1>2, <3>1, <3>2, <3>3 DEF Kept
  <2>. QED  BY <2>1, <2>2
<1>. QED  BY <1>4, <1>5

-----------------------------------------------------------------------------
(* Capabilities.                                                           *)

\* A capability with an argument, and what follows "RES-" in the argument.
Splits(x, a) == StartsWith(<<x, "=">>, a) /\ After("=", a) # <<>>
Argument(a) == After("=", a)
AfterRes(a) == Lowered(After("RES-", Argument(a)))

\* The atoms that are read as a capability to compress, and as one of a quota's resource.
Deflate(a) == Splits("COMPRESS", a) /\ Folded(Argument(a)) = <<"DEFLATE">>
Resourceful(a) == Splits("QUOTA", a) /\ AfterRes(a) # <<>>

\* The words of the capabilities.
LEMMA CapabilityWords ==
  /\ {"=", "RES-", "AUTH", "COMPRESS", "DEFLATE", "QUOTA", "SORT", "THREAD"} \subseteq Word
  /\ \A x \in {"AUTH", "COMPRESS", "QUOTA", "SORT", "THREAD"} : <<x, "=">> \in Seq(Word) /\ x # "="
BY DEF Word

\* Atoms of the same words are split alike.
LEMMA SplitFolds ==
  ASSUME NEW a \in Letters, NEW b \in Letters, Folded(a) = Folded(b)
  PROVE  /\ \A x \in {"AUTH", "COMPRESS", "QUOTA", "SORT", "THREAD"} : Splits(x, a) <=> Splits(x, b)
         /\ Argument(a) \in Letters /\ Argument(b) \in Letters
         /\ Folded(Argument(a)) = Folded(Argument(b))
         /\ Deflate(a) <=> Deflate(b)
         /\ Resourceful(a) <=> Resourceful(b)
<1>1. /\ Argument(a) \in Letters /\ Argument(b) \in Letters
      /\ Folded(Argument(a)) = Folded(Argument(b))
      /\ Argument(a) = <<>> <=> Argument(b) = <<>>
  BY AfterFolds DEF Argument
<1>2. \A x \in {"AUTH", "COMPRESS", "QUOTA", "SORT", "THREAD"} : Splits(x, a) <=> Splits(x, b)
  <2>. TAKE x \in {"AUTH", "COMPRESS", "QUOTA", "SORT", "THREAD"}
  <2>1. StartsWith(<<x, "=">>, a) <=> StartsWith(<<x, "=">>, b)
    <3>. DEFINE n == <<x, "=">>
    <3>1. n \in Seq(Word)
      BY CapabilityWords
    <3>. HIDE DEF n
    <3>2. StartsWith(n, a) <=> StartsWith(n, b)
      BY <3>1, StartsFolds
    <3>. QED  BY <3>2 DEF n
  <2>. QED  BY <1>1, <2>1 DEF Splits, Argument
<1>3. AfterRes(a) = <<>> <=> AfterRes(b) = <<>>
  <2>. DEFINE p == After("RES-", Argument(a))
              q == After("RES-", Argument(b))
  <2>1. p \in Letters /\ q \in Letters /\ Folded(p) = Folded(q)
    BY <1>1, AfterFolds
  <2>. HIDE DEF p, q
  <2>2. Lowered(p) = Lowered(q)
    BY <2>1 DEF Lowered
  <2>. QED  BY <2>2 DEF AfterRes, p, q
<1>. QED  BY <1>1, <1>2, <1>3 DEF Deflate, Resourceful

\* A capability has one first word.
LEMMA OneSplit ==
  ASSUME NEW a \in Letters, NEW x \in {"AUTH", "COMPRESS", "QUOTA", "SORT", "THREAD"},
         StartsWith(<<x, "=">>, a)
  PROVE  a[1].w = x /\ a[2].w = "=" /\ Len(a) >= 2
<1>. DEFINE n == <<x, "=">>
<1>1. n \in Seq(Word) /\ Len(n) = 2 /\ n[1] = x /\ n[2] = "="
  BY CapabilityWords
<1>. HIDE DEF n
<1>2. StartsWith(n, a)
  BY DEF n
<1>3. 2 <= Len(a) /\ \A i \in 1 .. 2 : a[i].w = n[i]
  BY <1>1, <1>2, StartsWithIs
<1>4. Len(a) \in Nat
  BY AtomFacts
<1>. QED  BY <1>1, <1>3, <1>4

\* Of the names without an argument, none begins like one with an argument.
LEMMA NoArm ==
  ASSUME NEW a \in Letters, NEW x \in {"AUTH", "COMPRESS", "QUOTA", "SORT", "THREAD"},
         StartsWith(<<x, "=">>, a)
  PROVE  match(CapabilityRead, "Other", a) = Value("Other", a)
<1>1. a[1].w = x /\ a[2].w = "=" /\ Len(a) >= 2 /\ Len(a) \in Nat
  BY OneSplit, AtomFacts
<1>2. Len(Folded(a)) >= 2 /\ Folded(a)[1] = x
  BY <1>1, AtomFacts
<1>3. \A v \in DOMAIN CapabilityRead : Len(CapabilityRead[v]) = 1 \/ CapabilityRead[v][1] \in {"LITERAL", "STATUS"}
  BY SMTT(90) DEF CapabilityRead
<1>4. \A v \in DOMAIN CapabilityRead : CapabilityRead[v] # Folded(a)
  BY <1>2, <1>3
<1>5. {v \in DOMAIN CapabilityRead : CapabilityRead[v] = Folded(a)} = {}
  BY <1>4
<1>. QED  BY <1>5 DEF match

\* What a capability is read as, branch by branch.
LEMMA CapabilityIs ==
  ASSUME NEW a \in Letters
  PROVE  /\ Splits("AUTH", a) => Capability(a) = Value("Auth", <<AuthMechanism(Argument(a))>>)
         /\ Deflate(a) => Capability(a) = Value("Compress", <<>>)
         /\ Resourceful(a) => Capability(a) = Value("QuotaRes", <<Resource(AfterRes(a))>>)
         /\ Splits("SORT", a) => Capability(a) = Value("Sort", <<SortAlgorithm(Argument(a))>>)
         /\ Splits("THREAD", a) => Capability(a) = Value("Thread", <<ThreadingAlgorithm(Argument(a))>>)
         /\ ~Splits("AUTH", a) /\ ~Deflate(a) /\ ~Resourceful(a) /\ ~Splits("SORT", a) /\ ~Splits("THREAD", a)
              => Capability(a) = match(CapabilityRead, "Other", a)
<1>. DEFINE known == match(CapabilityRead, "Other", a)
            Is(x) == known.v = "Other" /\ Argument(a) # <<>> /\ StartsWith(<<x, "=">>, a)
<1>1. \A x \in {"AUTH", "COMPRESS", "QUOTA", "SORT", "THREAD"} : Is(x) <=> Splits(x, a)
  <2>. TAKE x \in {"AUTH", "COMPRESS", "QUOTA", "SORT", "THREAD"}
  <2>1. StartsWith(<<x, "=">>, a) => known.v = "Other"
    <3>1. StartsWith(<<x, "=">>, a) => known = Value("Other", a)
      BY NoArm
    <3>2. Value("Other", a).v = "Other"
      BY DEF Value
    <3>. HIDE DEF known
    <3>. QED  BY <3>1, <3>2
  <2>. QED  BY <2>1 DEF Splits, Argument
<1>2. \A x \in {"AUTH", "COMPRESS", "QUOTA", "SORT", "THREAD"} : Splits(x, a) => a[1].w = x
  BY OneSplit DEF Splits
<1>3. Capability(a) =
        CASE Is("AUTH") -> Value("Auth", <<AuthMechanism(Argument(a))>>)
          [] Is("COMPRESS") /\ Folded(Argument(a)) = <<"DEFLATE">> -> Value("Compress", <<>>)
          [] Is("QUOTA") /\ AfterRes(a) # <<>> -> Value("QuotaRes", <<Resource(AfterRes(a))>>)
          [] Is("SORT") -> Value("Sort", <<SortAlgorithm(Argument(a))>>)
          [] Is("THREAD") -> Value("Thread", <<ThreadingAlgorithm(Argument(a))>>)
          [] OTHER -> known
  BY DEF Capability, Argument, AfterRes
<1>. HIDE DEF known, Is
<1>4. Capability(a) =
        CASE Splits("AUTH", a) -> Value("Auth", <<AuthMechanism(Argument(a))>>)
          [] Deflate(a) -> Value("Compress", <<>>)
          [] Resourceful(a) -> Value("QuotaRes", <<Resource(AfterRes(a))>>)
          [] Splits("SORT", a) -> Value("Sort", <<SortAlgorithm(Argument(a))>>)
          [] Splits("THREAD", a) -> Value("Thread", <<ThreadingAlgorithm(Argument(a))>>)
          [] OTHER -> known
  BY <1>1, <1>3 DEF Deflate, Resourceful
<1>5. /\ Splits("AUTH", a) => a[1].w = "AUTH"
      /\ Deflate(a) => a[1].w = "COMPRESS"
      /\ Resourceful(a) => a[1].w = "QUOTA"
      /\ Splits("SORT", a) => a[1].w = "SORT"
      /\ Splits("THREAD", a) => a[1].w = "THREAD"
  BY <1>2 DEF Deflate, Resourceful
<1>. QED  BY <1>4, <1>5 DEF known

\* How a capability with an argument is written and split again.
LEMMA WrittenSplit ==
  ASSUME NEW x \in {"AUTH", "COMPRESS", "QUOTA", "SORT", "THREAD"}, NEW u \in Letters, u # <<>>
  PROVE  LET w == Usual(<<x, "=">>) \o u
         IN  w \in Letters /\ Splits(x, w) /\ Argument(w) = u
<1>. DEFINE n == <<x, "=">>
            p == Usual(n)
            w == p \o u
<1>1. n \in Seq(Word) /\ Len(n) = 2 /\ x \in Word /\ "=" \in Word /\ x # "="
  BY CapabilityWords
<1>2. Argument(w) = u
  BY <1>1, AfterTwo DEF Argument
<1>. HIDE DEF n
<1>3. p \in Letters /\ Len(p) = 2 /\ \A i \in 1 .. 2 : p[i].w = n[i]
  BY <1>1, UsualFacts
<1>. HIDE DEF p
<1>4. w \in Letters /\ Len(w) = Len(p) + Len(u) /\ \A i \in 1 .. Len(p) : w[i] = p[i]
  BY <1>3, JoinFacts
<1>. HIDE DEF w
<1>5. Len(u) \in Nat
  BY AtomFacts
<1>6. Len(n) <= Len(w) /\ \A i \in 1 .. Len(n) : w[i].w = n[i]
  BY <1>1, <1>3, <1>4, <1>5
<1>7. StartsWith(n, w)
  BY <1>1, <1>4, <1>6, StartsWithIs
<1>8. Splits(x, w)
  BY <1>2, <1>7 DEF Splits, Argument, n
<1>. QED  BY <1>2, <1>4, <1>8 DEF w, p, n

\* An argument that is kept makes a capability that is kept.
LEMMA ArgumentKept ==
  ASSUME NEW x \in {"AUTH", "COMPRESS", "QUOTA", "SORT", "THREAD"}, NEW a \in Letters, Splits(x, a),
         NEW u \in Letters, Folded(u) = Folded(Argument(a))
  PROVE  LET w == Usual(<<x, "=">>) \o u
         IN  w \in Letters /\ Folded(w) = Folded(a) /\ Splits(x, w) /\ Argument(w) = u
<1>. DEFINE n == <<x, "=">>
            p == Usual(n)
            r == Argument(a)
            w == p \o u
<1>1. n \in Seq(Word) /\ x \in Word /\ "=" \in Word /\ x # "="
  BY CapabilityWords
<1>2. r \in Letters /\ Folded(p \o r) = Folded(a)
  BY <1>1, SplitTwo DEF Splits, Argument
<1>3. p \in Letters
  BY <1>1, UsualFacts
<1>4. u # <<>>
  <2>1. r # <<>>
    BY DEF Splits, Argument
  <2>2. Alike(u, r)
    BY <1>2, AlikeIsFolded
  <2>. QED  BY <1>2, <2>1, <2>2, AtomFacts DEF Alike
<1>5. w \in Letters /\ Splits(x, w) /\ Argument(w) = u
  BY <1>4, WrittenSplit
<1>6. Folded(w) = Folded(p \o r)
  <2>. HIDE DEF p, r
  <2>. QED  BY <1>2, <1>3, JoinFolds DEF r
<1>. QED  BY <1>2, <1>5, <1>6

\* The words of COMPRESS=DEFLATE.
LEMMA DeflateWords ==
  Folded(Usual(<<"COMPRESS", "=">>) \o Usual(<<"DEFLATE">>)) = <<"COMPRESS", "=", "DEFLATE">>
<1>. DEFINE n == <<"COMPRESS", "=">>
            d == <<"DEFLATE">>
            all == <<"COMPRESS", "=", "DEFLATE">>
            p == Usual(n)
            q == Usual(d)
            w == p \o q
<1>1. /\ n \in Seq(Word) /\ Len(n) = 2 /\ n[1] = "COMPRESS" /\ n[2] = "="
      /\ d \in Seq(Word) /\ Len(d) = 1 /\ d[1] = "DEFLATE"
      /\ all \in Seq(Word) /\ Len(all) = 3 /\ all[1] = "COMPRESS" /\ all[2] = "=" /\ all[3] = "DEFLATE"
  BY CapabilityWords
<1>. HIDE DEF n, d, all
<1>2. p \in Letters /\ Len(p) = 2 /\ \A i \in 1 .. 2 : p[i].w = n[i]
  BY <1>1, UsualFacts
<1>3. q \in Letters /\ Len(q) = 1 /\ \A i \in 1 .. 1 : q[i].w = d[i]
  BY <1>1, UsualFacts
<1>. HIDE DEF p, q
<1>4. /\ w \in Letters /\ Len(w) = Len(p) + Len(q)
      /\ \A i \in 1 .. Len(p) : w[i] = p[i]
      /\ \A i \in 1 .. Len(q) : w[Len(p) + i] = q[i]
  BY <1>2, <1>3, JoinFacts
<1>. HIDE DEF w
<1>5. Len(w) = 3 /\ w[1] = p[1] /\ w[2] = p[2] /\ w[3] = q[1]
  <2>1. w[2 + 1] = q[1]
    BY <1>2, <1>3, <1>4
  <2>. QED  BY <1>2, <1>3, <1>4, <2>1
<1>6. Folded(w) \in Seq(Word) /\ Len(Folded(w)) = 3 /\ \A i \in 1 .. 3 : Folded(w)[i] = w[i].w
  BY <1>4, <1>5, AtomFacts
<1>7. \A i \in 1 .. 3 : i = 1 \/ i = 2 \/ i = 3
  OBVIOUS
<1>8. \A i \in 1 .. 3 : Folded(w)[i] = all[i]
  BY <1>1, <1>2, <1>3, <1>5, <1>6, <1>7
<1>9. Folded(w) = all
  BY <1>1, <1>6, <1>8, SeqEqual
<1>. QED  BY <1>9 DEF w, p, q, n, d, all

\* Three words before an atom are two words and one word before it.
LEMMA ThreeWords ==
  ASSUME NEW u \in Letters
  PROVE  Usual(<<"QUOTA", "=", "RES-">>) \o u = Usual(<<"QUOTA", "=">>) \o (Usual(<<"RES-">>) \o u)
<1>. DEFINE n == <<"QUOTA", "=">>
            d == <<"RES-">>
            all == <<"QUOTA", "=", "RES-">>
            p == Usual(n)
            q == Usual(d)
            t == Usual(all)
            w == p \o q
<1>1. /\ n \in Seq(Word) /\ Len(n) = 2 /\ n[1] = "QUOTA" /\ n[2] = "="
      /\ d \in Seq(Word) /\ Len(d) = 1 /\ d[1] = "RES-"
      /\ all \in Seq(Word) /\ Len(all) = 3 /\ all[1] = "QUOTA" /\ all[2] = "=" /\ all[3] = "RES-"
  BY CapabilityWords
<1>. HIDE DEF n, d, all
<1>2. p \in Letters /\ Len(p) = 2 /\ \A i \in 1 .. 2 : p[i] = [w |-> n[i], s |-> "usual"]
  BY <1>1, UsualLetters
<1>3. q \in Letters /\ Len(q) = 1 /\ \A i \in 1 .. 1 : q[i] = [w |-> d[i], s |-> "usual"]
  BY <1>1, UsualLetters
<1>4. t \in Letters /\ Len(t) = 3 /\ \A i \in 1 .. 3 : t[i] = [w |-> all[i], s |-> "usual"]
  BY <1>1, UsualLetters
<1>. HIDE DEF p, q, t
<1>5. /\ w \in Letters /\ Len(w) = Len(p) + Len(q)
      /\ \A i \in 1 .. Len(p) : w[i] = p[i]
      /\ \A i \in 1 .. Len(q) : w[Len(p) + i] = q[i]
  BY <1>2, <1>3, JoinFacts
<1>. HIDE DEF w
<1>6. Len(w) = 3 /\ w[1] = p[1] /\ w[2] = p[2] /\ w[3] = q[1]
  <2>1. w[2 + 1] = q[1]
    BY <1>2, <1>3, <1>5
  <2>. QED  BY <1>2, <1>3, <1>5, <2>1
<1>7. \A i \in 1 .. 3 : i = 1 \/ i = 2 \/ i = 3
  OBVIOUS
<1>8. \A i \in 1 .. 3 : t[i] = w[i]
  BY <1>1, <1>2, <1>3, <1>4, <1>6, <1>7
<1>9. t = w
  BY <1>4, <1>5, <1>6, <1>8, SeqEqual DEF Letters
<1>10. (p \o q) \o u = p \o (q \o u)
  BY <1>2, <1>3, ConcatAssociative DEF Letters
<1>. QED  BY <1>9, <1>10 DEF w, p, q, t, n, d, all

\* In the argument of a quota that is read, "RES-" comes first.
LEMMA ResFirst ==
  ASSUME NEW a \in Letters, Splits("QUOTA", a),
         \A i \in DOMAIN a : a[i].w = "RES-" => i = 3,
         AfterRes(a) # <<>>
  PROVE  Folded(Usual(<<"RES-">>) \o After("RES-", Argument(a))) = Folded(Argument(a))
<1>. DEFINE r == Argument(a)
            t == After("RES-", r)
            n == <<"RES-">>
            p == Usual(n)
            c == p \o t
<1>1. "QUOTA" \in Word /\ "=" \in Word /\ "QUOTA" # "=" /\ n \in Seq(Word) /\ Len(n) = 1 /\ n[1] = "RES-"
  BY CapabilityWords
<1>. HIDE DEF n
<1>2. First("=", a, 2) /\ r \in Letters
  BY <1>1, SplitTwo DEF Splits, Argument
<1>3. IsRest(r, a, 2)
  BY <1>2, AfterFirst DEF Argument
<1>4. Len(a) \in Nat /\ DOMAIN a = 1 .. Len(a) /\ Len(r) = Len(a) - 2 /\ Len(r) \in Nat
      /\ \A k \in 1 .. Len(r) : r[k] = a[2 + k]
  BY <1>2, <1>3, AtomFacts DEF IsRest
<1>. HIDE DEF r
<1>5. \A k \in 1 .. Len(r) : r[k].w = "RES-" => k = 1
  <2>1. \A k \in 1 .. Len(r) : 2 + k \in DOMAIN a /\ (2 + k = 3 => k = 1)
    BY <1>4
  <2>. QED  BY <1>4, <2>1
<1>6. t # <<>>
  <2>1. SUFFICES ASSUME t = <<>> PROVE FALSE
    OBVIOUS
  <2>2. <<>> \in Letters /\ Len(<<>>) = 0
    BY EmptySeq DEF Letters
  <2>3. Lowered(<<>>) \in Letters /\ Folded(Lowered(<<>>)) = Folded(<<>>)
    BY <2>2, LoweredFacts
  <2>4. Alike(Lowered(<<>>), <<>>)
    BY <2>2, <2>3, AlikeIsFolded
  <2>5. Lowered(<<>>) = <<>>
    BY <2>2, <2>3, <2>4, AtomFacts DEF Alike
  <2>. QED  BY <2>1, <2>5 DEF AfterRes, r
<1>7. \E k \in 1 .. Len(r) : First("RES-", r, k)
  BY <1>2, <1>6, AfterNone, FirstOrNone DEF r
<1>8. First("RES-", r, 1)
  BY <1>5, <1>7 DEF First
<1>9. IsRest(t, r, 1)
  BY <1>2, <1>8, AfterFirst
<1>. HIDE DEF t
<1>10. /\ t \in Letters /\ Len(t) = Len(r) - 1 /\ r[1].w = "RES-" /\ Len(r) > 0
       /\ \A k \in 1 .. Len(r) - 1 : t[k] = r[1 + k]
  BY <1>4, <1>8, <1>9 DEF IsRest, First
<1>11. p \in Letters /\ Len(p) = 1 /\ p[1].w = "RES-"
  <2>1. p \in Letters /\ Len(p) = 1 /\ \A i \in 1 .. 1 : p[i].w = n[i]
    BY <1>1, UsualFacts
  <2>. QED  BY <1>1, <2>1
<1>. HIDE DEF p
<1>12. /\ c \in Letters /\ Len(c) = Len(p) + Len(t)
       /\ \A i \in 1 .. Len(p) : c[i] = p[i]
       /\ \A i \in 1 .. Len(t) : c[Len(p) + i] = t[i]
  BY <1>10, <1>11, JoinFacts
<1>. HIDE DEF c
<1>13. ASSUME NEW i \in 1 .. Len(r) PROVE c[i].w = r[i].w
  <2>1. CASE i = 1
    BY <2>1, <1>10, <1>11, <1>12
  <2>2. CASE i # 1
    <3>1. i - 1 \in 1 .. Len(r) - 1 /\ i = 1 + (i - 1)
      BY <2>2, <1>4
    <3>2. c[1 + (i - 1)] = t[i - 1]
      BY <3>1, <1>10, <1>11, <1>12
    <3>3. t[i - 1].w = r[i].w
      BY <3>1, <1>10
    <3>. QED  BY <3>1, <3>2, <3>3
  <2>. QED  BY <2>1, <2>2
<1>14. Len(c) = Len(r)
  BY <1>4, <1>10, <1>11, <1>12
<1>15. Alike(c, r)
  BY <1>13, <1>14 DEF Alike
<1>16. Folded(c) = Folded(r)
  BY <1>2, <1>12, <1>15, AlikeIsFolded DEF r
<1>. QED  BY <1>16 DEF c, p, t, r, n

\* A resource, read from what was made lower case, is kept.
LEMMA ResourceLowered ==
  ASSUME NEW t \in Letters
  PROVE  LET m == Resource(Lowered(t))
             u == Written(ResourceWritten, m)
         IN  u \in Letters /\ Folded(u) = Folded(t) /\ Resource(Lowered(u)) = m
<1>. DEFINE l == Lowered(t)
            m == Resource(l)
            u == Written(ResourceWritten, m)
<1>1. l \in Letters /\ Folded(l) = Folded(t) /\ Lowered(l) = l
  BY LoweredFacts
<1>. HIDE DEF l
<1>2. /\ u \in Letters /\ Folded(u) = Folded(l) /\ Resource(u) = m
      /\ m.v \in DOMAIN ResourceWritten \cup {"Other"}
  BY <1>1, ResourceTable, MatchKept, ZenonT(40) DEF Resource
<1>3. Resource(Lowered(u)) = m
  <2>1. CASE m.v = "Other"
    <3>1. "Other" \notin DOMAIN ResourceRead /\ "Other" \notin DOMAIN ResourceWritten
      BY DEF ResourceRead, ResourceWritten
    <3>2. m = Value("Other", l)
      BY <2>1, <3>1 DEF Resource, match, Value
    <3>3. u = l
      BY <3>1, <3>2 DEF Written, Value
    <3>. QED  BY <1>1, <3>3
  <2>2. CASE m.v # "Other"
    <3>. HIDE DEF u
    <3>1. Folded(Lowered(u)) = Folded(u)
      BY <1>2, LoweredFacts
    <3>2. match(ResourceRead, "Other", u) = match(ResourceRead, "Other", Lowered(u))
      BY <1>2, <2>2, <3>1, MatchFolds DEF Resource
    <3>. QED  BY <1>2, <3>2 DEF Resource
  <2>. QED  BY <2>1, <2>2
<1>. QED  BY <1>1, <1>2, <1>3 DEF l

\* A capability is kept.  The resource of a quota is read in lower case, and
\* written so if it is unknown.
LEMMA CapabilityKept ==
  ASSUME NEW a \in Letters,
         StartsWith(<<"QUOTA", "=">>, a) => \A i \in DOMAIN a : a[i].w = "RES-" => i = 3
  PROVE  Kept("Capability", a)
<1>. DEFINE r == Argument(a)
<1>1. \A y : From("Capability", y) = Capability(y) /\ Display("Capability", y) = WrittenCapability(y)
  BY DEF From, Display
<1>2. r \in Letters
  BY AfterFolds DEF Argument
<1>3. ASSUME NEW v, Capability(a) = v, NEW w, WrittenCapability(v) = w,
             w \in Letters, Folded(w) = Folded(a), Capability(w) = v
      PROVE  Kept("Capability", a)
  BY <1>1, <1>3 DEF Kept
<1>4. CASE Splits("AUTH", a)
  <2>. DEFINE m == AuthMechanism(r)
              u == Written(MechanismWritten, m)
              v == Value("Auth", <<m>>)
              w == Usual(<<"AUTH", "=">>) \o u
  <2>1. u \in Letters /\ Folded(u) = Folded(r) /\ AuthMechanism(u) = m
    <3>1. \A y : From("AuthMechanism", y) = AuthMechanism(y) /\ Display("AuthMechanism", y) = Written(MechanismWritten, y)
      BY DEF From, Display
    <3>2. Kept("AuthMechanism", r)
      BY <1>2, TablesKept
    <3>. QED  BY <3>1, <3>2 DEF Kept
  <2>2. Capability(a) = v
    BY <1>4, CapabilityIs
  <2>3. WrittenCapability(v) = w
    BY DEF WrittenCapability, Value
  <2>. HIDE DEF u, m
  <2>4. w \in Letters /\ Folded(w) = Folded(a) /\ Splits("AUTH", w) /\ Argument(w) = u
    BY <1>4, <2>1, ArgumentKept
  <2>. HIDE DEF w
  <2>5. Capability(w) = v
    BY <2>1, <2>4, CapabilityIs
  <2>. HIDE DEF v
  <2>. QED  BY <1>3, <2>2, <2>3, <2>4, <2>5
<1>5. CASE Splits("SORT", a)
  <2>. DEFINE m == SortAlgorithm(r)
              u == Written(SortWritten, m)
              v == Value("Sort", <<m>>)
              w == Usual(<<"SORT", "=">>) \o u
  <2>1. u \in Letters /\ Folded(u) = Folded(r) /\ SortAlgorithm(u) = m
    <3>1. \A y : From("SortAlgorithm", y) = SortAlgorithm(y) /\ Display("SortAlgorithm", y) = Written(SortWritten, y)
      BY DEF From, Display
    <3>2. Kept("SortAlgorithm", r)
      BY <1>2, TablesKept
    <3>. QED  BY <3>1, <3>2 DEF Kept
  <2>2. Capability(a) = v
    BY <1>5, CapabilityIs
  <2>3. WrittenCapability(v) = w
    BY DEF WrittenCapability, Value
  <2>. HIDE DEF u, m
  <2>4. w \in Letters /\ Folded(w) = Folded(a) /\ Splits("SORT", w) /\ Argument(w) = u
    BY <1>5, <2>1, ArgumentKept
  <2>. HIDE DEF w
  <2>5. Capability(w) = v
    BY <2>1, <2>4, CapabilityIs
  <2>. HIDE DEF v
  <2>. QED  BY <1>3, <2>2, <2>3, <2>4, <2>5
<1>6. CASE Splits("THREAD", a)
  <2>. DEFINE m == ThreadingAlgorithm(r)
              u == Written(ThreadingWritten, m)
              v == Value("Thread", <<m>>)
              w == Usual(<<"THREAD", "=">>) \o u
  <2>1. u \in Letters /\ Folded(u) = Folded(r) /\ ThreadingAlgorithm(u) = m
    <3>1. \A y : From("ThreadingAlgorithm", y) = ThreadingAlgorithm(y) /\ Display("ThreadingAlgorithm", y) = Written(ThreadingWritten, y)
      BY DEF From, Display
    <3>2. Kept("ThreadingAlgorithm", r)
      BY <1>2, TablesKept
    <3>. QED  BY <3>1, <3>2 DEF Kept
  <2>2. Capability(a) = v
    BY <1>6, CapabilityIs
  <2>3. WrittenCapability(v) = w
    BY DEF WrittenCapability, Value
  <2>. HIDE DEF u, m
  <2>4. w \in Letters /\ Folded(w) = Folded(a) /\ Splits("THREAD", w) /\ Argument(w) = u
    BY <1>6, <2>1, ArgumentKept
  <2>. HIDE DEF w
  <2>5. Capability(w) = v
    BY <2>1, <2>4, CapabilityIs
  <2>. HIDE DEF v
  <2>. QED  BY <1>3, <2>2, <2>3, <2>4, <2>5
<1>7. CASE Deflate(a)
  <2>. DEFINE n == <<"COMPRESS", "=", "DEFLATE">>
              w == Usual(n)
              v == Value("Compress", <<>>)
              d == Usual(<<"DEFLATE">>)
              c == Usual(<<"COMPRESS", "=">>) \o d
  <2>1. Capability(a) = v
    BY <1>7, CapabilityIs
  <2>2. WrittenCapability(v) = w
    BY DEF WrittenCapability, Value
  <2>3. d \in Letters /\ Folded(d) = Folded(r)
    <3>1. <<"DEFLATE">> \in Seq(Word)
      BY CapabilityWords
    <3>. QED  BY <1>7, <3>1, UsualFacts DEF Deflate
  <2>4. c \in Letters /\ Folded(c) = Folded(a)
    <3>. HIDE DEF d
    <3>1. Splits("COMPRESS", a)
      BY <1>7 DEF Deflate
    <3>. QED  BY <2>3, <3>1, ArgumentKept
  <2>5. w \in Letters /\ Folded(w) = n
    <3>1. n \in Seq(Word)
      BY CapabilityWords
    <3>. HIDE DEF n
    <3>. QED  BY <3>1, UsualFacts
  <2>6. Folded(c) = n
    BY CapabilityWords, DeflateWords
  <2>. HIDE DEF w, c
  <2>7. Deflate(w)
    BY <1>7, <2>4, <2>5, <2>6, SplitFolds
  <2>8. Capability(w) = v
    BY <2>5, <2>7, CapabilityIs
  <2>. HIDE DEF v
  <2>. QED  BY <1>3, <2>1, <2>2, <2>4, <2>5, <2>6, <2>8
<1>8. CASE Resourceful(a)
  <2>. DEFINE t == After("RES-", r)
              l == Lowered(t)
              m == Resource(l)
              u == Written(ResourceWritten, m)
              v == Value("QuotaRes", <<m>>)
              p == Usual(<<"RES-">>)
              q == p \o u
              w == Usual(<<"QUOTA", "=">>) \o q
  <2>1. Splits("QUOTA", a) /\ l # <<>>
    BY <1>8 DEF Resourceful, AfterRes
  <2>2. Capability(a) = v
    BY <1>8, CapabilityIs DEF AfterRes
  <2>3. t \in Letters /\ l \in Letters /\ Folded(l) = Folded(t)
    BY <1>2, AfterFolds, LoweredFacts
  <2>4. Folded(p \o t) = Folded(r)
    BY <2>1, ResFirst DEF Splits, AfterRes
  <2>5. u \in Letters /\ Folded(u) = Folded(l) /\ Resource(Lowered(u)) = m
    BY <2>3, ResourceLowered
  <2>6. WrittenCapability(v) = w
    <3>1. WrittenCapability(v) = Usual(<<"QUOTA", "=", "RES-">>) \o u
      BY DEF WrittenCapability, Value
    <3>2. Usual(<<"QUOTA", "=", "RES-">>) \o u = w
      <4>. HIDE DEF u
      <4>. QED  BY <2>5, ThreeWords
    <3>. QED  BY <3>1, <3>2
  <2>7. p \in Letters /\ q \in Letters /\ Folded(q) = Folded(r) /\ After("RES-", q) = u
    <3>1. <<"RES-">> \in Seq(Word) /\ "RES-" \in Word
      BY CapabilityWords
    <3>2. p \in Letters
      BY <3>1, UsualFacts
    <3>. HIDE DEF u
    <3>3. After("RES-", q) = u
      BY <2>5, <3>1, AfterOne
    <3>. HIDE DEF p, t, l
    <3>4. q \in Letters /\ Folded(q) = Folded(p \o t)
      BY <2>3, <2>5, <3>2, JoinFacts, JoinFolds
    <3>. QED  BY <2>4, <3>2, <3>3, <3>4
  <2>. HIDE DEF q
  <2>8. w \in Letters /\ Folded(w) = Folded(a) /\ Splits("QUOTA", w) /\ Argument(w) = q
    BY <2>1, <2>7, ArgumentKept
  <2>. HIDE DEF w, m
  <2>9. Resourceful(w)
    BY <1>8, <2>8, SplitFolds
  <2>10. AfterRes(w) = Lowered(u)
    BY <2>7, <2>8 DEF AfterRes
  <2>11. Capability(w) = v
    BY <2>5, <2>8, <2>9, <2>10, CapabilityIs
  <2>. HIDE DEF v
  <2>. QED  BY <1>3, <2>2, <2>6, <2>8, <2>11
<1>9. CASE ~Splits("AUTH", a) /\ ~Deflate(a) /\ ~Resourceful(a) /\ ~Splits("SORT", a) /\ ~Splits("THREAD", a)
  <2>. DEFINE v == match(CapabilityRead, "Other", a)
              w == Written(CapabilityWritten, v)
  <2>1. Capability(a) = v
    BY <1>9, CapabilityIs
  <2>2. /\ w \in Letters /\ Folded(w) = Folded(a) /\ match(CapabilityRead, "Other", w) = v
        /\ v.v # "Other" => v.of = <<>>
        /\ v.v \in DOMAIN CapabilityWritten \cup {"Other"}
    BY CapabilityTable, MatchKept
  <2>3. {"Auth", "Compress", "QuotaRes", "Thread"} \cap (DOMAIN CapabilityWritten \cup {"Other"}) = {}
    BY DEF CapabilityWritten
  <2>. HIDE DEF v
  <2>4. WrittenCapability(v) = w
    BY <2>2, <2>3 DEF WrittenCapability
  <2>. HIDE DEF w
  <2>5. Capability(w) = match(CapabilityRead, "Other", w)
    BY <1>9, <2>2, SplitFolds, CapabilityIs
  <2>. QED  BY <1>3, <2>1, <2>2, <2>4, <2>5
<1>. QED  BY <1>4, <1>5, <1>6, <1>7, <1>8, <1>9

-----------------------------------------------------------------------------
(* All types.                                                              *)

\* What is read of an atom that a peer may send is kept, whatever its type.
LEMMA AtomsKept ==
  ASSUME NEW t \in NameTypes, NEW a \in AtomsOf(t)
  PROVE  a \in Letters /\ a # <<>> /\ Kept(t, a)
<1>1. a \in Letters /\ a # <<>>
  BY AtomsAreLetters DEF AtomsOf
<1>2. CASE t \in {"AuthMechanism", "Resource", "ThreadingAlgorithm", "SortAlgorithm", "CapabilityEnable"}
  BY <1>1, <1>2, TablesKept
<1>3. CASE t = "FlagNameAttribute"
  <2>1. a[1].w = "\\"
    BY <1>3 DEF AtomsOf
  <2>. QED  BY <1>1, <1>3, <2>1, AttributeKept
<1>4. CASE t \in {"Flag", "AttributeFlag"}
  BY <1>1, <1>4, FlagKept
<1>5. CASE t \in {"FlagFetch", "FlagPerm"}
  BY <1>1, <1>5, FlagOrKept
<1>6. CASE t = "Capability"
  <2>1. StartsWith(<<"QUOTA", "=">>, a) => \A i \in DOMAIN a : a[i].w = "RES-" => i = 3
    BY <1>6 DEF AtomsOf
  <2>. QED  BY <1>1, <1>6, <2>1, CapabilityKept
<1>. QED  BY <1>1, <1>2, <1>3, <1>4, <1>5, <1>6 DEF NameTypes

\* Which variant of a flag is read depends on the words only.
LEMMA FlagFolds ==
  ASSUME NEW x, NEW a \in Letters, NEW b \in Letters, Folded(a) = Folded(b), a # <<>>
  PROVE  FlagAfter(x, a).v = FlagAfter(x, b).v
<1>1. a[1].w = b[1].w /\ Folded(Tail(a)) = Folded(Tail(b))
  BY TailFolds
<1>2. CASE a[1].w = x
  <2>1. FlagAfter(x, a) = match(FlagRead, "Extension", Tail(a)) /\ FlagAfter(x, b) = match(FlagRead, "Extension", Tail(b))
    BY <1>1, <1>2 DEF FlagAfter
  <2>2. match(FlagRead, "Extension", Tail(a)).v = match(FlagRead, "Extension", Tail(b)).v
    BY <1>1, MatchFolds
  <2>. QED  BY <2>1, <2>2
<1>3. CASE a[1].w # x
  BY <1>1, <1>3 DEF FlagAfter, Value
<1>. QED  BY <1>2, <1>3

\* Which variant of a capability is read depends on the words only.
LEMMA CapabilityFolds ==
  ASSUME NEW a \in Letters, NEW b \in Letters, Folded(a) = Folded(b)
  PROVE  Capability(a).v = Capability(b).v
<1>1. /\ \A x \in {"AUTH", "COMPRESS", "QUOTA", "SORT", "THREAD"} : Splits(x, a) <=> Splits(x, b)
      /\ Deflate(a) <=> Deflate(b)
      /\ Resourceful(a) <=> Resourceful(b)
  BY SplitFolds
<1>2. \A v, of : Value(v, of).v = v
  BY DEF Value
<1>3. CASE Splits("AUTH", a)
  <2>1. Capability(a) = Value("Auth", <<AuthMechanism(Argument(a))>>)
    BY <1>3, CapabilityIs
  <2>2. Capability(b) = Value("Auth", <<AuthMechanism(Argument(b))>>)
    BY <1>1, <1>3, CapabilityIs
  <2>. QED  BY <2>1, <2>2 DEF Value
<1>4. CASE Deflate(a)
  BY <1>1, <1>2, <1>4, CapabilityIs
<1>5. CASE Resourceful(a)
  <2>1. Capability(a) = Value("QuotaRes", <<Resource(AfterRes(a))>>)
    BY <1>5, CapabilityIs
  <2>2. Capability(b) = Value("QuotaRes", <<Resource(AfterRes(b))>>)
    BY <1>1, <1>5, CapabilityIs
  <2>. QED  BY <2>1, <2>2 DEF Value
<1>6. CASE Splits("SORT", a)
  <2>1. Capability(a) = Value("Sort", <<SortAlgorithm(Argument(a))>>)
    BY <1>6, CapabilityIs
  <2>2. Capability(b) = Value("Sort", <<SortAlgorithm(Argument(b))>>)
    BY <1>1, <1>6, CapabilityIs
  <2>. QED  BY <2>1, <2>2 DEF Value
<1>7. CASE Splits("THREAD", a)
  <2>1. Capability(a) = Value("Thread", <<ThreadingAlgorithm(Argument(a))>>)
    BY <1>7, CapabilityIs
  <2>2. Capability(b) = Value("Thread", <<ThreadingAlgorithm(Argument(b))>>)
    BY <1>1, <1>7, CapabilityIs
  <2>. QED  BY <2>1, <2>2 DEF Value
<1>8. CASE ~Splits("AUTH", a) /\ ~Deflate(a) /\ ~Resourceful(a) /\ ~Splits("SORT", a) /\ ~Splits("THREAD", a)
  <2>1. Capability(a) = match(CapabilityRead, "Other", a)
    BY <1>8, CapabilityIs
  <2>2. Capability(b) = match(CapabilityRead, "Other", b)
    BY <1>1, <1>8, CapabilityIs
  <2>. QED  BY <2>1, <2>2, MatchFolds
<1>. QED  BY <1>3, <1>4, <1>5, <1>6, <1>7, <1>8

\* Which variant is read depends on the words only, whatever the type.
LEMMA WordsDecide ==
  ASSUME NEW t \in NameTypes, NEW a \in Letters, NEW b \in Letters, Folded(a) = Folded(b), a # <<>>
  PROVE  From(t, a).v = From(t, b).v
<1>1. CASE t = "AuthMechanism"
  BY <1>1, MatchFolds DEF From, AuthMechanism
<1>2. CASE t = "Resource"
  BY <1>2, MatchFolds DEF From, Resource
<1>3. CASE t = "ThreadingAlgorithm"
  BY <1>3, MatchFolds DEF From, ThreadingAlgorithm
<1>4. CASE t = "SortAlgorithm"
  BY <1>4, MatchFolds DEF From, SortAlgorithm
<1>5. CASE t = "CapabilityEnable"
  BY <1>5, MatchFolds DEF From, CapabilityEnable
<1>6. CASE t = "FlagNameAttribute"
  <2>1. Folded(Tail(a)) = Folded(Tail(b))
    BY TailFolds
  <2>2. \A y : From(t, y) = match(AttributeRead, "Extension", Tail(y))
    BY <1>6 DEF From, FlagNameAttribute
  <2>. QED  BY <2>1, <2>2, MatchFolds
<1>7. CASE t = "Flag"
  <2>1. \A y : From(t, y) = FlagAfter("\\", y)
    BY <1>7 DEF From, Flag
  <2>. QED  BY <2>1, FlagFolds
<1>8. CASE t = "AttributeFlag"
  <2>1. \A y : From(t, y) = FlagAfter("\\\\", y)
    BY <1>8 DEF From, AttributeFlag
  <2>. QED  BY <2>1, FlagFolds
<1>9. CASE t = "FlagFetch"
  <2>1. \A y : From(t, y).v = IF Folded(y) = <<"\\", "RECENT">> THEN "Recent" ELSE "Flag"
    BY <1>9 DEF From, FlagFetch, Value
  <2>. QED  BY <2>1
<1>10. CASE t = "FlagPerm"
  <2>1. \A y : From(t, y).v = IF Folded(y) = <<"\\", "*">> THEN "Asterisk" ELSE "Flag"
    BY <1>10 DEF From, FlagPerm, Value
  <2>. QED  BY <2>1
<1>11. CASE t = "Capability"
  <2>1. \A y : From(t, y) = Capability(y)
    BY <1>11 DEF From
  <2>. QED  BY <2>1, CapabilityFolds
<1>. QED  BY <1>1, <1>2, <1>3, <1>4, <1>5, <1>6, <1>7, <1>8, <1>9, <1>10, <1>11 DEF NameTypes

-----------------------------------------------------------------------------
(* Variants.                                                               *)

\* A variant is written as an atom that is read as the variant.
Rebuilt(t, v) ==
  LET w == Display(t, v)
  IN  w \in Letters /\ From(t, w) = v

\* A variant without an argument has a name in a table.
LEMMA OneVariant ==
  ASSUME NEW read, NEW written, Table(read, written), NEW v \in DOMAIN read, NEW fallback
  PROVE  LET u == Written(written, Value(v, <<>>))
         IN  u \in Letters /\ Folded(u) = read[v] /\ match(read, fallback, u) = Value(v, <<>>)
<1>1. v \in DOMAIN written /\ written[v] = read[v]
  BY DEF Table
<1>2. Written(written, Value(v, <<>>)) = Usual(read[v])
  BY <1>1 DEF Written, Value
<1>. QED  BY <1>2, MatchBuilt

\* The variants that have an arm.
LEMMA Arms ==
  /\ DOMAIN MechanismWritten \ {"ScramSha3_512", "ScramSha3_512Plus"} = DOMAIN MechanismRead
  /\ DOMAIN ResourceWritten = DOMAIN ResourceRead
  /\ DOMAIN ThreadingWritten = DOMAIN ThreadingRead
  /\ DOMAIN SortWritten = DOMAIN SortRead
  /\ DOMAIN EnableWritten = DOMAIN EnableRead
  /\ DOMAIN AttributeWritten = DOMAIN AttributeRead
  /\ DOMAIN FlagWritten = DOMAIN FlagRead
  /\ DOMAIN CapabilityWritten \ {"Namespace"} = DOMAIN CapabilityRead
<1>1. DOMAIN MechanismWritten \ {"ScramSha3_512", "ScramSha3_512Plus"} = DOMAIN MechanismRead
  BY SMTT(90) DEF MechanismWritten, MechanismRead
<1>2. DOMAIN ResourceWritten = DOMAIN ResourceRead
  BY DEF ResourceWritten, ResourceRead
<1>3. DOMAIN ThreadingWritten = DOMAIN ThreadingRead
  BY DEF ThreadingWritten, ThreadingRead
<1>4. DOMAIN SortWritten = DOMAIN SortRead
  BY DEF SortWritten, SortRead
<1>5. DOMAIN EnableWritten = DOMAIN EnableRead
  BY DEF EnableWritten, EnableRead
<1>6. DOMAIN AttributeWritten = DOMAIN AttributeRead
  BY DEF AttributeWritten, AttributeRead
<1>7. DOMAIN FlagWritten = DOMAIN FlagRead
  BY DEF FlagWritten, FlagRead
<1>8. DOMAIN CapabilityWritten \ {"Namespace"} = DOMAIN CapabilityRead
  BY SMTT(90) DEF CapabilityWritten, CapabilityRead
<1>. QED  BY <1>1, <1>2, <1>3, <1>4, <1>5, <1>6, <1>7, <1>8

\* The mechanisms that have an arm.
LEMMA MechanismsRebuilt ==
  ASSUME NEW v \in DOMAIN MechanismWritten, <<"AuthMechanism", Value(v, <<>>)>> \notin Unread
  PROVE  v \in DOMAIN MechanismRead /\ Rebuilt("AuthMechanism", Value(v, <<>>))
<1>1. v \notin {"ScramSha3_512", "ScramSha3_512Plus"}
  BY DEF Unread, Sha3
<1>2. v \in DOMAIN MechanismRead
  BY <1>1, Arms
<1>3. \A x : From("AuthMechanism", x) = match(MechanismRead, "Other", x) /\ Display("AuthMechanism", x) = Written(MechanismWritten, x)
  BY DEF From, Display, AuthMechanism
<1>. QED  BY <1>2, <1>3, MechanismTable, OneVariant, ZenonT(40) DEF Rebuilt

\* The algorithms, resources and extensions.
LEMMA AlgorithmsRebuilt ==
  ASSUME NEW b \in Algorithms
  PROVE  Rebuilt(b[1], b[2])
<1>1. ASSUME NEW t, NEW read, NEW written, Table(read, written), DOMAIN written = DOMAIN read, NEW v \in DOMAIN written,
             \A x : From(t, x) = match(read, "Other", x) /\ Display(t, x) = Written(written, x)
      PROVE  Rebuilt(t, Value(v, <<>>))
  <2>. DEFINE u == Written(written, Value(v, <<>>))
  <2>1. u \in Letters /\ match(read, "Other", u) = Value(v, <<>>)
    <3>1. v \in DOMAIN read
      BY <1>1
    <3>2. Table(read, written)
      BY <1>1
    <3>. QED  BY <3>1, <3>2, OneVariant, ZenonT(30)
  <2>2. Display(t, Value(v, <<>>)) = u /\ From(t, u) = match(read, "Other", u)
    BY <1>1
  <2>. HIDE DEF u
  <2>. QED  BY <2>1, <2>2 DEF Rebuilt
<1>2. ASSUME NEW v \in DOMAIN ResourceWritten PROVE Rebuilt("Resource", Value(v, <<>>))
  <2>1. \A x : From("Resource", x) = match(ResourceRead, "Other", x) /\ Display("Resource", x) = Written(ResourceWritten, x)
    BY DEF From, Display, Resource
  <2>. QED  BY <1>1, <2>1, Arms, ResourceTable
<1>3. ASSUME NEW v \in DOMAIN ThreadingWritten PROVE Rebuilt("ThreadingAlgorithm", Value(v, <<>>))
  <2>1. \A x : /\ From("ThreadingAlgorithm", x) = match(ThreadingRead, "Other", x)
              /\ Display("ThreadingAlgorithm", x) = Written(ThreadingWritten, x)
    BY DEF From, Display, ThreadingAlgorithm
  <2>. QED  BY <1>1, <2>1, Arms, ThreadingTable
<1>4. ASSUME NEW v \in DOMAIN SortWritten PROVE Rebuilt("SortAlgorithm", Value(v, <<>>))
  <2>1. \A x : From("SortAlgorithm", x) = match(SortRead, "Other", x) /\ Display("SortAlgorithm", x) = Written(SortWritten, x)
    BY DEF From, Display, SortAlgorithm
  <2>. QED  BY <1>1, <2>1, Arms, SortTable
<1>5. ASSUME NEW v \in DOMAIN EnableWritten PROVE Rebuilt("CapabilityEnable", Value(v, <<>>))
  <2>1. \A x : From("CapabilityEnable", x) = match(EnableRead, "Other", x) /\ Display("CapabilityEnable", x) = Written(EnableWritten, x)
    BY DEF From, Display, CapabilityEnable
  <2>. QED  BY <1>1, <2>1, Arms, EnableTable
<1>6. CASE b \in Plain("Resource", ResourceWritten)
  BY <1>2, <1>6 DEF Plain
<1>7. CASE b \in Plain("ThreadingAlgorithm", ThreadingWritten)
  BY <1>3, <1>7 DEF Plain
<1>8. CASE b \in Plain("SortAlgorithm", SortWritten)
  BY <1>4, <1>8 DEF Plain
<1>9. CASE b \in Plain("CapabilityEnable", EnableWritten)
  BY <1>5, <1>9 DEF Plain
<1>. QED  BY <1>6, <1>7, <1>8, <1>9 DEF Algorithms

\* A variant whose name stands behind a backslash.
StandsBehind(x, read, written, v) ==
  LET w == Backslashed(x, written, Value(v, <<>>))
  IN  /\ w \in Letters /\ w # <<>> /\ w[1].w = x /\ Folded(Tail(w)) = read[v]
      /\ match(read, "Extension", Tail(w)) = Value(v, <<>>)

\* The name of a variant is written behind the backslash.
LEMMA BackslashVariant ==
  ASSUME NEW x \in Word, NEW read, NEW written, Table(read, written), NEW v \in DOMAIN read
  PROVE  StandsBehind(x, read, written, v)
<1>. DEFINE u == Written(written, Value(v, <<>>))
            w == Usual(<<x>>) \o u
<1>1. u \in Letters /\ Folded(u) = read[v] /\ match(read, "Extension", u) = Value(v, <<>>)
  BY OneVariant
<1>2. Value(v, <<>>).v # "Keyword"
  BY DEF Table, Value
<1>3. Backslashed(x, written, Value(v, <<>>)) = w
  BY <1>2 DEF Backslashed
<1>. HIDE DEF u
<1>4. w \in Letters /\ w # <<>> /\ w[1].w = x /\ Tail(w) = u
  BY <1>1, PrefixOne
<1>. HIDE DEF w
<1>. QED  BY <1>1, <1>3, <1>4 DEF StandsBehind

\* A flag is written behind a backslash, and is read as the flag.
LEMMA FlagVariant ==
  ASSUME NEW x \in Word, NEW v \in DOMAIN FlagWritten
  PROVE  LET w == Backslashed(x, FlagWritten, Value(v, <<>>))
         IN  /\ w \in Letters /\ FlagAfter(x, w) = Value(v, <<>>)
             /\ Folded(w) \notin {<<"\\", "RECENT">>, <<"\\", "*">>}
<1>. DEFINE w == Backslashed(x, FlagWritten, Value(v, <<>>))
<1>1. v \in DOMAIN FlagRead
  BY Arms
<1>2. /\ w \in Letters /\ w # <<>> /\ w[1].w = x /\ Folded(Tail(w)) = FlagRead[v]
      /\ match(FlagRead, "Extension", Tail(w)) = Value(v, <<>>)
  <2>1. StandsBehind(x, FlagRead, FlagWritten, v)
    BY <1>1, FlagTable, BackslashVariant
  <2>. QED  BY <2>1 DEF StandsBehind
<1>. HIDE DEF w
<1>3. FlagAfter(x, w) = Value(v, <<>>)
  BY <1>2 DEF FlagAfter
<1>4. Len(FlagRead[v]) = 1 /\ FlagRead[v][1] \notin {"RECENT", "*"}
  BY <1>1, SMTT(90) DEF FlagRead
<1>5. Folded(w)[2] \notin {"RECENT", "*"}
  <2>1. Tail(w) \in Letters /\ Len(Tail(w)) = 1
    BY <1>2, <1>4, TailFacts, AtomFacts
  <2>2. Tail(w)[1].w = FlagRead[v][1]
    <3>. DEFINE h == Tail(w)
    <3>1. h \in Letters /\ Len(h) = 1
      BY <2>1, Zenon
    <3>. HIDE DEF h
    <3>2. Folded(h)[1] = h[1].w
      BY <3>1, AtomFacts
    <3>. QED  BY <1>2, <3>2 DEF h
  <2>3. Len(w) = 2 /\ Tail(w)[1] = w[2]
    <3>1. /\ Len(Tail(w)) = Len(w) - 1 /\ Len(w) \in Nat
          /\ \A i \in 1 .. Len(w) - 1 : Tail(w)[i] = w[i + 1]
      BY <1>2, TailFacts
    <3>2. Len(w) = 2
      BY <2>1, <3>1
    <3>3. Tail(w)[1] = w[1 + 1]
      BY <3>1, <3>2
    <3>. QED  BY <3>2, <3>3
  <2>4. Folded(w)[2] = w[2].w
    BY <1>2, <2>3, AtomFacts
  <2>. QED  BY <1>4, <2>2, <2>3, <2>4
<1>6. \A y : <<"\\", y>>[2] = y
  OBVIOUS
<1>7. Folded(w) \notin {<<"\\", "RECENT">>, <<"\\", "*">>}
  BY <1>5, <1>6
<1>. QED  BY <1>2, <1>3, <1>7 DEF w

\* Two words that are written are read.
LEMMA TwoWords ==
  ASSUME NEW x \in Word, NEW y \in Word
  PROVE  Usual(<<x, y>>) \in Letters /\ Folded(Usual(<<x, y>>)) = <<x, y>>
<1>1. <<x, y>> \in Seq(Word)
  OBVIOUS
<1>. QED  BY <1>1, UsualFacts

\* The flags and attributes.
LEMMA FlagsRebuilt ==
  ASSUME NEW b \in Flags
  PROVE  Rebuilt(b[1], b[2])
<1>1. {"\\", "\\\\", "*", "RECENT"} \subseteq Word
  BY DEF Word
<1>2. ASSUME NEW v \in DOMAIN FlagWritten PROVE Rebuilt("Flag", Value(v, <<>>))
  <2>1. \A x : From("Flag", x) = FlagAfter("\\", x) /\ Display("Flag", x) = Backslashed("\\", FlagWritten, x)
    BY DEF From, Display, Flag, WrittenFlag
  <2>. QED  BY <1>1, <2>1, FlagVariant DEF Rebuilt
<1>3. ASSUME NEW v \in DOMAIN FlagWritten PROVE Rebuilt("AttributeFlag", Value(v, <<>>))
  <2>1. \A x : From("AttributeFlag", x) = FlagAfter("\\\\", x) /\ Display("AttributeFlag", x) = Backslashed("\\\\", FlagWritten, x)
    BY DEF From, Display, AttributeFlag
  <2>. QED  BY <1>1, <2>1, FlagVariant DEF Rebuilt
<1>4. ASSUME NEW v \in DOMAIN AttributeWritten PROVE Rebuilt("FlagNameAttribute", Value(v, <<>>))
  <2>1. \A x : /\ From("FlagNameAttribute", x) = match(AttributeRead, "Extension", Tail(x))
              /\ Display("FlagNameAttribute", x) = Backslashed("\\", AttributeWritten, x)
    BY DEF From, Display, FlagNameAttribute
  <2>2. v \in DOMAIN AttributeRead
    BY Arms
  <2>. DEFINE w == Backslashed("\\", AttributeWritten, Value(v, <<>>))
  <2>3. w \in Letters /\ match(AttributeRead, "Extension", Tail(w)) = Value(v, <<>>)
    <3>1. StandsBehind("\\", AttributeRead, AttributeWritten, v)
      BY <1>1, <2>2, AttributeTable, BackslashVariant
    <3>. QED  BY <3>1 DEF StandsBehind
  <2>4. Display("FlagNameAttribute", Value(v, <<>>)) = w
        /\ From("FlagNameAttribute", w) = match(AttributeRead, "Extension", Tail(w))
    BY <2>1
  <2>. HIDE DEF w
  <2>. QED  BY <2>3, <2>4 DEF Rebuilt
<1>5. ASSUME NEW v \in DOMAIN FlagWritten
      PROVE  Rebuilt("FlagFetch", Value("Flag", <<Value(v, <<>>)>>)) /\ Rebuilt("FlagPerm", Value("Flag", <<Value(v, <<>>)>>))
  <2>. DEFINE w == Backslashed("\\", FlagWritten, Value(v, <<>>))
              f == Value("Flag", <<Value(v, <<>>)>>)
  <2>1. w \in Letters /\ FlagAfter("\\", w) = Value(v, <<>>) /\ Folded(w) \notin {<<"\\", "RECENT">>, <<"\\", "*">>}
    BY <1>1, FlagVariant
  <2>2. Display("FlagFetch", f) = w /\ Display("FlagPerm", f) = w
    BY DEF Display, WrittenFlag, Value
  <2>. HIDE DEF w
  <2>3. From("FlagFetch", w) = f
    BY <2>1 DEF From, FlagFetch, Flag
  <2>4. From("FlagPerm", w) = f
    BY <2>1 DEF From, FlagPerm, Flag
  <2>. HIDE DEF f
  <2>. QED  BY <2>1, <2>2, <2>3, <2>4 DEF Rebuilt, f
<1>6. Rebuilt("FlagFetch", Value("Recent", <<>>))
  <2>1. Display("FlagFetch", Value("Recent", <<>>)) = Usual(<<"\\", "RECENT">>)
    BY DEF Display, Value
  <2>2. From("FlagFetch", Usual(<<"\\", "RECENT">>)) = Value("Recent", <<>>)
    BY <1>1, TwoWords DEF From, FlagFetch
  <2>. QED  BY <1>1, <2>1, <2>2, TwoWords DEF Rebuilt
<1>7. Rebuilt("FlagPerm", Value("Asterisk", <<>>))
  <2>1. Display("FlagPerm", Value("Asterisk", <<>>)) = Usual(<<"\\", "*">>)
    BY DEF Display, Value
  <2>2. From("FlagPerm", Usual(<<"\\", "*">>)) = Value("Asterisk", <<>>)
    BY <1>1, TwoWords DEF From, FlagPerm
  <2>. QED  BY <1>1, <2>1, <2>2, TwoWords DEF Rebuilt
<1>8. CASE b \in Plain("Flag", FlagWritten)
  BY <1>2, <1>8 DEF Plain
<1>9. CASE b \in Plain("AttributeFlag", FlagWritten)
  BY <1>3, <1>9 DEF Plain
<1>10. CASE b \in Plain("FlagNameAttribute", AttributeWritten)
  BY <1>4, <1>10 DEF Plain
<1>11. CASE b \in Nested("FlagFetch", "Flag", FlagWritten) \cup Nested("FlagPerm", "Flag", FlagWritten)
  <2>1. PICK v \in DOMAIN FlagWritten : b = <<"FlagFetch", Value("Flag", <<Value(v, <<>>)>>)>>
                                         \/ b = <<"FlagPerm", Value("Flag", <<Value(v, <<>>)>>)>>
    BY <1>11 DEF Nested
  <2>. QED  BY <1>5, <2>1
<1>12. CASE b \in {<<"FlagFetch", Value("Recent", <<>>)>>, <<"FlagPerm", Value("Asterisk", <<>>)>>}
  BY <1>6, <1>7, <1>12
<1>. QED  BY <1>8, <1>9, <1>10, <1>11, <1>12 DEF Flags

\* Capabilities without an argument.
LEMMA NamesRebuilt ==
  ASSUME NEW v \in DOMAIN CapabilityRead
  PROVE  Rebuilt("Capability", Value(v, <<>>))
<1>. DEFINE u == Written(CapabilityWritten, Value(v, <<>>))
<1>1. u \in Letters /\ match(CapabilityRead, "Other", u) = Value(v, <<>>)
  BY CapabilityTable, OneVariant
<1>2. v \notin {"Auth", "Compress", "QuotaRes", "Thread", "Other"}
  BY DEF CapabilityRead
<1>3. Display("Capability", Value(v, <<>>)) = u
  <2>1. Value(v, <<>>).v = v /\ Value(v, <<>>).of = <<>>
    BY DEF Value
  <2>. QED  BY <1>2, <2>1 DEF Display, WrittenCapability
<1>. HIDE DEF u
<1>4. \A x \in {"AUTH", "COMPRESS", "QUOTA", "SORT", "THREAD"} : ~Splits(x, u)
  <2>. SUFFICES ASSUME NEW x \in {"AUTH", "COMPRESS", "QUOTA", "SORT", "THREAD"}, Splits(x, u) PROVE FALSE
    OBVIOUS
  <2>1. Value(v, <<>>) = Value("Other", u)
    BY <1>1, NoArm DEF Splits
  <2>. QED  BY <1>2, <2>1 DEF Value
<1>5. Capability(u) = Value(v, <<>>)
  BY <1>1, <1>4, CapabilityIs DEF Deflate, Resourceful
<1>. QED  BY <1>1, <1>3, <1>5 DEF Rebuilt, From

\* Names in a table are not empty.
LEMMA NotEmpty ==
  /\ \A v \in DOMAIN MechanismRead : Len(MechanismRead[v]) = 1
  /\ \A v \in DOMAIN ResourceRead : Len(ResourceRead[v]) = 1
  /\ \A v \in DOMAIN SortRead : Len(SortRead[v]) = 1
  /\ \A v \in DOMAIN ThreadingRead : Len(ThreadingRead[v]) = 1
BY SMTT(90) DEF MechanismRead, ResourceRead, SortRead, ThreadingRead

\* An argument that is a name in a table.
StandsAsArgument(x, read, written, v) ==
  LET u == Written(written, Value(v, <<>>))
      w == Usual(<<x, "=">>) \o u
  IN  /\ w \in Letters /\ Splits(x, w) /\ Argument(w) = u
      /\ match(read, "Other", u) = Value(v, <<>>)

\* The name of a variant is written as an argument, and is split off again.
LEMMA NamedArgument ==
  ASSUME NEW x \in {"AUTH", "COMPRESS", "QUOTA", "SORT", "THREAD"},
         NEW read, NEW written, Table(read, written), NEW v \in DOMAIN read, Len(read[v]) = 1
  PROVE  StandsAsArgument(x, read, written, v)
<1>. DEFINE u == Written(written, Value(v, <<>>))
<1>1. u \in Letters /\ Folded(u) = read[v] /\ match(read, "Other", u) = Value(v, <<>>)
  BY OneVariant
<1>. HIDE DEF u
<1>2. u # <<>>
  <2>1. Len(Folded(u)) = 1
    BY <1>1
  <2>2. Len(u) = 1
    BY <1>1, <2>1, AtomFacts
  <2>3. u = <<>> => Len(u) = 0
    BY <1>1, AtomFacts
  <2>. QED  BY <2>2, <2>3
<1>3. Usual(<<x, "=">>) \o u \in Letters /\ Splits(x, Usual(<<x, "=">>) \o u) /\ Argument(Usual(<<x, "=">>) \o u) = u
  BY <1>1, <1>2, WrittenSplit
<1>. QED  BY <1>1, <1>3 DEF StandsAsArgument, u

\* Capabilities with a mechanism, or with the name of an algorithm.
LEMMA ArgumentsRebuilt ==
  /\ \A v \in DOMAIN MechanismRead : Rebuilt("Capability", Value("Auth", <<Value(v, <<>>)>>))
  /\ \A v \in DOMAIN SortRead : Rebuilt("Capability", Value("Sort", <<Value(v, <<>>)>>))
  /\ \A v \in DOMAIN ThreadingRead : Rebuilt("Capability", Value("Thread", <<Value(v, <<>>)>>))
<1>1. ASSUME NEW v \in DOMAIN MechanismRead PROVE Rebuilt("Capability", Value("Auth", <<Value(v, <<>>)>>))
  <2>. DEFINE u == Written(MechanismWritten, Value(v, <<>>))
              w == Usual(<<"AUTH", "=">>) \o u
              c == Value("Auth", <<Value(v, <<>>)>>)
  <2>1. w \in Letters /\ Splits("AUTH", w) /\ Argument(w) = u /\ match(MechanismRead, "Other", u) = Value(v, <<>>)
    <3>1. StandsAsArgument("AUTH", MechanismRead, MechanismWritten, v)
      BY MechanismTable, NotEmpty, NamedArgument
    <3>. QED  BY <3>1 DEF StandsAsArgument
  <2>2. Display("Capability", c) = w
    BY DEF Display, WrittenCapability, Value
  <2>. HIDE DEF w, u
  <2>3. From("Capability", w) = c
    BY <2>1, CapabilityIs DEF From, AuthMechanism
  <2>. HIDE DEF c
  <2>4. Rebuilt("Capability", c)
    BY <2>1, <2>2, <2>3 DEF Rebuilt
  <2>. QED  BY <2>4 DEF c
<1>2. ASSUME NEW v \in DOMAIN SortRead PROVE Rebuilt("Capability", Value("Sort", <<Value(v, <<>>)>>))
  <2>. DEFINE u == Written(SortWritten, Value(v, <<>>))
              w == Usual(<<"SORT", "=">>) \o u
              c == Value("Sort", <<Value(v, <<>>)>>)
  <2>1. w \in Letters /\ Splits("SORT", w) /\ Argument(w) = u /\ match(SortRead, "Other", u) = Value(v, <<>>)
    <3>1. StandsAsArgument("SORT", SortRead, SortWritten, v)
      BY SortTable, NotEmpty, NamedArgument
    <3>. QED  BY <3>1 DEF StandsAsArgument
  <2>2. Display("Capability", c) = w
    BY DEF Display, WrittenCapability, Value
  <2>. HIDE DEF w, u
  <2>3. From("Capability", w) = c
    BY <2>1, CapabilityIs DEF From, SortAlgorithm
  <2>. HIDE DEF c
  <2>4. Rebuilt("Capability", c)
    BY <2>1, <2>2, <2>3 DEF Rebuilt
  <2>. QED  BY <2>4 DEF c
<1>3. ASSUME NEW v \in DOMAIN ThreadingRead PROVE Rebuilt("Capability", Value("Thread", <<Value(v, <<>>)>>))
  <2>. DEFINE u == Written(ThreadingWritten, Value(v, <<>>))
              w == Usual(<<"THREAD", "=">>) \o u
              c == Value("Thread", <<Value(v, <<>>)>>)
  <2>1. w \in Letters /\ Splits("THREAD", w) /\ Argument(w) = u /\ match(ThreadingRead, "Other", u) = Value(v, <<>>)
    <3>1. StandsAsArgument("THREAD", ThreadingRead, ThreadingWritten, v)
      BY ThreadingTable, NotEmpty, NamedArgument
    <3>. QED  BY <3>1 DEF StandsAsArgument
  <2>2. Display("Capability", c) = w
    BY DEF Display, WrittenCapability, Value
  <2>. HIDE DEF w, u
  <2>3. From("Capability", w) = c
    BY <2>1, CapabilityIs DEF From, ThreadingAlgorithm
  <2>. HIDE DEF c
  <2>4. Rebuilt("Capability", c)
    BY <2>1, <2>2, <2>3 DEF Rebuilt
  <2>. QED  BY <2>4 DEF c
<1>. QED  BY <1>1, <1>2, <1>3

\* The capability of a quota's resource.
LEMMA QuotaRebuilt ==
  ASSUME NEW v \in DOMAIN ResourceRead
  PROVE  Rebuilt("Capability", Value("QuotaRes", <<Value(v, <<>>)>>))
<1>. DEFINE m == Value(v, <<>>)
            u == Written(ResourceWritten, m)
            q == Usual(<<"RES-">>) \o u
            w == Usual(<<"QUOTA", "=">>) \o q
            c == Value("QuotaRes", <<m>>)
<1>1. u \in Letters /\ Folded(u) = ResourceRead[v] /\ match(ResourceRead, "Other", u) = m
  BY ResourceTable, OneVariant
<1>2. m.v # "Other"
  BY DEF ResourceRead, Value
<1>3. Display("Capability", c) = w
  <2>1. Display("Capability", c) = Usual(<<"QUOTA", "=", "RES-">>) \o u
    BY DEF Display, WrittenCapability, Value
  <2>. HIDE DEF u
  <2>2. Usual(<<"QUOTA", "=", "RES-">>) \o u = w
    BY <1>1, ThreeWords
  <2>. QED  BY <2>1, <2>2
<1>. HIDE DEF m, u
<1>4. q \in Letters /\ q # <<>> /\ After("RES-", q) = u
  BY <1>1, CapabilityWords, PrefixOne, AfterOne
<1>. HIDE DEF q
<1>5. w \in Letters /\ Splits("QUOTA", w) /\ Argument(w) = q
  BY <1>4, WrittenSplit
<1>. HIDE DEF w
<1>6. AfterRes(w) = Lowered(u)
  BY <1>4, <1>5 DEF AfterRes
<1>7. Lowered(u) \in Letters /\ Folded(Lowered(u)) = Folded(u)
  BY <1>1, LoweredFacts
<1>8. Lowered(u) # <<>>
  <2>1. Len(Folded(Lowered(u))) = 1
    BY <1>1, <1>7, NotEmpty
  <2>. QED  BY <1>7, <2>1, AtomFacts
<1>9. Resource(Lowered(u)) = m
  <2>1. match(ResourceRead, "Other", u) = match(ResourceRead, "Other", Lowered(u))
    BY <1>1, <1>2, <1>7, MatchFolds
  <2>. QED  BY <1>1, <2>1 DEF Resource
<1>10. From("Capability", w) = c
  BY <1>5, <1>6, <1>8, <1>9, CapabilityIs DEF Resourceful, From
<1>. HIDE DEF c
<1>11. Rebuilt("Capability", c)
  BY <1>3, <1>5, <1>10 DEF Rebuilt
<1>. QED  BY <1>11 DEF c, m

\* The capability of compression.
LEMMA CompressRebuilt == Rebuilt("Capability", Value("Compress", <<>>))
<1>. DEFINE n == <<"COMPRESS", "=", "DEFLATE">>
            w == Usual(n)
            d == Usual(<<"DEFLATE">>)
            e == Usual(<<"COMPRESS", "=">>) \o d
            c == Value("Compress", <<>>)
<1>1. w \in Letters /\ Folded(w) = n
  <2>1. n \in Seq(Word)
    BY CapabilityWords
  <2>. HIDE DEF n
  <2>. QED  BY <2>1, UsualFacts
<1>2. d \in Letters /\ d # <<>> /\ Folded(d) = <<"DEFLATE">>
  <2>. DEFINE m == <<"DEFLATE">>
  <2>1. m \in Seq(Word) /\ Len(m) = 1
    BY CapabilityWords
  <2>. HIDE DEF m
  <2>2. Usual(m) \in Letters /\ Len(Usual(m)) = 1 /\ Folded(Usual(m)) = m
    BY <2>1, UsualFacts
  <2>3. Usual(m) = <<>> => Len(Usual(m)) = 0
    BY <2>2, AtomFacts
  <2>4. Usual(m) # <<>>
    BY <2>2, <2>3
  <2>. QED  BY <2>2, <2>4 DEF m
<1>3. Folded(e) = n
  BY DeflateWords
<1>4. Display("Capability", c) = w
  BY DEF Display, WrittenCapability, Value
<1>. HIDE DEF d
<1>5. e \in Letters /\ Splits("COMPRESS", e) /\ Argument(e) = d
  BY <1>2, WrittenSplit
<1>. HIDE DEF e, w
<1>6. Deflate(w)
  BY <1>1, <1>2, <1>3, <1>5, SplitFolds DEF Deflate
<1>7. From("Capability", w) = c
  BY <1>1, <1>6, CapabilityIs DEF From
<1>. HIDE DEF c
<1>8. Rebuilt("Capability", c)
  BY <1>1, <1>4, <1>7 DEF Rebuilt
<1>. QED  BY <1>8 DEF c

\* What is in a set of variants without an argument.
LEMMA PlainIs ==
  ASSUME NEW t, NEW names, NEW b \in Plain(t, names)
  PROVE  /\ \E v \in DOMAIN names : b = <<t, Value(v, <<>>)>>
         /\ b[1] = t /\ \E v \in DOMAIN names : b[2] = Value(v, <<>>)
         /\ b = <<b[1], b[2]>>
BY DEF Plain

\* What is in a set of variants with an argument.
LEMMA NestedIs ==
  ASSUME NEW t, NEW c, NEW names, NEW b \in Nested(t, c, names)
  PROVE  /\ \E v \in DOMAIN names : b = <<t, Value(c, <<Value(v, <<>>)>>)>>
         /\ b[1] = t /\ \E v \in DOMAIN names : b[2] = Value(c, <<Value(v, <<>>)>>)
         /\ b = <<b[1], b[2]>> /\ b[2].v = c
<1>1. PICK v \in DOMAIN names : b = <<t, Value(c, <<Value(v, <<>>)>>)>>
  BY DEF Nested
<1>2. b[1] = t /\ b[2] = Value(c, <<Value(v, <<>>)>>)
  BY <1>1
<1>3. b[2].v = c
  BY <1>2 DEF Value
<1>. QED  BY <1>1, <1>2, <1>3

\* A variant is a pair of a type and a value.
LEMMA VariantIsPair ==
  ASSUME NEW b \in Variants
  PROVE  b = <<b[1], b[2]>>
<1>1. CASE b \in Mechanisms
  BY <1>1, PlainIs DEF Mechanisms
<1>2. CASE b \in Capabilities
  BY <1>2, PlainIs, NestedIs DEF Capabilities
<1>3. CASE b \in Flags
  BY <1>3, PlainIs, NestedIs DEF Flags
<1>4. CASE b \in Algorithms
  BY <1>4, PlainIs DEF Algorithms
<1>. QED  BY <1>1, <1>2, <1>3, <1>4 DEF Variants

\* The variants that have a reader are written as atoms that are read as them.
LEMMA VariantsRebuilt ==
  ASSUME NEW b \in Variants \ Unread
  PROVE  b[1] \in NameTypes /\ Rebuilt(b[1], b[2]) /\ ~Fallback(b[2].v)
<1>. DEFINE Good == b[1] \in NameTypes /\ Rebuilt(b[1], b[2]) /\ ~Fallback(b[2].v)
<1>1. \A v, of : Value(v, of).v = v
  BY DEF Value
<1>2. \A v \in {"Auth", "Compress", "QuotaRes", "Sort", "Thread", "Flag", "Recent", "Asterisk"} : ~Fallback(v)
  BY DEF Fallback
<1>3. CASE b \in Mechanisms
  <2>1. PICK v \in DOMAIN MechanismWritten : b = <<"AuthMechanism", Value(v, <<>>)>>
    BY <1>3 DEF Mechanisms, Plain
  <2>2. ~Fallback(v)
    BY MechanismTable DEF Table, Fallback
  <2>. QED  BY <1>1, <2>1, <2>2, MechanismsRebuilt DEF NameTypes
<1>4. CASE b \in Algorithms
  <2>1. b[1] \in NameTypes
    BY <1>4 DEF Algorithms, Plain, NameTypes
  <2>2. ~Fallback(b[2].v)
    <3>1. \E v \in DOMAIN ResourceWritten \cup DOMAIN ThreadingWritten \cup DOMAIN SortWritten \cup DOMAIN EnableWritten :
            b[2] = Value(v, <<>>)
      BY <1>4 DEF Algorithms, Plain
    <3>. QED  BY <1>1, <3>1, ResourceTable, ThreadingTable, SortTable, EnableTable DEF Table, Fallback
  <2>. QED  BY <1>4, <2>1, <2>2, AlgorithmsRebuilt
<1>5. CASE b \in Flags
  <2>1. b[1] \in NameTypes
    <3>1. \/ b \in Plain("Flag", FlagWritten) \/ b \in Plain("AttributeFlag", FlagWritten)
          \/ b \in Plain("FlagNameAttribute", AttributeWritten)
          \/ b \in Nested("FlagFetch", "Flag", FlagWritten) \/ b \in Nested("FlagPerm", "Flag", FlagWritten)
          \/ b \in {<<"FlagFetch", Value("Recent", <<>>)>>, <<"FlagPerm", Value("Asterisk", <<>>)>>}
      BY <1>5 DEF Flags
    <3>2. b[1] \in {"Flag", "AttributeFlag", "FlagNameAttribute", "FlagFetch", "FlagPerm"}
      BY <3>1, PlainIs, NestedIs
    <3>. QED  BY <3>2 DEF NameTypes
  <2>2. ~Fallback(b[2].v)
    <3>1. \/ b \in Plain("Flag", FlagWritten) \/ b \in Plain("AttributeFlag", FlagWritten)
          \/ b \in Plain("FlagNameAttribute", AttributeWritten)
          \/ b \in Nested("FlagFetch", "Flag", FlagWritten) \/ b \in Nested("FlagPerm", "Flag", FlagWritten)
          \/ b \in {<<"FlagFetch", Value("Recent", <<>>)>>, <<"FlagPerm", Value("Asterisk", <<>>)>>}
      BY <1>5 DEF Flags
    <3>2. CASE \E v \in DOMAIN FlagWritten \cup DOMAIN AttributeWritten : b[2] = Value(v, <<>>)
      BY <1>1, <3>2, FlagTable, AttributeTable DEF Table, Fallback
    <3>3. CASE b \in Nested("FlagFetch", "Flag", FlagWritten) \/ b \in Nested("FlagPerm", "Flag", FlagWritten)
      <4>1. b[2].v = "Flag"
        BY <3>3, NestedIs
      <4>. QED  BY <1>2, <4>1
    <3>4. CASE b \in {<<"FlagFetch", Value("Recent", <<>>)>>, <<"FlagPerm", Value("Asterisk", <<>>)>>}
      BY <1>1, <1>2, <3>4
    <3>. QED  BY <3>1, <3>2, <3>3, <3>4, PlainIs
  <2>. QED  BY <1>5, <2>1, <2>2, FlagsRebuilt
<1>6. CASE b \in Capabilities
  <2>1. b[1] = "Capability"
    <3>1. \/ b \in Plain("Capability", CapabilityWritten) \/ b = <<"Capability", Value("Compress", <<>>)>>
          \/ b \in Nested("Capability", "Auth", MechanismWritten) \/ b \in Nested("Capability", "QuotaRes", ResourceWritten)
          \/ b \in Nested("Capability", "Sort", SortWritten) \/ b \in Nested("Capability", "Thread", ThreadingWritten)
      BY <1>6 DEF Capabilities
    <3>. QED  BY <3>1, PlainIs, NestedIs
  <2>2. CASE \E v \in DOMAIN CapabilityWritten : b = <<"Capability", Value(v, <<>>)>>
    <3>1. PICK v \in DOMAIN CapabilityWritten : b = <<"Capability", Value(v, <<>>)>>
      BY <2>2
    <3>2. v # "Namespace"
      BY <3>1 DEF Unread
    <3>3. v \in DOMAIN CapabilityRead
      BY <3>2, Arms
    <3>4. ~Fallback(v)
      BY CapabilityTable DEF Table, Fallback
    <3>. QED  BY <1>1, <3>1, <3>3, <3>4, NamesRebuilt DEF NameTypes
  <2>3. CASE b[2] = Value("Compress", <<>>)
    BY <1>1, <1>2, <2>1, <2>3, CompressRebuilt DEF NameTypes
  <2>4. CASE \E v \in DOMAIN MechanismWritten : b = <<"Capability", Value("Auth", <<Value(v, <<>>)>>)>>
    <3>1. PICK v \in DOMAIN MechanismWritten : b = <<"Capability", Value("Auth", <<Value(v, <<>>)>>)>>
      BY <2>4
    <3>2. v \notin {"ScramSha3_512", "ScramSha3_512Plus"}
      BY <3>1 DEF Unread, Sha3
    <3>3. v \in DOMAIN MechanismRead
      BY <3>2, Arms
    <3>. QED  BY <1>1, <1>2, <3>1, <3>3, ArgumentsRebuilt DEF NameTypes
  <2>5. CASE \E v \in DOMAIN ResourceWritten : b[2] = Value("QuotaRes", <<Value(v, <<>>)>>)
    BY <1>1, <1>2, <2>1, <2>5, Arms, QuotaRebuilt DEF NameTypes
  <2>6. CASE \E v \in DOMAIN SortWritten : b[2] = Value("Sort", <<Value(v, <<>>)>>)
    BY <1>1, <1>2, <2>1, <2>6, Arms, ArgumentsRebuilt DEF NameTypes
  <2>7. CASE \E v \in DOMAIN ThreadingWritten : b[2] = Value("Thread", <<Value(v, <<>>)>>)
    BY <1>1, <1>2, <2>1, <2>7, Arms, ArgumentsRebuilt DEF NameTypes
  <2>8. \/ b \in Plain("Capability", CapabilityWritten) \/ b = <<"Capability", Value("Compress", <<>>)>>
        \/ b \in Nested("Capability", "Auth", MechanismWritten) \/ b \in Nested("Capability", "QuotaRes", ResourceWritten)
        \/ b \in Nested("Capability", "Sort", SortWritten) \/ b \in Nested("Capability", "Thread", ThreadingWritten)
    BY <1>6 DEF Capabilities
  <2>. QED  BY <2>2, <2>3, <2>4, <2>5, <2>6, <2>7, <2>8, PlainIs, NestedIs
<1>. QED  BY <1>3, <1>4, <1>5, <1>6 DEF Variants

-----------------------------------------------------------------------------
(* The run of a library.                                                   *)

\* The value is built from a variant, or is read from an atom.
Sourced ==
  \/ heard = <<>> /\ <<atom_type, value>> \in Variants \ Unread
  \/ heard \in AtomsOf(atom_type) /\ value = From(atom_type, heard)

\* The inductive invariant: what is sent is written for the value, and what is
\* read is read from that.
NamesInv ==
  /\ atom_type = "None" => heard = <<>> /\ sent = <<>> /\ reading = NoValue
  /\ atom_type # "None" => atom_type \in NameTypes /\ Sourced
  /\ sent # <<>> => atom_type # "None" /\ sent = Display(atom_type, value)
  /\ reading # NoValue => sent # <<>> /\ reading = From(atom_type, sent)

\* The value is what is read from what is written for it, and that has the
\* words of the atom that was heard.
LEMMA SourcedKept ==
  ASSUME NamesInv, atom_type # "None"
  PROVE  /\ Display(atom_type, value) \in Letters
         /\ From(atom_type, Display(atom_type, value)) = value
         /\ heard # <<>> => /\ Folded(Display(atom_type, value)) = Folded(heard)
                            /\ heard \in Letters /\ value = From(atom_type, heard)
<1>1. atom_type \in NameTypes
  BY DEF NamesInv
<1>2. CASE heard = <<>> /\ <<atom_type, value>> \in Variants \ Unread
  BY <1>2, VariantsRebuilt DEF Rebuilt
<1>3. CASE heard \in AtomsOf(atom_type) /\ value = From(atom_type, heard)
  <2>1. heard \in Letters /\ Kept(atom_type, heard)
    BY <1>1, <1>3, AtomsKept
  <2>. QED  BY <1>3, <2>1 DEF Kept
<1>. QED  BY <1>2, <1>3 DEF NamesInv, Sourced

\* The invariant holds of every step.
LEMMA NamesInvStep ==
  ASSUME Sent \subseteq Variants \ Unread, NamesInv, [NamesNext]_name_vars
  PROVE  NamesInv'
<1>1. CASE Build
  <2>1. PICK b \in Sent : atom_type' = b[1] /\ value' = b[2]
    BY <1>1 DEF Build
  <2>2. atom_type = "None" /\ heard = <<>> /\ sent = <<>> /\ reading = NoValue
        /\ heard' = <<>> /\ sent' = <<>> /\ reading' = NoValue
    BY <1>1 DEF Build, NamesInv
  <2>3. b \in Variants \ Unread
    OBVIOUS
  <2>4. b = <<b[1], b[2]>>
    BY <2>3, VariantIsPair
  <2>5. b[1] \in NameTypes /\ b[1] # "None"
    BY <2>3, VariantsRebuilt DEF NameTypes
  <2>6. NoValue' = NoValue
    BY DEF NoValue, Value
  <2>. QED  BY <2>1, <2>2, <2>3, <2>4, <2>5, <2>6 DEF NamesInv, Sourced
<1>2. CASE Hear
  <2>1. PICK h \in Heard : atom_type' = h[1] /\ heard' = h[2] /\ value' = From(h[1], h[2])
    BY <1>2 DEF Hear
  <2>2. sent' = <<>> /\ reading' = NoValue
    BY <1>2 DEF Hear, NamesInv
  <2>3. h[1] \in NameTypes /\ h[2] \in AtomsOf(h[1]) /\ h[1] # "None"
    BY NamesAssumption DEF NameTypes
  <2>. QED  BY <2>1, <2>2, <2>3 DEF NamesInv, Sourced
<1>3. CASE Write
  <2>1. /\ atom_type # "None" /\ sent = <<>> /\ sent' = Display(atom_type, value)
        /\ atom_type' = atom_type /\ heard' = heard /\ value' = value /\ reading' = reading
    BY <1>3 DEF Write
  <2>2. reading = NoValue
    BY <2>1 DEF NamesInv
  <2>. QED  BY <2>1, <2>2 DEF NamesInv, Sourced
<1>4. CASE Read
  <2>1. /\ sent # <<>> /\ reading' = From(atom_type, sent)
        /\ atom_type' = atom_type /\ heard' = heard /\ value' = value /\ sent' = sent
    BY <1>4 DEF Read
  <2>. QED  BY <2>1 DEF NamesInv, Sourced
<1>5. CASE UNCHANGED name_vars
  BY <1>5 DEF name_vars, NamesInv, Sourced
<1>. QED  BY <1>1, <1>2, <1>3, <1>4, <1>5 DEF NamesNext

\* The invariant holds always, if the application builds no variant that has
\* no reader.
LEMMA NamesInvariant ==
  ASSUME Sent \subseteq Variants \ Unread
  PROVE  NamesSpec => []NamesInv
<1>1. NamesInit => NamesInv
  BY DEF NamesInit, NamesInv
<1>2. NamesInv /\ [NamesNext]_name_vars => NamesInv'
  BY NamesInvStep
<1>. QED  BY <1>1, <1>2, PTL DEF NamesSpec

\* Every variant that has a reader, and every atom that a peer may send, goes
\* through the writers (Display) and the readers (From<Atom>) unchanged but for
\* the case of letters.
THEOREM NamesStay ==
  ASSUME Sent \subseteq Variants \ Unread
  PROVE  NamesSpec => []NamesAreKept
<1>1. NamesInv => NamesAreKept
  BY SourcedKept DEF NamesInv, NamesAreKept
<1>. QED  BY <1>1, NamesInvariant, PTL

\* No atom that the readers (From<Atom>) keep under the fallback is written as
\* one of the other variants that have a reader.
THEOREM FallbackIsForUnknown ==
  ASSUME Sent \subseteq Variants \ Unread
  PROVE  NamesSpec => []OtherIsUnknown
<1>1. NamesInv => OtherIsUnknown
  <2>. SUFFICES ASSUME NamesInv, atom_type # "None", Fallback(value.v),
                       NEW b \in Sent, b[1] = atom_type, ~Fallback(b[2].v),
                       Folded(Display(atom_type, b[2])) = Folded(Display(atom_type, value))
                PROVE  FALSE
    BY DEF OtherIsUnknown
  <2>. DEFINE w == Display(atom_type, b[2])
              u == Display(atom_type, value)
  <2>1. w \in Letters /\ From(atom_type, w) = b[2]
    BY VariantsRebuilt DEF Rebuilt
  <2>2. u \in Letters /\ From(atom_type, u) = value
    BY SourcedKept
  <2>3. atom_type \in NameTypes /\ u # <<>>
    <3>1. heard # <<>> => heard \in AtomsOf(atom_type)
      BY DEF NamesInv, Sourced
    <3>2. heard # <<>>
      <4>1. SUFFICES ASSUME heard = <<>> PROVE FALSE
        OBVIOUS
      <4>2. heard \notin AtomsOf(atom_type)
        BY <4>1 DEF AtomsOf
      <4>3. <<atom_type, value>> \in Variants \ Unread
        BY <4>2 DEF NamesInv, Sourced
      <4>. QED  BY <4>3, VariantsRebuilt
    <3>3. heard \in Letters /\ Folded(u) = Folded(heard)
      BY <3>2, SourcedKept
    <3>4. Alike(u, heard)
      BY <2>2, <3>3, AlikeIsFolded
    <3>. QED  BY <2>2, <3>2, <3>3, <3>4, AtomFacts DEF NamesInv, Alike
  <2>. HIDE DEF w, u
  <2>4. Folded(u) = Folded(w)
    BY DEF w, u
  <2>5. From(atom_type, u).v = From(atom_type, w).v
    BY <2>1, <2>2, <2>3, <2>4, WordsDecide
  <2>. QED  BY <2>1, <2>2, <2>5
<1>. QED  BY <1>1, NamesInvariant, PTL

-----------------------------------------------------------------------------
(* Tags.                                                                    *)

\* Below the modulus, counting on does not wrap around.
LEMMA NoWrap ==
  ASSUME NEW w \in Nat, NEW n \in Nat, n < w
  PROVE  /\ (n + 1) % w \in 0..(w - 1)
         /\ n + 1 < w => (n + 1) % w = n + 1
  OBVIOUS

\* The initial state has its type and satisfies the inductive invariant.
LEMMA InitInv == TagInit => TagTypeOK /\ TagInv
  BY TagGeneratorAssumption
     DEF TagInit, TagTypeOK, TagInv, LivingGeneratorsAreDistinct, TagsAreUnique, NoGenerator, Tag

\* Every step keeps the type.
LEMMA NextType == TagTypeOK /\ [TagNext]_tag_vars => TagTypeOK'
<1> SUFFICES ASSUME TagTypeOK, [TagNext]_tag_vars PROVE TagTypeOK'
  OBVIOUS
<1> USE TagGeneratorAssumption DEF TagTypeOK
<1>1. ASSUME NEW t \in Threads, New(t) PROVE TagTypeOK'
  <2>1. GLOBAL_TAG_GENERATOR_COUNT' \in 0..(UsizeWidth - 1)
    BY <1>1, NoWrap DEF New
  <2>2. generator'[t] \in Generator /\ generator' \in [Threads -> Generator \cup {NoGenerator}]
    BY <1>1 DEF New, Generator
  <2>3. created' \in 0..MaxGenerators /\ issued' \in Seq(Tag)
    BY <1>1 DEF New
  <2>. QED BY <2>1, <2>2, <2>3
<1>2. ASSUME NEW t \in Threads, Generate(t) PROVE TagTypeOK'
  <2>1. generator[t] \in Generator
    BY <1>2 DEF Generate
  <2>2. (generator[t].counter + 1) % U64Width \in 0..(U64Width - 1)
    BY <2>1, NoWrap DEF Generator
  <2>3. generator' \in [Threads -> Generator \cup {NoGenerator}]
    BY <1>2, <2>1, <2>2 DEF Generate, Generator
  <2>4. issued' \in Seq(Tag)
    BY <1>2, <2>1 DEF Generate, Generator, Tag
  <2>. QED BY <1>2, <2>3, <2>4 DEF Generate
<1>3. ASSUME NEW t \in Threads, Drop(t) PROVE TagTypeOK'
  BY <1>3 DEF Drop
<1>4. CASE UNCHANGED tag_vars
  BY <1>4 DEF tag_vars
<1>. QED BY <1>1, <1>2, <1>3, <1>4 DEF TagNext

\* Every step keeps the inductive invariant.
LEMMA NextInv == TagTypeOK /\ TagInv /\ [TagNext]_tag_vars => TagInv'
<1> SUFFICES ASSUME TagTypeOK, TagInv, [TagNext]_tag_vars PROVE TagInv'
  OBVIOUS
<1> USE TagGeneratorAssumption DEF TagTypeOK, TagInv
<1>1. ASSUME NEW t \in Threads, New(t) PROVE TagInv'
  <2>1. created < UsizeWidth /\ GLOBAL_TAG_GENERATOR_COUNT = created
    BY <1>1 DEF New
  <2>2. created' < UsizeWidth => GLOBAL_TAG_GENERATOR_COUNT' = created'
    <3>1. /\ created' = created + 1
          /\ GLOBAL_TAG_GENERATOR_COUNT' = (created + 1) % UsizeWidth
      BY <1>1, <2>1 DEF New
    <3>2. UsizeWidth \in Nat /\ created \in Nat
      OBVIOUS
    <3>. HIDE TagGeneratorAssumption DEF TagTypeOK, TagInv
    <3>3. created + 1 < UsizeWidth => (created + 1) % UsizeWidth = created + 1
      BY <3>2, NoWrap
    <3>. QED  BY <3>1, <3>3
  <2>3. \A i \in DOMAIN issued' : issued'[i].global < created'
    <3>1. \A i \in DOMAIN issued : issued[i] \in Tag
      OBVIOUS
    <3>. QED BY <1>1, <3>1 DEF New, Tag
  <2>4. LivingGeneratorsAreDistinct'
    <3> SUFFICES ASSUME NEW s \in Threads, generator'[s] # NoGenerator
                 PROVE  /\ generator'[s].global < created'
                        /\ \A r \in Threads \ {s} : generator'[r].global # generator'[s].global
                        /\ generator'[s].calls < U64Width
                             => generator'[s].counter = generator'[s].calls
                        /\ \A i \in DOMAIN issued' :
                             issued'[i].global = generator'[s].global
                               => issued'[i].counter < generator'[s].calls
      BY DEF LivingGeneratorsAreDistinct
    <3>1. generator'[t].global = created /\ generator'[t].calls = 0
            /\ generator'[t].counter = 0
      BY <1>1, <2>1 DEF New
    <3>2. \A r \in Threads \ {t} : generator'[r] = generator[r]
      BY <1>1 DEF New
    <3>3. \A r \in Threads \ {t} : generator[r].global < created
      BY DEF LivingGeneratorsAreDistinct, NoGenerator
    <3>4. CASE s = t
      BY <1>1, <3>1, <3>2, <3>3, <3>4 DEF New
    <3>5. CASE s # t
      <4>1. generator[s] \in Generator /\ generator'[s] = generator[s]
        BY <3>2, <3>5
      <4>. QED BY <1>1, <3>1, <3>2, <3>3, <3>5, <4>1
               DEF New, Generator, LivingGeneratorsAreDistinct
    <3>. QED BY <3>4, <3>5
  <2>5. TagsAreUnique'
    BY <1>1 DEF New, TagsAreUnique
  <2>. QED BY <2>2, <2>3, <2>4, <2>5
<1>2. ASSUME NEW t \in Threads, Generate(t) PROVE TagInv'
  <2> DEFINE g == generator[t]
             tag == [global |-> g.global, counter |-> g.counter]
  <2>1. g \in Generator /\ g # NoGenerator /\ g.calls < MaxTags /\ g.calls < U64Width
    BY <1>2 DEF Generate, Generator
  <2>2. g.counter = g.calls /\ g.global < created
    BY <2>1 DEF LivingGeneratorsAreDistinct
  <2>3. issued' = Append(issued, tag) /\ tag \in Tag
    BY <1>2, <2>1 DEF Generate, Generator, Tag
  <2>4. /\ DOMAIN issued' = 1..(Len(issued) + 1)
        /\ issued'[Len(issued) + 1] = tag
        /\ \A i \in DOMAIN issued : issued'[i] = issued[i]
    BY <2>3
  <2>5. \A i \in DOMAIN issued : issued[i] # tag
    <3> SUFFICES ASSUME NEW i \in DOMAIN issued, issued[i] = tag PROVE FALSE
      OBVIOUS
    <3>1. issued[i].counter < g.calls
      BY <2>1 DEF LivingGeneratorsAreDistinct
    <3>. QED BY <2>1, <2>2, <3>1 DEF Generator
  <2>6. TagsAreUnique'
    BY <2>4, <2>5 DEF TagsAreUnique
  <2>7. \A i \in DOMAIN issued' : issued'[i].global < created'
    BY <1>2, <2>2, <2>4 DEF Generate
  <2>8. /\ generator'[t].global = g.global
        /\ generator'[t].calls = g.calls + 1
        /\ generator'[t].counter = (g.counter + 1) % U64Width
        /\ \A s \in Threads \ {t} : generator'[s] = generator[s]
    BY <1>2, <2>1 DEF Generate, Generator
  <2>9. LivingGeneratorsAreDistinct'
    <3> HIDE DEF g, tag
    <3> SUFFICES ASSUME NEW s \in Threads, generator'[s] # NoGenerator
                 PROVE  /\ generator'[s].global < created'
                        /\ \A r \in Threads \ {s} : generator'[r].global # generator'[s].global
                        /\ generator'[s].calls < U64Width
                             => generator'[s].counter = generator'[s].calls
                        /\ \A i \in DOMAIN issued' :
                             issued'[i].global = generator'[s].global
                               => issued'[i].counter < generator'[s].calls
      BY DEF LivingGeneratorsAreDistinct
    <3>0. created' = created /\ tag.global = g.global /\ tag.counter = g.counter
            /\ generator[t] = g
      BY <1>2 DEF Generate, g, tag
    <3>1. \A r \in Threads : generator'[r].global = generator[r].global
      BY <2>8, <3>0
    <3>2. CASE s = t
      <4>1. generator'[s].global < created'
              /\ \A r \in Threads \ {s} : generator'[r].global # generator'[s].global
        BY <2>1, <2>2, <3>0, <3>1, <3>2 DEF LivingGeneratorsAreDistinct
      <4>2. generator'[s].calls < U64Width => generator'[s].counter = generator'[s].calls
        BY <2>1, <2>2, <2>8, <3>2, NoWrap DEF Generator
      <4>3. \A i \in DOMAIN issued : issued[i].global = g.global => issued[i].counter < g.calls
        BY <2>1, <3>0 DEF LivingGeneratorsAreDistinct
      <4>4. \A i \in DOMAIN issued : issued[i].counter \in Nat
        <5>1. \A i \in DOMAIN issued : issued[i] \in Tag
          BY DEF TagTypeOK
        <5>. QED BY <5>1 DEF Tag
      <4>5. generator'[s].calls = g.calls + 1 /\ generator'[s].global = g.global /\ g.calls \in Nat
        BY <2>1, <2>8, <3>2 DEF Generator
      <4>6. ASSUME NEW i \in DOMAIN issued', issued'[i].global = g.global
            PROVE  issued'[i].counter < g.calls + 1
        <5>1. CASE i \in DOMAIN issued
          BY <5>1, <2>4, <4>3, <4>4, <4>5, <4>6
        <5>2. CASE i = Len(issued) + 1
          BY <5>2, <2>2, <2>4, <3>0, <4>5
        <5>. QED BY <5>1, <5>2, <2>4
      <4>. QED BY <4>1, <4>2, <4>5, <4>6
    <3>3. CASE s # t
      <4>1. generator[s] # NoGenerator /\ generator'[s] = generator[s]
        BY <2>8, <3>3
      <4>2. g.global # generator[s].global
        BY <3>0, <3>3, <4>1 DEF LivingGeneratorsAreDistinct
      <4>. QED BY <2>4, <3>0, <3>1, <4>1, <4>2 DEF LivingGeneratorsAreDistinct
    <3>. QED BY <3>2, <3>3
  <2>. QED BY <1>2, <2>6, <2>7, <2>9 DEF Generate
<1>3. ASSUME NEW t \in Threads, Drop(t) PROVE TagInv'
  <2>1. \A i \in DOMAIN issued : issued[i] \in Tag
    OBVIOUS
  <2>2. generator'[t] = NoGenerator /\ \A s \in Threads \ {t} : generator'[s] = generator[s]
    BY <1>3 DEF Drop
  <2>3. LivingGeneratorsAreDistinct'
    BY <1>3, <2>2 DEF Drop, LivingGeneratorsAreDistinct, NoGenerator, Generator
  <2>. QED BY <1>3, <2>3 DEF Drop, TagsAreUnique
<1>4. CASE UNCHANGED tag_vars
  BY <1>4 DEF tag_vars, LivingGeneratorsAreDistinct, TagsAreUnique
<1>. QED BY <1>1, <1>2, <1>3, <1>4 DEF TagNext

\* core.rs, generate: "is guaranteed to be unique", for any number of threads
\* that create, use and drop generators.
THEOREM UniqueTags == TagSpec => []TagsAreUnique
<1>1. TagInit => TagTypeOK /\ TagInv
  BY InitInv
<1>2. TagTypeOK /\ TagInv /\ [TagNext]_tag_vars => (TagTypeOK /\ TagInv)'
  BY NextType, NextInv
<1>3. TagTypeOK /\ TagInv => TagsAreUnique
  BY DEF TagInv
<1>. QED BY <1>1, <1>2, <1>3, PTL DEF TagSpec
=============================================================================
