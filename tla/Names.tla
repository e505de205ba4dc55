--------------------------------- MODULE Names ---------------------------------
(***************************************************************************)
(* Enumerations that are atoms on the wire: authentication mechanisms,     *)
(* capabilities, flags and the names of algorithms and resources.  Each is *)
(* read by a From<Atom>, with a fallback that keeps the atom, and written  *)
(* by a Display; the two are tables of their own, kept in step by hand.    *)
(*                                                                         *)
(* An application builds a value from a variant, or a peer's atom is read; *)
(* the value is written, and read again.                                   *)
(***************************************************************************)
EXTENDS SequencesExt, Integers

CONSTANTS
  Sent,  \* <<type, value>>: the values that an application builds
  Heard  \* <<type, atom>>: the atoms that peers send, a flag with its backslash

\* An atom is a sequence of words with a spelling; the library writes "usual".
\* A word is a part that the readers look for, or something without such a part.
Spelled(name, s) == [i \in DOMAIN name |-> [w |-> name[i], s |-> s]]
Usual(name) == Spelled(name, "usual")
Folded(atom) == [i \in DOMAIN atom |-> atom[i].w]
Lowered(atom) == Spelled(Folded(atom), "lower")

Value(v, of) == [v |-> v, of |-> of]

-----------------------------------------------------------------------------
(* What Display writes for each variant, and the arms of From<Atom>.       *)

MechanismWritten ==
  [Plain |-> <<"PLAIN">>, Login |-> <<"LOGIN">>, OAuthBearer |-> <<"OAUTHBEARER">>, XOAuth2 |-> <<"XOAUTH2">>,
   ScramSha1 |-> <<"SCRAM-SHA-1">>, ScramSha1Plus |-> <<"SCRAM-SHA-1-PLUS">>,
   ScramSha256 |-> <<"SCRAM-SHA-256">>, ScramSha256Plus |-> <<"SCRAM-SHA-256-PLUS">>,
   ScramSha3_512 |-> <<"SCRAM-SHA3-512">>, ScramSha3_512Plus |-> <<"SCRAM-SHA3-512-PLUS">>]
MechanismRead ==
  [Plain |-> <<"PLAIN">>, Login |-> <<"LOGIN">>, OAuthBearer |-> <<"OAUTHBEARER">>, XOAuth2 |-> <<"XOAUTH2">>,
   ScramSha1 |-> <<"SCRAM-SHA-1">>, ScramSha1Plus |-> <<"SCRAM-SHA-1-PLUS">>,
   ScramSha256 |-> <<"SCRAM-SHA-256">>, ScramSha256Plus |-> <<"SCRAM-SHA-256-PLUS">>]

ResourceWritten ==
  [Storage |-> <<"STORAGE">>, Message |-> <<"MESSAGE">>, Mailbox |-> <<"MAILBOX">>,
   AnnotationStorage |-> <<"ANNOTATION-STORAGE">>]
ResourceRead ==
  [Storage |-> <<"STORAGE">>, Message |-> <<"MESSAGE">>, Mailbox |-> <<"MAILBOX">>,
   AnnotationStorage |-> <<"ANNOTATION-STORAGE">>]

ThreadingWritten == [OrderedSubject |-> <<"ORDEREDSUBJECT">>, References |-> <<"REFERENCES">>]
ThreadingRead == [OrderedSubject |-> <<"ORDEREDSUBJECT">>, References |-> <<"REFERENCES">>]

SortWritten == [Display |-> <<"DISPLAY">>]
SortRead == [Display |-> <<"DISPLAY">>]

EnableWritten == [CondStore |-> <<"CONDSTORE">>, Metadata |-> <<"METADATA">>, MetadataServer |-> <<"METADATA-SERVER">>]
EnableRead == [CondStore |-> <<"CONDSTORE">>, Metadata |-> <<"METADATA">>, MetadataServer |-> <<"METADATA-SERVER">>]

AttributeWritten ==
  [Noinferiors |-> <<"NOINFERIORS">>, Noselect |-> <<"NOSELECT">>, Marked |-> <<"MARKED">>, Unmarked |-> <<"UNMARKED">>]
AttributeRead ==
  [Noinferiors |-> <<"NOINFERIORS">>, Noselect |-> <<"NOSELECT">>, Marked |-> <<"MARKED">>, Unmarked |-> <<"UNMARKED">>]

FlagWritten ==
  [Answered |-> <<"ANSWERED">>, Deleted |-> <<"DELETED">>, Draft |-> <<"DRAFT">>, Flagged |-> <<"FLAGGED">>, Seen |-> <<"SEEN">>]
FlagRead ==
  [Answered |-> <<"ANSWERED">>, Deleted |-> <<"DELETED">>, Draft |-> <<"DRAFT">>, Flagged |-> <<"FLAGGED">>, Seen |-> <<"SEEN">>]

CapabilityWritten ==
  [Imap4Rev1 |-> <<"IMAP4REV1">>, LoginDisabled |-> <<"LOGINDISABLED">>, StartTls |-> <<"STARTTLS">>,
   MailboxReferrals |-> <<"MAILBOX-REFERRALS">>, LoginReferrals |-> <<"LOGIN-REFERRALS">>, SaslIr |-> <<"SASL-IR">>,
   Idle |-> <<"IDLE">>, Enable |-> <<"ENABLE">>, Quota |-> <<"QUOTA">>, QuotaSet |-> <<"QUOTASET">>,
   LiteralPlus |-> <<"LITERAL", "+">>, LiteralMinus |-> <<"LITERAL", "-">>, Move |-> <<"MOVE">>, Id |-> <<"ID">>,
   Unselect |-> <<"UNSELECT">>, Sort |-> <<"SORT">>, Metadata |-> <<"METADATA">>, MetadataServer |-> <<"METADATA-SERVER">>,
   Binary |-> <<"BINARY">>, UidPlus |-> <<"UIDPLUS">>, ListExtended |-> <<"LIST-EXTENDED">>, CondStore |-> <<"CONDSTORE">>,
   QResync |-> <<"QRESYNC">>, Namespace |-> <<"NAMESPACE">>, StatusSize |-> <<"STATUS", "=", "SIZE">>, Within |-> <<"WITHIN">>]
CapabilityRead ==
  [Imap4Rev1 |-> <<"IMAP4REV1">>, LoginDisabled |-> <<"LOGINDISABLED">>, StartTls |-> <<"STARTTLS">>, Idle |-> <<"IDLE">>,
   MailboxReferrals |-> <<"MAILBOX-REFERRALS">>, LoginReferrals |-> <<"LOGIN-REFERRALS">>, SaslIr |-> <<"SASL-IR">>,
   Enable |-> <<"ENABLE">>, Quota |-> <<"QUOTA">>, QuotaSet |-> <<"QUOTASET">>, LiteralPlus |-> <<"LITERAL", "+">>,
   LiteralMinus |-> <<"LITERAL", "-">>, Move |-> <<"MOVE">>, Id |-> <<"ID">>, Sort |-> <<"SORT">>, Metadata |-> <<"METADATA">>,
   MetadataServer |-> <<"METADATA-SERVER">>, Binary |-> <<"BINARY">>, ListExtended |-> <<"LIST-EXTENDED">>,
   Unselect |-> <<"UNSELECT">>, CondStore |-> <<"CONDSTORE">>, QResync |-> <<"QRESYNC">>,
   StatusSize |-> <<"STATUS", "=", "SIZE">>, UidPlus |-> <<"UIDPLUS">>, Within |-> <<"WITHIN">>]

-----------------------------------------------------------------------------
(* Reading.                                                                *)

\* Mutant: names are compared as they are spelled.
match_exact(arms, fallback, atom) ==
  LET hits == {v \in DOMAIN arms : Usual(arms[v]) = atom}
  IN  IF hits = {} THEN Value(fallback, atom) ELSE Value(CHOOSE v \in hits : TRUE, <<>>)

match(arms, fallback, atom) ==
  LET hits == {v \in DOMAIN arms : arms[v] = Folded(atom)}
  IN  IF hits = {} THEN Value(fallback, atom) ELSE Value(CHOOSE v \in hits : TRUE, <<>>)

AuthMechanism(atom) == match(MechanismRead, "Other", atom)
Resource(atom) == match(ResourceRead, "Other", atom)
ThreadingAlgorithm(atom) == match(ThreadingRead, "Other", atom)
SortAlgorithm(atom) == match(SortRead, "Other", atom)
CapabilityEnable(atom) == match(EnableRead, "Other", atom)
FlagNameAttribute(atom) == match(AttributeRead, "Extension", Tail(atom))

\* A flag, after one backslash, or two within the quotes of an entry name.
FlagAfter(backslash, atom) ==
  IF atom[1].w = backslash THEN match(FlagRead, "Extension", Tail(atom)) ELSE Value("Keyword", atom)
Flag(atom) == FlagAfter("\\", atom)
AttributeFlag(atom) == FlagAfter("\\\\", atom)
FlagFetch(atom) == IF Folded(atom) = <<"\\", "RECENT">> THEN Value("Recent", <<>>) ELSE Value("Flag", <<Flag(atom)>>)
FlagPerm(atom) == IF Folded(atom) = <<"\\", "*">> THEN Value("Asterisk", <<>>) ELSE Value("Flag", <<Flag(atom)>>)

\* Mutant: an atom is split at the last occurrence of a word.
AfterLast(word, atom) ==
  LET i == SelectLastInSeq(atom, LAMBDA x : x.w = word)
  IN  IF i = 0 THEN <<>> ELSE SubSeq(atom, i + 1, Len(atom))

\* What follows the first occurrence of a word, if it occurs.
After(word, atom) ==
  LET i == SelectInSeq(atom, LAMBDA x : x.w = word)
  IN  IF i = 0 THEN <<>> ELSE SubSeq(atom, i + 1, Len(atom))
StartsWith(name, atom) == Len(name) <= Len(atom) /\ Folded(SubSeq(atom, 1, Len(name))) = name

\* Mutant: the argument of SORT is forgotten.
Capability_without_sort(atom) ==
  IF StartsWith(<<"SORT">>, atom) THEN Value("Sort", <<>>) ELSE match(CapabilityRead, "Other", atom)

Capability(atom) ==
  LET known == match(CapabilityRead, "Other", atom)
      right == After("=", atom)
      resource == Lowered(After("RES-", right))
      Is(word) == known.v = "Other" /\ right # <<>> /\ StartsWith(<<word, "=">>, atom)
  IN  CASE Is("AUTH") -> Value("Auth", <<AuthMechanism(right)>>)
        [] Is("COMPRESS") /\ Folded(right) = <<"DEFLATE">> -> Value("Compress", <<>>)
        [] Is("QUOTA") /\ resource # <<>> -> Value("QuotaRes", <<Resource(resource)>>)
        [] Is("SORT") -> Value("Sort", <<SortAlgorithm(right)>>)
        [] Is("THREAD") -> Value("Thread", <<ThreadingAlgorithm(right)>>)
        [] OTHER -> known

From(t, atom) ==
  CASE t = "AuthMechanism" -> AuthMechanism(atom)
    [] t = "Resource" -> Resource(atom)
    [] t = "ThreadingAlgorithm" -> ThreadingAlgorithm(atom)
    [] t = "SortAlgorithm" -> SortAlgorithm(atom)
    [] t = "CapabilityEnable" -> CapabilityEnable(atom)
    [] t = "FlagNameAttribute" -> FlagNameAttribute(atom)
    [] t = "Flag" -> Flag(atom)
    [] t = "AttributeFlag" -> AttributeFlag(atom)
    [] t = "FlagFetch" -> FlagFetch(atom)
    [] t = "FlagPerm" -> FlagPerm(atom)
    [] t = "Capability" -> Capability(atom)

-----------------------------------------------------------------------------
(* Writing.                                                                *)

Written(names, value) == IF value.v \in DOMAIN names THEN Usual(names[value.v]) ELSE value.of
Backslashed(backslash, names, value) ==
  IF value.v = "Keyword" THEN value.of ELSE Usual(<<backslash>>) \o Written(names, value)
WrittenFlag(value) == Backslashed("\\", FlagWritten, value)

WrittenCapability(value) ==
  CASE value.v = "Auth" -> Usual(<<"AUTH", "=">>) \o Written(MechanismWritten, value.of[1])
    [] value.v = "Compress" -> Usual(<<"COMPRESS", "=", "DEFLATE">>)
    [] value.v = "QuotaRes" -> Usual(<<"QUOTA", "=", "RES-">>) \o Written(ResourceWritten, value.of[1])
    [] value.v = "Sort" /\ value.of # <<>> -> Usual(<<"SORT", "=">>) \o Written(SortWritten, value.of[1])
    [] value.v = "Thread" -> Usual(<<"THREAD", "=">>) \o Written(ThreadingWritten, value.of[1])
    [] OTHER -> Written(CapabilityWritten, value)

Display(t, value) ==
  CASE t = "AuthMechanism" -> Written(MechanismWritten, value)
    [] t = "Resource" -> Written(ResourceWritten, value)
    [] t = "ThreadingAlgorithm" -> Written(ThreadingWritten, value)
    [] t = "SortAlgorithm" -> Written(SortWritten, value)
    [] t = "CapabilityEnable" -> Written(EnableWritten, value)
    [] t = "FlagNameAttribute" -> Backslashed("\\", AttributeWritten, value)
    [] t = "Flag" -> WrittenFlag(value)
    [] t = "AttributeFlag" -> Backslashed("\\\\", FlagWritten, value)
    [] t = "FlagFetch" -> IF value.v = "Recent" THEN Usual(<<"\\", "RECENT">>) ELSE WrittenFlag(value.of[1])
    [] t = "FlagPerm" -> IF value.v = "Asterisk" THEN Usual(<<"\\", "*">>) ELSE WrittenFlag(value.of[1])
    [] t = "Capability" -> WrittenCapability(value)

-----------------------------------------------------------------------------
(* What goes through the readers and writers.                              *)

Plain(t, names) == {<<t, Value(v, <<>>)>> : v \in DOMAIN names}
Nested(t, v, names) == {<<t, Value(v, <<Value(w, <<>>)>>)>> : w \in DOMAIN names}

\* The variants of each type.
Mechanisms == Plain("AuthMechanism", MechanismWritten)
Capabilities ==
  Plain("Capability", CapabilityWritten) \cup {<<"Capability", Value("Compress", <<>>)>>}
    \cup Nested("Capability", "Auth", MechanismWritten) \cup Nested("Capability", "QuotaRes", ResourceWritten)
    \cup Nested("Capability", "Sort", SortWritten) \cup Nested("Capability", "Thread", ThreadingWritten)
Flags ==
  Plain("Flag", FlagWritten) \cup Plain("AttributeFlag", FlagWritten) \cup Plain("FlagNameAttribute", AttributeWritten)
    \cup Nested("FlagFetch", "Flag", FlagWritten) \cup Nested("FlagPerm", "Flag", FlagWritten)
    \cup {<<"FlagFetch", Value("Recent", <<>>)>>, <<"FlagPerm", Value("Asterisk", <<>>)>>}
Algorithms ==
  Plain("Resource", ResourceWritten) \cup Plain("ThreadingAlgorithm", ThreadingWritten)
    \cup Plain("SortAlgorithm", SortWritten) \cup Plain("CapabilityEnable", EnableWritten)
Variants == Mechanisms \cup Capabilities \cup Flags \cup Algorithms

\* The variants that From<Atom> lacks.
Sha3 == {Value("ScramSha3_512", <<>>), Value("ScramSha3_512Plus", <<>>)}
Unread ==
  {<<"AuthMechanism", m>> : m \in Sha3} \cup {<<"Capability", Value("Auth", <<m>>)>> : m \in Sha3}
    \cup {<<"Capability", Value("Namespace", <<>>)>>}

\* The atoms that peers may send as a value of each type.  The reader of
\* attributes is called behind a backslash.  Not considered are atoms like
\* QUOTA=XRES-STORAGE, which is read as QUOTA=RES-STORAGE.
Atoms == Seq([w : STRING, s : STRING])
AtomsOf(t) ==
  {a \in Atoms :
     /\ a # <<>>
     /\ t = "FlagNameAttribute" => a[1].w = "\\"
     /\ t = "Capability" /\ StartsWith(<<"QUOTA", "=">>, a) => \A i \in DOMAIN a : a[i].w = "RES-" => i = 3}

NameTypes ==
  {"AuthMechanism", "Resource", "ThreadingAlgorithm", "SortAlgorithm", "CapabilityEnable", "FlagNameAttribute",
   "Flag", "AttributeFlag", "FlagFetch", "FlagPerm", "Capability"}

ASSUME NamesAssumption ==
  /\ Sent \subseteq Variants
  /\ \A h \in Heard : h[1] \in NameTypes /\ h[2] \in AtomsOf(h[1])

-----------------------------------------------------------------------------
VARIABLES
  atom_type,    \* the type of the value
  heard,   \* the atom that it was read from, if it was
  value,   \* the value
  sent,    \* the atom that is written for it
  reading  \* the value that is read from that atom

name_vars == <<atom_type, heard, value, sent, reading>>

NoValue == Value("None", <<>>)

Build ==
  /\ atom_type = "None"
  /\ \E b \in Sent : atom_type' = b[1] /\ value' = b[2]
  /\ UNCHANGED <<heard, sent, reading>>

Hear ==
  /\ atom_type = "None"
  /\ \E h \in Heard : atom_type' = h[1] /\ heard' = h[2] /\ value' = From(h[1], h[2])
  /\ UNCHANGED <<sent, reading>>

Write ==
  /\ atom_type # "None" /\ sent = <<>>
  /\ sent' = Display(atom_type, value)
  /\ UNCHANGED <<atom_type, heard, value, reading>>

Read ==
  /\ sent # <<>> /\ reading = NoValue
  /\ reading' = From(atom_type, sent)
  /\ UNCHANGED <<atom_type, heard, value, sent>>

NamesInit == atom_type = "None" /\ heard = <<>> /\ value = NoValue /\ sent = <<>> /\ reading = NoValue
NamesNext == Build \/ Hear \/ Write \/ Read
NamesSpec == NamesInit /\ [][NamesNext]_name_vars

-----------------------------------------------------------------------------
(* Properties.                                                             *)

Fallback(v) == v \in {"Other", "Extension"}

\* "It's guaranteed that this type can't represent any mechanism from
\* AuthMechanism" (auth.rs:199), and the same of the other fallbacks
\* (response.rs:1293, flag.rs:47, quota.rs:186, enable.rs:99): a value of the fallback is
\* written as no value that has a variant of its own.
OtherIsUnknown ==
  atom_type # "None" /\ Fallback(value.v) =>
    \A b \in Sent : b[1] = atom_type /\ ~Fallback(b[2].v) => Folded(Display(atom_type, b[2])) # Folded(Display(atom_type, value))

\* Whatever is written for a value, built or read, is read as that value: what
\* goes through a library on both ends arrives as what it was.  A proxy that
\* decodes a name and encodes it passes the name on, whether it knows it or
\* not; only the spelling may change, and only in case.
NamesAreKept ==
  /\ reading # NoValue => reading = value
  /\ heard # <<>> /\ sent # <<>> => Folded(sent) = Folded(heard)
=============================================================================
