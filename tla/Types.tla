--------------------------------- MODULE Types ---------------------------------
(***************************************************************************)
(* The types of imap-types as a schema of the trees that the decoders      *)
(* yield and the encoders take: the variants of each type with their       *)
(* fields, under the names they have there, except that uid: bool is a     *)
(* node "UID" around the command and a flattened pair is two fields.       *)
(*                                                                         *)
(* The parsers build most values with unvalidated: that what they build is *)
(* of its type is a property of the grammar, which Rust does not check.    *)
(***************************************************************************)
EXTENDS Validation

Variant(n, fields) == [n |-> n, fields |-> fields]
Unit(names) == {Variant(n, <<>>) : n \in names}
With(names, fields) == {Variant(n, fields) : n \in names}

\* A field is a group of types that stands there at least min times.
Field(types, min, many) == [types |-> types, min |-> min, many |-> many]
Just(type) == Field(<<type>>, 1, FALSE)
Option(type) == Field(<<type>>, 0, FALSE)
Vec(type) == Field(<<type>>, 0, TRUE)
Vec1(type) == Field(<<type>>, 1, TRUE)
Vec2(type) == Field(<<type>>, 2, TRUE)
ListOfType(fields) == {Variant("List", fields)}
MaybeOfType(type) == {Variant("Maybe", <<Vec(type)>>)}

-----------------------------------------------------------------------------
(* Types that are one word: the nodes that are a value of them.            *)

IStrings == {"Quoted", "Literal", "Literal+"}
Literals8 == {"Literal8", "Literal8+"}
Words ==
  [Tag |-> {"Tag"}, Text |-> {"Text"}, Atom |-> {"Atom"},
   IString |-> IStrings, NString |-> IStrings \cup {"NIL"}, AString |-> IStrings \cup {"AtomExt"},
   NString8 |-> IStrings \cup Literals8 \cup {"NIL"},
   LiteralOrLiteral8 |-> Literals8 \cup {"Literal", "Literal+"},
   Mailbox |-> IStrings \cup {"AtomExt", "INBOX"}, ListMailbox |-> IStrings \cup {"Token"},
   Charset |-> {"Atom", "Quoted"}, Flag |-> {"Flag"}, FlagPerm |-> {"Flag"}, FlagNameAttribute |-> {"Flag"},
   OptionQuotedChar |-> {"QuotedChar", "NIL"}, CodeOther |-> {"Other"}, Bytes |-> {"Base64", "Challenge"},
   u32 |-> {"Number"}, NonZeroU32 |-> {"Number"}, u64 |-> {"Number"}, NonZeroU64 |-> {"Number"},
   Sequence |-> {"Single", "Range"}, UidElement |-> {"Single", "Range"}, Part |-> {"Part"}, Partial |-> {"Partial"},
   NaiveDate |-> {"Date"}, DateTime |-> {"DateTime"}, StoreType |-> {"Kind"}, AttributeFlag |-> {"EntryName"}]

ValidWord(type, node) ==
  CASE node.n = "Atom" -> ValidAtom(node.t)
    [] node.n = "AtomExt" -> ValidAtomExt(node.t) /\ (type = "Mailbox" => ValidMailboxOther(node.t))
    [] node.n = "Token" -> ValidListChars(node.t)
    [] node.n = "Quoted" -> ValidQuoted(node.t) /\ (type = "Mailbox" => ValidMailboxOther(node.t))
    [] node.n \in {"Literal", "Literal+"} ->
         ValidLiteral(node.t) /\ (type = "Mailbox" => ValidMailboxOther(node.t))
    [] node.n = "QuotedChar" -> ValidQuotedChar(node.t)
    [] node.n = "Tag" -> ValidTag(node.t)
    [] node.n = "Text" -> ValidText(node.t)
    [] node.n = "Flag" -> ValidFlag(node.t) \/ (type = "FlagPerm" /\ node.t = <<"\\", "*">>)
    [] node.n = "Number" -> ValidNumber(type, node.t)
    [] node.n \in {"Single", "Range", "Part"} ->
         /\ "0" \notin ToSet(node.t)
         /\ type = "UidElement" => "*" \notin ToSet(node.t)
    [] OTHER -> TRUE

-----------------------------------------------------------------------------
(* command.rs                                                              *)

StateCommands == Unit({"CAPABILITY", "NOOP", "LOGOUT", "STARTTLS"})
LoginCommands ==
  With({"LOGIN"}, <<Just("AString"), Just("AString")>>) \cup With({"AUTHENTICATE"}, <<Just("Atom"), Option("Bytes")>>)
SelectCommands == Unit({"UNSELECT"}) \cup With({"SELECT", "EXAMINE"}, <<Just("Mailbox"), Just("SelectParameters")>>)
CreateCommands == With({"CREATE", "DELETE"}, <<Just("Mailbox")>>)
RenameCommands ==
  With({"RENAME"}, <<Just("Mailbox"), Just("Mailbox")>>) \cup With({"SUBSCRIBE", "UNSUBSCRIBE"}, <<Just("Mailbox")>>)
ListCommands == With({"LIST"}, <<Just("Mailbox"), Just("ListMailbox")>>)
StatusCommands ==
  With({"LSUB"}, <<Just("Mailbox"), Just("ListMailbox")>>)
    \cup With({"STATUS"}, <<Just("Mailbox"), Just("StatusDataItemNames")>>)
AppendCommands ==
  With({"APPEND"}, <<Just("Mailbox"), Just("AppendFlags"), Option("DateTime"), Just("LiteralOrLiteral8")>>)
ExpungeCommands == Unit({"CHECK", "CLOSE", "EXPUNGE"})
ExpungeUid == With({"EXPUNGE"}, <<Just("SequenceSet")>>)
SearchCommands ==
  With({"SEARCH"}, <<Option("SearchCharset"), Vec1("SearchKey")>>)
    \cup With({"SORT"}, <<Just("SortCriteria"), Just("Charset"), Vec1("SearchKey")>>)
    \cup With({"THREAD"}, <<Just("Atom"), Just("Charset"), Vec1("SearchKey")>>)
MessageCommands ==
  With({"FETCH"}, <<Just("SequenceSet"), Just("MacroOrMessageDataItemNames"), Just("FetchModifiers")>>)
    \cup With({"STORE"}, <<Just("SequenceSet"), Just("StoreModifiers"), Just("StoreType"), Just("Flags")>>)
    \cup With({"COPY"}, <<Just("SequenceSet"), Just("Mailbox")>>)
IdleCommands ==
  Unit({"IDLE"}) \cup With({"ENABLE"}, <<Vec1("Atom")>>) \cup With({"COMPRESS"}, <<Just("CompressionAlgorithm")>>)
QuotaCommands ==
  With({"GETQUOTA"}, <<Just("AString")>>) \cup With({"GETQUOTAROOT"}, <<Just("Mailbox")>>)
    \cup With({"SETQUOTA"}, <<Just("AString"), Just("QuotaSets")>>)
LaterCommands ==
  Unit({"NAMESPACE"}) \cup With({"MOVE"}, <<Just("SequenceSet"), Just("Mailbox")>>)
    \cup With({"ID"}, <<Just("Parameters")>>)
    \cup With({"SETMETADATA"}, <<Just("Mailbox"), Just("EntryValues")>>)
    \cup With({"GETMETADATA"}, <<Just("GetMetadataOptions"), Just("Mailbox"), Just("Entries")>>)

SelectParameters ==
  Unit({"CONDSTORE"}) \cup With({"QRESYNC"}, <<Just("QResync")>>)
QResync == ListOfType(<<Just("NonZeroU32"), Just("NonZeroU64"), Option("SequenceSet"), Option("SeqMatchData")>>)
FetchModifiers == Unit({"VANISHED"}) \cup With({"CHANGEDSINCE"}, <<Just("NonZeroU64")>>)
StoreModifiers == With({"UNCHANGEDSINCE"}, <<Just("u64")>>)

-----------------------------------------------------------------------------
(* search.rs, status.rs, fetch.rs and the extensions                       *)

SearchKey ==
  Unit({"ALL", "ANSWERED", "DELETED", "DRAFT", "FLAGGED", "NEW", "OLD", "RECENT", "SEEN", "UNANSWERED",
        "UNDELETED", "UNDRAFT", "UNFLAGGED", "UNSEEN"})
    \cup With({"BCC", "BODY", "CC", "FROM", "SUBJECT", "TEXT", "TO"}, <<Just("AString")>>)
    \cup With({"BEFORE", "ON", "SENTBEFORE", "SENTON", "SENTSINCE", "SINCE"}, <<Just("NaiveDate")>>)
    \cup With({"HEADER"}, <<Just("AString"), Just("AString")>>) \cup With({"KEYWORD", "UNKEYWORD"}, <<Just("Atom")>>)
    \cup With({"LARGER", "SMALLER"}, <<Just("u32")>>) \cup With({"OLDER", "YOUNGER"}, <<Just("NonZeroU32")>>)
    \cup With({"NOT"}, <<Just("SearchKey")>>) \cup With({"OR"}, <<Just("SearchKey"), Just("SearchKey")>>)
    \cup With({"UID"}, <<Just("SequenceSet")>>) \cup {Variant("Set", <<Vec1("Sequence")>>)}
    \cup ListOfType(<<Vec1("SearchKey")>>)
    \cup With({"MODSEQ"}, <<Field(<<"AttributeFlag", "EntryTypeReq">>, 0, FALSE), Just("u64")>>)

StatusDataItemName ==
  Unit({"MESSAGES", "RECENT", "UIDNEXT", "UIDVALIDITY", "UNSEEN", "DELETED", "DELETED-STORAGE", "HIGHESTMODSEQ", "SIZE"})
StatusDataItem ==
  With({"MESSAGES", "RECENT", "UNSEEN", "DELETED"}, <<Just("u32")>>)
    \cup With({"UIDNEXT", "UIDVALIDITY"}, <<Just("NonZeroU32")>>)
    \cup With({"DELETED-STORAGE", "SIZE", "HIGHESTMODSEQ"}, <<Just("u64")>>)

Macro == Unit({"ALL", "FAST", "FULL"})
MessageDataItemName ==
  Unit({"BODY", "BODYSTRUCTURE", "ENVELOPE", "FLAGS", "INTERNALDATE", "RFC822", "RFC822.HEADER", "RFC822.SIZE",
        "RFC822.TEXT", "UID", "MODSEQ"})
    \cup With({"BODY[", "BODY.PEEK["}, <<Just("Section"), Option("Partial")>>)
    \cup With({"BINARY[", "BINARY.PEEK["}, <<Just("PartNumbers"), Option("Partial")>>)
    \cup With({"BINARY.SIZE["}, <<Just("PartNumbers")>>)
PartSpecifier ==
  Unit({"HEADER", "TEXT"}) \cup With({"HEADER.FIELDS", "HEADER.FIELDS.NOT"}, <<Just("HeaderFields")>>)
Section ==
  With({"Section"}, <<Option("Part"), Option("PartSpecifier")>>) \cup With({"Section"}, <<Just("Part"), Just("Mime")>>)

MessageDataItem ==
  With({"BODY", "BODYSTRUCTURE"}, <<Just("BodyStructure")>>)
    \cup With({"BODY["}, <<Just("Section"), Option("Partial"), Just("NString")>>)
    \cup With({"ENVELOPE"}, <<Just("Envelope")>>) \cup With({"FLAGS"}, <<Vec("Flag")>>)
    \cup With({"INTERNALDATE"}, <<Just("DateTime")>>)
    \cup With({"RFC822", "RFC822.HEADER", "RFC822.TEXT"}, <<Just("NString")>>)
    \cup With({"RFC822.SIZE"}, <<Just("u32")>>) \cup With({"UID"}, <<Just("NonZeroU32")>>)
    \cup With({"BINARY["}, <<Just("PartNumbers"), Just("NString8")>>)
    \cup With({"BINARY.SIZE["}, <<Just("PartNumbers"), Just("u32")>>) \cup With({"MODSEQ"}, <<Just("NonZeroU64")>>)

SortKey == Unit({"ARRIVAL", "CC", "DATE", "FROM", "SIZE", "SUBJECT", "TO", "DISPLAYFROM", "DISPLAYTO"})
GetMetadataOption == With({"MAXSIZE"}, <<Just("u32")>>) \cup With({"DEPTH"}, <<Just("Depth")>>)
MetadataCode ==
  With({"LONGENTRIES", "MAXSIZE"}, <<Just("u32")>>) \cup Unit({"TOOMANY", "NOPRIVATE"})
MetadataResponse ==
  {Variant("WithValues", <<Field(<<"AString", "NString8">>, 1, TRUE)>>), Variant("WithoutValues", <<Vec1("AString")>>)}

-----------------------------------------------------------------------------
(* envelope.rs, body.rs                                                    *)

Addresses == {Variant("Addresses", <<Vec("Address")>>)}
Envelope ==
  LET lists == [i \in 1..6 |-> Just("Addresses")]
  IN  {Variant("Envelope", <<Just("NString"), Just("NString")>> \o lists \o <<Just("NString"), Just("NString")>>)}

ParameterList == {Variant("Params", <<Field(<<"IString", "IString">>, 0, TRUE)>>)}
BasicFields ==
  {Variant("Fields", <<Just("ParameterList"), Just("NString"), Just("NString"), Just("IString"), Just("u32")>>)}
Body ==
  {Variant("Basic", <<Just("IString"), Just("IString"), Just("BasicFields")>>),
   Variant("TextBody", <<Just("IString"), Just("BasicFields"), Just("u32")>>),
   Variant("Message", <<Just("BasicFields"), Just("Envelope"), Just("BodyStructure"), Just("u32")>>)}
BodyStructure ==
  {Variant("SinglePart", <<Just("Body"), Option("SinglePartExtensionData")>>),
   Variant("MultiPart", <<Vec1("BodyStructure"), Just("IString"), Option("MultiPartExtensionData")>>)}
SinglePartExtensionData == {Variant("SinglePartExt", <<Just("NString"), Option("Disposition")>>)}
MultiPartExtensionData == {Variant("MultiPartExt", <<Just("ParameterList"), Option("Disposition")>>)}
Disposition == {Variant("Disposition", <<Just("Disposed"), Option("Language")>>)}
Disposed == {Variant("Disposed", <<Field(<<"IString", "ParameterList">>, 0, FALSE)>>)}
Language == {Variant("Language", <<Just("Languages"), Option("Location")>>)}
Location == {Variant("Location", <<Just("NString"), Vec("BodyExtension")>>)}

-----------------------------------------------------------------------------
(* response.rs                                                             *)

StatusBody(kinds) == <<Just(kinds), Option("CodeOption"), Just("Text")>>
Bye == {Variant("Bye", <<Option("CodeOption"), Just("Text")>>)}
Tagged == {Variant("Tagged", <<Just("Tag")>> \o StatusBody("StatusKind"))}
Untagged == {Variant("Untagged", StatusBody("StatusKind"))}
CommandContinuationRequest == {Variant("Continue", <<Option("CodeOption"), Just("Text")>>)}

FirstCodes ==
  Unit({"ALERT", "PARSE", "READ-ONLY", "READ-WRITE", "TRYCREATE"}) \cup With({"BADCHARSET"}, <<Vec("Charset")>>)
    \cup With({"CAPABILITY"}, <<Vec1("Atom")>>) \cup With({"PERMANENTFLAGS"}, <<Vec("FlagPerm")>>)
    \cup With({"UIDNEXT", "UIDVALIDITY", "UNSEEN"}, <<Just("NonZeroU32")>>)
LaterCodes ==
  Unit({"COMPRESSIONACTIVE", "OVERQUOTA", "TOOBIG", "UNKNOWN-CTE", "UIDNOTSTICKY", "NOMODSEQ", "CLOSED"})
    \cup With({"METADATA"}, <<Just("MetadataCode")>>) \cup With({"APPENDUID"}, <<Just("NonZeroU32"), Just("NonZeroU32")>>)
    \cup With({"COPYUID"}, <<Just("NonZeroU32"), Just("UidSet"), Just("UidSet")>>)
    \cup With({"HIGHESTMODSEQ"}, <<Just("NonZeroU64")>>) \cup With({"MODIFIED"}, <<Just("SequenceSet")>>)

MailboxesData ==
  With({"LIST", "LSUB"}, <<Just("FlagNameAttributes"), Just("OptionQuotedChar"), Just("Mailbox")>>)
    \cup With({"STATUS"}, <<Just("Mailbox"), Vec("StatusItem")>>) \cup With({"CAPABILITY"}, <<Vec1("Atom")>>)
    \cup With({"SEARCH", "SORT"}, <<Vec("NonZeroU32"), Option("ModSeqFound")>>) \cup With({"THREAD"}, <<Vec("Thread")>>)
MessagesData ==
  With({"FLAGS"}, <<Vec("Flag")>>) \cup With({"EXISTS", "RECENT"}, <<Just("u32")>>)
    \cup With({"EXPUNGE"}, <<Just("NonZeroU32")>>) \cup With({"FETCH"}, <<Just("NonZeroU32"), Vec1("Item")>>)
ExtensionsData ==
  With({"ENABLED"}, <<Vec("Atom")>>) \cup With({"QUOTA"}, <<Just("AString"), Vec1("QuotaGet")>>)
    \cup With({"QUOTAROOT"}, <<Just("Mailbox"), Vec("AString")>>) \cup With({"ID"}, <<Just("Parameters")>>)
    \cup With({"METADATA"}, <<Just("Mailbox"), Just("MetadataResponse")>>)
    \cup With({"VANISHED"}, <<Option("Earlier"), Just("SequenceSet")>>)
    \cup With({"NAMESPACE"}, <<Just("Namespaces"), Just("Namespaces"), Just("Namespaces")>>)

Thread ==
  {Variant("Members", <<Vec1("NonZeroU32"), Option("Answers")>>), Variant("Nested", <<Vec2("Thread")>>)}
Namespaces == {Variant("Namespaces", <<Vec("Namespace")>>)}
NamespaceType == {Variant("Namespace", <<Just("IString"), Just("OptionQuotedChar"), Vec("NamespaceExt")>>)}

-----------------------------------------------------------------------------
(* All types.                                                              *)

UidCommands == SearchCommands \cup MessageCommands \cup ExpungeUid \cup {v \in LaterCommands : v.n = "MOVE"}

CommandTypes ==
  [CommandBody |-> StateCommands \cup LoginCommands \cup SelectCommands \cup CreateCommands \cup RenameCommands
     \cup ListCommands \cup StatusCommands \cup AppendCommands \cup ExpungeCommands \cup SearchCommands
     \cup MessageCommands \cup IdleCommands \cup QuotaCommands \cup LaterCommands
     \cup With({"UID"}, <<Just("UidCommand")>>),
   UidCommand |-> UidCommands,
   SelectParameters |-> MaybeOfType("SelectParameter"), SelectParameter |-> SelectParameters,
   QResync |-> QResync, SeqMatchData |-> ListOfType(<<Just("SequenceSet"), Just("SequenceSet")>>),
   FetchModifiers |-> MaybeOfType("FetchModifier"), FetchModifier |-> FetchModifiers,
   StoreModifiers |-> MaybeOfType("StoreModifier"), StoreModifier |-> StoreModifiers,
   SequenceSet |-> {Variant("Set", <<Vec1("Sequence")>>)},
   StatusDataItemNames |-> ListOfType(<<Vec("StatusDataItemName")>>), StatusDataItemName |-> StatusDataItemName,
   AppendFlags |-> MaybeOfType("Flag"), Flags |-> ListOfType(<<Vec("Flag")>>),
   SearchCharset |-> With({"CHARSET"}, <<Just("Charset")>>), SearchKey |-> SearchKey,
   EntryTypeReq |-> Unit({"priv", "shared", "all"}),
   SortCriteria |-> ListOfType(<<Vec1("SortCriterion")>>),
   SortCriterion |-> SortKey \cup With({"REVERSE"}, <<Just("SortKey")>>), SortKey |-> SortKey,
   MacroOrMessageDataItemNames |-> Macro \cup {Variant("Items", <<Vec("MessageDataItemName")>>)},
   MessageDataItemName |-> MessageDataItemName, PartSpecifier |-> PartSpecifier, Section |-> Section,
   HeaderFields |-> ListOfType(<<Vec1("AString")>>), Mime |-> Unit({"MIME"}),
   PartNumbers |-> With({"Section"}, <<Option("Part")>>),
   CompressionAlgorithm |-> Unit({"DEFLATE"}), QuotaSets |-> ListOfType(<<Field(<<"Atom", "u64">>, 0, TRUE)>>),
   Parameters |-> Unit({"NIL"}) \cup ListOfType(<<Field(<<"IString", "NString">>, 0, TRUE)>>),
   EntryValues |-> ListOfType(<<Field(<<"AString", "NString8">>, 1, TRUE)>>),
   GetMetadataOptions |-> MaybeOfType("GetMetadataOption"), GetMetadataOption |-> GetMetadataOption,
   Depth |-> Unit({"0", "1", "INFINITY"}), Entries |-> {Variant("Items", <<Vec1("AString")>>)}]

ResponseTypesOf ==
  [Greeting |-> {Variant("Greeting", StatusBody("GreetingKind"))}, GreetingKind |-> Unit({"OK", "PREAUTH", "BYE"}),
   Response |-> CommandContinuationRequest \cup Untagged \cup Tagged \cup Bye \cup {Variant("Data", <<Just("DataBody")>>)},
   StatusKind |-> Unit({"OK", "NO", "BAD"}), CodeOption |-> {Variant("Code", <<Just("CodeBody")>>)},
   CodeBody |-> FirstCodes \cup LaterCodes, DataBody |-> MailboxesData \cup MessagesData \cup ExtensionsData,
   MetadataCode |-> MetadataCode, UidSet |-> {Variant("UidSet", <<Vec1("UidElement")>>)},
   FlagNameAttributes |-> ListOfType(<<Vec("FlagNameAttribute")>>),
   StatusItem |-> {Variant("StatusItem", <<Just("StatusDataItem")>>)}, StatusDataItem |-> StatusDataItem,
   ModSeqFound |-> With({"MODSEQ"}, <<Just("NonZeroU64")>>), Thread |-> Thread,
   Answers |-> {Variant("Answers", <<Vec2("Thread")>>)},
   Item |-> {Variant("Item", <<Just("MessageDataItem")>>)}, MessageDataItem |-> MessageDataItem,
   QuotaGet |-> {Variant("QuotaGet", <<Just("Atom"), Just("u64"), Just("u64")>>)},
   MetadataResponse |-> MetadataResponse, Earlier |-> Unit({"(EARLIER)"}), Namespaces |-> Namespaces,
   Namespace |-> NamespaceType,
   NamespaceExt |-> {Variant("NamespaceExt", <<Just("IString"), Just("NamespaceValues")>>)},
   NamespaceValues |-> ListOfType(<<Vec1("IString")>>),
   Addresses |-> Addresses, Address |-> {Variant("Address", [i \in 1..4 |-> Just("NString")])}, Envelope |-> Envelope,
   ParameterList |-> ParameterList, BasicFields |-> BasicFields, Body |-> Body, BodyStructure |-> BodyStructure,
   SinglePartExtensionData |-> SinglePartExtensionData, MultiPartExtensionData |-> MultiPartExtensionData,
   Disposition |-> Disposition, Disposed |-> Disposed, Language |-> Language,
   Languages |-> {Variant("Languages", <<Vec("IString")>>)}, Location |-> Location,
   BodyExtension |-> ListOfType(<<Vec1("BodyExtension")>>)]

Variants == CommandTypes @@ ResponseTypesOf

-----------------------------------------------------------------------------
(* Whether a tree is a value of a type.                                    *)

RECURSIVE IsA(_, _), Repetitions(_, _), Match(_, _)

\* How often the types of a field stand at the front of the nodes.
Repetitions(types, nodes) ==
  IF Len(nodes) >= Len(types) /\ \A i \in DOMAIN types : IsA(types[i], nodes[i])
  THEN 1 + Repetitions(types, SubSeq(nodes, Len(types) + 1, Len(nodes))) ELSE 0

Match(fields, nodes) ==
  IF fields = <<>> THEN nodes = <<>>
  ELSE LET field == Head(fields)
           there == Repetitions(field.types, nodes)
           taken == IF field.many THEN there ELSE Min({there, 1})
       IN  taken >= field.min /\ Match(Tail(fields), SubSeq(nodes, taken * Len(field.types) + 1, Len(nodes)))

IsWord(type, node) == type \in DOMAIN Words /\ node.n \in Words[type] /\ node.c = <<>> /\ ValidWord(type, node)

IsA(type, node) ==
  \/ IsWord(type, node)
  \/ type = "CodeBody" /\ IsWord("CodeOther", node)
  \/ type = "Response" /\ IsWord("Bytes", node)
  \/ type = "BodyExtension" /\ (IsWord("NString", node) \/ IsWord("u32", node))
  \/ type \in DOMAIN Variants /\ \E v \in Variants[type] : v.n = node.n /\ Match(v.fields, node.c)

\* A message of each codec.
IsMessage(codec, value) ==
  CASE codec = "Command" -> Len(value) = 2 /\ IsA("Tag", value[1]) /\ IsA("CommandBody", value[2])
    [] codec = "AuthenticateData" -> Len(value) = 1 /\ (IsWord("Bytes", value[1]) \/ value[1] = Tree("*", <<>>))
    [] codec = "IdleDone" -> value = <<Tree("DONE", <<>>)>>
    [] OTHER -> Len(value) = 1 /\ IsA(codec, value[1])
=============================================================================
