-------------------------- MODULE MCResponseExchange --------------------------
(***************************************************************************)
(* ResponseExchange with greetings and responses of every kind, each       *)
(* followed by another one, and lines that the library would not write     *)
(* itself.                                                                 *)
(***************************************************************************)
EXTENDS EncodedResponses, MCValues

Said == Word("Text", <<"ready!">>)
NoText == Word("Text", <<"...">>)
Code(c) == Tree("Code", <<c>>)
Data(c) == Tree("Data", <<c>>)
StatusItem(k, n) == Tree("StatusItem", <<Tree(k, <<N(n)>>)>>)
Item(k, v) == Tree("Item", <<Tree(k, v)>>)
Untagged(parts) == Tree("Untagged", parts)
Continue(parts) == Tree("Continue", parts)
Hello == Tree("Greeting", <<K("OK"), Said>>)
Goodbye == Tree("Bye", <<Said>>)

-----------------------------------------------------------------------------
(* Status responses and continuations.                                     *)

UidSet == Tree("UidSet", <<One("1"), FromTo("3", "5")>>)
Codes ==
  {K(k) : k \in {"ALERT", "PARSE", "READ-ONLY", "READ-WRITE", "TRYCREATE", "COMPRESSIONACTIVE", "OVERQUOTA",
                 "TOOBIG", "UNKNOWN-CTE", "UIDNOTSTICKY", "NOMODSEQ", "CLOSED", "BADCHARSET", "PERMANENTFLAGS"}}
    \cup {Tree(k, <<N("7")>>) : k \in {"UIDNEXT", "UIDVALIDITY", "UNSEEN", "HIGHESTMODSEQ"}}
    \cup {Tree("METADATA", <<k>>) :
            k \in {Tree("LONGENTRIES", <<N("0")>>), Tree("MAXSIZE", <<N("9")>>), K("TOOMANY"), K("NOPRIVATE")}}
    \cup {Tree("BADCHARSET", <<Atom("x"), Quote>>), Tree("CAPABILITY", <<Atom("IMAP4"), Atom("x")>>),
          Tree("PERMANENTFLAGS", <<Seen, Junk, Word("Flag", <<"\\", "*">>)>>), Tree("MODIFIED", <<Some>>),
          Tree("APPENDUID", <<N("1"), N("2")>>), Tree("COPYUID", <<N("1"), UidSet, UidSet>>)}

Statuses ==
  {Untagged(<<K("OK"), Code(c), Said>>) : c \in Codes}
    \cup {Untagged(<<K("OK"), Code(Word("Other", t)), Said>>) : t \in {<<>>, <<"x", " ", "y">>, <<"UIDNEXT", " ", "0">>}}
    \cup {Tree("Tagged", <<Word("Tag", <<"A">>), K(k), Said>>) : k \in {"OK", "NO", "BAD"}}
    \cup {Tree("Tagged", <<Word("Tag", <<"A">>), K("NO"), Code(K("ALERT")), Said>>), Goodbye,
          Tree("Bye", <<Code(K("ALERT")), Said>>),
          Continue(<<Said>>), Continue(<<Code(K("ALERT")), Said>>), Continue(<<NoText>>),
          Continue(<<Code(K("ALERT")), Word("Text", <<"[", "x">>)>>), Continue(<<Code(K("ALERT")), Word("Text", <<"dGVz">>)>>)}
    \cup {Word("Challenge", b) : b \in {<<>>, <<"dGVz">>, <<"dGVzdA", "=", "=">>}}

-----------------------------------------------------------------------------
(* Data.                                                                   *)

Delimiters == {K("NIL"), Word("QuotedChar", <<"/">>), Word("QuotedChar", <<"\\">>), Word("QuotedChar", <<"\"">>)}
Number(n) == Tree("Members", <<N(n)>>)
Thread(members, answers) ==
  Tree("Members", [i \in DOMAIN members |-> N(members[i])] \o (IF answers = <<>> THEN <<>> ELSE <<Tree("Answers", answers)>>))
Namespaces(c) == Tree("Namespaces", c)
Namespace(c) == Tree("Namespace", c)

DataOfMailboxes ==
  {Tree("LIST", <<ListOf(<<>>), d, K("INBOX")>>) : d \in Delimiters}
    \cup {Tree("LSUB", <<ListOf(<<Word("Flag", <<"\\", "x">>), Word("Flag", <<"\\", "y">>)>>), K("NIL"), s>>) : s \in {Lit, Quote, Word("Literal", <<"CRLF">>)}}
    \cup {Tree("FLAGS", <<>>), Tree("FLAGS", <<Seen, Junk>>), Tree("EXISTS", <<N("0")>>), Tree("RECENT", <<N("9")>>),
          Tree("STATUS", <<K("INBOX")>>),
          Tree("STATUS", <<Lit, StatusItem("MESSAGES", "0"), StatusItem("RECENT", "0"), StatusItem("UIDNEXT", "1")>>),
          Tree("STATUS", <<K("INBOX"), StatusItem("UIDVALIDITY", "1"), StatusItem("UNSEEN", "0"), StatusItem("DELETED", "0")>>),
          Tree("STATUS", <<K("INBOX"), StatusItem("DELETED-STORAGE", "1"), StatusItem("SIZE", BeyondU32), StatusItem("HIGHESTMODSEQ", "0")>>)}

DataOfMessages ==
  {Tree(k, c) : k \in {"SEARCH", "SORT"}, c \in {<<>>, <<N("1")>>, <<N("1"), N("3"), Tree("MODSEQ", <<N("9")>>)>>, <<Tree("MODSEQ", <<N("9")>>)>>}}
    \cup {Tree("THREAD", <<>>), Tree("THREAD", <<Number("1"), Thread(<<"2", "3">>, <<Number("4"), Number("5")>>), Number("6")>>),
          Tree("THREAD", <<Thread(<<"1">>, <<Thread(<<"2">>, <<Number("3"), Number("4")>>), Tree("Nested", <<Number("5"), Number("6")>>)>>)>>)}
    \cup {Tree("EXPUNGE", <<N("1")>>), Tree("VANISHED", <<Some>>), Tree("VANISHED", <<K("(EARLIER)"), Ones>>)}

DataOfExtensions ==
  {Tree("CAPABILITY", <<Atom("IMAP4")>>), Tree("ENABLED", <<>>), Tree("ENABLED", <<Atom("x"), Atom("UTF8=ACCEPT")>>),
   Tree("ID", <<K("NIL")>>), Tree("ID", <<ListOf(<<>>)>>), Tree("ID", <<ListOf(<<Quote, K("NIL"), Lit, EmptyQuote>>)>>),
   Tree("METADATA", <<K("INBOX"), Tree("WithValues", <<Comment, K("NIL"), Lit, Lit8>>)>>),
   Tree("METADATA", <<EmptyQuote, Tree("WithoutValues", <<Comment, Quote>>)>>),
   Tree("NAMESPACE", <<Namespaces(<<>>), Namespaces(<<Namespace(<<EmptyQuote, K("NIL")>>)>>),
     Namespaces(<<Namespace(<<Lit, Word("QuotedChar", <<"/">>), Tree("NamespaceExt", <<Quote, ListOf(<<Lit, Quote>>)>>)>>),
                  Namespace(<<Quote, K("NIL")>>)>>)>>),
   Tree("QUOTAROOT", <<K("INBOX")>>), Tree("QUOTAROOT", <<AtomExt("x"), EmptyQuote, Lit>>),
   Tree("QUOTA", <<EmptyQuote, Tree("QuotaGet", <<Atom("STORAGE"), N("0"), N("9")>>), Tree("QuotaGet", <<Atom("x"), N("1"), N(BeyondU32)>>)>>)}

-----------------------------------------------------------------------------
(* Items of FETCH.                                                         *)

Q(word) == Word("Quoted", <<word>>)
Params(c) == Tree("Params", c)
Fields(params, name, octets) == Tree("Fields", <<params, name, K("NIL"), Q("x"), N(octets)>>)
Plain == Fields(Params(<<>>), K("NIL"), "0")
Basic == Tree("Basic", <<Q("x"), Lit, Fields(Params(<<Q("x"), Lit>>), Quote, "9")>>)
Small == Tree("Basic", <<Q("x"), Q("y"), Plain>>)
TextBody == Tree("TextBody", <<Q("x"), Plain, N("1")>>)
Nobody == Tree("Addresses", <<>>)
Anyone == Tree("Addresses", <<Tree("Address", <<K("NIL"), K("NIL"), Q("x"), Lit>>), Tree("Address", <<Quote, K("NIL"), K("NIL"), K("NIL")>>)>>)
EnvelopeOf(from, name) ==
  Tree("Envelope", <<K("NIL"), K("NIL"), from, Nobody, Nobody, Nobody, Nobody, Nobody, K("NIL"), name>>)
MessageOf(inner) == Tree("Message", <<Plain, EnvelopeOf(Nobody, K("NIL")), inner, N("1")>>)
Single(c) == Tree("SinglePart", c)
Multi(bodies, c) == Tree("MultiPart", bodies \o c)

Extensions ==
  {<<>>, <<Tree("Disposition", <<Tree("Disposed", <<>>)>>)>>,
   <<Tree("Disposition", <<Tree("Disposed", <<Q("x"), Params(<<>>)>>), Tree("Language", <<Tree("Languages", <<>>)>>)>>)>>,
   <<Tree("Disposition", <<Tree("Disposed", <<>>), Tree("Language", <<Tree("Languages", <<Q("x"), Lit>>),
       Tree("Location", <<Quote, N("5"), K("NIL"), ListOf(<<N("1"), ListOf(<<Lit>>)>>)>>)>>)>>)>>}

RECURSIVE Around(_, _), Lists(_), Chain(_)
Around(n, b) == IF n = 0 THEN b ELSE Multi(<<Around(n - 1, b)>>, <<Q("x")>>)
Mixed(n) == Around(n - 1, Single(<<Small>>))
Forwarded(m, n) == Around(m, Single(<<MessageOf(Mixed(n))>>))
Lists(n) == IF n = 0 THEN N("1") ELSE ListOf(<<Lists(n - 1)>>)
Chain(n) == IF n = 1 THEN Number("1") ELSE Tree("Nested", <<Number("1"), Chain(n - 1)>>)

Extended(n) ==
  Single(<<Small, Tree("SinglePartExt", <<K("NIL"), Tree("Disposition", <<Tree("Disposed", <<>>),
    Tree("Language", <<Tree("Languages", <<>>), Tree("Location", <<K("NIL"), Lists(n)>>)>>)>>)>>)>>)

Bodies ==
  {Single(<<b>>) : b \in {Basic, TextBody, MessageOf(Single(<<TextBody>>))}}
    \cup {Single(<<Small, Tree("SinglePartExt", <<Q("x")>> \o e)>>) : e \in Extensions}
    \cup {Multi(<<Single(<<Small>>), Single(<<TextBody>>)>>, <<Lit>>),
          Multi(<<Single(<<Small>>)>>, <<Q("x"), Tree("MultiPartExt", <<Params(<<Q("x"), Q("y")>>)>>)>>)}

Items1 ==
  {<<Item("BODY", <<b>>)>> : b \in Bodies}
    \cup {<<Item("BODYSTRUCTURE", <<Mixed(2)>>), Item("UID", <<N("1")>>)>>,
          <<Item("ENVELOPE", <<EnvelopeOf(Anyone, Lit)>>)>>, <<Item("FLAGS", <<>>)>>,
          <<Item("FLAGS", <<Seen, Word("Flag", <<"\\", "Recent">>)>>), Item("MODSEQ", <<N("9")>>), Item("INTERNALDATE", <<Moment>>)>>,
          <<Item("RFC822", <<Lit>>), Item("RFC822.HEADER", <<K("NIL")>>), Item("RFC822.SIZE", <<N("0")>>), Item("RFC822.TEXT", <<Quote>>)>>,
          <<Item("BODY[", <<Tree("Section", <<>>), Lit>>), Item("BODY[", <<Tree("Section", <<K("TEXT")>>), Word("Partial", <<"<", "0", ">">>), K("NIL")>>)>>,
          <<Item("BODY[", <<Tree("Section", <<Tree("HEADER.FIELDS", <<ListOf(<<AtomExt("To"), Quote>>)>>)>>), Empty>>)>>,
          <<Item("BODY[", <<Tree("Section", <<Word("Part", <<"1", ".", "2">>), K("MIME")>>), Lit>>)>>,
          <<Item("BINARY[", <<Tree("Section", <<Word("Part", <<"1">>)>>), Lit8>>), Item("BINARY[", <<Tree("Section", <<>>), K("NIL")>>),
            Item("BINARY.SIZE[", <<Tree("Section", <<>>), N("9")>>)>>}

Fetch(items) == Data(Tree("FETCH", <<N("1")>> \o items))
Bodystructure(b) == Fetch(<<Item("BODYSTRUCTURE", <<b>>)>>)

-----------------------------------------------------------------------------
(* Nesting: as deep as the parsers allow, and deeper.                      *)

Meant(node, allowed) == ResponseMessage(node, IF allowed THEN <<node>> ELSE <<>>)
Nestings ==
  {Meant(Bodystructure(Mixed(n)), n <= 7) : n \in 7..8}
    \cup {Meant(Bodystructure(Extended(n)), n <= 7) : n \in 7..8}
    \cup {Meant(Data(Tree("THREAD", <<Chain(n)>>)), n <= 8) : n \in 8..9}

-----------------------------------------------------------------------------
(* Lines of other servers.                                                 *)

Sent(tokens, node) == ForeignResponse(<<Line(tokens)>>, <<node>>)
Refused(tokens) == ForeignResponse(<<Line(tokens)>>, <<>>)
D(tokens, data) == Sent(<<"*", " ">> \o tokens, Data(data))
NoData(tokens) == Refused(<<"*", " ">> \o tokens)

NilFields == <<"NIL", " ", "NIL", " ", "NIL">>
SmallAs(encoding, octets) ==
  <<"1", " ", "FETCH", " ", "(", "BODY", " ", "(", "\"", "x", "\"", " ", "\"", "y", "\"", " ">> \o NilFields
    \o <<" ">> \o encoding \o <<" ">> \o octets \o <<")", ")">>
SmallRead(type, subtype, fields) == Tree("FETCH", <<N("1"), Item("BODY", <<Single(<<Tree("Basic", <<Q(type), Q(subtype), fields>>)>>)>>)>>)

Slips ==
  {Sent(<<"+">>, Continue(<<NoText>>)),
   Sent(<<"*", " ", "OK", " ", "[", "ALERT", "]">>, Untagged(<<K("OK"), Code(K("ALERT")), NoText>>)),
   Sent(<<"*", " ", "OK", " ", "[", "ALERT", "x", "]", " ", "ready!">>, Untagged(<<K("OK"), Code(Word("Other", <<"ALERT", "x">>)), Said>>)),
   Sent(<<"*", " ", "OK", " ", "[", "CAPABILITY", " ", "x", " ", "]", " ", "ready!">>, Untagged(<<K("OK"), Code(Tree("CAPABILITY", <<Atom("x")>>)), Said>>)),
   Sent(<<"*", " ", "OK", " ", "{", "1", "}">>, Untagged(<<K("OK"), Word("Text", <<"{", "1", "}">>)>>)),
   D(SmallAs(<<"NIL">>, <<"0">>), SmallRead("x", "y", Tree("Fields", <<Params(<<>>), K("NIL"), K("NIL"), EmptyQuote, N("0")>>))),
   D(SmallAs(<<"\"", "x", "\"">>, <<"-", "1">>), SmallRead("x", "y", Plain)),
   D(<<"STATUS", " ", "INBOX", " ", "(", ")", " ">>, Tree("STATUS", <<K("INBOX")>>)),
   D(<<"CAPABILITY", " ", "IMAP4", " ">>, Tree("CAPABILITY", <<Atom("IMAP4")>>)),
   D(<<"SEARCH", " ">>, Tree("SEARCH", <<>>)),
   D(<<"ID", " ", "(", "\"", "x", "\"", " ", "NIL", " ", ")">>, Tree("ID", <<ListOf(<<Q("x"), K("NIL")>>)>>)),
   D(<<"QUOTA", " ", "\"", "\"", " ", "(", "STORAGE", " ", " ", "0", " ", " ", "9", ")">>,
     Tree("QUOTA", <<EmptyQuote, Tree("QuotaGet", <<Atom("STORAGE"), N("0"), N("9")>>)>>)),
   D(<<"VANISHED", " ", "5", ":", "3", ",", "1">>, Tree("VANISHED", <<Set(<<FromTo("5", "3"), One("1")>>)>>)),
   D(<<"LIST", " ", "(", ")", " ", "NIL", " ", "\"", "INBOX", "\"">>, Tree("LIST", <<ListOf(<<>>), K("NIL"), K("INBOX")>>)),
   D(<<"NAMESPACE", " ", "NIL", " ", "NIL", " ", "NIL">>, Tree("NAMESPACE", <<Namespaces(<<>>), Namespaces(<<>>), Namespaces(<<>>)>>))}

NoResponses ==
  {Refused(<<"*", " ", "OK", " ", "[", "x">>), Refused(<<"+", " ", "[", "x", " ", "y">>), Refused(<<"*", " ", "OK", " ">>),
   Refused(<<"*", " ", "PREAUTH", " ", "ready!">>), Refused(<<"A", " ", "BYE", " ", "ready!">>),
   NoData(<<"0", " ", "EXPUNGE">>), NoData(<<"CAPABILITY", " ">>), NoData(<<BeyondU32, " ", "EXISTS">>), NoData(<<"SEARCH", " ", "0">>),
   NoData(<<"1", " ", "FETCH", " ", "(", ")">>), NoData(<<"SEARCH", " ", "(", "MODSEQ", " ", "0", ")">>),
   NoData(<<"THREAD", " ", "(", ")">>), NoData(<<"THREAD", " ", "(", "(", "1", ")", ")">>),
   NoData(<<"LIST", " ", "(", "Junk", ")", " ", "NIL", " ", "INBOX">>), NoData(<<"LIST", " ", "(", ")", " ", "\"", "\"", " ", "INBOX">>),
   NoData(<<"QUOTA", " ", "x", " ", "(", ")">>), NoData(SmallAs(<<"\"", "x", "\"">>, <<"-">>)),
   NoData(<<"1", " ", "FETCH", " ", "(", "INTERNALDATE", " ", "\"", "31", "-", "Jun", "-", "1994", " ", "21", ":", "52", ":", "25", " ", "-", "08", "00", "\"", ")">>),
   ForeignResponse(<<Line(<<"*", " ", "LIST", " ", "(", ")", " ", "NIL", " ", "{", "1", "}">>), Fragment("Literal", "", <<"NUL">>), Line(<<>>)>>, <<>>)}

-----------------------------------------------------------------------------
(* Greetings.                                                              *)

Greetings ==
  {Tree("Greeting", <<K(k), Said>>) : k \in {"OK", "PREAUTH", "BYE"}}
    \cup {Tree("Greeting", <<K("OK"), Code(c), NoText>>) : c \in {Tree("CAPABILITY", <<Atom("IMAP4"), Atom("x")>>), Word("Other", <<"x">>)}}

NoGreetings ==
  {Refused(<<"*", " ", "NO", " ", "ready!">>), Refused(<<"A", " ", "OK", " ", "ready!">>),
   Refused(<<"*", " ", "OK", " ", "[", "BADCHARSET", " ", "(", "{", "1", "}", "CRLF", "]">>), Refused(<<"+", " ", "ready!">>)}

-----------------------------------------------------------------------------
(* Scripts.                                                                *)

Exact(node) == ResponseMessage(node, <<node>>)
Greeted == Exact(Hello)
Done == Exact(Goodbye)

Unsorted == Set(<<FromTo("*", "7"), One("4"), FromTo("5", "3"), One("1"), One("1")>>)
Rewrites ==
  {ResponseMessage(Data(Tree("VANISHED", <<Unsorted>>)), <<Data(Tree("VANISHED", <<Some>>))>>),
   ResponseMessage(Untagged(<<K("OK"), Code(Tree("REFERRAL", <<Word("Token", <<"imap:x">>)>>)), Said>>),
                   <<Untagged(<<K("OK"), Code(Word("Other", <<"REFERRAL", " ", "imap:x">>)), Said>>)>>)}

Responses ==
  {Exact(r) : r \in Statuses \cup {Data(d) : d \in DataOfMailboxes \cup DataOfMessages \cup DataOfExtensions}
                      \cup {Fetch(items) : items \in Items1}}
    \cup Nestings \cup Slips \cup NoResponses \cup Rewrites

MCScripts ==
  {<<Greeted, r, Done>> : r \in Responses}
    \cup {<<g, Done>> : g \in {Exact(h) : h \in Greetings} \cup NoGreetings}

\* A message in a multipart, with multiparts in it.
MCForwarded == {<<Greeted, Exact(Bodystructure(Forwarded(2, 6)))>>}

OctetsIn(scripts) == UNION {UNION {ToSet(Written(FragmentsOf(s[i]))) : i \in DOMAIN s} : s \in scripts}
MCOctet == OctetsIn(MCScripts \cup MCForwarded)
=============================================================================
