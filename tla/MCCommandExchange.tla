--------------------------- MODULE MCCommandExchange ---------------------------
(***************************************************************************)
(* CommandExchange with commands of every kind, each followed by another   *)
(* one, and lines that the library would not write itself.                 *)
(***************************************************************************)
EXTENDS EncodedCommands, MCValues

-----------------------------------------------------------------------------
(* Bodies of commands.                                                     *)

NoArguments ==
  {K(k) : k \in {"CAPABILITY", "LOGOUT", "NOOP", "STARTTLS", "CHECK", "CLOSE", "EXPUNGE",
                 "UNSELECT", "NAMESPACE"}}

OnStrings ==
  {Tree("LOGIN", <<s, t>>) : s \in {Lit, EmptyPlus}, t \in Strings}
    \cup {Tree("CREATE", <<s>>) : s \in Strings} \cup {Tree("RENAME", <<K("INBOX"), LitPlus>>)}
    \cup {Tree(k, <<K("INBOX")>>) : k \in {"DELETE", "SUBSCRIBE", "UNSUBSCRIBE", "GETQUOTAROOT"}}
    \cup {Tree("LIST", <<EmptyQuote, Word("Token", <<"%", "x", "]", "*">>)>>), Tree("LSUB", <<AtomExt("x"), Empty>>),
          Tree("GETQUOTA", <<Quote>>), Tree("SETQUOTA", <<EmptyQuote, ListOf(<<>>)>>),
          Tree("SETQUOTA", <<Lit, ListOf(<<Atom("STORAGE"), N("5"), Atom("x"), N("0")>>)>>),
          Tree("ENABLE", <<Atom("IMAP4"), Atom("UTF8=ACCEPT")>>), Tree("COMPRESS", <<K("DEFLATE")>>),
          Tree("ID", <<K("NIL")>>), Tree("ID", <<ListOf(<<>>)>>),
          Tree("ID", <<ListOf(<<Quote, K("NIL"), Lit, EmptyQuote>>)>>)}

OnMailboxes ==
  {Tree("SELECT", <<K("INBOX"), None>>), Tree("EXAMINE", <<AtomExt("x"), Optional(<<K("CONDSTORE")>>)>>),
   Tree("SELECT", <<Empty, Optional(<<Tree("QRESYNC", <<ListOf(<<N("1"), N("9"), Some, ListOf(<<Ones, Some>>)>>)>>)>>)>>),
   Tree("SELECT", <<K("INBOX"), Optional(<<Tree("QRESYNC", <<ListOf(<<N("1"), N("9"), ListOf(<<Ones, Ones>>)>>)>>)>>)>>),
   Tree("STATUS", <<K("INBOX"), ListOf(<<>>)>>),
   Tree("STATUS", <<Quote, ListOf(<<K("MESSAGES"), K("RECENT"), K("UIDNEXT"), K("UIDVALIDITY"), K("UNSEEN")>>)>>),
   Tree("STATUS", <<LitPlus, ListOf(<<K("DELETED"), K("DELETED-STORAGE"), K("SIZE"), K("HIGHESTMODSEQ")>>)>>),
   Tree("APPEND", <<K("INBOX"), None, Lit>>), Tree("APPEND", <<AtomExt("x"), None, Moment, Empty>>),
   Tree("APPEND", <<LitPlus, Optional(<<Seen, Junk>>), Moment, Lit8>>),
   Tree("APPEND", <<AtomExt("x"), Optional(<<Seen>>), Lit8Plus>>),
   Tree("SETMETADATA", <<K("INBOX"), ListOf(<<Comment, K("NIL"), Lit, Lit8>>)>>),
   Tree("GETMETADATA", <<None, K("INBOX"), Items(<<Lit>>)>>),
   Tree("GETMETADATA", <<Optional(<<Tree("MAXSIZE", <<N("5")>>), Tree("DEPTH", <<K("INFINITY")>>)>>), EmptyQuote,
                         Items(<<Comment, Quote>>)>>),
   Tree("GETMETADATA", <<Optional(<<Tree("DEPTH", <<K("0")>>)>>), AtomExt("x"), Items(<<Quote>>)>>)}

Uid(c) == {c, Tree("UID", <<c>>)}

OnMessages ==
  {Tree("UID", <<Tree("EXPUNGE", <<Some>>)>>)}
    \cup UNION {
     Uid(Tree("COPY", <<Some, Quote>>)), Uid(Tree("MOVE", <<Ones, LitPlus>>)),
     Uid(Tree("FETCH", <<Ones, K("ALL"), None>>)), {Tree("FETCH", <<Ones, K("FAST"), None>>),
     Tree("FETCH", <<Set(<<One("*")>>), K("FULL"), None>>), Tree("FETCH", <<Ones, Items(<<>>), None>>),
     Tree("FETCH", <<Ones, Items(<<K("BODY")>>), Optional(<<Tree("CHANGEDSINCE", <<N("9")>>), K("VANISHED")>>)>>),
     Tree("FETCH", <<Ones, Items(<<K("BODY"), K("BODYSTRUCTURE"), K("ENVELOPE"), K("FLAGS"), K("INTERNALDATE"), K("UID"), K("MODSEQ")>>), None>>),
     Tree("FETCH", <<Ones, Items(<<K("RFC822"), K("RFC822.HEADER"), K("RFC822.SIZE"), K("RFC822.TEXT")>>), None>>)},
     {Tree("FETCH", <<Ones, Items(<<Tree(k, <<s, Word("Partial", <<"<", "0", ".", "9", ">">>)>>), Tree(k, <<s>>)>>), None>>) :
        k \in {"BODY["}, s \in {Tree("Section", <<>>), Tree("Section", <<Word("Part", <<"1", ".", "2">>)>>),
          Tree("Section", <<Word("Part", <<"1">>), K("MIME")>>), Tree("Section", <<K("TEXT")>>)}},
     {Tree("FETCH", <<Ones, Items(<<Tree(k, <<Tree("Section", <<Tree(h, <<ListOf(<<AtomExt("To"), Lit>>)>>)>>)>>)>>), None>>) :
        k \in {"BODY.PEEK["}, h \in {"HEADER.FIELDS", "HEADER.FIELDS.NOT"}},
     {Tree("FETCH", <<Ones, Items(<<Tree(k, <<Tree("Section", <<Word("Part", <<"1", ".", "2">>)>>)>>), Tree(k, <<Tree("Section", <<>>)>>)>>), None>>) :
        k \in {"BINARY[", "BINARY.PEEK[", "BINARY.SIZE["}},
     {Tree("FETCH", <<Ones, Items(<<Tree("BODY[", <<Tree("Section", <<Word("Part", <<"1">>), K("HEADER")>>)>>)>>), None>>)},
     Uid(Tree("STORE", <<Ones, None, Word("Kind", <<"FLAGS">>), ListOf(<<Seen, Junk>>)>>)),
     {Tree("STORE", <<Some, Optional(<<Tree("UNCHANGEDSINCE", <<N("0")>>)>>), Word("Kind", <<"+", "FLAGS", ".SILENT">>), ListOf(<<>>)>>),
      Tree("STORE", <<Ones, None, Word("Kind", <<"-", "FLAGS">>), ListOf(<<Seen>>)>>)}}

Charset(c) == Tree("CHARSET", <<c>>)
Keys == <<
  <<K("ALL"), K("ANSWERED"), K("DELETED"), K("FLAGGED"), K("NEW"), K("OLD"), K("RECENT"), K("SEEN")>>,
  <<K("UNANSWERED"), K("UNDELETED"), K("UNFLAGGED"), K("UNSEEN"), K("DRAFT"), K("UNDRAFT")>>,
  <<Tree("BCC", <<Lit>>), Tree("CC", <<AtomExt("x")>>), Tree("FROM", <<EmptyQuote>>)>>,
  <<Tree("SUBJECT", <<Quote>>), Tree("TO", <<LitPlus>>), Tree("BODY", <<Empty>>)>>,
  <<Tree("BEFORE", <<Day>>), Tree("ON", <<Day>>), Tree("SINCE", <<Day>>)>>,
  <<Tree("SENTBEFORE", <<Day>>), Tree("SENTON", <<Day>>), Tree("SENTSINCE", <<Day>>)>>,
  <<Tree("KEYWORD", <<Atom("Junk")>>), Tree("UNKEYWORD", <<Atom("Junk")>>), Tree("HEADER", <<Lit, AtomExt("x")>>)>>,
  <<Tree("LARGER", <<N("0")>>), Tree("SMALLER", <<N("9")>>), Tree("OLDER", <<N("1")>>), Tree("YOUNGER", <<N("1")>>)>>,
  <<Tree("UID", <<Some>>), Some, Tree("MODSEQ", <<N("0")>>),
    Tree("MODSEQ", <<Word("EntryName", <<"\"", "/", "flags", "/", "\\", "\\", "Seen", "\"">>), K("shared"), N("9")>>)>>,
  <<Tree("OR", <<Tree("NOT", <<Tree("TEXT", <<Lit>>)>>), ListOf(<<K("SEEN"), ListOf(<<Ones>>)>>)>>), K("ALL")>> >>

OnKeys ==
  {Tree("SEARCH", Keys[i]) : i \in DOMAIN Keys}
    \cup {Tree("UID", <<Tree("SEARCH", <<Charset(Quote), K("ALL")>>)>>),
          Tree("SEARCH", <<Charset(Atom("x")), Tree("TEXT", <<Lit>>)>>)}
    \cup UNION {
      Uid(Tree("SORT", <<ListOf(<<Tree("REVERSE", <<K("DATE")>>), K("SUBJECT"), K("DISPLAYFROM")>>), Atom("x"), K("ALL")>>)),
      {Tree("SORT", <<ListOf([i \in DOMAIN ks |-> K(ks[i])]), Quote, Tree("TO", <<Lit>>)>>) :
         ks \in {<<"ARRIVAL", "CC", "FROM">>, <<"SIZE", "TO", "DISPLAYTO">>}},
      Uid(Tree("THREAD", <<Atom("REFERENCES"), Atom("x"), K("NEW"), Tree("CC", <<LitPlus>>)>>))}

\* Keys inside each other: as deep as search_key allows, and deeper.
RECURSIVE Nested(_, _, _)
Nested(n, k, key) ==
  IF n = 0 THEN key ELSE Nested(n - 1, k, IF k = "OR" THEN Tree(k, <<K("ALL"), key>>) ELSE Tree(k, <<key>>))
Depths == {7, 8, 9}
Deep == {[cmd |-> Tree("SEARCH", <<Nested(n, k, Lit_or_all)>>), allowed |-> n < 9] :
           n \in Depths, k \in {"NOT", "OR", "List"}, Lit_or_all \in {K("ALL"), Tree("TO", <<Lit>>)}}

Bodies == NoArguments \cup OnStrings \cup OnMailboxes \cup OnMessages \cup OnKeys

-----------------------------------------------------------------------------
(* Lines of other clients.                                                 *)

Sent(tokens, cmd) == ForeignMessage("A", <<Line(<<"A", " ">> \o tokens)>>, <<Word("Tag", <<"A">>), cmd>>)
Refused(tokens) == ForeignMessage("A", <<Line(<<"A", " ">> \o tokens)>>, <<>>)

OtherSpellings ==
  {Sent(<<"SEARCH", " ", "ON", " ", "7", "-", "Feb", "-", "1994">>, Tree("SEARCH", <<Tree("ON", <<Day>>)>>)),
   Sent(<<"SEARCH", " ", "ON", " ", "29", "-", "Feb", "-", "2024">>,
        Tree("SEARCH", <<Tree("ON", <<Word("Date", <<"29", "-", "Feb", "-", "2024">>)>>)>>)),
   Sent(<<"STORE", " ", "1", " ", "FLAGS", " ", "\\", "Seen", " ", "Junk">>,
        Tree("STORE", <<Ones, None, Word("Kind", <<"FLAGS">>), ListOf(<<Seen, Junk>>)>>)),
   Sent(<<"SELECT", " ", "\"", "INBOX", "\"">>, Tree("SELECT", <<K("INBOX"), None>>)),
   Sent(<<"CREATE", " ", "\"", "\\", "\\", "x", "\"">>, Tree("CREATE", <<Word("Quoted", <<"\\", "x">>)>>)),
   Sent(<<"ID", " ", "(", "\"", "x", "\"", " ", "NIL", " ", ")">>,
        Tree("ID", <<ListOf(<<Word("Quoted", <<"x">>), K("NIL")>>)>>)),
   Sent(<<"FETCH", " ", "5", ":", "3", ",", "1", " ", "(", "FLAGS", ")">>,
        Tree("FETCH", <<Set(<<FromTo("5", "3"), One("1")>>), Items(<<K("FLAGS")>>), None>>)),
   Sent(<<"AUTHENTICATE", " ", "PLAIN", " ">>, Tree("AUTHENTICATE", <<Atom("PLAIN"), Word("Base64", <<>>)>>)),
   ForeignMessage("A",
     <<Line(<<"A", " ", "APPEND", " ", "{", "1", "}">>), Fragment("Literal", "", <<"INBOX">>),
       Line(<<" ", "(", ")", " ", "\"", " ", "7", "-", "Feb", "-", "1994", " ", "21", ":", "52", ":",
              "25", " ", "-", "08", "00", "\"", " ", "~", "{", "0", "+", "}">>),
       Fragment("Literal", "+", <<>>), Line(<<>>)>>,
     <<Word("Tag", <<"A">>), Tree("APPEND", <<K("INBOX"), None, Moment, Word("Literal8+", <<>>)>>)>>)}

NoCommands ==
  {Refused(<<"FETCH", " ", "0", " ", "ALL">>), Refused(<<"SEARCH", " ", "LARGER", " ", BeyondU32>>),
   Refused(<<"SEARCH", " ", "MODSEQ", " ", BeyondU64>>), Refused(<<"SEARCH", " ", "ON", " ", "30", "-", "Feb", "-", "1994">>),
   Refused(<<"SEARCH", " ", "ON", " ", "29", "-", "Feb", "-", "1994">>),
   Refused(<<"APPEND", " ", "x", " ", "\"", "29", "-", "Feb", "-", "1994", " ", "21", ":", "52", ":", "25", " ", "-", "08", "00", "\"", " ", "{", "0", "+", "}">>),
   Refused(<<"APPEND", " ", "x", " ", "\"", "31", "-", "Jun", "-", "1994", " ", "21", ":", "52", ":", "25", " ", "-", "08", "00", "\"", " ", "{", "0", "+", "}">>),
   Refused(<<"CREATE", " ", "\"", "\\", "x", "\"">>), Refused(<<"NOOP", " ", "x">>), Refused(<<"ENABLE">>),
   Refused(<<"UID", " ", "NOOP">>), Refused(<<"FETCH", " ", "{", "1", "}">>), Refused(<<"AUTHENTICATE", " ", "PLAIN", " ", "dGVzdA", "=">>),
   Refused(<<"SELECT", " ", "INBOX", " ", "(", ")">>), Refused(<<>>),
   ForeignMessage("", <<Line(<<" ", "NOOP">>)>>, <<>>), Refused(<<"LIST", " ", "INBOX", " ">>),
   ForeignMessage("A", <<Line(<<"A", " ", "CREATE", " ", "{", "1", "}">>), Fragment("Literal", "", <<"NUL">>), Line(<<>>)>>, <<>>)}

-----------------------------------------------------------------------------
(* Scripts.                                                                *)

Normal(cmd) == CommandMessage("A", cmd, cmd)

Unsorted == Set(<<FromTo("*", "7"), One("4"), FromTo("5", "3"), One("1"), One("1")>>)
Normalized ==
  {CommandMessage("A", Tree("COPY", <<Unsorted, K("INBOX")>>), Tree("COPY", <<Some, K("INBOX")>>))}

Nestings ==
  {IF d.allowed THEN Normal(d.cmd) ELSE [CommandMessage("A", d.cmd, d.cmd) EXCEPT !.value = <<>>] : d \in Deep}

Authenticate(ir) == Normal(Tree("AUTHENTICATE", <<Atom("PLAIN")>> \o ir))
Dialogues ==
  {<<Authenticate(<<>>), AuthenticateMessage(data)>> :
     data \in {<<>>, <<"*">>, <<"dGVz">>, <<"dGVzdA", "=", "=">>}}
  \cup {<<Authenticate(<<Word("Base64", b)>>)>> : b \in {<<>>, <<"dGVzdGU", "=">>}}
  \cup {<<Normal(K("IDLE")), DoneMessage>>}

Noop == CommandMessage("B", K("NOOP"), K("NOOP"))

MCScripts ==
  {<<m, Noop>> : m \in {Normal(cmd) : cmd \in Bodies} \cup Normalized \cup OtherSpellings \cup NoCommands \cup Nestings}
    \cup {Append(d, Noop) : d \in Dialogues}

MCOctet ==
  UNION {UNION {ToSet(Written(s[i].fragments)) : i \in DOMAIN s} : s \in MCScripts}
=============================================================================
