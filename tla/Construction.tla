----------------------------- MODULE Construction -----------------------------
(***************************************************************************)
(* The constructors of imap-types: an application hands octets, numbers or *)
(* lists to one of them and gets a message or an error.  The message is    *)
(* encoded and decoded, and next to it every other form that its octets    *)
(* could take: an atom, a quoted string or a literal that unvalidated      *)
(* would have made of them.                                                *)
(*                                                                         *)
(* Which octets are fine is written down twice in the code, in the         *)
(* validators and in the grammar.                                          *)
(***************************************************************************)
EXTENDS RoundTrip, Validation

CONSTANTS
  Strings,    \* the octets that an application may hand to a constructor
  TextInputs, \* the octets that it may hand to one that takes a text
  Chars,      \* the characters that it may hand to one that takes a char
  Lengths     \* the lengths of the lists that it may hand to one

VARIABLES
  constructor,    \* what is constructed: of which codec, and whether with a code
  forms,   \* the messages that the input could be made into, the best first
  built,   \* what the constructor returns: a message, or none
  octets,  \* what each of the forms is encoded as
  readings \* what each of them is decoded as

vars == <<constructor, forms, built, octets, readings>>

-----------------------------------------------------------------------------
(* TryFrom and TryInto: <<value>> or, for an error, <<>>.                  *)

OrElse(first, second) == IF first # <<>> THEN first ELSE second
Checked(ok, n, s) == IF ok THEN <<Word(n, s)>> ELSE <<>>

AtomFrom(s) == Checked(ValidAtom(s), "Atom", s)
AtomExtFrom(s) == Checked(ValidAtomExt(s), "AtomExt", s)
QuotedFrom(s) == Checked(ValidQuoted(s), "Quoted", s)
LiteralFrom(s) == Checked(ValidLiteral(s), "Literal", s)
TagFrom(s) == Checked(ValidTag(s), "Tag", s)
TextFrom(s) == Checked(ValidText(s), "Text", s)
QuotedCharFrom(s) == Checked(ValidQuotedChar(s), "QuotedChar", s)
FlagFrom(s) == Checked(ValidFlag(s), "Flag", s)

\* Mutant: a quoted string is not even tried.
IStringAsLiteral(s) == LiteralFrom(s)

IStringFrom(s) == OrElse(QuotedFrom(s), LiteralFrom(s))
AStringFrom(s) == OrElse(AtomExtFrom(s), IStringFrom(s))

\* Mutant: a charset must be an atom.
CharsetAsAtom(s) == AtomFrom(s)

CharsetFrom(s) == OrElse(AtomFrom(s), QuotedFrom(s))

\* Mutant: the empty string is an empty token.
ListMailboxEmptyToken(s) ==
  IF s = <<>> THEN <<Word("Token", s)>> ELSE OrElse(Checked(ValidListChars(s), "Token", s), IStringFrom(s))

ListMailboxFrom(s) ==
  IF s = <<>> THEN QuotedFrom(s) ELSE OrElse(Checked(ValidListChars(s), "Token", s), IStringFrom(s))

Mailboxes(strings) == [i \in DOMAIN strings |-> MailboxFrom(strings[i])]
MailboxOtherFrom(s) == IF ValidMailboxOther(s) THEN AStringFrom(s) ELSE <<>>
NonZeroFrom(n) == IF n = 0 THEN <<>> ELSE <<Word("Number", <<ToString(n)>>)>>

\* Every form that octets can be given.
IStringForms(s) == <<Word("Quoted", s), Word("Literal", s)>>
AStringForms(s) == <<Word("AtomExt", s)>> \o IStringForms(s)

-----------------------------------------------------------------------------
(* Constructors: a message with a hole for the argument.                   *)

Hole == Word("Hole", <<>>)

RECURSIVE Filled(_, _)
Filled(node, value) == IF node = Hole THEN value ELSE [node EXCEPT !.c = [i \in DOMAIN @ |-> Filled(@[i], value)]]

Arg == Word("AtomExt", <<"x">>)
Inbox == Tree("INBOX", <<>>)
Nothing == Tree("Maybe", <<>>)
First == Tree("Set", <<Word("Single", <<"1">>)>>)
Alert == Tree("Code", <<Tree("ALERT", <<>>)>>)
Ready == Word("Text", <<"ready!">>)

OnAString ==
  {Tree("LOGIN", <<Hole, Arg>>), Tree("LOGIN", <<Arg, Hole>>), Tree("GETQUOTA", <<Hole>>),
   Tree("SETQUOTA", <<Hole, Tree("List", <<>>)>>), Tree("SEARCH", <<Tree("HEADER", <<Hole, Hole>>)>>)}
OnMailbox ==
  {Tree(k, <<Hole>>) : k \in {"CREATE", "DELETE", "SUBSCRIBE", "UNSUBSCRIBE", "GETQUOTAROOT"}}
    \cup {Tree(k, <<Hole, Nothing>>) : k \in {"SELECT", "EXAMINE"}}
    \cup {Tree("RENAME", <<Hole, Inbox>>), Tree("RENAME", <<Inbox, Hole>>), Tree("STATUS", <<Hole, Tree("List", <<>>)>>),
          Tree("LIST", <<Hole, Word("Token", <<"x">>)>>), Tree("COPY", <<First, Hole>>),
          Tree("APPEND", <<Hole, Nothing, Word("Literal", <<>>)>>)}
OnListMailbox == {Tree(k, <<Inbox, Hole>>) : k \in {"LIST", "LSUB"}}
OnCharset == {Tree("SEARCH", <<Tree("CHARSET", <<Hole>>), Tree("ALL", <<>>)>>)}
OnLiteral == {Tree("APPEND", <<Inbox, Nothing, Hole>>)}
OnAtom == {Tree("SEARCH", <<Tree("KEYWORD", <<Hole>>)>>), Tree("AUTHENTICATE", <<Hole>>), Tree("ENABLE", <<Hole>>)}
OnFlag ==
  {Tree("STORE", <<First, Nothing, Word("Kind", <<"FLAGS">>), Tree("List", <<Hole>>)>>),
   Tree("APPEND", <<Inbox, Tree("Maybe", <<Hole>>), Word("Literal", <<>>)>>)}

OnNString == {Tree("Data", <<Tree("FETCH", <<Word("Number", <<"1">>), Tree("Item", <<Tree("RFC822", <<Hole>>)>>)>>)>>)}
OnQuotedChar == {Tree("Data", <<Tree("LIST", <<Tree("List", <<>>), Hole, Inbox>>)>>)}
OnNonZero ==
  {Tree("Data", <<Tree("EXPUNGE", <<Hole>>)>>),
   Tree("Data", <<Tree("FETCH", <<Hole, Tree("Item", <<Tree("FLAGS", <<>>)>>)>>)>>)}
    \cup {Tree("Untagged", <<Tree("OK", <<>>), Tree("Code", <<Tree(k, <<Hole>>)>>), Ready>>) :
            k \in {"UIDNEXT", "UIDVALIDITY", "UNSEEN"}}

\* Greeting::new, Status::new and Status::bye, with a code and without.
OnText(code) ==
  {Tree("Untagged", <<Tree(k, <<>>)>> \o code \o <<Hole>>) : k \in {"OK", "NO", "BAD"}}
    \cup {Tree("Tagged", <<Word("Tag", <<"x">>), Tree("OK", <<>>)>> \o code \o <<Hole>>), Tree("Bye", code \o <<Hole>>)}
OnGreetingText(code) == {Tree("Greeting", <<Tree(k, <<>>)>> \o code \o <<Hole>>) : k \in {"OK", "PREAUTH", "BYE"}}

\* Messages with a Vec1 of n elements.
Repeated(n, node) == [i \in 1..n |-> node]
Lists(n) ==
  LET capabilities == Tree("CAPABILITY", Repeated(n, Word("Atom", <<"x">>)))
      item == Tree("Item", <<Tree("FLAGS", <<>>)>>)
      quota == Tree("QuotaGet", <<Word("Atom", <<"x">>), Word("Number", <<"0">>), Word("Number", <<"1">>)>>)
  IN  {Tree("Data", <<capabilities>>), Tree("Untagged", <<Tree("OK", <<>>), Tree("Code", <<capabilities>>), Ready>>),
       Tree("Data", <<Tree("FETCH", <<Word("Number", <<"1">>)>> \o Repeated(n, item))>>),
       Tree("Data", <<Tree("QUOTA", <<Arg>> \o Repeated(n, quota))>>)}
ListCommands(n) ==
  {Tree("ENABLE", Repeated(n, Word("Atom", <<"x">>))), Tree("SEARCH", Repeated(n, Tree("ALL", <<>>))),
   Tree("SORT", <<Tree("List", Repeated(n, Tree("DATE", <<>>))), Word("Atom", <<"x">>), Tree("ALL", <<>>)>>)}

-----------------------------------------------------------------------------
(* Calls.                                                                  *)

Message(codec, node) == IF codec = "Command" THEN <<Word("Tag", <<"x">>), node>> ELSE <<node>>

Call(codec, template, candidates, result) ==
  /\ constructor.codec = "None"
  /\ constructor' = [codec |-> codec, coded |-> \E i \in DOMAIN template.c : template.c[i].n = "Code"]
  /\ forms' = [i \in DOMAIN candidates |-> Message(codec, Filled(template, candidates[i]))]
  /\ built' = [i \in DOMAIN result |-> Message(codec, Filled(template, result[i]))]
  /\ UNCHANGED <<octets, readings>>

WithAString == \E s \in Strings, t \in OnAString : Call("Command", t, AStringForms(s), AStringFrom(s))
WithMailbox ==
  \E s \in Strings, t \in OnMailbox : Call("Command", t, Mailboxes(AStringForms(s)), Mailboxes(AStringFrom(s)))
WithMailboxOther ==
  \E s \in Strings : Call("Command", Tree("CREATE", <<Hole>>), AStringForms(s), MailboxOtherFrom(s))
WithListMailbox ==
  \E s \in Strings, t \in OnListMailbox :
    Call("Command", t, <<Word("Token", s)>> \o IStringForms(s), ListMailboxFrom(s))
WithCharset ==
  \E s \in Strings, t \in OnCharset : Call("Command", t, <<Word("Atom", s), Word("Quoted", s)>>, CharsetFrom(s))
WithLiteral == \E s \in Strings, t \in OnLiteral : Call("Command", t, <<Word("Literal", s)>>, LiteralFrom(s))
WithAtom == \E s \in Strings, t \in OnAtom : Call("Command", t, <<Word("Atom", s)>>, AtomFrom(s))
WithFlag == \E s \in Strings, t \in OnFlag : Call("Command", t, <<Word("Flag", s)>>, FlagFrom(s))
WithNString == \E s \in Strings, t \in OnNString : Call("Response", t, IStringForms(s), IStringFrom(s))
WithQuotedChar ==
  \E c \in Chars, t \in OnQuotedChar : Call("Response", t, <<Word("QuotedChar", <<c>>)>>, QuotedCharFrom(<<c>>))
WithNonZero ==
  \E n \in Lengths, t \in OnNonZero : Call("Response", t, <<Word("Number", <<ToString(n)>>)>>, NonZeroFrom(n))

\* Command::new and CommandBody::tag, Status::new with a tag
WithTagOfCommand ==
  \E s \in Strings :
    /\ constructor.codec = "None"
    /\ constructor' = [codec |-> "Command", coded |-> FALSE]
    /\ forms' = <<<<Word("Tag", s), Tree("NOOP", <<>>)>>>>
    /\ built' = [i \in DOMAIN TagFrom(s) |-> <<TagFrom(s)[i], Tree("NOOP", <<>>)>>]
    /\ UNCHANGED <<octets, readings>>
WithTagOfStatus ==
  \E s \in Strings :
    Call("Response", Tree("Tagged", <<Hole, Tree("OK", <<>>), Ready>>), <<Word("Tag", s)>>, TagFrom(s))

WithText ==
  \E s \in TextInputs, code \in {<<>>, <<Alert>>} : \E t \in OnText(code) :
    Call("Response", t, <<Word("Text", s)>>, TextFrom(s))
WithTextOfGreeting ==
  \E s \in TextInputs, code \in {<<>>, <<Alert>>} : \E t \in OnGreetingText(code) :
    Call("Greeting", t, <<Word("Text", s)>>, TextFrom(s))

\* Mutant: only what looks like a code is refused.
basic_bracket(code, s) ==
  SelectSeq(TextFrom(s), LAMBDA t : code # <<>> \/ t.t[1] # "[")

\* CommandContinuationRequest::basic
basic(code, s) == SelectSeq(TextFrom(s), LAMBDA t : NotAmbiguous(Tree("Continue", code \o <<t>>)))

WithTextOfContinuation ==
  \E s \in TextInputs, code \in {<<>>, <<Alert>>} :
    Call("Response", Tree("Continue", code \o <<Hole>>), <<Word("Text", s)>>, basic(code, s))

WithList ==
  \E n \in Lengths, c \in {"Command", "Response"} : \E t \in IF c = "Command" THEN ListCommands(n) ELSE Lists(n) :
    Call(c, t, <<Hole>>, IF n = 0 THEN <<>> ELSE <<Hole>>)

-----------------------------------------------------------------------------
(* Encoding and decoding.                                                  *)

EncodeForms ==
  /\ constructor.codec # "None" /\ octets = <<>>
  /\ octets' = [i \in DOMAIN forms |->
                  LET fragments == Rewritten(constructor.codec, forms[i])
                  IN  FlattenSeq([j \in DOMAIN fragments |-> fragments[j].data])]
  /\ UNCHANGED <<constructor, forms, built, readings>>

DecodeForms ==
  /\ octets # <<>> /\ readings = <<>>
  /\ readings' = [i \in DOMAIN octets |->
                    LET d == Decode(constructor.codec, octets[i])
                    IN  IF d.res = "Ok" /\ d.at = Len(octets[i]) + 1 THEN d.out ELSE <<>>]
  /\ UNCHANGED <<constructor, forms, built, octets>>

Init ==
  /\ constructor = [codec |-> "None", coded |-> FALSE]
  /\ forms = <<>> /\ built = <<>> /\ octets = <<>> /\ readings = <<>>

Next ==
  \/ WithAString \/ WithMailbox \/ WithMailboxOther \/ WithListMailbox \/ WithCharset \/ WithLiteral \/ WithAtom
  \/ WithFlag \/ WithNString \/ WithQuotedChar \/ WithNonZero \/ WithTagOfCommand \/ WithTagOfStatus \/ WithText
  \/ WithTextOfGreeting \/ WithTextOfContinuation \/ WithList
  \/ EncodeForms \/ DecodeForms

Spec == Init /\ [][Next]_vars

-----------------------------------------------------------------------------
(* Properties.                                                             *)

\* The forms that are read as what they are.
ReadAsTheyAre == {i \in DOMAIN readings : readings[i] = forms[i]}

\* "Don't use `code: None` *and* a `text` that starts with "[" as this would be
\* ambiguous" (response.rs:49-50 and 150-151).
Ambiguous ==
  constructor.codec \in {"Greeting", "Response"} /\ ~constructor.coded
    /\ \E i \in DOMAIN forms : LET said == Last(forms[i][1].c) IN said.n = "Text" /\ said.t # <<>> /\ said.t[1] = "["

\* Whatever octets an application passes to a constructor, it gets the simplest
\* message that arrives: no octets that could be sent are refused, what is built
\* is read as it was built, a literal, which costs a round trip, is built only
\* of octets that no quoted string can have, and quotes are put only around what
\* is no atom or token.
SimplestFormIsBuilt ==
  readings # <<>> /\ ~Ambiguous =>
    built = IF ReadAsTheyAre = {} THEN <<>> ELSE <<forms[Min(ReadAsTheyAre)]>>
=============================================================================
