-------------------------------- MODULE Grammar --------------------------------
(***************************************************************************)
(* A grammar as a value: the parser combinators of nom that imap-codec is  *)
(* written with, as records that the module Decoder interprets, and the    *)
(* classes of octets of imap-types/src/utils.rs.                           *)
(*                                                                         *)
(* A message is a sequence of tokens.  A token is one octet of its own     *)
(* ("(", "*", " "), the two octets CR LF, or a word: a run of octets that  *)
(* no parser looks into and no other word of the model begins with.  A     *)
(* decoded message is a tree of nodes [n, t, c]: what it is, its text, and *)
(* its parts.                                                              *)
(***************************************************************************)
EXTENDS Naturals, Integers, Sequences, SequencesExt

Word(n, t) == [n |-> n, t |-> t, c |-> <<>>]
Tree(n, c) == [n |-> n, t |-> <<>>, c |-> c]

\* The keywords that are more than one token: those that begin with another
\* one, and those with punctuation in them.
Spelling ==
  [k \in {"OLDER", "IDLE", "BODYSTRUCTURE", "BODY.PEEK", "BODY[", "BODY.PEEK[",
          "BINARY[", "BINARY.PEEK", "BINARY.PEEK[", "BINARY.SIZE", "BINARY.SIZE[",
          "RFC822.HEADER", "RFC822.SIZE", "RFC822.TEXT", "DELETED-STORAGE",
          "HEADER.FIELDS", "HEADER.FIELDS.NOT", "GETQUOTAROOT", "QUOTAROOT",
          "READ-ONLY", "READ-WRITE", "UNKNOWN-CTE", "(EARLIER)", "\"TEXT\"",
          "\"MESSAGE\" \"RFC822\"", "* ", "+ ", " (", ") ", "] ", "~{", "\\\\", "\\*",
          "\"/flags/", "=="} |->
     CASE k = "OLDER" -> <<"OLD", "ER">>
       [] k = "IDLE" -> <<"ID", "LE">>
       [] k = "BODYSTRUCTURE" -> <<"BODY", "STRUCTURE">>
       [] k = "BODY.PEEK" -> <<"BODY", ".", "PEEK">>
       [] k = "BODY[" -> <<"BODY", "[">>
       [] k = "BODY.PEEK[" -> <<"BODY", ".", "PEEK", "[">>
       [] k = "BINARY[" -> <<"BINARY", "[">>
       [] k = "BINARY.PEEK" -> <<"BINARY", ".", "PEEK">>
       [] k = "BINARY.PEEK[" -> <<"BINARY", ".", "PEEK", "[">>
       [] k = "BINARY.SIZE" -> <<"BINARY", ".", "SIZE">>
       [] k = "BINARY.SIZE[" -> <<"BINARY", ".", "SIZE", "[">>
       [] k = "RFC822.HEADER" -> <<"RFC822", ".", "HEADER">>
       [] k = "RFC822.SIZE" -> <<"RFC822", ".", "SIZE">>
       [] k = "RFC822.TEXT" -> <<"RFC822", ".", "TEXT">>
       [] k = "DELETED-STORAGE" -> <<"DELETED", "-", "STORAGE">>
       [] k = "HEADER.FIELDS" -> <<"HEADER", ".", "FIELDS">>
       [] k = "HEADER.FIELDS.NOT" -> <<"HEADER", ".", "FIELDS", ".", "NOT">>
       [] k = "GETQUOTAROOT" -> <<"GETQUOTA", "ROOT">>
       [] k = "QUOTAROOT" -> <<"QUOTA", "ROOT">>
       [] k = "READ-ONLY" -> <<"READ", "-", "ONLY">>
       [] k = "READ-WRITE" -> <<"READ", "-", "WRITE">>
       [] k = "UNKNOWN-CTE" -> <<"UNKNOWN", "-", "CTE">>
       [] k = "(EARLIER)" -> <<"(", "EARLIER", ")">>
       [] k = "\"TEXT\"" -> <<"\"", "TEXT", "\"">>
       [] k = "\"MESSAGE\" \"RFC822\"" -> <<"\"", "MESSAGE", "\"", " ", "\"", "RFC822", "\"">>
       [] k = "* " -> <<"*", " ">>
       [] k = "+ " -> <<"+", " ">>
       [] k = " (" -> <<" ", "(">>
       [] k = ") " -> <<")", " ">>
       [] k = "] " -> <<"]", " ">>
       [] k = "\\*" -> <<"\\", "*">>
       [] k = "~{" -> <<"~", "{">>
       [] k = "\\\\" -> <<"\\", "\\">>
       [] k = "\"/flags/" -> <<"\"", "/", "flags", "/">>
       [] k = "==" -> <<"=", "=">>]

Octets(keyword) == IF keyword \in DOMAIN Spelling THEN Spelling[keyword] ELSE <<keyword>>

-----------------------------------------------------------------------------
(* Octets.                                                                 *)

\* "TAB" stands for the controls that are text-chars, "8BIT" for the octets
\* from 0x80 on.
CTL == {"CRLF", "NUL", "TAB"}
NotChar == {"NUL", "8BIT"}
QuotedSpecials == {"\"", "\\"}
ListWildcards == {"%", "*"}
RespSpecials == {"]"}
AtomSpecials == {"(", ")", "{", " "} \cup CTL \cup ListWildcards \cup QuotedSpecials \cup RespSpecials

\* What ends a run of atom-chars, of astring-chars, of list-chars, of the chars
\* of a tag, of text-chars, of quoted chars, of the octets of an unknown code,
\* of base64-chars; and the tokens that are one quoted char.
NotAtom == AtomSpecials \cup NotChar
NotAstring == NotAtom \ RespSpecials
NotList == NotAtom \ (RespSpecials \cup ListWildcards)
NotTag == NotAstring \cup {"+"}
NotText == NotChar \cup {"CRLF"}
NotQuotable == NotText \cup QuotedSpecials
NotCodeOther == {"]", "CRLF"}
NotBase64 == NotAtom \cup {"=", "-", ".", ",", ":", "<", ">", "[", "}", "~"}
QuotableOctets == {"x", "+", "=", "TAB", " ", "(", ")", "/", ".", "-", "]", "[", "*", "%", "{", "}"}

\* Numerals are whole tokens; the bounds are those of the model.
MaxNumeral == 60
Years == {"1994", "2024"}
LeapYears == {"2024"}
BeyondU32 == "4294967296"
BeyondU64 == "18446744073709551616"
OneDigit == {ToString(n) : n \in 0..9}
TwoDigits == {ToString(n) : n \in 10..MaxNumeral} \cup {"0" \o d : d \in OneDigit}
Numerals == {ToString(n) : n \in 0..MaxNumeral} \cup Years \cup {BeyondU32, BeyondU64}
ValueOf(numeral) == CHOOSE n \in 0..MaxNumeral : ToString(n) = numeral

-----------------------------------------------------------------------------
(* Combinators.                                                            *)

Tag(keyword) == [op |-> "Tag", keyword |-> keyword]
Class(set) == [op |-> "Class", set |-> set]
Run(stop, min) == [op |-> "Run", stop |-> stop, min |-> min]
While(set) == [op |-> "While", set |-> set]
Tuple(gs) == [op |-> "Tuple", gs |-> gs]
Alt(gs) == [op |-> "Alt", gs |-> gs]
Opt(g) == [op |-> "Opt", g |-> g]
Many(g, min) == [op |-> "Many", g |-> g, min |-> min]
Peek(g) == [op |-> "Peek", g |-> g]
When(start, then, otherwise) == [op |-> "When", start |-> start, then |-> then, otherwise |-> otherwise]
Separated(g, sep, min) == [op |-> "Separated", g |-> g, sep |-> sep, min |-> min]

\* What a parser makes of what it has read: a tree of the parts, a word with
\* the text, always the same value, or whatever the function f makes of it.
Node(n, g) == [op |-> "Node", n |-> n, g |-> g]
Text(n, g) == [op |-> "Text", n |-> n, g |-> g]
Value(node, g) == [op |-> "Value", node |-> node, g |-> g]
Map(f, g) == [op |-> "Map", f |-> f, g |-> g]
Check(test, g, otherwise) == [op |-> "Check", test |-> test, g |-> g, otherwise |-> otherwise]
LiteralOf(n, start) == [op |-> "Literal", n |-> n, start |-> start]

\* A rule that calls itself, with the number of calls that are left.
Ref(rule, n) == [op |-> "Ref", rule |-> rule, n |-> n]
RecursionLimitExceeded == [op |-> "Exceeded"]

sp == Tag(" ")
dquote == Tag("\"")
Preceded(gs) == [i \in 1..(2 * Len(gs)) |-> IF i % 2 = 1 THEN sp ELSE gs[i \div 2]]
Keyword(k) == Node(k, Tag(k))
KeywordWith(k, gs) == Node(k, Tuple(<<Tag(k)>> \o Preceded(gs)))
OneOf(keywords) == Alt([i \in DOMAIN keywords |-> Keyword(keywords[i])])
Parenthesized(g, min) == Tuple(<<Tag("("), Separated(g, sp, min), Tag(")")>>)
List(g, min) == Node("List", Parenthesized(g, min))
Maybe(g) == Node("Maybe", Opt(g))
=============================================================================
