---------------------------- MODULE ResponseLayout ----------------------------
(***************************************************************************)
(* imap-codec/src/codec/encode.rs, and the encoders of the extensions: how *)
(* greetings and responses are written.  The layout of a value is the      *)
(* sequence of what its encode_ctx writes: octets and the values it is     *)
(* made of, which are written in turn (Encode in module Encoder).          *)
(***************************************************************************)
EXTENDS Grammar

\* Octets that are written as they are.
O(keyword) == Word("Octets", Octets(keyword))

-----------------------------------------------------------------------------
(* utils                                                                   *)

\* join_serializable: sep between the elements, none around them.
Joined(elements, sep) ==
  [i \in 1..(2 * Len(elements) - 1) |-> IF i % 2 = 1 THEN elements[(i + 1) \div 2] ELSE O(sep)]
JoinedBySpace(elements) == IF elements = <<>> THEN <<>> ELSE Joined(elements, " ")
InBrackets(layout) == <<O("(")>> \o layout \o <<O(")")>>
EachAfterSpace(elements) == [i \in 1..(2 * Len(elements)) |-> IF i % 2 = 1 THEN O(" ") ELSE elements[i \div 2]]

\* Mutant: an empty list is written as one.
EmptyList1(elements, layout) == InBrackets(layout)

\* "NIL" stands for a list without elements, which has no other syntax.
List1OrNil(elements, layout) == IF elements = <<>> THEN <<O("NIL")>> ELSE InBrackets(layout)
List1AttributeValueOrNil(params) == List1OrNil(params, JoinedBySpace(params))

-----------------------------------------------------------------------------
(* Greeting, Status, CommandContinuationRequest                            *)

CodeAndText(parts) ==
  IF Len(parts) = 1 THEN parts ELSE <<O("["), parts[1], O("] "), parts[2]>>

GreetingLayout(parts) == <<O("* "), parts[1], O(" ")>> \o CodeAndText(Tail(parts)) \o <<O("CRLF")>>

format_status(tag, status, parts) == <<tag, O(" "), status, O(" ")>> \o CodeAndText(parts) \o <<O("CRLF")>>
StatusLayout(type, parts) ==
  CASE type = "Untagged" -> format_status(O("*"), parts[1], Tail(parts))
    [] type = "Tagged" -> format_status(parts[1], parts[2], Tail(Tail(parts)))
    [] type = "Bye" -> format_status(O("*"), O("BYE"), parts)

ContinueLayout(parts) == <<O("+ ")>> \o CodeAndText(parts) \o <<O("CRLF")>>
ChallengeLayout(data) == <<O("+ "), Word("Octets", data), O("CRLF")>>

-----------------------------------------------------------------------------
(* Code                                                                    *)

CodeLayout(code) ==
  CASE code.n = "Other" -> <<Word("Octets", code.t)>>
    [] code.n = "BADCHARSET" ->
         <<O("BADCHARSET")>> \o (IF code.c = <<>> THEN <<>> ELSE <<O(" ")>> \o InBrackets(JoinedBySpace(code.c)))
    [] code.n = "PERMANENTFLAGS" -> <<O("PERMANENTFLAGS"), O(" ")>> \o InBrackets(JoinedBySpace(code.c))
    [] OTHER -> <<O(code.n)>> \o EachAfterSpace(code.c)

UidSetLayout(elements) == Joined(elements, ",")

-----------------------------------------------------------------------------
(* Thread: Display keeps the answers that are still to be written on a     *)
(* stack.                                                                  *)

Answers(thread) ==
  IF thread.n = "Nested" THEN thread.c
  ELSE IF Last(thread.c).n = "Answers" THEN Last(thread.c).c ELSE <<>>
write_prefix(thread) ==
  JoinedBySpace(SelectSeq(thread.c, LAMBDA x : x.n = "Number"))
Opening(thread) ==
  <<O("(")>> \o write_prefix(thread)
    \o (IF thread.n = "Members" /\ Answers(thread) # <<>> THEN <<O(" ")>> ELSE <<>>)

\* Mutant: the answers are taken from the bottom of the stack.
RECURSIVE WriteAnswersInTurn(_, _)
WriteAnswersInTurn(stack, written) ==
  IF stack = <<>> THEN written
  ELSE IF Head(stack) = <<>> THEN WriteAnswersInTurn(Tail(stack), Append(written, O(")")))
  ELSE LET thread == Head(Head(stack))
       IN  WriteAnswersInTurn(Append([stack EXCEPT ![1] = Tail(@)], Answers(thread)),
                              written \o Opening(thread))

RECURSIVE WriteAnswers(_, _)
WriteAnswers(stack, written) ==
  IF stack = <<>> THEN written
  ELSE IF Last(stack) = <<>> THEN WriteAnswers(Front(stack), Append(written, O(")")))
  ELSE LET thread == Head(Last(stack))
       IN  WriteAnswers(Append([stack EXCEPT ![Len(stack)] = Tail(@)], Answers(thread)),
                        written \o Opening(thread))

ThreadLayout(thread) == WriteAnswers(<<Answers(thread)>>, Opening(thread))

-----------------------------------------------------------------------------
(* Data                                                                    *)

\* A delimiter is written in quotes unless there is none.
DelimiterLayout(delimiter) ==
  IF delimiter.n = "NIL" THEN <<O("NIL")>> ELSE <<O("\""), delimiter, O("\"")>>

MailboxListLayout(parts) ==
  InBrackets(JoinedBySpace(parts[1].c)) \o <<O(" ")>> \o DelimiterLayout(parts[2]) \o <<O(" "), parts[3]>>

FoundLayout(parts) ==
  FlattenSeq([i \in DOMAIN parts |->
    IF parts[i].n = "MODSEQ" THEN <<O(" ("), O("MODSEQ"), O(" "), parts[i].c[1], O(")")>>
    ELSE <<O(" "), parts[i]>>])

IdLayout(parameters) == IF parameters.n = "NIL" THEN <<O("NIL")>> ELSE InBrackets(JoinedBySpace(parameters.c))

MetadataLayout(items) ==
  IF items.n = "WithValues" THEN InBrackets(JoinedBySpace(items.c)) ELSE JoinedBySpace(items.c)

NamespaceLayout(parts) ==
  InBrackets(<<parts[1], O(" ")>> \o DelimiterLayout(parts[2]) \o SubSeq(parts, 3, Len(parts)))
NamespaceExtLayout(parts) == <<O(" "), parts[1], O(" "), parts[2]>>

QuotaGetLayout(parts) == JoinedBySpace(parts)

\* What stands after the number of messages or of a message.
CountLayout(data) ==
  <<data.c[1], O(" "), O(data.n)>>
    \o (IF data.n = "FETCH" THEN <<O(" ")>> \o InBrackets(JoinedBySpace(Tail(data.c))) ELSE <<>>)

DataBodyLayout(data) ==
  CASE data.n \in {"LIST", "LSUB"} -> <<O(data.n), O(" ")>> \o MailboxListLayout(data.c)
    [] data.n \in {"STATUS", "QUOTA"} ->
         <<O(data.n), O(" "), data.c[1], O(" ")>> \o InBrackets(JoinedBySpace(Tail(data.c)))
    [] data.n \in {"SEARCH", "SORT"} -> <<O(data.n)>> \o FoundLayout(data.c)
    [] data.n = "THREAD" -> <<O("THREAD")>> \o (IF data.c = <<>> THEN <<>> ELSE <<O(" ")>> \o data.c)
    [] data.n = "FLAGS" -> <<O("FLAGS"), O(" ")>> \o InBrackets(JoinedBySpace(data.c))
    [] data.n \in {"EXISTS", "RECENT", "EXPUNGE", "FETCH"} -> CountLayout(data)
    [] data.n = "ID" -> <<O("ID"), O(" ")>> \o IdLayout(data.c[1])
    [] OTHER -> <<O(data.n)>> \o EachAfterSpace(data.c)

DataLayout(data) == <<O("* ")>> \o DataBodyLayout(data) \o <<O("CRLF")>>

StatusDataItemLayout(item) == <<O(item.n), O(" "), item.c[1]>>

-----------------------------------------------------------------------------
(* MessageDataItem                                                         *)

SectionLayout(section) == IF section.c = <<>> THEN <<>> ELSE Joined(section.c, ".")

MessageDataItemLayout(item) ==
  CASE item.n \in {"BODY[", "BINARY[", "BINARY.SIZE["} ->
         <<O(item.n)>> \o SectionLayout(item.c[1]) \o <<O("]")>>
           \o SubSeq(item.c, 2, Len(item.c) - 1) \o <<O(" "), Last(item.c)>>
    [] item.n \in {"FLAGS", "MODSEQ"} -> <<O(item.n), O(" ")>> \o InBrackets(JoinedBySpace(item.c))
    [] OTHER -> <<O(item.n), O(" "), item.c[1]>>

-----------------------------------------------------------------------------
(* BodyStructure and Envelope                                              *)

BodyStructureLayout(type, parts) ==
  LET bodies == SelectSeq(parts, LAMBDA x : x.n \in {"SinglePart", "MultiPart"})
      others == SelectSeq(parts, LAMBDA x : x.n \notin {"SinglePart", "MultiPart"})
  IN  InBrackets(IF type = "SinglePart" THEN <<parts[1]>> \o EachAfterSpace(Tail(parts)) ELSE bodies \o EachAfterSpace(others))

BodyLayout(type, parts) ==
  CASE type = "Basic" -> JoinedBySpace(parts)
    [] type = "Message" -> JoinedBySpace(<<O("\"MESSAGE\" \"RFC822\"")>> \o parts)
    [] type = "TextBody" -> JoinedBySpace(<<O("\"TEXT\"")>> \o parts)

BasicFieldsLayout(parts) == JoinedBySpace(parts)
\* Envelope and Address
EnvelopeLayout(parts) == InBrackets(JoinedBySpace(parts))

\* The extensions of a single part and of a multipart, Disposition, Language
\* and Location: a value that is only there if the ones before it are.
ExtensionLayout(parts) == <<parts[1]>> \o EachAfterSpace(Tail(parts))

-----------------------------------------------------------------------------
(* EncodeIntoContext                                                       *)

ResponseTypes ==
  {"Greeting", "Untagged", "Tagged", "Bye", "Continue", "Challenge", "Code", "UidSet",
   "Data", "StatusItem", "Item", "Members", "Nested", "WithValues", "WithoutValues", "Namespaces",
   "Namespace", "NamespaceExt", "QuotaGet", "SinglePart", "MultiPart", "Basic", "Message", "TextBody", "Fields",
   "Params", "Envelope", "Addresses", "Address", "SinglePartExt", "MultiPartExt", "Disposition",
   "Disposed", "Language", "Languages", "Location"}

Layout(node) ==
  CASE node.n = "Greeting" -> GreetingLayout(node.c)
    [] node.n \in {"Untagged", "Tagged", "Bye"} -> StatusLayout(node.n, node.c)
    [] node.n = "Continue" -> ContinueLayout(node.c)
    [] node.n = "Challenge" -> ChallengeLayout(node.t)
    [] node.n = "Code" -> CodeLayout(node.c[1])
    [] node.n = "UidSet" -> UidSetLayout(node.c)
    [] node.n = "Data" -> DataLayout(node.c[1])
    [] node.n = "StatusItem" -> StatusDataItemLayout(node.c[1])
    [] node.n = "Item" -> MessageDataItemLayout(node.c[1])
    [] node.n \in {"Members", "Nested"} -> ThreadLayout(node)
    [] node.n \in {"WithValues", "WithoutValues"} -> MetadataLayout(node)
    [] node.n = "Namespace" -> NamespaceLayout(node.c)
    [] node.n = "NamespaceExt" -> NamespaceExtLayout(node.c)
    [] node.n = "QuotaGet" -> QuotaGetLayout(node.c)
    [] node.n \in {"SinglePart", "MultiPart"} -> BodyStructureLayout(node.n, node.c)
    [] node.n \in {"Basic", "Message", "TextBody"} -> BodyLayout(node.n, node.c)
    [] node.n = "Fields" -> BasicFieldsLayout(node.c)
    [] node.n \in {"Envelope", "Address"} -> EnvelopeLayout(node.c)
    [] node.n \in {"Addresses", "Namespaces"} -> List1OrNil(node.c, node.c)
    [] node.n = "Params" -> List1AttributeValueOrNil(node.c)
    [] node.n \in {"Disposed", "Languages"} -> List1OrNil(node.c, JoinedBySpace(node.c))
    [] node.n \in {"SinglePartExt", "MultiPartExt", "Disposition", "Language", "Location"} ->
         ExtensionLayout(node.c)
=============================================================================
