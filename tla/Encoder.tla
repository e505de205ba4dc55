-------------------------------- MODULE Encoder --------------------------------
(***************************************************************************)
(* imap-codec/src/codec/encode.rs: the fragments that a command, the data  *)
(* of AUTHENTICATE, the end of IDLE, a greeting or a response are sent as. *)
(***************************************************************************)
EXTENDS ResponseLayout

CONSTANT MaxU32  \* u32::MAX

SequenceNumbersOf == INSTANCE SequenceNumbers

-----------------------------------------------------------------------------
(* EncodeContext: the octets written since the last fragment and the       *)
(* fragments.                                                              *)

Fragment(kind, mode, data) == [kind |-> kind, mode |-> mode, data |-> data]
EncodeContext == [accumulator |-> <<>>, items |-> <<>>]

write_all(ctx, data) == [ctx EXCEPT !.accumulator = @ \o data]

push_line(ctx) ==
  [accumulator |-> <<>>, items |-> Append(ctx.items, Fragment("Line", "", ctx.accumulator))]

push_literal(ctx, mode) ==
  [accumulator |-> <<>>, items |-> Append(ctx.items, Fragment("Literal", mode, ctx.accumulator))]

into_items(ctx) == IF ctx.accumulator = <<>> THEN ctx.items ELSE push_line(ctx).items

-----------------------------------------------------------------------------
(* Values.                                                                 *)

\* Mutant: backslashes are not escaped.
EscapeQuotesOnly(s) == FlattenSeq([i \in DOMAIN s |-> IF s[i] = "\"" THEN <<"\\", s[i]>> ELSE <<s[i]>>])

Escape(s) ==
  FlattenSeq([i \in DOMAIN s |-> IF s[i] \in QuotedSpecials THEN <<"\\", s[i]>> ELSE <<s[i]>>])

\* A set is normalized before it is written; a number is its numeral.
SeqOrUidOf(token) == IF token = "*" THEN SequenceNumbersOf!Asterisk ELSE ValueOf(token)
TokenOf(x) == IF x = SequenceNumbersOf!Asterisk THEN "*" ELSE ToString(x)
SequenceOf(node) ==
  IF node.n = "Single" THEN SequenceNumbersOf!Single(SeqOrUidOf(node.t[1]))
  ELSE SequenceNumbersOf!Between(SeqOrUidOf(node.t[1]), SeqOrUidOf(node.t[3]))
NodeOf(q) ==
  IF q.kind = "Single" THEN Word("Single", <<TokenOf(q.a)>>)
  ELSE Word("Range", <<TokenOf(q.a), ":", TokenOf(q.b)>>)
NormalizedSet(nodes) ==
  LET set == CHOOSE s \in SequenceNumbersOf!Normalizations([i \in DOMAIN nodes |-> SequenceOf(nodes[i])]) : TRUE
  IN  [i \in DOMAIN set |-> NodeOf(set[i])]

-----------------------------------------------------------------------------
(* encode_ctx                                                              *)

RECURSIVE Encode(_, _)

\* join_serializable
RECURSIVE Join(_, _, _)
Join(ctx, nodes, sep) ==
  IF nodes = <<>> THEN ctx
  ELSE IF Len(nodes) = 1 THEN Encode(ctx, nodes[1])
  ELSE Join(write_all(Encode(ctx, Head(nodes)), sep), Tail(nodes), sep)

InParentheses(ctx, nodes) == write_all(Join(write_all(ctx, <<"(">>), nodes, <<" ">>), <<")">>)

\* Mutant: the data of a literal is sent along with its announcement.
EncodeLiteralAtOnce(ctx, start, mode, data) ==
  push_literal(write_all(ctx, Octets(start) \o <<ToString(Len(data))>>
                 \o (IF mode = "+" THEN <<"+">> ELSE <<>>) \o <<"}", "CRLF">> \o data), mode)

EncodeLiteral(ctx, start, mode, data) ==
  LET announced == write_all(ctx, Octets(start) \o <<ToString(Len(data))>>
                     \o (IF mode = "+" THEN <<"+">> ELSE <<>>) \o <<"}", "CRLF">>)
  IN  push_literal(write_all(push_line(announced), data), mode)

\* A list that is left out, with the space before it, if it is empty.
EncodeMaybe(ctx, nodes) ==
  IF nodes = <<>> THEN ctx ELSE InParentheses(write_all(ctx, <<" ">>), nodes)

\* One item is written as it is, any other number in parentheses.
EncodeItems(ctx, nodes) == IF Len(nodes) = 1 THEN Encode(ctx, nodes[1]) ELSE InParentheses(ctx, nodes)

\* "BODY[" section "]" and the part of it that is asked for.
EncodeBodyExt(ctx, node) ==
  Join(write_all(Join(write_all(ctx, Octets(node.n)), node.c[1].c, <<".">>), <<"]">>), Tail(node.c), <<>>)

\* What follows a keyword: each argument after a space, optional ones if any.
EncodeArguments(ctx, nodes) ==
  FoldLeft(LAMBDA acc, arg : IF arg.n = "Maybe" THEN EncodeMaybe(acc, arg.c)
                             ELSE Encode(write_all(acc, <<" ">>), arg), ctx, nodes)

EncodeKeyword(ctx, node) == EncodeArguments(write_all(ctx, Octets(node.n)), node.c)

InQuotes(ctx, text) == write_all(ctx, <<"\"">> \o text \o <<"\"">>)

\* "To send a zero-length initial response, the client MUST send ... (=)".
EncodeInitialResponse(ctx, data) == write_all(ctx, IF data = <<>> THEN <<"=">> ELSE data)

\* Values that are written as they are.
Verbatim == {"Atom", "AtomExt", "Token", "Flag", "Number", "Part", "Partial", "Single", "Range", "Kind", "EntryName",
             "Octets", "Text", "Tag"}

Encode(ctx, node) ==
  CASE node.n \in Verbatim -> write_all(ctx, node.t)
    [] node.n = "QuotedChar" -> write_all(ctx, Escape(node.t))
    [] node.n = "Quoted" -> InQuotes(ctx, Escape(node.t))
    [] node.n \in {"Date", "DateTime"} -> InQuotes(ctx, node.t)
    [] node.n = "Literal" -> EncodeLiteral(ctx, "{", "", node.t)
    [] node.n = "Literal+" -> EncodeLiteral(ctx, "{", "+", node.t)
    [] node.n = "Literal8" -> EncodeLiteral(ctx, "~{", "", node.t)
    [] node.n = "Literal8+" -> EncodeLiteral(ctx, "~{", "+", node.t)
    [] node.n = "Base64" -> EncodeInitialResponse(ctx, node.t)
    [] node.n = "Set" -> Join(ctx, NormalizedSet(node.c), <<",">>)
    [] node.n = "List" -> InParentheses(ctx, node.c)
    [] node.n = "Items" -> EncodeItems(ctx, node.c)
    [] node.n \in {"BODY[", "BODY.PEEK[", "BINARY[", "BINARY.PEEK[", "BINARY.SIZE["} ->
         EncodeBodyExt(ctx, node)
    [] OTHER -> EncodeKeyword(ctx, node)

-----------------------------------------------------------------------------
(* The codecs.                                                             *)

EncodeCommand(tag, body) ==
  into_items(write_all(Encode(write_all(EncodeContext, tag \o <<" ">>), body), <<"CRLF">>))

\* The values and octets that a greeting or a response is made of, in order.
RECURSIVE Parts(_)
Parts(node) ==
  IF node.n \notin ResponseTypes THEN <<node>>
  ELSE LET layout == Layout(node) IN FlattenSeq([i \in DOMAIN layout |-> Parts(layout[i])])

\* What is in the context when the values of b have been written after those
\* of a.
Following(a, b) ==
  IF b.items = <<>> THEN write_all(a, b.accumulator)
  ELSE [accumulator |-> b.accumulator,
        items |-> a.items \o <<[b.items[1] EXCEPT !.data = a.accumulator \o @]>> \o Tail(b.items)]

RECURSIVE EncodeParts(_)
EncodeParts(parts) ==
  LET half == Len(parts) \div 2
  IN  IF Len(parts) <= 1 THEN Join(EncodeContext, parts, <<>>)
      ELSE Following(EncodeParts(SubSeq(parts, 1, half)), EncodeParts(SubSeq(parts, half + 1, Len(parts))))

\* Greetings and responses: each encoder writes its own CR LF.
EncodeResponse(node) == into_items(EncodeParts(Parts(node)))

\* The data of AUTHENTICATE, "*" and the end of IDLE are lines.
EncodeLine(data) == into_items(write_all(EncodeContext, data \o <<"CRLF">>))
=============================================================================
