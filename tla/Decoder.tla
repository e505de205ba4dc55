-------------------------------- MODULE Decoder --------------------------------
(***************************************************************************)
(* What the codecs of imap-codec/src/codec/decode.rs make of the bytes     *)
(* that have arrived: a message and the rest, more bytes are needed, a     *)
(* literal is announced, or the bytes are no message.                      *)
(*                                                                         *)
(* Parse gives nom's streaming combinators their meaning.  An Error lets   *)
(* the next alternative try, all other results end the parse.              *)
(***************************************************************************)
EXTENDS ResponseGrammar

Ok(at, out) == [res |-> "Ok", at |-> at, out |-> out]
Stop(res) == [res |-> res]

\* The tag is not known here: command fills it in.
LiteralFound(length, mode) ==
  [res |-> "LiteralFound", tag |-> <<>>, length |-> length, mode |-> mode]

-----------------------------------------------------------------------------
(* The functions that the parsers apply to what they have read.            *)

RECURSIVE Replaced(_, _, _)
Replaced(s, pair, by) ==
  IF Len(s) < 2 THEN s
  ELSE IF SubSeq(s, 1, 2) = pair THEN <<by>> \o Replaced(SubSeq(s, 3, Len(s)), pair, by)
  ELSE <<Head(s)>> \o Replaced(Tail(s), pair, by)

Unescape(s) == Replaced(Replaced(s, <<"\\", "\\">>, "\\"), <<"\\", "\"">>, "\"")

\* Every spelling of INBOX is the same mailbox.
MailboxFrom(node) == IF node.t = <<"INBOX">> THEN Tree("INBOX", <<>>) ELSE node

\* A day is a number, whether it is written with one digit or two.
Padded(t) ==
  LET day == IF t[1] = " " THEN Tail(t) ELSE t
  IN  IF day[1] \in OneDigit THEN <<"0" \o day[1]>> \o Tail(day) ELSE day

Mapped(f, node) ==
  CASE f = "unescape" -> [node EXCEPT !.t = Unescape(@)]
    [] f = "mailbox" -> MailboxFrom(node)
    [] f = "pad" -> [node EXCEPT !.t = Padded(@)]

Between(a, b) == {d \in TwoDigits : \E n \in a..b : d \in {ToString(n), "0" \o ToString(n)}}

\* from_ymd_opt, from_hms_opt and east_opt, over the numerals of the model.
ValidDate(day, month, year) ==
  /\ day \in Between(1, 31)
  /\ month = "Feb" => day \notin {"30", "31"} /\ (day = "29" => year \in LeapYears)
  /\ month \in {"Apr", "Jun", "Sep", "Nov"} => day # "31"
ValidTime(h, m, s) == h \in Between(0, 23) /\ m \in Between(0, 59) /\ s \in Between(0, 59)
ValidZone(hh, mm) == hh \in Between(0, 23) /\ (hh = "23" => mm \in Between(0, 59))

\* The words of the model that are base64, and the "=" that must follow them.
Padding == [dGVz |-> <<>>, dGVzdGU |-> <<"=">>, dGVzdA |-> <<"=", "=">>]
ValidBase64(t) == t = <<>> \/ (t[1] \in DOMAIN Padding /\ Tail(t) = Padding[t[1]])

\* CommandContinuationRequestBasic::new: without a code, a text that starts
\* with "[" or that is base64 would be taken for something else.
NotAmbiguous(node) ==
  LET said == Last(node.c).t
  IN  Len(node.c) = 1 => said[1] # "[" /\ ~ValidBase64(said)

Valid(test, node) ==
  CASE test = "u32" -> node.t[1] \notin {BeyondU32, BeyondU64}
    [] test = "u64" -> node.t[1] # BeyondU64
    [] test = "nonzero" -> node.t[1] # "0"
    [] test = "base64" -> ValidBase64(node.t)
    [] test = "continue" -> node.n = "Challenge" \/ NotAmbiguous(node)
    [] test = "date" -> ValidDate(node.t[1], node.t[3], node.t[5])
    [] test = "date_time" ->
         ValidDate(node.t[1], node.t[3], node.t[5]) /\ ValidTime(node.t[7], node.t[9], node.t[11])
           /\ ValidZone(node.t[14], node.t[15])

-----------------------------------------------------------------------------
(* nom                                                                     *)

\* Where a run of tokens of s ends that none of the places in ends belongs to.
EndOfRun(s, ends) == Min(ends \cup {Len(s) + 1})

RunTo(s, i, j, min) ==
  CASE j > Len(s) -> Stop("Incomplete")
    [] j <= Len(s) /\ j < i + min -> Stop("Error")
    [] OTHER -> Ok(j, <<>>)

ParseTag(octets, s, i) ==
  LET seen == Min({Len(octets), Len(s) - i + 1})
  IN  CASE SubSeq(s, i, i + seen - 1) # SubSeq(octets, 1, seen) -> Stop("Error")
        [] SubSeq(s, i, i + seen - 1) = SubSeq(octets, 1, seen) /\ seen < Len(octets) -> Stop("Incomplete")
        [] OTHER -> Ok(i + seen, <<>>)

\* Mutant: a literal is only announced when some of its data has arrived.
LiteralDataEager(n, length, mode, s, i) ==
  IF i + length - 1 > Len(s) THEN Stop("Incomplete")
  ELSE LET data == SubSeq(s, i, i + length - 1)
       IN  IF n = "Literal" /\ Contains(data, "NUL") THEN Stop("Failure")
           ELSE Ok(i + length, <<Word(n \o mode, data)>>)

\* Mutant: one octet less than announced is taken for the data.
LiteralDataShort(n, length, mode, s, i) ==
  IF i > Len(s) THEN LiteralFound(length, mode)
  ELSE IF i + length - 2 > Len(s) THEN Stop("Incomplete")
  ELSE Ok(i + length - 1, <<Word(n \o mode, SubSeq(s, i, i + length - 2))>>)

\* The data of a literal, after its announcement: "This doesn't trigger when
\* there is data following the literal prefix."
LiteralData(n, length, mode, s, i) ==
  IF i > Len(s) THEN LiteralFound(length, mode)
  ELSE IF i + length - 1 > Len(s) THEN Stop("Incomplete")
  ELSE LET data == SubSeq(s, i, i + length - 1)
       IN  IF n = "Literal" /\ Contains(data, "NUL") THEN Stop("Failure")
           ELSE Ok(i + length, <<Word(n \o mode, data)>>)

RECURSIVE Parse(_, _, _), ParseTuple(_, _, _, _), ParseAlt(_, _, _), ParseMany(_, _, _, _, _)

Rules ==
  [search_key |-> search_key_limited, body |-> body_limited, body_type_1part |-> body_type_1part_limited,
   body_type_msg |-> body_type_msg_limited, body_type_mpart |-> body_type_mpart_limited,
   body_extension |-> body_extension_limited, thread_list |-> thread_list_limited]

\* What comes after r, with the output of r before it.
After(r, next) == IF next.res = "Ok" THEN Ok(next.at, r.out \o next.out) ELSE next

\* out is what the parsers before these have yielded.
ParseTuple(gs, s, i, out) ==
  LET r == Parse(Head(gs), s, i)
  IN  IF r.res = "Ok" /\ Len(gs) > 1 THEN ParseTuple(Tail(gs), s, r.at, out \o r.out)
      ELSE After(Ok(i, out), r)

\* The first alternative that is no Error: it is among the first half of them,
\* or else among the others.
ParseAlt(gs, s, i) ==
  LET half == (Len(gs) + 1) \div 2
      r == ParseAlt(SubSeq(gs, 1, half), s, i)
  IN  IF Len(gs) = 1 THEN Parse(gs[1], s, i)
      ELSE IF r.res = "Error" THEN ParseAlt(SubSeq(gs, half + 1, Len(gs)), s, i) ELSE r

\* many0, many1 and many_m_n, and with a separator separated_list0 and
\* separated_list1: an Error after min elements ends the list before what is
\* wrong.
ParseMany(g, min, s, i, out) ==
  LET r == Parse(g, s, i)
  IN  IF r.res = "Ok" THEN ParseMany(g, Max({min - 1, 0}), s, r.at, out \o r.out)
      ELSE IF r.res = "Error" /\ min = 0 THEN Ok(i, out) ELSE r

ParseLiteral(g, s, i) ==
  LET r == Parse(Tuple(<<Tag(g.start), number, Text("Mode", Opt(Tag("+"))), Tag("}"), Tag("CRLF")>>), s, i)
  IN  IF r.res # "Ok" THEN r
      ELSE LiteralData(g.n, ValueOf(r.out[1].t[1]), IF r.out[2].t = <<>> THEN "" ELSE "+", s, r.at)

Parse(g, s, i) ==
  CASE g.op = "Tag" -> ParseTag(Octets(g.keyword), s, i)
    [] g.op = "Class" -> IF i > Len(s) THEN Stop("Incomplete")
                         ELSE IF s[i] \in g.set THEN Ok(i + 1, <<>>) ELSE Stop("Error")
    [] g.op = "Run" -> RunTo(s, i, EndOfRun(s, {j \in i..Len(s) : s[j] \in g.stop}), g.min)
    [] g.op = "While" -> RunTo(s, i, EndOfRun(s, {j \in i..Len(s) : s[j] \notin g.set}), 1)
    [] g.op = "Tuple" -> ParseTuple(g.gs, s, i, <<>>)
    [] g.op = "Alt" -> ParseAlt(g.gs, s, i)
    [] g.op = "Opt" -> LET r == Parse(g.g, s, i) IN IF r.res = "Error" THEN Ok(i, <<>>) ELSE r
    [] g.op = "Peek" -> LET r == Parse(g.g, s, i) IN IF r.res = "Ok" THEN Ok(i, <<>>) ELSE r
    [] g.op = "When" -> IF i > Len(s) THEN Stop("Incomplete")
                        ELSE IF s[i] = g.start THEN Parse(g.then, s, i) ELSE Parse(g.otherwise, s, i)
    [] g.op = "Many" -> ParseMany(g.g, g.min, s, i, <<>>)
    [] g.op = "Separated" ->
         LET first == Parse(g.g, s, i)
         IN  CASE first.res = "Error" /\ g.min = 0 -> Ok(i, <<>>)
               [] first.res = "Ok" -> ParseMany(Tuple(<<g.sep, g.g>>), 0, s, first.at, first.out)
               [] OTHER -> first
    [] g.op = "Node" -> LET r == Parse(g.g, s, i)
                        IN  IF r.res = "Ok" THEN Ok(r.at, <<Tree(g.n, r.out)>>) ELSE r
    [] g.op = "Text" -> LET r == Parse(g.g, s, i)
                        IN  IF r.res = "Ok" THEN Ok(r.at, <<Word(g.n, SubSeq(s, i, r.at - 1))>>) ELSE r
    [] g.op = "Value" -> LET r == Parse(g.g, s, i)
                         IN  IF r.res = "Ok" THEN Ok(r.at, <<g.node>>) ELSE r
    [] g.op = "Map" -> LET r == Parse(g.g, s, i)
                       IN  IF r.res = "Ok" THEN Ok(r.at, <<Mapped(g.f, r.out[1])>>) ELSE r
    [] g.op = "Check" -> LET r == Parse(g.g, s, i)
                         IN  IF r.res = "Ok" /\ ~Valid(g.test, r.out[1]) THEN Stop(g.otherwise) ELSE r
    [] g.op = "Literal" -> ParseLiteral(g, s, i)
    [] g.op = "Ref" -> Parse(Rules[g.rule][g.n], s, i)
    [] g.op = "Exceeded" -> Stop("Failure")

-----------------------------------------------------------------------------
(* The decoders.                                                           *)

\* Mutant: the tag of a literal is not filled in.
WithoutTag(tag, rest) == After(tag, rest)

\* A literal is announced along with the tag of its command.
WithTag(tag, rest) ==
  IF rest.res = "LiteralFound" THEN [rest EXCEPT !.tag = tag.out[1].t] ELSE After(tag, rest)

CommandBody ==
  Tuple(<<Alt(<<command_any, command_auth, command_nonauth, command_select>>), Tag("CRLF")>>)

command(s) ==
  LET tag == Parse(Tuple(<<tag_imap, sp>>), s, 1)
  IN  IF tag.res = "Ok" THEN WithTag(tag, Parse(CommandBody, s, tag.at)) ELSE tag

\* The tag of a literal that a server sends is nobody's business.
LiteralOfServer(r) ==
  IF r.res = "LiteralFound" THEN [res |-> "LiteralFound", length |-> r.length] ELSE r

\* A greeting has no literals.
NoLiteral(r) == IF r.res = "LiteralFound" THEN Stop("Failure") ELSE r

\* Error and Failure are the same to the caller of a codec.
Decoded(r) == IF r.res \in {"Error", "Failure"} THEN Stop("Failed") ELSE r

Decode(codec, s) ==
  CASE codec = "Command" -> Decoded(command(s))
    [] codec = "Greeting" -> Decoded(NoLiteral(Parse(greeting, s, 1)))
    [] codec = "Response" -> Decoded(LiteralOfServer(Parse(response, s, 1)))
    [] codec = "AuthenticateData" -> Decoded(Parse(authenticate_data, s, 1))
    [] codec = "IdleDone" -> Decoded(Parse(idle_done, s, 1))
=============================================================================
