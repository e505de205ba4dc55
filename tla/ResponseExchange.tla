--------------------------- MODULE ResponseExchange ---------------------------
(***************************************************************************)
(* A server that greets a client and then sends encoded responses,         *)
(* fragment by fragment, and a client that decodes what has arrived so far *)
(* when more has arrived, as the documentation of Encoded                  *)
(* (encode.rs:85-126) and of ResponseDecodeError (decode.rs:234-256) tells *)
(* them to.                                                                *)
(*                                                                         *)
(* The server never waits: "the client MUST accept the literal and has no  *)
(* option to reject it", so the data of a literal may be on its way before *)
(* the client has seen the announcement, and so may the next response.     *)
(*                                                                         *)
(* This module is the conversation alone, over the operators encode and    *)
(* decode; CodecFits says what the two must have to do with each other.    *)
(* EncodedResponses brings in the encoders and the decoders.               *)
(***************************************************************************)
EXTENDS EncodedStream

CONSTANTS
  Scripts,      \* the sequences of messages that a server may want to send
  encode(_),    \* the fragments that a message is sent as
  decode(_, _)  \* what the decoder of a codec makes of octets

\* A script is a sequence of messages, and a message is sent as fragments.
ASSUME ScriptsAssumption ==
  \A s \in Scripts : s \in Seq(ToSet(s)) /\ \A i \in DOMAIN s : encode(s[i]) \in Seq(Fragments)

VARIABLES
  script,     \* the messages of this server
  current,    \* the number of the message that is being sent
  sent,       \* the fragments that the messages up to it are written as
  fragments,  \* what is left of those of the current message
  to_client,  \* octets on their way
  codec,      \* the decoder that the client uses next
  buffer,     \* what the client has received and not decoded
  fresh,      \* whether something has arrived since it was last decoded
  expected,   \* the length of the literal that the client is told to expect
  log         \* what has become of the messages

vars == <<script, current, sent, fragments, to_client, codec, buffer, fresh, expected, log>>

-----------------------------------------------------------------------------
(* The server.                                                             *)

SendFragment ==
  /\ fragments # <<>>
  /\ to_client' = to_client \o Head(fragments).data
  /\ fragments' = Tail(fragments)
  /\ UNCHANGED <<script, current, sent, codec, buffer, fresh, expected, log>>

NextResponse ==
  /\ fragments = <<>>
  /\ current < Len(script)
  /\ current' = current + 1
  /\ \E fs \in {encode(script[current + 1])} :
       /\ sent' = Append(sent, fs)
       /\ fragments' = fs
  /\ UNCHANGED <<script, to_client, codec, buffer, fresh, expected, log>>

-----------------------------------------------------------------------------
(* The client.                                                             *)

Receive ==
  /\ to_client # <<>>
  /\ buffer' = Append(buffer, Head(to_client))
  /\ to_client' = Tail(to_client)
  /\ fresh' = TRUE
  /\ UNCHANGED <<script, current, sent, fragments, codec, expected, log>>

\* Mutant: what follows the message is thrown away with it.
AcceptAll(d) ==
  /\ d.res = "Ok"
  /\ log' = Append(log, [what |-> "Accepted", value |-> d.out])
  /\ buffer' = <<>>
  /\ fresh' = FALSE
  /\ codec' = "Response"
  /\ expected' = <<>>

\* Mutant: the client goes on to use the decoder it has.
AcceptAsGreeting(d) ==
  /\ d.res = "Ok"
  /\ log' = Append(log, [what |-> "Accepted", value |-> d.out])
  /\ buffer' = SubSeq(buffer, d.at, Len(buffer))
  /\ fresh' = (buffer' # <<>>)
  /\ codec' = codec
  /\ expected' = <<>>

\* A message has been decoded; what follows it stays in the buffer.  The
\* greeting is the first message and there is only one.
Accept(d) ==
  /\ d.res = "Ok"
  /\ log' = Append(log, [what |-> "Accepted", value |-> d.out])
  /\ buffer' = SubSeq(buffer, d.at, Len(buffer))
  /\ fresh' = (buffer' # <<>>)
  /\ codec' = "Response"
  /\ expected' = <<>>

WaitForMore(d) ==
  /\ d.res = "Incomplete"
  /\ fresh' = FALSE
  /\ UNCHANGED <<buffer, codec, expected, log>>

ExpectLiteral(d) ==
  /\ d.res = "LiteralFound"
  /\ expected' = <<d.length>>
  /\ fresh' = FALSE
  /\ UNCHANGED <<buffer, codec, log>>

\* The client has lost track of the server: it stops.
Fail(d) ==
  /\ d.res \in {"Failed", "Panic"}
  /\ log' = Append(log, [what |-> d.res, value |-> <<>>])
  /\ buffer' = <<>>
  /\ fresh' = FALSE
  /\ codec' = "None"
  /\ expected' = <<>>

DecodeBuffer ==
  /\ fresh
  /\ codec # "None"
  /\ \E d \in {decode(codec, buffer)} : Accept(d) \/ WaitForMore(d) \/ ExpectLiteral(d) \/ Fail(d)
  /\ UNCHANGED <<script, current, sent, fragments, to_client>>

-----------------------------------------------------------------------------

Init ==
  /\ script \in Scripts
  /\ current = 0 /\ sent = <<>> /\ fragments = <<>>
  /\ to_client = <<>>
  /\ codec = "Greeting"
  /\ buffer = <<>> /\ fresh = FALSE
  /\ expected = <<>>
  /\ log = <<>>

ServerStep == SendFragment \/ NextResponse
ClientStep == Receive \/ DecodeBuffer
Next == ServerStep \/ ClientStep

Spec == Init /\ [][Next]_vars

-----------------------------------------------------------------------------
(* What the messages and the decoders must have to do with each other.     *)

\* The decoder stops at a literal only where all before it has arrived, and
\* knows its length.
StopsAtLiteral(fs, octets, d) ==
  \E j \in 2..Len(fs) :
    /\ fs[j].kind = "Literal" /\ Len(fs[j].data) = d.length
    /\ IsPrefix(Written(SubSeq(fs, 1, j - 1)), octets)

\* What the decoder makes of the octets that have arrived of a message that is
\* sent as fs and, when all of it has arrived, of what follows it.
Fits(d, value, fs, octets) ==
  LET size == Len(Written(fs))
  IN  CASE Len(octets) >= size /\ value # <<>> -> d.res = "Ok" /\ d.out = value /\ d.at = size + 1
        [] Len(octets) >= size /\ value = <<>> -> d.res = "Failed"
        [] Len(octets) < size ->
             \/ d.res = "Incomplete"
             \/ d.res = "Failed" /\ value = <<>>
             \/ d.res = "LiteralFound" /\ StopsAtLiteral(fs, octets, d)

Encoded(s) == [i \in DOMAIN s |-> encode(s[i])]

CodecOf(i) == IF i = 1 THEN "Greeting" ELSE "Response"

\* Every message ends with a fragment that is not empty, and the decoder fits it,
\* whatever has arrived from its start on.
ScriptFits(s) ==
  \A i \in DOMAIN s : \A fs \in {encode(s[i])} :
    /\ fs # <<>> /\ Last(fs).data # <<>>
    /\ \A octets \in Arrivals(Encoded(s), i) : \E d \in {decode(CodecOf(i), octets)} :
         Fits(d, s[i].value, fs, octets)

-----------------------------------------------------------------------------
(* Properties.                                                             *)

\* The type of the state; what is to be decoded is never empty, and there is
\* one greeting, before all responses.
ResponseTypeOK ==
  /\ current \in 0..Len(script)
  /\ Len(sent) = current
  /\ codec \in {"Greeting", "Response", "None"}
  /\ codec = "Greeting" <=> log = <<>>
  /\ fresh \in BOOLEAN
  /\ fresh => buffer # <<>>
  /\ Len(expected) <= 1
  /\ \A i \in DOMAIN log : log[i].what \in {"Accepted", "Failed", "Panic"}

\* What the conversation needs of the codecs, for every script: the decoders read
\* each message as it is meant, wherever it is cut off and whatever follows it,
\* never take a part of it for the whole, and stop at literals that are there.
CodecFits == current = 0 => ScriptFits(script)

\* What the client makes of a greeting or a response is what the server meant,
\* for every response, literal and split into fragments, and whatever follows
\* it: the decoders are an inverse of the encoders, take the slips of other
\* servers for what the quirks say they mean, and refuse what they must.
ReadAsMeant ==
  \A i \in DOMAIN log :
    CASE log[i].what = "Accepted" -> log[i].value = script[i].value
      [] OTHER -> script[i].value = <<>>

\* No message is decoded before the server has sent all of it: no part of a
\* message, cut off at any octet, is a message.
NothingIsReadEarly ==
  \A i \in DOMAIN log : log[i].what = "Accepted" => i < current \/ (i = current /\ fragments = <<>>)

\* When the decoder has stopped at a literal, the server sends a literal of
\* just that length as the next fragment: the client can count its octets
\* without decoding them, however many responses are underway.
LiteralsAreOnTheirWay ==
  expected # <<>> =>
    LET fs == sent[Len(log) + 1]
    IN  \E i \in 2..Len(fs) :
          /\ fs[i].kind = "Literal"
          /\ Len(fs[i].data) = expected[1]
          /\ IsPrefix(Written(SubSeq(fs, 1, i - 1)), buffer)

\* The types, the literals, and what is accepted, as an invariant of client and
\* server.
ResponseInv == ResponseTypeOK /\ LiteralsAreOnTheirWay /\ NothingIsReadEarly

\* The client never waits for octets that nobody sends: when all that has been
\* sent has arrived and been looked at, every message has been decoded, or the
\* client has stopped.
ClientIsNeverStuck ==
  codec # "None" /\ ~fresh /\ to_client = <<>> /\ fragments = <<>> /\ current = Len(script)
    => Len(log) = Len(script) /\ buffer = <<>>
=============================================================================
