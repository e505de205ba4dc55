---------------------------- MODULE CommandExchange ----------------------------
(***************************************************************************)
(* A client that sends encoded messages, fragment by fragment, and a       *)
(* server that decodes what has arrived so far when more has arrived, as   *)
(* the documentation of Encoded (encode.rs:85-126) and of                  *)
(* CommandDecodeError (decode.rs:156-213) tells them to.                   *)
(*                                                                         *)
(* The client does not wait for the answer to a command before it sends    *)
(* the next one, except that it waits for a continuation before it sends   *)
(* a synchronizing literal, the data of AUTHENTICATE or the end of IDLE.   *)
(*                                                                         *)
(* This module is the conversation alone.  What a message is written as    *)
(* is in the scripts, what the decoders make of octets is the operator     *)
(* decode; CodecFits says what the two must have to do with each other.    *)
(* EncodedCommands brings in the encoders and the decoders.                *)
(***************************************************************************)
EXTENDS EncodedStream

CONSTANTS
  Scripts,      \* the sequences of messages that a client may want to send
  decode(_, _)  \* what the decoder of a codec makes of octets

\* A script is a sequence of messages, each with the fragments it is sent as.
ASSUME ScriptsAssumption ==
  \A s \in Scripts :
    /\ s # <<>> /\ s \in Seq(ToSet(s))
    /\ \A i \in DOMAIN s : s[i].fragments \in Seq(Fragments)

VARIABLES
  script,     \* the messages of this client
  current,    \* the number of the message that is being sent
  fragments,  \* what is left of its fragments
  to_server,  \* octets on their way
  to_client,  \* replies on their way
  codec,      \* the decoder that the server uses next
  buffer,     \* what the server has received and not decoded
  fresh,      \* whether something has arrived since it was last decoded
  log         \* what has become of the messages

vars == <<script, current, fragments, to_server, to_client, codec, buffer, fresh, log>>

-----------------------------------------------------------------------------
(* Replies.                                                                *)

Continuation(tag, length, mode) ==
  [kind |-> "Continuation", tag |-> tag, length |-> length, mode |-> mode]
Tagged(tag, kind) == [kind |-> kind, tag |-> tag, length |-> 0, mode |-> ""]

-----------------------------------------------------------------------------
(* The client.                                                             *)

Sending == script[current]

\* A fragment or a message for which the client must see a continuation.
IsSync(f) == f.kind = "Literal" /\ f.mode = ""
MustWait ==
  \/ fragments # <<>> /\ IsSync(Head(fragments))
  \/ fragments = Sending.fragments /\ Sending.codec # "Command"

SendFragment ==
  /\ fragments # <<>>
  /\ to_server' = to_server \o Head(fragments).data
  /\ fragments' = Tail(fragments)
  /\ UNCHANGED <<script, current, codec, buffer, fresh, log>>

\* A line, or a literal that need not wait.
SendAtOnce == ~MustWait /\ SendFragment /\ UNCHANGED to_client

SendOnContinuation ==
  /\ MustWait
  /\ to_client # <<>> /\ Head(to_client).kind = "Continuation"
  /\ to_client' = Tail(to_client)
  /\ SendFragment

\* What the client makes of the answer to a command: it gives up the literal
\* that it has been waiting to send.
ReceiveAnswer ==
  /\ to_client # <<>> /\ Head(to_client).kind # "Continuation"
  /\ to_client' = Tail(to_client)
  /\ fragments' = IF MustWait /\ Sending.codec = "Command" /\ Head(to_client).kind = "BAD"
                       /\ Head(to_client).tag = Sending.tag
                  THEN <<>> ELSE fragments
  /\ UNCHANGED <<script, current, to_server, codec, buffer, fresh, log>>

NextMessage ==
  /\ fragments = <<>>
  /\ current < Len(script)
  /\ current' = current + 1
  /\ fragments' = script[current + 1].fragments
  /\ UNCHANGED <<script, to_server, to_client, codec, buffer, fresh, log>>

-----------------------------------------------------------------------------
(* The server.                                                             *)

Receive ==
  /\ to_server # <<>>
  /\ buffer' = Append(buffer, Head(to_server))
  /\ to_server' = Tail(to_server)
  /\ fresh' = TRUE
  /\ UNCHANGED <<script, current, fragments, to_client, codec, log>>

\* The decoder for what comes after a message: the command codec is only
\* replaced for the lines that follow AUTHENTICATE and IDLE.
CodecAfter(served, value) ==
  LET cmd == Last(value)
  IN  CASE served = "Command" /\ cmd.n = "AUTHENTICATE" /\ Len(cmd.c) = 1 -> "AuthenticateData"
        [] served = "Command" /\ cmd.n = "IDLE" -> "IdleDone"
        [] OTHER -> "Command"

\* Mutant: the buffer is decoded again, even if nothing is left in it.
ServeAgain(d) ==
  /\ d.res = "Ok"
  /\ log' = Append(log, [what |-> "Served", value |-> d.out])
  /\ buffer' = SubSeq(buffer, d.at, Len(buffer))
  /\ fresh' = TRUE
  /\ codec' = CodecAfter(codec, d.out)
  /\ to_client' = Append(to_client, Tagged(d.out[1].t, "OK"))

\* A message has been decoded; what follows it stays in the buffer.
Serve(d) ==
  /\ d.res = "Ok"
  /\ log' = Append(log, [what |-> "Served", value |-> d.out])
  /\ buffer' = SubSeq(buffer, d.at, Len(buffer))
  /\ fresh' = (buffer' # <<>>)
  /\ codec' = CodecAfter(codec, d.out)
  /\ to_client' = Append(to_client,
       IF codec' # "Command" THEN Continuation(d.out[1].t, 0, codec') ELSE Tagged(d.out[1].t, "OK"))

WaitForMore(d) ==
  /\ d.res = "Incomplete" \/ (d.res = "LiteralFound" /\ d.mode = "+")
  /\ fresh' = FALSE
  /\ UNCHANGED <<buffer, to_client, codec, log>>

AcceptLiteral(d) ==
  /\ d.res = "LiteralFound" /\ d.mode = ""
  /\ to_client' = Append(to_client, Continuation(d.tag, d.length, d.mode))
  /\ fresh' = FALSE
  /\ UNCHANGED <<buffer, codec, log>>

RejectLiteral(d) ==
  /\ d.res = "LiteralFound" /\ d.mode = ""
  /\ to_client' = Append(to_client, Tagged(d.tag, "BAD"))
  /\ log' = Append(log, [what |-> "Rejected", value |-> <<>>])
  /\ buffer' = <<>>
  /\ fresh' = FALSE
  /\ UNCHANGED codec

\* The server has lost track of the client: it stops.
Fail(d) ==
  /\ d.res = "Failed"
  /\ log' = Append(log, [what |-> "Failed", value |-> <<>>])
  /\ buffer' = <<>>
  /\ fresh' = FALSE
  /\ codec' = "None"
  /\ UNCHANGED to_client

DecodeBuffer ==
  /\ fresh
  /\ codec # "None"
  /\ \E d \in {decode(codec, buffer)} :
       Serve(d) \/ WaitForMore(d) \/ AcceptLiteral(d) \/ RejectLiteral(d) \/ Fail(d)
  /\ UNCHANGED <<script, current, fragments, to_server>>

-----------------------------------------------------------------------------

Init ==
  /\ script \in Scripts
  /\ current = 1
  /\ fragments = script[1].fragments
  /\ to_server = <<>> /\ to_client = <<>>
  /\ codec = "Command"
  /\ buffer = <<>> /\ fresh = FALSE
  /\ log = <<>>

ClientStep == SendAtOnce \/ SendOnContinuation \/ ReceiveAnswer \/ NextMessage
ServerStep == Receive \/ DecodeBuffer
Next == ClientStep \/ ServerStep

Spec == Init /\ [][Next]_vars

-----------------------------------------------------------------------------
(* What the messages and the decoders must have to do with each other.     *)

\* Each message is meant for the codec that the server has then, and ends with a
\* fragment that is not empty; so does what announces a literal.
InOrder(s) ==
  /\ s[1].codec = "Command"
  /\ \A i \in DOMAIN s : LET fs == s[i].fragments IN
       /\ fs # <<>> /\ Last(fs).data # <<>>
       /\ \A j \in DOMAIN fs : IsSync(fs[j]) =>
            /\ s[i].codec = "Command"
            /\ j > 1 /\ fs[j - 1].data # <<>>
            /\ i < Len(s) => s[i + 1].codec = "Command"
       /\ i < Len(s) /\ s[i].value # <<>> => s[i + 1].codec = CodecAfter(s[i].codec, s[i].value)

\* The decoder stops at a literal that the client holds back only where all
\* before it has arrived and nothing else, and knows its length and its tag.
StopsAtLiteral(m, octets, d) ==
  \E j \in DOMAIN m.fragments :
    /\ IsSync(m.fragments[j])
    /\ octets = Written(SubSeq(m.fragments, 1, j - 1))
    /\ d.length = Len(m.fragments[j].data) /\ d.tag = m.tag

\* What the decoder makes of the octets that have arrived of m and, when m has
\* arrived, of what follows it.
Fits(m, octets) ==
  LET d == decode(m.codec, octets)
      size == Len(Written(m.fragments))
  IN  CASE Len(octets) >= size /\ m.value # <<>> -> d.res = "Ok" /\ d.out = m.value /\ d.at = size + 1
        [] Len(octets) >= size /\ m.value = <<>> -> d.res = "Failed"
        [] Len(octets) < size ->
             \/ d.res = "Incomplete"
             \/ d.res = "Failed" /\ m.value = <<>>
             \/ d.res = "LiteralFound" /\ (d.mode = "+" \/ (d.mode = "" /\ StopsAtLiteral(m, octets, d)))

Encoded(s) == [i \in DOMAIN s |-> s[i].fragments]

\* The decoder fits every message, whatever has arrived from its start on.
ScriptFits(s) ==
  InOrder(s) /\ \A i \in DOMAIN s : \A octets \in Arrivals(Encoded(s), i) : Fits(s[i], octets)

-----------------------------------------------------------------------------
(* Properties.                                                             *)

\* The type of the state; what is to be decoded is never empty.
ExchangeTypeOK ==
  /\ current \in 1..Len(script)
  /\ codec \in {"Command", "AuthenticateData", "IdleDone", "None"}
  /\ fresh \in BOOLEAN
  /\ fresh => buffer # <<>>
  /\ \A i \in DOMAIN to_client : to_client[i].kind \in {"Continuation", "OK", "BAD"}
  /\ \A i \in DOMAIN log : log[i].what \in {"Served", "Rejected", "Failed"}

Untouched == current = 1 /\ fragments = script[1].fragments /\ to_server = <<>> /\ buffer = <<>> /\ log = <<>>

\* What the conversation needs of the codecs, for every script: the decoders read
\* each message as it is meant, wherever it is cut off and whatever follows it,
\* never take a part of it for the whole, and stop at literals that wait.
CodecFits == Untouched => ScriptFits(script)

\* What the server makes of a message is what the client meant, for every
\* command, literal and split into fragments, and whatever follows it: the
\* decoders are an inverse of the encoders, and they refuse what they must.
DecodedAsMeant ==
  \A i \in DOMAIN log :
    CASE log[i].what = "Served" -> log[i].value = script[i].value
      [] log[i].what = "Failed" -> script[i].value = <<>>
      [] log[i].what = "Rejected" -> \E j \in DOMAIN script[i].fragments :
           IsSync(script[i].fragments[j])

\* The decoder stops at a literal only if the client is waiting for it to:
\* the continuation names the tag, the length and the mode of the literal that
\* the client holds back, and there is never a second one on its way.
ContinuationsAreAwaited ==
  \A i \in DOMAIN to_client : to_client[i].kind = "Continuation" =>
    /\ \A j \in DOMAIN to_client : j > i => to_client[j].kind # "Continuation"
    /\ to_client[i].mode = "" =>
         /\ fragments # <<>>
         /\ IsSync(Head(fragments))
         /\ Len(Head(fragments).data) = to_client[i].length
         /\ to_client[i].tag = Sending.tag
         /\ to_server = <<>>

\* No message is decoded before the client has sent all of it: no part of a
\* message, cut off at any octet, is a message.
NothingIsServedEarly ==
  \A i \in DOMAIN log : log[i].what = "Served" => i < current \/ (i = current /\ fragments = <<>>)

\* The types, the continuations, and what is served, as an invariant of client
\* and server.
ExchangeInv == ExchangeTypeOK /\ ContinuationsAreAwaited /\ NothingIsServedEarly

\* The client and the server never wait for each other: when neither can take
\* a step, every message has been answered, or the server has stopped.
NobodyWaitsForever ==
  codec # "None" /\ ~fresh /\ ~ENABLED (ClientStep \/ Receive) => Len(log) = Len(script)
=============================================================================
