------------------------------- MODULE Session -------------------------------
(***************************************************************************)
(* A client that sends encoded messages fragment by fragment, as the       *)
(* documentation of encode.rs shows, and the server of examples/server.rs  *)
(* that reads them with a Fragmentizer, over a reliable stream of bytes    *)
(* that the server reads in arbitrary pieces.                              *)
(*                                                                         *)
(* The two agree on where messages end although they never exchange more   *)
(* than the bytes, "+" and "BAD": that is what this module is about.       *)
(* The codecs are modelled by what is known of them here: they accept what *)
(* the encoder produced for a message of their kind, and nothing else.  A  *)
(* client that is broken may also send malformed messages, which have no   *)
(* tag, and the literals they announce without waiting.                    *)
(***************************************************************************)
EXTENDS Fragmentizer

CONSTANTS
  Commands,        \* commands: [kind, items] with items as encoded fragments
  DataLine,        \* the authenticate data the client sends
  DoneLine,        \* the line that ends IDLE
  AcceptLimit,     \* longest synchronizing literal that the server accepts
  MaxMessages      \* bound of the model: messages that the client starts

Codecs == {"Command", "Authenticate", "Idle"}
Kinds == Codecs \cup {"Malformed"}

\* encode.rs: Fragment
LineItem(data) == [kind |-> "Line", data |-> data, mode |-> "None"]
LiteralItem(data, mode) == [kind |-> "Literal", data |-> data, mode |-> mode]
Item == [kind : {"Line", "Literal"}, data : Seq(Byte), mode : Modes \cup {"None"}]

ASSUME SessionAssumption ==
  /\ Commands \subseteq [kind : Kinds, items : Seq(Item)]
  /\ DataLine \in Seq(Byte) /\ DoneLine \in Seq(Byte)
  /\ AcceptLimit \in Nat /\ MaxMessages \in Nat

VARIABLES
  to_server,     \* bytes on their way to the server
  to_client,     \* replies on their way to the client
  pc,            \* where the server is in its loop
  state,         \* which codec the server decodes the next message with
  client,        \* what the client is doing: sending, waiting or idle
  command,       \* the command the client works on
  items,         \* the fragments of its message not sent yet
  (* history *)
  started,       \* number of commands the client started
  sent,          \* the messages that the client sent completely
  served         \* the messages that the server decoded or refused

fvars == vars
cvars == <<client, command, items, started, sent>>
svars == <<pc, state, served>>
sessionVars == <<fvars, cvars, svars, to_server, to_client>>

-----------------------------------------------------------------------------
(* Messages.                                                               *)

\* Encoded::dump: the bytes of all fragments of a message.
Dump(its) ==
  LET upTo[i \in 0..Len(its)] == IF i = 0 THEN <<>> ELSE upTo[i-1] \o its[i].data
  IN  upTo[Len(its)]

Message(codec, bytes) == [codec |-> codec, bytes |-> bytes]

TagOf(cmd) == ParseTag(Dump(cmd.items))

KindsOf(bytes) == {c.kind : c \in {d \in Commands : Dump(d.items) = bytes}}

\* The codec of each server state accepts what the encoder made for it.
Accepts(codec, bytes) ==
  \/ codec = "Command" /\ KindsOf(bytes) \cap Codecs # {}
  \/ codec = "Authenticate" /\ bytes = DataLine
  \/ codec = "Idle" /\ bytes = DoneLine

\* What the fragments announce of the one after the first k.
Said(its, k) ==
  IF k = 0 \/ its[k].kind = "Literal" THEN NoAnnouncement
  ELSE LineAnnouncement(its[k].data)

\* A message is made of lines and of the literals they announce, and ends with
\* the first line that announces nothing.
Framed(its) ==
  /\ its # <<>>
  /\ \A i \in DOMAIN its :
       /\ IF Said(its, i - 1) = NoAnnouncement
          THEN /\ its[i].kind = "Line"
               /\ HasLf(its[i].data) /\ FirstLf(its[i].data) = Len(its[i].data)
          ELSE /\ its[i].kind = "Literal"
               /\ Len(its[i].data) = Said(its, i - 1).length
       /\ i = Len(its) <=> its[i].kind = "Line" /\ Said(its, i) = NoAnnouncement

\* The encoder marks a literal with the mode that it announced.
Behaves(its) == \A i \in DOMAIN its : its[i].mode = Said(its, i - 1).mode

\* A broken client does not wait, announces literals that the server does not
\* want and gives it no tag to say so.
Misbehaves(its) ==
  /\ \A i \in DOMAIN its :
       /\ its[i].mode # "Sync"
       /\ Said(its, i).mode = "Sync" => Said(its, i).length > AcceptLimit
  /\ \E i \in DOMAIN its : Said(its, i).mode = "Sync"
  /\ ParseTag(Dump(its)) = NoTag

\* The encodings of different commands differ.
ASSUME CommandsAssumption ==
  /\ Commands # {}
  /\ \A c \in Commands :
       /\ Framed(c.items)
       /\ IF c.kind = "Malformed" THEN Misbehaves(c.items) ELSE Behaves(c.items)
  /\ \A c, d \in Commands : Dump(c.items) = Dump(d.items) => c = d

\* DONE is so short that every limit admits it.
ASSUME LinesAssumption ==
  /\ \A line \in {DataLine, DoneLine} :
       Framed(<<LineItem(line)>>) /\ KindsOf(line) # {"Malformed"}
  /\ \A limit \in Limits : Admitted(limit, Len(DoneLine)) = Len(DoneLine)

Continue == [kind |-> "Continue", tag |-> NoTag]
Bad(tag) == [kind |-> "Bad", tag |-> tag]
OkReply(tag) == [kind |-> "Ok", tag |-> tag]

-----------------------------------------------------------------------------
(* The client.                                                             *)

Start ==
  /\ client = "idle" /\ started < MaxMessages
  /\ \E c \in Commands : command' = c /\ items' = c.items
  /\ client' = "sending"
  /\ started' = started + 1
  /\ UNCHANGED <<fvars, svars, sent, to_server, to_client>>

\* The client has sent all fragments of a message and knows what comes next.
Complete ==
  /\ sent' = Append(sent, Message("Command", Dump(command.items)))
  /\ client' = CASE command.kind \in {"Command", "Malformed"} -> "idle"
                 [] command.kind = "Authenticate" -> "awaits data"
                 [] command.kind = "Idle" -> "awaits idle"

\* One fragment is sent.  The client waits for a continuation request before
\* a synchronizing literal, and right after the line that announced it.
Send ==
  /\ client = "sending"
  /\ to_server' = to_server \o Head(items).data
  /\ items' = Tail(items)
  /\ IF Tail(items) = <<>> THEN Complete
     ELSE /\ client' = IF Head(Tail(items)).mode = "Sync"
                       THEN "awaits literal" ELSE "sending"
          /\ UNCHANGED sent
  /\ UNCHANGED <<fvars, svars, command, started, to_client>>

SendLine(codec, line) ==
  /\ to_server' = to_server \o line
  /\ sent' = Append(sent, Message(codec, line))

Receive ==
  /\ to_client # <<>>
  /\ to_client' = Tail(to_client)
  /\ LET reply == Head(to_client)
     IN  \/ /\ client = "awaits literal" /\ reply = Continue
            /\ client' = "sending"
            /\ UNCHANGED <<items, sent, to_server>>
         \/ /\ client = "awaits literal" /\ reply = Bad(TagOf(command))
            /\ client' = "idle" /\ items' = <<>>
            /\ UNCHANGED <<sent, to_server>>
         \/ /\ client = "awaits data" /\ reply = Continue
            /\ SendLine("Authenticate", DataLine)
            /\ client' = "awaits ok"
            /\ UNCHANGED items
         \/ /\ client = "awaits ok" /\ reply = OkReply(TagOf(command))
            /\ client' = "idle"
            /\ UNCHANGED <<items, sent, to_server>>
         \/ /\ client = "awaits idle" /\ reply = Continue
            /\ SendLine("Idle", DoneLine)
            /\ client' = "idle"
            /\ UNCHANGED items
  /\ UNCHANGED <<fvars, svars, command, started>>

-----------------------------------------------------------------------------
(* The server: one action per branch of its loop.                          *)

Reply(r) == to_client' = Append(to_client, r)

\* fragmentizer.progress()
ServerProgress ==
  /\ pc = "progress"
  /\ Progress
  /\ pc' = IF fragments' = Cur(fragments, <<>>) THEN "read" ELSE "react"
  /\ UNCHANGED <<cvars, state, served, to_server, to_client>>

\* It returned None: read_more, enqueue_bytes.
ServerRead ==
  /\ pc = "read"
  /\ \E k \in 1..Len(to_server) :
       /\ EnqueueBytes(SubSeq(to_server, 1, k))
       /\ to_server' = SubSeq(to_server, k + 1, Len(to_server))
  /\ pc' = "progress"
  /\ UNCHANGED <<cvars, state, served, to_client>>

\* Mutant: continuation requests also for non-synchronizing literals.
AnyAnnounced == LastAnnounced(fragments) # NoAnnouncement

SyncAnnounced == LastAnnounced(fragments).mode = "Sync"
TooLong == LastAnnounced(fragments).length > AcceptLimit

AcceptLiteral ==
  /\ pc = "react" /\ SyncAnnounced /\ ~TooLong
  /\ Reply(Continue)
  /\ pc' = "progress"
  /\ UNCHANGED <<fvars, cvars, state, served, to_server>>

\* Mutant: the rejected message is poisoned instead of skipped.
RejectLiteralKeep ==
  /\ pc = "react" /\ SyncAnnounced /\ TooLong /\ DecodeTag # NoTag
  /\ Reply(Bad(DecodeTag))
  /\ PoisonMessage
  /\ pc' = "progress"
  /\ UNCHANGED <<cvars, state, served, to_server>>

RejectLiteral ==
  /\ pc = "react" /\ SyncAnnounced /\ TooLong /\ DecodeTag # NoTag
  /\ Reply(Bad(DecodeTag))
  /\ SkipMessage
  /\ pc' = "progress"
  /\ UNCHANGED <<cvars, state, served, to_server>>

\* Mutant: the malformed message is skipped like a rejected one.
PoisonLiteralSkip ==
  /\ pc = "react" /\ SyncAnnounced /\ TooLong /\ DecodeTag = NoTag
  /\ SkipMessage
  /\ pc' = "progress"
  /\ UNCHANGED <<cvars, state, served, to_server, to_client>>

\* No tag to answer with: the message is read to its end but not decoded.
PoisonLiteral ==
  /\ pc = "react" /\ SyncAnnounced /\ TooLong /\ DecodeTag = NoTag
  /\ PoisonMessage
  /\ pc' = "progress"
  /\ UNCHANGED <<cvars, state, served, to_server, to_client>>

\* More fragments of the message follow.
NextFragment ==
  /\ pc = "react" /\ ~SyncAnnounced /\ ~IsMessageComplete
  /\ pc' = "progress"
  /\ UNCHANGED <<fvars, cvars, state, served, to_server, to_client>>

\* decode_message with the codec of the state.
Result ==
  DecodeMessage(IF Accepts(state.codec, message_buffer) THEN "Ok" ELSE "DecodingFailure")

\* The message is complete and the result of decoding it is known.
Serve ==
  /\ pc = "react" /\ IsMessageComplete
  /\ served' = Append(served, [codec |-> state.codec, bytes |-> parsed, result |-> Result])
  /\ pc' = "progress"
  /\ UNCHANGED <<fvars, cvars, to_server>>

Decoded(codec) == Serve /\ state.codec = codec /\ Result = "Ok"

Enter(codec, tag) == state' = [codec |-> codec, tag |-> tag]

\* "Error parsing ...": nothing is answered and the state stays.
ServeRefused == Serve /\ Result # "Ok" /\ UNCHANGED <<state, to_client>>

ServeCommand ==
  /\ Decoded("Command") /\ KindsOf(message_buffer) = {"Command"}
  /\ UNCHANGED <<state, to_client>>

\* AUTHENTICATE asks for data, IDLE for the line that ends it.
ServeRequest ==
  /\ Decoded("Command")
  /\ \E codec \in KindsOf(message_buffer) \cap {"Authenticate", "Idle"} :
       Enter(codec, DecodeTag)
  /\ Reply(Continue)

ServeData ==
  /\ Decoded("Authenticate")
  /\ Reply(OkReply(state.tag))
  /\ Enter("Command", NoTag)

ServeDone ==
  /\ Decoded("Idle")
  /\ Enter("Command", NoTag)
  /\ UNCHANGED to_client

Server ==
  \/ ServerProgress \/ ServerRead
  \/ AcceptLiteral \/ RejectLiteral \/ PoisonLiteral \/ NextFragment
  \/ ServeRefused \/ ServeCommand \/ ServeRequest \/ ServeData \/ ServeDone

-----------------------------------------------------------------------------
SessionInit ==
  /\ Init
  /\ to_server = <<>> /\ to_client = <<>>
  /\ pc = "progress" /\ state = [codec |-> "Command", tag |-> NoTag] /\ served = <<>>
  /\ client = "idle" /\ items = <<>> /\ command = CHOOSE c \in Commands : TRUE
  /\ started = 0 /\ sent = <<>>

SessionNext == Start \/ Send \/ Receive \/ Server

\* The peers keep working; whether the client starts another command is its
\* own choice.
SessionSpec ==
  /\ SessionInit /\ [][SessionNext]_sessionVars
  /\ WF_sessionVars(Send) /\ WF_sessionVars(Receive) /\ WF_sessionVars(Server)

-----------------------------------------------------------------------------
(* Properties.                                                             *)

SessionTypeOK ==
  /\ TypeOK
  /\ to_server \in Seq(Byte)
  /\ to_client \in Seq([kind : {"Continue", "Bad", "Ok"}, tag : Seq(Byte)])
  /\ pc \in {"progress", "read", "react"}
  /\ state \in [codec : Codecs, tag : Seq(Byte)]
  /\ client \in {"idle", "sending", "awaits literal", "awaits data", "awaits ok",
                 "awaits idle"}
  /\ command \in Commands
  /\ items \in Seq(Item)
  /\ started \in 0..MaxMessages
  /\ sent \in Seq([codec : Codecs, bytes : Seq(Byte)])
  /\ served \in Seq([codec : Codecs, bytes : Seq(Byte),
                     result : DecodeErrors \cup {"Ok"}])

\* Client and server agree on the messages and on their order: the server
\* takes exactly the messages that the client sent completely, each with the
\* codec it was meant for.  Bytes of a literal are never taken for a message,
\* even when they look like one, when an earlier literal was rejected, when
\* the message is too long to be kept, and however the bytes arrive.
AgreeOnMessages ==
  /\ Len(served) <= Len(sent)
  /\ \A i \in DOMAIN served :
       served[i].bytes = sent[i].bytes /\ served[i].codec = sent[i].codec

\* A message is decoded when it is one of the encoder's and fits into the
\* limit; a malformed one is refused to its end, and so is one that is too
\* long: the fate of a message depends on nothing that came before it.
DecodedAsSent ==
  \A i \in DOMAIN served :
    LET bytes == served[i].bytes
    IN  served[i].result =
          CASE Admitted(max_message_size, Len(bytes)) < Len(bytes) -> "MessageTooLong"
            [] OTHER -> IF KindsOf(bytes) = {"Malformed"} THEN "MessagePoisoned" ELSE "Ok"

\* The server answers only who waits: at most one reply is on its way, and it
\* is one that the client can take at this point (a continuation request for
\* the literal, data or idle it announced, or a tagged reply to its command).
RepliesAreAwaited ==
  /\ Len(to_client) <= 1
  /\ to_client # <<>> =>
       \/ client \in {"awaits literal", "awaits data", "awaits idle"}
            /\ Head(to_client) = Continue
       \/ client = "awaits literal" /\ Head(to_client) = Bad(TagOf(command))
       \/ client = "awaits ok" /\ Head(to_client) = OkReply(TagOf(command))

\* The types, and the replies, as an invariant of client and server.
SessionInv == SessionTypeOK /\ RepliesAreAwaited

\* Nobody waits for ever: a command that the client starts is sent completely
\* or rejected, and every message it sent is served.
CommandsFinish == client # "idle" ~> client = "idle"
MessagesAreServed ==
  \A n \in 1..(3 * MaxMessages) : Len(sent) >= n ~> Len(served) >= n
=============================================================================
