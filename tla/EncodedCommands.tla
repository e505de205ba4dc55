--------------------------- MODULE EncodedCommands ---------------------------
(***************************************************************************)
(* The conversation of CommandExchange with the encoders and decoders of   *)
(* imap-codec: the messages of its scripts, and what holds of the codecs   *)
(* in it.  Its decode is Decode.                                           *)
(***************************************************************************)
EXTENDS RoundTrip, CommandExchange

-----------------------------------------------------------------------------
(* Messages.  value is what the server is meant to make of it, <<>> when   *)
(* it is meant to refuse it.                                               *)

CommandMessage(tag, cmd, expected) ==
  [codec |-> "Command", tag |-> <<tag>>, fragments |-> EncodeCommand(<<tag>>, cmd),
   value |-> <<Word("Tag", <<tag>>), expected>>]

\* A line that another client than the library may send.
ForeignMessage(tag, fs, value) ==
  [codec |-> "Command", tag |-> <<tag>>, fragments |-> fs, value |-> value]

AuthenticateMessage(data) ==
  [codec |-> "AuthenticateData", tag |-> <<>>, fragments |-> EncodeLine(data),
   value |-> <<IF data = <<"*">> THEN Tree("*", <<>>) ELSE Word("Base64", data)>>]

DoneMessage ==
  [codec |-> "IdleDone", tag |-> <<>>, fragments |-> EncodeLine(<<"DONE">>), value |-> <<Tree("DONE", <<>>)>>]

-----------------------------------------------------------------------------
(* Properties.                                                             *)

\* A literal comes right after the line that announces it with its length,
\* and every line ends the octets it is made of with its only CR LF.
FragmentsAreLines ==
  \A i \in DOMAIN script : LET fs == script[i].fragments IN
    /\ Last(fs).kind = "Line"
    /\ \A j \in DOMAIN fs :
         IF fs[j].kind = "Line"
         THEN \A k \in DOMAIN fs[j].data : fs[j].data[k] = "CRLF" <=> k = Len(fs[j].data)
         ELSE /\ j > 1 /\ fs[j - 1].kind = "Line"
              /\ LET line == fs[j - 1].data
                     size == ToString(Len(fs[j].data))
                     announcement == <<"{", size>> \o (IF fs[j].mode = "+" THEN <<"+">> ELSE <<>>)
                                       \o <<"}", "CRLF">>
                 IN  IsSuffix(announcement, line)

\* Whatever commands a server decodes, from any client, it can encode, and the
\* decoder reads what it writes to the last octet as the same command: only the
\* sequence sets in it are normalized (encode.rs:1034).
DecodedAgainAsDecoded ==
  [][\A i \in DOMAIN log' \ DOMAIN log :
       log'[i].what = "Served" /\ codec = "Command" =>
         ReadAgain(codec, log'[i].value) = <<log'[i].value[1], NormalForm(log'[i].value[2])>>]_vars

\* Whatever octets arrive, what the server decodes is a value of the type of the
\* message: no parser builds a value that validate refuses, although most of
\* them build it with unvalidated, which panics in debug builds.
UnvalidatedIsValid ==
  [][\A i \in DOMAIN log' \ DOMAIN log :
       log'[i].what = "Served" => ImapTypes!IsMessage(codec, log'[i].value)]_vars
=============================================================================
