--------------------------- MODULE EncodedResponses ---------------------------
(***************************************************************************)
(* The conversation of ResponseExchange with the encoders and decoders of  *)
(* imap-codec: the messages of its scripts, and what holds of the codecs   *)
(* in it.  Its encode is FragmentsOf and its decode is Decode.             *)
(***************************************************************************)
EXTENDS RoundTrip, ResponseExchange

-----------------------------------------------------------------------------
(* Messages.  value is what the client is meant to make of it, <<>> when   *)
(* it is meant to refuse it.                                               *)

ResponseMessage(node, meant) == [lines |-> <<>>, node |-> node, value |-> meant]

\* What another server than the library may send.
ForeignResponse(fs, meant) == [lines |-> fs, node |-> Tree("None", <<>>), value |-> meant]

FragmentsOf(m) == IF m.lines # <<>> THEN m.lines ELSE EncodeResponse(m.node)

-----------------------------------------------------------------------------
(* Properties.                                                             *)

\* Whatever the decoder yields, for any server's octets, the encoder writes and
\* the decoder reads again, to the last octet, as the same value: only the
\* sequence sets in it are normalized (encode.rs:1034).
ReadAgainAsRead ==
  [][\A i \in DOMAIN log' \ DOMAIN log :
       log'[i].what = "Accepted" =>
         ReadAgain(codec, log'[i].value) = [j \in DOMAIN log'[i].value |-> NormalForm(log'[i].value[j])]]_vars

\* Whatever octets arrive, the decoder never panics: continue_req takes for
\* granted that the text it has read is one that CommandContinuationRequest::basic
\* accepts, and no parser builds a value that validate refuses, although most of
\* them build it with unvalidated, which panics in debug builds.
DecoderNeverPanics ==
  [][\A i \in DOMAIN log' \ DOMAIN log :
       /\ log'[i].what # "Panic"
       /\ log'[i].what = "Accepted" => ImapTypes!IsMessage(codec, log'[i].value)]_vars

\* How deep bodies are inside each other in a value.
RECURSIVE Depth(_)
Depth(node) ==
  Max({Depth(node.c[i]) : i \in DOMAIN node.c} \cup {0})
    + (IF node.n \in {"SinglePart", "MultiPart"} THEN 1 ELSE 0)

\* What the documentation of the parser of bodies says (body.rs:26-27): "it is
\* needed to limit how may recursions are allowed. (8 should suffice)".
NestingIsLimited ==
  [][\A i \in DOMAIN log' \ DOMAIN log : \A j \in DOMAIN log'[i].value : Depth(log'[i].value[j]) <= 8]_vars
=============================================================================
