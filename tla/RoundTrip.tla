------------------------------- MODULE RoundTrip -------------------------------
(***************************************************************************)
(* What becomes of a message that has been decoded when it is encoded and  *)
(* decoded again, as the fuzz targets do with every message they can       *)
(* decode (fuzz/src/lib.rs:14-31).                                         *)
(***************************************************************************)
EXTENDS Decoder, Encoder

ImapTypes == INSTANCE Types

\* The fragments that the message of a codec is written as.
Rewritten(codec, message) ==
  IF codec = "Command" THEN EncodeCommand(message[1].t, message[2]) ELSE EncodeResponse(message[1])

\* What the decoder yields for them: nothing if it does not read all of them.
ReadAgain(codec, message) ==
  LET fragments == Rewritten(codec, message)
      octets == FlattenSeq([i \in DOMAIN fragments |-> fragments[i].data])
      d == Decode(codec, octets)
  IN  IF d.res = "Ok" /\ d.at = Len(octets) + 1 THEN d.out ELSE <<>>

\* A value with all its sequence sets normalized.
RECURSIVE NormalForm(_)
NormalForm(node) ==
  IF node.n = "Set" THEN [node EXCEPT !.c = NormalizedSet(@)]
  ELSE [node EXCEPT !.c = [i \in DOMAIN @ |-> NormalForm(@[i])]]
=============================================================================
