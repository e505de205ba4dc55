----------------------------- MODULE EncodedStream -----------------------------
(***************************************************************************)
(* The octets of encoded messages that are sent one after another, and     *)
(* the parts of them that can have arrived.  A message is the sequence of  *)
(* its fragments here.                                                     *)
(***************************************************************************)
EXTENDS Naturals, Sequences, SequencesExt

CONSTANT Octet  \* what fragments are made of

Fragments == [kind : {"Line", "Literal"}, mode : {"", "+"}, data : Seq(Octet)]

Written(fs) == FlattenSeq([j \in DOMAIN fs |-> fs[j].data])

StreamOf(ms) == FlattenSeq([i \in DOMAIN ms |-> Written(ms[i])])

\* The octets before the i-th message.
StartOf(ms, i) == Len(StreamOf(SubSeq(ms, 1, i - 1)))

\* What can have arrived from the start of the i-th message on.
Arrivals(ms, i) ==
  LET stream == StreamOf(ms)
      start == StartOf(ms, i)
  IN  {SubSeq(stream, start + 1, end) : end \in (start + 1)..Len(stream)}
=============================================================================
