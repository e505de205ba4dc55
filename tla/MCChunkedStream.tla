--------------------------- MODULE MCChunkedStream ---------------------------
(***************************************************************************)
(* ChunkedStream on a set of streams that contain the hard cases.          *)
(***************************************************************************)
EXTENDS ChunkedStream

MCMaxU32 == 12
MCLimits == {NoLimit, 0, 5, 100}

A == 65
n0 == 48
n1 == 49
n2 == 50
n3 == 51

MCStreams == {
  \* a line, then a command with a synchronizing literal
  <<A, SP, LF, A, OPEN, n2, CLOSE, CR, LF, A, LF, CR, LF>>,
  \* a literal that looks like lines and announcements
  <<OPEN, n3, PLUS, CLOSE, LF, OPEN, n1, LF, LF, A, LF>>,
  \* empty literals, twice in a message
  <<OPEN, n0, CLOSE, CR, LF, OPEN, n0, n0, PLUS, CLOSE, LF, CR, LF>>,
  \* lengths at and above the largest u32
  <<OPEN, n1, n3, CLOSE, LF, OPEN, OPEN, n1, CLOSE, LF, LF, LF>>,
  \* announcements spoilt by a second CR, by a sign and by a blank
  <<OPEN, n1, CLOSE, CR, CR, LF, OPEN, PLUS, CLOSE, LF, OPEN, n1, CLOSE, SP, LF>>,
  \* a literal that ends with CR, before a bare LF
  <<OPEN, n1, CLOSE, LF, CR, LF, A, OPEN, n1, CLOSE, CR, LF, LF, LF>>,
  \* the stream breaks off inside a literal
  <<OPEN, n1, n2, CLOSE, CR, LF, A, A, LF>> }
=============================================================================
