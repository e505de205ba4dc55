--------------------------- MODULE MCFragmentizer ---------------------------
(***************************************************************************)
(* Instances of Fragmentizer for TLC.                                      *)
(***************************************************************************)
EXTENDS Fragmentizer

\* u32 shrunk so that a two-digit number can overflow.
MCMaxU32 == 11

\* Every byte sequence over an alphabet that can spell lines, announcements
\* and overflowing lengths, one byte at a time: every chunking of every
\* stream is an interleaving of EnqueueBytes and Progress.
MCBytes == {<<OPEN>>, <<CLOSE>>, <<LF>>, <<49>>}

\* Larger pieces of messages, to reach tags, CRLF and both literal modes
\* within the same number of steps: "A ", "{1", "+", "}", CR, LF.
MCTokens == {<<65, SP>>, <<OPEN, 49>>, <<PLUS>>, <<CLOSE>>, <<CR>>, <<LF>>}

MCChunks == MCBytes \cup MCTokens

\* Bytes arrive where the limit is one of the first three, pieces under the last.
TokenLimit == 5
MCLimits == {NoLimit, 0, 3, TokenLimit}
OneKindOfChunks ==
  Len(unparsed_buffer') > Len(unparsed_buffer) =>
    \E bytes \in IF max_message_size = TokenLimit THEN MCTokens ELSE MCBytes :
      unparsed_buffer' = unparsed_buffer \o bytes
=============================================================================
