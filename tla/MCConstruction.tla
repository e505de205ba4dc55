----------------------------- MODULE MCConstruction -----------------------------
(***************************************************************************)
(* Construction with strings of up to two octets or words, and a text that *)
(* is base64.                                                              *)
(***************************************************************************)
EXTENDS Construction

Specials ==
  {" ", "(", ")", "\"", "\\", "%", "*", "[", "]", "{", "}", "+", "-", "=", "TAB", "NUL", "CRLF", "8BIT"}

\* All of one octet or word, and those of two that begin with a word or with an
\* octet that means something at the start of a form.
UpToTwo(words) ==
  {<<>>} \cup {<<o>> : o \in words \cup Specials}
    \cup {<<o, p>> : o \in {"\"", "\\", "{", "+", "["}, p \in {"x"} \cup Specials} \cup {<<w, o>> : w \in words, o \in Specials}

MCStrings == UpToTwo({"x", "NIL", "INBOX"})
MCTextInputs == UpToTwo({"x", "dGVz"})
MCChars == {"x"} \cup Specials
MCLengths == 0..2
===============================================================================
