------------------------------- MODULE MCValues -------------------------------
(***************************************************************************)
(* The values that the messages of the model-checking modules are made of. *)
(***************************************************************************)
EXTENDS Encoder

MCMaxU32 == 100

K(keyword) == Tree(keyword, <<>>)
N(n) == Word("Number", <<n>>)
Atom(a) == Word("Atom", <<a>>)
AtomExt(a) == Word("AtomExt", <<a>>)
Comment == Word("AtomExt", <<"/", "comment">>)
Set(c) == Tree("Set", c)
One(n) == Word("Single", <<n>>)
FromTo(a, b) == Word("Range", <<a, ":", b>>)
ListOf(c) == Tree("List", c)
Items(c) == Tree("Items", c)
Optional(c) == Tree("Maybe", c)
None == Optional(<<>>)

Quote == Word("Quoted", <<"\\", "\"", " ", "x", "\\">>)
Lit == Word("Literal", <<"a", "CRLF", "(">>)
LitPlus == Word("Literal+", <<"\"", "NIL">>)
Lit8 == Word("Literal8", <<"NUL", "}">>)
Lit8Plus == Word("Literal8+", <<"CRLF">>)
Empty == Word("Literal", <<>>)
EmptyPlus == Word("Literal+", <<>>)
EmptyQuote == Word("Quoted", <<>>)
Strings == {AtomExt("x"), Quote, Lit, LitPlus, Empty, EmptyPlus, EmptyQuote}

Seen == Word("Flag", <<"\\", "Seen">>)
Junk == Word("Flag", <<"Junk">>)
Day == Word("Date", <<"07", "-", "Feb", "-", "1994">>)
Moment == Word("DateTime", <<"07", "-", "Feb", "-", "1994", " ", "21", ":", "52", ":", "25", " ", "-", "08", "00">>)
Ones == Set(<<One("1")>>)
Some == Set(<<One("1"), FromTo("3", "5"), FromTo("7", "*")>>)

-----------------------------------------------------------------------------
(* A line that the encoders do not write.                                  *)
Line(tokens) == Fragment("Line", "", tokens \o <<"CRLF">>)
=============================================================================
