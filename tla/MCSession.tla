------------------------------ MODULE MCSession ------------------------------
(***************************************************************************)
(* Session with commands of every shape.  AcceptLimit stands for the 1024  *)
(* of examples/server.rs, the limits for its 10 KiB and for a server whose *)
(* limit a command can exceed.                                             *)
(***************************************************************************)
EXTENDS Session

MCMaxU32 == 19

A == 65
n1 == 49
n2 == 50
n6 == 54

Cmd(kind, its) == [kind |-> kind, items |-> its]

\* "A A" CRLF
Plain == Cmd("Command", <<LineItem(<<A, SP, A, CR, LF>>)>>)

\* A literal that spells a command line.
InLiteral == <<A, SP, A, CR, LF>>
Synchronizing ==
  Cmd("Command", <<LineItem(<<A, SP, OPEN, 53, CLOSE, CR, LF>>),
                   LiteralItem(InLiteral, "Sync"), LineItem(<<CR, LF>>)>>)
NonSynchronizing ==
  Cmd("Command", <<LineItem(<<A, SP, OPEN, 53, PLUS, CLOSE, CR, LF>>),
                   LiteralItem(InLiteral, "NonSync"), LineItem(<<CR, LF>>)>>)

\* An accepted literal and then one that the server rejects.
TwoLiterals ==
  Cmd("Command", <<LineItem(<<A, SP, OPEN, n1, CLOSE, CR, LF>>),
                   LiteralItem(<<LF>>, "Sync"),
                   LineItem(<<OPEN, n6, CLOSE, CR, LF>>),
                   LiteralItem(<<A, SP, A, CR, LF, LF>>, "Sync"),
                   LineItem(<<CR, LF>>)>>)

\* No tag, and a literal that is sent at once; it spells a command line too.
Malformed ==
  Cmd("Malformed", <<LineItem(<<OPEN, n6, CLOSE, CR, LF>>),
                     LiteralItem(<<A, SP, A, CR, LF, LF>>, "NonSync"),
                     LineItem(<<CR, LF>>)>>)

Authenticate == Cmd("Authenticate", <<LineItem(<<A, SP, n1, CR, LF>>)>>)
Idle == Cmd("Idle", <<LineItem(<<A, SP, n2, CR, LF>>)>>)

MCCommands == {Plain, Synchronizing, NonSynchronizing, TwoLiterals,
               Malformed, Authenticate, Idle}
MCDataLine == <<n1, CR, LF>>
MCDoneLine == <<n2, CR, LF>>

MCSessionLimits == {8, 100}
=============================================================================
