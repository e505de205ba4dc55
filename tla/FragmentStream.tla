--------------------------- MODULE FragmentStream ---------------------------
(***************************************************************************)
(* What the fragmentizer promises: the fragments of a stream of bytes are  *)
(* a function of the stream and of the messages the owner rejects at a     *)
(* synchronizing literal.  There is no buffer, no size limit, no poison    *)
(* and no notion of how the bytes arrive.                                  *)
(***************************************************************************)
EXTENDS WireFormat

VARIABLES
  stream,      \* all bytes the peer sends
  message,     \* where the current message starts in stream
  position,    \* end of the last fragment
  announced,   \* what the last fragment announces
  log          \* the fragments so far, each with the start of its message

vars == <<stream, message, position, announced, log>>

\* Fragments as in Fragmentizer, with positions relative to the message.
Line(start, end, a, ending) ==
  [kind |-> "Line", start |-> start, end |-> end,
   announcement |-> a, ending |-> ending]
Literal(start, end) == [kind |-> "Literal", start |-> start, end |-> end]

Entry(f) == [message |-> message, fragment |-> f]

\* Ends of the line that starts at position: the first LF.
IsLineEnd(e) ==
  /\ e > position /\ stream[e] = LF
  /\ \A i \in (position+1)..(e-1) : stream[i] # LF

Init ==
  /\ message = 0 /\ position = 0
  /\ announced = NoAnnouncement /\ log = <<>>

EmitLine ==
  /\ announced = NoAnnouncement
  /\ \E e \in DOMAIN stream :
       LET text == SubSeq(stream, position + 1, e)
           a == LineAnnouncement(text)
       IN  /\ IsLineEnd(e)
           /\ log' = Append(log, Entry(Line(position - message, e - message,
                                            a, Ending(text))))
           /\ position' = e
           /\ announced' = a
           /\ message' = IF a = NoAnnouncement THEN e ELSE message
  /\ UNCHANGED stream

EmitLiteral ==
  /\ announced # NoAnnouncement
  /\ position + announced.length <= Len(stream)
  /\ log' = Append(log, Entry(Literal(position - message,
                                      position + announced.length - message)))
  /\ position' = position + announced.length
  /\ announced' = NoAnnouncement
  /\ UNCHANGED <<stream, message>>

\* The owner refuses the announced literal; its peer goes on with a message.
Reject ==
  /\ announced.mode = "Sync"
  /\ message' = position
  /\ announced' = NoAnnouncement
  /\ UNCHANGED <<stream, position, log>>

Next == EmitLine \/ EmitLiteral \/ Reject

Spec == Init /\ [][Next]_vars /\ WF_vars(EmitLine) /\ WF_vars(EmitLiteral)
=============================================================================
