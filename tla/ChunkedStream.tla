---------------------------- MODULE ChunkedStream ----------------------------
(***************************************************************************)
(* A Fragmentizer that is fed with one stream of bytes cut into reads at   *)
(* arbitrary places, by an owner that calls progress, poison_message, and  *)
(* skip_message only where its documentation allows it: when a line has    *)
(* just announced a synchronizing literal.  This is the loop of            *)
(* examples/server.rs and of the tests of fragmentizer.rs, with any policy.*)
(***************************************************************************)
EXTENDS Fragmentizer

CONSTANT Streams      \* the streams the peer may send

ASSUME StreamsAssumption == Streams \subseteq Seq(Byte)

VARIABLES
  stream,     \* the stream the peer sends
  received,   \* how many of its bytes were enqueued
  (* history *)
  base,       \* where in stream the message of the history variables starts
  log         \* the fragments of all messages

svars == <<vars, stream, received, base, log>>

StreamInit == Init /\ stream \in Streams /\ received = 0 /\ base = 0 /\ log = <<>>

Receive ==
  /\ \E k \in (received+1)..Len(stream) :
       /\ EnqueueBytes(SubSeq(stream, received + 1, k))
       /\ received' = k
  /\ UNCHANGED <<stream, base, log>>

\* A call of progress; its result, if any, is the last of fragments'.
Advance ==
  /\ Progress
  /\ base' = IF IsMessageComplete THEN base + Len(parsed) ELSE base
  /\ log' = IF fragments' = Cur(fragments, <<>>) THEN log
            ELSE Append(log, [message |-> base',
                              fragment |-> fragments'[Len(fragments')]])
  /\ UNCHANGED <<stream, received>>

\* skip_message right after the announcement of a synchronizing literal.
RejectLiteral ==
  /\ LastAnnounced(fragments).mode = "Sync" /\ parser.end = parser.start
  /\ SkipMessage
  /\ base' = base + Len(parsed)
  /\ UNCHANGED <<stream, received, log>>

Poison == PoisonMessage /\ UNCHANGED <<stream, received, base, log>>

StreamNext == Receive \/ Advance \/ RejectLiteral \/ Poison

\* The peer's bytes arrive, and the owner calls progress again and again.
StreamSpec ==
  StreamInit /\ [][StreamNext]_svars /\ WF_svars(Receive) /\ WF_svars(Advance)

-----------------------------------------------------------------------------
(* Properties.                                                             *)

StreamTypeOK ==
  /\ TypeOK
  /\ stream \in Streams /\ received \in 0..Len(stream)
  /\ base \in Nat
  /\ log \in Seq([message : Nat, fragment : FragmentInfo])

\* No byte is lost, duplicated or reordered between the peer and the message:
\* the dropped messages, the current one and the unparsed bytes make up what
\* was received.
NothingLost ==
  SubSeq(stream, base + 1, received) = parsed \o unparsed_buffer

\* Both, as an invariant of the owner and the fragmentizer.
StreamInv == StreamTypeOK /\ NothingLost

\* The fragmentizer implements the abstract stream: which fragments it finds,
\* with which announcements, and at which messages, depends on the bytes
\* alone; not on reads, on max_message_size, on poisoning, or on when progress
\* is called.  With fairness, every fragment of the stream is found.
Abstract == INSTANCE FragmentStream WITH
  message <- (IF IsMessageComplete THEN base + Len(parsed) ELSE base),
  position <- base + LastEnd(fragments),
  announced <- LastAnnounced(fragments)

FragmentsDependOnBytesOnly == Abstract!Spec
=============================================================================
