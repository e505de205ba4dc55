# A verification of imap-codec in TLA+

This directory keeps TLA+ modules beside the Rust workspace `imap-codec`: models
of the parts that keep state or decide something over several steps, TLC
configurations that check them on small instances, and proofs checked by TLAPS.
Paths are relative to the root of the repository.

## 1. Inventory

| component | code | state | operations | what must hold |
|---|---|---|---|---|
| Fragmentizer | `imap-codec/src/fragmentizer.rs` | unparsed bytes, message buffer, limit, two flags, parser of the next fragment | `enqueue_bytes`, `progress`, `skip_message`, `poison_message`, `decode_message`, `decode_tag`, `fragment_bytes` | fragments depend on the bytes only; no byte is lost; the limit is exact; a refused message stays refused |
| Session | `imap-codec/examples/server.rs`, the use of `Encoded` that `codec/encode.rs` documents | server: position in the loop, `state`, a fragmentizer; client: fragments to send, what it waits for | one step per branch of the loop; send a fragment, take a reply | both sides agree on message boundaries; nobody waits for ever |
| Encoder | `imap-codec/src/codec/encode.rs` | `EncodeContext`: accumulator and items | `write`, `push_line`, `push_literal`, `encode_ctx` of every type | a literal follows the line that announces it |
| Decoders | `imap-codec/src/codec/decode.rs`, `codec.rs`, `core.rs` | none | five `decode` | a proper prefix of a message is `Incomplete` or `LiteralFound`, never a message and never an error |
| Command grammar | `command.rs`, `search.rs`, `fetch.rs`, `core.rs`, `extensions/*.rs`, ... | the recursion limit of `search_key` | parser combinators | encoding and decoding are inverse; nesting is limited |
| Response grammar | `response.rs`, `mailbox.rs`, `body.rs`, `envelope.rs`, `extensions/thread.rs`, ... | the recursion limits of `body`, body extensions and `thread_list` | parser combinators | the same; what is decoded can be encoded again |
| Sequence sets | `imap-types/src/sequence.rs` | a vector of sequences, the iterators' queues | conversions, `normalize`, `iter`, `iter_naive`, comparison, `FromStr` | the set of messages never changes behind the user's back |
| Tag generator | `imap-types/src/core.rs` | a process-wide atomic counter, one counter per generator | `new`, `generate`, drop | tags are unique |
| Message types | `imap-types/src/*.rs` | plain data | `validate`, constructors, names that are atoms | a validated value can be encoded, and what is encoded is read as the same value |
| The rest | `state.rs`, `secret.rs`, `testing.rs`, `arbitrary.rs`, fuzz targets, benchmarks, CI | | | not part of the verification |

How they interact. A connection owns one fragmentizer. Its owner passes in what
it reads, calls `progress` until that returns `None`, answers announced literals
and, when a message is complete, decodes its bytes with the codec that the
protocol state calls for. The other side encodes a message into fragments
(`Encoded`) and sends them one by one, waiting for a continuation request before
each synchronizing literal. Encoder and fragmentizer share nothing but bytes and
must agree on where every message and literal ends. An application builds
messages with constructors that validate; the decoders build them with
`unvalidated`, so that the grammar alone keeps them valid. Sequence sets are
normalized by the encoder (feature `quirk_always_normalize_sequence_sets`). Tags
come from the generator, which threads share.

What is hard. The library has no threads of its own, no storage and no clock:
the only interleavings are those of two peers and of the threads that make tags.
Everything else that is hard is *reads cut anywhere*, *limits hit anywhere*,
*state that lives longer or shorter than its message*, *what is written down
twice* (reader and writer, validator and grammar), and *boundaries of numbers*.
`PROJECT.json` lists each such place with the properties aimed at it.

## 2. Modules

| module | models | role |
|---|---|---|
| `WireFormat` | bytes, announcements | the reference definition: what a whole line announces |
| `Fragmentizer` | `fragmentizer.rs` | one action per method that changes state, and per outcome of `progress`; the byte automaton of `LineParser` is `NextByte` |
| `FragmentStream` | what the fragmentizer promises | abstract specification: fragments as a function of the stream |
| `ChunkedStream` | a fragmentizer fed from one stream in arbitrary reads | `Fragmentizer` implements `FragmentStream` |
| `Session` | example server, documented client | composition of client, network, server and `Fragmentizer` |
| `Grammar` | nom's combinators, the octet classes of `utils.rs` | a grammar as a value |
| `CommandGrammar` | `command.rs` and what it calls | one definition per parser, named like it |
| `ResponseGrammar` | `response.rs` and what it calls | the same |
| `Decoder` | `codec/decode.rs`, streaming nom | what a grammar makes of the bytes that have arrived |
| `Encoder` | `EncodeContext`, commands | the fragments of a message |
| `ResponseLayout` | `encode_ctx` of greetings and responses | what is written for each value, in order |
| `RoundTrip` | the fuzz targets' check | decode, encode, decode |
| `EncodedStream` | the octets of messages sent one after another | shared by the two exchanges |
| `CommandExchange` | client that sends fragments, server that decodes what has arrived | conversation: messages, continuations, codecs; what decodes is a parameter |
| `ResponseExchange` | server that sends fragments, client that decodes what has arrived | conversation: pipelined responses; what encodes and decodes are parameters |
| `EncodedCommands`, `EncodedResponses` | these conversations with `Encoder` and `Decoder` | composition |
| `Types` | the enums and structs of `imap-types` | schema: the variants of each type and their fields |
| `Validation` | the `validate` functions | which octets a value may have |
| `Construction` | the constructors | application, encoder and decoder |
| `Names` | enumerations that are atoms on the wire | their readers (`From<Atom>`) and writers (`Display`) |
| `SequenceNumbers`, `SequenceSet` | `sequence.rs` | values and their comparison, arm by arm; conversions, `normalize`, iterators |
| `SequenceText` | `FromStr` of sequence sets, the parser of `imap-codec` | two readers of one syntax |
| `TagGenerator` | `TagGenerator` of `core.rs` | threads and generators |
| `MCFragmentizer`, `MCChunkedStream`, `MCSession`, `MCCommandExchange`, `MCResponseExchange`, `MCConstruction`, `MCNames`, `MCTypes`, `MCValues` | | instances for TLC; `MCValues` has values that two of them share |
| `SequenceLemmas`, `FragmentizerProofs`, `ChunkedStreamProofs`, `SessionProofs`, `CommandExchangeProofs`, `ResponseExchangeProofs`, `SequenceProofs`, `TypesProofs` | | proofs |

**Fragmentizer.** The variables have the names of the struct's fields. `parser =
NoParser` is `None`, which the code reads as "the message is complete".
`progress` first drops the previous message if it is complete (`Cur`,
`CurParser`), then parses, dequeues and stores the parser of the next fragment;
all of that is one action per outcome: `ProgressPartialLine`, `ProgressLine`,
`ProgressPartialLiteral`, `ProgressLiteral`. `parsed` and `fragments` are
history: all bytes and fragments of the current message, the dropped bytes
included. `MaxU32` stands for `u32::MAX`; positions are `usize` and not bounded.

**ChunkedStream and FragmentStream.** The owner may skip a message only where
the documentation of `skip_message` allows it: right after a line that announces
a synchronizing literal. `base` and `log` are history: where the message starts
in the stream and all fragments so far.

**Session.** `pc` is the position in the server's loop: `progress`, `read` after
`None`, `react` after a fragment. Its remaining branches are one action each.
`AcceptLimit` is the 1024 of the example. What a codec accepts is external: the
messages that the encoder made for it and no other. The client of the model can
also be a broken one that sends a message without a tag and does not wait.
The commands are constants; `CommandsAssumption` says what the encoder makes of
any command: `Framed`, lines and the literals they announce, and `Behaves`, each
literal marked with the mode that was announced.

**The codecs.** A message is a sequence of tokens: the octets that a parser
tells apart, CR LF as one, and words that no parser looks into. What this hides
is a read that ends between CR and LF or inside a word, which the fragmentizer's
runs have. Where one keyword is the beginning of another (`OLD` and `OLDER`,
`BODY` and `BODY.PEEK[`), the keyword is several tokens. `Grammar` has a record
for every combinator, and `CommandGrammar` and `ResponseGrammar` write each parser
of the default quirks (neither `quirk_id_empty_to_nil` nor `quirk_crlf_relaxed`)
and all `ext_*` but `ext_utf8` with these, alternatives in the order of the code,
because the first that matches wins. `Decoder!Parse` gives the combinators nom's
streaming meaning: `Error` lets the next alternative try, `Incomplete`,
`Failure` and `LiteralFound` end the parse. `LiteralData` announces a literal only
where the input ends with the announcement, and `command` fills in the tag.
`Ref` counts down the recursion limits. `Encoder` turns a value into lines and
literals; `ResponseLayout` says for each response value what it writes, so that
a reviewer finds one definition per `encode_ctx`. Numerals are tokens; the model
knows the values of those up to `MaxNumeral` and of two that do not fit into 32
and 64 bits.

**CommandExchange.** A script is a sequence of messages: the encoder's, or lines
that another client may send with what they mean (`value`, empty if they must be
refused). The client sends them without waiting for answers, except where it must
wait for a continuation. The server decodes its buffer whenever more has arrived,
keeps what follows a message, and replaces the decoder for the lines after
AUTHENTICATE and IDLE. It may reject any literal that waits. The module says
nothing of the syntax: the decoder is the constant operator `decode`. What the
conversation needs of it is `ScriptFits`: it reads a message as it is meant
whatever follows it (`Fits`), takes no part of a message for the whole, stops at
a literal that waits only where just the octets before it have arrived, and the
codecs follow each other as `CodecAfter` chooses them (`InOrder`).
`EncodedCommands` puts `Decoder!Decode` in its place, and the invariant `CodecFits`
lets TLC check `ScriptFits` for every script, every message in it and every part of
the stream that can have arrived from its start on. The proofs (section 4) assume
`ScriptFits` and nothing else of the codecs.

**ResponseExchange.** The server greets and then sends responses, fragment by
fragment, and never waits: IMAP gives a client no way to refuse a literal. The
client decodes whatever has arrived. `LiteralFound` tells it a length to expect;
it decodes again when more has come. `encode` and `decode` are constants in the
same way, `EncodedResponses` has the real ones, and `CodecFits` is checked here too.

**Construction.** An application hands octets, characters or lists to a
constructor. `forms` are all messages that the octets could be made into with
`unvalidated`, the simplest first: atom, quoted string, literal. The constructor
must build the first of them that survives encoder and decoder, and an error
where none does, so that neither the validators nor the grammar can be stricter
or laxer than the other.

**Types, Names, SequenceText.** `Types` is what Rust's type system says of the
values, used to check what the parsers build. `Names` reads and writes every
enumeration, nested ones (`AUTH=`, `SORT=`, `QUOTA=RES-`) included; atoms are
words with a spelling, because the code compares without case and keeps the
spelling of unknown atoms. `AtomsOf` are the atoms that a peer may send as a value of
a type, and `Unread` the variants that no arm of `From<Atom>` gives. `SequenceText` has `FromStr`, the parser and the
formal syntax as three definitions.

**SequenceSet.** The asterisk is 0. `Normalizations` is the set of all results
over the orders in which the `HashSet` of single numbers may be iterated. The
iterators borrow the set, so nothing changes it while one is alive.

**TagGenerator.** `fetch_add` is one atomic step, and wraps around like the
counter of a generator. The random token of release builds is left out: it can
only make more tags different.

`MCTypes` puts sequence sets, texts, names and tags side by side. They share no
state, so a behaviour follows one of them.

## 3. Runs

| run | question | bounds and why they are enough |
|---|---|---|
| `core` | do all properties of the fragmentizer hold under every schedule of its methods? | seven bytes over `{`, `}`, digit 1 and LF with limits none, 0 and 3, and `u32::MAX` = 11: seven bytes hold a line, a literal and another line, and announce 1, 11 and the overflow 111; under limit 5 instead seven bytes of the pieces `A `, `{1`, `+`, `}`, CR, LF: tags, line endings, both announcement modes |
| `poison` | is a poisoned message always refused as `MessagePoisoned`? | three bytes and a limit of 0 suffice for the counterexample |
| `stream` | does the fragmentizer implement the abstract stream, liveness included? | seven streams of nine to fifteen bytes, one for each hard case, in every chunking; limits none, 0, 5, 100; `u32::MAX` = 12 |
| `session` | do client and server agree, and finish? | two commands of seven shapes, limits 8 and 100, `AcceptLimit` 5; what is in flight from one message meets at most the next |
| `types` | does `normalize` keep the messages, whatever order the hash set has, and is its result normal? does each arm of the comparison say what the sequences mean, and does what `normalize` leaves alone ascend? do the iterators yield the set? does a converted range name the range's messages? do both readers take the formal syntax? is every name read as it was written? are tags unique until both counters wrap? | three sequences over 1, 2, 3, 5 and the asterisk: two that overlap, touch or contain each other and a third between them; mailboxes of 3 and 10 messages, below, among and above the numbers; all bounds from -1 to `u32::MAX` + 1 with `u32::MAX` = 10; texts of up to five characters: a list, a range, a sign and a number that is too large; all variants of all name types, each in three spellings, and unknown names next to them; two threads, both widths 3 |
| `sets_maximum` | does `normalize` keep the messages next to `u32::MAX`? | one sequence |
| `sets_nonzero` | do ranges of `NonZeroU32` keep theirs? | all bounds |
| `constructors` | is the simplest form that arrives the one that is built? | strings of up to two octets or words, which hold every octet class at the start and after one another; lists of up to two elements |
| `commands` | do the command decoders invert the encoder, whatever has arrived so far, and do both agree on literals? is what they build of its type, and does it survive being encoded again? | every command and argument, strings as atom, quoted string and all four literals, other spellings of the same command, lines that are no commands, search keys nested 7, 8 and 9 times (the limit is 9), dialogues of AUTHENTICATE and IDLE; each is followed by NOOP, so that the end of a message matters; reads end at every token; `u32::MAX` = 100 and numerals up to 60 hold all dates and times, 29 February among them in a leap year and in another |
| `responses` | the same for greetings and responses, and do pipelined literals never stop the client? | every response, code, fetch item, body and envelope, missing and unknown codes and texts, base64 and text in continuations, other servers' spellings, threads and bodies at their limits; two messages or more in flight |
| `forwarded` | is the nesting of bodies limited, as `body.rs` says? | nine messages, each in the one before |
| `mechanisms` | is a mechanism that the library knows ever read as an unknown one? | all variants of `AuthMechanism` |

Five runs end with a violation, which is what the code does (`findings` in
`PROJECT.json`):

* `poison`: a poisoned message that is too long as well is refused as too long,
  although the documentation promises `MessagePoisoned`.
* `sets_maximum`: `normalize` maps the asterisk to `u32::MAX` and uses half-open
  ranges that saturate there, so that `4294967294:*` becomes `4294967294`. The
  passing run states `NormalizeKeepsMessagesBelowMax`, which leaves
  `u32::MAX - 1` and `u32::MAX` out of the numbers.
* `sets_nonzero`: the conversion of `Range<NonZeroU32>` ignores the start. The
  passing run converts the other integer types (`Types = {"Int"}`).
* `forwarded`: `body_type_1part` gives an embedded message a new limit, so that
  bodies nest as deep as the server likes.
* `mechanisms`: `SCRAM-SHA3-512` and its `-PLUS` variant are written for variants
  of their own and read as `Other`. The passing run leaves them out, as well as
  the capability `NAMESPACE` (section 5).

Fairness. `stream` assumes that the bytes arrive and that the owner keeps calling
`progress`. `session` assumes weak fairness of the client's sending and
receiving and of the server as a whole: each is a sequential program that
proceeds when it can. Whether the client starts another command is left open.

Deadlock is checked in `core`, `stream` and the runs that `SequenceSet` has for
itself. The others end where the system does: `session` when the client has no
more commands, `commands`, `responses` and `forwarded` with the script, `types`,
`constructors` and `mechanisms` when the value has been followed to its end or the
bounds are used up. In `commands` the invariant `NobodyWaitsForever` says that an
exchange stops only when every message has been answered or the server has given
up; in `responses` `ClientIsNeverStuck` says it of the client.

`StreamInv`, `SessionInv`, `ExchangeInv` and `ResponseInv` are the type invariant of
their module together with the invariant on what is in flight (`NothingLost`,
`RepliesAreAwaited`, `ContinuationsAreAwaited`, `LiteralsAreOnTheirWay`); the last two
also say that no message is decoded before all of it was sent
(`NothingIsServedEarly`, `NothingIsReadEarly`).

## 4. Proofs

All theorems hold for every value of the constants that satisfies the named
assumptions, in particular for the real widths and for messages of any length.
Every property of `core`, every property of `SequenceSet` (in `types`) and of the
tag generator is proved, the safety of `stream` and of `session`, and the safety of
the conversations of `commands` and `responses` for all codecs that fit.

*What a step establishes* (`FragmentizerProofs`).

* `TypeCorrect`: the type invariant. The delicate part is the `u32` in the byte
  automaton and in the literal parser. Its induction needs the fact that a
  literal parser's `remaining` bounds what it may still take, which is part of
  the type.
* `BufferCorrect`: `message_buffer` is the longest admitted prefix of the
  message and the flag is exact. It is inductive together with the type: the
  buffer's length is `Admitted(limit, Len(parsed))`, so the subtraction in
  `dequeue_parsed_bytes` cannot underflow.
* `FragmentsTile`: fragments follow each other without gap or overlap.
* `LiteralsCorrect`: fragments are literals exactly where lines announce them.
  Both are inductive with the type invariant; the parser is tied to the last
  fragment, so that a step adds one fragment at the end and compares it with
  the previous one only.

*What a caller may rely on between calls* (`FragmentizerProofs`).

* `FragmentBytesCorrect`: `fragment_bytes` returns the fragment up to the limit.
* `RefusalStays`: a refused message stays refused until it ends or is skipped.
* `NoneIsRight`: `None` from `progress` means that more bytes are needed. Its
  invariant `LineIsOpen` says that the line so far holds no LF.
* `TagStays`: a tag, once found, never changes, although the limit may drop
  bytes. Its invariant `FirstLineIsThere` says that a message with a fragment
  has its first LF.

*The line parser* (`FragmentizerProofs!LinesCorrect`). `LineParser::parse` is an automaton
that reads one byte at a time; the reference definition looks at the whole line.
The invariant `LineMeans` says what each state of the automaton *means* of the
line so far: `Means(text, state)`, for instance that the line ends with `{` and
digits whose number is the one in the state, or exceeds `u32::MAX`. `MeansStep`
carries it over one byte and `MeansScan` over a call.

*The stream* (`ChunkedStreamProofs`).

* `StreamCorrect`: the messages dropped, the current one and the unparsed bytes
  are together the part of the stream that has arrived.
* `StreamImplements`: every step of `ChunkedStream` is a step of
  `FragmentStream` or stutters on its variables. It needs `StreamCorrect` to
  find the message in the stream and the invariants above to see that the
  fragment is the one the bytes determine. The fairness of `FragmentStream` is
  checked by TLC.

*The session* (`SessionProofs`). `MessagesAgree`, `FateIsItsOwn` and
`RepliesFindTheirClient` state that server and client agree on messages and codecs,
that what is refused leaves no trace, and that every reply meets a client that
waits for it. None of them is inductive: they compare what the client sent with
what the server served, and say nothing of the bytes and of the conversation in
between. `SessionInvariant` is the invariant that does, in these parts:

* `ServerInv`: what the fragmentizer's proofs give, restated for a server that
  looks at each fragment once (`ReactInv`).
* `FlowOK`: the messages served, the message being parsed, the unparsed bytes and
  those on their way are, put together, the messages sent and the part of the
  current one that the client has sent.
* `ItemsInv`: the client's fragments not sent yet are the rest of its command.
* `QueueInv` and `DialogueInv`: at most one reply is on its way; the client's
  position, the codec and the messages not served yet belong to one of four
  situations (`Working`, `Requested`, `Granted`, `Authenticating`).
* `WaitInv`: a synchronizing literal is sent only after its announcement was
  answered, so that nothing follows it that was meant for an accepted literal.
* `PoisonInv`: what poisoning says of the client.

From `FlowOK` follows what the server reads: the fragments it has found are the
first fragments that the client has sent (`Matches`). This rests on `SameLine`: two
lines that begin at the same byte of a stream and each end at their first LF are
equal. The proof of a step then asks what the fragment found last is, and whether
it is the last of its message.

The theorems hold for all commands, data lines, limits, numbers of messages and
cuts of the stream that satisfy three named assumptions, which TLC evaluates in
run `session`. `SessionAssumption` gives types. `CommandsAssumption` says what the
encoder makes, as above, that different commands have different encodings, and
what the broken client does: it has no tag, does not wait, and what it announces
as synchronizing is longer than `AcceptLimit`. (If the server accepted one, a
broken client that does not wait would be in step by luck, and could read the
continuation as an answer to something else.) `LinesAssumption` says that the
authenticate data and `DONE` are single lines and that no limit cuts `DONE`; the
example's limit is 10 KiB.

*The exchanges* (`CommandExchangeProofs`, `ResponseExchangeProofs`). Here nothing
stands between reading and decoding: the decoder sees the buffer again and again,
with part of a message, with all of it, with the beginning of what follows. The
theorems hold for every set of scripts, every number of messages underway and every
cut of the stream, under `ScriptsAssumption` and the hypothesis
`\A s \in Scripts : ScriptFits(s)`. TLC checks that hypothesis for the real codecs
(`CodecFits`), one message and one arrival at a time; the theorems then say that no
conversation can go wrong that is made of such messages.

* `MessagesAreDecodedAsMeant` and `MessagesAreReadAsMeant`: the n-th value decoded is
  the n-th that was meant, with the codec it was meant for.
* `ExchangeInvariant` and `ResponseInvariant`: the types; a continuation is sent only
  while the client waits for it, and names its literal; a literal at which the
  client's decoder stops is the next fragment, with that length.
* `NoMessageIsServedEarly`, `NoMessageIsReadEarly`: the conjuncts of these that say that
  no message is decoded before its last fragment was sent.
* `ClientGoesOn`: a client that has looked at all that was sent has decoded every
  message and has nothing left.

None of them is inductive, as they say nothing of octets. `Inv` does:

* `StandsAt`: the octets in the buffer and those on their way *stand at* their place in
  the stream of the whole script. `Underway` puts the buffer where the first message
  that is not decoded starts, the octets on their way right behind it, and lets
  them end where the next fragment to be sent begins. So what the decoder sees is one
  of the `Arrivals` that `ScriptFits` speaks of (`Understood`), and when a message is
  taken from the buffer, the rest stands at the start of the next one.
* `Later` and `Now`, on the server's side of commands: of the messages after the one
  that is decoded next, nothing has been sent that had to wait; and a literal that had
  to wait was sent only after the server had seen all before it. Without them a
  server that stops at a literal twice would be possible.
* `Granted` and `Rejected`: a continuation on its way finds the client waiting for just
  that; a refused literal is still held back, and the only `BAD` on its way tells its
  client so.
* `Stopped`: the server or client has met a message that it is to refuse.
* `Waiting` and `Awaited`, on the client's side of responses: after the buffer has been
  looked at, it does not hold a message; what the decoder expects is announced by
  what is in the buffer.

*Normalization* (`SequenceProofs`). `normalize` turns a set into half-open ranges,
merges them, lets the ranges absorb the single numbers in the order of a `HashSet`,
merges again and keeps the single numbers that no range holds.

* The *extent* of a set of ranges is what its ranges reach (`Reached`) and the
  numbers from which they lead on to the next (`Linked`). The second part is needed:
  `1..3, 4..6` and `1..6` reach the same numbers. `MergeRangesFacts`: `merge_ranges`
  keeps the extent and leaves gaps. Its loop is a fold; the invariant of the fold is
  `Merged`. `GappedFacts`: ranges with gaps are the `Components` of their extent, so
  the extent alone determines them.
* The single numbers are among the half-open ranges themselves, as `n..n+1`. A
  range that absorbs `n` therefore links nothing that was not linked, the extent
  stays, and no number is left over (`AbsorbSinglesFacts`, with the invariant
  `Absorbing` of the fold).
* `NormalizationIs`: `normalize` has one result, `NormalForm`, whatever the order of
  the `HashSet`. `HashOrderIsHidden` and `NormalFormReached` follow from it:
  normalizing a normal form changes nothing, as what is written for a component
  is read as the component again (`ToSequenceFacts`).
* `NormalizeKeeps`: the messages a set names are the same after `normalize`, unless a
  bound is `u32::MAX - 1` or `u32::MAX`. The half-open range is exact below these
  bounds only (`MessagesOfPlain`); `sets_maximum` shows what happens at them.

*Comparison and iterators* (`SequenceProofs`).

* `ConversionCorrect`: a converted range names the range's messages, under the
  hypothesis `Types = {"Int"}`; `sets_nonzero` shows that it is needed.
* `PartialCmpIsBefore`: `Less` means that every message that one sequence names
  comes before every message of the other, and `Greater` the converse. There is a
  lemma for each arm of `partial_cmp` (`SinglesCompared`, `SingleRangeCompared`,
  `RangeSingleCompared`, `RangesCompared`), which compares bounds in the order the
  arm does, and `BeforeIsBelow` leads from bounds to messages.
  `ComparisonOrders` says so of every set the program makes, and that a set which
  `normalize` leaves alone ascends in this order (`NormalFormAscends`, from the
  gaps between the components).
* `IteratorsCorrect`: `iter` and `iter_naive` return the numbers of the set, and
  `iter` each of them once and in order. `IteratorsYieldTheSet` speaks of
  what was returned only; the inductive invariant `IterInv` says that what was
  returned, the rest of the range in hand and the ranges not begun are together the
  numbers of the set, and, for `iter`, that they come in this order. TLC found no
  violation of `IterInv` with the bounds of `types`. The fold of `cleanup` has an
  invariant of its own (`Pushed`).

*Texts* (`SequenceProofs`). `ReadersAgreeOnTexts`: `ReadersAgree` holds of texts of any
length, over any of the characters and for every `u32::MAX`. The formal syntax speaks of
commas and colons by their places; both readers are loops.

* `SplitIs`: the loop of `split` gives all pieces between the separators, in order
  (`SplitUpTo` is its invariant). `PieceByPiece`: a text is a sequence set if and
  only if each of its pieces between commas is a sequence.
* `Reads` says which sequence the parser's syntax makes of a piece. `PieceFromStr`:
  `FromStr` makes the same of it, if it takes it. `SequenceIsTaken` and `TakenIsSequence`:
  the parser takes a piece as `Reads` says, and takes no more than the piece,
  as a number has neither colon nor comma in it (`NumbersAreWhole`, `OneColon`).
* The parser stops silently at what is no sequence. `Reading`, the invariant of its loop,
  says that it has read the pieces so far and is within the next; it is at the end of that
  one if all pieces are sequences. So it gets to the end of the text with all of them or
  does not get there (`SetParsed`).

The value of a number stays the fold that both readers share; which sums of digits it
gives is nowhere used.

The library's induction theorems need an operator as a parameter. Folds are
unfolded without them: `LeastNumber` says that a set of naturals that is not empty
has a least element, and a property without a least counterexample has none.
`FoldExists` builds the results for all prefixes in this way.

*Names* (`TypesProofs`). `Names` relates two tables for each type, which the code
keeps in step by hand, and the chain of splits that takes a capability apart.

* `NamesStay`: what is written for a value is read as the value, and a name that was
  heard is passed on with the same words. Each table is checked once (`Table`: read
  and written agree, and no two variants share a name), and `MatchKept` follows for
  any table and any atom. For capabilities, `CapabilityIs` states when each branch is
  taken, and `SplitFolds` that this depends on the words and not on the spelling;
  `CapabilityKept` and `VariantsRebuilt` put an argument together with its prefix
  and split it off again.
* `FallbackIsForUnknown`: `WordsDecide` says that the variant read depends on the words
  only. Were an atom kept under a fallback written like a variant, reading what is
  written would give both.

Both have the hypothesis `Sent \subseteq Variants \ Unread`, as three variants
(`Namespace` and the two mechanisms of run `mechanisms`) have no reader, and
`NamesAssumption` keeps out atoms like `QUOTA=XRES-STORAGE`; section 5 has both
divergences. The inductive invariant `NamesInv` says where the value came from and
that what is sent was written for it.

*Tags.*

* `TypesProofs!UniqueTags`. `TagsAreUnique` is not inductive: `TagInv` adds
  that the global counter equals the number of generators created as long as it
  has not wrapped, that all tags issued carry smaller numbers, that living
  generators have distinct numbers, and that a generator's counter is above the
  counters of the tags with its number.

`SequenceLemmas` states what the proofs need of sequences once: lengths and
elements of concatenations, prefixes of prefixes, folds and sorting.

Only model-checked: liveness and `NobodyWaitsForever` (which says ENABLED), which are out
of the prover's reach; the constructors (`SimplestFormIsBuilt`); and the codecs themselves (`CodecFits`,
`FragmentsAreLines` and the round trips), whose parsers and encoders are recursive over
the data.

## 5. Not modelled

The type `State`, which no code uses for a transition; `Secret`; serialization;
accessors, conversions to owned values and `Debug`; the test support; the example
client and the examples' terminal input. The two quirks that are off by default
and `ext_utf8` are not modelled.

Two hazards have no property. `server.rs:88` does not answer a literal that is
too long in a message without a tag; only a client that is not the library's
meets it. `sequence.rs:353` reads `u32::MAX` as an asterisk from a `NonZeroU32`
and as a number from a text; they differ only in mailboxes that reach to it.

Other divergences that the modelling met; they have no run, and the runs that
pass keep clear of them or are indifferent to them:

* `NAMESPACE` is not read as `Capability::Namespace` (`imap-types/src/response.rs:1242`).
* `QUOTA=XRES-STORAGE` is read as `QUOTA=RES-STORAGE` (`imap-types/src/response.rs:1263`),
  and unknown resources lose their spelling.
* `FlagFetch::Flag` of an extension `Recent` is written like `FlagFetch::Recent`.
* The comment at `imap-types/src/sequence.rs:438-440` says that `FromStr` refuses a
  leading zero to align with the IMAP grammar. It is not aligned: `FromStr` takes
  `+1` (line 444), which the grammar and the parser refuse, and the parser takes
  `01` (`imap-codec/src/core.rs:69`), which the grammar and `FromStr` refuse.
  `ReadersAgree` states both as they are.
* The fuzz targets' `parsed1 == parsed2` (`fuzz/src/lib.rs:31`) fails for sequence
  sets that are not in normal form, because the encoder normalizes
  (`codec/encode.rs:1032`); the round-trip properties compare normal forms.
* `normalize` writes `1:4294967294` as `1:*`.
* A status text such as `* OK {1}` announces a literal to the fragmentizer and
  none to the decoder; a test writes this down (`imap-codec/src/fragmentizer.rs:1556-1565`).
* `number64` is documented with 63 bits and parsed with 64 (`imap-codec/src/core.rs:50-52`).

## 6. Plan

1. *The fragmentizer and the decoders together*: `decode_message` with the
   grammars, so that a message that the fragmentizer calls complete is one that a
   decoder takes as a whole; status texts that end like an announcement are the
   exception to state.
2. *Another client*: one that gives no tag and waits, for `server.rs:88`.
