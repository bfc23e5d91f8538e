# TLA+ models of mellium.im/xmpp

The repository is an XMPP library: a session over one connection, the
negotiation that sets the session up, and a package per extension protocol
that sends requests over a session and handles what comes in.  This directory
holds TLA+ models of the parts that keep state and meet concurrency, failure
or an uncooperative peer, the TLC configurations that check them on small
instances, and proofs that TLAPS checks for every instance.

## The system

**Session** (`session.go`, `session_iq.go`, `session_message.go`,
`session_presence.go`, `internal/marshal`).  State: two locks around the input
and the output of the connection, a state bit mask with a mutex of its own, a
buffered XML encoder that counts the element depth, the table `sentStanzas` of
requests that wait for a response, and a context for the close deadline.  One
goroutine runs `Serve`, which reads one top level element at a time and hands
it to the waiting request or to a handler; any other goroutine may send,
encode, wait for a response, take the raw token reader or writer, set a close
deadline or close.  Hard: elements of several writers share one encoder; a
response is handed over on an unbuffered channel to a call that may be leaving;
three places want to write the stream end tag; the input stands still while a
response is being read.

**Negotiation** (`negotiator.go`, `features.go`, `starttls.go`, `sasl.go`,
`bind.go`, `roster/ver.go`, `s2s/bidi.go`, `disco/caps.go`, the constructors in
`session.go`).  State: the bits Secure, Authn and Ready, the connection, the
features already negotiated, and the feature list of the current stream.  A
session calls its negotiator until the Ready bit is set; one call opens a
stream if one is wanted, writes or reads a feature list and negotiates
features from it.  Hard: stream restarts throw away some state and keep other
state; optional features come before required ones in random order; the peer
may send anything at any point.

**Extensions with state of their own**: in-band bytestreams (`ibb`: sequence
numbers, a bounded read buffer, both sides closing, a listener), message
receipts (`receipts`: a table of messages against receipts), multi-user chat
(`muc`: joining and leaving against presences), the message archive
(`history`: queries and their iterators), block list, roster and bookmark
iterators, result set paging, ad-hoc commands.  All of them run their handlers
inside `Serve`, so a handler that waits holds up the whole session.

**Requests** (`session_iq.go` and a function or two in most extension
packages).  A function sends an IQ, gets the response as a reader while `Serve`
stands still, decodes it, iterates over its children or hands it on, and has to
close it on every path.

**The library proper**: the multiplexer (`mux`: patterns, and a buffer that the
handlers of one stanza share), dialing (`dial`, `internal/discover`,
`websocket`, `component`: lookups, fallbacks, a handshake), addresses (`jid`),
stanzas (`stanza`), forms (`form`) and message styling (`styling`, a stateful
split function).  No two goroutines meet here; what is hard is partial failure,
input in pieces and positions in buffers.

The rest is payload types, generators and examples.  `PROJECT.json` lists every
part with its status.

## Modules

| module | models | checked by |
|---|---|---|
| `Session` | an established session, its callers, `Serve`, the peer | `MCSession` |
| `SessionProofs`, `SessionWireProofs` | theorems about `Session`: locks and responses; what is on the wire, offers and answers | TLAPS |
| `Negotiate` | both ends of a negotiation, or one against any peer | `MCNegotiate` |
| `NegotiateProofs` | theorems about `Negotiate` | TLAPS |
| `Ibb` | both ends of one in-band bytestream | `MCIbb` |
| `IbbProofs`, `IbbBytesProofs` | theorems about `Ibb`: buffers, numbers and closing; where each byte is | TLAPS |
| `Handlers` | `Serve`, callers and contexts, as the next four see them | |
| `Receipts`, `Muc`, `History`, `Listener` | one package each | |
| `Extensions` | the four on one session | `MCExtensions` |
| `ExtensionsProofs` | theorems about `Extensions` | TLAPS |
| `Requests` | functions that send an IQ, iterators, handlers of requests | `MCRequests` |
| `Exchange` | what such a function promises; `Requests` implements it | `MCRequests` |
| `RequestsProofs` | theorems about `Requests`, the refinement among them | TLAPS |
| `Mux`, `Dial`, `Jid`, `Stanza`, `Form`, `Styling` | one part of the library each | |
| `Library` | a behaviour of any one of them | `MCLibrary` |
| `DialProofs` | theorems about `Dial` | TLAPS |

### Session

A step is a stretch of one goroutine between two points where another can
interfere: taking a mutex, a channel operation, an access to the connection.
`pc` says where each goroutine is; `out`, `in` and `st` hold the owner of
`out.Locker`, `in.Locker` and `stateMutex`.  An element is a start token and an
end token in `buf` (the encoder's buffer, `BufCap` tokens) or on `wire`, each
with the operation or input it comes from, so that mixing, loss and order are
visible.  `torn` remembers the sources whose element an error cut short; what
such a source left on the wire is half an element, whoever writes next, and
`TopLevel` and `WholeElements` are about the other sources.

Callers use the operations `iq` (the SendIQ family and everything built on
`sendResp`), `send` and `encode` (Send, Encode and their Element forms),
`writerto` (Encode of a value with WriteXML, which `EncodeXML` does not
flush), `tokens` (TokenWriter), `read` (TokenReader), `close` (Close) and
`deadline` (SetCloseDeadline).  The peer sends responses to requests that
reached it (also twice), requests that can and cannot be answered by default,
messages, white space, a stream error, the end of its stream, or breaks the
connection, also inside an element that is being read to its end.  A handler may
read its element to the end, write up to `MaxWrites` elements, replies or others
in any order, fail, fail halfway through an element, or return `io.EOF`.

Abstractions: contents and attributes of stanzas are left out (the namespace
and ID the encoder adds depend on `depth` alone, which is modelled); every
request has an ID of its own; `w.Close` of a raw writer ends its operation; the
watcher that moves a context's deadline to the connection is left out.

### Negotiate

An end runs by itself between two reads, so a step goes from one read to the
next and writes the elements the code writes in between.  `cfg` is one of the
`Configs`: which ends are modelled, their features, tees, TLS from the start,
S2S, how many steps the SASL mechanism takes, whether it sends an empty
challenge, and whether reads, credentials and the bind function may fail.  With one end the peer is `Anything`: every
element kind, header and feature list, in any order.  The record `s[e]` keeps
the state bits, the TLS layer, the tee, the features negotiated on this stream,
the feature list with what it says is required, and the addresses of the peer's
headers (`from`, `to`), each of them the right one, another one or none.
`inside` is a server behind the start of an element that roster versioning or
bidi has left in the stream: what it reads next is the end of that element, and
it fails.  An element written on one layer cannot be read on another (`tls` of a
message).  An end that fails writes nothing more; that its caller closes the
connection is the caller's business.

A feature is the record of its Necessary and Prohibited bits, of what List and
Parse say about being required, and of whether it has a Negotiate function.
SASL mechanisms are a library; they appear as a number of steps.

### Ibb

Two `Conn`s of one established stream and the ordered channel of stanzas between
them.  `conn[e]` holds the fields of `Conn` and its `stanzaWriter`; the bytes are
numbered, so that loss, repetition and order show.  Written bytes go through
`wbuf` (the `bufio.Writer`), then through the base64 encoder, which keeps the
bytes of an unfinished group (`fringe`) and calls `stanzaWriter.Write` once for
the group it fills up and once for the rest.  `job` says where the goroutine
that writes and the one that closes are, `rpc` where the one that reads is, and
`serve` where Serve is: `HandleClose` looks at `closed` and `closeNoNotify` acts
on it, with other goroutines in between.  A block sent while `stanzaWriter.t` is
the encoder of a handler that has returned fails (`stale`).  `panic` is a send on
or a close of the closed `readReady`.  `raced` and `flushed` are history: that
two goroutines were in the encoder at once, because Close and `closeNoNotify`
flush without the write lock, and how much a Close that returned nil covers.
`params` holds the block size, the carrier and the scenario of a stream.

Abstractions: Write takes one byte at a time; base64 is the grouping it does and
its internal split of very long blocks is left out; `closeNoNotify` is one step,
so a write through the handler's encoder while that handler still runs is left
out; an error message for a refused message is not sent, as nobody handles it;
data that is not base64, and a buffer that refuses to be written to, do not
happen between two ends of this package.  The answer to a request leaves Serve
free before the response is closed, which allows more than the code does.

### Extensions

`Handlers` has what all handlers share: `serve` says where the one goroutine
that runs them is, `inbox` what is on its way to it, `pc` where every goroutine
of the application is, `ctx` whether the context of its call is done.  The four
packages add their own tables.  A step ends at a mutex, a channel operation or a
select.  `Receipts` keeps the map with its creation outside the lock (`made`
counts the maps) and the channel that a cancelled call closes; `Muc` the table
`managed`, the channel that Join makes anew every time, its queue of joins, the
goroutine every Join leaves behind and the room itself; `History` the tracked queries, their channels and the goroutine
that ends a query; `Listener` the `pending` channel, the expected streams and
the two locks of `handleOpen`.  They are one model because they share Serve: a
handler of one package that waits stops the receipts of another.

### Requests

A function is a record that says what it does with the response (unmarshal it,
iterate over its children, only close it, hand it on) and how it decodes a
child.  Responses are errors, payloads of the wrong kind, text in front of one or
none at all, and lists with items that can and cannot be decoded, a paging set,
or a point where reading fails.  A token that is not of the type the code takes
it for, a nil iterator and an item without the attribute a handler looks at are
a panic, which is the end of the behaviour.  `held` is Serve waiting for the response to be closed.  `Exchange` is
the abstract side: ask, read with the input held, give it back before the end.
The mapping is `Stage` of `pc`, and `held` itself.

### Library

`Mux`: a pattern is its registration and names its handler, which may be nil.  The tokens of a
stanza are in the session's reader (`wire`) or in `buf`; a handler asks for any
number of tokens from the start of the stanza, and the loop goes on behind.

`Dial`: a resolver answers with records, none, the root domain, or an error;
every attempt succeeds or fails.  For a WebSocket the host metadata is a
sequence of schemes; `dialAt = "none"` is a Dial that returned neither a
connection nor an error.  For a component the server's side is a sequence of
tokens; `"broken"` is a write, or the rest of an element, that failed.

`Jid`: text over a letter in two cases, the separators, a dot, brackets, invalid
UTF-8 and one character that stands for an IPv4 address; a length limit of 2
stands for 1023.  String preparation is case mapping.
The transformers run in a loop as in `transform.String`.

`Stanza`: a header is written, read, answered with a result or an error and read
again.  `Form`: a field is filled in and submitted, and read by the other side.

`Styling`: the decoder is the sequence of its levels (`quoteSplit`), each with
mask, span stack and line state.  The Scanner reads pieces when the split
function asks for more.

## Runs

| run | question | states |
|---|---|---|
| `SessionCore` | two callers with `iq`, `tokens`, `close` against responses, requests, messages and white space, handlers that write twice; contexts end at any time | 1.1 million |
| `SessionFaults` | failing writes and payloads, stream errors, every kind of handler, deadlines, raw reads | 4.4 million |
| `SessionLive` | under fairness: Serve ends, calls return | 55 thousand |
| `Negotiation` | matching ends, with tees, with and without faults, and one end against any peer, client and server, c2s and s2s: no standstill, no authentication without TLS and no session without authentication; under fairness matching ends have a session | 57 thousand |
| `IbbStream` | one direction of data in IQs and in messages, Close at either end and at both, deadlines, a buffer limit that changes | 930 thousand |
| `Extensions` | two goroutines and Serve over receipts, rooms, archives and a listener, under fairness | 172 thousand |
| `Requests` | every function, iterator and handler over every kind of response; refinement of `Exchange`; under fairness Serve comes to every request of the peer, if no command is refused | 201 thousand |
| `Library` | each part of the library over its small inputs | 73 thousand |

The other runs each ask whether the program does what a sentence of its
documentation says, and TLC answers with a behaviour in which it does not:

| run | the sentence is about |
|---|---|
| `SessionAfterClose` | writing after Close |
| `IbbWake` | a Read that waits for data (under fairness) |
| `CommandError` | the response of a command that failed (under fairness) |
| `JidUnescape` | escape sequences |

Their configurations are the smallest in which the question comes up.

The bounds.  Two callers with one operation each and two inputs are enough for
every pair of operations to meet each other and `Serve`, for a response that
comes twice, and for one that comes after its context is done; a third caller
only adds a waiter on the same locks.  A buffer of one or two tokens makes it
overflow inside an element, the interesting case; the write that fails may be
any.  Two elements of a handler are a reply behind something else, something else
behind a reply, and two replies.  Faults use one input, because the first failure ends `Serve` or marks the
encoder for good.  The negotiation with both ends is finite by itself.  Against
an arbitrary peer ten reads cover a complete negotiation (header, list,
proceed, header, list, challenge, success, header, list, bind) and everything
shorter.  Symmetry is used for the callers in safety runs only.

A bytestream has one writing and one reading end, since the other direction is
the same code with the roles exchanged.  Three bytes in blocks of one let a
block be refused and a later one be accepted.  Four bytes in blocks of three
with groups of two make the encoder keep a byte, fill it up and pass on two
chunks of one flush.  In these streams one end closes, either of them; Close at
both ends, which multiplies the interleavings, is checked with a full and with
an unfinished group.  The sequence numbers start at 65535, so they wrap after
the first block.

The scenarios of `Extensions` pair the calls that can meet in Serve: two
senders of receipts, a sender with an iterator, an iterator that stops early,
joins against kicks and renames, two joins of one room and a join again after a
leave, Accept and Expect against a closing listener.
Two stanzas of the peer's own accord are enough for one to be handled while the
other waits.  In `Requests` a second call shows what the first left behind, and
two turned pages show that the first page is not special.  In `Library`: three
patterns would only add ones that do not match; a handler reads nothing, part of
the stanza or all of it; strings of five characters hold both separators in any
order with something between; four tokens of a server are one more than the
longest welcome; texts to unescape have four characters, a sequence and one
before or behind it (a second one before it is `JidUnescape`); three changes
reach every part of an address;
documents of four characters, with four longer ones for nested spans, quotations
and code blocks, in pieces of one, of two or as a whole.  (All documents of five
characters over seven were checked once: 490 thousand states.)

Deadlock is not checked: a bytestream may simply not be used, a session whose callers are done and whose peer is
silent waits for input for ever, and a negotiation stops when it is ready or
has failed.  `ServeEnds`, `CallsReturn`, `NoStandstill`, `Established`,
`HandlersReturn` and `Served` say when stopping would be wrong.

Fairness.  `SF` on the steps of a goroutine: Go schedules every goroutine that
can run and `sync.Mutex` does not starve a waiter (after a millisecond it hands
the lock over).  It includes that handlers return and that the owner of a
response closes it, which `session_iq.go` asks of its callers.  The peer, new
calls, contexts and deadlines are not fair.  `WF` on the steps of an end of a
negotiation: only a read holds it up, and that an element which is there is read
is all that `Established` needs, since its configurations have no faults.  That
neither end waits for something that will not come is `NoStandstill`, an
invariant, and rests on no fairness.  In `Ibb` the writer and the closer are strongly fair (the write lock
is a `sync.Mutex`), the reader and Serve weakly; applications need not write,
flush or close, and deadlines need not pass.  In `Extensions` Serve, the calls
in progress and the goroutines Join and Fetch leave behind are weakly fair: a
goroutine whose channel operation or select stays possible goes on.  Nobody has
to send, and no context has to end.  In `Requests` Serve and the function that
has a response to read go on.

## Proofs

A theorem holds for every value of the constants, under the assumptions their
modules name.  Where one needs more, it says so in its statement.

`SessionProofs` (any number of callers, operations and inputs, any buffer size):

- `TypeCorrect`: `TypeOK`, one lemma per conjunct.
- `LocksExclusive`: `LockInv` says that the owner of the output and state locks
  is exactly the goroutine whose `pc` is in the critical section, `Serve` with a
  deferred writer included.  It is inductive with `TypeOK`.
- `ClosesOnce`: `CloseTagOnce` is not inductive.  `CloseInv` adds that the tag is
  never in the encoder's buffer, that whoever is about to write it has set
  `outClosed` and holds the state lock, and that a tag on the wire means nobody
  is about to write another; with `LockInv` this is inductive.
- `ResponsesOwned`, `NoEntryLeaks`, `ResponsesSerial`: `RespInv` joins who holds
  the input lock, which response channels are closed and where their owners are,
  which entries the table may hold, and that the reader of a response has `Serve`
  waiting for it.  None of its parts is inductive alone: that nobody else reads
  needs the input lock, that `Serve` waits for the right channel needs that a
  channel is closed only as the last act of its operation.

`SessionWireProofs` continues from `LockInv` and `CloseInv` to the tokens:

- `DepthRestored` (`TopLevel`): `DepthInv` says that the encoder is one level
  down exactly while a goroutine is inside an element; with `LockInv` that one
  holds the output lock.
- `NothingRawAfterClose` (`NoRawAfterClose`): `RawInv` says that a token which
  the check for a closed output guards is in the buffer only while the output is
  open and its writer still holds the lock, so the end tag cannot come between.
- `ElementsWhole` (`WholeElements`): what is on the wire and in the buffer
  together is a sequence of whole elements, of which only the last may be
  unfinished, by the owner of the lock.  Hypothesis: no operation is `writerto`.
  `EncodeXML` does not flush such a value, so its end may still be in the buffer
  when Close writes the stream end tag to the connection past it.

The second half of `SessionWireProofs`, about requests and responses:

- `OffersTaken` (`OfferTaken`): `ReqInv` says that a response is only for a
  request that was flushed: its end is the last token before the flush, so a
  write that fails does not send it, and from the flush on the call waits, has
  the response, gave up because its context is done, or is over.  With `RespInv`,
  an entry in the table means that it is not over.
- `RequestsAnswered` (`Answered`): a handler may answer as often as it likes, but
  Serve's own answer must be the only one.  `AnswerInv` says that no default
  answer stands beside another, that an answer in the buffer belongs to the input
  whose writer is still open, and where the answer to the current input is at
  each place of Serve.

`NegotiateProofs` (any set of configurations, any peer):

- `NegotiationTypeCorrect`: `TypeOK`.
- `AuthOnlyOverTLS`: `SecureIsTLS`, and `ReadyOnlyAuthenticated`:
  `ServerAuthenticates`.  Both follow from `NegotiationInv`, which says of each
  end that the features it may still choose have their necessary bits
  (`CacheInv`), that a SASL exchange goes on only after SASL was chosen over TLS
  (`ChoiceInv`), and of a server that its list is marked as required as soon as
  anything on it is (`ServerInv`), so that the Ready bit comes from binding alone.
  The invariant speaks of one end at a time; a step is correct when the record
  it puts in place is `Good`, which one lemma per way to continue establishes.
- `AddressesNeverChange` (`AddressesFixed`), an action property, about the origin
  and the location.
- `StartTLSAlwaysTried` (`TlsTried`).  Hypothesis: no client has a tee, since the
  tee sets the negotiator's data and with it turns off the forced attempt.
- `RestartsAreDone` (`RestartDone`), about servers and about clients whose
  server is modelled.  A server of this library marks what restarts the stream
  as required; another one need not.
- `ClientNeverAhead` (`BitsAgree`, about connections both ends of which are
  modelled).  Hypothesis (`Matched`): they have StartTLS, SASL and resource binding, and the client's
  mechanism has one step or more steps than the server's.  Without the first a
  list without binding makes the client ready; without the second the client is
  authenticated on a challenge; TLC finds both.  Here the two ends must be taken
  together: `PairInv` is a table over the place of the client, of what is under
  way in each direction, how the two sets of bits differ and what the server
  will do with what it reads next.  A server that has failed, or fails at the
  first element it will read, counts as stopped (`Stops`): it writes nothing
  more, so the client goes nowhere either.  Every step of an end is first put
  into one of a few kinds (`ServerMoves`, `ClientMoves`); that the table is kept
  (`ServerPair`, `ClientPair`) is then about records and sequences of at most
  two elements.

`IbbProofs` (any block size, group size, number of sequence numbers, limits):

- `TypeCorrect` (`TypeOK`) and `BufferBounded` (`BufferBound`).  `TypeInv` makes
  the types precise: a goroutine has chunks to write exactly while it is in the
  middle of a block, no chunk is longer than what the buffer and the encoder can
  hold, and only an answer names a goroutine.  `HeadInv` says that while
  `closeNoNotify` runs, the close it handles is still at the head.  The bound
  needs that `DecodedLen` is no less than the length (`DecodedEnough`).
- `NumbersAgree` (`SeqAgrees`).  The property itself only counts the blocks
  under way.  `Agreement` adds that the number the writer will use next
  continues them, with one more for a block whose answer has not come (`Out`),
  and that a goroutine about to send has already taken that number; the latter
  is kept because the lock (`LockInv`) leaves no second goroutine in the encoder
  without a race (`AloneInv`).  The counting lemmas are about `Blocks` and the
  remainder: joining, appending to and taking from a channel, and wrapping.
- `NoPanicFromOneClose` (`PanicOnlyIfBothClose`), for more than three sequence
  numbers (the code has 2^16).  `FlightInv`: a Close has at most one question
  under way or its answer, and every close under way is that of a Close.
  `HalfInv`, about an end o that has not called Close and the other end e: the
  stream of e is there and only its own Close ends its reads, and either o is
  untouched and e unanswered (`Opened`, `Unanswered`), or closeNoNotify failed at
  o and e stays unanswered (`EndedUp`), or o has answered (`Gone`).  In the last
  case what is on its way to e has two parts (`Behind`): up to the answer the
  numbers are the ones expected; behind it there can be a block of the writer of
  o, which closeNoNotify did not wait for, and its number is one to three before
  the one that will be expected then, since closeNoNotify has written one to
  three blocks from that number on.  The hypothesis is needed: with three
  numbers TLC finds such a block accepted after Close has closed the channel.
  TLC checked `FlightInv` and `HalfInv` with four numbers before they were
  proved.

`IbbBytesProofs` (from the same assumptions; TLC checked each of the invariants
before it was proved):

- `BytesInOrder` (`InOrder`).  `CarriedInv` says where each byte is: those that
  have not arrived are in the stanzas on their way, in the chunks the goroutine
  under the write lock has still to send, in the base64 encoder and in the
  buffer, one part after the other (`Run`, `Cuts`, `Pending`).  Over messages a
  part may be missing (`Ordered`).  Over IQs none is (`Gapless`), because a
  goroutine learns that its block was taken only when everything sent before has
  arrived (`Due`), and a block that was refused is the last one it sends.  The
  property makes two exceptions, both of them `closeNoNotify`: it flushes without
  the lock, so it may race with a writer, and it does not wait for answers, so
  over IQs the bytes it flushes are in order but may have a gap.
- `EndOfStreamComplete` (`EofIsComplete`).  `SolidInv`: no block is empty, so a
  Read that a block has woken finds bytes.  `AwakeInv`: who ends the reads has set `closed`
  before, and a Read reports the end only when the buffer is empty, or after a
  panic.  `AmountInv`: what was written before Close is out of the buffer once its
  flush is done, and the encoder of the handler is used only at an end whose
  reads have ended or whose writes fail.  `ReachedInv`: all of it has arrived when
  Close asks the other end to close, and once that is answered, a Read of the
  other end that reported the end has returned all of it.

`ExtensionsProofs` (any scenarios in which a goroutine sends at most one tracked
message and makes at most one query, `OnceAssumption`, so that a goroutine
stands for the ID of its stanza):

- `PanicsNeedAnEnd` (`PanicNeedsEnd`), `ReceiptsAreFound` (`ReceiptFound`):
  `HandlerInv` ties where Serve is in a handler to where the goroutine it serves
  is and to the entry in the table.
- `HistoriesComplete` (`HistoryComplete`): `ArchiveInv` adds that what the
  archive sent is what the iterator has, what Serve is handing to it and what is
  in the inbox before the result.
- `RoomsAgree` (`Agreed`): `RoomInv` says of each channel that what is pending
  has the number of an earlier call while a Leave goes on (`Pended`, `Leaving`),
  that a presence of a user who is no longer in the room is followed by one that
  says so (`Dated`), which is what a Join that is about to return rests on
  (`Entered`), and that at most one departure is under way, asked for by the
  Leave that is waiting for it (`Departed`).  TLC checked `RoomInv` on every
  sequence of up to four calls before it was proved, and found that the answer
  to a Leave that gave up is taken by the next one; `Agreed` leaves those
  channels out (`late`).

`RequestsProofs` (any functions, responses, number of calls and pages):

- `GivesInputBack`: `Requests` implements `Exchange`, action by action, under
  the mapping `Stage`.  Hypothesis: no response to a command is an error, since
  Execute and ForEach leave a refused response open (run `CommandError`).
- `ErrorsReported` (`ErrorReported`) and `ListsComplete` (`AllItems`).  For a list
  the invariant counts: what was given out, what was missed and what is left make
  the list.
- `ResponsesClosedOnce` (`ClosedOnce`): `iqResponder.Close` closes a channel and
  panics when it is called again.  The invariant is that whoever is about to
  close a response has it, which is so because `held` is given up only together
  with the place in the function where a close can follow.

`DialProofs` (any dialers and any answers):

- `DialsInOrder`: `DialSpec => []Dialed`; `DialSpec` is the part of `Library`
  with `part = "dial"`.  The invariant is that what was tried, joined with what
  is left, is what the lookups gave, those with TLS in front.

Only model-checked: liveness (`ServeEnds`, `CallsReturn`, `Established`,
`HandlersReturn`, `CancelReturns` and `Served`), because fairness and ENABLED are
beyond the prover; `NoStandstill`, which `PairInv` is too weak for (it treats all
ways a server can stop alike), and `ComponentReady`; and `RoundTrip`, `Styled` and
`Dispatched`, whose operators are recursive or need induction over the data.
`TopLevel`, `BufferBound` and the `TypeOK` of `Ibb` are the other way round: they
are proved and in no run.

## Where code and documentation differ

Those with a run of their own, each a finding in `PROJECT.json` with the
sentence it contradicts:

- Send and Encode write after the stream end tag (`session.go:963`).
- A bytestream's Read misses the signal for its data (`ibb/conn.go:178`).
- A command whose response cannot be used leaves it open
  (`commands/commands.go:75`).
- Unescape reads its digits from the wrong place (`jid/escape.go:230`).

Met while modelling, present in the models, without a run; the properties that
would show them leave the case out, by a condition of their own or by the
configurations of their run:

- After Close the default answer to a request fails and ends Serve
  (`session.go:639`), and SetCloseDeadline cancels the context Serve polls
  (`session.go:900`), so Serve can return before the peer has closed and before
  the deadline, both against `session.go:448`.
- A server that lists no required feature waits for a choice (`features.go:180`);
  a client that negotiates a feature with a new connection from such a list is
  ready with the restart pending (`features.go:283`).  The comment at
  `features.go:281` has the negotiation complete in the first case only.
- With a tee StartTLS is not forced any more (`negotiator.go:207`, against `:59`).
- A challenge without data is sent as `=`, which the client cannot decode
  (`sasl.go:448`, against `sasl.go:200`); a mechanism that ends on a challenge sets Authn before the
  server has said success (`sasl.go:403`).
- A block refused because the buffer is full ends the stream for its writer
  (`ibb/ibb.go:215`), although `ibb/conn.go:287` has it wait.
- SendMessage and SendMessageElement are "safe for concurrent use by multiple
  goroutines" (`receipts/receipts.go:229` and `:251`), but the table is made
  outside the lock (`receipts/receipts.go:253`), so that of two first calls one
  can lose its registration; and the handler sends on a channel that a cancelled
  call has closed in the meantime, and panics (`receipts/receipts.go:199`).
- Closing a listener while it is being offered a stream makes the handler panic
  (`ibb/listen.go:83`).  Closing an archive iterator while Serve delivers to it
  stops both (`history/history.go:93`, against `history/iter.go:44`).
- A failed request for a further page of disco items is a nil iterator, and
  Next panics (`disco/items.go:89`, against `disco/items.go:124`).
- The mux tries the wildcard namespace before the wildcard localname
  (`mux/mux.go:83`, against `mux/mux.go:52`).
- `wss` links are sorted last (`websocket/ws.go:166`, against `:127`), and if all
  links are skipped Dial returns neither a connection nor an error
  (`websocket/ws.go:191`).
- Form.Submit panics for a multi-line text that is empty or ends in a line break,
  also for a required one that was never set (`form/form.go:469`, against `:386`);
  a required Boolean that was not set is submitted as false.
- When a write fails in the middle of an element, or a handler fails there, the
  next writer goes on behind half an element (`session.go:967`).
- The stream error of a failed handler stays in the encoder's buffer
  (`session.go:517`) and is lost; `session.go:437` says it is sent.
- A receiving server refuses every initiating server that says who it is
  (`negotiator.go:148`), so two servers never get a session.
- A response read while its request is about to give up is discarded
  (`session.go:603`); `session_iq.go:34` says the handler can still get it.
- EncodeXML of a WriterTo does not flush (`internal/marshal/encode.go:67`).
- A list of supported features none of which can be negotiated makes the client
  ready (`features.go:261`, against `features.go:162`).
- The element with which a client enables bidi is in another namespace than the
  feature (`s2s/bidi.go:60`), so the server takes it for a policy violation.
- The server's side of roster versioning and of bidi does not read its element to
  the end (`roster/ver.go:35`, `s2s/bidi.go:50`), so that the next read of a
  feature fails.
- When both ends of a bytestream Close at once, one of them can close or send on
  a channel that is already closed (`ibb/conn.go:265`, `ibb/ibb.go:254`), because
  the flag is tested and set without a lock and Close does not remove the stream.
- A Close whose flush fails returns before it closes `readReady`, so blocked Reads
  stay blocked (`ibb/conn.go:243`, against the comment above it); the error sticks
  to the buffer, and when the peer then closes, `closeNoNotify` returns it and
  ends Serve.
- Over messages a refused block is skipped: the receiver has counted it
  (`ibb/ibb.go:215`) and the sender never learns of it.
- Flush leaves up to two bytes in the base64 encoder (`ibb/conn.go:226`); only
  Close passes them on.
- The flush of `closeNoNotify` is not locked (`ibb/conn.go:229`): a block that is
  being written is sent again under the next number.  Nor does it wait for
  answers: over IQs, when one of its blocks is refused, the next ones are sent all
  the same, and what has arrived then has a gap.
- Channel.Join after Leave does not register the channel again
  (`muc/room.go:185`, `muc/muc.go:221`) and waits until its context ends, although
  `muc/room.go:181` recommends it for joining again.  A Join that failed leaves its
  entry in a queue of one, so the next blocks before it sends anything.  Joined
  looks the bare address up in a table of full ones and is always false.
- The signal that a room was left is dropped when Leave is not in its select yet
  (`muc/muc.go:222`), and a kick, or the answer to an earlier Leave that gave up,
  is taken for the answer to a Leave.
- The error of an archive query is stored only if there already is one
  (`history/history.go:134`).  Two queries with one ID, which the model leaves
  out (`history/history.go:114`), leave the second iterator without a channel.
- An Expect whose context ended leaves its entry, and the handler then waits with
  the lock held (`ibb/ibb.go:187`); closing a listener twice panics (`ibb/listen.go:83`).
- roster.Set, blocklist.Add, Remove and Report, muc.SetConfig and ibb.Open do not
  look at an error response.  commands.ForEach leaves a response open when its
  function fails.  A bookmark whose ID is no address ends the iteration without
  an error.  The next page of disco items is asked from the last item
  (`disco/items.go:85`).
- Text in front of the payload of a response makes UnmarshalIQ panic
  (`session_iq.go:220`), makes Execute panic with the response open
  (`commands/commands.go:77`), and is what an iterator iterates over.
- The handler of block and unblock writes no answer, so Serve refuses what was
  done (`blocklist/handler.go:67`), and panics on an item without an address
  (`blocklist/handler.go:72`).
- A message or presence with text only reaches no handler.
- A failed lookup falls back to the default port; dialing without lookup ignores
  the ports of S2S.
- Escape ends with ErrShortDst when there is room (`jid/escape.go:88`), and loses
  characters when there is none.  A domain with two dots at its end keeps one.
- UnmarshalError dereferences nil for text in front of the error element
  (`stanza/error.go:434`).
- In message styling a `>` or a code fence right behind a span is taken for a
  block in the middle of a line; a second line of a nested quotation is preceded
  by an end token, and a drop by two levels gives only one (`styling/styling.go:206`);
  the marker of a quotation takes in line breaks; if the input ends with its last
  piece a code block is one token up to the end (`styling/styling.go:448`).

## Plan

In this order:

1. An abstract request table that `Session` implements.
2. Two requests with one ID, and the watcher that moves a context's deadline to
   the connection, in `Session`.

## Not modelled

The SASL mechanisms, TLS, XML parsing, string preparation and base64 are
libraries.  Payload types (delays, forwarding, metadata, colours, keys and the
like) are structures with their XML, without state.  The verification string of
entity caps is a hash of a sorted text.  WalkItem, SkipSpan and SkipBlock are
loops over what is modelled.
Generated code, examples, the integration harness and the command line tools
are outside the library.
