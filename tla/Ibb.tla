-------------------------------- MODULE Ibb --------------------------------
(***************************************************************************)
(* One in-band bytestream (ibb/) between two ends of this package, from    *)
(* the moment both have a Conn.  At each end a goroutine writes, one reads *)
(* and one closes, and Serve handles what the other end sent; the sessions *)
(* between them deliver stanzas in order.                                  *)
(***************************************************************************)
EXTENDS Integers, Sequences, FiniteSets, SequencesExt

CONSTANTS
    Writers,     \* the ends whose application writes
    Readers,     \* the ends whose application reads
    Streams,     \* block sizes, the bytes base64 encodes at once (3 in the
                 \* code), whether data goes in IQs and not in messages, a
                 \* bound on the bytes written, and the ends that call Close
    SeqCount,    \* sequence numbers (2^16)
    FirstSeq,    \* of the next block: 0, or any in a stream that was used
    MaxBufSize,  \* the read buffer newConn is given, 0 for no limit
    Limits,      \* what the application gives SetReadBuffer
    Timeouts     \* write deadlines may pass

Ends == {"opener", "acceptor"}
Other(e) == IF e = "opener" THEN "acceptor" ELSE "opener"
Roles == {"writer", "closer"}

ASSUME EndAssumption == Writers \cup Readers \subseteq Ends
ASSUME StreamAssumption ==
    Streams \subseteq [block : Nat \ {0}, group : Nat \ {0}, acked : BOOLEAN,
                      bytes : Nat, closers : SUBSET Ends]
ASSUME SeqAssumption == SeqCount \in Nat \ {0} /\ FirstSeq \in 0 .. SeqCount - 1
ASSUME BufAssumption == MaxBufSize \in Nat /\ Limits \subseteq Nat
ASSUME FlagAssumption == Timeouts \in BOOLEAN

VARIABLES
    params,   \* the parameters of this stream, fixed
    conn,     \* the fields of each end's Conn
    job,      \* what the goroutine that writes and the one that closes do
    rpc,      \* where the reading goroutine is
    serve,    \* where Serve is
    chan,     \* stanzas on their way to each end
    written,  \* bytes Write has taken
    got,      \* bytes Read has returned
    panic,    \* a send on or a close of a closed channel
    raced,    \* two goroutines have been in the encoder at once
    flushed   \* bytes written when Close was called, once it returned nil

appVars == <<written, got>>
ghostVars == <<raced, flushed>>
vars == <<params, conn, job, rpc, serve, chan, appVars, panic, ghostVars>>

BlockSize == params.block
Group == params.group
Acked == params.acked
MaxBytes == params.bytes
Closers == params.closers

\* newConn
InitialLimit == IF MaxBufSize < BlockSize /\ MaxBufSize > 0 THEN 2 * BlockSize
                                                            ELSE MaxBufSize
Init ==
    /\ params \in Streams
    /\ conn = [e \in Ends |->
                 [closed |-> FALSE, ready |-> TRUE, rbuf |-> <<>>, seq |-> FirstSeq,
                  limit |-> InitialLimit, wbuf |-> <<>>, fringe |-> <<>>,
                  wseq |-> FirstSeq, werr |-> FALSE, handlerT |-> FALSE,
                  stream |-> TRUE, lock |-> "none"]]
    /\ job = [e \in Ends |-> [r \in Roles |->
                 [pc |-> "idle", op |-> "flush", todo |-> <<>>, left |-> <<>>,
                  seq |-> 0, stale |-> FALSE, upTo |-> 0]]]
    /\ rpc = [e \in Ends |-> "idle"] /\ serve = [e \in Ends |-> "run"]
    /\ chan = [e \in Ends |-> <<>>]
    /\ written = [e \in Ends |-> 0] /\ got = [e \in Ends |-> <<>>]
    /\ panic = [e \in Ends |-> FALSE] /\ raced = [e \in Ends |-> FALSE]
    /\ flushed = [e \in Ends |-> 0]

Stanza(kind, seq, bytes, by) ==
    [kind |-> kind, seq |-> seq, bytes |-> bytes, by |-> by]

\* The sequence numbers of both directions are 16 bits wide.
NextSeq(k) == (k + 1) % SeqCount

At(e, r, l) == ~panic[e] /\ job[e][r].pc = l
SetConn(e, c) == conn' = [conn EXCEPT ![e] = c]
SetJob(e, r, j) == job' = [job EXCEPT ![e][r] = j]
\* The end of Close and closeNoNotify use the encoder without the write lock:
\* somebody other than r is in the middle of one of ops when r does, or r has
\* the lock and the other one is Close.
Races(e, r, ops) ==
    raced' = [raced EXCEPT ![e] = @ \/
        \E x \in Roles \ {r} : job[e][x].todo # <<>> /\ job[e][x].op \in ops]
Ops == {"write", "flush", "tail"}
Sends(e, ms) == chan' = [chan EXCEPT ![Other(e)] = @ \o ms]

----------------------------------------------------------------------------
(* The base64 encoder between the write buffer and the stanzas: it fills   *)
(* up the group it has begun, passes on whole groups and keeps the rest.   *)

Lead(f, b) == IF f # <<>> /\ Len(f) + Len(b) >= Group THEN Group ELSE 0
Inner(f, b) == IF f # <<>> /\ Lead(f, b) = 0 THEN 0
               ELSE Group * ((Len(f \o b) - Lead(f, b)) \div Group)
NonEmpty(x) == IF x = <<>> THEN <<>> ELSE <<x>>
Chunks(f, b) ==
    NonEmpty(SubSeq(f \o b, 1, Lead(f, b)))
      \o NonEmpty(SubSeq(f \o b, Lead(f, b) + 1, Lead(f, b) + Inner(f, b)))
Left(f, b) == SubSeq(f \o b, Lead(f, b) + Inner(f, b) + 1, Len(f \o b))
Held(f, b) == IF Lead(f, b) > 0 THEN SubSeq(f \o b, 1, Group) ELSE f

\* DecodedLen counts whole groups.
DecodedLen(bytes) == Group * ((Len(bytes) + Group - 1) \div Group)

----------------------------------------------------------------------------
(* Writing a block: stanzaWriter.Write once for each chunk.                *)

\* A goroutine begins to write the next chunk of todo.
Next1(j, c, todo) ==
    [j EXCEPT !.pc = "send", !.todo = todo, !.seq = c.wseq, !.stale = c.handlerT]

\* A goroutine goes on at l when its block is written or has failed.
Leaves(j, l) ==
    [j EXCEPT !.pc = l, !.op = "flush", !.todo = <<>>, !.left = <<>>, !.seq = 0,
              !.stale = FALSE]
Finished(j, r) == Leaves(j, IF r = "writer" THEN "idle"
                            ELSE IF j.op = "flush" THEN "tail" ELSE "notify")
Failed(j, r) == Leaves(j, IF r = "writer" THEN "idle" ELSE "failed")

\* The buffer after a flush, with the byte that made Write flush.
Emptied(e, c, j) ==
    [c EXCEPT !.wbuf = IF j.op = "write" THEN <<written[e] + 1>> ELSE <<>>,
              !.fringe = j.left, !.lock = "none"]
Taken(e, j) == written' = [written EXCEPT ![e] = @ + IF j.op = "write" THEN 1 ELSE 0]

\* A chunk has been written; c is the connection with the next sequence number.
Wrote(e, r) ==
    LET j == job[e][r]
        c == [conn[e] EXCEPT !.wseq = NextSeq(@)]
        d == [c EXCEPT !.fringe = IF Len(@) = Group THEN <<>> ELSE @]
    IN IF Len(j.todo) > 1
         THEN SetConn(e, d) /\ SetJob(e, r, Next1(j, d, Tail(j.todo)))
              /\ UNCHANGED written
         ELSE /\ SetConn(e, IF j.op = "tail" THEN [c EXCEPT !.fringe = <<>>]
                                             ELSE Emptied(e, c, j))
              /\ SetJob(e, r, Finished(j, r))
              /\ Taken(e, j)

WriteErrBug(e, r) ==
    /\ SetConn(e, [conn[e] EXCEPT !.wseq = NextSeq(@),
                                  !.lock = IF @ = r THEN "none" ELSE @])
    /\ SetJob(e, r, Failed(job[e][r], r))
    /\ UNCHANGED written

\* The error of a chunk sticks to the encoder and to the buffer.
WriteErr(e, r) ==
    /\ SetConn(e, [conn[e] EXCEPT !.werr = TRUE,
                                  !.lock = IF @ = r THEN "none" ELSE @])
    /\ SetJob(e, r, Failed(job[e][r], r))
    /\ UNCHANGED written

Write(e) ==
    /\ At(e, "writer", "idle") /\ e \in Writers /\ ~conn[e].closed /\ written[e] < MaxBytes
    /\ SetJob(e, "writer", [job[e]["writer"] EXCEPT !.pc = "lock", !.op = "write"])
    /\ UNCHANGED <<conn, rpc, serve, chan, appVars, panic, ghostVars, params>>

Flush(e) ==
    /\ At(e, "writer", "idle") /\ conn[e].wbuf # <<>>
    /\ SetJob(e, "writer", [job[e]["writer"] EXCEPT !.pc = "lock", !.op = "flush"])
    /\ UNCHANGED <<conn, rpc, serve, chan, appVars, panic, ghostVars, params>>

LockFreeBug(c) == TRUE
LockFree(c) == c.lock = "none"

\* The write lock, and what bufio does under it.
Lock(e, r) ==
    LET j == job[e][r]  c == conn[e] IN
    /\ At(e, r, "lock") /\ LockFree(c)
    /\ \/ /\ c.werr
          /\ SetJob(e, r, Failed(j, r)) /\ UNCHANGED <<conn, written>>
       \/ /\ ~c.werr /\ j.op = "write" /\ Len(c.wbuf) < BlockSize
          /\ SetConn(e, [c EXCEPT !.wbuf = Append(@, written[e] + 1)])
          /\ SetJob(e, r, Finished(j, r)) /\ Taken(e, j)
       \/ /\ ~c.werr /\ j.op = "flush" /\ c.wbuf = <<>>
          /\ SetJob(e, r, Finished(j, r)) /\ UNCHANGED <<conn, written>>
       \/ /\ ~c.werr /\ (IF j.op = "write" THEN Len(c.wbuf) = BlockSize ELSE c.wbuf # <<>>)
          /\ LET k == [j EXCEPT !.left = Left(c.fringe, c.wbuf)]
                 todo == Chunks(c.fringe, c.wbuf)
             IN IF todo = <<>>
                  THEN /\ SetConn(e, Emptied(e, c, k))
                       /\ SetJob(e, r, Finished(k, r)) /\ Taken(e, j)
                  ELSE /\ SetConn(e, [c EXCEPT !.lock = r, !.fringe = Held(@, c.wbuf)])
                       /\ SetJob(e, r, Next1(k, c, todo)) /\ UNCHANGED written
    /\ Races(e, r, {"tail"})
    /\ UNCHANGED <<rpc, serve, chan, got, panic, flushed, params>>

\* A message is written and done with; an IQ waits for its answer.  The
\* encoder of a handler that has returned takes nothing.
Send(e, r) ==
    LET j == job[e][r] IN
    /\ At(e, r, "send")
    /\ \/ j.stale /\ WriteErr(e, r) /\ UNCHANGED chan
       \/ /\ ~j.stale
          /\ Sends(e, <<Stanza("data", j.seq, Head(j.todo), IF Acked THEN r ELSE "none")>>)
          /\ IF Acked
               THEN SetJob(e, r, [j EXCEPT !.pc = "wait"]) /\ UNCHANGED <<conn, written>>
               ELSE Wrote(e, r)
    /\ UNCHANGED <<rpc, serve, got, panic, ghostVars, params>>

Answered(e, r) ==
    /\ \/ At(e, r, "result") /\ Wrote(e, r)
       \/ At(e, r, "error") /\ WriteErr(e, r)
    /\ UNCHANGED <<rpc, serve, chan, got, panic, ghostVars, params>>

\* The write deadline passes while a block waits for its answer.
Timeout(e, r) ==
    /\ Timeouts /\ At(e, r, "wait") /\ WriteErr(e, r)
    /\ UNCHANGED <<rpc, serve, chan, got, panic, ghostVars, params>>

----------------------------------------------------------------------------
(* Close: it looks at the flag and sets it, flushes, asks the other end to *)
(* close and then ends the reads.                                          *)

Close(e) ==
    /\ At(e, "closer", "idle") /\ e \in Closers
    /\ SetJob(e, "closer", [job[e]["closer"] EXCEPT
          !.pc = IF conn[e].closed THEN "noop" ELSE "set", !.upTo = written[e]])
    /\ UNCHANGED <<conn, rpc, serve, chan, appVars, panic, ghostVars, params>>

CloseSet(e) ==
    /\ At(e, "closer", "set")
    /\ SetConn(e, [conn[e] EXCEPT !.closed = TRUE])
    /\ SetJob(e, "closer", [job[e]["closer"] EXCEPT !.pc = "lock", !.op = "flush"])
    /\ UNCHANGED <<rpc, serve, chan, appVars, panic, ghostVars, params>>

\* closeFlushFunc writes the group that is not full.
closeFlushBug(f) == <<>>
closeFlush(f) == NonEmpty(f)

\* Close does so without the lock.
CloseTail(e) ==
    LET j == [job[e]["closer"] EXCEPT !.op = "tail"]  c == conn[e] IN
    /\ At(e, "closer", "tail")
    /\ SetJob(e, "closer",
          IF c.werr THEN Failed(j, "closer")
          ELSE IF closeFlush(c.fringe) = <<>> THEN Finished(j, "closer")
          ELSE Next1(j, c, closeFlush(c.fringe)))
    /\ Races(e, "closer", Ops)
    /\ UNCHANGED <<conn, rpc, serve, chan, appVars, panic, flushed, params>>

CloseNotify(e) ==
    /\ At(e, "closer", "notify")
    /\ Sends(e, <<Stanza("close", 0, <<>>, "closer")>>)
    /\ SetJob(e, "closer", [job[e]["closer"] EXCEPT !.pc = "closewait"])
    /\ UNCHANGED <<conn, rpc, serve, appVars, panic, ghostVars, params>>

CloseTimeout(e) ==
    /\ Timeouts /\ At(e, "closer", "closewait")
    /\ SetJob(e, "closer", Failed(job[e]["closer"], "closer"))
    /\ UNCHANGED <<conn, rpc, serve, chan, appVars, panic, ghostVars, params>>

\* close(c.readReady) wakes up the reader; closing it again is a panic.
CloseReady(e, c) ==
    IF c.ready
      THEN /\ SetConn(e, [c EXCEPT !.ready = FALSE])
           /\ rpc' = [rpc EXCEPT ![e] = IF @ = "waiting" THEN "woken" ELSE @]
           /\ UNCHANGED panic
      ELSE /\ panic' = [panic EXCEPT ![e] = TRUE]
           /\ SetConn(e, c) /\ UNCHANGED rpc

CloseDone(e) ==
    LET j == job[e]["closer"] IN
    /\ At(e, "closer", "closed")
    /\ CloseReady(e, conn[e])
    /\ SetJob(e, "closer", [j EXCEPT !.pc = "done"])
    /\ flushed' = [flushed EXCEPT ![e] = IF conn[e].ready THEN j.upTo ELSE @]
    /\ UNCHANGED <<serve, chan, appVars, raced, params>>

----------------------------------------------------------------------------
(* Reading.                                                                *)

\* Read takes what there is, or as much as fits its argument.
Take(e, k) ==
    /\ got' = [got EXCEPT ![e] = @ \o SubSeq(conn[e].rbuf, 1, k)]
    /\ SetConn(e, [conn[e] EXCEPT !.rbuf = SubSeq(@, k + 1, Len(@))])

Read(e) ==
    /\ ~panic[e] /\ e \in Readers /\ rpc[e] \in {"idle", "woken"}
    /\ \/ /\ \E k \in 1 .. Len(conn[e].rbuf) : Take(e, k)
          /\ rpc' = [rpc EXCEPT ![e] = "idle"]
       \/ /\ conn[e].rbuf = <<>>
          /\ rpc' = [rpc EXCEPT ![e] = IF @ = "idle" THEN "unlocked" ELSE "eof"]
          /\ UNCHANGED <<conn, got>>
    /\ UNCHANGED <<job, serve, chan, written, panic, ghostVars, params>>

\* <-c.readReady, after the read lock was given up.
Receive(e) ==
    /\ ~panic[e] /\ rpc[e] = "unlocked"
    /\ rpc' = [rpc EXCEPT ![e] = IF conn[e].ready THEN "waiting" ELSE "woken"]
    /\ UNCHANGED <<conn, job, serve, chan, appVars, panic, ghostVars, params>>

SetReadBuffer(e, max) ==
    /\ ~panic[e] /\ e \in Readers
    /\ SetConn(e, [conn[e] EXCEPT !.limit = IF max < BlockSize /\ max > 0 THEN BlockSize
                                                                          ELSE max])
    /\ UNCHANGED <<job, rpc, serve, chan, appVars, panic, ghostVars, params>>

----------------------------------------------------------------------------
(* Serve and the handlers it calls.                                        *)

Serving(e, kinds) ==
    /\ ~panic[e] /\ serve[e] = "run" /\ chan[e] # <<>> /\ Head(chan[e]).kind \in kinds

\* The stanza is taken and ms is written; only an IQ is answered.
Replies(e, ms) ==
    chan' = [chan EXCEPT ![e] = Tail(@), ![Other(e)] = @ \o ms]
Answer(m, kind) == IF m.by = "none" THEN <<>> ELSE <<Stanza(kind, 0, <<>>, m.by)>>

Fits(c, m) == c.limit = 0 \/ Len(c.rbuf) + DecodedLen(m.bytes) <= c.limit

\* The next block is expected even if this one will be refused.
Expecting(c) == [c EXCEPT !.seq = NextSeq(@)]

\* The signal to a Read that waits; a closed channel cannot be sent on.
Signal(e) ==
    /\ rpc' = [rpc EXCEPT ![e] = IF @ = "waiting" THEN "woken" ELSE @]
    /\ panic' = [panic EXCEPT ![e] = ~conn[e].ready]

\* The other end is of this package, so the data is always base64: the answer
\* to what is not, and the error of any other reader, do not occur.
handlePayload(e) ==
    LET m == Head(chan[e])
        c == Expecting(conn[e])
    IN /\ Serving(e, {"data"})
       /\ \/ /\ ~conn[e].stream \/ m.seq # conn[e].seq
             /\ Replies(e, Answer(m, "error"))
             /\ UNCHANGED <<conn, rpc, panic>>
          \/ /\ conn[e].stream /\ m.seq = conn[e].seq /\ ~Fits(c, m)
             /\ SetConn(e, c)
             /\ Replies(e, Answer(m, "error")) /\ UNCHANGED <<rpc, panic>>
          \/ /\ conn[e].stream /\ m.seq = conn[e].seq /\ Fits(c, m)
             /\ SetConn(e, [c EXCEPT !.rbuf = @ \o m.bytes])
             /\ Replies(e, Answer(m, "result"))
             /\ Signal(e)
       /\ UNCHANGED <<job, serve, appVars, ghostVars, params>>

HandleClose(e) ==
    LET m == Head(chan[e]) IN
    /\ Serving(e, {"close"})
    /\ \/ /\ ~conn[e].stream \/ conn[e].closed
          /\ Replies(e, Answer(m, IF conn[e].stream THEN "result" ELSE "error"))
          /\ UNCHANGED serve
       \/ /\ conn[e].stream /\ ~conn[e].closed
          /\ serve' = [serve EXCEPT ![e] = "closing"] /\ UNCHANGED chan
    /\ UNCHANGED <<conn, job, rpc, appVars, panic, ghostVars, params>>

rmStreamBug(c) == c
rmStream(c) == [c EXCEPT !.stream = FALSE]

\* Everything that is buffered goes out through the handler's encoder,
\* without the write lock and without waiting for answers; then the reads end
\* and the group that is not full follows.  An error that sticks to the
\* buffer ends Serve.
closeNoNotify(e) ==
    LET c == conn[e]
        flushes == c.wbuf # <<>>
        all == (IF flushes THEN Chunks(c.fringe, c.wbuf) ELSE <<>>)
                 \o closeFlush(IF flushes THEN Left(c.fringe, c.wbuf) ELSE c.fringe)
        d == rmStream([c EXCEPT !.closed = TRUE, !.handlerT = TRUE])
    IN /\ ~panic[e] /\ serve[e] = "closing"
       /\ IF c.werr
            THEN /\ SetConn(e, d) /\ serve' = [serve EXCEPT ![e] = "ended"]
                 /\ UNCHANGED <<chan, rpc, panic, raced>>
            ELSE /\ Replies(e, [i \in DOMAIN all |->
                                  Stanza("data", (c.wseq + i - 1) % SeqCount, all[i], "none")]
                               \o Answer(Head(chan[e]), "result"))
                 /\ CloseReady(e, [d EXCEPT !.wseq = (@ + Len(all)) % SeqCount,
                                            !.wbuf = <<>>, !.fringe = <<>>])
                 /\ serve' = [serve EXCEPT ![e] = "run"]
                 /\ Races(e, "none", Ops)
       /\ UNCHANGED <<job, appVars, flushed, params>>

\* The session hands an answer to the call that waits for it, if it still does.
ServeAnswer(e) ==
    LET m == Head(chan[e]) IN
    /\ Serving(e, {"result", "error"})
    /\ Replies(e, <<>>)
    /\ IF job[e][m.by].pc \in {"wait", "closewait"}
         THEN SetJob(e, m.by, [job[e][m.by] EXCEPT
                !.pc = IF @ = "closewait" THEN "closed" ELSE m.kind])
         ELSE UNCHANGED job
    /\ UNCHANGED <<conn, rpc, serve, appVars, panic, ghostVars, params>>

----------------------------------------------------------------------------
RoleStep(e, r) == Lock(e, r) \/ Send(e, r) \/ Answered(e, r)
CloserStep(e) ==
    \/ RoleStep(e, "closer") \/ CloseSet(e) \/ CloseTail(e) \/ CloseNotify(e)
    \/ CloseDone(e)
ReaderStep(e) == Read(e) \/ Receive(e)
ServeStep(e) ==
    handlePayload(e) \/ HandleClose(e) \/ closeNoNotify(e) \/ ServeAnswer(e)

Next ==
    \E e \in Ends :
        \/ Write(e) \/ Flush(e) \/ Close(e) \/ CloseTimeout(e)
        \/ RoleStep(e, "writer") \/ CloserStep(e)
        \/ \E r \in Roles : Timeout(e, r)
        \/ \E max \in Limits : SetReadBuffer(e, max)
        \/ ReaderStep(e) \/ ServeStep(e)

Spec == Init /\ [][Next]_vars

(* Goroutines that can run do; applications read, but need not write.     *)
FairSpec ==
    Spec /\ \A e \in Ends :
        /\ SF_vars(RoleStep(e, "writer"))
        /\ SF_vars(CloserStep(e))
        /\ WF_vars(ReaderStep(e))
        /\ WF_vars(ServeStep(e))

----------------------------------------------------------------------------
(* Properties.                                                             *)

Bytes == Seq(Nat)
ConnType ==
    [closed : BOOLEAN, ready : BOOLEAN, rbuf : Bytes, seq : 0 .. SeqCount - 1,
     limit : Nat, wbuf : Bytes, fringe : Bytes, wseq : 0 .. SeqCount - 1,
     werr : BOOLEAN, handlerT : BOOLEAN, stream : BOOLEAN, lock : Roles \cup {"none"}]
JobType ==
    [pc : {"idle", "lock", "send", "wait", "result", "error", "failed", "noop",
           "set", "tail", "notify", "closewait", "closed", "done"},
     op : Ops, todo : Seq(Bytes), left : Bytes,
     seq : 0 .. SeqCount - 1, stale : BOOLEAN, upTo : Nat]
StanzaType ==
    [kind : {"data", "close", "result", "error"}, seq : 0 .. SeqCount - 1,
     bytes : Bytes, by : Roles \cup {"none"}]

\* The type of every variable; the buffers keep within a block and a group.
TypeOK ==
    /\ params \in Streams /\ conn \in [Ends -> ConnType] /\ job \in [Ends -> [Roles -> JobType]]
    /\ \A e \in Ends : Len(conn[e].wbuf) <= BlockSize /\ Len(conn[e].fringe) <= Group
    /\ rpc \in [Ends -> {"idle", "unlocked", "waiting", "woken", "eof"}]
    /\ serve \in [Ends -> {"run", "closing", "ended"}]
    /\ chan \in [Ends -> Seq(StanzaType)]
    /\ written \in [Ends -> Nat] /\ got \in [Ends -> Bytes]
    /\ {panic, raced} \subseteq [Ends -> BOOLEAN] /\ flushed \in [Ends -> Nat]

Sent(e) == [i \in 1 .. written[e] |-> i]

\* What arrives at one end is what the other wrote, in order and without
\* repetitions, and over IQs without gaps: over refused blocks, deadlines that
\* pass while the answer is under way, wrapped sequence numbers and both ends
\* closing.  Nobody waits for the answer to a message, nor to an IQ that
\* closeNoNotify writes for the other end's Close: of these a block may be
\* refused and the next one taken.  The exception is a Close, from either end,
\* that flushes without the write lock while another goroutine is in the
\* middle of a block.
InOrder ==
    \A e \in Ends : LET arrived == got[Other(e)] \o conn[Other(e)].rbuf IN
        \/ raced[e]
        \/ IF Acked /\ ~conn[e].handlerT THEN IsPrefix(arrived, Sent(e))
           ELSE \A i, k \in DOMAIN arrived : i < k => arrived[i] < arrived[k]

\* While no write has failed a block on its way has the number
\* its receiver expects, counting the blocks before it.
Blocks(s, k) == Cardinality({i \in 1 .. k : s[i].kind = "data"})
SeqAgrees ==
    \A e \in Ends : raced[Other(e)] \/ conn[Other(e)].werr \/ ~conn[e].stream
        \/ \A i \in DOMAIN chan[e] : chan[e][i].kind = "data" =>
              chan[e][i].seq = (conn[e].seq + Blocks(chan[e], i - 1)) % SeqCount

\* No block makes the read buffer larger than its limit at that moment, even
\* when SetReadBuffer lowers the limit below what is in the buffer.
BufferBound ==
    [][\A e \in Ends : Len(conn'[e].rbuf) > Len(conn[e].rbuf) /\ conn[e].limit > 0
          => Len(conn'[e].rbuf) <= conn[e].limit]_vars

\* Read reports the end of the stream only when the connection is closed, and
\* then everything that was written before a Close that returned nil has been
\* read, if the carrier is the IQ.
EofIsComplete ==
    \A e \in Ends : rpc[e] = "eof" =>
        conn[e].closed /\ (raced[Other(e)] \/ ~Acked \/ Len(got[e]) >= flushed[Other(e)])

\* A channel is used after it was closed only when both ends call Close.
PanicOnlyIfBothClose ==
    \A e \in Ends : panic[e] => \A x \in Ends : job[x]["closer"].pc # "idle"

\* "If a call to conn.Read was pending, signal it that it's okay to resume
\* because there's data now": a reader does not wait when there is data.
ReadResumes ==
    \A e \in Ends : rpc[e] = "waiting" /\ conn[e].rbuf # <<>> ~>
        rpc[e] # "waiting" \/ panic[e]
=============================================================================
