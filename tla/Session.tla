------------------------------ MODULE Session ------------------------------
(***************************************************************************)
(* An established session (session.go): the goroutine running Serve, the   *)
(* goroutines that call the session's other methods, and the peer.         *)
(*                                                                         *)
(* A step is a stretch of one goroutine between two points where others    *)
(* can interfere: taking a mutex, a channel operation, a read or a write   *)
(* of the connection.  An element travels as a start and an end token when *)
(* its writer can be interrupted between the two.                          *)
(***************************************************************************)
EXTENDS Integers, Sequences, FiniteSets

CONSTANTS
    Callers,     \* goroutines that call methods of the session
    Serve,       \* the goroutine that runs Serve
    None,        \* an unlocked mutex
    Ops,         \* the operations the callers use
    MaxOps,      \* bound: operations one caller makes
    Inputs,      \* the kinds of top level input the peer sends
    MaxIn,       \* bound: inputs the peer sends
    Handler,     \* what the handler given to Serve may do
    MaxWrites,   \* bound: elements a handler writes for one input
    BufCap,      \* tokens the encoder buffers before it writes to the conn
    WritesFail,  \* the connection may fail a write
    BadPayload   \* the token reader of a payload may fail

OpKinds == {"iq", "send", "encode", "writerto", "tokens", "close",
            "deadline", "read"}
InputKinds == {"resp", "get", "getbad", "msg", "ws", "end", "error", "fail"}
HandlerKinds == {"read", "reply", "other", "err", "eof"}

ASSUME ProcAssumption == Serve \notin Callers
ASSUME NoneAssumption == None \notin Callers /\ None # Serve
ASSUME OpsAssumption == Ops \subseteq OpKinds /\ Inputs \subseteq InputKinds
                            /\ Handler \subseteq HandlerKinds
ASSUME BoundAssumption == MaxOps \in Nat /\ MaxIn \in Nat /\ MaxWrites \in Nat
ASSUME BufAssumption == BufCap \in Nat \ {0}
ASSUME FlagAssumption == WritesFail \in BOOLEAN /\ BadPayload \in BOOLEAN

VARIABLES
    pc,          \* where each goroutine is
    kind, n,     \* each caller's current operation and how many it began
    out, in, st, \* who holds out.Locker, in.Locker and stateMutex
    outClosed,   \* state & OutputStreamClosed
    inClosed,    \* state & InputStreamClosed
    buf,         \* tokens in the encoder's buffer (out.e)
    encErr,      \* the sticky write error of that buffer
    depth,       \* stanzaEncoder.depth
    wire,        \* what the peer receives
    torn,        \* sources whose element was cut short by an error
    sent,        \* the keys of sentStanzas
    ctxDone,     \* operations whose context is done
    chClosed,    \* operations whose response channel is closed
    inq,         \* everything the peer sent
    readers,     \* who read each input
    cur,         \* the input Serve is handling
    w,           \* deferWriter.w # nil
    wroteResp,   \* responseChecker.wroteResp
    serr,        \* the error Serve carries, at the end what it returns
    gen, old,    \* the contexts in.ctx points to; the one a caller replaced
    cancelled, expired, \* contexts cancelled; deadlines that have passed
    readDl,      \* the context whose deadline is set on the connection
    sgen         \* the context Serve polls

lockVars == <<out, in, st>>
encVars == <<buf, encErr, wire, torn>>
flagVars == <<outClosed, inClosed>>
respVars == <<sent, ctxDone, chClosed>>
inVars == <<inq, readers, cur>>
handVars == <<w, wroteResp, serr>>
dlVars == <<gen, old, cancelled, expired, readDl, sgen>>
vars == <<pc, kind, n, lockVars, flagVars, encVars, depth, respVars, inVars,
          handVars, dlVars>>

Procs == Callers \cup {Serve}
OpIds == Callers \X Nat
Op(c) == <<c, n[c]>>
NoOp == <<Serve, 0>>

Token(src, what, part) == [src |-> src, what |-> what, part |-> part]
Whats == {"request", "stanza", "raw", "reply", "default", "error", "close"}
Tokens == [src : Procs \X Nat, what : Whats, part : {"start", "end", "whole"}]
CloseTag(p) == Token(<<p, 0>>, "close", "whole")

nread == Len(readers)
elem == inq[cur]
Goto(p, l) == pc' = [pc EXCEPT ![p] = l]

(* Forms of small definitions below with a bug put in, named ...Bug: the   *)
(* properties are tried on them to show that they can fail.                *)

\* s.out.Lock()
OutFreeBug == TRUE
OutFree == out = None

\* The depth after a start and after an end element
\* (stanzaEncoder.EncodeToken).
PushBug == depth
Push == depth + 1
Pop == depth - 1

\* closeSession returns early.
AlreadyClosedBug == FALSE
AlreadyClosed == outClosed

Init ==
    /\ pc = [p \in Procs |-> IF p = Serve THEN "loop" ELSE "idle"]
    /\ kind = [c \in Callers |-> "send"] /\ n = [c \in Callers |-> 0]
    /\ out = None /\ in = None /\ st = None
    /\ outClosed = FALSE /\ inClosed = FALSE
    /\ buf = <<>> /\ encErr = FALSE /\ depth = 0 /\ wire = <<>> /\ torn = {}
    /\ sent = {} /\ ctxDone = {} /\ chClosed = {}
    /\ inq = <<>> /\ readers = <<>> /\ cur = 0
    /\ w = FALSE /\ wroteResp = FALSE /\ serr = "nil"
    /\ gen = 0 /\ old = [c \in Callers |-> 0] /\ cancelled = {}
    /\ expired = {} /\ readDl = 0 /\ sgen = 0

----------------------------------------------------------------------------
(* The encoder: a buffered writer whose first failed write sticks.         *)

\* The connection takes a prefix of the buffer and then fails.
FailWrite(src) ==
    /\ WritesFail /\ ~encErr /\ buf # <<>>
    /\ \E k \in 0 .. Len(buf) - 1 : wire' = wire \o SubSeq(buf, 1, k)
    /\ buf' = <<>> /\ encErr' = TRUE
    /\ torn' = torn \cup {src} \cup {buf[i].src : i \in DOMAIN buf}

\* An operation on a buffer that has already failed.
StuckWrite(src) ==
    encErr /\ torn' = torn \cup {src} /\ UNCHANGED <<buf, wire, encErr>>

EmitOk(t) ==
    /\ ~encErr
    /\ IF Len(buf) < BufCap
         THEN buf' = Append(buf, t) /\ wire' = wire
         ELSE buf' = <<t>> /\ wire' = wire \o buf
    /\ UNCHANGED <<encErr, torn>>

EmitErr(t) == StuckWrite(t.src) \/ (Len(buf) = BufCap /\ FailWrite(t.src))

FlushOk ==
    /\ ~encErr /\ wire' = wire \o buf /\ buf' = <<>>
    /\ UNCHANGED <<encErr, torn>>

FlushErr(src) == StuckWrite(src) \/ FailWrite(src)

\* intstream.Close writes straight to the connection, past the buffer.
\* A failure is what Serve returns, unless it has an error already.
WriteClose(p, kept) ==
    /\ \/ wire' = Append(wire, CloseTag(p)) /\ serr' = serr
       \/ /\ WritesFail /\ wire' = wire
          /\ serr' = IF p = Serve /\ ~kept THEN "write" ELSE serr
    /\ UNCHANGED <<buf, encErr, torn>>

----------------------------------------------------------------------------
(* Callers.                                                                *)

Entry(k) ==
    IF k = "iq" THEN "reg"
    ELSE IF k = "close" THEN "clock"
    ELSE IF k = "deadline" THEN "dlswap"
    ELSE IF k = "read" THEN "rlock"
    ELSE "lock"

Call(c, k) ==
    /\ pc[c] = "idle" /\ n[c] < MaxOps
    /\ n' = [n EXCEPT ![c] = @ + 1]
    /\ kind' = [kind EXCEPT ![c] = k]
    /\ Goto(c, Entry(k))
    /\ UNCHANGED <<lockVars, flagVars, encVars, depth, respVars, inVars,
                   handVars, dlVars>>

\* The context of an operation is cancelled or its deadline passes.
Cancel(c) ==
    /\ n[c] > 0 /\ Op(c) \notin ctxDone
    /\ ctxDone' = ctxDone \cup {Op(c)}
    /\ UNCHANGED <<pc, kind, n, lockVars, flagVars, encVars, depth, sent,
                   chClosed, inVars, handVars, dlVars>>

\* sendResp: remember the request before it is sent.
Register(c) ==
    /\ pc[c] = "reg"
    /\ sent' = sent \cup {Op(c)}
    /\ Goto(c, "lock")
    /\ UNCHANGED <<kind, n, lockVars, flagVars, encVars, depth, ctxDone,
                   chClosed, inVars, handVars, dlVars>>

LockOut(c) ==
    /\ pc[c] = "lock" /\ OutFree
    /\ out' = c
    /\ Goto(c, "start")
    /\ UNCHANGED <<kind, n, in, st, flagVars, encVars, depth, respVars,
                   inVars, handVars, dlVars>>

\* Where an operation that wrote goes when it has unlocked the output.
Sent(c, ok) ==
    /\ out' = None
    /\ Goto(c, IF kind[c] # "iq" THEN "idle" ELSE IF ok THEN "wait" ELSE "del")
    /\ UNCHANGED <<in, st>>

\* The token reader fails before its first token or gives no start element.
NoStart(c) ==
    /\ pc[c] = "start" /\ BadPayload /\ kind[c] \in {"send", "encode"}
    /\ Sent(c, FALSE)
    /\ UNCHANGED <<kind, n, flagVars, encVars, depth, respVars, inVars,
                   handVars, dlVars>>

What(c) == IF kind[c] = "iq" THEN "request"
           ELSE IF kind[c] = "tokens" THEN "raw" ELSE "stanza"
Written(c, part) == Token(Op(c), What(c), part)

\* lockWriteCloser looks at the state first; send and Encode do not.
RefusedBug(c) == FALSE
Refused(c) == kind[c] = "tokens" /\ outClosed

EncodeRefused(c) ==
    /\ pc[c] = "start" /\ Refused(c) /\ st = None
    /\ Sent(c, FALSE)
    /\ UNCHANGED <<kind, n, flagVars, encVars, depth, respVars, inVars,
                   handVars, dlVars>>

EncodeStart(c) ==
    /\ pc[c] = "start" /\ ~Refused(c)
    /\ kind[c] = "tokens" => st = None
    /\ depth' = Push
    /\ \/ EmitOk(Written(c, "start")) /\ Goto(c, "end")
          /\ UNCHANGED lockVars
       \/ EmitErr(Written(c, "start")) /\ Sent(c, FALSE)
    /\ UNCHANGED <<kind, n, flagVars, respVars, inVars, handVars, dlVars>>

\* The payload fails after the start element is in the buffer.
PayloadErr(c) ==
    /\ pc[c] = "end" /\ BadPayload
    /\ torn' = torn \cup {Op(c)}
    /\ IF kind[c] = "tokens" THEN Goto(c, "flush") /\ UNCHANGED lockVars
                             ELSE Sent(c, FALSE)
    /\ UNCHANGED <<kind, n, flagVars, buf, encErr, wire, depth, respVars,
                   inVars, handVars, dlVars>>

EncodeEnd(c) ==
    /\ pc[c] = "end"
    /\ depth' = Pop
    /\ \/ EmitOk(Written(c, "end"))
          /\ IF kind[c] = "writerto"
               THEN Sent(c, TRUE)
               ELSE Goto(c, "flush") /\ UNCHANGED lockVars
       \/ EmitErr(Written(c, "end")) /\ Sent(c, FALSE)
    /\ UNCHANGED <<kind, n, flagVars, respVars, inVars, handVars, dlVars>>

Flush(c) ==
    /\ pc[c] = "flush"
    /\ kind[c] = "tokens" => st = None
    /\ \/ FlushOk /\ Sent(c, TRUE)
       \/ FlushErr(Op(c)) /\ Sent(c, FALSE)
    /\ UNCHANGED <<kind, n, flagVars, depth, respVars, inVars, handVars,
                   dlVars>>

\* sendResp: the context ends the wait.
CtxEndedBug(c) == FALSE
CtxEnded(c) == Op(c) \in ctxDone

GiveUp(c) ==
    /\ pc[c] = "wait" /\ CtxEnded(c)
    /\ Goto(c, "del")
    /\ UNCHANGED <<kind, n, lockVars, flagVars, encVars, depth, respVars,
                   inVars, handVars, dlVars>>

\* The deferred delete of sendResp, with or without a response.
DeletedBug(c) == sent
Deleted(c) == sent \ {Op(c)}

Delete(c) ==
    /\ pc[c] \in {"del", "rdel"}
    /\ sent' = Deleted(c)
    /\ Goto(c, IF pc[c] = "rdel" THEN "resp" ELSE "idle")
    /\ UNCHANGED <<kind, n, lockVars, flagVars, encVars, depth, ctxDone,
                   chClosed, inVars, handVars, dlVars>>

\* iqResponder.Close by the owner of the response.
CloseResp(c) ==
    /\ pc[c] = "resp"
    /\ chClosed' = chClosed \cup {Op(c)}
    /\ Goto(c, "idle")
    /\ UNCHANGED <<kind, n, lockVars, flagVars, encVars, depth, sent, ctxDone,
                   inVars, handVars, dlVars>>

----------------------------------------------------------------------------
(* Close, shared by the callers and the deferred call in Serve.            *)

CloseLock(p) ==
    /\ pc[p] = "clock" /\ OutFree
    /\ out' = p
    /\ Goto(p, "cstate")
    /\ UNCHANGED <<kind, n, in, st, flagVars, encVars, depth, respVars,
                   inVars, handVars, dlVars>>

AfterClose(p) == IF p = Serve THEN "done" ELSE "idle"

closeSession(p) ==
    /\ pc[p] = "cstate" /\ st = None
    /\ IF AlreadyClosed
         THEN out' = None /\ Goto(p, AfterClose(p)) /\ UNCHANGED <<st, outClosed>>
         ELSE st' = p /\ outClosed' = TRUE /\ Goto(p, "cwrite") /\ out' = out
    /\ UNCHANGED <<kind, n, in, inClosed, encVars, depth, respVars, inVars,
                   handVars, dlVars>>

CloseWrite(p) ==
    /\ pc[p] = "cwrite"
    /\ WriteClose(p, serr \notin {"nil", "eof"})
    /\ out' = None /\ st' = None
    /\ Goto(p, AfterClose(p))
    /\ UNCHANGED <<kind, n, in, flagVars, depth, respVars, inVars, w,
                   wroteResp, dlVars>>

----------------------------------------------------------------------------
(* SetCloseDeadline, which takes no lock.                                  *)

SwapCtx(c) ==
    /\ pc[c] = "dlswap"
    /\ old' = [old EXCEPT ![c] = gen]
    /\ gen' = gen + 1
    /\ Goto(c, "dlcancel")
    /\ UNCHANGED <<kind, n, lockVars, flagVars, encVars, depth, respVars,
                   inVars, handVars, cancelled, expired, readDl, sgen>>

CancelCtx(c) ==
    /\ pc[c] = "dlcancel"
    /\ cancelled' = cancelled \cup ({old[c]} \ expired)
    /\ Goto(c, "dlconn")
    /\ UNCHANGED <<kind, n, lockVars, flagVars, encVars, depth, respVars,
                   inVars, handVars, gen, old, expired, readDl, sgen>>

SetReadDeadline(c) ==
    /\ pc[c] = "dlconn"
    /\ readDl' = old[c] + 1
    /\ Goto(c, "idle")
    /\ UNCHANGED <<kind, n, lockVars, flagVars, encVars, depth, respVars,
                   inVars, handVars, gen, old, cancelled, expired, sgen>>

\* The deadline of context g passes.
Expire(g) ==
    /\ g \in 1 .. gen /\ g \notin expired
    /\ expired' = expired \cup {g}
    /\ UNCHANGED <<pc, kind, n, lockVars, flagVars, encVars, depth, respVars,
                   inVars, handVars, gen, old, cancelled, readDl, sgen>>

Done(g) == g \in cancelled \cup expired
CtxErr(g) == IF g \in cancelled THEN "canceled"
             ELSE IF g \in expired THEN "timeout" ELSE "nil"

----------------------------------------------------------------------------
(* Reading: TokenReader's lock, then the state, then the connection.       *)

ReadLock(p) ==
    /\ pc[p] = "rlock" /\ in = None
    /\ in' = p
    /\ Goto(p, "rstate")
    /\ UNCHANGED <<kind, n, out, st, flagVars, encVars, depth, respVars,
                   inVars, handVars, dlVars>>

ReadState(p) ==
    /\ pc[p] = "rstate" /\ st = None
    /\ IF inClosed
         THEN /\ in' = None
              /\ serr' = IF p = Serve THEN "inclosed" ELSE serr
              /\ Goto(p, IF p = Serve THEN "elock" ELSE "idle")
         ELSE Goto(p, "rtoken") /\ UNCHANGED <<in, serr>>
    /\ UNCHANGED <<kind, n, out, st, flagVars, encVars, depth, respVars,
                   inVars, w, wroteResp, dlVars>>

TimedOut == readDl \in expired
StreamOver == nread > 0 /\ inq[nread].kind \in {"end", "fail"}
ReadFails == TimedOut \/ StreamOver

\* A caller reads one top level element and closes its reader.
Read(c) ==
    /\ pc[c] = "rtoken"
    /\ \/ nread < Len(inq) /\ readers' = Append(readers, c)
       \/ ReadFails /\ readers' = readers
    /\ in' = None
    /\ Goto(c, "idle")
    /\ UNCHANGED <<kind, n, out, st, flagVars, encVars, depth, respVars, inq,
                   cur, handVars, dlVars>>

----------------------------------------------------------------------------
(* Serve.                                                                  *)

ServePoll ==
    /\ pc[Serve] = "loop"
    /\ sgen' = gen
    /\ Goto(Serve, "poll")
    /\ UNCHANGED <<kind, n, lockVars, flagVars, encVars, depth, respVars,
                   inVars, handVars, gen, old, cancelled, expired, readDl>>

\* in.ctx is read a second time for the error.
ServeCtx ==
    /\ pc[Serve] = "poll"
    /\ IF Done(sgen) THEN serr' = CtxErr(gen) /\ Goto(Serve, "fin")
                     ELSE Goto(Serve, "rlock") /\ serr' = serr
    /\ UNCHANGED <<kind, n, lockVars, flagVars, encVars, depth, respVars,
                   inVars, w, wroteResp, dlVars>>

\* Serve has failed with e: end the loop, through sendError unless e is EOF.
Failed(e) == serr' = e /\ Goto(Serve, IF e = "eof" THEN "fin" ELSE "elock")

ReadErr(k) == IF k = "end" THEN "eof"
              ELSE IF k = "error" THEN "stream" ELSE "other"

\* The input answers a request of the table.
TrackedBug(e) == e.kind = "resp"
Tracked(e) == e.kind = "resp" /\ e.op \in sent

ServeRead ==
    /\ pc[Serve] = "rtoken"
    /\ nread < Len(inq)
    /\ readers' = Append(readers, Serve) /\ cur' = nread + 1
    /\ wroteResp' = FALSE
    /\ LET e == inq[nread + 1] IN
         \/ /\ e.kind = "ws"
            /\ in' = None /\ Goto(Serve, "loop") /\ serr' = serr
         \/ /\ e.kind \in {"end", "error", "fail"}
            /\ in' = None /\ Failed(ReadErr(e.kind))
         \/ /\ Tracked(e)
            /\ Goto(Serve, "offer") /\ UNCHANGED <<in, serr>>
         \/ /\ e.kind \in {"get", "getbad", "msg", "resp"} /\ ~Tracked(e)
            /\ Goto(Serve, "handler") /\ UNCHANGED <<in, serr>>
    /\ UNCHANGED <<kind, n, out, st, flagVars, encVars, depth, respVars, inq,
                   w, dlVars>>

ServeReadFails ==
    /\ pc[Serve] = "rtoken"
    /\ ReadFails
    /\ in' = None
    /\ Failed(IF TimedOut THEN "timeout" ELSE "other")
    /\ UNCHANGED <<kind, n, out, st, flagVars, encVars, depth, respVars,
                   inVars, w, wroteResp, dlVars>>

\* The unbuffered send to the waiting sendResp.
Deliver(c) ==
    /\ pc[Serve] = "offer" /\ elem.op = Op(c) /\ pc[c] = "wait"
    /\ pc' = [pc EXCEPT ![Serve] = "await", ![c] = "rdel"]
    /\ UNCHANGED <<kind, n, lockVars, flagVars, encVars, depth, respVars,
                   inVars, handVars, dlVars>>

\* The stream breaks off inside the element that is being read to its end.
CutShort == TimedOut \/ (nread < Len(inq) /\ inq[nread + 1].kind = "fail")
CutErr == IF TimedOut THEN "timeout" ELSE "other"

\* The rest of a response is read and dropped, which may fail.
Drop ==
    /\ in' = None
    /\ \/ Goto(Serve, "loop") /\ serr' = serr
       \/ CutShort /\ Failed(CutErr)

\* The request's context is done: the response is discarded.
Discard ==
    /\ pc[Serve] = "offer" /\ elem.op \in ctxDone
    /\ Drop
    /\ UNCHANGED <<kind, n, out, st, flagVars, encVars, depth, respVars,
                   inVars, w, wroteResp, dlVars>>

\* The owner of the response has closed its channel.
ReleasedBug == TRUE
ReleasedNeverBug == FALSE
Released == elem.op \in chClosed

RespClosed ==
    /\ pc[Serve] = "await" /\ Released
    /\ Drop
    /\ UNCHANGED <<kind, n, out, st, flagVars, encVars, depth, respVars,
                   inVars, w, wroteResp, dlVars>>

----------------------------------------------------------------------------
(* The handler and what handleInputStream does after it.                   *)

\* The handler reads its element to the end, which frees the input early.
HandlerRead ==
    /\ pc[Serve] = "handler" /\ "read" \in Handler /\ in = Serve
    /\ in' = None
    /\ UNCHANGED <<pc, kind, n, out, st, flagVars, encVars, depth, respVars,
                   inVars, handVars, dlVars>>

\* What a handler can write: a reply only where there is a request.
Writes == Handler \cap (IF elem.kind \in {"get", "getbad"}
                         THEN {"reply", "other"} ELSE {"other"})

\* The handler's first write takes the output lock (deferWriter).
HandlerLock ==
    /\ pc[Serve] = "handler" /\ ~w /\ Writes # {}
    /\ OutFree
    /\ out' = Serve /\ w' = TRUE
    /\ Goto(Serve, "hstart")
    /\ UNCHANGED <<kind, n, in, st, flagVars, encVars, depth, respVars,
                   inVars, wroteResp, serr, dlVars>>

ServeSrc == <<Serve, cur>>
WhatOf(b) == IF b = "reply" THEN "reply" ELSE "raw"

\* The elements of the handler that are complete, written or buffered.
HandlerWrote ==
    LET Ends(s) == {i \in DOMAIN s : s[i].src = ServeSrc /\ s[i].part = "end"}
    IN Cardinality(Ends(wire)) + Cardinality(Ends(buf))

\* It goes on to another element, with the lock it has.
HandlerMore ==
    /\ pc[Serve] = "handler" /\ w /\ HandlerWrote < MaxWrites
    /\ Goto(Serve, "hstart")
    /\ UNCHANGED <<kind, n, lockVars, flagVars, encVars, depth, respVars,
                   inVars, handVars, dlVars>>

\* responseChecker counts the reply before the write is refused.
HandlerStart(b) ==
    /\ pc[Serve] = "hstart" /\ b \in Writes
    /\ st = None
    /\ wroteResp' = (wroteResp \/ b = "reply")
    /\ \/ /\ outClosed
          /\ \/ Goto(Serve, "handler") /\ serr' = serr
             \/ Goto(Serve, "cleanup") /\ serr' = "outclosed"
          /\ UNCHANGED <<encVars, depth>>
       \/ /\ ~outClosed /\ depth' = Push
          /\ \/ EmitOk(Token(ServeSrc, WhatOf(b), "start"))
                /\ Goto(Serve, IF b = "reply" THEN "hreply" ELSE "hother")
                /\ serr' = serr
             \/ EmitErr(Token(ServeSrc, WhatOf(b), "start"))
                /\ Goto(Serve, "cleanup") /\ serr' = "write"
    /\ UNCHANGED <<kind, n, lockVars, flagVars, respVars, inVars, w, dlVars>>

HandlerEnd ==
    /\ pc[Serve] \in {"hreply", "hother"}
    /\ LET t == Token(ServeSrc,
                      IF pc[Serve] = "hreply" THEN "reply" ELSE "raw", "end")
       IN \/ EmitOk(t) /\ Goto(Serve, "handler") /\ serr' = serr
          \/ EmitErr(t) /\ Goto(Serve, "cleanup") /\ serr' = "write"
    /\ depth' = Pop
    /\ UNCHANGED <<kind, n, lockVars, flagVars, respVars, inVars, w,
                   wroteResp, dlVars>>

\* The handler fails halfway through an element it is writing.
HandlerTear ==
    /\ pc[Serve] \in {"hreply", "hother"} /\ "err" \in Handler
    /\ torn' = torn \cup {ServeSrc}
    /\ serr' = "handler"
    /\ Goto(Serve, "cleanup")
    /\ UNCHANGED <<kind, n, lockVars, flagVars, buf, encErr, wire, depth,
                   respVars, inVars, w, wroteResp, dlVars>>

HandlerReturn ==
    /\ pc[Serve] = "handler"
    /\ \/ Goto(Serve, "default") /\ serr' = serr
       \/ "err" \in Handler /\ Goto(Serve, "cleanup") /\ serr' = "handler"
       \/ "eof" \in Handler /\ Goto(Serve, "cleanup") /\ serr' = "eof"
    /\ UNCHANGED <<kind, n, lockVars, flagVars, encVars, depth, respVars,
                   inVars, w, wroteResp, dlVars>>

NeedsDefaultBug == elem.kind = "get" /\ ~w
NeedsDefault == elem.kind \in {"get", "getbad"} /\ ~wroteResp

NoDefault ==
    /\ pc[Serve] = "default"
    /\ \/ ~NeedsDefault /\ Goto(Serve, "wflush") /\ serr' = serr
       \/ NeedsDefault /\ elem.kind = "getbad"
            /\ Goto(Serve, "cleanup") /\ serr' = "other"
    /\ UNCHANGED <<kind, n, lockVars, flagVars, encVars, depth, respVars,
                   inVars, w, wroteResp, dlVars>>

DefaultLock ==
    /\ pc[Serve] = "default" /\ NeedsDefault /\ elem.kind = "get" /\ ~w
    /\ OutFree
    /\ out' = Serve /\ w' = TRUE
    /\ UNCHANGED <<pc, kind, n, in, st, flagVars, encVars, depth, respVars,
                   inVars, wroteResp, serr, dlVars>>

\* The service-unavailable answer to a request the handler did not answer.
DefaultWrite ==
    /\ pc[Serve] = "default" /\ NeedsDefault /\ elem.kind = "get" /\ w
    /\ st = None
    /\ \/ outClosed /\ Goto(Serve, "cleanup") /\ serr' = "outclosed"
          /\ UNCHANGED encVars
       \/ ~outClosed /\ EmitOk(Token(ServeSrc, "default", "whole"))
          /\ Goto(Serve, "wflush") /\ serr' = serr
       \/ ~outClosed /\ EmitErr(Token(ServeSrc, "default", "whole"))
          /\ Goto(Serve, "cleanup") /\ serr' = "write"
    /\ UNCHANGED <<kind, n, lockVars, flagVars, depth, respVars, inVars, w,
                   wroteResp, dlVars>>

HandlerFlush ==
    /\ pc[Serve] = "wflush"
    /\ w => st = None
    /\ \/ ~w /\ Goto(Serve, "skip") /\ UNCHANGED <<serr, encVars>>
       \/ w /\ outClosed /\ Goto(Serve, "cleanup") /\ serr' = "outclosed"
          /\ UNCHANGED encVars
       \/ w /\ ~outClosed /\ FlushOk /\ Goto(Serve, "skip") /\ serr' = serr
       \/ w /\ ~outClosed /\ FlushErr(ServeSrc) /\ Goto(Serve, "cleanup")
          /\ serr' = "write"
    /\ UNCHANGED <<kind, n, lockVars, flagVars, depth, respVars, inVars, w,
                   wroteResp, dlVars>>

\* The stream breaks off before the end of an element the handler left unread.
SkipFails ==
    /\ pc[Serve] = "skip" /\ in = Serve /\ CutShort
    /\ serr' = CutErr
    /\ Goto(Serve, "cleanup")
    /\ UNCHANGED <<kind, n, lockVars, flagVars, encVars, depth, respVars,
                   inVars, w, wroteResp, dlVars>>

\* Read to the end of the element, which closes the reader.
Skip ==
    /\ pc[Serve] = "skip"
    /\ in' = IF in = Serve THEN None ELSE in
    /\ Goto(Serve, "cleanup")
    /\ UNCHANGED <<kind, n, out, st, flagVars, encVars, depth, respVars,
                   inVars, handVars, dlVars>>

\* The deferred closes: the writer flushes and unlocks, then the reader.
Cleanup ==
    /\ pc[Serve] = "cleanup"
    /\ w => st = None
    /\ \/ (~w \/ outClosed) /\ UNCHANGED encVars
       \/ w /\ ~outClosed /\ (FlushOk \/ FlushErr(ServeSrc))
    /\ out' = IF w THEN None ELSE out
    /\ in' = IF in = Serve THEN None ELSE in
    /\ w' = FALSE
    /\ Goto(Serve, IF serr = "nil" THEN "loop"
                    ELSE IF serr = "eof" THEN "fin" ELSE "elock")
    /\ UNCHANGED <<kind, n, st, flagVars, depth, respVars, inVars, wroteResp,
                   serr, dlVars>>

----------------------------------------------------------------------------
(* The end of Serve: sendError, closeInputStream, Close.                   *)

ErrorLock ==
    /\ pc[Serve] = "elock" /\ OutFree
    /\ out' = Serve
    /\ Goto(Serve, "estate")
    /\ UNCHANGED <<kind, n, in, st, flagVars, encVars, depth, respVars,
                   inVars, handVars, dlVars>>

\* The stream error goes into the encoder, which is not flushed.
sendError ==
    /\ pc[Serve] = "estate" /\ st = None
    /\ \/ /\ outClosed
          /\ out' = None /\ Goto(Serve, "fin")
          /\ UNCHANGED <<st, outClosed, encVars, serr>>
       \/ /\ ~outClosed /\ EmitErr(Token(ServeSrc, "error", "whole"))
          /\ out' = None /\ Goto(Serve, "fin") /\ serr' = "write"
          /\ UNCHANGED <<st, outClosed>>
       \/ /\ ~outClosed /\ EmitOk(Token(ServeSrc, "error", "whole"))
          /\ outClosed' = TRUE /\ st' = Serve
          /\ Goto(Serve, "ewrite")
          /\ UNCHANGED <<out, serr>>
    /\ UNCHANGED <<kind, n, in, inClosed, depth, respVars, inVars, w,
                   wroteResp, dlVars>>

ErrorClose ==
    /\ pc[Serve] = "ewrite"
    /\ WriteClose(Serve, FALSE)
    /\ out' = None /\ st' = None
    /\ Goto(Serve, "fin")
    /\ UNCHANGED <<kind, n, in, flagVars, depth, respVars, inVars, w,
                   wroteResp, dlVars>>

closeInputStream ==
    /\ pc[Serve] = "fin" /\ in = None /\ st = None
    /\ inClosed' = TRUE
    /\ cancelled' = cancelled \cup ({gen} \ expired)
    /\ Goto(Serve, "clock")
    /\ UNCHANGED <<kind, n, lockVars, outClosed, encVars, depth, respVars,
                   inVars, handVars, gen, old, expired, readDl, sgen>>

----------------------------------------------------------------------------
(* The peer.  It answers requests that reached it, perhaps twice.          *)

Requested == {wire[i].src : i \in {j \in DOMAIN wire :
                    wire[j].what = "request" /\ wire[j].part = "end"}}
PeerEnded == \E i \in DOMAIN inq : inq[i].kind \in {"end", "fail"}

PeerSend(k) ==
    /\ Len(inq) < MaxIn /\ ~PeerEnded
    /\ \E o \in IF k = "resp" THEN Requested ELSE {NoOp} :
         inq' = Append(inq, [kind |-> k, op |-> o])
    /\ UNCHANGED <<pc, kind, n, lockVars, flagVars, encVars, depth, respVars,
                   readers, cur, handVars, dlVars>>

----------------------------------------------------------------------------
CallerStep(c) ==
    \/ Register(c) \/ LockOut(c) \/ NoStart(c) \/ EncodeRefused(c)
    \/ EncodeStart(c) \/ PayloadErr(c) \/ EncodeEnd(c) \/ Flush(c)
    \/ GiveUp(c) \/ Delete(c) \/ CloseResp(c)
    \/ CloseLock(c) \/ closeSession(c) \/ CloseWrite(c)
    \/ SwapCtx(c) \/ CancelCtx(c) \/ SetReadDeadline(c)
    \/ ReadLock(c) \/ ReadState(c) \/ Read(c)

ServeStep ==
    \/ ServePoll \/ ServeCtx \/ ReadLock(Serve) \/ ReadState(Serve)
    \/ ServeRead \/ ServeReadFails \/ Discard \/ RespClosed
    \/ HandlerRead \/ HandlerLock \/ HandlerMore
    \/ (\E b \in Handler : HandlerStart(b))
    \/ HandlerEnd \/ HandlerTear \/ HandlerReturn
    \/ NoDefault \/ DefaultLock \/ DefaultWrite \/ HandlerFlush
    \/ SkipFails \/ Skip \/ Cleanup
    \/ ErrorLock \/ sendError \/ ErrorClose \/ closeInputStream
    \/ CloseLock(Serve) \/ closeSession(Serve) \/ CloseWrite(Serve)

Next ==
    \/ \E c \in Callers : CallerStep(c) \/ Deliver(c) \/ Cancel(c)
    \/ \E c \in Callers, k \in Ops : Call(c, k)
    \/ \E g \in 1 .. gen : Expire(g)
    \/ \E k \in Inputs : PeerSend(k)
    \/ ServeStep

Spec == Init /\ [][Next]_vars

(* Go's mutexes do not starve a waiter, goroutines are scheduled, handlers *)
(* return and an owner closes the response it was given.                   *)
Fairness ==
    /\ \A c \in Callers : SF_vars(CallerStep(c)) /\ WF_vars(Deliver(c))
    /\ SF_vars(ServeStep)

FairSpec == Spec /\ Fairness

----------------------------------------------------------------------------
(* Properties.                                                             *)

Labels == {"idle", "reg", "lock", "start", "end", "flush", "wait", "del",
           "rdel", "resp", "clock", "cstate", "cwrite", "dlswap", "dlcancel",
           "dlconn", "rlock", "rstate", "rtoken"}
ServeLabels == {"loop", "poll", "rlock", "rstate", "rtoken", "offer", "await",
                "handler", "hstart", "hreply", "hother", "default", "wflush",
                "skip", "cleanup", "elock", "estate", "ewrite", "fin",
                "clock", "cstate", "cwrite", "done"}
Errors == {"nil", "eof", "stream", "other", "timeout", "canceled", "handler",
           "outclosed", "inclosed", "write"}

PcOK ==
    /\ pc \in [Procs -> Labels \cup ServeLabels]
    /\ pc[Serve] \in ServeLabels /\ \A c \in Callers : pc[c] \in Labels
    /\ kind \in [Callers -> OpKinds] /\ n \in [Callers -> Nat]
LockOK == /\ out \in Procs \cup {None} /\ in \in Procs \cup {None}
          /\ st \in Procs \cup {None}
FlagOK == /\ outClosed \in BOOLEAN /\ inClosed \in BOOLEAN
          /\ encErr \in BOOLEAN /\ w \in BOOLEAN /\ wroteResp \in BOOLEAN
EncOK == /\ buf \in Seq(Tokens) /\ wire \in Seq(Tokens)
         /\ depth \in Nat /\ torn \subseteq Procs \X Nat
RespOK == /\ sent \subseteq OpIds /\ ctxDone \subseteq OpIds
          /\ chClosed \subseteq OpIds
InOK == /\ inq \in Seq([kind : InputKinds, op : Procs \X Nat])
        /\ readers \in Seq(Procs) /\ cur \in 0 .. Len(readers)
        /\ Len(readers) <= Len(inq) /\ serr \in Errors
DlOK == /\ gen \in Nat /\ old \in [Callers -> Nat] /\ readDl \in Nat
        /\ sgen \in Nat /\ cancelled \subseteq Nat /\ expired \subseteq Nat

\* The type of every variable; the depth of the encoder is never negative,
\* whoever writes and whatever fails.
TypeOK == PcOK /\ LockOK /\ FlagOK /\ EncOK /\ RespOK /\ InOK /\ DlOK

IsClose(t) == t.what = "close"

\* However Close, sendError and the end of Serve interleave, the peer sees at
\* most one stream end tag (the documentation of Session.Close).
CloseTagOnce ==
    \A i, j \in DOMAIN wire : IsClose(wire[i]) /\ IsClose(wire[j]) => i = j

HoldsOut(p) ==
    \/ pc[p] \in {"start", "end", "flush", "cstate", "cwrite", "estate", "ewrite"}
    \/ p = Serve /\ w
HoldsState(p) == pc[p] \in {"cwrite", "ewrite"}

\* The output lock and the state lock belong to exactly the goroutine whose
\* code is between taking and releasing them, the lock a deferWriter takes for
\* a handler included: it is never held outside the handling of an element.
LockInv ==
    /\ \A p \in Procs : (out = p) <=> HoldsOut(p)
    /\ \A p \in Procs : (st = p) <=> HoldsState(p)
    /\ w => pc[Serve] \in {"handler", "hstart", "hreply", "hother", "default",
                           "wflush", "skip", "cleanup"}
    /\ pc[Serve] \in {"hstart", "hreply", "hother"} => w

\* The flag is set before the tag is written, the tag never goes through the
\* encoder, and nobody is about to write a second one.
CloseInv ==
    /\ \A i \in DOMAIN buf : ~IsClose(buf[i])
    /\ \A p \in Procs : HoldsState(p) => outClosed
    /\ (\E i \in DOMAIN wire : IsClose(wire[i])) => outClosed /\ st = None
    /\ CloseTagOnce

\* Elements of different goroutines do not mix on the wire: a start token is
\* followed by its own end token unless its writer failed in between.
WholeElements ==
    \A i \in 1 .. Len(wire) - 1 :
        wire[i].part = "start" /\ wire[i].src \notin torn
            => wire[i + 1] = [wire[i] EXCEPT !.part = "end"]

\* What a TokenWriter or a handler writes never follows the stream end tag
\* (the OutputStreamClosed check of lockWriteCloser).
NoRawAfterClose ==
    \A i, j \in DOMAIN wire :
        i < j /\ IsClose(wire[i]) => wire[j].what \in {"request", "stanza", "error"}

\* While no element has been cut short, the stanza encoder is at the top of
\* the stream whenever its lock is free, so that the next stanza gets its
\* namespace and ID.
TopLevel == out = None /\ torn = {} => depth = 0

\* Whoever has been given a response holds up the input: Serve waits for just
\* this response to be closed and nobody else reads the stream.
SerialResponse ==
    \A c \in Callers : pc[c] \in {"rdel", "resp"} =>
        pc[Serve] = "await" /\ elem.op = Op(c) /\ in = Serve

\* Serve offers a response only to a call that is there to take it or whose
\* context is done: the deferred delete of sendResp comes before the response
\* is closed, so not even a repeated response leaves Serve waiting.
OfferTaken ==
    pc[Serve] = "offer" =>
        \/ elem.op \in ctxDone
        \/ \E c \in Callers : elem.op = Op(c) /\ pc[c] = "wait"

\* sentStanzas holds only requests whose sendResp has not returned.
NoStaleEntry ==
    \A o \in sent : \E c \in Callers :
        /\ o = Op(c) /\ kind[c] = "iq"
        /\ pc[c] \in {"lock", "start", "end", "flush", "wait", "del", "rdel"}

\* The input lock is held by whoever is between TokenReader and its Close,
\* Serve included while it offers or awaits a response.
InLockInv ==
    /\ \A c \in Callers : pc[c] \in {"rstate", "rtoken"} => in = c
    /\ pc[Serve] \in {"rstate", "rtoken", "offer", "await"} => in = Serve
    /\ pc[Serve] \in {"offer", "await"} => cur > 0

\* A response channel is closed by the call that owned it, as its last act.
ChanInv ==
    \A c \in Callers, k \in Nat : <<c, k>> \in chClosed =>
        k <= n[c] /\ (k = n[c] => pc[c] = "idle")

KindInv == \A c \in Callers : pc[c] = "reg" => kind[c] = "iq"

RespInv == InLockInv /\ ChanInv /\ KindInv /\ NoStaleEntry /\ SerialResponse

Answers(k) == {i \in DOMAIN wire : /\ wire[i].src = <<Serve, k>>
                                   /\ wire[i].what \in {"reply", "default"}
                                   /\ wire[i].part \in {"end", "whole"}}
Past(k) == k < cur \/ pc[Serve] \in {"loop", "poll", "rlock", "rstate", "rtoken"}

\* Serve goes on to the next input only when the request it handled has an
\* answer on the wire: the handler's own, however much else it wrote before
\* or after it, or one default answer and nothing beside it.
Answered ==
    \A k \in 1 .. cur :
        inq[k].kind \in {"get", "getbad"} /\ readers[k] = Serve
          /\ Past(k) /\ serr = "nil"
            => /\ Answers(k) # {}
               /\ \A i \in Answers(k) :
                     wire[i].what = "default" => Answers(k) = {i}

\* Nothing follows the stream end tag (the documentation of
\* OutputStreamClosed: all write operations return an error once it is set).
NothingAfterClose ==
    \A i, j \in DOMAIN wire : IsClose(wire[i]) => j <= i

\* Once the peer has ended its stream, Serve returns.
ServeEnds == PeerEnded ~> (pc[Serve] = "done")

\* A call whose context is done returns.  A raw read has no context.
CallsReturn ==
    \A c \in Callers :
        (pc[c] # "idle" /\ kind[c] # "read" /\ Op(c) \in ctxDone) ~> (pc[c] = "idle")

=============================================================================
