------------------------- MODULE SessionWireProofs -------------------------
(***************************************************************************)
(* Proofs about what an established session writes: the depth of the       *)
(* stanza encoder, what may follow the stream end tag, and that elements   *)
(* of different goroutines do not mix.  Only the holder of out.Locker      *)
(* touches the encoder, so each invariant below says what the encoder may  *)
(* hold while that goroutine is where it is; LockInv makes it the only     *)
(* one.  Then proofs about requests and responses: Serve is never left     *)
(* offering a response nobody will take, and goes on to the next input     *)
(* only when the request it handled has its answer.                        *)
(***************************************************************************)
EXTENDS SessionProofs

\* Where a goroutine holds the lock and the encoder holds something of it.
Busy == {"end", "flush", "hreply", "hother"}

\* Between the start and the end of an element.
Mid(p) == pc[p] \in {"end", "hreply", "hother"}

\* A step that has no part in the output: no goroutine enters or leaves the
\* places where it is writing.
Quiet ==
    /\ UNCHANGED <<encVars, depth, outClosed, w>>
    /\ \A p \in Procs : pc[p] \in Busy \/ pc'[p] \in Busy => pc'[p] = pc[p]
    /\ \A c \in Callers : pc[c] \in Busy => kind'[c] = kind[c] /\ n'[c] = n[c]
    /\ pc[Serve] \in Busy => cur' = cur

\* The steps of a caller, of Close and of Serve that do take part.
CallerWrites(c) == EncodeStart(c) \/ PayloadErr(c) \/ EncodeEnd(c) \/ Flush(c)
CloseWrites(p) == closeSession(p) \/ CloseWrite(p)
ServeWrites ==
    \/ HandlerLock \/ (\E b \in Handler : HandlerStart(b)) \/ HandlerEnd
    \/ HandlerTear \/ DefaultLock \/ DefaultWrite \/ HandlerFlush \/ Cleanup
    \/ sendError \/ ErrorClose

\* While no element has been cut short the encoder is one level
\* down exactly while a goroutine is inside an element.
DepthInv ==
    torn = {} => /\ (\E p \in Procs : Mid(p)) => depth = 1
                 /\ (\A p \in Procs : ~Mid(p)) => depth = 0

\* The tokens the OutputStreamClosed check of lockWriteCloser guards.
Guarded(t) == t.what \in {"raw", "reply", "default"}

\* Somebody who looked at the state before it wrote still holds the lock.
Checked ==
    /\ ~outClosed
    /\ w \/ \E c \in Callers : kind[c] = "tokens" /\ pc[c] \in {"end", "flush"}

\* The goroutines that write, and what they left in the buffer.
WriterOK ==
    /\ encErr => buf = <<>>
    /\ \A c \in Callers : kind[c] = "tokens" /\ pc[c] \in {"end", "flush"} => ~outClosed
    /\ pc[Serve] \in {"hreply", "hother"} => ~outClosed
    /\ \A i \in DOMAIN buf : Guarded(buf[i]) => Checked

\* No guarded token follows the stream end tag.
NoneAfter == \A i, j \in DOMAIN wire : i < j /\ IsClose(wire[i]) => ~Guarded(wire[j])

RawInv == WriterOK /\ NoneAfter

\* A start token that is to be followed by its end token.
OpenIn(t, cut) == t.part = "start" /\ t.src \notin cut
Opens(t) == OpenIn(t, torn)
EndOf(t) == [t EXCEPT !.part = "end"]

\* The start token goroutine p has written and not closed yet.
Opened(p) ==
    IF p = Serve
      THEN Token(ServeSrc, IF pc[p] = "hreply" THEN "reply" ELSE "raw", "start")
      ELSE Written(p, "start")

\* The same within the buffer.
BufWhole == \A i \in 1 .. Len(buf) - 1 : Opens(buf[i]) => buf[i + 1] = EndOf(buf[i])

\* The last element of the buffer is the one its goroutine is writing; when
\* only the start of an element is on the wire its end is next in the buffer
\* and somebody will flush it before the lock is released.
WholeInv ==
    /\ WholeElements /\ BufWhole
    /\ buf # <<>> /\ Opens(buf[Len(buf)])
          => \E p \in Procs : Mid(p) /\ buf[Len(buf)] = Opened(p)
    /\ wire # <<>> /\ Opens(wire[Len(wire)]) =>
          /\ buf # <<>> /\ buf[1] = EndOf(wire[Len(wire)])
          /\ (\E c \in Callers : pc[c] = "flush") \/ (w /\ ~outClosed)

\* Every step either has no part in the output or is one of those above.
LEMMA QuietStep ==
  ASSUME TypeOK, [Next]_vars
  PROVE  \/ Quiet
         \/ \E c \in Callers : CallerWrites(c)
         \/ \E p \in Procs : CloseWrites(p)
         \/ ServeWrites
<1> USE ProcAssumption DEF TypeOK, PcOK, Goto, Procs, Quiet, Busy, encVars,
     lockVars, flagVars, inVars, handVars
<1>1. ASSUME NEW c \in Callers, CallerStep(c)
      PROVE  Quiet \/ CallerWrites(c) \/ CloseWrites(c)
  <2>1. CASE Register(c) \/ LockOut(c)
    BY <2>1 DEF Register, LockOut
  <2>2. CASE NoStart(c) \/ EncodeRefused(c)
    BY <2>2 DEF NoStart, EncodeRefused, Sent
  <2>3. CASE GiveUp(c) \/ Delete(c) \/ CloseResp(c)
    BY <2>3 DEF GiveUp, Delete, CloseResp
  <2>4. CASE CloseLock(c)
    BY <2>4 DEF CloseLock
  <2>5. CASE SwapCtx(c) \/ CancelCtx(c) \/ SetReadDeadline(c)
    BY <2>5 DEF SwapCtx, CancelCtx, SetReadDeadline
  <2>6. CASE ReadLock(c) \/ ReadState(c) \/ Read(c)
    BY <2>6 DEF ReadLock, ReadState, Read
  <2> QED
    BY <1>1, <2>1, <2>2, <2>3, <2>4, <2>5, <2>6
       DEF CallerStep, CallerWrites, CloseWrites
<1>2. ASSUME ServeStep PROVE Quiet \/ ServeWrites \/ CloseWrites(Serve)
  <2>1. CASE ServePoll \/ ServeCtx
    BY <2>1 DEF ServePoll, ServeCtx
  <2>2. CASE ReadLock(Serve) \/ ReadState(Serve)
    BY <2>2 DEF ReadLock, ReadState
  <2>3. CASE ServeRead \/ ServeReadFails
    BY <2>3 DEF ServeRead, ServeReadFails, Failed
  <2>4. CASE Discard \/ RespClosed \/ HandlerRead \/ HandlerMore
    BY <2>4 DEF Discard, RespClosed, Drop, Failed, HandlerRead, HandlerMore
  <2>5. CASE HandlerReturn \/ NoDefault \/ SkipFails \/ Skip
    BY <2>5 DEF HandlerReturn, NoDefault, SkipFails, Skip
  <2>6. CASE ErrorLock \/ closeInputStream \/ CloseLock(Serve)
    BY <2>6 DEF ErrorLock, closeInputStream, CloseLock
  <2> QED
    BY <1>2, <2>1, <2>2, <2>3, <2>4, <2>5, <2>6
       DEF ServeStep, ServeWrites, CloseWrites
<1>3. ASSUME NEW c \in Callers, Deliver(c) \/ Cancel(c) PROVE Quiet
  BY <1>3 DEF Deliver, Cancel
<1>4. ASSUME NEW c \in Callers, NEW k \in Ops, Call(c, k) PROVE Quiet
  BY <1>4 DEF Call, Entry
<1>5. ASSUME NEW g \in 1 .. gen, Expire(g) PROVE Quiet
  BY <1>5 DEF Expire
<1>6. ASSUME NEW k \in Inputs, PeerSend(k) PROVE Quiet
  BY <1>6 DEF PeerSend
<1>7. CASE UNCHANGED vars
  BY <1>7 DEF vars
<1> QED
  BY <1>1, <1>2, <1>3, <1>4, <1>5, <1>6, <1>7 DEF Next

\* Nobody else holds the output lock while one goroutine does.
LEMMA Alone ==
  ASSUME TypeOK, LockInv, NEW p \in Procs, HoldsOut(p),
         NEW q \in Procs, HoldsOut(q)
  PROVE  q = p
BY DEF LockInv

\* The goroutines that are writing hold the lock.
LEMMA BusyHolds ==
  ASSUME TypeOK, LockInv, NEW p \in Procs, pc[p] \in Busy PROVE HoldsOut(p)
BY ProcAssumption DEF TypeOK, PcOK, LockInv, HoldsOut, Busy, Procs, Labels

\* An operation on the encoder that fails leaves its element cut
\* short, and no operation mends one.
LEMMA TornGrows ==
  /\ \A t : EmitOk(t) => torn' = torn
  /\ \A t : EmitErr(t) => torn' # {}
  /\ \A s : FlushErr(s) => torn' # {}
  /\ FlushOk => torn' = torn
BY DEF EmitOk, EmitErr, FlushErr, FlushOk, StuckWrite, FailWrite

\* The depth of the stanza encoder follows its holder through every
\* step: it rises with the start of an element, falls with the end, and
\* a goroutine that takes or releases the lock between elements finds it
\* at the top.
LEMMA DepthStep == TypeOK /\ LockInv /\ DepthInv /\ [Next]_vars => DepthInv'
<1> SUFFICES ASSUME TypeOK, LockInv, DepthInv, [Next]_vars, torn' = {}
             PROVE  /\ (\E p \in Procs : Mid(p)') => depth' = 1
                    /\ (\A p \in Procs : ~Mid(p)') => depth' = 0
  BY DEF DepthInv
<1>a. \A p, q \in Procs : Mid(p) /\ HoldsOut(q) => q = p
  BY Alone, BusyHolds DEF Mid, Busy
<1>b. ASSUME NEW p \in Procs PROVE pc[p] = "end" => p \in Callers
  BY DEF TypeOK, PcOK, Procs, ServeLabels
<1>c. pc \in [Procs -> Labels \cup ServeLabels] /\ Serve \in Procs /\ Callers \subseteq Procs
  BY DEF TypeOK, PcOK, Procs
<1>1. CASE Quiet
  BY <1>1 DEF Quiet, Mid, Busy, DepthInv, encVars
<1>2. ASSUME NEW c \in Callers, EncodeStart(c)
      PROVE  depth' = 1 /\ \E p \in Procs : Mid(p)'
  <2>1. EmitOk(Written(c, "start")) /\ Goto(c, "end") /\ torn = {}
    BY <1>2, TornGrows DEF EncodeStart
  <2>2. HoldsOut(c) /\ ~Mid(c)
    BY <1>2 DEF EncodeStart, HoldsOut, Mid
  <2>3. depth = 0
    BY <1>a, <1>c, <2>1, <2>2 DEF DepthInv
  <2> QED
    BY <1>2, <1>c, <2>1, <2>3 DEF EncodeStart, Goto, Mid, Push
<1>3. ASSUME NEW c \in Callers, PayloadErr(c) PROVE FALSE
  BY <1>3 DEF PayloadErr
<1>4. ASSUME NEW c \in Callers, EncodeEnd(c)
      PROVE  depth' = 0 /\ \A p \in Procs : ~Mid(p)'
  <2>1. torn = {} /\ Mid(c) /\ depth' = depth - 1
    BY <1>4, TornGrows DEF EncodeEnd, Mid, Pop
  <2>2. depth = 1
    BY <1>c, <2>1 DEF DepthInv
  <2>3. HoldsOut(c)
    BY <1>4 DEF EncodeEnd, HoldsOut
  <2>4. ~Mid(c)' /\ \A p \in Procs : p # c => pc'[p] = pc[p]
    BY <1>4, <1>c DEF EncodeEnd, Sent, Goto, Mid
  <2> QED
    BY <1>a, <1>c, <2>1, <2>2, <2>3, <2>4 DEF Mid
<1>5. ASSUME NEW c \in Callers, Flush(c)
      PROVE  torn = {} /\ depth' = depth /\ \A p \in Procs : Mid(p)' <=> Mid(p)
  BY <1>5, <1>c, TornGrows DEF Flush, Sent, Goto, Mid
<1>6. ASSUME NEW p \in Procs, CloseWrites(p)
      PROVE  torn = {} /\ depth' = depth /\ \A q \in Procs : Mid(q)' <=> Mid(q)
  BY <1>6, <1>c DEF CloseWrites, closeSession, CloseWrite, WriteClose,
       AfterClose, Goto, Mid, encVars
<1>7. ASSUME HandlerLock \/ DefaultLock \/ ErrorClose
      PROVE  torn = {} /\ depth' = depth /\ \A q \in Procs : Mid(q)' <=> Mid(q)
  BY <1>7, <1>c DEF HandlerLock, DefaultLock, ErrorClose, WriteClose, Goto,
       Mid, encVars
<1>8. ASSUME NEW b \in Handler, HandlerStart(b), ~outClosed
      PROVE  depth' = 1 /\ \E p \in Procs : Mid(p)'
  <2>1. torn = {} /\ pc'[Serve] \in {"hreply", "hother"}
    BY <1>8, <1>c, TornGrows DEF HandlerStart, Goto
  <2>2. HoldsOut(Serve) /\ ~Mid(Serve)
    BY <1>8 DEF HandlerStart, HoldsOut, Mid, LockInv
  <2>3. depth = 0
    BY <1>a, <1>c, <2>1, <2>2 DEF DepthInv
  <2> QED
    BY <1>8, <1>c, <2>1, <2>3 DEF HandlerStart, Mid, Push
<1>9. ASSUME NEW b \in Handler, HandlerStart(b), outClosed
      PROVE  torn = {} /\ depth' = depth /\ \A p \in Procs : Mid(p)' <=> Mid(p)
  BY <1>9, <1>c DEF HandlerStart, Goto, Mid, encVars
<1>10. ASSUME HandlerEnd PROVE depth' = 0 /\ \A p \in Procs : ~Mid(p)'
  <2>1. torn = {} /\ Mid(Serve) /\ depth' = depth - 1
    BY <1>10, TornGrows DEF HandlerEnd, Mid, Pop
  <2>2. depth = 1
    BY <1>c, <2>1 DEF DepthInv
  <2>3. HoldsOut(Serve)
    BY <1>10 DEF HandlerEnd, HoldsOut, LockInv
  <2>4. ~Mid(Serve)' /\ \A p \in Procs : p # Serve => pc'[p] = pc[p]
    BY <1>10, <1>c DEF HandlerEnd, Goto, Mid
  <2> QED
    BY <1>a, <1>c, <2>1, <2>2, <2>3, <2>4 DEF Mid
<1>11. ASSUME HandlerTear PROVE FALSE
  BY <1>11 DEF HandlerTear
<1>12. ASSUME DefaultWrite \/ HandlerFlush \/ sendError \/ Cleanup
       PROVE  torn = {} /\ depth' = depth /\ \A p \in Procs : Mid(p)' <=> Mid(p)
  BY <1>12, <1>c, TornGrows DEF DefaultWrite, HandlerFlush, sendError, Cleanup,
       Goto, Mid, encVars
<1>13. ASSUME torn = {}, depth' = depth, \A p \in Procs : Mid(p)' <=> Mid(p)
       PROVE  /\ (\E p \in Procs : Mid(p)') => depth' = 1
              /\ (\A p \in Procs : ~Mid(p)') => depth' = 0
  BY <1>13 DEF DepthInv
<1> QED
  BY <1>1, <1>2, <1>3, <1>4, <1>5, <1>6, <1>7, <1>8, <1>9, <1>10, <1>11,
     <1>12, <1>13, QuietStep DEF CallerWrites, ServeWrites

\* What the encoder's operations do to the output: the wire only grows, and
\* what it grows by comes from the buffer.
Grows ==
    /\ \A i \in DOMAIN wire : i \in DOMAIN wire' /\ wire'[i] = wire[i]
    /\ \A i \in DOMAIN wire' : i \notin DOMAIN wire =>
          i > Len(wire) /\ \E j \in DOMAIN buf : wire'[i] = buf[j]

\* A write of a prefix of the buffer, or of all of it, makes the
\* wire grow.
LEMMA PrefixGrows ==
  ASSUME EncOK, NEW k \in 0 .. Len(buf), wire' = wire \o SubSeq(buf, 1, k)
  PROVE  Grows
<1>1. SubSeq(buf, 1, k) \in Seq(Tokens) /\ Len(SubSeq(buf, 1, k)) = k
        /\ \A i \in 1 .. k : SubSeq(buf, 1, k)[i] = buf[i]
  BY DEF EncOK
<1>2. \A i \in DOMAIN wire : i \in DOMAIN wire' /\ wire'[i] = wire[i]
  BY <1>1 DEF EncOK
<1>3. ASSUME NEW i \in DOMAIN wire', i \notin DOMAIN wire
      PROVE  i > Len(wire) /\ i - Len(wire) \in DOMAIN buf
               /\ wire'[i] = buf[i - Len(wire)]
  BY <1>1, <1>3 DEF EncOK
<1> QED
  BY <1>2, <1>3 DEF Grows

\* A write of the whole buffer.
LEMMA AllGrows == ASSUME EncOK, wire' = wire \o buf PROVE Grows
<1>1. \A i \in DOMAIN wire : i \in DOMAIN wire' /\ wire'[i] = wire[i]
  BY DEF EncOK
<1>2. ASSUME NEW i \in DOMAIN wire', i \notin DOMAIN wire
      PROVE  i > Len(wire) /\ i - Len(wire) \in DOMAIN buf
               /\ wire'[i] = buf[i - Len(wire)]
  BY <1>2 DEF EncOK
<1> QED
  BY <1>1, <1>2 DEF Grows

\* An operation that writes nothing to the connection.
LEMMA SameGrows == ASSUME EncOK, wire' = wire PROVE Grows
BY DEF Grows, EncOK

\* A write that fails part of the way.
LEMMA FailGrows == ASSUME EncOK, NEW s, FailWrite(s) PROVE Grows
<1>1. PICK k \in 0 .. Len(buf) - 1 : wire' = wire \o SubSeq(buf, 1, k)
  BY DEF FailWrite
<1>2. k \in 0 .. Len(buf)
  BY DEF EncOK
<1> QED
  BY <1>1, <1>2, PrefixGrows

\* Encoding a token moves tokens from the buffer to the wire and
\* adds only that token to the buffer; when it fails the buffer is empty.
LEMMA EmitFlow ==
  ASSUME EncOK, encErr => buf = <<>>, NEW t \in Tokens
  PROVE  /\ EmitOk(t) =>
               /\ Grows /\ encErr' = encErr /\ ~encErr
               /\ \A i \in DOMAIN buf' : buf'[i] = t \/ \E j \in DOMAIN buf : buf'[i] = buf[j]
         /\ EmitErr(t) => Grows /\ buf' = <<>>
<1>1. ASSUME EmitOk(t)
      PROVE  \A i \in DOMAIN buf' : buf'[i] = t \/ \E j \in DOMAIN buf : buf'[i] = buf[j]
  <2>1. CASE buf' = Append(buf, t)
    BY <2>1 DEF EncOK
  <2>2. CASE buf' = <<t>>
    BY <2>2
  <2> QED
    BY <1>1, <2>1, <2>2 DEF EmitOk
<1>2. ASSUME EmitOk(t) PROVE Grows
  BY <1>2, AllGrows, SameGrows DEF EmitOk
<1>3. ASSUME StuckWrite(t.src) PROVE Grows /\ buf' = <<>>
  BY <1>3, SameGrows DEF StuckWrite
<1>4. ASSUME FailWrite(t.src) PROVE Grows /\ buf' = <<>>
  BY <1>4, FailGrows DEF FailWrite
<1> QED
  BY <1>1, <1>2, <1>3, <1>4 DEF EmitOk, EmitErr

\* A flush moves the buffer to the wire, or what the connection
\* takes of it; the buffer is empty after it.
LEMMA FlushFlow ==
  ASSUME EncOK, encErr => buf = <<>>, NEW s
  PROVE  /\ FlushOk => Grows /\ buf' = <<>>
         /\ FlushErr(s) => Grows /\ buf' = <<>>
<1>1. ASSUME FlushOk PROVE Grows /\ buf' = <<>>
  BY <1>1, AllGrows DEF FlushOk
<1>2. ASSUME StuckWrite(s) PROVE Grows /\ buf' = <<>>
  BY <1>2, SameGrows DEF StuckWrite
<1>3. ASSUME FailWrite(s) PROVE Grows /\ buf' = <<>>
  BY <1>3, FailGrows DEF FailWrite
<1> QED
  BY <1>1, <1>2, <1>3 DEF FlushErr

\* A guarded token in the buffer means that the output is open, so
\* that what the encoder writes follows no stream end tag.
LEMMA GrowsClean ==
  ASSUME TypeOK, TypeOK', CloseInv, RawInv, Grows PROVE NoneAfter'
<1> SUFFICES ASSUME NEW i \in DOMAIN wire', NEW j \in DOMAIN wire', i < j,
                    IsClose(wire'[i])
             PROVE  ~Guarded(wire'[j])
  BY DEF NoneAfter, Guarded, IsClose
<1>1. i \in DOMAIN wire /\ wire'[i] = wire[i]
  BY DEF Grows, CloseInv, IsClose
<1>2. outClosed
  BY <1>1 DEF CloseInv, IsClose
<1>3. CASE j \in DOMAIN wire
  BY <1>1, <1>3 DEF Grows, RawInv, NoneAfter, IsClose, Guarded
<1>4. CASE j \notin DOMAIN wire
  BY <1>2, <1>4 DEF Grows, RawInv, WriterOK, Checked, Guarded
<1> QED
  BY <1>3, <1>4

\* The stream end tag itself is no guarded token.
LEMMA CloseClean ==
  ASSUME TypeOK, RawInv, NEW p, NEW kept, WriteClose(p, kept) PROVE NoneAfter'
<1>1. CASE wire' = wire
  BY <1>1 DEF RawInv, NoneAfter, IsClose, Guarded
<1>2. CASE wire' = Append(wire, CloseTag(p))
  <2>1. DOMAIN wire' = DOMAIN wire \cup {Len(wire) + 1}
          /\ wire'[Len(wire) + 1] = CloseTag(p)
          /\ \A i \in DOMAIN wire : wire'[i] = wire[i] /\ i <= Len(wire) /\ i \in Int
    BY <1>2 DEF TypeOK, EncOK
  <2>2. ~Guarded(CloseTag(p))
    BY DEF Guarded, CloseTag, Token
  <2>3. Len(wire) \in Nat
    BY DEF TypeOK, EncOK
  <2> QED
    BY <2>1, <2>2, <2>3 DEF RawInv, NoneAfter, IsClose, Guarded
<1> QED
  BY <1>1, <1>2 DEF WriteClose

\* A guarded token enters the buffer only after a look at the state
\* that is still true, and none is left there when the lock is released.
LEMMA RawStep ==
  TypeOK /\ TypeOK' /\ LockInv /\ CloseInv /\ RawInv /\ [Next]_vars => RawInv'
<1> SUFFICES ASSUME TypeOK, TypeOK', LockInv, CloseInv, RawInv, [Next]_vars
             PROVE  WriterOK' /\ NoneAfter'
  BY DEF RawInv
<1>a. EncOK /\ (encErr => buf = <<>>) /\ WriterOK
  BY DEF TypeOK, RawInv, WriterOK
<1>b. ASSUME NEW p \in Procs, HoldsOut(p), NEW q \in Procs, q # p
      PROVE  pc[q] \notin Busy /\ (p # Serve => ~w)
  <2>1. Serve \in Procs
    BY DEF Procs
  <2>2. w => HoldsOut(Serve)
    BY DEF HoldsOut
  <2> QED
    BY <1>b, <2>1, <2>2, Alone, BusyHolds
<1>c. pc \in [Procs -> Labels \cup ServeLabels] /\ Serve \in Procs
        /\ Callers \subseteq Procs /\ Serve \notin Callers
        /\ pc[Serve] \notin {"end", "flush"}
  BY ProcAssumption DEF TypeOK, PcOK, Procs, ServeLabels
<1>d. \A i \in DOMAIN buf : Guarded(buf[i]) => ~outClosed
  BY DEF RawInv, WriterOK, Checked
<1>e. ASSUME Grows PROVE NoneAfter'
  BY <1>e, GrowsClean
<1>f. ASSUME NEW c \in Callers PROVE Written(c, "start") \in Tokens /\ Written(c, "end") \in Tokens
  BY DEF TypeOK, PcOK, Written, What, Token, Tokens, Whats, Op, Procs
<1>g. ASSUME NEW x \in {"reply", "raw", "default", "error"},
             NEW part \in {"start", "end", "whole"}
      PROVE  Token(ServeSrc, x, part) \in Tokens
  BY DEF TypeOK, InOK, ServeSrc, Token, Tokens, Whats, Procs
<1>1. CASE Quiet
  <2>1. WriterOK'
    BY <1>1, <1>a, <1>c DEF Quiet, Busy, WriterOK, Checked, Guarded, encVars
  <2> QED
    BY <1>1, <1>a, <1>e, <2>1, SameGrows DEF Quiet, encVars
<1>2. ASSUME NEW c \in Callers, EncodeStart(c) PROVE WriterOK' /\ NoneAfter'
  <2>1. HoldsOut(c) /\ pc[c] = "start" /\ outClosed' = outClosed /\ w' = w
    BY <1>2 DEF EncodeStart, HoldsOut, flagVars, handVars
  <2>2. \A i \in DOMAIN buf : ~Guarded(buf[i])
    BY <1>b, <1>c, <2>1 DEF RawInv, WriterOK, Checked, Busy
  <2>3. CASE EmitOk(Written(c, "start")) /\ Goto(c, "end")
    <3>1. Grows /\ encErr' = encErr /\ ~encErr
      BY <1>a, <1>f, <2>3, EmitFlow
    <3>2. \A i \in DOMAIN buf' : Guarded(buf'[i]) => buf'[i] = Written(c, "start")
      BY <1>a, <1>f, <2>2, <2>3, EmitFlow DEF Guarded
    <3>3. Guarded(Written(c, "start")) => kind[c] = "tokens"
      BY DEF Guarded, Written, What, Token
    <3>4. kind[c] = "tokens" => ~outClosed
      BY <1>2 DEF EncodeStart, Refused
    <3> QED
      BY <1>2, <1>a, <1>c, <1>e, <2>1, <2>3, <3>1, <3>2, <3>3, <3>4
         DEF EncodeStart, Goto, WriterOK, Checked, Guarded
  <2>4. CASE EmitErr(Written(c, "start")) /\ Sent(c, FALSE)
    BY <1>2, <1>a, <1>c, <1>e, <1>f, <2>1, <2>4, EmitFlow
       DEF EncodeStart, Sent, Goto, WriterOK, Checked
  <2> QED
    BY <1>2, <2>3, <2>4 DEF EncodeStart
<1>3. ASSUME NEW c \in Callers, PayloadErr(c) PROVE WriterOK' /\ NoneAfter'
  <2>1. HoldsOut(c) /\ pc[c] = "end" /\ outClosed' = outClosed /\ w' = w
          /\ wire' = wire /\ buf' = buf /\ encErr' = encErr /\ kind' = kind
    BY <1>3 DEF PayloadErr, HoldsOut, flagVars, handVars
  <2>2. kind[c] # "tokens" => \A i \in DOMAIN buf : ~Guarded(buf[i])
    BY <1>b, <1>c, <2>1 DEF RawInv, WriterOK, Checked, Busy
  <2>3. pc' = [pc EXCEPT ![c] = pc'[c]]
          /\ (kind[c] = "tokens" => pc'[c] = "flush")
          /\ (kind[c] # "tokens" => pc'[c] \in {"idle", "del"})
    BY <1>3, <1>c DEF PayloadErr, Sent, Goto
  <2> QED
    BY <1>a, <1>c, <1>e, <2>1, <2>2, <2>3, SameGrows DEF WriterOK, Checked, Guarded
<1>4. ASSUME NEW c \in Callers, EncodeEnd(c) PROVE WriterOK' /\ NoneAfter'
  <2>1. HoldsOut(c) /\ pc[c] = "end" /\ outClosed' = outClosed /\ w' = w /\ kind' = kind
    BY <1>4 DEF EncodeEnd, HoldsOut, flagVars, handVars
  <2>2. kind[c] # "tokens" => \A i \in DOMAIN buf : ~Guarded(buf[i])
    BY <1>b, <1>c, <2>1 DEF RawInv, WriterOK, Checked, Busy
  <2>3. CASE EmitOk(Written(c, "end"))
    <3>1. Grows /\ encErr' = encErr /\ ~encErr
      BY <1>a, <1>f, <2>3, EmitFlow
    <3>2. Guarded(Written(c, "end")) => kind[c] = "tokens"
      BY DEF Guarded, Written, What, Token
    <3>3. kind[c] = "tokens" => ~outClosed
      BY <2>1 DEF RawInv, WriterOK
    <3>4. \A i \in DOMAIN buf' : Guarded(buf'[i]) => kind[c] = "tokens"
      BY <1>a, <1>f, <2>2, <2>3, <3>2, EmitFlow DEF Guarded
    <3>5. pc' = [pc EXCEPT ![c] = pc'[c]]
            /\ (kind[c] = "tokens" => pc'[c] = "flush")
      BY <1>4, <1>c, <2>3 DEF EncodeEnd, EmitOk, EmitErr, StuckWrite, FailWrite,
           Sent, Goto
    <3> QED
      BY <1>a, <1>c, <1>e, <2>1, <3>1, <3>3, <3>4, <3>5
         DEF WriterOK, Checked, Guarded
  <2>4. CASE EmitErr(Written(c, "end")) /\ Sent(c, FALSE)
    BY <1>a, <1>c, <1>e, <1>f, <2>1, <2>4, EmitFlow
       DEF Sent, Goto, WriterOK, Checked
  <2> QED
    BY <1>4, <2>3, <2>4 DEF EncodeEnd
<1>5. ASSUME NEW c \in Callers, Flush(c) PROVE WriterOK' /\ NoneAfter'
  <2>1. Grows /\ buf' = <<>>
    BY <1>5, <1>a, FlushFlow DEF Flush
  <2> QED
    BY <1>5, <1>a, <1>c, <1>e, <2>1
       DEF Flush, Sent, Goto, WriterOK, Checked, flagVars

<1>6. ASSUME NEW p \in Procs, CloseWrites(p) PROVE WriterOK' /\ NoneAfter'
  <2>1. HoldsOut(p) /\ pc[p] \in {"cstate", "cwrite"}
    BY <1>6 DEF CloseWrites, closeSession, CloseWrite, HoldsOut
  <2>2. \A q \in Procs : pc[q] \notin Busy
    BY <1>b, <2>1 DEF Busy
  <2>3. ~w
    BY <1>b, <1>c, <2>1 DEF LockInv
  <2>4. \A i \in DOMAIN buf : ~Guarded(buf[i])
    BY <1>c, <2>2, <2>3 DEF RawInv, WriterOK, Checked, Busy
  <2>5. \A q \in Procs : pc'[q] \notin Busy
    BY <1>6, <1>c, <2>2 DEF CloseWrites, closeSession, CloseWrite, AfterClose,
         Goto, Busy
  <2>6. buf' = buf /\ encErr' = encErr
    BY <1>6 DEF CloseWrites, closeSession, CloseWrite, WriteClose, encVars
  <2>7. WriterOK'
    BY <1>a, <1>c, <2>4, <2>5, <2>6 DEF WriterOK, Busy, Guarded
  <2>8. NoneAfter'
    BY <1>6, <1>a, <1>e, CloseClean, SameGrows
       DEF CloseWrites, closeSession, CloseWrite, encVars
  <2> QED
    BY <2>7, <2>8
<1>7. ASSUME HandlerLock \/ DefaultLock PROVE WriterOK' /\ NoneAfter'
  <2>1. UNCHANGED <<encVars, outClosed, kind>> /\ w'
    BY <1>7 DEF HandlerLock, DefaultLock, flagVars
  <2>2. \A p \in Procs : pc'[p] = pc[p] \/ pc'[p] \notin Busy
    BY <1>7, <1>c DEF HandlerLock, DefaultLock, Goto, Busy
  <2>3. WriterOK'
    BY <1>a, <1>c, <2>1, <2>2 DEF WriterOK, Checked, Guarded, Busy, encVars
  <2> QED
    BY <1>a, <1>e, <2>1, <2>3, SameGrows DEF encVars
<1>8. ASSUME NEW b \in Handler, HandlerStart(b) PROVE WriterOK' /\ NoneAfter'
  <2>1. w /\ w' = w /\ outClosed' = outClosed /\ kind' = kind
    BY <1>8 DEF HandlerStart, LockInv, flagVars
  <2>2. \A c \in Callers : pc'[c] = pc[c]
    BY <1>8, <1>c DEF HandlerStart, Goto
  <2>3. CASE outClosed
    <3>1. UNCHANGED encVars /\ pc'[Serve] \in {"handler", "cleanup"}
      BY <1>8, <1>c, <2>3 DEF HandlerStart, Goto
    <3>2. WriterOK'
      BY <1>a, <1>c, <2>1, <2>2, <3>1 DEF WriterOK, Checked, Guarded, encVars
    <3> QED
      BY <1>a, <1>e, <3>1, <3>2, SameGrows DEF encVars
  <2>4. CASE ~outClosed
    <3> DEFINE t == Token(ServeSrc, WhatOf(b), "start")
    <3>1. t \in Tokens /\ (EmitOk(t) \/ EmitErr(t))
      BY <1>8, <1>g, <2>4 DEF HandlerStart, WhatOf
    <3>2. Grows /\ (encErr' => buf' = <<>>)
      BY <1>a, <3>1, EmitFlow
    <3>3. WriterOK'
      BY <2>1, <2>4, <3>2 DEF WriterOK, Checked
    <3> QED
      BY <1>e, <3>2, <3>3
  <2> QED
    BY <2>3, <2>4
<1>9. ASSUME HandlerEnd PROVE WriterOK' /\ NoneAfter'
  <2>1. w /\ w' = w /\ ~outClosed /\ outClosed' = outClosed
    BY <1>9, <1>a DEF HandlerEnd, LockInv, WriterOK, flagVars
  <2> DEFINE t == Token(ServeSrc, IF pc[Serve] = "hreply" THEN "reply" ELSE "raw", "end")
  <2>2. t \in Tokens /\ (EmitOk(t) \/ EmitErr(t))
    BY <1>9, <1>g DEF HandlerEnd
  <2>3. Grows /\ (encErr' => buf' = <<>>)
    BY <1>a, <2>2, EmitFlow
  <2>4. WriterOK'
    BY <2>1, <2>3 DEF WriterOK, Checked
  <2> QED
    BY <1>e, <2>3, <2>4
<1>10. ASSUME HandlerTear PROVE WriterOK' /\ NoneAfter'
  <2>1. UNCHANGED <<buf, wire, encErr, outClosed, w, kind>>
    BY <1>10 DEF HandlerTear, flagVars
  <2>2. \A p \in Procs : pc'[p] = pc[p] \/ pc'[p] \notin Busy
    BY <1>10, <1>c DEF HandlerTear, Goto, Busy
  <2>3. \A c \in Callers : pc'[c] = pc[c]
    BY <1>10, <1>c DEF HandlerTear, Goto
  <2>4. WriterOK'
    BY <1>a, <1>c, <2>1, <2>2, <2>3 DEF WriterOK, Checked, Guarded, Busy
  <2> QED
    BY <1>a, <1>e, <2>1, <2>4, SameGrows
<1>11. ASSUME DefaultWrite PROVE WriterOK' /\ NoneAfter'
  <2>1. w /\ w' = w /\ outClosed' = outClosed /\ kind' = kind
    BY <1>11 DEF DefaultWrite, flagVars
  <2>2. \A c \in Callers : pc'[c] = pc[c]
    BY <1>11, <1>c DEF DefaultWrite, Goto
  <2>3. CASE outClosed
    <3>1. UNCHANGED encVars /\ pc'[Serve] = "cleanup"
      BY <1>11, <1>c, <2>3 DEF DefaultWrite, Goto
    <3>2. WriterOK'
      BY <1>a, <1>c, <2>1, <2>2, <3>1 DEF WriterOK, Checked, Guarded, encVars
    <3> QED
      BY <1>a, <1>e, <3>1, <3>2, SameGrows DEF encVars
  <2>4. CASE ~outClosed
    <3> DEFINE t == Token(ServeSrc, "default", "whole")
    <3>1. t \in Tokens /\ (EmitOk(t) \/ EmitErr(t))
      BY <1>11, <1>g, <2>4 DEF DefaultWrite
    <3>2. Grows /\ (encErr' => buf' = <<>>)
      BY <1>a, <3>1, EmitFlow
    <3>3. WriterOK'
      BY <2>1, <2>4, <3>2 DEF WriterOK, Checked
    <3> QED
      BY <1>e, <3>2, <3>3
  <2> QED
    BY <2>3, <2>4
<1>12. ASSUME HandlerFlush \/ Cleanup PROVE WriterOK' /\ NoneAfter'
  <2>1. outClosed' = outClosed /\ kind' = kind
    BY <1>12 DEF HandlerFlush, Cleanup, flagVars
  <2>2. (\A c \in Callers : pc'[c] = pc[c]) /\ pc'[Serve] \notin Busy
    BY <1>12, <1>c DEF HandlerFlush, Cleanup, Goto, Busy
  <2>3. CASE Grows /\ buf' = <<>>
    BY <1>a, <1>e, <2>1, <2>2, <2>3 DEF WriterOK, Busy
  <2>4. CASE UNCHANGED encVars /\ (w => outClosed) /\ (w' => w)
    <3>1. WriterOK'
      BY <1>a, <1>c, <2>1, <2>2, <2>4 DEF WriterOK, Checked, Guarded, Busy, encVars
    <3> QED
      BY <1>a, <1>e, <2>4, <3>1, SameGrows DEF encVars
  <2> QED
    BY <1>12, <1>a, <2>3, <2>4, FlushFlow DEF HandlerFlush, Cleanup
<1>13. ASSUME sendError PROVE WriterOK' /\ NoneAfter'
  <2>1. HoldsOut(Serve) /\ pc[Serve] = "estate"
    BY <1>13 DEF sendError, HoldsOut
  <2>2. ~w /\ \A q \in Procs : pc[q] \notin Busy
    BY <1>b, <1>c, <2>1 DEF LockInv, Busy
  <2>3. \A i \in DOMAIN buf : ~Guarded(buf[i])
    BY <1>c, <2>2 DEF RawInv, WriterOK, Checked, Busy
  <2>4. \A q \in Procs : pc'[q] \notin Busy
    BY <1>13, <1>c, <2>2 DEF sendError, Goto, Busy
  <2> DEFINE t == Token(ServeSrc, "error", "whole")
  <2>5. t \in Tokens /\ ~Guarded(t)
    BY <1>g DEF Guarded, Token
  <2>6. CASE UNCHANGED encVars
    BY <1>a, <1>c, <1>e, <2>3, <2>4, <2>6, SameGrows
       DEF WriterOK, Guarded, Busy, encVars
  <2>7. CASE EmitErr(t)
    BY <1>a, <1>c, <1>e, <2>4, <2>5, <2>7, EmitFlow DEF WriterOK, Busy
  <2>8. CASE EmitOk(t)
    <3>1. \A i \in DOMAIN buf' : ~Guarded(buf'[i])
      BY <1>a, <2>3, <2>5, <2>8, EmitFlow DEF Guarded
    <3> QED
      BY <1>a, <1>c, <1>e, <2>4, <2>5, <2>8, <3>1, EmitFlow DEF WriterOK, Busy
  <2> QED
    BY <1>13, <2>6, <2>7, <2>8 DEF sendError
<1>14. ASSUME ErrorClose PROVE WriterOK' /\ NoneAfter'
  <2>1. UNCHANGED <<buf, encErr, outClosed, w, kind>>
    BY <1>14 DEF ErrorClose, WriteClose, flagVars
  <2>2. (\A c \in Callers : pc'[c] = pc[c]) /\ pc'[Serve] = "fin"
    BY <1>14, <1>c DEF ErrorClose, Goto
  <2>3. WriterOK'
    BY <1>a, <1>c, <2>1, <2>2 DEF WriterOK, Checked, Guarded
  <2>4. NoneAfter'
    BY <1>14, CloseClean DEF ErrorClose
  <2> QED
    BY <2>3, <2>4
<1> QED
  BY <1>1, <1>2, <1>3, <1>4, <1>5, <1>6, <1>7, <1>8, <1>9, <1>10, <1>11,
     <1>12, <1>13, <1>14, QuietStep DEF CallerWrites, ServeWrites

----------------------------------------------------------------------------
(* Elements stay whole.                                                    *)

\* The same with nothing open at either end.
Settled ==
    /\ WholeElements /\ BufWhole
    /\ buf # <<>> => ~Opens(buf[Len(buf)])
    /\ wire # <<>> => ~Opens(wire[Len(wire)])

\* Nothing is open when nobody writes.
LEMMA SettledWhole == Settled => WholeInv
BY DEF Settled, WholeInv

\* A write of a prefix of the buffer keeps the elements on the wire
\* whole as far as the buffer's are.
LEMMA PrefixWhole ==
  ASSUME EncOK, WholeInv, NEW k \in 0 .. Len(buf), torn \subseteq torn',
         wire' = wire \o SubSeq(buf, 1, k)
  PROVE  /\ WholeElements'
         /\ wire' # <<>> => IF k = 0 THEN wire # <<>> /\ wire'[Len(wire')] = wire[Len(wire)]
                                     ELSE wire'[Len(wire')] = buf[k]
<1>1. SubSeq(buf, 1, k) \in Seq(Tokens) /\ Len(SubSeq(buf, 1, k)) = k
        /\ \A i \in 1 .. k : SubSeq(buf, 1, k)[i] = buf[i]
  BY DEF EncOK
<1>2. Len(wire') = Len(wire) + k /\ Len(wire) \in Nat /\ Len(buf) \in Nat
        /\ wire' \in Seq(Tokens)
  BY <1>1 DEF EncOK
<1>3. \A i \in 1 .. Len(wire) : wire'[i] = wire[i]
  BY <1>1 DEF EncOK
<1>4. \A i \in 1 .. k : wire'[Len(wire) + i] = buf[i]
  BY <1>1 DEF EncOK
<1>5. ASSUME NEW i \in 1 .. Len(wire') - 1, OpenIn(wire'[i], torn')
      PROVE  wire'[i + 1] = EndOf(wire'[i])
  <2>1. Opens(wire'[i])
    BY <1>5 DEF Opens, OpenIn
  <2>2. CASE i < Len(wire)
    <3>1. i \in 1 .. Len(wire) - 1 /\ wire'[i] = wire[i] /\ wire'[i + 1] = wire[i + 1]
      BY <1>2, <1>3, <2>2
    <3> QED
      BY <2>1, <3>1 DEF WholeInv, WholeElements, Opens, OpenIn, EndOf
  <2>3. CASE i = Len(wire)
    <3>1. wire # <<>> /\ wire'[i] = wire[i] /\ 1 \in 1 .. k /\ wire'[i + 1] = buf[1]
      BY <1>2, <1>3, <1>4, <2>3 DEF EncOK
    <3> QED
      BY <2>1, <2>3, <3>1 DEF WholeInv
  <2>4. CASE i > Len(wire)
    <3> DEFINE j == i - Len(wire)
    <3>1. j \in 1 .. Len(buf) - 1 /\ j \in 1 .. k /\ j + 1 \in 1 .. k
      BY <1>2, <2>4
    <3>2. wire'[Len(wire) + j] = buf[j] /\ wire'[Len(wire) + (j + 1)] = buf[j + 1]
      BY <1>4, <3>1
    <3>3. Len(wire) + j = i /\ Len(wire) + (j + 1) = i + 1
      BY <1>2
    <3> QED
      BY <2>1, <3>1, <3>2, <3>3 DEF WholeInv, BufWhole
  <2> QED
    BY <1>2, <2>2, <2>3, <2>4
<1>6. WholeElements'
  BY <1>5 DEF WholeElements, OpenIn, EndOf
<1>7. CASE k = 0
  <2>1. Len(wire') = Len(wire) /\ (wire' # <<>> => Len(wire) \in 1 .. Len(wire))
    BY <1>2, <1>7
  <2> QED
    BY <1>3, <1>6, <1>7, <2>1
<1>8. CASE k # 0
  <2>1. k \in 1 .. k /\ Len(wire') = Len(wire) + k
    BY <1>2, <1>8
  <2> QED
    BY <1>4, <1>6, <1>8, <2>1
<1> QED
  BY <1>7, <1>8

\* A write of the whole buffer.
LEMMA AllWhole ==
  ASSUME EncOK, WholeInv, torn \subseteq torn', wire' = wire \o buf
  PROVE  /\ WholeElements'
         /\ wire' # <<>> => IF buf = <<>> THEN wire # <<>> /\ wire'[Len(wire')] = wire[Len(wire)]
                                          ELSE wire'[Len(wire')] = buf[Len(buf)]
<1>1. buf = SubSeq(buf, 1, Len(buf)) /\ Len(buf) \in 0 .. Len(buf)
        /\ (Len(buf) = 0 <=> buf = <<>>)
  BY DEF EncOK
<1> QED
  BY <1>1, PrefixWhole

\* A token that is the end of whatever is open at the end of the
\* buffer keeps the elements whole.  What was at the end of the wire is
\* still there, or it is what was at the end of the buffer.
LEMMA EmitWhole ==
  ASSUME EncOK, WholeInv, NEW t \in Tokens, EmitOk(t),
         buf # <<>> /\ Opens(buf[Len(buf)]) => t = EndOf(buf[Len(buf)])
  PROVE  /\ WholeElements' /\ BufWhole'
         /\ buf' # <<>> /\ buf'[Len(buf')] = t
         /\ wire' # <<>> /\ OpenIn(wire'[Len(wire')], torn')
               => /\ buf'[1] = EndOf(wire'[Len(wire')])
                  /\ \/ wire # <<>> /\ Opens(wire[Len(wire)])
                     \/ buf # <<>> /\ Opens(buf[Len(buf)])
<1>1. torn' = torn /\ Len(buf) \in Nat
  BY DEF EmitOk, EncOK
<1>2. CASE Len(buf) < BufCap
  <2>1. buf' = Append(buf, t) /\ wire' = wire
    BY <1>2 DEF EmitOk
  <2>2. Len(buf') = Len(buf) + 1 /\ buf'[Len(buf) + 1] = t /\ buf' # <<>>
          /\ \A i \in 1 .. Len(buf) : buf'[i] = buf[i]
    BY <2>1 DEF EncOK
  <2>3. ASSUME NEW i \in 1 .. Len(buf') - 1, OpenIn(buf'[i], torn')
        PROVE  buf'[i + 1] = EndOf(buf'[i])
    <3>1. CASE i = Len(buf)
      <4>1. buf # <<>> /\ buf'[i] = buf[Len(buf)]
        BY <1>1, <2>2, <2>3, <3>1
      <4> QED
        BY <1>1, <2>2, <2>3, <3>1, <4>1 DEF Opens
    <3>2. CASE i # Len(buf)
      <4>1. i \in 1 .. Len(buf) - 1 /\ i + 1 \in 1 .. Len(buf) /\ i \in 1 .. Len(buf)
        BY <1>1, <2>2, <2>3, <3>2
      <4> QED
        BY <1>1, <2>2, <2>3, <4>1 DEF WholeInv, BufWhole, Opens
    <3> QED
      BY <3>1, <3>2
  <2>4. BufWhole'
    BY <2>3 DEF BufWhole, Opens
  <2>5. WholeElements'
    BY <1>1, <2>1 DEF WholeInv, WholeElements
  <2>6. ASSUME wire' # <<>>, OpenIn(wire'[Len(wire')], torn')
        PROVE  /\ wire # <<>> /\ Opens(wire[Len(wire)])
               /\ buf'[1] = EndOf(wire'[Len(wire')])
    <3>1. wire # <<>> /\ Opens(wire[Len(wire)])
      BY <1>1, <2>1, <2>6 DEF Opens
    <3>2. buf # <<>> /\ buf[1] = EndOf(wire[Len(wire)])
      BY <3>1 DEF WholeInv
    <3>3. 1 \in 1 .. Len(buf)
      BY <3>2 DEF EncOK
    <3> QED
      BY <2>1, <2>2, <3>1, <3>2, <3>3
  <2> QED
    BY <2>2, <2>4, <2>5, <2>6
<1>3. CASE ~(Len(buf) < BufCap)
  <2>1. buf' = <<t>> /\ wire' = wire \o buf /\ buf # <<>>
    BY <1>3, BufAssumption DEF EmitOk
  <2>2. Len(buf') = 1 /\ buf'[1] = t /\ buf' # <<>>
    BY <2>1
  <2>3. WholeElements' /\ (wire' # <<>> => wire'[Len(wire')] = buf[Len(buf)])
    BY <1>1, <2>1, AllWhole
  <2>4. BufWhole'
    BY <2>2 DEF BufWhole
  <2> QED
    BY <1>1, <2>1, <2>2, <2>3, <2>4 DEF Opens
<1> QED
  BY <1>2, <1>3

\* A write that fails cuts short whatever was in the buffer, so that
\* nothing stays open.
LEMMA FailSettles ==
  ASSUME EncOK, WholeInv, encErr => buf = <<>>, NEW s,
         FailWrite(s) \/ StuckWrite(s)
  PROVE  Settled'
<1>1. CASE FailWrite(s)
  <2>1. PICK k \in 0 .. Len(buf) - 1 : wire' = wire \o SubSeq(buf, 1, k)
    BY <1>1 DEF FailWrite
  <2>2. k \in 0 .. Len(buf) /\ torn \subseteq torn' /\ buf' = <<>> /\ buf # <<>>
          /\ \A i \in DOMAIN buf : buf[i].src \in torn'
    BY <1>1 DEF FailWrite, EncOK
  <2>3. WholeElements'
    BY <2>1, <2>2, PrefixWhole
  <2>4. ASSUME wire' # <<>> PROVE ~OpenIn(wire'[Len(wire')], torn')
    <3>1. CASE k = 0
      <4>1. wire # <<>> /\ wire'[Len(wire')] = wire[Len(wire)]
        BY <2>1, <2>2, <2>4, <3>1, PrefixWhole
      <4>2. Opens(wire[Len(wire)]) => buf[1] = EndOf(wire[Len(wire)])
        BY <4>1 DEF WholeInv
      <4>3. 1 \in DOMAIN buf /\ wire[Len(wire)] \in Tokens
        BY <2>2, <4>1 DEF EncOK
      <4>4. EndOf(wire[Len(wire)]).src = wire[Len(wire)].src
        BY <4>3 DEF EndOf, Tokens
      <4> QED
        BY <2>2, <4>1, <4>2, <4>3, <4>4 DEF Opens, OpenIn
    <3>2. CASE k # 0
      <4>1. wire'[Len(wire')] = buf[k] /\ k \in DOMAIN buf
        BY <2>1, <2>2, <2>4, <3>2, PrefixWhole DEF EncOK
      <4> QED
        BY <2>2, <4>1 DEF OpenIn
    <3> QED
      BY <3>1, <3>2
  <2> QED
    BY <2>2, <2>3, <2>4 DEF Settled, BufWhole, Opens
<1>2. CASE StuckWrite(s)
  <2>1. buf' = <<>> /\ buf = <<>> /\ wire' = wire /\ torn \subseteq torn'
    BY <1>2 DEF StuckWrite
  <2>2. WholeElements'
    BY <2>1 DEF WholeInv, WholeElements
  <2>3. wire' # <<>> => ~OpenIn(wire'[Len(wire')], torn')
    BY <2>1 DEF WholeInv, Opens, OpenIn
  <2> QED
    BY <2>1, <2>2, <2>3 DEF Settled, BufWhole, Opens
<1> QED
  BY <1>1, <1>2

\* A flush while no goroutine is inside an element leaves nothing
\* open.
LEMMA FlushSettles ==
  ASSUME EncOK, WholeInv, encErr => buf = <<>>, \A p \in Procs : ~Mid(p),
         NEW s, FlushOk \/ FlushErr(s)
  PROVE  Settled'
<1>1. CASE FlushOk
  <2>1. wire' = wire \o buf /\ buf' = <<>> /\ torn' = torn
    BY <1>1 DEF FlushOk
  <2>2. buf # <<>> => ~Opens(buf[Len(buf)])
    BY DEF WholeInv
  <2>3. buf = <<>> /\ wire # <<>> => ~Opens(wire[Len(wire)])
    BY DEF WholeInv
  <2>4. wire' # <<>> => ~OpenIn(wire'[Len(wire')], torn')
    BY <2>1, <2>2, <2>3, AllWhole DEF Opens
  <2>5. WholeElements'
    BY <2>1, AllWhole
  <2> QED
    BY <2>1, <2>4, <2>5 DEF Settled, BufWhole, Opens
<1>2. CASE FlushErr(s)
  BY <1>2, FailSettles DEF FlushErr
<1> QED
  BY <1>1, <1>2

\* The stream end tag goes out when nothing is open.
LEMMA CloseSettles ==
  ASSUME EncOK, Settled, NEW p, NEW kept, WriteClose(p, kept) PROVE Settled'
<1>1. buf' = buf /\ torn' = torn
  BY DEF WriteClose
<1>2. BufWhole' /\ (buf' # <<>> => ~OpenIn(buf'[Len(buf')], torn'))
  BY <1>1 DEF Settled, BufWhole, Opens
<1>3. CASE wire' = wire
  BY <1>1, <1>2, <1>3 DEF Settled, WholeElements, Opens
<1>4. CASE wire' = Append(wire, CloseTag(p))
  <2>1. Len(wire') = Len(wire) + 1 /\ wire'[Len(wire) + 1] = CloseTag(p)
          /\ Len(wire) \in Nat /\ \A i \in 1 .. Len(wire) : wire'[i] = wire[i]
    BY <1>4 DEF EncOK
  <2>2. ASSUME NEW i \in 1 .. Len(wire') - 1, OpenIn(wire'[i], torn')
        PROVE  wire'[i + 1] = EndOf(wire'[i])
    <3>1. wire'[i] = wire[i] /\ Opens(wire[i])
      BY <1>1, <2>1, <2>2 DEF Opens
    <3>2. i # Len(wire)
      BY <2>1, <3>1 DEF Settled
    <3>3. i \in 1 .. Len(wire) - 1 /\ wire'[i + 1] = wire[i + 1]
      BY <2>1, <3>2
    <3> QED
      BY <3>1, <3>3 DEF Settled, WholeElements, Opens, OpenIn, EndOf
  <2>3. WholeElements'
    BY <2>2 DEF WholeElements, OpenIn, EndOf
  <2>4. ~OpenIn(CloseTag(p), torn')
    BY DEF OpenIn, CloseTag, Token
  <2> QED
    BY <1>2, <2>1, <2>3, <2>4 DEF Settled, Opens
<1> QED
  BY <1>3, <1>4 DEF WriteClose

\* Nobody encodes a value with WriteXML, the one write that leaves its
\* element in the buffer when it releases the lock.
AllFlush == \A c \in Callers : kind[c] # "writerto"

\* An operation keeps its kind until the next call.
LEMMA KindStep ==
  ASSUME "writerto" \notin Ops, TypeOK, AllFlush, [Next]_vars PROVE AllFlush'
<1>1. ASSUME NEW c \in Callers, NEW k \in Ops, Call(c, k) PROVE AllFlush'
  BY <1>1 DEF Call, AllFlush, TypeOK, PcOK
<1>2. ASSUME kind' = kind PROVE AllFlush'
  BY <1>2 DEF AllFlush
<1>3. ASSUME NEW c \in Callers, CallerStep(c) PROVE kind' = kind
  BY <1>3 DEF CallerStep, Register, LockOut, NoStart, EncodeRefused, EncodeStart,
       PayloadErr, EncodeEnd, Flush, GiveUp, Delete, CloseResp, CloseLock,
       closeSession, CloseWrite, SwapCtx, CancelCtx, SetReadDeadline, ReadLock,
       ReadState, Read
<1>4. ASSUME ServeStep PROVE kind' = kind
  BY <1>4 DEF ServeStep, ServePoll, ServeCtx, ReadLock, ReadState, ServeRead,
       ServeReadFails, Discard, RespClosed, HandlerRead, HandlerLock, HandlerMore,
       HandlerStart, HandlerEnd, HandlerTear, HandlerReturn, NoDefault,
       DefaultLock, DefaultWrite, HandlerFlush, SkipFails, Skip, Cleanup, ErrorLock,
       sendError, ErrorClose, closeInputStream, CloseLock, closeSession,
       CloseWrite
<1>5. ASSUME \/ \E c \in Callers : Deliver(c) \/ Cancel(c)
             \/ \E g \in 1 .. gen : Expire(g)
             \/ \E k \in Inputs : PeerSend(k)
             \/ UNCHANGED vars
      PROVE  kind' = kind
  BY <1>5 DEF Deliver, Cancel, Expire, PeerSend, vars
<1> QED
  BY <1>1, <1>2, <1>3, <1>4, <1>5 DEF Next

\* Elements stay whole: a start token is followed only by what its
\* own goroutine emits next, because that goroutine keeps the lock until
\* it has flushed or failed.
LEMMA WholeStep ==
  TypeOK /\ LockInv /\ RawInv /\ AllFlush /\ WholeInv /\ [Next]_vars => WholeInv'
<1> SUFFICES ASSUME TypeOK, LockInv, RawInv, AllFlush, WholeInv, [Next]_vars
             PROVE  WholeInv'
  OBVIOUS
<1>a. EncOK /\ (encErr => buf = <<>>)
  BY DEF TypeOK, RawInv, WriterOK
<1>b. ASSUME NEW p \in Procs, HoldsOut(p), NEW q \in Procs, q # p
      PROVE  pc[q] \notin Busy /\ (p # Serve => ~w)
  <2>1. Serve \in Procs
    BY DEF Procs
  <2>2. w => HoldsOut(Serve)
    BY DEF HoldsOut
  <2> QED
    BY <1>b, <2>1, <2>2, Alone, BusyHolds
<1>c. pc \in [Procs -> Labels \cup ServeLabels] /\ Serve \in Procs
        /\ Callers \subseteq Procs /\ Serve \notin Callers
        /\ pc[Serve] \notin {"end", "flush"}
  BY ProcAssumption DEF TypeOK, PcOK, Procs, ServeLabels
<1>d. ASSUME NEW c \in Callers PROVE Written(c, "start") \in Tokens /\ Written(c, "end") \in Tokens
  BY DEF TypeOK, PcOK, Written, What, Token, Tokens, Whats, Op, Procs
<1>e. ASSUME NEW x \in {"reply", "raw", "default", "error"},
             NEW part \in {"start", "end", "whole"}
      PROVE  Token(ServeSrc, x, part) \in Tokens
  BY DEF TypeOK, InOK, ServeSrc, Token, Tokens, Whats, Procs
<1>f. ASSUME NEW p \in Procs, HoldsOut(p), ~Mid(p), NEW q \in Procs PROVE ~Mid(q)
  BY <1>b, <1>f DEF Mid, Busy
<1>g. ASSUME \A q \in Procs : pc[q] \notin Busy, w => outClosed PROVE Settled
  BY <1>c, <1>g DEF WholeInv, Settled, Mid, Busy
<1>h. ASSUME Settled, UNCHANGED encVars PROVE WholeInv'
  <2>1. Settled'
    BY <1>h DEF Settled, WholeElements, BufWhole, Opens, encVars
  <2> QED
    BY <2>1, SettledWhole DEF Settled, WholeInv
<1>i. ASSUME Settled' PROVE WholeInv'
  BY <1>i DEF Settled, WholeInv
\* Nobody enters or leaves an element.
<1>j. ASSUME UNCHANGED encVars,
             \A p \in Procs : Mid(p) => Mid(p)' /\ Opened(p)' = Opened(p),
             \A c \in Callers : pc[c] = "flush" => pc'[c] = "flush",
             w /\ ~outClosed => w' /\ ~outClosed'
      PROVE  WholeInv'
  <2>1. WholeElements' /\ BufWhole'
    BY <1>j DEF WholeInv, WholeElements, BufWhole, Opens, encVars
  <2>2. buf' # <<>> /\ OpenIn(buf'[Len(buf')], torn')
          => \E p \in Procs : Mid(p)' /\ buf'[Len(buf')] = Opened(p)'
    BY <1>j DEF WholeInv, Opens, encVars
  <2>3. wire' # <<>> /\ OpenIn(wire'[Len(wire')], torn') =>
          /\ buf' # <<>> /\ buf'[1] = EndOf(wire'[Len(wire')])
          /\ (\E c \in Callers : pc'[c] = "flush") \/ (w' /\ ~outClosed')
    BY <1>j DEF WholeInv, Opens, encVars
  <2> QED
    BY <2>1, <2>2, <2>3 DEF WholeInv, Opens, EndOf
<1>1. CASE Quiet
  <2>1. \A p \in Procs : Mid(p) => Mid(p)' /\ Opened(p)' = Opened(p)
    BY <1>1, <1>c DEF Quiet, Mid, Busy, Opened, Written, What, Op, ServeSrc, Procs
  <2> QED
    BY <1>1, <1>c, <1>j, <2>1 DEF Quiet, Busy
<1>2. ASSUME NEW c \in Callers, EncodeStart(c) PROVE WholeInv'
  <2>1. HoldsOut(c) /\ ~Mid(c) /\ pc[c] \notin Busy
    BY <1>2 DEF EncodeStart, HoldsOut, Mid, Busy
  <2>2. Settled
    BY <1>b, <1>c, <1>g, <2>1
  <2> DEFINE t == Written(c, "start")
  <2>3. CASE EmitOk(t) /\ Goto(c, "end")
    <3>1. /\ WholeElements' /\ BufWhole'
          /\ buf' # <<>> /\ buf'[Len(buf')] = t
          /\ wire' # <<>> => ~OpenIn(wire'[Len(wire')], torn')
      BY <1>a, <1>d, <2>2, <2>3, EmitWhole DEF Settled
    <3>2. Mid(c)' /\ Opened(c)' = t
      BY <1>2, <1>c, <2>3 DEF EncodeStart, Goto, Mid, Opened, Written, What, Op
    <3> QED
      BY <1>c, <3>1, <3>2 DEF WholeInv, Opens
  <2>4. CASE EmitErr(t)
    BY <1>a, <1>i, <2>4, FailSettles DEF EmitErr
  <2> QED
    BY <1>2, <2>3, <2>4 DEF EncodeStart
<1>3. ASSUME NEW c \in Callers, PayloadErr(c) PROVE WholeInv'
  <2>1. HoldsOut(c) /\ pc[c] = "end"
    BY <1>3 DEF PayloadErr, HoldsOut
  <2>2. wire # <<>> => ~Opens(wire[Len(wire)])
    BY <1>b, <1>c, <2>1 DEF WholeInv, Busy
  <2>3. buf # <<>> /\ Opens(buf[Len(buf)]) => buf[Len(buf)] = Opened(c)
    BY <1>b, <1>c, <2>1 DEF WholeInv, Mid, Busy
  <2>4. Opened(c).src = Op(c)
    BY <1>c DEF Opened, Written, Token
  <2>5. UNCHANGED <<buf, wire>> /\ torn' = torn \cup {Op(c)}
    BY <1>3 DEF PayloadErr
  <2>6. WholeElements' /\ BufWhole'
    BY <2>5 DEF WholeInv, WholeElements, BufWhole, Opens, OpenIn
  <2> QED
    BY <1>i, <2>2, <2>3, <2>4, <2>5, <2>6 DEF Settled, Opens, OpenIn
<1>4. ASSUME NEW c \in Callers, EncodeEnd(c) PROVE WholeInv'
  <2>1. HoldsOut(c) /\ pc[c] = "end" /\ kind[c] # "writerto"
    BY <1>4 DEF EncodeEnd, HoldsOut, AllFlush
  <2> DEFINE t == Written(c, "end")
  <2>2. t = EndOf(Opened(c)) /\ ~OpenIn(t, torn')
    BY <1>c DEF Opened, Written, EndOf, Token, OpenIn
  <2>3. buf # <<>> /\ Opens(buf[Len(buf)]) => t = EndOf(buf[Len(buf)])
    BY <1>b, <1>c, <2>1, <2>2 DEF WholeInv, Mid, Busy
  <2>4. CASE EmitOk(t) /\ Goto(c, "flush")
    <3>1. pc'[c] = "flush"
      BY <1>c, <2>4 DEF Goto
    <3>2. /\ WholeElements' /\ BufWhole'
          /\ buf' # <<>> /\ buf'[Len(buf')] = t
          /\ wire' # <<>> /\ OpenIn(wire'[Len(wire')], torn')
               => buf'[1] = EndOf(wire'[Len(wire')])
      BY <1>a, <1>d, <2>3, <2>4, EmitWhole
    <3> QED
      BY <2>2, <3>1, <3>2 DEF WholeInv, Opens, EndOf
  <2>5. CASE EmitErr(t)
    BY <1>a, <1>i, <2>5, FailSettles DEF EmitErr
  <2> QED
    BY <1>4, <2>1, <2>4, <2>5 DEF EncodeEnd
<1>5. ASSUME NEW c \in Callers, Flush(c) PROVE WholeInv'
  <2>1. HoldsOut(c) /\ ~Mid(c)
    BY <1>5 DEF Flush, HoldsOut, Mid
  <2> QED
    BY <1>5, <1>a, <1>c, <1>f, <1>i, <2>1, FlushSettles DEF Flush
<1>6. ASSUME NEW p \in Procs, CloseWrites(p) PROVE WholeInv'
  <2>1. HoldsOut(p) /\ pc[p] \in {"cstate", "cwrite"}
    BY <1>6 DEF CloseWrites, closeSession, CloseWrite, HoldsOut
  <2>2. Settled
    BY <1>b, <1>c, <1>g, <2>1 DEF LockInv, Busy
  <2> QED
    BY <1>6, <1>a, <1>h, <1>i, <2>2, CloseSettles
       DEF CloseWrites, closeSession, CloseWrite
<1>7. ASSUME HandlerLock \/ DefaultLock PROVE WholeInv'
  <2>1. out = None
    BY <1>7 DEF HandlerLock, DefaultLock, OutFree
  <2>2. \A q \in Procs : pc[q] \notin Busy
    BY <2>1, BusyHolds, NoneAssumption DEF LockInv, Procs
  <2>3. ~w
    BY <1>7 DEF HandlerLock, DefaultLock
  <2> QED
    BY <1>7, <1>g, <1>h, <2>2, <2>3 DEF HandlerLock, DefaultLock

<1>8. ASSUME NEW b \in Handler, HandlerStart(b) PROVE WholeInv'
  <2>1. w /\ w' = w /\ outClosed' = outClosed /\ pc[Serve] = "hstart" /\ cur' = cur
    BY <1>8 DEF HandlerStart, LockInv, flagVars, inVars
  <2>2. HoldsOut(Serve) /\ ~Mid(Serve)
    BY <2>1 DEF HoldsOut, Mid
  <2>3. CASE outClosed
    <3>1. Settled
      BY <1>b, <1>c, <1>g, <2>1, <2>2, <2>3 DEF Busy
    <3> QED
      BY <1>8, <1>h, <2>3, <3>1 DEF HandlerStart
  <2>4. CASE ~outClosed
    <3> DEFINE t == Token(ServeSrc, WhatOf(b), "start")
    <3>1. t \in Tokens
      BY <1>e DEF WhatOf
    <3>2. CASE EmitOk(t) /\ Goto(Serve, IF b = "reply" THEN "hreply" ELSE "hother")
      <4>1. buf # <<>> => ~Opens(buf[Len(buf)])
        BY <1>c, <1>f, <2>2 DEF WholeInv
      <4>2. /\ WholeElements' /\ BufWhole'
            /\ buf' # <<>> /\ buf'[Len(buf')] = t
            /\ wire' # <<>> /\ OpenIn(wire'[Len(wire')], torn')
                 => buf'[1] = EndOf(wire'[Len(wire')])
        BY <1>a, <3>1, <3>2, <4>1, EmitWhole
      <4>3. Mid(Serve)' /\ Opened(Serve)' = t
        BY <1>c, <2>1, <3>2 DEF Goto, Mid, Opened, WhatOf, ServeSrc
      <4> QED
        BY <1>c, <2>1, <2>4, <4>2, <4>3 DEF WholeInv, Opens, EndOf
    <3>3. CASE EmitErr(t)
      BY <1>a, <1>i, <3>3, FailSettles DEF EmitErr
    <3> QED
      BY <1>8, <2>4, <3>2, <3>3 DEF HandlerStart
  <2> QED
    BY <2>3, <2>4
<1>9. ASSUME HandlerEnd PROVE WholeInv'
  <2>1. w /\ w' = w /\ ~outClosed /\ outClosed' = outClosed
    BY <1>9 DEF HandlerEnd, LockInv, RawInv, WriterOK, flagVars
  <2>2. HoldsOut(Serve)
    BY <2>1 DEF HoldsOut
  <2> DEFINE t == Token(ServeSrc, IF pc[Serve] = "hreply" THEN "reply" ELSE "raw", "end")
  <2>3. t \in Tokens /\ t = EndOf(Opened(Serve)) /\ ~OpenIn(t, torn')
    BY <1>e DEF Opened, EndOf, Token, OpenIn
  <2>4. buf # <<>> /\ Opens(buf[Len(buf)]) => t = EndOf(buf[Len(buf)])
    BY <1>b, <1>c, <2>2, <2>3 DEF WholeInv, Mid, Busy
  <2>5. CASE EmitOk(t)
    <3>1. /\ WholeElements' /\ BufWhole'
          /\ buf' # <<>> /\ buf'[Len(buf')] = t
          /\ wire' # <<>> /\ OpenIn(wire'[Len(wire')], torn')
               => buf'[1] = EndOf(wire'[Len(wire')])
      BY <1>a, <2>3, <2>4, <2>5, EmitWhole
    <3> QED
      BY <2>1, <2>3, <3>1 DEF WholeInv, Opens, EndOf
  <2>6. CASE EmitErr(t)
    BY <1>a, <1>i, <2>6, FailSettles DEF EmitErr
  <2> QED
    BY <1>9, <2>5, <2>6 DEF HandlerEnd
<1>10. ASSUME HandlerTear PROVE WholeInv'
  <2>1. w /\ w' = w /\ ~outClosed /\ outClosed' = outClosed
    BY <1>10 DEF HandlerTear, LockInv, RawInv, WriterOK, flagVars
  <2>2. HoldsOut(Serve)
    BY <2>1 DEF HoldsOut
  <2>3. buf # <<>> /\ Opens(buf[Len(buf)]) => buf[Len(buf)] = Opened(Serve)
    BY <1>b, <1>c, <2>2 DEF WholeInv, Mid, Busy
  <2>4. Opened(Serve).src = ServeSrc
    BY DEF Opened, Token
  <2>5. UNCHANGED <<buf, wire>> /\ torn' = torn \cup {ServeSrc}
    BY <1>10 DEF HandlerTear
  <2>6. WholeElements' /\ BufWhole'
    BY <2>5 DEF WholeInv, WholeElements, BufWhole, Opens, OpenIn
  <2>7. buf' # <<>> => ~OpenIn(buf'[Len(buf')], torn')
    BY <2>3, <2>4, <2>5 DEF Opens, OpenIn
  <2>8. wire' # <<>> /\ OpenIn(wire'[Len(wire')], torn')
          => buf' # <<>> /\ buf'[1] = EndOf(wire'[Len(wire')])
    BY <2>5 DEF WholeInv, Opens, OpenIn
  <2> QED
    BY <2>1, <2>6, <2>7, <2>8 DEF WholeInv, Opens, EndOf
<1>11. ASSUME DefaultWrite PROVE WholeInv'
  <2>1. w /\ w' = w /\ outClosed' = outClosed /\ pc[Serve] = "default"
    BY <1>11 DEF DefaultWrite, flagVars
  <2>2. HoldsOut(Serve) /\ ~Mid(Serve)
    BY <2>1 DEF HoldsOut, Mid
  <2>3. CASE outClosed
    <3>1. Settled
      BY <1>b, <1>c, <1>g, <2>1, <2>2, <2>3 DEF Busy
    <3> QED
      BY <1>11, <1>h, <2>3, <3>1 DEF DefaultWrite
  <2>4. CASE ~outClosed
    <3> DEFINE t == Token(ServeSrc, "default", "whole")
    <3>1. t \in Tokens /\ ~OpenIn(t, torn')
      BY <1>e DEF Token, OpenIn
    <3>2. CASE EmitOk(t)
      <4>1. buf # <<>> => ~Opens(buf[Len(buf)])
        BY <1>c, <1>f, <2>2 DEF WholeInv
      <4>2. /\ WholeElements' /\ BufWhole'
            /\ buf' # <<>> /\ buf'[Len(buf')] = t
            /\ wire' # <<>> /\ OpenIn(wire'[Len(wire')], torn')
                 => buf'[1] = EndOf(wire'[Len(wire')])
        BY <1>a, <3>1, <3>2, <4>1, EmitWhole
      <4> QED
        BY <2>1, <2>4, <3>1, <4>2 DEF WholeInv, Opens, EndOf
    <3>3. CASE EmitErr(t)
      BY <1>a, <1>i, <3>3, FailSettles DEF EmitErr
    <3> QED
      BY <1>11, <2>4, <3>2, <3>3 DEF DefaultWrite
  <2> QED
    BY <2>3, <2>4
<1>12. ASSUME HandlerFlush \/ Cleanup PROVE WholeInv'
  <2>1. pc[Serve] \in {"wflush", "cleanup"} /\ outClosed' = outClosed /\ kind' = kind
          /\ n' = n /\ \A c \in Callers : pc'[c] = pc[c]
    BY <1>12, <1>c DEF HandlerFlush, Cleanup, Goto, flagVars
  <2>2. CASE w /\ ~outClosed
    <3>1. \A q \in Procs : ~Mid(q)
      BY <1>c, <1>f, <2>1, <2>2 DEF HoldsOut, Mid
    <3> QED
      BY <1>12, <1>a, <1>i, <2>2, <3>1, FlushSettles DEF HandlerFlush, Cleanup
  <2>3. CASE ~(w /\ ~outClosed)
    <3>1. UNCHANGED encVars
      BY <1>12, <2>3 DEF HandlerFlush, Cleanup
    <3>2. \A p \in Procs : Mid(p) => Mid(p)' /\ Opened(p)' = Opened(p)
      BY <1>c, <2>1 DEF Mid, Opened, Written, What, Op, Procs
    <3> QED
      BY <1>j, <2>1, <2>3, <3>1, <3>2
  <2> QED
    BY <2>2, <2>3
<1>13. ASSUME sendError PROVE WholeInv'
  <2>1. HoldsOut(Serve) /\ pc[Serve] = "estate"
    BY <1>13 DEF sendError, HoldsOut
  <2>2. Settled
    BY <1>b, <1>c, <1>g, <2>1 DEF LockInv, Busy
  <2> DEFINE t == Token(ServeSrc, "error", "whole")
  <2>3. t \in Tokens /\ ~OpenIn(t, torn')
    BY <1>e DEF Token, OpenIn
  <2>4. CASE EmitOk(t)
    <3>1. /\ WholeElements' /\ BufWhole'
          /\ buf' # <<>> /\ buf'[Len(buf')] = t
          /\ wire' # <<>> => ~OpenIn(wire'[Len(wire')], torn')
      BY <1>a, <2>2, <2>3, <2>4, EmitWhole DEF Settled
    <3> QED
      BY <1>i, <2>3, <3>1 DEF Settled, Opens
  <2>5. CASE EmitErr(t)
    BY <1>a, <1>i, <2>5, FailSettles DEF EmitErr
  <2> QED
    BY <1>13, <1>h, <2>2, <2>4, <2>5 DEF sendError
<1>14. ASSUME ErrorClose PROVE WholeInv'
  <2>1. HoldsOut(Serve) /\ pc[Serve] = "ewrite"
    BY <1>14 DEF ErrorClose, HoldsOut
  <2>2. Settled
    BY <1>b, <1>c, <1>g, <2>1 DEF LockInv, Busy
  <2> QED
    BY <1>14, <1>a, <1>i, <2>2, CloseSettles DEF ErrorClose
<1> QED
  BY <1>1, <1>2, <1>3, <1>4, <1>5, <1>6, <1>7, <1>8, <1>9, <1>10, <1>11,
     <1>12, <1>13, <1>14, QuietStep DEF CallerWrites, ServeWrites

----------------------------------------------------------------------------
(* The theorems.                                                           *)

\* A session starts with nothing written and nobody writing.
LEMMA WireInit == Init => DepthInv /\ RawInv /\ AllFlush /\ WholeInv
<1> SUFFICES ASSUME Init PROVE DepthInv /\ RawInv /\ AllFlush /\ WholeInv
  OBVIOUS
<1>1. \A p \in Procs : pc[p] \in {"loop", "idle"}
  BY DEF Init
<1>2. Serve \in Procs /\ Callers \subseteq Procs
  BY DEF Procs
<1>3. DepthInv
  BY <1>1 DEF Init, DepthInv, Mid
<1>4. RawInv
  BY <1>1, <1>2 DEF Init, RawInv, WriterOK, NoneAfter
<1>5. WholeInv
  BY DEF Init, WholeInv, WholeElements, BufWhole
<1> QED
  BY <1>3, <1>4, <1>5 DEF Init, AllFlush

\* While no element has been cut short, the stanza encoder is at
\* the top of the stream whenever its lock is free, for any number of
\* goroutines and any handler: the depth counter of stanzaEncoder is never
\* left up by one goroutine for the next.
THEOREM DepthRestored == Spec => []TopLevel
<1>1. DepthInv /\ LockInv /\ TypeOK => TopLevel
  <2> SUFFICES ASSUME DepthInv, LockInv, TypeOK, out = None, torn = {}
               PROVE  depth = 0
    BY DEF TopLevel
  <2>1. ASSUME NEW p \in Procs PROVE ~Mid(p)
    BY BusyHolds, NoneAssumption DEF Mid, Busy, LockInv, Procs
  <2> QED
    BY <2>1 DEF DepthInv
<1> QED
  BY <1>1, WireInit, DepthStep, TypeCorrect, LocksExclusive, PTL DEF Spec

\* What a TokenWriter or a handler writes never follows the stream
\* end tag: the OutputStreamClosed check of lockWriteCloser cannot go stale
\* before the checked token is flushed.
THEOREM NothingRawAfterClose == Spec => []NoRawAfterClose
<1>1. TypeOK /\ CloseInv /\ RawInv => NoRawAfterClose
  <2> SUFFICES ASSUME TypeOK, CloseInv, RawInv, NEW i \in DOMAIN wire,
                      NEW j \in DOMAIN wire, i < j, IsClose(wire[i])
               PROVE  wire[j].what \in {"request", "stanza", "error"}
    BY DEF NoRawAfterClose
  <2>a. wire[j] \in Tokens
    BY DEF TypeOK, EncOK
  <2>1. wire[j].what \in Whats
    BY <2>a DEF Tokens
  <2>2. ~Guarded(wire[j])
    BY DEF RawInv, NoneAfter
  <2>3. i # j /\ ~IsClose(wire[j])
    BY DEF CloseInv, CloseTagOnce, TypeOK, EncOK
  <2> QED
    BY <2>1, <2>2, <2>3 DEF Guarded, IsClose, Whats
<1>2. TypeOK /\ LockInv /\ CloseInv /\ [Next]_vars => CloseInv'
  BY CloseStep
<1>3. TypeOK /\ TypeOK' /\ LockInv /\ CloseInv /\ RawInv /\ [Next]_vars => RawInv'
  BY RawStep
<1> QED
  BY <1>1, <1>2, <1>3, InitInv, WireInit, TypeCorrect, LocksExclusive, PTL
     DEF Spec

\* Elements of different goroutines never mix on the wire, for any
\* number of goroutines, any buffer size and failing connections, as long
\* as nobody passes Encode a value that implements WriterTo: EncodeXML does
\* not flush that one, and its end may still be in the buffer when Close
\* writes the stream end tag past it.
THEOREM ElementsWhole ==
  ASSUME "writerto" \notin Ops PROVE Spec => []WholeElements
<1>1. TypeOK /\ AllFlush /\ [Next]_vars => AllFlush'
  BY KindStep
<1>2. TypeOK /\ LockInv /\ CloseInv /\ [Next]_vars => CloseInv'
  BY CloseStep
<1>3. TypeOK /\ TypeOK' /\ LockInv /\ CloseInv /\ RawInv /\ [Next]_vars => RawInv'
  BY RawStep
<1>4. TypeOK /\ LockInv /\ RawInv /\ AllFlush /\ WholeInv /\ [Next]_vars => WholeInv'
  BY WholeStep
<1>5. WholeInv => WholeElements
  BY DEF WholeInv
<1> QED
  BY <1>1, <1>2, <1>3, <1>4, <1>5, InitInv, WireInit, TypeCorrect,
     LocksExclusive, PTL DEF Spec

----------------------------------------------------------------------------
(* Requests and responses.                                                 *)

\* The end of a request, which makes it visible to the peer.
IsReq(t) == t.what = "request" /\ t.part = "end"

\* Where a call is once its request has been flushed, or has failed.
After == {"wait", "del", "rdel", "resp", "idle"}

\* Operation o has flushed its request: it waits, holds the response, has
\* given up because its context is done, or is over.
Flushed(o) ==
    \E c \in Callers, k \in Nat :
        /\ o = <<c, k>> /\ k <= n[c]
        /\ k = n[c] => pc[c] \in After /\ (pc[c] = "del" => o \in ctxDone)

\* The end of a request is the last token its goroutine puts into the buffer
\* before it flushes, so a write that fails does not send it; the peer only
\* answers what it has seen.
BufReqs ==
    \A i \in DOMAIN buf : IsReq(buf[i]) =>
        /\ i = Len(buf)
        /\ \E c \in Callers : pc[c] = "flush" /\ kind[c] = "iq" /\ buf[i].src = Op(c)
WireReqs == \A i \in DOMAIN wire : IsReq(wire[i]) => Flushed(wire[i].src)
PeerReqs == \A i \in DOMAIN inq : inq[i].kind = "resp" => Flushed(inq[i].op)
ReqInv == BufReqs /\ WireReqs /\ PeerReqs

\* A token that answers input k.
Ans(t, k) ==
    t.src = <<Serve, k>> /\ t.what \in {"reply", "default"} /\ t.part \in {"end", "whole"}
OnWire(k) == \E i \in DOMAIN wire : Ans(wire[i], k)
InBuf(k) == \E i \in DOMAIN buf : Ans(buf[i], k)
NoAnswer(k) == ~OnWire(k) /\ ~InBuf(k)

\* The default answer, and an input that does not have it.
DefAns(t, k) == Ans(t, k) /\ t.what = "default"
NoDef(k) == /\ \A i \in DOMAIN wire : ~DefAns(wire[i], k)
            /\ \A i \in DOMAIN buf : ~DefAns(buf[i], k)

\* A default answer is the only answer to its input.
SoleIn(s, k) ==
    \A i, j \in DOMAIN s : DefAns(s[i], k) /\ Ans(s[j], k) => i = j
Once ==
    \A k \in Nat : SoleIn(wire, k) /\ SoleIn(buf, k)
                     /\ (OnWire(k) /\ InBuf(k) => NoDef(k))

\* Answers belong to inputs Serve has read, and one in the buffer to the
\* input whose writer is still open.
Placed == \A k \in Nat : /\ OnWire(k) => k <= cur
                         /\ InBuf(k) => k = cur /\ w

IsGet(k) == k > 0 /\ inq[k].kind \in {"get", "getbad"}
Between == {"loop", "poll", "rlock", "rstate", "rtoken"}

\* Where the answer to input m, the current one, is while Serve handles it.
StageInv(m) ==
    /\ pc[Serve] \in {"handler", "hstart", "hreply", "hother"} => NoDef(m)
    /\ pc[Serve] = "hreply" => wroteResp
    /\ pc[Serve] \in {"handler", "hstart", "hother", "default"} /\ ~wroteResp
          => NoAnswer(m)
    /\ pc[Serve] \in {"handler", "hstart", "hother", "default"} /\ wroteResp
          => w /\ (outClosed \/ OnWire(m) \/ InBuf(m))
    /\ pc[Serve] = "wflush" /\ IsGet(m)
          => w /\ (outClosed \/ OnWire(m) \/ InBuf(m))
    /\ pc[Serve] = "skip" /\ IsGet(m) => OnWire(m)
    /\ pc[Serve] = "cleanup" /\ serr = "nil" /\ IsGet(m) => OnWire(m)
    /\ pc[Serve] \in Between /\ IsGet(m) => OnWire(m)
    /\ pc[Serve] \in {"offer", "await"} => ~IsGet(m)

\* The inputs before it.
PastInv ==
    /\ \A k \in 1 .. cur - 1 : readers[k] = Serve /\ IsGet(k) => OnWire(k)
    /\ \A k \in cur + 1 .. Len(readers) : readers[k] # Serve

AnswerInv == Once /\ Placed /\ StageInv(cur) /\ PastInv

----------------------------------------------------------------------------
(* Offers.                                                                 *)

\* A call that has flushed its request stays where a response is
\* either taken or no longer wanted, until the goroutine's next call.
LEMMA PlaceStep ==
  ASSUME TypeOK, [Next]_vars, NEW d \in Callers
  PROVE  /\ n'[d] \in Nat /\ n'[d] >= n[d] /\ ctxDone \subseteq ctxDone'
         /\ n'[d] = n[d] /\ pc[d] \in After =>
              /\ pc'[d] \in After
              /\ pc'[d] = "del" => pc[d] = "del" \/ Op(d) \in ctxDone
<1> DEFINE Goal == /\ n'[d] \in Nat /\ n'[d] >= n[d] /\ ctxDone \subseteq ctxDone'
                   /\ n'[d] = n[d] /\ pc[d] \in After =>
                        /\ pc'[d] \in After
                        /\ pc'[d] = "del" => pc[d] = "del" \/ Op(d) \in ctxDone
<1> USE ProcAssumption DEF TypeOK, PcOK, Goto, Procs, After, respVars
<1>1. ASSUME NEW c \in Callers, CallerStep(c) PROVE Goal
  <2>1. CASE Register(c) \/ LockOut(c)
    BY <2>1 DEF Register, LockOut
  <2>2. CASE NoStart(c) \/ EncodeRefused(c)
    BY <2>2 DEF NoStart, EncodeRefused, Sent
  <2>3. CASE EncodeStart(c) \/ PayloadErr(c)
    BY <2>3 DEF EncodeStart, PayloadErr, Sent
  <2>4. CASE EncodeEnd(c) \/ Flush(c)
    BY <2>4 DEF EncodeEnd, Flush, Sent
  <2>5. CASE GiveUp(c)
    BY <2>5 DEF GiveUp, CtxEnded
  <2>6. CASE Delete(c) \/ CloseResp(c)
    BY <2>6 DEF Delete, CloseResp
  <2>7. CASE CloseLock(c) \/ closeSession(c) \/ CloseWrite(c)
    BY <2>7 DEF CloseLock, closeSession, CloseWrite, AfterClose
  <2>8. CASE SwapCtx(c) \/ CancelCtx(c) \/ SetReadDeadline(c)
    BY <2>8 DEF SwapCtx, CancelCtx, SetReadDeadline
  <2>9. CASE ReadLock(c) \/ ReadState(c) \/ Read(c)
    BY <2>9 DEF ReadLock, ReadState, Read
  <2> QED
    BY <1>1, <2>1, <2>2, <2>3, <2>4, <2>5, <2>6, <2>7, <2>8, <2>9 DEF CallerStep
<1>2. ASSUME ServeStep PROVE pc'[d] = pc[d] /\ n' = n /\ ctxDone' = ctxDone
  <2>1. CASE ServePoll \/ ServeCtx \/ ReadLock(Serve) \/ ReadState(Serve)
    BY <2>1 DEF ServePoll, ServeCtx, ReadLock, ReadState
  <2>2. CASE ServeRead \/ ServeReadFails \/ Discard \/ RespClosed
    BY <2>2 DEF ServeRead, ServeReadFails, Discard, RespClosed, Drop, Failed
  <2>3. CASE HandlerRead \/ HandlerLock \/ HandlerMore \/ \E b \in Handler : HandlerStart(b)
    BY <2>3 DEF HandlerRead, HandlerLock, HandlerMore, HandlerStart
  <2>4. CASE HandlerEnd \/ HandlerTear \/ HandlerReturn \/ NoDefault
    BY <2>4 DEF HandlerEnd, HandlerTear, HandlerReturn, NoDefault
  <2>5. CASE DefaultLock \/ DefaultWrite \/ HandlerFlush \/ SkipFails \/ Skip \/ Cleanup
    BY <2>5 DEF DefaultLock, DefaultWrite, HandlerFlush, SkipFails, Skip, Cleanup
  <2>6. CASE ErrorLock \/ sendError \/ ErrorClose \/ closeInputStream
    BY <2>6 DEF ErrorLock, sendError, ErrorClose, closeInputStream
  <2>7. CASE CloseLock(Serve) \/ closeSession(Serve) \/ CloseWrite(Serve)
    BY <2>7 DEF CloseLock, closeSession, CloseWrite
  <2> QED
    BY <1>2, <2>1, <2>2, <2>3, <2>4, <2>5, <2>6, <2>7 DEF ServeStep
<1>3. ASSUME NEW c \in Callers, Deliver(c) \/ Cancel(c) PROVE Goal
  BY <1>3 DEF Deliver, Cancel
<1>4. ASSUME NEW c \in Callers, NEW k \in Ops, Call(c, k) PROVE Goal
  BY <1>4 DEF Call, Entry
<1>5. ASSUME NEW g \in 1 .. gen, Expire(g) PROVE Goal
  BY <1>5 DEF Expire
<1>6. ASSUME NEW k \in Inputs, PeerSend(k) PROVE Goal
  BY <1>6 DEF PeerSend
<1>7. CASE UNCHANGED vars
  BY <1>7 DEF vars
<1> QED
  BY <1>1, <1>2, <1>3, <1>4, <1>5, <1>6, <1>7 DEF Next

\* Once flushed, a request stays flushed.
LEMMA FlushedStays ==
  ASSUME TypeOK, [Next]_vars, NEW o, Flushed(o) PROVE Flushed(o)'
<1>1. PICK c \in Callers, k \in Nat :
        /\ o = <<c, k>> /\ k <= n[c]
        /\ k = n[c] => pc[c] \in After /\ (pc[c] = "del" => o \in ctxDone)
  BY DEF Flushed
<1>2. n[c] \in Nat /\ n'[c] \in Nat /\ n'[c] >= n[c] /\ ctxDone \subseteq ctxDone'
  BY PlaceStep DEF TypeOK, PcOK
<1>3. CASE k = n'[c]
  <2>1. k = n[c] /\ n'[c] = n[c] /\ o = Op(c)
    BY <1>1, <1>2, <1>3 DEF Op
  <2>2. pc'[c] \in After /\ (pc'[c] = "del" => pc[c] = "del" \/ Op(c) \in ctxDone)
    BY <1>1, <2>1, PlaceStep
  <2> QED
    BY <1>1, <1>2, <2>1, <2>2 DEF Flushed
<1>4. CASE k # n'[c]
  <2>1. k <= n'[c]
    BY <1>1, <1>2
  <2> QED
    BY <1>1, <1>4, <2>1 DEF Flushed
<1> QED
  BY <1>3, <1>4

\* A step whose writer is past no request of its own puts no end of
\* a request on the wire.
LEMMA NoNewReq ==
  ASSUME TypeOK, ReqInv, [Next]_vars,
         \A i \in DOMAIN wire' : IsReq(wire'[i]) => i \in DOMAIN wire /\ wire'[i] = wire[i]
  PROVE  WireReqs'
<1> SUFFICES ASSUME NEW i \in DOMAIN wire', IsReq(wire'[i]), NEW o, o = wire'[i].src
             PROVE  Flushed(o)'
  BY DEF WireReqs, IsReq, Flushed
<1>1. Flushed(o)
  BY DEF ReqInv, WireReqs, IsReq
<1> QED
  BY <1>1, FlushedStays

\* The peer answers only what it has seen.
LEMMA PeerStep == ASSUME TypeOK, ReqInv, [Next]_vars PROVE PeerReqs'
<1> SUFFICES ASSUME NEW i \in DOMAIN inq', inq'[i].kind = "resp", NEW o, o = inq'[i].op
             PROVE  Flushed(o)
  BY FlushedStays DEF PeerReqs, Flushed
<1>1. CASE inq' = inq
  BY <1>1 DEF ReqInv, PeerReqs
<1>2. ASSUME NEW k \in Inputs, PeerSend(k) PROVE Flushed(o)
  <2>1. PICK q \in IF k = "resp" THEN Requested ELSE {NoOp} :
          inq' = Append(inq, [kind |-> k, op |-> q])
    BY <1>2 DEF PeerSend
  <2>2. CASE i \in DOMAIN inq /\ inq'[i] = inq[i]
    BY <2>2 DEF ReqInv, PeerReqs
  <2>3. CASE inq'[i] = [kind |-> k, op |-> q]
    <3>1. k = "resp" /\ o = q
      BY <2>3
    <3>2. q \in Requested
      BY <2>1, <3>1
    <3> QED
      BY <3>1, <3>2 DEF Requested, ReqInv, WireReqs, IsReq
  <2> QED
    BY <2>1, <2>2, <2>3 DEF TypeOK, InOK
<1>3. ASSUME NEW c \in Callers, CallerStep(c) PROVE inq' = inq
  BY <1>3 DEF CallerStep, Register, LockOut, NoStart, EncodeRefused, EncodeStart,
       PayloadErr, EncodeEnd, Flush, GiveUp, Delete, CloseResp, CloseLock,
       closeSession, CloseWrite, SwapCtx, CancelCtx, SetReadDeadline, ReadLock,
       ReadState, Read, inVars
<1>4. ASSUME ServeStep PROVE inq' = inq
  BY <1>4 DEF ServeStep, ServePoll, ServeCtx, ReadLock, ReadState, ServeRead,
       ServeReadFails, Discard, RespClosed, HandlerRead, HandlerLock, HandlerMore,
       HandlerStart, HandlerEnd, HandlerTear, HandlerReturn, NoDefault,
       DefaultLock, DefaultWrite, HandlerFlush, SkipFails, Skip, Cleanup, ErrorLock,
       sendError, ErrorClose, closeInputStream, CloseLock, closeSession,
       CloseWrite, inVars
<1>5. ASSUME \/ \E c \in Callers : Deliver(c) \/ Cancel(c)
             \/ \E c \in Callers, k \in Ops : Call(c, k)
             \/ \E g \in 1 .. gen : Expire(g)
             \/ UNCHANGED vars
      PROVE  inq' = inq
  BY <1>5 DEF Deliver, Cancel, Call, Expire, vars, inVars
<1> QED
  BY <1>1, <1>2, <1>3, <1>4, <1>5 DEF Next

\* The end of a request is in the buffer only while its own
\* goroutine is about to flush it, and reaches the wire only when that
\* succeeds.
LEMMA OutReqStep ==
  ASSUME TypeOK, LockInv, RawInv, ReqInv, [Next]_vars
  PROVE  BufReqs' /\ WireReqs'
<1>a. EncOK /\ (encErr => buf = <<>>)
  BY DEF TypeOK, RawInv, WriterOK
<1>b. ASSUME NEW p \in Procs, HoldsOut(p), NEW q \in Procs, q # p PROVE pc[q] \notin Busy
  BY <1>b, Alone, BusyHolds
<1>c. pc \in [Procs -> Labels \cup ServeLabels] /\ Serve \in Procs
        /\ Callers \subseteq Procs /\ Serve \notin Callers
  BY ProcAssumption DEF TypeOK, PcOK, Procs
<1>d. ASSUME NEW c \in Callers PROVE Written(c, "start") \in Tokens /\ Written(c, "end") \in Tokens
  BY DEF TypeOK, PcOK, Written, What, Token, Tokens, Whats, Op, Procs
<1>e. ASSUME NEW x \in {"reply", "raw", "default", "error"},
             NEW part \in {"start", "end", "whole"}
      PROVE  Token(ServeSrc, x, part) \in Tokens /\ ~IsReq(Token(ServeSrc, x, part))
  BY DEF TypeOK, InOK, ServeSrc, Token, Tokens, Whats, Procs, IsReq
\* The holder is not about to flush a request: nothing it does shows one.
<1>f. ASSUME NEW p \in Procs, HoldsOut(p), pc[p] # "flush"
      PROVE  \A i \in DOMAIN buf : ~IsReq(buf[i])
  BY <1>b, <1>c, <1>f DEF ReqInv, BufReqs, IsReq, Busy
<1>g. ASSUME \A i \in DOMAIN buf : ~IsReq(buf[i]), Grows PROVE WireReqs'
  BY <1>g, NoNewReq DEF Grows, IsReq
<1>h. ASSUME \A i \in DOMAIN buf' : ~IsReq(buf'[i]) PROVE BufReqs'
  BY <1>h DEF BufReqs, IsReq
<1>i. ASSUME \A i \in DOMAIN buf : ~IsReq(buf[i]), UNCHANGED <<buf, wire>>
      PROVE  BufReqs' /\ WireReqs'
  BY <1>i, <1>a, <1>g, <1>h, SameGrows DEF IsReq
<1>j. ASSUME \A i \in DOMAIN buf : ~IsReq(buf[i]), NEW t \in Tokens, ~IsReq(t),
             EmitOk(t) \/ EmitErr(t)
      PROVE  BufReqs' /\ WireReqs'
  <2>1. Grows /\ \A i \in DOMAIN buf' : buf'[i] = t \/ \E j \in DOMAIN buf : buf'[i] = buf[j]
    BY <1>a, <1>j, EmitFlow
  <2> QED
    BY <1>g, <1>h, <1>j, <2>1 DEF IsReq
<1>k. ASSUME \A i \in DOMAIN buf : ~IsReq(buf[i]), NEW p, NEW kept, WriteClose(p, kept)
      PROVE  BufReqs' /\ WireReqs'
  <2>1. ~IsReq(CloseTag(p))
    BY DEF IsReq, CloseTag, Token
  <2>2. \A i \in DOMAIN wire' : (i \in DOMAIN wire /\ wire'[i] = wire[i]) \/ wire'[i] = CloseTag(p)
    BY <1>a, <1>k DEF WriteClose, EncOK
  <2>3. WireReqs'
    BY <2>1, <2>2, NoNewReq DEF IsReq
  <2> QED
    BY <1>h, <1>k, <2>3 DEF WriteClose, IsReq
<1>1. CASE Quiet
  <2>1. UNCHANGED <<buf, wire>>
    BY <1>1 DEF Quiet, encVars
  <2>2. BufReqs'
    <3> SUFFICES ASSUME NEW i \in DOMAIN buf, IsReq(buf[i])
                 PROVE  /\ i = Len(buf)
                        /\ \E c \in Callers : pc'[c] = "flush" /\ kind'[c] = "iq"
                                                /\ buf[i].src = <<c, n'[c]>>
      BY <2>1 DEF BufReqs, IsReq, Op
    <3>1. PICK c \in Callers : pc[c] = "flush" /\ kind[c] = "iq" /\ buf[i].src = Op(c)
      BY DEF ReqInv, BufReqs
    <3>2. pc'[c] = pc[c] /\ kind'[c] = kind[c] /\ n'[c] = n[c]
      BY <1>1, <1>c, <3>1 DEF Quiet, Busy
    <3> QED
      BY <3>1, <3>2 DEF ReqInv, BufReqs, Op
  <2> QED
    BY <2>1, <2>2, NoNewReq
<1>2. ASSUME NEW c \in Callers, EncodeStart(c) PROVE BufReqs' /\ WireReqs'
  <2>1. HoldsOut(c) /\ pc[c] # "flush"
    BY <1>2 DEF EncodeStart, HoldsOut
  <2>2. ~IsReq(Written(c, "start"))
    BY DEF IsReq, Written, Token
  <2> QED
    BY <1>2, <1>c, <1>d, <1>f, <1>j, <2>1, <2>2 DEF EncodeStart
<1>3. ASSUME NEW c \in Callers, PayloadErr(c) PROVE BufReqs' /\ WireReqs'
  <2>1. HoldsOut(c) /\ pc[c] # "flush"
    BY <1>3 DEF PayloadErr, HoldsOut
  <2> QED
    BY <1>3, <1>c, <1>f, <1>i, <2>1 DEF PayloadErr
<1>4. ASSUME NEW c \in Callers, EncodeEnd(c) PROVE BufReqs' /\ WireReqs'
  <2>1. HoldsOut(c) /\ pc[c] # "flush"
    BY <1>4 DEF EncodeEnd, HoldsOut
  <2>2. \A i \in DOMAIN buf : ~IsReq(buf[i])
    BY <1>c, <1>f, <2>1
  <2> DEFINE t == Written(c, "end")
  <2>3. CASE EmitErr(t)
    BY <1>a, <1>d, <1>g, <1>h, <2>2, <2>3, EmitFlow
  <2>4. CASE EmitOk(t)
    <3>1. Grows
      BY <1>a, <1>d, <2>4, EmitFlow
    <3>2. \A i \in DOMAIN buf' : IsReq(buf'[i]) => i = Len(buf') /\ buf'[i] = t
      <4>1. CASE buf' = Append(buf, t)
        BY <1>a, <2>2, <4>1 DEF EncOK, IsReq
      <4>2. CASE buf' = <<t>>
        BY <4>2
      <4> QED
        BY <2>4, <4>1, <4>2 DEF EmitOk
    <3>3. IsReq(t) => kind[c] = "iq" /\ t.src = Op(c)
      BY DEF IsReq, Written, What, Token
    <3>4. kind[c] = "iq" => pc'[c] = "flush" /\ kind'[c] = "iq" /\ Op(c)' = Op(c)
      BY <1>4, <1>c, <2>4 DEF EncodeEnd, EmitOk, EmitErr, StuckWrite, FailWrite, Goto, Op
    <3>5. BufReqs'
      BY <3>2, <3>3, <3>4 DEF BufReqs, IsReq
    <3> QED
      BY <1>g, <2>2, <3>1, <3>5
  <2> QED
    BY <1>4, <2>3, <2>4 DEF EncodeEnd
<1>5. ASSUME NEW c \in Callers, Flush(c) PROVE BufReqs' /\ WireReqs'
  <2>1. HoldsOut(c) /\ n' = n /\ ctxDone' = ctxDone
    BY <1>5 DEF Flush, HoldsOut, respVars
  <2>2. \A i \in DOMAIN buf : IsReq(buf[i]) => i = Len(buf) /\ kind[c] = "iq" /\ buf[i].src = Op(c)
    BY <1>b, <1>c, <2>1 DEF ReqInv, BufReqs, Busy
  <2>3. buf' = <<>>
    BY <1>5, <1>a, FlushFlow DEF Flush
  <2>4. CASE FlushOk /\ Sent(c, TRUE)
    <3>1. Grows
      BY <1>a, <2>4, FlushFlow
    <3>2. kind[c] = "iq" => pc'[c] = "wait"
      BY <1>c, <2>4 DEF Sent, Goto
    <3>3. n[c] \in Nat
      BY DEF TypeOK, PcOK
    <3>4. ASSUME NEW o, o = <<c, n[c]>>, kind[c] = "iq" PROVE Flushed(o)'
      BY <2>1, <3>2, <3>3, <3>4 DEF Flushed, After
    <3>5. ASSUME NEW i \in DOMAIN wire', IsReq(wire'[i]), NEW o, o = wire'[i].src
          PROVE  Flushed(o)'
      <4>1. CASE i \in DOMAIN wire
        BY <3>1, <3>5, <4>1, FlushedStays DEF Grows, ReqInv, WireReqs, IsReq
      <4>2. CASE i \notin DOMAIN wire
        <5>1. PICK j \in DOMAIN buf : wire'[i] = buf[j]
          BY <3>1, <3>5, <4>2 DEF Grows
        <5>2. kind[c] = "iq" /\ o = <<c, n[c]>>
          BY <2>2, <3>5, <5>1 DEF Op, IsReq
        <5> QED
          BY <3>4, <5>2
      <4> QED
        BY <4>1, <4>2
    <3>6. WireReqs'
      BY <3>5 DEF WireReqs, IsReq, Flushed
    <3> QED
      BY <1>h, <2>3, <3>6
  <2>5. CASE FlushErr(Op(c))
    <3>1. CASE StuckWrite(Op(c))
      BY <1>h, <2>3, <3>1, NoNewReq DEF StuckWrite
    <3>2. CASE FailWrite(Op(c))
      <4>1. PICK k \in 0 .. Len(buf) - 1 : wire' = wire \o SubSeq(buf, 1, k)
        BY <3>2 DEF FailWrite
      <4>2. SubSeq(buf, 1, k) \in Seq(Tokens) /\ Len(SubSeq(buf, 1, k)) = k
              /\ (\A i \in 1 .. k : SubSeq(buf, 1, k)[i] = buf[i])
              /\ (\A i \in 1 .. k : i \in DOMAIN buf /\ i # Len(buf))
        BY <1>a, <4>1 DEF EncOK
      <4>3. \A i \in 1 .. k : ~IsReq(SubSeq(buf, 1, k)[i])
        BY <2>2, <4>2 DEF IsReq
      <4>4. \A i \in DOMAIN wire' : \/ i \in DOMAIN wire /\ wire'[i] = wire[i]
                                    \/ \E j \in 1 .. k : wire'[i] = SubSeq(buf, 1, k)[j]
        BY <1>a, <4>1, <4>2 DEF EncOK
      <4>5. WireReqs'
        BY <4>3, <4>4, NoNewReq DEF IsReq
      <4> QED
        BY <1>h, <2>3, <4>5
    <3> QED
      BY <2>5, <3>1, <3>2 DEF FlushErr
  <2> QED
    BY <1>5, <2>4, <2>5 DEF Flush
<1>6. ASSUME NEW p \in Procs, CloseWrites(p) PROVE BufReqs' /\ WireReqs'
  <2>1. HoldsOut(p) /\ pc[p] # "flush"
    BY <1>6 DEF CloseWrites, closeSession, CloseWrite, HoldsOut
  <2>2. \A i \in DOMAIN buf : ~IsReq(buf[i])
    BY <1>f, <2>1
  <2> QED
    BY <1>6, <1>i, <1>k, <2>2 DEF CloseWrites, closeSession, CloseWrite, encVars
<1>7. ASSUME HandlerLock \/ DefaultLock PROVE BufReqs' /\ WireReqs'
  <2>1. out = None /\ UNCHANGED <<buf, wire>>
    BY <1>7 DEF HandlerLock, DefaultLock, OutFree, encVars
  <2>2. \A q \in Procs : pc[q] \notin Busy
    BY <2>1, BusyHolds, NoneAssumption DEF LockInv, Procs
  <2>3. \A i \in DOMAIN buf : ~IsReq(buf[i])
    BY <1>c, <2>2 DEF ReqInv, BufReqs, IsReq, Busy
  <2> QED
    BY <1>i, <2>1, <2>3
<1>8. ASSUME w, pc[Serve] # "flush" PROVE \A i \in DOMAIN buf : ~IsReq(buf[i])
  BY <1>8, <1>c, <1>f DEF HoldsOut
<1>9. ASSUME NEW b \in Handler, HandlerStart(b) PROVE BufReqs' /\ WireReqs'
  <2>1. w /\ pc[Serve] # "flush"
    BY <1>9 DEF HandlerStart, LockInv
  <2>2. WhatOf(b) \in {"reply", "raw"}
    BY DEF WhatOf
  <2> QED
    BY <1>9, <1>e, <1>i, <1>j, <1>8, <2>1, <2>2 DEF HandlerStart, encVars
<1>10. ASSUME HandlerEnd \/ HandlerTear PROVE BufReqs' /\ WireReqs'
  <2>1. w /\ pc[Serve] # "flush"
    BY <1>10 DEF HandlerEnd, HandlerTear, LockInv
  <2> QED
    BY <1>10, <1>e, <1>i, <1>j, <1>8, <2>1 DEF HandlerEnd, HandlerTear
<1>11. ASSUME DefaultWrite PROVE BufReqs' /\ WireReqs'
  <2>1. w /\ pc[Serve] # "flush"
    BY <1>11 DEF DefaultWrite
  <2> QED
    BY <1>11, <1>e, <1>i, <1>j, <1>8, <2>1 DEF DefaultWrite, encVars
<1>12. ASSUME HandlerFlush \/ Cleanup PROVE BufReqs' /\ WireReqs'
  <2>1. pc[Serve] # "flush" /\ \A c \in Callers : pc'[c] = pc[c]
    BY <1>12, <1>c DEF HandlerFlush, Cleanup, Goto
  <2>2. CASE UNCHANGED encVars
    <3>1. n' = n /\ kind' = kind
      BY <1>12 DEF HandlerFlush, Cleanup
    <3>2. BufReqs'
      BY <2>1, <2>2, <3>1 DEF ReqInv, BufReqs, IsReq, Op, encVars
    <3> QED
      BY <2>2, <3>2, NoNewReq DEF encVars
  <2>3. CASE w /\ (FlushOk \/ FlushErr(ServeSrc))
    BY <1>a, <1>g, <1>h, <1>8, <2>1, <2>3, FlushFlow
  <2> QED
    BY <1>12, <2>2, <2>3 DEF HandlerFlush, Cleanup
<1>13. ASSUME sendError PROVE BufReqs' /\ WireReqs'
  <2>1. HoldsOut(Serve) /\ pc[Serve] # "flush"
    BY <1>13 DEF sendError, HoldsOut
  <2>2. \A i \in DOMAIN buf : ~IsReq(buf[i])
    BY <1>c, <1>f, <2>1
  <2> QED
    BY <1>13, <1>e, <1>i, <1>j, <2>2 DEF sendError, encVars
<1>14. ASSUME ErrorClose PROVE BufReqs' /\ WireReqs'
  <2>1. HoldsOut(Serve) /\ pc[Serve] # "flush"
    BY <1>14 DEF ErrorClose, HoldsOut
  <2>2. \A i \in DOMAIN buf : ~IsReq(buf[i])
    BY <1>c, <1>f, <2>1
  <2> QED
    BY <1>14, <1>k, <2>2 DEF ErrorClose
<1> QED
  BY <1>1, <1>2, <1>3, <1>4, <1>5, <1>6, <1>7, <1>9, <1>10, <1>11,
     <1>12, <1>13, <1>14, QuietStep DEF CallerWrites, ServeWrites

\* Serve starts to offer a response only to a call that is waiting
\* or has given up because its context is done, and the call leaves the
\* wait only with the response or when its context is done.
LEMMA OfferStep ==
  TypeOK /\ RespInv /\ ReqInv /\ OfferTaken /\ [Next]_vars => OfferTaken'
<1> SUFFICES ASSUME TypeOK, RespInv, ReqInv, OfferTaken, [Next]_vars,
                    pc'[Serve] = "offer", NEW o, o = (elem.op)'
             PROVE  \/ o \in ctxDone'
                    \/ \E c \in Callers : o = Op(c)' /\ pc'[c] = "wait"
  BY DEF OfferTaken
<1>1. CASE ServeRead
  <2>1. nread + 1 \in DOMAIN inq /\ inq' = inq /\ cur' = nread + 1 /\ Tracked(inq[nread + 1])
          /\ UNCHANGED <<ctxDone, n>> /\ pc[Serve] = "rtoken"
          /\ \A c \in Callers : pc'[c] = pc[c]
    BY <1>1, ProcAssumption DEF ServeRead, Failed, Goto, TypeOK, PcOK, InOK, Procs,
         nread, respVars
  <2>2. o = inq[nread + 1].op /\ o \in sent /\ Flushed(o)
    BY <2>1 DEF elem, Tracked, ReqInv, PeerReqs
  <2>3. PICK c \in Callers : o = Op(c) /\ pc[c] \in {"lock", "start", "end", "flush",
                                                       "wait", "del", "rdel"}
    BY <2>2 DEF RespInv, NoStaleEntry
  <2>4. pc[c] \in After /\ (pc[c] = "del" => o \in ctxDone)
    BY <2>2, <2>3 DEF Flushed, Op
  <2>5. pc[c] # "rdel"
    BY <2>1 DEF RespInv, SerialResponse
  <2> QED
    BY <2>1, <2>3, <2>4, <2>5 DEF After, Op
<1>2. CASE ~ServeRead
  <2>1. pc[Serve] = "offer" /\ cur' = cur /\ cur \in DOMAIN inq /\ inq'[cur] = inq[cur]
    <3>1. pc[Serve] = "offer" => cur > 0
      BY DEF RespInv, InLockInv
    <3> USE ProcAssumption DEF TypeOK, PcOK, InOK, Goto, Procs, Labels, inVars
    <3>2. ASSUME NEW c \in Callers, CallerStep(c)
          PROVE  pc'[Serve] = pc[Serve] /\ UNCHANGED <<cur, inq>>
      BY <3>2 DEF CallerStep, Register, LockOut, NoStart, EncodeRefused, EncodeStart,
           PayloadErr, EncodeEnd, Flush, GiveUp, Delete, CloseResp, CloseLock,
           closeSession, CloseWrite, SwapCtx, CancelCtx, SetReadDeadline, ReadLock,
           ReadState, Read, Sent
    <3>3. ASSUME ServeStep PROVE pc'[Serve] = pc[Serve] /\ UNCHANGED <<cur, inq>>
      <4>1. CASE ServePoll \/ ServeCtx \/ ReadLock(Serve) \/ ReadState(Serve)
        BY <4>1 DEF ServePoll, ServeCtx, ReadLock, ReadState
      <4>2. CASE ServeReadFails \/ Discard \/ RespClosed
        BY <4>2 DEF ServeReadFails, Discard, RespClosed, Drop, Failed
      <4>3. CASE HandlerRead \/ HandlerLock \/ HandlerMore \/ \E b \in Handler : HandlerStart(b)
        BY <4>3 DEF HandlerRead, HandlerLock, HandlerMore, HandlerStart
      <4>4. CASE HandlerEnd \/ HandlerTear \/ HandlerReturn \/ NoDefault
        BY <4>4 DEF HandlerEnd, HandlerTear, HandlerReturn, NoDefault
      <4>5. CASE DefaultLock \/ DefaultWrite \/ HandlerFlush \/ SkipFails \/ Skip \/ Cleanup
        BY <4>5 DEF DefaultLock, DefaultWrite, HandlerFlush, SkipFails, Skip, Cleanup
      <4>6. CASE ErrorLock \/ sendError \/ ErrorClose \/ closeInputStream
        BY <4>6 DEF ErrorLock, sendError, ErrorClose, closeInputStream
      <4>7. CASE CloseLock(Serve) \/ closeSession(Serve) \/ CloseWrite(Serve)
        BY <4>7 DEF CloseLock, closeSession, CloseWrite, AfterClose
      <4> QED
        BY <1>2, <3>3, <4>1, <4>2, <4>3, <4>4, <4>5, <4>6, <4>7 DEF ServeStep
    <3>4. ASSUME NEW c \in Callers, Deliver(c) PROVE FALSE
      BY <3>4 DEF Deliver
    <3>5. ASSUME \/ \E c \in Callers : Cancel(c)
                 \/ \E c \in Callers, k \in Ops : Call(c, k)
                 \/ \E g \in 1 .. gen : Expire(g)
                 \/ UNCHANGED vars
          PROVE  pc'[Serve] = pc[Serve] /\ UNCHANGED <<cur, inq>>
      BY <3>5 DEF Cancel, Call, Expire, vars
    <3>6. ASSUME NEW k \in Inputs, PeerSend(k)
          PROVE  /\ pc'[Serve] = pc[Serve] /\ cur' = cur
                 /\ \A i \in DOMAIN inq : inq'[i] = inq[i]
      BY <3>6 DEF PeerSend
    <3>7. pc'[Serve] = pc[Serve] /\ cur' = cur /\ \A i \in DOMAIN inq : inq'[i] = inq[i]
      BY <3>2, <3>3, <3>4, <3>5, <3>6 DEF Next
    <3> QED
      BY <3>1, <3>7
  <2>2. o = elem.op
    BY <2>1 DEF elem
  <2>4. ASSUME NEW c \in Callers, o = Op(c), pc[c] = "wait"
        PROVE  o \in ctxDone \/ (o = Op(c)' /\ pc'[c] = "wait")
    <3> USE ProcAssumption DEF TypeOK, PcOK, Goto, Procs, Op
    <3>1. ASSUME NEW d \in Callers, CallerStep(d)
          PROVE  n' = n /\ (pc'[c] = pc[c] \/ Op(c) \in ctxDone)
      BY <2>4, <3>1 DEF CallerStep, Register, LockOut, NoStart, EncodeRefused,
           EncodeStart, PayloadErr, EncodeEnd, Flush, GiveUp, Delete, CloseResp,
           CloseLock, closeSession, CloseWrite, SwapCtx, CancelCtx,
           SetReadDeadline, ReadLock, ReadState, Read, Sent, CtxEnded
    <3>2. ASSUME ServeStep PROVE n' = n /\ pc'[c] = pc[c]
      <4>1. CASE ServePoll \/ ServeCtx \/ ReadLock(Serve) \/ ReadState(Serve)
        BY <4>1 DEF ServePoll, ServeCtx, ReadLock, ReadState
      <4>2. CASE ServeRead \/ ServeReadFails \/ Discard \/ RespClosed
        BY <4>2 DEF ServeRead, ServeReadFails, Discard, RespClosed, Drop, Failed
      <4>3. CASE HandlerRead \/ HandlerLock \/ HandlerMore \/ \E b \in Handler : HandlerStart(b)
        BY <4>3 DEF HandlerRead, HandlerLock, HandlerMore, HandlerStart
      <4>4. CASE HandlerEnd \/ HandlerTear \/ HandlerReturn \/ NoDefault
        BY <4>4 DEF HandlerEnd, HandlerTear, HandlerReturn, NoDefault
      <4>5. CASE DefaultLock \/ DefaultWrite \/ HandlerFlush \/ SkipFails \/ Skip \/ Cleanup
        BY <4>5 DEF DefaultLock, DefaultWrite, HandlerFlush, SkipFails, Skip, Cleanup
      <4>6. CASE ErrorLock \/ sendError \/ ErrorClose \/ closeInputStream
        BY <4>6 DEF ErrorLock, sendError, ErrorClose, closeInputStream
      <4>7. CASE CloseLock(Serve) \/ closeSession(Serve) \/ CloseWrite(Serve)
        BY <4>7 DEF CloseLock, closeSession, CloseWrite
      <4> QED
        BY <3>2, <4>1, <4>2, <4>3, <4>4, <4>5, <4>6, <4>7 DEF ServeStep
    <3>3. ASSUME NEW d \in Callers, Deliver(d) PROVE FALSE
      BY <3>3 DEF Deliver
    <3>4. ASSUME \/ \E d \in Callers : Cancel(d)
                 \/ \E g \in 1 .. gen : Expire(g)
                 \/ \E k \in Inputs : PeerSend(k)
                 \/ UNCHANGED vars
          PROVE  n' = n /\ pc' = pc
      BY <3>4 DEF Cancel, Expire, PeerSend, vars
    <3>5. ASSUME NEW d \in Callers, NEW k \in Ops, Call(d, k)
          PROVE  n'[c] = n[c] /\ pc'[c] = pc[c]
      BY <2>4, <3>5 DEF Call
    <3> QED
      BY <2>4, <3>1, <3>2, <3>3, <3>4, <3>5 DEF Next
  <2>5. Callers # {} => ctxDone \subseteq ctxDone'
    BY PlaceStep
  <2>6. o \in ctxDone => Callers # {}
    BY DEF TypeOK, RespOK, OpIds
  <2> QED
    BY <2>1, <2>2, <2>4, <2>5, <2>6 DEF OfferTaken
<1> QED
  BY <1>1, <1>2

\* Serve is never left with a response nobody will take: while it
\* offers one, the call that made the request waits for it or its context
\* is done.
THEOREM OffersTaken == Spec => []OfferTaken
<1>1. Init => ReqInv /\ OfferTaken
  <2>1. Init => pc[Serve] # "offer"
    BY DEF Init, Procs
  <2> QED
    BY <2>1 DEF Init, ReqInv, BufReqs, WireReqs, PeerReqs, OfferTaken
<1>2. TypeOK /\ LockInv /\ RawInv /\ ReqInv /\ [Next]_vars => ReqInv'
  BY OutReqStep, PeerStep DEF ReqInv
<1>3. TypeOK /\ LockInv /\ CloseInv /\ [Next]_vars => CloseInv'
  BY CloseStep
<1>4. TypeOK /\ TypeOK' /\ LockInv /\ CloseInv /\ RawInv /\ [Next]_vars => RawInv'
  BY RawStep
<1>5. TypeOK /\ RespInv /\ ReqInv /\ OfferTaken /\ [Next]_vars => OfferTaken'
  BY OfferStep
<1> QED
  BY <1>1, <1>2, <1>3, <1>4, <1>5, InitInv, WireInit, TypeCorrect,
     LocksExclusive, ResponsesOwned, PTL DEF Spec

----------------------------------------------------------------------------
(* Answers.                                                                *)

\* What a step of the encoder that adds no answer does to the answers: the
\* ones on the wire stay, those in the buffer may follow them.
Moves(k) ==
    /\ OnWire(k) => OnWire(k)'
    /\ OnWire(k)' => OnWire(k) \/ InBuf(k)
    /\ InBuf(k)' => InBuf(k)
    /\ NoDef(k) => NoDef(k)'

\* Writing a prefix of the buffer and dropping the rest puts no other
\* answer beside a default one.
LEMMA PrefixOnce ==
  ASSUME EncOK, Once, NEW m \in 0 .. Len(buf), wire' = wire \o SubSeq(buf, 1, m)
  PROVE  \A k \in Nat :
           /\ SoleIn(wire', k)
           /\ OnWire(k) => OnWire(k)'
           /\ OnWire(k)' => OnWire(k) \/ InBuf(k)
           /\ m = Len(buf) /\ InBuf(k) => OnWire(k)'
           /\ NoDef(k) => \A i \in DOMAIN wire' : ~DefAns(wire'[i], k)
<1>1. SubSeq(buf, 1, m) \in Seq(Tokens) /\ Len(SubSeq(buf, 1, m)) = m
        /\ \A i \in 1 .. m : SubSeq(buf, 1, m)[i] = buf[i]
  BY DEF EncOK
<1>2. \A i \in DOMAIN wire : i \in DOMAIN wire' /\ wire'[i] = wire[i]
  BY <1>1 DEF EncOK
<1>3. \A i \in DOMAIN wire' : i \notin DOMAIN wire =>
        i - Len(wire) \in DOMAIN buf /\ wire'[i] = buf[i - Len(wire)]
  BY <1>1 DEF EncOK
<1>4. \A i \in 1 .. m : Len(wire) + i \in DOMAIN wire' /\ wire'[Len(wire) + i] = buf[i]
  BY <1>1 DEF EncOK
<1>5. ASSUME NEW k \in Nat, NEW i \in DOMAIN wire', NEW j \in DOMAIN wire',
             DefAns(wire'[i], k), Ans(wire'[j], k)
      PROVE  i = j
  <2>1. i \in Int /\ j \in Int /\ Len(wire) \in Int
    BY <1>1 DEF EncOK
  <2>2. CASE i \in DOMAIN wire /\ j \in DOMAIN wire
    BY <1>2, <1>5, <2>2 DEF Once, SoleIn
  <2>3. CASE i \in DOMAIN wire /\ j \notin DOMAIN wire
    <3>1. OnWire(k) /\ InBuf(k) /\ ~NoDef(k)
      BY <1>2, <1>3, <1>5, <2>3 DEF OnWire, InBuf, NoDef, DefAns
    <3> QED
      BY <3>1 DEF Once
  <2>4. CASE i \notin DOMAIN wire /\ j \in DOMAIN wire
    <3>1. OnWire(k) /\ InBuf(k) /\ ~NoDef(k)
      BY <1>2, <1>3, <1>5, <2>4 DEF OnWire, InBuf, NoDef, DefAns
    <3> QED
      BY <3>1 DEF Once
  <2>5. CASE i \notin DOMAIN wire /\ j \notin DOMAIN wire
    <3>1. i - Len(wire) = j - Len(wire)
      BY <1>3, <1>5, <2>5 DEF Once, SoleIn
    <3> QED
      BY <2>1, <3>1
  <2> QED
    BY <2>2, <2>3, <2>4, <2>5
<1>7. ASSUME NEW k \in Nat, NoDef(k), NEW i \in DOMAIN wire' PROVE ~DefAns(wire'[i], k)
  BY <1>2, <1>3, <1>7 DEF NoDef
<1>6. ASSUME NEW k \in Nat
      PROVE  /\ OnWire(k) => OnWire(k)'
             /\ OnWire(k)' => OnWire(k) \/ InBuf(k)
             /\ m = Len(buf) /\ InBuf(k) => OnWire(k)'
  <2>1. OnWire(k) => \E i \in DOMAIN wire' : Ans(wire'[i], k)
    BY <1>2 DEF OnWire
  <2>2. (\E i \in DOMAIN wire' : Ans(wire'[i], k)) => OnWire(k) \/ InBuf(k)
    BY <1>2, <1>3 DEF OnWire, InBuf
  <2>3. m = Len(buf) /\ InBuf(k) => \E i \in DOMAIN wire' : Ans(wire'[i], k)
    BY <1>4 DEF InBuf, EncOK
  <2> QED
    BY <2>1, <2>2, <2>3 DEF OnWire, Ans
<1> QED
  BY <1>5, <1>6, <1>7 DEF SoleIn

\* A flush moves the answers to the wire; a write that fails moves
\* some of them and empties the buffer.
LEMMA DrainOnce ==
  ASSUME EncOK, Once, encErr => buf = <<>>, NEW s,
         FlushOk \/ FailWrite(s) \/ StuckWrite(s)
  PROVE  /\ Once'
         /\ \A k \in Nat : Moves(k) /\ ~InBuf(k)' /\ (FlushOk /\ InBuf(k) => OnWire(k)')
<1>1. PICK m \in 0 .. Len(buf) : wire' = wire \o SubSeq(buf, 1, m)
                                   /\ (FlushOk => m = Len(buf))
  <2>1. CASE FlushOk
    BY <2>1 DEF FlushOk, EncOK
  <2>2. CASE FailWrite(s)
    <3>1. PICK m \in 0 .. Len(buf) - 1 : wire' = wire \o SubSeq(buf, 1, m)
      BY <2>2 DEF FailWrite
    <3>2. m \in 0 .. Len(buf)
      BY <3>1 DEF EncOK
    <3>3. ~FlushOk
      BY <2>2, Zenon DEF FailWrite, FlushOk
    <3> QED
      BY <3>1, <3>2, <3>3
  <2>3. CASE StuckWrite(s)
    <3>1. wire' = wire \o SubSeq(buf, 1, 0) /\ 0 \in 0 .. Len(buf) /\ ~FlushOk
      BY <2>3 DEF StuckWrite, FlushOk, EncOK
    <3> QED
      BY <3>1
  <2> QED
    BY <2>1, <2>2, <2>3
<1>2. buf' = <<>>
  BY DEF FlushOk, FailWrite, StuckWrite
<1>3. \A k \in Nat : ~InBuf(k)'
  BY <1>2 DEF InBuf
<1>4. \A k \in Nat :
         /\ SoleIn(wire', k)
         /\ OnWire(k) => OnWire(k)'
         /\ OnWire(k)' => OnWire(k) \/ InBuf(k)
         /\ FlushOk /\ InBuf(k) => OnWire(k)'
         /\ NoDef(k) => \A i \in DOMAIN wire' : ~DefAns(wire'[i], k)
  BY <1>1, PrefixOnce
<1>5. Once'
  BY <1>2, <1>3, <1>4 DEF Once, SoleIn, DefAns, Ans
<1>6. ASSUME NEW k \in Nat, NoDef(k) PROVE NoDef(k)'
  <2>1. DOMAIN buf' = {} /\ \A i \in DOMAIN wire' : ~DefAns(wire'[i], k)
    BY <1>2, <1>4, <1>6
  <2> QED
    BY <2>1 DEF NoDef, DefAns, Ans
<1> QED
  BY <1>3, <1>4, <1>5, <1>6 DEF Moves

\* A token that is encoded is the only new one.
LEMMA EmitOnce ==
  ASSUME EncOK, Once, NEW t \in Tokens, EmitOk(t),
         \A k \in Nat : Ans(t, k) => NoAnswer(k) \/ (~DefAns(t, k) /\ NoDef(k))
  PROVE  /\ Once'
         /\ \A k \in Nat : /\ NoDef(k) /\ ~DefAns(t, k) => NoDef(k)'
                           /\ OnWire(k) => OnWire(k)'
                           /\ OnWire(k)' => OnWire(k) \/ InBuf(k)
                           /\ InBuf(k)' => InBuf(k) \/ Ans(t, k)
                           /\ Ans(t, k) => InBuf(k)'
                           /\ InBuf(k) => OnWire(k)' \/ InBuf(k)'
<1>1. CASE Len(buf) < BufCap
  <2>1. buf' = Append(buf, t) /\ wire' = wire
    BY <1>1 DEF EmitOk
  <2>2. DOMAIN buf' = DOMAIN buf \cup {Len(buf) + 1} /\ buf'[Len(buf) + 1] = t
          /\ \A i \in DOMAIN buf : buf'[i] = buf[i]
    BY <2>1 DEF EncOK
  <2>3. ASSUME NEW k \in Nat
        PROVE  /\ (\E i \in DOMAIN buf' : Ans(buf'[i], k)) <=> InBuf(k) \/ Ans(t, k)
               /\ SoleIn(buf', k)
    <3>1. (\E i \in DOMAIN buf' : Ans(buf'[i], k)) <=> InBuf(k) \/ Ans(t, k)
      BY <2>2 DEF InBuf
    <3>2. CASE ~Ans(t, k)
      <4>1. \A i \in DOMAIN buf' : Ans(buf'[i], k) => i \in DOMAIN buf /\ Ans(buf[i], k)
                                                      /\ buf'[i] = buf[i]
        BY <2>2, <3>2
      <4>2. SoleIn(buf, k)
        BY DEF Once
      <4> QED
        BY <3>1, <4>1, <4>2 DEF SoleIn, DefAns
    <3>3. CASE Ans(t, k) /\ NoAnswer(k)
      BY <2>2, <3>3 DEF SoleIn, DefAns, InBuf, NoAnswer
    <3>4. CASE ~DefAns(t, k) /\ NoDef(k)
      <4>1. \A i \in DOMAIN buf' : ~DefAns(buf'[i], k)
        BY <2>2, <3>4 DEF NoDef
      <4> QED
        BY <3>1, <4>1 DEF SoleIn
    <3> QED
      BY <3>1, <3>2, <3>3, <3>4
  <2>6. \A k \in Nat : NoDef(k) /\ ~DefAns(t, k) => NoDef(k)'
    BY <2>1, <2>2 DEF NoDef, DefAns, Ans
  <2>4. \A k \in Nat : (OnWire(k)' <=> OnWire(k)) /\ (InBuf(k)' <=> InBuf(k) \/ Ans(t, k))
    BY <2>1, <2>3 DEF OnWire, InBuf, Ans
  <2>5. Once'
    <3>1. ASSUME NEW k \in Nat PROVE SoleIn(wire, k)' /\ SoleIn(buf, k)'
      <4>1. SoleIn(wire, k)'
        BY <2>1 DEF Once, SoleIn, DefAns, Ans
      <4>2. SoleIn(buf', k)
        BY <2>3
      <4>3. SoleIn(buf, k)'
        BY <4>2 DEF SoleIn, DefAns, Ans
      <4> QED
        BY <4>1, <4>3
    <3>2. ASSUME NEW k \in Nat, OnWire(k)', InBuf(k)' PROVE NoDef(k)'
      BY <2>4, <2>6, <3>2 DEF Once, NoAnswer, DefAns
    <3> QED
      BY <3>1, <3>2 DEF Once
  <2> QED
    BY <2>4, <2>5, <2>6
<1>2. CASE ~(Len(buf) < BufCap)
  <2>1. buf' = <<t>> /\ wire' = wire \o SubSeq(buf, 1, Len(buf)) /\ Len(buf) \in 0 .. Len(buf)
    BY <1>2 DEF EmitOk, EncOK
  <2>2. DOMAIN buf' = {1} /\ buf'[1] = t
    BY <2>1
  <2>3. ASSUME NEW k \in Nat
        PROVE  /\ (\E i \in DOMAIN buf' : Ans(buf'[i], k)) <=> Ans(t, k)
               /\ SoleIn(buf', k)
    BY <2>2 DEF SoleIn
  <2>4. \A k \in Nat : InBuf(k)' <=> Ans(t, k)
    BY <2>3 DEF InBuf, Ans
  <2>5. \A k \in Nat :
           /\ SoleIn(wire', k)
           /\ OnWire(k) => OnWire(k)'
           /\ OnWire(k)' => OnWire(k) \/ InBuf(k)
           /\ InBuf(k) => OnWire(k)'
           /\ NoDef(k) => \A i \in DOMAIN wire' : ~DefAns(wire'[i], k)
    BY <2>1, PrefixOnce
  <2>7. \A k \in Nat : NoDef(k) /\ ~DefAns(t, k) => NoDef(k)'
    BY <2>2, <2>5 DEF NoDef, DefAns, Ans
  <2>6. Once'
    <3>1. \A k \in Nat : SoleIn(wire, k)' /\ SoleIn(buf, k)'
      BY <2>3, <2>5 DEF SoleIn, DefAns, Ans
    <3>2. ASSUME NEW k \in Nat, OnWire(k)', InBuf(k)' PROVE NoDef(k)'
      BY <2>4, <2>5, <2>7, <3>2 DEF NoAnswer
    <3> QED
      BY <3>1, <3>2 DEF Once
  <2> QED
    BY <2>4, <2>5, <2>6, <2>7
<1> QED
  BY <1>1, <1>2

\* The stream end tag is no answer.
LEMMA CloseOnce ==
  ASSUME EncOK, Once, NEW p, NEW kept, WriteClose(p, kept)
  PROVE  Once' /\ \A k \in Nat : /\ (OnWire(k)' <=> OnWire(k)) /\ (InBuf(k)' <=> InBuf(k))
                                 /\ NoDef(k) => NoDef(k)'
<1>1. buf' = buf
  BY DEF WriteClose
<1>2. /\ \A i \in DOMAIN wire : i \in DOMAIN wire' /\ wire'[i] = wire[i]
      /\ \A i \in DOMAIN wire' : i \in DOMAIN wire \/ wire'[i] = CloseTag(p)
  BY DEF WriteClose, EncOK
<1>3. \A k \in Nat : ~Ans(CloseTag(p), k)
  BY DEF Ans, CloseTag, Token
<1>4. \A k \in Nat :
         /\ (\E i \in DOMAIN wire' : Ans(wire'[i], k)) <=> OnWire(k)
         /\ SoleIn(wire', k)
         /\ NoDef(k) => \A i \in DOMAIN wire' : ~DefAns(wire'[i], k)
  BY <1>2, <1>3 DEF OnWire, Once, SoleIn, NoDef, DefAns
<1>5. \A k \in Nat : (OnWire(k)' <=> OnWire(k)) /\ (InBuf(k)' <=> InBuf(k))
  BY <1>1, <1>4 DEF OnWire, InBuf, Ans
<1>6. \A k \in Nat : NoDef(k) => NoDef(k)'
  BY <1>1, <1>4 DEF NoDef, DefAns, Ans
<1>7. \A k \in Nat : SoleIn(wire, k)' /\ SoleIn(buf, k)'
  BY <1>1, <1>4 DEF Once, SoleIn, DefAns, Ans
<1> QED
  BY <1>5, <1>6, <1>7 DEF Once

\* A step that moves no answer, and one that changes no input Serve has read.
SameAnswers ==
    Once' /\ \A k \in Nat : /\ (OnWire(k)' <=> OnWire(k)) /\ (InBuf(k)' <=> InBuf(k))
                            /\ NoDef(k) => NoDef(k)'
SameInput ==
    /\ cur' = cur
    /\ \A i \in DOMAIN inq : inq'[i] = inq[i]
    /\ \A i \in DOMAIN readers : i \in DOMAIN readers' /\ readers'[i] = readers[i]
    /\ \A i \in DOMAIN readers' : i \notin DOMAIN readers => readers'[i] # Serve

\* Answers that stay on the wire stay the answers to what Serve has
\* read.
LEMMA KeptParts ==
  ASSUME TypeOK, TypeOK', AnswerInv, SameInput, NEW m, m = cur,
         \A k \in Nat : /\ OnWire(k) => OnWire(k)'
                        /\ OnWire(k)' => OnWire(k) \/ InBuf(k)
                        /\ InBuf(k)' => k = cur /\ w'
  PROVE  Placed' /\ PastInv' /\ (IsGet(m)' <=> IsGet(m))
<1>1. Placed'
  <2>1. cur \in Nat /\ cur' = cur
    BY DEF TypeOK, InOK, SameInput
  <2>2. \A k \in Nat : OnWire(k)' => k <= cur
    BY <2>1 DEF AnswerInv, Placed
  <2> QED
    BY <2>1, <2>2 DEF Placed
<1>2. \A k \in DOMAIN readers : IsGet(k)' <=> IsGet(k)
  BY SMTT(30) DEF IsGet, SameInput, TypeOK, InOK
<1>3. m = 0 \/ m \in DOMAIN readers
  BY DEF TypeOK, InOK
<1>4. IsGet(m)' <=> IsGet(m)
  BY <1>2, <1>3 DEF IsGet
<1>5. ASSUME NEW k \in 1 .. cur - 1, readers'[k] = Serve, IsGet(k)' PROVE OnWire(k)'
  <2>1. k \in DOMAIN readers /\ k \in Nat
    BY DEF TypeOK, InOK
  <2> QED
    BY <1>2, <1>5, <2>1 DEF AnswerInv, PastInv, SameInput
<1>6. ASSUME NEW k \in cur' + 1 .. Len(readers') PROVE readers'[k] # Serve
  <2>1. cur' = cur /\ k \in DOMAIN readers' /\ (k \in DOMAIN readers => k \in cur + 1 .. Len(readers))
    BY DEF SameInput, TypeOK, InOK
  <2> QED
    BY <2>1 DEF AnswerInv, PastInv, SameInput
<1>7. PastInv'
  BY <1>5, <1>6 DEF PastInv, SameInput
<1> QED
  BY <1>1, <1>4, <1>7

\* Steps that move no answer.
LEMMA SameParts ==
  ASSUME TypeOK, TypeOK', AnswerInv, SameAnswers, SameInput, w => w', NEW m, m = cur
  PROVE  Once' /\ Placed' /\ PastInv' /\ (IsGet(m)' <=> IsGet(m))
<1>1. \A k \in Nat : InBuf(k) => k = cur /\ w
  BY DEF AnswerInv, Placed
<1> QED
  BY <1>1, KeptParts DEF SameAnswers

\* A goroutine other than Serve writes no answer, and while it has
\* the output lock there is none in the buffer.
LEMMA OthersSame ==
  ASSUME TypeOK, LockInv, RawInv, AnswerInv, NEW c \in Callers, CallerStep(c)
  PROVE  SameAnswers
<1>a. EncOK /\ (encErr => buf = <<>>) /\ Once
  BY DEF TypeOK, RawInv, WriterOK, AnswerInv
<1>b. Serve \in Procs /\ c \in Procs /\ c # Serve
  BY ProcAssumption DEF Procs
<1>c. ASSUME HoldsOut(c) PROVE \A k \in Nat : ~InBuf(k)
  <2>1. ~w
    BY <1>b, <1>c, Alone DEF HoldsOut
  <2> QED
    BY <2>1 DEF AnswerInv, Placed
<1>d. ASSUME UNCHANGED <<buf, wire>> PROVE SameAnswers
  <2>1. \A k \in Nat : (OnWire(k)' <=> OnWire(k)) /\ (InBuf(k)' <=> InBuf(k))
    BY <1>d DEF OnWire, InBuf, Ans
  <2>2. \A k \in Nat : (NoDef(k)' <=> NoDef(k)) /\ (SoleIn(wire, k)' <=> SoleIn(wire, k))
                         /\ (SoleIn(buf, k)' <=> SoleIn(buf, k))
    BY <1>d DEF NoDef, SoleIn, DefAns, Ans
  <2> QED
    BY <1>a, <2>1, <2>2 DEF SameAnswers, Once
<1>e. ASSUME NEW part \in {"start", "end"}, HoldsOut(c), EmitOk(Written(c, part))
      PROVE  SameAnswers
  <2>1. \A k \in Nat : ~Ans(Written(c, part), k)
    BY <1>b DEF Ans, Written, Token, Op
  <2>2. Written(c, part) \in Tokens
    BY DEF TypeOK, PcOK, Written, What, Token, Tokens, Whats, Op, Procs
  <2>3. \A k \in Nat : ~DefAns(Written(c, part), k)
    BY <2>1 DEF DefAns
  <2> QED
    BY <1>a, <1>c, <1>e, <2>1, <2>2, <2>3, EmitOnce DEF SameAnswers
<1>f. ASSUME NEW s, HoldsOut(c), FlushOk \/ FailWrite(s) \/ StuckWrite(s)
      PROVE  SameAnswers
  BY <1>a, <1>c, <1>f, DrainOnce DEF SameAnswers, Moves
<1>1. CASE EncodeStart(c)
  BY <1>1, <1>e, <1>f DEF EncodeStart, EmitErr, HoldsOut
<1>2. CASE EncodeEnd(c)
  BY <1>2, <1>e, <1>f DEF EncodeEnd, EmitErr, HoldsOut
<1>3. CASE Flush(c)
  BY <1>3, <1>f DEF Flush, FlushErr, HoldsOut
<1>4. CASE CloseWrite(c)
  BY <1>4, <1>a, CloseOnce DEF CloseWrite, SameAnswers
<1>5. CASE ~(EncodeStart(c) \/ EncodeEnd(c) \/ Flush(c) \/ CloseWrite(c))
  <2>1. UNCHANGED <<buf, wire>>
    BY <1>5 DEF CallerStep, Register, LockOut, NoStart, EncodeRefused,
         PayloadErr, GiveUp, Delete, CloseResp, CloseLock, closeSession,
         SwapCtx, CancelCtx, SetReadDeadline, ReadLock, ReadState, Read, encVars
  <2> QED
    BY <1>d, <2>1
<1> QED
  BY <1>1, <1>2, <1>3, <1>4, <1>5

\* A step of another goroutine, or of the peer, leaves Serve where it
\* is with what it has.
LEMMA OthersFrame ==
  ASSUME TypeOK, NEW c \in Callers, CallerStep(c)
  PROVE  /\ SameInput /\ pc'[Serve] = pc[Serve] /\ UNCHANGED <<w, wroteResp, serr>>
         /\ outClosed => outClosed'
<1> USE ProcAssumption DEF TypeOK, PcOK, InOK, Goto, Procs, inVars, handVars, flagVars,
     SameInput
<1>1. CASE Register(c) \/ LockOut(c)
  BY <1>1 DEF Register, LockOut
<1>2. CASE NoStart(c) \/ EncodeRefused(c)
  BY <1>2 DEF NoStart, EncodeRefused, Sent
<1>3. CASE EncodeStart(c) \/ PayloadErr(c)
  BY <1>3 DEF EncodeStart, PayloadErr, Sent
<1>4. CASE EncodeEnd(c) \/ Flush(c)
  BY <1>4 DEF EncodeEnd, Flush, Sent
<1>5. CASE GiveUp(c) \/ Delete(c) \/ CloseResp(c)
  BY <1>5 DEF GiveUp, Delete, CloseResp
<1>6. CASE CloseLock(c) \/ closeSession(c)
  BY <1>6 DEF CloseLock, closeSession, AfterClose
<1>7. CASE CloseWrite(c)
  BY <1>7 DEF CloseWrite, AfterClose, WriteClose
<1>8. CASE SwapCtx(c) \/ CancelCtx(c) \/ SetReadDeadline(c)
  BY <1>8 DEF SwapCtx, CancelCtx, SetReadDeadline
<1>9. CASE ReadLock(c) \/ ReadState(c)
  BY <1>9 DEF ReadLock, ReadState
<1>10. CASE Read(c)
  <2>1. readers' = readers \/ readers' = Append(readers, c)
    BY <1>10 DEF Read
  <2>2. /\ \A i \in DOMAIN readers : i \in DOMAIN readers' /\ readers'[i] = readers[i]
        /\ \A i \in DOMAIN readers' : i \notin DOMAIN readers => readers'[i] # Serve
    <3>1. CASE readers' = readers
      BY <3>1
    <3>2. CASE readers' = Append(readers, c)
      <4>1. DOMAIN readers' = DOMAIN readers \cup {Len(readers) + 1}
              /\ readers'[Len(readers) + 1] = c
              /\ \A i \in DOMAIN readers : readers'[i] = readers[i]
        BY <3>2
      <4> QED
        BY <4>1
    <3> QED
      BY <2>1, <3>1, <3>2
  <2> QED
    BY <1>10, <2>2 DEF Read
<1> QED
  BY <1>1, <1>2, <1>3, <1>4, <1>5, <1>6, <1>7, <1>8, <1>9, <1>10 DEF CallerStep

\* Nobody has read past the input Serve has just read.
LEMMA NoneLater ==
  ASSUME TypeOK, readers' = Append(readers, Serve), cur' = Len(readers) + 1
  PROVE  \A k \in cur' + 1 .. Len(readers') : readers'[k] # Serve
<1>1. Len(readers') = Len(readers) + 1 /\ Len(readers) \in Nat
  BY DEF TypeOK, InOK
<1> QED
  BY <1>1

\* The current input gets its answer in steps: none before the
\* handler or the default answer writes one, no default beside another, and
\* Serve passes the flush only with it on the wire.
LEMMA AnswerStep ==
  TypeOK /\ TypeOK' /\ LockInv /\ RawInv /\ AnswerInv /\ [Next]_vars => AnswerInv'
<1> SUFFICES ASSUME TypeOK, TypeOK', LockInv, RawInv, AnswerInv, [Next]_vars
             PROVE  AnswerInv'
  OBVIOUS
<1> SUFFICES ASSUME NEW m \in Nat, m = cur'
             PROVE  Once' /\ Placed' /\ PastInv' /\ StageInv(m)'
  <2>1. cur' \in Nat
    BY DEF TypeOK, InOK
  <2> QED
    BY <2>1 DEF AnswerInv, StageInv, NoAnswer, NoDef, DefAns, OnWire, InBuf, Ans, IsGet
<1>a. EncOK /\ (encErr => buf = <<>>) /\ Once /\ Placed /\ PastInv
  BY DEF TypeOK, RawInv, WriterOK, AnswerInv
<1>b. pc \in [Procs -> Labels \cup ServeLabels] /\ Serve \in Procs
        /\ pc[Serve] \in ServeLabels
  BY DEF TypeOK, PcOK, Procs
<1>c. cur' = cur => StageInv(m)
  BY DEF AnswerInv
<1>d. ASSUME UNCHANGED <<buf, wire>> PROVE SameAnswers
  <2>1. \A k \in Nat : (OnWire(k)' <=> OnWire(k)) /\ (InBuf(k)' <=> InBuf(k))
    BY <1>d DEF OnWire, InBuf, Ans
  <2>2. \A k \in Nat : (NoDef(k)' <=> NoDef(k)) /\ (SoleIn(wire, k)' <=> SoleIn(wire, k))
                         /\ (SoleIn(buf, k)' <=> SoleIn(buf, k))
    BY <1>d DEF NoDef, SoleIn, DefAns, Ans
  <2> QED
    BY <1>a, <2>1, <2>2 DEF SameAnswers, Once
<1>e. ASSUME UNCHANGED <<cur, inq, readers>> PROVE SameInput
  BY <1>e DEF SameInput
\* Serve stays where it is.
<1>f. ASSUME SameAnswers, SameInput, pc'[Serve] = pc[Serve],
             UNCHANGED <<w, wroteResp, serr>>, outClosed => outClosed'
      PROVE  Once' /\ Placed' /\ PastInv' /\ StageInv(m)'
  <2>1. m = cur
    BY <1>f DEF SameInput
  <2>2. Once' /\ Placed' /\ PastInv' /\ (IsGet(m)' <=> IsGet(m))
    BY <1>f, <2>1, SameParts
  <2>3. StageInv(m)
    BY <1>c, <2>1
  <2>4. (OnWire(m)' <=> OnWire(m)) /\ (InBuf(m)' <=> InBuf(m)) /\ (NoDef(m) => NoDef(m)')
    BY <1>f DEF SameAnswers
  <2> QED
    BY <1>f, <2>2, <2>3, <2>4 DEF StageInv, NoAnswer
\* Serve moves on and writes nothing.
<1>g. ASSUME UNCHANGED <<buf, wire, cur, inq, readers>>, w => w'
      PROVE  /\ m = cur /\ StageInv(m)
             /\ Once' /\ Placed' /\ PastInv' /\ (IsGet(m)' <=> IsGet(m))
             /\ (OnWire(m)' <=> OnWire(m)) /\ (InBuf(m)' <=> InBuf(m))
             /\ NoDef(m) => NoDef(m)'
  BY <1>c, <1>d, <1>e, <1>g, SameParts DEF SameAnswers
<1>1. ASSUME NEW c \in Callers, CallerStep(c)
      PROVE  Once' /\ Placed' /\ PastInv' /\ StageInv(m)'
  BY <1>1, <1>f, OthersSame, OthersFrame
<1>2. ASSUME NEW c \in Callers, Deliver(c)
      PROVE  Once' /\ Placed' /\ PastInv' /\ StageInv(m)'
  <2>1. UNCHANGED <<buf, wire, cur, inq, readers, w>> /\ pc[Serve] = "offer"
          /\ pc'[Serve] = "await"
    BY <1>2, <1>b, ProcAssumption DEF Deliver, encVars, inVars, handVars, Procs
  <2> QED
    BY <1>g, <2>1 DEF StageInv, Between
<1>3. ASSUME \/ \E c \in Callers : Cancel(c)
             \/ \E c \in Callers, k \in Ops : Call(c, k)
             \/ \E g \in 1 .. gen : Expire(g)
             \/ \E k \in Inputs : PeerSend(k)
             \/ UNCHANGED vars
      PROVE  Once' /\ Placed' /\ PastInv' /\ StageInv(m)'
  <2>1. UNCHANGED <<buf, wire, w, wroteResp, serr, outClosed>> /\ pc'[Serve] = pc[Serve]
    BY <1>3, <1>b, ProcAssumption DEF Cancel, Call, Expire, PeerSend, vars, Goto,
         encVars, handVars, flagVars, Procs
  <2>2. UNCHANGED <<cur, readers>> /\ \A i \in DOMAIN inq : inq'[i] = inq[i]
    <3>1. ASSUME NEW k \in Inputs, PeerSend(k)
          PROVE  UNCHANGED <<cur, readers>> /\ \A i \in DOMAIN inq : inq'[i] = inq[i]
      BY <3>1 DEF PeerSend, TypeOK, InOK
    <3> QED
      BY <1>3, <3>1 DEF Cancel, Call, Expire, vars, inVars
  <2> QED
    BY <1>d, <1>f, <2>1, <2>2 DEF SameInput
<1>4. ASSUME ServeStep PROVE Once' /\ Placed' /\ PastInv' /\ StageInv(m)'
  <2> USE <1>b DEF Goto
  <2>1. CASE ServePoll \/ ServeCtx \/ ReadLock(Serve) \/ ReadState(Serve)
    <3>1. UNCHANGED <<buf, wire, cur, inq, readers, w>>
      BY <2>1 DEF ServePoll, ServeCtx, ReadLock, ReadState, encVars, inVars, handVars
    <3>2. /\ pc[Serve] \in Between
          /\ pc'[Serve] \in Between \cup {"fin", "elock"}
      BY <2>1 DEF ServePoll, ServeCtx, ReadLock, ReadState, Between
    <3> QED
      BY <1>g, <3>1, <3>2 DEF StageInv, Between
  <2>2. CASE ServeReadFails \/ Discard \/ RespClosed
    <3>1. UNCHANGED <<buf, wire, cur, inq, readers, w>>
      BY <2>2 DEF ServeReadFails, Discard, RespClosed, encVars, inVars, handVars
    <3>2. \/ pc[Serve] = "rtoken" /\ pc'[Serve] \in {"fin", "elock"}
          \/ pc[Serve] \in {"offer", "await"} /\ pc'[Serve] \in {"loop", "fin", "elock"}
      BY <2>2 DEF ServeReadFails, Discard, RespClosed, Drop, Failed
    <3> QED
      BY <1>g, <3>1, <3>2 DEF StageInv, Between
  <2>3. CASE HandlerRead
    <3>1. UNCHANGED <<buf, wire, cur, inq, readers, w, wroteResp, serr, outClosed, pc>>
      BY <2>3 DEF HandlerRead, encVars, inVars, handVars, flagVars
    <3> QED
      BY <1>d, <1>e, <1>f, <3>1
  <2>4. CASE HandlerLock
    <3>1. UNCHANGED <<buf, wire, cur, inq, readers, wroteResp>> /\ w' /\ ~w
            /\ pc[Serve] = "handler" /\ pc'[Serve] = "hstart"
      BY <2>4 DEF HandlerLock, encVars, inVars
    <3> QED
      BY <1>g, <3>1 DEF StageInv, Between, NoAnswer
  <2>22. CASE HandlerMore
    <3>1. UNCHANGED <<buf, wire, cur, inq, readers, wroteResp, w, outClosed>>
            /\ pc[Serve] = "handler" /\ pc'[Serve] = "hstart"
      BY <2>22 DEF HandlerMore, encVars, inVars, handVars, flagVars
    <3> QED
      BY <1>g, <3>1 DEF StageInv, Between, NoAnswer
  <2>23. CASE SkipFails
    <3>1. UNCHANGED <<buf, wire, cur, inq, readers, w>> /\ serr' # "nil"
            /\ pc'[Serve] = "cleanup"
      BY <2>23 DEF SkipFails, CutErr, encVars, inVars
    <3> QED
      BY <1>g, <3>1 DEF StageInv, Between
  <2>5. CASE HandlerTear
    <3>1. UNCHANGED <<buf, wire, cur, inq, readers, w>> /\ serr' = "handler"
            /\ pc'[Serve] = "cleanup"
      BY <2>5 DEF HandlerTear, inVars
    <3> QED
      BY <1>g, <3>1 DEF StageInv, Between
  <2>6. CASE HandlerReturn
    <3>1. UNCHANGED <<buf, wire, cur, inq, readers, w, wroteResp, outClosed>>
            /\ pc[Serve] = "handler"
      BY <2>6 DEF HandlerReturn, encVars, inVars, flagVars
    <3>2. pc'[Serve] = "default" \/ (pc'[Serve] = "cleanup" /\ serr' # "nil")
      BY <2>6 DEF HandlerReturn
    <3> QED
      BY <1>g, <3>1, <3>2 DEF StageInv, Between, NoAnswer
  <2>7. CASE NoDefault
    <3>1. UNCHANGED <<buf, wire, cur, inq, readers, w, wroteResp, outClosed>>
            /\ pc[Serve] = "default"
            /\ \/ pc'[Serve] = "wflush" /\ ~NeedsDefault
               \/ pc'[Serve] = "cleanup" /\ serr' # "nil"
      BY <2>7 DEF NoDefault, encVars, inVars, flagVars
    <3>2. m = cur
      BY <3>1
    <3>3. ~NeedsDefault /\ IsGet(m) => wroteResp
      BY <3>2 DEF NeedsDefault, IsGet, elem
    <3> QED
      BY <1>g, <3>1, <3>3 DEF StageInv, Between
  <2>8. CASE DefaultLock
    <3>1. UNCHANGED <<buf, wire, cur, inq, readers, wroteResp, pc, serr, outClosed>> /\ w'
      BY <2>8 DEF DefaultLock, encVars, inVars, flagVars
    <3>2. pc[Serve] = "default"
      BY <2>8 DEF DefaultLock
    <3> QED
      BY <1>g, <3>1, <3>2 DEF StageInv, Between, NoAnswer
  <2>9. CASE Skip
    <3>1. UNCHANGED <<buf, wire, cur, inq, readers, w>> /\ pc[Serve] = "skip"
            /\ pc'[Serve] = "cleanup"
      BY <2>9 DEF Skip, encVars, inVars, handVars
    <3> QED
      BY <1>g, <3>1 DEF StageInv, Between
  <2>10. CASE ErrorLock \/ closeInputStream \/ CloseLock(Serve) \/ closeSession(Serve)
    <3>1. UNCHANGED <<buf, wire, cur, inq, readers, w>>
            /\ pc'[Serve] \in {"estate", "clock", "cstate", "cwrite", "done"}
      BY <2>10 DEF ErrorLock, closeInputStream, CloseLock, closeSession,
           AfterClose, encVars, inVars, handVars
    <3> QED
      BY <1>g, <3>1 DEF StageInv, Between
  <2>11. CASE CloseWrite(Serve) \/ ErrorClose
    <3>1. UNCHANGED <<cur, inq, readers, w>> /\ pc'[Serve] \in {"fin", "done"}
      BY <2>11 DEF CloseWrite, ErrorClose, AfterClose, inVars
    <3>2. SameAnswers
      BY <2>11, <1>a, CloseOnce DEF CloseWrite, ErrorClose, SameAnswers
    <3>3. Once' /\ Placed' /\ PastInv'
      BY <1>e, <3>1, <3>2, SameParts
    <3> QED
      BY <3>1, <3>3 DEF StageInv, Between
  <2>12. CASE ServeRead
    <3>1. /\ nread < Len(inq) /\ readers' = Append(readers, Serve) /\ m = nread + 1
          /\ UNCHANGED <<buf, wire, inq, w>> /\ wroteResp' = FALSE
          /\ pc[Serve] = "rtoken"
      BY <2>12 DEF ServeRead, encVars
    <3>2. \/ pc'[Serve] \in {"loop", "offer"} /\ inq[m].kind \in {"ws", "resp"}
          \/ pc'[Serve] \in {"fin", "elock", "handler"}
      BY <2>12, <3>1 DEF ServeRead, Failed, Tracked
    <3>3. SameAnswers
      BY <1>d, <3>1
    <3>4. cur \in Nat /\ cur < m /\ cur <= Len(readers) /\ m = Len(readers) + 1
      BY <3>1 DEF TypeOK, InOK, nread
    <3>5. \A k \in Nat : (OnWire(k) => k <= cur) /\ ~InBuf(k)
      <4>1. ~w
        BY <3>1 DEF LockInv
      <4> QED
        BY <1>a, <4>1 DEF Placed
    <3>6. Placed'
      BY <3>3, <3>4, <3>5 DEF Placed, SameAnswers
    <3>7. NoAnswer(m)' /\ NoDef(m)'
      <4>1. NoAnswer(m)
        BY <3>4, <3>5 DEF NoAnswer
      <4>2. NoDef(m)
        BY <4>1 DEF NoAnswer, NoDef, DefAns, OnWire, InBuf
      <4> QED
        BY <3>3, <4>1, <4>2 DEF NoAnswer, SameAnswers
    <3>8. ASSUME NEW k \in 1 .. m - 1, readers'[k] = Serve, IsGet(k)' PROVE OnWire(k)'
      <4>1. k \in Nat /\ k \in DOMAIN readers /\ readers[k] = Serve /\ IsGet(k)
        BY <3>1, <3>4, <3>8 DEF TypeOK, InOK, IsGet
      <4>2. k <= cur
        BY <1>a, <3>4, <4>1 DEF PastInv
      <4>3. CASE k = cur
        BY <3>1, <3>3, <4>1, <4>3 DEF AnswerInv, StageInv, Between, SameAnswers
      <4>4. CASE k < cur
        BY <1>a, <3>3, <3>4, <4>1, <4>4 DEF PastInv, SameAnswers
      <4> QED
        BY <3>4, <4>1, <4>2, <4>3, <4>4
    <3>10. PastInv'
      <4>1. \A k \in 1 .. cur' - 1 : readers'[k] = Serve /\ IsGet(k)' => OnWire(k)'
        BY <3>8
      <4>2. \A k \in cur' + 1 .. Len(readers') : readers'[k] # Serve
        BY <3>1, <3>4, NoneLater
      <4> QED
        BY <4>1, <4>2 DEF PastInv
    <3>11. inq[m].kind \in {"ws", "resp"} => ~IsGet(m)'
      BY <3>1 DEF IsGet
    <3>12. StageInv(m)'
      BY <3>1, <3>2, <3>7, <3>11 DEF StageInv, Between
    <3> QED
      BY <3>3, <3>6, <3>10, <3>12 DEF SameAnswers
  \* What Serve writes between the start of the handler and the flush.
  <2>13. ASSUME NEW t \in Tokens, EmitOk(t), UNCHANGED <<cur, inq, readers>>, w, w',
               \A k \in Nat : Ans(t, k) =>
                  k = m /\ (NoAnswer(m) \/ (~DefAns(t, m) /\ NoDef(m)))
         PROVE  /\ m = cur /\ StageInv(m)
                /\ Once' /\ Placed' /\ PastInv' /\ (IsGet(m)' <=> IsGet(m))
                /\ OnWire(m) => OnWire(m)'
                /\ InBuf(m) => OnWire(m)' \/ InBuf(m)'
                /\ OnWire(m)' => OnWire(m) \/ InBuf(m)
                /\ InBuf(m)' => InBuf(m) \/ Ans(t, m)
                /\ Ans(t, m) => InBuf(m)'
                /\ NoDef(m) /\ ~DefAns(t, m) => NoDef(m)'
    <3>1. m = cur /\ SameInput
      BY <1>e, <2>13
    <3>2. /\ Once'
          /\ \A k \in Nat : /\ OnWire(k) => OnWire(k)'
                            /\ NoDef(k) /\ ~DefAns(t, k) => NoDef(k)'
                            /\ OnWire(k)' => OnWire(k) \/ InBuf(k)
                            /\ InBuf(k)' => InBuf(k) \/ Ans(t, k)
                            /\ Ans(t, k) => InBuf(k)'
                            /\ InBuf(k) => OnWire(k)' \/ InBuf(k)'
      BY <1>a, <2>13, EmitOnce
    <3>3. \A k \in Nat : InBuf(k)' => k = cur /\ w'
      BY <1>a, <2>13, <3>1, <3>2 DEF Placed
    <3> QED
      BY <1>c, <3>1, <3>2, <3>3, KeptParts
  \* What a failed write and a flush do.
  <2>14. ASSUME NEW s, FlushOk \/ FailWrite(s) \/ StuckWrite(s),
                UNCHANGED <<cur, inq, readers>>
         PROVE  /\ m = cur /\ StageInv(m)
                /\ Once' /\ Placed' /\ PastInv' /\ (IsGet(m)' <=> IsGet(m))
                /\ OnWire(m) => OnWire(m)'
                /\ FlushOk /\ InBuf(m) => OnWire(m)'
    <3>1. m = cur /\ SameInput
      BY <1>e, <2>14
    <3>2. /\ Once'
          /\ \A k \in Nat : Moves(k) /\ ~InBuf(k)' /\ (FlushOk /\ InBuf(k) => OnWire(k)')
      BY <1>a, <2>14, DrainOnce
    <3> QED
      BY <1>c, <3>1, <3>2, KeptParts DEF Moves
  <2>15. ASSUME NEW x \in {"reply", "raw", "default", "error"},
                NEW part \in {"start", "end", "whole"}, m = cur
         PROVE  /\ Token(ServeSrc, x, part) \in Tokens
                /\ \A k \in Nat : Ans(Token(ServeSrc, x, part), k) <=>
                      k = m /\ x \in {"reply", "default"} /\ part \in {"end", "whole"}
    BY <2>15 DEF TypeOK, InOK, ServeSrc, Token, Tokens, Whats, Procs, Ans
  <2>16. ASSUME NEW b \in Handler, HandlerStart(b)
         PROVE  Once' /\ Placed' /\ PastInv' /\ StageInv(m)'
    <3>1. UNCHANGED <<cur, inq, readers, w, outClosed>> /\ w /\ pc[Serve] = "hstart"
            /\ m = cur /\ wroteResp' = (wroteResp \/ b = "reply")
            /\ (b = "reply" => wroteResp') /\ (b # "reply" => (wroteResp' <=> wroteResp))
      BY <2>16 DEF HandlerStart, LockInv, inVars, flagVars
    <3>2. StageInv(m)
      BY <1>c, <3>1
    <3>3. /\ NoDef(m) /\ (~wroteResp => NoAnswer(m))
          /\ wroteResp => outClosed \/ OnWire(m) \/ InBuf(m)
      BY <3>1, <3>2 DEF StageInv
    <3>4. CASE outClosed
      <4>1. UNCHANGED <<buf, wire>>
        BY <2>16, <3>4 DEF HandlerStart, encVars
      <4>2. pc'[Serve] = "handler" \/ (pc'[Serve] = "cleanup" /\ serr' = "outclosed")
        BY <2>16, <3>4 DEF HandlerStart
      <4> QED
        BY <1>g, <3>1, <3>3, <3>4, <4>1, <4>2 DEF StageInv, Between, NoAnswer
    <3>5. CASE ~outClosed
      <4> DEFINE t == Token(ServeSrc, WhatOf(b), "start")
      <4>1. t \in Tokens /\ \A k \in Nat : ~Ans(t, k)
        BY <2>15, <3>1 DEF WhatOf
      <4>2. CASE EmitOk(t) /\ Goto(Serve, IF b = "reply" THEN "hreply" ELSE "hother")
        <5>1. /\ Once' /\ Placed' /\ PastInv' /\ NoDef(m)'
              /\ ~wroteResp => NoAnswer(m)'
              /\ wroteResp => OnWire(m)' \/ InBuf(m)'
          BY <2>13, <3>1, <3>3, <3>5, <4>1, <4>2 DEF NoAnswer, DefAns
        <5>2. pc'[Serve] = IF b = "reply" THEN "hreply" ELSE "hother"
          BY <4>2
        <5> QED
          BY <3>1, <5>1, <5>2 DEF StageInv, Between
      <4>3. CASE EmitErr(t) /\ Goto(Serve, "cleanup") /\ serr' = "write"
        BY <2>14, <3>1, <4>3 DEF StageInv, Between, EmitErr
      <4> QED
        BY <2>16, <3>5, <4>2, <4>3 DEF HandlerStart
    <3> QED
      BY <3>4, <3>5
  <2>17. CASE HandlerEnd
    <3>1. UNCHANGED <<cur, inq, readers, w, outClosed, wroteResp>> /\ w /\ m = cur
            /\ pc[Serve] \in {"hreply", "hother"}
      BY <2>17 DEF HandlerEnd, LockInv, inVars, flagVars
    <3>2. StageInv(m)
      BY <1>c, <3>1
    <3>3. /\ NoDef(m) /\ ~outClosed /\ (pc[Serve] = "hreply" => wroteResp)
          /\ pc[Serve] = "hother" /\ ~wroteResp => NoAnswer(m)
          /\ pc[Serve] = "hother" /\ wroteResp => OnWire(m) \/ InBuf(m)
      BY <3>1, <3>2 DEF StageInv, RawInv, WriterOK
    <3> DEFINE t == Token(ServeSrc, IF pc[Serve] = "hreply" THEN "reply" ELSE "raw", "end")
    <3>4. /\ t \in Tokens /\ ~DefAns(t, m)
          /\ \A k \in Nat : Ans(t, k) <=> k = m /\ pc[Serve] = "hreply"
      BY <2>15, <3>1 DEF DefAns, Token
    <3>5. CASE EmitOk(t) /\ Goto(Serve, "handler")
      <4>1. /\ Once' /\ Placed' /\ PastInv' /\ NoDef(m)'
            /\ pc[Serve] = "hreply" => InBuf(m)'
            /\ pc[Serve] = "hother" /\ ~wroteResp => NoAnswer(m)'
            /\ pc[Serve] = "hother" /\ wroteResp => OnWire(m)' \/ InBuf(m)'
        BY <2>13, <3>1, <3>3, <3>4, <3>5 DEF NoAnswer
      <4>2. pc'[Serve] = "handler"
        BY <3>5
      <4> QED
        BY <3>1, <3>3, <4>1, <4>2 DEF StageInv, Between
    <3>6. CASE EmitErr(t) /\ Goto(Serve, "cleanup") /\ serr' = "write"
      BY <2>14, <3>1, <3>6 DEF StageInv, Between, EmitErr
    <3> QED
      BY <2>17, <3>5, <3>6 DEF HandlerEnd
  <2>18. CASE DefaultWrite
    <3>1. UNCHANGED <<cur, inq, readers, w, outClosed>> /\ w /\ m = cur
            /\ pc[Serve] = "default" /\ ~wroteResp
      BY <2>18 DEF DefaultWrite, NeedsDefault, inVars, flagVars
    <3>2. StageInv(m)
      BY <1>c, <3>1
    <3>3. NoAnswer(m)
      BY <3>1, <3>2 DEF StageInv
    <3> DEFINE t == Token(ServeSrc, "default", "whole")
    <3>4. t \in Tokens /\ \A k \in Nat : Ans(t, k) <=> k = m
      BY <2>15, <3>1
    <3>5. CASE UNCHANGED encVars /\ Goto(Serve, "cleanup") /\ serr' = "outclosed"
      <4>1. UNCHANGED <<buf, wire>> /\ pc'[Serve] = "cleanup" /\ serr' # "nil"
        BY <3>5 DEF encVars
      <4> QED
        BY <1>g, <3>1, <4>1 DEF StageInv, Between
    <3>6. CASE EmitOk(t) /\ Goto(Serve, "wflush")
      <4>1. Once' /\ Placed' /\ PastInv' /\ InBuf(m)'
        BY <2>13, <3>1, <3>3, <3>4, <3>6
      <4>2. pc'[Serve] = "wflush"
        BY <3>6
      <4> QED
        BY <3>1, <4>1, <4>2 DEF StageInv, Between
    <3>7. CASE EmitErr(t) /\ Goto(Serve, "cleanup") /\ serr' = "write"
      BY <2>14, <3>1, <3>7 DEF StageInv, Between, EmitErr
    <3> QED
      BY <2>18, <3>5, <3>6, <3>7 DEF DefaultWrite
  <2>19. CASE HandlerFlush
    <3>1. UNCHANGED <<cur, inq, readers, w, outClosed>> /\ m = cur /\ pc[Serve] = "wflush"
      BY <2>19 DEF HandlerFlush, inVars, flagVars
    <3>2. StageInv(m)
      BY <1>c, <3>1
    <3>3. CASE ~w /\ Goto(Serve, "skip") /\ UNCHANGED <<serr, encVars>>
      <4>1. UNCHANGED <<buf, wire>> /\ pc'[Serve] = "skip"
        BY <3>3 DEF encVars
      <4>2. ~IsGet(m)
        BY <3>1, <3>2, <3>3 DEF StageInv
      <4> QED
        BY <1>g, <3>1, <4>1, <4>2 DEF StageInv, Between
    <3>4. CASE outClosed /\ Goto(Serve, "cleanup") /\ serr' = "outclosed" /\ UNCHANGED encVars
      <4>1. UNCHANGED <<buf, wire>> /\ pc'[Serve] = "cleanup" /\ serr' # "nil"
        BY <3>4 DEF encVars
      <4> QED
        BY <1>g, <3>1, <4>1 DEF StageInv, Between
    <3>5. CASE ~outClosed /\ FlushOk /\ Goto(Serve, "skip")
      <4>1. /\ Once' /\ Placed' /\ PastInv' /\ (IsGet(m)' <=> IsGet(m))
            /\ (OnWire(m) => OnWire(m)') /\ (InBuf(m) => OnWire(m)')
        BY <2>14, <3>1, <3>5
      <4>2. pc'[Serve] = "skip"
        BY <3>5
      <4>3. IsGet(m) => OnWire(m) \/ InBuf(m)
        BY <3>1, <3>2, <3>5 DEF StageInv
      <4> QED
        BY <4>1, <4>2, <4>3 DEF StageInv, Between
    <3>6. CASE FlushErr(ServeSrc) /\ Goto(Serve, "cleanup") /\ serr' = "write"
      BY <2>14, <3>1, <3>6 DEF StageInv, Between, FlushErr
    <3> QED
      BY <2>19, <3>3, <3>4, <3>5, <3>6 DEF HandlerFlush
  <2>20. CASE Cleanup
    <3>1. UNCHANGED <<cur, inq, readers, serr>> /\ m = cur /\ pc[Serve] = "cleanup"
            /\ pc'[Serve] = IF serr = "nil" THEN "loop"
                            ELSE IF serr = "eof" THEN "fin" ELSE "elock"
      BY <2>20 DEF Cleanup, inVars
    <3>2. StageInv(m)
      BY <1>c, <3>1
    <3>3. serr = "nil" /\ IsGet(m) => OnWire(m)
      BY <3>1, <3>2 DEF StageInv
    <3>4. CASE (~w \/ outClosed) /\ UNCHANGED encVars
      <4>1. \A k \in Nat : ~InBuf(k)
        <5>1. \A i \in DOMAIN buf : ~(w /\ Guarded(buf[i]))
          BY <3>4 DEF RawInv, WriterOK, Checked
        <5> QED
          BY <1>a, <5>1 DEF Placed, InBuf, Ans, Guarded
      <4>2. SameAnswers /\ SameInput
        BY <1>d, <1>e, <3>1, <3>4 DEF encVars
      <4>3. Once' /\ Placed' /\ PastInv' /\ (IsGet(m)' <=> IsGet(m)) /\ (OnWire(m) => OnWire(m)')
        BY <3>1, <4>1, <4>2, KeptParts DEF SameAnswers
      <4> QED
        BY <3>1, <3>3, <4>3 DEF StageInv, Between
    <3>5. CASE FlushOk \/ FlushErr(ServeSrc)
      <4>1. Once' /\ Placed' /\ PastInv' /\ (IsGet(m)' <=> IsGet(m)) /\ (OnWire(m) => OnWire(m)')
        BY <2>14, <3>1, <3>5 DEF FlushErr
      <4> QED
        BY <3>1, <3>3, <4>1 DEF StageInv, Between
    <3> QED
      BY <2>20, <3>4, <3>5 DEF Cleanup
  <2>21. CASE sendError
    <3>1. UNCHANGED <<cur, inq, readers, w>> /\ m = cur /\ pc'[Serve] \in {"fin", "ewrite"}
            /\ ~w
      BY <2>21 DEF sendError, inVars, LockInv
    <3> DEFINE t == Token(ServeSrc, "error", "whole")
    <3>2. t \in Tokens /\ \A k \in Nat : ~Ans(t, k)
      BY <2>15, <3>1
    <3>3. \A k \in Nat : ~InBuf(k)
      BY <1>a, <3>1 DEF Placed
    <3>4. SameAnswers
      <4>1. CASE UNCHANGED encVars
        BY <1>d, <4>1 DEF encVars
      <4>2. CASE EmitErr(t)
        BY <1>a, <3>3, <4>2, DrainOnce DEF EmitErr, SameAnswers, Moves
      <4>3. CASE EmitOk(t)
        <5>1. \A k \in Nat : ~DefAns(t, k)
          BY <3>2 DEF DefAns
        <5> QED
          BY <1>a, <3>2, <3>3, <4>3, <5>1, EmitOnce DEF SameAnswers
      <4> QED
        BY <2>21, <4>1, <4>2, <4>3 DEF sendError
    <3>5. Once' /\ Placed' /\ PastInv'
      BY <1>e, <3>1, <3>4, SameParts
    <3> QED
      BY <3>1, <3>5 DEF StageInv, Between
  <2> QED
    BY <1>4, <2>1, <2>2, <2>3, <2>4, <2>5, <2>6, <2>7, <2>8, <2>9, <2>10, <2>11,
       <2>12, <2>16, <2>17, <2>18, <2>19, <2>20, <2>21, <2>22, <2>23 DEF ServeStep
<1> QED
  BY <1>1, <1>2, <1>3, <1>4 DEF Next

\* Serve goes on to the next input only when the request it handled
\* has an answer on the wire, the handler's own or one default answer and no
\* other: for any handler and any number of elements it writes, however the
\* output is shared and whenever it is closed or fails.
THEOREM RequestsAnswered == Spec => []Answered
<1>1. Init => AnswerInv
  <2> SUFFICES ASSUME Init PROVE AnswerInv
    OBVIOUS
  <2>1. pc[Serve] = "loop" /\ buf = <<>> /\ wire = <<>> /\ cur = 0 /\ readers = <<>>
    BY DEF Init, Procs
  <2>2. \A k \in Nat : ~OnWire(k) /\ ~InBuf(k)
    BY <2>1 DEF OnWire, InBuf
  <2>3. ~IsGet(cur)
    BY <2>1 DEF IsGet
  <2>4. Once /\ Placed
    BY <2>1, <2>2 DEF Once, SoleIn, Placed
  <2>5. StageInv(cur)
    BY <2>1, <2>3 DEF StageInv
  <2>6. PastInv
    BY <2>1 DEF PastInv
  <2> QED
    BY <2>4, <2>5, <2>6 DEF AnswerInv
<1>2. TypeOK /\ AnswerInv => Answered
  <2> SUFFICES ASSUME TypeOK, AnswerInv, NEW k \in 1 .. cur,
                      inq[k].kind \in {"get", "getbad"}, readers[k] = Serve,
                      Past(k), serr = "nil"
               PROVE  /\ Answers(k) # {}
                      /\ \A i \in Answers(k) :
                            wire[i].what = "default" => Answers(k) = {i}
    BY DEF Answered
  <2>1. k \in Nat /\ cur \in Nat /\ IsGet(k)
    BY DEF TypeOK, InOK, IsGet
  <2>2. OnWire(k)
    <3>1. CASE k < cur
      BY <2>1, <3>1 DEF AnswerInv, PastInv
    <3>2. CASE ~(k < cur)
      <4>1. k = cur /\ pc[Serve] \in Between
        BY <2>1, <3>2 DEF Past, Between
      <4> QED
        BY <2>1, <4>1 DEF AnswerInv, StageInv
    <3> QED
      BY <3>1, <3>2
  <2>3. Answers(k) # {}
    BY <2>2 DEF OnWire, Answers, Ans
  <2>4. ASSUME NEW i \in Answers(k), wire[i].what = "default"
        PROVE  Answers(k) = {i}
    <3>1. SoleIn(wire, k)
      BY <2>1 DEF AnswerInv, Once
    <3> QED
      BY <2>4, <3>1 DEF Answers, Ans, SoleIn, DefAns
  <2> QED
    BY <2>3, <2>4
<1>3. TypeOK /\ LockInv /\ CloseInv /\ [Next]_vars => CloseInv'
  BY CloseStep
<1>4. TypeOK /\ TypeOK' /\ LockInv /\ CloseInv /\ RawInv /\ [Next]_vars => RawInv'
  BY RawStep
<1>5. TypeOK /\ TypeOK' /\ LockInv /\ RawInv /\ AnswerInv /\ [Next]_vars => AnswerInv'
  BY AnswerStep
<1> QED
  BY <1>1, <1>2, <1>3, <1>4, <1>5, InitInv, WireInit, TypeCorrect,
     LocksExclusive, PTL DEF Spec
=============================================================================
