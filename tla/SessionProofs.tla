--------------------------- MODULE SessionProofs ---------------------------
(***************************************************************************)
(* Proofs about an established session, for any number of callers, any     *)
(* operations, inputs and handlers, and failing connections.  TypeOK, *)
(* LockInv and DepthAbove are inductive together; CloseInv is relative to  *)
(* them, and RespInv to TypeOK.                                            *)
(***************************************************************************)
EXTENDS Session, TLAPS

(* What a step does to the output, stream end tags aside: none enters the  *)
(* buffer, and what is new on the wire is something else.                  *)

Extends ==
    /\ \A i \in DOMAIN buf' : ~IsClose(buf'[i])
    /\ \A i \in DOMAIN wire' :
          \/ i \in DOMAIN wire /\ wire'[i] = wire[i]
          \/ ~IsClose(wire'[i])

\* The parts of TypeOK that few actions touch.
RestOK == LockOK /\ FlagOK /\ RespOK /\ DlOK

NoCloseInBuf == \A i \in DOMAIN buf : ~IsClose(buf[i])

\* Whoever is inside an element has the encoder below the top level.
DepthAbove == \A p \in Procs : pc[p] \in {"end", "hreply", "hother"} => depth > 0

\* A write of the encoder's buffer that fails part of the way
\* keeps the buffer and the wire well formed and adds no stream end tag.
LEMMA FailWriteLemma ==
  ASSUME EncOK, NEW src \in Procs \X Nat, FailWrite(src)
  PROVE  /\ buf' \in Seq(Tokens) /\ wire' \in Seq(Tokens)
         /\ torn' \subseteq Procs \X Nat /\ encErr' \in BOOLEAN
         /\ NoCloseInBuf => Extends
<1>1. PICK k \in 0 .. Len(buf) - 1 : wire' = wire \o SubSeq(buf, 1, k)
  BY DEF FailWrite
<1>2. SubSeq(buf, 1, k) \in Seq(Tokens) /\ Len(SubSeq(buf, 1, k)) = k
        /\ \A i \in 1 .. k : SubSeq(buf, 1, k)[i] = buf[i]
  BY <1>1 DEF EncOK
<1>3. wire' \in Seq(Tokens)
  BY <1>1, <1>2 DEF EncOK
<1>4. torn' \subseteq Procs \X Nat
  <2>1. \A i \in DOMAIN buf : buf[i] \in Tokens
    BY DEF EncOK
  <2>2. \A i \in DOMAIN buf : buf[i].src \in Procs \X Nat
    BY <2>1 DEF Tokens
  <2> QED
    BY <2>2 DEF EncOK, FailWrite
<1>5. ASSUME NoCloseInBuf PROVE Extends
  <2>1. ASSUME NEW i \in DOMAIN wire', i \notin DOMAIN wire
        PROVE  i - Len(wire) \in 1 .. k /\ wire'[i] = buf[i - Len(wire)]
    BY <1>1, <1>2, <2>1 DEF EncOK
  <2>2. \A i \in DOMAIN wire : wire'[i] = wire[i]
    BY <1>1, <1>2 DEF EncOK
  <2>3. \A i \in 1 .. k : i \in DOMAIN buf
    BY DEF EncOK
  <2> QED
    BY <1>5, <2>1, <2>2, <2>3, SMTT(30) DEF Extends, NoCloseInBuf, FailWrite
<1> QED
  BY <1>3, <1>4, <1>5 DEF FailWrite

\* A token that goes into the encoder (EncodeToken) adds to the
\* buffer or, when that is full, to the wire, and nothing else.
LEMMA EmitOkLemma ==
  ASSUME EncOK, NEW t \in Tokens, EmitOk(t)
  PROVE  /\ buf' \in Seq(Tokens) /\ wire' \in Seq(Tokens)
         /\ torn' = torn /\ encErr' = encErr
         /\ NoCloseInBuf /\ ~IsClose(t) => Extends
<1>1. CASE Len(buf) < BufCap
  <2>1. buf' = Append(buf, t) /\ wire' = wire
    BY <1>1 DEF EmitOk
  <2>2. buf' \in Seq(Tokens) /\ wire' \in Seq(Tokens)
    BY <2>1 DEF EncOK
  <2>3. ASSUME NoCloseInBuf, ~IsClose(t) PROVE Extends
    <3>1. \A i \in DOMAIN buf' : (i \in DOMAIN buf /\ buf'[i] = buf[i]) \/ buf'[i] = t
      BY <2>1 DEF EncOK
    <3> QED
      BY <2>1, <2>3, <3>1 DEF Extends, NoCloseInBuf
  <2> QED
    BY <2>2, <2>3 DEF EmitOk
<1>2. CASE ~(Len(buf) < BufCap)
  <2>1. buf' = <<t>> /\ wire' = wire \o buf
    BY <1>2 DEF EmitOk
  <2>2. buf' \in Seq(Tokens) /\ wire' \in Seq(Tokens)
    BY <2>1 DEF EncOK
  <2>3. ASSUME NoCloseInBuf, ~IsClose(t) PROVE Extends
    BY <2>1, <2>3 DEF EncOK, Extends, NoCloseInBuf
  <2> QED
    BY <2>2, <2>3 DEF EmitOk
<1> QED
  BY <1>1, <1>2

\* A flush moves the buffer to the wire.
LEMMA FlushOkLemma ==
  ASSUME EncOK, FlushOk
  PROVE  /\ buf' \in Seq(Tokens) /\ wire' \in Seq(Tokens)
         /\ torn' = torn /\ encErr' = encErr
         /\ NoCloseInBuf => Extends
<1>1. buf' \in Seq(Tokens) /\ wire' \in Seq(Tokens)
  BY DEF EncOK, FlushOk
<1>2. ASSUME NoCloseInBuf PROVE Extends
  BY <1>2 DEF EncOK, FlushOk, NoCloseInBuf, Extends
<1> QED
  BY <1>1, <1>2 DEF FlushOk

\* Once a write has failed the encoder changes nothing more.
LEMMA StuckWriteLemma ==
  ASSUME EncOK, NEW src \in Procs \X Nat, StuckWrite(src)
  PROVE  /\ buf' \in Seq(Tokens) /\ wire' \in Seq(Tokens)
         /\ torn' \subseteq Procs \X Nat
         /\ NoCloseInBuf => Extends
BY DEF EncOK, StuckWrite, NoCloseInBuf, Extends

\* A token that could not be encoded: the two cases above.
LEMMA EmitErrLemma ==
  ASSUME EncOK, NEW t \in Tokens, EmitErr(t)
  PROVE  /\ buf' \in Seq(Tokens) /\ wire' \in Seq(Tokens)
         /\ torn' \subseteq Procs \X Nat
         /\ NoCloseInBuf => Extends
<1>1. t.src \in Procs \X Nat
  BY DEF Tokens
<1> QED
  BY <1>1, StuckWriteLemma, FailWriteLemma DEF EmitErr

\* A flush that failed: the two cases above.
LEMMA FlushErrLemma ==
  ASSUME EncOK, NEW src \in Procs \X Nat, FlushErr(src)
  PROVE  /\ buf' \in Seq(Tokens) /\ wire' \in Seq(Tokens)
         /\ torn' \subseteq Procs \X Nat
         /\ NoCloseInBuf => Extends
BY StuckWriteLemma, FailWriteLemma DEF FlushErr

\* intstream.Close adds at most the stream end tag to the wire.
LEMMA WriteCloseLemma ==
  ASSUME EncOK, NEW p \in Procs, NEW kept, WriteClose(p, kept)
  PROVE  /\ wire' \in Seq(Tokens)
         /\ \/ wire' = wire
            \/ /\ DOMAIN wire' = DOMAIN wire \cup {Len(wire) + 1}
               /\ \A i \in DOMAIN wire : wire'[i] = wire[i]
<1>1. CloseTag(p) \in Tokens
  BY DEF CloseTag, Token, Tokens, Whats
<1>2. CASE wire' = wire
  BY <1>2 DEF EncOK
<1>3. CASE wire' = Append(wire, CloseTag(p))
  BY <1>1, <1>3 DEF EncOK
<1> QED
  BY <1>2, <1>3 DEF WriteClose

\* A step that leaves the encoder alone extends the wire trivially.
LEMMA UnchangedLemma == ASSUME NoCloseInBuf, UNCHANGED encVars PROVE Extends
BY DEF NoCloseInBuf, Extends, encVars

\* Where the wire is only extended by other tokens the number of
\* stream end tags stays.
LEMMA ExtendsLemma ==
  ASSUME CloseTagOnce, Extends
  PROVE  /\ \A i \in DOMAIN buf' : ~IsClose(buf'[i])
         /\ (\E i \in DOMAIN wire' : IsClose(wire'[i]))
               => \E i \in DOMAIN wire : IsClose(wire[i])
         /\ CloseTagOnce'
BY DEF Extends, CloseTagOnce, IsClose

\* The end tag written by closeSession or sendError, holding both
\* locks, is the first one.
LEMMA WriteCloseStep ==
  ASSUME TypeOK, LockInv, CloseInv, NEW p \in Procs, NEW kept,
         HoldsState(p), WriteClose(p, kept), flagVars' = flagVars, st' = None,
         NEW l \in {"fin", "idle", "done"}, Goto(p, l)
  PROVE  CloseInv'
<1>1. st = p /\ outClosed /\ p # None
  BY ProcAssumption, NoneAssumption DEF LockInv, CloseInv, Procs
<1>2. \A i \in DOMAIN wire : ~IsClose(wire[i])
  BY <1>1 DEF CloseInv
<1>3. CloseTagOnce' /\ buf' = buf
  BY <1>2, WriteCloseLemma DEF TypeOK, CloseTagOnce, WriteClose
<1>4. \A q \in Procs : HoldsState(q)' => HoldsState(q)
  BY DEF HoldsState, Goto, TypeOK, PcOK
<1> QED
  BY <1>1, <1>3, <1>4 DEF CloseInv, flagVars

\* Every step keeps the types of the goroutines' places and operations.
LEMMA PcStep == TypeOK /\ [Next]_vars => PcOK'
<1> SUFFICES ASSUME TypeOK, [Next]_vars PROVE PcOK'
  OBVIOUS
<1> USE ProcAssumption, OpsAssumption DEF TypeOK, PcOK, Goto, Procs,
     Labels, ServeLabels
<1>1. ASSUME NEW c \in Callers, CallerStep(c) PROVE PcOK'
  <2>1. CASE Register(c)
    BY <2>1 DEF Register
  <2>2. CASE LockOut(c)
    BY <2>2 DEF LockOut
  <2>3. CASE NoStart(c)
    BY <2>3 DEF NoStart, Sent
  <2>4. CASE EncodeRefused(c)
    BY <2>4 DEF EncodeRefused, Sent
  <2>5. CASE EncodeStart(c)
    BY <2>5 DEF EncodeStart, Sent
  <2>6. CASE PayloadErr(c)
    BY <2>6 DEF PayloadErr, Sent
  <2>7. CASE EncodeEnd(c)
    BY <2>7 DEF EncodeEnd, Sent
  <2>8. CASE Flush(c)
    BY <2>8 DEF Flush, Sent
  <2>9. CASE GiveUp(c)
    BY <2>9 DEF GiveUp
  <2>10. CASE Delete(c)
    BY <2>10 DEF Delete
  <2>11. CASE CloseResp(c)
    BY <2>11 DEF CloseResp
  <2>12. CASE CloseLock(c)
    BY <2>12 DEF CloseLock
  <2>13. CASE closeSession(c)
    BY <2>13 DEF closeSession, AfterClose, AlreadyClosed
  <2>14. CASE CloseWrite(c)
    BY <2>14 DEF CloseWrite, AfterClose
  <2>15. CASE SwapCtx(c)
    BY <2>15 DEF SwapCtx
  <2>16. CASE CancelCtx(c)
    BY <2>16 DEF CancelCtx
  <2>17. CASE SetReadDeadline(c)
    BY <2>17 DEF SetReadDeadline
  <2>18. CASE ReadLock(c)
    BY <2>18 DEF ReadLock
  <2>19. CASE ReadState(c)
    BY <2>19 DEF ReadState
  <2>20. CASE Read(c)
    BY <2>20 DEF Read
  <2> QED
    BY <1>1, <2>1, <2>2, <2>3, <2>4, <2>5, <2>6, <2>7, <2>8, <2>9, <2>10,
         <2>11, <2>12, <2>13, <2>14, <2>15, <2>16, <2>17, <2>18, <2>19, <2>20
         DEF CallerStep
<1>2. ASSUME ServeStep PROVE PcOK'
  <2>1. CASE ServePoll
    BY <2>1 DEF ServePoll
  <2>2. CASE ServeCtx
    BY <2>2 DEF ServeCtx
  <2>3. CASE ReadLock(Serve)
    BY <2>3 DEF ReadLock
  <2>4. CASE ReadState(Serve)
    BY <2>4 DEF ReadState
  <2>5. CASE ServeRead
    BY <2>5 DEF ServeRead, Failed
  <2>6. CASE ServeReadFails
    BY <2>6 DEF ServeReadFails, Failed
  <2>7. CASE Discard
    BY <2>7 DEF Discard, Drop, Failed
  <2>8. CASE RespClosed
    BY <2>8 DEF RespClosed, Drop, Failed
  <2>9. CASE HandlerRead
    BY <2>9 DEF HandlerRead
  <2>10. CASE HandlerLock
    BY <2>10 DEF HandlerLock
  <2>11. ASSUME NEW b \in Handler, HandlerStart(b) PROVE PcOK'
    BY <2>11 DEF HandlerStart
  <2>12. CASE HandlerEnd
    BY <2>12 DEF HandlerEnd
  <2>13. CASE HandlerTear
    BY <2>13 DEF HandlerTear
  <2>14. CASE HandlerReturn
    BY <2>14 DEF HandlerReturn
  <2>15. CASE NoDefault
    BY <2>15 DEF NoDefault
  <2>16. CASE DefaultLock
    BY <2>16 DEF DefaultLock
  <2>17. CASE DefaultWrite
    BY <2>17 DEF DefaultWrite
  <2>18. CASE HandlerFlush
    BY <2>18 DEF HandlerFlush
  <2>19. CASE Skip
    BY <2>19 DEF Skip
  <2>20. CASE Cleanup
    BY <2>20 DEF Cleanup
  <2>21. CASE ErrorLock
    BY <2>21 DEF ErrorLock
  <2>22. CASE sendError
    BY <2>22 DEF sendError
  <2>23. CASE ErrorClose
    BY <2>23 DEF ErrorClose
  <2>24. CASE closeInputStream
    BY <2>24 DEF closeInputStream
  <2>25. CASE CloseLock(Serve)
    BY <2>25 DEF CloseLock
  <2>26. CASE closeSession(Serve)
    BY <2>26 DEF closeSession, AfterClose, AlreadyClosed
  <2>27. CASE CloseWrite(Serve)
    BY <2>27 DEF CloseWrite, AfterClose
  <2>28. CASE HandlerMore
    BY <2>28 DEF HandlerMore
  <2>29. CASE SkipFails
    BY <2>29 DEF SkipFails
  <2> QED
    BY <1>2, <2>1, <2>2, <2>3, <2>4, <2>5, <2>6, <2>7, <2>8, <2>9, <2>10,
         <2>11, <2>12, <2>13, <2>14, <2>15, <2>16, <2>17, <2>18, <2>19, <2>20,
         <2>21, <2>22, <2>23, <2>24, <2>25, <2>26, <2>27,
         <2>28, <2>29 DEF ServeStep
<1>3. ASSUME NEW c \in Callers, Deliver(c) PROVE PcOK'
  BY <1>3 DEF Deliver
<1>4. ASSUME NEW c \in Callers, Cancel(c) PROVE PcOK'
  BY <1>4 DEF Cancel
<1>5. ASSUME NEW c \in Callers, NEW k \in Ops, Call(c, k) PROVE PcOK'
  BY <1>5 DEF Call, Entry, OpKinds
<1>6. ASSUME NEW g \in 1 .. gen, Expire(g) PROVE PcOK'
  BY <1>6 DEF Expire
<1>7. ASSUME NEW k \in Inputs, PeerSend(k) PROVE PcOK'
  BY <1>7 DEF PeerSend
<1>8. CASE UNCHANGED vars
  BY <1>8 DEF vars
<1> QED
  BY <1>1, <1>2, <1>3, <1>4, <1>5, <1>6, <1>7, <1>8 DEF Next

\* Every step keeps the types of the locks, flags, requests and
\* deadlines.
LEMMA RestStep == TypeOK /\ [Next]_vars => RestOK'
<1> SUFFICES ASSUME TypeOK, [Next]_vars PROVE RestOK'
  OBVIOUS
<1> USE ProcAssumption DEF TypeOK, RestOK, Deleted, LockOK, FlagOK,
     RespOK, DlOK, PcOK, OpIds, Op, Procs, lockVars, flagVars, encVars,
     respVars, handVars, dlVars
<1>1. ASSUME NEW c \in Callers, CallerStep(c) PROVE RestOK'
  <2>1. CASE Register(c)
    BY <2>1 DEF Register
  <2>2. CASE LockOut(c)
    BY <2>2 DEF LockOut
  <2>3. CASE NoStart(c)
    BY <2>3 DEF NoStart, Sent
  <2>4. CASE EncodeRefused(c)
    BY <2>4 DEF EncodeRefused, Sent
  <2>5. CASE EncodeStart(c)
    BY <2>5 DEF EncodeStart, Sent, EmitOk, EmitErr, StuckWrite, FailWrite
  <2>6. CASE PayloadErr(c)
    BY <2>6 DEF PayloadErr, Sent
  <2>7. CASE EncodeEnd(c)
    BY <2>7 DEF EncodeEnd, Sent, EmitOk, EmitErr, StuckWrite, FailWrite
  <2>8. CASE Flush(c)
    BY <2>8 DEF Flush, Sent, FlushOk, FlushErr, StuckWrite, FailWrite
  <2>9. CASE GiveUp(c)
    BY <2>9 DEF GiveUp
  <2>10. CASE Delete(c)
    BY <2>10 DEF Delete
  <2>11. CASE CloseResp(c)
    BY <2>11 DEF CloseResp
  <2>12. CASE CloseLock(c)
    BY <2>12 DEF CloseLock
  <2>13. CASE closeSession(c)
    BY <2>13 DEF closeSession
  <2>14. CASE CloseWrite(c)
    BY <2>14 DEF CloseWrite, WriteClose
  <2>15. CASE SwapCtx(c)
    BY <2>15 DEF SwapCtx
  <2>16. CASE CancelCtx(c)
    BY <2>16 DEF CancelCtx
  <2>17. CASE SetReadDeadline(c)
    BY <2>17 DEF SetReadDeadline
  <2>18. CASE ReadLock(c)
    BY <2>18 DEF ReadLock
  <2>19. CASE ReadState(c)
    BY <2>19 DEF ReadState
  <2>20. CASE Read(c)
    BY <2>20 DEF Read
  <2> QED
    BY <1>1, <2>1, <2>2, <2>3, <2>4, <2>5, <2>6, <2>7, <2>8, <2>9, <2>10,
         <2>11, <2>12, <2>13, <2>14, <2>15, <2>16, <2>17, <2>18, <2>19, <2>20
         DEF CallerStep
<1>2. ASSUME ServeStep PROVE RestOK'
  <2>1. CASE ServePoll
    BY <2>1 DEF ServePoll
  <2>2. CASE ServeCtx
    BY <2>2 DEF ServeCtx
  <2>3. CASE ReadLock(Serve)
    BY <2>3 DEF ReadLock
  <2>4. CASE ReadState(Serve)
    BY <2>4 DEF ReadState
  <2>5. CASE ServeRead
    BY <2>5 DEF ServeRead
  <2>6. CASE ServeReadFails
    BY <2>6 DEF ServeReadFails
  <2>7. CASE Discard
    BY <2>7 DEF Discard, Drop, Failed
  <2>8. CASE RespClosed
    BY <2>8 DEF RespClosed, Drop, Failed
  <2>9. CASE HandlerRead
    BY <2>9 DEF HandlerRead
  <2>10. CASE HandlerLock
    BY <2>10 DEF HandlerLock
  <2>11. ASSUME NEW b \in Handler, HandlerStart(b) PROVE RestOK'
    BY <2>11 DEF HandlerStart, EmitOk, EmitErr, StuckWrite, FailWrite
  <2>12. CASE HandlerEnd
    BY <2>12 DEF HandlerEnd, EmitOk, EmitErr, StuckWrite, FailWrite
  <2>13. CASE HandlerTear
    BY <2>13 DEF HandlerTear
  <2>14. CASE HandlerReturn
    BY <2>14 DEF HandlerReturn
  <2>15. CASE NoDefault
    BY <2>15 DEF NoDefault
  <2>16. CASE DefaultLock
    BY <2>16 DEF DefaultLock
  <2>17. CASE DefaultWrite
    BY <2>17 DEF DefaultWrite, EmitOk, EmitErr, StuckWrite, FailWrite
  <2>18. CASE HandlerFlush
    BY <2>18 DEF HandlerFlush, FlushOk, FlushErr, StuckWrite, FailWrite
  <2>19. CASE Skip
    BY <2>19 DEF Skip
  <2>20. CASE Cleanup
    BY <2>20 DEF Cleanup, FlushOk, FlushErr, StuckWrite, FailWrite
  <2>21. CASE ErrorLock
    BY <2>21 DEF ErrorLock
  <2>22. CASE sendError
    BY <2>22 DEF sendError, EmitOk, EmitErr, StuckWrite, FailWrite
  <2>23. CASE ErrorClose
    BY <2>23 DEF ErrorClose, WriteClose
  <2>24. CASE closeInputStream
    BY <2>24 DEF closeInputStream
  <2>25. CASE CloseLock(Serve)
    BY <2>25 DEF CloseLock
  <2>26. CASE closeSession(Serve)
    BY <2>26 DEF closeSession
  <2>27. CASE CloseWrite(Serve)
    BY <2>27 DEF CloseWrite, WriteClose
  <2>28. CASE HandlerMore
    BY <2>28 DEF HandlerMore
  <2>29. CASE SkipFails
    BY <2>29 DEF SkipFails
  <2> QED
    BY <1>2, <2>1, <2>2, <2>3, <2>4, <2>5, <2>6, <2>7, <2>8, <2>9, <2>10,
         <2>11, <2>12, <2>13, <2>14, <2>15, <2>16, <2>17, <2>18, <2>19, <2>20,
         <2>21, <2>22, <2>23, <2>24, <2>25, <2>26, <2>27,
         <2>28, <2>29 DEF ServeStep
<1>3. ASSUME NEW c \in Callers, Deliver(c) PROVE RestOK'
  BY <1>3 DEF Deliver
<1>4. ASSUME NEW c \in Callers, Cancel(c) PROVE RestOK'
  BY <1>4 DEF Cancel
<1>5. ASSUME NEW c \in Callers, NEW k \in Ops, Call(c, k) PROVE RestOK'
  BY <1>5 DEF Call
<1>6. ASSUME NEW g \in 1 .. gen, Expire(g) PROVE RestOK'
  BY <1>6 DEF Expire
<1>7. ASSUME NEW k \in Inputs, PeerSend(k) PROVE RestOK'
  BY <1>7 DEF PeerSend
<1>8. CASE UNCHANGED vars
  BY <1>8 DEF vars
<1> QED
  BY <1>1, <1>2, <1>3, <1>4, <1>5, <1>6, <1>7, <1>8 DEF Next

\* Every step keeps the types of the encoder and the wire; that an end
\* element leaves the depth a natural number needs DepthAbove.
LEMMA EncStep == TypeOK /\ DepthAbove /\ [Next]_vars => EncOK'
<1> SUFFICES ASSUME TypeOK, DepthAbove, [Next]_vars PROVE EncOK'
  OBVIOUS
<1> USE DEF TypeOK, encVars, Pop, Push
<1>1. ASSUME NEW c \in Callers, CallerStep(c) PROVE EncOK'
  <2>1. CASE Register(c)
    BY <2>1 DEF Register, EncOK
  <2>2. CASE LockOut(c)
    BY <2>2 DEF LockOut, EncOK
  <2>3. CASE NoStart(c)
    BY <2>3 DEF NoStart, Sent, EncOK
  <2>4. CASE EncodeRefused(c)
    BY <2>4 DEF EncodeRefused, Sent, EncOK
  <2>5. CASE EncodeStart(c)
    <3>1. Written(c, "start") \in Tokens
      BY DEF Written, What, Op, Procs, PcOK, Tokens, Token, Whats
    <3>2. torn \subseteq Procs \X Nat /\ depth' \in Nat
      BY <2>5 DEF EncodeStart, EncOK
    <3>3. CASE EmitOk(Written(c, "start"))
      BY <3>1, <3>2, <3>3, EmitOkLemma DEF EncOK
    <3>4. CASE EmitErr(Written(c, "start"))
      BY <3>1, <3>2, <3>4, EmitErrLemma DEF EncOK
    <3> QED
      BY <2>5, <3>3, <3>4 DEF EncodeStart
  <2>6. CASE PayloadErr(c)
    BY <2>6 DEF PayloadErr, EncOK, Op, Procs, PcOK
  <2>7. CASE EncodeEnd(c)
    <3>1. Written(c, "end") \in Tokens
      BY DEF Written, What, Op, Procs, PcOK, Tokens, Token, Whats
    <3>2. torn \subseteq Procs \X Nat /\ depth' \in Nat
      BY <2>7 DEF EncodeEnd, EncOK, DepthAbove, Procs
    <3>3. CASE EmitOk(Written(c, "end"))
      BY <3>1, <3>2, <3>3, EmitOkLemma DEF EncOK
    <3>4. CASE EmitErr(Written(c, "end"))
      BY <3>1, <3>2, <3>4, EmitErrLemma DEF EncOK
    <3> QED
      BY <2>7, <3>3, <3>4 DEF EncodeEnd
  <2>8. CASE Flush(c)
    <3>1. Op(c) \in Procs \X Nat
      BY DEF Op, Procs, PcOK
    <3> QED
      BY <2>8, <3>1, FlushOkLemma, FlushErrLemma DEF Flush, EncOK
  <2>9. CASE GiveUp(c)
    BY <2>9 DEF GiveUp, EncOK
  <2>10. CASE Delete(c)
    BY <2>10 DEF Delete, EncOK
  <2>11. CASE CloseResp(c)
    BY <2>11 DEF CloseResp, EncOK
  <2>12. CASE CloseLock(c)
    BY <2>12 DEF CloseLock, EncOK
  <2>13. CASE closeSession(c)
    BY <2>13 DEF closeSession, EncOK
  <2>14. CASE CloseWrite(c)
    <3>1. EncOK /\ (buf' \in Seq(Tokens)) /\ torn' = torn /\ depth' = depth
      BY <2>14 DEF CloseWrite, WriteClose, EncOK
    <3>2. wire' \in Seq(Tokens)
      BY <2>14, WriteCloseLemma DEF CloseWrite, Procs
    <3> QED
      BY <3>1, <3>2 DEF EncOK
  <2>15. CASE SwapCtx(c)
    BY <2>15 DEF SwapCtx, EncOK
  <2>16. CASE CancelCtx(c)
    BY <2>16 DEF CancelCtx, EncOK
  <2>17. CASE SetReadDeadline(c)
    BY <2>17 DEF SetReadDeadline, EncOK
  <2>18. CASE ReadLock(c)
    BY <2>18 DEF ReadLock, EncOK
  <2>19. CASE ReadState(c)
    BY <2>19 DEF ReadState, EncOK
  <2>20. CASE Read(c)
    BY <2>20 DEF Read, EncOK
  <2> QED
    BY <1>1, <2>1, <2>2, <2>3, <2>4, <2>5, <2>6, <2>7, <2>8, <2>9, <2>10,
         <2>11, <2>12, <2>13, <2>14, <2>15, <2>16, <2>17, <2>18, <2>19, <2>20
         DEF CallerStep
<1>2. ASSUME ServeStep PROVE EncOK'
  <2>1. CASE ServePoll
    BY <2>1 DEF ServePoll, EncOK
  <2>2. CASE ServeCtx
    BY <2>2 DEF ServeCtx, EncOK
  <2>3. CASE ReadLock(Serve)
    BY <2>3 DEF ReadLock, EncOK
  <2>4. CASE ReadState(Serve)
    BY <2>4 DEF ReadState, EncOK
  <2>5. CASE ServeRead
    BY <2>5 DEF ServeRead, EncOK
  <2>6. CASE ServeReadFails
    BY <2>6 DEF ServeReadFails, EncOK
  <2>7. CASE Discard
    BY <2>7 DEF Discard, Drop, Failed, EncOK
  <2>8. CASE RespClosed
    BY <2>8 DEF RespClosed, Drop, Failed, EncOK
  <2>9. CASE HandlerRead
    BY <2>9 DEF HandlerRead, EncOK
  <2>10. CASE HandlerLock
    BY <2>10 DEF HandlerLock, EncOK
  <2>11. ASSUME NEW b \in Handler, HandlerStart(b) PROVE EncOK'
    <3>1. Token(ServeSrc, WhatOf(b), "start") \in Tokens
      BY DEF WhatOf, ServeSrc, Procs, InOK, Tokens, Token, Whats
    <3> QED
      BY <2>11, <3>1, EmitOkLemma, EmitErrLemma DEF HandlerStart, EncOK
  <2>12. CASE HandlerEnd
    <3>1. \A v \in {"reply", "raw"} : Token(ServeSrc, v, "end") \in Tokens
      BY DEF ServeSrc, Procs, InOK, Tokens, Token, Whats
    <3>2. depth' \in Nat
      BY <2>12 DEF HandlerEnd, EncOK, DepthAbove, Procs
    <3> QED
      BY <2>12, <3>1, <3>2, EmitOkLemma, EmitErrLemma DEF HandlerEnd, EncOK
  <2>13. CASE HandlerTear
    BY <2>13 DEF HandlerTear, EncOK, ServeSrc, Procs, InOK
  <2>14. CASE HandlerReturn
    BY <2>14 DEF HandlerReturn, EncOK
  <2>15. CASE NoDefault
    BY <2>15 DEF NoDefault, EncOK
  <2>16. CASE DefaultLock
    BY <2>16 DEF DefaultLock, EncOK
  <2>17. CASE DefaultWrite
    <3>1. Token(ServeSrc, "default", "whole") \in Tokens
      BY DEF ServeSrc, Procs, InOK, Tokens, Token, Whats
    <3> QED
      BY <2>17, <3>1, EmitOkLemma, EmitErrLemma DEF DefaultWrite, EncOK
  <2>18. CASE HandlerFlush
    <3>1. ServeSrc \in Procs \X Nat
      BY DEF ServeSrc, Procs, InOK
    <3> QED
      BY <2>18, <3>1, FlushOkLemma, FlushErrLemma DEF HandlerFlush, EncOK
  <2>19. CASE Skip
    BY <2>19 DEF Skip, EncOK
  <2>20. CASE Cleanup
    <3>1. ServeSrc \in Procs \X Nat
      BY DEF ServeSrc, Procs, InOK
    <3> QED
      BY <2>20, <3>1, FlushOkLemma, FlushErrLemma DEF Cleanup, EncOK
  <2>21. CASE ErrorLock
    BY <2>21 DEF ErrorLock, EncOK
  <2>22. CASE sendError
    <3>1. Token(ServeSrc, "error", "whole") \in Tokens
      BY DEF ServeSrc, Procs, InOK, Tokens, Token, Whats
    <3> QED
      BY <2>22, <3>1, EmitOkLemma, EmitErrLemma DEF sendError, EncOK
  <2>23. CASE ErrorClose
    <3>1. EncOK /\ (buf' \in Seq(Tokens)) /\ torn' = torn /\ depth' = depth
      BY <2>23 DEF ErrorClose, WriteClose, EncOK
    <3>2. wire' \in Seq(Tokens)
      BY <2>23, WriteCloseLemma DEF ErrorClose, Procs
    <3> QED
      BY <3>1, <3>2 DEF EncOK
  <2>24. CASE closeInputStream
    BY <2>24 DEF closeInputStream, EncOK
  <2>25. CASE CloseLock(Serve)
    BY <2>25 DEF CloseLock, EncOK
  <2>26. CASE closeSession(Serve)
    BY <2>26 DEF closeSession, EncOK
  <2>27. CASE CloseWrite(Serve)
    <3>1. EncOK /\ (buf' \in Seq(Tokens)) /\ torn' = torn /\ depth' = depth
      BY <2>27 DEF CloseWrite, WriteClose, EncOK
    <3>2. wire' \in Seq(Tokens)
      BY <2>27, WriteCloseLemma DEF CloseWrite, Procs
    <3> QED
      BY <3>1, <3>2 DEF EncOK
  <2>28. CASE HandlerMore
    BY <2>28 DEF HandlerMore, EncOK
  <2>29. CASE SkipFails
    BY <2>29 DEF SkipFails, EncOK
  <2> QED
    BY <1>2, <2>1, <2>2, <2>3, <2>4, <2>5, <2>6, <2>7, <2>8, <2>9, <2>10,
         <2>11, <2>12, <2>13, <2>14, <2>15, <2>16, <2>17, <2>18, <2>19, <2>20,
         <2>21, <2>22, <2>23, <2>24, <2>25, <2>26, <2>27,
         <2>28, <2>29 DEF ServeStep
<1>3. ASSUME NEW c \in Callers, Deliver(c) PROVE EncOK'
  BY <1>3 DEF Deliver, EncOK
<1>4. ASSUME NEW c \in Callers, Cancel(c) PROVE EncOK'
  BY <1>4 DEF Cancel, EncOK
<1>5. ASSUME NEW c \in Callers, NEW k \in Ops, Call(c, k) PROVE EncOK'
  BY <1>5 DEF Call, EncOK
<1>6. ASSUME NEW g \in 1 .. gen, Expire(g) PROVE EncOK'
  BY <1>6 DEF Expire, EncOK
<1>7. ASSUME NEW k \in Inputs, PeerSend(k) PROVE EncOK'
  BY <1>7 DEF PeerSend, EncOK
<1>8. CASE UNCHANGED vars
  BY <1>8 DEF vars, EncOK
<1> QED
  BY <1>1, <1>2, <1>3, <1>4, <1>5, <1>6, <1>7, <1>8 DEF Next

\* Every step keeps the types of the input and of what Serve returns.
LEMMA InStep == TypeOK /\ [Next]_vars => InOK'
<1> SUFFICES ASSUME TypeOK, [Next]_vars PROVE InOK'
  OBVIOUS
<1> USE DEF TypeOK, InOK, Errors, inVars, handVars
<1>1. ASSUME NEW c \in Callers, CallerStep(c) PROVE InOK'
  <2>1. CASE Register(c)
    BY <2>1 DEF Register
  <2>2. CASE LockOut(c)
    BY <2>2 DEF LockOut
  <2>3. CASE NoStart(c)
    BY <2>3 DEF NoStart, Sent
  <2>4. CASE EncodeRefused(c)
    BY <2>4 DEF EncodeRefused, Sent
  <2>5. CASE EncodeStart(c)
    BY <2>5 DEF EncodeStart, Sent
  <2>6. CASE PayloadErr(c)
    BY <2>6 DEF PayloadErr, Sent
  <2>7. CASE EncodeEnd(c)
    BY <2>7 DEF EncodeEnd, Sent
  <2>8. CASE Flush(c)
    BY <2>8 DEF Flush, Sent
  <2>9. CASE GiveUp(c)
    BY <2>9 DEF GiveUp
  <2>10. CASE Delete(c)
    BY <2>10 DEF Delete
  <2>11. CASE CloseResp(c)
    BY <2>11 DEF CloseResp
  <2>12. CASE CloseLock(c)
    BY <2>12 DEF CloseLock
  <2>13. CASE closeSession(c)
    BY <2>13 DEF closeSession
  <2>14. CASE CloseWrite(c)
    BY <2>14 DEF CloseWrite, WriteClose
  <2>15. CASE SwapCtx(c)
    BY <2>15 DEF SwapCtx
  <2>16. CASE CancelCtx(c)
    BY <2>16 DEF CancelCtx
  <2>17. CASE SetReadDeadline(c)
    BY <2>17 DEF SetReadDeadline
  <2>18. CASE ReadLock(c)
    BY <2>18 DEF ReadLock
  <2>19. CASE ReadState(c)
    BY <2>19 DEF ReadState
  <2>20. CASE Read(c)
    <3>1. CASE readers' = readers
      BY <2>20, <3>1 DEF Read
    <3>2. CASE Len(readers) < Len(inq) /\ readers' = Append(readers, c)
      <4>1. readers' \in Seq(Procs) /\ Len(readers') = Len(readers) + 1
        BY <3>2 DEF Procs
      <4> QED
        BY <2>20, <3>2, <4>1 DEF Read
    <3> QED
      BY <2>20, <3>1, <3>2 DEF Read, nread
  <2> QED
    BY <1>1, <2>1, <2>2, <2>3, <2>4, <2>5, <2>6, <2>7, <2>8, <2>9, <2>10,
         <2>11, <2>12, <2>13, <2>14, <2>15, <2>16, <2>17, <2>18, <2>19, <2>20
         DEF CallerStep
<1>2. ASSUME ServeStep PROVE InOK'
  <2>1. CASE ServePoll
    BY <2>1 DEF ServePoll
  <2>2. CASE ServeCtx
    BY <2>2 DEF ServeCtx, CtxErr
  <2>3. CASE ReadLock(Serve)
    BY <2>3 DEF ReadLock
  <2>4. CASE ReadState(Serve)
    BY <2>4 DEF ReadState
  <2>5. CASE ServeRead
    BY <2>5 DEF ServeRead, Failed, ReadErr, nread, Procs
  <2>6. CASE ServeReadFails
    BY <2>6 DEF ServeReadFails, Failed
  <2>7. CASE Discard
    BY <2>7 DEF Discard, Drop, Failed, CutErr
  <2>8. CASE RespClosed
    BY <2>8 DEF RespClosed, Drop, Failed, CutErr
  <2>9. CASE HandlerRead
    BY <2>9 DEF HandlerRead
  <2>10. CASE HandlerLock
    BY <2>10 DEF HandlerLock
  <2>11. ASSUME NEW b \in Handler, HandlerStart(b) PROVE InOK'
    BY <2>11 DEF HandlerStart
  <2>12. CASE HandlerEnd
    BY <2>12 DEF HandlerEnd
  <2>13. CASE HandlerTear
    BY <2>13 DEF HandlerTear
  <2>14. CASE HandlerReturn
    BY <2>14 DEF HandlerReturn
  <2>15. CASE NoDefault
    BY <2>15 DEF NoDefault
  <2>16. CASE DefaultLock
    BY <2>16 DEF DefaultLock
  <2>17. CASE DefaultWrite
    BY <2>17 DEF DefaultWrite
  <2>18. CASE HandlerFlush
    BY <2>18 DEF HandlerFlush
  <2>19. CASE Skip
    BY <2>19 DEF Skip
  <2>20. CASE Cleanup
    BY <2>20 DEF Cleanup
  <2>21. CASE ErrorLock
    BY <2>21 DEF ErrorLock
  <2>22. CASE sendError
    BY <2>22 DEF sendError
  <2>23. CASE ErrorClose
    BY <2>23 DEF ErrorClose, WriteClose
  <2>24. CASE closeInputStream
    BY <2>24 DEF closeInputStream
  <2>25. CASE CloseLock(Serve)
    BY <2>25 DEF CloseLock
  <2>26. CASE closeSession(Serve)
    BY <2>26 DEF closeSession
  <2>27. CASE CloseWrite(Serve)
    BY <2>27 DEF CloseWrite, WriteClose
  <2>28. CASE HandlerMore
    BY <2>28 DEF HandlerMore
  <2>29. CASE SkipFails
    BY <2>29 DEF SkipFails, CutErr
  <2> QED
    BY <1>2, <2>1, <2>2, <2>3, <2>4, <2>5, <2>6, <2>7, <2>8, <2>9, <2>10,
         <2>11, <2>12, <2>13, <2>14, <2>15, <2>16, <2>17, <2>18, <2>19, <2>20,
         <2>21, <2>22, <2>23, <2>24, <2>25, <2>26, <2>27,
         <2>28, <2>29 DEF ServeStep
<1>3. ASSUME NEW c \in Callers, Deliver(c) PROVE InOK'
  BY <1>3 DEF Deliver
<1>4. ASSUME NEW c \in Callers, Cancel(c) PROVE InOK'
  BY <1>4 DEF Cancel
<1>5. ASSUME NEW c \in Callers, NEW k \in Ops, Call(c, k) PROVE InOK'
  BY <1>5 DEF Call
<1>6. ASSUME NEW g \in 1 .. gen, Expire(g) PROVE InOK'
  BY <1>6 DEF Expire
<1>7. ASSUME NEW k \in Inputs, PeerSend(k) PROVE InOK'
  <2>1. PICK o \in IF k = "resp" THEN Requested ELSE {NoOp} :
           inq' = Append(inq, [kind |-> k, op |-> o])
    BY <1>7 DEF PeerSend
  <2>2. \A i \in DOMAIN wire : wire[i].src \in Procs \X Nat
    <3>1. \A i \in DOMAIN wire : wire[i] \in Tokens
      BY DEF EncOK
    <3> QED
      BY <3>1 DEF Tokens
  <2>3. o \in Procs \X Nat
    BY <2>1, <2>2 DEF Requested, NoOp, Procs
  <2>4. k \in InputKinds
    BY OpsAssumption
  <2> QED
    BY <1>7, <2>1, <2>3, <2>4 DEF PeerSend
<1>8. CASE UNCHANGED vars
  BY <1>8 DEF vars
<1> QED
  BY <1>1, <1>2, <1>3, <1>4, <1>5, <1>6, <1>7, <1>8 DEF Next

\* Every step keeps the locks with the goroutines inside the code they
\* guard: a Lock is taken when free, an Unlock done by its holder.
LEMMA LockStep == TypeOK /\ LockInv /\ [Next]_vars => LockInv'
<1> SUFFICES ASSUME TypeOK /\ LockInv, [Next]_vars PROVE LockInv'
  OBVIOUS
<1> USE ProcAssumption, NoneAssumption DEF TypeOK, PcOK, LockOK, FlagOK,
     LockInv, OutFree, HoldsOut, HoldsState, Goto, Procs, lockVars, handVars
<1>1. ASSUME NEW c \in Callers, CallerStep(c) PROVE LockInv'
  <2>1. CASE Register(c)
    BY <2>1 DEF Register
  <2>2. CASE LockOut(c)
    BY <2>2 DEF LockOut
  <2>3. CASE NoStart(c)
    BY <2>3 DEF NoStart, Sent
  <2>4. CASE EncodeRefused(c)
    BY <2>4 DEF EncodeRefused, Sent
  <2>5. CASE EncodeStart(c)
    BY <2>5 DEF EncodeStart, Sent
  <2>6. CASE PayloadErr(c)
    BY <2>6 DEF PayloadErr, Sent
  <2>7. CASE EncodeEnd(c)
    BY <2>7 DEF EncodeEnd, Sent
  <2>8. CASE Flush(c)
    BY <2>8 DEF Flush, Sent
  <2>9. CASE GiveUp(c)
    BY <2>9 DEF GiveUp
  <2>10. CASE Delete(c)
    BY <2>10 DEF Delete
  <2>11. CASE CloseResp(c)
    BY <2>11 DEF CloseResp
  <2>12. CASE CloseLock(c)
    BY <2>12 DEF CloseLock
  <2>13. CASE closeSession(c)
    BY <2>13 DEF closeSession, AfterClose, AlreadyClosed
  <2>14. CASE CloseWrite(c)
    BY <2>14 DEF CloseWrite, AfterClose
  <2>15. CASE SwapCtx(c)
    BY <2>15 DEF SwapCtx
  <2>16. CASE CancelCtx(c)
    BY <2>16 DEF CancelCtx
  <2>17. CASE SetReadDeadline(c)
    BY <2>17 DEF SetReadDeadline
  <2>18. CASE ReadLock(c)
    BY <2>18 DEF ReadLock
  <2>19. CASE ReadState(c)
    BY <2>19 DEF ReadState
  <2>20. CASE Read(c)
    BY <2>20 DEF Read
  <2> QED
    BY <1>1, <2>1, <2>2, <2>3, <2>4, <2>5, <2>6, <2>7, <2>8, <2>9, <2>10,
         <2>11, <2>12, <2>13, <2>14, <2>15, <2>16, <2>17, <2>18, <2>19, <2>20
         DEF CallerStep
<1>2. ASSUME ServeStep PROVE LockInv'
  <2>1. CASE ServePoll
    BY <2>1 DEF ServePoll
  <2>2. CASE ServeCtx
    BY <2>2 DEF ServeCtx
  <2>3. CASE ReadLock(Serve)
    BY <2>3 DEF ReadLock
  <2>4. CASE ReadState(Serve)
    BY <2>4 DEF ReadState
  <2>5. CASE ServeRead
    BY <2>5 DEF ServeRead, Failed
  <2>6. CASE ServeReadFails
    BY <2>6 DEF ServeReadFails, Failed
  <2>7. CASE Discard
    BY <2>7 DEF Discard, Drop, Failed
  <2>8. CASE RespClosed
    BY <2>8 DEF RespClosed, Drop, Failed
  <2>9. CASE HandlerRead
    BY <2>9 DEF HandlerRead
  <2>10. CASE HandlerLock
    BY <2>10 DEF HandlerLock
  <2>11. ASSUME NEW b \in Handler, HandlerStart(b) PROVE LockInv'
    BY <2>11 DEF HandlerStart
  <2>12. CASE HandlerEnd
    BY <2>12 DEF HandlerEnd
  <2>13. CASE HandlerTear
    BY <2>13 DEF HandlerTear
  <2>14. CASE HandlerReturn
    BY <2>14 DEF HandlerReturn
  <2>15. CASE NoDefault
    BY <2>15 DEF NoDefault
  <2>16. CASE DefaultLock
    BY <2>16 DEF DefaultLock
  <2>17. CASE DefaultWrite
    BY <2>17 DEF DefaultWrite
  <2>18. CASE HandlerFlush
    BY <2>18 DEF HandlerFlush
  <2>19. CASE Skip
    BY <2>19 DEF Skip
  <2>20. CASE Cleanup
    BY <2>20 DEF Cleanup
  <2>21. CASE ErrorLock
    BY <2>21 DEF ErrorLock
  <2>22. CASE sendError
    BY <2>22 DEF sendError
  <2>23. CASE ErrorClose
    BY <2>23 DEF ErrorClose
  <2>24. CASE closeInputStream
    BY <2>24 DEF closeInputStream
  <2>25. CASE CloseLock(Serve)
    BY <2>25 DEF CloseLock
  <2>26. CASE closeSession(Serve)
    BY <2>26 DEF closeSession, AfterClose, AlreadyClosed
  <2>27. CASE CloseWrite(Serve)
    BY <2>27 DEF CloseWrite, AfterClose
  <2>28. CASE HandlerMore
    BY <2>28 DEF HandlerMore
  <2>29. CASE SkipFails
    BY <2>29 DEF SkipFails
  <2> QED
    BY <1>2, <2>1, <2>2, <2>3, <2>4, <2>5, <2>6, <2>7, <2>8, <2>9, <2>10,
         <2>11, <2>12, <2>13, <2>14, <2>15, <2>16, <2>17, <2>18, <2>19, <2>20,
         <2>21, <2>22, <2>23, <2>24, <2>25, <2>26, <2>27,
         <2>28, <2>29 DEF ServeStep
<1>3. ASSUME NEW c \in Callers, Deliver(c) PROVE LockInv'
  BY <1>3 DEF Deliver
<1>4. ASSUME NEW c \in Callers, Cancel(c) PROVE LockInv'
  BY <1>4 DEF Cancel
<1>5. ASSUME NEW c \in Callers, NEW k \in Ops, Call(c, k) PROVE LockInv'
  BY <1>5 DEF Call, Entry
<1>6. ASSUME NEW g \in 1 .. gen, Expire(g) PROVE LockInv'
  BY <1>6 DEF Expire
<1>7. ASSUME NEW k \in Inputs, PeerSend(k) PROVE LockInv'
  BY <1>7 DEF PeerSend
<1>8. CASE UNCHANGED vars
  BY <1>8 DEF vars
<1> QED
  BY <1>1, <1>2, <1>3, <1>4, <1>5, <1>6, <1>7, <1>8 DEF Next

\* Only the goroutine inside an element changes the depth, so that the end
\* element it writes matches its own start.
LEMMA DepthAboveStep == TypeOK /\ LockInv /\ DepthAbove /\ [Next]_vars => DepthAbove'
<1> SUFFICES ASSUME TypeOK, LockInv, DepthAbove, [Next]_vars PROVE DepthAbove'
  OBVIOUS
<1> USE ProcAssumption, NoneAssumption DEF TypeOK, PcOK, EncOK, LockInv,
     HoldsOut, DepthAbove, Goto, Procs, Push, Pop
<1>1. ASSUME NEW c \in Callers, CallerStep(c) PROVE DepthAbove'
  <2>1. CASE Register(c)
    BY <2>1 DEF Register
  <2>2. CASE LockOut(c)
    BY <2>2 DEF LockOut
  <2>3. CASE NoStart(c)
    BY <2>3 DEF NoStart, Sent
  <2>4. CASE EncodeRefused(c)
    BY <2>4 DEF EncodeRefused, Sent
  <2>5. CASE EncodeStart(c)
    BY <2>5 DEF EncodeStart, Sent
  <2>6. CASE PayloadErr(c)
    BY <2>6 DEF PayloadErr, Sent
  <2>7. CASE EncodeEnd(c)
    <3>1. out = c /\ \A p \in Procs : p # c => pc'[p] = pc[p]
      BY <2>7 DEF EncodeEnd, Sent
    <3>2. \A p \in Procs : p # c => pc[p] \notin {"end", "hreply", "hother"}
      BY <3>1 DEF Labels
    <3>3. pc'[c] \notin {"end", "hreply", "hother"}
      BY <2>7 DEF EncodeEnd, Sent
    <3> QED
      BY <3>1, <3>2, <3>3
  <2>8. CASE Flush(c)
    BY <2>8 DEF Flush, Sent
  <2>9. CASE GiveUp(c)
    BY <2>9 DEF GiveUp
  <2>10. CASE Delete(c)
    BY <2>10 DEF Delete
  <2>11. CASE CloseResp(c)
    BY <2>11 DEF CloseResp
  <2>12. CASE CloseLock(c)
    BY <2>12 DEF CloseLock
  <2>13. CASE closeSession(c)
    BY <2>13 DEF closeSession, AfterClose, AlreadyClosed
  <2>14. CASE CloseWrite(c)
    BY <2>14 DEF CloseWrite, AfterClose
  <2>15. CASE SwapCtx(c)
    BY <2>15 DEF SwapCtx
  <2>16. CASE CancelCtx(c)
    BY <2>16 DEF CancelCtx
  <2>17. CASE SetReadDeadline(c)
    BY <2>17 DEF SetReadDeadline
  <2>18. CASE ReadLock(c)
    BY <2>18 DEF ReadLock
  <2>19. CASE ReadState(c)
    BY <2>19 DEF ReadState
  <2>20. CASE Read(c)
    BY <2>20 DEF Read
  <2> QED
    BY <1>1, <2>1, <2>2, <2>3, <2>4, <2>5, <2>6, <2>7, <2>8, <2>9, <2>10,
         <2>11, <2>12, <2>13, <2>14, <2>15, <2>16, <2>17, <2>18, <2>19, <2>20
         DEF CallerStep
<1>2. ASSUME ServeStep PROVE DepthAbove'
  <2>1. CASE ServePoll
    BY <2>1 DEF ServePoll
  <2>2. CASE ServeCtx
    BY <2>2 DEF ServeCtx
  <2>3. CASE ReadLock(Serve)
    BY <2>3 DEF ReadLock
  <2>4. CASE ReadState(Serve)
    BY <2>4 DEF ReadState
  <2>5. CASE ServeRead
    BY <2>5 DEF ServeRead, Failed
  <2>6. CASE ServeReadFails
    BY <2>6 DEF ServeReadFails, Failed
  <2>7. CASE Discard
    BY <2>7 DEF Discard, Drop, Failed
  <2>8. CASE RespClosed
    BY <2>8 DEF RespClosed, Drop, Failed
  <2>9. CASE HandlerRead
    BY <2>9 DEF HandlerRead
  <2>10. CASE HandlerLock
    BY <2>10 DEF HandlerLock
  <2>11. ASSUME NEW b \in Handler, HandlerStart(b) PROVE DepthAbove'
    BY <2>11 DEF HandlerStart
  <2>12. CASE HandlerEnd
    <3>1. out = Serve /\ \A p \in Procs : p # Serve => pc'[p] = pc[p]
      BY <2>12 DEF HandlerEnd
    <3>2. \A p \in Procs : p # Serve => pc[p] \notin {"end", "hreply", "hother"}
      BY <3>1 DEF Labels
    <3>3. pc'[Serve] \notin {"end", "hreply", "hother"}
      BY <2>12 DEF HandlerEnd
    <3> QED
      BY <3>1, <3>2, <3>3
  <2>13. CASE HandlerTear
    BY <2>13 DEF HandlerTear
  <2>14. CASE HandlerReturn
    BY <2>14 DEF HandlerReturn
  <2>15. CASE NoDefault
    BY <2>15 DEF NoDefault
  <2>16. CASE DefaultLock
    BY <2>16 DEF DefaultLock
  <2>17. CASE DefaultWrite
    BY <2>17 DEF DefaultWrite
  <2>18. CASE HandlerFlush
    BY <2>18 DEF HandlerFlush
  <2>19. CASE Skip
    BY <2>19 DEF Skip
  <2>20. CASE Cleanup
    BY <2>20 DEF Cleanup
  <2>21. CASE ErrorLock
    BY <2>21 DEF ErrorLock
  <2>22. CASE sendError
    BY <2>22 DEF sendError
  <2>23. CASE ErrorClose
    BY <2>23 DEF ErrorClose
  <2>24. CASE closeInputStream
    BY <2>24 DEF closeInputStream
  <2>25. CASE CloseLock(Serve)
    BY <2>25 DEF CloseLock
  <2>26. CASE closeSession(Serve)
    BY <2>26 DEF closeSession, AfterClose, AlreadyClosed
  <2>27. CASE CloseWrite(Serve)
    BY <2>27 DEF CloseWrite, AfterClose
  <2>28. CASE HandlerMore
    BY <2>28 DEF HandlerMore
  <2>29. CASE SkipFails
    BY <2>29 DEF SkipFails
  <2> QED
    BY <1>2, <2>1, <2>2, <2>3, <2>4, <2>5, <2>6, <2>7, <2>8, <2>9, <2>10,
         <2>11, <2>12, <2>13, <2>14, <2>15, <2>16, <2>17, <2>18, <2>19, <2>20,
         <2>21, <2>22, <2>23, <2>24, <2>25, <2>26, <2>27,
         <2>28, <2>29 DEF ServeStep
<1>3. ASSUME NEW c \in Callers, Deliver(c) PROVE DepthAbove'
  BY <1>3 DEF Deliver
<1>4. ASSUME NEW c \in Callers, Cancel(c) PROVE DepthAbove'
  BY <1>4 DEF Cancel
<1>5. ASSUME NEW c \in Callers, NEW k \in Ops, Call(c, k) PROVE DepthAbove'
  BY <1>5 DEF Call, Entry
<1>6. ASSUME NEW g \in 1 .. gen, Expire(g) PROVE DepthAbove'
  BY <1>6 DEF Expire
<1>7. ASSUME NEW k \in Inputs, PeerSend(k) PROVE DepthAbove'
  BY <1>7 DEF PeerSend
<1>8. CASE UNCHANGED vars
  BY <1>8 DEF vars
<1> QED
  BY <1>1, <1>2, <1>3, <1>4, <1>5, <1>6, <1>7, <1>8 DEF Next

\* Every step keeps the flag ahead of the end tag: it is set under the
\* state mutex, and the tag is written only by who set it.
LEMMA CloseStep == TypeOK /\ LockInv /\ CloseInv /\ [Next]_vars => CloseInv'
<1> SUFFICES ASSUME TypeOK /\ LockInv /\ CloseInv, [Next]_vars PROVE CloseInv'
  OBVIOUS
<1> USE ProcAssumption, NoneAssumption DEF TypeOK, PcOK, HoldsState,
     Goto, Procs, lockVars, flagVars, encVars
<1>1. ASSUME NEW c \in Callers, CallerStep(c) PROVE CloseInv'
  <2>1. CASE Register(c)
    BY <2>1 DEF Register, CloseInv, CloseTagOnce
  <2>2. CASE LockOut(c)
    BY <2>2 DEF LockOut, CloseInv, CloseTagOnce
  <2>3. CASE NoStart(c)
    BY <2>3 DEF NoStart, Sent, CloseInv, CloseTagOnce
  <2>4. CASE EncodeRefused(c)
    BY <2>4 DEF EncodeRefused, Sent, CloseInv, CloseTagOnce
  <2>5. CASE EncodeStart(c)
    <3>1. Written(c, "start") \in Tokens /\ ~IsClose(Written(c, "start"))
      BY DEF IsClose, Written, What, Op, Procs, PcOK, Tokens, Token, Whats
    <3>2. NoCloseInBuf
      BY DEF CloseInv, NoCloseInBuf
    <3>3. Extends
      BY <2>5, <3>1, <3>2, EmitOkLemma, EmitErrLemma DEF EncodeStart
    <3>4. outClosed' = outClosed /\ st' = st
      BY <2>5 DEF EncodeStart, Sent
    <3>5. \A p \in Procs : HoldsState(p)' => HoldsState(p)
      BY <2>5 DEF EncodeStart, Sent
    <3> QED
      BY <3>3, <3>4, <3>5, ExtendsLemma DEF CloseInv
  <2>6. CASE PayloadErr(c)
    BY <2>6 DEF PayloadErr, Sent, CloseInv, CloseTagOnce
  <2>7. CASE EncodeEnd(c)
    <3>1. Written(c, "end") \in Tokens /\ ~IsClose(Written(c, "end"))
      BY DEF IsClose, Written, What, Op, Procs, PcOK, Tokens, Token, Whats
    <3>2. NoCloseInBuf
      BY DEF CloseInv, NoCloseInBuf
    <3>3. Extends
      BY <2>7, <3>1, <3>2, EmitOkLemma, EmitErrLemma DEF EncodeEnd
    <3>4. outClosed' = outClosed /\ st' = st
      BY <2>7 DEF EncodeEnd, Sent
    <3>5. \A p \in Procs : HoldsState(p)' => HoldsState(p)
      BY <2>7 DEF EncodeEnd, Sent
    <3> QED
      BY <3>3, <3>4, <3>5, ExtendsLemma DEF CloseInv
  <2>8. CASE Flush(c)
    <3>1. Op(c) \in Procs \X Nat
      BY DEF Op, Procs, PcOK
    <3>2. NoCloseInBuf
      BY DEF CloseInv, NoCloseInBuf
    <3>3. Extends
      BY <2>8, <3>1, <3>2, FlushOkLemma, FlushErrLemma DEF Flush
    <3>4. outClosed' = outClosed /\ st' = st
      BY <2>8 DEF Flush, Sent
    <3>5. \A p \in Procs : HoldsState(p)' => HoldsState(p)
      BY <2>8 DEF Flush, Sent
    <3> QED
      BY <3>3, <3>4, <3>5, ExtendsLemma DEF CloseInv
  <2>9. CASE GiveUp(c)
    BY <2>9 DEF GiveUp, CloseInv, CloseTagOnce
  <2>10. CASE Delete(c)
    BY <2>10 DEF Delete, CloseInv, CloseTagOnce
  <2>11. CASE CloseResp(c)
    BY <2>11 DEF CloseResp, CloseInv, CloseTagOnce
  <2>12. CASE CloseLock(c)
    BY <2>12 DEF CloseLock, CloseInv, CloseTagOnce
  <2>13. CASE closeSession(c)
    <3>1. UNCHANGED <<buf, wire>> /\ (outClosed => outClosed' /\ st' = st)
      BY <2>13 DEF closeSession, AlreadyClosed, encVars
    <3>2. \A p \in Procs : HoldsState(p)' => HoldsState(p) \/ outClosed'
      BY <2>13 DEF closeSession, AlreadyClosed, AfterClose
    <3> QED
      BY <3>1, <3>2 DEF CloseInv, CloseTagOnce
  <2>14. CASE CloseWrite(c)
    <3> HIDE DEF TypeOK, PcOK, HoldsState, Goto, Procs, flagVars
    <3>1. c \in Procs /\ HoldsState(c) /\ Goto(c, "idle")
      BY <2>14 DEF CloseWrite, AfterClose, HoldsState, Procs
    <3>2. WriteClose(c, serr \notin {"nil", "eof"}) /\ flagVars' =
         flagVars /\ st' = None
      BY <2>14 DEF CloseWrite
    <3> QED
      BY <3>1, <3>2, WriteCloseStep
  <2>15. CASE SwapCtx(c)
    BY <2>15 DEF SwapCtx, CloseInv, CloseTagOnce
  <2>16. CASE CancelCtx(c)
    BY <2>16 DEF CancelCtx, CloseInv, CloseTagOnce
  <2>17. CASE SetReadDeadline(c)
    BY <2>17 DEF SetReadDeadline, CloseInv, CloseTagOnce
  <2>18. CASE ReadLock(c)
    BY <2>18 DEF ReadLock, CloseInv, CloseTagOnce
  <2>19. CASE ReadState(c)
    BY <2>19 DEF ReadState, CloseInv, CloseTagOnce
  <2>20. CASE Read(c)
    BY <2>20 DEF Read, CloseInv, CloseTagOnce
  <2> QED
    BY <1>1, <2>1, <2>2, <2>3, <2>4, <2>5, <2>6, <2>7, <2>8, <2>9, <2>10,
         <2>11, <2>12, <2>13, <2>14, <2>15, <2>16, <2>17, <2>18, <2>19, <2>20
         DEF CallerStep
<1>2. ASSUME ServeStep PROVE CloseInv'
  <2>1. CASE ServePoll
    BY <2>1 DEF ServePoll, CloseInv, CloseTagOnce
  <2>2. CASE ServeCtx
    BY <2>2 DEF ServeCtx, CloseInv, CloseTagOnce
  <2>3. CASE ReadLock(Serve)
    BY <2>3 DEF ReadLock, CloseInv, CloseTagOnce
  <2>4. CASE ReadState(Serve)
    BY <2>4 DEF ReadState, CloseInv, CloseTagOnce
  <2>5. CASE ServeRead
    BY <2>5 DEF ServeRead, Failed, CloseInv, CloseTagOnce
  <2>6. CASE ServeReadFails
    BY <2>6 DEF ServeReadFails, Failed, CloseInv, CloseTagOnce
  <2>7. CASE Discard
    BY <2>7 DEF Discard, Drop, Failed, CloseInv, CloseTagOnce
  <2>8. CASE RespClosed
    BY <2>8 DEF RespClosed, Drop, Failed, CloseInv, CloseTagOnce
  <2>9. CASE HandlerRead
    BY <2>9 DEF HandlerRead, CloseInv, CloseTagOnce
  <2>10. CASE HandlerLock
    BY <2>10 DEF HandlerLock, CloseInv, CloseTagOnce
  <2>11. ASSUME NEW b \in Handler, HandlerStart(b) PROVE CloseInv'
    <3>1. Token(ServeSrc, WhatOf(b), "start") \in Tokens /\
         ~IsClose(Token(ServeSrc, WhatOf(b), "start"))
      BY DEF WhatOf, IsClose, ServeSrc, Procs, InOK, Tokens, Token, Whats
    <3>2. NoCloseInBuf
      BY DEF CloseInv, NoCloseInBuf
    <3>3. Extends
      BY <2>11, <3>1, <3>2, EmitOkLemma, EmitErrLemma, UnchangedLemma DEF
           HandlerStart
    <3>4. outClosed' = outClosed /\ st' = st
      BY <2>11 DEF HandlerStart
    <3>5. \A p \in Procs : HoldsState(p)' => HoldsState(p)
      BY <2>11 DEF HandlerStart
    <3> QED
      BY <3>3, <3>4, <3>5, ExtendsLemma DEF CloseInv
  <2>12. CASE HandlerEnd
    <3>1. \A v \in {"reply", "raw"} : Token(ServeSrc, v, "end") \in
         Tokens /\ ~IsClose(Token(ServeSrc, v, "end"))
      BY DEF IsClose, ServeSrc, Procs, InOK, Tokens, Token, Whats
    <3>2. NoCloseInBuf
      BY DEF CloseInv, NoCloseInBuf
    <3>3. Extends
      BY <2>12, <3>1, <3>2, EmitOkLemma, EmitErrLemma DEF HandlerEnd
    <3>4. outClosed' = outClosed /\ st' = st
      BY <2>12 DEF HandlerEnd
    <3>5. \A p \in Procs : HoldsState(p)' => HoldsState(p)
      BY <2>12 DEF HandlerEnd
    <3> QED
      BY <3>3, <3>4, <3>5, ExtendsLemma DEF CloseInv
  <2>13. CASE HandlerTear
    BY <2>13 DEF HandlerTear, CloseInv, CloseTagOnce
  <2>14. CASE HandlerReturn
    BY <2>14 DEF HandlerReturn, CloseInv, CloseTagOnce
  <2>15. CASE NoDefault
    BY <2>15 DEF NoDefault, CloseInv, CloseTagOnce
  <2>16. CASE DefaultLock
    BY <2>16 DEF DefaultLock, CloseInv, CloseTagOnce
  <2>17. CASE DefaultWrite
    <3>1. Token(ServeSrc, "default", "whole") \in Tokens /\
         ~IsClose(Token(ServeSrc, "default", "whole"))
      BY DEF IsClose, ServeSrc, Procs, InOK, Tokens, Token, Whats
    <3>2. NoCloseInBuf
      BY DEF CloseInv, NoCloseInBuf
    <3>3. Extends
      BY <2>17, <3>1, <3>2, EmitOkLemma, EmitErrLemma, UnchangedLemma DEF
           DefaultWrite
    <3>4. outClosed' = outClosed /\ st' = st
      BY <2>17 DEF DefaultWrite
    <3>5. \A p \in Procs : HoldsState(p)' => HoldsState(p)
      BY <2>17 DEF DefaultWrite
    <3> QED
      BY <3>3, <3>4, <3>5, ExtendsLemma DEF CloseInv
  <2>18. CASE HandlerFlush
    <3>1. ServeSrc \in Procs \X Nat
      BY DEF ServeSrc, Procs, InOK
    <3>2. NoCloseInBuf
      BY DEF CloseInv, NoCloseInBuf
    <3>3. Extends
      BY <2>18, <3>1, <3>2, FlushOkLemma, FlushErrLemma, UnchangedLemma
           DEF HandlerFlush
    <3>4. outClosed' = outClosed /\ st' = st
      BY <2>18 DEF HandlerFlush
    <3>5. \A p \in Procs : HoldsState(p)' => HoldsState(p)
      BY <2>18 DEF HandlerFlush
    <3> QED
      BY <3>3, <3>4, <3>5, ExtendsLemma DEF CloseInv
  <2>19. CASE Skip
    BY <2>19 DEF Skip, CloseInv, CloseTagOnce
  <2>20. CASE Cleanup
    <3>1. ServeSrc \in Procs \X Nat
      BY DEF ServeSrc, Procs, InOK
    <3>2. NoCloseInBuf
      BY DEF CloseInv, NoCloseInBuf
    <3>3. Extends
      BY <2>20, <3>1, <3>2, FlushOkLemma, FlushErrLemma, UnchangedLemma
           DEF Cleanup
    <3>4. outClosed' = outClosed /\ st' = st
      BY <2>20 DEF Cleanup
    <3>5. \A p \in Procs : HoldsState(p)' => HoldsState(p)
      BY <2>20 DEF Cleanup
    <3> QED
      BY <3>3, <3>4, <3>5, ExtendsLemma DEF CloseInv
  <2>21. CASE ErrorLock
    BY <2>21 DEF ErrorLock, CloseInv, CloseTagOnce
  <2>22. CASE sendError
    <3>1. Token(ServeSrc, "error", "whole") \in Tokens /\
         ~IsClose(Token(ServeSrc, "error", "whole"))
      BY DEF IsClose, ServeSrc, Procs, InOK, Tokens, Token, Whats
    <3>2. NoCloseInBuf
      BY DEF CloseInv, NoCloseInBuf
    <3>3. Extends
      BY <2>22, <3>1, <3>2, EmitOkLemma, EmitErrLemma, UnchangedLemma DEF
           sendError
    <3>4. outClosed => outClosed' /\ st' = st
      BY <2>22 DEF sendError
    <3>5. \A p \in Procs : HoldsState(p)' => HoldsState(p) \/ outClosed'
      BY <2>22 DEF sendError
    <3>6. outClosed => outClosed'
      BY <3>4
    <3> QED
      BY <3>3, <3>4, <3>5, <3>6, ExtendsLemma DEF CloseInv
  <2>23. CASE ErrorClose
    <3> HIDE DEF TypeOK, PcOK, HoldsState, Goto, Procs, flagVars
    <3>1. Serve \in Procs /\ HoldsState(Serve) /\ Goto(Serve, "fin")
      BY <2>23 DEF ErrorClose, AfterClose, HoldsState, Procs
    <3>2. WriteClose(Serve, FALSE) /\ flagVars' = flagVars /\ st' = None
      BY <2>23 DEF ErrorClose
    <3> QED
      BY <3>1, <3>2, WriteCloseStep
  <2>24. CASE closeInputStream
    BY <2>24 DEF closeInputStream, CloseInv, CloseTagOnce
  <2>25. CASE CloseLock(Serve)
    BY <2>25 DEF CloseLock, CloseInv, CloseTagOnce
  <2>26. CASE closeSession(Serve)
    <3>1. UNCHANGED <<buf, wire>> /\ (outClosed => outClosed' /\ st' = st)
      BY <2>26 DEF closeSession, AlreadyClosed, encVars
    <3>2. \A p \in Procs : HoldsState(p)' => HoldsState(p) \/ outClosed'
      BY <2>26 DEF closeSession, AlreadyClosed, AfterClose
    <3> QED
      BY <3>1, <3>2 DEF CloseInv, CloseTagOnce
  <2>27. CASE CloseWrite(Serve)
    <3> HIDE DEF TypeOK, PcOK, HoldsState, Goto, Procs, flagVars
    <3>1. Serve \in Procs /\ HoldsState(Serve) /\ Goto(Serve, "done")
      BY <2>27 DEF CloseWrite, AfterClose, HoldsState, Procs
    <3>2. WriteClose(Serve, serr \notin {"nil", "eof"}) /\ flagVars' =
         flagVars /\ st' = None
      BY <2>27 DEF CloseWrite
    <3> QED
      BY <3>1, <3>2, WriteCloseStep
  <2>28. CASE HandlerMore
    BY <2>28 DEF HandlerMore, CloseInv, CloseTagOnce
  <2>29. CASE SkipFails
    BY <2>29 DEF SkipFails, CloseInv, CloseTagOnce
  <2> QED
    BY <1>2, <2>1, <2>2, <2>3, <2>4, <2>5, <2>6, <2>7, <2>8, <2>9, <2>10,
         <2>11, <2>12, <2>13, <2>14, <2>15, <2>16, <2>17, <2>18, <2>19, <2>20,
         <2>21, <2>22, <2>23, <2>24, <2>25, <2>26, <2>27,
         <2>28, <2>29 DEF ServeStep
<1>3. ASSUME NEW c \in Callers, Deliver(c) PROVE CloseInv'
  BY <1>3 DEF Deliver, CloseInv, CloseTagOnce
<1>4. ASSUME NEW c \in Callers, Cancel(c) PROVE CloseInv'
  BY <1>4 DEF Cancel, CloseInv, CloseTagOnce
<1>5. ASSUME NEW c \in Callers, NEW k \in Ops, Call(c, k) PROVE CloseInv'
  BY <1>5 DEF Call, Entry, CloseInv, CloseTagOnce
<1>6. ASSUME NEW g \in 1 .. gen, Expire(g) PROVE CloseInv'
  BY <1>6 DEF Expire, CloseInv, CloseTagOnce
<1>7. ASSUME NEW k \in Inputs, PeerSend(k) PROVE CloseInv'
  BY <1>7 DEF PeerSend, CloseInv, CloseTagOnce
<1>8. CASE UNCHANGED vars
  BY <1>8 DEF vars, CloseInv, CloseTagOnce
<1> QED
  BY <1>1, <1>2, <1>3, <1>4, <1>5, <1>6, <1>7, <1>8 DEF Next

\* Every step keeps sentStanzas, the response channels and the input
\* lock in agreement with the places of sendResp and Serve.
LEMMA RespStep == TypeOK /\ RespInv /\ [Next]_vars => RespInv'
<1> SUFFICES ASSUME TypeOK /\ RespInv, [Next]_vars PROVE RespInv'
  OBVIOUS
<1> USE ProcAssumption, NoneAssumption DEF RespInv, InLockInv, ChanInv,
     KindInv, NoStaleEntry, SerialResponse, CtxEnded, Deleted, Released,
     RespOK, OpIds, TypeOK, PcOK, InOK, LockOK, Goto, Procs, Op, elem,
     lockVars, inVars, respVars
<1>1. ASSUME NEW c \in Callers, CallerStep(c) PROVE RespInv'
  <2>1. CASE Register(c)
    BY <2>1 DEF Register
  <2>2. CASE LockOut(c)
    BY <2>2 DEF LockOut
  <2>3. CASE NoStart(c)
    BY <2>3 DEF NoStart, Sent
  <2>4. CASE EncodeRefused(c)
    BY <2>4 DEF EncodeRefused, Sent
  <2>5. CASE EncodeStart(c)
    BY <2>5, ZenonT(30) DEF EncodeStart, Sent
  <2>6. CASE PayloadErr(c)
    BY <2>6, SMTT(30) DEF PayloadErr, Sent
  <2>7. CASE EncodeEnd(c)
    BY <2>7 DEF EncodeEnd, Sent
  <2>8. CASE Flush(c)
    BY <2>8, ZenonT(30) DEF Flush, Sent
  <2>9. CASE GiveUp(c)
    BY <2>9 DEF GiveUp
  <2>10. CASE Delete(c)
    BY <2>10 DEF Delete
  <2>11. CASE CloseResp(c)
    BY <2>11 DEF CloseResp
  <2>12. CASE CloseLock(c)
    BY <2>12 DEF CloseLock
  <2>13. CASE closeSession(c)
    BY <2>13 DEF closeSession, AfterClose, AlreadyClosed
  <2>14. CASE CloseWrite(c)
    BY <2>14 DEF CloseWrite, AfterClose
  <2>15. CASE SwapCtx(c)
    BY <2>15 DEF SwapCtx
  <2>16. CASE CancelCtx(c)
    BY <2>16 DEF CancelCtx
  <2>17. CASE SetReadDeadline(c)
    BY <2>17 DEF SetReadDeadline
  <2>18. CASE ReadLock(c)
    BY <2>18 DEF ReadLock
  <2>19. CASE ReadState(c)
    BY <2>19, ZenonT(30) DEF ReadState
  <2>20. CASE Read(c)
    BY <2>20 DEF Read
  <2> QED
    BY <1>1, <2>1, <2>2, <2>3, <2>4, <2>5, <2>6, <2>7, <2>8, <2>9, <2>10,
         <2>11, <2>12, <2>13, <2>14, <2>15, <2>16, <2>17, <2>18, <2>19, <2>20
         DEF CallerStep
<1>2. ASSUME ServeStep PROVE RespInv'
  <2>1. CASE ServePoll
    BY <2>1 DEF ServePoll
  <2>2. CASE ServeCtx
    BY <2>2 DEF ServeCtx
  <2>3. CASE ReadLock(Serve)
    BY <2>3 DEF ReadLock
  <2>4. CASE ReadState(Serve)
    BY <2>4 DEF ReadState
  <2>5. CASE ServeRead
    <3>1. \A c \in Callers : pc'[c] = pc[c] /\ pc[c] \notin {"rstate",
         "rtoken"}
      BY <2>5 DEF ServeRead, Failed
    <3>2. cur' > 0
      BY <2>5 DEF ServeRead, nread
    <3>3. pc'[Serve] \in {"loop", "fin", "elock"} \/ in' = in
      BY <2>5 DEF ServeRead, Failed
    <3> QED
      BY <2>5, <3>1, <3>2, <3>3 DEF ServeRead
  <2>6. CASE ServeReadFails
    BY <2>6 DEF ServeReadFails, Failed
  <2>7. CASE Discard
    BY <2>7 DEF Discard, Drop, Failed
  <2>8. CASE RespClosed
    <3>1. pc[Serve] = "await" /\ elem.op \in chClosed /\ in = Serve
      BY <2>8 DEF RespClosed, Released
    <3>2. \A c \in Callers : pc'[c] = pc[c] /\ pc[c] \notin {"rdel", "resp", "rstate", "rtoken"}
      BY <2>8, <3>1, SMTT(30) DEF RespClosed, Drop, Failed
    <3>3. pc'[Serve] \in {"loop", "fin", "elock"}
      BY <2>8 DEF RespClosed, Drop, Failed
    <3> QED
      BY <2>8, <3>2, <3>3 DEF RespClosed
  <2>9. CASE HandlerRead
    BY <2>9 DEF HandlerRead
  <2>10. CASE HandlerLock
    BY <2>10 DEF HandlerLock
  <2>11. ASSUME NEW b \in Handler, HandlerStart(b) PROVE RespInv'
    BY <2>11 DEF HandlerStart
  <2>12. CASE HandlerEnd
    BY <2>12 DEF HandlerEnd
  <2>13. CASE HandlerTear
    BY <2>13 DEF HandlerTear
  <2>14. CASE HandlerReturn
    BY <2>14 DEF HandlerReturn
  <2>15. CASE NoDefault
    BY <2>15 DEF NoDefault
  <2>16. CASE DefaultLock
    BY <2>16 DEF DefaultLock
  <2>17. CASE DefaultWrite
    BY <2>17 DEF DefaultWrite
  <2>18. CASE HandlerFlush
    BY <2>18 DEF HandlerFlush
  <2>19. CASE Skip
    BY <2>19 DEF Skip
  <2>20. CASE Cleanup
    BY <2>20 DEF Cleanup
  <2>21. CASE ErrorLock
    BY <2>21 DEF ErrorLock
  <2>22. CASE sendError
    BY <2>22 DEF sendError
  <2>23. CASE ErrorClose
    BY <2>23 DEF ErrorClose
  <2>24. CASE closeInputStream
    BY <2>24 DEF closeInputStream
  <2>25. CASE CloseLock(Serve)
    BY <2>25 DEF CloseLock
  <2>26. CASE closeSession(Serve)
    BY <2>26 DEF closeSession, AfterClose, AlreadyClosed
  <2>27. CASE CloseWrite(Serve)
    BY <2>27 DEF CloseWrite, AfterClose
  <2>28. CASE HandlerMore
    BY <2>28 DEF HandlerMore
  <2>29. CASE SkipFails
    BY <2>29 DEF SkipFails
  <2> QED
    BY <1>2, <2>1, <2>2, <2>3, <2>4, <2>5, <2>6, <2>7, <2>8, <2>9, <2>10,
         <2>11, <2>12, <2>13, <2>14, <2>15, <2>16, <2>17, <2>18, <2>19, <2>20,
         <2>21, <2>22, <2>23, <2>24, <2>25, <2>26, <2>27,
         <2>28, <2>29 DEF ServeStep
<1>3. ASSUME NEW c \in Callers, Deliver(c) PROVE RespInv'
  BY <1>3 DEF Deliver
<1>4. ASSUME NEW c \in Callers, Cancel(c) PROVE RespInv'
  BY <1>4 DEF Cancel
<1>5. ASSUME NEW c \in Callers, NEW k \in Ops, Call(c, k) PROVE RespInv'
  BY <1>5, SMTT(30) DEF Call, Entry
<1>6. ASSUME NEW g \in 1 .. gen, Expire(g) PROVE RespInv'
  BY <1>6 DEF Expire
<1>7. ASSUME NEW k \in Inputs, PeerSend(k) PROVE RespInv'
  BY <1>7 DEF PeerSend
<1>8. CASE UNCHANGED vars
  BY <1>8 DEF vars
<1> QED
  BY <1>1, <1>2, <1>3, <1>4, <1>5, <1>6, <1>7, <1>8 DEF Next


-----------------------------------------------------------------------------
(* The theorems.                                                           *)

\* Every step keeps all types.
LEMMA TypeStep == TypeOK /\ DepthAbove /\ [Next]_vars => TypeOK'
<1> SUFFICES ASSUME TypeOK, DepthAbove, [Next]_vars PROVE TypeOK'
  OBVIOUS
<1> QED
  BY PcStep, RestStep, EncStep, InStep DEF TypeOK, RestOK

\* A new session has the right types.
LEMMA InitType == Init => TypeOK
<1> SUFFICES ASSUME Init PROVE TypeOK
  OBVIOUS
<1> USE ProcAssumption, NoneAssumption DEF Init
<1>1. PcOK
  BY DEF PcOK, Procs, Labels, ServeLabels, OpKinds
<1>2. LockOK /\ FlagOK /\ RespOK
  BY DEF LockOK, FlagOK, RespOK
<1>3. EncOK
  BY DEF EncOK
<1>4. InOK
  BY DEF InOK, Errors
<1>5. DlOK
  BY DEF DlOK
<1> QED
  BY <1>1, <1>2, <1>3, <1>4, <1>5 DEF TypeOK

\* A new session holds no lock, no request and has written nothing.
LEMMA InitInv == Init => LockInv /\ CloseInv /\ RespInv
<1> SUFFICES ASSUME Init PROVE LockInv /\ CloseInv /\ RespInv
  OBVIOUS
<1> USE ProcAssumption, NoneAssumption DEF Init, Procs
<1>1. LockInv
  BY DEF LockInv, HoldsOut, HoldsState
<1>2. CloseInv
  BY DEF CloseInv, CloseTagOnce, HoldsState
<1>3. RespInv
  BY DEF RespInv, InLockInv, ChanInv, KindInv, NoStaleEntry, SerialResponse
<1> QED
  BY <1>1, <1>2, <1>3

\* The invariant from which types and locks follow: that the depth stays a
\* natural number needs the lock.
CoreInv == TypeOK /\ LockInv /\ DepthAbove

\* The invariant of types, locks and depth holds from the start on.
LEMMA CoreInvariant == Spec => []CoreInv
<1>1. Init => CoreInv
  BY InitType, InitInv DEF CoreInv, DepthAbove, Init
<1>2. CoreInv /\ [Next]_vars => CoreInv'
  BY TypeStep, LockStep, DepthAboveStep DEF CoreInv
<1> QED
  BY <1>1, <1>2, PTL DEF Spec

(* Every variable keeps its type, whatever the callers, the operations     *)
(* and the inputs; the encoder's depth never falls below the top level.    *)
THEOREM TypeCorrect == Spec => []TypeOK
<1>1. CoreInv => TypeOK
  BY DEF CoreInv
<1> QED
  BY <1>1, CoreInvariant, PTL

(* The output lock and the state mutex belong to the goroutine inside the  *)
(* sections of code they guard, for any number of callers.                 *)
THEOREM LocksExclusive == Spec => []LockInv
<1>1. CoreInv => LockInv
  BY DEF CoreInv
<1> QED
  BY <1>1, CoreInvariant, PTL

(* Whatever Close, sendError and the end of Serve race with, the peer gets *)
(* at most one stream end tag.                                             *)
THEOREM ClosesOnce == Spec => []CloseTagOnce
<1>1. Init => CloseInv
  BY InitInv
<1>2. TypeOK /\ LockInv /\ CloseInv /\ [Next]_vars => CloseInv'
  BY CloseStep
<1>3. CloseInv => CloseTagOnce
  BY DEF CloseInv
<1> QED
  BY <1>1, <1>2, <1>3, TypeCorrect, LocksExclusive, PTL DEF Spec

(* sentStanzas holds only requests whose sendResp is running, and whoever  *)
(* has been given a response is the only one the input waits for.          *)
THEOREM ResponsesOwned == Spec => []RespInv
<1>1. Init => RespInv
  BY InitInv
<1>2. TypeOK /\ RespInv /\ [Next]_vars => RespInv'
  BY RespStep
<1> QED
  BY <1>1, <1>2, TypeCorrect, PTL DEF Spec

\* sentStanzas never keeps a request whose sendResp has returned, for
\* any number of callers and requests.
THEOREM NoEntryLeaks == Spec => []NoStaleEntry
<1>1. RespInv => NoStaleEntry
  BY DEF RespInv
<1> QED
  BY <1>1, ResponsesOwned, PTL

\* While a caller has a response Serve waits for that one and keeps
\* the input, for any number of callers and requests.
THEOREM ResponsesSerial == Spec => []SerialResponse
<1>1. RespInv => SerialResponse
  BY DEF RespInv
<1> QED
  BY <1>1, ResponsesOwned, PTL

=============================================================================
