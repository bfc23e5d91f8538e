------------------------------ MODULE IbbProofs ------------------------------
(***************************************************************************)
(* Proofs about one in-band bytestream, for every block size, every number *)
(* of bytes written, every bound on the read buffer and every range of     *)
(* sequence numbers.                                                       *)
(***************************************************************************)
EXTENDS Ibb, FiniteSetTheorems, SequenceTheorems, TLAPS

Working == {"send", "wait", "result", "error"}

\* The types, and what they need besides themselves: a goroutine has a chunk to
\* write while it is writing, what it will leave to the encoder is not more
\* than a group, and an answer is for somebody.
GoodConn(c) == c \in ConnType /\ Len(c.wbuf) <= BlockSize /\ Len(c.fringe) <= Group
GoodJob(r, j) ==
    /\ j \in JobType
    /\ j.todo # <<>> <=> j.pc \in Working
    /\ Len(j.left) <= Group
    /\ r = "writer" => j.pc \in {"idle", "lock"} \cup Working /\ j.op # "tail"
    /\ j.pc = "lock" => j.op # "tail"
Stanzas == {m \in StanzaType : m.kind \in {"result", "error"} => m.by \in Roles}

ConnTypes == conn = [e \in Ends |-> conn[e]] /\ \A e \in Ends : GoodConn(conn[e])
JobTypes ==
    /\ job = [e \in Ends |-> [r \in Roles |-> job[e][r]]]
    /\ \A e \in Ends : \A r \in Roles : GoodJob(r, job[e][r])
ChanTypes == chan \in [Ends -> Seq(Stanzas)]
RestTypes ==
    /\ rpc \in [Ends -> {"idle", "unlocked", "waiting", "woken", "eof"}]
    /\ serve \in [Ends -> {"run", "closing", "ended"}]
    /\ written \in [Ends -> Nat] /\ got \in [Ends -> Bytes]
    /\ panic \in [Ends -> BOOLEAN] /\ raced \in [Ends -> BOOLEAN] /\ flushed \in [Ends -> Nat]
TypeInv == params \in Streams /\ ConnTypes /\ JobTypes /\ ChanTypes /\ RestTypes

----------------------------------------------------------------------------
(* The encoder.                                                            *)

\* The ends are two.
LEMMA OtherEnd ==
    ASSUME NEW e \in Ends
    PROVE  /\ Other(e) \in Ends /\ Other(e) # e /\ Other(Other(e)) = e
           /\ \A x \in Ends : x = e \/ x = Other(e)
BY DEF Ends, Other

\* The parameters of a stream.
LEMMA Parameters ==
    ASSUME params \in Streams
    PROVE  /\ BlockSize \in Nat \ {0} /\ Group \in Nat \ {0} /\ Acked \in BOOLEAN
           /\ MaxBytes \in Nat /\ Closers \in SUBSET Ends
BY StreamAssumption DEF BlockSize, Group, Acked, MaxBytes, Closers

\* Whole groups, and what is left of them.
LEMMA Division ==
    ASSUME NEW G \in Nat \ {0}, NEW x \in Nat
    PROVE  /\ x \div G \in Nat /\ G * (x \div G) \in Nat
           /\ G * (x \div G) <= x /\ x - G * (x \div G) < G
<1>1. x \div G \in Nat
  OBVIOUS
<1>2. G * (x \div G) <= x
  OBVIOUS
<1>3. x - G * (x \div G) < G
  OBVIOUS
<1> QED
  BY <1>1, <1>2, <1>3

\* DecodedLen is no less than what is decoded.
LEMMA DecodedEnough ==
    ASSUME params \in Streams, NEW b \in Bytes
    PROVE  DecodedLen(b) \in Nat /\ Len(b) <= DecodedLen(b)
<1> DEFINE x == Len(b) + Group - 1
<1>1. Group \in Nat \ {0} /\ Len(b) \in Nat
  BY Parameters DEF Bytes
<1>2. x \in Nat
  BY <1>1
<1>3. DecodedLen(b) = Group * (x \div Group)
  BY DEF DecodedLen
<1> HIDE DEF x
<1>4. Group * (x \div Group) \in Nat /\ x - Group * (x \div Group) < Group
  BY <1>1, <1>2, Division
<1> QED
  BY <1>1, <1>3, <1>4 DEF x

\* The chunks, what is kept and what is held back are bytes; less than a group
\* is kept, and there is something to write if a whole group was given.
LEMMA Encoder ==
    ASSUME params \in Streams, NEW f \in Bytes, NEW b \in Bytes, Len(f) <= Group
    PROVE  /\ Chunks(f, b) \in Seq(Bytes) /\ Left(f, b) \in Bytes /\ Held(f, b) \in Bytes
           /\ Len(Left(f, b)) <= Group /\ Len(Held(f, b)) <= Group
           /\ Len(Chunks(f, b)) <= 2
           /\ Chunks(f, b) = <<>> => Left(f, b) = f \o b
<1> DEFINE s == f \o b
           L == Lead(f, b)
           I == Inner(f, b)
           n == Len(s) - L
<1>1. Group \in Nat \ {0}
  BY Parameters
<1>2. s \in Bytes /\ Len(s) = Len(f) + Len(b) /\ Len(f) \in Nat /\ Len(b) \in Nat
  BY DEF Bytes
<1>3. L \in Nat /\ (L = 0 \/ (L = Group /\ Group <= Len(s)))
  BY <1>1, <1>2 DEF Lead
<1>4. n \in Nat
  BY <1>2, <1>3
<1>5. /\ I \in Nat /\ L + I <= Len(s) /\ Len(s) - (L + I) <= Group
  <2>1. CASE f # <<>> /\ L = 0
    <3>1. I = 0 /\ Len(s) < Group
      BY <1>1, <1>2, <2>1 DEF Inner, Lead
    <3> QED
      BY <1>1, <1>2, <2>1, <3>1
  <2>2. CASE ~(f # <<>> /\ L = 0)
    <3>1. I = Group * (n \div Group)
      BY <2>2 DEF Inner
    <3> HIDE DEF n
    <3>2. I \in Nat /\ I <= n /\ n - I < Group
      BY <1>1, <1>4, <3>1, Division
    <3> HIDE DEF I, L, s
    <3> QED
      BY <1>1, <1>2, <1>3, <3>2 DEF n
  <2> QED
    BY <2>1, <2>2
<1> HIDE DEF s, L, I, n
<1>6. \A i, j \in Nat : i >= 1 /\ j <= Len(s) => SubSeq(s, i, j) \in Bytes
  BY <1>2 DEF Bytes
<1>7. /\ SubSeq(s, 1, L) \in Bytes /\ SubSeq(s, L + 1, L + I) \in Bytes
      /\ SubSeq(s, L + I + 1, Len(s)) \in Bytes
      /\ Len(SubSeq(s, L + I + 1, Len(s))) = Len(s) - (L + I)
  <2>1. L <= Len(s) /\ L + 1 \in Nat /\ L + I \in Nat /\ L + I + 1 \in Nat /\ Len(s) \in Nat
    BY <1>2, <1>3, <1>5
  <2>2. SubSeq(s, 1, L) \in Bytes
    BY <1>3, <1>6, <2>1
  <2>3. SubSeq(s, L + 1, L + I) \in Bytes
    BY <1>3, <1>5, <1>6, <2>1
  <2>4. SubSeq(s, L + I + 1, Len(s)) \in Bytes
    BY <1>3, <1>5, <1>6, <2>1
  <2>5. Len(SubSeq(s, L + I + 1, Len(s))) = Len(s) - (L + I)
    BY <1>2, <1>3, <1>5, <2>1 DEF Bytes
  <2> QED
    BY <2>2, <2>3, <2>4, <2>5
<1>8. \A x \in Bytes : /\ NonEmpty(x) \in Seq(Bytes) /\ Len(NonEmpty(x)) <= 1
                       /\ NonEmpty(x) = <<>> => x = <<>>
  BY DEF NonEmpty
<1>9. Chunks(f, b) = NonEmpty(SubSeq(s, 1, L)) \o NonEmpty(SubSeq(s, L + 1, L + I))
  BY DEF Chunks, s, L, I
<1>10. Chunks(f, b) \in Seq(Bytes) /\ Len(Chunks(f, b)) <= 2
  <2> DEFINE x == NonEmpty(SubSeq(s, 1, L))
             y == NonEmpty(SubSeq(s, L + 1, L + I))
  <2>1. x \in Seq(Bytes) /\ y \in Seq(Bytes) /\ Len(x) <= 1 /\ Len(y) <= 1
    BY <1>7, <1>8
  <2>2. Chunks(f, b) = x \o y
    BY <1>9
  <2> HIDE DEF x, y
  <2> QED
    BY <2>1, <2>2
<1>11. Left(f, b) = SubSeq(s, L + I + 1, Len(s))
  BY DEF Left, s, L, I
<1>12. Left(f, b) \in Bytes /\ Len(Left(f, b)) <= Group
  BY <1>5, <1>7, <1>11
<1>13. Held(f, b) \in Bytes /\ Len(Held(f, b)) <= Group
  <2>1. CASE L > 0
    <3>1. L = Group /\ Group <= Len(s)
      BY <1>1, <1>3, <2>1
    <3>2. Held(f, b) = SubSeq(s, 1, Group)
      BY <2>1 DEF Held, s, L
    <3>3. Len(SubSeq(s, 1, Group)) = Group
      BY <1>1, <1>2, <3>1 DEF Bytes
    <3> QED
      BY <1>1, <1>7, <3>1, <3>2, <3>3
  <2>2. CASE ~(L > 0)
    BY <2>2 DEF Held, L
  <2> QED
    BY <2>1, <2>2
<1>14. ASSUME Chunks(f, b) = <<>> PROVE Left(f, b) = s
  <2> DEFINE x == SubSeq(s, 1, L)
             y == SubSeq(s, L + 1, L + I)
  <2>1. x \in Bytes /\ y \in Bytes /\ NonEmpty(x) \o NonEmpty(y) = <<>>
    BY <1>7, <1>9, <1>14
  <2>2. Len(x) = L /\ Len(y) = I
    BY <1>2, <1>3, <1>5 DEF Bytes
  <2> HIDE DEF x, y
  <2>3. NonEmpty(x) = <<>> /\ NonEmpty(y) = <<>>
    BY <1>8, <2>1
  <2>4. x = <<>> /\ y = <<>>
    BY <1>8, <2>1, <2>3
  <2>5. L = 0 /\ I = 0
    BY <2>2, <2>4
  <2>6. Left(f, b) = SubSeq(s, 1, Len(s))
    BY <1>11, <2>5
  <2> QED
    BY <1>2, <2>6 DEF Bytes
<1> QED
  BY <1>10, <1>12, <1>13, <1>14 DEF s

----------------------------------------------------------------------------
(* The updates the actions are made of.                                    *)

\* The conjuncts of the type invariant name every type.
LEMMA TypesNamed ==
    ASSUME TypeInv
    PROVE  TypeOK
<1>1. conn \in [Ends -> ConnType] /\ \A e \in Ends : Len(conn[e].wbuf) <= BlockSize /\ Len(conn[e].fringe) <= Group
  BY DEF TypeInv, ConnTypes, GoodConn
<1>2. job \in [Ends -> [Roles -> JobType]]
  <2>1. \A e \in Ends : job[e] = [r \in Roles |-> job[e][r]]
    BY DEF TypeInv, JobTypes
  <2>2. \A e \in Ends : \A r \in Roles : job[e][r] \in JobType
    BY DEF TypeInv, JobTypes, GoodJob
  <2>3. \A e \in Ends : job[e] \in [Roles -> JobType]
    BY <2>1, <2>2
  <2>4. job = [e \in Ends |-> job[e]]
    BY DEF TypeInv, JobTypes
  <2> QED
    BY <2>3, <2>4
<1>3. chan \in [Ends -> Seq(StanzaType)]
  <2>1. Stanzas \subseteq StanzaType
    BY DEF Stanzas
  <2>2. Seq(Stanzas) \subseteq Seq(StanzaType)
    BY <2>1, SeqMonotonic
  <2> QED
    BY <2>2 DEF TypeInv, ChanTypes
<1>4. panic \in [Ends -> BOOLEAN] /\ raced \in [Ends -> BOOLEAN]
  BY DEF TypeInv, RestTypes
<1>5. {panic, raced} \subseteq [Ends -> BOOLEAN]
  BY <1>4
<1> QED
  BY <1>1, <1>2, <1>3, <1>5 DEF TypeOK, TypeInv, RestTypes

\* One connection is set.
LEMMA SetConnEffect ==
    ASSUME ConnTypes, NEW e \in Ends, NEW c, GoodConn(c), SetConn(e, c), params' = params
    PROVE  ConnTypes' /\ conn'[e] = c /\ \A x \in Ends : x # e => conn'[x] = conn[x]
<1>1. conn'[e] = c /\ \A x \in Ends : x # e => conn'[x] = conn[x]
  BY DEF ConnTypes, SetConn
<1>2. conn' = [x \in Ends |-> conn'[x]]
  BY DEF ConnTypes, SetConn
<1>3. ASSUME NEW x \in Ends PROVE GoodConn(conn'[x])
  BY <1>1 DEF ConnTypes
<1>4. \A x \in Ends : GoodConn(conn[x])'
  BY <1>3 DEF GoodConn, BlockSize, Group
<1> QED
  BY <1>1, <1>2, <1>4 DEF ConnTypes

\* One goroutine goes on.
LEMMA SetJobEffect ==
    ASSUME JobTypes, NEW e \in Ends, NEW r \in Roles, NEW j, GoodJob(r, j), SetJob(e, r, j),
           params' = params
    PROVE  /\ JobTypes' /\ job'[e][r] = j
           /\ \A x \in Ends, y \in Roles : x # e \/ y # r => job'[x][y] = job[x][y]
<1> DEFINE row == [job[e] EXCEPT ![r] = j]
<1>1. job' = [job EXCEPT ![e] = row]
  BY DEF SetJob
<1>2. job[e] = [y \in Roles |-> job[e][y]] /\ job = [x \in Ends |-> job[x]]
  BY DEF JobTypes
<1>3. row[r] = j /\ (\A y \in Roles : y # r => row[y] = job[e][y]) /\ row = [y \in Roles |-> row[y]]
  BY <1>2
<1> HIDE DEF row
<1>4. /\ job'[e] = row /\ \A x \in Ends : x # e => job'[x] = job[x]
      /\ job' = [x \in Ends |-> job'[x]]
  BY <1>1, <1>2
<1>5. /\ job'[e][r] = j
      /\ \A x \in Ends, y \in Roles : x # e \/ y # r => job'[x][y] = job[x][y]
  BY <1>3, <1>4
<1>6. job' = [x \in Ends |-> [y \in Roles |-> job'[x][y]]]
  <2>1. \A x \in Ends : job'[x] = [y \in Roles |-> job'[x][y]]
    BY <1>3, <1>4 DEF JobTypes
  <2> QED
    BY <1>4, <2>1
<1>7. ASSUME NEW x \in Ends, NEW y \in Roles PROVE GoodJob(y, job'[x][y])
  BY <1>5 DEF JobTypes
<1>8. \A x \in Ends, y \in Roles : GoodJob(y, job[x][y])'
  BY <1>7 DEF GoodJob, Group
<1> QED
  BY <1>5, <1>6, <1>8 DEF JobTypes

\* Stanzas are sent to the other end.
LEMMA SendsEffect ==
    ASSUME ChanTypes, NEW e \in Ends, NEW ms \in Seq(Stanzas), Sends(e, ms)
    PROVE  /\ ChanTypes' /\ chan'[Other(e)] = chan[Other(e)] \o ms
           /\ \A x \in Ends : x # Other(e) => chan'[x] = chan[x]
<1>1. Other(e) \in Ends
  BY OtherEnd
<1>2. chan[Other(e)] \o ms \in Seq(Stanzas)
  BY <1>1 DEF ChanTypes
<1> QED
  BY <1>1, <1>2 DEF ChanTypes, Sends

\* A stanza is taken and answered.
LEMMA RepliesEffect ==
    ASSUME ChanTypes, NEW e \in Ends, chan[e] # <<>>, NEW ms \in Seq(Stanzas), Replies(e, ms)
    PROVE  /\ ChanTypes' /\ chan'[e] = Tail(chan[e]) /\ chan'[Other(e)] = chan[Other(e)] \o ms
<1>1. Other(e) \in Ends /\ Other(e) # e
  BY OtherEnd
<1>2. chan[Other(e)] \o ms \in Seq(Stanzas) /\ Tail(chan[e]) \in Seq(Stanzas)
  BY <1>1 DEF ChanTypes
<1> DEFINE p == Tail(chan[e])
           q == chan[Other(e)] \o ms
<1>3. chan' = [[chan EXCEPT ![e] = p] EXCEPT ![Other(e)] = q]
  BY <1>1 DEF Replies
<1> HIDE DEF p, q
<1>4. /\ chan'[e] = p /\ chan'[Other(e)] = q /\ chan' \in [Ends -> Seq(Stanzas)]
  BY <1>1, <1>2, <1>3 DEF ChanTypes, p, q
<1> QED
  BY <1>4 DEF ChanTypes, p, q

\* An answer is a stanza for somebody, and only an IQ is answered.
LEMMA AnswerTypes ==
    ASSUME NEW m \in Stanzas, NEW kind \in {"result", "error"}
    PROVE  /\ Answer(m, kind) \in Seq(Stanzas) /\ Len(Answer(m, kind)) <= 1
           /\ \A i \in DOMAIN Answer(m, kind) : /\ Answer(m, kind)[i].kind = kind
                                                /\ Answer(m, kind)[i].by = m.by
<1> DEFINE a == Stanza(kind, 0, <<>>, m.by)
<1>1. m.by = "none" \/ m.by \in Roles
  BY DEF Stanzas, StanzaType
<1>2. m.by \in Roles => a \in Stanzas /\ a.kind = kind /\ a.by = m.by
  BY SeqAssumption DEF Stanza, Stanzas, StanzaType, Bytes
<1>3. Answer(m, kind) = <<>> \/ (m.by \in Roles /\ Answer(m, kind) = <<a>>)
  BY <1>1 DEF Answer
<1> HIDE DEF a
<1>4. CASE Answer(m, kind) = <<>>
  BY <1>4
<1>5. CASE m.by \in Roles /\ Answer(m, kind) = <<a>>
  <2>1. <<a>> \in Seq(Stanzas) /\ Len(<<a>>) = 1 /\ \A i \in DOMAIN <<a>> : <<a>>[i] = a
    BY <1>2, <1>5
  <2> QED
    BY <1>2, <1>5, <2>1
<1> QED
  BY <1>3, <1>4, <1>5

\* The records of the connection.
LEMMA NextSeqType ==
    ASSUME NEW k \in 0 .. SeqCount - 1
    PROVE  NextSeq(k) \in 0 .. SeqCount - 1
BY SeqAssumption DEF NextSeq

\* A goroutine begins a chunk.
LEMMA Next1Fields ==
    ASSUME NEW r \in Roles, NEW j, GoodJob(r, j), NEW c \in ConnType, NEW t \in Seq(Bytes), t # <<>>
    PROVE  LET k == Next1(j, c, t) IN
           /\ GoodJob(r, k) /\ k.pc = "send" /\ k.todo = t /\ k.seq = c.wseq /\ k.stale = c.handlerT
           /\ k.op = j.op /\ k.left = j.left /\ k.upTo = j.upTo
<1> DEFINE k == Next1(j, c, t)
           s == c.wseq
           h == c.handlerT
<1>1. k = [j EXCEPT !.pc = "send", !.todo = t, !.seq = s, !.stale = h]
  BY DEF Next1
<1>2. s \in 0 .. SeqCount - 1 /\ h \in BOOLEAN /\ j \in JobType
  BY DEF ConnType, GoodJob
<1> HIDE DEF k, s, h
<1>3. /\ k \in JobType /\ k.pc = "send" /\ k.todo = t /\ k.seq = s /\ k.stale = h
      /\ k.op = j.op /\ k.left = j.left /\ k.upTo = j.upTo
  BY <1>1, <1>2 DEF JobType
<1>4. GoodJob(r, k)
  BY <1>3 DEF GoodJob, Working
<1> QED
  BY <1>3, <1>4 DEF k, s, h

\* A goroutine is done with its block.
LEMMA LeavesFields ==
    ASSUME params \in Streams, NEW r \in Roles, NEW j \in JobType,
           NEW l \in {"idle", "tail", "notify", "failed"}, r = "writer" => l = "idle"
    PROVE  LET k == Leaves(j, l) IN
           /\ GoodJob(r, k) /\ k.pc = l /\ k.op = "flush" /\ k.todo = <<>> /\ k.left = <<>>
           /\ k.upTo = j.upTo
<1> DEFINE k == Leaves(j, l)
<1>1. k = [j EXCEPT !.pc = l, !.op = "flush", !.todo = <<>>, !.left = <<>>, !.seq = 0, !.stale = FALSE]
  BY DEF Leaves
<1>2. <<>> \in Seq(Bytes) /\ <<>> \in Bytes /\ 0 \in 0 .. SeqCount - 1 /\ FALSE \in BOOLEAN /\ "flush" \in Ops
  BY SeqAssumption DEF Bytes, Ops
<1> HIDE DEF k
<1>3. /\ k \in JobType /\ k.pc = l /\ k.op = "flush" /\ k.todo = <<>> /\ k.left = <<>>
      /\ k.upTo = j.upTo
  BY <1>1, <1>2 DEF JobType
<1>4. Len(k.left) <= Group
  BY <1>3, Parameters
<1>5. GoodJob(r, k)
  BY <1>3, <1>4 DEF GoodJob, Working
<1> QED
  BY <1>3, <1>5 DEF k

\* (By either way.)
LEMMA FinishedFields ==
    ASSUME params \in Streams, NEW r \in Roles, NEW j \in JobType
    PROVE  LET k == Finished(j, r)
               l == Failed(j, r) IN
           /\ GoodJob(r, k) /\ k.pc \in {"idle", "tail", "notify"} /\ k.todo = <<>> /\ k.upTo = j.upTo
           /\ GoodJob(r, l) /\ l.pc \in {"idle", "failed"} /\ l.todo = <<>> /\ l.upTo = j.upTo
           /\ r = "closer" => k.pc # "idle" /\ l.pc = "failed"
           /\ r = "closer" /\ k.pc = "notify" => j.op # "flush"
<1> DEFINE a == IF r = "writer" THEN "idle" ELSE IF j.op = "flush" THEN "tail" ELSE "notify"
           b == IF r = "writer" THEN "idle" ELSE "failed"
<1>1. /\ a \in {"idle", "tail", "notify"} /\ b \in {"idle", "failed"}
      /\ r = "writer" => a = "idle" /\ b = "idle"
      /\ r = "closer" => a # "idle" /\ b = "failed" /\ (a = "notify" => j.op # "flush")
  OBVIOUS
<1>2. Finished(j, r) = Leaves(j, a) /\ Failed(j, r) = Leaves(j, b)
  BY DEF Finished, Failed
<1> HIDE DEF a, b
<1>3. /\ GoodJob(r, Leaves(j, a)) /\ Leaves(j, a).pc = a /\ Leaves(j, a).todo = <<>>
      /\ Leaves(j, a).upTo = j.upTo
  BY <1>1, LeavesFields
<1>4. /\ GoodJob(r, Leaves(j, b)) /\ Leaves(j, b).pc = b /\ Leaves(j, b).todo = <<>>
      /\ Leaves(j, b).upTo = j.upTo
  BY <1>1, LeavesFields
<1> QED
  BY <1>1, <1>2, <1>3, <1>4

\* The buffer is empty, or holds the byte that made Write flush.
LEMMA EmptiedFields ==
    ASSUME params \in Streams, written \in [Ends -> Nat], NEW e \in Ends, NEW c \in ConnType,
           NEW j \in JobType, Len(j.left) <= Group
    PROVE  LET d == Emptied(e, c, j) IN
           /\ GoodConn(d) /\ d.fringe = j.left /\ d.lock = "none"
           /\ d.wbuf = IF j.op = "write" THEN <<written[e] + 1>> ELSE <<>>
           /\ d.closed = c.closed /\ d.ready = c.ready /\ d.rbuf = c.rbuf /\ d.seq = c.seq
           /\ d.limit = c.limit /\ d.wseq = c.wseq /\ d.werr = c.werr
           /\ d.handlerT = c.handlerT /\ d.stream = c.stream
<1> DEFINE d == Emptied(e, c, j)
           w == IF j.op = "write" THEN <<written[e] + 1>> ELSE <<>>
           f == j.left
<1>1. BlockSize \in Nat \ {0} /\ written[e] + 1 \in Nat
  BY Parameters
<1>2. w \in Bytes /\ Len(w) <= BlockSize
  <2>1. CASE j.op = "write"
    <3> DEFINE n == written[e] + 1
    <3>1. n \in Nat
      BY <1>1
    <3> HIDE DEF n
    <3>2. <<n>> \in Seq(Nat) /\ Len(<<n>>) = 1
      BY <3>1
    <3>3. w = <<n>>
      BY <2>1 DEF n
    <3> QED
      BY <1>1, <3>2, <3>3 DEF Bytes
  <2>2. CASE j.op # "write"
    BY <1>1, <2>2 DEF Bytes
  <2> QED
    BY <2>1, <2>2
<1>3. d = [c EXCEPT !.wbuf = w, !.fringe = f, !.lock = "none"]
  BY DEF Emptied
<1>4. f \in Bytes /\ Len(f) <= Group
  BY DEF JobType
<1> HIDE DEF d, w, f
<1>5. /\ d \in ConnType /\ d.fringe = f /\ d.lock = "none" /\ d.wbuf = w
      /\ d.closed = c.closed /\ d.ready = c.ready /\ d.rbuf = c.rbuf /\ d.seq = c.seq
      /\ d.limit = c.limit /\ d.wseq = c.wseq /\ d.werr = c.werr
      /\ d.handlerT = c.handlerT /\ d.stream = c.stream
  BY <1>2, <1>3, <1>4 DEF ConnType
<1>6. GoodConn(d)
  BY <1>2, <1>4, <1>5 DEF GoodConn
<1> QED
  BY <1>5, <1>6 DEF d, w, f

Advanced(c) == [c EXCEPT !.wseq = NextSeq(@)]
PassedOn(c) == [Advanced(c) EXCEPT !.fringe = IF Len(@) = Group THEN <<>> ELSE @]
CutOff(c) == [Advanced(c) EXCEPT !.fringe = <<>>]
\* What writing does not touch.
Same(z, c) ==
    /\ z.closed = c.closed /\ z.ready = c.ready /\ z.rbuf = c.rbuf /\ z.seq = c.seq
    /\ z.limit = c.limit /\ z.handlerT = c.handlerT /\ z.stream = c.stream

\* The next sequence number, and a group that is full is passed on.
LEMMA AdvancedFields ==
    ASSUME params \in Streams, NEW c, GoodConn(c)
    PROVE  \A z \in {Advanced(c), PassedOn(c), CutOff(c)} :
                /\ GoodConn(z) /\ z \in ConnType /\ Same(z, c) /\ z.wseq = NextSeq(c.wseq)
                /\ z.wbuf = c.wbuf /\ z.werr = c.werr /\ z.lock = c.lock
<1> DEFINE s == NextSeq(c.wseq)
           d == [c EXCEPT !.wseq = s]
           f == IF Len(c.fringe) = Group THEN <<>> ELSE c.fringe
           x == [d EXCEPT !.fringe = f]
           y == [d EXCEPT !.fringe = <<>>]
<1>1. c \in ConnType /\ s \in 0 .. SeqCount - 1 /\ Len(c.wbuf) <= BlockSize /\ Len(c.fringe) <= Group
  BY NextSeqType DEF GoodConn, ConnType
<1> HIDE DEF s
<1>2. /\ d \in ConnType /\ d.wseq = s /\ d.fringe = c.fringe
      /\ d.closed = c.closed /\ d.ready = c.ready /\ d.rbuf = c.rbuf /\ d.seq = c.seq
      /\ d.limit = c.limit /\ d.wbuf = c.wbuf /\ d.werr = c.werr /\ d.lock = c.lock
      /\ d.handlerT = c.handlerT /\ d.stream = c.stream
  BY <1>1 DEF ConnType
<1> HIDE DEF d
<1>3. f \in Bytes /\ Len(f) <= Group /\ <<>> \in Bytes /\ Len(<<>>) <= Group
  <2>1. Group \in Nat
    BY Parameters
  <2>2. c.fringe \in Bytes
    BY <1>1 DEF ConnType
  <2> QED
    BY <1>1, <2>1, <2>2 DEF Bytes
<1>4. ASSUME NEW g \in Bytes, Len(g) <= Group
      PROVE  LET z == [d EXCEPT !.fringe = g] IN
             /\ GoodConn(z) /\ z.wseq = s
             /\ z.closed = c.closed /\ z.ready = c.ready /\ z.rbuf = c.rbuf /\ z.seq = c.seq
             /\ z.limit = c.limit /\ z.wbuf = c.wbuf /\ z.werr = c.werr /\ z.lock = c.lock
             /\ z.handlerT = c.handlerT /\ z.stream = c.stream
  <2> DEFINE z == [d EXCEPT !.fringe = g]
  <2>1. /\ z \in ConnType /\ z.wseq = s /\ z.fringe = g
        /\ z.closed = c.closed /\ z.ready = c.ready /\ z.rbuf = c.rbuf /\ z.seq = c.seq
        /\ z.limit = c.limit /\ z.wbuf = c.wbuf /\ z.werr = c.werr /\ z.lock = c.lock
        /\ z.handlerT = c.handlerT /\ z.stream = c.stream
    BY <1>2 DEF ConnType
  <2> HIDE DEF z
  <2>2. GoodConn(z)
    BY <1>1, <1>4, <2>1 DEF GoodConn
  <2> QED
    BY <2>1, <2>2 DEF z
<1>5. GoodConn(d)
  BY <1>1, <1>2 DEF GoodConn
<1>6. /\ GoodConn(x) /\ x.wseq = s
      /\ x.closed = c.closed /\ x.ready = c.ready /\ x.rbuf = c.rbuf /\ x.seq = c.seq
      /\ x.limit = c.limit /\ x.wbuf = c.wbuf /\ x.werr = c.werr /\ x.lock = c.lock
      /\ x.handlerT = c.handlerT /\ x.stream = c.stream
  <2> HIDE DEF f
  <2> QED
    BY <1>3, <1>4
<1>7. /\ GoodConn(y) /\ y.wseq = s
      /\ y.closed = c.closed /\ y.ready = c.ready /\ y.rbuf = c.rbuf /\ y.seq = c.seq
      /\ y.limit = c.limit /\ y.wbuf = c.wbuf /\ y.werr = c.werr /\ y.lock = c.lock
      /\ y.handlerT = c.handlerT /\ y.stream = c.stream
  BY <1>3, <1>4
<1>8. d = Advanced(c)
  BY DEF d, s, Advanced
<1>9. x = PassedOn(c) /\ y = CutOff(c)
  BY <1>2, <1>8 DEF PassedOn, CutOff
<1> HIDE DEF x, y
<1>10. /\ d.wseq = NextSeq(c.wseq) /\ x.wseq = NextSeq(c.wseq) /\ y.wseq = NextSeq(c.wseq)
       /\ Same(d, c) /\ Same(x, c) /\ Same(y, c)
  BY <1>2, <1>6, <1>7 DEF s, Same
<1>11. x \in ConnType /\ y \in ConnType
  BY <1>6, <1>7 DEF GoodConn
<1>12. ASSUME NEW z \in {d, x, y}
       PROVE  /\ GoodConn(z) /\ z \in ConnType /\ Same(z, c) /\ z.wseq = NextSeq(c.wseq)
              /\ z.wbuf = c.wbuf /\ z.werr = c.werr /\ z.lock = c.lock
  BY <1>2, <1>5, <1>6, <1>7, <1>10, <1>11
<1> QED
  BY <1>8, <1>9, <1>12

\* What writing leaves alone at this end, and at the other.
Kept(e) == Same(conn'[e], conn[e])
OnlyConn(e) == \A x \in Ends : x # e => conn'[x] = conn[x]
OnlyJob(e, r) == \A x \in Ends, y \in Roles : x # e \/ y # r => job'[x][y] = job[x][y]

\* A chunk was written: the next one follows, or the block is done.
Advances(e, r) ==
    /\ Kept(e) /\ OnlyConn(e) /\ OnlyJob(e, r)
    /\ conn'[e].wseq = NextSeq(conn[e].wseq) /\ conn'[e].werr = conn[e].werr
    /\ \/ /\ job'[e][r].pc = "send" /\ job'[e][r].seq = conn'[e].wseq
          /\ job'[e][r].stale = conn[e].handlerT /\ job'[e][r].op = job[e][r].op
          /\ job'[e][r].todo # <<>>
          /\ conn'[e].lock = conn[e].lock /\ conn'[e].wbuf = conn[e].wbuf
       \/ /\ job'[e][r].todo = <<>> /\ job'[e][r].pc \in {"idle", "tail", "notify"}
          /\ r = "closer" => job'[e][r].pc # "idle"
          /\ r = "closer" /\ job'[e][r].pc = "notify" => job[e][r].op # "flush"
          /\ conn'[e].lock = IF job[e][r].op = "tail" THEN conn[e].lock ELSE "none"
          /\ job[e][r].op = "tail" => conn'[e].wbuf = conn[e].wbuf

\* A chunk failed.
Breaks(e, r) ==
    /\ Kept(e) /\ OnlyConn(e) /\ OnlyJob(e, r)
    /\ conn'[e].werr = TRUE /\ conn'[e].wseq = conn[e].wseq /\ conn'[e].wbuf = conn[e].wbuf
    /\ conn'[e].lock = IF conn[e].lock = r THEN "none" ELSE conn[e].lock
    /\ job'[e][r].todo = <<>> /\ job'[e][r].pc \in {"idle", "failed"}
    /\ r = "closer" => job'[e][r].pc = "failed"

\* Something follows the first of several.
LEMMA LongTail ==
    ASSUME NEW S, NEW q \in Seq(S), Len(q) > 1
    PROVE  Tail(q) \in Seq(S) /\ Tail(q) # <<>>
<1> DEFINE n == Len(q)
           t == Tail(q)
<1>1. n \in Nat /\ n > 1 /\ Len(t) = n - 1 /\ t \in Seq(S)
  OBVIOUS
<1> HIDE DEF n, t
<1>2. Len(t) # 0
  BY <1>1
<1>3. Len(<<>>) = 0
  OBVIOUS
<1> QED
  BY <1>1, <1>2, <1>3 DEF t

\* So does the code after a chunk.
LEMMA WroteFacts ==
    ASSUME TypeInv, NEW e \in Ends, NEW r \in Roles, job[e][r].todo # <<>>, Wrote(e, r),
           params' = params
    PROVE  ConnTypes' /\ JobTypes' /\ written' \in [Ends -> Nat] /\ Advances(e, r)
<1> DEFINE j == job[e][r]
           c == Advanced(conn[e])
           d == PassedOn(conn[e])
           y == CutOff(conn[e])
           m == Emptied(e, c, j)
           t == Tail(j.todo)
<1>1. /\ params \in Streams /\ ConnTypes /\ JobTypes /\ written \in [Ends -> Nat]
      /\ GoodConn(conn[e]) /\ GoodJob(r, j) /\ j \in JobType /\ j.todo \in Seq(Bytes)
      /\ Len(j.left) <= Group /\ j.todo # <<>>
  <2>1. GoodConn(conn[e]) /\ GoodJob(r, j)
    BY DEF TypeInv, ConnTypes, JobTypes
  <2> QED
    BY <2>1 DEF TypeInv, RestTypes, GoodJob, JobType
<1>2. \/ /\ Len(j.todo) > 1
         /\ SetConn(e, d) /\ SetJob(e, r, Next1(j, d, t)) /\ written' = written
      \/ /\ Len(j.todo) <= 1
         /\ SetConn(e, IF j.op = "tail" THEN y ELSE m)
         /\ SetJob(e, r, Finished(j, r)) /\ Taken(e, j)
  <2>1. Len(j.todo) \in Nat
    BY <1>1
  <2> HIDE DEF j
  <2> QED
    BY <2>1 DEF Wrote, j, Advanced, PassedOn, CutOff
<1>3. \A z \in {c, d, y} :
        /\ GoodConn(z) /\ z \in ConnType /\ Same(z, conn[e]) /\ z.wseq = NextSeq(conn[e].wseq)
        /\ z.wbuf = conn[e].wbuf /\ z.werr = conn[e].werr /\ z.lock = conn[e].lock
  BY <1>1, AdvancedFields
<1> HIDE DEF j, c, d, y
<1>4. c \in {c, d, y} /\ d \in {c, d, y} /\ y \in {c, d, y}
  OBVIOUS
<1>5. GoodConn(m) /\ m.lock = "none" /\ m.wseq = c.wseq /\ m.werr = c.werr /\ Same(m, conn[e])
  <2>1. c \in ConnType /\ Same(c, conn[e])
    BY <1>3, <1>4
  <2> QED
    BY <1>1, <2>1, EmptiedFields DEF Same
<1> HIDE DEF m
<1>6. CASE /\ Len(j.todo) > 1
           /\ SetConn(e, d) /\ SetJob(e, r, Next1(j, d, t)) /\ written' = written
  <2>1. t \in Seq(Bytes) /\ t # <<>>
    <3> DEFINE q == j.todo
    <3>1. q \in Seq(Bytes) /\ Len(q) > 1 /\ t = Tail(q)
      BY <1>1, <1>6
    <3> HIDE DEF q, t
    <3> QED
      BY <3>1, LongTail
  <2> DEFINE k == Next1(j, d, t)
  <2> HIDE DEF t
  <2>0. d \in ConnType
    BY <1>3, <1>4
  <2>2. /\ GoodJob(r, k) /\ k.pc = "send" /\ k.todo = t /\ k.seq = d.wseq
        /\ k.stale = d.handlerT /\ k.op = j.op /\ k.upTo = j.upTo
    BY <1>1, <2>0, <2>1, Next1Fields
  <2> HIDE DEF k
  <2>3. JobTypes' /\ job'[e][r] = k /\ OnlyJob(e, r)
    BY <1>1, <1>6, <2>2, SetJobEffect DEF OnlyJob, k
  <2>4. GoodConn(d) /\ Same(d, conn[e]) /\ d.wseq = NextSeq(conn[e].wseq)
        /\ d.wbuf = conn[e].wbuf /\ d.werr = conn[e].werr /\ d.lock = conn[e].lock
    BY <1>3, <1>4
  <2>5. ConnTypes' /\ conn'[e] = d /\ OnlyConn(e)
    BY <1>1, <1>6, <2>4, SetConnEffect DEF OnlyConn
  <2>6. Kept(e) /\ k.stale = conn[e].handlerT
    BY <2>2, <2>4, <2>5 DEF Kept, Same
  <2> QED
    BY <1>1, <1>6, <2>1, <2>2, <2>3, <2>4, <2>5, <2>6 DEF j, Advances
<1>7. CASE /\ Len(j.todo) <= 1
           /\ SetConn(e, IF j.op = "tail" THEN y ELSE m)
           /\ SetJob(e, r, Finished(j, r)) /\ Taken(e, j)
  <2> DEFINE k == Finished(j, r)
             z == IF j.op = "tail" THEN y ELSE m
  <2>1. /\ GoodJob(r, k) /\ k.pc \in {"idle", "tail", "notify"} /\ k.todo = <<>> /\ k.upTo = j.upTo
        /\ r = "closer" => k.pc # "idle"
        /\ r = "closer" /\ k.pc = "notify" => j.op # "flush"
    BY <1>1, FinishedFields
  <2> HIDE DEF k
  <2>2. JobTypes' /\ job'[e][r] = k /\ OnlyJob(e, r)
    BY <1>1, <1>7, <2>1, SetJobEffect DEF OnlyJob, k
  <2>3. /\ GoodConn(z) /\ z.wseq = NextSeq(conn[e].wseq) /\ z.werr = conn[e].werr
        /\ z.lock = IF j.op = "tail" THEN conn[e].lock ELSE "none"
        /\ j.op = "tail" => z.wbuf = conn[e].wbuf
        /\ Same(z, conn[e])
    <3>2. CASE j.op = "tail"
      BY <1>3, <1>4, <3>2
    <3>3. CASE j.op # "tail"
      BY <1>3, <1>4, <1>5, <3>3
    <3> QED
      BY <3>2, <3>3
  <2> HIDE DEF z
  <2>4. ConnTypes' /\ conn'[e] = z /\ OnlyConn(e)
    BY <1>1, <1>7, <2>3, SetConnEffect DEF OnlyConn, z
  <2>5. Kept(e)
    BY <2>3, <2>4 DEF Kept
  <2>6. written' \in [Ends -> Nat]
    BY <1>1, <1>7 DEF Taken
  <2> QED
    BY <2>1, <2>2, <2>3, <2>4, <2>5, <2>6 DEF j, Advances
<1> QED
  BY <1>2, <1>6, <1>7

\* (And after an error.)
LEMMA WriteErrFacts ==
    ASSUME TypeInv, NEW e \in Ends, NEW r \in Roles, WriteErr(e, r), params' = params
    PROVE  ConnTypes' /\ JobTypes' /\ written' = written /\ Breaks(e, r)
<1> DEFINE j == job[e][r]
           l == IF conn[e].lock = r THEN "none" ELSE conn[e].lock
           c == [conn[e] EXCEPT !.werr = TRUE, !.lock = l]
           k == Failed(j, r)
<1>1. /\ params \in Streams /\ ConnTypes /\ JobTypes
      /\ GoodConn(conn[e]) /\ conn[e] \in ConnType /\ GoodJob(r, j) /\ j \in JobType
  <2>1. GoodConn(conn[e]) /\ GoodJob(r, j)
    BY DEF TypeInv, ConnTypes, JobTypes
  <2> QED
    BY <2>1 DEF TypeInv, GoodConn, GoodJob
<1>2. SetConn(e, c) /\ SetJob(e, r, k) /\ written' = written
  BY DEF WriteErr
<1>3. /\ GoodJob(r, k) /\ k.pc \in {"idle", "failed"} /\ k.todo = <<>> /\ k.upTo = j.upTo
      /\ r = "closer" => k.pc = "failed"
  BY <1>1, FinishedFields
<1> HIDE DEF k
<1>4. JobTypes' /\ job'[e][r] = k /\ OnlyJob(e, r)
  BY <1>1, <1>2, <1>3, SetJobEffect DEF OnlyJob
<1>5. l \in Roles \cup {"none"}
  BY <1>1 DEF ConnType
<1>6. /\ c \in ConnType /\ c.werr = TRUE /\ c.lock = l
      /\ c.closed = conn[e].closed /\ c.ready = conn[e].ready /\ c.rbuf = conn[e].rbuf
      /\ c.seq = conn[e].seq /\ c.limit = conn[e].limit /\ c.wbuf = conn[e].wbuf
      /\ c.fringe = conn[e].fringe /\ c.wseq = conn[e].wseq
      /\ c.handlerT = conn[e].handlerT /\ c.stream = conn[e].stream
  <2> HIDE DEF l
  <2> QED
    BY <1>1, <1>5 DEF ConnType
<1> HIDE DEF c
<1>7. GoodConn(c)
  BY <1>1, <1>6 DEF GoodConn
<1>8. ConnTypes' /\ conn'[e] = c /\ OnlyConn(e)
  BY <1>1, <1>2, <1>7, SetConnEffect DEF OnlyConn
<1>9. Kept(e)
  BY <1>6, <1>8 DEF Kept, Same
<1> QED
  BY <1>2, <1>3, <1>4, <1>6, <1>8, <1>9 DEF j, Breaks

\* What is not touched keeps its types.
LEMMA Untouched ==
    ASSUME TypeInv, params' = params
    PROVE  /\ params' \in Streams
           /\ conn' = conn => ConnTypes' /\ \A e \in Ends : OnlyConn(e) /\ Kept(e)
           /\ job' = job => JobTypes' /\ \A e \in Ends, r \in Roles : OnlyJob(e, r)
           /\ chan' = chan => ChanTypes'
<1>1. conn' = conn => ConnTypes'
  <2> SUFFICES ASSUME conn' = conn PROVE ConnTypes'
    OBVIOUS
  <2>1. ConnTypes
    BY DEF TypeInv
  <2> QED
    BY <2>1 DEF ConnTypes, GoodConn, BlockSize, Group
<1>2. job' = job => JobTypes'
  <2> SUFFICES ASSUME job' = job PROVE JobTypes'
    OBVIOUS
  <2>1. JobTypes
    BY DEF TypeInv
  <2> QED
    BY <2>1 DEF JobTypes, GoodJob, Group
<1>3. chan' = chan => ChanTypes'
  BY DEF TypeInv, ChanTypes
<1>4. conn' = conn => \A e \in Ends : OnlyConn(e) /\ Kept(e)
  BY DEF OnlyConn, Kept, Same
<1>5. job' = job => \A e \in Ends, r \in Roles : OnlyJob(e, r)
  BY DEF OnlyJob
<1>6. params' \in Streams
  BY DEF TypeInv
<1> QED
  BY <1>1, <1>2, <1>3, <1>4, <1>5, <1>6

\* What the type invariant says of one end.
LEMMA EndTypes ==
    ASSUME TypeInv, NEW e \in Ends
    PROVE  /\ params \in Streams /\ ConnTypes /\ JobTypes /\ ChanTypes
           /\ GoodConn(conn[e]) /\ conn[e] \in ConnType
           /\ Len(conn[e].wbuf) <= BlockSize /\ Len(conn[e].fringe) <= Group
           /\ conn[e].wbuf \in Bytes /\ conn[e].fringe \in Bytes /\ conn[e].rbuf \in Bytes
           /\ chan[e] \in Seq(Stanzas)
           /\ \A r \in Roles : GoodJob(r, job[e][r]) /\ job[e][r] \in JobType
<1>1. params \in Streams /\ ConnTypes /\ JobTypes /\ ChanTypes /\ chan[e] \in Seq(Stanzas)
  BY DEF TypeInv, ChanTypes
<1>2. GoodConn(conn[e]) /\ conn[e] \in ConnType
      /\ Len(conn[e].wbuf) <= BlockSize /\ Len(conn[e].fringe) <= Group
  BY <1>1 DEF ConnTypes, GoodConn
<1>3. conn[e].wbuf \in Bytes /\ conn[e].fringe \in Bytes /\ conn[e].rbuf \in Bytes
  BY <1>2 DEF ConnType
<1>4. \A r \in Roles : GoodJob(r, job[e][r]) /\ job[e][r] \in JobType
  BY <1>1 DEF JobTypes, GoodJob
<1> QED
  BY <1>1, <1>2, <1>3, <1>4

Pcs == {"idle", "lock", "send", "wait", "result", "error", "failed", "noop",
        "set", "tail", "notify", "closewait", "closed", "done"}

\* A goroutine goes on without beginning or ending a block.
LEMMA PcOnlyFields ==
    ASSUME NEW r \in Roles, NEW j, GoodJob(r, j), NEW p \in Pcs \ {"lock"},
           p \in Working <=> j.pc \in Working,
           r = "writer" => p \in {"idle"} \cup Working
    PROVE  LET k == [j EXCEPT !.pc = p] IN
           /\ GoodJob(r, k) /\ k.pc = p /\ k.op = j.op /\ k.todo = j.todo /\ k.seq = j.seq
           /\ k.stale = j.stale /\ k.left = j.left /\ k.upTo = j.upTo
<1> DEFINE k == [j EXCEPT !.pc = p]
<1>1. j \in JobType
  BY DEF GoodJob
<1>2. /\ k \in JobType /\ k.pc = p /\ k.op = j.op /\ k.todo = j.todo /\ k.seq = j.seq
      /\ k.stale = j.stale /\ k.left = j.left /\ k.upTo = j.upTo
  BY <1>1 DEF JobType, Pcs
<1> HIDE DEF k
<1>3. GoodJob(r, k)
  BY <1>2 DEF GoodJob
<1> QED
  BY <1>2, <1>3 DEF k

----------------------------------------------------------------------------
(* What each action does, and that it keeps the types.                     *)

Busy(e, r) == job[e][r].todo # <<>>

\* A goroutine is busy exactly while it is writing a block.
LEMMA BusyWorking ==
    ASSUME TypeInv, NEW e \in Ends, NEW r \in Roles
    PROVE  /\ Busy(e, r) <=> job[e][r].pc \in Working
           /\ r = "writer" => job[e][r].op # "tail" /\ job[e][r].pc \in {"idle", "lock"} \cup Working
           /\ job[e][r].op \in Ops /\ (job[e][r].pc = "lock" => job[e][r].op # "tail")
BY EndTypes DEF GoodJob, Busy, JobType

\* Whoever uses the encoder while another is writing has raced.
LEMMA RacesEffect ==
    ASSUME TypeInv, NEW e \in Ends, NEW r, NEW ops, Races(e, r, ops)
    PROVE  /\ raced' \in [Ends -> BOOLEAN]
           /\ \A x \in Ends : x # e => raced'[x] = raced[x]
           /\ \A x \in Ends : raced[x] => raced'[x]
           /\ (\E x \in Roles \ {r} : Busy(e, x) /\ job[e][x].op \in ops) => raced'[e]
<1> DEFINE b == \E x \in Roles \ {r} : job[e][x].todo # <<>> /\ job[e][x].op \in ops
<1>1. raced \in [Ends -> BOOLEAN]
  BY DEF TypeInv, RestTypes
<1>2. raced' = [raced EXCEPT ![e] = raced[e] \/ b]
  BY DEF Races
<1>3. b <=> \E x \in Roles \ {r} : Busy(e, x) /\ job[e][x].op \in ops
  BY DEF Busy
<1> HIDE DEF b
<1>4. raced'[e] = (raced[e] \/ b) /\ \A x \in Ends : x # e => raced'[x] = raced[x]
  BY <1>1, <1>2
<1>5. raced' \in [Ends -> BOOLEAN]
  BY <1>1, <1>2, Zenon
<1> QED
  BY <1>3, <1>4, <1>5

\* The rest, where an action leaves all of it alone.
LEMMA RestUntouched ==
    ASSUME TypeInv, UNCHANGED <<rpc, serve, appVars, panic, ghostVars>>
    PROVE  /\ RestTypes' /\ rpc' = rpc /\ serve' = serve /\ written' = written /\ got' = got
           /\ panic' = panic /\ raced' = raced /\ flushed' = flushed
BY DEF TypeInv, RestTypes, appVars, ghostVars

\* A goroutine other than r is what it was.
JobMoves(e, r) ==
    /\ OnlyJob(e, r)
    /\ job'[e][r].todo = job[e][r].todo /\ job'[e][r].seq = job[e][r].seq
    /\ job'[e][r].stale = job[e][r].stale

\* A goroutine comes to the lock.
LEMMA ToLockEffect ==
    ASSUME TypeInv, NEW e \in Ends, NEW r \in Roles, NEW o \in {"write", "flush"},
           job[e][r].pc \notin Working, params' = params,
           SetJob(e, r, [job[e][r] EXCEPT !.pc = "lock", !.op = o])
    PROVE  JobTypes' /\ JobMoves(e, r) /\ job'[e][r].pc = "lock" /\ job'[e][r].op = o
<1> DEFINE j == job[e][r]
           k == [j EXCEPT !.pc = "lock", !.op = o]
<1>1. GoodJob(r, j) /\ JobTypes
  BY EndTypes
<1>2. j.pc \notin Working /\ SetJob(e, r, k)
  OBVIOUS
<1> HIDE DEF j
<1>3. /\ GoodJob(r, k) /\ k.pc = "lock" /\ k.op = o /\ k.todo = j.todo /\ k.seq = j.seq
      /\ k.stale = j.stale
  <2>1. j \in JobType /\ o \in Ops
    BY <1>1 DEF GoodJob, Ops
  <2>2. /\ k \in JobType /\ k.pc = "lock" /\ k.op = o /\ k.todo = j.todo /\ k.seq = j.seq
        /\ k.stale = j.stale /\ k.left = j.left
    BY <2>1 DEF JobType
  <2> HIDE DEF k
  <2>3. GoodJob(r, k)
    BY <1>1, <1>2, <2>2 DEF GoodJob, Working
  <2> QED
    BY <2>2, <2>3
<1> HIDE DEF k
<1>4. JobTypes' /\ job'[e][r] = k /\ OnlyJob(e, r)
  BY <1>1, <1>2, <1>3, SetJobEffect DEF OnlyJob
<1> QED
  BY <1>3, <1>4 DEF JobMoves, j

\* A goroutine goes on.
LEMMA PcEffect ==
    ASSUME TypeInv, NEW e \in Ends, NEW r \in Roles, NEW p \in Pcs \ {"lock"},
           p \in Working <=> job[e][r].pc \in Working,
           r = "writer" => p \in {"idle"} \cup Working, params' = params,
           SetJob(e, r, [job[e][r] EXCEPT !.pc = p])
    PROVE  JobTypes' /\ JobMoves(e, r) /\ job'[e][r].pc = p /\ job'[e][r].op = job[e][r].op
<1> DEFINE j == job[e][r]
           k == [j EXCEPT !.pc = p]
<1>1. GoodJob(r, j) /\ JobTypes
  BY EndTypes
<1>2. (p \in Working <=> j.pc \in Working) /\ SetJob(e, r, k)
  OBVIOUS
<1> HIDE DEF j
<1>3. /\ GoodJob(r, k) /\ k.pc = p /\ k.op = j.op /\ k.todo = j.todo /\ k.seq = j.seq
      /\ k.stale = j.stale
  BY <1>1, <1>2, PcOnlyFields
<1> HIDE DEF k
<1>4. JobTypes' /\ job'[e][r] = k /\ OnlyJob(e, r)
  BY <1>1, <1>2, <1>3, SetJobEffect DEF OnlyJob
<1> QED
  BY <1>3, <1>4 DEF JobMoves, j

\* The goroutine that writes comes to the lock, to write or to flush.
LEMMA BeginFacts ==
    ASSUME TypeInv, NEW e \in Ends, Write(e) \/ Flush(e)
    PROVE  /\ TypeInv' /\ JobMoves(e, "writer") /\ job[e]["writer"].pc = "idle"
           /\ job'[e]["writer"].pc = "lock"
           /\ conn' = conn /\ chan' = chan /\ serve' = serve /\ raced' = raced /\ panic' = panic
<1>1. /\ job[e]["writer"].pc = "idle"
      /\ UNCHANGED <<conn, rpc, serve, chan, appVars, panic, ghostVars, params>>
  BY DEF Write, Flush, At
<1>2. "writer" \in Roles /\ job[e]["writer"].pc \notin Working
  BY <1>1 DEF Roles, Working
<1>3. JobTypes' /\ JobMoves(e, "writer") /\ job'[e]["writer"].pc = "lock"
  <2>1. CASE Write(e)
    <3>1. SetJob(e, "writer", [job[e]["writer"] EXCEPT !.pc = "lock", !.op = "write"])
      BY <2>1 DEF Write
    <3> QED
      BY <1>1, <1>2, <3>1, ToLockEffect
  <2>2. CASE Flush(e)
    <3>1. SetJob(e, "writer", [job[e]["writer"] EXCEPT !.pc = "lock", !.op = "flush"])
      BY <2>2 DEF Flush
    <3> QED
      BY <1>1, <1>2, <3>1, ToLockEffect
  <2> QED
    BY <2>1, <2>2
<1>6. RestTypes' /\ serve' = serve /\ raced' = raced /\ panic' = panic
  BY <1>1, RestUntouched
<1>7. ConnTypes' /\ ChanTypes' /\ params' \in Streams
  BY <1>1, Untouched
<1> QED
  BY <1>1, <1>3, <1>6, <1>7 DEF TypeInv

\* Close is called, and looks at the flag.
LEMMA CloseFacts ==
    ASSUME TypeInv, NEW e \in Ends, Close(e)
    PROVE  /\ TypeInv' /\ JobMoves(e, "closer") /\ job[e]["closer"].pc = "idle"
           /\ job'[e]["closer"].pc \in {"noop", "set"} /\ e \in Closers
           /\ conn' = conn /\ chan' = chan /\ serve' = serve /\ raced' = raced /\ panic' = panic
<1> DEFINE j == job[e]["closer"]
           p == IF conn[e].closed THEN "noop" ELSE "set"
           u == written[e]
           k == [j EXCEPT !.pc = p, !.upTo = u]
<1>1. /\ j.pc = "idle" /\ SetJob(e, "closer", k) /\ e \in Closers
      /\ UNCHANGED <<conn, rpc, serve, chan, appVars, panic, ghostVars, params>>
  BY DEF Close, At
<1>2. "closer" \in Roles /\ p \in {"noop", "set"} /\ u \in Nat
  BY DEF Roles, TypeInv, RestTypes
<1>3. GoodJob("closer", j) /\ JobTypes
  BY <1>2, EndTypes
<1> HIDE DEF j, p, u
<1>4. /\ k \in JobType /\ k.pc = p /\ k.todo = j.todo /\ k.seq = j.seq /\ k.stale = j.stale
      /\ k.op = j.op /\ k.left = j.left
  <2>1. j \in JobType
    BY <1>3 DEF GoodJob
  <2> QED
    BY <1>2, <2>1 DEF JobType
<1> HIDE DEF k
<1>5. GoodJob("closer", k)
  BY <1>1, <1>2, <1>3, <1>4 DEF GoodJob, Working
<1>6. JobTypes' /\ job'[e]["closer"] = k /\ OnlyJob(e, "closer")
  BY <1>1, <1>2, <1>3, <1>5, SetJobEffect DEF OnlyJob
<1>7. RestTypes' /\ serve' = serve /\ raced' = raced /\ panic' = panic
  BY <1>1, RestUntouched
<1>8. ConnTypes' /\ ChanTypes' /\ params' \in Streams
  BY <1>1, Untouched
<1> QED
  BY <1>1, <1>2, <1>4, <1>6, <1>7, <1>8 DEF TypeInv, JobMoves, j

\* Close sets the flag.
LEMMA CloseSetFacts ==
    ASSUME TypeInv, NEW e \in Ends, CloseSet(e)
    PROVE  /\ TypeInv' /\ JobMoves(e, "closer") /\ job[e]["closer"].pc = "set"
           /\ job'[e]["closer"].pc = "lock"
           /\ OnlyConn(e) /\ conn'[e] = [conn[e] EXCEPT !.closed = TRUE]
           /\ chan' = chan /\ serve' = serve /\ raced' = raced /\ panic' = panic
<1> DEFINE c == [conn[e] EXCEPT !.closed = TRUE]
<1>1. /\ job[e]["closer"].pc = "set" /\ SetConn(e, c)
      /\ SetJob(e, "closer", [job[e]["closer"] EXCEPT !.pc = "lock", !.op = "flush"])
      /\ UNCHANGED <<rpc, serve, chan, appVars, panic, ghostVars, params>>
  BY DEF CloseSet, At
<1>2. "closer" \in Roles /\ job[e]["closer"].pc \notin Working
  BY <1>1 DEF Roles, Working
<1>3. ConnTypes /\ GoodConn(conn[e])
  BY <1>2, EndTypes
<1>4. JobTypes' /\ JobMoves(e, "closer") /\ job'[e]["closer"].pc = "lock"
  BY <1>1, <1>2, ToLockEffect
<1>6. GoodConn(c)
  BY <1>3 DEF GoodConn, ConnType
<1>7. ConnTypes' /\ conn'[e] = c /\ OnlyConn(e)
  <2> HIDE DEF c
  <2> QED
    BY <1>1, <1>3, <1>6, SetConnEffect DEF OnlyConn
<1>8. RestTypes' /\ serve' = serve /\ raced' = raced /\ panic' = panic
  BY <1>1, RestUntouched
<1>9. ChanTypes' /\ params' \in Streams
  BY <1>1, Untouched
<1> QED
  BY <1>1, <1>4, <1>7, <1>8, <1>9 DEF TypeInv

\* What is begun with a block, with what the encoder will keep of it.
LEMMA LeftFields ==
    ASSUME NEW r \in Roles, NEW j, GoodJob(r, j), NEW f \in Bytes, Len(f) <= Group
    PROVE  LET k == [j EXCEPT !.left = f] IN
           /\ GoodJob(r, k) /\ k \in JobType /\ k.pc = j.pc /\ k.op = j.op /\ k.left = f /\ k.upTo = j.upTo
<1> DEFINE k == [j EXCEPT !.left = f]
<1>1. j \in JobType
  BY DEF GoodJob
<1>2. /\ k \in JobType /\ k.pc = j.pc /\ k.op = j.op /\ k.left = f /\ k.upTo = j.upTo
      /\ k.todo = j.todo
  BY <1>1 DEF JobType
<1> HIDE DEF k
<1>3. GoodJob(r, k)
  BY <1>2 DEF GoodJob
<1> QED
  BY <1>2, <1>3 DEF k

\* The lock is taken and given back at once, or kept for the chunks of a block.
LEMMA LockFacts ==
    ASSUME TypeInv, NEW e \in Ends, NEW r \in Roles, Lock(e, r)
    PROVE  /\ TypeInv' /\ OnlyConn(e) /\ OnlyJob(e, r) /\ Kept(e)
           /\ conn'[e].wseq = conn[e].wseq /\ conn'[e].werr = conn[e].werr
           /\ chan' = chan /\ serve' = serve /\ panic' = panic
           /\ job[e][r].pc = "lock" /\ conn[e].lock = "none" /\ Races(e, r, {"tail"})
           /\ \/ /\ job'[e][r].todo = <<>> /\ job'[e][r].pc \in {"idle", "tail", "notify", "failed"}
                 /\ r = "closer" => job'[e][r].pc # "idle"
                 /\ conn'[e].lock = "none"
              \/ /\ job'[e][r].todo # <<>> /\ job'[e][r].pc = "send"
                 /\ job'[e][r].seq = conn[e].wseq /\ job'[e][r].stale = conn[e].handlerT
                 /\ job'[e][r].op = job[e][r].op
                 /\ conn'[e].lock = r /\ conn'[e].wbuf = conn[e].wbuf /\ conn[e].wbuf # <<>>
<1> DEFINE j == job[e][r]
           c == conn[e]
           lf == Left(c.fringe, c.wbuf)
           k == [j EXCEPT !.left = lf]
           t == Chunks(c.fringe, c.wbuf)
           h == Held(c.fringe, c.wbuf)
           a == [c EXCEPT !.wbuf = Append(c.wbuf, written[e] + 1)]
           b == [c EXCEPT !.lock = r, !.fringe = h]
<1>1. /\ job[e][r].pc = "lock" /\ conn[e].lock = "none" /\ Races(e, r, {"tail"})
      /\ UNCHANGED <<rpc, serve, chan, got, panic, flushed, params>>
  BY DEF Lock, At, LockFree
<1>2. \/ SetJob(e, r, Failed(j, r)) /\ conn' = conn /\ written' = written
      \/ /\ Len(c.wbuf) < BlockSize /\ SetConn(e, a) /\ SetJob(e, r, Finished(j, r)) /\ Taken(e, j)
      \/ SetJob(e, r, Finished(j, r)) /\ conn' = conn /\ written' = written
      \/ t = <<>> /\ SetConn(e, Emptied(e, c, k)) /\ SetJob(e, r, Finished(k, r)) /\ Taken(e, j)
      \/ /\ t # <<>> /\ SetConn(e, b) /\ SetJob(e, r, Next1(k, c, t)) /\ written' = written
         /\ c.wbuf # <<>>
  <2>1. BlockSize \in Nat \ {0} /\ Len(<<>>) = 0
    BY Parameters DEF TypeInv
  <2>2. Len(c.wbuf) = BlockSize => c.wbuf # <<>>
    BY <2>1
  <2> QED
    BY <2>2 DEF Lock
<1>3. /\ params \in Streams /\ ConnTypes /\ JobTypes /\ GoodConn(c) /\ c \in ConnType
      /\ c.wbuf \in Bytes /\ c.fringe \in Bytes /\ Len(c.fringe) <= Group /\ Len(c.wbuf) <= BlockSize
      /\ GoodJob(r, j) /\ j \in JobType /\ written \in [Ends -> Nat] /\ c.lock = "none"
  BY <1>1, EndTypes DEF TypeInv, RestTypes
<1>4. /\ t \in Seq(Bytes) /\ lf \in Bytes /\ h \in Bytes /\ Len(lf) <= Group /\ Len(h) <= Group
  BY <1>3, Encoder
<1> HIDE DEF j, lf, t, h
<1>5. /\ GoodJob(r, k) /\ k \in JobType /\ k.pc = j.pc /\ k.op = j.op /\ k.left = lf
  BY <1>3, <1>4, LeftFields
<1> HIDE DEF k
<1>6. GoodJob(r, Failed(j, r)) /\ GoodJob(r, Finished(j, r)) /\ GoodJob(r, Finished(k, r))
      /\ \A z \in {Failed(j, r), Finished(j, r), Finished(k, r)} :
            /\ z.todo = <<>> /\ z.pc \in {"idle", "tail", "notify", "failed"}
            /\ r = "closer" => z.pc # "idle"
  BY <1>3, <1>5, FinishedFields
<1>7. Len(c.wbuf) < BlockSize =>
        GoodConn(a) /\ Same(a, c) /\ a.wseq = c.wseq /\ a.werr = c.werr /\ a.lock = "none"
  <2> DEFINE w == Append(c.wbuf, written[e] + 1)
  <2> SUFFICES ASSUME Len(c.wbuf) < BlockSize
               PROVE  GoodConn(a) /\ Same(a, c) /\ a.wseq = c.wseq /\ a.werr = c.werr /\ a.lock = "none"
    OBVIOUS
  <2>1. w \in Bytes /\ Len(w) <= BlockSize
    <3> DEFINE n == written[e] + 1
               q == c.wbuf
    <3>1. n \in Nat /\ q \in Seq(Nat) /\ Len(q) < BlockSize /\ BlockSize \in Nat
      BY <1>3, Parameters DEF Bytes
    <3> HIDE DEF n, q
    <3>2. Append(q, n) \in Seq(Nat) /\ Len(Append(q, n)) = Len(q) + 1 /\ Len(q) \in Nat
      BY <3>1
    <3>3. Len(q) + 1 <= BlockSize
      BY <3>1, <3>2
    <3> QED
      BY <3>2, <3>3 DEF n, q, Bytes
  <2> HIDE DEF w
  <2>2. a = [c EXCEPT !.wbuf = w]
    BY DEF w
  <2> HIDE DEF a
  <2>3. /\ a \in ConnType /\ a.wbuf = w /\ a.fringe = c.fringe /\ a.wseq = c.wseq /\ a.werr = c.werr
        /\ a.lock = c.lock /\ a.closed = c.closed /\ a.ready = c.ready /\ a.rbuf = c.rbuf
        /\ a.seq = c.seq /\ a.limit = c.limit /\ a.handlerT = c.handlerT /\ a.stream = c.stream
    BY <1>3, <2>1, <2>2 DEF ConnType
  <2> QED
    BY <1>3, <2>1, <2>3 DEF GoodConn, Same
<1>8. /\ GoodConn(b) /\ Same(b, c) /\ b.wseq = c.wseq /\ b.werr = c.werr /\ b.lock = r /\ b.wbuf = c.wbuf
  <2>1. /\ b \in ConnType /\ b.wbuf = c.wbuf /\ b.fringe = h /\ b.wseq = c.wseq /\ b.werr = c.werr
        /\ b.lock = r /\ b.closed = c.closed /\ b.ready = c.ready /\ b.rbuf = c.rbuf
        /\ b.seq = c.seq /\ b.limit = c.limit /\ b.handlerT = c.handlerT /\ b.stream = c.stream
    BY <1>3, <1>4 DEF ConnType
  <2> HIDE DEF b
  <2> QED
    BY <1>3, <1>4, <2>1 DEF GoodConn, Same
<1>9. /\ GoodConn(Emptied(e, c, k)) /\ Same(Emptied(e, c, k), c) /\ Emptied(e, c, k).wseq = c.wseq
      /\ Emptied(e, c, k).werr = c.werr /\ Emptied(e, c, k).lock = "none"
  BY <1>3, <1>4, <1>5, EmptiedFields DEF Same
<1> HIDE DEF a, b, c
<1>10. /\ ConnTypes' /\ OnlyConn(e) /\ Same(conn'[e], c) /\ conn'[e].wseq = c.wseq
       /\ conn'[e].werr = c.werr
       /\ JobTypes' /\ OnlyJob(e, r) /\ written' \in [Ends -> Nat]
       /\ \/ /\ job'[e][r].todo = <<>> /\ job'[e][r].pc \in {"idle", "tail", "notify", "failed"}
             /\ r = "closer" => job'[e][r].pc # "idle"
             /\ conn'[e].lock = "none"
          \/ /\ job'[e][r].todo # <<>> /\ job'[e][r].pc = "send"
             /\ job'[e][r].seq = c.wseq /\ job'[e][r].stale = c.handlerT
             /\ job'[e][r].op = j.op
             /\ conn'[e].lock = r /\ conn'[e].wbuf = c.wbuf /\ c.wbuf # <<>>
  <2>0. params' = params
    BY <1>1
  <2>1. ASSUME NEW z \in {Failed(j, r), Finished(j, r), Finished(k, r)}, SetJob(e, r, z)
        PROVE  /\ JobTypes' /\ OnlyJob(e, r)
               /\ job'[e][r].todo = <<>> /\ job'[e][r].pc \in {"idle", "tail", "notify", "failed"}
               /\ r = "closer" => job'[e][r].pc # "idle"
    <3>1. GoodJob(r, z)
      BY <1>6
    <3>2. JobTypes' /\ job'[e][r] = z /\ OnlyJob(e, r)
      BY <1>3, <2>0, <2>1, <3>1, SetJobEffect DEF OnlyJob
    <3> QED
      BY <1>6, <3>2
  <2>2. ASSUME NEW z, GoodConn(z), SetConn(e, z)
        PROVE  ConnTypes' /\ OnlyConn(e) /\ conn'[e] = z
    BY <1>3, <2>0, <2>2, SetConnEffect DEF OnlyConn
  <2>3. conn' = conn => /\ ConnTypes' /\ OnlyConn(e) /\ Same(conn'[e], c)
                        /\ conn'[e].wseq = c.wseq /\ conn'[e].werr = c.werr /\ conn'[e].lock = "none"
    BY <1>3, <2>0, Untouched DEF c, Kept
  <2>4. Taken(e, j) => written' \in [Ends -> Nat]
    BY <1>3 DEF Taken
  <2>5. CASE SetJob(e, r, Failed(j, r)) /\ conn' = conn /\ written' = written
    BY <1>3, <2>1, <2>3, <2>5
  <2>6. CASE /\ Len(c.wbuf) < BlockSize /\ SetConn(e, a) /\ SetJob(e, r, Finished(j, r)) /\ Taken(e, j)
    BY <1>7, <2>1, <2>2, <2>4, <2>6
  <2>7. CASE SetJob(e, r, Finished(j, r)) /\ conn' = conn /\ written' = written
    BY <1>3, <2>1, <2>3, <2>7
  <2>8. CASE t = <<>> /\ SetConn(e, Emptied(e, c, k)) /\ SetJob(e, r, Finished(k, r)) /\ Taken(e, j)
    BY <1>9, <2>1, <2>2, <2>4, <2>8
  <2>9. CASE /\ t # <<>> /\ SetConn(e, b) /\ SetJob(e, r, Next1(k, c, t)) /\ written' = written
             /\ c.wbuf # <<>>
    <3> DEFINE n == Next1(k, c, t)
    <3>1. /\ GoodJob(r, n) /\ n.pc = "send" /\ n.todo = t /\ n.seq = c.wseq /\ n.stale = c.handlerT
          /\ n.op = k.op
      BY <1>3, <1>4, <1>5, <2>9, Next1Fields
    <3> HIDE DEF n
    <3>2. JobTypes' /\ job'[e][r] = n /\ OnlyJob(e, r)
      BY <1>3, <2>0, <2>9, <3>1, SetJobEffect DEF OnlyJob, n
    <3>3. ConnTypes' /\ OnlyConn(e) /\ conn'[e] = b
      BY <1>8, <2>2, <2>9
    <3> QED
      BY <1>3, <1>5, <1>8, <2>9, <3>1, <3>2, <3>3
  <2> QED
    BY <1>2, <2>5, <2>6, <2>7, <2>8, <2>9 DEF c
<1>11. raced' \in [Ends -> BOOLEAN]
  BY <1>1, RacesEffect
<1>12. RestTypes'
  <2>1. RestTypes
    BY DEF TypeInv
  <2> QED
    BY <1>1, <1>10, <1>11, <2>1 DEF RestTypes
<1>13. ChanTypes' /\ params' \in Streams
  BY <1>1, Untouched
<1> QED
  BY <1>1, <1>10, <1>12, <1>13 DEF TypeInv, Kept, c, j

\* A stanza is sent to the other end of e.
SendsOne(e, m) ==
    /\ chan'[Other(e)] = Append(chan[Other(e)], m)
    /\ \A x \in Ends : x # Other(e) => chan'[x] = chan[x]

\* (With the lemma on sending several.)
LEMMA SendsOneEffect ==
    ASSUME ChanTypes, NEW e \in Ends, NEW m \in Stanzas, Sends(e, <<m>>)
    PROVE  ChanTypes' /\ SendsOne(e, m)
<1>1. <<m>> \in Seq(Stanzas) /\ Other(e) \in Ends /\ chan[Other(e)] \in Seq(Stanzas)
  BY OtherEnd DEF ChanTypes
<1>2. /\ ChanTypes' /\ chan'[Other(e)] = chan[Other(e)] \o <<m>>
      /\ \A x \in Ends : x # Other(e) => chan'[x] = chan[x]
  BY <1>1, SendsEffect
<1>3. chan[Other(e)] \o <<m>> = Append(chan[Other(e)], m)
  BY <1>1
<1> QED
  BY <1>2, <1>3 DEF SendsOne

\* A chunk goes out in a stanza, or fails because its handler has returned.
LEMMA SendFacts ==
    ASSUME TypeInv, NEW e \in Ends, NEW r \in Roles, Send(e, r)
    PROVE  /\ TypeInv' /\ job[e][r].pc = "send"
           /\ serve' = serve /\ panic' = panic /\ raced' = raced
           /\ \/ job[e][r].stale /\ chan' = chan /\ Breaks(e, r)
              \/ /\ ~job[e][r].stale
                 /\ \E m \in Stanzas :
                       /\ m.kind = "data" /\ m.seq = job[e][r].seq /\ SendsOne(e, m)
                       /\ \/ conn' = conn /\ JobMoves(e, r) /\ job'[e][r].pc = "wait"
                            /\ job'[e][r].op = job[e][r].op /\ m.by = r
                          \/ Advances(e, r) /\ m.by = "none"
<1> DEFINE j == job[e][r]
           m == Stanza("data", j.seq, Head(j.todo), IF Acked THEN r ELSE "none")
<1>1. j.pc = "send" /\ UNCHANGED <<rpc, serve, got, panic, ghostVars, params>>
  BY DEF Send, At
<1>2. \/ j.stale /\ WriteErr(e, r) /\ chan' = chan
      \/ /\ ~j.stale /\ Sends(e, <<m>>)
         /\ \/ /\ SetJob(e, r, [j EXCEPT !.pc = "wait"]) /\ conn' = conn /\ written' = written
               /\ Acked
            \/ Wrote(e, r) /\ ~Acked
  BY DEF Send
<1>3. j \in JobType /\ GoodJob(r, j) /\ ChanTypes
  BY EndTypes
<1>4. j.todo # <<>> /\ j.todo \in Seq(Bytes) /\ j.seq \in 0 .. SeqCount - 1
  BY <1>1, <1>3 DEF GoodJob, Working, JobType
<1>5. m \in Stanzas /\ m.kind = "data" /\ m.seq = j.seq /\ m.by = IF Acked THEN r ELSE "none"
  <2> DEFINE h == Head(j.todo)
             s == j.seq
             b == IF Acked THEN r ELSE "none"
  <2>1. h \in Bytes /\ b \in Roles \cup {"none"}
    BY <1>4
  <2>2. m = [kind |-> "data", seq |-> s, bytes |-> h, by |-> b] /\ s \in 0 .. SeqCount - 1
    BY <1>4 DEF Stanza
  <2> HIDE DEF h, s, b, m
  <2>3. m \in Stanzas /\ m.kind = "data" /\ m.seq = s /\ m.by = b
    BY <2>1, <2>2 DEF Stanzas, StanzaType
  <2> QED
    BY <2>3 DEF s, b
<1> HIDE DEF m
<1>6. ASSUME written' \in [Ends -> Nat]
      PROVE  RestTypes' /\ serve' = serve /\ panic' = panic /\ raced' = raced
  BY <1>1, <1>6 DEF TypeInv, RestTypes, ghostVars
<1>7. params' \in Streams /\ params' = params /\ written \in [Ends -> Nat]
  BY <1>1 DEF TypeInv, RestTypes
<1>8. CASE j.stale /\ WriteErr(e, r) /\ chan' = chan
  <2>1. ConnTypes' /\ JobTypes' /\ written' = written /\ Breaks(e, r)
    BY <1>7, <1>8, WriteErrFacts
  <2>2. ChanTypes'
    BY <1>7, <1>8, Untouched
  <2> QED
    BY <1>1, <1>6, <1>7, <1>8, <2>1, <2>2 DEF TypeInv
<1>9. CASE ~j.stale /\ Sends(e, <<m>>) /\ Wrote(e, r) /\ ~Acked
  <2>1. ConnTypes' /\ JobTypes' /\ written' \in [Ends -> Nat] /\ Advances(e, r)
    BY <1>4, <1>7, <1>9, WroteFacts
  <2>2. ChanTypes' /\ SendsOne(e, m)
    BY <1>3, <1>5, <1>9, SendsOneEffect
  <2> QED
    BY <1>1, <1>5, <1>6, <1>7, <1>9, <2>1, <2>2 DEF TypeInv
<1>10. CASE /\ ~j.stale /\ Sends(e, <<m>>) /\ SetJob(e, r, [j EXCEPT !.pc = "wait"])
            /\ conn' = conn /\ written' = written /\ Acked
  <2>1. ConnTypes'
    BY <1>7, <1>10, Untouched
  <2>2. ChanTypes' /\ SendsOne(e, m)
    BY <1>3, <1>5, <1>10, SendsOneEffect
  <2>3. "wait" \in Pcs \ {"lock"} /\ "wait" \in Working /\ j.pc \in Working
    BY <1>1 DEF Pcs, Working
  <2>4. JobTypes' /\ JobMoves(e, r) /\ job'[e][r].pc = "wait" /\ job'[e][r].op = job[e][r].op
    BY <1>7, <1>10, <2>3, PcEffect
  <2> QED
    BY <1>1, <1>5, <1>6, <1>7, <1>10, <2>1, <2>2, <2>4 DEF TypeInv
<1> QED
  BY <1>2, <1>8, <1>9, <1>10

\* The answer of a block is taken.
LEMMA AnsweredFacts ==
    ASSUME TypeInv, NEW e \in Ends, NEW r \in Roles, Answered(e, r)
    PROVE  /\ TypeInv' /\ serve' = serve /\ panic' = panic /\ raced' = raced /\ chan' = chan
           /\ \/ job[e][r].pc = "result" /\ Advances(e, r)
              \/ job[e][r].pc = "error" /\ Breaks(e, r)
<1>1. UNCHANGED <<rpc, serve, chan, got, panic, ghostVars, params>>
  BY DEF Answered
<1>2. \/ job[e][r].pc = "result" /\ Wrote(e, r)
      \/ job[e][r].pc = "error" /\ WriteErr(e, r)
  BY DEF Answered, At
<1>3. job[e][r].pc = "result" => job[e][r].todo # <<>>
  BY BusyWorking DEF Busy, Working
<1>4. params' \in Streams /\ params' = params /\ written \in [Ends -> Nat] /\ ChanTypes'
  BY <1>1, Untouched DEF TypeInv, RestTypes
<1>5. /\ ConnTypes' /\ JobTypes' /\ written' \in [Ends -> Nat]
      /\ \/ job[e][r].pc = "result" /\ Advances(e, r)
         \/ job[e][r].pc = "error" /\ Breaks(e, r)
  BY <1>2, <1>3, <1>4, WroteFacts, WriteErrFacts
<1>6. RestTypes' /\ serve' = serve /\ panic' = panic /\ raced' = raced /\ chan' = chan
  BY <1>1, <1>5 DEF TypeInv, RestTypes, ghostVars
<1> QED
  BY <1>4, <1>5, <1>6 DEF TypeInv

\* The deadline passes.
LEMMA TimeoutFacts ==
    ASSUME TypeInv, NEW e \in Ends, NEW r \in Roles, Timeout(e, r)
    PROVE  /\ TypeInv' /\ serve' = serve /\ panic' = panic /\ raced' = raced /\ chan' = chan
           /\ job[e][r].pc = "wait" /\ Breaks(e, r)
<1>1. UNCHANGED <<rpc, serve, chan, got, panic, ghostVars, params>>
  BY DEF Timeout
<1>2. job[e][r].pc = "wait" /\ WriteErr(e, r)
  BY DEF Timeout, At
<1>4. params' \in Streams /\ params' = params /\ written \in [Ends -> Nat] /\ ChanTypes'
  BY <1>1, Untouched DEF TypeInv, RestTypes
<1>5. ConnTypes' /\ JobTypes' /\ written' \in [Ends -> Nat] /\ Breaks(e, r)
  BY <1>2, <1>4, WriteErrFacts
<1>6. RestTypes' /\ serve' = serve /\ panic' = panic /\ raced' = raced /\ chan' = chan
  BY <1>1, <1>5 DEF TypeInv, RestTypes, ghostVars
<1> QED
  BY <1>2, <1>4, <1>5, <1>6 DEF TypeInv

\* The group that is not full.
LEMMA FlushTypes ==
    ASSUME NEW f \in Bytes
    PROVE  closeFlush(f) \in Seq(Bytes) /\ Len(closeFlush(f)) <= 1 /\ (closeFlush(f) = <<>> <=> f = <<>>)
BY DEF closeFlush, NonEmpty

\* Close flushes the encoder.
LEMMA CloseTailFacts ==
    ASSUME TypeInv, NEW e \in Ends, CloseTail(e)
    PROVE  /\ TypeInv' /\ OnlyJob(e, "closer") /\ conn' = conn /\ job[e]["closer"].pc = "tail"
           /\ chan' = chan /\ serve' = serve /\ panic' = panic /\ Races(e, "closer", Ops)
           /\ \/ job'[e]["closer"].todo = <<>> /\ job'[e]["closer"].pc \in {"notify", "failed"}
              \/ /\ job'[e]["closer"].todo # <<>> /\ job'[e]["closer"].pc = "send"
                 /\ job'[e]["closer"].op = "tail"
                 /\ job'[e]["closer"].seq = conn[e].wseq /\ job'[e]["closer"].stale = conn[e].handlerT
<1> DEFINE j == [job[e]["closer"] EXCEPT !.op = "tail"]
           c == conn[e]
           t == closeFlush(c.fringe)
<1>1. /\ job[e]["closer"].pc = "tail" /\ Races(e, "closer", Ops)
      /\ UNCHANGED <<conn, rpc, serve, chan, appVars, panic, flushed, params>>
  BY DEF CloseTail, At
<1>2. \/ SetJob(e, "closer", Failed(j, "closer"))
      \/ SetJob(e, "closer", Finished(j, "closer"))
      \/ t # <<>> /\ SetJob(e, "closer", Next1(j, c, t))
  BY DEF CloseTail
<1>3. /\ params \in Streams /\ JobTypes /\ c \in ConnType /\ c.fringe \in Bytes
      /\ "closer" \in Roles /\ GoodJob("closer", job[e]["closer"])
  BY EndTypes DEF Roles
<1>4. t \in Seq(Bytes)
  BY <1>3, FlushTypes
<1>5. j \in JobType /\ j.op = "tail" /\ GoodJob("closer", j)
  <2> DEFINE q == job[e]["closer"]
  <2>1. q \in JobType /\ GoodJob("closer", q) /\ q.pc = "tail" /\ "tail" \in Ops
    BY <1>1, <1>3 DEF GoodJob, Ops
  <2>2. j = [q EXCEPT !.op = "tail"]
    OBVIOUS
  <2> HIDE DEF q, j
  <2>3. /\ j \in JobType /\ j.op = "tail" /\ j.pc = q.pc /\ j.todo = q.todo /\ j.left = q.left
    BY <2>1, <2>2 DEF JobType
  <2> QED
    BY <2>1, <2>3 DEF GoodJob
<1> HIDE DEF j, t, c
<1>6. /\ JobTypes' /\ OnlyJob(e, "closer")
      /\ \/ job'[e]["closer"].todo = <<>> /\ job'[e]["closer"].pc \in {"notify", "failed"}
         \/ /\ job'[e]["closer"].todo # <<>> /\ job'[e]["closer"].pc = "send"
            /\ job'[e]["closer"].op = "tail"
            /\ job'[e]["closer"].seq = c.wseq /\ job'[e]["closer"].stale = c.handlerT
  <2>0. params' = params
    BY <1>1
  <2>1. CASE SetJob(e, "closer", Failed(j, "closer"))
    <3> DEFINE k == Failed(j, "closer")
    <3>1. GoodJob("closer", k) /\ k.todo = <<>> /\ k.pc = "failed"
      BY <1>3, <1>5, FinishedFields
    <3> HIDE DEF k
    <3>2. JobTypes' /\ job'[e]["closer"] = k /\ OnlyJob(e, "closer")
      BY <1>3, <2>0, <2>1, <3>1, SetJobEffect DEF OnlyJob, k
    <3> QED
      BY <3>1, <3>2
  <2>2. CASE SetJob(e, "closer", Finished(j, "closer"))
    <3> DEFINE k == Finished(j, "closer")
    <3>1. k = Leaves(j, "notify")
      BY <1>5 DEF Finished
    <3>2. GoodJob("closer", k) /\ k.todo = <<>> /\ k.pc = "notify"
      BY <1>3, <1>5, <3>1, LeavesFields
    <3> HIDE DEF k
    <3>3. JobTypes' /\ job'[e]["closer"] = k /\ OnlyJob(e, "closer")
      BY <1>3, <2>0, <2>2, <3>2, SetJobEffect DEF OnlyJob, k
    <3> QED
      BY <3>2, <3>3
  <2>3. CASE t # <<>> /\ SetJob(e, "closer", Next1(j, c, t))
    <3> DEFINE k == Next1(j, c, t)
    <3>1. /\ GoodJob("closer", k) /\ k.pc = "send" /\ k.todo = t /\ k.seq = c.wseq
          /\ k.stale = c.handlerT /\ k.op = j.op
      BY <1>3, <1>4, <1>5, <2>3, Next1Fields
    <3> HIDE DEF k
    <3>2. JobTypes' /\ job'[e]["closer"] = k /\ OnlyJob(e, "closer")
      BY <1>3, <2>0, <2>3, <3>1, SetJobEffect DEF OnlyJob, k
    <3> QED
      BY <1>5, <2>3, <3>1, <3>2
  <2> QED
    BY <1>2, <2>1, <2>2, <2>3
<1>7. raced' \in [Ends -> BOOLEAN]
  BY <1>1, RacesEffect
<1>8. RestTypes'
  BY <1>1, <1>7 DEF TypeInv, RestTypes, appVars
<1>9. ConnTypes' /\ ChanTypes' /\ params' \in Streams
  BY <1>1, Untouched
<1> QED
  BY <1>1, <1>6, <1>8, <1>9 DEF TypeInv, c

\* Close asks the other end to close.
LEMMA CloseNotifyFacts ==
    ASSUME TypeInv, NEW e \in Ends, CloseNotify(e)
    PROVE  /\ TypeInv' /\ JobMoves(e, "closer") /\ job[e]["closer"].pc = "notify"
           /\ job'[e]["closer"].pc = "closewait"
           /\ \E m \in Stanzas : m.kind = "close" /\ m.by = "closer" /\ SendsOne(e, m)
           /\ conn' = conn /\ serve' = serve /\ raced' = raced /\ panic' = panic
<1> DEFINE m == Stanza("close", 0, <<>>, "closer")
<1>1. /\ job[e]["closer"].pc = "notify" /\ Sends(e, <<m>>)
      /\ SetJob(e, "closer", [job[e]["closer"] EXCEPT !.pc = "closewait"])
      /\ UNCHANGED <<conn, rpc, serve, appVars, panic, ghostVars, params>>
  BY DEF CloseNotify, At
<1>2. m \in Stanzas /\ m.kind = "close" /\ m.by = "closer"
  BY SeqAssumption DEF Stanza, Stanzas, StanzaType, Bytes, Roles
<1> HIDE DEF m
<1>3. /\ "closer" \in Roles /\ "closewait" \in Pcs \ {"lock"} /\ "closewait" \notin Working
      /\ job[e]["closer"].pc \notin Working /\ ChanTypes
  BY <1>1 DEF Roles, Pcs, Working, TypeInv
<1>4. JobTypes' /\ JobMoves(e, "closer") /\ job'[e]["closer"].pc = "closewait"
  BY <1>1, <1>3, PcEffect
<1>5. ChanTypes' /\ SendsOne(e, m)
  BY <1>1, <1>2, <1>3, SendsOneEffect
<1>6. RestTypes' /\ serve' = serve /\ raced' = raced /\ panic' = panic
  BY <1>1, RestUntouched
<1>7. ConnTypes' /\ params' \in Streams
  BY <1>1, Untouched
<1> QED
  BY <1>1, <1>2, <1>4, <1>5, <1>6, <1>7 DEF TypeInv

\* Close waits no longer.
LEMMA CloseTimeoutFacts ==
    ASSUME TypeInv, NEW e \in Ends, CloseTimeout(e)
    PROVE  /\ TypeInv' /\ OnlyJob(e, "closer") /\ job[e]["closer"].pc = "closewait"
           /\ job'[e]["closer"].pc = "failed" /\ job'[e]["closer"].todo = <<>>
           /\ conn' = conn /\ chan' = chan /\ serve' = serve /\ raced' = raced /\ panic' = panic
<1> DEFINE j == job[e]["closer"]
           k == Failed(j, "closer")
<1>1. /\ job[e]["closer"].pc = "closewait" /\ SetJob(e, "closer", k)
      /\ UNCHANGED <<conn, rpc, serve, chan, appVars, panic, ghostVars, params>>
  BY DEF CloseTimeout, At
<1>2. "closer" \in Roles /\ params \in Streams /\ JobTypes /\ j \in JobType
  BY EndTypes DEF Roles
<1>3. GoodJob("closer", k) /\ k.todo = <<>> /\ k.pc = "failed"
  BY <1>2, FinishedFields
<1> HIDE DEF k
<1>4. JobTypes' /\ job'[e]["closer"] = k /\ OnlyJob(e, "closer")
  BY <1>1, <1>2, <1>3, SetJobEffect DEF OnlyJob
<1>5. RestTypes' /\ serve' = serve /\ raced' = raced /\ panic' = panic
  BY <1>1, RestUntouched
<1>6. ConnTypes' /\ ChanTypes' /\ params' \in Streams
  BY <1>1, Untouched
<1> QED
  BY <1>1, <1>3, <1>4, <1>5, <1>6 DEF TypeInv

\* Of a connection, all that writing needs is the same.
Writes(d, c) ==
    /\ d.wbuf = c.wbuf /\ d.fringe = c.fringe /\ d.wseq = c.wseq /\ d.werr = c.werr
    /\ d.handlerT = c.handlerT /\ d.lock = c.lock

\* The channel is closed, again or for the first time.
LEMMA CloseReadyEffect ==
    ASSUME TypeInv, NEW e \in Ends, NEW c, GoodConn(c), CloseReady(e, c), params' = params
    PROVE  /\ ConnTypes' /\ OnlyConn(e) /\ Writes(conn'[e], c) /\ ~conn'[e].ready
           /\ conn'[e].closed = c.closed /\ conn'[e].rbuf = c.rbuf /\ conn'[e].seq = c.seq
           /\ conn'[e].limit = c.limit /\ conn'[e].stream = c.stream
           /\ rpc' \in [Ends -> {"idle", "unlocked", "waiting", "woken", "eof"}]
           /\ panic' \in [Ends -> BOOLEAN] /\ \A x \in Ends : x # e => panic'[x] = panic[x]
           /\ panic'[e] => panic[e] \/ ~c.ready
<1> DEFINE d == [c EXCEPT !.ready = FALSE]
<1>1. c \in ConnType /\ ConnTypes
  BY DEF GoodConn, TypeInv
<1>2. /\ d \in ConnType /\ ~d.ready /\ d.closed = c.closed /\ d.rbuf = c.rbuf /\ d.seq = c.seq
      /\ d.limit = c.limit /\ d.stream = c.stream /\ Writes(d, c)
  BY <1>1 DEF ConnType, Writes
<1> HIDE DEF d
<1>3. GoodConn(d)
  BY <1>2 DEF GoodConn, Writes
<1>4. /\ rpc \in [Ends -> {"idle", "unlocked", "waiting", "woken", "eof"}]
      /\ panic \in [Ends -> BOOLEAN]
  BY DEF TypeInv, RestTypes
<1>5. CASE c.ready
  <2>1. /\ SetConn(e, d) /\ rpc' = [rpc EXCEPT ![e] = IF rpc[e] = "waiting" THEN "woken" ELSE rpc[e]]
        /\ panic' = panic
    BY <1>5 DEF CloseReady, d
  <2>2. ConnTypes' /\ conn'[e] = d /\ OnlyConn(e)
    BY <1>1, <1>3, <2>1, SetConnEffect DEF OnlyConn
  <2>3. rpc' \in [Ends -> {"idle", "unlocked", "waiting", "woken", "eof"}]
    BY <1>4, <2>1
  <2> QED
    BY <1>2, <1>4, <2>1, <2>2, <2>3
<1>6. CASE ~c.ready
  <2>1. SetConn(e, c) /\ rpc' = rpc /\ panic' = [panic EXCEPT ![e] = TRUE]
    BY <1>6 DEF CloseReady
  <2>2. ConnTypes' /\ conn'[e] = c /\ OnlyConn(e)
    BY <1>1, <2>1, SetConnEffect DEF OnlyConn
  <2>3. panic' \in [Ends -> BOOLEAN] /\ \A x \in Ends : x # e => panic'[x] = panic[x]
    BY <1>4, <2>1
  <2> QED
    BY <1>4, <1>6, <2>1, <2>2, <2>3 DEF Writes
<1> QED
  BY <1>5, <1>6

\* Close ends the reads.
LEMMA CloseDoneFacts ==
    ASSUME TypeInv, NEW e \in Ends, CloseDone(e)
    PROVE  /\ TypeInv' /\ JobMoves(e, "closer") /\ job[e]["closer"].pc = "closed"
           /\ job'[e]["closer"].pc = "done"
           /\ OnlyConn(e) /\ Writes(conn'[e], conn[e]) /\ ~conn'[e].ready
           /\ conn'[e].closed = conn[e].closed /\ conn'[e].rbuf = conn[e].rbuf
           /\ conn'[e].seq = conn[e].seq /\ conn'[e].limit = conn[e].limit
           /\ conn'[e].stream = conn[e].stream
           /\ chan' = chan /\ serve' = serve /\ raced' = raced
           /\ \A x \in Ends : x # e => panic'[x] = panic[x]
           /\ panic'[e] => panic[e] \/ ~conn[e].ready
<1> DEFINE j == job[e]["closer"]
<1>1. /\ job[e]["closer"].pc = "closed" /\ CloseReady(e, conn[e])
      /\ SetJob(e, "closer", [job[e]["closer"] EXCEPT !.pc = "done"])
      /\ flushed' = [flushed EXCEPT ![e] = IF conn[e].ready THEN j.upTo ELSE @]
      /\ UNCHANGED <<serve, chan, appVars, raced, params>>
  BY DEF CloseDone, At
<1>2. /\ "closer" \in Roles /\ "done" \in Pcs \ {"lock"} /\ "done" \notin Working
      /\ job[e]["closer"].pc \notin Working
  BY <1>1 DEF Roles, Pcs, Working
<1>3. GoodConn(conn[e]) /\ j \in JobType
  BY <1>2, EndTypes
<1>4. JobTypes' /\ JobMoves(e, "closer") /\ job'[e]["closer"].pc = "done"
  BY <1>1, <1>2, PcEffect
<1>5. /\ ConnTypes' /\ OnlyConn(e) /\ Writes(conn'[e], conn[e]) /\ ~conn'[e].ready
      /\ conn'[e].closed = conn[e].closed /\ conn'[e].rbuf = conn[e].rbuf
      /\ conn'[e].seq = conn[e].seq /\ conn'[e].limit = conn[e].limit
      /\ conn'[e].stream = conn[e].stream
      /\ rpc' \in [Ends -> {"idle", "unlocked", "waiting", "woken", "eof"}]
      /\ panic' \in [Ends -> BOOLEAN] /\ \A x \in Ends : x # e => panic'[x] = panic[x]
      /\ panic'[e] => panic[e] \/ ~conn[e].ready
  BY <1>1, <1>3, CloseReadyEffect
<1>6. flushed' \in [Ends -> Nat]
  <2> DEFINE v == IF conn[e].ready THEN j.upTo ELSE flushed[e]
  <2>1. flushed \in [Ends -> Nat] /\ v \in Nat
    BY <1>3 DEF TypeInv, RestTypes, JobType
  <2>2. flushed' = [flushed EXCEPT ![e] = v]
    BY <1>1
  <2> HIDE DEF v
  <2> QED
    BY <2>1, <2>2
<1>7. RestTypes'
  BY <1>1, <1>5, <1>6 DEF TypeInv, RestTypes, appVars
<1>8. ChanTypes' /\ params' \in Streams
  BY <1>1, Untouched
<1> QED
  BY <1>1, <1>4, <1>5, <1>7, <1>8 DEF TypeInv

\* What only the reading side changes.
LEMMA ReadFacts ==
    ASSUME TypeInv, NEW e \in Ends, Read(e)
    PROVE  /\ TypeInv' /\ OnlyConn(e) /\ Writes(conn'[e], conn[e])
           /\ conn'[e].closed = conn[e].closed /\ conn'[e].ready = conn[e].ready
           /\ conn'[e].seq = conn[e].seq /\ conn'[e].limit = conn[e].limit
           /\ conn'[e].stream = conn[e].stream /\ Len(conn'[e].rbuf) <= Len(conn[e].rbuf)
           /\ job' = job /\ chan' = chan /\ serve' = serve /\ raced' = raced /\ panic' = panic
<1>1. UNCHANGED <<job, serve, chan, written, panic, ghostVars, params>>
  BY DEF Read
<1>2. /\ rpc \in [Ends -> {"idle", "unlocked", "waiting", "woken", "eof"}]
      /\ got \in [Ends -> Bytes] /\ ConnTypes
      /\ GoodConn(conn[e]) /\ conn[e] \in ConnType /\ conn[e].rbuf \in Bytes
  BY EndTypes DEF TypeInv, RestTypes
<1>3. rpc' \in [Ends -> {"idle", "unlocked", "waiting", "woken", "eof"}]
  <2>1. PICK v \in {"idle", "unlocked", "waiting", "woken", "eof"} : rpc' = [rpc EXCEPT ![e] = v]
    BY DEF Read
  <2> QED
    BY <1>2, <2>1
<1>4. /\ got' \in [Ends -> Bytes] /\ ConnTypes' /\ OnlyConn(e) /\ Writes(conn'[e], conn[e])
      /\ conn'[e].closed = conn[e].closed /\ conn'[e].ready = conn[e].ready
      /\ conn'[e].seq = conn[e].seq /\ conn'[e].limit = conn[e].limit
      /\ conn'[e].stream = conn[e].stream /\ Len(conn'[e].rbuf) <= Len(conn[e].rbuf)
  <2>1. CASE conn' = conn /\ got' = got
    <3>1. ConnTypes' /\ OnlyConn(e)
      BY <1>1, <2>1, Untouched
    <3>2. Len(conn[e].rbuf) \in Nat
      BY <1>2 DEF Bytes
    <3> QED
      BY <1>2, <2>1, <3>1, <3>2 DEF Writes
  <2>2. CASE \E k \in 1 .. Len(conn[e].rbuf) : Take(e, k)
    <3>1. PICK k \in 1 .. Len(conn[e].rbuf) : Take(e, k)
      BY <2>2
    <3> DEFINE b == conn[e].rbuf
               x == SubSeq(b, 1, k)
               y == SubSeq(b, k + 1, Len(b))
               c == [conn[e] EXCEPT !.rbuf = y]
               g == got[e] \o x
    <3>2. b \in Seq(Nat) /\ k \in 1 .. Len(b)
      BY <1>2, <3>1 DEF Bytes
    <3>3. got' = [got EXCEPT ![e] = g] /\ SetConn(e, c)
      BY <3>1 DEF Take
    <3> HIDE DEF b
    <3>4. x \in Seq(Nat) /\ y \in Seq(Nat) /\ Len(y) <= Len(b)
      <4>1. Len(b) \in Nat /\ k \in Nat /\ 1 <= k /\ k <= Len(b) /\ k + 1 \in Nat
        BY <3>2
      <4>2. x \in Seq(Nat)
        BY <3>2, <4>1
      <4>3. y \in Seq(Nat) /\ Len(y) = IF k + 1 <= Len(b) THEN Len(b) - k ELSE 0
        BY <3>2, <4>1
      <4> QED
        BY <4>1, <4>2, <4>3
    <3> HIDE DEF x, y
    <3>5. g \in Bytes
      BY <1>2, <3>4 DEF Bytes
    <3> HIDE DEF g
    <3>6. got' \in [Ends -> Bytes]
      BY <1>2, <3>3, <3>5
    <3>7. /\ c \in ConnType /\ c.rbuf = y /\ c.closed = conn[e].closed /\ c.ready = conn[e].ready
          /\ c.seq = conn[e].seq /\ c.limit = conn[e].limit /\ c.stream = conn[e].stream
          /\ Writes(c, conn[e])
      BY <1>2, <3>4 DEF ConnType, Writes, Bytes
    <3> HIDE DEF c
    <3>8. GoodConn(c)
      BY <1>2, <3>7 DEF GoodConn, Writes
    <3>9. ConnTypes' /\ conn'[e] = c /\ OnlyConn(e)
      BY <1>1, <1>2, <3>3, <3>8, SetConnEffect DEF OnlyConn
    <3> QED
      BY <3>4, <3>6, <3>7, <3>9 DEF b
  <2> QED
    BY <2>1, <2>2 DEF Read
<1>5. RestTypes'
  BY <1>1, <1>3, <1>4 DEF TypeInv, RestTypes, ghostVars
<1>6. JobTypes' /\ ChanTypes' /\ params' \in Streams
  BY <1>1, Untouched
<1> QED
  BY <1>1, <1>4, <1>5, <1>6 DEF TypeInv, ghostVars

\* Receive waits, or is woken at once.
LEMMA ReceiveFacts ==
    ASSUME TypeInv, NEW e \in Ends, Receive(e)
    PROVE  /\ TypeInv' /\ conn' = conn
           /\ job' = job /\ chan' = chan /\ serve' = serve /\ raced' = raced /\ panic' = panic
<1>1. UNCHANGED <<conn, job, serve, chan, appVars, panic, ghostVars, params>>
  BY DEF Receive
<1>2. PICK v \in {"waiting", "woken"} : rpc' = [rpc EXCEPT ![e] = v]
  BY DEF Receive
<1>3. rpc' \in [Ends -> {"idle", "unlocked", "waiting", "woken", "eof"}]
  BY <1>2 DEF TypeInv, RestTypes
<1>4. RestTypes'
  BY <1>1, <1>3 DEF TypeInv, RestTypes, appVars, ghostVars
<1>5. ConnTypes' /\ JobTypes' /\ ChanTypes' /\ params' \in Streams
  BY <1>1, Untouched
<1> QED
  BY <1>1, <1>4, <1>5 DEF TypeInv, ghostVars

\* The limit is changed.
LEMMA SetReadBufferFacts ==
    ASSUME TypeInv, NEW e \in Ends, NEW max \in Limits, SetReadBuffer(e, max)
    PROVE  /\ TypeInv' /\ OnlyConn(e) /\ Writes(conn'[e], conn[e])
           /\ conn'[e].closed = conn[e].closed /\ conn'[e].ready = conn[e].ready
           /\ conn'[e].seq = conn[e].seq /\ conn'[e].rbuf = conn[e].rbuf
           /\ conn'[e].stream = conn[e].stream
           /\ job' = job /\ chan' = chan /\ serve' = serve /\ raced' = raced /\ panic' = panic
<1> DEFINE v == IF max < BlockSize /\ max > 0 THEN BlockSize ELSE max
           c == [conn[e] EXCEPT !.limit = v]
<1>1. SetConn(e, c) /\ UNCHANGED <<job, rpc, serve, chan, appVars, panic, ghostVars, params>>
  BY DEF SetReadBuffer
<1>2. v \in Nat
  BY BufAssumption, Parameters DEF TypeInv
<1>3. ConnTypes /\ conn[e] \in ConnType /\ GoodConn(conn[e])
  BY EndTypes
<1> HIDE DEF v
<1>4. /\ c \in ConnType /\ c.rbuf = conn[e].rbuf /\ c.closed = conn[e].closed /\ c.ready = conn[e].ready
      /\ c.seq = conn[e].seq /\ c.stream = conn[e].stream /\ Writes(c, conn[e])
  BY <1>2, <1>3 DEF ConnType, Writes
<1> HIDE DEF c
<1>5. GoodConn(c)
  BY <1>3, <1>4 DEF GoodConn, Writes
<1>6. ConnTypes' /\ conn'[e] = c /\ OnlyConn(e)
  BY <1>1, <1>3, <1>5, SetConnEffect DEF OnlyConn
<1>7. RestTypes' /\ serve' = serve /\ raced' = raced /\ panic' = panic
  BY <1>1, RestUntouched
<1>8. JobTypes' /\ ChanTypes' /\ params' \in Streams
  BY <1>1, Untouched
<1> QED
  BY <1>1, <1>4, <1>6, <1>7, <1>8 DEF TypeInv

\* The head of what is on its way to e is taken, and ms is written.
Takes(e, ms) == chan'[e] = Tail(chan[e]) /\ chan'[Other(e)] = chan[Other(e)] \o ms
Answers == {m \in Stanzas : m.kind \in {"result", "error"}}
\* An answer is for whoever asked, and there is at most one.
Echoes(ms, h) == Len(ms) <= 1 /\ \A i \in DOMAIN ms : ms[i].by = h.by

\* (With the lemmas on replies and answers.)
LEMMA AnswerEffect ==
    ASSUME TypeInv, NEW e \in Ends, chan[e] # <<>>, NEW kind \in {"result", "error"},
           Replies(e, Answer(Head(chan[e]), kind))
    PROVE  ChanTypes' /\ \E ms \in Seq(Answers) : Takes(e, ms) /\ Echoes(ms, Head(chan[e]))
<1> DEFINE m == Head(chan[e])
           a == Answer(m, kind)
<1>1. ChanTypes /\ m \in Stanzas
  BY EndTypes
<1> HIDE DEF m
<1>2. a \in Seq(Stanzas) /\ (\A i \in DOMAIN a : a[i].kind = kind) /\ Echoes(a, m)
  BY <1>1, AnswerTypes DEF Echoes
<1>3. Replies(e, a)
  BY DEF m
<1> HIDE DEF a
<1>4. ChanTypes' /\ chan'[e] = Tail(chan[e]) /\ chan'[Other(e)] = chan[Other(e)] \o a
  BY <1>1, <1>2, <1>3, RepliesEffect
<1>5. a \in Seq(Answers)
  <2>1. \A i \in 1 .. Len(a) : a[i] \in Answers
    BY <1>2 DEF Answers
  <2> QED
    BY <1>2, <2>1
<1> QED
  BY <1>2, <1>4, <1>5 DEF Takes, m

\* A block is refused or taken, and answered.
LEMMA PayloadFacts ==
    ASSUME TypeInv, NEW e \in Ends, handlePayload(e)
    PROVE  /\ TypeInv' /\ serve[e] = "run" /\ chan[e] # <<>> /\ Head(chan[e]).kind = "data"
           /\ job' = job /\ raced' = raced /\ serve' = serve
           /\ \E ms \in Seq(Answers) : Takes(e, ms) /\ Echoes(ms, Head(chan[e]))
           /\ OnlyConn(e) /\ Writes(conn'[e], conn[e])
           /\ conn'[e].closed = conn[e].closed /\ conn'[e].ready = conn[e].ready
           /\ conn'[e].limit = conn[e].limit /\ conn'[e].stream = conn[e].stream
           /\ \A x \in Ends : x # e => panic'[x] = panic[x]
           /\ \/ /\ ~conn[e].stream \/ Head(chan[e]).seq # conn[e].seq
                 /\ conn'[e].seq = conn[e].seq /\ conn'[e].rbuf = conn[e].rbuf /\ panic' = panic
              \/ /\ conn[e].stream /\ Head(chan[e]).seq = conn[e].seq
                 /\ conn'[e].seq = NextSeq(conn[e].seq)
                 /\ conn'[e].rbuf = conn[e].rbuf \/ conn[e].limit = 0
                      \/ Len(conn'[e].rbuf) <= conn[e].limit
                 /\ panic'[e] => ~conn[e].ready
<1> DEFINE m == Head(chan[e])
           q == conn[e]
           s == NextSeq(q.seq)
           c == [q EXCEPT !.seq = s]
           b == q.rbuf \o m.bytes
           d == [c EXCEPT !.rbuf = b]
<1>1. /\ serve[e] = "run" /\ chan[e] # <<>> /\ m.kind = "data" /\ ~panic[e]
      /\ UNCHANGED <<job, serve, appVars, ghostVars, params>>
  BY DEF handlePayload, Serving
<1>2. \/ /\ ~q.stream \/ m.seq # q.seq
         /\ Replies(e, Answer(m, "error")) /\ UNCHANGED <<conn, rpc, panic>>
      \/ /\ q.stream /\ m.seq = q.seq /\ SetConn(e, c)
         /\ Replies(e, Answer(m, "error")) /\ UNCHANGED <<rpc, panic>>
      \/ /\ q.stream /\ m.seq = q.seq /\ Fits(c, m) /\ SetConn(e, d)
         /\ Replies(e, Answer(m, "result")) /\ Signal(e)
  BY DEF handlePayload, Expecting
<1>3. ChanTypes' /\ \E ms \in Seq(Answers) : Takes(e, ms) /\ Echoes(ms, Head(chan[e]))
  BY <1>1, <1>2, AnswerEffect
<1>4. /\ params \in Streams /\ ConnTypes /\ GoodConn(q) /\ q \in ConnType /\ q.rbuf \in Bytes
      /\ m \in Stanzas /\ s \in 0 .. SeqCount - 1
  BY <1>1, EndTypes, NextSeqType, SMTT(30) DEF ConnType
<1>5. m.bytes \in Bytes
  BY <1>4 DEF Stanzas, StanzaType
<1>6. b \in Bytes /\ Len(b) = Len(q.rbuf) + Len(m.bytes) /\ Len(q.rbuf) \in Nat /\ Len(m.bytes) \in Nat
  <2> DEFINE u == q.rbuf
             w == m.bytes
  <2>1. u \in Seq(Nat) /\ w \in Seq(Nat)
    BY <1>4, <1>5 DEF Bytes
  <2> HIDE DEF u, w
  <2>2. u \o w \in Seq(Nat) /\ Len(u \o w) = Len(u) + Len(w) /\ Len(u) \in Nat /\ Len(w) \in Nat
    BY <2>1
  <2> QED
    BY <2>2 DEF u, w, Bytes
<1> HIDE DEF s, m, q
<1>7. /\ c \in ConnType /\ GoodConn(c) /\ c.seq = s /\ c.rbuf = q.rbuf /\ c.closed = q.closed
      /\ c.ready = q.ready /\ c.limit = q.limit /\ c.stream = q.stream /\ Writes(c, q)
  <2>1. /\ c \in ConnType /\ c.seq = s /\ c.rbuf = q.rbuf /\ c.closed = q.closed
        /\ c.ready = q.ready /\ c.limit = q.limit /\ c.stream = q.stream /\ Writes(c, q)
    BY <1>4 DEF ConnType, Writes
  <2> HIDE DEF c
  <2> QED
    BY <1>4, <2>1 DEF GoodConn, Writes
<1> HIDE DEF b, c
<1>8. /\ GoodConn(d) /\ d.seq = s /\ d.rbuf = b /\ d.closed = q.closed
      /\ d.ready = q.ready /\ d.limit = q.limit /\ d.stream = q.stream /\ Writes(d, q)
  <2>1. /\ d \in ConnType /\ d.seq = c.seq /\ d.rbuf = b /\ d.closed = c.closed
        /\ d.ready = c.ready /\ d.limit = c.limit /\ d.stream = c.stream /\ Writes(d, c)
    BY <1>6, <1>7 DEF ConnType, Writes
  <2> HIDE DEF d
  <2> QED
    BY <1>7, <2>1 DEF GoodConn, Writes
<1> HIDE DEF d
<1>9. Fits(c, m) => q.limit = 0 \/ Len(b) <= q.limit
  <2> DEFINE n == DecodedLen(m.bytes)
  <2>1. n \in Nat /\ Len(m.bytes) <= n
    BY <1>4, <1>5, DecodedEnough
  <2>2. q.limit \in Nat
    BY <1>4 DEF ConnType
  <2>3. Fits(c, m) => q.limit = 0 \/ Len(q.rbuf) + n <= q.limit
    BY <1>7 DEF Fits
  <2> DEFINE x == Len(q.rbuf)
             y == Len(m.bytes)
             z == Len(b)
             l == q.limit
  <2>4. z = x + y /\ x \in Nat /\ y \in Nat /\ n \in Nat /\ y <= n /\ l \in Nat
    BY <1>6, <2>1, <2>2
  <2>5. Fits(c, m) => l = 0 \/ x + n <= l
    BY <2>3
  <2> HIDE DEF n, x, y, z, l
  <2>6. x + n <= l => z <= l
    BY <2>4
  <2>7. Fits(c, m) => l = 0 \/ z <= l
    BY <2>5, <2>6
  <2> QED
    BY <2>7 DEF z, l
<1>10. /\ rpc \in [Ends -> {"idle", "unlocked", "waiting", "woken", "eof"}]
       /\ panic \in [Ends -> BOOLEAN] /\ q.ready \in BOOLEAN
  BY <1>4 DEF TypeInv, RestTypes, ConnType
<1>11. Signal(e) => /\ rpc' \in [Ends -> {"idle", "unlocked", "waiting", "woken", "eof"}]
                    /\ panic' \in [Ends -> BOOLEAN]
                    /\ \A x \in Ends : x # e => panic'[x] = panic[x]
                    /\ panic'[e] => ~q.ready
  <2> SUFFICES ASSUME Signal(e)
               PROVE  /\ rpc' \in [Ends -> {"idle", "unlocked", "waiting", "woken", "eof"}]
                      /\ panic' \in [Ends -> BOOLEAN]
                      /\ \A x \in Ends : x # e => panic'[x] = panic[x]
                      /\ panic'[e] => ~q.ready
    OBVIOUS
  <2>1. rpc' \in [Ends -> {"idle", "unlocked", "waiting", "woken", "eof"}]
    BY <1>10 DEF Signal
  <2>2. panic' = [panic EXCEPT ![e] = ~q.ready]
    BY DEF Signal, q
  <2>3. panic' \in [Ends -> BOOLEAN]
    BY <1>10, <2>2, Zenon
  <2>4. panic'[e] = ~q.ready /\ \A x \in Ends : x # e => panic'[x] = panic[x]
    BY <1>10, <2>2
  <2> QED
    BY <2>1, <2>3, <2>4
<1>12. ASSUME NEW z, GoodConn(z), SetConn(e, z)
       PROVE  ConnTypes' /\ OnlyConn(e) /\ conn'[e] = z
  BY <1>1, <1>4, <1>12, SetConnEffect DEF OnlyConn
<1>13. /\ ConnTypes' /\ OnlyConn(e) /\ Writes(conn'[e], q)
       /\ conn'[e].closed = q.closed /\ conn'[e].ready = q.ready
       /\ conn'[e].limit = q.limit /\ conn'[e].stream = q.stream
       /\ rpc' \in [Ends -> {"idle", "unlocked", "waiting", "woken", "eof"}]
       /\ panic' \in [Ends -> BOOLEAN] /\ \A x \in Ends : x # e => panic'[x] = panic[x]
       /\ \/ /\ ~q.stream \/ m.seq # q.seq
             /\ conn'[e].seq = q.seq /\ conn'[e].rbuf = q.rbuf /\ panic' = panic
          \/ /\ q.stream /\ m.seq = q.seq /\ conn'[e].seq = s
             /\ conn'[e].rbuf = q.rbuf \/ q.limit = 0 \/ Len(conn'[e].rbuf) <= q.limit
             /\ panic'[e] => ~q.ready
  <2>1. CASE (~q.stream \/ m.seq # q.seq) /\ UNCHANGED <<conn, rpc, panic>>
    <3>1. ConnTypes' /\ OnlyConn(e)
      BY <1>1, <2>1, Untouched
    <3> QED
      BY <1>10, <2>1, <3>1 DEF q, Writes
  <2>2. CASE q.stream /\ m.seq = q.seq /\ SetConn(e, c) /\ UNCHANGED <<rpc, panic>>
    BY <1>1, <1>7, <1>10, <1>12, <2>2
  <2>3. CASE q.stream /\ m.seq = q.seq /\ Fits(c, m) /\ SetConn(e, d) /\ Signal(e)
    BY <1>8, <1>9, <1>11, <1>12, <2>3
  <2> QED
    BY <1>2, <2>1, <2>2, <2>3
<1>14. RestTypes' /\ serve' = serve /\ raced' = raced
  BY <1>1, <1>13 DEF TypeInv, RestTypes, appVars, ghostVars
<1>15. JobTypes' /\ params' \in Streams
  BY <1>1, Untouched
<1> QED
  BY <1>1, <1>3, <1>13, <1>14, <1>15 DEF TypeInv, q, m, s

\* The end of the stream is refused, or closeNoNotify is next.
LEMMA HandleCloseFacts ==
    ASSUME TypeInv, NEW e \in Ends, HandleClose(e)
    PROVE  /\ TypeInv' /\ serve[e] = "run" /\ chan[e] # <<>> /\ Head(chan[e]).kind = "close"
           /\ job' = job /\ raced' = raced /\ conn' = conn /\ panic' = panic
           /\ \/ /\ ~conn[e].stream \/ conn[e].closed
                 /\ serve' = serve
                 /\ \E ms \in Seq(Answers) : Takes(e, ms) /\ Echoes(ms, Head(chan[e]))
              \/ /\ conn[e].stream /\ ~conn[e].closed /\ chan' = chan /\ serve'[e] = "closing"
                 /\ \A x \in Ends : x # e => serve'[x] = serve[x]
<1> DEFINE m == Head(chan[e])
<1>1. /\ serve[e] = "run" /\ chan[e] # <<>> /\ m.kind = "close"
      /\ UNCHANGED <<conn, job, rpc, appVars, panic, ghostVars, params>>
  BY DEF HandleClose, Serving
<1>2. \/ /\ ~conn[e].stream \/ conn[e].closed
         /\ Replies(e, Answer(m, "result")) \/ Replies(e, Answer(m, "error"))
         /\ serve' = serve
      \/ /\ conn[e].stream /\ ~conn[e].closed
         /\ serve' = [serve EXCEPT ![e] = "closing"] /\ chan' = chan
  BY DEF HandleClose
<1>3. serve \in [Ends -> {"run", "closing", "ended"}]
  BY DEF TypeInv, RestTypes
<1>4. /\ ChanTypes' /\ serve' \in [Ends -> {"run", "closing", "ended"}]
      /\ \/ /\ ~conn[e].stream \/ conn[e].closed
            /\ serve' = serve
            /\ \E ms \in Seq(Answers) : Takes(e, ms) /\ Echoes(ms, Head(chan[e]))
         \/ /\ conn[e].stream /\ ~conn[e].closed /\ chan' = chan /\ serve'[e] = "closing"
            /\ \A x \in Ends : x # e => serve'[x] = serve[x]
  <2>1. CASE /\ ~conn[e].stream \/ conn[e].closed
             /\ Replies(e, Answer(m, "result")) \/ Replies(e, Answer(m, "error"))
             /\ serve' = serve
    BY <1>1, <1>3, <2>1, AnswerEffect
  <2>2. CASE /\ conn[e].stream /\ ~conn[e].closed
             /\ serve' = [serve EXCEPT ![e] = "closing"] /\ chan' = chan
    BY <1>1, <1>3, <2>2, Untouched
  <2> QED
    BY <1>2, <2>1, <2>2
<1>5. RestTypes' /\ raced' = raced
  BY <1>1, <1>4 DEF TypeInv, RestTypes, appVars, ghostVars
<1>6. JobTypes' /\ ConnTypes' /\ params' \in Streams
  BY <1>1, Untouched
<1> QED
  BY <1>1, <1>4, <1>5, <1>6 DEF TypeInv

\* An answer is given to the goroutine that waits for it.
LEMMA ServeAnswerFacts ==
    ASSUME TypeInv, NEW e \in Ends, ServeAnswer(e)
    PROVE  /\ TypeInv' /\ serve[e] = "run" /\ chan[e] # <<>> /\ Head(chan[e]) \in Answers
           /\ raced' = raced /\ conn' = conn /\ panic' = panic /\ serve' = serve
           /\ Takes(e, <<>>)
           /\ \/ job' = job /\ job[e][Head(chan[e]).by].pc \notin {"wait", "closewait"}
              \/ \E r \in Roles :
                    /\ JobMoves(e, r) /\ job'[e][r].op = job[e][r].op /\ r = Head(chan[e]).by
                    /\ \/ job[e][r].pc = "wait" /\ job'[e][r].pc \in {"result", "error"}
                       \/ job[e][r].pc = "closewait" /\ job'[e][r].pc = "closed" /\ r = "closer"
<1> DEFINE m == Head(chan[e])
<1>1. /\ serve[e] = "run" /\ chan[e] # <<>> /\ m.kind \in {"result", "error"} /\ Replies(e, <<>>)
      /\ UNCHANGED <<conn, rpc, serve, appVars, panic, ghostVars, params>>
  BY DEF ServeAnswer, Serving
<1>2. m \in Stanzas /\ ChanTypes
  BY <1>1, EndTypes
<1>3. m.by \in Roles /\ m \in Answers
  BY <1>1, <1>2 DEF Stanzas, Answers
<1>4. ChanTypes' /\ Takes(e, <<>>)
  <2>1. <<>> \in Seq(Stanzas)
    OBVIOUS
  <2> QED
    BY <1>1, <1>2, <2>1, RepliesEffect DEF Takes
<1>5. PICK r : r = m.by
  OBVIOUS
<1>6. r \in Roles
  BY <1>3, <1>5
<1>7. \/ job' = job /\ job[e][r].pc \notin {"wait", "closewait"}
      \/ /\ job[e][r].pc \in {"wait", "closewait"}
         /\ SetJob(e, r, [job[e][r] EXCEPT
                            !.pc = IF job[e][r].pc = "closewait" THEN "closed" ELSE m.kind])
  BY <1>5 DEF ServeAnswer
<1>8. CASE job' = job /\ job[e][r].pc \notin {"wait", "closewait"}
  BY <1>1, <1>2, <1>3, <1>4, <1>5, <1>8, Untouched, RestUntouched DEF TypeInv
<1>9. CASE /\ job[e][r].pc \in {"wait", "closewait"}
           /\ SetJob(e, r, [job[e][r] EXCEPT
                              !.pc = IF job[e][r].pc = "closewait" THEN "closed" ELSE m.kind])
  <2> DEFINE p == IF job[e][r].pc = "closewait" THEN "closed" ELSE m.kind
  <2>1. /\ p \in Pcs \ {"lock"} /\ (p \in Working <=> job[e][r].pc \in Working)
        /\ r = "writer" => p \in {"idle"} \cup Working
        /\ \/ job[e][r].pc = "wait" /\ p \in {"result", "error"}
           \/ job[e][r].pc = "closewait" /\ p = "closed" /\ r = "closer"
    <3>1. r = "writer" => job[e][r].pc # "closewait"
      BY <1>6, BusyWorking DEF Working
    <3> QED
      BY <1>1, <1>6, <1>9, <3>1 DEF Pcs, Working, Roles
  <2>2. SetJob(e, r, [job[e][r] EXCEPT !.pc = p]) /\ params' = params
    BY <1>1, <1>9
  <2> HIDE DEF p
  <2>3. JobTypes' /\ JobMoves(e, r) /\ job'[e][r].pc = p /\ job'[e][r].op = job[e][r].op
    BY <1>6, <2>1, <2>2, PcEffect
  <2>4. /\ RestTypes' /\ ConnTypes' /\ params' \in Streams /\ raced' = raced /\ conn' = conn
        /\ panic' = panic /\ serve' = serve
    BY <1>1, Untouched, RestUntouched
  <2>5. TypeInv'
    BY <1>4, <2>3, <2>4 DEF TypeInv
  <2> QED
    BY <1>1, <1>3, <1>4, <1>5, <1>6, <2>1, <2>3, <2>4, <2>5
<1> QED
  BY <1>7, <1>8, <1>9

\* What closeNoNotify writes: the blocks of everything that is buffered.
Everything(c) ==
    (IF c.wbuf # <<>> THEN Chunks(c.fringe, c.wbuf) ELSE <<>>)
      \o closeFlush(IF c.wbuf # <<>> THEN Left(c.fringe, c.wbuf) ELSE c.fringe)
Numbers(c) ==
    [i \in DOMAIN Everything(c) |->
        Stanza("data", (c.wseq + i - 1) % SeqCount, Everything(c)[i], "none")]

\* They are numbered from the connection's next number on.
LEMMA NumbersTypes ==
    ASSUME params \in Streams, NEW c, GoodConn(c)
    PROVE  /\ Everything(c) \in Seq(Bytes) /\ Numbers(c) \in Seq(Stanzas)
           /\ Len(Numbers(c)) = Len(Everything(c))
           /\ \A i \in DOMAIN Numbers(c) : /\ Numbers(c)[i].kind = "data"
                                           /\ Numbers(c)[i].seq = (c.wseq + i - 1) % SeqCount
                                           /\ Numbers(c)[i].by = "none"
<1>1. c.wbuf \in Bytes /\ c.fringe \in Bytes /\ Len(c.fringe) <= Group /\ c.wseq \in 0 .. SeqCount - 1
  BY DEF GoodConn, ConnType
<1>2. Chunks(c.fringe, c.wbuf) \in Seq(Bytes) /\ Left(c.fringe, c.wbuf) \in Bytes
  BY <1>1, Encoder
<1> DEFINE x == IF c.wbuf # <<>> THEN Chunks(c.fringe, c.wbuf) ELSE <<>>
           f == IF c.wbuf # <<>> THEN Left(c.fringe, c.wbuf) ELSE c.fringe
           y == closeFlush(f)
<1>3. x \in Seq(Bytes) /\ f \in Bytes
  <2>1. <<>> \in Seq(Bytes)
    OBVIOUS
  <2> QED
    BY <1>1, <1>2, <2>1
<1> HIDE DEF f
<1>4. y \in Seq(Bytes)
  BY <1>3, FlushTypes
<1>5. Everything(c) = x \o y
  BY DEF Everything, f
<1> HIDE DEF x, y
<1>6. Everything(c) \in Seq(Bytes)
  BY <1>3, <1>4, <1>5
<1> DEFINE all == Everything(c)
           n == Numbers(c)
<1>7. /\ n = [i \in 1 .. Len(all) |-> Stanza("data", (c.wseq + i - 1) % SeqCount, all[i], "none")]
      /\ Len(all) \in Nat /\ \A i \in 1 .. Len(all) : all[i] \in Bytes
  <2>1. DOMAIN all = 1 .. Len(all) /\ Len(all) \in Nat /\ \A i \in 1 .. Len(all) : all[i] \in Bytes
    BY <1>6
  <2> QED
    BY <2>1 DEF Numbers
<1> HIDE DEF all, n
<1>8. ASSUME NEW i \in 1 .. Len(all)
      PROVE  /\ n[i] \in Stanzas /\ n[i].kind = "data" /\ n[i].seq = (c.wseq + i - 1) % SeqCount
             /\ n[i].by = "none"
  <2> DEFINE k == (c.wseq + i - 1) % SeqCount
             b == all[i]
  <2>1. k \in 0 .. SeqCount - 1
    <3>1. c.wseq + i - 1 \in Nat /\ SeqCount \in Nat \ {0}
      BY <1>1, <1>7, <1>8, SeqAssumption
    <3> QED
      BY <3>1
  <2>2. b \in Bytes
    BY <1>7
  <2>3. n[i] = [kind |-> "data", seq |-> k, bytes |-> b, by |-> "none"]
    BY <1>7 DEF Stanza
  <2> HIDE DEF k, b
  <2>4. n[i] \in Stanzas /\ n[i].kind = "data" /\ n[i].seq = k /\ n[i].by = "none"
    BY <2>1, <2>2, <2>3 DEF Stanzas, StanzaType
  <2> QED
    BY <2>4 DEF k
<1>9. n \in Seq(Stanzas) /\ Len(n) = Len(all) /\ DOMAIN n = 1 .. Len(all)
  <2>1. n \in [1 .. Len(all) -> Stanzas]
    BY <1>7, <1>8
  <2>2. n \in Seq(Stanzas)
    BY <1>7, <2>1
  <2> QED
    BY <1>7, <2>1, <2>2
<1> QED
  BY <1>6, <1>8, <1>9 DEF all, n

\* Everything goes out, and the stream is gone; an error ends Serve.
LEMMA CloseNoNotifyFacts ==
    ASSUME TypeInv, NEW e \in Ends, chan[e] # <<>>, closeNoNotify(e)
    PROVE  /\ TypeInv' /\ serve[e] = "closing" /\ job' = job /\ OnlyConn(e)
           /\ ~conn'[e].stream /\ conn'[e].closed = TRUE /\ conn'[e].handlerT = TRUE
           /\ conn'[e].rbuf = conn[e].rbuf /\ conn'[e].seq = conn[e].seq
           /\ conn'[e].limit = conn[e].limit /\ conn'[e].lock = conn[e].lock
           /\ conn'[e].werr = conn[e].werr
           /\ \A x \in Ends : x # e => serve'[x] = serve[x] /\ panic'[x] = panic[x]
           /\ \/ /\ conn[e].werr /\ chan' = chan /\ raced' = raced /\ panic' = panic
                 /\ conn'[e].ready = conn[e].ready /\ serve'[e] = "ended"
              \/ /\ ~conn[e].werr /\ Races(e, "none", Ops) /\ serve'[e] = "run"
                 /\ \E as \in Seq(Answers) :
                       /\ Takes(e, Numbers(conn[e]) \o as) /\ Echoes(as, Head(chan[e]))
                       /\ Head(chan[e]).by # "none" => as # <<>>
                 /\ conn'[e].wseq = (conn[e].wseq + Len(Numbers(conn[e]))) % SeqCount
                 /\ conn'[e].wbuf = <<>> /\ conn'[e].fringe = <<>> /\ ~conn'[e].ready
                 /\ panic'[e] => panic[e] \/ ~conn[e].ready
<1> DEFINE c == conn[e]
           all == Everything(c)
           d == [c EXCEPT !.closed = TRUE, !.handlerT = TRUE, !.stream = FALSE]
           w == (c.wseq + Len(all)) % SeqCount
           x == [d EXCEPT !.wseq = w, !.wbuf = <<>>, !.fringe = <<>>]
           a == Answer(Head(chan[e]), "result")
<1>1. serve[e] = "closing" /\ UNCHANGED <<job, appVars, flushed, params>>
  BY DEF closeNoNotify
<1>2. /\ params \in Streams /\ ConnTypes /\ ChanTypes /\ GoodConn(c) /\ c \in ConnType
      /\ chan[e] \in Seq(Stanzas)
  BY EndTypes
<1>3. /\ all \in Seq(Bytes) /\ Numbers(c) \in Seq(Stanzas) /\ Len(Numbers(c)) = Len(all)
  BY <1>2, NumbersTypes
<1>4. rmStream([c EXCEPT !.closed = TRUE, !.handlerT = TRUE]) = d
  <2> DEFINE y == [c EXCEPT !.closed = TRUE, !.handlerT = TRUE]
  <2>1. rmStream(y) = [y EXCEPT !.stream = FALSE]
    BY DEF rmStream
  <2> QED
    BY <1>2, <2>1 DEF ConnType
<1>5. \/ /\ c.werr /\ SetConn(e, d) /\ serve' = [serve EXCEPT ![e] = "ended"]
         /\ UNCHANGED <<chan, rpc, panic, raced>>
      \/ /\ ~c.werr /\ Replies(e, Numbers(c) \o a) /\ CloseReady(e, x)
         /\ serve' = [serve EXCEPT ![e] = "run"] /\ Races(e, "none", Ops)
  <2> DEFINE y == rmStream([c EXCEPT !.closed = TRUE, !.handlerT = TRUE])
  <2>1. \/ /\ c.werr /\ SetConn(e, y) /\ serve' = [serve EXCEPT ![e] = "ended"]
           /\ UNCHANGED <<chan, rpc, panic, raced>>
        \/ /\ ~c.werr /\ Replies(e, Numbers(c) \o a)
           /\ CloseReady(e, [y EXCEPT !.wseq = (@ + Len(all)) % SeqCount, !.wbuf = <<>>, !.fringe = <<>>])
           /\ serve' = [serve EXCEPT ![e] = "run"] /\ Races(e, "none", Ops)
    BY DEF closeNoNotify, Everything, Numbers
  <2>2. d.wseq = c.wseq
    BY <1>2 DEF ConnType
  <2>3. [d EXCEPT !.wseq = (@ + Len(all)) % SeqCount, !.wbuf = <<>>, !.fringe = <<>>] = x
    <3> HIDE DEF d, c, all
    <3> QED
      BY <2>2
  <2> QED
    BY <1>4, <2>1, <2>3
<1>6. /\ d \in ConnType /\ ~d.stream /\ d.closed = TRUE /\ d.handlerT = TRUE /\ d.rbuf = c.rbuf
      /\ d.seq = c.seq /\ d.limit = c.limit /\ d.lock = c.lock /\ d.werr = c.werr
      /\ d.ready = c.ready /\ d.wbuf = c.wbuf /\ d.fringe = c.fringe /\ d.wseq = c.wseq
  BY <1>2 DEF ConnType
<1> HIDE DEF d
<1>7. GoodConn(d)
  BY <1>2, <1>6 DEF GoodConn
<1>8. w \in 0 .. SeqCount - 1
  <2>1. c.wseq \in Nat /\ Len(all) \in Nat /\ SeqCount \in Nat \ {0}
    BY <1>2, <1>3, SeqAssumption DEF ConnType
  <2> HIDE DEF c, all
  <2> QED
    BY <2>1
<1>9. <<>> \in Bytes /\ Len(<<>>) <= BlockSize /\ Len(<<>>) <= Group
  BY <1>2, Parameters DEF Bytes
<1> HIDE DEF w
<1>10. /\ x \in ConnType /\ x.stream = d.stream /\ x.closed = d.closed /\ x.handlerT = d.handlerT
       /\ x.rbuf = c.rbuf
       /\ x.seq = c.seq /\ x.limit = c.limit /\ x.lock = c.lock /\ x.werr = c.werr
       /\ x.ready = c.ready /\ x.wbuf = <<>> /\ x.fringe = <<>> /\ x.wseq = w
  <2> HIDE DEF c
  <2> QED
    BY <1>6, <1>8, <1>9 DEF ConnType
<1> HIDE DEF x
<1>11. GoodConn(x)
  BY <1>9, <1>10 DEF GoodConn
<1>12. serve \in [Ends -> {"run", "closing", "ended"}] /\ raced \in [Ends -> BOOLEAN]
       /\ panic \in [Ends -> BOOLEAN]
       /\ rpc \in [Ends -> {"idle", "unlocked", "waiting", "woken", "eof"}]
  BY DEF TypeInv, RestTypes
<1>13. JobTypes' /\ params' \in Streams /\ params' = params
  BY <1>1, Untouched
<1>14. ASSUME serve' \in [Ends -> {"run", "closing", "ended"}], raced' \in [Ends -> BOOLEAN],
              panic' \in [Ends -> BOOLEAN],
              rpc' \in [Ends -> {"idle", "unlocked", "waiting", "woken", "eof"}]
       PROVE  RestTypes'
  BY <1>1, <1>14 DEF TypeInv, RestTypes, appVars
<1>15. CASE /\ c.werr /\ SetConn(e, d) /\ serve' = [serve EXCEPT ![e] = "ended"]
            /\ UNCHANGED <<chan, rpc, panic, raced>>
  <2>1. ConnTypes' /\ conn'[e] = d /\ OnlyConn(e)
    BY <1>2, <1>7, <1>13, <1>15, SetConnEffect DEF OnlyConn
  <2>2. serve' \in [Ends -> {"run", "closing", "ended"}] /\ serve'[e] = "ended"
        /\ \A y \in Ends : y # e => serve'[y] = serve[y]
    BY <1>12, <1>15
  <2>3. ChanTypes'
    BY <1>13, <1>15, Untouched
  <2>4. RestTypes'
    BY <1>12, <1>14, <1>15, <2>2
  <2>5. TypeInv'
    BY <1>13, <2>1, <2>3, <2>4 DEF TypeInv
  <2> QED
    BY <1>1, <1>6, <1>15, <2>1, <2>2, <2>5
<1>16. CASE /\ ~c.werr /\ Replies(e, Numbers(c) \o a) /\ CloseReady(e, x)
            /\ serve' = [serve EXCEPT ![e] = "run"] /\ Races(e, "none", Ops)
  <2>1. /\ ConnTypes' /\ OnlyConn(e) /\ Writes(conn'[e], x) /\ ~conn'[e].ready
        /\ conn'[e].closed = x.closed /\ conn'[e].rbuf = x.rbuf /\ conn'[e].seq = x.seq
        /\ conn'[e].limit = x.limit /\ conn'[e].stream = x.stream
        /\ rpc' \in [Ends -> {"idle", "unlocked", "waiting", "woken", "eof"}]
        /\ panic' \in [Ends -> BOOLEAN] /\ \A y \in Ends : y # e => panic'[y] = panic[y]
        /\ panic'[e] => panic[e] \/ ~x.ready
    BY <1>11, <1>13, <1>16, CloseReadyEffect
  <2>2. serve' \in [Ends -> {"run", "closing", "ended"}] /\ serve'[e] = "run"
        /\ \A y \in Ends : y # e => serve'[y] = serve[y]
    BY <1>12, <1>16
  <2>3. raced' \in [Ends -> BOOLEAN]
    BY <1>16, RacesEffect
  <2>4. RestTypes'
    BY <1>14, <2>1, <2>2, <2>3
  <2>5. a \in Seq(Answers) /\ Echoes(a, Head(chan[e])) /\ (Head(chan[e]).by # "none" => a # <<>>)
    <3> DEFINE m == Head(chan[e])
    <3>1. m \in Stanzas
      BY <1>2
    <3> HIDE DEF m
    <3>2. /\ a \in Seq(Stanzas) /\ (\A i \in DOMAIN a : a[i].kind = "result") /\ Echoes(a, m)
      BY <3>1, AnswerTypes DEF m, Echoes
    <3>4. m.by # "none" => a # <<>>
      BY DEF Answer, m
    <3> HIDE DEF a
    <3>3. \A i \in 1 .. Len(a) : a[i] \in Answers
      BY <3>2 DEF Answers
    <3> QED
      BY <3>2, <3>3, <3>4 DEF m
  <2> HIDE DEF a, all, c
  <2>6. Numbers(c) \o a \in Seq(Stanzas)
    <3>1. Seq(Answers) \subseteq Seq(Stanzas)
      BY SeqMonotonic DEF Answers
    <3>2. a \in Seq(Stanzas)
      BY <2>5, <3>1
    <3> DEFINE n == Numbers(c)
    <3>3. n \in Seq(Stanzas)
      BY <1>3
    <3> HIDE DEF n
    <3> QED
      BY <3>2, <3>3 DEF n
  <2>7. ChanTypes' /\ Takes(e, Numbers(c) \o a)
    BY <1>2, <1>16, <2>6, RepliesEffect DEF Takes
  <2>8. TypeInv'
    BY <1>13, <2>1, <2>4, <2>7 DEF TypeInv
  <2>9. /\ conn'[e].wseq = (c.wseq + Len(Numbers(c))) % SeqCount
        /\ conn'[e].wbuf = <<>> /\ conn'[e].fringe = <<>> /\ conn'[e].handlerT = TRUE
        /\ conn'[e].lock = c.lock /\ conn'[e].werr = c.werr
    BY <1>3, <1>6, <1>10, <2>1 DEF Writes, w
  <2>10. /\ ~conn'[e].stream /\ conn'[e].closed = TRUE
         /\ conn'[e].rbuf = c.rbuf /\ conn'[e].seq = c.seq /\ conn'[e].limit = c.limit
         /\ panic'[e] => panic[e] \/ ~c.ready
    BY <1>6, <1>10, <2>1
  <2> QED
    BY <1>1, <1>16, <2>1, <2>2, <2>5, <2>7, <2>8, <2>9, <2>10 DEF c
<1> QED
  BY <1>5, <1>15, <1>16

----------------------------------------------------------------------------
(* The types are invariant, and no block makes the buffer too large.       *)

\* While closeNoNotify is next, the stanza that asked for it is the head.
HeadInv == \A e \in Ends : serve[e] = "closing" => chan[e] # <<>> /\ Head(chan[e]).kind = "close"
BaseInv == TypeInv /\ HeadInv

\* Nothing is added to the read buffer, or it keeps to its limit.
Bounded(e) == \/ Len(conn'[e].rbuf) <= Len(conn[e].rbuf) \/ conn[e].limit = 0
              \/ Len(conn'[e].rbuf) <= conn[e].limit

\* The actions, whoever takes them.
LEMMA NextCases ==
    ASSUME Next
    PROVE  \E e \in Ends :
             \/ Write(e) \/ Flush(e)
             \/ Close(e) \/ CloseSet(e) \/ CloseTail(e) \/ CloseNotify(e) \/ CloseTimeout(e)
             \/ CloseDone(e)
             \/ \E r \in Roles : Lock(e, r) \/ Send(e, r) \/ Answered(e, r) \/ Timeout(e, r)
             \/ Read(e) \/ Receive(e) \/ \E max \in Limits : SetReadBuffer(e, max)
             \/ handlePayload(e) \/ HandleClose(e) \/ closeNoNotify(e) \/ ServeAnswer(e)
<1>1. "writer" \in Roles /\ "closer" \in Roles
  BY DEF Roles
<1> QED
  BY <1>1 DEF Next, RoleStep, CloserStep, ReaderStep, ServeStep

\* A stanza more does not change the head.
LEMMA HeadsKept ==
    ASSUME TypeInv, HeadInv, serve' = serve, NEW e \in Ends,
           chan' = chan \/ \E m \in Stanzas : SendsOne(e, m)
    PROVE  HeadInv'
<1>1. CASE chan' = chan
  BY <1>1 DEF HeadInv
<1>2. CASE \E m \in Stanzas : SendsOne(e, m)
  <2>1. PICK m \in Stanzas : SendsOne(e, m)
    BY <1>2
  <2>2. SUFFICES ASSUME NEW x \in Ends, serve[x] = "closing"
                 PROVE  chan'[x] # <<>> /\ Head(chan'[x]).kind = "close"
    BY DEF HeadInv
  <2>3. chan[x] # <<>> /\ Head(chan[x]).kind = "close" /\ chan[x] \in Seq(Stanzas)
    BY <2>2, EndTypes DEF HeadInv
  <2>4. chan'[x] = chan[x] \/ chan'[x] = Append(chan[x], m)
    BY <2>1, OtherEnd DEF SendsOne
  <2> DEFINE q == chan[x]
  <2>5. q \in Seq(Stanzas) /\ q # <<>>
    BY <2>3
  <2> HIDE DEF q
  <2>6. Append(q, m) # <<>> /\ Head(Append(q, m)) = Head(q)
    BY <2>5
  <2> QED
    BY <2>3, <2>4, <2>6 DEF q
<1> QED
  BY <1>1, <1>2

\* When one is taken, Serve of that end is not in closeNoNotify any more.
LEMMA HeadsTaken ==
    ASSUME TypeInv, HeadInv, NEW e \in Ends, serve'[e] # "closing",
           \A x \in Ends : x # e => serve'[x] = serve[x],
           NEW ms \in Seq(Stanzas), Takes(e, ms)
    PROVE  HeadInv'
<1>1. SUFFICES ASSUME NEW x \in Ends, serve'[x] = "closing"
               PROVE  chan'[x] # <<>> /\ Head(chan'[x]).kind = "close"
  BY DEF HeadInv
<1>2. x = Other(e) /\ serve[x] = "closing"
  BY <1>1, OtherEnd
<1>3. chan[x] # <<>> /\ Head(chan[x]).kind = "close" /\ chan[x] \in Seq(Stanzas)
  BY <1>2, EndTypes DEF HeadInv
<1>4. chan'[x] = chan[x] \o ms
  BY <1>2 DEF Takes
<1> DEFINE q == chan[x]
<1>5. q \in Seq(Stanzas) /\ q # <<>>
  BY <1>3
<1> HIDE DEF q
<1>6. q \o ms # <<>> /\ Head(q \o ms) = Head(q)
  <2>1. /\ q \o ms \in Seq(Stanzas) /\ Len(q) \in Nat /\ Len(q) # 0 /\ Len(ms) \in Nat
        /\ Len(q \o ms) = Len(q) + Len(ms)
    BY <1>5
  <2>2. 1 \in 1 .. Len(q)
    BY <2>1
  <2>3. (q \o ms)[1] = q[1]
    BY <1>5, <2>2
  <2>4. Len(q \o ms) # 0
    BY <2>1
  <2> QED
    BY <1>5, <2>1, <2>3, <2>4
<1> QED
  BY <1>3, <1>4, <1>6 DEF q

\* One sequence after another.
LEMMA Joined ==
    ASSUME NEW S, NEW a \in Seq(S), NEW b \in Seq(S)
    PROVE  a \o b \in Seq(S)
OBVIOUS

\* Answers are stanzas.
LEMMA AnswersAre ==
    ASSUME NEW ms \in Seq(Answers)
    PROVE  ms \in Seq(Stanzas)
BY SeqMonotonic DEF Answers

\* If rbuf is what it was.
LEMMA BoundedSame ==
    ASSUME TypeInv, NEW e \in Ends, OnlyConn(e), conn'[e].rbuf = conn[e].rbuf
    PROVE  \A x \in Ends : Bounded(x)
<1>1. SUFFICES ASSUME NEW x \in Ends PROVE Len(conn'[x].rbuf) <= Len(conn[x].rbuf)
  BY DEF Bounded
<1>2. conn'[x].rbuf = conn[x].rbuf
  BY DEF OnlyConn
<1>3. Len(conn[x].rbuf) \in Nat
  BY EndTypes DEF Bytes
<1> QED
  BY <1>2, <1>3

\* One step.
LEMMA BaseStep ==
    ASSUME BaseInv, Next
    PROVE  BaseInv' /\ \A x \in Ends : Bounded(x)
<1>1. TypeInv /\ HeadInv
  BY DEF BaseInv
<1>2. PICK e \in Ends :
             \/ Write(e) \/ Flush(e)
             \/ Close(e) \/ CloseSet(e) \/ CloseTail(e) \/ CloseNotify(e) \/ CloseTimeout(e)
             \/ CloseDone(e)
             \/ \E r \in Roles : Lock(e, r) \/ Send(e, r) \/ Answered(e, r) \/ Timeout(e, r)
             \/ Read(e) \/ Receive(e) \/ \E max \in Limits : SetReadBuffer(e, max)
             \/ handlePayload(e) \/ HandleClose(e) \/ closeNoNotify(e) \/ ServeAnswer(e)
  BY NextCases
<1>3. ASSUME conn' = conn PROVE OnlyConn(e) /\ conn'[e].rbuf = conn[e].rbuf
  BY <1>3 DEF OnlyConn
<1>4. CASE Write(e) \/ Flush(e)
  <2>1. TypeInv' /\ conn' = conn /\ serve' = serve /\ chan' = chan
    BY <1>1, <1>4, BeginFacts
  <2> QED
    BY <1>1, <1>3, <2>1, HeadsKept, BoundedSame DEF BaseInv
<1>5. CASE Close(e)
  <2>1. TypeInv' /\ conn' = conn /\ serve' = serve /\ chan' = chan
    BY <1>1, <1>5, CloseFacts
  <2> QED
    BY <1>1, <1>3, <2>1, HeadsKept, BoundedSame DEF BaseInv
<1>6. CASE CloseSet(e)
  <2>1. /\ TypeInv' /\ OnlyConn(e) /\ conn'[e] = [conn[e] EXCEPT !.closed = TRUE]
        /\ serve' = serve /\ chan' = chan
    BY <1>1, <1>6, CloseSetFacts
  <2>2. conn[e] \in ConnType
    BY <1>1, EndTypes
  <2>3. conn'[e].rbuf = conn[e].rbuf
    BY <2>1, <2>2 DEF ConnType
  <2> QED
    BY <1>1, <2>1, <2>3, HeadsKept, BoundedSame DEF BaseInv
<1>7. CASE CloseTail(e)
  <2>1. TypeInv' /\ conn' = conn /\ serve' = serve /\ chan' = chan
    BY <1>1, <1>7, CloseTailFacts
  <2> QED
    BY <1>1, <1>3, <2>1, HeadsKept, BoundedSame DEF BaseInv
<1>8. CASE CloseNotify(e)
  <2>1. TypeInv' /\ conn' = conn /\ serve' = serve /\ \E m \in Stanzas : SendsOne(e, m)
    BY <1>1, <1>8, CloseNotifyFacts
  <2> QED
    BY <1>1, <1>3, <2>1, HeadsKept, BoundedSame DEF BaseInv
<1>9. CASE CloseTimeout(e)
  <2>1. TypeInv' /\ conn' = conn /\ serve' = serve /\ chan' = chan
    BY <1>1, <1>9, CloseTimeoutFacts
  <2> QED
    BY <1>1, <1>3, <2>1, HeadsKept, BoundedSame DEF BaseInv
<1>10. CASE CloseDone(e)
  <2>1. TypeInv' /\ OnlyConn(e) /\ conn'[e].rbuf = conn[e].rbuf /\ serve' = serve /\ chan' = chan
    BY <1>1, <1>10, CloseDoneFacts
  <2> QED
    BY <1>1, <2>1, HeadsKept, BoundedSame DEF BaseInv
<1>11. ASSUME NEW r \in Roles, Lock(e, r) PROVE BaseInv' /\ \A x \in Ends : Bounded(x)
  <2>1. TypeInv' /\ OnlyConn(e) /\ Kept(e) /\ serve' = serve /\ chan' = chan
    BY <1>1, <1>11, LockFacts
  <2>2. conn'[e].rbuf = conn[e].rbuf
    BY <2>1 DEF Kept, Same
  <2> QED
    BY <1>1, <2>1, <2>2, HeadsKept, BoundedSame DEF BaseInv
<1>12. ASSUME NEW r \in Roles, Send(e, r) PROVE BaseInv' /\ \A x \in Ends : Bounded(x)
  <2>1. /\ TypeInv' /\ serve' = serve /\ (chan' = chan \/ \E m \in Stanzas : SendsOne(e, m))
        /\ Breaks(e, r) \/ Advances(e, r) \/ conn' = conn
    BY <1>1, <1>12, SendFacts
  <2>2. OnlyConn(e) /\ conn'[e].rbuf = conn[e].rbuf
    BY <1>3, <2>1 DEF Breaks, Advances, Kept, Same
  <2> QED
    BY <1>1, <2>1, <2>2, HeadsKept, BoundedSame DEF BaseInv
<1>13. ASSUME NEW r \in Roles, Answered(e, r) \/ Timeout(e, r)
       PROVE  BaseInv' /\ \A x \in Ends : Bounded(x)
  <2>1. TypeInv' /\ serve' = serve /\ chan' = chan /\ (Breaks(e, r) \/ Advances(e, r))
    BY <1>1, <1>13, AnsweredFacts, TimeoutFacts
  <2>2. OnlyConn(e) /\ conn'[e].rbuf = conn[e].rbuf
    BY <2>1 DEF Breaks, Advances, Kept, Same
  <2> QED
    BY <1>1, <2>1, <2>2, HeadsKept, BoundedSame DEF BaseInv
<1>14. CASE Read(e)
  <2>1. /\ TypeInv' /\ OnlyConn(e) /\ Len(conn'[e].rbuf) <= Len(conn[e].rbuf)
        /\ serve' = serve /\ chan' = chan
    BY <1>1, <1>14, ReadFacts
  <2>2. ASSUME NEW x \in Ends PROVE Bounded(x)
    <3>1. Len(conn[x].rbuf) \in Nat
      BY <1>1, EndTypes DEF Bytes
    <3>2. CASE x = e
      BY <2>1, <3>2 DEF Bounded
    <3>3. CASE x # e
      <4>1. conn'[x] = conn[x]
        BY <2>1, <3>3 DEF OnlyConn
      <4> QED
        BY <3>1, <4>1 DEF Bounded
    <3> QED
      BY <3>2, <3>3
  <2> QED
    BY <1>1, <2>1, <2>2, HeadsKept DEF BaseInv
<1>15. CASE Receive(e)
  <2>1. TypeInv' /\ conn' = conn /\ serve' = serve /\ chan' = chan
    BY <1>1, <1>15, ReceiveFacts
  <2> QED
    BY <1>1, <1>3, <2>1, HeadsKept, BoundedSame DEF BaseInv
<1>16. ASSUME NEW max \in Limits, SetReadBuffer(e, max)
       PROVE  BaseInv' /\ \A x \in Ends : Bounded(x)
  <2>1. TypeInv' /\ OnlyConn(e) /\ conn'[e].rbuf = conn[e].rbuf /\ serve' = serve /\ chan' = chan
    BY <1>1, <1>16, SetReadBufferFacts
  <2> QED
    BY <1>1, <2>1, HeadsKept, BoundedSame DEF BaseInv
<1>17. CASE handlePayload(e)
  <2>1. /\ TypeInv' /\ serve[e] = "run" /\ serve' = serve /\ OnlyConn(e)
        /\ \E ms \in Seq(Answers) : Takes(e, ms)
        /\ conn'[e].rbuf = conn[e].rbuf \/ conn[e].limit = 0 \/ Len(conn'[e].rbuf) <= conn[e].limit
    BY <1>1, <1>17, PayloadFacts
  <2>2. HeadInv'
    BY <1>1, <2>1, AnswersAre, HeadsTaken
  <2>3. ASSUME NEW x \in Ends PROVE Bounded(x)
    <3>1. Len(conn[x].rbuf) \in Nat
      BY <1>1, EndTypes DEF Bytes
    <3>2. CASE x = e
      BY <2>1, <3>1, <3>2 DEF Bounded
    <3>3. CASE x # e
      <4>1. conn'[x] = conn[x]
        BY <2>1, <3>3 DEF OnlyConn
      <4> QED
        BY <3>1, <4>1 DEF Bounded
    <3> QED
      BY <3>2, <3>3
  <2> QED
    BY <2>1, <2>2, <2>3 DEF BaseInv
<1>18. CASE HandleClose(e)
  <2>1. /\ TypeInv' /\ conn' = conn /\ serve[e] = "run" /\ chan[e] # <<>> /\ Head(chan[e]).kind = "close"
        /\ \/ serve' = serve /\ \E ms \in Seq(Answers) : Takes(e, ms)
           \/ /\ chan' = chan /\ serve'[e] = "closing"
              /\ \A x \in Ends : x # e => serve'[x] = serve[x]
    BY <1>1, <1>18, HandleCloseFacts
  <2>2. HeadInv'
    <3>1. CASE serve' = serve /\ \E ms \in Seq(Answers) : Takes(e, ms)
      BY <1>1, <2>1, <3>1, AnswersAre, HeadsTaken
    <3>2. CASE chan' = chan /\ \A x \in Ends : x # e => serve'[x] = serve[x]
      BY <1>1, <2>1, <3>2 DEF HeadInv
    <3> QED
      BY <2>1, <3>1, <3>2
  <2> QED
    BY <1>1, <1>3, <2>1, <2>2, BoundedSame DEF BaseInv
<1>19. CASE closeNoNotify(e)
  <2>1. serve[e] = "closing"
    BY <1>19 DEF closeNoNotify
  <2>2. chan[e] # <<>>
    BY <1>1, <2>1 DEF HeadInv
  <2>3. /\ TypeInv' /\ OnlyConn(e) /\ conn'[e].rbuf = conn[e].rbuf
        /\ \A x \in Ends : x # e => serve'[x] = serve[x]
        /\ \/ chan' = chan /\ serve'[e] = "ended"
           \/ serve'[e] = "run" /\ \E as \in Seq(Answers) : Takes(e, Numbers(conn[e]) \o as)
    BY <1>1, <1>19, <2>2, CloseNoNotifyFacts
  <2>4. HeadInv'
    <3>1. CASE chan' = chan /\ serve'[e] = "ended"
      BY <1>1, <2>3, <3>1 DEF HeadInv
    <3>2. CASE serve'[e] = "run" /\ \E as \in Seq(Answers) : Takes(e, Numbers(conn[e]) \o as)
      <4>1. PICK as \in Seq(Answers) : Takes(e, Numbers(conn[e]) \o as)
        BY <3>2
      <4> DEFINE n == Numbers(conn[e])
      <4>2. n \in Seq(Stanzas) /\ as \in Seq(Stanzas)
        BY <1>1, EndTypes, NumbersTypes, AnswersAre
      <4> HIDE DEF n
      <4>3. n \o as \in Seq(Stanzas)
        BY <4>2, Joined
      <4> QED
        BY <1>1, <2>3, <3>2, <4>1, <4>3, HeadsTaken DEF n
    <3> QED
      BY <2>3, <3>1, <3>2
  <2> QED
    BY <1>1, <2>3, <2>4, BoundedSame DEF BaseInv
<1>20. CASE ServeAnswer(e)
  <2>1. /\ TypeInv' /\ conn' = conn /\ serve[e] = "run" /\ serve' = serve /\ Takes(e, <<>>)
    BY <1>1, <1>20, ServeAnswerFacts
  <2>2. <<>> \in Seq(Stanzas)
    OBVIOUS
  <2>3. HeadInv'
    BY <1>1, <2>1, <2>2, HeadsTaken
  <2> QED
    BY <1>1, <1>3, <2>1, <2>3, BoundedSame DEF BaseInv
<1> QED
  BY <1>2, <1>4, <1>5, <1>6, <1>7, <1>8, <1>9, <1>10, <1>11, <1>12, <1>13, <1>14, <1>15, <1>16,
     <1>17, <1>18, <1>19, <1>20

\* A stream begins with nothing buffered and nothing under way.
LEMMA BaseInit ==
    ASSUME Init
    PROVE  BaseInv
<1>1. params \in Streams /\ BlockSize \in Nat \ {0} /\ Group \in Nat \ {0}
  BY Parameters DEF Init
<1>2. InitialLimit \in Nat
  BY <1>1, BufAssumption DEF InitialLimit
<1>3. <<>> \in Bytes /\ <<>> \in Seq(Bytes) /\ FirstSeq \in 0 .. SeqCount - 1 /\ 0 \in 0 .. SeqCount - 1
      /\ <<>> \in Seq(Stanzas)
  BY SeqAssumption DEF Bytes
<1> DEFINE l == InitialLimit
           c == [closed |-> FALSE, ready |-> TRUE, rbuf |-> <<>>, seq |-> FirstSeq,
                  limit |-> l, wbuf |-> <<>>, fringe |-> <<>>,
                  wseq |-> FirstSeq, werr |-> FALSE, handlerT |-> FALSE,
                  stream |-> TRUE, lock |-> "none"]
           j == [pc |-> "idle", op |-> "flush", todo |-> <<>>, left |-> <<>>,
                  seq |-> 0, stale |-> FALSE, upTo |-> 0]
<1>4. conn = [e \in Ends |-> c] /\ job = [e \in Ends |-> [r \in Roles |-> j]]
  BY DEF Init
<1>5. c.wbuf = <<>> /\ c.fringe = <<>> /\ c \in ConnType
  <2>1. l \in Nat
    BY <1>2
  <2> HIDE DEF l
  <2> QED
    BY <1>3, <2>1 DEF ConnType
<1>6. GoodConn(c)
  <2> HIDE DEF c
  <2> QED
    BY <1>1, <1>5 DEF GoodConn
<1>7. j \in JobType /\ j.pc = "idle" /\ j.op = "flush" /\ j.todo = <<>> /\ j.left = <<>>
  BY <1>3 DEF JobType, Ops
<1> HIDE DEF c, j
<1>8. \A r \in Roles : GoodJob(r, j)
  BY <1>1, <1>7 DEF GoodJob, Working
<1>9. ConnTypes
  BY <1>4, <1>6 DEF ConnTypes
<1>10. JobTypes
  <2>1. \A e \in Ends : \A r \in Roles : job[e][r] = j
    BY <1>4
  <2> QED
    BY <1>4, <1>8, <2>1 DEF JobTypes
<1>11. ChanTypes
  BY <1>3 DEF Init, ChanTypes
<1>12. RestTypes
  BY <1>3 DEF Init, RestTypes
<1>13. HeadInv
  BY DEF Init, HeadInv
<1> QED
  BY <1>1, <1>9, <1>10, <1>11, <1>12, <1>13 DEF BaseInv, TypeInv

\* (Stuttering.)
LEMMA BaseStutter ==
    ASSUME BaseInv, UNCHANGED vars
    PROVE  BaseInv' /\ \A x \in Ends : Bounded(x)
<1>1. TypeInv /\ HeadInv
  BY DEF BaseInv
<1>2. /\ params' = params /\ conn' = conn /\ job' = job /\ rpc' = rpc /\ serve' = serve /\ chan' = chan
      /\ UNCHANGED <<appVars, panic, ghostVars>>
  BY DEF vars
<1>3. TypeInv'
  BY <1>1, <1>2, Untouched, RestUntouched DEF TypeInv
<1>4. HeadInv'
  BY <1>1, <1>2 DEF HeadInv
<1>5. ASSUME NEW x \in Ends PROVE Bounded(x)
  <2>1. Len(conn[x].rbuf) \in Nat
    BY <1>1, EndTypes DEF Bytes
  <2> QED
    BY <1>2, <2>1 DEF Bounded
<1> QED
  BY <1>3, <1>4, <1>5 DEF BaseInv

\* The variables keep their types in every behaviour of the stream, and the
\* write buffer and the encoder never hold more than a block and a group.
THEOREM TypeCorrect == Spec => []TypeOK
<1>1. Init => BaseInv
  BY BaseInit
<1>2. BaseInv /\ [Next]_vars => BaseInv'
  BY BaseStep, BaseStutter
<1>3. BaseInv => TypeOK
  BY TypesNamed DEF BaseInv
<1> QED
  BY <1>1, <1>2, <1>3, PTL DEF Spec

\* handlePayload (ibb/ibb.go) never lets a block make the read buffer larger
\* than its limit at that moment, for every block size, every group and every
\* sequence of calls of SetReadBuffer: the length it checks is no less than
\* what it decodes.
THEOREM BufferBounded == Spec => BufferBound
<1>1. Init => BaseInv
  BY BaseInit
<1>2. BaseInv /\ [Next]_vars => BaseInv'
  BY BaseStep, BaseStutter
<1>3. BaseInv /\ [Next]_vars
        => [\A e \in Ends : Len(conn'[e].rbuf) > Len(conn[e].rbuf) /\ conn[e].limit > 0
               => Len(conn'[e].rbuf) <= conn[e].limit]_vars
  <2> SUFFICES ASSUME BaseInv, [Next]_vars, NEW e \in Ends,
                      Len(conn'[e].rbuf) > Len(conn[e].rbuf), conn[e].limit > 0
               PROVE  Len(conn'[e].rbuf) <= conn[e].limit
    OBVIOUS
  <2>1. Bounded(e) /\ BaseInv'
    BY BaseStep, BaseStutter
  <2>2. Len(conn'[e].rbuf) \in Nat /\ Len(conn[e].rbuf) \in Nat /\ conn[e].limit \in Nat
    <3>1. TypeInv /\ TypeInv'
      BY <2>1 DEF BaseInv
    <3>2. conn[e].rbuf \in Seq(Nat) /\ conn[e] \in ConnType
      BY <3>1, EndTypes DEF Bytes
    <3>3. conn'[e].rbuf \in Seq(Nat)
      BY <3>1 DEF TypeInv, ConnTypes, GoodConn, ConnType, Bytes
    <3> QED
      BY <3>2, <3>3 DEF ConnType
  <2> QED
    BY <2>1, <2>2 DEF Bounded
<1> QED
  BY <1>1, <1>2, <1>3, PTL DEF Spec, BufferBound

----------------------------------------------------------------------------
(* Sequence numbers wrap, and blocks are counted along a channel.          *)

\* Whole turns do not count.
LEMMA ModShift ==
    ASSUME NEW N \in Nat \ {0}, NEW q \in Nat, NEW x \in Nat
    PROVE  (N * q + x) % N = x % N
<1> DEFINE p == x \div N
           s == x % N
<1>1. p \in Nat /\ s \in 0 .. N - 1 /\ x = N * p + s
  OBVIOUS
<1> HIDE DEF p, s
<1>2. q + p \in Nat /\ N * q + x = N * (q + p) + s
  <2>1. N * (q + p) = N * q + N * p
    BY <1>1
  <2>2. N * q \in Nat /\ N * p \in Nat
    BY <1>1
  <2> DEFINE a == N * q
             b == N * p
             d == N * (q + p)
  <2>3. d = a + b /\ a \in Nat /\ b \in Nat /\ x = b + s
    BY <1>1, <2>1, <2>2
  <2> HIDE DEF a, b, d
  <2>4. a + x = d + s
    BY <1>1, <2>3
  <2> QED
    BY <1>1, <2>4 DEF a, b, d
<1> DEFINE t == q + p
<1>3. t \in Nat /\ N * q + x = N * t + s
  BY <1>2
<1> HIDE DEF t
<1>4. (N * t + s) % N = s
  BY <1>1, <1>3
<1> QED
  BY <1>3, <1>4 DEF s

\* A number may be wrapped before it is added to.
LEMMA ModAdd ==
    ASSUME NEW N \in Nat \ {0}, NEW a \in Nat, NEW b \in Nat
    PROVE  ((a % N) + b) % N = (a + b) % N
<1> DEFINE q == a \div N
           r == a % N
<1>1. q \in Nat /\ r \in Nat /\ a = N * q + r
  OBVIOUS
<1> HIDE DEF q, r
<1>2. r + b \in Nat
  BY <1>1
<1>3. (N * q + (r + b)) % N = (r + b) % N
  BY <1>1, <1>2, ModShift
<1>4. N * q \in Nat
  BY <1>1
<1>5. N * q + (r + b) = a + b
  BY <1>1, <1>4
<1> QED
  BY <1>3, <1>5 DEF r

\* Numbers that agree go on agreeing.
LEMMA ModAgree ==
    ASSUME NEW N \in Nat \ {0}, NEW a \in Nat, NEW b \in Nat, NEW c \in Nat, a % N = b % N
    PROVE  (a + c) % N = (b + c) % N
<1>1. ((a % N) + c) % N = (a + c) % N
  BY ModAdd
<1>2. ((b % N) + c) % N = (b + c) % N
  BY ModAdd
<1> QED
  BY <1>1, <1>2

\* The same for sequence numbers; one in range stays as it is.
LEMMA SeqAgree ==
    ASSUME NEW a \in Nat, NEW b \in Nat, NEW c \in Nat, a % SeqCount = b % SeqCount
    PROVE  (a + c) % SeqCount = (b + c) % SeqCount
BY SeqAssumption, ModAgree

\* (And one that was wrapped is in range.)
LEMMA SeqRange ==
    ASSUME NEW a \in Nat
    PROVE  /\ a \in 0 .. SeqCount - 1 => (a + 0) % SeqCount = a /\ a % SeqCount = a
           /\ ((a % SeqCount) + 0) % SeqCount = a % SeqCount
<1>1. SeqCount \in Nat \ {0}
  BY SeqAssumption
<1>2. a + 0 = a
  OBVIOUS
<1>3. a \in 0 .. SeqCount - 1 => a % SeqCount = a
  BY <1>1
<1>4. ((a % SeqCount) + 0) % SeqCount = (a + 0) % SeqCount
  BY <1>1, ModAdd
<1> QED
  BY <1>2, <1>3, <1>4

Spots(s, k) == {i \in 1 .. k : s[i].kind = "data"}

\* Blocks are counted in natural numbers.
LEMMA BlocksType ==
    ASSUME NEW s, NEW k \in Nat
    PROVE  IsFiniteSet(Spots(s, k)) /\ Blocks(s, k) = Cardinality(Spots(s, k)) /\ Blocks(s, k) \in Nat
<1>1. IsFiniteSet(1 .. k)
  BY FS_Interval
<1>2. Spots(s, k) \in SUBSET (1 .. k)
  BY DEF Spots
<1>3. IsFiniteSet(Spots(s, k))
  BY <1>1, <1>2, FS_Subset
<1>4. Blocks(s, k) = Cardinality(Spots(s, k))
  BY DEF Blocks, Spots
<1> QED
  BY <1>3, <1>4, FS_CardinalityType

\* What comes behind does not count.
LEMMA BlocksBefore ==
    ASSUME NEW S, NEW s \in Seq(S), NEW t \in Seq(S), NEW k \in 0 .. Len(s)
    PROVE  Blocks(s \o t, k) = Blocks(s, k)
<1>1. \A i \in 1 .. k : (s \o t)[i] = s[i]
  <2>1. Len(s) \in Nat /\ k \in Nat /\ k <= Len(s)
    OBVIOUS
  <2> TAKE i \in 1 .. k
  <2>2. i \in 1 .. Len(s)
    BY <2>1
  <2> QED
    BY <2>2
<1> QED
  BY <1>1 DEF Blocks

\* One sequence after another counts what both do.
LEMMA BlocksJoined ==
    ASSUME NEW S, NEW s \in Seq(S), NEW t \in Seq(S), NEW k \in 0 .. Len(t)
    PROVE  Blocks(s \o t, Len(s) + k) = Blocks(s, Len(s)) + Blocks(t, k)
<1> DEFINE n == Len(s)
           A == Spots(s, n)
           B == Spots(t, k)
           C == {i \in (n + 1) .. (n + k) : t[i - n].kind = "data"}
           f == [i \in B |-> n + i]
<1>1. n \in Nat /\ k \in Nat /\ k <= Len(t) /\ Len(t) \in Nat
  OBVIOUS
<1>2. /\ \A i \in 1 .. n : (s \o t)[i] = s[i]
      /\ \A i \in (n + 1) .. (n + k) : (s \o t)[i] = t[i - n]
  <2>1. \A i \in 1 .. n : (s \o t)[i] = s[i]
    OBVIOUS
  <2>2. ASSUME NEW i \in (n + 1) .. (n + k) PROVE (s \o t)[i] = t[i - n]
    <3>1. i \in 1 .. n + Len(t) /\ i > n
      BY <1>1
    <3> QED
      BY <3>1
  <2> QED
    BY <2>1, <2>2
<1>3. Spots(s \o t, n + k) = A \cup C /\ A \cap C = {}
  <2> HIDE DEF n
  <2>1. 1 .. (n + k) = (1 .. n) \cup ((n + 1) .. (n + k)) /\ (1 .. n) \cap ((n + 1) .. (n + k)) = {}
    BY <1>1
  <2>2. A \subseteq 1 .. n /\ C \subseteq (n + 1) .. (n + k)
    BY DEF Spots
  <2>3. A \cap C = {}
    BY <2>1, <2>2
  <2>4. Spots(s \o t, n + k) = {i \in 1 .. n : (s \o t)[i].kind = "data"}
                                 \cup {i \in (n + 1) .. (n + k) : (s \o t)[i].kind = "data"}
    BY <2>1 DEF Spots
  <2>5. {i \in 1 .. n : (s \o t)[i].kind = "data"} = A
    BY <1>2 DEF Spots
  <2>6. {i \in (n + 1) .. (n + k) : (s \o t)[i].kind = "data"} = C
    BY <1>2
  <2> QED
    BY <2>3, <2>4, <2>5, <2>6
<1>4. f \in Bijection(B, C)
  <2> HIDE DEF n
  <2>1. \A i \in B : i \in Nat /\ n + i \in C
    <3> TAKE i \in B
    <3>1. i \in 1 .. k /\ t[i].kind = "data"
      BY DEF Spots
    <3>2. n + i \in (n + 1) .. (n + k) /\ (n + i) - n = i
      BY <1>1, <3>1
    <3> QED
      BY <3>1, <3>2
  <2>2. \A j \in C : j - n \in B /\ n + (j - n) = j
    <3> TAKE j \in C
    <3>1. j \in (n + 1) .. (n + k) /\ t[j - n].kind = "data"
      OBVIOUS
    <3>2. j - n \in 1 .. k /\ n + (j - n) = j
      BY <1>1, <3>1
    <3> QED
      BY <3>1, <3>2 DEF Spots
  <2> HIDE DEF B, C
  <2>3. f \in [B -> C]
    BY <2>1
  <2>4. \A a, b \in B : f[a] = f[b] => a = b
    BY <1>1, <2>1
  <2>5. \A j \in C : \E i \in B : f[i] = j
    BY <2>2
  <2> QED
    BY <2>3, <2>4, <2>5 DEF Bijection, Injection, Surjection, IsInjective
<1>5. /\ IsFiniteSet(A) /\ Blocks(s, n) = Cardinality(A) /\ Blocks(s, n) \in Nat
  BY <1>1, BlocksType
<1>6. IsFiniteSet(B) /\ Blocks(t, k) = Cardinality(B) /\ Blocks(t, k) \in Nat
  BY <1>1, BlocksType
<1>7. IsFiniteSet(C) /\ Cardinality(C) = Cardinality(B)
  BY <1>4, <1>6, FS_Bijection DEF ExistsBijection
<1>8. Blocks(s \o t, n + k) = Cardinality(A \cup C)
  BY <1>3 DEF Blocks, Spots
<1>9. Cardinality(A \cup C) = Cardinality(A) + Cardinality(C) - Cardinality(A \cap C)
  BY <1>5, <1>7, FS_Union
<1>10. Cardinality(A \cap C) = 0
  BY <1>3, FS_EmptySet
<1> HIDE DEF A, B, C
<1> QED
  BY <1>5, <1>6, <1>7, <1>8, <1>9, <1>10

\* Every one counts, or none does.
LEMMA BlocksEvery ==
    ASSUME NEW s, NEW k \in Nat
    PROVE  /\ (\A i \in 1 .. k : s[i].kind = "data") => Blocks(s, k) = k
           /\ (\A i \in 1 .. k : s[i].kind # "data") => Blocks(s, k) = 0
           /\ Blocks(s, 0) = 0
<1>1. (\A i \in 1 .. k : s[i].kind = "data") => Blocks(s, k) = k
  <2> SUFFICES ASSUME \A i \in 1 .. k : s[i].kind = "data" PROVE Blocks(s, k) = k
    OBVIOUS
  <2>1. Spots(s, k) = 1 .. k
    BY DEF Spots
  <2>2. Cardinality(1 .. k) = IF 1 > k THEN 0 ELSE k - 1 + 1
    BY FS_Interval
  <2>3. Cardinality(1 .. k) = k
    BY <2>2
  <2> QED
    BY <2>1, <2>3 DEF Blocks, Spots
<1>2. (\A i \in 1 .. k : s[i].kind # "data") => Blocks(s, k) = 0
  <2> SUFFICES ASSUME \A i \in 1 .. k : s[i].kind # "data" PROVE Blocks(s, k) = 0
    OBVIOUS
  <2>1. Spots(s, k) = {}
    BY DEF Spots
  <2> QED
    BY <2>1, FS_EmptySet DEF Blocks, Spots
<1>3. Blocks(s, 0) = 0
  <2>1. Spots(s, 0) = {}
    BY DEF Spots
  <2> QED
    BY <2>1, FS_EmptySet DEF Blocks, Spots
<1> QED
  BY <1>1, <1>2, <1>3

\* The blocks of a sequence have the numbers from b on.
Numbered(s, b) ==
    \A i \in DOMAIN s : s[i].kind = "data" => s[i].seq = (b + Blocks(s, i - 1)) % SeqCount

\* One numbered sequence after another.
LEMMA NumberedJoined ==
    ASSUME NEW s \in Seq(Stanzas), NEW t \in Seq(Stanzas), NEW b \in Nat
    PROVE  Numbered(s \o t, b) <=> Numbered(s, b) /\ Numbered(t, b + Blocks(s, Len(s)))
<1> DEFINE n == Len(s)
           u == s \o t
<1>1. n \in Nat /\ Len(t) \in Nat /\ DOMAIN s = 1 .. n /\ DOMAIN t = 1 .. Len(t) /\ DOMAIN u = 1 .. n + Len(t)
  OBVIOUS
<1>2. ASSUME NEW i \in 1 .. n PROVE u[i] = s[i] /\ Blocks(u, i - 1) = Blocks(s, i - 1)
  <2>1. i - 1 \in 0 .. Len(s)
    BY <1>1
  <2> QED
    BY <2>1, BlocksBefore
<1>3. ASSUME NEW i \in 1 .. Len(t)
      PROVE  u[n + i] = t[i] /\ b + Blocks(u, (n + i) - 1) = (b + Blocks(s, n)) + Blocks(t, i - 1)
  <2>1. i - 1 \in 0 .. Len(t) /\ (n + i) - 1 = n + (i - 1) /\ i - 1 \in Nat
    BY <1>1
  <2>2. Blocks(u, n + (i - 1)) = Blocks(s, n) + Blocks(t, i - 1)
    BY <2>1, BlocksJoined
  <2>3. Blocks(s, n) \in Nat /\ Blocks(t, i - 1) \in Nat
    BY <1>1, <2>1, BlocksType
  <2>4. u[n + i] = t[i]
    BY <1>1
  <2>5. b + (Blocks(s, n) + Blocks(t, i - 1)) = (b + Blocks(s, n)) + Blocks(t, i - 1)
    <3> DEFINE x == Blocks(s, n)
               y == Blocks(t, i - 1)
    <3>1. x \in Nat /\ y \in Nat
      BY <2>3
    <3> HIDE DEF x, y
    <3>2. b + (x + y) = (b + x) + y
      BY <3>1
    <3> QED
      BY <3>2 DEF x, y
  <2> QED
    BY <2>1, <2>2, <2>4, <2>5
<1>4. ASSUME Numbered(u, b) PROVE Numbered(s, b) /\ Numbered(t, b + Blocks(s, n))
  <2>1. Numbered(s, b)
    <3>1. SUFFICES ASSUME NEW i \in 1 .. n, s[i].kind = "data"
                   PROVE  s[i].seq = (b + Blocks(s, i - 1)) % SeqCount
      BY <1>1 DEF Numbered
    <3>2. i \in DOMAIN u
      BY <1>1
    <3> QED
      BY <1>2, <1>4, <3>1, <3>2 DEF Numbered
  <2>2. Numbered(t, b + Blocks(s, n))
    <3>1. SUFFICES ASSUME NEW i \in 1 .. Len(t), t[i].kind = "data"
                   PROVE  t[i].seq = ((b + Blocks(s, n)) + Blocks(t, i - 1)) % SeqCount
      BY <1>1 DEF Numbered
    <3>2. n + i \in DOMAIN u
      BY <1>1
    <3> HIDE DEF u
    <3> QED
      BY <1>3, <1>4, <3>1, <3>2 DEF Numbered
  <2> QED
    BY <2>1, <2>2
<1>5. ASSUME Numbered(s, b), Numbered(t, b + Blocks(s, n)) PROVE Numbered(u, b)
  <2>1. SUFFICES ASSUME NEW i \in 1 .. n + Len(t), u[i].kind = "data"
                 PROVE  u[i].seq = (b + Blocks(u, i - 1)) % SeqCount
    BY <1>1 DEF Numbered
  <2> HIDE DEF u
  <2>2. CASE i <= n
    <3>1. i \in 1 .. n
      BY <1>1, <2>2
    <3> QED
      BY <1>1, <1>2, <1>5, <2>1, <3>1 DEF Numbered
  <2>3. CASE i > n
    <3>1. PICK j \in 1 .. Len(t) : i = n + j
      <4>1. i - n \in 1 .. Len(t) /\ i = n + (i - n)
        BY <1>1, <2>3
      <4> QED
        BY <4>1
    <3> QED
      BY <1>1, <1>3, <1>5, <2>1, <3>1 DEF Numbered
  <2> QED
    BY <1>1, <2>2, <2>3
<1> QED
  BY <1>4, <1>5

Total(s) == Blocks(s, Len(s))

\* The number from which one counts may be wrapped.
LEMMA NumberedWrap ==
    ASSUME NEW s \in Seq(Stanzas), NEW b \in Nat, NEW c \in Nat, b % SeqCount = c % SeqCount,
           Numbered(s, b)
    PROVE  Numbered(s, c)
<1>1. SUFFICES ASSUME NEW i \in DOMAIN s, s[i].kind = "data"
               PROVE  s[i].seq = (c + Blocks(s, i - 1)) % SeqCount
  BY DEF Numbered
<1>2. i - 1 \in Nat
  OBVIOUS
<1>3. Blocks(s, i - 1) \in Nat
  BY <1>2, BlocksType
<1>4. (b + Blocks(s, i - 1)) % SeqCount = (c + Blocks(s, i - 1)) % SeqCount
  BY <1>3, SeqAssumption, ModAgree
<1> QED
  BY <1>1, <1>4 DEF Numbered

\* How many there are, and that the count of a sequence is a natural number.
LEMMA TotalJoined ==
    ASSUME NEW s \in Seq(Stanzas), NEW t \in Seq(Stanzas)
    PROVE  Total(s) \in Nat /\ Total(t) \in Nat /\ Total(s \o t) = Total(s) + Total(t)
<1>1. Len(s) \in Nat /\ Len(t) \in Nat /\ Len(t) \in 0 .. Len(t) /\ Len(s \o t) = Len(s) + Len(t)
  OBVIOUS
<1>2. Blocks(s \o t, Len(s) + Len(t)) = Blocks(s, Len(s)) + Blocks(t, Len(t))
  BY <1>1, BlocksJoined
<1> QED
  BY <1>1, <1>2, BlocksType DEF Total

\* Stanzas that are not blocks do not count.
LEMMA NotBlocks ==
    ASSUME NEW t \in Seq(Stanzas), \A i \in DOMAIN t : t[i].kind # "data", NEW b
    PROVE  Total(t) = 0 /\ Numbered(t, b)
<1>1. Len(t) \in Nat /\ DOMAIN t = 1 .. Len(t)
  OBVIOUS
<1> QED
  BY <1>1, BlocksEvery DEF Total, Numbered

\* A block is one.
LEMMA OneBlock ==
    ASSUME NEW m \in Stanzas, m.kind = "data", NEW b \in Nat
    PROVE  <<m>> \in Seq(Stanzas) /\ Total(<<m>>) = 1 /\ (Numbered(<<m>>, b) <=> m.seq = b % SeqCount)
<1> DEFINE t == <<m>>
<1>1. t \in Seq(Stanzas) /\ Len(t) = 1 /\ DOMAIN t = {1} /\ t[1] = m
  OBVIOUS
<1> HIDE DEF t
<1>2. \A i \in 1 .. 1 : t[i].kind = "data"
  BY <1>1
<1>3. Blocks(t, 1) = 1
  BY <1>2, BlocksEvery
<1>4. Blocks(t, 0) = 0 /\ 1 - 1 = 0 /\ b + 0 = b
  BY BlocksEvery
<1>5. Numbered(t, b) <=> m.seq = (b + Blocks(t, 1 - 1)) % SeqCount
  BY <1>1 DEF Numbered
<1>6. Numbered(t, b) <=> m.seq = b % SeqCount
  BY <1>4, <1>5
<1> QED
  BY <1>1, <1>3, <1>6 DEF t, Total

\* What closeNoNotify writes is numbered from the connection's number on.
LEMMA AllBlocks ==
    ASSUME params \in Streams, NEW c, GoodConn(c)
    PROVE  Total(Numbers(c)) = Len(Numbers(c)) /\ Numbered(Numbers(c), c.wseq)
<1> DEFINE n == Numbers(c)
           w == c.wseq
<1>1. /\ n \in Seq(Stanzas) /\ w \in Nat
      /\ \A i \in DOMAIN n : n[i].kind = "data" /\ n[i].seq = (w + i - 1) % SeqCount
  BY NumbersTypes DEF GoodConn, ConnType
<1> HIDE DEF n, w
<1>2. Len(n) \in Nat /\ DOMAIN n = 1 .. Len(n)
  BY <1>1
<1>3. Total(n) = Len(n)
  BY <1>1, <1>2, BlocksEvery DEF Total
<1>4. ASSUME NEW i \in 1 .. Len(n) PROVE n[i].seq = (w + Blocks(n, i - 1)) % SeqCount
  <2>1. i - 1 \in Nat /\ \A j \in 1 .. (i - 1) : j \in 1 .. Len(n)
    BY <1>2
  <2>2. \A j \in 1 .. (i - 1) : n[j].kind = "data"
    BY <1>1, <1>2, <2>1
  <2>3. Blocks(n, i - 1) = i - 1
    BY <2>1, <2>2, BlocksEvery
  <2>4. w + i - 1 = w + (i - 1)
    BY <1>1, <2>1
  <2> QED
    BY <1>1, <1>2, <2>3, <2>4
<1> QED
  BY <1>2, <1>3, <1>4 DEF Numbered, n, w

\* The first of a sequence and the rest.
LEMMA NumberedTail ==
    ASSUME NEW q \in Seq(Stanzas), q # <<>>, NEW b \in Nat, Numbered(q, b)
    PROVE  /\ Tail(q) \in Seq(Stanzas) /\ Total(Tail(q)) \in Nat
           /\ Head(q).kind # "data" => Numbered(Tail(q), b) /\ Total(q) = Total(Tail(q))
           /\ Head(q).kind = "data" => /\ Head(q).seq = b % SeqCount
                                       /\ Numbered(Tail(q), b + 1) /\ Total(q) = 1 + Total(Tail(q))
<1> DEFINE h == Head(q)
           t == Tail(q)
           o == <<h>>
<1>1. h \in Stanzas /\ t \in Seq(Stanzas) /\ q = <<h>> \o t
  OBVIOUS
<1> HIDE DEF h, t
<1>2. o \in Seq(Stanzas) /\ Len(o) = 1 /\ DOMAIN o = {1} /\ o[1] = h /\ q = o \o t
  BY <1>1
<1> HIDE DEF o
<1>3. Total(o) \in Nat /\ Total(t) \in Nat /\ Total(q) = Total(o) + Total(t)
  BY <1>1, <1>2, TotalJoined
<1>4. Numbered(o, b) /\ Numbered(t, b + Total(o))
  BY <1>1, <1>2, NumberedJoined DEF Total
<1>5. CASE h.kind # "data"
  <2>1. Total(o) = 0
    BY <1>2, <1>5, NotBlocks
  <2>2. b + 0 = b /\ 0 + Total(t) = Total(t)
    BY <1>3
  <2> QED
    BY <1>1, <1>3, <1>4, <1>5, <2>1, <2>2 DEF h, t
<1>6. CASE h.kind = "data"
  <2>1. Total(o) = 1 /\ h.seq = b % SeqCount
    BY <1>1, <1>4, <1>6, OneBlock DEF o
  <2> QED
    BY <1>1, <1>3, <1>4, <1>6, <2>1 DEF h, t
<1> QED
  BY <1>5, <1>6

----------------------------------------------------------------------------
(* The numbers of blocks that are on their way are the ones expected.      *)

\* Whoever writes a block has the lock, unless it is the end of Close.
LockInv(e) == \A r \in Roles : Busy(e, r) /\ job[e][r].op # "tail" => conn[e].lock = r
\* Two goroutines are in the encoder at once only after a race.
AloneInv(e) == raced[e] \/ ~Busy(e, "writer") \/ ~Busy(e, "closer")

\* A block is out and its number is not counted yet.
Out(o) == IF \E r \in Roles : job[o][r].pc \in {"wait", "result", "error"} THEN 1 ELSE 0
\* Goroutine r will send a chunk with the number it has taken.
Ready(o, r) == job[o][r].pc = "send" /\ ~job[o][r].stale

\* The blocks from o to e are numbered, the next one continues after them, and
\* whoever is about to send has the next number.
Continues(o, e) ==
    /\ Numbered(chan[e], conn[e].seq)
    /\ (conn[o].wseq + Out(o)) % SeqCount = (conn[e].seq + Total(chan[e])) % SeqCount
    /\ \A r \in Roles : Ready(o, r) => job[o][r].seq = conn[o].wseq
Agreement(o, e) == raced[o] \/ conn[o].werr \/ ~conn[e].stream \/ Continues(o, e)
SeqInv == \A e \in Ends : LockInv(e) /\ AloneInv(e) /\ Agreement(e, Other(e))

\* Nothing that is counted happens at the end that writes.
WriterSame(o) ==
    /\ raced[o] => raced'[o]
    /\ conn[o].werr => conn'[o].werr
    /\ conn'[o].wseq = conn[o].wseq /\ Out(o)' = Out(o)
    /\ \A r \in Roles : Ready(o, r)' => \/ Ready(o, r) /\ job'[o][r].seq = job[o][r].seq
                                        \/ job'[o][r].seq = conn[o].wseq
\* No block is sent to e, and none is taken.
Quiet(e) ==
    /\ Total(chan'[e]) = Total(chan[e])
    /\ \A b \in Nat : Numbered(chan[e], b) => Numbered(chan'[e], b)
ReaderSame(e) == conn'[e].seq = conn[e].seq /\ (conn'[e].stream => conn[e].stream) /\ Quiet(e)

\* Then they go on agreeing.
LEMMA AgreementKept ==
    ASSUME TypeInv, NEW o \in Ends, NEW e \in Ends, Agreement(o, e), WriterSame(o), ReaderSame(e)
    PROVE  Agreement(o, e)'
<1>1. CASE raced[o] \/ conn[o].werr \/ ~conn[e].stream
  BY <1>1 DEF Agreement, WriterSame, ReaderSame
<1>2. CASE Continues(o, e)
  <2>1. conn[e].seq \in Nat
    BY EndTypes, SeqAssumption DEF ConnType
  <2>2. Numbered(chan'[e], conn'[e].seq)
    BY <1>2, <2>1 DEF Continues, ReaderSame, Quiet
  <2>3. (conn'[o].wseq + Out(o)') % SeqCount = (conn'[e].seq + Total(chan'[e])) % SeqCount
    BY <1>2 DEF Continues, ReaderSame, Quiet, WriterSame
  <2>4. \A r \in Roles : Ready(o, r)' => job'[o][r].seq = conn'[o].wseq
    BY <1>2 DEF Continues, WriterSame
  <2>5. Continues(o, e)'
    BY <2>2, <2>3, <2>4 DEF Continues, Numbered, Total, Blocks
  <2> QED
    BY <2>5 DEF Agreement
<1> QED
  BY <1>1, <1>2 DEF Agreement

\* Where nothing is done to the jobs of an end.
LEMMA JobsSame ==
    ASSUME NEW o \in Ends, \A r \in Roles : job'[o][r] = job[o][r],
           conn'[o].wseq = conn[o].wseq, conn'[o].werr = conn[o].werr, raced[o] => raced'[o]
    PROVE  WriterSame(o)
<1>1. Out(o)' = Out(o)
  BY DEF Out
<1>2. \A r \in Roles : Ready(o, r)' => Ready(o, r) /\ job'[o][r].seq = job[o][r].seq
  BY DEF Ready
<1> QED
  BY <1>1, <1>2 DEF WriterSame

Outs == {"wait", "result", "error"}

\* Where one goroutine goes on, and sends nothing.
LEMMA JobSame ==
    ASSUME NEW o \in Ends, NEW r \in Roles, OnlyJob(o, r),
           job'[o][r].pc \in Outs <=> job[o][r].pc \in Outs,
           Ready(o, r)' => \/ Ready(o, r) /\ job'[o][r].seq = job[o][r].seq
                           \/ job'[o][r].seq = conn[o].wseq,
           conn'[o].wseq = conn[o].wseq, conn'[o].werr = conn[o].werr, raced[o] => raced'[o]
    PROVE  WriterSame(o)
<1>1. \A x \in Roles : x # r => job'[o][x] = job[o][x]
  BY DEF OnlyJob
<1>2. (\E x \in Roles : job'[o][x].pc \in Outs) <=> (\E x \in Roles : job[o][x].pc \in Outs)
  BY <1>1
<1>3. Out(o)' = Out(o)
  BY <1>2 DEF Out, Outs
<1>4. \A x \in Roles : Ready(o, x)' => \/ Ready(o, x) /\ job'[o][x].seq = job[o][x].seq
                                       \/ job'[o][x].seq = conn[o].wseq
  BY <1>1 DEF Ready
<1> QED
  BY <1>3, <1>4 DEF WriterSame

\* The channel is left alone.
LEMMA QuietSame ==
    ASSUME NEW e \in Ends, chan'[e] = chan[e]
    PROVE  Quiet(e)
BY DEF Quiet

\* What is added is no block.
LEMMA QuietAdds ==
    ASSUME TypeInv, NEW e \in Ends, NEW ms \in Seq(Stanzas), chan'[e] = chan[e] \o ms,
           \A i \in DOMAIN ms : ms[i].kind # "data"
    PROVE  Quiet(e)
<1>1. chan[e] \in Seq(Stanzas)
  BY EndTypes
<1>2. Total(ms) = 0 /\ \A b \in Nat : Numbered(ms, b)
  BY NotBlocks
<1>3. Total(chan[e]) \in Nat /\ Total(chan[e] \o ms) = Total(chan[e]) + Total(ms)
  BY <1>1, TotalJoined
<1>4. ASSUME NEW b \in Nat, Numbered(chan[e], b) PROVE Numbered(chan[e] \o ms, b)
  <2>1. b + Blocks(chan[e], Len(chan[e])) \in Nat
    BY <1>3 DEF Total
  <2>2. Numbered(ms, b + Blocks(chan[e], Len(chan[e])))
    BY <1>2, <2>1
  <2> QED
    BY <1>1, <1>4, <2>2, NumberedJoined
<1> QED
  BY <1>2, <1>3, <1>4 DEF Quiet

\* (Answers are none.)
LEMMA QuietAnswers ==
    ASSUME TypeInv, NEW e \in Ends, NEW ms \in Seq(Answers), chan'[e] = chan[e] \o ms
    PROVE  Quiet(e)
<1>1. ms \in Seq(Stanzas)
  BY AnswersAre
<1>2. \A i \in DOMAIN ms : ms[i].kind # "data"
  BY DEF Answers
<1> QED
  BY <1>1, <1>2, QuietAdds

\* Something that is no block is taken.
LEMMA QuietTakes ==
    ASSUME TypeInv, NEW e \in Ends, chan[e] # <<>>, Head(chan[e]).kind # "data",
           chan'[e] = Tail(chan[e])
    PROVE  Quiet(e)
<1> DEFINE q == chan[e]
<1>1. q \in Seq(Stanzas) /\ q # <<>> /\ Head(q).kind # "data" /\ chan'[e] = Tail(q)
  BY EndTypes
<1> HIDE DEF q
<1>2. ASSUME NEW b \in Nat, Numbered(q, b) PROVE Numbered(Tail(q), b)
  BY <1>1, <1>2, NumberedTail
<1>3. Total(Tail(q)) = Total(q)
  <2> DEFINE h == Head(q)
             t == Tail(q)
             o == <<h>>
  <2>1. h \in Stanzas /\ t \in Seq(Stanzas) /\ q = <<h>> \o t /\ h.kind # "data"
    BY <1>1
  <2> HIDE DEF h, t
  <2>2. o \in Seq(Stanzas) /\ \A i \in DOMAIN o : o[i].kind # "data"
    BY <2>1
  <2>3. q = o \o t
    BY <2>1
  <2> HIDE DEF o
  <2>4. Total(o) = 0
    BY <2>2, NotBlocks
  <2>5. Total(t) \in Nat /\ Total(q) = Total(o) + Total(t)
    BY <2>1, <2>2, <2>3, TotalJoined
  <2> QED
    BY <2>4, <2>5 DEF t
<1> QED
  BY <1>1, <1>2, <1>3 DEF Quiet, q

\* The lock and the encoder, where nobody begins to write.
LEMMA LocksKept ==
    ASSUME NEW e \in Ends, LockInv(e), AloneInv(e),
           \A r \in Roles : Busy(e, r)' => Busy(e, r) /\ job'[e][r].op = job[e][r].op,
           conn'[e].lock = conn[e].lock, raced[e] => raced'[e]
    PROVE  LockInv(e)' /\ AloneInv(e)'
<1>1. "writer" \in Roles /\ "closer" \in Roles
  BY DEF Roles
<1> QED
  BY <1>1 DEF LockInv, AloneInv

\* The end that does nothing, when no block is taken by the other.
LEMMA OtherSide ==
    ASSUME TypeInv, SeqInv, NEW e \in Ends, OnlyConn(e),
           \A r \in Roles : job'[Other(e)][r] = job[Other(e)][r],
           raced[Other(e)] => raced'[Other(e)], ReaderSame(e)
    PROVE  LockInv(Other(e))' /\ AloneInv(Other(e))' /\ Agreement(Other(e), e)'
<1>1. PICK o \in Ends : o = Other(e) /\ o # e /\ Other(o) = e
  BY OtherEnd
<1>2. LockInv(o) /\ AloneInv(o) /\ Agreement(o, e)
  BY <1>1 DEF SeqInv
<1>3. conn'[o] = conn[o]
  BY <1>1 DEF OnlyConn
<1>4. \A r \in Roles : Busy(o, r)' => Busy(o, r) /\ job'[o][r].op = job[o][r].op
  BY <1>1 DEF Busy
<1>5. LockInv(o)' /\ AloneInv(o)'
  BY <1>1, <1>2, <1>3, <1>4, LocksKept
<1>6. WriterSame(o)
  BY <1>1, <1>3, JobsSame
<1>7. Agreement(o, e)'
  BY <1>1, <1>2, <1>6, AgreementKept
<1> QED
  BY <1>1, <1>5, <1>7

\* Both ends together.
LEMMA BothSides ==
    ASSUME NEW e \in Ends, LockInv(e)', AloneInv(e)', Agreement(e, Other(e))',
           LockInv(Other(e))', AloneInv(Other(e))', Agreement(Other(e), e)'
    PROVE  SeqInv'
<1>1. ASSUME NEW x \in Ends PROVE LockInv(x)' /\ AloneInv(x)' /\ Agreement(x, Other(x))'
  <2>1. CASE x = e
    BY <2>1
  <2>2. CASE x = Other(e)
    <3>1. Other(x) = e
      BY <2>2, OtherEnd
    <3> QED
      BY <2>2, <3>1
  <2> QED
    BY <2>1, <2>2, OtherEnd
<1> QED
  BY <1>1 DEF SeqInv

\* What a step of e that neither sends nor takes a block may do.
Calm(e) ==
    /\ OnlyConn(e) /\ conn'[e].wseq = conn[e].wseq /\ conn'[e].werr = conn[e].werr
    /\ conn'[e].lock = conn[e].lock /\ conn'[e].seq = conn[e].seq
    /\ conn'[e].stream => conn[e].stream
    /\ raced' = raced
    /\ Quiet(e) /\ Quiet(Other(e))

\* Such a step leaves everything in agreement.
LEMMA CalmStep ==
    ASSUME TypeInv, SeqInv, NEW e \in Ends, Calm(e),
           \/ job' = job
           \/ \E r \in Roles :
                 /\ OnlyJob(e, r) /\ (Busy(e, r)' => Busy(e, r) /\ job'[e][r].op = job[e][r].op)
                 /\ job'[e][r].pc \in Outs <=> job[e][r].pc \in Outs
                 /\ Ready(e, r)' => Ready(e, r) /\ job'[e][r].seq = job[e][r].seq
    PROVE  SeqInv'
<1>1. PICK o \in Ends : o = Other(e) /\ o # e
  BY OtherEnd
<1>2. LockInv(e) /\ AloneInv(e) /\ Agreement(e, o)
  BY <1>1 DEF SeqInv
<1>3. \A r \in Roles : job'[o][r] = job[o][r]
  BY <1>1 DEF OnlyJob
<1>4. \A r \in Roles : Busy(e, r)' => Busy(e, r) /\ job'[e][r].op = job[e][r].op
  BY DEF OnlyJob, Busy
<1>5. LockInv(e)' /\ AloneInv(e)'
  BY <1>2, <1>4, LocksKept DEF Calm
<1>6. WriterSame(e)
  <2>1. CASE job' = job
    BY <2>1, JobsSame DEF Calm
  <2>2. ASSUME NEW r \in Roles,
               OnlyJob(e, r), job'[e][r].pc \in Outs <=> job[e][r].pc \in Outs,
               Ready(e, r)' => Ready(e, r) /\ job'[e][r].seq = job[e][r].seq
        PROVE  WriterSame(e)
    BY <2>2, JobSame DEF Calm
  <2> QED
    BY <2>1, <2>2
<1>7. ReaderSame(o)
  <2>1. conn'[o] = conn[o]
    BY <1>1 DEF Calm, OnlyConn
  <2> QED
    BY <1>1, <2>1 DEF Calm, ReaderSame
<1>8. Agreement(e, o)'
  BY <1>2, <1>6, <1>7, AgreementKept
<1>9. ReaderSame(e)
  BY DEF Calm, ReaderSame
<1>10. LockInv(Other(e))' /\ AloneInv(Other(e))' /\ Agreement(Other(e), e)'
  BY <1>1, <1>3, <1>9, OtherSide DEF Calm
<1> QED
  BY <1>1, <1>5, <1>8, <1>10, BothSides

\* A goroutine that begins a block does so alone, or has raced.
LEMMA BeginsStep ==
    ASSUME TypeInv, SeqInv, NEW e \in Ends, NEW r \in Roles, NEW ops, Races(e, r, ops),
           OnlyConn(e), OnlyJob(e, r), chan' = chan,
           conn'[e].wseq = conn[e].wseq, conn'[e].werr = conn[e].werr, conn'[e].seq = conn[e].seq,
           conn'[e].stream = conn[e].stream, job[e][r].pc \notin Working,
           \/ job'[e][r].todo = <<>> /\ job'[e][r].pc \notin Working
           \/ job'[e][r].todo # <<>> /\ job'[e][r].pc = "send" /\ job'[e][r].seq = conn[e].wseq,
           \A x \in Roles : x # r /\ Busy(e, x) /\ job[e][x].op # "tail" => conn'[e].lock = x,
           job'[e][r].todo # <<>> /\ job'[e][r].op # "tail" => conn'[e].lock = r,
           job'[e][r].todo # <<>> => \A x \in Roles : x # r /\ Busy(e, x) => job[e][x].op \in ops
    PROVE  SeqInv'
<1>1. PICK o \in Ends : o = Other(e) /\ o # e
  BY OtherEnd
<1>2. LockInv(e) /\ AloneInv(e) /\ Agreement(e, o)
  BY <1>1 DEF SeqInv
<1>3. /\ \A x \in Ends : x # e => raced'[x] = raced[x]
      /\ \A x \in Ends : raced[x] => raced'[x]
      /\ (\E x \in Roles \ {r} : Busy(e, x) /\ job[e][x].op \in ops) => raced'[e]
  BY RacesEffect
<1>4. \A x \in Roles : x # r => job'[e][x] = job[e][x] /\ (Busy(e, x)' <=> Busy(e, x))
  BY DEF OnlyJob, Busy
<1>5. LockInv(e)'
  <2>1. \A x \in Roles : Busy(e, x)' /\ job'[e][x].op # "tail" => conn'[e].lock = x
    BY <1>4 DEF Busy
  <2> QED
    BY <2>1 DEF LockInv
<1>6. AloneInv(e)'
  <2>1. "writer" \in Roles /\ "closer" \in Roles /\ (\A x \in Roles : x = "writer" \/ x = "closer")
    BY DEF Roles
  <2>2. CASE ~Busy(e, r)'
    BY <2>1, <2>2 DEF AloneInv
  <2>3. CASE Busy(e, r)' /\ \E x \in Roles \ {r} : Busy(e, x)
    BY <1>3, <2>3 DEF AloneInv, Busy
  <2>4. CASE ~\E x \in Roles \ {r} : Busy(e, x)
    BY <1>4, <2>1, <2>4 DEF AloneInv
  <2> QED
    BY <2>2, <2>3, <2>4
<1>7. WriterSame(e)
  <2>1. job'[e][r].pc \in Outs <=> job[e][r].pc \in Outs
    BY DEF Outs, Working
  <2>2. Ready(e, r)' => job'[e][r].seq = conn[e].wseq
    BY DEF Ready, Working
  <2> QED
    BY <1>3, <2>1, <2>2, JobSame
<1>8. ReaderSame(o) /\ ReaderSame(e)
  <2>1. conn'[o] = conn[o]
    BY <1>1 DEF OnlyConn
  <2> QED
    BY <1>1, <2>1, QuietSame DEF ReaderSame
<1>9. Agreement(e, o)'
  BY <1>2, <1>7, <1>8, AgreementKept
<1>10. \A x \in Roles : job'[o][x] = job[o][x]
  BY <1>1 DEF OnlyJob
<1>11. LockInv(Other(e))' /\ AloneInv(Other(e))' /\ Agreement(Other(e), e)'
  BY <1>1, <1>3, <1>8, <1>10, OtherSide
<1> QED
  BY <1>1, <1>5, <1>6, <1>9, <1>11, BothSides

\* The lock after a goroutine has written a chunk or has failed.
LEMMA ReleaseLocks ==
    ASSUME TypeInv, SeqInv, NEW e \in Ends, NEW r \in Roles, Busy(e, r), raced' = raced,
           Breaks(e, r) \/ Advances(e, r)
    PROVE  LockInv(e)' /\ AloneInv(e)'
<1>1. LockInv(e) /\ AloneInv(e)
  BY DEF SeqInv
<1>2. \A x \in Roles : x # r => job'[e][x] = job[e][x] /\ (Busy(e, x)' <=> Busy(e, x))
  BY DEF Breaks, Advances, OnlyJob, Busy
<1>3. AloneInv(e)'
  <2>1. Busy(e, r)' => Busy(e, r)
    OBVIOUS
  <2>2. \A x \in Roles : Busy(e, x)' => Busy(e, x)
    BY <1>2, <2>1
  <2>3. "writer" \in Roles /\ "closer" \in Roles
    BY DEF Roles
  <2> QED
    BY <1>1, <2>2, <2>3 DEF AloneInv
<1>4. ASSUME NEW x \in Roles, Busy(e, x)', job'[e][x].op # "tail" PROVE conn'[e].lock = x
  <2>1. CASE x # r
    <3>1. conn[e].lock = x
      BY <1>1, <1>2, <1>4, <2>1 DEF LockInv
    <3>2. x # "none" /\ r # "none"
      BY DEF Roles
    <3>3. CASE Breaks(e, r)
      BY <2>1, <3>1, <3>3 DEF Breaks
    <3>4. CASE Advances(e, r)
      <4>1. job[e][r].op = "tail"
        BY <1>1, <2>1, <3>1 DEF LockInv
      <4> QED
        BY <3>1, <3>4, <4>1 DEF Advances
    <3> QED
      BY <3>3, <3>4
  <2>2. CASE x = r
    <3>1. job'[e][r].todo # <<>>
      BY <1>4, <2>2 DEF Busy
    <3>2. Advances(e, r) /\ job'[e][r].op = job[e][r].op /\ conn'[e].lock = conn[e].lock
      BY <3>1 DEF Breaks, Advances
    <3> QED
      BY <1>1, <1>4, <2>2, <3>2 DEF LockInv
  <2> QED
    BY <2>1, <2>2
<1>5. LockInv(e)'
  BY <1>4 DEF LockInv
<1> QED
  BY <1>3, <1>5

\* An error ends the agreement for good.
LEMMA BreaksStep ==
    ASSUME TypeInv, SeqInv, NEW e \in Ends, NEW r \in Roles, Busy(e, r), raced' = raced,
           chan' = chan, Breaks(e, r)
    PROVE  SeqInv'
<1>1. PICK o \in Ends : o = Other(e) /\ o # e
  BY OtherEnd
<1>2. LockInv(e)' /\ AloneInv(e)'
  BY ReleaseLocks
<1>3. Agreement(e, o)'
  BY DEF Agreement, Breaks
<1>4. ReaderSame(e)
  BY QuietSame DEF ReaderSame, Breaks, Kept, Same
<1>5. \A x \in Roles : job'[o][x] = job[o][x]
  BY <1>1 DEF Breaks, OnlyJob
<1>6. LockInv(Other(e))' /\ AloneInv(Other(e))' /\ Agreement(Other(e), e)'
  BY <1>1, <1>4, <1>5, OtherSide DEF Breaks
<1> QED
  BY <1>1, <1>2, <1>3, <1>6, BothSides

\* Without a race, nobody else writes.
LEMMA NobodyElse ==
    ASSUME TypeInv, SeqInv, NEW e \in Ends, ~raced[e], NEW r \in Roles, Busy(e, r),
           NEW x \in Roles, x # r
    PROVE  job[e][x].pc \notin Working
<1>1. AloneInv(e)
  BY DEF SeqInv
<1>2. ~Busy(e, x)
  BY <1>1 DEF AloneInv, Roles
<1> QED
  BY <1>2, BusyWorking

\* The numbers of an end, as natural numbers.
LEMMA SeqNat ==
    ASSUME TypeInv, NEW e \in Ends
    PROVE  /\ conn[e].seq \in 0 .. SeqCount - 1 /\ conn[e].wseq \in 0 .. SeqCount - 1
           /\ conn[e].seq \in Nat /\ conn[e].wseq \in Nat /\ SeqCount \in Nat \ {0}
           /\ Total(chan[e]) \in Nat /\ chan[e] \in Seq(Stanzas)
<1>1. conn[e].seq \in 0 .. SeqCount - 1 /\ conn[e].wseq \in 0 .. SeqCount - 1 /\ chan[e] \in Seq(Stanzas)
  BY EndTypes DEF ConnType
<1>2. Len(chan[e]) \in Nat
  BY <1>1
<1>3. Total(chan[e]) \in Nat
  BY <1>2, BlocksType DEF Total
<1> QED
  BY <1>1, <1>3, SeqAssumption

\* The answer of a block makes its number count.
LEMMA CountedStep ==
    ASSUME TypeInv, SeqInv, NEW e \in Ends, NEW r \in Roles, job[e][r].pc = "result",
           raced' = raced, chan' = chan, Advances(e, r)
    PROVE  SeqInv'
<1>1. PICK o \in Ends : o = Other(e) /\ o # e
  BY OtherEnd
<1>2. Busy(e, r)
  BY BusyWorking DEF Working
<1>3. LockInv(e)' /\ AloneInv(e)'
  BY <1>2, ReleaseLocks
<1>4. ReaderSame(e)
  BY QuietSame DEF ReaderSame, Advances, Kept, Same
<1>5. \A x \in Roles : job'[o][x] = job[o][x]
  BY <1>1 DEF Advances, OnlyJob
<1>6. LockInv(Other(e))' /\ AloneInv(Other(e))' /\ Agreement(Other(e), e)'
  BY <1>1, <1>4, <1>5, OtherSide DEF Advances
<1>7. conn'[o] = conn[o] /\ chan'[o] = chan[o]
  BY <1>1 DEF Advances, OnlyConn
<1>8. ASSUME ~raced[e], ~conn[e].werr, conn[o].stream PROVE Continues(e, o)'
  <2>1. Continues(e, o)
    BY <1>1, <1>8 DEF SeqInv, Agreement
  <2>2. \A x \in Roles : x # r => job'[e][x] = job[e][x] /\ job[e][x].pc \notin Working
    BY <1>2, <1>8, NobodyElse DEF Advances, OnlyJob
  <2>3. job'[e][r].pc \notin Outs /\ (job'[e][r].pc = "send" => job'[e][r].seq = conn'[e].wseq)
    BY DEF Advances, Outs
  <2>4. Out(e) = 1
    BY DEF Out
  <2>5. Out(e)' = 0
    <3>1. ~\E x \in Roles : job'[e][x].pc \in Outs
      BY <2>2, <2>3 DEF Working, Outs
    <3> QED
      BY <3>1 DEF Out, Outs
  <2>6. \A x \in Roles : Ready(e, x)' => job'[e][x].seq = conn'[e].wseq
    BY <2>2, <2>3 DEF Ready, Working
  <2>7. (conn[e].wseq + 1) % SeqCount = (conn[o].seq + Total(chan[o])) % SeqCount
    BY <2>1, <2>4 DEF Continues
  <2>8. conn'[e].wseq = (conn[e].wseq + 1) % SeqCount
    BY DEF Advances, NextSeq
  <2>9. (conn'[e].wseq + 0) % SeqCount = (conn[e].wseq + 1) % SeqCount
    <3> DEFINE w == conn[e].wseq + 1
    <3>1. w \in Nat /\ SeqCount \in Nat \ {0}
      BY SeqNat
    <3>2. conn'[e].wseq = w % SeqCount
      BY <2>8
    <3> HIDE DEF w
    <3>3. ((w % SeqCount) + 0) % SeqCount = w % SeqCount
      BY <3>1, SeqRange
    <3> QED
      BY <3>2, <3>3 DEF w
  <2>10. (conn'[e].wseq + Out(e)') % SeqCount = (conn'[o].seq + Total(chan'[o])) % SeqCount
    BY <1>7, <2>5, <2>7, <2>9
  <2>11. Numbered(chan'[o], conn'[o].seq)
    BY <1>7, <2>1 DEF Continues
  <2> QED
    BY <2>6, <2>10, <2>11 DEF Continues, Numbered, Total, Blocks
<1>9. Agreement(e, o)'
  BY <1>7, <1>8 DEF Agreement, Advances
<1> QED
  BY <1>1, <1>3, <1>6, <1>9, BothSides

\* A block is sent, and its number counts at once or when it is answered.
LEMMA SentStep ==
    ASSUME TypeInv, SeqInv, NEW e \in Ends, NEW r \in Roles, Ready(e, r), raced' = raced,
           NEW m \in Stanzas, m.kind = "data", m.seq = job[e][r].seq, SendsOne(e, m),
           \/ conn' = conn /\ JobMoves(e, r) /\ job'[e][r].pc = "wait" /\ job'[e][r].op = job[e][r].op
           \/ Advances(e, r)
    PROVE  SeqInv'
<1>1. PICK o \in Ends : o = Other(e) /\ o # e
  BY OtherEnd
<1>2. Busy(e, r)
  BY BusyWorking DEF Working, Ready
<1>3. OnlyConn(e) /\ OnlyJob(e, r) /\ Same(conn'[e], conn[e]) /\ conn'[e].werr = conn[e].werr
  BY DEF OnlyConn, JobMoves, Advances, Same, Kept
<1>4. LockInv(e)' /\ AloneInv(e)'
  <2>1. CASE conn' = conn /\ JobMoves(e, r) /\ job'[e][r].op = job[e][r].op
    <3>1. LockInv(e) /\ AloneInv(e)
      BY DEF SeqInv
    <3>2. \A x \in Roles : Busy(e, x)' => Busy(e, x) /\ job'[e][x].op = job[e][x].op
      BY <2>1 DEF JobMoves, OnlyJob, Busy
    <3> QED
      BY <2>1, <3>1, <3>2, LocksKept
  <2>2. CASE Advances(e, r)
    BY <1>2, <2>2, ReleaseLocks
  <2> QED
    BY <2>1, <2>2
<1>5. ReaderSame(e)
  <2>1. chan'[e] = chan[e]
    BY <1>1 DEF SendsOne
  <2> QED
    BY <1>3, <2>1, QuietSame DEF ReaderSame, Same
<1>6. \A x \in Roles : job'[o][x] = job[o][x]
  BY <1>1, <1>3 DEF OnlyJob
<1>7. LockInv(Other(e))' /\ AloneInv(Other(e))' /\ Agreement(Other(e), e)'
  BY <1>1, <1>3, <1>5, <1>6, OtherSide
<1>8. conn'[o] = conn[o] /\ chan'[o] = Append(chan[o], m)
  BY <1>1, <1>3 DEF OnlyConn, SendsOne
<1>9. ASSUME ~raced[e], ~conn[e].werr, conn[o].stream PROVE Continues(e, o)'
  <2> DEFINE b == conn[o].seq
             t == Total(chan[o])
             w == conn[e].wseq
             q == chan[o]
  <2>1. Continues(e, o)
    BY <1>1, <1>9 DEF SeqInv, Agreement
  <2>2. \A x \in Roles : x # r => job'[e][x] = job[e][x] /\ job[e][x].pc \notin Working
    BY <1>2, <1>3, <1>9, NobodyElse DEF OnlyJob
  <2>3. /\ b \in Nat /\ t \in Nat /\ w \in Nat /\ SeqCount \in Nat \ {0} /\ w \in 0 .. SeqCount - 1
        /\ q \in Seq(Stanzas)
    BY SeqNat
  <2>4. Out(e) = 0
    <3>1. ~\E x \in Roles : job[e][x].pc \in Outs
      BY <2>2 DEF Ready, Working, Outs
    <3> QED
      BY <3>1 DEF Out, Outs
  <2>5. (w + 0) % SeqCount = (b + t) % SeqCount /\ m.seq = w /\ Numbered(q, b)
    BY <2>1, <2>4 DEF Continues
  <2>6. t = Blocks(q, Len(q))
    BY DEF Total
  <2> HIDE DEF b, t, w, q
  <2>7. w % SeqCount = (b + t) % SeqCount /\ m.seq = (b + t) % SeqCount /\ b + t \in Nat
    <3>1. (w + 0) % SeqCount = w /\ w % SeqCount = w
      BY <2>3, SeqRange
    <3>2. b + t \in Nat
      BY <2>3
    <3> QED
      BY <2>5, <3>1, <3>2
  <2>8. <<m>> \in Seq(Stanzas) /\ Total(<<m>>) = 1 /\ Numbered(<<m>>, b + t)
    BY <2>7, OneBlock
  <2>9. Append(q, m) = q \o <<m>>
    BY <2>3
  <2>10. Numbered(Append(q, m), b) /\ Total(Append(q, m)) = t + 1
    <3>1. Numbered(q \o <<m>>, b)
      BY <2>3, <2>5, <2>6, <2>8, NumberedJoined
    <3>2. Total(q \o <<m>>) = Total(q) + 1
      BY <2>3, <2>8, TotalJoined
    <3> QED
      BY <2>6, <2>9, <3>1, <3>2 DEF Total
  <2>11. (w + 1) % SeqCount = (b + (t + 1)) % SeqCount
    <3> DEFINE z == b + t
    <3>1. z \in Nat /\ w % SeqCount = z % SeqCount /\ 1 \in Nat
      BY <2>7
    <3> HIDE DEF z
    <3>2. (w + 1) % SeqCount = (z + 1) % SeqCount
      BY <2>3, <3>1, SeqAgree
    <3>3. z + 1 = b + (t + 1)
      BY <2>3 DEF z
    <3> QED
      BY <3>2, <3>3
  <2>12. (conn'[e].wseq + Out(e)') % SeqCount = (w + 1) % SeqCount
    <3>1. CASE conn' = conn /\ job'[e][r].pc = "wait"
      <4>1. Out(e)' = 1
        BY <3>1 DEF Out
      <4> QED
        BY <3>1, <4>1 DEF w
    <3>2. CASE Advances(e, r)
      <4>1. Out(e)' = 0
        <5>1. ~\E x \in Roles : job'[e][x].pc \in Outs
          BY <2>2, <3>2 DEF Working, Outs, Advances
        <5> QED
          BY <5>1 DEF Out, Outs
      <4> DEFINE v == w + 1
      <4>2. conn'[e].wseq = v % SeqCount
        BY <3>2 DEF Advances, NextSeq, w
      <4>3. v \in Nat
        BY <2>3
      <4> HIDE DEF v
      <4>4. ((v % SeqCount) + 0) % SeqCount = v % SeqCount
        BY <4>3, SeqRange
      <4> QED
        BY <4>1, <4>2, <4>4 DEF v
    <3> QED
      BY <3>1, <3>2
  <2>13. \A x \in Roles : Ready(e, x)' => job'[e][x].seq = conn'[e].wseq
    <3>1. job'[e][r].pc = "send" => job'[e][r].seq = conn'[e].wseq
      BY DEF Advances
    <3> QED
      BY <2>2, <3>1 DEF Ready, Working
  <2>14. Numbered(chan'[o], conn'[o].seq)
    BY <1>8, <2>10 DEF q, b
  <2>15. (conn'[e].wseq + Out(e)') % SeqCount = (conn'[o].seq + Total(chan'[o])) % SeqCount
    BY <1>8, <2>10, <2>11, <2>12 DEF q, b
  <2> QED
    BY <2>13, <2>14, <2>15 DEF Continues, Numbered, Total, Blocks
<1>10. Agreement(e, o)'
  BY <1>3, <1>8, <1>9 DEF Agreement
<1> QED
  BY <1>1, <1>4, <1>7, <1>10, BothSides

\* A block is taken: it has the number that is expected, if the ends agree.
LEMMA TakenStep ==
    ASSUME TypeInv, SeqInv, NEW e \in Ends, handlePayload(e)
    PROVE  SeqInv'
<1>1. PICK o \in Ends : o = Other(e) /\ o # e /\ Other(o) = e
  BY OtherEnd
<1>2. /\ chan[e] # <<>> /\ Head(chan[e]).kind = "data" /\ job' = job /\ raced' = raced
      /\ OnlyConn(e) /\ Writes(conn'[e], conn[e]) /\ conn'[e].stream = conn[e].stream
      /\ \E ms \in Seq(Answers) : Takes(e, ms)
      /\ \/ /\ ~conn[e].stream \/ Head(chan[e]).seq # conn[e].seq
            /\ conn'[e].seq = conn[e].seq
         \/ conn[e].stream /\ conn'[e].seq = NextSeq(conn[e].seq)
  BY PayloadFacts
<1>3. PICK ms \in Seq(Answers) : Takes(e, ms)
  BY <1>2
<1>4. conn'[o] = conn[o] /\ chan'[o] = chan[o] \o ms /\ chan'[e] = Tail(chan[e])
  BY <1>1, <1>2, <1>3 DEF OnlyConn, Takes
<1>5. \A x \in Ends : LockInv(x)' /\ AloneInv(x)'
  <2> SUFFICES ASSUME NEW x \in Ends PROVE LockInv(x)' /\ AloneInv(x)'
    OBVIOUS
  <2>1. conn'[x].lock = conn[x].lock
    BY <1>2 DEF OnlyConn, Writes
  <2>2. \A r \in Roles : Busy(x, r)' => Busy(x, r) /\ job'[x][r].op = job[x][r].op
    BY <1>2 DEF Busy
  <2> QED
    BY <1>2, <2>1, <2>2, LocksKept DEF SeqInv
<1>6. Agreement(e, o)'
  <2>1. WriterSame(e)
    BY <1>2, JobsSame DEF Writes
  <2>2. ReaderSame(o)
    BY <1>3, <1>4, QuietAnswers DEF ReaderSame
  <2> QED
    BY <1>1, <2>1, <2>2, AgreementKept DEF SeqInv
<1>7. ASSUME ~raced[o], ~conn[o].werr, conn[e].stream PROVE Continues(o, e)'
  <2> DEFINE b == conn[e].seq
             q == chan[e]
             w == conn[o].wseq
  <2>1. Continues(o, e)
    BY <1>1, <1>7 DEF SeqInv, Agreement
  <2>2. /\ b \in Nat /\ b \in 0 .. SeqCount - 1 /\ q \in Seq(Stanzas) /\ q # <<>>
        /\ Head(q).kind = "data" /\ Numbered(q, b) /\ SeqCount \in Nat \ {0}
    BY <1>2, <2>1, SeqNat DEF Continues
  <2> HIDE DEF b, q
  <2> DEFINE t == Tail(q)
             n == Total(t)
  <2>3. /\ t \in Seq(Stanzas) /\ n \in Nat /\ Head(q).seq = b % SeqCount
        /\ Numbered(t, b + 1) /\ Total(q) = 1 + n
    BY <2>2, NumberedTail
  <2>4. b % SeqCount = b
    BY <2>2, SeqRange
  <2>5. conn'[e].seq = (b + 1) % SeqCount
    <3>1. Head(chan[e]).seq = conn[e].seq
      BY <2>3, <2>4 DEF b, q
    <3> QED
      BY <1>2, <1>7, <3>1 DEF NextSeq, b
  <2> HIDE DEF t, n
  <2> DEFINE c == b + 1
             d == c % SeqCount
  <2>6. c \in Nat
    BY <2>2
  <2> HIDE DEF c
  <2>7. d \in Nat /\ d % SeqCount = c % SeqCount
    BY <2>2, <2>6
  <2> HIDE DEF d
  <2>8. Numbered(t, d)
    BY <2>3, <2>6, <2>7, NumberedWrap DEF c
  <2>9. (d + n) % SeqCount = (b + Total(q)) % SeqCount
    <3>1. (d + n) % SeqCount = (c + n) % SeqCount
      BY <2>3, <2>6, <2>7, SeqAgree
    <3>2. c + n = b + Total(q)
      BY <2>2, <2>3 DEF c
    <3> QED
      BY <3>1, <3>2
  <2>10. Out(o)' = Out(o) /\ \A r \in Roles : Ready(o, r)' => job'[o][r].seq = conn'[o].wseq
    BY <1>2, <1>4, <2>1 DEF Out, Ready, Continues
  <2>11. conn'[e].seq = d /\ chan'[e] = t /\ n = Total(t)
    BY <1>4, <2>5 DEF d, c, t, q, n
  <2>12. (conn'[o].wseq + Out(o)') % SeqCount = (conn'[e].seq + Total(chan'[e])) % SeqCount
    BY <1>4, <2>1, <2>9, <2>10, <2>11 DEF Continues, b, q
  <2> QED
    BY <2>8, <2>10, <2>11, <2>12 DEF Continues, Numbered, Total, Blocks
<1>8. Agreement(o, e)'
  BY <1>2, <1>4, <1>7 DEF Agreement
<1> QED
  BY <1>1, <1>5, <1>6, <1>8, BothSides

\* No answer is a block of data.
LEMMA AnswersNoData ==
    ASSUME NEW ms \in Seq(Answers)
    PROVE  \A i \in DOMAIN ms : ms[i].kind # "data"
BY DEF Answers

\* closeNoNotify numbers what it writes from where the last writer stopped,
\* and whoever is writing at that moment has raced.
LEMMA EverythingStep ==
    ASSUME TypeInv, SeqInv, NEW e \in Ends, chan[e] # <<>>, closeNoNotify(e)
    PROVE  SeqInv'
<1>1. PICK o \in Ends : o = Other(e) /\ o # e /\ Other(o) = e
  BY OtherEnd
<1>2. /\ job' = job /\ OnlyConn(e) /\ ~conn'[e].stream /\ conn'[e].lock = conn[e].lock
      /\ conn'[e].werr = conn[e].werr
      /\ \/ conn[e].werr /\ chan' = chan /\ raced' = raced
         \/ /\ ~conn[e].werr /\ Races(e, "none", Ops)
            /\ \E as \in Seq(Answers) : Takes(e, Numbers(conn[e]) \o as)
            /\ conn'[e].wseq = (conn[e].wseq + Len(Numbers(conn[e]))) % SeqCount
  BY CloseNoNotifyFacts
<1>3. \A x \in Ends : raced[x] => raced'[x]
  BY <1>2, RacesEffect
<1>4. \A x \in Ends : LockInv(x)' /\ AloneInv(x)'
  <2> SUFFICES ASSUME NEW x \in Ends PROVE LockInv(x)' /\ AloneInv(x)'
    OBVIOUS
  <2>1. conn'[x].lock = conn[x].lock
    BY <1>2 DEF OnlyConn
  <2>2. \A r \in Roles : Busy(x, r)' => Busy(x, r) /\ job'[x][r].op = job[x][r].op
    BY <1>2 DEF Busy
  <2> QED
    BY <1>3, <2>1, <2>2, LocksKept DEF SeqInv
<1>5. Agreement(o, e)'
  BY <1>2 DEF Agreement
<1>6. conn'[o] = conn[o]
  BY <1>1, <1>2 DEF OnlyConn
<1>7. ASSUME ~raced'[e], ~conn[e].werr, conn[o].stream PROVE Continues(e, o)'
  <2>1. PICK as \in Seq(Answers) : Takes(e, Numbers(conn[e]) \o as)
    BY <1>2, <1>7
  <2> DEFINE n == Numbers(conn[e])
             w == conn[e].wseq
             b == conn[o].seq
             q == chan[o]
             t == Total(q)
             l == Len(n)
  <2>2. Continues(e, o)
    BY <1>1, <1>3, <1>7 DEF SeqInv, Agreement
  <2>3. \A r \in Roles : ~Busy(e, r) /\ job[e][r].pc \notin Working
    <3>1. (\E x \in Roles \ {"none"} : Busy(e, x) /\ job[e][x].op \in Ops) => raced'[e]
      BY <1>2, <1>7, RacesEffect
    <3>2. "none" \notin Roles /\ \A x \in Roles : job[e][x].op \in Ops
      BY BusyWorking DEF Roles
    <3> QED
      BY <1>7, <3>1, <3>2, BusyWorking
  <2>4. Out(e) = 0 /\ Out(e)' = 0 /\ \A r \in Roles : ~Ready(e, r)'
    BY <1>2, <2>3 DEF Out, Ready, Working
  <2>5. /\ b \in Nat /\ t \in Nat /\ w \in Nat /\ w \in 0 .. SeqCount - 1 /\ q \in Seq(Stanzas)
        /\ SeqCount \in Nat \ {0}
    BY SeqNat
  <2>6. n \in Seq(Stanzas) /\ as \in Seq(Stanzas) /\ Total(n) = l /\ Numbered(n, w) /\ l \in Nat
    <3>1. params \in Streams /\ GoodConn(conn[e])
      BY EndTypes
    <3>2. n \in Seq(Stanzas) /\ Total(n) = Len(n) /\ Numbered(n, w)
      BY <3>1, NumbersTypes, AllBlocks
    <3>3. as \in Seq(Stanzas)
      BY AnswersAre
    <3> HIDE DEF n
    <3>4. l \in Nat
      BY <3>2, LenProperties
    <3> QED
      BY <3>2, <3>3, <3>4 DEF l
  <2>7. chan'[o] = q \o (n \o as)
    BY <1>1, <2>1 DEF Takes
  <2>8. (w + 0) % SeqCount = (b + t) % SeqCount /\ Numbered(q, b) /\ t = Blocks(q, Len(q))
    BY <2>2, <2>4 DEF Continues, Total
  <2>9. conn'[e].wseq = (w + l) % SeqCount
    BY <1>2, <1>7
  <2> HIDE DEF n, w, b, q, t, l
  <2> DEFINE z == b + t
             s == n \o as
  <2>10. z \in Nat /\ w % SeqCount = z % SeqCount
    <3>1. (w + 0) % SeqCount = w /\ w % SeqCount = w
      BY <2>5, SeqRange
    <3> QED
      BY <2>5, <2>8, <3>1
  <2>11. s \in Seq(Stanzas) /\ Total(s) = l
    <3>1. \A i \in DOMAIN as : as[i].kind # "data"
      BY AnswersNoData
    <3>2. Total(as) = 0
      BY <2>6, <3>1, NotBlocks
    <3>3. s \in Seq(Stanzas) /\ Total(s) = Total(n) + Total(as)
      BY <2>6, Joined, TotalJoined
    <3>4. l + 0 = l
      BY <2>6
    <3> QED
      BY <2>6, <3>2, <3>3, <3>4
  <2> HIDE DEF z
  <2>12. Numbered(s, z)
    <3>1. Numbered(n, z)
      BY <2>5, <2>6, <2>10, NumberedWrap
    <3>2. \A i \in DOMAIN as : as[i].kind # "data"
      BY AnswersNoData
    <3>3. Numbered(as, z + Blocks(n, Len(n)))
      BY <2>6, <3>2, NotBlocks
    <3> QED
      BY <2>6, <2>10, <3>1, <3>3, NumberedJoined
  <2> HIDE DEF s
  <2>13. chan'[o] = q \o s
    BY <2>7 DEF s
  <2>14. Numbered(q \o s, b)
    BY <2>5, <2>8, <2>11, <2>12, NumberedJoined DEF z
  <2>15. Total(q \o s) = t + l
    <3>1. Total(q \o s) = Total(q) + Total(s)
      BY <2>5, <2>11, TotalJoined
    <3> QED
      BY <2>11, <3>1 DEF t
  <2>16. (((w + l) % SeqCount) + 0) % SeqCount = (b + (t + l)) % SeqCount
    <3> DEFINE x == w + l
    <3>1. x \in Nat
      BY <2>5, <2>6
    <3>2. x % SeqCount = (z + l) % SeqCount
      BY <2>5, <2>6, <2>10, SeqAgree
    <3> HIDE DEF x
    <3>3. ((x % SeqCount) + 0) % SeqCount = x % SeqCount
      BY <3>1, SeqRange
    <3>4. z + l = b + (t + l)
      BY <2>5, <2>6 DEF z
    <3> QED
      BY <3>2, <3>3, <3>4 DEF x
  <2>17. (conn'[e].wseq + Out(e)') % SeqCount = (conn'[o].seq + Total(chan'[o])) % SeqCount
    BY <1>6, <2>4, <2>9, <2>13, <2>15, <2>16 DEF b
  <2>18. Numbered(chan'[o], conn'[o].seq)
    BY <1>6, <2>13, <2>14 DEF b
  <2> QED
    BY <2>4, <2>17, <2>18 DEF Continues, Numbered, Total, Blocks
<1>8. Agreement(e, o)'
  BY <1>2, <1>6, <1>7 DEF Agreement
<1> QED
  BY <1>1, <1>4, <1>5, <1>8, BothSides

\* A goroutine that is not writing goes on, and does not begin to write.
LEMMA IdleMoves ==
    ASSUME TypeInv, SeqInv, NEW e \in Ends, NEW r \in Roles, Calm(e), OnlyJob(e, r),
           job'[e][r].todo = <<>>, job[e][r].pc \notin Working, job'[e][r].pc \notin Working
    PROVE  SeqInv'
<1>1. ~Busy(e, r)'
  BY DEF Busy
<1>2. job'[e][r].pc \in Outs <=> job[e][r].pc \in Outs
  BY DEF Outs, Working
<1>3. ~Ready(e, r)'
  BY DEF Ready, Working
<1> QED
  BY <1>1, <1>2, <1>3, CalmStep

\* Such a goroutine has nothing to write.
LEMMA NothingToDo ==
    ASSUME TypeInv, NEW e \in Ends, NEW r \in Roles, job[e][r].pc \notin Working
    PROVE  job[e][r].todo = <<>>
BY BusyWorking DEF Busy

\* Where the connections are left alone and no channel is used.
LEMMA CalmSame ==
    ASSUME NEW e \in Ends, raced' = raced, chan' = chan, OnlyConn(e),
           Writes(conn'[e], conn[e]), conn'[e].seq = conn[e].seq,
           conn'[e].stream = conn[e].stream
    PROVE  Calm(e)
<1>1. Quiet(e) /\ Quiet(Other(e))
  BY QuietSame, OtherEnd
<1> QED
  BY <1>1 DEF Calm, Writes

\* Every step keeps the numbers in agreement.
LEMMA SeqStep ==
    ASSUME BaseInv, SeqInv, Next
    PROVE  SeqInv'
<1>1. TypeInv /\ HeadInv
  BY DEF BaseInv
<1>2. PICK e \in Ends :
             \/ Write(e) \/ Flush(e)
             \/ Close(e) \/ CloseSet(e) \/ CloseTail(e) \/ CloseNotify(e) \/ CloseTimeout(e)
             \/ CloseDone(e)
             \/ \E r \in Roles : Lock(e, r) \/ Send(e, r) \/ Answered(e, r) \/ Timeout(e, r)
             \/ Read(e) \/ Receive(e) \/ \E max \in Limits : SetReadBuffer(e, max)
             \/ handlePayload(e) \/ HandleClose(e) \/ closeNoNotify(e) \/ ServeAnswer(e)
  BY NextCases
<1>3. "writer" \in Roles /\ "closer" \in Roles /\ e \in Ends /\ Other(e) \in Ends /\ Other(e) # e
  BY OtherEnd DEF Roles
<1>4. ASSUME conn' = conn, chan' = chan, raced' = raced PROVE Calm(e)
  <2>1. OnlyConn(e) /\ Writes(conn'[e], conn[e])
    BY <1>4 DEF OnlyConn, Writes
  <2> QED
    BY <1>4, <2>1, CalmSame
<1>5. CASE Write(e) \/ Flush(e)
  <2>1. /\ JobMoves(e, "writer") /\ job[e]["writer"].pc = "idle" /\ job'[e]["writer"].pc = "lock"
        /\ conn' = conn /\ chan' = chan /\ raced' = raced
    BY <1>1, <1>5, BeginFacts
  <2>2. job'[e]["writer"].todo = <<>> /\ OnlyJob(e, "writer")
    BY <1>1, <1>3, <2>1, NothingToDo DEF Working, JobMoves
  <2> QED
    BY <1>1, <1>3, <1>4, <2>1, <2>2, IdleMoves DEF Working
<1>6. CASE Close(e)
  <2>1. /\ JobMoves(e, "closer") /\ job[e]["closer"].pc = "idle"
        /\ job'[e]["closer"].pc \in {"noop", "set"}
        /\ conn' = conn /\ chan' = chan /\ raced' = raced
    BY <1>1, <1>6, CloseFacts
  <2>2. job'[e]["closer"].todo = <<>> /\ OnlyJob(e, "closer")
    BY <1>1, <1>3, <2>1, NothingToDo DEF Working, JobMoves
  <2> QED
    BY <1>1, <1>3, <1>4, <2>1, <2>2, IdleMoves DEF Working
<1>7. CASE CloseSet(e)
  <2>1. /\ JobMoves(e, "closer") /\ job[e]["closer"].pc = "set" /\ job'[e]["closer"].pc = "lock"
        /\ OnlyConn(e) /\ conn'[e] = [conn[e] EXCEPT !.closed = TRUE]
        /\ chan' = chan /\ raced' = raced
    BY <1>1, <1>7, CloseSetFacts
  <2>2. conn[e] \in ConnType
    BY <1>1, EndTypes
  <2>3. Writes(conn'[e], conn[e]) /\ conn'[e].seq = conn[e].seq /\ conn'[e].stream = conn[e].stream
    BY <2>1, <2>2 DEF ConnType, Writes
  <2>4. Calm(e)
    BY <2>1, <2>3, CalmSame
  <2>5. job'[e]["closer"].todo = <<>> /\ OnlyJob(e, "closer")
    BY <1>1, <1>3, <2>1, NothingToDo DEF Working, JobMoves
  <2> QED
    BY <1>1, <1>3, <2>1, <2>4, <2>5, IdleMoves DEF Working
<1>8. CASE CloseTail(e)
  <2>1. /\ OnlyJob(e, "closer") /\ conn' = conn /\ job[e]["closer"].pc = "tail"
        /\ chan' = chan /\ Races(e, "closer", Ops)
        /\ \/ job'[e]["closer"].todo = <<>> /\ job'[e]["closer"].pc \in {"notify", "failed"}
           \/ /\ job'[e]["closer"].todo # <<>> /\ job'[e]["closer"].pc = "send"
              /\ job'[e]["closer"].op = "tail" /\ job'[e]["closer"].seq = conn[e].wseq
    BY <1>1, <1>8, CloseTailFacts
  <2>2. \A x \in Roles : Busy(e, x) /\ job[e][x].op # "tail" => conn'[e].lock = x
    BY <2>1 DEF SeqInv, LockInv
  <2>3. \A x \in Roles : job[e][x].op \in Ops
    BY <1>1, BusyWorking
  <2>4. OnlyConn(e)
    BY <2>1 DEF OnlyConn
  <2>5. job[e]["closer"].pc \notin Working
    BY <2>1 DEF Working
  <2>6. \/ job'[e]["closer"].todo = <<>> /\ job'[e]["closer"].pc \notin Working
        \/ job'[e]["closer"].todo # <<>> /\ job'[e]["closer"].pc = "send" /\ job'[e]["closer"].seq = conn[e].wseq
    BY <2>1 DEF Working
  <2> QED
    BY <1>1, <1>3, <2>1, <2>2, <2>3, <2>4, <2>5, <2>6, BeginsStep
<1>9. CASE CloseNotify(e)
  <2>1. /\ JobMoves(e, "closer") /\ job[e]["closer"].pc = "notify"
        /\ job'[e]["closer"].pc = "closewait" /\ conn' = conn /\ raced' = raced
        /\ \E m \in Stanzas : m.kind = "close" /\ SendsOne(e, m)
    BY <1>1, <1>9, CloseNotifyFacts
  <2>2. PICK m \in Stanzas : m.kind = "close" /\ SendsOne(e, m)
    BY <2>1
  <2>3. Quiet(Other(e))
    <3> DEFINE q == chan[Other(e)]
               ms == <<m>>
    <3>1. q \in Seq(Stanzas)
      BY <1>1, <1>3, EndTypes
    <3>2. ms \in Seq(Stanzas) /\ \A i \in DOMAIN ms : ms[i].kind # "data"
      BY <2>2
    <3>3. chan'[Other(e)] = Append(q, m)
      BY <2>2 DEF SendsOne
    <3> HIDE DEF q
    <3>4. chan'[Other(e)] = q \o ms
      BY <3>1, <3>3
    <3> HIDE DEF ms
    <3> QED
      BY <1>1, <1>3, <3>2, <3>4, QuietAdds DEF q
  <2>4. Quiet(e)
    BY <1>3, <2>2, QuietSame DEF SendsOne
  <2>5. Calm(e)
    BY <2>1, <2>3, <2>4 DEF Calm, OnlyConn
  <2>6. job'[e]["closer"].todo = <<>> /\ OnlyJob(e, "closer")
    BY <1>1, <1>3, <2>1, NothingToDo DEF Working, JobMoves
  <2> QED
    BY <1>1, <1>3, <2>1, <2>5, <2>6, IdleMoves DEF Working
<1>10. CASE CloseTimeout(e)
  <2>1. /\ OnlyJob(e, "closer") /\ job[e]["closer"].pc = "closewait"
        /\ job'[e]["closer"].pc = "failed" /\ job'[e]["closer"].todo = <<>>
        /\ conn' = conn /\ chan' = chan /\ raced' = raced
    BY <1>1, <1>10, CloseTimeoutFacts
  <2> QED
    BY <1>1, <1>3, <1>4, <2>1, IdleMoves DEF Working
<1>11. CASE CloseDone(e)
  <2>1. /\ JobMoves(e, "closer") /\ job[e]["closer"].pc = "closed" /\ job'[e]["closer"].pc = "done"
        /\ OnlyConn(e) /\ Writes(conn'[e], conn[e]) /\ conn'[e].seq = conn[e].seq
        /\ conn'[e].stream = conn[e].stream /\ chan' = chan /\ raced' = raced
    BY <1>1, <1>11, CloseDoneFacts
  <2>2. job'[e]["closer"].todo = <<>> /\ OnlyJob(e, "closer")
    BY <1>1, <1>3, <2>1, NothingToDo DEF Working, JobMoves
  <2> QED
    BY <1>1, <1>3, <2>1, <2>2, CalmSame, IdleMoves DEF Working
<1>12. ASSUME NEW r \in Roles, Lock(e, r) PROVE SeqInv'
  <2>1. /\ OnlyConn(e) /\ OnlyJob(e, r) /\ Kept(e)
        /\ conn'[e].wseq = conn[e].wseq /\ conn'[e].werr = conn[e].werr
        /\ chan' = chan /\ job[e][r].pc = "lock" /\ conn[e].lock = "none" /\ Races(e, r, {"tail"})
        /\ \/ /\ job'[e][r].todo = <<>> /\ job'[e][r].pc \in {"idle", "tail", "notify", "failed"}
           \/ /\ job'[e][r].todo # <<>> /\ job'[e][r].pc = "send"
              /\ job'[e][r].seq = conn[e].wseq /\ conn'[e].lock = r
    BY <1>1, <1>12, LockFacts
  <2>2. conn'[e].seq = conn[e].seq /\ conn'[e].stream = conn[e].stream
    BY <2>1 DEF Kept, Same
  <2>3. \A x \in Roles : Busy(e, x) => job[e][x].op = "tail"
    BY <2>1 DEF SeqInv, LockInv, Roles
  <2>4. job[e][r].pc \notin Working
    BY <2>1 DEF Working
  <2>5. \/ job'[e][r].todo = <<>> /\ job'[e][r].pc \notin Working
        \/ job'[e][r].todo # <<>> /\ job'[e][r].pc = "send" /\ job'[e][r].seq = conn[e].wseq
    BY <2>1 DEF Working
  <2>6. \A x \in Roles : Busy(e, x) => job[e][x].op \in {"tail"}
    BY <2>3
  <2> QED
    BY <1>1, <1>12, <2>1, <2>2, <2>3, <2>4, <2>5, <2>6, BeginsStep
<1>13. ASSUME NEW r \in Roles, Send(e, r) PROVE SeqInv'
  <2>1. /\ job[e][r].pc = "send" /\ raced' = raced
        /\ \/ job[e][r].stale /\ chan' = chan /\ Breaks(e, r)
           \/ /\ ~job[e][r].stale
              /\ \E m \in Stanzas : m.kind = "data" /\ m.seq = job[e][r].seq /\ SendsOne(e, m)
              /\ \/ conn' = conn /\ JobMoves(e, r) /\ job'[e][r].pc = "wait"
                      /\ job'[e][r].op = job[e][r].op
                 \/ Advances(e, r)
    BY <1>1, <1>13, SendFacts
  <2>2. CASE chan' = chan /\ Breaks(e, r)
    <3>1. Busy(e, r)
      BY <1>1, <2>1, BusyWorking DEF Working
    <3> QED
      BY <1>1, <2>1, <2>2, <3>1, BreaksStep
  <2>3. CASE ~job[e][r].stale
    <3>1. Ready(e, r)
      BY <2>1, <2>3 DEF Ready
    <3> QED
      BY <1>1, <2>1, <2>3, <3>1, SentStep
  <2> QED
    BY <2>1, <2>2, <2>3
<1>14. ASSUME NEW r \in Roles, Answered(e, r) \/ Timeout(e, r) PROVE SeqInv'
  <2>1. /\ raced' = raced /\ chan' = chan
        /\ \/ job[e][r].pc = "result" /\ Advances(e, r)
           \/ job[e][r].pc \in {"error", "wait"} /\ Breaks(e, r)
    BY <1>1, <1>14, AnsweredFacts, TimeoutFacts
  <2>2. CASE job[e][r].pc = "result" /\ Advances(e, r)
    BY <1>1, <2>1, <2>2, CountedStep
  <2>3. CASE job[e][r].pc \in {"error", "wait"} /\ Breaks(e, r)
    <3>1. Busy(e, r)
      BY <1>1, <2>3, BusyWorking DEF Working
    <3> QED
      BY <1>1, <2>1, <2>3, <3>1, BreaksStep
  <2> QED
    BY <2>1, <2>2, <2>3
<1>15. CASE Read(e)
  <2>1. /\ OnlyConn(e) /\ Writes(conn'[e], conn[e]) /\ conn'[e].seq = conn[e].seq
        /\ conn'[e].stream = conn[e].stream /\ job' = job /\ chan' = chan /\ raced' = raced
    BY <1>1, <1>15, ReadFacts
  <2> QED
    BY <1>1, <2>1, CalmSame, CalmStep
<1>16. CASE Receive(e)
  <2>1. conn' = conn /\ job' = job /\ chan' = chan /\ raced' = raced
    BY <1>1, <1>16, ReceiveFacts
  <2> QED
    BY <1>1, <1>4, <2>1, CalmStep
<1>17. ASSUME NEW max \in Limits, SetReadBuffer(e, max) PROVE SeqInv'
  <2>1. /\ OnlyConn(e) /\ Writes(conn'[e], conn[e]) /\ conn'[e].seq = conn[e].seq
        /\ conn'[e].stream = conn[e].stream /\ job' = job /\ chan' = chan /\ raced' = raced
    BY <1>1, <1>17, SetReadBufferFacts
  <2> QED
    BY <1>1, <2>1, CalmSame, CalmStep
<1>18. CASE handlePayload(e)
  BY <1>1, <1>18, TakenStep
<1>19. CASE HandleClose(e)
  <2>1. /\ chan[e] # <<>> /\ Head(chan[e]).kind = "close" /\ job' = job /\ raced' = raced /\ conn' = conn
        /\ chan' = chan \/ \E ms \in Seq(Answers) : Takes(e, ms)
    BY <1>1, <1>19, HandleCloseFacts
  <2>2. CASE chan' = chan
    BY <1>1, <1>4, <2>1, <2>2, CalmStep
  <2>3. CASE \E ms \in Seq(Answers) : Takes(e, ms)
    <3>1. PICK ms \in Seq(Answers) : Takes(e, ms)
      BY <2>3
    <3>2. Quiet(e)
      BY <1>1, <2>1, <3>1, QuietTakes DEF Takes
    <3>3. Quiet(Other(e))
      BY <1>1, <1>3, <3>1, QuietAnswers DEF Takes
    <3>4. Calm(e)
      BY <2>1, <3>2, <3>3 DEF Calm, OnlyConn
    <3> QED
      BY <1>1, <2>1, <3>4, CalmStep
  <2> QED
    BY <2>1, <2>2, <2>3
<1>20. CASE closeNoNotify(e)
  <2>1. serve[e] = "closing"
    BY <1>20 DEF closeNoNotify
  <2>2. chan[e] # <<>>
    BY <1>1, <2>1 DEF HeadInv
  <2> QED
    BY <1>1, <1>20, <2>2, EverythingStep
<1>21. CASE ServeAnswer(e)
  <2>1. /\ chan[e] # <<>> /\ Head(chan[e]) \in Answers /\ raced' = raced /\ conn' = conn
        /\ Takes(e, <<>>)
        /\ \/ job' = job
           \/ \E r \in Roles :
                 /\ JobMoves(e, r) /\ job'[e][r].op = job[e][r].op
                 /\ \/ job[e][r].pc = "wait" /\ job'[e][r].pc \in {"result", "error"}
                    \/ job[e][r].pc = "closewait" /\ job'[e][r].pc = "closed" /\ r = "closer"
    BY <1>1, <1>21, ServeAnswerFacts
  <2>2. Quiet(e)
    BY <1>1, <2>1, QuietTakes DEF Takes, Answers
  <2>3. Quiet(Other(e))
    <3>1. <<>> \in Seq(Answers)
      OBVIOUS
    <3> QED
      BY <1>1, <1>3, <2>1, <3>1, QuietAnswers DEF Takes
  <2>4. Calm(e)
    BY <2>1, <2>2, <2>3 DEF Calm, OnlyConn
  <2>5. CASE job' = job
    BY <1>1, <2>4, <2>5, CalmStep
  <2>6. ASSUME NEW r \in Roles, JobMoves(e, r), job'[e][r].op = job[e][r].op,
               \/ job[e][r].pc = "wait" /\ job'[e][r].pc \in {"result", "error"}
               \/ job[e][r].pc = "closewait" /\ job'[e][r].pc = "closed"
        PROVE  SeqInv'
    <3>1. OnlyJob(e, r) /\ (Busy(e, r)' => Busy(e, r))
      BY <2>6 DEF JobMoves, Busy
    <3>2. job'[e][r].pc \in Outs <=> job[e][r].pc \in Outs
      BY <2>6 DEF Outs
    <3>3. ~Ready(e, r)'
      BY <2>6 DEF Ready
    <3> QED
      BY <1>1, <2>4, <2>6, <3>1, <3>2, <3>3, CalmStep
  <2> QED
    BY <2>1, <2>5, <2>6
<1> QED
  BY <1>2, <1>5, <1>6, <1>7, <1>8, <1>9, <1>10, <1>11, <1>12, <1>13, <1>14, <1>15, <1>16,
     <1>17, <1>18, <1>19, <1>20, <1>21

\* Both ends begin with the same number and nothing under way.
LEMMA SeqInit ==
    ASSUME Init
    PROVE  SeqInv
<1>1. SUFFICES ASSUME NEW e \in Ends, NEW o \in Ends, o = Other(e)
               PROVE  LockInv(e) /\ AloneInv(e) /\ Agreement(e, o)
  BY OtherEnd DEF SeqInv
<1>2. \A r \in Roles : job[e][r].todo = <<>> /\ job[e][r].pc = "idle"
  BY DEF Init
<1>3. conn[e].wseq = FirstSeq /\ conn[o].seq = FirstSeq /\ chan[o] = <<>>
  BY DEF Init
<1>4. LockInv(e) /\ AloneInv(e)
  BY <1>2 DEF LockInv, AloneInv, Busy, Roles
<1>5. Out(e) = 0 /\ \A r \in Roles : ~Ready(e, r)
  BY <1>2 DEF Out, Ready
<1>6. Total(chan[o]) = 0 /\ Numbered(chan[o], FirstSeq)
  <2>1. <<>> \in Seq(Stanzas) /\ DOMAIN <<>> = {}
    OBVIOUS
  <2>2. FirstSeq \in Nat
    BY SeqAssumption
  <2> QED
    BY <1>3, <2>1, <2>2, NotBlocks
<1>7. Continues(e, o)
  BY <1>3, <1>5, <1>6 DEF Continues
<1> QED
  BY <1>4, <1>7 DEF Agreement

\* (Stuttering.)
LEMMA SeqStutter ==
    ASSUME TypeInv, SeqInv, UNCHANGED vars
    PROVE  SeqInv'
<1>1. conn' = conn /\ job' = job /\ chan' = chan /\ raced' = raced
  BY DEF vars, ghostVars
<1>2. PICK e \in Ends : TRUE
  BY DEF Ends
<1>3. OnlyConn(e) /\ Writes(conn'[e], conn[e])
  BY <1>1 DEF OnlyConn, Writes
<1>4. Calm(e)
  BY <1>1, <1>3, CalmSame
<1> QED
  BY <1>1, <1>4, CalmStep

\* stanzaWriter.Write and handlePayload (ibb/) count blocks alike: while no
\* write has failed and nobody has raced for the encoder, each block that is
\* under way has the number its receiver expects, counting the blocks before
\* it.  So it is for every number of sequence numbers, over their wrapping, for
\* refused blocks, and while either end or both are closing.
THEOREM NumbersAgree == Spec => []SeqAgrees
<1>1. Init => BaseInv /\ SeqInv
  BY BaseInit, SeqInit
<1>2. BaseInv /\ SeqInv /\ [Next]_vars => BaseInv' /\ SeqInv'
  BY BaseStep, BaseStutter, SeqStep, SeqStutter DEF BaseInv
<1>3. SeqInv => SeqAgrees
  <2> SUFFICES ASSUME SeqInv, NEW e \in Ends, ~raced[Other(e)], ~conn[Other(e)].werr, conn[e].stream
               PROVE  \A i \in DOMAIN chan[e] : chan[e][i].kind = "data" =>
                        chan[e][i].seq = (conn[e].seq + Blocks(chan[e], i - 1)) % SeqCount
    BY DEF SeqAgrees
  <2>1. PICK o \in Ends : o = Other(e) /\ Other(o) = e
    BY OtherEnd
  <2>2. Continues(o, e)
    BY <2>1 DEF SeqInv, Agreement
  <2> QED
    BY <2>2 DEF Continues, Numbered
<1> QED
  BY <1>1, <1>2, <1>3, PTL DEF Spec

----------------------------------------------------------------------------
(* Closing: what Close has asked for and what it was answered.             *)

\* Where the Close of e is.
CPc(e) == job[e]["closer"].pc
\* What Close asks the other end, and what it is answered.
Asks == {m \in Stanzas : m.by = "closer" /\ m.kind \in {"data", "close"}}
Backs == {m \in Stanzas : m.by = "closer" /\ m.kind \in {"result", "error"}}
Closings == {m \in Stanzas : m.kind = "close"}
NoneIn(q, S) == \A i \in DOMAIN q : q[i] \notin S
OnceIn(q, S) == \A i, k \in DOMAIN q : q[i] \in S /\ q[k] \in S => i = k

\* Close at p has at most one question out, in a, or its answer, in b; while it
\* waits for the answer of a block that is one, and then it is the close.
Flight(p, a, b) ==
    /\ NoneIn(a, Closings \ Asks)
    /\ p \notin {"wait", "closewait", "failed"} => NoneIn(a, Asks) /\ NoneIn(b, Backs)
    /\ p \in {"wait", "closewait"} => /\ OnceIn(a, Asks) /\ OnceIn(b, Backs)
                                      /\ NoneIn(a, Asks) \/ NoneIn(b, Backs)
    /\ p = "wait" => NoneIn(a, Closings)
    /\ p = "closewait" => NoneIn(a, Asks \ Closings)
FlightInv == \A e \in Ends : Flight(CPc(e), chan[Other(e)], chan[e])

\* The first of a sequence and the rest.
LEMMA TailIn ==
    ASSUME NEW q \in Seq(Stanzas), q # <<>>, NEW S
    PROVE  /\ Tail(q) \in Seq(Stanzas)
           /\ NoneIn(q, S) => NoneIn(Tail(q), S) /\ Head(q) \notin S
           /\ OnceIn(q, S) => OnceIn(Tail(q), S) /\ (Head(q) \in S => NoneIn(Tail(q), S))
<1>1. /\ Head(q) = q[1] /\ 1 \in DOMAIN q /\ Tail(q) \in Seq(Stanzas)
      /\ \A i \in DOMAIN Tail(q) : i + 1 \in DOMAIN q /\ Tail(q)[i] = q[i + 1] /\ i + 1 # 1
      /\ \A i \in DOMAIN Tail(q) : i \in Nat
  OBVIOUS
<1>2. NoneIn(q, S) => NoneIn(Tail(q), S) /\ Head(q) \notin S
  BY <1>1 DEF NoneIn
<1>3. OnceIn(q, S) => OnceIn(Tail(q), S)
  <2> SUFFICES ASSUME OnceIn(q, S), NEW i \in DOMAIN Tail(q), NEW k \in DOMAIN Tail(q),
                      Tail(q)[i] \in S, Tail(q)[k] \in S
               PROVE  i = k
    BY DEF OnceIn
  <2>1. i + 1 = k + 1
    BY <1>1 DEF OnceIn
  <2> QED
    BY <1>1, <2>1
<1>4. OnceIn(q, S) /\ Head(q) \in S => NoneIn(Tail(q), S)
  BY <1>1 DEF OnceIn, NoneIn
<1> QED
  BY <1>1, <1>2, <1>3, <1>4

\* One sequence after another.
LEMMA JoinedIn ==
    ASSUME NEW q \in Seq(Stanzas), NEW ms \in Seq(Stanzas), NEW S
    PROVE  /\ q \o ms \in Seq(Stanzas)
           /\ NoneIn(q \o ms, S) <=> NoneIn(q, S) /\ NoneIn(ms, S)
           /\ OnceIn(q, S) /\ NoneIn(ms, S) => OnceIn(q \o ms, S)
           /\ NoneIn(q, S) /\ OnceIn(ms, S) => OnceIn(q \o ms, S)
<1> DEFINE n == Len(q)
           l == Len(ms)
           s == q \o ms
<1>1. /\ n \in Nat /\ l \in Nat /\ s \in Seq(Stanzas) /\ DOMAIN s = 1 .. n + l
      /\ DOMAIN q = 1 .. n /\ DOMAIN ms = 1 .. l
      /\ \A i \in 1 .. n : s[i] = q[i]
      /\ \A i \in 1 .. l : s[n + i] = ms[i]
  OBVIOUS
<1> HIDE DEF n, l, s
<1>2. \A i \in DOMAIN s : \/ i \in DOMAIN q /\ s[i] = q[i]
                          \/ i - n \in DOMAIN ms /\ s[i] = ms[i - n] /\ i \in Nat
  <2> SUFFICES ASSUME NEW i \in DOMAIN s, i \notin DOMAIN q
               PROVE  i - n \in DOMAIN ms /\ s[i] = ms[i - n] /\ i \in Nat
    BY <1>1
  <2>1. i - n \in 1 .. l /\ n + (i - n) = i /\ i \in Nat
    BY <1>1
  <2> QED
    BY <1>1, <2>1
<1>3. \A i \in DOMAIN q : i \in DOMAIN s /\ s[i] = q[i]
  BY <1>1
<1>4. \A i \in DOMAIN ms : n + i \in DOMAIN s /\ s[n + i] = ms[i]
  BY <1>1
<1>5. NoneIn(s, S) => NoneIn(q, S) /\ NoneIn(ms, S)
  BY <1>3, <1>4 DEF NoneIn
<1>6. NoneIn(q, S) /\ NoneIn(ms, S) => NoneIn(s, S)
  BY <1>2 DEF NoneIn
<1>7. OnceIn(q, S) /\ NoneIn(ms, S) => OnceIn(s, S)
  BY <1>2 DEF NoneIn, OnceIn
<1>8. NoneIn(q, S) /\ OnceIn(ms, S) => OnceIn(s, S)
  <2> SUFFICES ASSUME NoneIn(q, S), OnceIn(ms, S), NEW i \in DOMAIN s, NEW k \in DOMAIN s,
                      s[i] \in S, s[k] \in S
               PROVE  i = k
    BY DEF OnceIn
  <2>1. i - n \in DOMAIN ms /\ ms[i - n] \in S /\ k - n \in DOMAIN ms /\ ms[k - n] \in S
        /\ i \in Nat /\ k \in Nat
    BY <1>2 DEF NoneIn
  <2>2. i - n = k - n
    BY <2>1 DEF OnceIn
  <2> QED
    BY <1>1, <2>1, <2>2
<1> QED
  BY <1>1, <1>5, <1>6, <1>7, <1>8 DEF s

\* A single stanza.
LEMMA SingleIn ==
    ASSUME NEW m \in Stanzas, NEW S
    PROVE  /\ <<m>> \in Seq(Stanzas) /\ OnceIn(<<m>>, S) /\ (NoneIn(<<m>>, S) <=> m \notin S)
           /\ NoneIn(<<>>, S)
<1>1. <<m>> \in Seq(Stanzas) /\ DOMAIN <<m>> = {1} /\ <<m>>[1] = m /\ DOMAIN <<>> = {}
  OBVIOUS
<1> QED
  BY <1>1 DEF NoneIn, OnceIn

\* Close goes on and asks nothing.
LEMMA FlightGoes ==
    ASSUME NEW p, NEW z, NEW a, NEW b, Flight(p, a, b),
           \/ z = p \/ z = "failed"
           \/ z \notin {"wait", "closewait"} /\ p \notin {"wait", "closewait", "failed"}
    PROVE  Flight(z, a, b)
BY DEF Flight

\* Stanzas that ask nothing for Close are sent, and some that answer nothing arrive.
LEMMA FlightAdds ==
    ASSUME NEW p, NEW a \in Seq(Stanzas), NEW b \in Seq(Stanzas), Flight(p, a, b),
           NEW ms \in Seq(Stanzas)
    PROVE  /\ NoneIn(ms, Asks) /\ NoneIn(ms, Closings) => Flight(p, a \o ms, b)
           /\ NoneIn(ms, Backs) => Flight(p, a, b \o ms)
<1>1. ASSUME NoneIn(ms, Asks), NoneIn(ms, Closings)
      PROVE  Flight(p, a \o ms, b)
  <2> DEFINE c == a \o ms
  <2>1. NoneIn(ms, Closings \ Asks) /\ NoneIn(ms, Asks \ Closings)
    BY <1>1 DEF NoneIn
  <2>2. /\ NoneIn(a, Asks) => NoneIn(c, Asks)
        /\ NoneIn(a, Closings) => NoneIn(c, Closings)
        /\ NoneIn(a, Closings \ Asks) => NoneIn(c, Closings \ Asks)
        /\ NoneIn(a, Asks \ Closings) => NoneIn(c, Asks \ Closings)
    <3>1. ASSUME NEW S, NoneIn(ms, S) PROVE NoneIn(a, S) => NoneIn(c, S)
      BY <3>1, JoinedIn
    <3> QED
      BY <1>1, <2>1, <3>1
  <2>3. OnceIn(a, Asks) => OnceIn(c, Asks)
    BY <1>1, JoinedIn
  <2> HIDE DEF c
  <2>4. Flight(p, c, b)
    BY <2>2, <2>3 DEF Flight
  <2> QED
    BY <2>4 DEF c
<1>2. ASSUME NoneIn(ms, Backs) PROVE Flight(p, a, b \o ms)
  <2> DEFINE c == b \o ms
  <2>1. (NoneIn(b, Backs) => NoneIn(c, Backs)) /\ (OnceIn(b, Backs) => OnceIn(c, Backs))
    BY <1>2, JoinedIn
  <2> HIDE DEF c
  <2>2. Flight(p, a, c)
    BY <2>1 DEF Flight
  <2> QED
    BY <2>2 DEF c
<1> QED
  BY <1>1, <1>2

\* Close asks.
LEMMA FlightAsks ==
    ASSUME NEW p, p \notin {"wait", "closewait", "failed"}, NEW z,
           NEW a \in Seq(Stanzas), NEW b \in Seq(Stanzas), Flight(p, a, b),
           NEW m \in Asks, \/ z = "wait" /\ m.kind = "data"
                           \/ z = "closewait" /\ m.kind = "close"
    PROVE  Flight(z, a \o <<m>>, b)
<1>1. NoneIn(a, Asks) /\ NoneIn(b, Backs) /\ NoneIn(a, Closings \ Asks) /\ m \in Stanzas
  BY DEF Flight, Asks
<1>2. NoneIn(a, Closings) /\ NoneIn(a, Asks \ Closings) /\ OnceIn(b, Backs)
  BY <1>1 DEF NoneIn, OnceIn
<1>3. m \notin Closings \ Asks /\ (z = "wait" => m \notin Closings)
      /\ (z = "closewait" => m \notin Asks \ Closings)
  BY DEF Asks, Closings
<1> DEFINE c == a \o <<m>>
<1>4. OnceIn(c, Asks)
  BY <1>1, SingleIn, JoinedIn
<1>5. NoneIn(c, Closings \ Asks) /\ (z = "wait" => NoneIn(c, Closings))
      /\ (z = "closewait" => NoneIn(c, Asks \ Closings))
  <2>1. ASSUME NEW S, NoneIn(a, S), m \notin S PROVE NoneIn(c, S)
    BY <1>1, <2>1, SingleIn, JoinedIn
  <2> HIDE DEF c
  <2> QED
    BY <1>1, <1>2, <1>3, <2>1
<1> HIDE DEF c
<1>6. Flight(z, c, b)
  BY <1>1, <1>2, <1>4, <1>5 DEF Flight
<1> QED
  BY <1>6 DEF c

\* A stanza for this end is taken; if it is the answer, Close goes on.
LEMMA FlightTakes ==
    ASSUME NEW p, NEW a \in Seq(Stanzas), NEW b \in Seq(Stanzas), Flight(p, a, b), b # <<>>
    PROVE  /\ Flight(p, a, Tail(b))
           /\ p \in {"wait", "closewait"} /\ Head(b) \in Backs =>
                \A z : z \notin {"wait", "closewait"} => Flight(z, a, Tail(b))
<1>1. /\ NoneIn(b, Backs) => NoneIn(Tail(b), Backs) /\ Head(b) \notin Backs
      /\ OnceIn(b, Backs) => OnceIn(Tail(b), Backs) /\ (Head(b) \in Backs => NoneIn(Tail(b), Backs))
  BY TailIn
<1> DEFINE c == Tail(b)
           h == Head(b)
<1> HIDE DEF c, h
<1>2. /\ NoneIn(b, Backs) => NoneIn(c, Backs) /\ h \notin Backs
      /\ OnceIn(b, Backs) => OnceIn(c, Backs) /\ (h \in Backs => NoneIn(c, Backs))
  BY <1>1 DEF c, h
<1>3. Flight(p, a, c)
  BY <1>2 DEF Flight
<1>4. ASSUME p \in {"wait", "closewait"}, h \in Backs, NEW z, z \notin {"wait", "closewait"}
      PROVE  Flight(z, a, c)
  BY <1>2, <1>4 DEF Flight
<1> QED
  BY <1>3, <1>4 DEF c, h

\* The other end takes a stanza and answers it, behind stanzas that answer nothing.
LEMMA FlightEchoes ==
    ASSUME NEW p, NEW a \in Seq(Stanzas), NEW b \in Seq(Stanzas), Flight(p, a, b), a # <<>>,
           NEW n \in Seq(Stanzas), NoneIn(n, Backs), NEW ms \in Seq(Answers), Echoes(ms, Head(a)),
           Head(a).kind \in {"data", "close"}
    PROVE  Flight(p, Tail(a), b \o (n \o ms))
<1> DEFINE c == Tail(a)
           h == Head(a)
<1>1. \A S : /\ NoneIn(a, S) => NoneIn(c, S) /\ h \notin S
             /\ OnceIn(a, S) => OnceIn(c, S) /\ (h \in S => NoneIn(c, S))
  BY TailIn
<1>2. h \in Stanzas /\ ms \in Seq(Stanzas) /\ h.kind \in {"data", "close"}
  BY AnswersAre
<1>3. c \in Seq(Stanzas) /\ Echoes(ms, h)
  OBVIOUS
<1> HIDE DEF c, h
<1>4. h \notin Asks => NoneIn(ms, Backs)
  BY <1>2, <1>3 DEF Asks, Backs, Echoes, NoneIn
<1>5. OnceIn(ms, Backs)
  <2>1. Len(ms) \in Nat /\ DOMAIN ms = 1 .. Len(ms) /\ Len(ms) <= 1
    BY <1>2, <1>3 DEF Echoes
  <2>2. \A i, k \in DOMAIN ms : i = k
    BY <2>1
  <2> QED
    BY <2>2 DEF OnceIn
<1> DEFINE d == n \o ms
<1>6. d \in Seq(Stanzas) /\ OnceIn(d, Backs) /\ (h \notin Asks => NoneIn(d, Backs))
  BY <1>2, <1>4, <1>5, JoinedIn
<1> HIDE DEF d
<1>7. Flight(p, c, b)
  BY <1>1 DEF Flight
<1>8. CASE h \notin Asks
  BY <1>3, <1>6, <1>7, <1>8, FlightAdds DEF c, d
<1>9. CASE h \in Asks
  <2>1. p \in {"wait", "closewait", "failed"}
    BY <1>1, <1>9 DEF Flight
  <2>2. p # "failed" => NoneIn(c, Asks) /\ NoneIn(b, Backs)
    BY <1>1, <1>9, <2>1 DEF Flight
  <2> DEFINE g == b \o d
  <2>3. NoneIn(b, Backs) => OnceIn(g, Backs)
    BY <1>6, JoinedIn
  <2> HIDE DEF g
  <2>4. OnceIn(c, Asks) \/ p = "failed"
    BY <2>2 DEF OnceIn, NoneIn
  <2>5. Flight(p, c, g)
    BY <1>7, <2>1, <2>2, <2>3, <2>4 DEF Flight
  <2> QED
    BY <2>5 DEF c, g, d
<1> QED
  BY <1>8, <1>9

\* Where Close may go on to without asking.
GoesOn(p, z) ==
    \/ z = p \/ z = "failed"
    \/ z \notin {"wait", "closewait"} /\ p \notin {"wait", "closewait", "failed"}

\* A goroutine of the other end is not touched; of this end, the one that writes.
LEMMA OtherClosers ==
    ASSUME NEW e \in Ends, NEW r \in Roles, OnlyJob(e, r)
    PROVE  /\ job'[Other(e)]["closer"] = job[Other(e)]["closer"] /\ CPc(Other(e))' = CPc(Other(e))
           /\ r = "writer" => job'[e]["closer"] = job[e]["closer"] /\ CPc(e)' = CPc(e)
           /\ CPc(e)' = job'[e]["closer"].pc
<1>1. "closer" \in Roles /\ "closer" # "writer" /\ Other(e) \in Ends /\ Other(e) # e
  BY OtherEnd DEF Roles
<1> QED
  BY <1>1 DEF OnlyJob, CPc

\* Both ends together.
LEMMA FlightBoth ==
    ASSUME NEW e \in Ends, Flight(CPc(e)', chan'[Other(e)], chan'[e]),
           Flight(CPc(Other(e))', chan'[e], chan'[Other(e)])
    PROVE  FlightInv'
<1>1. SUFFICES ASSUME NEW x \in Ends PROVE Flight(CPc(x)', chan'[Other(x)], chan'[x])
  BY DEF FlightInv, Flight, NoneIn, OnceIn
<1>2. x = e \/ x = Other(e)
  BY OtherEnd
<1>3. x = Other(e) => Other(x) = e
  BY OtherEnd
<1> QED
  BY <1>2, <1>3

\* Nothing is sent or taken.
LEMMA FlightStill ==
    ASSUME FlightInv, NEW e \in Ends, chan' = chan, CPc(Other(e))' = CPc(Other(e)),
           GoesOn(CPc(e), CPc(e)')
    PROVE  FlightInv'
<1>1. PICK o \in Ends : o = Other(e) /\ Other(o) = e
  BY OtherEnd
<1>2. Flight(CPc(e), chan[o], chan[e]) /\ Flight(CPc(o), chan[e], chan[o])
  BY <1>1 DEF FlightInv
<1>3. PICK p, z : p = CPc(e) /\ z = CPc(e)'
  OBVIOUS
<1>4. Flight(z, chan[o], chan[e])
  BY <1>2, <1>3, FlightGoes DEF GoesOn
<1> QED
  BY <1>1, <1>2, <1>3, <1>4, FlightBoth

\* One stanza is sent.
LEMMA FlightSent ==
    ASSUME TypeInv, FlightInv, NEW e \in Ends, CPc(Other(e))' = CPc(Other(e)),
           NEW m \in Stanzas, m.kind \in {"data", "close"}, SendsOne(e, m),
           \/ m.by # "closer" /\ m.kind = "data" /\ GoesOn(CPc(e), CPc(e)')
           \/ /\ m.by = "closer" /\ CPc(e) \in {"send", "notify"}
              /\ \/ m.kind = "data" /\ CPc(e)' = "wait"
                 \/ m.kind = "close" /\ CPc(e)' = "closewait"
    PROVE  FlightInv'
<1>1. PICK o \in Ends : o = Other(e) /\ Other(o) = e /\ o # e
  BY OtherEnd
<1>2. Flight(CPc(e), chan[o], chan[e]) /\ Flight(CPc(o), chan[e], chan[o])
  BY <1>1 DEF FlightInv
<1>3. PICK p, z, a, b : p = CPc(e) /\ z = CPc(e)' /\ a = chan[o] /\ b = chan[e]
  OBVIOUS
<1>4. a \in Seq(Stanzas) /\ b \in Seq(Stanzas)
  BY <1>3, EndTypes
<1>5. chan'[o] = a \o <<m>> /\ chan'[e] = b /\ <<m>> \in Seq(Stanzas)
  <2>1. chan'[o] = Append(a, m) /\ chan'[e] = b
    BY <1>1, <1>3 DEF SendsOne
  <2>2. Append(a, m) = a \o <<m>>
    BY <1>4
  <2> QED
    BY <2>1, <2>2
<1>6. m \notin Backs /\ NoneIn(<<m>>, Backs)
  BY SingleIn DEF Backs
<1>7. Flight(CPc(o), b, a \o <<m>>)
  BY <1>2, <1>3, <1>4, <1>5, <1>6, FlightAdds
<1>8. Flight(z, a \o <<m>>, b)
  <2>1. CASE m.by # "closer" /\ m.kind = "data" /\ GoesOn(p, z)
    <3>1. m \notin Asks /\ m \notin Closings
      BY <2>1 DEF Asks, Closings
    <3>2. NoneIn(<<m>>, Asks) /\ NoneIn(<<m>>, Closings)
      BY <3>1, SingleIn
    <3>3. Flight(p, a \o <<m>>, b)
      BY <1>2, <1>3, <1>4, <1>5, <3>2, FlightAdds
    <3> QED
      BY <2>1, <3>3, FlightGoes DEF GoesOn
  <2>2. CASE /\ m.by = "closer" /\ p \in {"send", "notify"}
             /\ \/ m.kind = "data" /\ z = "wait"
                \/ m.kind = "close" /\ z = "closewait"
    <3>1. m \in Asks /\ p \notin {"wait", "closewait", "failed"}
      BY <2>2 DEF Asks
    <3> QED
      BY <1>2, <1>3, <1>4, <2>2, <3>1, FlightAsks
  <2> QED
    BY <1>3, <2>1, <2>2
<1> QED
  BY <1>1, <1>3, <1>5, <1>7, <1>8, FlightBoth

\* A stanza is taken and answered, behind blocks that nobody answers.
LEMMA FlightTaken ==
    ASSUME TypeInv, FlightInv, NEW e \in Ends, job' = job, chan[e] # <<>>,
           Head(chan[e]).kind \in {"data", "close"}, NEW n \in Seq(Stanzas),
           NoneIn(n, Asks \cup Backs \cup Closings),
           NEW ms \in Seq(Answers), Echoes(ms, Head(chan[e])), Takes(e, n \o ms)
    PROVE  FlightInv'
<1>1. PICK o \in Ends : o = Other(e) /\ Other(o) = e /\ o # e
  BY OtherEnd
<1>2. Flight(CPc(e), chan[o], chan[e]) /\ Flight(CPc(o), chan[e], chan[o])
  BY <1>1 DEF FlightInv
<1>3. PICK a, b : a = chan[o] /\ b = chan[e]
  OBVIOUS
<1>4. a \in Seq(Stanzas) /\ b \in Seq(Stanzas) /\ b # <<>> /\ ms \in Seq(Stanzas)
  BY <1>3, EndTypes, AnswersAre
<1>5. chan'[o] = a \o (n \o ms) /\ chan'[e] = Tail(b)
  BY <1>1, <1>3 DEF Takes
<1>6. NoneIn(n, Backs) /\ NoneIn(n, Asks) /\ NoneIn(n, Closings)
  BY DEF NoneIn
<1>7. NoneIn(ms, Asks) /\ NoneIn(ms, Closings)
  <2>1. \A i \in DOMAIN ms : ms[i] \in Answers
    OBVIOUS
  <2> QED
    BY <2>1 DEF NoneIn, Answers, Asks, Closings
<1>8. Flight(CPc(o), Tail(b), a \o (n \o ms))
  BY <1>2, <1>3, <1>4, <1>6, FlightEchoes
<1>9. Flight(CPc(e), a \o (n \o ms), Tail(b))
  <2>1. Flight(CPc(e), a, Tail(b)) /\ Tail(b) \in Seq(Stanzas)
    BY <1>2, <1>3, <1>4, FlightTakes
  <2>2. /\ n \o ms \in Seq(Stanzas) /\ NoneIn(n \o ms, Asks) /\ NoneIn(n \o ms, Closings)
    BY <1>4, <1>6, <1>7, JoinedIn
  <2> QED
    BY <1>4, <2>1, <2>2, FlightAdds
<1>10. CPc(e)' = CPc(e) /\ CPc(o)' = CPc(o)
  BY DEF CPc
<1> QED
  BY <1>1, <1>5, <1>8, <1>9, <1>10, FlightBoth

\* What closeNoNotify writes asks nothing and answers nothing.
LEMMA NumbersPlain ==
    ASSUME TypeInv, NEW e \in Ends
    PROVE  /\ Numbers(conn[e]) \in Seq(Stanzas)
           /\ NoneIn(Numbers(conn[e]), Asks \cup Backs \cup Closings)
<1>1. params \in Streams /\ GoodConn(conn[e])
  BY EndTypes
<1>2. /\ Numbers(conn[e]) \in Seq(Stanzas)
      /\ \A i \in DOMAIN Numbers(conn[e]) : /\ Numbers(conn[e])[i].kind = "data"
                                            /\ Numbers(conn[e])[i].by = "none"
  BY <1>1, NumbersTypes
<1> QED
  BY <1>2 DEF NoneIn, Asks, Backs, Closings

\* Every step keeps it.
LEMMA FlightStep ==
    ASSUME BaseInv, FlightInv, Next
    PROVE  FlightInv'
<1>1. TypeInv /\ HeadInv /\ "closer" \in Roles /\ "writer" \in Roles
  BY DEF BaseInv, Roles
<1>2. PICK e \in Ends :
             \/ Write(e) \/ Flush(e)
             \/ Close(e) \/ CloseSet(e) \/ CloseTail(e) \/ CloseNotify(e) \/ CloseTimeout(e)
             \/ CloseDone(e)
             \/ \E r \in Roles : Lock(e, r) \/ Send(e, r) \/ Answered(e, r) \/ Timeout(e, r)
             \/ Read(e) \/ Receive(e) \/ \E max \in Limits : SetReadBuffer(e, max)
             \/ handlePayload(e) \/ HandleClose(e) \/ closeNoNotify(e) \/ ServeAnswer(e)
  BY NextCases
<1>3. ASSUME NEW r \in Roles, OnlyJob(e, r), chan' = chan,
             r = "closer" => GoesOn(job[e]["closer"].pc, job'[e]["closer"].pc)
      PROVE  FlightInv'
  <2>1. /\ CPc(Other(e))' = CPc(Other(e)) /\ CPc(e)' = job'[e]["closer"].pc
        /\ r = "writer" => CPc(e)' = CPc(e)
    BY <1>3, OtherClosers
  <2>2. GoesOn(CPc(e), CPc(e)')
    BY <1>3, <2>1 DEF GoesOn, CPc, Roles
  <2> QED
    BY <1>3, <2>1, <2>2, FlightStill
<1>4. CASE Write(e) \/ Flush(e)
  BY <1>1, <1>3, <1>4, BeginFacts DEF JobMoves
<1>5. CASE Close(e)
  <2>1. /\ OnlyJob(e, "closer") /\ chan' = chan /\ job[e]["closer"].pc = "idle"
        /\ job'[e]["closer"].pc \in {"noop", "set"}
    BY <1>1, <1>5, CloseFacts DEF JobMoves
  <2> QED
    BY <1>1, <1>3, <2>1 DEF GoesOn
<1>6. CASE CloseSet(e)
  <2>1. /\ OnlyJob(e, "closer") /\ chan' = chan /\ job[e]["closer"].pc = "set"
        /\ job'[e]["closer"].pc = "lock"
    BY <1>1, <1>6, CloseSetFacts DEF JobMoves
  <2> QED
    BY <1>1, <1>3, <2>1 DEF GoesOn
<1>7. CASE CloseTail(e)
  <2>1. /\ OnlyJob(e, "closer") /\ chan' = chan /\ job[e]["closer"].pc = "tail"
        /\ job'[e]["closer"].pc \in {"notify", "failed", "send"}
    BY <1>1, <1>7, CloseTailFacts
  <2> QED
    BY <1>1, <1>3, <2>1 DEF GoesOn
<1>8. CASE CloseNotify(e)
  <2>1. PICK m \in Stanzas : m.kind = "close" /\ m.by = "closer" /\ SendsOne(e, m)
    BY <1>1, <1>8, CloseNotifyFacts
  <2>2. /\ OnlyJob(e, "closer") /\ job[e]["closer"].pc = "notify"
        /\ job'[e]["closer"].pc = "closewait"
    BY <1>1, <1>8, CloseNotifyFacts DEF JobMoves
  <2>3. CPc(Other(e))' = CPc(Other(e)) /\ CPc(e)' = "closewait" /\ CPc(e) = "notify"
    BY <1>1, <2>2, OtherClosers DEF CPc
  <2> QED
    BY <1>1, <2>1, <2>3, FlightSent
<1>9. CASE CloseTimeout(e)
  <2>1. /\ OnlyJob(e, "closer") /\ chan' = chan /\ job'[e]["closer"].pc = "failed"
    BY <1>1, <1>9, CloseTimeoutFacts
  <2> QED
    BY <1>1, <1>3, <2>1 DEF GoesOn
<1>10. CASE CloseDone(e)
  <2>1. /\ OnlyJob(e, "closer") /\ chan' = chan /\ job[e]["closer"].pc = "closed"
        /\ job'[e]["closer"].pc = "done"
    BY <1>1, <1>10, CloseDoneFacts DEF JobMoves
  <2> QED
    BY <1>1, <1>3, <2>1 DEF GoesOn
<1>11. ASSUME NEW r \in Roles, Lock(e, r) PROVE FlightInv'
  <2>1. /\ OnlyJob(e, r) /\ chan' = chan /\ job[e][r].pc = "lock"
        /\ job'[e][r].pc \in {"idle", "tail", "notify", "failed", "send"}
    BY <1>1, <1>11, LockFacts
  <2>2. r = "closer" => GoesOn(job[e]["closer"].pc, job'[e]["closer"].pc)
    BY <2>1 DEF GoesOn
  <2> QED
    BY <1>3, <2>1, <2>2
<1>12. ASSUME NEW r \in Roles, Breaks(e, r), chan' = chan PROVE FlightInv'
  <2>1. OnlyJob(e, r) /\ (r = "closer" => job'[e][r].pc = "failed")
    BY <1>12 DEF Breaks
  <2>2. r = "closer" => GoesOn(job[e]["closer"].pc, job'[e]["closer"].pc)
    BY <2>1 DEF GoesOn
  <2> QED
    BY <1>3, <1>12, <2>1, <2>2
<1>13. ASSUME NEW r \in Roles, Advances(e, r), job[e][r].pc \in {"send", "result"}
       PROVE  OnlyJob(e, r) /\ (r = "closer" => GoesOn(job[e]["closer"].pc, job'[e]["closer"].pc))
  <2>1. OnlyJob(e, r) /\ job'[e][r].pc \in {"send", "idle", "tail", "notify"}
    BY <1>13 DEF Advances
  <2> QED
    BY <1>13, <2>1 DEF GoesOn
<1>14. ASSUME NEW r \in Roles, Send(e, r) PROVE FlightInv'
  <2>1. CASE job[e][r].stale
    BY <1>1, <1>12, <1>14, <2>1, SendFacts
  <2>2. CASE ~job[e][r].stale
    <3>1. PICK m \in Stanzas :
                /\ m.kind = "data" /\ SendsOne(e, m)
                /\ \/ JobMoves(e, r) /\ job'[e][r].pc = "wait" /\ m.by = r
                   \/ Advances(e, r) /\ m.by = "none"
      BY <1>1, <1>14, <2>2, SendFacts
    <3>2. job[e][r].pc = "send"
      BY <1>1, <1>14, SendFacts
    <3>3. CASE JobMoves(e, r) /\ job'[e][r].pc = "wait" /\ m.by = r
      <4>1. /\ CPc(Other(e))' = CPc(Other(e)) /\ CPc(e)' = job'[e]["closer"].pc
            /\ r = "writer" => CPc(e)' = CPc(e)
        BY <3>3, OtherClosers DEF JobMoves
      <4>2. CASE r = "writer"
        <5>1. m.by # "closer" /\ GoesOn(CPc(e), CPc(e)')
          BY <3>3, <4>1, <4>2 DEF GoesOn
        <5> QED
          BY <1>1, <3>1, <4>1, <5>1, FlightSent
      <4>3. CASE r = "closer"
        <5>1. m.by = "closer" /\ CPc(e) = "send" /\ CPc(e)' = "wait"
          BY <3>2, <3>3, <4>1, <4>3 DEF CPc
        <5> QED
          BY <1>1, <3>1, <4>1, <5>1, FlightSent
      <4> QED
        BY <4>2, <4>3 DEF Roles
    <3>4. CASE Advances(e, r) /\ m.by = "none"
      <4>1. OnlyJob(e, r) /\ (r = "closer" => GoesOn(job[e]["closer"].pc, job'[e]["closer"].pc))
        BY <1>13, <3>2, <3>4
      <4>2. /\ CPc(Other(e))' = CPc(Other(e)) /\ CPc(e)' = job'[e]["closer"].pc
            /\ r = "writer" => CPc(e)' = CPc(e)
        BY <4>1, OtherClosers
      <4>3. GoesOn(CPc(e), CPc(e)')
        BY <4>1, <4>2 DEF GoesOn, CPc, Roles
      <4> QED
        BY <1>1, <3>1, <3>4, <4>2, <4>3, FlightSent
    <3> QED
      BY <3>1, <3>3, <3>4
  <2> QED
    BY <2>1, <2>2
<1>15. ASSUME NEW r \in Roles, Answered(e, r) PROVE FlightInv'
  <2>1. /\ chan' = chan
        /\ \/ job[e][r].pc = "result" /\ Advances(e, r)
           \/ Breaks(e, r)
    BY <1>1, <1>15, AnsweredFacts
  <2> QED
    BY <1>3, <1>12, <1>13, <2>1
<1>16. ASSUME NEW r \in Roles, Timeout(e, r) PROVE FlightInv'
  BY <1>1, <1>12, <1>16, TimeoutFacts
<1>17. ASSUME job' = job, chan' = chan PROVE FlightInv'
  <2>1. CPc(Other(e))' = CPc(Other(e)) /\ CPc(e)' = CPc(e)
    BY <1>17 DEF CPc
  <2> QED
    BY <1>17, <2>1, FlightStill DEF GoesOn
<1>18. CASE Read(e) \/ Receive(e) \/ \E max \in Limits : SetReadBuffer(e, max)
  BY <1>1, <1>17, <1>18, ReadFacts, ReceiveFacts, SetReadBufferFacts
<1>19. CASE handlePayload(e)
  <2>1. PICK ms \in Seq(Answers) : Takes(e, ms) /\ Echoes(ms, Head(chan[e]))
    BY <1>1, <1>19, PayloadFacts
  <2>2. job' = job /\ chan[e] # <<>> /\ Head(chan[e]).kind = "data"
    BY <1>1, <1>19, PayloadFacts
  <2>3. <<>> \in Seq(Stanzas) /\ NoneIn(<<>>, Asks \cup Backs \cup Closings) /\ <<>> \o ms = ms
    BY AnswersAre DEF NoneIn
  <2> QED
    BY <1>1, <2>1, <2>2, <2>3, FlightTaken
<1>20. CASE HandleClose(e)
  <2>1. job' = job /\ chan[e] # <<>> /\ Head(chan[e]).kind = "close"
    BY <1>1, <1>20, HandleCloseFacts
  <2>2. chan' = chan \/ \E ms \in Seq(Answers) : Takes(e, ms) /\ Echoes(ms, Head(chan[e]))
    BY <1>1, <1>20, HandleCloseFacts
  <2>3. CASE \E ms \in Seq(Answers) : Takes(e, ms) /\ Echoes(ms, Head(chan[e]))
    <3>1. PICK ms \in Seq(Answers) : Takes(e, ms) /\ Echoes(ms, Head(chan[e]))
      BY <2>3
    <3>2. <<>> \in Seq(Stanzas) /\ NoneIn(<<>>, Asks \cup Backs \cup Closings) /\ <<>> \o ms = ms
      BY AnswersAre DEF NoneIn
    <3> QED
      BY <1>1, <2>1, <3>1, <3>2, FlightTaken
  <2> QED
    BY <1>17, <2>1, <2>2, <2>3
<1>21. CASE closeNoNotify(e)
  <2>1. serve[e] = "closing"
    BY <1>21 DEF closeNoNotify
  <2>2. chan[e] # <<>> /\ Head(chan[e]).kind = "close"
    BY <1>1, <2>1 DEF HeadInv
  <2>3. job' = job
    BY <1>1, <1>21, <2>2, CloseNoNotifyFacts
  <2>4. \/ chan' = chan
        \/ \E as \in Seq(Answers) : Takes(e, Numbers(conn[e]) \o as) /\ Echoes(as, Head(chan[e]))
    BY <1>1, <1>21, <2>2, CloseNoNotifyFacts
  <2>5. CASE \E as \in Seq(Answers) : Takes(e, Numbers(conn[e]) \o as) /\ Echoes(as, Head(chan[e]))
    <3>1. PICK as \in Seq(Answers) : Takes(e, Numbers(conn[e]) \o as) /\ Echoes(as, Head(chan[e]))
      BY <2>5
    <3>2. /\ Numbers(conn[e]) \in Seq(Stanzas)
          /\ NoneIn(Numbers(conn[e]), Asks \cup Backs \cup Closings)
      BY <1>1, NumbersPlain
    <3> QED
      BY <1>1, <2>2, <2>3, <3>1, <3>2, FlightTaken
  <2> QED
    BY <1>17, <2>3, <2>4, <2>5
<1>22. CASE ServeAnswer(e)
  <2>1. PICK o \in Ends : o = Other(e) /\ Other(o) = e /\ o # e
    BY OtherEnd
  <2>2. Flight(CPc(e), chan[o], chan[e]) /\ Flight(CPc(o), chan[e], chan[o])
    BY <2>1 DEF FlightInv
  <2>3. PICK a, b : a = chan[o] /\ b = chan[e]
    OBVIOUS
  <2>4. /\ a \in Seq(Stanzas) /\ b \in Seq(Stanzas) /\ b # <<>> /\ Head(b) \in Answers
        /\ chan'[e] = Tail(b) /\ chan'[o] = a
    <3>1. a \in Seq(Stanzas) /\ b \in Seq(Stanzas)
      BY <1>1, <2>3, EndTypes
    <3>2. b # <<>> /\ Head(b) \in Answers /\ Takes(e, <<>>)
      BY <1>1, <1>22, <2>3, ServeAnswerFacts
    <3>3. a \o <<>> = a
      BY <3>1
    <3> QED
      BY <2>1, <2>3, <3>1, <3>2, <3>3 DEF Takes
  <2>5. Flight(CPc(o), Tail(b), a)
    <3>1. Flight(CPc(o), b, a)
      BY <2>2, <2>3
    <3>2. /\ NoneIn(b, Asks) => NoneIn(Tail(b), Asks)
          /\ NoneIn(b, Closings) => NoneIn(Tail(b), Closings)
          /\ NoneIn(b, Closings \ Asks) => NoneIn(Tail(b), Closings \ Asks)
          /\ NoneIn(b, Asks \ Closings) => NoneIn(Tail(b), Asks \ Closings)
          /\ OnceIn(b, Asks) => OnceIn(Tail(b), Asks)
      <4>1. ASSUME NEW S PROVE (NoneIn(b, S) => NoneIn(Tail(b), S)) /\ (OnceIn(b, S) => OnceIn(Tail(b), S))
        BY <2>4, TailIn
      <4> QED
        BY <4>1
    <3> QED
      BY <3>1, <3>2 DEF Flight
  <2>6. CPc(o)' = CPc(o) /\ Flight(CPc(e)', a, Tail(b))
    <3>1. /\ Flight(CPc(e), a, Tail(b))
          /\ CPc(e) \in {"wait", "closewait"} /\ Head(b) \in Backs =>
               \A z : z \notin {"wait", "closewait"} => Flight(z, a, Tail(b))
      BY <2>2, <2>3, <2>4, FlightTakes
    <3>2. CASE job' = job
      BY <3>1, <3>2 DEF CPc
    <3>3. CASE \E r \in Roles :
                  /\ JobMoves(e, r) /\ r = Head(chan[e]).by
                  /\ \/ job[e][r].pc = "wait" /\ job'[e][r].pc \in {"result", "error"}
                     \/ job[e][r].pc = "closewait" /\ job'[e][r].pc = "closed" /\ r = "closer"
      <4>1. PICK r \in Roles :
                  /\ JobMoves(e, r) /\ r = Head(chan[e]).by
                  /\ \/ job[e][r].pc = "wait" /\ job'[e][r].pc \in {"result", "error"}
                     \/ job[e][r].pc = "closewait" /\ job'[e][r].pc = "closed" /\ r = "closer"
        BY <3>3
      <4>2. /\ CPc(o)' = CPc(o) /\ CPc(e)' = job'[e]["closer"].pc
            /\ r = "writer" => CPc(e)' = CPc(e)
        BY <2>1, <4>1, OtherClosers DEF JobMoves
      <4>3. CASE r = "writer"
        BY <3>1, <4>2, <4>3
      <4>4. CASE r = "closer"
        <5>1. Head(b) \in Backs
          BY <2>3, <2>4, <4>1, <4>4 DEF Answers, Backs
        <5>2. CPc(e) \in {"wait", "closewait"} /\ CPc(e)' \notin {"wait", "closewait"}
          BY <4>1, <4>2, <4>4 DEF CPc
        <5> QED
          BY <3>1, <4>2, <5>1, <5>2
      <4> QED
        BY <4>3, <4>4 DEF Roles
    <3> QED
      BY <1>1, <1>22, <3>2, <3>3, ServeAnswerFacts
  <2> QED
    BY <2>1, <2>3, <2>4, <2>5, <2>6, FlightBoth
<1> QED
  BY <1>2, <1>4, <1>5, <1>6, <1>7, <1>8, <1>9, <1>10, <1>11, <1>14, <1>15, <1>16, <1>18, <1>19,
     <1>20, <1>21, <1>22

----------------------------------------------------------------------------
(* The blocks that reach an end after its Close was answered.              *)

\* The number q is one to three before z.
Off(q, z) == \E n \in 1 .. 3 : (q + n) % SeqCount = z % SeqCount
Late(t, z) == \A i \in DOMAIN t : t[i].kind = "data" => Off(t[i].seq, z)
NoData(t) == \A i \in DOMAIN t : t[i].kind # "data"
\* The goroutine whose state is j will send a chunk.
About(j) == j.pc = "send" /\ ~j.stale

\* What is on its way to an end that expects block b, in two parts: either the
\* first has the numbers that are expected and the second, with the chunk that
\* j is about to send, repeats numbers; or no block is or will be in the second.
Apart(j, b, s, t) ==
    \/ /\ Numbered(s, b) /\ Late(t, b + Total(s))
       /\ About(j) => Off(j.seq, b + Total(s))
    \/ ~About(j) /\ NoData(t)
\* The first part ends with the answer Close is waiting for.
UpTo(p, s) ==
    /\ p = "closewait" => s # <<>> /\ s[Len(s)] \in Backs
    /\ p \in {"closed", "done"} => s = <<>>
Behind(j, b, p, q) ==
    \E s, t \in Seq(Stanzas) : q = s \o t /\ Apart(j, b, s, t) /\ UpTo(p, s)

\* With more than three numbers, such a number is another one.
LEMMA OffDiffers ==
    ASSUME SeqCount > 3, NEW b \in 0 .. SeqCount - 1, Off(b, b)
    PROVE  FALSE
<1>1. PICK n \in 1 .. 3 : (b + n) % SeqCount = b % SeqCount
  BY DEF Off
<1>2. SeqCount \in Nat \ {0} /\ b \in Nat /\ n \in Nat /\ n < SeqCount /\ n >= 1
  BY SeqAssumption
<1>3. b % SeqCount = b
  BY <1>2, SeqRange
<1>4. CASE b + n < SeqCount
  <2>1. b + n \in Nat /\ b + n \in 0 .. SeqCount - 1
    BY <1>2, <1>4
  <2> DEFINE x == b + n
  <2> HIDE DEF x
  <2>2. x % SeqCount = x
    BY <2>1, SeqRange DEF x
  <2> QED
    BY <1>1, <1>2, <1>3, <2>2 DEF x
<1>5. CASE b + n >= SeqCount
  <2> DEFINE x == b + n - SeqCount
  <2>1. x \in Nat /\ x \in 0 .. SeqCount - 1 /\ x < b /\ SeqCount * 1 + x = b + n
    BY <1>2, <1>5
  <2> HIDE DEF x
  <2>2. (SeqCount * 1 + x) % SeqCount = x % SeqCount
    BY <1>2, <2>1, ModShift
  <2>3. x % SeqCount = x
    BY <2>1, SeqRange
  <2> QED
    BY <1>1, <1>2, <1>3, <2>1, <2>2, <2>3
<1> QED
  BY <1>2, <1>4, <1>5

\* The head and the tail of two sequences.
LEMMA TailJoined ==
    ASSUME NEW s \in Seq(Stanzas), NEW t \in Seq(Stanzas)
    PROVE  /\ s = <<>> => s \o t = t
           /\ s # <<>> => /\ Head(s \o t) = Head(s) /\ Tail(s \o t) = Tail(s) \o t
                          /\ Tail(s) \in Seq(Stanzas) /\ Head(s) = s[1] /\ Head(s) \in Stanzas
                          /\ Len(s) = 1 => Tail(s) = <<>>
                          /\ Len(s) # 1 => Tail(s) # <<>> /\ Tail(s)[Len(Tail(s))] = s[Len(s)]
<1>1. s = <<>> => s \o t = t
  OBVIOUS
<1>2. ASSUME s # <<>>
      PROVE  /\ Head(s \o t) = Head(s) /\ Tail(s \o t) = Tail(s) \o t
             /\ Tail(s) \in Seq(Stanzas) /\ Head(s) = s[1] /\ Head(s) \in Stanzas
             /\ Len(s) = 1 => Tail(s) = <<>>
             /\ Len(s) # 1 => Tail(s) # <<>> /\ Tail(s)[Len(Tail(s))] = s[Len(s)]
  <2> DEFINE n == Len(s)
             l == Len(t)
             u == Tail(s)
             x == s \o t
             y == Tail(x)
             z == u \o t
  <2>1. /\ n \in Nat /\ n # 0 /\ l \in Nat /\ x \in Seq(Stanzas) /\ Len(x) = n + l
        /\ u \in Seq(Stanzas) /\ Len(u) = n - 1 /\ Head(s) = s[1] /\ s[1] \in Stanzas
        /\ \A i \in 1 .. n - 1 : u[i] = s[i + 1]
    BY <1>2
  <2>2. \A i \in 1 .. n + l : x[i] = IF i <= n THEN s[i] ELSE t[i - n]
    OBVIOUS
  <2> HIDE DEF n, l, u, x
  <2>3. x # <<>> /\ y \in Seq(Stanzas) /\ Len(y) = (n + l) - 1 /\ Head(x) = x[1]
        /\ \A i \in 1 .. (n + l) - 1 : y[i] = x[i + 1]
    <3>1. Len(x) # 0 /\ Len(<<>>) = 0
      BY <2>1
    <3>2. x # <<>>
      BY <3>1
    <3>3. y \in Seq(Stanzas) /\ Len(y) = Len(x) - 1 /\ Head(x) = x[1]
          /\ \A i \in 1 .. Len(x) - 1 : y[i] = x[i + 1]
      BY <2>1, <3>2
    <3> QED
      BY <2>1, <3>2, <3>3
  <2>4. z \in Seq(Stanzas) /\ Len(z) = (n - 1) + l
        /\ \A i \in 1 .. (n - 1) + l : z[i] = IF i <= n - 1 THEN u[i] ELSE t[i - (n - 1)]
    <3>1. \A v \in Seq(Stanzas) :
             /\ v \o t \in Seq(Stanzas) /\ Len(v \o t) = Len(v) + Len(t)
             /\ \A i \in 1 .. Len(v) + Len(t) : (v \o t)[i] = IF i <= Len(v) THEN v[i] ELSE t[i - Len(v)]
      OBVIOUS
    <3>2. /\ z \in Seq(Stanzas) /\ Len(z) = Len(u) + l
          /\ \A i \in 1 .. Len(u) + l : z[i] = IF i <= Len(u) THEN u[i] ELSE t[i - Len(u)]
      BY <2>1, <3>1, Zenon DEF l, z
    <3> HIDE DEF z
    <3> QED
      BY <2>1, <3>2
  <2> HIDE DEF y, z
  <2>5. Head(x) = Head(s)
    BY <2>1, <2>2, <2>3
  <2>6. Len(y) = Len(z) /\ \A i \in 1 .. Len(y) : y[i] = z[i]
    <3>1. Len(y) = Len(z)
      BY <2>1, <2>3, <2>4
    <3>2. ASSUME NEW i \in 1 .. Len(y) PROVE y[i] = z[i]
      <4>1. /\ i \in Nat /\ i \in 1 .. (n + l) - 1 /\ i + 1 \in 1 .. n + l /\ i \in 1 .. (n - 1) + l
            /\ (i + 1) - n = i - (n - 1) /\ (i + 1 <= n <=> i <= n - 1)
        BY <2>1, <2>3
      <4>2. y[i] = IF i + 1 <= n THEN s[i + 1] ELSE t[(i + 1) - n]
        BY <2>2, <2>3, <4>1
      <4>3. z[i] = IF i <= n - 1 THEN u[i] ELSE t[i - (n - 1)]
        BY <2>4, <4>1
      <4>4. i <= n - 1 => u[i] = s[i + 1]
        BY <2>1, <4>1
      <4> QED
        BY <4>1, <4>2, <4>3, <4>4
    <3> QED
      BY <3>1, <3>2
  <2>7. y = z
    BY <2>3, <2>4, <2>6, SeqEqual
  <2>8. n = 1 => u = <<>>
    BY <2>1
  <2>9. n # 1 => u # <<>> /\ u[Len(u)] = s[n]
    <3>1. n # 1 => n - 1 \in 1 .. n - 1 /\ (n - 1) + 1 = n /\ Len(u) # 0
      BY <2>1
    <3>2. Len(<<>>) = 0
      OBVIOUS
    <3> QED
      BY <2>1, <3>1, <3>2
  <2> QED
    BY <2>1, <2>5, <2>7, <2>8, <2>9 DEF n, u, x, y, z
<1> QED
  BY <1>1, <1>2

\* An element of two sequences is one of the first or of the second.
LEMMA JoinedAt ==
    ASSUME NEW t \in Seq(Stanzas), NEW u \in Seq(Stanzas)
    PROVE  \A i \in DOMAIN (t \o u) : \/ i \in DOMAIN t /\ (t \o u)[i] = t[i]
                                      \/ \E l \in DOMAIN u : (t \o u)[i] = u[l]
<1> SUFFICES ASSUME NEW i \in DOMAIN (t \o u), i \notin DOMAIN t
             PROVE  \E l \in DOMAIN u : (t \o u)[i] = u[l]
  OBVIOUS
<1>1. i - Len(t) \in DOMAIN u /\ (t \o u)[i] = u[i - Len(t)]
  OBVIOUS
<1> QED
  BY <1>1

\* What is not a block arrives.
LEMMA BehindAdds ==
    ASSUME NEW j, NEW k, NEW b, NEW p, NEW q, Behind(j, b, p, q),
           NEW ms \in Seq(Stanzas), NoData(ms), About(k) => About(j) /\ k.seq = j.seq
    PROVE  Behind(k, b, p, q \o ms)
<1>1. PICK s \in Seq(Stanzas), t \in Seq(Stanzas) : q = s \o t /\ Apart(j, b, s, t) /\ UpTo(p, s)
  BY DEF Behind
<1>2. t \o ms \in Seq(Stanzas) /\ q \o ms = s \o (t \o ms)
  BY <1>1, ConcatAssociative
<1>3. \A i \in DOMAIN (t \o ms) : \/ i \in DOMAIN t /\ (t \o ms)[i] = t[i]
                                  \/ \E l \in DOMAIN ms : (t \o ms)[i] = ms[l]
  BY JoinedAt
<1> DEFINE u == t \o ms
<1> HIDE DEF u
<1>4. \A i \in DOMAIN u : u[i].kind = "data" => i \in DOMAIN t /\ u[i] = t[i]
  BY <1>3 DEF NoData, u
<1>5. \A z : Late(t, z) => Late(u, z)
  BY <1>4 DEF Late
<1>6. NoData(t) => NoData(u)
  BY <1>4 DEF NoData
<1>7. Apart(k, b, s, u)
  BY <1>1, <1>5, <1>6 DEF Apart
<1> QED
  BY <1>1, <1>2, <1>7 DEF Behind, u

\* The chunk that was about to be sent arrives.
LEMMA BehindSent ==
    ASSUME NEW j, NEW k, NEW b, NEW p, NEW q, Behind(j, b, p, q), About(j), ~About(k),
           NEW m \in Stanzas, m.seq = j.seq
    PROVE  Behind(k, b, p, q \o <<m>>)
<1>1. PICK s \in Seq(Stanzas), t \in Seq(Stanzas) : q = s \o t /\ Apart(j, b, s, t) /\ UpTo(p, s)
  BY DEF Behind
<1>2. <<m>> \in Seq(Stanzas) /\ \A i \in DOMAIN <<m>> : <<m>>[i] = m
  OBVIOUS
<1>3. t \o <<m>> \in Seq(Stanzas) /\ q \o <<m>> = s \o (t \o <<m>>)
  BY <1>1, <1>2, ConcatAssociative
<1>4. \A i \in DOMAIN (t \o <<m>>) : \/ i \in DOMAIN t /\ (t \o <<m>>)[i] = t[i]
                                     \/ \E l \in DOMAIN <<m>> : (t \o <<m>>)[i] = <<m>>[l]
  BY <1>2, JoinedAt
<1> DEFINE u == t \o <<m>>
<1>5. \A i \in DOMAIN u : (i \in DOMAIN t /\ u[i] = t[i]) \/ u[i] = m
  BY <1>2, <1>4
<1> HIDE DEF u
<1>6. /\ Numbered(s, b) /\ Late(t, b + Total(s)) /\ Off(m.seq, b + Total(s))
  BY <1>1 DEF Apart
<1>7. Late(u, b + Total(s))
  BY <1>5, <1>6 DEF Late
<1>8. Apart(k, b, s, u)
  BY <1>6, <1>7 DEF Apart
<1> QED
  BY <1>1, <1>3, <1>8 DEF Behind, u

\* The same as far as the numbers that are left go.
LEMMA BehindRest ==
    ASSUME NEW t \in Seq(Stanzas), t # <<>>
    PROVE  /\ Tail(t) \in Seq(Stanzas) /\ Head(t) = t[1] /\ 1 \in DOMAIN t
           /\ \A z : Late(t, z) => Late(Tail(t), z)
           /\ NoData(t) => NoData(Tail(t))
<1>1. /\ Head(t) = t[1] /\ 1 \in DOMAIN t /\ Tail(t) \in Seq(Stanzas)
      /\ \A i \in DOMAIN Tail(t) : i + 1 \in DOMAIN t /\ Tail(t)[i] = t[i + 1]
  OBVIOUS
<1> DEFINE u == Tail(t)
<1> HIDE DEF u
<1>2. \A i \in DOMAIN u : i + 1 \in DOMAIN t /\ u[i] = t[i + 1]
  BY <1>1 DEF u
<1>3. ASSUME NEW z, Late(t, z) PROVE Late(u, z)
  BY <1>2, <1>3 DEF Late
<1>4. NoData(t) => NoData(u)
  BY <1>2 DEF NoData
<1> QED
  BY <1>1, <1>3, <1>4 DEF u

\* A block is taken: its number is wrong, or the next one is expected.  Once
\* Close was answered it is wrong.
LEMMA BehindBlock ==
    ASSUME SeqCount > 3, NEW j, NEW b \in 0 .. SeqCount - 1, NEW p, NEW q \in Seq(Stanzas),
           Behind(j, b, p, q), q # <<>>, Head(q).kind = "data"
    PROVE  /\ Head(q).seq # b => Behind(j, b, p, Tail(q))
           /\ Head(q).seq = b => Behind(j, NextSeq(b), p, Tail(q))
           /\ p \in {"closed", "done"} => Head(q).seq # b
<1>1. PICK s \in Seq(Stanzas), t \in Seq(Stanzas) : q = s \o t /\ Apart(j, b, s, t) /\ UpTo(p, s)
  BY DEF Behind
<1>2. b \in Nat /\ SeqCount \in Nat \ {0}
  BY SeqAssumption
<1>3. CASE s = <<>>
  <2>1. q = t /\ t # <<>>
    BY <1>1, <1>3, TailJoined
  <2>2. /\ Tail(t) \in Seq(Stanzas) /\ Head(t) = t[1] /\ 1 \in DOMAIN t
        /\ \A z : Late(t, z) => Late(Tail(t), z)
    BY <2>1, BehindRest
  <2>3. ~NoData(t)
    BY <2>1, <2>2 DEF NoData
  <2>4. /\ Numbered(s, b) /\ Late(t, b + Total(s)) /\ (About(j) => Off(j.seq, b + Total(s)))
    BY <1>1, <2>3 DEF Apart
  <2>5. Total(s) = 0 /\ b + Total(s) = b
    <3>1. \A i \in DOMAIN s : s[i].kind # "data"
      BY <1>3
    <3>2. Total(s) = 0
      BY <3>1, NotBlocks
    <3> QED
      BY <1>2, <3>2
  <2>6. Off(Head(q).seq, b)
    BY <2>1, <2>2, <2>4, <2>5 DEF Late
  <2>7. Head(q).seq # b
    BY <2>6, OffDiffers
  <2>8. Apart(j, b, s, Tail(t))
    BY <2>2, <2>4 DEF Apart
  <2>9. Tail(q) = s \o Tail(t)
    BY <1>3, <2>1, <2>2
  <2>10. Behind(j, b, p, Tail(q))
    BY <1>1, <2>2, <2>8, <2>9 DEF Behind
  <2> QED
    BY <2>7, <2>10
<1>4. CASE s # <<>>
  <2>1. /\ Head(q) = Head(s) /\ Tail(q) = Tail(s) \o t /\ Tail(s) \in Seq(Stanzas) /\ Head(s) = s[1]
        /\ Len(s) # 1 => Tail(s) # <<>> /\ Tail(s)[Len(Tail(s))] = s[Len(s)]
    BY <1>1, <1>4, TailJoined
  <2>2. p \notin {"closed", "done"}
    BY <1>1, <1>4 DEF UpTo
  <2>3. UpTo(p, Tail(s))
    <3>1. Head(s) \notin Backs
      BY <2>1 DEF Backs
    <3>2. p = "closewait" => Len(s) # 1
      BY <1>1, <2>1, <3>1 DEF UpTo
    <3> QED
      BY <1>1, <2>1, <2>2, <3>2 DEF UpTo
  <2>4. CASE /\ Numbered(s, b) /\ Late(t, b + Total(s)) /\ (About(j) => Off(j.seq, b + Total(s)))
    <3> DEFINE u == Tail(s)
               c == NextSeq(b)
               y == b + Total(s)
               z == c + Total(u)
    <3>1. /\ Head(s).seq = b % SeqCount /\ Numbered(u, b + 1) /\ Total(s) = 1 + Total(u)
          /\ Total(u) \in Nat
      BY <1>2, <1>4, <2>1, <2>4, NumberedTail
    <3>2. b % SeqCount = b
      BY <1>2, SeqRange
    <3>3. c \in Nat /\ c % SeqCount = (b + 1) % SeqCount /\ c = (b + 1) % SeqCount
      <4>1. c = (b + 1) % SeqCount /\ b + 1 \in Nat
        BY <1>2 DEF NextSeq
      <4>2. c \in 0 .. SeqCount - 1
        BY NextSeqType
      <4>3. c \in Nat
        BY <1>2, <4>2
      <4> HIDE DEF c
      <4>4. c % SeqCount = c
        BY <4>2, <4>3, SeqRange
      <4> QED
        BY <4>1, <4>3, <4>4
    <3>4. Numbered(u, c)
      <4>1. b + 1 \in Nat
        BY <1>2
      <4> HIDE DEF u, c
      <4> QED
        BY <2>1, <3>1, <3>3, <4>1, NumberedWrap DEF u
    <3>5. z % SeqCount = y % SeqCount
      <4> DEFINE v == b + 1
                 w == Total(u)
      <4>1. v \in Nat /\ w \in Nat /\ c % SeqCount = v % SeqCount
        BY <1>2, <3>1, <3>3
      <4>2. v + w = y
        BY <1>2, <3>1
      <4> HIDE DEF v, w, c
      <4>3. (c + w) % SeqCount = (v + w) % SeqCount
        BY <3>3, <4>1, SeqAgree
      <4> QED
        BY <4>2, <4>3 DEF w
    <3> HIDE DEF y, z
    <3>6. Late(t, z) /\ (About(j) => Off(j.seq, z))
      BY <2>4, <3>5 DEF Late, Off, y
    <3>7. Apart(j, c, u, t)
      BY <3>4, <3>6 DEF Apart, z
    <3>8. Behind(j, c, p, Tail(q))
      BY <2>1, <2>3, <3>7 DEF Behind
    <3> QED
      BY <2>1, <2>2, <3>1, <3>2, <3>8
  <2>5. CASE ~About(j) /\ NoData(t)
    <3>1. \A c : Apart(j, c, Tail(s), t)
      BY <2>5 DEF Apart
    <3>2. \A c : Behind(j, c, p, Tail(q))
      BY <2>1, <2>3, <3>1 DEF Behind
    <3> QED
      BY <2>2, <3>2
  <2> QED
    BY <1>1, <2>4, <2>5 DEF Apart
<1> QED
  BY <1>3, <1>4

\* An answer is taken; if it is that of Close, nothing of the first part is left.
LEMMA BehindAnswer ==
    ASSUME NEW j, NEW b \in 0 .. SeqCount - 1, NEW p, NEW q \in Seq(Stanzas),
           Behind(j, b, p, q), q # <<>>, Head(q).kind # "data"
    PROVE  /\ p # "closewait" \/ Head(q) \notin Backs => Behind(j, b, p, Tail(q))
           /\ p = "closewait" /\ OnceIn(q, Backs) /\ Head(q) \in Backs => Behind(j, b, "closed", Tail(q))
<1>1. PICK s \in Seq(Stanzas), t \in Seq(Stanzas) : q = s \o t /\ Apart(j, b, s, t) /\ UpTo(p, s)
  BY DEF Behind
<1>2. b \in Nat
  BY SeqAssumption
<1>3. CASE s = <<>>
  <2>1. q = t /\ t # <<>> /\ p # "closewait"
    BY <1>1, <1>3, TailJoined DEF UpTo
  <2>2. /\ Tail(t) \in Seq(Stanzas)
        /\ \A z : Late(t, z) => Late(Tail(t), z)
        /\ NoData(t) => NoData(Tail(t))
    BY <2>1, BehindRest
  <2>3. Apart(j, b, s, Tail(t))
    BY <1>1, <2>2 DEF Apart
  <2>4. Tail(q) = s \o Tail(t)
    BY <1>3, <2>1, <2>2
  <2> QED
    BY <1>1, <2>1, <2>2, <2>3, <2>4 DEF Behind
<1>4. CASE s # <<>>
  <2>1. /\ Head(q) = Head(s) /\ Tail(q) = Tail(s) \o t /\ Tail(s) \in Seq(Stanzas) /\ Head(s) = s[1]
        /\ Len(s) = 1 => Tail(s) = <<>>
        /\ Len(s) # 1 => Tail(s) # <<>> /\ Tail(s)[Len(Tail(s))] = s[Len(s)]
    BY <1>1, <1>4, TailJoined
  <2>2. p \notin {"closed", "done"}
    BY <1>1, <1>4 DEF UpTo
  <2>3. Apart(j, b, Tail(s), t)
    <3>1. Numbered(s, b) => Numbered(Tail(s), b) /\ Total(s) = Total(Tail(s))
      BY <1>2, <1>4, <2>1, NumberedTail
    <3> QED
      BY <1>1, <3>1 DEF Apart
  <2>4. ASSUME p # "closewait" \/ Head(q) \notin Backs PROVE UpTo(p, Tail(s))
    BY <1>1, <2>1, <2>2, <2>4 DEF UpTo
  <2>5. ASSUME p = "closewait", OnceIn(q, Backs), Head(q) \in Backs PROVE UpTo("closed", Tail(s))
    <3>1. Len(s) = 1
      <4>1. Len(s) \in DOMAIN q /\ 1 \in DOMAIN q /\ q[Len(s)] = s[Len(s)] /\ q[1] = Head(q)
        <5>1. Len(s) \in Nat /\ Len(s) # 0
          BY <1>4
        <5> QED
          BY <1>1, <5>1
      <4>2. s[Len(s)] \in Backs
        BY <1>1, <2>5 DEF UpTo
      <4> QED
        BY <2>5, <4>1, <4>2 DEF OnceIn
    <3> QED
      BY <2>1, <3>1 DEF UpTo
  <2> QED
    BY <2>1, <2>3, <2>4, <2>5 DEF Behind
<1> QED
  BY <1>3, <1>4

----------------------------------------------------------------------------
(* One end has not called Close.                                           *)

\* Neither end of o's stream is closed and nobody has raced for its encoder.
Opened(o) ==
    /\ conn[o].stream /\ ~conn[o].closed /\ ~conn[o].handlerT /\ conn[o].ready /\ ~raced[o]
    /\ Busy(o, "writer") => conn[o].wbuf # <<>>
\* closeNoNotify failed, and with it Serve.
EndedUp(o) == ~conn[o].stream /\ serve[o] = "ended"
\* The Close of e, if there is one, was not answered.
Unanswered(e) ==
    CPc(e) \notin {"closed", "done"} /\ (CPc(e) = "closewait" => NoneIn(chan[e], Backs))
\* o has answered the Close of e; blocks that follow the answer repeat numbers.
Gone(o, e) ==
    /\ ~conn[o].stream /\ conn[o].handlerT /\ serve[o] # "closing"
    /\ \/ CPc(e) = "failed"
       \/ /\ CPc(e) \in {"closewait", "closed", "done"}
          /\ Behind(job[o]["writer"], conn[e].seq, CPc(e), chan[e])
Live(e) == conn[e].stream /\ (conn[e].ready \/ CPc(e) = "done")

\* Until o calls Close, the stream of e is not removed, only its own Close ends
\* its reads, and then nothing with the number it expects arrives.
Half(o, e) ==
    CPc(o) = "idle" =>
       /\ Live(e)
       /\ \/ (Opened(o) \/ EndedUp(o)) /\ Unanswered(e)
          \/ Gone(o, e)
HalfInv == \A e \in Ends : Half(e, Other(e))

\* (In the next state.)
LEMMA GoneThen ==
    ASSUME NEW o, NEW e, ~conn'[o].stream, conn'[o].handlerT, serve'[o] # "closing",
           \/ CPc(e)' = "failed"
           \/ /\ CPc(e)' \in {"closewait", "closed", "done"}
              /\ Behind(job'[o]["writer"], conn'[e].seq, CPc(e)', chan'[e])
    PROVE  Gone(o, e)'
BY DEF Gone

\* What an end that has not called Close does not change by writing or reading.
Keeps(o) ==
    /\ conn'[o].stream = conn[o].stream /\ conn'[o].closed = conn[o].closed
    /\ conn'[o].handlerT = conn[o].handlerT /\ conn'[o].ready = conn[o].ready
    /\ raced'[o] => raced[o]
    /\ serve[o] = "ended" => serve'[o] = "ended"
    /\ serve'[o] = "closing" => serve[o] = "closing" \/ conn[o].stream
    /\ Busy(o, "writer")' => \/ conn'[o].wbuf # <<>>
                             \/ Busy(o, "writer") /\ conn'[o].wbuf = conn[o].wbuf
\* Its writer does not begin a chunk once the handler's encoder is there.
StaysOff(o) ==
    About(job'[o]["writer"]) =>
       \/ ~conn[o].handlerT
       \/ About(job[o]["writer"]) /\ job'[o]["writer"].seq = job[o]["writer"].seq

\* It stays open, or ended, as it was.
LEMMA OpenedKept ==
    ASSUME NEW o, Keeps(o)
    PROVE  (Opened(o) => Opened(o)') /\ (EndedUp(o) => EndedUp(o)')
BY DEF Keeps, Opened, EndedUp

\* An end writes no block.
LEMMA HalfActs ==
    ASSUME TypeInv, NEW o \in Ends, NEW e \in Ends, Half(o, e), conn'[e] = conn[e],
           CPc(e)' = CPc(e), CPc(o)' = CPc(o), Keeps(o), StaysOff(o),
           NEW ms \in Seq(Stanzas), chan'[e] = chan[e] \o ms, NoData(ms),
           (Opened(o) \/ EndedUp(o)) /\ CPc(e) = "closewait" => NoneIn(ms, Backs)
    PROVE  Half(o, e)'
<1> SUFFICES ASSUME CPc(o) = "idle"
             PROVE  Live(e)' /\ (((Opened(o)' \/ EndedUp(o)') /\ Unanswered(e)') \/ Gone(o, e)')
  BY DEF Half
<1>1. Live(e)'
  BY DEF Half, Live
<1>2. chan[e] \in Seq(Stanzas)
  BY EndTypes
<1>3. CASE (Opened(o) \/ EndedUp(o)) /\ Unanswered(e)
  <2>1. CPc(e) = "closewait" => NoneIn(chan[e] \o ms, Backs)
    BY <1>2, <1>3, JoinedIn DEF Unanswered
  <2>2. Unanswered(e)'
    BY <1>3, <2>1 DEF Unanswered
  <2> QED
    BY <1>1, <1>3, <2>2, OpenedKept
<1>4. CASE Gone(o, e)
  <2>1. ~conn'[o].stream /\ conn'[o].handlerT /\ serve'[o] # "closing"
    BY <1>4 DEF Gone, Keeps
  <2>2. CASE CPc(e) = "failed"
    BY <1>1, <2>1, <2>2, GoneThen
  <2>3. CASE /\ CPc(e) \in {"closewait", "closed", "done"}
             /\ Behind(job[o]["writer"], conn[e].seq, CPc(e), chan[e])
    <3>1. About(job'[o]["writer"]) => About(job[o]["writer"]) /\ job'[o]["writer"].seq = job[o]["writer"].seq
      BY <1>4 DEF StaysOff, Gone
    <3>2. Behind(job'[o]["writer"], conn[e].seq, CPc(e), chan[e] \o ms)
      BY <2>3, <3>1, BehindAdds
    <3> QED
      BY <1>1, <2>1, <2>3, <3>2, GoneThen
  <2> QED
    BY <1>4, <2>2, <2>3 DEF Gone
<1> QED
  BY <1>3, <1>4 DEF Half

\* Its writer sends a block.
LEMMA HalfSends ==
    ASSUME TypeInv, NEW o \in Ends, NEW e \in Ends, Half(o, e), conn'[e] = conn[e],
           CPc(e)' = CPc(e), CPc(o)' = CPc(o), Keeps(o),
           About(job[o]["writer"]), About(job'[o]["writer"]) => ~conn[o].handlerT,
           NEW m \in Stanzas, m.kind = "data", m.seq = job[o]["writer"].seq,
           chan'[e] = chan[e] \o <<m>>
    PROVE  Half(o, e)'
<1> SUFFICES ASSUME CPc(o) = "idle"
             PROVE  Live(e)' /\ (((Opened(o)' \/ EndedUp(o)') /\ Unanswered(e)') \/ Gone(o, e)')
  BY DEF Half
<1>1. Live(e)'
  BY DEF Half, Live
<1>2. chan[e] \in Seq(Stanzas) /\ <<m>> \in Seq(Stanzas) /\ NoneIn(<<m>>, Backs)
  <2>1. m \notin Backs
    BY DEF Backs
  <2> QED
    BY <2>1, EndTypes, SingleIn
<1>3. CASE (Opened(o) \/ EndedUp(o)) /\ Unanswered(e)
  <2>1. CPc(e) = "closewait" => NoneIn(chan[e] \o <<m>>, Backs)
    BY <1>2, <1>3, JoinedIn DEF Unanswered
  <2>2. Unanswered(e)'
    BY <1>3, <2>1 DEF Unanswered
  <2> QED
    BY <1>1, <1>3, <2>2, OpenedKept
<1>4. CASE Gone(o, e)
  <2>1. ~conn'[o].stream /\ conn'[o].handlerT /\ serve'[o] # "closing"
    BY <1>4 DEF Gone, Keeps
  <2>2. CASE CPc(e) = "failed"
    BY <1>1, <2>1, <2>2, GoneThen
  <2>3. CASE /\ CPc(e) \in {"closewait", "closed", "done"}
             /\ Behind(job[o]["writer"], conn[e].seq, CPc(e), chan[e])
    <3>1. ~About(job'[o]["writer"])
      BY <1>4 DEF Gone
    <3>2. Behind(job'[o]["writer"], conn[e].seq, CPc(e), chan[e] \o <<m>>)
      BY <2>3, <3>1, BehindSent
    <3> QED
      BY <1>1, <2>1, <2>3, <3>2, GoneThen
  <2> QED
    BY <1>4, <2>2, <2>3 DEF Gone
<1> QED
  BY <1>3, <1>4 DEF Half

\* The Close of an end at p goes on to z; what it waits for, it is handed otherwise.
Steps(p, z) ==
    \/ z = p \/ (p = "closed" /\ z = "done") \/ (p # "done" /\ z = "failed")
    \/ p \notin {"closewait", "closed", "done", "failed"} /\ z \notin {"closewait", "closed", "done"}
    \/ p = "notify" /\ z = "closewait"

\* Nothing is done at an end.
Rests(o) ==
    /\ conn'[o] = conn[o] /\ (\A r \in Roles : job'[o][r] = job[o][r]) /\ serve'[o] = serve[o]
    /\ raced'[o] = raced[o]

\* It stays what it was.
LEMMA RestsOpened ==
    ASSUME NEW o \in Ends, Rests(o)
    PROVE  /\ Opened(o)' <=> Opened(o)
           /\ EndedUp(o)' <=> EndedUp(o)
           /\ job'[o]["writer"] = job[o]["writer"] /\ CPc(o)' = CPc(o)
<1>1. "writer" \in Roles /\ "closer" \in Roles
  BY DEF Roles
<1>2. job'[o]["writer"] = job[o]["writer"] /\ job'[o]["closer"] = job[o]["closer"]
  BY <1>1 DEF Rests
<1> QED
  BY <1>2 DEF Rests, Opened, EndedUp, Busy, CPc

\* The other end takes nothing.
LEMMA HalfMoves ==
    ASSUME TypeInv, NEW o \in Ends, NEW e \in Ends, Half(o, e), Rests(o),
           Flight(CPc(e), chan[o], chan[e]), chan'[e] = chan[e], Steps(CPc(e), CPc(e)'),
           conn'[e].stream = conn[e].stream, conn'[e].seq = conn[e].seq,
           conn'[e].ready = conn[e].ready \/ CPc(e)' = "done"
    PROVE  Half(o, e)'
<1>1. /\ Opened(o)' <=> Opened(o)
      /\ EndedUp(o)' <=> EndedUp(o)
      /\ job'[o]["writer"] = job[o]["writer"] /\ CPc(o)' = CPc(o)
  BY RestsOpened
<1> SUFFICES ASSUME CPc(o) = "idle"
             PROVE  Live(e)' /\ (((Opened(o) \/ EndedUp(o)) /\ Unanswered(e)') \/ Gone(o, e)')
  BY <1>1 DEF Half
<1>2. PICK p, z, q : p = CPc(e) /\ z = CPc(e)' /\ q = chan[e]
  OBVIOUS
<1>3. Live(e)'
  BY <1>2 DEF Half, Live, Steps
<1>4. CASE (Opened(o) \/ EndedUp(o)) /\ Unanswered(e)
  <2>1. p \notin {"closed", "done"} /\ (p = "closewait" => NoneIn(q, Backs))
    BY <1>2, <1>4 DEF Unanswered
  <2>2. p = "notify" => NoneIn(q, Backs)
    BY <1>2 DEF Flight
  <2>3. z \notin {"closed", "done"} /\ (z = "closewait" => NoneIn(q, Backs))
    BY <1>2, <2>1, <2>2 DEF Steps
  <2>4. Unanswered(e)'
    BY <1>2, <2>3 DEF Unanswered
  <2> QED
    BY <1>3, <1>4, <2>4
<1>5. CASE Gone(o, e)
  <2>1. ~conn'[o].stream /\ conn'[o].handlerT /\ serve'[o] # "closing"
    BY <1>5 DEF Gone, Rests
  <2>2. CASE z = "failed"
    BY <1>2, <1>3, <2>1, <2>2, GoneThen
  <2>3. CASE z # "failed"
    <3> DEFINE j == job[o]["writer"]
               b == conn[e].seq
    <3> HIDE DEF j, b
    <3>1. p \in {"closewait", "closed", "done"} /\ Behind(j, b, p, q)
      BY <1>2, <1>5, <2>3 DEF Gone, Steps, j, b
    <3>2. z = p \/ (p = "closed" /\ z = "done")
      BY <1>2, <2>3, <3>1 DEF Steps
    <3>3. \A s : UpTo("closed", s) => UpTo("done", s)
      BY DEF UpTo
    <3>4. Behind(j, b, z, q)
      BY <3>1, <3>2, <3>3 DEF Behind
    <3>5. z \in {"closewait", "closed", "done"}
      BY <3>1, <3>2
    <3> QED
      BY <1>1, <1>2, <1>3, <2>1, <3>4, <3>5, GoneThen DEF j, b
  <2> QED
    BY <2>2, <2>3
<1> QED
  BY <1>4, <1>5 DEF Half

\* It takes a block.
LEMMA HalfBlock ==
    ASSUME SeqCount > 3, TypeInv, NEW o \in Ends, NEW e \in Ends, Half(o, e), Rests(o),
           CPc(e)' = CPc(e), chan[e] # <<>>, Head(chan[e]).kind = "data", chan'[e] = Tail(chan[e]),
           conn'[e].stream = conn[e].stream, conn'[e].ready = conn[e].ready,
           \/ /\ ~conn[e].stream \/ Head(chan[e]).seq # conn[e].seq
              /\ conn'[e].seq = conn[e].seq
           \/ Head(chan[e]).seq = conn[e].seq /\ conn'[e].seq = NextSeq(conn[e].seq)
    PROVE  /\ Half(o, e)'
           /\ CPc(o) = "idle" /\ Head(chan[e]).seq = conn[e].seq => conn[e].ready
<1>1. /\ Opened(o)' <=> Opened(o)
      /\ EndedUp(o)' <=> EndedUp(o)
      /\ job'[o]["writer"] = job[o]["writer"] /\ CPc(o)' = CPc(o)
  BY RestsOpened
<1> SUFFICES ASSUME CPc(o) = "idle"
             PROVE  /\ Live(e)' /\ (((Opened(o) \/ EndedUp(o)) /\ Unanswered(e)') \/ Gone(o, e)')
                    /\ Head(chan[e]).seq = conn[e].seq => conn[e].ready
  BY <1>1 DEF Half
<1>2. Live(e)' /\ conn[e].stream /\ (conn[e].ready \/ CPc(e) = "done")
  BY DEF Half, Live
<1>3. chan[e] \in Seq(Stanzas) /\ conn[e].seq \in 0 .. SeqCount - 1
  BY EndTypes DEF ConnType
<1>4. CASE (Opened(o) \/ EndedUp(o)) /\ Unanswered(e)
  <2>1. NoneIn(chan[e], Backs) => NoneIn(Tail(chan[e]), Backs)
    BY <1>3, TailIn
  <2> QED
    BY <1>2, <1>4, <2>1 DEF Unanswered
<1>5. CASE Gone(o, e)
  <2>1. ~conn'[o].stream /\ conn'[o].handlerT /\ serve'[o] # "closing"
    BY <1>5 DEF Gone, Rests
  <2>2. CASE CPc(e) = "failed"
    BY <1>2, <2>1, <2>2, GoneThen
  <2>3. CASE /\ CPc(e) \in {"closewait", "closed", "done"}
             /\ Behind(job[o]["writer"], conn[e].seq, CPc(e), chan[e])
    <3> DEFINE j == job[o]["writer"]
               b == conn[e].seq
               p == CPc(e)
               q == chan[e]
    <3> HIDE DEF j, b, p, q
    <3>1. /\ b \in 0 .. SeqCount - 1 /\ q \in Seq(Stanzas) /\ Behind(j, b, p, q) /\ q # <<>>
          /\ Head(q).kind = "data"
      BY <1>3, <2>3 DEF j, b, p, q
    <3>2. /\ Head(q).seq # b => Behind(j, b, p, Tail(q))
          /\ Head(q).seq = b => Behind(j, NextSeq(b), p, Tail(q))
          /\ p \in {"closed", "done"} => Head(q).seq # b
      BY <3>1, BehindBlock
    <3>3. Behind(job'[o]["writer"], conn'[e].seq, CPc(e)', chan'[e])
      BY <1>1, <1>2, <3>2 DEF j, b, p, q
    <3>4. Head(chan[e]).seq = conn[e].seq => conn[e].ready
      BY <1>2, <3>2 DEF b, p, q
    <3> QED
      BY <1>2, <2>1, <2>3, <3>3, <3>4, GoneThen
  <2> QED
    BY <1>5, <2>2, <2>3 DEF Gone
<1> QED
  BY <1>4, <1>5 DEF Half

\* It takes an answer.
LEMMA HalfAnswer ==
    ASSUME TypeInv, NEW o \in Ends, NEW e \in Ends, Half(o, e), Rests(o), conn'[e] = conn[e],
           Flight(CPc(e), chan[o], chan[e]), chan[e] # <<>>, Head(chan[e]) \in Answers,
           chan'[e] = Tail(chan[e]),
           \/ CPc(e)' = CPc(e) /\ (CPc(e) # "closewait" \/ Head(chan[e]) \notin Backs)
           \/ CPc(e) = "wait" /\ CPc(e)' \in {"result", "error"}
           \/ CPc(e) = "closewait" /\ CPc(e)' = "closed" /\ Head(chan[e]) \in Backs
    PROVE  Half(o, e)'
<1>1. /\ Opened(o)' <=> Opened(o)
      /\ EndedUp(o)' <=> EndedUp(o)
      /\ job'[o]["writer"] = job[o]["writer"] /\ CPc(o)' = CPc(o)
  BY RestsOpened
<1> SUFFICES ASSUME CPc(o) = "idle"
             PROVE  Live(e)' /\ (((Opened(o) \/ EndedUp(o)) /\ Unanswered(e)') \/ Gone(o, e)')
  BY <1>1 DEF Half
<1>2. Live(e)'
  BY DEF Half, Live
<1>3. chan[e] \in Seq(Stanzas) /\ conn[e].seq \in 0 .. SeqCount - 1
  BY EndTypes DEF ConnType
<1>4. CASE (Opened(o) \/ EndedUp(o)) /\ Unanswered(e)
  <2>1. NoneIn(chan[e], Backs) => NoneIn(Tail(chan[e]), Backs) /\ Head(chan[e]) \notin Backs
    BY <1>3, TailIn
  <2> QED
    BY <1>2, <1>4, <2>1 DEF Unanswered
<1>5. CASE Gone(o, e)
  <2>1. ~conn'[o].stream /\ conn'[o].handlerT /\ serve'[o] # "closing"
    BY <1>5 DEF Gone, Rests
  <2>2. CASE CPc(e) = "failed"
    BY <1>2, <2>1, <2>2, GoneThen
  <2>3. CASE /\ CPc(e) \in {"closewait", "closed", "done"}
             /\ Behind(job[o]["writer"], conn[e].seq, CPc(e), chan[e])
    <3> DEFINE j == job[o]["writer"]
               b == conn[e].seq
               p == CPc(e)
               q == chan[e]
    <3> HIDE DEF j, b, p, q
    <3>1. /\ b \in 0 .. SeqCount - 1 /\ q \in Seq(Stanzas) /\ Behind(j, b, p, q) /\ q # <<>>
          /\ Head(q).kind # "data" /\ (p = "closewait" => OnceIn(q, Backs))
      BY <1>3, <2>3 DEF j, b, p, q, Answers, Flight
    <3>2. /\ p # "closewait" \/ Head(q) \notin Backs => Behind(j, b, p, Tail(q))
          /\ p = "closewait" /\ OnceIn(q, Backs) /\ Head(q) \in Backs => Behind(j, b, "closed", Tail(q))
      BY <3>1, BehindAnswer
    <3>3. \/ CPc(e)' = p /\ (p # "closewait" \/ Head(q) \notin Backs)
          \/ p = "closewait" /\ CPc(e)' = "closed" /\ Head(q) \in Backs
      BY <2>3 DEF p, q
    <3>4. Behind(j, b, CPc(e)', Tail(q)) /\ CPc(e)' \in {"closewait", "closed", "done"}
      BY <2>3, <3>1, <3>2, <3>3 DEF p
    <3>5. Behind(job'[o]["writer"], conn'[e].seq, CPc(e)', chan'[e])
      BY <1>1, <3>4 DEF j, b, q
    <3> QED
      BY <1>2, <2>1, <3>4, <3>5, GoneThen
  <2> QED
    BY <1>5, <2>2, <2>3 DEF Gone
<1> QED
  BY <1>4, <1>5 DEF Half

\* closeNoNotify writes one to three blocks of a buffer that is not empty.
LEMMA EverythingLen ==
    ASSUME params \in Streams, NEW c, GoodConn(c), c.wbuf # <<>>
    PROVE  Len(Numbers(c)) \in 1 .. 3
<1>1. c.wbuf \in Bytes /\ c.fringe \in Bytes /\ Len(c.fringe) <= Group
  BY DEF GoodConn, ConnType
<1> DEFINE f == c.fringe
           b == c.wbuf
           k == Chunks(f, b)
           z == Left(f, b)
           y == closeFlush(z)
<1>2. /\ k \in Seq(Bytes) /\ z \in Bytes /\ Len(k) <= 2
      /\ k = <<>> => z = f \o b
  BY <1>1, Encoder
<1>3. Everything(c) = k \o y
  BY DEF Everything
<1>4. Len(Numbers(c)) = Len(Everything(c))
  BY NumbersTypes
<1>5. f \o b # <<>>
  <2>1. f \in Seq(Nat) /\ b \in Seq(Nat) /\ b # <<>>
    BY <1>1 DEF Bytes
  <2> HIDE DEF f, b
  <2>2. Len(b) \in Nat /\ Len(b) # 0 /\ Len(f) \in Nat /\ Len(f \o b) = Len(f) + Len(b)
    BY <2>1
  <2>3. Len(f \o b) # 0 /\ Len(<<>>) = 0
    BY <2>2
  <2> QED
    BY <2>3
<1> HIDE DEF k, z
<1>6. y \in Seq(Bytes) /\ Len(y) <= 1 /\ Len(y) \in Nat /\ (z # <<>> => Len(y) = 1)
  BY <1>2 DEF closeFlush, NonEmpty
<1> HIDE DEF y
<1>7. Len(k) \in Nat /\ Len(k \o y) = Len(k) + Len(y) /\ (Len(k) = 0 => k = <<>>)
  BY <1>2, <1>6
<1>8. Len(k) = 0 => Len(y) = 1
  BY <1>2, <1>5, <1>6, <1>7
<1>9. Len(Numbers(c)) = Len(k) + Len(y) /\ Len(k) <= 2
  BY <1>2, <1>3, <1>4, <1>7
<1>10. Len(k) \in Nat /\ Len(y) \in Nat /\ Len(y) <= 1
  BY <1>6, <1>7
<1> QED
  BY <1>8, <1>9, <1>10

\* The numbers of the blocks that closeNoNotify writes continue those before,
\* and the chunk the writer was about to send has the number of their first.
LEMMA ClosesApart ==
    ASSUME TypeInv, NEW o \in Ends, NEW e \in Ends, Continues(o, e), CPc(o) = "idle",
           conn[o].wbuf # <<>>, About(job[o]["writer"]), NEW ans \in Seq(Answers),
           NEW s, s = chan[e] \o (Numbers(conn[o]) \o ans)
    PROVE  Apart(job[o]["writer"], conn[e].seq, s, <<>>)
<1> DEFINE n == Numbers(conn[o])
           w == conn[o].wseq
           b == conn[e].seq
           q == chan[e]
           t == Total(q)
           l == Len(n)
           j == job[o]["writer"]
<1>1. Out(o) = 0 /\ j.seq = w
  <2>1. \A r \in Roles : job[o][r].pc \in {"send", "idle"}
    BY DEF Roles, CPc, About
  <2>2. Out(o) = 0
    BY <2>1 DEF Out
  <2>3. "writer" \in Roles /\ Ready(o, "writer")
    BY DEF Roles, Ready, About
  <2> QED
    BY <2>2, <2>3 DEF Continues
<1>2. /\ b \in Nat /\ t \in Nat /\ w \in Nat /\ w \in 0 .. SeqCount - 1 /\ q \in Seq(Stanzas)
      /\ SeqCount \in Nat \ {0}
  BY SeqNat
<1>3. /\ n \in Seq(Stanzas) /\ ans \in Seq(Stanzas) /\ Total(n) = l /\ Numbered(n, w)
      /\ l \in 1 .. 3 /\ l \in Nat
  <2>1. params \in Streams /\ GoodConn(conn[o])
    BY EndTypes
  <2>2. n \in Seq(Stanzas) /\ Total(n) = Len(n) /\ Numbered(n, w)
    BY <2>1, NumbersTypes, AllBlocks
  <2>3. ans \in Seq(Stanzas)
    BY AnswersAre
  <2>4. l \in 1 .. 3
    BY <2>1, EverythingLen
  <2>5. Total(n) = l
    BY <2>2
  <2> HIDE DEF n, l
  <2>6. l \in Nat
    BY <2>4
  <2> QED
    BY <2>2, <2>3, <2>4, <2>5, <2>6
<1>4. (w + 0) % SeqCount = (b + t) % SeqCount /\ Numbered(q, b) /\ t = Blocks(q, Len(q))
  BY <1>1 DEF Continues, Total
<1> HIDE DEF n, w, b, q, t, l, j
<1> DEFINE z == b + t
           u == n \o ans
<1>5. z \in Nat /\ w % SeqCount = z % SeqCount
  <2>1. (w + 0) % SeqCount = w /\ w % SeqCount = w
    BY <1>2, SeqRange
  <2>2. z \in Nat
    BY <1>2
  <2>3. (w + 0) % SeqCount = z % SeqCount
    BY <1>4
  <2> HIDE DEF z
  <2> QED
    BY <2>1, <2>2, <2>3
<1>6. \A i \in DOMAIN ans : ans[i].kind # "data"
  BY AnswersNoData
<1>7. u \in Seq(Stanzas) /\ Total(u) = l
  <2>1. Total(ans) = 0
    BY <1>3, <1>6, NotBlocks
  <2>2. u \in Seq(Stanzas) /\ Total(u) = Total(n) + Total(ans)
    BY <1>3, Joined, TotalJoined
  <2>3. l + 0 = l
    BY <1>3
  <2> QED
    BY <1>3, <2>1, <2>2, <2>3
<1> HIDE DEF z
<1>8. Numbered(u, z)
  <2>1. Numbered(n, z)
    BY <1>2, <1>3, <1>5, NumberedWrap
  <2>2. Numbered(ans, z + Blocks(n, Len(n)))
    BY <1>3, <1>6, NotBlocks
  <2> QED
    BY <1>3, <1>5, <2>1, <2>2, NumberedJoined
<1> HIDE DEF u
<1>9. s = q \o u
  BY DEF q, u, n
<1>10. Numbered(s, b)
  BY <1>2, <1>4, <1>7, <1>8, <1>9, NumberedJoined DEF z
<1>11. Total(s) = t + l
  <2>1. Total(s) = Total(q) + Total(u)
    BY <1>2, <1>7, <1>9, TotalJoined
  <2> QED
    BY <1>7, <2>1 DEF t
<1>12. Off(w, b + Total(s))
  <2>1. (w + l) % SeqCount = (z + l) % SeqCount
    BY <1>2, <1>3, <1>5, SeqAgree
  <2>2. z + l = b + Total(s)
    BY <1>2, <1>3, <1>11 DEF z
  <2> QED
    BY <1>3, <2>1, <2>2 DEF Off
<1>13. Late(<<>>, b + Total(s))
  BY DEF Late
<1> QED
  BY <1>1, <1>10, <1>12, <1>13 DEF Apart, b, j

\* Close is answered once.
LEMMA OneEcho ==
    ASSUME NEW h, h.by = "closer", NEW x \in Seq(Answers), x # <<>>, Echoes(x, h)
    PROVE  Len(x) = 1 /\ x[1] \in Backs
<1>1. Len(x) \in Nat /\ Len(x) # 0 /\ Len(x) <= 1
  BY DEF Echoes
<1>2. Len(x) = 1
  <2>1. PICK l \in Nat : l = Len(x)
    BY <1>1
  <2>2. l # 0 /\ l <= 1
    BY <1>1, <2>1
  <2>3. l = 1
    BY <2>2
  <2> QED
    BY <2>1, <2>3
<1>3. 1 \in DOMAIN x /\ x[1] \in Answers
  BY <1>2
<1>4. x[1].by = "closer"
  BY <1>3 DEF Echoes
<1> QED
  BY <1>2, <1>3, <1>4 DEF Answers, Backs

\* The answer is the last.
LEMMA LastOfTwo ==
    ASSUME NEW v \in Seq(Stanzas), NEW x \in Seq(Stanzas), Len(x) = 1
    PROVE  v \o x \in Seq(Stanzas) /\ v \o x # <<>> /\ (v \o x)[Len(v \o x)] = x[1]
<1>1. /\ v \o x \in Seq(Stanzas) /\ Len(v \o x) = Len(v) + Len(x)
      /\ \A i \in 1 .. Len(v) + Len(x) : (v \o x)[i] = IF i <= Len(v) THEN v[i] ELSE x[i - Len(v)]
  BY ConcatProperties
<1>2. PICK l \in Nat : l = Len(v)
  OBVIOUS
<1>3. l + 1 \in 1 .. l + 1 /\ ~(l + 1 <= l) /\ (l + 1) - l = 1 /\ l + 1 # 0
  BY <1>2
<1>4. Len(v \o x) = l + 1 /\ (v \o x)[l + 1] = x[1]
  BY <1>1, <1>2, <1>3
<1>5. v \o x # <<>>
  <2>1. Len(<<>>) = 0
    OBVIOUS
  <2> QED
    BY <1>3, <1>4, <2>1
<1> QED
  BY <1>1, <1>4, <1>5

\* (Behind two others.)
LEMMA LastOfThree ==
    ASSUME NEW q \in Seq(Stanzas), NEW n \in Seq(Stanzas), NEW x \in Seq(Stanzas), Len(x) = 1
    PROVE  LET s == q \o (n \o x) IN s \in Seq(Stanzas) /\ s # <<>> /\ s[Len(s)] = x[1]
<1>1. q \o n \in Seq(Stanzas)
  BY ConcatProperties
<1>2. q \o (n \o x) = (q \o n) \o x
  <2>1. \A s, t, u \in Seq(Stanzas) : (s \o t) \o u = s \o (t \o u)
    BY ConcatAssociative, SMTT(30)
  <2> QED
    BY <2>1, Zenon
<1>3. PICK v \in Seq(Stanzas) : v = q \o n
  BY <1>1
<1>4. v \o x \in Seq(Stanzas) /\ v \o x # <<>> /\ (v \o x)[Len(v \o x)] = x[1]
  BY LastOfTwo
<1> QED
  BY <1>2, <1>3, <1>4, Zenon

\* An end is closed by the other.
LEMMA HalfCloses ==
    ASSUME BaseInv, SeqInv, FlightInv, NEW o \in Ends, NEW e \in Ends, e = Other(o), Half(o, e),
           closeNoNotify(o)
    PROVE  Half(o, e)' /\ (CPc(o) = "idle" => conn[o].ready)
<1>1. TypeInv /\ serve[o] = "closing" /\ chan[o] # <<>> /\ Head(chan[o]).kind = "close"
  <2>1. TypeInv /\ HeadInv /\ serve[o] = "closing"
    BY DEF BaseInv, closeNoNotify
  <2> QED
    BY <2>1 DEF HeadInv
<1>2. /\ job' = job /\ OnlyConn(o) /\ ~conn'[o].stream /\ conn'[o].handlerT
      /\ \/ conn[o].werr /\ chan' = chan /\ serve'[o] = "ended"
         \/ /\ ~conn[o].werr /\ serve'[o] = "run"
            /\ \E ans \in Seq(Answers) :
                  /\ Takes(o, Numbers(conn[o]) \o ans) /\ Echoes(ans, Head(chan[o]))
                  /\ Head(chan[o]).by # "none" => ans # <<>>
  BY <1>1, CloseNoNotifyFacts
<1>3. conn'[e] = conn[e] /\ CPc(e)' = CPc(e) /\ CPc(o)' = CPc(o) /\ Other(e) = o
  BY <1>2, OtherEnd DEF OnlyConn, CPc
<1> SUFFICES ASSUME CPc(o) = "idle"
             PROVE  /\ Live(e)' /\ (((Opened(o)' \/ EndedUp(o)') /\ Unanswered(e)') \/ Gone(o, e)')
                    /\ conn[o].ready
  BY <1>3 DEF Half
<1>4. Live(e) /\ Opened(o) /\ Unanswered(e)
  BY <1>1 DEF Half, EndedUp, Gone
<1>5. Live(e)' /\ conn[o].ready
  BY <1>3, <1>4 DEF Live, Opened
<1>6. Head(chan[o]).by = "closer" /\ CPc(e) \in {"closewait", "failed"}
  <2>1. Flight(CPc(e), chan[o], chan[e])
    BY <1>3 DEF FlightInv
  <2>2. chan[o] \in Seq(Stanzas)
    BY <1>1, EndTypes
  <2> DEFINE h == Head(chan[o])
  <2>3. h \in Stanzas /\ \A S : NoneIn(chan[o], S) => h \notin S
    <3>1. h \in Stanzas
      BY <1>1, <2>2
    <3> QED
      BY <1>1, <2>2, <3>1, TailIn
  <2> HIDE DEF h
  <2>4. h \in Closings
    BY <1>1, <2>3 DEF h, Closings
  <2>5. h \in Asks
    BY <2>1, <2>3, <2>4 DEF Flight
  <2>6. CPc(e) \in {"wait", "closewait", "failed"} /\ CPc(e) # "wait"
    BY <2>1, <2>3, <2>4, <2>5 DEF Flight
  <2> QED
    BY <2>5, <2>6 DEF Asks, h
<1>7. CASE conn[o].werr /\ chan' = chan /\ serve'[o] = "ended"
  <2>1. EndedUp(o)'
    BY <1>2, <1>7 DEF EndedUp
  <2>2. Unanswered(e)'
    BY <1>3, <1>4, <1>7 DEF Unanswered
  <2> QED
    BY <1>5, <2>1, <2>2
<1>8. CASE /\ ~conn[o].werr /\ serve'[o] = "run"
           /\ \E ans \in Seq(Answers) :
                  /\ Takes(o, Numbers(conn[o]) \o ans) /\ Echoes(ans, Head(chan[o]))
                  /\ Head(chan[o]).by # "none" => ans # <<>>
  <2>1. PICK ans \in Seq(Answers) : /\ Takes(o, Numbers(conn[o]) \o ans) /\ Echoes(ans, Head(chan[o]))
                                   /\ ans # <<>>
    BY <1>6, <1>8
  <2> DEFINE n == Numbers(conn[o])
             q == chan[e]
             s == q \o (n \o ans)
  <2>2. chan'[e] = s
    BY <2>1 DEF Takes
  <2>3. n \in Seq(Stanzas) /\ ans \in Seq(Stanzas) /\ q \in Seq(Stanzas)
    BY <1>1, NumbersPlain, AnswersAre, EndTypes
  <2>4. Len(ans) = 1 /\ ans[1] \in Backs
    BY <1>6, <2>1, OneEcho
  <2>5. s \in Seq(Stanzas) /\ s # <<>> /\ s[Len(s)] \in Backs
    BY <2>3, <2>4, LastOfThree
  <2>6. Apart(job[o]["writer"], conn[e].seq, s, <<>>)
    <3>1. CASE ~About(job[o]["writer"])
      <4>1. NoData(<<>>)
        BY DEF NoData
      <4> QED
        BY <3>1, <4>1 DEF Apart
    <3>2. CASE About(job[o]["writer"])
      <4>1. Busy(o, "writer")
        <5>1. "writer" \in Roles /\ job[o]["writer"].pc \in Working
          BY <3>2 DEF Roles, About, Working
        <5> QED
          BY <1>1, <5>1, BusyWorking
      <4>2. conn[o].wbuf # <<>> /\ ~raced[o] /\ conn[e].stream
        BY <1>4, <4>1 DEF Opened, Live
      <4>3. Continues(o, e)
        BY <1>8, <4>2 DEF SeqInv, Agreement
      <4> QED
        BY <1>1, <3>2, <4>2, <4>3, ClosesApart
    <3> QED
      BY <3>1, <3>2
  <2>7. Behind(job[o]["writer"], conn[e].seq, "closewait", s)
    <3> HIDE DEF s
    <3>1. UpTo("closewait", s)
      BY <2>5 DEF UpTo
    <3>2. <<>> \in Seq(Stanzas) /\ s = s \o <<>>
      BY <2>5
    <3> QED
      BY <2>5, <2>6, <3>1, <3>2 DEF Behind
  <2> HIDE DEF s
  <2>8. Gone(o, e)'
    <3>1. CPc(e)' = "failed" \/ (CPc(e)' = "closewait" /\ Behind(job'[o]["writer"], conn'[e].seq, CPc(e)', chan'[e]))
      BY <1>2, <1>3, <1>6, <2>2, <2>7
    <3>2. serve'[o] # "closing"
      BY <1>8
    <3> QED
      BY <1>2, <3>1, <3>2, GoneThen
  <2> QED
    BY <1>5, <2>8
<1> QED
  BY <1>2, <1>7, <1>8

\* (Both ends.)
LEMMA HalfBoth ==
    ASSUME NEW e \in Ends, Half(e, Other(e))', Half(Other(e), e)'
    PROVE  HalfInv'
<1>1. SUFFICES ASSUME NEW x \in Ends PROVE Half(x, Other(x))'
  BY DEF HalfInv
<1>2. x = e \/ (x = Other(e) /\ Other(x) = e)
  BY OtherEnd
<1> QED
  BY <1>2

\* (Both sides of it.)
LEMMA HalfSides ==
    ASSUME HalfInv, FlightInv, NEW e \in Ends
    PROVE  \E o \in Ends : /\ o = Other(e) /\ Other(o) = e /\ o # e
                           /\ Half(e, o) /\ Half(o, e)
                           /\ Flight(CPc(e), chan[o], chan[e]) /\ Flight(CPc(o), chan[e], chan[o])
<1>1. PICK o \in Ends : o = Other(e) /\ Other(o) = e /\ o # e
  BY OtherEnd
<1> QED
  BY <1>1 DEF HalfInv, FlightInv

\* (What an end that does nothing does.)
LEMMA OtherRests ==
    ASSUME NEW e \in Ends, NEW o \in Ends, o # e, NEW r \in Roles, OnlyConn(e), OnlyJob(e, r),
           serve'[o] = serve[o], raced'[o] = raced[o]
    PROVE  Rests(o)
BY DEF Rests, OnlyConn, OnlyJob

\* Close goes on at one end.
LEMMA CloserActs ==
    ASSUME TypeInv, FlightInv, HalfInv, NEW e \in Ends, OnlyConn(e), OnlyJob(e, "closer"),
           job'[e]["closer"].pc # "idle", Steps(job[e]["closer"].pc, job'[e]["closer"].pc),
           chan'[e] = chan[e], serve' = serve, \A x \in Ends : x # e => raced'[x] = raced[x],
           conn'[e].stream = conn[e].stream, conn'[e].seq = conn[e].seq,
           conn'[e].ready = conn[e].ready \/ job'[e]["closer"].pc = "done"
    PROVE  HalfInv'
<1>1. PICK o \in Ends : /\ o = Other(e) /\ Other(o) = e /\ o # e
                        /\ Half(e, o) /\ Half(o, e)
                        /\ Flight(CPc(e), chan[o], chan[e]) /\ Flight(CPc(o), chan[e], chan[o])
  BY HalfSides
<1>2. "closer" \in Roles
  BY DEF Roles
<1>3. Rests(o)
  BY <1>1, <1>2, OtherRests
<1>4. CPc(e)' = job'[e]["closer"].pc /\ CPc(e) = job[e]["closer"].pc
  BY DEF CPc
<1>5. Half(o, e)'
  BY <1>1, <1>3, <1>4, HalfMoves
<1>6. Half(e, o)'
  BY <1>4 DEF Half
<1> QED
  BY <1>1, <1>5, <1>6, HalfBoth

\* Something else goes on at one end.
LEMMA WriterActs ==
    ASSUME TypeInv, FlightInv, HalfInv, NEW e \in Ends, OnlyConn(e), OnlyJob(e, "writer"),
           CPc(e) = "idle" => Keeps(e) /\ StaysOff(e), chan' = chan,
           \A x \in Ends : x # e => serve'[x] = serve[x] /\ raced'[x] = raced[x],
           conn'[e].stream = conn[e].stream, conn'[e].seq = conn[e].seq,
           conn'[e].ready = conn[e].ready
    PROVE  HalfInv'
<1>1. PICK o \in Ends : /\ o = Other(e) /\ Other(o) = e /\ o # e
                        /\ Half(e, o) /\ Half(o, e)
                        /\ Flight(CPc(e), chan[o], chan[e]) /\ Flight(CPc(o), chan[e], chan[o])
  BY HalfSides
<1>2. "writer" \in Roles
  BY DEF Roles
<1>3. Rests(o)
  BY <1>1, <1>2, OtherRests
<1>4. CPc(e)' = CPc(e) /\ CPc(o)' = CPc(o)
  BY <1>1, <1>2, OtherClosers
<1>5. Half(o, e)'
  BY <1>1, <1>3, <1>4, HalfMoves DEF Steps
<1>6. Half(e, o)'
  <2>1. CASE CPc(e) = "idle"
    <3>1. <<>> \in Seq(Stanzas) /\ chan[o] \o <<>> = chan[o] /\ NoData(<<>>) /\ NoneIn(<<>>, Backs)
      <4>1. chan[o] \in Seq(Stanzas)
        BY EndTypes
      <4> QED
        BY <4>1 DEF NoData, NoneIn
    <3>2. conn'[o] = conn[o]
      BY <1>3 DEF Rests
    <3> QED
      BY <1>1, <1>4, <2>1, <3>1, <3>2, HalfActs
  <2>2. CASE CPc(e) # "idle"
    BY <1>4, <2>2 DEF Half
  <2> QED
    BY <2>1, <2>2
<1> QED
  BY <1>1, <1>5, <1>6, HalfBoth

\* (Where the goroutines do nothing.)
LEMMA NothingActs ==
    ASSUME TypeInv, FlightInv, HalfInv, NEW e \in Ends, OnlyConn(e), Writes(conn'[e], conn[e]),
           conn'[e].closed = conn[e].closed, conn'[e].ready = conn[e].ready,
           conn'[e].seq = conn[e].seq, conn'[e].stream = conn[e].stream,
           job' = job, chan' = chan, raced' = raced,
           \A x \in Ends : x # e => serve'[x] = serve[x],
           serve'[e] = serve[e] \/ (conn[e].stream /\ serve[e] = "run")
    PROVE  HalfInv'
<1>1. OnlyJob(e, "writer")
  BY DEF OnlyJob
<1>2. Keeps(e)
  BY DEF Keeps, Busy, Writes
<1>3. StaysOff(e)
  BY DEF StaysOff
<1> QED
  BY <1>1, <1>2, <1>3, WriterActs

\* The other goroutines of an end that has not called Close race for nothing.
LEMMA RacesNone ==
    ASSUME TypeInv, NEW e \in Ends, NEW ops, Races(e, "writer", ops), CPc(e) = "idle"
    PROVE  raced'[e] => raced[e]
<1>1. "closer" \in Roles /\ job[e]["closer"].pc \notin Working
  BY DEF Roles, CPc, Working
<1>2. job[e]["closer"].todo = <<>>
  BY <1>1, NothingToDo
<1>3. ~\E x \in Roles \ {"writer"} : job[e][x].todo # <<>> /\ job[e][x].op \in ops
  BY <1>2 DEF Roles
<1>4. raced \in [Ends -> BOOLEAN]
  BY DEF TypeInv, RestTypes
<1> QED
  BY <1>3, <1>4 DEF Races

\* A chunk was written, or it failed.
LEMMA ChunkKeeps ==
    ASSUME TypeInv, NEW e \in Ends, Advances(e, "writer") \/ Breaks(e, "writer"),
           job[e]["writer"].pc \in Working, serve' = serve, raced' = raced
    PROVE  Keeps(e) /\ (About(job'[e]["writer"]) => ~conn[e].handlerT)
<1>1. "writer" \in Roles /\ Busy(e, "writer")
  BY BusyWorking DEF Roles
<1>2. /\ Kept(e)
      /\ \/ /\ job'[e]["writer"].pc = "send" /\ job'[e]["writer"].stale = conn[e].handlerT
            /\ conn'[e].wbuf = conn[e].wbuf
         \/ job'[e]["writer"].todo = <<>> /\ job'[e]["writer"].pc # "send"
  BY DEF Advances, Breaks
<1> QED
  BY <1>1, <1>2 DEF Keeps, Kept, Same, Busy, About

\* A close at the head comes from a Close.
LEMMA CloseComes ==
    ASSUME NEW p, NEW a \in Seq(Stanzas), NEW b, Flight(p, a, b), a # <<>>, Head(a).kind = "close"
    PROVE  p # "idle"
<1>1. Head(a) \in Stanzas /\ \A S : NoneIn(a, S) => Head(a) \notin S
  <2>1. Head(a) \in Stanzas
    OBVIOUS
  <2> QED
    BY <2>1, TailIn
<1>2. Head(a) \in Closings
  BY <1>1 DEF Closings
<1> QED
  BY <1>1, <1>2 DEF Flight

\* An end answers no Close that waits while its stream is there.
LEMMA AnswersOthers ==
    ASSUME NEW a \in Seq(Stanzas), NEW b, Flight("closewait", a, b), a # <<>>,
           Head(a).kind = "data", NEW ms \in Seq(Answers), Echoes(ms, Head(a))
    PROVE  NoneIn(ms, Backs)
<1>1. Head(a) \in Stanzas /\ \A S : NoneIn(a, S) => Head(a) \notin S
  <2>1. Head(a) \in Stanzas
    OBVIOUS
  <2> QED
    BY <2>1, TailIn
<1>2. Head(a) \notin Asks \ Closings
  BY <1>1 DEF Flight
<1>3. Head(a).by # "closer"
  BY <1>1, <1>2 DEF Asks, Closings
<1> QED
  BY <1>3 DEF NoneIn, Backs, Echoes

\* A block is sent.
LEMMA SendHalf ==
    ASSUME TypeInv, FlightInv, HalfInv, NEW e \in Ends, Send(e, "writer")
    PROVE  HalfInv'
<1>1. "writer" \in Roles
  BY DEF Roles
<1>2. /\ job[e]["writer"].pc = "send" /\ serve' = serve /\ raced' = raced
      /\ \/ job[e]["writer"].stale /\ chan' = chan /\ Breaks(e, "writer")
         \/ /\ ~job[e]["writer"].stale
            /\ \E m \in Stanzas :
                  /\ m.kind = "data" /\ m.seq = job[e]["writer"].seq /\ SendsOne(e, m)
                  /\ \/ conn' = conn /\ JobMoves(e, "writer") /\ job'[e]["writer"].pc = "wait"
                     \/ Advances(e, "writer")
  BY <1>1, SendFacts
<1>3. CASE chan' = chan /\ Breaks(e, "writer")
  <2>1. OnlyConn(e) /\ OnlyJob(e, "writer") /\ Kept(e)
    BY <1>3 DEF Breaks
  <2>2. Keeps(e) /\ (About(job'[e]["writer"]) => ~conn[e].handlerT)
    BY <1>2, <1>3, ChunkKeeps DEF Working
  <2> QED
    BY <1>2, <1>3, <2>1, <2>2, WriterActs DEF StaysOff, Kept, Same
<1>4. CASE /\ ~job[e]["writer"].stale
           /\ \E m \in Stanzas :
                  /\ m.kind = "data" /\ m.seq = job[e]["writer"].seq /\ SendsOne(e, m)
                  /\ \/ conn' = conn /\ JobMoves(e, "writer") /\ job'[e]["writer"].pc = "wait"
                     \/ Advances(e, "writer")
  <2>1. PICK m \in Stanzas :
                  /\ m.kind = "data" /\ m.seq = job[e]["writer"].seq /\ SendsOne(e, m)
                  /\ \/ conn' = conn /\ JobMoves(e, "writer") /\ job'[e]["writer"].pc = "wait"
                     \/ Advances(e, "writer")
    BY <1>4
  <2>2. PICK o \in Ends : /\ o = Other(e) /\ Other(o) = e /\ o # e
                          /\ Half(e, o) /\ Half(o, e)
                          /\ Flight(CPc(e), chan[o], chan[e]) /\ Flight(CPc(o), chan[e], chan[o])
    BY HalfSides
  <2>3. OnlyConn(e) /\ OnlyJob(e, "writer")
    BY <2>1 DEF OnlyConn, JobMoves, Advances
  <2>4. Keeps(e) /\ (About(job'[e]["writer"]) => ~conn[e].handlerT)
    <3>1. CASE Advances(e, "writer")
      BY <1>2, <3>1, ChunkKeeps DEF Working
    <3>2. CASE conn' = conn /\ JobMoves(e, "writer") /\ job'[e]["writer"].pc = "wait"
      <4>1. Busy(e, "writer")' => Busy(e, "writer")
        BY <3>2 DEF Busy, JobMoves
      <4>2. ~About(job'[e]["writer"])
        BY <3>2 DEF About
      <4> QED
        BY <1>2, <3>2, <4>1, <4>2 DEF Keeps
    <3> QED
      BY <2>1, <3>1, <3>2
  <2>5. About(job[e]["writer"])
    BY <1>2, <1>4 DEF About
  <2>6. CPc(e)' = CPc(e) /\ CPc(o)' = CPc(o)
    BY <1>1, <2>2, <2>3, OtherClosers
  <2>7. conn'[o] = conn[o] /\ chan'[e] = chan[e]
    BY <2>1, <2>2, <2>3 DEF OnlyConn, SendsOne
  <2>8. chan'[o] = chan[o] \o <<m>>
    <3>1. chan'[o] = Append(chan[o], m) /\ chan[o] \in Seq(Stanzas)
      BY <2>1, <2>2, EndTypes DEF SendsOne
    <3>2. Append(chan[o], m) = chan[o] \o <<m>>
      BY <3>1
    <3> QED
      BY <3>1, <3>2
  <2>9. Half(e, o)'
    BY <2>1, <2>2, <2>4, <2>5, <2>6, <2>7, <2>8, HalfSends
  <2>10. Rests(o)
    BY <1>1, <1>2, <2>2, <2>3, OtherRests
  <2>11. /\ conn'[e].stream = conn[e].stream /\ conn'[e].seq = conn[e].seq
         /\ conn'[e].ready = conn[e].ready
    BY <2>1 DEF Advances, Kept, Same
  <2>12. Half(o, e)'
    BY <2>2, <2>6, <2>7, <2>10, <2>11, HalfMoves DEF Steps
  <2> QED
    BY <2>2, <2>9, <2>12, HalfBoth
<1> QED
  BY <1>2, <1>3, <1>4

\* Answers are no blocks.
LEMMA AnswersPlain ==
    ASSUME NEW ms \in Seq(Answers)
    PROVE  ms \in Seq(Stanzas) /\ NoData(ms)
BY AnswersAre, AnswersNoData DEF NoData

\* A block is taken at an end; a closed channel is sent on only if the other
\* end has called Close too.
LEMMA PayloadHalf ==
    ASSUME SeqCount > 3, TypeInv, FlightInv, HalfInv, NEW e \in Ends, handlePayload(e)
    PROVE  /\ HalfInv'
           /\ panic'[e] => panic[e] \/ \A x \in Ends : CPc(x) # "idle"
<1>1. PICK o \in Ends : /\ o = Other(e) /\ Other(o) = e /\ o # e
                        /\ Half(e, o) /\ Half(o, e)
                        /\ Flight(CPc(e), chan[o], chan[e]) /\ Flight(CPc(o), chan[e], chan[o])
  BY HalfSides
<1>2. /\ serve[e] = "run" /\ chan[e] # <<>> /\ Head(chan[e]).kind = "data"
      /\ job' = job /\ raced' = raced /\ serve' = serve
      /\ OnlyConn(e) /\ Writes(conn'[e], conn[e])
      /\ conn'[e].closed = conn[e].closed /\ conn'[e].ready = conn[e].ready
      /\ conn'[e].stream = conn[e].stream
      /\ \/ /\ ~conn[e].stream \/ Head(chan[e]).seq # conn[e].seq
            /\ conn'[e].seq = conn[e].seq /\ panic' = panic
         \/ /\ conn[e].stream /\ Head(chan[e]).seq = conn[e].seq
            /\ conn'[e].seq = NextSeq(conn[e].seq) /\ (panic'[e] => ~conn[e].ready)
  BY PayloadFacts
<1>3. PICK ms \in Seq(Answers) : Takes(e, ms) /\ Echoes(ms, Head(chan[e]))
  BY PayloadFacts
<1>4. Rests(o) /\ CPc(e)' = CPc(e) /\ CPc(o)' = CPc(o)
  BY <1>1, <1>2 DEF Rests, OnlyConn, CPc
<1>5. chan'[e] = Tail(chan[e]) /\ chan'[o] = chan[o] \o ms
  BY <1>1, <1>3 DEF Takes
<1>6. Half(o, e)' /\ (CPc(o) = "idle" /\ Head(chan[e]).seq = conn[e].seq => conn[e].ready)
  BY <1>1, <1>2, <1>4, <1>5, HalfBlock
<1>7. Keeps(e) /\ StaysOff(e)
  BY <1>2 DEF Keeps, Busy, Writes, StaysOff
<1>8. Half(e, o)'
  <2>1. CPc(o) = "closewait" => NoneIn(ms, Backs)
    <3>1. chan[e] \in Seq(Stanzas)
      BY EndTypes
    <3> QED
      BY <1>1, <1>2, <1>3, <3>1, AnswersOthers
  <2>2. conn'[o] = conn[o]
    BY <1>4 DEF Rests
  <2>3. ms \in Seq(Stanzas) /\ NoData(ms)
    BY AnswersPlain
  <2> QED
    BY <1>1, <1>4, <1>5, <1>7, <2>1, <2>2, <2>3, HalfActs
<1>9. ASSUME panic'[e], ~panic[e] PROVE \A x \in Ends : CPc(x) # "idle"
  <2>1. conn[e].stream /\ Head(chan[e]).seq = conn[e].seq /\ ~conn[e].ready
    BY <1>2, <1>9
  <2>2. CPc(o) # "idle"
    BY <1>6, <2>1
  <2>3. CPc(e) # "idle"
    BY <1>1, <1>2, <2>1 DEF Half, Opened, EndedUp, Gone
  <2> QED
    BY <1>1, <2>2, <2>3, OtherEnd
<1> QED
  BY <1>1, <1>6, <1>8, <1>9, HalfBoth

\* A close is handled: at once, or when the handler goes on.
LEMMA HandleCloseHalf ==
    ASSUME TypeInv, FlightInv, HalfInv, NEW e \in Ends, HandleClose(e)
    PROVE  HalfInv'
<1>1. PICK o \in Ends : /\ o = Other(e) /\ Other(o) = e /\ o # e
                        /\ Half(e, o) /\ Half(o, e)
                        /\ Flight(CPc(e), chan[o], chan[e]) /\ Flight(CPc(o), chan[e], chan[o])
  BY HalfSides
<1>2. /\ serve[e] = "run" /\ chan[e] # <<>> /\ Head(chan[e]).kind = "close"
      /\ job' = job /\ raced' = raced /\ conn' = conn
      /\ \/ /\ ~conn[e].stream \/ conn[e].closed
            /\ serve' = serve
            /\ \E ms \in Seq(Answers) : Takes(e, ms) /\ Echoes(ms, Head(chan[e]))
         \/ /\ conn[e].stream /\ ~conn[e].closed /\ chan' = chan /\ serve'[e] = "closing"
            /\ \A x \in Ends : x # e => serve'[x] = serve[x]
  BY HandleCloseFacts
<1>3. CASE /\ ~conn[e].stream \/ conn[e].closed
           /\ serve' = serve
           /\ \E ms \in Seq(Answers) : Takes(e, ms) /\ Echoes(ms, Head(chan[e]))
  <2>1. PICK ms \in Seq(Answers) : Takes(e, ms)
    BY <1>3
  <2>2. CPc(e)' = CPc(e) /\ CPc(o)' = CPc(o)
    BY <1>2 DEF CPc
  <2>3. Half(o, e)'
    <3>1. chan[e] \in Seq(Stanzas)
      BY EndTypes
    <3>2. CPc(o) # "idle"
      BY <1>1, <1>2, <3>1, CloseComes
    <3> QED
      BY <2>2, <3>2 DEF Half
  <2>4. Half(e, o)'
    <3>1. ~Opened(e) /\ ~EndedUp(e)
      BY <1>2, <1>3 DEF Opened, EndedUp
    <3>2. Keeps(e) /\ StaysOff(e)
      BY <1>2, <1>3 DEF Keeps, Busy, StaysOff
    <3>3. ms \in Seq(Stanzas) /\ NoData(ms) /\ chan'[o] = chan[o] \o ms
      BY <1>1, <2>1, AnswersPlain DEF Takes
    <3> QED
      BY <1>1, <1>2, <2>2, <3>1, <3>2, <3>3, HalfActs
  <2> QED
    BY <1>1, <2>3, <2>4, HalfBoth
<1>4. CASE /\ conn[e].stream /\ ~conn[e].closed /\ chan' = chan /\ serve'[e] = "closing"
           /\ \A x \in Ends : x # e => serve'[x] = serve[x]
  <2>1. OnlyConn(e) /\ Writes(conn'[e], conn[e])
    BY <1>2 DEF OnlyConn, Writes
  <2> QED
    BY <1>2, <1>4, <2>1, NothingActs
<1> QED
  BY <1>2, <1>3, <1>4

\* An answer is taken.
LEMMA ServeAnswerHalf ==
    ASSUME TypeInv, FlightInv, HalfInv, NEW e \in Ends, ServeAnswer(e)
    PROVE  HalfInv' /\ (CPc(e)' = "idle" => CPc(e) = "idle")
<1>1. PICK o \in Ends : /\ o = Other(e) /\ Other(o) = e /\ o # e
                        /\ Half(e, o) /\ Half(o, e)
                        /\ Flight(CPc(e), chan[o], chan[e]) /\ Flight(CPc(o), chan[e], chan[o])
  BY HalfSides
<1>2. /\ chan[e] # <<>> /\ Head(chan[e]) \in Answers
      /\ raced' = raced /\ conn' = conn /\ serve' = serve /\ Takes(e, <<>>)
      /\ \/ job' = job /\ job[e][Head(chan[e]).by].pc \notin {"wait", "closewait"}
         \/ \E r \in Roles :
               /\ JobMoves(e, r) /\ r = Head(chan[e]).by
               /\ \/ job[e][r].pc = "wait" /\ job'[e][r].pc \in {"result", "error"}
                  \/ job[e][r].pc = "closewait" /\ job'[e][r].pc = "closed" /\ r = "closer"
  BY ServeAnswerFacts
<1>3. chan[o] \in Seq(Stanzas) /\ chan[o] \o <<>> = chan[o]
  <2>1. chan[o] \in Seq(Stanzas)
    BY EndTypes
  <2> QED
    BY <2>1
<1>4. chan'[e] = Tail(chan[e]) /\ chan'[o] = chan[o] \o <<>>
  BY <1>1, <1>2 DEF Takes
<1>5. <<>> \in Seq(Stanzas) /\ NoData(<<>>) /\ NoneIn(<<>>, Backs)
  BY DEF NoData, NoneIn
<1>6. Rests(o) /\ CPc(o)' = CPc(o)
  BY <1>1, <1>2, RestsOpened DEF Rests, JobMoves, OnlyJob
<1>7. /\ \/ CPc(e)' = CPc(e) /\ (CPc(e) # "closewait" \/ Head(chan[e]) \notin Backs)
         \/ CPc(e) = "wait" /\ CPc(e)' \in {"result", "error"}
         \/ CPc(e) = "closewait" /\ CPc(e)' = "closed" /\ Head(chan[e]) \in Backs
      /\ CPc(e)' = "idle" => CPc(e) = "idle"
      /\ Keeps(e) /\ StaysOff(e)
  <2>1. CASE job' = job /\ job[e][Head(chan[e]).by].pc \notin {"wait", "closewait"}
    <3>1. CPc(e)' = CPc(e) /\ (CPc(e) # "closewait" \/ Head(chan[e]) \notin Backs)
      BY <2>1 DEF CPc, Backs
    <3>2. Keeps(e) /\ StaysOff(e)
      BY <1>2, <2>1 DEF Keeps, StaysOff, Busy
    <3> QED
      BY <3>1, <3>2
  <2>2. ASSUME NEW r \in Roles, JobMoves(e, r), r = Head(chan[e]).by,
               \/ job[e][r].pc = "wait" /\ job'[e][r].pc \in {"result", "error"}
               \/ job[e][r].pc = "closewait" /\ job'[e][r].pc = "closed" /\ r = "closer"
        PROVE  /\ \/ CPc(e)' = CPc(e) /\ (CPc(e) # "closewait" \/ Head(chan[e]) \notin Backs)
                  \/ CPc(e) = "wait" /\ CPc(e)' \in {"result", "error"}
                  \/ CPc(e) = "closewait" /\ CPc(e)' = "closed" /\ Head(chan[e]) \in Backs
               /\ CPc(e)' = "idle" => CPc(e) = "idle"
               /\ Keeps(e) /\ StaysOff(e)
    <3>1. OnlyJob(e, r)
      BY <2>2 DEF JobMoves
    <3>2. CASE r = "writer"
      <4>1. CPc(e)' = CPc(e) /\ Head(chan[e]) \notin Backs
        BY <2>2, <3>1, <3>2, OtherClosers DEF Backs
      <4>2. Busy(e, "writer")' <=> Busy(e, "writer")
        BY <2>2, <3>2 DEF JobMoves, Busy
      <4>3. ~About(job'[e]["writer"])
        BY <2>2, <3>2 DEF About
      <4> QED
        BY <1>2, <4>1, <4>2, <4>3 DEF Keeps, StaysOff
    <3>3. CASE r = "closer"
      <4>1. job'[e]["writer"] = job[e]["writer"]
        BY <3>1, <3>3 DEF OnlyJob, Roles
      <4>2. Keeps(e) /\ StaysOff(e)
        BY <1>2, <4>1 DEF Keeps, StaysOff, Busy
      <4>3. Head(chan[e]) \in Backs
        BY <1>2, <2>2, <3>3 DEF Answers, Backs
      <4>4. CPc(e)' = job'[e][r].pc /\ CPc(e) = job[e][r].pc
        BY <3>3 DEF CPc
      <4> QED
        BY <2>2, <4>2, <4>3, <4>4
    <3> QED
      BY <3>2, <3>3 DEF Roles
  <2> QED
    BY <1>2, <2>1, <2>2
<1>8. Half(o, e)'
  BY <1>1, <1>2, <1>4, <1>6, <1>7, HalfAnswer
<1>9. Half(e, o)'
  <2>1. CASE CPc(e)' = CPc(e)
    BY <1>1, <1>2, <1>4, <1>5, <1>6, <1>7, <2>1, HalfActs
  <2>2. CASE CPc(e)' # CPc(e)
    <3>1. CPc(e)' # "idle"
      BY <1>7, <2>2
    <3> QED
      BY <3>1 DEF Half
  <2> QED
    BY <2>1, <2>2
<1> QED
  BY <1>1, <1>7, <1>8, <1>9, HalfBoth

\* closeNoNotify runs at an end; it closes a closed channel only if both ends
\* have called Close.
LEMMA CloseNoNotifyHalf ==
    ASSUME BaseInv, SeqInv, FlightInv, HalfInv, NEW e \in Ends, closeNoNotify(e)
    PROVE  /\ HalfInv'
           /\ panic'[e] => panic[e] \/ \A x \in Ends : CPc(x) # "idle"
<1>1. PICK o \in Ends : /\ o = Other(e) /\ Other(o) = e /\ o # e
                        /\ Half(e, o) /\ Half(o, e)
                        /\ Flight(CPc(e), chan[o], chan[e]) /\ Flight(CPc(o), chan[e], chan[o])
  BY HalfSides
<1>2. TypeInv /\ chan[e] # <<>> /\ Head(chan[e]).kind = "close"
  <2>1. TypeInv /\ HeadInv /\ serve[e] = "closing"
    BY DEF BaseInv, closeNoNotify
  <2> QED
    BY <2>1 DEF HeadInv
<1>3. chan[e] \in Seq(Stanzas)
  BY <1>2, EndTypes
<1>4. CPc(o) # "idle"
  BY <1>1, <1>2, <1>3, CloseComes
<1>5. job' = job /\ (panic'[e] => panic[e] \/ ~conn[e].ready)
  BY <1>2, CloseNoNotifyFacts
<1>6. Half(o, e)'
  BY <1>4, <1>5 DEF Half, CPc
<1>7. Half(e, o)' /\ (CPc(e) = "idle" => conn[e].ready)
  BY <1>1, HalfCloses
<1>8. ASSUME ~conn[e].ready PROVE \A x \in Ends : CPc(x) # "idle"
  BY <1>1, <1>4, <1>7, <1>8, OtherEnd
<1> QED
  BY <1>1, <1>5, <1>6, <1>7, <1>8, HalfBoth

\* Close is called once, and a channel is used after it was closed only then.
Onward ==
    /\ \A x \in Ends : CPc(x)' = "idle" => CPc(x) = "idle"
    /\ \A x \in Ends : panic'[x] => panic[x] \/ \A y \in Ends : CPc(y) # "idle"

\* (Where only the goroutine r of e goes on.)
LEMMA OnwardOne ==
    ASSUME NEW e \in Ends, NEW r \in Roles, OnlyJob(e, r), panic' = panic,
           r = "closer" => job'[e]["closer"].pc # "idle"
    PROVE  Onward
<1>1. \A x \in Ends : x = e \/ x = Other(e)
  BY OtherEnd
<1>2. CPc(Other(e))' = CPc(Other(e)) /\ (CPc(e)' = "idle" => CPc(e) = "idle")
  BY OtherClosers DEF Roles
<1> QED
  BY <1>1, <1>2 DEF Onward

\* (Where none does.)
LEMMA OnwardNone ==
    ASSUME NEW e \in Ends, job' = job, \A x \in Ends : x # e => panic'[x] = panic[x],
           panic'[e] => panic[e] \/ \A y \in Ends : CPc(y) # "idle"
    PROVE  Onward
BY DEF Onward, CPc

\* Every step keeps it.
LEMMA HalfStep ==
    ASSUME SeqCount > 3, BaseInv, SeqInv, FlightInv, HalfInv, Next
    PROVE  HalfInv' /\ Onward
<1>1. TypeInv /\ "closer" \in Roles /\ "writer" \in Roles
  BY DEF BaseInv, Roles
<1>2. PICK e \in Ends :
             \/ Write(e) \/ Flush(e)
             \/ Close(e) \/ CloseSet(e) \/ CloseTail(e) \/ CloseNotify(e) \/ CloseTimeout(e)
             \/ CloseDone(e)
             \/ \E r \in Roles : Lock(e, r) \/ Send(e, r) \/ Answered(e, r) \/ Timeout(e, r)
             \/ Read(e) \/ Receive(e) \/ \E max \in Limits : SetReadBuffer(e, max)
             \/ handlePayload(e) \/ HandleClose(e) \/ closeNoNotify(e) \/ ServeAnswer(e)
  BY NextCases
<1>3. Other(e) \in Ends /\ Other(e) # e
  BY OtherEnd
<1>4. ASSUME conn' = conn PROVE OnlyConn(e)
  BY <1>4 DEF OnlyConn
<1>5. CASE Write(e) \/ Flush(e)
  <2>1. /\ JobMoves(e, "writer") /\ job[e]["writer"].pc = "idle" /\ job'[e]["writer"].pc = "lock"
        /\ conn' = conn /\ chan' = chan /\ serve' = serve /\ raced' = raced /\ panic' = panic
    BY <1>1, <1>5, BeginFacts
  <2>2. OnlyJob(e, "writer") /\ (Busy(e, "writer")' <=> Busy(e, "writer"))
    BY <2>1 DEF JobMoves, Busy
  <2>3. Keeps(e) /\ StaysOff(e)
    BY <2>1, <2>2 DEF Keeps, StaysOff, About
  <2> QED
    BY <1>1, <1>4, <2>1, <2>2, <2>3, WriterActs, OnwardOne
<1>6. CASE Close(e)
  <2>1. /\ OnlyJob(e, "closer") /\ job[e]["closer"].pc = "idle"
        /\ job'[e]["closer"].pc \in {"noop", "set"}
        /\ conn' = conn /\ chan' = chan /\ serve' = serve /\ raced' = raced /\ panic' = panic
    BY <1>1, <1>6, CloseFacts DEF JobMoves
  <2>2. Steps(job[e]["closer"].pc, job'[e]["closer"].pc) /\ job'[e]["closer"].pc # "idle"
    BY <2>1 DEF Steps
  <2> QED
    BY <1>1, <1>4, <2>1, <2>2, CloserActs, OnwardOne
<1>7. CASE CloseSet(e)
  <2>1. /\ OnlyJob(e, "closer") /\ job[e]["closer"].pc = "set" /\ job'[e]["closer"].pc = "lock"
        /\ OnlyConn(e) /\ conn'[e] = [conn[e] EXCEPT !.closed = TRUE]
        /\ chan' = chan /\ serve' = serve /\ raced' = raced /\ panic' = panic
    BY <1>1, <1>7, CloseSetFacts DEF JobMoves
  <2>2. Steps(job[e]["closer"].pc, job'[e]["closer"].pc) /\ job'[e]["closer"].pc # "idle"
    BY <2>1 DEF Steps
  <2>3. conn[e] \in ConnType
    BY <1>1, EndTypes
  <2>4. /\ conn'[e].stream = conn[e].stream /\ conn'[e].seq = conn[e].seq
        /\ conn'[e].ready = conn[e].ready
    BY <2>1, <2>3 DEF ConnType
  <2> QED
    BY <1>1, <2>1, <2>2, <2>4, CloserActs, OnwardOne
<1>8. CASE CloseTail(e)
  <2>1. /\ OnlyJob(e, "closer") /\ conn' = conn /\ job[e]["closer"].pc = "tail"
        /\ chan' = chan /\ serve' = serve /\ panic' = panic /\ Races(e, "closer", Ops)
        /\ job'[e]["closer"].pc \in {"notify", "failed", "send"}
    BY <1>1, <1>8, CloseTailFacts
  <2>2. Steps(job[e]["closer"].pc, job'[e]["closer"].pc) /\ job'[e]["closer"].pc # "idle"
    BY <2>1 DEF Steps
  <2>3. \A x \in Ends : x # e => raced'[x] = raced[x]
    BY <1>1, <2>1, RacesEffect
  <2> QED
    BY <1>1, <1>4, <2>1, <2>2, <2>3, CloserActs, OnwardOne
<1>9. CASE CloseNotify(e)
  <2>1. /\ OnlyJob(e, "closer") /\ job[e]["closer"].pc = "notify"
        /\ job'[e]["closer"].pc = "closewait"
        /\ conn' = conn /\ serve' = serve /\ raced' = raced /\ panic' = panic
    BY <1>1, <1>9, CloseNotifyFacts DEF JobMoves
  <2>2. \E m \in Stanzas : SendsOne(e, m)
    BY <1>1, <1>9, CloseNotifyFacts
  <2>3. Steps(job[e]["closer"].pc, job'[e]["closer"].pc) /\ job'[e]["closer"].pc # "idle"
    BY <2>1 DEF Steps
  <2>4. chan'[e] = chan[e]
    BY <1>3, <2>2 DEF SendsOne
  <2> QED
    BY <1>1, <1>4, <2>1, <2>3, <2>4, CloserActs, OnwardOne
<1>10. CASE CloseTimeout(e)
  <2>1. /\ OnlyJob(e, "closer") /\ job[e]["closer"].pc = "closewait"
        /\ job'[e]["closer"].pc = "failed"
        /\ conn' = conn /\ chan' = chan /\ serve' = serve /\ raced' = raced /\ panic' = panic
    BY <1>1, <1>10, CloseTimeoutFacts
  <2>2. Steps(job[e]["closer"].pc, job'[e]["closer"].pc) /\ job'[e]["closer"].pc # "idle"
    BY <2>1 DEF Steps
  <2> QED
    BY <1>1, <1>4, <2>1, <2>2, CloserActs, OnwardOne
<1>11. CASE CloseDone(e)
  <2>1. /\ OnlyJob(e, "closer") /\ job[e]["closer"].pc = "closed" /\ job'[e]["closer"].pc = "done"
        /\ OnlyConn(e) /\ conn'[e].seq = conn[e].seq /\ conn'[e].stream = conn[e].stream
        /\ chan' = chan /\ serve' = serve /\ raced' = raced
        /\ \A x \in Ends : x # e => panic'[x] = panic[x]
        /\ panic'[e] => panic[e] \/ ~conn[e].ready
    BY <1>1, <1>11, CloseDoneFacts DEF JobMoves
  <2>2. Steps(job[e]["closer"].pc, job'[e]["closer"].pc)
    BY <2>1 DEF Steps
  <2>3. HalfInv'
    BY <1>1, <2>1, <2>2, CloserActs
  <2>4. CPc(e) = "closed" /\ CPc(e)' = "done" /\ CPc(Other(e))' = CPc(Other(e))
    BY <1>1, <2>1, OtherClosers DEF CPc
  <2>5. \A x \in Ends : x = e \/ x = Other(e)
    BY OtherEnd
  <2>6. ASSUME ~conn[e].ready PROVE \A y \in Ends : CPc(y) # "idle"
    <3>1. Half(Other(e), e)
      BY HalfSides
    <3>2. CPc(Other(e)) # "idle"
      BY <2>4, <2>6, <3>1 DEF Half, Live
    <3> QED
      BY <2>4, <2>5, <3>2
  <2> QED
    BY <2>1, <2>3, <2>4, <2>5, <2>6 DEF Onward
<1>12. CASE Lock(e, "writer")
  <2>1. /\ OnlyConn(e) /\ OnlyJob(e, "writer") /\ Kept(e) /\ Races(e, "writer", {"tail"})
        /\ chan' = chan /\ serve' = serve /\ panic' = panic
        /\ \/ job'[e]["writer"].todo = <<>> /\ job'[e]["writer"].pc # "send"
           \/ /\ job'[e]["writer"].stale = conn[e].handlerT
              /\ conn'[e].wbuf = conn[e].wbuf /\ conn[e].wbuf # <<>>
    BY <1>1, <1>12, LockFacts
  <2>2. \A x \in Ends : x # e => raced'[x] = raced[x]
    BY <1>1, <2>1, RacesEffect
  <2>3. ASSUME CPc(e) = "idle" PROVE Keeps(e)
    <3>1. raced'[e] => raced[e]
      BY <1>1, <2>1, <2>3, RacesNone
    <3> QED
      BY <2>1, <3>1 DEF Keeps, Kept, Same, Busy
  <2>4. StaysOff(e)
    BY <2>1 DEF StaysOff, About
  <2>5. /\ conn'[e].stream = conn[e].stream /\ conn'[e].seq = conn[e].seq
        /\ conn'[e].ready = conn[e].ready
    BY <2>1 DEF Kept, Same
  <2> QED
    BY <1>1, <2>1, <2>2, <2>3, <2>4, <2>5, WriterActs, OnwardOne
<1>13. CASE Lock(e, "closer")
  <2>1. /\ OnlyConn(e) /\ OnlyJob(e, "closer") /\ Kept(e) /\ Races(e, "closer", {"tail"})
        /\ chan' = chan /\ serve' = serve /\ panic' = panic /\ job[e]["closer"].pc = "lock"
        /\ job'[e]["closer"].pc \in {"tail", "notify", "failed", "send"}
    BY <1>1, <1>13, LockFacts
  <2>2. \A x \in Ends : x # e => raced'[x] = raced[x]
    BY <1>1, <2>1, RacesEffect
  <2>3. Steps(job[e]["closer"].pc, job'[e]["closer"].pc) /\ job'[e]["closer"].pc # "idle"
    BY <2>1 DEF Steps
  <2>4. /\ conn'[e].stream = conn[e].stream /\ conn'[e].seq = conn[e].seq
        /\ conn'[e].ready = conn[e].ready
    BY <2>1 DEF Kept, Same
  <2> QED
    BY <1>1, <2>1, <2>2, <2>3, <2>4, CloserActs, OnwardOne
<1>14. ASSUME chan'[e] = chan[e], serve' = serve, raced' = raced, panic' = panic,
              job[e]["closer"].pc \in Working, Advances(e, "closer") \/ Breaks(e, "closer")
       PROVE  HalfInv' /\ Onward
  <2>1. /\ OnlyConn(e) /\ OnlyJob(e, "closer") /\ Kept(e)
        /\ job'[e]["closer"].pc \in {"tail", "notify", "failed", "send"}
    BY <1>14 DEF Advances, Breaks
  <2>2. Steps(job[e]["closer"].pc, job'[e]["closer"].pc) /\ job'[e]["closer"].pc # "idle"
    BY <1>14, <2>1 DEF Steps, Working
  <2>3. /\ conn'[e].stream = conn[e].stream /\ conn'[e].seq = conn[e].seq
        /\ conn'[e].ready = conn[e].ready
    BY <2>1 DEF Kept, Same
  <2> QED
    BY <1>1, <1>14, <2>1, <2>2, <2>3, CloserActs, OnwardOne
<1>15. ASSUME chan' = chan, serve' = serve, raced' = raced, panic' = panic,
              job[e]["writer"].pc \in Working, Advances(e, "writer") \/ Breaks(e, "writer")
       PROVE  HalfInv' /\ Onward
  <2>1. OnlyConn(e) /\ OnlyJob(e, "writer") /\ Kept(e)
    BY <1>15 DEF Advances, Breaks
  <2>2. Keeps(e) /\ StaysOff(e)
    BY <1>1, <1>15, ChunkKeeps DEF StaysOff
  <2>3. /\ conn'[e].stream = conn[e].stream /\ conn'[e].seq = conn[e].seq
        /\ conn'[e].ready = conn[e].ready
    BY <2>1 DEF Kept, Same
  <2> QED
    BY <1>1, <1>15, <2>1, <2>2, <2>3, WriterActs, OnwardOne
<1>16. CASE Send(e, "writer")
  <2>1. panic' = panic /\ OnlyJob(e, "writer")
    BY <1>1, <1>16, SendFacts DEF Breaks, Advances, JobMoves
  <2> QED
    BY <1>1, <1>16, <2>1, SendHalf, OnwardOne
<1>17. CASE Send(e, "closer")
  <2>1. /\ job[e]["closer"].pc = "send" /\ serve' = serve /\ panic' = panic /\ raced' = raced
        /\ \/ chan' = chan /\ Breaks(e, "closer")
           \/ /\ \E m \in Stanzas : SendsOne(e, m)
              /\ \/ conn' = conn /\ JobMoves(e, "closer") /\ job'[e]["closer"].pc = "wait"
                 \/ Advances(e, "closer")
    BY <1>1, <1>17, SendFacts
  <2>2. chan'[e] = chan[e]
    BY <1>3, <2>1 DEF SendsOne
  <2>3. CASE conn' = conn /\ JobMoves(e, "closer") /\ job'[e]["closer"].pc = "wait"
    <3>1. /\ OnlyJob(e, "closer") /\ OnlyConn(e) /\ job'[e]["closer"].pc # "idle"
          /\ Steps(job[e]["closer"].pc, job'[e]["closer"].pc)
      BY <1>4, <2>1, <2>3 DEF Steps, JobMoves
    <3> QED
      BY <1>1, <2>1, <2>2, <2>3, <3>1, CloserActs, OnwardOne
  <2> QED
    BY <1>14, <2>1, <2>2, <2>3 DEF Working
<1>18. ASSUME NEW r \in Roles, Answered(e, r) \/ Timeout(e, r) PROVE HalfInv' /\ Onward
  <2>1. /\ serve' = serve /\ panic' = panic /\ raced' = raced /\ chan' = chan
        /\ job[e][r].pc \in Working /\ (Advances(e, r) \/ Breaks(e, r))
    BY <1>1, <1>18, AnsweredFacts, TimeoutFacts DEF Working
  <2> QED
    BY <1>14, <1>15, <2>1 DEF Roles
<1>19. CASE Read(e) \/ Receive(e) \/ \E max \in Limits : SetReadBuffer(e, max)
  <2>1. /\ job' = job /\ chan' = chan /\ serve' = serve /\ raced' = raced /\ panic' = panic
        /\ \/ conn' = conn
           \/ /\ OnlyConn(e) /\ Writes(conn'[e], conn[e])
              /\ conn'[e].closed = conn[e].closed /\ conn'[e].ready = conn[e].ready
              /\ conn'[e].seq = conn[e].seq /\ conn'[e].stream = conn[e].stream
    BY <1>1, <1>19, ReadFacts, ReceiveFacts, SetReadBufferFacts
  <2>2. /\ OnlyConn(e) /\ Writes(conn'[e], conn[e])
        /\ conn'[e].closed = conn[e].closed /\ conn'[e].ready = conn[e].ready
        /\ conn'[e].seq = conn[e].seq /\ conn'[e].stream = conn[e].stream
    BY <1>4, <2>1 DEF Writes
  <2>3. HalfInv'
    BY <1>1, <2>1, <2>2, NothingActs
  <2> QED
    BY <2>1, <2>3, OnwardNone
<1>20. CASE handlePayload(e)
  <2>1. job' = job /\ \A x \in Ends : x # e => panic'[x] = panic[x]
    BY <1>1, <1>20, PayloadFacts
  <2> QED
    BY <1>1, <1>20, <2>1, PayloadHalf, OnwardNone
<1>21. CASE HandleClose(e)
  <2>1. job' = job /\ panic' = panic
    BY <1>1, <1>21, HandleCloseFacts
  <2> QED
    BY <1>1, <1>21, <2>1, HandleCloseHalf, OnwardNone
<1>22. CASE closeNoNotify(e)
  <2>1. serve[e] = "closing"
    BY <1>22 DEF closeNoNotify
  <2>2. chan[e] # <<>>
    BY <2>1 DEF BaseInv, HeadInv
  <2>3. job' = job /\ \A x \in Ends : x # e => panic'[x] = panic[x]
    BY <1>1, <1>22, <2>2, CloseNoNotifyFacts
  <2> QED
    BY <1>22, <2>3, CloseNoNotifyHalf, OnwardNone
<1>23. CASE ServeAnswer(e)
  <2>1. panic' = panic
    BY <1>1, <1>23, ServeAnswerFacts
  <2>2. HalfInv' /\ (CPc(e)' = "idle" => CPc(e) = "idle")
    BY <1>1, <1>23, ServeAnswerHalf
  <2>3. \A x \in Ends : x # e => job'[x]["closer"] = job[x]["closer"]
    BY <1>1, <1>23, ServeAnswerFacts DEF JobMoves, OnlyJob
  <2>4. \A x \in Ends : CPc(x)' = "idle" => CPc(x) = "idle"
    BY <2>2, <2>3 DEF CPc
  <2> QED
    BY <2>1, <2>2, <2>4 DEF Onward
<1> QED
  BY <1>2, <1>5, <1>6, <1>7, <1>8, <1>9, <1>10, <1>11, <1>12, <1>13, <1>16, <1>17, <1>18, <1>19,
     <1>20, <1>21, <1>22, <1>23 DEF Roles

\* Both ends begin open, and nothing is asked.
LEMMA CloseInit ==
    ASSUME Init
    PROVE  FlightInv /\ HalfInv /\ PanicOnlyIfBothClose
<1>1. \A e \in Ends : CPc(e) = "idle" /\ chan[e] = <<>> /\ ~Busy(e, "writer") /\ ~panic[e]
  BY DEF Init, CPc, Busy, Roles
<1>2. \A e \in Ends : /\ conn[e].stream /\ ~conn[e].closed /\ ~conn[e].handlerT /\ conn[e].ready
                      /\ ~raced[e]
  BY DEF Init
<1>3. \A S : NoneIn(<<>>, S)
  BY DEF NoneIn
<1>4. Flight("idle", <<>>, <<>>)
  BY <1>3 DEF Flight
<1>5. FlightInv
  BY <1>1, <1>4, OtherEnd DEF FlightInv
<1>6. \A e \in Ends : Opened(e) /\ Live(e) /\ Unanswered(e)
  BY <1>1, <1>2 DEF Opened, Live, Unanswered
<1>7. HalfInv
  BY <1>6, OtherEnd DEF HalfInv, Half
<1> QED
  BY <1>1, <1>5, <1>7 DEF PanicOnlyIfBothClose

\* (Stuttering.)
LEMMA CloseStutter ==
    ASSUME FlightInv, HalfInv, PanicOnlyIfBothClose, UNCHANGED vars
    PROVE  FlightInv' /\ HalfInv' /\ PanicOnlyIfBothClose'
<1>1. /\ conn' = conn /\ job' = job /\ chan' = chan /\ raced' = raced /\ serve' = serve
      /\ panic' = panic
  BY DEF vars, ghostVars
<1>2. FlightInv'
  BY <1>1 DEF FlightInv, CPc
<1>3. HalfInv'
  BY <1>1 DEF HalfInv, Half, Live, Opened, EndedUp, Unanswered, Gone, Busy, CPc
<1> QED
  BY <1>1, <1>2, <1>3 DEF PanicOnlyIfBothClose

\* readReady (ibb/conn.go) is closed by Close and by closeNoNotify and sent on by
\* the handler of blocks, and only the order of things keeps one from following
\* another.  That order is enough while one end does not call Close: its stream
\* is closed once, by the Close of the other end; no second close comes to it,
\* none at all to the other, and no block with the number that is expected
\* follows the answer to Close.  The last needs more than three sequence
\* numbers: closeNoNotify writes up to three blocks from the number that a
\* writer, whom it does not wait for, has already taken for its own.
THEOREM NoPanicFromOneClose ==
    ASSUME SeqCount > 3
    PROVE  Spec => []PanicOnlyIfBothClose
<1> DEFINE Inv == BaseInv /\ SeqInv /\ FlightInv /\ HalfInv /\ PanicOnlyIfBothClose
<1>1. Init => Inv
  BY BaseInit, SeqInit, CloseInit
<1>2. Inv /\ [Next]_vars => Inv'
  <2>1. ASSUME Inv, Next PROVE Inv'
    <3>1. BaseInv' /\ SeqInv' /\ FlightInv' /\ HalfInv' /\ Onward
      BY <2>1, BaseStep, SeqStep, FlightStep, HalfStep
    <3>2. PanicOnlyIfBothClose'
      BY <2>1, <3>1 DEF Onward, PanicOnlyIfBothClose, CPc
    <3> QED
      BY <3>1, <3>2
  <2>2. ASSUME Inv, UNCHANGED vars PROVE Inv'
    BY <2>2, BaseStutter, SeqStutter, CloseStutter DEF BaseInv
  <2> QED
    BY <2>1, <2>2
<1>3. Inv => PanicOnlyIfBothClose
  OBVIOUS
<1> QED
  BY <1>1, <1>2, <1>3, PTL DEF Spec
=============================================================================
