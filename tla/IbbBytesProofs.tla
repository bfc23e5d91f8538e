--------------------------- MODULE IbbBytesProofs ---------------------------
(***************************************************************************)
(* Proofs about the bytes of one in-band bytestream: they arrive in order, *)
(* over IQs without gaps, and the end of the stream is reported only when  *)
(* everything that was flushed has been read.                              *)
(***************************************************************************)
EXTENDS IbbProofs

----------------------------------------------------------------------------
(* Where each byte is.  Bytes are numbered as they are written.            *)

\* The bytes after a up to b, in order and without gaps.
Run(s, a, b) == a <= b /\ Len(s) = b - a /\ \A i \in DOMAIN s : s[i] = a + i
\* The same in chunks, with where each of them ends.
Cuts(cs, a, b) ==
    \E h \in [0 .. Len(cs) -> Nat] :
        /\ h[0] = a /\ h[Len(cs)] = b
        /\ \A i, k \in 0 .. Len(cs) : i <= k => h[i] <= h[k]
        /\ \A i \in DOMAIN cs : Run(cs[i], h[i - 1], h[i])

\* Nothing, one after the other, and a part.
LEMMA RunParts ==
    ASSUME NEW s \in Bytes, NEW t \in Bytes, NEW a \in Nat, NEW b \in Nat, NEW c \in Nat
    PROVE  /\ Run(<<>>, a, a) /\ (s = <<>> /\ Run(s, a, b) => a = b)
           /\ Run(s, a, b) /\ Run(t, b, c) => Run(s \o t, a, c)
           /\ Run(s, a, b) => \A x \in 0 .. Len(s), y \in 0 .. Len(s) :
                 x <= y => Run(SubSeq(s, x + 1, y), a + x, a + y) /\ SubSeq(s, x + 1, y) \in Bytes
<1>1. Run(<<>>, a, a) /\ (s = <<>> /\ Run(s, a, b) => a = b)
  BY DEF Run
<1>2. ASSUME Run(s, a, b), Run(t, b, c)
      PROVE  Run(s \o t, a, c)
  <2>1. s \in Seq(Nat) /\ t \in Seq(Nat)
    BY DEF Bytes
  <2>2. /\ Len(s \o t) = Len(s) + Len(t) /\ DOMAIN (s \o t) = 1 .. Len(s) + Len(t)
        /\ \A i \in 1 .. Len(s) + Len(t) : (s \o t)[i] = IF i <= Len(s) THEN s[i] ELSE t[i - Len(s)]
    BY <2>1, ConcatProperties
  <2>3. Len(s) = b - a /\ Len(t) = c - b /\ a <= b /\ b <= c
    BY <1>2 DEF Run
  <2>4. ASSUME NEW i \in DOMAIN (s \o t)
        PROVE  (s \o t)[i] = a + i
    <3>1. CASE i <= Len(s)
      BY <1>2, <2>1, <2>2, <3>1 DEF Run
    <3>2. CASE ~(i <= Len(s))
      <4>1. i - Len(s) \in DOMAIN t /\ (s \o t)[i] = t[i - Len(s)]
        BY <2>1, <2>2, <3>2
      <4> QED
        BY <1>2, <4>1, <2>1, <2>2, <2>3 DEF Run
    <3> QED
      BY <3>1, <3>2
  <2> QED
    BY <2>2, <2>3, <2>4 DEF Run
<1>3. ASSUME Run(s, a, b), NEW x \in 0 .. Len(s), NEW y \in 0 .. Len(s), x <= y
      PROVE  Run(SubSeq(s, x + 1, y), a + x, a + y) /\ SubSeq(s, x + 1, y) \in Bytes
  <2>1. s \in Seq(Nat) /\ Len(s) \in Nat
    BY DEF Bytes
  <2>2. /\ SubSeq(s, x + 1, y) \in Seq(Nat)
        /\ Len(SubSeq(s, x + 1, y)) = y - x
        /\ \A i \in 1 .. y - x : SubSeq(s, x + 1, y)[i] = s[x + i]
    BY <2>1, <1>3
  <2>3. \A i \in 1 .. y - x : s[x + i] = a + (x + i)
    BY <2>1, <1>3 DEF Run
  <2>4. PICK w \in Seq(Nat) : w = SubSeq(s, x + 1, y)
    BY <2>2
  <2>5. DOMAIN w = 1 .. y - x /\ Len(w) = y - x /\ \A i \in 1 .. y - x : w[i] = (a + x) + i
    <3>1. Len(w) = y - x /\ \A i \in 1 .. y - x : w[i] = s[x + i]
      BY <2>2, <2>4
    <3>2. DOMAIN w = 1 .. y - x
      BY <3>1
    <3>3. \A i \in 1 .. y - x : a + (x + i) = (a + x) + i
      BY <2>1
    <3>4. \A i \in 1 .. y - x : w[i] = a + (x + i)
      BY <3>1, <2>3
    <3> QED
      BY <3>1, <3>2, <3>3, <3>4
  <2>6. a + x <= a + y /\ (a + y) - (a + x) = y - x
    BY <1>3, <2>1
  <2> QED
    BY <2>4, <2>5, <2>6 DEF Run, Bytes
<1> QED
  BY <1>1, <1>2, <1>3

\* No chunk, and one.
LEMMA CutsFew ==
    ASSUME NEW a \in Nat, NEW b \in Nat, NEW s \in Bytes
    PROVE  /\ Cuts(<<>>, a, a) /\ (Cuts(<<>>, a, b) => a = b)
           /\ Run(s, a, b) => Cuts(<<s>>, a, b) /\ Cuts(NonEmpty(s), a, b)
<1>1. Cuts(<<>>, a, a)
  <2>1. [i \in 0 .. 0 |-> a] \in [0 .. Len(<<>>) -> Nat]
    OBVIOUS
  <2>2. Len(<<>>) = 0 /\ [i \in 0 .. 0 |-> a][0] = a /\ DOMAIN <<>> = {}
    OBVIOUS
  <2>3. \A i, k \in 0 .. 0 : [j \in 0 .. 0 |-> a][i] <= [j \in 0 .. 0 |-> a][k]
    OBVIOUS
  <2> QED
    BY <2>1, <2>2, <2>3 DEF Cuts
<1>2. Cuts(<<>>, a, b) => a = b
  BY DEF Cuts
<1>3. ASSUME Run(s, a, b)
      PROVE  Cuts(<<s>>, a, b)
  <2> DEFINE h == [i \in 0 .. 1 |-> IF i = 0 THEN a ELSE b]
  <2>1. h \in [0 .. Len(<<s>>) -> Nat] /\ h[0] = a /\ h[1] = b /\ Len(<<s>>) = 1
    OBVIOUS
  <2>2. a <= b
    BY <1>3 DEF Run
  <2> HIDE DEF h
  <2>3. \A i, k \in 0 .. Len(<<s>>) : i <= k => h[i] <= h[k]
    BY <2>1, <2>2
  <2>4. \A i \in DOMAIN <<s>> : Run(<<s>>[i], h[i - 1], h[i])
    BY <1>3, <2>1
  <2> QED
    BY <2>1, <2>3, <2>4 DEF Cuts
<1>4. s = <<>> /\ Run(s, a, b) => a = b
  BY RunParts
<1> QED
  BY <1>1, <1>2, <1>3, <1>4 DEF NonEmpty

\* Chunks after chunks.
LEMMA CutsJoined ==
    ASSUME NEW x \in Seq(Bytes), NEW y \in Seq(Bytes), NEW a \in Nat, NEW b \in Nat, NEW c \in Nat,
           Cuts(x, a, b), Cuts(y, b, c)
    PROVE  Cuts(x \o y, a, c)
<1>1. PICK g \in [0 .. Len(x) -> Nat] :
        /\ g[0] = a /\ g[Len(x)] = b
        /\ \A i, k \in 0 .. Len(x) : i <= k => g[i] <= g[k]
        /\ \A i \in DOMAIN x : Run(x[i], g[i - 1], g[i])
  BY DEF Cuts
<1>2. PICK h \in [0 .. Len(y) -> Nat] :
        /\ h[0] = b /\ h[Len(y)] = c
        /\ \A i, k \in 0 .. Len(y) : i <= k => h[i] <= h[k]
        /\ \A i \in DOMAIN y : Run(y[i], h[i - 1], h[i])
  BY DEF Cuts
<1>3. PICK n \in Nat : n = Len(x)
  OBVIOUS
<1>4. PICK m \in Nat : m = Len(y)
  OBVIOUS
<1>5. /\ Len(x \o y) = n + m /\ DOMAIN (x \o y) = 1 .. n + m
      /\ \A i \in 1 .. n + m : (x \o y)[i] = IF i <= n THEN x[i] ELSE y[i - n]
  BY <1>3, <1>4, ConcatProperties
<1> DEFINE f == [i \in 0 .. n + m |-> IF i <= n THEN g[i] ELSE h[i - n]]
<1>6. /\ f \in [0 .. n + m -> Nat]
      /\ \A i \in 0 .. n + m : f[i] = IF i <= n THEN g[i] ELSE h[i - n]
  <2>1. \A i \in 0 .. n + m : i <= n => i \in 0 .. Len(x)
    BY <1>3
  <2>2. \A i \in 0 .. n + m : ~(i <= n) => i - n \in 0 .. Len(y)
    BY <1>4
  <2>3. \A i \in 0 .. n + m : (IF i <= n THEN g[i] ELSE h[i - n]) \in Nat
    BY <2>1, <2>2, <1>1, <1>2
  <2> QED
    BY <2>3
<1> HIDE DEF f
<1>7. f[0] = a /\ f[n + m] = c
  <2>1. 0 \in 0 .. n + m /\ n + m \in 0 .. n + m /\ (n + m) - n = m
    OBVIOUS
  <2>2. f[0] = a
    BY <1>1, <1>6, <2>1
  <2>3. CASE m = 0
    BY <1>1, <1>2, <1>3, <1>4, <1>6, <2>1, <2>2, <2>3
  <2>4. CASE m # 0
    <3>1. f[n + m] = h[m]
      BY <1>6, <2>1, <2>4
    <3> QED
      BY <1>2, <1>4, <2>2, <3>1
  <2> QED
    BY <2>3, <2>4
<1>8. ASSUME NEW i \in 0 .. n + m, NEW k \in 0 .. n + m, i <= k
      PROVE  f[i] <= f[k]
  <2>1. CASE k <= n
    BY <1>1, <1>3, <1>6, <1>8, <2>1
  <2>2. CASE ~(i <= n)
    <3>1. i - n \in 0 .. Len(y) /\ k - n \in 0 .. Len(y) /\ i - n <= k - n
      BY <1>4, <1>8, <2>2
    <3>2. h[i - n] <= h[k - n]
      BY <3>1, <1>2
    <3> QED
      BY <3>2, <1>6, <1>8, <2>2
  <2>3. CASE i <= n /\ ~(k <= n)
    <3>1. g[i] <= b
      BY <1>1, <1>3, <2>3
    <3>2. k - n \in 0 .. Len(y) /\ 0 \in 0 .. Len(y)
      BY <1>4, <2>3
    <3>3. b <= h[k - n]
      BY <3>2, <1>2
    <3>4. f[i] = g[i] /\ f[k] = h[k - n] /\ g[i] \in Nat /\ h[k - n] \in Nat
      BY <1>6, <2>3, <3>2, <1>3
    <3> QED
      BY <3>1, <3>3, <3>4
  <2> QED
    BY <2>1, <2>2, <2>3
<1>9. ASSUME NEW i \in DOMAIN (x \o y)
      PROVE  Run((x \o y)[i], f[i - 1], f[i])
  <2>1. CASE i <= n
    <3>1. i \in DOMAIN x /\ i - 1 \in 0 .. n + m /\ i \in 0 .. n + m /\ i - 1 <= n
      BY <1>3, <1>5, <2>1
    <3> QED
      BY <1>1, <1>5, <1>6, <2>1, <3>1
  <2>2. CASE i = n + 1
    <3>1. 1 \in DOMAIN y /\ (x \o y)[i] = y[1] /\ i - 1 = n /\ i - n = 1
      BY <1>4, <1>5, <2>2
    <3>2. Run(y[1], h[0], h[1])
      <4>1. Run(y[1], h[1 - 1], h[1])
        BY <1>2, <3>1
      <4> QED
        BY <4>1
    <3>3. f[i - 1] = b /\ f[i] = h[1]
      <4>1. n \in 0 .. n + m /\ i \in 0 .. n + m /\ n <= n /\ ~(i <= n)
        BY <1>5, <2>2
      <4>2. f[n] = g[n] /\ f[i] = h[i - n]
        BY <4>1, <1>6
      <4> QED
        BY <4>2, <1>1, <1>3, <3>1
    <3> QED
      BY <1>2, <3>1, <3>2, <3>3
  <2>3. CASE i > n + 1
    <3>1. i - n \in DOMAIN y /\ (x \o y)[i] = y[i - n] /\ (i - 1) - n = (i - n) - 1
      BY <1>4, <1>5, <2>3
    <3>2. Run(y[i - n], h[(i - n) - 1], h[i - n])
      BY <1>2, <3>1
    <3>3. f[i - 1] = h[(i - 1) - n] /\ f[i] = h[i - n]
      <4>1. i - 1 \in 0 .. n + m /\ i \in 0 .. n + m /\ ~(i - 1 <= n) /\ ~(i <= n)
        BY <1>5, <2>3
      <4> QED
        BY <4>1, <1>6
    <3> QED
      BY <3>1, <3>2, <3>3
  <2> QED
    BY <1>5, <2>1, <2>2, <2>3, SMTT(30)
<1> QED
  BY <1>5, <1>6, <1>7, <1>8, <1>9 DEF Cuts

\* The first chunk, and the others.
LEMMA CutsTail ==
    ASSUME NEW x \in Seq(Bytes), x # <<>>, NEW a \in Nat, NEW c \in Nat, Cuts(x, a, c)
    PROVE  \E b \in Nat : Run(Head(x), a, b) /\ Cuts(Tail(x), b, c) /\ a <= b /\ b <= c
<1>1. PICK g \in [0 .. Len(x) -> Nat] :
        /\ g[0] = a /\ g[Len(x)] = c
        /\ \A i, k \in 0 .. Len(x) : i <= k => g[i] <= g[k]
        /\ \A i \in DOMAIN x : Run(x[i], g[i - 1], g[i])
  BY DEF Cuts
<1>2. PICK n \in Nat : n + 1 = Len(x)
  <2>1. Len(x) \in Nat /\ Len(x) # 0
    OBVIOUS
  <2> QED
    BY <2>1
<1>3. Len(Tail(x)) = n /\ DOMAIN Tail(x) = 1 .. n /\ \A i \in 1 .. n : Tail(x)[i] = x[i + 1]
  BY <1>2, HeadTailProperties
<1> DEFINE f == [i \in 0 .. n |-> g[i + 1]]
<1>4. f \in [0 .. n -> Nat] /\ \A i \in 0 .. n : f[i] = g[i + 1]
  BY <1>1, <1>2, SMTT(30)
<1> HIDE DEF f
<1>5. f[0] = g[1] /\ f[n] = c /\ g[1] \in Nat
  BY <1>1, <1>2, <1>4
<1>6. ASSUME NEW i \in 0 .. n, NEW k \in 0 .. n, i <= k
      PROVE  f[i] <= f[k]
  <2>1. i + 1 \in 0 .. Len(x) /\ k + 1 \in 0 .. Len(x) /\ i + 1 <= k + 1
    BY <1>2, <1>6
  <2>2. g[i + 1] <= g[k + 1]
    BY <2>1, <1>1
  <2> QED
    BY <2>2, <1>4
<1>7. ASSUME NEW i \in 1 .. n
      PROVE  Run(Tail(x)[i], f[i - 1], f[i])
  <2>1. i + 1 \in DOMAIN x /\ (i + 1) - 1 = i /\ (i - 1) + 1 = i /\ i - 1 \in 0 .. n
    BY <1>2
  <2>2. Run(x[i + 1], g[i], g[i + 1])
    BY <1>1, <2>1
  <2>3. f[i - 1] = g[i] /\ f[i] = g[i + 1]
    BY <1>4, <2>1
  <2> QED
    BY <2>2, <2>3, <1>3
<1>8. Cuts(Tail(x), g[1], c)
  BY <1>3, <1>4, <1>5, <1>6, <1>7 DEF Cuts
<1>9. Run(Head(x), a, g[1])
  <2>1. 1 \in DOMAIN x /\ Head(x) = x[1] /\ 1 - 1 = 0
    BY <1>2
  <2> QED
    BY <1>1, <2>1
<1>10. a <= g[1] /\ g[1] <= c
  BY <1>1, <1>2
<1> QED
  BY <1>5, <1>8, <1>9, <1>10

\* The encoder passes on chunks and keeps what comes after them.
LEMMA EncoderRuns ==
    ASSUME params \in Streams, NEW f \in Bytes, NEW b \in Bytes, Len(f) <= Group,
           NEW p \in Nat, NEW q \in Nat, NEW w \in Nat, Run(f, p, q), Run(b, q, w)
    PROVE  \E x \in Nat : Cuts(Chunks(f, b), p, x) /\ Run(Left(f, b), x, w) /\ x <= w
<1>1. Group \in Nat \ {0}
  BY Parameters
<1>2. PICK s \in Bytes : s = f \o b
  BY Joined DEF Bytes
<1>3. Run(s, p, w)
  BY <1>2, RunParts
<1>4. PICK n \in Nat : n = Len(s)
  BY DEF Bytes
<1>5. n = w - p /\ p <= w
  BY <1>3, <1>4 DEF Run
<1>6. PICK l \in 0 .. n : l = Lead(f, b)
  <2>1. Lead(f, b) \in Nat /\ Lead(f, b) <= Len(f) + Len(b) /\ Len(f) \in Nat /\ Len(b) \in Nat
    BY <1>1 DEF Lead, Bytes
  <2>2. n = Len(f) + Len(b)
    BY <1>2, <1>4, ConcatProperties DEF Bytes
  <2> QED
    BY <2>1, <2>2
<1>7. PICK i \in Nat : i = Inner(f, b) /\ l + i <= n
  <2>1. CASE f # <<>> /\ Lead(f, b) = 0
    BY <2>1, <1>6 DEF Inner
  <2>2. CASE ~(f # <<>> /\ Lead(f, b) = 0)
    <3>1. PICK d \in Nat : d = n - l
      BY <1>6
    <3>2. Group * (d \div Group) \in Nat /\ Group * (d \div Group) <= d
      BY <1>1, <3>1, Division
    <3>3. Inner(f, b) = Group * (d \div Group)
      BY <2>2, <3>1, <1>2, <1>4, <1>6 DEF Inner
    <3> QED
      BY <3>1, <3>2, <3>3, <1>6
  <2> QED
    BY <2>1, <2>2
<1> DEFINE one == SubSeq(s, 1, l)
           two == SubSeq(s, l + 1, l + i)
           rest == SubSeq(s, l + i + 1, n)
<1>8. \A x \in 0 .. n, y \in 0 .. n :
          x <= y => Run(SubSeq(s, x + 1, y), p + x, p + y) /\ SubSeq(s, x + 1, y) \in Bytes
  BY <1>3, <1>4, RunParts
<1>9. Run(one, p, p + l) /\ one \in Bytes
  <2>1. 0 \in 0 .. n /\ l \in 0 .. n /\ 0 <= l /\ p + 0 = p /\ 0 + 1 = 1
    BY <1>6
  <2> QED
    BY <2>1, <1>8
<1>10. Run(two, p + l, p + (l + i)) /\ two \in Bytes
  <2>1. l \in 0 .. n /\ l + i \in 0 .. n /\ l <= l + i
    BY <1>6, <1>7
  <2> QED
    BY <2>1, <1>8
<1>11. Run(rest, p + (l + i), w) /\ rest \in Bytes
  <2>1. l + i \in 0 .. n /\ n \in 0 .. n /\ l + i <= n /\ p + n = w
    BY <1>5, <1>6, <1>7
  <2> QED
    BY <2>1, <1>8
<1>12. p + l \in Nat /\ p + (l + i) \in Nat /\ p + (l + i) <= w
  BY <1>5, <1>6, <1>7
<1>13. Chunks(f, b) = NonEmpty(one) \o NonEmpty(two) /\ Left(f, b) = rest
  BY <1>2, <1>4, <1>6, <1>7 DEF Chunks, Left
<1> HIDE DEF one, two, rest
<1>14. Cuts(NonEmpty(one), p, p + l) /\ Cuts(NonEmpty(two), p + l, p + (l + i))
  BY <1>9, <1>10, <1>12, CutsFew
<1>15. NonEmpty(one) \in Seq(Bytes) /\ NonEmpty(two) \in Seq(Bytes)
  BY <1>9, <1>10 DEF NonEmpty
<1>16. Cuts(NonEmpty(one) \o NonEmpty(two), p, p + (l + i))
  BY <1>12, <1>14, <1>15, CutsJoined
<1> QED
  BY <1>11, <1>12, <1>13, <1>16

\* What closeNoNotify writes is all of it.
LEMMA EverythingRuns ==
    ASSUME params \in Streams, NEW c, GoodConn(c),
           NEW p \in Nat, NEW q \in Nat, NEW w \in Nat, Run(c.fringe, p, q), Run(c.wbuf, q, w)
    PROVE  Cuts(Everything(c), p, w)
<1>1. c.fringe \in Bytes /\ c.wbuf \in Bytes /\ Len(c.fringe) <= Group
  BY DEF GoodConn, ConnType
<1>2. CASE c.wbuf = <<>>
  <2>1. q = w
    BY <1>1, <1>2, RunParts
  <2>2. Cuts(closeFlush(c.fringe), p, w)
    BY <2>1, <1>1, CutsFew DEF closeFlush
  <2>3. closeFlush(c.fringe) \in Seq(Bytes)
    BY <1>1, FlushTypes
  <2>4. Everything(c) = closeFlush(c.fringe)
    BY <1>2, <2>3 DEF Everything
  <2> QED
    BY <2>2, <2>4
<1>3. CASE c.wbuf # <<>>
  <2>1. PICK x \in Nat : Cuts(Chunks(c.fringe, c.wbuf), p, x) /\ Run(Left(c.fringe, c.wbuf), x, w)
    BY <1>1, EncoderRuns
  <2>2. Chunks(c.fringe, c.wbuf) \in Seq(Bytes) /\ Left(c.fringe, c.wbuf) \in Bytes
    BY <1>1, Encoder
  <2>3. Cuts(closeFlush(Left(c.fringe, c.wbuf)), x, w)
    BY <2>1, <2>2, CutsFew DEF closeFlush
  <2>4. closeFlush(Left(c.fringe, c.wbuf)) \in Seq(Bytes)
    BY <2>2, FlushTypes
  <2>5. Everything(c) = Chunks(c.fringe, c.wbuf) \o closeFlush(Left(c.fringe, c.wbuf))
    BY <1>3 DEF Everything
  <2> QED
    BY <2>1, <2>2, <2>3, <2>4, <2>5, CutsJoined
<1> QED
  BY <1>2, <1>3

----------------------------------------------------------------------------
(* What has arrived and what is on its way.                                *)

Rising(s) == \A i, k \in DOMAIN s : i < k => s[i] < s[k]
Before(s, t) == \A i \in DOMAIN s, k \in DOMAIN t : s[i] < t[k]
Within(s, p) == \A i \in DOMAIN s : s[i] <= p
IsData(m) == m.kind = "data"

\* The bytes s have arrived, the blocks in q come after them and after each
\* other, and none is beyond p.
Ordered(s, q, p) ==
    /\ Rising(s) /\ Within(s, p)
    /\ \A i \in DOMAIN q : IsData(q[i]) =>
          Rising(q[i].bytes) /\ Within(q[i].bytes, p) /\ Before(s, q[i].bytes)
    /\ \A i, k \in DOMAIN q : i < k /\ IsData(q[i]) /\ IsData(q[k]) => Before(q[i].bytes, q[k].bytes)

\* There is one block on its way at most, and nothing is missing.
Gapless(s, q, p) ==
    /\ Run(s, 0, Len(s)) /\ Len(s) <= p
    /\ \A i, k \in DOMAIN q : IsData(q[i]) /\ IsData(q[k]) => i = k
    /\ \A i \in DOMAIN q : IsData(q[i]) => Run(q[i].bytes, Len(s), p)
Settled(s, q, p) == NoData(q) /\ Len(s) = p

\* The blocks of z are some of those of q, in the same order.
Thins(z, q) ==
    /\ \A s \in Bytes, p \in Nat : /\ Ordered(s, q, p) => Ordered(s, z, p)
                                   /\ Gapless(s, q, p) => Gapless(s, z, p)
    /\ \A i \in DOMAIN z : IsData(z[i]) => \E k \in DOMAIN q : z[i] = q[k]

\* Something else is added, or something is taken.
LEMMA ThinsAdds ==
    ASSUME NEW q \in Seq(Stanzas), NEW ms \in Seq(Stanzas), NoData(ms)
    PROVE  Thins(q \o ms, q) /\ Thins(q, q)
<1>1. /\ DOMAIN (q \o ms) = 1 .. Len(q) + Len(ms) /\ Len(q) \in Nat /\ Len(ms) \in Nat
      /\ \A i \in 1 .. Len(q) + Len(ms) : (q \o ms)[i] = IF i <= Len(q) THEN q[i] ELSE ms[i - Len(q)]
  BY ConcatProperties
<1>2. ASSUME NEW i \in DOMAIN (q \o ms), IsData((q \o ms)[i])
      PROVE  i \in DOMAIN q /\ (q \o ms)[i] = q[i]
  <2>1. CASE i <= Len(q)
    BY <1>1, <2>1
  <2>2. CASE ~(i <= Len(q))
    <3>1. i - Len(q) \in DOMAIN ms /\ (q \o ms)[i] = ms[i - Len(q)]
      BY <1>1, <2>2
    <3> QED
      BY <3>1, <1>2 DEF NoData, IsData
  <2> QED
    BY <2>1, <2>2
<1> DEFINE z == q \o ms
<1>3. \A i \in DOMAIN z : IsData(z[i]) => i \in DOMAIN q /\ z[i] = q[i]
  BY <1>2
<1> HIDE DEF z
<1>4. ASSUME NEW s \in Bytes, NEW p \in Nat
      PROVE  (Ordered(s, q, p) => Ordered(s, z, p)) /\ (Gapless(s, q, p) => Gapless(s, z, p))
  BY <1>3 DEF Ordered, Gapless
<1>5. Thins(z, q)
  BY <1>3, <1>4 DEF Thins
<1> QED
  BY <1>5 DEF z, Thins

\* (The first is taken.)
LEMMA ThinsTail ==
    ASSUME NEW q \in Seq(Stanzas), q # <<>>
    PROVE  /\ Thins(Tail(q), q)
           /\ (\A i, k \in DOMAIN q : IsData(q[i]) /\ IsData(q[k]) => i = k) /\ IsData(Head(q))
                => NoData(Tail(q))
<1>1. PICK n \in Nat : n + 1 = Len(q)
  <2>1. Len(q) \in Nat /\ Len(q) # 0
    OBVIOUS
  <2> QED
    BY <2>1
<1>2. /\ DOMAIN Tail(q) = 1 .. n /\ DOMAIN q = 1 .. n + 1 /\ Head(q) = q[1]
      /\ \A i \in 1 .. n : Tail(q)[i] = q[i + 1] /\ i + 1 \in DOMAIN q
  BY <1>1, HeadTailProperties
<1> DEFINE z == Tail(q)
<1>3. /\ DOMAIN z = 1 .. n
      /\ \A i \in DOMAIN z : z[i] = q[i + 1] /\ i + 1 \in DOMAIN q
  BY <1>2
<1> HIDE DEF z
<1>4. ASSUME NEW s \in Bytes, NEW p \in Nat, Ordered(s, q, p)
      PROVE  Ordered(s, z, p)
  <2>1. \A i, k \in DOMAIN z : i < k => i + 1 < k + 1
    BY <1>3
  <2> QED
    BY <1>3, <1>4, <2>1 DEF Ordered
<1>5. ASSUME NEW s \in Bytes, NEW p \in Nat, Gapless(s, q, p)
      PROVE  Gapless(s, z, p)
  <2>1. \A i, k \in DOMAIN z : i + 1 = k + 1 => i = k
    BY <1>3
  <2> QED
    BY <1>3, <1>5, <2>1 DEF Gapless
<1>6. Thins(z, q)
  BY <1>3, <1>4, <1>5 DEF Thins
<1>7. ASSUME \A i, k \in DOMAIN q : IsData(q[i]) /\ IsData(q[k]) => i = k, IsData(Head(q))
      PROVE  NoData(z)
  <2>1. \A i \in DOMAIN z : i + 1 # 1 /\ 1 \in DOMAIN q
    BY <1>2, <1>3
  <2> QED
    BY <1>2, <1>3, <1>7, <2>1 DEF NoData, IsData
<1> QED
  BY <1>6, <1>7 DEF z

\* The first block arrives.
LEMMA OrderedArrives ==
    ASSUME NEW s \in Bytes, NEW q \in Seq(Stanzas), q # <<>>, NEW p \in Nat, IsData(Head(q)),
           Ordered(s, q, p)
    PROVE  Ordered(s \o Head(q).bytes, Tail(q), p)
<1>1. PICK n \in Nat : n + 1 = Len(q)
  <2>1. Len(q) \in Nat /\ Len(q) # 0
    OBVIOUS
  <2> QED
    BY <2>1
<1>2. /\ DOMAIN Tail(q) = 1 .. n /\ DOMAIN q = 1 .. n + 1 /\ Head(q) = q[1]
      /\ \A i \in 1 .. n : Tail(q)[i] = q[i + 1] /\ i + 1 \in DOMAIN q
  BY <1>1, HeadTailProperties
<1>3. PICK t \in Bytes : t = Head(q).bytes
  BY <1>2 DEF Stanzas, StanzaType
<1>4. /\ DOMAIN (s \o t) = 1 .. Len(s) + Len(t) /\ Len(s) \in Nat /\ Len(t) \in Nat
      /\ DOMAIN s = 1 .. Len(s) /\ DOMAIN t = 1 .. Len(t)
      /\ \A i \in 1 .. Len(s) + Len(t) : (s \o t)[i] = IF i <= Len(s) THEN s[i] ELSE t[i - Len(s)]
  BY ConcatProperties DEF Bytes
<1>5. Rising(t) /\ Within(t, p) /\ Before(s, t) /\ Rising(s) /\ Within(s, p)
  BY <1>2, <1>3 DEF Ordered
<1>6. \A i \in DOMAIN (s \o t) : \/ i \in DOMAIN s /\ (s \o t)[i] = s[i]
                                 \/ /\ i - Len(s) \in DOMAIN t /\ (s \o t)[i] = t[i - Len(s)]
                                    /\ i \notin DOMAIN s
  BY <1>4
<1>7. Within(s \o t, p)
  BY <1>5, <1>6 DEF Within
<1>8. ASSUME NEW i \in DOMAIN (s \o t), NEW k \in DOMAIN (s \o t), i < k
      PROVE  (s \o t)[i] < (s \o t)[k]
  <2>1. CASE k \in DOMAIN s
    BY <1>4, <1>5, <1>8, <2>1 DEF Rising
  <2>2. CASE k \notin DOMAIN s /\ i \in DOMAIN s
    BY <1>4, <1>5, <1>6, <1>8, <2>2 DEF Before
  <2>3. CASE k \notin DOMAIN s /\ i \notin DOMAIN s
    <3>1. i - Len(s) \in DOMAIN t /\ k - Len(s) \in DOMAIN t /\ i - Len(s) < k - Len(s)
      BY <1>4, <1>8, <2>3
    <3> QED
      BY <1>5, <1>6, <2>3, <3>1 DEF Rising
  <2> QED
    BY <2>1, <2>2, <2>3
<1>9. ASSUME NEW k \in 1 .. n, IsData(Tail(q)[k])
      PROVE  Before(s \o t, Tail(q)[k].bytes)
  <2>1. k + 1 \in DOMAIN q /\ 1 \in DOMAIN q /\ 1 < k + 1 /\ Tail(q)[k] = q[k + 1]
    BY <1>2
  <2>2. Before(s, q[k + 1].bytes) /\ Before(t, q[k + 1].bytes)
    BY <1>2, <1>3, <1>9, <2>1 DEF Ordered
  <2> QED
    BY <1>6, <2>1, <2>2 DEF Before
<1>10. Ordered(s, Tail(q), p)
  BY ThinsTail DEF Thins
<1>11. Rising(s \o t)
  BY <1>8 DEF Rising
<1> QED
  BY <1>2, <1>3, <1>7, <1>9, <1>10, <1>11 DEF Ordered

\* (And nothing is missing then.)
LEMMA GaplessArrives ==
    ASSUME NEW s \in Bytes, NEW q \in Seq(Stanzas), q # <<>>, NEW p \in Nat, IsData(Head(q)),
           Gapless(s, q, p)
    PROVE  /\ Gapless(s \o Head(q).bytes, Tail(q), p) /\ Settled(s \o Head(q).bytes, Tail(q), p)
           /\ NoData(Tail(q))
<1>1. NoData(Tail(q))
  BY ThinsTail DEF Gapless
<1>2. 1 \in DOMAIN q /\ Head(q) = q[1]
  <2>1. Len(q) \in Nat /\ Len(q) # 0
    OBVIOUS
  <2> QED
    BY <2>1
<1>3. PICK t \in Bytes : t = Head(q).bytes
  BY <1>2 DEF Stanzas, StanzaType
<1>4. Run(s, 0, Len(s)) /\ Run(t, Len(s), p) /\ Len(s) \in Nat
  BY <1>2, <1>3 DEF Gapless, Bytes
<1>5. Run(s \o t, 0, p)
  BY <1>4, RunParts
<1>6. Len(s \o t) = p
  BY <1>5 DEF Run
<1> QED
  BY <1>1, <1>3, <1>5, <1>6 DEF Gapless, Settled, NoData, IsData

\* Chunks that follow all of it are sent.
LEMMA OrderedSends ==
    ASSUME NEW s \in Bytes, NEW q \in Seq(Stanzas), NEW p \in Nat, NEW x \in Nat,
           NEW cs \in Seq(Bytes), Cuts(cs, p, x), NEW ms \in Seq(Stanzas), Len(ms) = Len(cs),
           \A i \in DOMAIN ms : ms[i].bytes = cs[i], Ordered(s, q, p)
    PROVE  Ordered(s, q \o ms, x) /\ p <= x
<1>1. PICK h \in [0 .. Len(cs) -> Nat] :
        /\ h[0] = p /\ h[Len(cs)] = x
        /\ \A i, k \in 0 .. Len(cs) : i <= k => h[i] <= h[k]
        /\ \A i \in DOMAIN cs : Run(cs[i], h[i - 1], h[i])
  BY DEF Cuts
<1>2. PICK n \in Nat : n = Len(q)
  OBVIOUS
<1>3. PICK m \in Nat : m = Len(cs) /\ m = Len(ms) /\ DOMAIN cs = 1 .. m /\ DOMAIN ms = 1 .. m
  OBVIOUS
<1>4. /\ DOMAIN (q \o ms) = 1 .. n + m /\ DOMAIN q = 1 .. n
      /\ \A i \in 1 .. n + m : (q \o ms)[i] = IF i <= n THEN q[i] ELSE ms[i - n]
  BY <1>2, <1>3, ConcatProperties
<1>5. p <= x
  BY <1>1, <1>3
<1>6. ASSUME NEW i \in 1 .. m
      PROVE  /\ i - 1 \in 0 .. m /\ h[i - 1] \in Nat /\ h[i] \in Nat /\ p <= h[i - 1] /\ h[i] <= x
             /\ ms[i].bytes \in Bytes
             /\ \A k \in DOMAIN ms[i].bytes :
                   k \in Nat /\ k > 0 /\ ms[i].bytes[k] = h[i - 1] + k /\ ms[i].bytes[k] <= h[i]
  <2>1. i - 1 \in 0 .. m /\ i \in 0 .. m /\ 0 <= i - 1 /\ i <= m /\ 0 \in 0 .. m /\ m \in 0 .. m
    OBVIOUS
  <2>2. h[i - 1] \in Nat /\ h[i] \in Nat /\ p <= h[i - 1] /\ h[i] <= x
    BY <2>1, <1>1, <1>3
  <2>3. PICK t \in Bytes : t = ms[i].bytes /\ t = cs[i]
    BY <1>3, SMTT(30)
  <2>4. Run(t, h[i - 1], h[i])
    BY <1>1, <1>3, <2>3
  <2>5. \A k \in DOMAIN t : k \in Nat /\ k > 0 /\ t[k] = h[i - 1] + k /\ k <= h[i] - h[i - 1]
    BY <2>2, <2>4, SMTT(30) DEF Run, Bytes
  <2> QED
    BY <2>1, <2>2, <2>3, <2>5
<1>7. \A i \in 1 .. n + m : \/ i \in DOMAIN q /\ i <= n /\ (q \o ms)[i] = q[i]
                            \/ i - n \in 1 .. m /\ i > n /\ (q \o ms)[i] = ms[i - n]
  BY <1>4
<1>8. Within(s, x)
  <2>1. \A i \in DOMAIN s : s[i] \in Nat /\ s[i] <= p
    BY DEF Ordered, Within, Bytes
  <2> QED
    BY <1>5, <2>1 DEF Within
<1>9. ASSUME NEW i \in DOMAIN q, IsData(q[i])
      PROVE  /\ Within(q[i].bytes, x) /\ Rising(q[i].bytes) /\ Before(s, q[i].bytes)
             /\ q[i].bytes \in Bytes /\ Within(q[i].bytes, p)
  <2>1. q[i] \in Stanzas
    OBVIOUS
  <2>2. q[i].bytes \in Bytes
    BY <2>1 DEF Stanzas, StanzaType
  <2>3. Within(q[i].bytes, p) /\ Rising(q[i].bytes) /\ Before(s, q[i].bytes)
    BY <1>9 DEF Ordered
  <2>4. \A k \in DOMAIN q[i].bytes : q[i].bytes[k] \in Nat
    BY <2>2 DEF Bytes
  <2> QED
    BY <1>5, <2>2, <2>3, <2>4 DEF Within
<1>10. ASSUME NEW i \in 1 .. m
       PROVE  Rising(ms[i].bytes) /\ Within(ms[i].bytes, x) /\ Before(s, ms[i].bytes)
  <2>1. \A k \in DOMAIN s : s[k] \in Nat /\ s[k] <= p
    BY DEF Ordered, Within, Bytes
  <2>2. Rising(ms[i].bytes)
    BY <1>6 DEF Rising
  <2>3. Within(ms[i].bytes, x)
    <3>1. h[i] \in Nat /\ h[i - 1] \in Nat /\ h[i] <= x
      BY <1>6
    <3>2. \A k \in DOMAIN ms[i].bytes : ms[i].bytes[k] \in Nat /\ ms[i].bytes[k] <= h[i]
      BY <1>6, <3>1, SMTT(30)
    <3> QED
      BY <3>1, <3>2 DEF Within
  <2> QED
    BY <1>6, <2>1, <2>2, <2>3 DEF Before
<1>11. ASSUME NEW i \in 1 .. n + m, NEW k \in 1 .. n + m, i < k,
              IsData((q \o ms)[i]), IsData((q \o ms)[k])
       PROVE  Before((q \o ms)[i].bytes, (q \o ms)[k].bytes)
  <2>1. CASE k <= n
    <3>1. i \in DOMAIN q /\ k \in DOMAIN q /\ (q \o ms)[i] = q[i] /\ (q \o ms)[k] = q[k]
      BY <1>4, <1>11, <2>1
    <3>2. IsData(q[i]) /\ IsData(q[k])
      BY <1>11, <3>1
    <3>3. Before(q[i].bytes, q[k].bytes)
      BY <1>11, <3>1, <3>2 DEF Ordered
    <3> QED
      BY <3>1, <3>3
  <2>2. CASE i <= n /\ k > n
    <3>1. (q \o ms)[i] = q[i] /\ i \in DOMAIN q /\ (q \o ms)[k] = ms[k - n] /\ k - n \in 1 .. m
      BY <1>4, <2>2
    <3>2. q[i].bytes \in Bytes /\ Within(q[i].bytes, p)
      BY <1>9, <1>11, <3>1
    <3>3. \A y \in DOMAIN q[i].bytes : q[i].bytes[y] \in Nat /\ q[i].bytes[y] <= p
      BY <3>2 DEF Within, Bytes
    <3>4. \A y \in DOMAIN ms[k - n].bytes : ms[k - n].bytes[y] \in Nat /\ ms[k - n].bytes[y] > p
      <4>1. PICK g \in 1 .. m : g = k - n
        BY <3>1
      <4>2. h[g - 1] \in Nat /\ p <= h[g - 1]
        BY <1>6
      <4>3. \A y \in DOMAIN ms[g].bytes : y \in Nat /\ y > 0 /\ ms[g].bytes[y] = h[g - 1] + y
        BY <1>6
      <4> QED
        BY <4>1, <4>2, <4>3
    <3> QED
      BY <3>1, <3>3, <3>4 DEF Before
  <2>3. CASE i > n
    <3>1. (q \o ms)[i] = ms[i - n] /\ i - n \in 1 .. m /\ (q \o ms)[k] = ms[k - n] /\ k - n \in 1 .. m
      BY <1>4, <1>11, <2>3
    <3>2. h[i - n] <= h[(k - n) - 1]
      <4>1. i - n \in 0 .. m /\ (k - n) - 1 \in 0 .. m /\ i - n <= (k - n) - 1
        BY <1>11, <3>1
      <4> QED
        BY <4>1, <1>1, <1>3
    <3>3. PICK g \in 1 .. m : g = k - n
      BY <3>1
    <3>4. PICK f \in 1 .. m : f = i - n
      BY <3>1
    <3>5. /\ h[g - 1] \in Nat /\ h[f] \in Nat /\ h[f - 1] \in Nat
          /\ \A y \in DOMAIN ms[g].bytes : y \in Nat /\ y > 0 /\ ms[g].bytes[y] = h[g - 1] + y
      BY <1>6
    <3>6. \A y \in DOMAIN ms[f].bytes : /\ y \in Nat /\ ms[f].bytes[y] = h[f - 1] + y
                                        /\ ms[f].bytes[y] <= h[f]
      BY <1>6
    <3>7. h[f] <= h[g - 1]
      BY <3>2, <3>3, <3>4
    <3>8. ASSUME NEW y \in DOMAIN ms[f].bytes, NEW z \in DOMAIN ms[g].bytes
          PROVE  ms[f].bytes[y] < ms[g].bytes[z]
      <4>1. PICK u \in Nat : u = ms[f].bytes[y] /\ u <= h[f]
        BY <3>5, <3>6, SMTT(30)
      <4>2. PICK d \in Nat : d = h[g - 1]
        BY <3>5
      <4>3. PICK c \in Nat : c = h[f]
        BY <3>5
      <4>4. z \in Nat /\ z > 0 /\ ms[g].bytes[z] = d + z
        BY <3>5, <4>2
      <4>5. u <= c /\ c <= d
        BY <3>7, <4>1, <4>2, <4>3
      <4>6. u < d + z
        BY <4>4, <4>5
      <4> QED
        BY <4>1, <4>4, <4>6
    <3> QED
      BY <3>1, <3>3, <3>4, <3>8 DEF Before
  <2> QED
    BY <1>2, <1>3, <2>1, <2>2, <2>3
<1>12. \A i \in DOMAIN (q \o ms) : IsData((q \o ms)[i]) =>
          /\ Rising((q \o ms)[i].bytes) /\ Within((q \o ms)[i].bytes, x)
          /\ Before(s, (q \o ms)[i].bytes)
  BY <1>4, <1>7, <1>9, <1>10
<1> QED
  BY <1>4, <1>5, <1>8, <1>11, <1>12 DEF Ordered

----------------------------------------------------------------------------
(* The bytes of one direction: read, buffered, on their way, in the chunks *)
(* a goroutine has still to send, in the encoder and in the write buffer.  *)

Arr(e) == got[e] \o conn[e].rbuf
Results(r) == {m \in Stanzas : m.kind = "result" /\ m.by = r}

\* The chunks that have not been sent.
Rest(j) == IF j.pc \in Outs THEN Tail(j.todo) ELSE j.todo
\* The bytes after p have not been sent.
Pending(o, p) ==
    \/ /\ \A r \in Roles : ~Busy(o, r)
       /\ \E q \in Nat : Run(conn[o].fringe, p, q) /\ Run(conn[o].wbuf, q, written[o])
    \/ \E r \in Roles :
          /\ Busy(o, r)
          /\ \E q \in Nat :
                /\ Cuts(Rest(job[o][r]), p, q)
                /\ Run(IF job[o][r].op = "tail" THEN conn[o].wbuf ELSE job[o][r].left, q, written[o])

\* Whoever is here does not begin another chunk.
Past == {"wait", "error", "closewait", "closed", "done", "failed"}
\* A goroutine learns that its block was taken only when everything that was
\* sent has arrived, and only then the next one is sent.
Due(o, p) ==
    LET s == Arr(Other(o))  q == chan[Other(o)]  b == chan[o] IN
    /\ \A r \in Roles : job[o][r].pc \notin Past => NoneIn(b, Results(r))
    /\ \A r \in Roles : job[o][r].pc = "wait" =>
          OnceIn(b, Results(r)) /\ (NoneIn(b, Results(r)) \/ Settled(s, q, p))
    /\ (\A r \in Roles : job[o][r].pc \notin {"wait", "error"}) => Settled(s, q, p)
    /\ \A i \in DOMAIN q : IsData(q[i]) =>
          q[i].by \in Roles /\ job[o][q[i].by].pc \in {"wait", "error"}

Whole(o, p) ==
    /\ Gapless(Arr(Other(o)), chan[Other(o)], p)
    /\ conn[o].werr \/ Due(o, p)
CarriedUpTo(o, p) ==
    /\ p <= written[o]
    /\ Ordered(Arr(Other(o)), chan[Other(o)], p)
    /\ conn[o].werr \/ Pending(o, p)
    /\ ~Acked \/ conn[o].handlerT \/ Whole(o, p)
Carried(o) ==
    \/ raced[o]
    \/ /\ \A r \in Roles : Busy(o, r) => ~conn[o].werr
       /\ \E p \in Nat : CarriedUpTo(o, p)

\* The types that matter here.
LEMMA ByteTypes ==
    ASSUME TypeInv, NEW e \in Ends
    PROVE  /\ Arr(e) \in Bytes /\ got[e] \in Bytes /\ conn[e].rbuf \in Bytes /\ chan[e] \in Seq(Stanzas)
           /\ conn[e].wbuf \in Bytes /\ conn[e].fringe \in Bytes /\ Len(conn[e].fringe) <= Group
           /\ written[e] \in Nat /\ params \in Streams /\ Acked \in BOOLEAN
           /\ Len(Arr(e)) = Len(got[e]) + Len(conn[e].rbuf)
           /\ \A r \in Roles : /\ job[e][r].todo \in Seq(Bytes) /\ job[e][r].left \in Bytes
                               /\ job[e][r].upTo \in Nat
<1>1. /\ conn[e].rbuf \in Bytes /\ chan[e] \in Seq(Stanzas) /\ conn[e].wbuf \in Bytes
      /\ conn[e].fringe \in Bytes /\ Len(conn[e].fringe) <= Group /\ params \in Streams
      /\ \A r \in Roles : job[e][r] \in JobType
  BY EndTypes
<1>2. got[e] \in Bytes /\ written[e] \in Nat
  BY DEF TypeInv, RestTypes
<1>3. got[e] \o conn[e].rbuf \in Bytes
  BY <1>1, <1>2, Joined DEF Bytes
<1>4. \A r \in Roles : job[e][r].todo \in Seq(Bytes) /\ job[e][r].left \in Bytes /\ job[e][r].upTo \in Nat
  BY <1>1 DEF JobType
<1>5. Len(got[e] \o conn[e].rbuf) = Len(got[e]) + Len(conn[e].rbuf)
  BY <1>1, <1>2, ConcatProperties DEF Bytes
<1> QED
  BY <1>1, <1>2, <1>3, <1>4, <1>5, Parameters DEF Arr

\* Nothing arrives, no block is sent, and no answer for one that waits.
Still(o) ==
    /\ Arr(Other(o))' = Arr(Other(o)) /\ Thins(chan'[Other(o)], chan[Other(o)])
    /\ \A r \in Roles : job[o][r].pc \notin {"closewait", "failed"} =>
          /\ NoneIn(chan[o], Results(r)) => NoneIn(chan'[o], Results(r))
          /\ OnceIn(chan[o], Results(r)) => OnceIn(chan'[o], Results(r))
\* No goroutine begins or ends a chunk.
Lingers(o) ==
    \A r \in Roles :
        \/ job'[o][r] = job[o][r]
        \/ /\ ~Busy(o, r) /\ ~Busy(o, r)'
           /\ job[o][r].pc \notin {"wait", "error"} /\ job'[o][r].pc \notin {"wait", "error"}
           /\ job'[o][r].pc \notin Past => job[o][r].pc \notin Past

\* What is not sent stays so.
LEMMA PendingKept ==
    ASSUME NEW o \in Ends, NEW p, Pending(o, p), Lingers(o), conn'[o].wbuf = conn[o].wbuf,
           conn'[o].fringe = conn[o].fringe, written'[o] = written[o]
    PROVE  Pending(o, p)'
<1>1. \A r \in Roles : /\ Busy(o, r)' <=> Busy(o, r)
                       /\ Busy(o, r) => job'[o][r] = job[o][r]
  BY DEF Lingers, Busy
<1>2. CASE \A r \in Roles : ~Busy(o, r)
  <2>1. \E q \in Nat : Run(conn[o].fringe, p, q) /\ Run(conn[o].wbuf, q, written[o])
    BY <1>2 DEF Pending
  <2> QED
    BY <1>1, <1>2, <2>1 DEF Pending
<1>3. CASE ~\A r \in Roles : ~Busy(o, r)
  <2>1. PICK r \in Roles :
          /\ Busy(o, r)
          /\ \E q \in Nat :
                /\ Cuts(Rest(job[o][r]), p, q)
                /\ Run(IF job[o][r].op = "tail" THEN conn[o].wbuf ELSE job[o][r].left, q, written[o])
    BY <1>3 DEF Pending
  <2>2. Busy(o, r)' /\ job'[o][r] = job[o][r]
    BY <1>1, <2>1
  <2> QED
    BY <2>1, <2>2 DEF Pending
<1> QED
  BY <1>2, <1>3

\* Neither is what was sent lost, nor what has arrived.
LEMMA WholeKept ==
    ASSUME TypeInv, NEW o \in Ends, NEW p \in Nat, Whole(o, p), Lingers(o), Still(o),
           conn'[o].werr = conn[o].werr
    PROVE  Whole(o, p)'
<1>1. Other(o) \in Ends /\ Arr(Other(o)) \in Bytes
  BY OtherEnd, ByteTypes
<1>2. Gapless(Arr(Other(o)), chan[Other(o)], p)'
  BY <1>1 DEF Whole, Still, Thins
<1>3. CASE conn[o].werr
  BY <1>2, <1>3 DEF Whole
<1>4. CASE ~conn[o].werr
  <2>1. Due(o, p)
    BY <1>4 DEF Whole
  <2>2. NoData(chan[Other(o)]) => NoData(chan'[Other(o)])
    BY DEF Still, Thins, NoData, IsData
  <2>3. Settled(Arr(Other(o)), chan[Other(o)], p) => Settled(Arr(Other(o)), chan[Other(o)], p)'
    BY <2>2 DEF Settled, Still
  <2>4. ASSUME NEW r \in Roles, job'[o][r].pc \notin Past
        PROVE  NoneIn(chan'[o], Results(r))
    <3>1. job[o][r].pc \notin Past
      BY <2>4 DEF Lingers
    <3> QED
      BY <2>1, <3>1 DEF Due, Still, Past
  <2>5. ASSUME NEW r \in Roles, job'[o][r].pc = "wait"
        PROVE  /\ OnceIn(chan'[o], Results(r))
               /\ NoneIn(chan'[o], Results(r)) \/ Settled(Arr(Other(o)), chan[Other(o)], p)'
    <3>1. job[o][r].pc = "wait"
      BY <2>5 DEF Lingers
    <3> QED
      BY <2>1, <2>3, <3>1 DEF Due, Still
  <2>6. ASSUME \A r \in Roles : job'[o][r].pc \notin {"wait", "error"}
        PROVE  Settled(Arr(Other(o)), chan[Other(o)], p)'
    <3>1. \A r \in Roles : job[o][r].pc \notin {"wait", "error"}
      BY <2>6 DEF Lingers
    <3> QED
      BY <2>1, <2>3, <3>1 DEF Due
  <2>7. ASSUME NEW i \in DOMAIN chan'[Other(o)], IsData(chan'[Other(o)][i])
        PROVE  /\ chan'[Other(o)][i].by \in Roles
               /\ job'[o][chan'[Other(o)][i].by].pc \in {"wait", "error"}
    <3>1. PICK k \in DOMAIN chan[Other(o)] : chan'[Other(o)][i] = chan[Other(o)][k]
      BY <2>7 DEF Still, Thins
    <3>2. /\ chan[Other(o)][k].by \in Roles
          /\ job[o][chan[Other(o)][k].by].pc \in {"wait", "error"}
      BY <2>1, <2>7, <3>1 DEF Due
    <3>3. job'[o][chan[Other(o)][k].by] = job[o][chan[Other(o)][k].by]
      BY <3>2 DEF Lingers
    <3> QED
      BY <3>1, <3>2, <3>3
  <2>8. Due(o, p)'
    BY <2>4, <2>5, <2>6, <2>7 DEF Due
  <2> QED
    BY <1>2, <2>8 DEF Whole
<1> QED
  BY <1>3, <1>4

\* Together: a step that writes nothing and takes no block in this direction.
LEMMA CarriedKept ==
    ASSUME TypeInv, NEW o \in Ends, Carried(o), Lingers(o), Still(o), Writes(conn'[o], conn[o]),
           written'[o] = written[o], raced[o] => raced'[o], params' = params
    PROVE  Carried(o)'
<1>1. CASE raced[o]
  BY <1>1 DEF Carried
<1>2. CASE ~raced[o]
  <2>1. PICK p \in Nat : CarriedUpTo(o, p)
    BY <1>2 DEF Carried
  <2>2. Other(o) \in Ends /\ Arr(Other(o)) \in Bytes
    BY OtherEnd, ByteTypes
  <2>3. Ordered(Arr(Other(o)), chan[Other(o)], p)'
    BY <2>1, <2>2 DEF CarriedUpTo, Still, Thins
  <2>4. conn'[o].werr \/ Pending(o, p)'
    BY <2>1, PendingKept DEF CarriedUpTo, Writes
  <2>5. ~Acked' \/ conn'[o].handlerT \/ Whole(o, p)'
    BY <2>1, WholeKept DEF CarriedUpTo, Writes, Acked
  <2>6. \A r \in Roles : Busy(o, r)' => ~conn'[o].werr
    BY <1>2 DEF Carried, Writes, Lingers, Busy
  <2>7. CarriedUpTo(o, p)'
    BY <2>1, <2>3, <2>4, <2>5 DEF CarriedUpTo
  <2> QED
    BY <2>6, <2>7 DEF Carried
<1> QED
  BY <1>1, <1>2

----------------------------------------------------------------------------
(* What the actions do with the bytes.                                     *)

\* Nothing follows the last one.
LEMMA LastTail ==
    ASSUME NEW S, NEW q \in Seq(S), q # <<>>, ~(Len(q) > 1)
    PROVE  Tail(q) = <<>>
<1>1. Len(q) \in Nat \ {0}
  BY EmptySeq
<1>2. Len(q) = 1
  BY <1>1, SMTT(30)
<1>3. Tail(q) \in Seq(S) /\ Len(Tail(q)) = Len(q) - 1
  BY HeadTailProperties
<1>4. Len(Tail(q)) = 0
  BY <1>2, <1>3
<1> QED
  BY <1>3, <1>4, EmptySeq

\* The last chunk of a block was written, or one of several.
LEMMA WroteBytes ==
    ASSUME TypeInv, NEW e \in Ends, NEW r \in Roles, Busy(e, r), Wrote(e, r), params' = params
    PROVE  LET j == job[e][r]  k == job'[e][r]  c == conn[e]  d == conn'[e] IN
           /\ k.upTo = j.upTo /\ written'[e] >= written[e]
           /\ written'[Other(e)] = written[Other(e)]
           /\ \/ /\ k.todo = Tail(j.todo) /\ k.todo # <<>> /\ k.pc = "send" /\ k.op = j.op
                 /\ k.left = j.left /\ d.wbuf = c.wbuf /\ written'[e] = written[e]
              \/ /\ k.todo = <<>> /\ Tail(j.todo) = <<>> /\ k.op = "flush"
                 /\ k.pc = IF r = "writer" THEN "idle" ELSE IF j.op = "flush" THEN "tail" ELSE "notify"
                 /\ j.op = "tail" => d.wbuf = c.wbuf /\ d.fringe = <<>> /\ written'[e] = written[e]
                 /\ j.op # "tail" =>
                      /\ d.fringe = j.left
                      /\ \/ j.op # "write" /\ d.wbuf = <<>> /\ written'[e] = written[e]
                         \/ j.op = "write" /\ d.wbuf = <<written[e] + 1>> /\ written'[e] = written[e] + 1
<1> DEFINE j == job[e][r]
           c == conn[e]
           z == Advanced(c)
           y == PassedOn(c)
<1>1. /\ params \in Streams /\ ConnTypes /\ JobTypes /\ GoodConn(c) /\ c \in ConnType
      /\ GoodJob(r, j) /\ j \in JobType /\ written \in [Ends -> Nat] /\ written[e] \in Nat
      /\ j.todo \in Seq(Bytes) /\ j.todo # <<>> /\ Len(j.left) <= Group
  BY EndTypes, ByteTypes DEF TypeInv, RestTypes, Busy, GoodJob
<1>2. \A x \in {z, y, CutOff(c)} : GoodConn(x) /\ x \in ConnType /\ x.wbuf = c.wbuf
  BY <1>1, AdvancedFields
<1>3. Other(e) \in Ends /\ Other(e) # e
  BY OtherEnd
<1> HIDE DEF j, c, z, y
<1>4. CASE Len(j.todo) > 1
  <2>1. SetConn(e, y) /\ SetJob(e, r, Next1(j, y, Tail(j.todo))) /\ written' = written
    BY <1>4 DEF Wrote, Advanced, PassedOn, j, c, y
  <2>2. Tail(j.todo) \in Seq(Bytes) /\ Tail(j.todo) # <<>>
    BY <1>1, <1>4, LongTail
  <2> DEFINE t == Tail(j.todo)
             k == Next1(j, y, t)
  <2> HIDE DEF t
  <2>3. t \in Seq(Bytes) /\ t # <<>> /\ t = Tail(j.todo)
    BY <2>2 DEF t
  <2>4. /\ GoodJob(r, k) /\ k.pc = "send" /\ k.todo = Tail(j.todo) /\ k.op = j.op /\ k.left = j.left
        /\ k.upTo = j.upTo
    <3>1. y \in ConnType
      BY <1>2
    <3>2. GoodJob(r, k) /\ k.pc = "send" /\ k.todo = t /\ k.op = j.op /\ k.upTo = j.upTo
      <4>1. GoodJob(r, j) /\ t \in Seq(Bytes) /\ t # <<>>
        BY <1>1, <2>3
      <4> HIDE DEF k
      <4> QED
        BY <4>1, <3>1, Next1Fields DEF k
    <3>3. k.left = j.left
      BY <1>1 DEF Next1, JobType
    <3> HIDE DEF k
    <3> QED
      BY <2>3, <3>2, <3>3
  <2> HIDE DEF k
  <2>5. job'[e][r] = k
    BY <1>1, <2>1, <2>4, SetJobEffect DEF k, t
  <2>6. conn'[e] = y /\ y.wbuf = c.wbuf
    BY <1>1, <1>2, <2>1, SetConnEffect
  <2>7. written'[e] >= written[e]
    BY <1>1, <2>1
  <2> QED
    BY <2>1, <2>2, <2>4, <2>5, <2>6, <2>7 DEF j, c
<1>5. CASE ~(Len(j.todo) > 1)
  <2> DEFINE d == IF j.op = "tail" THEN CutOff(c) ELSE Emptied(e, z, j)
  <2>1. SetConn(e, d) /\ SetJob(e, r, Finished(j, r)) /\ Taken(e, j)
    BY <1>5 DEF Wrote, Advanced, CutOff, j, c, z
  <2>2. Tail(j.todo) = <<>>
    BY <1>1, <1>5, LastTail
  <2>3. GoodConn(d)
    BY <1>1, <1>2, EmptiedFields
  <2>4. PICK k : k = Finished(j, r)
    OBVIOUS
  <2>5. /\ GoodJob(r, k) /\ k.todo = <<>> /\ k.upTo = j.upTo /\ k.op = "flush"
        /\ k.pc = IF r = "writer" THEN "idle" ELSE IF j.op = "flush" THEN "tail" ELSE "notify"
    BY <1>1, <2>4, LeavesFields DEF Finished
  <2>6. conn'[e] = d
    BY <1>1, <2>1, <2>3, SetConnEffect
  <2>7. job'[e][r] = k
    BY <1>1, <2>1, <2>4, <2>5, SetJobEffect
  <2>8. /\ written'[e] = written[e] + IF j.op = "write" THEN 1 ELSE 0
        /\ written'[Other(e)] = written[Other(e)]
    BY <1>1, <1>3, <2>1 DEF Taken
  <2>9. j.op = "tail" => d.wbuf = c.wbuf /\ d.fringe = <<>>
    <3>1. CutOff(c).wbuf = c.wbuf
      BY <1>2
    <3>2. CutOff(c).fringe = <<>>
      BY <1>1, <1>2 DEF CutOff, Advanced, ConnType
    <3> QED
      BY <3>1, <3>2
  <2>10. j.op # "tail" => /\ d.fringe = j.left
                          /\ d.wbuf = IF j.op = "write" THEN <<written[e] + 1>> ELSE <<>>
    BY <1>1, <1>2, EmptiedFields
  <2> HIDE DEF d
  <2>11. written'[e] >= written[e]
    BY <1>1, <2>8
  <2>12. /\ j.op # "write" => written'[e] = written[e]
         /\ j.op = "write" => written'[e] = written[e] + 1
    BY <1>1, <2>8
  <2> QED
    BY <2>2, <2>5, <2>6, <2>7, <2>8, <2>9, <2>10, <2>11, <2>12 DEF j, c
<1> QED
  BY <1>4, <1>5

\* What is written next comes after what was.
LEMMA PendingWrote ==
    ASSUME TypeInv, SeqInv, NEW e \in Ends, NEW r \in Roles, Busy(e, r), ~raced[e],
           Wrote(e, r), params' = params, NEW x \in Nat, NEW q \in Nat,
           Cuts(Tail(job[e][r].todo), x, q),
           Run(IF job[e][r].op = "tail" THEN conn[e].wbuf ELSE job[e][r].left, q, written[e])
    PROVE  Pending(e, x)'
<1> DEFINE j == job[e][r]
           k == job'[e][r]
<1>1. OnlyJob(e, r)
  BY WroteFacts DEF Advances, Busy
<1>2. \A y \in Roles : y # r => ~Busy(e, y) /\ ~Busy(e, y)'
  BY <1>1, NobodyElse, BusyWorking DEF OnlyJob, Busy
<1>3. written[e] \in Nat /\ conn[e].wbuf \in Bytes /\ j.left \in Bytes
  BY ByteTypes
<1>4. CASE /\ k.todo = Tail(j.todo) /\ k.todo # <<>> /\ k.pc = "send" /\ k.op = j.op
           /\ k.left = j.left /\ conn'[e].wbuf = conn[e].wbuf /\ written'[e] = written[e]
  <2>1. Rest(k) = Tail(j.todo) /\ Busy(e, r)'
    BY <1>4 DEF Rest, Outs, Busy
  <2> QED
    BY <1>4, <2>1 DEF Pending
<1>5. CASE /\ k.todo = <<>> /\ Tail(j.todo) = <<>>
           /\ j.op = "tail" => conn'[e].wbuf = conn[e].wbuf /\ conn'[e].fringe = <<>> /\ written'[e] = written[e]
           /\ j.op # "tail" =>
                /\ conn'[e].fringe = j.left
                /\ \/ j.op # "write" /\ conn'[e].wbuf = <<>> /\ written'[e] = written[e]
                   \/ j.op = "write" /\ conn'[e].wbuf = <<written[e] + 1>> /\ written'[e] = written[e] + 1
  <2>1. x = q
    <3>1. Cuts(<<>>, x, q)
      BY <1>5
    <3>2. <<>> \in Bytes
      BY DEF Bytes
    <3> QED
      BY <3>1, <3>2, CutsFew
  <2>2. \A y \in Roles : ~Busy(e, y)'
    BY <1>2, <1>5 DEF Busy
  <2>3. CASE j.op = "tail"
    <3>1. Run(conn'[e].fringe, x, x) /\ Run(conn'[e].wbuf, x, written'[e])
      <4>1. Run(<<>>, x, x)
        BY DEF Run
      <4> QED
        BY <1>5, <2>1, <2>3, <4>1
    <3> QED
      BY <2>2, <3>1 DEF Pending
  <2>4. CASE j.op # "tail"
    <3>1. Run(conn'[e].fringe, x, written[e])
      BY <1>5, <2>1, <2>4
    <3>2. Run(conn'[e].wbuf, written[e], written'[e])
      <4>1. PICK w \in Nat : w = written[e]
        BY <1>3
      <4>2. Run(<<>>, w, w) /\ Run(<<w + 1>>, w, w + 1)
        BY DEF Run
      <4> QED
        BY <1>5, <2>4, <4>1, <4>2
    <3> QED
      BY <1>3, <2>2, <3>1, <3>2 DEF Pending
  <2> QED
    BY <2>3, <2>4
<1> QED
  BY <1>4, <1>5, WroteBytes

\* What a goroutine that is in a block has still to send.
LEMMA PendingBusy ==
    ASSUME TypeInv, SeqInv, NEW e \in Ends, NEW r \in Roles, Busy(e, r), ~raced[e], NEW p \in Nat,
           Pending(e, p)
    PROVE  \E q \in Nat :
              /\ Cuts(Rest(job[e][r]), p, q)
              /\ Run(IF job[e][r].op = "tail" THEN conn[e].wbuf ELSE job[e][r].left, q, written[e])
              /\ q <= written[e]
<1>1. \A y \in Roles : y # r => ~Busy(e, y)
  BY NobodyElse, BusyWorking
<1>2. PICK y \in Roles :
          /\ Busy(e, y)
          /\ \E q \in Nat :
                /\ Cuts(Rest(job[e][y]), p, q)
                /\ Run(IF job[e][y].op = "tail" THEN conn[e].wbuf ELSE job[e][y].left, q, written[e])
  BY DEF Pending
<1>3. y = r
  BY <1>1, <1>2
<1> QED
  BY <1>2, <1>3 DEF Run

\* A record is set as a whole.
LEMMA SetIs ==
    ASSUME TypeInv, NEW e \in Ends, NEW r \in Roles, NEW v
    PROVE  /\ SetConn(e, v) => conn'[e] = v
           /\ SetJob(e, r, v) => job'[e][r] = v
<1>1. ASSUME SetConn(e, v)
      PROVE  conn'[e] = v
  <2>1. DOMAIN conn = Ends
    BY DEF TypeInv, ConnTypes
  <2> QED
    BY <1>1, <2>1 DEF SetConn
<1>2. ASSUME SetJob(e, r, v)
      PROVE  job'[e][r] = v
  <2>1. PICK f : f = [x \in Ends |-> [y \in Roles |-> job[x][y]]] /\ job = f
    BY DEF TypeInv, JobTypes
  <2>2. DOMAIN f = Ends /\ DOMAIN f[e] = Roles
    BY <2>1
  <2>3. job' = [f EXCEPT ![e] = [f[e] EXCEPT ![r] = v]]
    BY <1>2, <2>1 DEF SetJob
  <2> QED
    BY <2>2, <2>3
<1> QED
  BY <1>1, <1>2

\* Under the lock bytes are added to the buffer, or the encoder gets all of it.
LEMMA LockBytes ==
    ASSUME TypeInv, NEW e \in Ends, NEW r \in Roles, Lock(e, r)
    PROVE  LET j == job[e][r]  k == job'[e][r]  c == conn[e]  d == conn'[e]
               ch == Chunks(c.fringe, c.wbuf)  lf == Left(c.fringe, c.wbuf) IN
           /\ k.upTo = j.upTo /\ written'[Other(e)] = written[Other(e)]
           /\ \/ /\ k.todo = <<>> /\ d = c /\ written'[e] = written[e]
                 /\ (c.werr /\ k.pc \in {"idle", "failed"}) \/ c.wbuf = <<>>
              \/ /\ k.todo = <<>> /\ d.wbuf = Append(c.wbuf, written[e] + 1) /\ d.fringe = c.fringe
                 /\ written'[e] = written[e] + 1 /\ ~c.werr
              \/ /\ k.todo = <<>> /\ ch = <<>> /\ d.fringe = lf /\ ~c.werr
                 /\ \/ d.wbuf = <<>> /\ written'[e] = written[e]
                    \/ d.wbuf = <<written[e] + 1>> /\ written'[e] = written[e] + 1
              \/ /\ k.todo = ch /\ ch # <<>> /\ k.left = lf /\ k.pc = "send" /\ k.op = j.op
                 /\ d.wbuf = c.wbuf /\ written'[e] = written[e] /\ ~c.werr
<1> DEFINE j == job[e][r]
           c == conn[e]
           lf == Left(c.fringe, c.wbuf)
           k == [j EXCEPT !.left = lf]
           ch == Chunks(c.fringe, c.wbuf)
           h == Held(c.fringe, c.wbuf)
           a == [c EXCEPT !.wbuf = Append(c.wbuf, written[e] + 1)]
           b == [c EXCEPT !.lock = r, !.fringe = h]
<1>1. /\ params \in Streams /\ GoodConn(c) /\ c \in ConnType
      /\ c.wbuf \in Bytes /\ c.fringe \in Bytes /\ Len(c.fringe) <= Group
      /\ GoodJob(r, j) /\ j \in JobType /\ written \in [Ends -> Nat] /\ written[e] \in Nat
      /\ Other(e) \in Ends /\ Other(e) # e
  BY EndTypes, OtherEnd DEF TypeInv, RestTypes
<1>2. \/ c.werr /\ SetJob(e, r, Failed(j, r)) /\ conn' = conn /\ written' = written
      \/ ~c.werr /\ j.op = "write" /\ SetConn(e, a) /\ SetJob(e, r, Finished(j, r)) /\ Taken(e, j)
      \/ c.wbuf = <<>> /\ SetJob(e, r, Finished(j, r)) /\ conn' = conn /\ written' = written
      \/ /\ ~c.werr /\ ch = <<>> /\ SetConn(e, Emptied(e, c, k)) /\ SetJob(e, r, Finished(k, r))
         /\ Taken(e, j)
      \/ /\ ~c.werr /\ ch # <<>> /\ SetConn(e, b) /\ SetJob(e, r, Next1(k, c, ch))
         /\ written' = written
  BY DEF Lock
<1>3. ch \in Seq(Bytes) /\ lf \in Bytes /\ h \in Bytes /\ Len(lf) <= Group
  BY <1>1, Encoder
<1> HIDE DEF j, lf, ch, h
<1>4. GoodJob(r, k) /\ k \in JobType /\ k.op = j.op /\ k.left = lf /\ k.upTo = j.upTo
  BY <1>1, <1>3, LeftFields
<1>5. a.wbuf = Append(c.wbuf, written[e] + 1) /\ a.fringe = c.fringe /\ b.wbuf = c.wbuf
  BY <1>1 DEF ConnType
<1> HIDE DEF k, a, b, c
<1>6. \A z \in {Failed(j, r), Finished(j, r), Finished(k, r)} : z.todo = <<>> /\ z.upTo = j.upTo
  BY <1>1, <1>4, FinishedFields
<1>7. Failed(j, r).pc \in {"idle", "failed"}
  BY <1>1, FinishedFields
<1>8. Taken(e, j) => /\ written'[e] = written[e] + IF j.op = "write" THEN 1 ELSE 0
                     /\ written'[Other(e)] = written[Other(e)]
  BY <1>1 DEF Taken
<1>9. CASE c.werr /\ SetJob(e, r, Failed(j, r)) /\ conn' = conn /\ written' = written
  <2>1. job'[e][r] = Failed(j, r)
    BY <1>9, SetIs
  <2> QED
    BY <1>6, <1>7, <1>9, <2>1 DEF j, c
<1>10. CASE ~c.werr /\ j.op = "write" /\ SetConn(e, a) /\ SetJob(e, r, Finished(j, r)) /\ Taken(e, j)
  <2>1. job'[e][r] = Finished(j, r) /\ conn'[e] = a
    BY <1>10, SetIs
  <2>2. written'[e] = written[e] + 1
    BY <1>8, <1>10
  <2> QED
    BY <1>5, <1>6, <1>8, <1>10, <2>1, <2>2 DEF j, c
<1>11. CASE c.wbuf = <<>> /\ SetJob(e, r, Finished(j, r)) /\ conn' = conn /\ written' = written
  <2>1. job'[e][r] = Finished(j, r)
    BY <1>11, SetIs
  <2> QED
    BY <1>6, <1>11, <2>1 DEF j, c
<1>12. CASE /\ ~c.werr /\ ch = <<>> /\ SetConn(e, Emptied(e, c, k)) /\ SetJob(e, r, Finished(k, r))
            /\ Taken(e, j)
  <2>1. job'[e][r] = Finished(k, r) /\ conn'[e] = Emptied(e, c, k)
    BY <1>12, SetIs
  <2>2. c \in ConnType /\ Len(k.left) <= Group
    BY <1>1, <1>3, <1>4 DEF c
  <2>3. /\ conn'[e].fringe = lf
        /\ conn'[e].wbuf = IF j.op = "write" THEN <<written[e] + 1>> ELSE <<>>
    BY <1>1, <1>4, <2>1, <2>2, EmptiedFields
  <2>4. \/ j.op = "write" /\ written'[e] = written[e] + 1
        \/ j.op # "write" /\ written'[e] = written[e]
    BY <1>1, <1>8, <1>12
  <2> QED
    BY <1>6, <1>8, <1>12, <2>1, <2>3, <2>4 DEF j, c, ch, lf
<1>13. CASE /\ ~c.werr /\ ch # <<>> /\ SetConn(e, b) /\ SetJob(e, r, Next1(k, c, ch))
            /\ written' = written
  <2>1. job'[e][r] = Next1(k, c, ch) /\ conn'[e] = b
    BY <1>13, SetIs
  <2>2. /\ Next1(k, c, ch).todo = ch /\ Next1(k, c, ch).left = k.left /\ Next1(k, c, ch).pc = "send"
        /\ Next1(k, c, ch).op = k.op /\ Next1(k, c, ch).upTo = k.upTo
    BY <1>4 DEF Next1, JobType
  <2> QED
    BY <1>4, <1>5, <1>13, <2>1, <2>2 DEF j, c, ch, lf
<1> QED
  BY <1>2, <1>9, <1>10, <1>11, <1>12, <1>13

\* The end of Close: what the encoder keeps, if anything.
LEMMA CloseTailBytes ==
    ASSUME TypeInv, NEW e \in Ends, CloseTail(e)
    PROVE  LET j == job[e]["closer"]  k == job'[e]["closer"]  c == conn[e] IN
           /\ k.upTo = j.upTo /\ written' = written /\ got' = got /\ rpc' = rpc /\ flushed' = flushed
           /\ \/ k.todo = <<>> /\ k.pc = "failed" /\ c.werr
              \/ k.todo = <<>> /\ k.pc = "notify" /\ ~c.werr /\ c.fringe = <<>>
              \/ /\ k.todo = <<c.fringe>> /\ k.pc = "send" /\ k.op = "tail" /\ ~c.werr
                 /\ c.fringe # <<>>
<1> DEFINE i == job[e]["closer"]
           j == [i EXCEPT !.op = "tail"]
           c == conn[e]
<1>1. /\ UNCHANGED <<written, got, rpc, flushed>>
      /\ \/ c.werr /\ SetJob(e, "closer", Failed(j, "closer"))
         \/ ~c.werr /\ closeFlush(c.fringe) = <<>> /\ SetJob(e, "closer", Finished(j, "closer"))
         \/ /\ ~c.werr /\ closeFlush(c.fringe) # <<>>
            /\ SetJob(e, "closer", Next1(j, c, closeFlush(c.fringe)))
  BY DEF CloseTail, appVars
<1>2. i \in JobType /\ params \in Streams /\ c.fringe \in Bytes /\ "closer" \in Roles
  BY EndTypes DEF Roles
<1>3. j \in JobType /\ j.op = "tail" /\ j.upTo = i.upTo
  BY <1>2 DEF JobType, Ops
<1> HIDE DEF j, i, c
<1>4. CASE c.werr /\ SetJob(e, "closer", Failed(j, "closer"))
  <2>1. job'[e]["closer"] = Failed(j, "closer")
    BY <1>2, <1>4, SetIs
  <2>2. Failed(j, "closer").todo = <<>> /\ Failed(j, "closer").pc = "failed" /\ Failed(j, "closer").upTo = j.upTo
    BY <1>2, <1>3, FinishedFields
  <2> QED
    BY <1>1, <1>3, <1>4, <2>1, <2>2 DEF i, c
<1>5. CASE ~c.werr /\ closeFlush(c.fringe) = <<>> /\ SetJob(e, "closer", Finished(j, "closer"))
  <2>1. job'[e]["closer"] = Finished(j, "closer")
    BY <1>2, <1>5, SetIs
  <2>2. /\ Finished(j, "closer").todo = <<>> /\ Finished(j, "closer").pc = "notify"
        /\ Finished(j, "closer").upTo = j.upTo
    BY <1>2, <1>3, LeavesFields DEF Finished
  <2>3. c.fringe = <<>>
    BY <1>2, <1>5, FlushTypes
  <2> QED
    BY <1>1, <1>3, <1>5, <2>1, <2>2, <2>3 DEF i, c
<1>6. CASE /\ ~c.werr /\ closeFlush(c.fringe) # <<>>
           /\ SetJob(e, "closer", Next1(j, c, closeFlush(c.fringe)))
  <2>1. job'[e]["closer"] = Next1(j, c, closeFlush(c.fringe))
    BY <1>2, <1>6, SetIs
  <2>2. closeFlush(c.fringe) = <<c.fringe>> /\ c.fringe # <<>>
    BY <1>6 DEF closeFlush, NonEmpty
  <2>3. \A t : /\ Next1(j, c, t).todo = t /\ Next1(j, c, t).pc = "send"
               /\ Next1(j, c, t).op = "tail" /\ Next1(j, c, t).upTo = j.upTo
    BY <1>3 DEF Next1, JobType
  <2> QED
    BY <1>1, <1>3, <1>6, <2>1, <2>2, <2>3 DEF i, c
<1> QED
  BY <1>1, <1>4, <1>5, <1>6

\* A goroutine goes on with the same block.
LEMMA PcBytes ==
    ASSUME TypeInv, NEW e \in Ends, NEW r \in Roles, NEW p,
           SetJob(e, r, [job[e][r] EXCEPT !.pc = p])
    PROVE  LET j == job[e][r]  k == job'[e][r] IN
           k.pc = p /\ k.todo = j.todo /\ k.left = j.left /\ k.op = j.op /\ k.upTo = j.upTo
<1>1. job[e][r] \in JobType
  BY EndTypes
<1>2. job'[e][r] = [job[e][r] EXCEPT !.pc = p]
  BY SetIs
<1> QED
  BY <1>1, <1>2 DEF JobType

\* A chunk goes out: over IQs its goroutine waits, over messages it goes on.
LEMMA SendBytes ==
    ASSUME TypeInv, NEW e \in Ends, NEW r \in Roles, Send(e, r), ~job[e][r].stale
    PROVE  LET j == job[e][r]  k == job'[e][r] IN
           /\ got' = got /\ rpc' = rpc /\ flushed' = flushed /\ params' = params /\ Busy(e, r)
           /\ \E m \in Stanzas :
                 /\ m.kind = "data" /\ m.bytes = Head(j.todo) /\ SendsOne(e, m)
                 /\ Acked => m.by = r
           /\ Acked => /\ conn' = conn /\ written' = written
                       /\ k.pc = "wait" /\ k.todo = j.todo /\ k.left = j.left /\ k.op = j.op
                       /\ k.upTo = j.upTo
           /\ ~Acked => Wrote(e, r)
<1> DEFINE j == job[e][r]
           m == Stanza("data", j.seq, Head(j.todo), IF Acked THEN r ELSE "none")
<1>1. /\ got' = got /\ rpc' = rpc /\ flushed' = flushed /\ params' = params /\ j.pc = "send"
      /\ Sends(e, <<m>>)
      /\ Acked => SetJob(e, r, [j EXCEPT !.pc = "wait"]) /\ conn' = conn /\ written' = written
      /\ ~Acked => Wrote(e, r)
  BY DEF Send, At, ghostVars
<1>2. Busy(e, r) /\ ChanTypes /\ j.todo \in Seq(Bytes) /\ j.seq \in 0 .. SeqCount - 1
  BY <1>1, BusyWorking, EndTypes DEF Working, JobType
<1>3. Head(j.todo) \in Bytes
  <2>1. PICK t \in Seq(Bytes) : t = j.todo /\ t # <<>>
    BY <1>2 DEF Busy
  <2>2. Head(t) \in Bytes
    BY <2>1, HeadTailProperties
  <2> QED
    BY <2>1, <2>2
<1>4. /\ m \in Stanzas /\ m.kind = "data" /\ m.bytes = Head(j.todo) /\ (Acked => m.by = r)
  <2> DEFINE b == IF Acked THEN r ELSE "none"
             h == Head(j.todo)
  <2>1. b \in Roles \cup {"none"} /\ h \in Bytes /\ (Acked => b = r)
    BY <1>3
  <2> HIDE DEF b, h
  <2>2. Stanza("data", j.seq, h, b) \in Stanzas
    BY <1>2, <2>1 DEF Stanzas, StanzaType, Stanza
  <2>3. /\ Stanza("data", j.seq, h, b).kind = "data" /\ Stanza("data", j.seq, h, b).bytes = h
        /\ Stanza("data", j.seq, h, b).by = b
    BY DEF Stanza
  <2> QED
    BY <2>1, <2>2, <2>3 DEF b, h
<1>5. SendsOne(e, m)
  BY <1>1, <1>2, <1>4, SendsOneEffect
<1>6. Acked => LET k == job'[e][r] IN
               /\ k.pc = "wait" /\ k.todo = j.todo /\ k.left = j.left /\ k.op = j.op
               /\ k.upTo = j.upTo
  BY <1>1, PcBytes
<1> HIDE DEF m
<1> QED
  BY <1>1, <1>2, <1>4, <1>5, <1>6

\* Only an IQ is answered, and with the kind that is given.
LEMMA AnswerIs ==
    ASSUME TypeInv, NEW e \in Ends, chan[e] # <<>>, NEW kind \in {"result", "error"},
           Replies(e, Answer(Head(chan[e]), kind))
    PROVE  \E ms \in Seq(Answers) :
              /\ Takes(e, ms) /\ Len(ms) <= 1
              /\ \A i \in DOMAIN ms : ms[i].by = Head(chan[e]).by /\ ms[i].kind = kind
<1>1. chan[e] \in Seq(Stanzas) /\ ChanTypes
  BY EndTypes
<1>2. PICK m \in Stanzas : m = Head(chan[e])
  BY <1>1
<1>3. /\ Answer(m, kind) \in Seq(Stanzas) /\ Len(Answer(m, kind)) <= 1
      /\ \A i \in DOMAIN Answer(m, kind) : /\ Answer(m, kind)[i].kind = kind
                                           /\ Answer(m, kind)[i].by = m.by
  BY AnswerTypes
<1>4. PICK ms \in Seq(Stanzas) : ms = Answer(m, kind)
  BY <1>3
<1>5. Takes(e, ms)
  BY <1>1, <1>2, <1>4, RepliesEffect DEF Takes
<1>6. ms \in Seq(Answers)
  <2>1. \A i \in DOMAIN ms : ms[i] \in Answers
    BY <1>3, <1>4 DEF Answers
  <2>2. DOMAIN ms = 1 .. Len(ms) /\ Len(ms) \in Nat /\ ms = [i \in 1 .. Len(ms) |-> ms[i]]
    BY <1>4
  <2> QED
    BY <2>1, <2>2
<1> QED
  BY <1>2, <1>3, <1>4, <1>5, <1>6

\* A block is refused, or its bytes are there to read.
LEMMA PayloadBytes ==
    ASSUME TypeInv, NEW e \in Ends, handlePayload(e)
    PROVE  /\ got' = got /\ written' = written /\ flushed' = flushed /\ params' = params /\ ~panic[e]
           /\ chan[e] # <<>> /\ IsData(Head(chan[e]))
           /\ \E ms \in Seq(Answers), kind \in {"result", "error"} :
                 /\ Takes(e, ms) /\ Len(ms) <= 1
                 /\ \A i \in DOMAIN ms : ms[i].by = Head(chan[e]).by /\ ms[i].kind = kind
                 /\ \/ kind = "error" /\ conn'[e].rbuf = conn[e].rbuf /\ rpc' = rpc /\ panic' = panic
                    \/ /\ kind = "result" /\ conn'[e].rbuf = conn[e].rbuf \o Head(chan[e]).bytes
                       /\ Signal(e)
<1> DEFINE m == Head(chan[e])
           q == conn[e]
           s == NextSeq(q.seq)
           c == [q EXCEPT !.seq = s]
           b == q.rbuf \o m.bytes
           d == [c EXCEPT !.rbuf = b]
<1>1. /\ chan[e] # <<>> /\ m.kind = "data" /\ ~panic[e]
      /\ UNCHANGED <<job, serve, appVars, ghostVars, params>>
  BY DEF handlePayload, Serving
<1>2. \/ Replies(e, Answer(m, "error")) /\ UNCHANGED <<conn, rpc, panic>>
      \/ SetConn(e, c) /\ Replies(e, Answer(m, "error")) /\ UNCHANGED <<rpc, panic>>
      \/ SetConn(e, d) /\ Replies(e, Answer(m, "result")) /\ Signal(e)
  BY DEF handlePayload, Expecting
<1>3. q \in ConnType /\ "writer" \in Roles
  BY EndTypes DEF Roles
<1> HIDE DEF b, s
<1>4. c.rbuf = q.rbuf /\ d.rbuf = b
  BY <1>3 DEF ConnType
<1> HIDE DEF c, d
<1>5. CASE Replies(e, Answer(m, "error")) /\ UNCHANGED <<conn, rpc, panic>>
  BY <1>1, <1>5, AnswerIs DEF appVars, ghostVars, IsData
<1>6. CASE SetConn(e, c) /\ Replies(e, Answer(m, "error")) /\ UNCHANGED <<rpc, panic>>
  <2>1. conn'[e].rbuf = conn[e].rbuf
    BY <1>3, <1>4, <1>6, SetIs
  <2> QED
    BY <1>1, <1>6, <2>1, AnswerIs DEF appVars, ghostVars, IsData
<1>7. CASE SetConn(e, d) /\ Replies(e, Answer(m, "result")) /\ Signal(e)
  <2>1. conn'[e].rbuf = conn[e].rbuf \o m.bytes
    BY <1>3, <1>4, <1>7, SetIs DEF b
  <2> QED
    BY <1>1, <1>7, <2>1, AnswerIs DEF appVars, ghostVars, IsData
<1> QED
  BY <1>2, <1>5, <1>6, <1>7

\* The answer that is taken decides how the goroutine goes on.
LEMMA ServedBytes ==
    ASSUME TypeInv, NEW e \in Ends, ServeAnswer(e)
    PROVE  /\ got' = got /\ written' = written /\ flushed' = flushed /\ params' = params /\ rpc' = rpc
           /\ \/ job' = job
              \/ \E r \in Roles :
                    LET j == job[e][r]  k == job'[e][r] IN
                    /\ OnlyJob(e, r) /\ k.todo = j.todo /\ k.left = j.left /\ k.op = j.op
                    /\ k.upTo = j.upTo /\ r = Head(chan[e]).by
                    /\ \/ j.pc = "wait" /\ k.pc = Head(chan[e]).kind /\ k.pc \in {"result", "error"}
                       \/ j.pc = "closewait" /\ k.pc = "closed" /\ r = "closer"
<1> DEFINE m == Head(chan[e])
<1>1. /\ UNCHANGED <<conn, rpc, serve, appVars, panic, ghostVars, params>>
      /\ \/ job' = job
         \/ /\ job[e][m.by].pc \in {"wait", "closewait"}
            /\ SetJob(e, m.by, [job[e][m.by] EXCEPT
                            !.pc = IF job[e][m.by].pc = "closewait" THEN "closed" ELSE m.kind])
  BY DEF ServeAnswer
<1>2. CASE job' = job
  BY <1>1, <1>2 DEF appVars, ghostVars
<1>3. CASE job' # job
  <2>1. PICK r \in Roles :
                    /\ JobMoves(e, r) /\ job'[e][r].op = job[e][r].op /\ r = Head(chan[e]).by
                    /\ \/ job[e][r].pc = "wait" /\ job'[e][r].pc \in {"result", "error"}
                       \/ job[e][r].pc = "closewait" /\ job'[e][r].pc = "closed" /\ r = "closer"
    BY <1>3, ServeAnswerFacts
  <2>2. PICK p : /\ p = IF job[e][r].pc = "closewait" THEN "closed" ELSE m.kind
                 /\ SetJob(e, r, [job[e][r] EXCEPT !.pc = p])
    BY <1>1, <1>3, <2>1
  <2>3. LET j == job[e][r]  k == job'[e][r] IN
           k.pc = p /\ k.todo = j.todo /\ k.left = j.left /\ k.op = j.op /\ k.upTo = j.upTo
    BY <2>2, PcBytes
  <2>4. OnlyJob(e, r)
    BY <2>1 DEF JobMoves
  <2> QED
    BY <1>1, <2>1, <2>2, <2>3, <2>4 DEF appVars, ghostVars
<1> QED
  BY <1>2, <1>3

\* Bytes are moved from one sequence to the one before.
LEMMA Regrouped ==
    ASSUME NEW g \in Bytes, NEW x \in Bytes, NEW y \in Bytes
    PROVE  (g \o x) \o y = g \o (x \o y)
BY ConcatAssociative DEF Bytes

\* Read moves bytes, and does not change what has arrived.
LEMMA ReadBytes ==
    ASSUME TypeInv, NEW e \in Ends, Read(e)
    PROVE  /\ Arr(e)' = Arr(e) /\ got'[Other(e)] = got[Other(e)] /\ Len(got'[e]) >= Len(got[e])
           /\ written' = written /\ flushed' = flushed /\ params' = params
           /\ rpc'[Other(e)] = rpc[Other(e)] /\ rpc[e] \in {"idle", "woken"} /\ ~panic[e]
           /\ \/ rpc'[e] = "idle"
              \/ /\ rpc'[e] = IF rpc[e] = "idle" THEN "unlocked" ELSE "eof"
                 /\ conn[e].rbuf = <<>> /\ conn' = conn /\ got' = got
<1>1. /\ UNCHANGED <<job, serve, chan, written, panic, ghostVars, params>>
      /\ rpc[e] \in {"idle", "woken"} /\ ~panic[e]
  BY DEF Read
<1>2. /\ DOMAIN rpc = Ends /\ DOMAIN got = Ends /\ got[e] \in Bytes
      /\ conn[e] \in ConnType /\ conn[e].rbuf \in Bytes /\ Other(e) \in Ends /\ Other(e) # e
      /\ Len(got[e]) \in Nat
  BY EndTypes, OtherEnd DEF TypeInv, RestTypes, Bytes
<1>3. CASE /\ conn[e].rbuf = <<>> /\ conn' = conn /\ got' = got
           /\ rpc' = [rpc EXCEPT ![e] = IF @ = "idle" THEN "unlocked" ELSE "eof"]
  <2>1. Arr(e)' = Arr(e)
    BY <1>3 DEF Arr
  <2>2. Len(got'[e]) >= Len(got[e])
    <3>1. Len(got'[e]) = Len(got[e])
      BY <1>3
    <3> QED
      BY <1>2, <3>1
  <2> QED
    BY <1>1, <1>2, <1>3, <2>1, <2>2 DEF ghostVars
<1>4. CASE /\ \E k \in 1 .. Len(conn[e].rbuf) : Take(e, k)
           /\ rpc' = [rpc EXCEPT ![e] = "idle"]
  <2>1. PICK k \in 1 .. Len(conn[e].rbuf) : Take(e, k)
    BY <1>4
  <2> DEFINE b == conn[e].rbuf
             x == SubSeq(b, 1, k)
             y == SubSeq(b, k + 1, Len(b))
             g == got[e]
  <2>2. b \in Seq(Nat) /\ g \in Seq(Nat) /\ k \in 1 .. Len(b)
    BY <1>2, <2>1 DEF Bytes
  <2>3. got' = [got EXCEPT ![e] = g \o x] /\ SetConn(e, [conn[e] EXCEPT !.rbuf = y])
    BY <2>1 DEF Take
  <2>4. got'[e] = g \o x /\ got'[Other(e)] = got[Other(e)]
    BY <1>2, <2>3
  <2>5. conn'[e].rbuf = y
    <3>1. conn'[e] = [conn[e] EXCEPT !.rbuf = y]
      BY <2>3, SetIs DEF Roles
    <3> QED
      BY <1>2, <3>1 DEF ConnType
  <2> HIDE DEF b, g
  <2>6. x \in Seq(Nat) /\ y \in Seq(Nat) /\ x \o y = b
    <3>1. PICK n \in Nat : n = Len(b) /\ k <= n
      BY <2>2
    <3>2. /\ x \in Seq(Nat) /\ Len(x) = k /\ \A i \in 1 .. k : x[i] = b[i]
      BY <2>2, <3>1
    <3>3. /\ y \in Seq(Nat) /\ Len(y) = n - k /\ \A i \in 1 .. n - k : y[i] = b[k + i]
      BY <2>2, <3>1
    <3> HIDE DEF x, y
    <3>0. /\ x \o y \in Seq(Nat) /\ Len(x \o y) = Len(x) + Len(y)
          /\ \A i \in 1 .. Len(x) + Len(y) :
                (x \o y)[i] = IF i <= Len(x) THEN x[i] ELSE y[i - Len(x)]
      BY <3>2, <3>3, ConcatProperties
    <3>6. Len(x) + Len(y) = n /\ Len(x) = k
      BY <2>2, <3>1, <3>2, <3>3
    <3>4. /\ x \o y \in Seq(Nat) /\ Len(x \o y) = n
          /\ \A i \in 1 .. n : (x \o y)[i] = IF i <= k THEN x[i] ELSE y[i - k]
      BY <3>0, <3>6
    <3>5. ASSUME NEW i \in 1 .. n
          PROVE  (x \o y)[i] = b[i]
      <4>1. CASE i <= k
        BY <2>2, <3>2, <3>4, <4>1
      <4>2. CASE ~(i <= k)
        <5>1. i - k \in 1 .. n - k /\ k + (i - k) = i
          BY <2>2, <3>1, <4>2
        <5>2. y[i - k] = b[k + (i - k)]
          BY <3>3, <5>1
        <5> QED
          BY <3>4, <4>2, <5>1, <5>2
      <4> QED
        BY <4>1, <4>2
    <3> QED
      BY <2>2, <3>1, <3>2, <3>3, <3>4, <3>5, SeqEqual
  <2> HIDE DEF x, y
  <2>7. (g \o x) \o y = g \o b
    <3>1. g \in Bytes /\ x \in Bytes /\ y \in Bytes
      BY <2>2, <2>6 DEF Bytes
    <3>2. (g \o x) \o y = g \o (x \o y)
      BY <3>1, Regrouped
    <3> QED
      BY <2>6, <3>2
  <2>8. Len(g \o x) >= Len(g)
    <3>1. Len(g \o x) = Len(g) + Len(x) /\ Len(x) \in Nat /\ Len(g) \in Nat
      BY <2>2, <2>6, ConcatProperties
    <3> QED
      BY <3>1
  <2>9. Arr(e)' = Arr(e)
    BY <2>4, <2>5, <2>7 DEF Arr, b, g
  <2> QED
    BY <1>1, <1>2, <1>4, <2>4, <2>8, <2>9 DEF ghostVars, g
<1> QED
  BY <1>3, <1>4 DEF Read

\* The bytes of what closeNoNotify writes.
LEMMA NumbersBytes ==
    ASSUME params \in Streams, NEW c, GoodConn(c)
    PROVE  /\ Len(Numbers(c)) = Len(Everything(c)) /\ Numbers(c) \in Seq(Stanzas)
           /\ Everything(c) \in Seq(Bytes)
           /\ \A i \in DOMAIN Numbers(c) : Numbers(c)[i].bytes = Everything(c)[i]
<1>1. DOMAIN Numbers(c) = DOMAIN Everything(c)
  BY DEF Numbers
<1> QED
  BY <1>1, NumbersTypes DEF Numbers, Stanza

----------------------------------------------------------------------------
(* Steps that leave the bytes of a direction where they are.               *)

\* What has arrived is the same where nothing is read or taken.
LEMMA ArrSame ==
    ASSUME NEW x \in Ends, got'[x] = got[x], conn'[x].rbuf = conn[x].rbuf
    PROVE  Arr(x)' = Arr(x)
BY DEF Arr

\* The direction to e, when e sends something or takes what is no block.
LEMMA OtherCarried ==
    ASSUME TypeInv, NEW e \in Ends, Carried(Other(e)), OnlyConn(e),
           \A r \in Roles : job'[Other(e)][r] = job[Other(e)][r],
           Arr(e)' = Arr(e), Thins(chan'[e], chan[e]), NEW ms \in Seq(Stanzas),
           chan'[Other(e)] = chan[Other(e)] \o ms,
           \A r \in Roles : job[Other(e)][r].pc \notin {"closewait", "failed"} =>
              NoneIn(ms, Results(r)),
           written'[Other(e)] = written[Other(e)], raced[Other(e)] => raced'[Other(e)],
           params' = params
    PROVE  Carried(Other(e))'
<1>1. PICK o \in Ends : o = Other(e) /\ Other(o) = e /\ o # e
  BY OtherEnd
<1>2. Lingers(o)
  BY <1>1 DEF Lingers
<1>3. conn'[o] = conn[o] /\ Writes(conn'[o], conn[o])
  BY <1>1 DEF OnlyConn, Writes
<1>4. chan[o] \in Seq(Stanzas)
  BY ByteTypes
<1>5. \A r \in Roles : job[o][r].pc \notin {"closewait", "failed"} =>
          /\ NoneIn(chan[o], Results(r)) => NoneIn(chan'[o], Results(r))
          /\ OnceIn(chan[o], Results(r)) => OnceIn(chan'[o], Results(r))
  BY <1>1, <1>4, JoinedIn
<1>6. Still(o)
  BY <1>1, <1>5 DEF Still
<1>7. Carried(o) /\ written'[o] = written[o] /\ (raced[o] => raced'[o])
  BY <1>1
<1>8. Carried(o)'
  BY <1>2, <1>3, <1>6, <1>7, CarriedKept
<1> QED
  BY <1>1, <1>8

\* (When nothing is sent or taken.)
LEMMA OtherAlone ==
    ASSUME TypeInv, NEW e \in Ends, Carried(Other(e)), OnlyConn(e),
           \A r \in Roles : job'[Other(e)][r] = job[Other(e)][r],
           Arr(e)' = Arr(e), chan' = chan,
           written'[Other(e)] = written[Other(e)], raced[Other(e)] => raced'[Other(e)],
           params' = params
    PROVE  Carried(Other(e))'
<1>1. Other(e) \in Ends
  BY OtherEnd
<1>2. chan[e] \in Seq(Stanzas) /\ chan[Other(e)] \in Seq(Stanzas)
  BY <1>1, ByteTypes
<1> DEFINE ms == <<>>
<1>3. ms \in Seq(Stanzas) /\ NoData(ms) /\ \A S : NoneIn(ms, S)
  BY DEF NoData, NoneIn
<1>4. chan[Other(e)] \o ms = chan[Other(e)]
  BY <1>2
<1> HIDE DEF ms
<1>5. Thins(chan'[e], chan[e])
  BY <1>2, <1>3, ThinsAdds
<1> QED
  BY <1>3, <1>4, <1>5, OtherCarried

\* The direction from e, when it takes a stanza and answers.
LEMMA TakesCarried ==
    ASSUME TypeInv, NEW e \in Ends, Carried(e), chan[e] # <<>>, NEW ms \in Seq(Stanzas), NoData(ms),
           Takes(e, ms), Arr(Other(e))' = Arr(Other(e)), Lingers(e), Writes(conn'[e], conn[e]),
           written'[e] = written[e], raced[e] => raced'[e], params' = params
    PROVE  Carried(e)'
<1>1. chan[e] \in Seq(Stanzas) /\ chan[Other(e)] \in Seq(Stanzas)
  BY ByteTypes, OtherEnd
<1>2. Thins(chan'[Other(e)], chan[Other(e)])
  BY <1>1, ThinsAdds DEF Takes
<1>3. \A r \in Roles :
          /\ NoneIn(chan[e], Results(r)) => NoneIn(chan'[e], Results(r))
          /\ OnceIn(chan[e], Results(r)) => OnceIn(chan'[e], Results(r))
  BY <1>1, TailIn DEF Takes
<1>4. Still(e)
  BY <1>2, <1>3 DEF Still
<1> QED
  BY <1>4, CarriedKept

\* The direction from e, when it only goes on, or sends what is no block.
LEMMA GoesCarried ==
    ASSUME TypeInv, NEW e \in Ends, Carried(e), NEW ms \in Seq(Stanzas), NoData(ms),
           chan'[e] = chan[e], chan'[Other(e)] = chan[Other(e)] \o ms,
           Arr(Other(e))' = Arr(Other(e)), Lingers(e), Writes(conn'[e], conn[e]),
           written'[e] = written[e], raced[e] => raced'[e], params' = params
    PROVE  Carried(e)'
<1>1. chan[Other(e)] \in Seq(Stanzas)
  BY ByteTypes, OtherEnd
<1>2. Thins(chan'[Other(e)], chan[Other(e)])
  BY <1>1, ThinsAdds
<1>3. Still(e)
  BY <1>2 DEF Still
<1> QED
  BY <1>3, CarriedKept

\* Both directions.
LEMMA BothCarried ==
    ASSUME NEW e \in Ends, Carried(e)', Carried(Other(e))'
    PROVE  (\A x \in Ends : Carried(x))'
BY OtherEnd

CarriedInv == \A x \in Ends : Carried(x)

\* A goroutine that is not writing goes on, and does not begin to.
LEMMA LingersOne ==
    ASSUME NEW e \in Ends, NEW r \in Roles, OnlyJob(e, r),
           job[e][r].todo = <<>>, job'[e][r].todo = <<>>,
           job[e][r].pc \notin Working, job'[e][r].pc \notin Working,
           job'[e][r].pc \notin Past => job[e][r].pc \notin Past
    PROVE  Lingers(e) /\ \A x \in Roles : job'[Other(e)][x] = job[Other(e)][x]
<1>1. Other(e) \in Ends /\ Other(e) # e
  BY OtherEnd
<1>2. ~Busy(e, r) /\ ~Busy(e, r)'
  BY DEF Busy
<1> QED
  BY <1>1, <1>2 DEF Lingers, OnlyJob, Working

\* (Or none does.)
LEMMA LingersAll ==
    ASSUME NEW e \in Ends, job' = job
    PROVE  Lingers(e) /\ \A x \in Roles : job'[Other(e)][x] = job[Other(e)][x]
BY DEF Lingers

\* Nothing is sent or taken.
LEMMA AloneCarried ==
    ASSUME TypeInv, CarriedInv, NEW e \in Ends, Lingers(e),
           \A x \in Roles : job'[Other(e)][x] = job[Other(e)][x], chan' = chan, OnlyConn(e),
           Writes(conn'[e], conn[e]), \A x \in Ends : Arr(x)' = Arr(x),
           written' = written, raced' = raced, params' = params
    PROVE  CarriedInv'
<1>1. Other(e) \in Ends /\ Carried(e) /\ Carried(Other(e))
  BY OtherEnd DEF CarriedInv
<1>2. Carried(Other(e))'
  BY <1>1, OtherAlone
<1> DEFINE ms == <<>>
<1>3. ms \in Seq(Stanzas) /\ NoData(ms)
  BY DEF NoData
<1>4. chan[Other(e)] \o ms = chan[Other(e)]
  BY <1>1, ByteTypes
<1> HIDE DEF ms
<1>5. Carried(e)'
  BY <1>1, <1>3, <1>4, GoesCarried
<1> QED
  BY <1>2, <1>5, BothCarried DEF CarriedInv

\* The goroutines of e write nothing.
LEMMA PlainCarried ==
    ASSUME TypeInv, CarriedInv, NEW e \in Ends,
           \/ Write(e) \/ Flush(e) \/ Close(e) \/ CloseSet(e) \/ CloseTimeout(e) \/ CloseDone(e)
    PROVE  CarriedInv'
<1>1. CASE Write(e) \/ Flush(e)
  <2>1. /\ JobMoves(e, "writer") /\ job[e]["writer"].pc = "idle" /\ job'[e]["writer"].pc = "lock"
        /\ conn' = conn /\ chan' = chan /\ raced' = raced
    BY <1>1, BeginFacts
  <2>2. got' = got /\ written' = written /\ params' = params
    BY <1>1 DEF Write, Flush, appVars
  <2>3. job[e]["writer"].todo = <<>> /\ job'[e]["writer"].todo = <<>> /\ OnlyJob(e, "writer")
    BY <2>1, NothingToDo DEF Roles, Working, JobMoves
  <2>4. Lingers(e) /\ \A x \in Roles : job'[Other(e)][x] = job[Other(e)][x]
    BY <2>1, <2>3, LingersOne DEF Roles, Working, Past
  <2>5. OnlyConn(e) /\ Writes(conn'[e], conn[e]) /\ \A x \in Ends : Arr(x)' = Arr(x)
    BY <2>1, <2>2 DEF OnlyConn, Writes, Arr
  <2> QED
    BY <2>1, <2>2, <2>4, <2>5, AloneCarried
<1>2. CASE Close(e)
  <2>1. /\ JobMoves(e, "closer") /\ job[e]["closer"].pc = "idle"
        /\ job'[e]["closer"].pc \in {"noop", "set"} /\ conn' = conn /\ chan' = chan /\ raced' = raced
    BY <1>2, CloseFacts
  <2>2. got' = got /\ written' = written /\ params' = params
    BY <1>2 DEF Close, appVars
  <2>3. job[e]["closer"].todo = <<>> /\ job'[e]["closer"].todo = <<>> /\ OnlyJob(e, "closer")
    BY <2>1, NothingToDo DEF Roles, Working, JobMoves
  <2>4. Lingers(e) /\ \A x \in Roles : job'[Other(e)][x] = job[Other(e)][x]
    BY <2>1, <2>3, LingersOne DEF Roles, Working, Past
  <2>5. OnlyConn(e) /\ Writes(conn'[e], conn[e]) /\ \A x \in Ends : Arr(x)' = Arr(x)
    BY <2>1, <2>2 DEF OnlyConn, Writes, Arr
  <2> QED
    BY <2>1, <2>2, <2>4, <2>5, AloneCarried
<1>3. CASE CloseSet(e)
  <2>1. /\ JobMoves(e, "closer") /\ job[e]["closer"].pc = "set" /\ job'[e]["closer"].pc = "lock"
        /\ OnlyConn(e) /\ conn'[e] = [conn[e] EXCEPT !.closed = TRUE] /\ chan' = chan /\ raced' = raced
    BY <1>3, CloseSetFacts
  <2>2. got' = got /\ written' = written /\ params' = params
    BY <1>3 DEF CloseSet, appVars
  <2>3. job[e]["closer"].todo = <<>> /\ job'[e]["closer"].todo = <<>> /\ OnlyJob(e, "closer")
    BY <2>1, NothingToDo DEF Roles, Working, JobMoves
  <2>4. Lingers(e) /\ \A x \in Roles : job'[Other(e)][x] = job[Other(e)][x]
    BY <2>1, <2>3, LingersOne DEF Roles, Working, Past
  <2>5. Writes(conn'[e], conn[e]) /\ conn'[e].rbuf = conn[e].rbuf
    BY <2>1, EndTypes DEF Writes, ConnType
  <2>6. \A x \in Ends : Arr(x)' = Arr(x)
    BY <2>1, <2>2, <2>5 DEF OnlyConn, Arr
  <2> QED
    BY <2>1, <2>2, <2>4, <2>5, <2>6, AloneCarried
<1>4. CASE CloseTimeout(e)
  <2>1. /\ OnlyJob(e, "closer") /\ job[e]["closer"].pc = "closewait" /\ job'[e]["closer"].pc = "failed"
        /\ job'[e]["closer"].todo = <<>> /\ conn' = conn /\ chan' = chan /\ raced' = raced
    BY <1>4, CloseTimeoutFacts
  <2>2. got' = got /\ written' = written /\ params' = params
    BY <1>4 DEF CloseTimeout, appVars
  <2>3. job[e]["closer"].todo = <<>>
    BY <2>1, NothingToDo DEF Roles, Working
  <2>4. Lingers(e) /\ \A x \in Roles : job'[Other(e)][x] = job[Other(e)][x]
    BY <2>1, <2>3, LingersOne DEF Roles, Working, Past
  <2>5. OnlyConn(e) /\ Writes(conn'[e], conn[e]) /\ \A x \in Ends : Arr(x)' = Arr(x)
    BY <2>1, <2>2 DEF OnlyConn, Writes, Arr
  <2> QED
    BY <2>1, <2>2, <2>4, <2>5, AloneCarried
<1>5. CASE CloseDone(e)
  <2>1. /\ JobMoves(e, "closer") /\ job[e]["closer"].pc = "closed" /\ job'[e]["closer"].pc = "done"
        /\ OnlyConn(e) /\ Writes(conn'[e], conn[e]) /\ conn'[e].rbuf = conn[e].rbuf
        /\ chan' = chan /\ raced' = raced
    BY <1>5, CloseDoneFacts
  <2>2. got' = got /\ written' = written /\ params' = params
    BY <1>5 DEF CloseDone, appVars
  <2>3. job[e]["closer"].todo = <<>> /\ job'[e]["closer"].todo = <<>> /\ OnlyJob(e, "closer")
    BY <2>1, NothingToDo DEF Roles, Working, JobMoves
  <2>4. Lingers(e) /\ \A x \in Roles : job'[Other(e)][x] = job[Other(e)][x]
    BY <2>1, <2>3, LingersOne DEF Roles, Working, Past
  <2>6. \A x \in Ends : Arr(x)' = Arr(x)
    BY <2>1, <2>2 DEF OnlyConn, Arr
  <2> QED
    BY <2>1, <2>2, <2>4, <2>6, AloneCarried
<1> QED
  BY <1>1, <1>2, <1>3, <1>4, <1>5

\* The reading goroutine of e.
LEMMA ReaderCarried ==
    ASSUME TypeInv, CarriedInv, NEW e \in Ends,
           Read(e) \/ Receive(e) \/ \E max \in Limits : SetReadBuffer(e, max)
    PROVE  CarriedInv'
<1>1. CASE Read(e)
  <2>1. /\ OnlyConn(e) /\ Writes(conn'[e], conn[e]) /\ job' = job /\ chan' = chan /\ raced' = raced
    BY <1>1, ReadFacts
  <2>2. /\ Arr(e)' = Arr(e) /\ got'[Other(e)] = got[Other(e)] /\ written' = written /\ params' = params
    BY <1>1, ReadBytes
  <2>3. \A x \in Ends : Arr(x)' = Arr(x)
    BY <2>1, <2>2, OtherEnd DEF OnlyConn, Arr
  <2>4. Lingers(e) /\ \A x \in Roles : job'[Other(e)][x] = job[Other(e)][x]
    BY <2>1, LingersAll
  <2> QED
    BY <2>1, <2>2, <2>3, <2>4, AloneCarried
<1>2. CASE Receive(e)
  <2>1. conn' = conn /\ job' = job /\ chan' = chan /\ raced' = raced
    BY <1>2, ReceiveFacts
  <2>2. got' = got /\ written' = written /\ params' = params
    BY <1>2 DEF Receive, appVars
  <2>3. OnlyConn(e) /\ Writes(conn'[e], conn[e]) /\ \A x \in Ends : Arr(x)' = Arr(x)
    BY <2>1, <2>2 DEF OnlyConn, Writes, Arr
  <2>4. Lingers(e) /\ \A x \in Roles : job'[Other(e)][x] = job[Other(e)][x]
    BY <2>1, LingersAll
  <2> QED
    BY <2>1, <2>2, <2>3, <2>4, AloneCarried
<1>3. CASE \E max \in Limits : SetReadBuffer(e, max)
  <2>0. PICK max \in Limits : SetReadBuffer(e, max)
    BY <1>3
  <2>1. /\ OnlyConn(e) /\ Writes(conn'[e], conn[e]) /\ job' = job /\ chan' = chan /\ raced' = raced
        /\ conn'[e].rbuf = conn[e].rbuf
    BY <2>0, SetReadBufferFacts
  <2>2. got' = got /\ written' = written /\ params' = params
    BY <2>0 DEF SetReadBuffer, appVars
  <2>3. \A x \in Ends : Arr(x)' = Arr(x)
    BY <2>1, <2>2 DEF OnlyConn, Arr
  <2>4. Lingers(e) /\ \A x \in Roles : job'[Other(e)][x] = job[Other(e)][x]
    BY <2>1, LingersAll
  <2> QED
    BY <2>1, <2>2, <2>3, <2>4, AloneCarried
<1> QED
  BY <1>1, <1>2, <1>3

\* Close asks the other end.
LEMMA NotifyCarried ==
    ASSUME TypeInv, CarriedInv, NEW e \in Ends, CloseNotify(e)
    PROVE  CarriedInv'
<1>1. /\ JobMoves(e, "closer") /\ job[e]["closer"].pc = "notify" /\ job'[e]["closer"].pc = "closewait"
      /\ conn' = conn /\ raced' = raced
  BY CloseNotifyFacts
<1>2. PICK m \in Stanzas : m.kind = "close" /\ SendsOne(e, m)
  BY CloseNotifyFacts
<1>3. got' = got /\ written' = written /\ params' = params
  BY DEF CloseNotify, appVars
<1>4. job[e]["closer"].todo = <<>> /\ job'[e]["closer"].todo = <<>> /\ OnlyJob(e, "closer")
  BY <1>1, NothingToDo DEF Roles, Working, JobMoves
<1>5. Lingers(e) /\ \A x \in Roles : job'[Other(e)][x] = job[Other(e)][x]
  BY <1>1, <1>4, LingersOne DEF Roles, Working, Past
<1>6. OnlyConn(e) /\ Writes(conn'[e], conn[e]) /\ \A x \in Ends : Arr(x)' = Arr(x)
  BY <1>1, <1>3 DEF OnlyConn, Writes, Arr
<1>7. /\ Other(e) \in Ends /\ Other(e) # e /\ chan[e] \in Seq(Stanzas) /\ chan[Other(e)] \in Seq(Stanzas)
      /\ Carried(e) /\ Carried(Other(e))
  BY OtherEnd, ByteTypes DEF CarriedInv
<1> DEFINE ms == <<m>>
<1>8. /\ ms \in Seq(Stanzas) /\ NoData(ms) /\ \A r \in Roles : NoneIn(ms, Results(r))
  BY <1>2 DEF NoData, NoneIn, Results
<1>9. chan'[Other(e)] = chan[Other(e)] \o ms /\ chan'[e] = chan[e]
  BY <1>2, <1>7 DEF SendsOne
<1> HIDE DEF ms
<1>10. Thins(chan'[e], chan[e])
  BY <1>7, <1>8, <1>9, ThinsAdds
<1>11. Carried(Other(e))'
  BY <1>1, <1>3, <1>5, <1>6, <1>7, <1>8, <1>9, <1>10, OtherCarried
<1>12. Carried(e)'
  BY <1>1, <1>3, <1>5, <1>6, <1>7, <1>8, <1>9, GoesCarried
<1> QED
  BY <1>11, <1>12, BothCarried DEF CarriedInv

----------------------------------------------------------------------------
(* Steps of the goroutine that writes.                                     *)

\* A goroutine that waits for nothing goes on to wait for nothing.
Unhurried(o) ==
    \A r \in Roles :
        \/ job'[o][r] = job[o][r]
        \/ /\ job[o][r].pc \notin {"wait", "error"} /\ job'[o][r].pc \notin {"wait", "error"}
           /\ job'[o][r].pc \notin Past => job[o][r].pc \notin Past

\* (Nothing is due then that was not.)
LEMMA DueKept ==
    ASSUME NEW o \in Ends, NEW p, Due(o, p), Arr(Other(o))' = Arr(Other(o)), chan' = chan, Unhurried(o)
    PROVE  Due(o, p)'
<1> DEFINE s == Arr(Other(o))
           q == chan[Other(o)]
           b == chan[o]
<1>0. (s = s' /\ q = q' /\ b = b') /\ Settled(s, q, p)' = Settled(s, q, p)
  BY DEF Settled, NoData
<1>1. \A r \in Roles : job'[o][r].pc \notin Past => NoneIn(b', Results(r))
  BY <1>0 DEF Due, Unhurried
<1>2. \A r \in Roles : job'[o][r].pc = "wait" =>
          OnceIn(b', Results(r)) /\ (NoneIn(b', Results(r)) \/ Settled(s, q, p)')
  BY <1>0 DEF Due, Unhurried
<1>3. (\A r \in Roles : job'[o][r].pc \notin {"wait", "error"}) => Settled(s, q, p)'
  BY <1>0 DEF Due, Unhurried
<1>4. \A i \in DOMAIN q' : IsData(q'[i]) =>
          q'[i].by \in Roles /\ job'[o][q'[i].by].pc \in {"wait", "error"}
  BY <1>0 DEF Due, Unhurried
<1> HIDE DEF s, q, b
<1> QED
  BY <1>1, <1>2, <1>3, <1>4 DEF Due, s, q, b

\* What is to be sent is put elsewhere, and nothing is sent.
LEMMA CarriedBegins ==
    ASSUME NEW e \in Ends, NEW p \in Nat, CarriedUpTo(e, p), ~conn[e].werr,
           chan' = chan, Arr(Other(e))' = Arr(Other(e)), Unhurried(e), ~conn'[e].werr,
           conn'[e].handlerT = conn[e].handlerT, Pending(e, p)', p <= written'[e], params' = params
    PROVE  Carried(e)'
<1>1. Ordered(Arr(Other(e)), chan[Other(e)], p)'
  BY DEF CarriedUpTo, Ordered
<1>2. Gapless(Arr(Other(e)), chan[Other(e)], p) => Gapless(Arr(Other(e)), chan[Other(e)], p)'
  BY DEF Gapless
<1>3. Whole(e, p) => Whole(e, p)'
  BY <1>2, DueKept DEF Whole
<1>4. (~Acked \/ conn[e].handlerT \/ Whole(e, p))'
  BY <1>3 DEF CarriedUpTo, Acked
<1>5. CarriedUpTo(e, p)'
  BY <1>1, <1>4 DEF CarriedUpTo
<1> QED
  BY <1>5 DEF Carried

\* One byte.
LEMMA RunOne ==
    ASSUME NEW w \in Nat
    PROVE  Run(<<w + 1>>, w, w + 1) /\ <<w + 1>> \in Bytes
BY DEF Run, Bytes

\* A goroutine has the lock.
LEMMA LockCarried ==
    ASSUME TypeInv, SeqInv, CarriedInv, NEW e \in Ends, NEW r \in Roles, Lock(e, r)
    PROVE  CarriedInv'
<1>1. /\ TypeInv' /\ OnlyConn(e) /\ OnlyJob(e, r) /\ Kept(e) /\ conn'[e].werr = conn[e].werr
      /\ chan' = chan /\ job[e][r].pc = "lock" /\ conn[e].lock = "none" /\ Races(e, r, {"tail"})
      /\ \/ job'[e][r].todo = <<>> /\ job'[e][r].pc \in {"idle", "tail", "notify", "failed"}
         \/ job'[e][r].todo # <<>> /\ job'[e][r].pc = "send"
  BY LockFacts
<1>2. got' = got /\ params' = params
  BY DEF Lock
<1>3. /\ Other(e) \in Ends /\ Other(e) # e /\ Carried(e) /\ Carried(Other(e))
      /\ \A x \in Roles : job'[Other(e)][x] = job[Other(e)][x]
  BY <1>1, OtherEnd DEF CarriedInv, OnlyJob
<1>4. \A x \in Ends : Arr(x)' = Arr(x)
  BY <1>1, <1>2 DEF OnlyConn, Kept, Same, Arr
<1>5. /\ raced[e] => raced'[e]
      /\ raced[Other(e)] => raced'[Other(e)]
      /\ (\E x \in Roles \ {r} : Busy(e, x) /\ job[e][x].op = "tail") => raced'[e]
  BY <1>1, <1>3, RacesEffect
<1>6. written'[Other(e)] = written[Other(e)]
  BY LockBytes
<1>7. Carried(Other(e))'
  BY <1>1, <1>2, <1>3, <1>4, <1>5, <1>6, OtherAlone
<1>8. CASE raced'[e]
  BY <1>7, <1>8, BothCarried DEF CarriedInv, Carried
<1>9. CASE ~raced'[e]
  <2>1. \A x \in Roles : ~Busy(e, x)
    <3>1. ~Busy(e, r)
      BY <1>1, BusyWorking DEF Working
    <3>2. ASSUME NEW x \in Roles, x # r
          PROVE  ~Busy(e, x)
      <4>1. Busy(e, x) => job[e][x].op = "tail" \/ conn[e].lock = x
        BY DEF SeqInv, LockInv
      <4>2. conn[e].lock # x /\ x \in Roles \ {r}
        BY <1>1, <3>2 DEF Roles
      <4>3. ~(Busy(e, x) /\ job[e][x].op = "tail")
        BY <1>5, <1>9, <4>2
      <4> QED
        BY <4>1, <4>2, <4>3
    <3> QED
      BY <3>1, <3>2
  <2>2. ~raced[e]
    BY <1>5, <1>9
  <2>3. PICK p \in Nat : CarriedUpTo(e, p)
    BY <1>3, <2>2 DEF Carried
  <2> DEFINE j == job[e][r]
             k == job'[e][r]
             c == conn[e]
             d == conn'[e]
             ch == Chunks(c.fringe, c.wbuf)
             lf == Left(c.fringe, c.wbuf)
             w == written[e]
  <2>4. /\ c.fringe \in Bytes /\ c.wbuf \in Bytes /\ Len(c.fringe) <= Group /\ w \in Nat
        /\ params \in Streams /\ j.op # "tail"
    BY <1>1, ByteTypes, BusyWorking
  <2>5. \/ k.todo = <<>> /\ d = c /\ written'[e] = w
        \/ /\ k.todo = <<>> /\ d.wbuf = Append(c.wbuf, w + 1) /\ d.fringe = c.fringe
           /\ written'[e] = w + 1 /\ ~c.werr
        \/ /\ k.todo = <<>> /\ ch = <<>> /\ d.fringe = lf /\ ~c.werr
           /\ \/ d.wbuf = <<>> /\ written'[e] = w
              \/ d.wbuf = <<w + 1>> /\ written'[e] = w + 1
        \/ /\ k.todo = ch /\ ch # <<>> /\ k.left = lf /\ k.pc = "send" /\ k.op = j.op
           /\ d.wbuf = c.wbuf /\ written'[e] = w /\ ~c.werr
    BY LockBytes
  <2>6. Unhurried(e) /\ d.handlerT = c.handlerT
    BY <1>1 DEF Unhurried, OnlyJob, Past, Kept, Same
  <2> HIDE DEF ch, lf
  <2>7. CASE k.todo = <<>> /\ d = c /\ written'[e] = w
    <3>1. Lingers(e) /\ Writes(d, c)
      BY <1>1, <2>1, <2>6, <2>7 DEF Lingers, Unhurried, Busy, Writes, OnlyJob
    <3> DEFINE ms == <<>>
    <3>2. ms \in Seq(Stanzas) /\ NoData(ms)
      BY DEF NoData
    <3>3. chan[Other(e)] \o ms = chan[Other(e)]
      BY <1>3, ByteTypes
    <3> HIDE DEF ms
    <3>4. Carried(e)'
      BY <1>1, <1>2, <1>3, <1>4, <1>5, <2>7, <3>1, <3>2, <3>3, GoesCarried
    <3> QED
      BY <1>7, <3>4, BothCarried DEF CarriedInv
  <2>8. CASE ~c.werr /\ ~(k.todo = <<>> /\ d = c /\ written'[e] = w)
    <3>1. p <= w /\ Pending(e, p)
      BY <2>3, <2>8 DEF CarriedUpTo
    <3>2. PICK q \in Nat : Run(c.fringe, p, q) /\ Run(c.wbuf, q, w)
      BY <2>1, <3>1 DEF Pending
    <3>3. PICK x \in Nat : Cuts(ch, p, x) /\ Run(lf, x, w)
      BY <2>4, <3>2, EncoderRuns DEF ch, lf
    <3>4. ch = <<>> => x = p
      <4>1. <<>> \in Bytes
        BY DEF Bytes
      <4>2. ch = <<>> => Cuts(<<>>, p, x)
        BY <3>3
      <4>3. Cuts(<<>>, p, x) => p = x
        BY <4>1, CutsFew
      <4> QED
        BY <4>2, <4>3
    <3>5. Run(<<w + 1>>, w, w + 1) /\ <<w + 1>> \in Bytes
      BY <2>4, RunOne
    <3>6. Run(<<>>, w, w)
      BY <2>4, RunParts
    <3>7. k.todo = <<>> => \A y \in Roles : ~Busy(e, y)'
      BY <1>1, <2>1 DEF Busy, OnlyJob
    <3>8. Pending(e, p)' /\ p <= written'[e]
      <4>1. CASE /\ k.todo = <<>> /\ d.wbuf = Append(c.wbuf, w + 1) /\ d.fringe = c.fringe
                 /\ written'[e] = w + 1
        <5>1. d.wbuf = c.wbuf \o <<w + 1>>
          BY <2>4, <4>1, SMTT(30) DEF Bytes
        <5>2. Run(d.wbuf, q, w + 1)
          BY <2>4, <3>2, <3>5, <5>1, RunParts
        <5>3. Run(d.fringe, p, q)
          BY <3>2, <4>1
        <5>4. p <= w + 1
          BY <2>4, <3>1
        <5> QED
          BY <3>7, <4>1, <5>2, <5>3, <5>4 DEF Pending
      <4>2. CASE /\ k.todo = <<>> /\ ch = <<>> /\ d.fringe = lf
                 /\ \/ d.wbuf = <<>> /\ written'[e] = w
                    \/ d.wbuf = <<w + 1>> /\ written'[e] = w + 1
        <5>1. Run(d.fringe, p, w) /\ Run(d.wbuf, w, written'[e])
          BY <3>3, <3>4, <3>5, <3>6, <4>2
        <5>2. p <= written'[e]
          BY <2>4, <3>1, <4>2
        <5> QED
          BY <2>4, <3>7, <4>2, <5>1, <5>2 DEF Pending
      <4>3. CASE /\ k.todo = ch /\ ch # <<>> /\ k.left = lf /\ k.pc = "send" /\ k.op = j.op
                 /\ written'[e] = w
        <5>1. Rest(k) = ch
          BY <4>3 DEF Rest, Outs
        <5>2. Busy(e, r)'
          BY <4>3 DEF Busy
        <5>3. /\ Cuts(Rest(k), p, x)
              /\ Run(IF k.op = "tail" THEN d.wbuf ELSE k.left, x, written'[e])
          BY <2>4, <3>3, <4>3, <5>1
        <5>4. Pending(e, p)'
          BY <5>2, <5>3 DEF Pending
        <5> QED
          BY <3>1, <4>3, <5>4
      <4> QED
        BY <2>5, <2>8, <4>1, <4>2, <4>3
    <3>9. Carried(e)'
      BY <1>1, <1>2, <1>3, <1>4, <2>3, <2>6, <2>8, <3>8, CarriedBegins
    <3> QED
      BY <1>7, <3>9, BothCarried DEF CarriedInv
  <2> QED
    BY <2>5, <2>7, <2>8
<1> QED
  BY <1>8, <1>9

\* Close writes what the encoder has kept.
LEMMA CloseTailCarried ==
    ASSUME TypeInv, SeqInv, CarriedInv, NEW e \in Ends, CloseTail(e)
    PROVE  CarriedInv'
<1>1. /\ OnlyJob(e, "closer") /\ conn' = conn /\ job[e]["closer"].pc = "tail" /\ chan' = chan
      /\ Races(e, "closer", Ops)
      /\ \/ job'[e]["closer"].todo = <<>> /\ job'[e]["closer"].pc \in {"notify", "failed"}
         \/ job'[e]["closer"].todo # <<>> /\ job'[e]["closer"].pc = "send"
  BY CloseTailFacts
<1>2. got' = got /\ params' = params /\ written' = written
  BY DEF CloseTail, appVars
<1>3. /\ Other(e) \in Ends /\ Other(e) # e /\ Carried(e) /\ Carried(Other(e))
      /\ OnlyConn(e) /\ \A x \in Roles : job'[Other(e)][x] = job[Other(e)][x]
  BY <1>1, OtherEnd DEF CarriedInv, OnlyJob, OnlyConn
<1>4. \A x \in Ends : Arr(x)' = Arr(x)
  BY <1>1, <1>2 DEF Arr
<1>5. /\ raced[e] => raced'[e]
      /\ raced[Other(e)] => raced'[Other(e)]
      /\ (\E x \in Roles \ {"closer"} : Busy(e, x) /\ job[e][x].op \in Ops) => raced'[e]
  BY <1>1, <1>3, RacesEffect
<1>6. Arr(e)' = Arr(e) /\ written'[Other(e)] = written[Other(e)]
  BY <1>2, <1>4
<1>7. Carried(Other(e))'
  BY <1>1, <1>2, <1>3, <1>5, <1>6, OtherAlone
<1>8. CASE raced'[e]
  BY <1>7, <1>8, BothCarried DEF CarriedInv, Carried
<1>9. CASE ~raced'[e]
  <2>1. \A x \in Roles : ~Busy(e, x)
    <3>1. ~Busy(e, "closer")
      BY <1>1, BusyWorking DEF Working, Roles
    <3>2. job[e]["writer"].op \in Ops
      BY BusyWorking DEF Roles
    <3> QED
      BY <1>5, <1>9, <3>1, <3>2 DEF Roles
  <2>2. PICK p \in Nat : CarriedUpTo(e, p)
    BY <1>3, <1>5, <1>9 DEF Carried
  <2> DEFINE k == job'[e]["closer"]
             c == conn[e]
  <2>3. \/ k.todo = <<>>
        \/ k.todo = <<c.fringe>> /\ k.pc = "send" /\ k.op = "tail" /\ ~c.werr
    BY CloseTailBytes
  <2>4. Unhurried(e)
    BY <1>1 DEF Unhurried, OnlyJob, Past
  <2>5. CASE k.todo = <<>>
    <3>1. Lingers(e) /\ Writes(conn'[e], c)
      BY <1>1, <2>1, <2>4, <2>5 DEF Lingers, Unhurried, Busy, Writes, OnlyJob
    <3> DEFINE ms == <<>>
    <3>2. ms \in Seq(Stanzas) /\ NoData(ms)
      BY DEF NoData
    <3>3. chan[Other(e)] \o ms = chan[Other(e)]
      BY <1>3, ByteTypes
    <3> HIDE DEF ms
    <3>4. Carried(e)'
      BY <1>1, <1>2, <1>3, <1>4, <1>5, <3>1, <3>2, <3>3, GoesCarried
    <3> QED
      BY <1>7, <3>4, BothCarried DEF CarriedInv
  <2>6. CASE k.todo = <<c.fringe>> /\ k.pc = "send" /\ k.op = "tail" /\ ~c.werr
    <3>1. p <= written[e] /\ Pending(e, p) /\ c.fringe \in Bytes
      BY <2>2, <2>6, ByteTypes DEF CarriedUpTo
    <3>2. PICK q \in Nat : Run(c.fringe, p, q) /\ Run(c.wbuf, q, written[e])
      BY <2>1, <3>1 DEF Pending
    <3>3. Cuts(<<c.fringe>>, p, q)
      BY <3>1, <3>2, CutsFew
    <3>4. Rest(k) = <<c.fringe>> /\ <<c.fringe>> # <<>>
      BY <2>6 DEF Rest, Outs
    <3>5. Busy(e, "closer")'
      BY <2>6, <3>4 DEF Busy
    <3>6. /\ Cuts(Rest(k), p, q)
          /\ Run(IF k.op = "tail" THEN conn'[e].wbuf ELSE k.left, q, written'[e])
      BY <1>1, <1>2, <2>6, <3>2, <3>3, <3>4
    <3>7. Pending(e, p)'
      BY <3>5, <3>6 DEF Pending, Roles
    <3>8. p <= written'[e] /\ ~conn'[e].werr /\ conn'[e].handlerT = conn[e].handlerT
      BY <1>1, <1>2, <2>6, <3>1
    <3>9. Carried(e)'
      BY <1>1, <1>2, <1>3, <1>4, <2>2, <2>4, <2>6, <3>7, <3>8, CarriedBegins
    <3> QED
      BY <1>7, <3>9, BothCarried DEF CarriedInv
  <2> QED
    BY <2>3, <2>5, <2>6
<1> QED
  BY <1>8, <1>9

\* A chunk fails: nothing is promised of what follows.
LEMMA BreaksCarried ==
    ASSUME TypeInv, SeqInv, CarriedInv, NEW e \in Ends, NEW r \in Roles, Busy(e, r), Breaks(e, r),
           chan' = chan, got' = got, written' = written, raced' = raced, params' = params
    PROVE  CarriedInv'
<1>1. /\ OnlyConn(e) /\ OnlyJob(e, r) /\ Kept(e) /\ conn'[e].werr = TRUE /\ job'[e][r].todo = <<>>
  BY DEF Breaks
<1>2. /\ Other(e) \in Ends /\ Other(e) # e /\ Carried(e) /\ Carried(Other(e))
      /\ \A x \in Roles : job'[Other(e)][x] = job[Other(e)][x]
  BY <1>1, OtherEnd DEF CarriedInv, OnlyJob
<1>3. \A x \in Ends : Arr(x)' = Arr(x)
  BY <1>1 DEF OnlyConn, Kept, Same, Arr
<1>4. Arr(e)' = Arr(e) /\ written'[Other(e)] = written[Other(e)]
  BY <1>3
<1>5. Carried(Other(e))'
  BY <1>1, <1>2, <1>4, OtherAlone
<1>6. Carried(e)'
  <2>1. CASE raced[e]
    BY <2>1 DEF Carried
  <2>2. CASE ~raced[e]
    <3>1. PICK p \in Nat : CarriedUpTo(e, p)
      BY <1>2, <2>2 DEF Carried
    <3>2. ASSUME NEW x \in Roles
          PROVE  ~Busy(e, x)'
      <4>1. CASE x = r
        BY <1>1, <4>1 DEF Busy
      <4>2. CASE x # r
        <5>1. ~Busy(e, x)
          BY <2>2, <4>2, NobodyElse, BusyWorking
        <5> QED
          BY <1>1, <4>2, <5>1 DEF Busy, OnlyJob
      <4> QED
        BY <4>1, <4>2
    <3>3. Ordered(Arr(Other(e)), chan[Other(e)], p)' /\ p <= written'[e]
      BY <1>2, <1>3, <3>1 DEF CarriedUpTo, Ordered
    <3>4. Gapless(Arr(Other(e)), chan[Other(e)], p) => Gapless(Arr(Other(e)), chan[Other(e)], p)'
      BY <1>2, <1>3 DEF Gapless
    <3>5. (~Acked \/ conn[e].handlerT \/ Whole(e, p))'
      BY <1>1, <3>1, <3>4 DEF CarriedUpTo, Whole, Acked, Kept, Same
    <3>6. CarriedUpTo(e, p)'
      BY <1>1, <3>3, <3>5 DEF CarriedUpTo
    <3> QED
      BY <3>2, <3>6 DEF Carried
  <2> QED
    BY <2>1, <2>2
<1> QED
  BY <1>5, <1>6, BothCarried DEF CarriedInv

\* A goroutine that is writing, where nobody has raced: what it has to send.
LEMMA BusyCarried ==
    ASSUME TypeInv, SeqInv, NEW e \in Ends, NEW r \in Roles, Carried(e), Busy(e, r), ~raced[e]
    PROVE  \E p \in Nat, q \in Nat :
              /\ CarriedUpTo(e, p) /\ ~conn[e].werr /\ Pending(e, p) /\ p <= q /\ q <= written[e]
              /\ Cuts(Rest(job[e][r]), p, q)
              /\ Run(IF job[e][r].op = "tail" THEN conn[e].wbuf ELSE job[e][r].left, q, written[e])
<1>1. PICK p \in Nat : CarriedUpTo(e, p) /\ ~conn[e].werr
  BY DEF Carried
<1>2. Pending(e, p)
  BY <1>1 DEF CarriedUpTo
<1>3. PICK q \in Nat :
        /\ Cuts(Rest(job[e][r]), p, q)
        /\ Run(IF job[e][r].op = "tail" THEN conn[e].wbuf ELSE job[e][r].left, q, written[e])
        /\ q <= written[e]
  BY <1>2, PendingBusy
<1>4. p <= q
  BY <1>3 DEF Cuts
<1> QED
  BY <1>1, <1>2, <1>3, <1>4

\* The answer of a block is a result, or it was refused.
LEMMA AnsweredCarried ==
    ASSUME TypeInv, SeqInv, CarriedInv, NEW e \in Ends, NEW r \in Roles, Answered(e, r)
    PROVE  CarriedInv'
<1>1. /\ raced' = raced /\ chan' = chan
      /\ \/ job[e][r].pc = "result" /\ Advances(e, r)
         \/ job[e][r].pc = "error" /\ Breaks(e, r)
  BY AnsweredFacts
<1>2. got' = got /\ params' = params
  BY DEF Answered
<1>3. CASE job[e][r].pc = "error" /\ Breaks(e, r)
  <2>1. Busy(e, r)
    BY <1>3, BusyWorking DEF Working
  <2>2. written' = written
    BY <1>3 DEF Answered, At, WriteErr
  <2> QED
    BY <1>1, <1>2, <1>3, <2>1, <2>2, BreaksCarried
<1>4. CASE job[e][r].pc = "result" /\ Advances(e, r)
  <2>1. Busy(e, r) /\ Wrote(e, r)
    BY <1>4, BusyWorking DEF Working, Answered, At
  <2>2. /\ OnlyConn(e) /\ OnlyJob(e, r) /\ Kept(e) /\ conn'[e].werr = conn[e].werr
        /\ job'[e][r].pc \in {"send", "idle", "tail", "notify"}
    BY <1>4 DEF Advances
  <2>3. /\ Other(e) \in Ends /\ Other(e) # e /\ Carried(e) /\ Carried(Other(e))
        /\ \A x \in Roles : job'[Other(e)][x] = job[Other(e)][x]
    BY <2>2, OtherEnd DEF CarriedInv, OnlyJob
  <2>4. \A x \in Ends : Arr(x)' = Arr(x)
    BY <1>2, <2>2 DEF OnlyConn, Kept, Same, Arr
  <2>5. written'[e] >= written[e] /\ written'[Other(e)] = written[Other(e)]
    BY <1>2, <2>1, WroteBytes
  <2>6. Carried(Other(e))'
    BY <1>1, <1>2, <2>2, <2>3, <2>4, <2>5, OtherAlone
  <2>7. Carried(e)'
    <3>1. CASE raced[e]
      BY <1>1, <3>1 DEF Carried
    <3>2. CASE ~raced[e]
      <4>1. PICK p \in Nat, q \in Nat :
              /\ CarriedUpTo(e, p) /\ ~conn[e].werr /\ p <= q /\ q <= written[e]
              /\ Cuts(Rest(job[e][r]), p, q)
              /\ Run(IF job[e][r].op = "tail" THEN conn[e].wbuf ELSE job[e][r].left, q, written[e])
        BY <2>1, <2>3, <3>2, BusyCarried
      <4>2. Rest(job[e][r]) = Tail(job[e][r].todo)
        BY <1>4 DEF Rest, Outs
      <4>3. Pending(e, p)'
        BY <1>2, <2>1, <3>2, <4>1, <4>2, PendingWrote
      <4>4. Unhurried(e)
        BY <1>4, <2>2 DEF Unhurried, OnlyJob, Past
      <4>5. p <= written'[e]
        <5>1. written[e] \in Nat /\ written'[e] \in Nat
          BY AnsweredFacts DEF TypeInv, RestTypes
        <5> QED
          BY <2>5, <4>1, <5>1
      <4> QED
        BY <1>1, <1>2, <2>2, <2>3, <2>4, <4>1, <4>3, <4>4, <4>5, CarriedBegins DEF Kept, Same
    <3> QED
      BY <3>1, <3>2
  <2> QED
    BY <2>6, <2>7, BothCarried DEF CarriedInv
<1> QED
  BY <1>1, <1>3, <1>4

\* (The deadline.)
LEMMA TimeoutCarried ==
    ASSUME TypeInv, SeqInv, CarriedInv, NEW e \in Ends, NEW r \in Roles, Timeout(e, r)
    PROVE  CarriedInv'
<1>1. raced' = raced /\ chan' = chan /\ job[e][r].pc = "wait" /\ Breaks(e, r)
  BY TimeoutFacts
<1>2. got' = got /\ params' = params /\ written' = written
  BY DEF Timeout, WriteErr
<1>3. Busy(e, r)
  BY <1>1, BusyWorking DEF Working
<1> QED
  BY <1>1, <1>2, <1>3, BreaksCarried

\* The one block on its way, when there was none and nothing was missing.
LEMMA GaplessSends ==
    ASSUME NEW s \in Bytes, NEW q \in Seq(Stanzas), NEW p \in Nat, NEW b \in Nat, p <= b,
           Run(s, 0, Len(s)), Settled(s, q, p), NEW m \in Stanzas, IsData(m), Run(m.bytes, p, b)
    PROVE  /\ Gapless(s, q \o <<m>>, b)
           /\ \A i \in DOMAIN (q \o <<m>>) : IsData((q \o <<m>>)[i]) => (q \o <<m>>)[i] = m
<1> DEFINE z == q \o <<m>>
<1>1. PICK n \in Nat : n = Len(q)
  OBVIOUS
<1>2. Len(z) = n + 1 /\ z \in Seq(Stanzas) /\ DOMAIN z = 1 .. n + 1 /\ DOMAIN q = 1 .. n
  BY <1>1
<1>3. \A i \in 1 .. n : z[i] = q[i]
  BY <1>1
<1>4. z[n + 1] = m
  BY <1>1
<1> HIDE DEF z
<1>5. \A i \in 1 .. n : ~IsData(z[i])
  BY <1>2, <1>3 DEF Settled, NoData, IsData
<1>6. \A i \in DOMAIN z : IsData(z[i]) => i = n + 1
  BY <1>2, <1>5
<1>7. Len(s) = p
  BY DEF Settled
<1>8. Gapless(s, z, b)
  BY <1>4, <1>6, <1>7 DEF Gapless
<1> QED
  BY <1>4, <1>6, <1>8 DEF z

\* A block that is sent over IQs is the only one, and its goroutine waits.
LEMMA WholeSends ==
    ASSUME TypeInv, SeqInv, NEW e \in Ends, NEW r \in Roles, job[e][r].pc = "send", ~raced[e],
           NEW p \in Nat, NEW b \in Nat, p <= b, Whole(e, p), ~conn[e].werr,
           NEW m \in Stanzas, IsData(m), Run(m.bytes, p, b), m.by = r,
           chan'[e] = chan[e], chan'[Other(e)] = chan[Other(e)] \o <<m>>,
           Arr(Other(e))' = Arr(Other(e)), OnlyJob(e, r), job'[e][r].pc = "wait"
    PROVE  Whole(e, b)'
<1>1. Gapless(Arr(Other(e)), chan[Other(e)], p) /\ Due(e, p)
  BY DEF Whole
<1>2. Busy(e, r)
  BY BusyWorking DEF Working
<1>3. \A x \in Roles : x # r => job[e][x].pc \notin Working /\ job'[e][x] = job[e][x]
  BY <1>2, NobodyElse DEF OnlyJob
<1>4. Settled(Arr(Other(e)), chan[Other(e)], p)
  BY <1>1, <1>3 DEF Due, Working
<1>5. Arr(Other(e)) \in Bytes /\ chan[Other(e)] \in Seq(Stanzas)
  BY ByteTypes, OtherEnd
<1>6. Run(Arr(Other(e)), 0, Len(Arr(Other(e))))
  BY <1>1 DEF Gapless
<1> DEFINE z == chan[Other(e)] \o <<m>>
<1>7. /\ Gapless(Arr(Other(e)), z, b)
      /\ \A i \in DOMAIN z : IsData(z[i]) => z[i] = m
  BY <1>4, <1>5, <1>6, GaplessSends
<1>8. NoneIn(chan[e], Results(r)) /\ \A x \in Roles : job[e][x].pc \notin Past => NoneIn(chan[e], Results(x))
  BY <1>1 DEF Due, Past
<1>9. Gapless(Arr(Other(e)), chan[Other(e)], b)'
  BY <1>7 DEF Gapless
<1>10. \A x \in Roles : job'[e][x].pc \notin Past => NoneIn(chan'[e], Results(x))
  BY <1>3, <1>8 DEF Past
<1>11. \A x \in Roles : job'[e][x].pc = "wait" =>
          OnceIn(chan'[e], Results(x)) /\ NoneIn(chan'[e], Results(x))
  BY <1>3, <1>8 DEF Working, OnceIn, NoneIn
<1>12. \A i \in DOMAIN z : IsData(z[i]) =>
          z[i].by \in Roles /\ job'[e][z[i].by].pc \in {"wait", "error"}
  BY <1>7
<1> HIDE DEF z
<1>13. chan'[Other(e)] = z
  BY DEF z
<1>14. Due(e, b)'
  BY <1>10, <1>11, <1>12, <1>13 DEF Due
<1> QED
  BY <1>9, <1>14 DEF Whole

\* A goroutine sends a chunk.
LEMMA SendCarried ==
    ASSUME TypeInv, SeqInv, CarriedInv, NEW e \in Ends, NEW r \in Roles, Send(e, r)
    PROVE  CarriedInv'
<1>1. TypeInv' /\ job[e][r].pc = "send" /\ raced' = raced
  BY SendFacts
<1>2. Busy(e, r)
  BY <1>1, BusyWorking DEF Working
<1>3. CASE job[e][r].stale
  <2>1. chan' = chan /\ Breaks(e, r)
    BY <1>3, SendFacts
  <2>2. got' = got /\ params' = params /\ written' = written
    BY <1>3 DEF Send, WriteErr
  <2> QED
    BY <1>1, <1>2, <2>1, <2>2, BreaksCarried
<1>4. CASE ~job[e][r].stale
  <2> DEFINE j == job[e][r]
             k == job'[e][r]
  <2>1. /\ got' = got /\ params' = params
        /\ Acked => /\ conn' = conn /\ written' = written
                    /\ k.pc = "wait" /\ k.todo = j.todo /\ k.left = j.left /\ k.op = j.op
        /\ ~Acked => Wrote(e, r)
    BY <1>4, SendBytes
  <2>2. PICK m \in Stanzas :
          m.kind = "data" /\ m.bytes = Head(j.todo) /\ SendsOne(e, m) /\ (Acked => m.by = r)
    BY <1>4, SendBytes
  <2>3. OnlyConn(e) /\ OnlyJob(e, r) /\ Kept(e) /\ conn'[e].werr = conn[e].werr
    <3>1. \/ conn' = conn /\ JobMoves(e, r)
          \/ Advances(e, r)
      BY <1>4, SendFacts
    <3> QED
      BY <3>1 DEF JobMoves, Advances, OnlyConn, Kept, Same
  <2>4. /\ Other(e) \in Ends /\ Other(e) # e /\ Carried(e) /\ Carried(Other(e))
        /\ \A x \in Roles : job'[Other(e)][x] = job[Other(e)][x]
    BY <2>3, OtherEnd DEF CarriedInv, OnlyJob
  <2>5. \A x \in Ends : Arr(x)' = Arr(x)
    BY <2>1, <2>3 DEF OnlyConn, Kept, Same, Arr
  <2>6. written'[e] >= written[e] /\ written'[Other(e)] = written[Other(e)]
        /\ written[e] \in Nat /\ written'[e] \in Nat
    <3>1. written[e] \in Nat /\ written'[e] \in Nat
      BY <1>1 DEF TypeInv, RestTypes
    <3>2. CASE Acked
      BY <2>1, <3>1, <3>2
    <3>3. CASE ~Acked
      BY <1>2, <2>1, <3>1, <3>3, WroteBytes
    <3> QED
      BY <3>2, <3>3
  <2>7. chan[e] \in Seq(Stanzas) /\ chan[Other(e)] \in Seq(Stanzas) /\ Arr(Other(e)) \in Bytes
    BY <2>4, ByteTypes
  <2> DEFINE ms == <<m>>
  <2>8. /\ ms \in Seq(Stanzas) /\ Len(ms) = 1 /\ ms[1] = m
        /\ \A x \in Roles : NoneIn(ms, Results(x))
    BY <2>2 DEF NoneIn, Results
  <2>9. chan'[Other(e)] = chan[Other(e)] \o ms /\ chan'[e] = chan[e]
    BY <2>2, <2>4, <2>7 DEF SendsOne
  <2>10. Carried(Other(e))'
    <3>1. Thins(chan'[e], chan[e])
      <4>1. <<>> \in Seq(Stanzas) /\ NoData(<<>>)
        BY DEF NoData
      <4> QED
        BY <2>7, <2>9, <4>1, ThinsAdds
    <3> HIDE DEF ms
    <3> QED
      BY <1>1, <2>1, <2>3, <2>4, <2>5, <2>6, <2>8, <2>9, <3>1, OtherCarried
  <2>11. Carried(e)'
    <3>1. CASE raced[e]
      BY <1>1, <3>1 DEF Carried
    <3>2. CASE ~raced[e]
      <4>1. PICK p \in Nat, q \in Nat :
              /\ CarriedUpTo(e, p) /\ ~conn[e].werr /\ p <= q /\ q <= written[e]
              /\ Cuts(Rest(j), p, q)
              /\ Run(IF j.op = "tail" THEN conn[e].wbuf ELSE j.left, q, written[e])
        BY <1>2, <2>4, <3>2, BusyCarried
      <4>2. Rest(j) = j.todo /\ j.todo \in Seq(Bytes) /\ j.todo # <<>> /\ Head(j.todo) \in Bytes
        <5>1. j.todo \in Seq(Bytes) /\ j.todo # <<>>
          BY <1>2, ByteTypes DEF Busy
        <5>2. Head(j.todo) \in Bytes
          BY <5>1, HeadTailProperties
        <5> QED
          BY <1>1, <5>1, <5>2 DEF Rest, Outs
      <4>3. PICK b \in Nat : Run(Head(j.todo), p, b) /\ Cuts(Tail(j.todo), b, q) /\ p <= b /\ b <= q
        BY <4>1, <4>2, CutsTail
      <4> DEFINE cs == <<Head(j.todo)>>
      <4>4. cs \in Seq(Bytes) /\ Len(cs) = 1 /\ cs[1] = Head(j.todo) /\ Cuts(cs, p, b)
        BY <4>2, <4>3, CutsFew
      <4>5. Len(ms) = Len(cs) /\ \A i \in DOMAIN ms : ms[i].bytes = cs[i]
        BY <2>2, <2>8, <4>4
      <4>6. Ordered(Arr(Other(e)), chan[Other(e)], p)
        BY <4>1 DEF CarriedUpTo
      <4> HIDE DEF cs, ms
      <4>7. Ordered(Arr(Other(e)), chan[Other(e)] \o ms, b)
        BY <2>7, <2>8, <4>4, <4>5, <4>6, OrderedSends
      <4>8. Ordered(Arr(Other(e)), chan[Other(e)], b)'
        BY <2>4, <2>5, <2>9, <4>7 DEF Ordered
      <4>9. b <= written'[e]
        BY <2>6, <4>1, <4>3
      <4>10. Pending(e, b)'
        <5>1. CASE Acked
          <6>1. Rest(k) = Tail(j.todo)
            BY <2>1, <5>1 DEF Rest, Outs
          <6>2. Busy(e, r)'
            BY <2>1, <4>2, <5>1 DEF Busy
          <6>3. /\ Cuts(Rest(k), b, q)
                /\ Run(IF k.op = "tail" THEN conn'[e].wbuf ELSE k.left, q, written'[e])
            BY <2>1, <4>1, <4>3, <5>1, <6>1
          <6> QED
            BY <6>2, <6>3 DEF Pending
        <5>2. CASE ~Acked
          BY <1>2, <2>1, <3>2, <4>1, <4>3, <5>2, PendingWrote
        <5> QED
          BY <5>1, <5>2
      <4>11. (~Acked \/ conn[e].handlerT \/ Whole(e, b))'
        <5>1. CASE Acked /\ ~conn[e].handlerT
          <6>1. Whole(e, p)
            BY <4>1, <5>1 DEF CarriedUpTo
          <6>2. IsData(m) /\ Run(m.bytes, p, b) /\ m.by = r
            BY <2>2, <4>3, <5>1 DEF IsData
          <6>3. Whole(e, b)'
            BY <1>1, <2>1, <2>3, <2>4, <2>5, <2>9, <3>2, <4>1, <4>3, <5>1, <6>1, <6>2, WholeSends DEF ms
          <6> QED
            BY <6>3
        <5>2. CASE ~Acked
          BY <2>1, <5>2 DEF Acked
        <5>3. CASE conn[e].handlerT
          BY <2>3, <5>3 DEF Kept, Same
        <5> QED
          BY <5>1, <5>2, <5>3
      <4>12. CarriedUpTo(e, b)'
        BY <4>8, <4>9, <4>10, <4>11 DEF CarriedUpTo
      <4>13. ~conn'[e].werr
        BY <2>3, <4>1
      <4> QED
        BY <4>12, <4>13 DEF Carried
    <3> QED
      BY <3>1, <3>2
  <2> QED
    BY <2>10, <2>11, BothCarried DEF CarriedInv
<1> QED
  BY <1>3, <1>4

\* An answer that is taken by the goroutine that waits for it.
LEMMA DueAnswered ==
    ASSUME TypeInv, NEW e \in Ends, NEW r \in Roles, NEW p, Due(e, p), chan[e] # <<>>,
           Head(chan[e]) \in Answers, Head(chan[e]).by = r, job[e][r].pc = "wait", OnlyJob(e, r),
           job'[e][r].pc = Head(chan[e]).kind, chan'[e] = Tail(chan[e]),
           chan'[Other(e)] = chan[Other(e)], Arr(Other(e))' = Arr(Other(e))
    PROVE  Due(e, p)'
<1> DEFINE b == chan[e]
           t == Tail(chan[e])
           S == Settled(Arr(Other(e)), chan[Other(e)], p)
<1>1. b \in Seq(Stanzas)
  BY ByteTypes
<1>2. \A x \in Roles : /\ NoneIn(b, Results(x)) => NoneIn(t, Results(x))
                       /\ OnceIn(b, Results(x)) => OnceIn(t, Results(x))
                       /\ OnceIn(b, Results(x)) /\ Head(b) \in Results(x) => NoneIn(t, Results(x))
                       /\ NoneIn(b, Results(x)) => Head(b) \notin Results(x)
  BY <1>1, TailIn
<1>3. Head(b).kind \in {"result", "error"} /\ (Head(b).kind = "result" => Head(b) \in Results(r))
  BY DEF Answers, Results
<1>4. S' = S
  BY DEF Settled, NoData
<1> HIDE DEF b, t
<1>5. /\ \A x \in Roles : job[e][x].pc \notin Past => NoneIn(b, Results(x))
      /\ \A x \in Roles : job[e][x].pc = "wait" =>
            OnceIn(b, Results(x)) /\ (NoneIn(b, Results(x)) \/ S)
      /\ \A i \in DOMAIN chan[Other(e)] : IsData(chan[Other(e)][i]) =>
            chan[Other(e)][i].by \in Roles /\ job[e][chan[Other(e)][i].by].pc \in {"wait", "error"}
  BY DEF Due, b
<1>6. job'[e][r].pc = Head(b).kind /\ chan'[e] = t
  BY DEF b, t
<1>7. job'[e][r].pc = "result" => S /\ NoneIn(t, Results(r))
  BY <1>2, <1>3, <1>5, <1>6
<1>8. \A x \in Roles : job'[e][x].pc \notin Past => NoneIn(t, Results(x))
  BY <1>2, <1>3, <1>5, <1>6, <1>7 DEF OnlyJob, Past
<1>9. \A x \in Roles : job'[e][x].pc = "wait" =>
          OnceIn(t, Results(x)) /\ (NoneIn(t, Results(x)) \/ S)
  BY <1>2, <1>3, <1>5, <1>6 DEF OnlyJob
<1>10. (\A x \in Roles : job'[e][x].pc \notin {"wait", "error"}) => S
  BY <1>3, <1>6, <1>7
<1>11. \A i \in DOMAIN chan[Other(e)] : IsData(chan[Other(e)][i]) =>
          chan[Other(e)][i].by \in Roles /\ job'[e][chan[Other(e)][i].by].pc \in {"wait", "error"}
  <2> SUFFICES ASSUME NEW i \in DOMAIN chan[Other(e)], IsData(chan[Other(e)][i])
               PROVE  /\ chan[Other(e)][i].by \in Roles
                      /\ job'[e][chan[Other(e)][i].by].pc \in {"wait", "error"}
    OBVIOUS
  <2>1. ~S
    BY DEF Settled, NoData, IsData
  <2> QED
    BY <1>3, <1>5, <1>6, <1>7, <2>1 DEF OnlyJob
<1> HIDE DEF S
<1> QED
  BY <1>4, <1>6, <1>8, <1>9, <1>10, <1>11 DEF Due, S

----------------------------------------------------------------------------
(* Steps of Serve.                                                         *)

\* An answer is taken.
LEMMA ServedCarried ==
    ASSUME TypeInv, SeqInv, CarriedInv, NEW e \in Ends, ServeAnswer(e)
    PROVE  CarriedInv'
<1>1. /\ chan[e] # <<>> /\ Head(chan[e]) \in Answers /\ raced' = raced /\ conn' = conn
      /\ Takes(e, <<>>)
  BY ServeAnswerFacts
<1>2. got' = got /\ written' = written /\ params' = params
  BY ServedBytes
<1>3. /\ Other(e) \in Ends /\ Other(e) # e /\ Carried(e) /\ Carried(Other(e))
  BY OtherEnd DEF CarriedInv
<1>4. /\ chan[e] \in Seq(Stanzas) /\ chan[Other(e)] \in Seq(Stanzas)
      /\ \A x \in Ends : Arr(x)' = Arr(x)
  BY <1>1, <1>2, <1>3, ByteTypes DEF Arr
<1> DEFINE ms == <<>>
<1>5. ms \in Seq(Stanzas) /\ NoData(ms) /\ \A S : NoneIn(ms, S)
  BY DEF NoData, NoneIn
<1>6. chan'[Other(e)] = chan[Other(e)] \o ms /\ chan'[e] = Tail(chan[e]) /\ Takes(e, ms)
  BY <1>1 DEF Takes
<1>7. chan'[Other(e)] = chan[Other(e)]
  BY <1>4, <1>6
<1> HIDE DEF ms
<1>8. OnlyConn(e) /\ Writes(conn'[e], conn[e]) /\ Thins(chan'[e], chan[e])
  BY <1>1, <1>4, <1>6, ThinsTail DEF OnlyConn, Writes
<1>9. \A x \in Roles : job'[Other(e)][x] = job[Other(e)][x]
  BY <1>3, ServedBytes DEF OnlyJob
<1>10. Carried(Other(e))'
  BY <1>1, <1>2, <1>3, <1>4, <1>5, <1>6, <1>8, <1>9, OtherCarried
<1>11. CASE job' = job
  <2>1. Lingers(e)
    BY <1>11, LingersAll
  <2>2. Carried(e)'
    BY <1>1, <1>2, <1>3, <1>4, <1>5, <1>6, <1>8, <2>1, TakesCarried
  <2> QED
    BY <1>10, <2>2, BothCarried DEF CarriedInv
<1>12. ASSUME NEW r \in Roles, OnlyJob(e, r), job'[e][r].todo = job[e][r].todo,
              job[e][r].pc = "closewait", job'[e][r].pc = "closed"
       PROVE  CarriedInv'
  <2>1. job[e][r].todo = <<>>
    BY <1>12, NothingToDo DEF Working
  <2>2. Lingers(e)
    BY <1>12, <2>1, LingersOne DEF Working, Past
  <2>3. Carried(e)'
    BY <1>1, <1>2, <1>3, <1>4, <1>5, <1>6, <1>8, <2>2, TakesCarried
  <2> QED
    BY <1>10, <2>3, BothCarried DEF CarriedInv
<1>13. ASSUME NEW r \in Roles, OnlyJob(e, r), job'[e][r].todo = job[e][r].todo,
              job'[e][r].left = job[e][r].left, job'[e][r].op = job[e][r].op,
              r = Head(chan[e]).by, job[e][r].pc = "wait", job'[e][r].pc = Head(chan[e]).kind,
              job'[e][r].pc \in {"result", "error"}
       PROVE  CarriedInv'
  <2>1. Busy(e, r) /\ Busy(e, r)'
    <3>1. Busy(e, r)
      BY <1>13, BusyWorking DEF Working
    <3> QED
      BY <1>13, <3>1 DEF Busy
  <2>2. CASE raced[e]
    BY <1>1, <1>10, <2>2, BothCarried DEF CarriedInv, Carried
  <2>3. CASE ~raced[e]
    <3>1. PICK p \in Nat, q \in Nat :
            /\ CarriedUpTo(e, p) /\ ~conn[e].werr
            /\ Cuts(Rest(job[e][r]), p, q)
            /\ Run(IF job[e][r].op = "tail" THEN conn[e].wbuf ELSE job[e][r].left, q, written[e])
      BY <1>3, <2>1, <2>3, BusyCarried
    <3>2. Rest(job'[e][r]) = Rest(job[e][r])
      BY <1>13 DEF Rest, Outs
    <3>3. /\ Cuts(Rest(job'[e][r]), p, q)
          /\ Run(IF job'[e][r].op = "tail" THEN conn'[e].wbuf ELSE job'[e][r].left, q, written'[e])
      BY <1>1, <1>2, <1>13, <3>1, <3>2
    <3>4. Pending(e, p)'
      BY <2>1, <3>3 DEF Pending
    <3>5. Ordered(Arr(Other(e)), chan[Other(e)], p)' /\ p <= written'[e]
      BY <1>2, <1>3, <1>4, <1>7, <3>1 DEF CarriedUpTo, Ordered
    <3>6. Whole(e, p) => Whole(e, p)'
      <4>1. Gapless(Arr(Other(e)), chan[Other(e)], p) => Gapless(Arr(Other(e)), chan[Other(e)], p)'
        BY <1>3, <1>4, <1>7 DEF Gapless
      <4>2. Due(e, p) => Due(e, p)'
        BY <1>1, <1>3, <1>4, <1>6, <1>7, <1>13, DueAnswered
      <4> QED
        BY <3>1, <4>1, <4>2 DEF Whole
    <3>7. (~Acked \/ conn[e].handlerT \/ Whole(e, p))'
      BY <1>1, <1>2, <3>1, <3>6 DEF CarriedUpTo, Acked
    <3>8. CarriedUpTo(e, p)'
      BY <3>4, <3>5, <3>7 DEF CarriedUpTo
    <3>9. Carried(e)'
      BY <1>1, <3>1, <3>8 DEF Carried
    <3> QED
      BY <1>10, <3>9, BothCarried DEF CarriedInv
  <2> QED
    BY <2>2, <2>3
<1> QED
  BY <1>11, <1>12, <1>13, ServedBytes

\* The answer to a close is for the Close that waits for it, or did.
LEMMA CloseAnswers ==
    ASSUME TypeInv, FlightInv, NEW e \in Ends, chan[e] # <<>>, Head(chan[e]).kind = "close",
           NEW ms \in Seq(Answers), Echoes(ms, Head(chan[e]))
    PROVE  \A r \in Roles : job[Other(e)][r].pc \notin {"closewait", "failed"} =>
              NoneIn(ms, Results(r))
<1>1. PICK o \in Ends : o = Other(e) /\ Other(o) = e
  BY OtherEnd
<1>2. chan[e] \in Seq(Stanzas) /\ Head(chan[e]) \in Stanzas
  BY ByteTypes, HeadTailProperties
<1>3. Flight(CPc(o), chan[e], chan[o])
  BY <1>1 DEF FlightInv
<1>4. \A S : NoneIn(chan[e], S) => Head(chan[e]) \notin S
  BY <1>2, TailIn
<1>5. Head(chan[e]) \in Closings
  BY <1>2 DEF Closings
<1>6. Head(chan[e]) \in Asks
  BY <1>3, <1>4, <1>5 DEF Flight
<1>7. CPc(o) \in {"closewait", "failed"}
  BY <1>3, <1>4, <1>5, <1>6 DEF Flight
<1>8. Head(chan[e]).by = "closer"
  BY <1>6 DEF Asks
<1>9. NoneIn(ms, Results("writer"))
  BY <1>8 DEF Echoes, NoneIn, Results
<1> QED
  BY <1>1, <1>7, <1>9 DEF CPc, Roles

\* A close is answered, or closeNoNotify is next.
LEMMA HandleCloseCarried ==
    ASSUME TypeInv, FlightInv, CarriedInv, NEW e \in Ends, HandleClose(e)
    PROVE  CarriedInv'
<1>1. /\ chan[e] # <<>> /\ Head(chan[e]).kind = "close" /\ job' = job /\ raced' = raced /\ conn' = conn
      /\ \/ chan' = chan
         \/ \E ms \in Seq(Answers) : Takes(e, ms) /\ Echoes(ms, Head(chan[e]))
  BY HandleCloseFacts
<1>2. got' = got /\ written' = written /\ params' = params
  BY DEF HandleClose, appVars
<1>3. /\ Other(e) \in Ends /\ Other(e) # e /\ Carried(e) /\ Carried(Other(e))
      /\ chan[e] \in Seq(Stanzas) /\ chan[Other(e)] \in Seq(Stanzas)
  BY OtherEnd, ByteTypes DEF CarriedInv
<1>4. OnlyConn(e) /\ Writes(conn'[e], conn[e]) /\ \A x \in Ends : Arr(x)' = Arr(x)
  BY <1>1, <1>2 DEF OnlyConn, Writes, Arr
<1>5. Lingers(e) /\ \A x \in Roles : job'[Other(e)][x] = job[Other(e)][x]
  BY <1>1, LingersAll
<1>6. CASE chan' = chan
  BY <1>1, <1>2, <1>4, <1>5, <1>6, AloneCarried
<1>7. CASE \E ms \in Seq(Answers) : Takes(e, ms) /\ Echoes(ms, Head(chan[e]))
  <2>1. PICK ms \in Seq(Answers) : Takes(e, ms) /\ Echoes(ms, Head(chan[e]))
    BY <1>7
  <2>2. ms \in Seq(Stanzas) /\ NoData(ms)
    BY AnswersPlain
  <2>3. chan'[e] = Tail(chan[e]) /\ chan'[Other(e)] = chan[Other(e)] \o ms
    BY <2>1 DEF Takes
  <2>4. Thins(chan'[e], chan[e])
    BY <1>1, <1>3, <2>3, ThinsTail
  <2>5. \A r \in Roles : job[Other(e)][r].pc \notin {"closewait", "failed"} => NoneIn(ms, Results(r))
    BY <1>1, <2>1, CloseAnswers
  <2>6. Carried(Other(e))'
    BY <1>1, <1>2, <1>3, <1>4, <1>5, <2>2, <2>3, <2>4, <2>5, OtherCarried
  <2>7. Carried(e)'
    BY <1>1, <1>2, <1>3, <1>4, <1>5, <2>1, <2>2, TakesCarried
  <2> QED
    BY <2>6, <2>7, BothCarried DEF CarriedInv
<1> QED
  BY <1>1, <1>6, <1>7

\* One sequence after another, and a third.
LEMMA RegroupedStanzas ==
    ASSUME NEW x \in Seq(Stanzas), NEW y \in Seq(Stanzas), NEW z \in Seq(Stanzas)
    PROVE  (x \o y) \o z = x \o (y \o z)
BY ConcatAssociative

\* Everything that is buffered is written by the handler.
LEMMA ClosesCarried ==
    ASSUME BaseInv, FlightInv, CarriedInv, NEW e \in Ends, closeNoNotify(e)
    PROVE  CarriedInv'
<1>0. TypeInv
  BY DEF BaseInv
<1>1. chan[e] # <<>> /\ Head(chan[e]).kind = "close"
  BY DEF BaseInv, HeadInv, closeNoNotify
<1>2. /\ job' = job /\ OnlyConn(e) /\ conn'[e].handlerT = TRUE /\ conn'[e].rbuf = conn[e].rbuf
      /\ conn'[e].werr = conn[e].werr
      /\ \/ conn[e].werr /\ chan' = chan /\ raced' = raced
         \/ /\ ~conn[e].werr /\ Races(e, "none", Ops)
            /\ \E ans \in Seq(Answers) :
                  Takes(e, Numbers(conn[e]) \o ans) /\ Echoes(ans, Head(chan[e]))
            /\ conn'[e].wbuf = <<>> /\ conn'[e].fringe = <<>>
  BY <1>0, <1>1, CloseNoNotifyFacts
<1>3. got' = got /\ written' = written /\ params' = params
  BY DEF closeNoNotify, appVars
<1>4. /\ Other(e) \in Ends /\ Other(e) # e /\ Carried(e) /\ Carried(Other(e))
      /\ chan[e] \in Seq(Stanzas) /\ chan[Other(e)] \in Seq(Stanzas) /\ Arr(Other(e)) \in Bytes
      /\ written[e] \in Nat /\ conn[e].fringe \in Bytes /\ conn[e].wbuf \in Bytes
      /\ \A x \in Roles : job'[Other(e)][x] = job[Other(e)][x]
  BY <1>0, <1>2, OtherEnd, ByteTypes DEF CarriedInv
<1>5. \A x \in Ends : Arr(x)' = Arr(x)
  BY <1>2, <1>3 DEF OnlyConn, Arr
<1>6. CASE conn[e].werr /\ chan' = chan /\ raced' = raced
  <2>1. Carried(Other(e))'
    BY <1>0, <1>2, <1>3, <1>4, <1>5, <1>6, OtherAlone
  <2>2. CASE raced[e]
    BY <1>6, <2>1, <2>2, BothCarried DEF CarriedInv, Carried
  <2>3. CASE ~raced[e]
    <3>1. PICK p \in Nat : CarriedUpTo(e, p)
      BY <1>4, <2>3 DEF Carried
    <3>2. \A r \in Roles : ~Busy(e, r)
      BY <1>4, <1>6, <2>3 DEF Carried
    <3>3. \A r \in Roles : ~Busy(e, r)'
      BY <1>2, <3>2 DEF Busy
    <3>4. Ordered(Arr(Other(e)), chan[Other(e)], p)' /\ p <= written'[e]
      BY <1>3, <1>4, <1>5, <1>6, <3>1 DEF CarriedUpTo, Ordered
    <3>5. CarriedUpTo(e, p)'
      BY <1>2, <1>6, <3>4 DEF CarriedUpTo
    <3>6. Carried(e)'
      BY <3>3, <3>5 DEF Carried
    <3> QED
      BY <2>1, <3>6, BothCarried DEF CarriedInv
  <2> QED
    BY <2>2, <2>3
<1>7. CASE /\ ~conn[e].werr /\ Races(e, "none", Ops)
           /\ \E ans \in Seq(Answers) :
                 Takes(e, Numbers(conn[e]) \o ans) /\ Echoes(ans, Head(chan[e]))
           /\ conn'[e].wbuf = <<>> /\ conn'[e].fringe = <<>>
  <2>1. PICK ans \in Seq(Answers) :
          Takes(e, Numbers(conn[e]) \o ans) /\ Echoes(ans, Head(chan[e]))
    BY <1>7
  <2> DEFINE n == Numbers(conn[e])
             z == chan[Other(e)]
  <2>2. ans \in Seq(Stanzas) /\ NoData(ans)
    BY AnswersPlain
  <2>3. GoodConn(conn[e]) /\ params \in Streams
    BY <1>0, EndTypes
  <2>4. /\ n \in Seq(Stanzas) /\ Len(n) = Len(Everything(conn[e])) /\ Everything(conn[e]) \in Seq(Bytes)
        /\ \A i \in DOMAIN n : n[i].bytes = Everything(conn[e])[i]
    BY <2>3, NumbersBytes
  <2>5. \A r \in Roles : NoneIn(n, Results(r))
    BY <2>3, NumbersTypes DEF NoneIn, Results
  <2> HIDE DEF n
  <2>6. n \o ans \in Seq(Stanzas)
    BY <2>2, <2>4, JoinedIn
  <2>7. /\ chan'[e] = Tail(chan[e]) /\ chan'[Other(e)] = z \o (n \o ans)
    BY <2>1 DEF Takes, n
  <2>8. \A r \in Roles : job[Other(e)][r].pc \notin {"closewait", "failed"} =>
            NoneIn(n \o ans, Results(r))
    <3>1. \A r \in Roles : job[Other(e)][r].pc \notin {"closewait", "failed"} =>
              NoneIn(ans, Results(r))
      BY <1>0, <1>1, <2>1, CloseAnswers
    <3> QED
      BY <2>2, <2>4, <2>5, <3>1, JoinedIn
  <2>9. /\ raced[e] => raced'[e]
        /\ raced[Other(e)] => raced'[Other(e)]
        /\ (\E x \in Roles \ {"none"} : Busy(e, x) /\ job[e][x].op \in Ops) => raced'[e]
    BY <1>0, <1>4, <1>7, RacesEffect
  <2>10. Carried(Other(e))'
    <3>1. Thins(chan'[e], chan[e])
      BY <1>1, <1>4, <2>7, ThinsTail
    <3> QED
      BY <1>0, <1>2, <1>3, <1>4, <1>5, <2>6, <2>7, <2>8, <2>9, <3>1, OtherCarried
  <2>11. CASE raced'[e]
    BY <2>10, <2>11, BothCarried DEF CarriedInv, Carried
  <2>12. CASE ~raced'[e]
    <3>1. \A x \in Roles : ~Busy(e, x)
      <4>1. \A x \in Roles : job[e][x].op \in Ops /\ x \in Roles \ {"none"}
        BY <1>0, BusyWorking DEF Roles
      <4> QED
        BY <2>9, <2>12, <4>1
    <3>2. PICK p \in Nat : CarriedUpTo(e, p)
      BY <1>4, <2>9, <2>12 DEF Carried
    <3>3. p <= written[e] /\ Ordered(Arr(Other(e)), z, p) /\ Pending(e, p)
      BY <1>7, <3>2 DEF CarriedUpTo
    <3>4. PICK q \in Nat : Run(conn[e].fringe, p, q) /\ Run(conn[e].wbuf, q, written[e])
      BY <3>1, <3>3 DEF Pending
    <3>5. Cuts(Everything(conn[e]), p, written[e])
      BY <1>4, <2>3, <3>4, EverythingRuns
    <3>6. Ordered(Arr(Other(e)), z \o n, written[e])
      BY <1>4, <2>4, <3>3, <3>5, OrderedSends
    <3>7. z \o n \in Seq(Stanzas) /\ (z \o n) \o ans = z \o (n \o ans)
      <4>1. z \o n \in Seq(Stanzas)
        BY <1>4, <2>4, JoinedIn
      <4>2. (z \o n) \o ans = z \o (n \o ans)
        BY <1>4, <2>2, <2>4, RegroupedStanzas
      <4> QED
        BY <4>1, <4>2
    <3>8. Ordered(Arr(Other(e)), (z \o n) \o ans, written[e])
      BY <1>4, <2>2, <3>6, <3>7, ThinsAdds DEF Thins
    <3>9. Ordered(Arr(Other(e)), chan[Other(e)], written[e])'
      BY <1>3, <1>4, <1>5, <2>7, <3>7, <3>8 DEF Ordered
    <3>10. \A x \in Roles : ~Busy(e, x)'
      BY <1>2, <3>1 DEF Busy
    <3>11. Run(<<>>, written[e], written[e])
      BY <1>4, RunParts
    <3>12. /\ Run(conn'[e].fringe, written[e], written[e])
           /\ Run(conn'[e].wbuf, written[e], written'[e])
      BY <1>3, <1>7, <3>11

    <3>15. \E v \in Nat : CarriedUpTo(e, v)'
      <4>1. PICK v \in Nat : v = written[e] /\ v = written'[e]
        BY <1>3, <1>4
      <4>2. Ordered(Arr(Other(e)), chan[Other(e)], v)'
        BY <1>3, <3>9, <4>1 DEF Ordered, Within
      <4>3. Pending(e, v)'
        BY <3>10, <3>12, <4>1 DEF Pending
      <4>4. CarriedUpTo(e, v)'
        BY <1>2, <4>1, <4>2, <4>3 DEF CarriedUpTo
      <4> QED
        BY <4>4
    <3>16. Carried(e)'
      BY <3>10, <3>15 DEF Carried
    <3> QED
      BY <2>10, <3>16, BothCarried DEF CarriedInv
  <2> QED
    BY <2>11, <2>12
<1> QED
  BY <1>2, <1>6, <1>7

\* A block that was the only one is refused.
LEMMA DueRefused ==
    ASSUME TypeInv, NEW e \in Ends, NEW o \in Ends, o = Other(e), e = Other(o), NEW p, Due(o, p),
           chan[e] # <<>>, IsData(Head(chan[e])), NEW ms \in Seq(Stanzas), Takes(e, ms),
           \A x \in Roles : NoneIn(ms, Results(x)), job' = job
    PROVE  Due(o, p)'
<1>1. chan[e] \in Seq(Stanzas) /\ chan[o] \in Seq(Stanzas)
  BY ByteTypes
<1>2. chan'[e] = Tail(chan[e]) /\ chan'[o] = chan[o] \o ms
  BY DEF Takes
<1>3. \A x \in Roles : /\ NoneIn(chan[o], Results(x)) => NoneIn(chan'[o], Results(x))
                       /\ OnceIn(chan[o], Results(x)) => OnceIn(chan'[o], Results(x))
  BY <1>1, <1>2, JoinedIn
<1>4. 1 \in DOMAIN chan[e] /\ chan[e][1] = Head(chan[e])
  BY <1>1, EmptySeq
<1>5. ~Settled(Arr(e), chan[e], p)
  BY <1>4 DEF Settled, NoData, IsData
<1>6. /\ \A x \in Roles : job[o][x].pc \notin Past => NoneIn(chan[o], Results(x))
      /\ \A x \in Roles : job[o][x].pc = "wait" =>
            OnceIn(chan[o], Results(x)) /\ NoneIn(chan[o], Results(x))
      /\ ~(\A x \in Roles : job[o][x].pc \notin {"wait", "error"})
      /\ \A i \in DOMAIN chan[e] : IsData(chan[e][i]) =>
            chan[e][i].by \in Roles /\ job[o][chan[e][i].by].pc \in {"wait", "error"}
  BY <1>5 DEF Due
<1>7. \A i \in DOMAIN chan'[e] : IsData(chan'[e][i]) => \E k \in DOMAIN chan[e] : chan'[e][i] = chan[e][k]
  BY <1>1, <1>2, ThinsTail DEF Thins
<1>8. \A i \in DOMAIN chan'[e] : IsData(chan'[e][i]) =>
          chan'[e][i].by \in Roles /\ job'[o][chan'[e][i].by].pc \in {"wait", "error"}
  BY <1>6, <1>7
<1> QED
  BY <1>3, <1>6, <1>8 DEF Due

\* It is taken: then its goroutine is told so, and nothing is missing.
LEMMA DueTaken ==
    ASSUME TypeInv, NEW e \in Ends, NEW o \in Ends, o = Other(e), e = Other(o), NEW p \in Nat, Due(o, p),
           chan[e] # <<>>, IsData(Head(chan[e])), NEW ms \in Seq(Stanzas), Takes(e, ms),
           Len(ms) <= 1, \A i \in DOMAIN ms : ms[i].by = Head(chan[e]).by, job' = job,
           Settled(Arr(e), chan[e], p)'
    PROVE  Due(o, p)'
<1>1. chan[e] \in Seq(Stanzas) /\ chan[o] \in Seq(Stanzas)
  BY ByteTypes
<1>2. chan'[e] = Tail(chan[e]) /\ chan'[o] = chan[o] \o ms
  BY DEF Takes
<1>3. \A x \in Roles : /\ NoneIn(chan[o], Results(x)) /\ NoneIn(ms, Results(x)) =>
                            NoneIn(chan'[o], Results(x))
                       /\ NoneIn(chan[o], Results(x)) /\ OnceIn(ms, Results(x)) =>
                            OnceIn(chan'[o], Results(x))
  BY <1>1, <1>2, JoinedIn
<1>4. 1 \in DOMAIN chan[e] /\ chan[e][1] = Head(chan[e])
  BY <1>1, EmptySeq
<1>5. ~Settled(Arr(e), chan[e], p)
  BY <1>4 DEF Settled, NoData, IsData
<1>6. /\ \A x \in Roles : job[o][x].pc \notin Past => NoneIn(chan[o], Results(x))
      /\ \A x \in Roles : job[o][x].pc = "wait" => NoneIn(chan[o], Results(x))
      /\ Head(chan[e]).by \in Roles /\ job[o][Head(chan[e]).by].pc \in {"wait", "error"}
  BY <1>4, <1>5 DEF Due
<1>7. \A x \in Roles : x # Head(chan[e]).by => NoneIn(ms, Results(x))
  BY DEF NoneIn, Results
<1>8. \A S : OnceIn(ms, S)
  <2>1. \A i, k \in DOMAIN ms : i = k
    OBVIOUS
  <2> QED
    BY <2>1 DEF OnceIn
<1>9. \A x \in Roles : job'[o][x].pc \notin Past => NoneIn(chan'[o], Results(x))
  BY <1>3, <1>6, <1>7 DEF Past
<1>10. \A x \in Roles : job'[o][x].pc = "wait" => OnceIn(chan'[o], Results(x))
  BY <1>3, <1>6, <1>8
<1>11. \A i \in DOMAIN chan'[e] : ~IsData(chan'[e][i])
  BY DEF Settled, NoData, IsData
<1> QED
  BY <1>9, <1>10, <1>11 DEF Due

\* A block is refused, or arrives.
LEMMA PayloadCarried ==
    ASSUME TypeInv, CarriedInv, NEW e \in Ends, handlePayload(e)
    PROVE  CarriedInv'
<1>1. /\ job' = job /\ raced' = raced /\ OnlyConn(e) /\ Writes(conn'[e], conn[e])
  BY PayloadFacts
<1>2. /\ got' = got /\ written' = written /\ params' = params /\ chan[e] # <<>> /\ IsData(Head(chan[e]))
  BY PayloadBytes
<1>3. PICK ms \in Seq(Answers), kind \in {"result", "error"} :
        /\ Takes(e, ms) /\ Len(ms) <= 1
        /\ \A i \in DOMAIN ms : ms[i].by = Head(chan[e]).by /\ ms[i].kind = kind
        /\ \/ kind = "error" /\ conn'[e].rbuf = conn[e].rbuf
           \/ kind = "result" /\ conn'[e].rbuf = conn[e].rbuf \o Head(chan[e]).bytes
  BY PayloadBytes
<1>4. PICK o \in Ends : o = Other(e) /\ e = Other(o) /\ o # e
  BY OtherEnd
<1>5. /\ ms \in Seq(Stanzas) /\ NoData(ms)
  BY AnswersPlain
<1>6. /\ Carried(e) /\ Carried(o) /\ conn'[o] = conn[o]
      /\ chan[e] \in Seq(Stanzas) /\ chan[o] \in Seq(Stanzas) /\ Arr(e) \in Bytes
      /\ got[e] \in Bytes /\ conn[e].rbuf \in Bytes
      /\ chan'[e] = Tail(chan[e]) /\ chan'[o] = chan[o] \o ms
  BY <1>1, <1>3, <1>4, ByteTypes DEF CarriedInv, OnlyConn, Takes
<1>7. Carried(e)'
  <2>1. Lingers(e)
    BY <1>1, LingersAll
  <2>2. Arr(Other(e))' = Arr(Other(e))
    BY <1>2, <1>4, <1>6 DEF Arr
  <2> QED
    BY <1>1, <1>2, <1>3, <1>5, <1>6, <2>1, <2>2, TakesCarried
<1>8. Carried(o)'
  <2>1. CASE raced[o]
    BY <1>1, <2>1 DEF Carried
  <2>2. CASE ~raced[o]
    <3>1. PICK p \in Nat : CarriedUpTo(o, p)
      BY <1>6, <2>2 DEF Carried
    <3>2. \A r \in Roles : Busy(o, r)' => ~conn'[o].werr
      BY <1>1, <1>6, <2>2 DEF Carried, Busy
    <3>3. conn[o].werr \/ Pending(o, p)'
      <4>1. Lingers(o)
        BY <1>1, LingersAll
      <4>2. Pending(o, p) => Pending(o, p)'
        BY <1>2, <1>6, <4>1, PendingKept
      <4> QED
        BY <3>1, <4>2 DEF CarriedUpTo
    <3>4. p <= written'[o] /\ Ordered(Arr(e), chan[e], p)
      BY <1>2, <1>4, <3>1 DEF CarriedUpTo
    <3>5. /\ Acked /\ ~conn[o].handlerT => Gapless(Arr(e), chan[e], p)
          /\ Acked /\ ~conn[o].handlerT /\ ~conn[o].werr => Due(o, p)
      BY <1>4, <3>1 DEF CarriedUpTo, Whole
    <3>6. /\ Ordered(Arr(e), chan[e], p)'
          /\ Acked /\ ~conn[o].handlerT => Gapless(Arr(e), chan[e], p)'
          /\ Acked /\ ~conn[o].handlerT /\ ~conn[o].werr => Due(o, p)'
      <4>1. CASE kind = "error" /\ conn'[e].rbuf = conn[e].rbuf
        <5>1. Arr(e)' = Arr(e)
          BY <1>2, <4>1 DEF Arr
        <5>2. Thins(chan'[e], chan[e])
          BY <1>2, <1>6, ThinsTail
        <5>3. Ordered(Arr(e), chan'[e], p) /\ (Gapless(Arr(e), chan[e], p) => Gapless(Arr(e), chan'[e], p))
          BY <1>6, <3>4, <5>2 DEF Thins
        <5>4. \A x \in Roles : NoneIn(ms, Results(x))
          BY <1>3, <4>1 DEF NoneIn, Results
        <5>5. Due(o, p) => Due(o, p)'
          BY <1>1, <1>2, <1>3, <1>4, <1>5, <5>4, DueRefused
        <5>6. Ordered(Arr(e), chan[e], p)'
          BY <5>1, <5>3 DEF Ordered
        <5>7. Gapless(Arr(e), chan'[e], p) => Gapless(Arr(e), chan[e], p)'
          BY <5>1 DEF Gapless
        <5> QED
          BY <3>5, <5>3, <5>5, <5>6, <5>7
      <4>2. CASE kind = "result" /\ conn'[e].rbuf = conn[e].rbuf \o Head(chan[e]).bytes
        <5>1. Head(chan[e]).bytes \in Bytes
          <6>1. Head(chan[e]) \in Stanzas
            BY <1>2, <1>6, HeadTailProperties
          <6> QED
            BY <6>1 DEF Stanzas, StanzaType
        <5>2. Arr(e)' = Arr(e) \o Head(chan[e]).bytes
          <6>1. (got[e] \o conn[e].rbuf) \o Head(chan[e]).bytes
                  = got[e] \o (conn[e].rbuf \o Head(chan[e]).bytes)
            BY <1>6, <5>1, Regrouped
          <6> QED
            BY <1>2, <4>2, <6>1 DEF Arr
        <5>3. Ordered(Arr(e) \o Head(chan[e]).bytes, Tail(chan[e]), p)
          BY <1>2, <1>6, <3>4, OrderedArrives
        <5>4. Gapless(Arr(e), chan[e], p) =>
                 /\ Gapless(Arr(e) \o Head(chan[e]).bytes, Tail(chan[e]), p)
                 /\ Settled(Arr(e) \o Head(chan[e]).bytes, Tail(chan[e]), p)
          BY <1>2, <1>6, GaplessArrives
        <5>5. Ordered(Arr(e), chan[e], p)'
          BY <1>6, <5>2, <5>3 DEF Ordered
        <5>6. Gapless(Arr(e), chan[e], p) => Gapless(Arr(e), chan[e], p)' /\ Settled(Arr(e), chan[e], p)'
          BY <1>6, <5>2, <5>4 DEF Gapless, Settled, NoData
        <5>7. Due(o, p) /\ Settled(Arr(e), chan[e], p)' => Due(o, p)'
          BY <1>1, <1>2, <1>3, <1>4, <1>5, DueTaken
        <5> QED
          BY <3>5, <5>5, <5>6, <5>7
      <4> QED
        BY <1>3, <4>1, <4>2
    <3>7. Acked' = Acked
      BY <1>2 DEF Acked
    <3>8. (~Acked \/ conn[o].handlerT \/ Whole(o, p))'
      BY <1>4, <1>6, <3>6, <3>7 DEF Whole
    <3>9. CarriedUpTo(o, p)'
      BY <1>4, <1>6, <3>3, <3>4, <3>6, <3>8 DEF CarriedUpTo
    <3> QED
      BY <3>2, <3>9 DEF Carried
  <2> QED
    BY <2>1, <2>2
<1> QED
  BY <1>4, <1>7, <1>8, BothCarried DEF CarriedInv

----------------------------------------------------------------------------
(* In order and without gaps.                                              *)

\* Every step keeps the bytes where they belong.
LEMMA CarriedStep ==
    ASSUME BaseInv, SeqInv, FlightInv, CarriedInv, Next
    PROVE  CarriedInv'
<1>0. TypeInv
  BY DEF BaseInv
<1>1. PICK e \in Ends :
        \/ Write(e) \/ Flush(e)
        \/ Close(e) \/ CloseSet(e) \/ CloseTail(e) \/ CloseNotify(e) \/ CloseTimeout(e)
        \/ CloseDone(e)
        \/ \E r \in Roles : Lock(e, r) \/ Send(e, r) \/ Answered(e, r) \/ Timeout(e, r)
        \/ Read(e) \/ Receive(e) \/ \E max \in Limits : SetReadBuffer(e, max)
        \/ handlePayload(e) \/ HandleClose(e) \/ closeNoNotify(e) \/ ServeAnswer(e)
  BY NextCases
<1>2. CASE \/ Write(e) \/ Flush(e) \/ Close(e) \/ CloseSet(e) \/ CloseTimeout(e) \/ CloseDone(e)
  BY <1>0, <1>2, PlainCarried
<1>3. CASE CloseTail(e)
  BY <1>0, <1>3, CloseTailCarried
<1>4. CASE CloseNotify(e)
  BY <1>0, <1>4, NotifyCarried
<1>5. CASE \E r \in Roles : Lock(e, r) \/ Send(e, r) \/ Answered(e, r) \/ Timeout(e, r)
  BY <1>0, <1>5, LockCarried, SendCarried, AnsweredCarried, TimeoutCarried
<1>6. CASE Read(e) \/ Receive(e) \/ \E max \in Limits : SetReadBuffer(e, max)
  BY <1>0, <1>6, ReaderCarried
<1>7. CASE handlePayload(e)
  BY <1>0, <1>7, PayloadCarried
<1>8. CASE HandleClose(e)
  BY <1>0, <1>8, HandleCloseCarried
<1>9. CASE closeNoNotify(e)
  BY <1>9, ClosesCarried
<1>10. CASE ServeAnswer(e)
  BY <1>0, <1>10, ServedCarried
<1> QED
  BY <1>1, <1>2, <1>3, <1>4, <1>5, <1>6, <1>7, <1>8, <1>9, <1>10

\* Nothing is written at first.
LEMMA CarriedInit ==
    ASSUME Init
    PROVE  CarriedInv
<1> SUFFICES ASSUME NEW o \in Ends PROVE Carried(o)
  BY DEF CarriedInv
<1>1. Other(o) \in Ends
  BY OtherEnd
<1>2. /\ written[o] = 0 /\ got[Other(o)] = <<>> /\ chan[Other(o)] = <<>> /\ chan[o] = <<>>
      /\ conn[Other(o)].rbuf = <<>> /\ conn[o].fringe = <<>> /\ conn[o].wbuf = <<>>
  BY <1>1 DEF Init
<1>3. \A r \in Roles : job[o][r].todo = <<>> /\ job[o][r].pc = "idle"
  BY DEF Init
<1>4. Arr(Other(o)) = <<>>
  BY <1>2 DEF Arr
<1>5. Run(<<>>, 0, 0)
  BY DEF Run
<1>6. Pending(o, 0)
  BY <1>2, <1>3, <1>5 DEF Pending, Busy
<1>7. Ordered(<<>>, <<>>, 0) /\ Gapless(<<>>, <<>>, 0) /\ Settled(<<>>, <<>>, 0)
  BY <1>5 DEF Ordered, Gapless, Settled, Rising, Within, NoData
<1>8. Due(o, 0)
  BY <1>2, <1>3, <1>4, <1>7 DEF Due, NoneIn, OnceIn
<1>9. CarriedUpTo(o, 0)
  BY <1>2, <1>4, <1>6, <1>7, <1>8 DEF CarriedUpTo, Whole
<1> QED
  BY <1>3, <1>9 DEF Carried, Busy

\* (Stuttering.)
LEMMA CarriedStutter ==
    ASSUME TypeInv, CarriedInv, UNCHANGED vars
    PROVE  CarriedInv'
<1>1. PICK e \in Ends : TRUE
  BY DEF Ends
<1>2. conn' = conn /\ job' = job /\ chan' = chan /\ got' = got /\ written' = written /\ raced' = raced
      /\ params' = params
  BY DEF vars, appVars, ghostVars
<1>3. OnlyConn(e) /\ Writes(conn'[e], conn[e]) /\ \A x \in Ends : Arr(x)' = Arr(x)
  BY <1>2 DEF OnlyConn, Writes, Arr
<1>4. Lingers(e) /\ \A x \in Roles : job'[Other(e)][x] = job[Other(e)][x]
  BY <1>2, LingersAll
<1> QED
  BY <1>2, <1>3, <1>4, AloneCarried

\* What arrives is the beginning of what was written.
LEMMA CarriedPrefix ==
    ASSUME NEW s \in Bytes, NEW w \in Nat, NEW p \in Nat, p <= w, Run(s, 0, Len(s)), Len(s) <= p
    PROVE  IsPrefix(s, [i \in 1 .. w |-> i])
<1> DEFINE t == [i \in 1 .. w |-> i]
<1>1. PICK n \in Nat : n = Len(s) /\ n <= w
  BY DEF Bytes
<1>2. t \in Seq(Nat) /\ Len(t) = w
  OBVIOUS
<1>3. \A i \in 1 .. n : s[i] = t[i]
  BY <1>1 DEF Run, Bytes
<1>4. s \in Seq(Nat) /\ \A i \in 1 .. w : t[i] = i
  BY DEF Bytes
<1> HIDE DEF t
<1>5. SubSeq(s, 1, n) \in Seq(Nat) /\ Len(SubSeq(s, 1, n)) = n /\ \A i \in 1 .. n : SubSeq(s, 1, n)[i] = s[i]
  BY <1>1, <1>4
<1>6. SubSeq(t, 1, n) \in Seq(Nat) /\ Len(SubSeq(t, 1, n)) = n /\ \A i \in 1 .. n : SubSeq(t, 1, n)[i] = t[i]
  BY <1>1, <1>2
<1>7. SubSeq(s, 1, n) = SubSeq(t, 1, n)
  BY <1>3, <1>5, <1>6, SeqEqual
<1> QED
  BY <1>1, <1>2, <1>7 DEF IsPrefix, t

\* So everything arrives in order.
LEMMA CarriedOrder ==
    ASSUME TypeInv, CarriedInv
    PROVE  InOrder
<1> SUFFICES ASSUME NEW e \in Ends, ~raced[e]
             PROVE  IF Acked /\ ~conn[e].handlerT THEN IsPrefix(Arr(Other(e)), Sent(e))
                    ELSE Rising(Arr(Other(e)))
  BY DEF InOrder, Arr, Rising
<1>1. PICK p \in Nat : CarriedUpTo(e, p)
  BY DEF CarriedInv, Carried
<1>2. Arr(Other(e)) \in Bytes /\ written[e] \in Nat
  BY ByteTypes, OtherEnd
<1>3. CASE Acked /\ ~conn[e].handlerT
  <2>1. /\ p <= written[e] /\ Run(Arr(Other(e)), 0, Len(Arr(Other(e)))) /\ Len(Arr(Other(e))) <= p
    BY <1>1, <1>3 DEF CarriedUpTo, Whole, Gapless
  <2>2. IsPrefix(Arr(Other(e)), Sent(e))
    BY <1>2, <2>1, CarriedPrefix DEF Sent
  <2> QED
    BY <1>3, <2>2
<1>4. CASE ~(Acked /\ ~conn[e].handlerT)
  BY <1>1, <1>4 DEF CarriedUpTo, Ordered
<1> QED
  BY <1>3, <1>4

\* What Read returns (ibb/conn.go) is what the other end's Write was given, in
\* order and without repetitions; over IQs, until closeNoNotify writes without
\* waiting for answers, nothing is missing in between.  The reason is where the
\* bytes are: those that have not arrived are in the stanzas on their way, in
\* the chunks the goroutine under the write lock has still to send, in the
\* encoder and in the buffer, one after the other; and over IQs a goroutine
\* learns that its block was taken only when all that was sent has arrived.
\* The exception is a flush without the lock while a block is being written.
THEOREM BytesInOrder == Spec => []InOrder
<1> DEFINE Inv == BaseInv /\ SeqInv /\ FlightInv /\ CarriedInv
<1>1. Init => Inv
  BY BaseInit, SeqInit, CloseInit, CarriedInit
<1>2. Inv /\ [Next]_vars => Inv'
  <2>1. ASSUME Inv, Next PROVE Inv'
    BY <2>1, BaseStep, SeqStep, FlightStep, CarriedStep
  <2>2. ASSUME Inv, UNCHANGED vars PROVE Inv'
    <3>1. FlightInv'
      BY <2>2 DEF FlightInv, CPc, vars
    <3> QED
      BY <2>2, <3>1, BaseStutter, SeqStutter, CarriedStutter DEF BaseInv
  <2> QED
    BY <2>1, <2>2
<1>3. Inv => InOrder
  BY CarriedOrder DEF BaseInv
<1> QED
  BY <1>1, <1>2, <1>3, PTL DEF Spec

----------------------------------------------------------------------------
(* No block is empty.                                                      *)

Filled(cs) == \A i \in DOMAIN cs : cs[i] # <<>>
\* The blocks of q have bytes.
Solid(q) == \A i \in DOMAIN q : IsData(q[i]) => q[i].bytes # <<>>
SolidInv == \A e \in Ends : Solid(chan[e]) /\ \A r \in Roles : Filled(job[e][r].todo)

\* Chunks after chunks, the others of several, and one that is not empty.
LEMMA FilledParts ==
    ASSUME NEW x \in Seq(Bytes), NEW y \in Seq(Bytes), NEW s \in Bytes
    PROVE  /\ Filled(x) /\ Filled(y) => Filled(x \o y)
           /\ Filled(x) /\ x # <<>> => Filled(Tail(x)) /\ Head(x) # <<>>
           /\ Filled(NonEmpty(s)) /\ NonEmpty(s) \in Seq(Bytes) /\ Filled(<<>>)
<1>1. ASSUME Filled(x), Filled(y)
      PROVE  Filled(x \o y)
  <2> SUFFICES ASSUME NEW i \in DOMAIN (x \o y) PROVE (x \o y)[i] # <<>>
    BY DEF Filled
  <2>1. PICK n \in Nat, k \in Nat : n = Len(x) /\ k = Len(y)
    OBVIOUS
  <2>2. /\ i \in 1 .. n + k /\ DOMAIN x = 1 .. n /\ DOMAIN y = 1 .. k
        /\ (x \o y)[i] = IF i <= n THEN x[i] ELSE y[i - n]
    BY <2>1
  <2>3. CASE i <= n
    BY <1>1, <2>2, <2>3 DEF Filled
  <2>4. CASE ~(i <= n)
    <3>1. i - n \in 1 .. k
      BY <2>1, <2>2, <2>4
    <3> QED
      BY <1>1, <2>2, <2>4, <3>1 DEF Filled
  <2> QED
    BY <2>3, <2>4
<1>2. ASSUME Filled(x), x # <<>>
      PROVE  Filled(Tail(x)) /\ Head(x) # <<>>
  <2>1. PICK n \in Nat : n = Len(x) /\ n > 0
    BY <1>2, EmptySeq
  <2>2. Len(Tail(x)) = n - 1 /\ \A i \in 1 .. n - 1 : Tail(x)[i] = x[i + 1]
    BY <1>2, <2>1
  <2>3. DOMAIN x = 1 .. n /\ DOMAIN Tail(x) = 1 .. n - 1 /\ Head(x) = x[1]
    BY <1>2, <2>1, <2>2
  <2> QED
    BY <1>2, <2>1, <2>2, <2>3 DEF Filled
<1>3. Filled(NonEmpty(s)) /\ NonEmpty(s) \in Seq(Bytes) /\ Filled(<<>>)
  BY DEF Filled, NonEmpty
<1> QED
  BY <1>1, <1>2, <1>3

\* So are the chunks of the encoder, and what closeNoNotify writes.
LEMMA FilledEncoder ==
    ASSUME params \in Streams, NEW f \in Bytes, NEW b \in Bytes, Len(f) <= Group
    PROVE  Filled(Chunks(f, b)) /\ Filled(closeFlush(f))
<1>1. Group \in Nat /\ Group > 0
  BY Parameters
<1> DEFINE s == f \o b
           l == Lead(f, b)
           n == Inner(f, b)
           x == SubSeq(s, 1, l)
           y == SubSeq(s, l + 1, l + n)
<1>2. s \in Seq(Nat) /\ Len(s) = Len(f) + Len(b) /\ Len(f) \in Nat /\ Len(b) \in Nat
  BY DEF Bytes
<1> HIDE DEF s
<1>3. l \in Nat /\ n \in Nat /\ l + n <= Len(s)
  <2>1. l \in Nat /\ l <= Len(s)
    BY <1>1, <1>2 DEF Lead
  <2>2. n \in Nat /\ n <= Len(s) - l
    <3>1. Len(s) - l \in Nat
      BY <1>2, <2>1
    <3> HIDE DEF l
    <3>2. Group * ((Len(s) - l) \div Group) \in Nat /\ Group * ((Len(s) - l) \div Group) <= Len(s) - l
      BY <1>1, <3>1, Division
    <3>3. n = 0 \/ n = Group * ((Len(s) - l) \div Group)
      BY DEF Inner, s, l
    <3> HIDE DEF n
    <3> QED
      BY <1>2, <2>1, <3>1, <3>2, <3>3
  <2> HIDE DEF l, n
  <2> QED
    BY <1>2, <2>1, <2>2
<1> HIDE DEF l, n
<1>4. x \in Bytes /\ y \in Bytes
  <2>1. PICK m \in Nat : m = Len(s)
    BY <1>2
  <2>2. l <= m /\ l + n <= m /\ l + 1 \in Nat /\ l + n \in Nat
    BY <1>3, <2>1
  <2>3. \A i \in 1 .. l : i \in 1 .. Len(s)
    BY <1>3, <2>1, <2>2
  <2>4. x \in Seq(Nat)
    <3>1. \A i \in 1 .. l : s[i] \in Nat
      BY <1>2, <2>3
    <3>2. 1 \in Int /\ l \in Int
      BY <1>3
    <3> QED
      BY <3>1, <3>2, SubSeqProperties
  <2>5. \A i \in l + 1 .. l + n : i \in 1 .. Len(s)
    BY <1>3, <2>1, <2>2
  <2>6. y \in Seq(Nat)
    BY <1>2, <1>3, <2>5, SubSeqProperties
  <2> QED
    BY <2>4, <2>6 DEF Bytes
<1>5. Chunks(f, b) = NonEmpty(x) \o NonEmpty(y)
  BY DEF Chunks, s, l, n
<1> HIDE DEF x, y
<1>6. <<>> \in Seq(Bytes)
  OBVIOUS
<1>7. \A z \in Bytes : Filled(NonEmpty(z)) /\ NonEmpty(z) \in Seq(Bytes)
  BY <1>6, FilledParts
<1>8. Filled(NonEmpty(x) \o NonEmpty(y))
  BY <1>4, <1>7, FilledParts
<1> QED
  BY <1>5, <1>7, <1>8 DEF closeFlush

\* (All of it.)
LEMMA FilledEverything ==
    ASSUME params \in Streams, NEW c, GoodConn(c)
    PROVE  Filled(Everything(c)) /\ Solid(Numbers(c))
<1>1. c.fringe \in Bytes /\ c.wbuf \in Bytes /\ Len(c.fringe) <= Group
  BY DEF GoodConn, ConnType
<1>2. /\ Chunks(c.fringe, c.wbuf) \in Seq(Bytes) /\ Left(c.fringe, c.wbuf) \in Bytes
      /\ Len(Left(c.fringe, c.wbuf)) <= Group
  BY <1>1, Encoder
<1>3. Filled(Everything(c))
  <2>1. CASE c.wbuf # <<>>
    <3>1. Everything(c) = Chunks(c.fringe, c.wbuf) \o closeFlush(Left(c.fringe, c.wbuf))
      BY <2>1 DEF Everything
    <3>2. Filled(Chunks(c.fringe, c.wbuf)) /\ Filled(closeFlush(Left(c.fringe, c.wbuf)))
      BY <1>1, <1>2, FilledEncoder
    <3>3. closeFlush(Left(c.fringe, c.wbuf)) \in Seq(Bytes)
      BY <1>2, FlushTypes
    <3> QED
      BY <1>2, <3>1, <3>2, <3>3, FilledParts
  <2>2. CASE c.wbuf = <<>>
    <3>1. Everything(c) = <<>> \o closeFlush(c.fringe)
      BY <2>2 DEF Everything
    <3>2. Filled(<<>>) /\ Filled(closeFlush(c.fringe)) /\ <<>> \in Seq(Bytes)
      BY <1>1, FilledEncoder DEF Filled
    <3>3. closeFlush(c.fringe) \in Seq(Bytes)
      BY <1>1, FlushTypes
    <3> QED
      BY <1>1, <3>1, <3>2, <3>3, FilledParts
  <2> QED
    BY <2>1, <2>2
<1>4. DOMAIN Numbers(c) = DOMAIN Everything(c)
  BY DEF Numbers
<1>5. \A i \in DOMAIN Numbers(c) : Numbers(c)[i].bytes = Everything(c)[i]
  BY NumbersBytes
<1> QED
  BY <1>3, <1>4, <1>5 DEF Filled, Solid

\* Stanzas after stanzas, and all but the first.
LEMMA SolidParts ==
    ASSUME NEW q \in Seq(Stanzas), NEW ms \in Seq(Stanzas), Solid(q)
    PROVE  /\ Solid(ms) => Solid(q \o ms)
           /\ NoData(ms) => Solid(ms)
           /\ q # <<>> => Solid(Tail(q)) /\ (IsData(Head(q)) => Head(q).bytes # <<>>)
<1>1. ASSUME Solid(ms)
      PROVE  Solid(q \o ms)
  <2> SUFFICES ASSUME NEW i \in DOMAIN (q \o ms), IsData((q \o ms)[i]) PROVE (q \o ms)[i].bytes # <<>>
    BY DEF Solid
  <2>1. PICK n \in Nat, k \in Nat : n = Len(q) /\ k = Len(ms)
    OBVIOUS
  <2>2. /\ i \in 1 .. n + k /\ DOMAIN q = 1 .. n /\ DOMAIN ms = 1 .. k
        /\ (q \o ms)[i] = IF i <= n THEN q[i] ELSE ms[i - n]
    BY <2>1
  <2>3. CASE i <= n
    BY <2>2, <2>3 DEF Solid
  <2>4. CASE ~(i <= n)
    <3>1. i - n \in 1 .. k
      BY <2>1, <2>2, <2>4
    <3> QED
      BY <1>1, <2>2, <2>4, <3>1 DEF Solid
  <2> QED
    BY <2>3, <2>4
<1>2. NoData(ms) => Solid(ms)
  BY DEF Solid, NoData, IsData
<1>3. ASSUME q # <<>>
      PROVE  Solid(Tail(q)) /\ (IsData(Head(q)) => Head(q).bytes # <<>>)
  <2>1. PICK n \in Nat : n = Len(q) /\ n > 0
    BY <1>3, EmptySeq
  <2>2. Len(Tail(q)) = n - 1 /\ \A i \in 1 .. n - 1 : Tail(q)[i] = q[i + 1]
    BY <1>3, <2>1
  <2>3. DOMAIN q = 1 .. n /\ DOMAIN Tail(q) = 1 .. n - 1 /\ Head(q) = q[1]
    BY <1>3, <2>1, <2>2
  <2> QED
    BY <2>1, <2>2, <2>3 DEF Solid
<1> QED
  BY <1>1, <1>2, <1>3

\* A step that is not e's own, for the end o.
Apathetic(o) ==
    /\ conn'[o] = conn[o] /\ rpc'[o] = rpc[o] /\ panic'[o] = panic[o] /\ written'[o] = written[o]
    /\ got'[o] = got[o] /\ flushed'[o] = flushed[o] /\ raced'[o] = raced[o]
    /\ \A r \in Roles : job'[o][r] = job[o][r]

\* The goroutines of e write nothing, or fail to.
LEMMA FilledKept ==
    ASSUME SolidInv, \A x \in Ends : Solid(chan'[x]),
           \A x \in Ends, r \in Roles : job'[x][r].todo \in {job[x][r].todo, <<>>}
    PROVE  SolidInv'
<1>1. Filled(<<>>)
  BY DEF Filled
<1>2. \A x \in Ends, r \in Roles : Filled(job'[x][r].todo)
  BY <1>1 DEF SolidInv
<1> QED
  BY <1>2 DEF SolidInv

\* (One of them goes on with other chunks.)
LEMMA FilledOne ==
    ASSUME SolidInv, \A x \in Ends : Solid(chan'[x]), NEW e \in Ends, NEW r \in Roles, OnlyJob(e, r),
           Filled(job'[e][r].todo)
    PROVE  SolidInv'
<1>1. \A x \in Ends, y \in Roles : Filled(job'[x][y].todo)
  BY DEF SolidInv, OnlyJob
<1> QED
  BY <1>1 DEF SolidInv

\* What is taken and what is added.
LEMMA SolidTakes ==
    ASSUME TypeInv, SolidInv, NEW e \in Ends, chan[e] # <<>>, NEW ms \in Seq(Stanzas), Solid(ms),
           Takes(e, ms)
    PROVE  \A x \in Ends : Solid(chan'[x])
<1>1. PICK o \in Ends : o = Other(e) /\ \A x \in Ends : x = e \/ x = o
  BY OtherEnd
<1>2. chan[e] \in Seq(Stanzas) /\ chan[o] \in Seq(Stanzas) /\ Solid(chan[e]) /\ Solid(chan[o])
  BY ByteTypes DEF SolidInv
<1>3. chan'[e] = Tail(chan[e]) /\ chan'[o] = chan[o] \o ms
  BY <1>1 DEF Takes
<1>4. Solid(Tail(chan[e])) /\ Solid(chan[o] \o ms)
  BY <1>2, SolidParts
<1> QED
  BY <1>1, <1>3, <1>4

\* (Sent.)
LEMMA SolidSends ==
    ASSUME TypeInv, SolidInv, NEW e \in Ends, NEW m \in Stanzas, IsData(m) => m.bytes # <<>>,
           SendsOne(e, m)
    PROVE  \A x \in Ends : Solid(chan'[x])
<1>1. PICK o \in Ends : o = Other(e) /\ o # e /\ \A x \in Ends : x = e \/ x = o
  BY OtherEnd
<1>2. chan[e] \in Seq(Stanzas) /\ chan[o] \in Seq(Stanzas) /\ Solid(chan[e]) /\ Solid(chan[o])
  BY ByteTypes DEF SolidInv
<1> DEFINE ms == <<m>>
<1>3. ms \in Seq(Stanzas) /\ Solid(ms)
  BY DEF Solid
<1>4. chan'[e] = chan[e] /\ chan'[o] = chan[o] \o ms
  <2>1. chan'[e] = chan[e] /\ chan'[o] = Append(chan[o], m)
    BY <1>1 DEF SendsOne
  <2>2. Append(chan[o], m) = chan[o] \o ms
    BY <1>2
  <2> QED
    BY <2>1, <2>2
<1> HIDE DEF ms
<1>5. Solid(chan[o] \o ms)
  BY <1>2, <1>3, SolidParts
<1> QED
  BY <1>1, <1>2, <1>4, <1>5

\* The next chunks of a block.
LEMMA WroteFilled ==
    ASSUME TypeInv, SolidInv, NEW e \in Ends, NEW r \in Roles, Busy(e, r), Wrote(e, r),
           params' = params, \A x \in Ends : Solid(chan'[x])
    PROVE  SolidInv'
<1>1. OnlyJob(e, r) /\ job'[e][r].todo \in {Tail(job[e][r].todo), <<>>}
  BY WroteFacts, WroteBytes DEF Busy, Advances
<1>2. job[e][r].todo \in Seq(Bytes) /\ job[e][r].todo # <<>> /\ Filled(job[e][r].todo)
  BY ByteTypes DEF Busy, SolidInv
<1>3. Filled(Tail(job[e][r].todo)) /\ Filled(<<>>)
  BY <1>2, FilledParts DEF Filled, Bytes
<1> QED
  BY <1>1, <1>3, FilledOne

\* A step of a goroutine that writes.
LEMMA RoleSolid ==
    ASSUME TypeInv, SolidInv, NEW e \in Ends, NEW r \in Roles,
           Lock(e, r) \/ Send(e, r) \/ Answered(e, r) \/ Timeout(e, r)
    PROVE  SolidInv'
<1>0. \A x \in Ends : Solid(chan[x])
  BY DEF SolidInv
<1>1. CASE Lock(e, r)
  <2>1. OnlyJob(e, r) /\ chan' = chan
    BY <1>1, LockFacts
  <2>2. job'[e][r].todo \in {<<>>, Chunks(conn[e].fringe, conn[e].wbuf)}
    BY <1>1, LockBytes
  <2>3. Filled(Chunks(conn[e].fringe, conn[e].wbuf)) /\ Filled(<<>>)
    <3>1. Filled(Chunks(conn[e].fringe, conn[e].wbuf))
      BY ByteTypes, FilledEncoder
    <3> QED
      BY <3>1 DEF Filled
  <2> QED
    BY <1>0, <2>1, <2>2, <2>3, FilledOne
<1>2. ASSUME Breaks(e, r), chan' = chan
      PROVE  SolidInv'
  <2>1. \A x \in Ends, y \in Roles : job'[x][y].todo \in {job[x][y].todo, <<>>}
    BY <1>2 DEF Breaks, OnlyJob
  <2> QED
    BY <1>0, <1>2, <2>1, FilledKept
<1>3. CASE Timeout(e, r)
  BY <1>2, <1>3, TimeoutFacts
<1>4. CASE Answered(e, r)
  <2>1. chan' = chan /\ (job[e][r].pc = "result" \/ Breaks(e, r))
    BY <1>4, AnsweredFacts
  <2>2. CASE job[e][r].pc = "result"
    <3>1. Busy(e, r) /\ Wrote(e, r) /\ params' = params
      BY <1>4, <2>2, BusyWorking DEF Working, Answered, At
    <3> QED
      BY <1>0, <2>1, <3>1, WroteFilled
  <2> QED
    BY <1>2, <2>1, <2>2
<1>5. CASE Send(e, r)
  <2>1. CASE job[e][r].stale
    BY <1>2, <1>5, <2>1, SendFacts
  <2>2. CASE ~job[e][r].stale
    <3>1. /\ Busy(e, r) /\ params' = params /\ (~Acked => Wrote(e, r))
          /\ Acked => job'[e][r].todo = job[e][r].todo
      BY <1>5, <2>2, SendBytes
    <3>2. PICK m \in Stanzas : m.bytes = Head(job[e][r].todo) /\ SendsOne(e, m)
      BY <1>5, <2>2, SendBytes
    <3>3. OnlyJob(e, r)
      BY <1>5, <2>2, SendFacts DEF JobMoves, Advances
    <3>4. job[e][r].todo \in Seq(Bytes) /\ job[e][r].todo # <<>> /\ Filled(job[e][r].todo)
      BY <3>1, ByteTypes DEF Busy, SolidInv
    <3>5. Head(job[e][r].todo) # <<>>
      BY <3>4, FilledParts DEF Bytes
    <3>6. \A x \in Ends : Solid(chan'[x])
      BY <3>2, <3>5, SolidSends
    <3> QED
      BY <3>1, <3>3, <3>4, <3>6, FilledOne, WroteFilled
  <2> QED
    BY <2>1, <2>2
<1> QED
  BY <1>1, <1>3, <1>4, <1>5

\* Every step keeps it.
LEMMA SolidStep ==
    ASSUME BaseInv, SolidInv, Next
    PROVE  SolidInv'
<1>0. TypeInv /\ \A x \in Ends : Solid(chan[x])
  BY DEF BaseInv, SolidInv
<1>1. PICK e \in Ends :
        \/ Write(e) \/ Flush(e)
        \/ Close(e) \/ CloseSet(e) \/ CloseTail(e) \/ CloseNotify(e) \/ CloseTimeout(e)
        \/ CloseDone(e)
        \/ \E r \in Roles : Lock(e, r) \/ Send(e, r) \/ Answered(e, r) \/ Timeout(e, r)
        \/ Read(e) \/ Receive(e) \/ \E max \in Limits : SetReadBuffer(e, max)
        \/ handlePayload(e) \/ HandleClose(e) \/ closeNoNotify(e) \/ ServeAnswer(e)
  BY NextCases
<1>2. ASSUME NEW r \in Roles, OnlyJob(e, r), chan' = chan,
             job'[e][r].todo \in {job[e][r].todo, <<>>}
      PROVE  SolidInv'
  BY <1>0, <1>2, FilledKept DEF OnlyJob
<1>3. CASE Write(e) \/ Flush(e)
  BY <1>0, <1>2, <1>3, BeginFacts DEF JobMoves, Roles
<1>4. CASE Close(e)
  BY <1>0, <1>2, <1>4, CloseFacts DEF JobMoves, Roles
<1>5. CASE CloseSet(e)
  BY <1>0, <1>2, <1>5, CloseSetFacts DEF JobMoves, Roles
<1>6. CASE CloseTimeout(e)
  BY <1>0, <1>2, <1>6, CloseTimeoutFacts DEF Roles
<1>7. CASE CloseDone(e)
  BY <1>0, <1>2, <1>7, CloseDoneFacts DEF JobMoves, Roles
<1>8. CASE CloseTail(e)
  <2>1. OnlyJob(e, "closer") /\ chan' = chan
    BY <1>0, <1>8, CloseTailFacts
  <2>2. \/ job'[e]["closer"].todo = <<>>
        \/ job'[e]["closer"].todo = <<conn[e].fringe>> /\ conn[e].fringe # <<>>
    BY <1>0, <1>8, CloseTailBytes
  <2>3. Filled(job'[e]["closer"].todo)
    BY <2>2 DEF Filled
  <2> QED
    BY <1>0, <2>1, <2>3, FilledOne DEF Roles
<1>9. CASE CloseNotify(e)
  <2>1. JobMoves(e, "closer")
    BY <1>0, <1>9, CloseNotifyFacts
  <2>2. PICK m \in Stanzas : m.kind = "close" /\ SendsOne(e, m)
    BY <1>0, <1>9, CloseNotifyFacts
  <2>3. \A x \in Ends : Solid(chan'[x])
    BY <1>0, <2>2, SolidSends DEF IsData
  <2> QED
    BY <2>1, <2>3, FilledKept DEF JobMoves, OnlyJob
<1>10. CASE \E r \in Roles : Lock(e, r) \/ Send(e, r) \/ Answered(e, r) \/ Timeout(e, r)
  BY <1>0, <1>10, RoleSolid
<1>11. ASSUME job' = job, \A x \in Ends : Solid(chan'[x])
       PROVE  SolidInv'
  BY <1>11, FilledKept
<1>12. CASE Read(e) \/ Receive(e) \/ \E max \in Limits : SetReadBuffer(e, max)
  <2>1. job' = job /\ chan' = chan
    BY <1>0, <1>12, ReadFacts, ReceiveFacts, SetReadBufferFacts
  <2> QED
    BY <1>0, <1>11, <2>1
<1>13. ASSUME NEW ms \in Seq(Answers), chan[e] # <<>>, Takes(e, ms)
       PROVE  \A x \in Ends : Solid(chan'[x])
  <2>1. ms \in Seq(Stanzas) /\ Solid(ms)
    BY AnswersPlain DEF Solid, NoData, IsData
  <2> QED
    BY <1>0, <1>13, <2>1, SolidTakes
<1>14. CASE handlePayload(e)
  BY <1>0, <1>11, <1>13, <1>14, PayloadFacts
<1>15. CASE HandleClose(e)
  <2>1. /\ job' = job /\ chan[e] # <<>>
        /\ chan' = chan \/ \E ms \in Seq(Answers) : Takes(e, ms)
    BY <1>0, <1>15, HandleCloseFacts
  <2> QED
    BY <1>0, <1>11, <1>13, <2>1
<1>16. CASE ServeAnswer(e)
  <2>1. chan[e] # <<>> /\ Takes(e, <<>>) /\ (job' = job \/ \E r \in Roles : JobMoves(e, r))
    BY <1>0, <1>16, ServeAnswerFacts
  <2>2. \A x \in Ends : Solid(chan'[x])
    <3>1. <<>> \in Seq(Answers)
      OBVIOUS
    <3> QED
      BY <1>13, <2>1, <3>1
  <2> QED
    BY <1>11, <2>1, <2>2, FilledKept DEF JobMoves, OnlyJob
<1>17. CASE closeNoNotify(e)
  <2>1. chan[e] # <<>>
    BY <1>17 DEF BaseInv, HeadInv, closeNoNotify
  <2>2. /\ job' = job
        /\ \/ chan' = chan
           \/ \E ans \in Seq(Answers) : Takes(e, Numbers(conn[e]) \o ans)
    BY <1>0, <1>17, <2>1, CloseNoNotifyFacts
  <2>3. ASSUME NEW ans \in Seq(Answers), Takes(e, Numbers(conn[e]) \o ans)
        PROVE  \A x \in Ends : Solid(chan'[x])
    <3>1. ans \in Seq(Stanzas) /\ NoData(ans)
      BY AnswersPlain
    <3>2. Numbers(conn[e]) \in Seq(Stanzas) /\ Solid(Numbers(conn[e]))
      BY <1>0, EndTypes, NumbersBytes, FilledEverything
    <3>3. Solid(Numbers(conn[e]) \o ans) /\ Numbers(conn[e]) \o ans \in Seq(Stanzas)
      BY <3>1, <3>2, SolidParts, JoinedIn
    <3> QED
      BY <1>0, <2>1, <2>3, <3>3, SolidTakes
  <2> QED
    BY <1>0, <1>11, <2>2, <2>3
<1> QED
  BY <1>1, <1>3, <1>4, <1>5, <1>6, <1>7, <1>8, <1>9, <1>10, <1>12, <1>14, <1>15, <1>16, <1>17

----------------------------------------------------------------------------
(* What a step of e leaves alone.                                          *)

\* The other end keeps its buffers, its goroutines and what was counted there.
LEMMA OneEnd ==
    ASSUME BaseInv, NEW e \in Ends,
           \/ Write(e) \/ Flush(e)
           \/ Close(e) \/ CloseSet(e) \/ CloseTail(e) \/ CloseNotify(e) \/ CloseTimeout(e)
           \/ CloseDone(e)
           \/ \E r \in Roles : Lock(e, r) \/ Send(e, r) \/ Answered(e, r) \/ Timeout(e, r)
           \/ Read(e) \/ Receive(e) \/ \E max \in Limits : SetReadBuffer(e, max)
           \/ handlePayload(e) \/ HandleClose(e) \/ closeNoNotify(e) \/ ServeAnswer(e)
    PROVE  Apathetic(Other(e)) /\ params' = params
<1> DEFINE o == Other(e)
<1>0. /\ TypeInv /\ o \in Ends /\ o # e
      /\ DOMAIN rpc = Ends /\ DOMAIN panic = Ends /\ DOMAIN written = Ends /\ DOMAIN got = Ends
      /\ DOMAIN flushed = Ends /\ DOMAIN raced = Ends
  BY OtherEnd DEF BaseInv, TypeInv, RestTypes
<1> HIDE DEF o
<1>1. CASE Write(e) \/ Flush(e)
  <2>1. UNCHANGED <<conn, rpc, chan, appVars, panic, ghostVars, params>>
    BY <1>1 DEF Write, Flush
  <2>2. JobMoves(e, "writer")
    BY <1>0, <1>1, BeginFacts
  <2>3. \A r \in Roles : job'[o][r] = job[o][r]
    BY <1>0, <2>2 DEF JobMoves, OnlyJob
  <2> QED
    BY <2>1, <2>3 DEF appVars, ghostVars, Apathetic, o
<1>2. CASE Close(e)
  BY <1>0, <1>2, CloseFacts DEF Close, appVars, ghostVars, Apathetic, JobMoves, OnlyJob, o
<1>3. CASE CloseSet(e)
  <2>1. JobMoves(e, "closer") /\ OnlyConn(e) /\ raced' = raced /\ panic' = panic
    BY <1>0, <1>3, CloseSetFacts
  <2>2. /\ got' = got /\ written' = written /\ flushed' = flushed /\ params' = params /\ rpc' = rpc
    BY <1>3 DEF CloseSet, appVars, ghostVars
  <2> QED
    BY <1>0, <2>1, <2>2 DEF Apathetic, JobMoves, OnlyJob, OnlyConn, o
<1>4. CASE CloseTail(e)
  <2>1. raced'[o] = raced[o]
    BY <1>0, <1>4, CloseTailFacts, RacesEffect
  <2>2. OnlyJob(e, "closer") /\ conn' = conn /\ panic' = panic
    BY <1>0, <1>4, CloseTailFacts
  <2>3. /\ got' = got /\ written' = written /\ flushed' = flushed /\ params' = params /\ rpc' = rpc
    BY <1>4 DEF CloseTail, appVars
  <2> QED
    BY <1>0, <2>1, <2>2, <2>3 DEF Apathetic, OnlyJob, o
<1>5. CASE CloseNotify(e)
  BY <1>0, <1>5, CloseNotifyFacts DEF CloseNotify, appVars, ghostVars, Apathetic, JobMoves, OnlyJob, o
<1>6. CASE CloseTimeout(e)
  BY <1>0, <1>6, CloseTimeoutFacts DEF CloseTimeout, appVars, ghostVars, Apathetic, OnlyJob, o
<1>7. ASSUME NEW c, CloseReady(e, c)
      PROVE  rpc'[o] = rpc[o]
  BY <1>0, <1>7 DEF CloseReady
<1>8. CASE CloseDone(e)
  <2>1. rpc'[o] = rpc[o]
    BY <1>7, <1>8 DEF CloseDone
  <2>2. flushed'[o] = flushed[o] /\ got' = got /\ written' = written /\ params' = params
    BY <1>0, <1>8 DEF CloseDone, appVars
  <2> QED
    BY <1>0, <1>8, <2>1, <2>2, CloseDoneFacts DEF Apathetic, JobMoves, OnlyJob, OnlyConn, o
<1>9. ASSUME NEW r \in Roles, Lock(e, r)
      PROVE  Apathetic(o) /\ params' = params
  <2>1. /\ raced'[o] = raced[o] /\ OnlyConn(e) /\ OnlyJob(e, r) /\ panic' = panic
    BY <1>0, <1>9, LockFacts, RacesEffect
  <2>2. written'[o] = written[o]
    BY <1>0, <1>9, LockBytes DEF o
  <2>3. got' = got /\ rpc' = rpc /\ flushed' = flushed /\ params' = params
    BY <1>9 DEF Lock
  <2> QED
    BY <1>0, <2>1, <2>2, <2>3 DEF Apathetic, OnlyJob, OnlyConn, o
<1>10. ASSUME NEW r \in Roles, Breaks(e, r), written' = written, raced' = raced, panic' = panic,
              got' = got, rpc' = rpc, flushed' = flushed
       PROVE  Apathetic(o)
  BY <1>0, <1>10 DEF Breaks, Apathetic, OnlyJob, OnlyConn, o
<1>11. ASSUME NEW r \in Roles, Busy(e, r), Wrote(e, r), raced' = raced, panic' = panic,
              got' = got, rpc' = rpc, flushed' = flushed, params' = params
       PROVE  Apathetic(o)
  <2>1. OnlyConn(e) /\ OnlyJob(e, r)
    BY <1>0, <1>11, WroteFacts DEF Advances, Busy
  <2>2. written'[o] = written[o]
    BY <1>0, <1>11, WroteBytes DEF o
  <2> QED
    BY <1>0, <1>11, <2>1, <2>2 DEF Apathetic, OnlyJob, OnlyConn, o
<1>12. ASSUME NEW r \in Roles, Send(e, r)
       PROVE  Apathetic(o) /\ params' = params
  <2>1. /\ raced' = raced /\ panic' = panic /\ got' = got /\ rpc' = rpc /\ flushed' = flushed
        /\ params' = params
    BY <1>12 DEF Send, ghostVars
  <2>2. CASE job[e][r].stale
    <3>1. Breaks(e, r)
      BY <1>0, <1>12, <2>2, SendFacts
    <3>2. written' = written
      BY <1>12, <2>2 DEF Send, WriteErr
    <3> QED
      BY <1>10, <2>1, <3>1, <3>2
  <2>3. CASE ~job[e][r].stale
    <3>1. Busy(e, r) /\ (~Acked => Wrote(e, r)) /\ (Acked => conn' = conn /\ written' = written)
      BY <1>0, <1>12, <2>3, SendBytes
    <3>2. OnlyJob(e, r)
      BY <1>0, <1>12, <2>3, SendFacts DEF JobMoves, Advances
    <3>3. CASE Acked
      BY <1>0, <2>1, <3>1, <3>2, <3>3 DEF Apathetic, OnlyJob, o
    <3>4. CASE ~Acked
      BY <1>11, <2>1, <3>1, <3>4
    <3> QED
      BY <2>1, <3>3, <3>4
  <2> QED
    BY <2>2, <2>3
<1>13. ASSUME NEW r \in Roles, Answered(e, r)
       PROVE  Apathetic(o) /\ params' = params
  <2>1. /\ raced' = raced /\ panic' = panic /\ got' = got /\ rpc' = rpc /\ flushed' = flushed
        /\ params' = params
    BY <1>13 DEF Answered, ghostVars
  <2>2. CASE At(e, r, "error") /\ WriteErr(e, r)
    BY <1>0, <1>10, <2>1, <2>2, WriteErrFacts
  <2>3. CASE At(e, r, "result") /\ Wrote(e, r)
    <3>1. Busy(e, r)
      BY <1>0, <2>3, BusyWorking DEF At, Working
    <3> QED
      BY <1>11, <2>1, <2>3, <3>1
  <2> QED
    BY <1>13, <2>2, <2>3 DEF Answered
<1>14. ASSUME NEW r \in Roles, Timeout(e, r)
       PROVE  Apathetic(o) /\ params' = params
  <2>1. /\ raced' = raced /\ panic' = panic /\ got' = got /\ rpc' = rpc /\ flushed' = flushed
        /\ params' = params /\ WriteErr(e, r)
    BY <1>14 DEF Timeout, ghostVars
  <2> QED
    BY <1>0, <1>10, <2>1, WriteErrFacts
<1>15. CASE Read(e)
  <2>1. OnlyConn(e) /\ job' = job /\ raced' = raced /\ panic' = panic
    BY <1>0, <1>15, ReadFacts
  <2>2. /\ got'[o] = got[o] /\ written' = written /\ flushed' = flushed /\ params' = params
        /\ rpc'[o] = rpc[o]
    BY <1>0, <1>15, ReadBytes DEF o
  <2> QED
    BY <1>0, <2>1, <2>2 DEF Apathetic, OnlyConn, o
<1>16. CASE Receive(e)
  BY <1>0, <1>16 DEF Receive, Apathetic, appVars, ghostVars, o
<1>17. CASE \E max \in Limits : SetReadBuffer(e, max)
  <2>1. OnlyConn(e)
    BY <1>0, <1>17, SetReadBufferFacts
  <2> QED
    BY <1>0, <1>17, <2>1 DEF SetReadBuffer, Apathetic, OnlyConn, appVars, ghostVars, o
<1>18. CASE handlePayload(e)
  <2>1. OnlyConn(e) /\ job' = job /\ raced' = raced /\ panic'[o] = panic[o]
    BY <1>0, <1>18, PayloadFacts
  <2>2. got' = got /\ written' = written /\ flushed' = flushed /\ params' = params
    BY <1>0, <1>18, PayloadBytes
  <2>3. rpc'[o] = rpc[o]
    BY <1>0, <1>18 DEF handlePayload, Signal
  <2> QED
    BY <1>0, <2>1, <2>2, <2>3 DEF Apathetic, OnlyConn, o
<1>19. CASE HandleClose(e)
  BY <1>0, <1>19 DEF HandleClose, Apathetic, appVars, ghostVars, o
<1>20. CASE ServeAnswer(e)
  <2>1. /\ conn' = conn /\ raced' = raced /\ panic' = panic
    BY <1>0, <1>20, ServeAnswerFacts
  <2>2. /\ got' = got /\ written' = written /\ flushed' = flushed /\ params' = params /\ rpc' = rpc
        /\ \A r \in Roles : job'[o][r] = job[o][r]
    BY <1>0, <1>20, ServedBytes DEF OnlyJob
  <2> QED
    BY <2>1, <2>2 DEF Apathetic, o
<1>21. CASE closeNoNotify(e)
  <2>0. chan[e] # <<>>
    BY <1>21 DEF BaseInv, HeadInv, closeNoNotify
  <2>1. OnlyConn(e) /\ job' = job /\ panic'[o] = panic[o] /\ (raced' = raced \/ Races(e, "none", Ops))
    BY <1>0, <1>21, <2>0, CloseNoNotifyFacts, ZenonT(30)
  <2>2. raced'[o] = raced[o]
    BY <1>0, <2>1, RacesEffect
  <2>3. got' = got /\ written' = written /\ flushed' = flushed /\ params' = params
    BY <1>21 DEF closeNoNotify, appVars
  <2>4. rpc'[o] = rpc[o]
    BY <1>7, <1>21 DEF closeNoNotify
  <2> QED
    BY <1>0, <2>1, <2>2, <2>3, <2>4 DEF Apathetic, OnlyConn, o
<1> HIDE DEF Apathetic
<1> QED
  BY <1>1, <1>2, <1>3, <1>4, <1>5, <1>6, <1>8, <1>9, <1>12, <1>13, <1>14, <1>15, <1>16, <1>17,
     <1>18, <1>19, <1>20, <1>21 DEF o

----------------------------------------------------------------------------
(* Why Read is woken, and when it reports the end.                         *)

\* Where Close has not yet set the flag.
Early == {"idle", "noop", "set"}
\* Whoever ends the reads has set the flag; a Read is woken by bytes or by the
\* end, and reports it when there was nothing to read any more.  What comes
\* after that is sent on a closed channel.
Awake(e) ==
    /\ CPc(e) \notin Early => conn[e].closed
    /\ ~conn[e].ready => conn[e].closed
    /\ rpc[e] = "woken" => conn[e].rbuf # <<>> \/ ~conn[e].ready
    /\ rpc[e] = "eof" => ~conn[e].ready /\ (panic[e] \/ conn[e].rbuf = <<>>)
AwakeInv == \A e \in Ends : Awake(e)

\* Where the reads go on as before.
LEMMA AwakeKept ==
    ASSUME NEW e \in Ends, Awake(e), conn'[e].ready = conn[e].ready, conn'[e].rbuf = conn[e].rbuf,
           rpc'[e] = rpc[e], panic[e] => panic'[e], conn[e].closed => conn'[e].closed,
           job'[e]["closer"].pc \notin Early => job[e]["closer"].pc \notin Early \/ conn'[e].closed
    PROVE  Awake(e)'
BY DEF Awake, CPc

\* (The other end.)
LEMMA AwakeBoth ==
    ASSUME AwakeInv, NEW e \in Ends, Awake(e)', Apathetic(Other(e))
    PROVE  AwakeInv'
<1>1. PICK o \in Ends : o = Other(e) /\ \A x \in Ends : x = e \/ x = o
  BY OtherEnd
<1>2. Awake(o) /\ Apathetic(o)
  BY <1>1 DEF AwakeInv
<1>3. Awake(o)'
  BY <1>2, AwakeKept DEF Apathetic, Roles
<1> QED
  BY <1>1, <1>3 DEF AwakeInv

\* The goroutines that write and close.
LEMMA WritesAwake ==
    ASSUME TypeInv, NEW e \in Ends, Awake(e),
           \/ Write(e) \/ Flush(e)
           \/ Close(e) \/ CloseSet(e) \/ CloseTail(e) \/ CloseNotify(e) \/ CloseTimeout(e)
           \/ \E r \in Roles : Lock(e, r) \/ Send(e, r) \/ Answered(e, r) \/ Timeout(e, r)
    PROVE  Awake(e)'
<1>1. CASE Write(e) \/ Flush(e)
  <2>1. conn' = conn /\ panic' = panic /\ JobMoves(e, "writer")
    BY <1>1, BeginFacts
  <2>2. rpc' = rpc
    BY <1>1 DEF Write, Flush
  <2> QED
    BY <2>1, <2>2, AwakeKept DEF JobMoves, OnlyJob, Roles
<1>2. CASE Close(e)
  <2>1. conn' = conn /\ panic' = panic /\ job'[e]["closer"].pc \in {"noop", "set"}
    BY <1>2, CloseFacts
  <2>2. rpc' = rpc
    BY <1>2 DEF Close
  <2> QED
    BY <2>1, <2>2, AwakeKept DEF Early
<1>3. CASE CloseSet(e)
  <2>1. conn'[e] = [conn[e] EXCEPT !.closed = TRUE] /\ panic' = panic
    BY <1>3, CloseSetFacts
  <2>2. rpc' = rpc
    BY <1>3 DEF CloseSet
  <2>3. conn'[e].closed /\ conn'[e].ready = conn[e].ready /\ conn'[e].rbuf = conn[e].rbuf
    BY <2>1, EndTypes DEF ConnType
  <2> QED
    BY <2>1, <2>2, <2>3, AwakeKept
<1>4. CASE CloseTail(e) \/ CloseNotify(e) \/ CloseTimeout(e)
  <2>1. conn' = conn /\ panic' = panic /\ job[e]["closer"].pc \notin Early
    BY <1>4, CloseTailFacts, CloseNotifyFacts, CloseTimeoutFacts DEF Early
  <2>2. rpc' = rpc
    BY <1>4 DEF CloseTail, CloseNotify, CloseTimeout
  <2> QED
    BY <2>1, <2>2, AwakeKept
<1>5. ASSUME NEW r \in Roles, Lock(e, r) \/ Send(e, r) \/ Answered(e, r) \/ Timeout(e, r)
      PROVE  Awake(e)'
  <2>1. Kept(e) /\ OnlyJob(e, r) /\ panic' = panic /\ job[e][r].pc \notin Early
    <3>1. CASE Lock(e, r)
      BY <3>1, LockFacts DEF Early
    <3>2. CASE Send(e, r)
      BY <3>2, SendFacts DEF Early, Breaks, Advances, JobMoves, Kept, Same
    <3>3. CASE Answered(e, r)
      BY <3>3, AnsweredFacts DEF Early, Breaks, Advances
    <3>4. CASE Timeout(e, r)
      BY <3>4, TimeoutFacts DEF Early, Breaks
    <3> QED
      BY <1>5, <3>1, <3>2, <3>3, <3>4
  <2>2. rpc' = rpc
    BY <1>5 DEF Lock, Send, Answered, Timeout
  <2>3. job'[e]["closer"].pc \notin Early => job[e]["closer"].pc \notin Early
    BY <2>1 DEF OnlyJob, Roles
  <2> QED
    BY <2>1, <2>2, <2>3, AwakeKept DEF Kept, Same
<1> QED
  BY <1>1, <1>2, <1>3, <1>4, <1>5

\* The channel is closed.
LEMMA CloseReadyAwake ==
    ASSUME TypeInv, NEW e \in Ends, Awake(e), NEW c, CloseReady(e, c), conn'[e].closed,
           ~conn'[e].ready, conn'[e].rbuf = conn[e].rbuf
    PROVE  Awake(e)'
<1>1. DOMAIN rpc = Ends /\ DOMAIN panic = Ends
  BY DEF TypeInv, RestTypes
<1>2. rpc'[e] = "eof" => rpc[e] = "eof"
  BY <1>1 DEF CloseReady
<1>3. panic[e] => panic'[e]
  BY <1>1 DEF CloseReady
<1> QED
  BY <1>2, <1>3 DEF Awake

\* The reading goroutine, and Serve.
LEMMA ReadsAwake ==
    ASSUME BaseInv, SolidInv, NEW e \in Ends, Awake(e),
           \/ CloseDone(e) \/ Read(e) \/ Receive(e) \/ \E max \in Limits : SetReadBuffer(e, max)
           \/ handlePayload(e) \/ HandleClose(e) \/ closeNoNotify(e) \/ ServeAnswer(e)
    PROVE  Awake(e)'
<1>0. TypeInv /\ DOMAIN rpc = Ends /\ DOMAIN panic = Ends
  BY DEF BaseInv, TypeInv, RestTypes
<1>1. CASE CloseDone(e)
  <2>1. /\ job[e]["closer"].pc = "closed" /\ ~conn'[e].ready /\ conn'[e].closed = conn[e].closed
        /\ conn'[e].rbuf = conn[e].rbuf
    BY <1>0, <1>1, CloseDoneFacts
  <2>2. conn[e].closed
    BY <2>1 DEF Awake, CPc, Early
  <2>3. CloseReady(e, conn[e])
    BY <1>1 DEF CloseDone
  <2> QED
    BY <1>0, <2>1, <2>2, <2>3, CloseReadyAwake
<1>2. CASE Read(e)
  <2>1. /\ conn'[e].closed = conn[e].closed /\ conn'[e].ready = conn[e].ready /\ job' = job
    BY <1>0, <1>2, ReadFacts
  <2>2. \/ rpc'[e] = "idle"
        \/ /\ rpc'[e] = IF rpc[e] = "idle" THEN "unlocked" ELSE "eof"
           /\ conn[e].rbuf = <<>> /\ conn' = conn
    BY <1>0, <1>2, ReadBytes
  <2>3. rpc[e] \in {"idle", "woken"}
    BY <1>0, <1>2, ReadBytes
  <2> QED
    BY <2>1, <2>2, <2>3 DEF Awake, CPc
<1>3. CASE Receive(e)
  <2>1. conn' = conn /\ job' = job /\ panic' = panic
    BY <1>0, <1>3, ReceiveFacts
  <2>2. rpc'[e] = IF conn[e].ready THEN "waiting" ELSE "woken"
    BY <1>0, <1>3 DEF Receive
  <2> QED
    BY <2>1, <2>2 DEF Awake, CPc
<1>4. CASE \E max \in Limits : SetReadBuffer(e, max)
  <2>1. PICK max \in Limits : SetReadBuffer(e, max)
    BY <1>4
  <2>2. /\ conn'[e].closed = conn[e].closed /\ conn'[e].ready = conn[e].ready
        /\ conn'[e].rbuf = conn[e].rbuf /\ job' = job /\ panic' = panic
    BY <1>0, <2>1, SetReadBufferFacts
  <2>3. rpc' = rpc
    BY <2>1 DEF SetReadBuffer
  <2> QED
    BY <2>2, <2>3, AwakeKept
<1>5. CASE handlePayload(e)
  <2>1. /\ conn'[e].closed = conn[e].closed /\ conn'[e].ready = conn[e].ready /\ job' = job
        /\ chan[e] # <<>>
    BY <1>0, <1>5, PayloadFacts
  <2>2. \/ conn'[e].rbuf = conn[e].rbuf /\ rpc' = rpc /\ panic' = panic
        \/ conn'[e].rbuf = conn[e].rbuf \o Head(chan[e]).bytes /\ Signal(e)
    BY <1>0, <1>5, PayloadBytes
  <2>3. CASE conn'[e].rbuf = conn[e].rbuf /\ rpc' = rpc /\ panic' = panic
    BY <2>1, <2>3, AwakeKept
  <2>4. CASE conn'[e].rbuf = conn[e].rbuf \o Head(chan[e]).bytes /\ Signal(e)
    <3>1. chan[e] \in Seq(Stanzas) /\ Solid(chan[e]) /\ IsData(Head(chan[e])) /\ conn[e].rbuf \in Bytes
      BY <1>0, <1>5, ByteTypes, PayloadBytes DEF SolidInv
    <3>2. Head(chan[e]).bytes # <<>>
      BY <2>1, <3>1, SolidParts
    <3>3. Head(chan[e]).bytes \in Bytes
      <4>1. Head(chan[e]) \in Stanzas
        BY <2>1, <3>1, HeadTailProperties
      <4> QED
        BY <4>1 DEF Stanzas, StanzaType
    <3>4. conn'[e].rbuf # <<>>
      <4>1. Len(Head(chan[e]).bytes) > 0 /\ Len(Head(chan[e]).bytes) \in Nat /\ Len(conn[e].rbuf) \in Nat
        BY <3>1, <3>2, <3>3, EmptySeq DEF Bytes
      <4>2. Len(conn[e].rbuf \o Head(chan[e]).bytes) = Len(conn[e].rbuf) + Len(Head(chan[e]).bytes)
        BY <3>1, <3>3, ConcatProperties DEF Bytes
      <4>3. Len(conn'[e].rbuf) = Len(conn[e].rbuf) + Len(Head(chan[e]).bytes)
        BY <2>4, <4>2
      <4>4. PICK n \in Nat : n = Len(conn[e].rbuf)
        BY <4>1
      <4>5. PICK k \in Nat : k = Len(Head(chan[e]).bytes) /\ k > 0
        BY <4>1
      <4>6. n + k > 0
        BY <4>5
      <4>7. Len(conn'[e].rbuf) > 0
        BY <4>3, <4>4, <4>5, <4>6
      <4>8. Len(<<>>) = 0
        OBVIOUS
      <4> QED
        BY <4>7, <4>8
    <3>5. (rpc'[e] = "eof" => rpc[e] = "eof") /\ panic'[e] = ~conn[e].ready
      BY <1>0, <2>4 DEF Signal
    <3> QED
      BY <2>1, <3>4, <3>5 DEF Awake, CPc
  <2> QED
    BY <2>2, <2>3, <2>4
<1>6. CASE HandleClose(e)
  <2>1. conn' = conn /\ job' = job /\ panic' = panic /\ rpc' = rpc
    BY <1>0, <1>6 DEF HandleClose
  <2> QED
    BY <2>1, AwakeKept
<1>7. CASE closeNoNotify(e)
  <2>0. chan[e] # <<>>
    BY <1>7 DEF BaseInv, HeadInv, closeNoNotify
  <2>1. /\ job' = job /\ conn'[e].closed = TRUE /\ conn'[e].rbuf = conn[e].rbuf
        /\ \/ conn[e].werr /\ panic' = panic /\ conn'[e].ready = conn[e].ready
           \/ ~conn[e].werr /\ ~conn'[e].ready
    BY <1>0, <1>7, <2>0, CloseNoNotifyFacts
  <2>2. CASE conn[e].werr
    <3>1. rpc' = rpc
      BY <1>7, <2>2 DEF closeNoNotify
    <3> QED
      BY <2>1, <2>2, <3>1, AwakeKept
  <2>3. CASE ~conn[e].werr
    <3>1. \E c : CloseReady(e, c)
      BY <1>7, <2>3 DEF closeNoNotify
    <3> QED
      BY <1>0, <2>1, <2>3, <3>1, CloseReadyAwake
  <2> QED
    BY <2>2, <2>3
<1>8. CASE ServeAnswer(e)
  <2>1. conn' = conn /\ panic' = panic
    BY <1>0, <1>8, ServeAnswerFacts
  <2>2. rpc' = rpc
    BY <1>0, <1>8, ServedBytes
  <2>3. job'[e]["closer"].pc \notin Early => job[e]["closer"].pc \notin Early
    BY <1>0, <1>8, ServedBytes DEF OnlyJob, Roles, Early
  <2> QED
    BY <2>1, <2>2, <2>3, AwakeKept
<1> QED
  BY <1>1, <1>2, <1>3, <1>4, <1>5, <1>6, <1>7, <1>8

\* Every step keeps it.
LEMMA AwakeStep ==
    ASSUME BaseInv, SolidInv, AwakeInv, Next
    PROVE  AwakeInv'
<1>1. PICK e \in Ends :
        \/ Write(e) \/ Flush(e)
        \/ Close(e) \/ CloseSet(e) \/ CloseTail(e) \/ CloseNotify(e) \/ CloseTimeout(e)
        \/ CloseDone(e)
        \/ \E r \in Roles : Lock(e, r) \/ Send(e, r) \/ Answered(e, r) \/ Timeout(e, r)
        \/ Read(e) \/ Receive(e) \/ \E max \in Limits : SetReadBuffer(e, max)
        \/ handlePayload(e) \/ HandleClose(e) \/ closeNoNotify(e) \/ ServeAnswer(e)
  BY NextCases
<1>2. TypeInv /\ Awake(e)
  BY DEF BaseInv, AwakeInv
<1>3. Apathetic(Other(e))
  BY <1>1, OneEnd
<1>4. Awake(e)'
  BY <1>1, <1>2, WritesAwake, ReadsAwake
<1> QED
  BY <1>3, <1>4, AwakeBoth

----------------------------------------------------------------------------
(* How much a Close has to see arrive.                                     *)

\* Close has flushed the buffer, and what the encoder keeps is to follow.
Tailing(e) == CPc(e) = "tail" \/ (Busy(e, "closer") /\ job[e]["closer"].op = "tail")
\* What was written before Close is out of the buffer after its flush.  The
\* encoder of a handler has taken over only where the reads have ended, or
\* nothing can be written any more.
Amount(e) ==
    /\ conn[e].handlerT /\ conn[e].ready => conn[e].werr
    /\ CPc(e) = "lock" \/ Busy(e, "closer") => job[e]["closer"].op # "write"
    /\ job[e]["closer"].upTo <= written[e]
    /\ ~conn[e].werr /\ Tailing(e) =>
          job[e]["closer"].upTo + Len(conn[e].wbuf) <= written[e]
AmountInv == \A e \in Ends : Amount(e)

\* Nothing is done with the handler's encoder, or the reads end.
NoHandler(e) ==
    /\ conn'[e].handlerT => conn[e].handlerT
    /\ conn'[e].ready => conn[e].ready
    /\ conn[e].werr => conn'[e].werr

\* (A sum.)
LEMMA TransposedSum ==
    \A u, k, v, n, w \in Nat : u + k <= v /\ n + v <= k + w => u + n <= w
OBVIOUS

\* Close does not go on; if bytes are added to the buffer they were written.
LEMMA AmountKept ==
    ASSUME TypeInv, NEW e \in Ends, Amount(e), NoHandler(e), job'[e]["closer"] = job[e]["closer"],
           written'[e] \in Nat, written'[e] >= written[e], Len(conn'[e].wbuf) \in Nat,
           conn'[e].werr \/ Len(conn'[e].wbuf) + written[e] <= Len(conn[e].wbuf) + written'[e]
    PROVE  Amount(e)'
<1>a. PICK n \in Nat : n = Len(conn'[e].wbuf)
  OBVIOUS
<1>b. PICK w \in Nat : w = written'[e]
  OBVIOUS
<1>0. conn[e].wbuf \in Bytes
  BY ByteTypes
<1>1. PICK k \in Nat : k = Len(conn[e].wbuf)
  BY <1>0 DEF Bytes
<1>2. PICK u \in Nat : u = job[e]["closer"].upTo
  BY ByteTypes DEF Roles
<1>3. PICK v \in Nat : v = written[e]
  BY ByteTypes
<1>4. job'[e]["closer"].upTo = u
  BY <1>2
<1>5. u <= w
  <2>1. u <= v /\ v <= w
    BY <1>2, <1>3, <1>b DEF Amount
  <2> QED
    BY <1>2, <1>3, <1>b, <2>1
<1>6. ~conn'[e].werr /\ Tailing(e)' => u + n <= w
  <2>1. ~conn'[e].werr /\ Tailing(e)' => ~conn[e].werr /\ Tailing(e)
    BY DEF Tailing, CPc, Busy, NoHandler
  <2> SUFFICES ASSUME ~conn'[e].werr, Tailing(e)'
               PROVE  u + n <= w
    OBVIOUS
  <2>2. u + k <= v /\ n + v <= k + w
    BY <1>1, <1>2, <1>3, <1>a, <1>b, <2>1 DEF Amount
  <2> QED
    BY <2>2, TransposedSum, Zenon
<1> QED
  BY <1>4, <1>5, <1>6, <1>a, <1>b DEF Amount, NoHandler, CPc, Busy

\* Close goes on, to where it is not flushing or has flushed.
LEMMA AmountCloses ==
    ASSUME TypeInv, NEW e \in Ends, Amount(e), NoHandler(e),
           job'[e]["closer"].upTo = job[e]["closer"].upTo, written'[e] = written[e],
           CPc(e)' = "lock" \/ Busy(e, "closer")' => job'[e]["closer"].op # "write",
           \/ conn'[e].werr \/ ~Tailing(e)' \/ Len(conn'[e].wbuf) = 0
           \/ Tailing(e) /\ conn'[e].wbuf = conn[e].wbuf
    PROVE  Amount(e)'
<1>0. conn[e].wbuf \in Bytes
  BY ByteTypes
<1>1. PICK k \in Nat : k = Len(conn[e].wbuf)
  BY <1>0 DEF Bytes
<1>2. PICK u \in Nat : u = job[e]["closer"].upTo
  BY ByteTypes DEF Roles
<1>3. PICK v \in Nat : v = written[e]
  BY ByteTypes
<1>4. u <= v
  BY <1>2, <1>3 DEF Amount
<1>5. ~conn'[e].werr /\ Tailing(e)' => u + Len(conn'[e].wbuf) <= v
  <2>1. CASE Len(conn'[e].wbuf) = 0
    BY <1>4, <2>1
  <2>2. CASE ~conn'[e].werr /\ Tailing(e) /\ conn'[e].wbuf = conn[e].wbuf
    BY <1>2, <1>3, <2>2 DEF Amount, NoHandler
  <2> QED
    BY <2>1, <2>2
<1> QED
  BY <1>2, <1>3, <1>4, <1>5 DEF Amount, NoHandler

\* The goroutine that failed keeps what it had seen written.
LEMMA FailedUpTo ==
    ASSUME TypeInv, NEW e \in Ends, NEW r \in Roles, SetJob(e, r, Failed(job[e][r], r))
    PROVE  job'[e][r].upTo = job[e][r].upTo
<1>1. params \in Streams /\ job[e][r] \in JobType
  BY EndTypes
<1>2. job'[e][r] = Failed(job[e][r], r)
  BY SetIs
<1> QED
  BY <1>1, <1>2, FinishedFields

\* A flush leaves nothing in the buffer, and Close goes on to the encoder.
LEMMA LockFlush ==
    ASSUME TypeInv, NEW e \in Ends, NEW r \in Roles, Lock(e, r), job[e][r].op = "flush"
    PROVE  /\ written'[e] = written[e] /\ job'[e][r].pc # "notify"
           /\ job'[e][r].todo = <<>> => conn[e].werr \/ conn'[e].wbuf = <<>>
<1> DEFINE j == job[e][r]
           c == conn[e]
           k == [j EXCEPT !.left = Left(c.fringe, c.wbuf)]
           todo == Chunks(c.fringe, c.wbuf)
<1>1. params \in Streams /\ GoodJob(r, j) /\ j \in JobType /\ c \in ConnType /\ written \in [Ends -> Nat]
  BY EndTypes DEF TypeInv, RestTypes
<1>2. k \in JobType /\ k.op = "flush" /\ Len(k.left) <= Group
  <2>1. Left(c.fringe, c.wbuf) \in Bytes /\ Len(Left(c.fringe, c.wbuf)) <= Group
    BY EndTypes, Encoder
  <2> QED
    BY <1>1, <2>1, LeftFields
<1>3. /\ Finished(j, r).pc # "notify" /\ Finished(j, r).todo = <<>>
      /\ Finished(k, r).pc # "notify" /\ Finished(k, r).todo = <<>>
      /\ Failed(j, r).pc # "notify"
  <2>1. ASSUME NEW x \in JobType, x.op = "flush"
        PROVE  Finished(x, r).pc # "notify" /\ Finished(x, r).todo = <<>> /\ Failed(x, r).pc # "notify"
    <3>1. Finished(x, r) = Leaves(x, IF r = "writer" THEN "idle" ELSE "tail")
      BY <2>1 DEF Finished
    <3>2. /\ Finished(x, r).pc = IF r = "writer" THEN "idle" ELSE "tail"
          /\ Finished(x, r).todo = <<>>
      BY <1>1, <3>1, LeavesFields DEF Roles
    <3>3. Failed(x, r).pc \in {"idle", "failed"}
      BY <1>1, FinishedFields
    <3> QED
      BY <3>2, <3>3
  <2> HIDE DEF j, k
  <2> QED
    BY <1>1, <1>2, <2>1 DEF j
<1>4. /\ \A v : SetJob(e, r, v) => job'[e][r] = v
      /\ \A v : SetConn(e, v) => conn'[e] = v
  BY SetIs
<1>5. Taken(e, j) => written'[e] = written[e]
  BY <1>1 DEF Taken
<1>6. CASE c.werr /\ SetJob(e, r, Failed(j, r)) /\ UNCHANGED <<conn, written>>
  BY <1>3, <1>4, <1>6
<1>7. CASE c.wbuf = <<>> /\ SetJob(e, r, Finished(j, r)) /\ UNCHANGED <<conn, written>>
  BY <1>3, <1>4, <1>7
<1>8. CASE SetConn(e, Emptied(e, c, k)) /\ SetJob(e, r, Finished(k, r)) /\ Taken(e, j)
  <2>1. Emptied(e, c, k).wbuf = <<>>
    BY <1>1, <1>2, EmptiedFields
  <2>2. job'[e][r] = Finished(k, r) /\ conn'[e] = Emptied(e, c, k)
    BY <1>4, <1>8
  <2> QED
    BY <1>3, <1>5, <1>8, <2>1, <2>2
<1>9. CASE todo # <<>> /\ SetJob(e, r, Next1(k, c, todo)) /\ UNCHANGED written
  <2>1. todo \in Seq(Bytes) /\ GoodJob(r, k)
    BY EndTypes, Encoder, <1>1, LeftFields
  <2>2. Next1(k, c, todo).pc = "send" /\ Next1(k, c, todo).todo # <<>>
    BY <1>1, <1>9, <2>1, Next1Fields
  <2>3. job'[e][r] = Next1(k, c, todo)
    BY <1>4, <1>9
  <2> QED
    BY <1>9, <2>2, <2>3
<1>10. \/ c.werr /\ SetJob(e, r, Failed(j, r)) /\ UNCHANGED <<conn, written>>
       \/ c.wbuf = <<>> /\ SetJob(e, r, Finished(j, r)) /\ UNCHANGED <<conn, written>>
       \/ SetConn(e, Emptied(e, c, k)) /\ SetJob(e, r, Finished(k, r)) /\ Taken(e, j)
       \/ todo # <<>> /\ SetJob(e, r, Next1(k, c, todo)) /\ UNCHANGED written
  BY DEF Lock
<1> QED
  BY <1>6, <1>7, <1>8, <1>9, <1>10

\* (The record of a Close that begins.)
LEMMA CloseUpTo ==
    ASSUME TypeInv, NEW e \in Ends
    PROVE  /\ Close(e) => job'[e]["closer"].upTo = written[e] /\ written' = written
           /\ CloseSet(e) => /\ job'[e]["closer"].upTo = job[e]["closer"].upTo
                             /\ job'[e]["closer"].op = "flush" /\ written' = written
<1>1. job[e]["closer"] \in JobType /\ "closer" \in Roles
  BY EndTypes DEF Roles
<1>2. \A v : SetJob(e, "closer", v) => job'[e]["closer"] = v
  BY <1>1, SetIs
<1>3. ASSUME Close(e)
      PROVE  job'[e]["closer"].upTo = written[e] /\ written' = written
  <2>1. job'[e]["closer"] = [job[e]["closer"] EXCEPT
          !.pc = IF conn[e].closed THEN "noop" ELSE "set", !.upTo = written[e]]
    BY <1>2, <1>3 DEF Close
  <2>2. written' = written
    BY <1>3 DEF Close, appVars
  <2> QED
    BY <1>1, <2>1, <2>2 DEF JobType
<1>4. ASSUME CloseSet(e)
      PROVE  /\ job'[e]["closer"].upTo = job[e]["closer"].upTo
             /\ job'[e]["closer"].op = "flush" /\ written' = written
  <2>1. job'[e]["closer"] = [job[e]["closer"] EXCEPT !.pc = "lock", !.op = "flush"]
    BY <1>2, <1>4 DEF CloseSet
  <2>2. written' = written
    BY <1>4 DEF CloseSet, appVars
  <2> QED
    BY <1>1, <2>1, <2>2 DEF JobType
<1> QED
  BY <1>3, <1>4

\* The goroutine that writes.
LEMMA WriterAmount ==
    ASSUME TypeInv, NEW e \in Ends, Amount(e),
           \/ Write(e) \/ Flush(e)
           \/ Lock(e, "writer") \/ Send(e, "writer") \/ Answered(e, "writer") \/ Timeout(e, "writer")
    PROVE  Amount(e)'
<1>0. /\ written[e] \in Nat /\ conn[e].wbuf \in Bytes /\ Len(conn[e].wbuf) \in Nat
      /\ "writer" \in Roles /\ "closer" \in Roles /\ "closer" # "writer"
  <2>1. written[e] \in Nat /\ conn[e].wbuf \in Bytes
    BY ByteTypes
  <2>2. Len(conn[e].wbuf) \in Nat
    BY <2>1 DEF Bytes
  <2> QED
    BY <2>1, <2>2 DEF Roles
<1> DEFINE Grows(n, w) == /\ n \in Nat /\ w \in Nat /\ w >= written[e]
                          /\ n + written[e] <= Len(conn[e].wbuf) + w
<1>a. PICK k \in Nat : k = Len(conn[e].wbuf)
  BY <1>0
<1>b. PICK v \in Nat : v = written[e]
  BY <1>0
<1>c. Grows(k, v) /\ Grows(0, v) /\ Grows(1, v + 1) /\ Grows(k + 1, v + 1)
  <2>1. /\ v >= v /\ v + 1 >= v /\ k + v <= k + v /\ 0 + v <= k + v
        /\ 1 + v <= k + (v + 1) /\ (k + 1) + v <= k + (v + 1)
        /\ 0 \in Nat /\ 1 \in Nat /\ k + 1 \in Nat /\ v + 1 \in Nat
    OBVIOUS
  <2> QED
    BY <1>a, <1>b, <2>1, Zenon
<1>d. ASSUME OnlyJob(e, "writer"), NoHandler(e), Grows(Len(conn'[e].wbuf), written'[e])
      PROVE  Amount(e)'
  BY <1>0, <1>d, AmountKept DEF OnlyJob
<1> HIDE DEF Grows
<1>1. ASSUME OnlyJob(e, "writer"), Breaks(e, "writer"), written' = written
      PROVE  Amount(e)'
  BY <1>0, <1>1, AmountKept DEF Breaks, Kept, Same, NoHandler, OnlyJob
<1>2. ASSUME OnlyJob(e, "writer"), conn'[e] = conn[e], written' = written
      PROVE  Amount(e)'
  BY <1>0, <1>2, AmountKept DEF NoHandler, OnlyJob
<1>3. ASSUME Busy(e, "writer"), Wrote(e, "writer"), params' = params
      PROVE  Amount(e)'
  <2>1. OnlyJob(e, "writer") /\ NoHandler(e)
    BY <1>0, <1>3, WroteFacts DEF Busy, Advances, Kept, Same, NoHandler
  <2>2. \/ conn'[e].wbuf = conn[e].wbuf /\ written'[e] = written[e]
        \/ conn'[e].wbuf = <<>> /\ written'[e] = written[e]
        \/ conn'[e].wbuf = <<written[e] + 1>> /\ written'[e] = written[e] + 1
    BY <1>0, <1>3, WroteBytes
  <2>3. Len(<<>>) = 0 /\ Len(<<written[e] + 1>>) = 1
    OBVIOUS
  <2>4. Grows(Len(conn'[e].wbuf), written'[e])
    BY <1>a, <1>b, <1>c, <2>2, <2>3
  <2> QED
    BY <1>d, <2>1, <2>4
<1>4. CASE Write(e) \/ Flush(e)
  <2>1. JobMoves(e, "writer") /\ conn' = conn
    BY <1>4, BeginFacts
  <2>2. written' = written
    BY <1>4 DEF Write, Flush, appVars
  <2> QED
    BY <1>2, <2>1, <2>2 DEF JobMoves
<1>5. CASE Timeout(e, "writer")
  <2>1. Breaks(e, "writer") /\ written' = written
    BY <1>0, <1>5, TimeoutFacts DEF Timeout, WriteErr
  <2> QED
    BY <1>1, <2>1 DEF Breaks
<1>6. CASE Answered(e, "writer")
  <2>1. params' = params
    BY <1>6 DEF Answered
  <2>2. CASE At(e, "writer", "error") /\ WriteErr(e, "writer")
    BY <1>0, <1>1, <2>1, <2>2, WriteErrFacts DEF Breaks
  <2>3. CASE At(e, "writer", "result") /\ Wrote(e, "writer")
    BY <1>0, <1>3, <2>1, <2>3, BusyWorking DEF At, Working
  <2> QED
    BY <1>6, <2>2, <2>3 DEF Answered
<1>7. CASE Send(e, "writer")
  <2>1. CASE job[e]["writer"].stale
    <3>1. Breaks(e, "writer") /\ written' = written
      BY <1>0, <1>7, <2>1, SendFacts DEF Send, WriteErr
    <3> QED
      BY <1>1, <3>1 DEF Breaks
  <2>2. CASE ~job[e]["writer"].stale
    <3>1. /\ Busy(e, "writer") /\ params' = params /\ (~Acked => Wrote(e, "writer"))
          /\ Acked => conn' = conn /\ written' = written
      BY <1>0, <1>7, <2>2, SendBytes
    <3>2. OnlyJob(e, "writer")
      BY <1>0, <1>7, <2>2, SendFacts DEF JobMoves, Advances
    <3> QED
      BY <1>2, <1>3, <3>1, <3>2
  <2> QED
    BY <2>1, <2>2
<1>8. CASE Lock(e, "writer")
  <2>1. OnlyJob(e, "writer") /\ NoHandler(e)
    BY <1>0, <1>8, LockFacts DEF Kept, Same, NoHandler
  <2>2. \/ conn'[e].wbuf = conn[e].wbuf /\ written'[e] = written[e]
        \/ conn'[e].wbuf = Append(conn[e].wbuf, written[e] + 1) /\ written'[e] = written[e] + 1
        \/ conn'[e].wbuf = <<>> /\ written'[e] = written[e]
        \/ conn'[e].wbuf = <<written[e] + 1>> /\ written'[e] = written[e] + 1
    BY <1>0, <1>8, LockBytes
  <2>3. /\ Len(<<>>) = 0 /\ Len(<<written[e] + 1>>) = 1
        /\ Len(Append(conn[e].wbuf, written[e] + 1)) = Len(conn[e].wbuf) + 1
    BY <1>0 DEF Bytes
  <2>4. Grows(Len(conn'[e].wbuf), written'[e])
    BY <1>a, <1>b, <1>c, <2>2, <2>3
  <2> QED
    BY <1>d, <2>1, <2>4
<1> QED
  BY <1>4, <1>5, <1>6, <1>7, <1>8

\* Close.
LEMMA CloserAmount ==
    ASSUME TypeInv, NEW e \in Ends, Amount(e),
           \/ Close(e) \/ CloseSet(e) \/ CloseTail(e) \/ CloseNotify(e) \/ CloseTimeout(e)
           \/ CloseDone(e)
           \/ Lock(e, "closer") \/ Send(e, "closer") \/ Answered(e, "closer") \/ Timeout(e, "closer")
    PROVE  Amount(e)'
<1>0. /\ written[e] \in Nat /\ "closer" \in Roles
      /\ Busy(e, "closer") <=> job[e]["closer"].pc \in Working
      /\ Len(<<>>) = 0
  BY ByteTypes, BusyWorking DEF Roles
<1>1. ASSUME NoHandler(e), job'[e]["closer"].upTo = job[e]["closer"].upTo, written'[e] = written[e],
             job'[e]["closer"].todo = <<>>, job'[e]["closer"].pc \notin {"lock", "tail"}
      PROVE  Amount(e)'
  <2>1. ~Tailing(e)' /\ CPc(e)' # "lock" /\ ~Busy(e, "closer")'
    BY <1>1 DEF Tailing, CPc, Busy
  <2> QED
    BY <1>1, <2>1, AmountCloses
<1>2. ASSUME WriteErr(e, "closer"), params' = params
      PROVE  Amount(e)'
  <2>1. written' = written /\ Breaks(e, "closer")
    BY <1>0, <1>2, WriteErrFacts
  <2>2. job'[e]["closer"].upTo = job[e]["closer"].upTo
    BY <1>0, <1>2, FailedUpTo DEF WriteErr
  <2> QED
    BY <1>1, <2>1, <2>2 DEF Breaks, Kept, Same, NoHandler
<1>3. ASSUME Busy(e, "closer"), Wrote(e, "closer"), params' = params
      PROVE  Amount(e)'
  <2>1. NoHandler(e)
    BY <1>0, <1>3, WroteFacts DEF Busy, Advances, Kept, Same, NoHandler
  <2>2. job[e]["closer"].op # "write"
    BY <1>3 DEF Amount
  <2>3. job'[e]["closer"].upTo = job[e]["closer"].upTo /\ written'[e] = written[e]
    BY <1>0, <1>3, <2>2, WroteBytes
  <2>4. \/ /\ job'[e]["closer"].op = job[e]["closer"].op /\ conn'[e].wbuf = conn[e].wbuf
           /\ job'[e]["closer"].pc = "send"
        \/ /\ job'[e]["closer"].todo = <<>> /\ job'[e]["closer"].op = "flush"
           /\ job'[e]["closer"].pc = IF job[e]["closer"].op = "flush" THEN "tail" ELSE "notify"
           /\ job[e]["closer"].op # "tail" => conn'[e].wbuf = <<>>
    BY <1>0, <1>3, <2>2, WroteBytes
  <2>5. CASE /\ job'[e]["closer"].op = job[e]["closer"].op /\ conn'[e].wbuf = conn[e].wbuf
             /\ job'[e]["closer"].pc = "send"
    <3>1. Tailing(e)' => Tailing(e)
      BY <1>3, <2>5 DEF Tailing, CPc, Busy
    <3> QED
      BY <2>1, <2>2, <2>3, <2>5, <3>1, AmountCloses
  <2>6. CASE /\ job'[e]["closer"].todo = <<>> /\ job'[e]["closer"].op = "flush"
             /\ job'[e]["closer"].pc = IF job[e]["closer"].op = "flush" THEN "tail" ELSE "notify"
             /\ job[e]["closer"].op # "tail" => conn'[e].wbuf = <<>>
    <3>1. Tailing(e)' => Len(conn'[e].wbuf) = 0
      BY <1>0, <2>6 DEF Tailing, CPc, Busy
    <3> QED
      BY <2>1, <2>3, <2>6, <3>1, AmountCloses
  <2> QED
    BY <2>4, <2>5, <2>6
<1>4. CASE Close(e)
  <2>1. /\ conn' = conn /\ job[e]["closer"].pc = "idle" /\ JobMoves(e, "closer")
        /\ job'[e]["closer"].pc \in {"noop", "set"}
    BY <1>4, CloseFacts
  <2>2. job'[e]["closer"].upTo = written[e] /\ written' = written
    BY <1>4, CloseUpTo
  <2>3. job'[e]["closer"].todo = <<>>
    BY <1>0, <2>1 DEF JobMoves, Busy, Working
  <2> QED
    BY <1>0, <2>1, <2>2, <2>3 DEF Amount, Tailing, CPc, Busy
<1>5. CASE CloseSet(e)
  <2>1. /\ conn'[e] = [conn[e] EXCEPT !.closed = TRUE] /\ job[e]["closer"].pc = "set"
        /\ JobMoves(e, "closer") /\ job'[e]["closer"].pc = "lock"
    BY <1>5, CloseSetFacts
  <2>2. /\ job'[e]["closer"].upTo = job[e]["closer"].upTo /\ job'[e]["closer"].op = "flush"
        /\ written' = written
    BY <1>5, CloseUpTo
  <2>3. NoHandler(e)
    BY <2>1, EndTypes DEF ConnType, NoHandler
  <2>4. ~Tailing(e)'
    BY <2>1, <2>2 DEF Tailing, CPc
  <2> QED
    BY <2>2, <2>3, <2>4, AmountCloses
<1>6. CASE CloseTail(e)
  <2>1. conn' = conn /\ job[e]["closer"].pc = "tail"
    BY <1>6, CloseTailFacts
  <2>2. /\ job'[e]["closer"].upTo = job[e]["closer"].upTo /\ written' = written
        /\ \/ job'[e]["closer"].todo = <<>> /\ job'[e]["closer"].pc \in {"failed", "notify"}
           \/ job'[e]["closer"].pc = "send" /\ job'[e]["closer"].op = "tail"
    BY <1>6, CloseTailBytes
  <2>3. NoHandler(e) /\ Tailing(e)
    BY <2>1 DEF NoHandler, Tailing, CPc
  <2>4. CASE job'[e]["closer"].todo = <<>> /\ job'[e]["closer"].pc \in {"failed", "notify"}
    BY <1>1, <2>2, <2>3, <2>4
  <2>5. CASE job'[e]["closer"].pc = "send" /\ job'[e]["closer"].op = "tail"
    BY <2>1, <2>2, <2>3, <2>5, AmountCloses
  <2> QED
    BY <2>2, <2>4, <2>5
<1>7. ASSUME SetJob(e, "closer", [job[e]["closer"] EXCEPT !.pc = job'[e]["closer"].pc]),
             job[e]["closer"].todo = <<>>,
             job'[e]["closer"].pc \notin {"lock", "tail"}, NoHandler(e), written'[e] = written[e]
      PROVE  Amount(e)'
  <2>1. /\ job'[e]["closer"].upTo = job[e]["closer"].upTo
        /\ job'[e]["closer"].todo = job[e]["closer"].todo
    BY <1>0, <1>7, PcBytes
  <2> QED
    BY <1>1, <1>7, <2>1
<1>8. CASE CloseNotify(e)
  <2>1. /\ conn' = conn /\ job[e]["closer"].pc = "notify" /\ job'[e]["closer"].pc = "closewait"
    BY <1>8, CloseNotifyFacts
  <2>2. SetJob(e, "closer", [job[e]["closer"] EXCEPT !.pc = "closewait"]) /\ written' = written
    BY <1>8 DEF CloseNotify, appVars
  <2>3. job[e]["closer"].todo = <<>> /\ NoHandler(e)
    BY <1>0, <2>1 DEF Busy, Working, NoHandler
  <2> QED
    BY <1>7, <2>1, <2>2, <2>3
<1>9. CASE CloseDone(e)
  <2>1. /\ job[e]["closer"].pc = "closed" /\ job'[e]["closer"].pc = "done" /\ Writes(conn'[e], conn[e])
        /\ ~conn'[e].ready
    BY <1>9, CloseDoneFacts
  <2>2. SetJob(e, "closer", [job[e]["closer"] EXCEPT !.pc = "done"]) /\ written' = written
    BY <1>9 DEF CloseDone, appVars
  <2>3. job[e]["closer"].todo = <<>> /\ NoHandler(e)
    BY <1>0, <2>1 DEF Busy, Working, NoHandler, Writes
  <2> QED
    BY <1>7, <2>1, <2>2, <2>3
<1>10. CASE CloseTimeout(e)
  <2>1. conn' = conn /\ job'[e]["closer"].pc = "failed" /\ job'[e]["closer"].todo = <<>>
    BY <1>10, CloseTimeoutFacts
  <2>2. job'[e]["closer"].upTo = job[e]["closer"].upTo /\ written' = written
    BY <1>0, <1>10, FailedUpTo DEF CloseTimeout, appVars
  <2> QED
    BY <1>1, <2>1, <2>2 DEF NoHandler
<1>11. CASE Timeout(e, "closer")
  BY <1>2, <1>11 DEF Timeout
<1>12. CASE Answered(e, "closer")
  <2>1. CASE At(e, "closer", "result") /\ Wrote(e, "closer")
    BY <1>0, <1>3, <1>12, <2>1 DEF At, Working, Answered
  <2> QED
    BY <1>2, <1>12, <2>1 DEF Answered
<1>13. CASE Send(e, "closer")
  <2>1. CASE job[e]["closer"].stale
    BY <1>2, <1>13, <2>1 DEF Send
  <2>2. CASE ~job[e]["closer"].stale
    <3>1. /\ Busy(e, "closer") /\ params' = params /\ (~Acked => Wrote(e, "closer"))
          /\ Acked => /\ conn' = conn /\ written' = written
                      /\ job'[e]["closer"].pc = "wait" /\ job'[e]["closer"].op = job[e]["closer"].op
                      /\ job'[e]["closer"].todo = job[e]["closer"].todo
                      /\ job'[e]["closer"].upTo = job[e]["closer"].upTo
      BY <1>0, <1>13, <2>2, SendBytes
    <3>2. CASE Acked
      <4>1. Tailing(e)' => Tailing(e)
        BY <3>1, <3>2 DEF Tailing, CPc, Busy
      <4>2. job'[e]["closer"].op # "write" /\ NoHandler(e)
        BY <3>1, <3>2 DEF Amount, NoHandler
      <4> QED
        BY <3>1, <3>2, <4>1, <4>2, AmountCloses
    <3> QED
      BY <1>3, <3>1, <3>2
  <2> QED
    BY <2>1, <2>2
<1>14. CASE Lock(e, "closer")
  <2>1. NoHandler(e) /\ job[e]["closer"].pc = "lock" /\ conn'[e].werr = conn[e].werr
    BY <1>0, <1>14, LockFacts DEF Kept, Same, NoHandler
  <2>2. job[e]["closer"].op = "flush"
    <3>1. job[e]["closer"].op # "write" /\ job[e]["closer"].op # "tail"
      BY <1>0, <2>1, BusyWorking DEF Amount, CPc
    <3>2. job[e]["closer"].op \in {"write", "flush", "tail"}
      BY <1>0, BusyWorking DEF Ops
    <3> QED
      BY <3>1, <3>2
  <2>3. /\ written'[e] = written[e]
        /\ job'[e]["closer"].todo = <<>> => conn[e].werr \/ conn'[e].wbuf = <<>>
    BY <1>0, <1>14, <2>2, LockFlush
  <2>4. job'[e]["closer"].upTo = job[e]["closer"].upTo
    BY <1>0, <1>14, LockBytes
  <2>5. \/ job'[e]["closer"].todo = <<>> /\ job'[e]["closer"].pc # "lock"
        \/ job'[e]["closer"].pc = "send" /\ job'[e]["closer"].op = job[e]["closer"].op
    BY <1>0, <1>14, LockFacts
  <2>6. CASE job'[e]["closer"].todo = <<>> /\ job'[e]["closer"].pc # "lock"
    <3>1. conn'[e].werr \/ Len(conn'[e].wbuf) = 0
      BY <1>0, <2>1, <2>3, <2>6
    <3>2. CPc(e)' # "lock" /\ ~Busy(e, "closer")'
      BY <2>6 DEF CPc, Busy
    <3> QED
      BY <2>1, <2>3, <2>4, <3>1, <3>2, AmountCloses
  <2>7. CASE job'[e]["closer"].pc = "send" /\ job'[e]["closer"].op = job[e]["closer"].op
    <3>1. ~Tailing(e)'
      BY <2>2, <2>7 DEF Tailing, CPc
    <3> QED
      BY <2>1, <2>2, <2>3, <2>4, <2>7, <3>1, AmountCloses
  <2> QED
    BY <2>5, <2>6, <2>7
<1> QED
  BY <1>4, <1>5, <1>6, <1>8, <1>9, <1>10, <1>11, <1>12, <1>13, <1>14

\* (The other end.)
LEMMA AmountBoth ==
    ASSUME TypeInv, AmountInv, NEW e \in Ends, Amount(e)', Apathetic(Other(e))
    PROVE  AmountInv'
<1>1. PICK o \in Ends : o = Other(e) /\ \A x \in Ends : x = e \/ x = o
  BY OtherEnd
<1>2. Amount(o) /\ Apathetic(o) /\ job'[o]["closer"] = job[o]["closer"]
  BY <1>1 DEF AmountInv, Apathetic, Roles
<1>3. conn'[o] = conn[o] /\ written'[o] = written[o]
  BY <1>2 DEF Apathetic
<1>4. Amount(o)'
  BY <1>2, <1>3 DEF Amount, Tailing, CPc, Busy
<1> QED
  BY <1>1, <1>4 DEF AmountInv

\* The reading goroutine, and Serve.
LEMMA ServeAmount ==
    ASSUME BaseInv, NEW e \in Ends, Amount(e),
           \/ Read(e) \/ Receive(e) \/ \E max \in Limits : SetReadBuffer(e, max)
           \/ handlePayload(e) \/ HandleClose(e) \/ closeNoNotify(e) \/ ServeAnswer(e)
    PROVE  Amount(e)'
<1>0. TypeInv /\ written[e] \in Nat /\ "closer" \in Roles
  BY ByteTypes DEF BaseInv, Roles
<1>1. ASSUME conn'[e].wbuf = conn[e].wbuf, conn'[e].werr = conn[e].werr,
             conn'[e].handlerT = conn[e].handlerT, conn'[e].ready = conn[e].ready,
             job'[e]["closer"] = job[e]["closer"], written' = written
      PROVE  Amount(e)'
  BY <1>1 DEF Amount, Tailing, CPc, Busy
<1>2. CASE Read(e)
  <2>1. Writes(conn'[e], conn[e]) /\ conn'[e].ready = conn[e].ready /\ job' = job
    BY <1>0, <1>2, ReadFacts
  <2>2. written' = written
    BY <1>0, <1>2, ReadBytes
  <2> QED
    BY <1>1, <2>1, <2>2 DEF Writes
<1>3. CASE Receive(e)
  <2>1. conn' = conn /\ job' = job /\ written' = written
    BY <1>3 DEF Receive, appVars
  <2> QED
    BY <1>1, <2>1
<1>4. CASE \E max \in Limits : SetReadBuffer(e, max)
  <2>1. PICK max \in Limits : SetReadBuffer(e, max)
    BY <1>4
  <2>2. Writes(conn'[e], conn[e]) /\ conn'[e].ready = conn[e].ready /\ job' = job
    BY <1>0, <2>1, SetReadBufferFacts
  <2>3. written' = written
    BY <2>1 DEF SetReadBuffer, appVars
  <2> QED
    BY <1>1, <2>2, <2>3 DEF Writes
<1>5. CASE handlePayload(e)
  <2>1. Writes(conn'[e], conn[e]) /\ conn'[e].ready = conn[e].ready /\ job' = job
    BY <1>0, <1>5, PayloadFacts
  <2>2. written' = written
    BY <1>0, <1>5, PayloadBytes
  <2> QED
    BY <1>1, <2>1, <2>2 DEF Writes
<1>6. CASE HandleClose(e)
  <2>1. conn' = conn /\ job' = job /\ written' = written
    BY <1>6 DEF HandleClose, appVars
  <2> QED
    BY <1>1, <2>1
<1>7. CASE closeNoNotify(e)
  <2>0. chan[e] # <<>>
    BY <1>7 DEF BaseInv, HeadInv, closeNoNotify
  <2>1. /\ job' = job /\ conn'[e].werr = conn[e].werr
        /\ \/ conn[e].werr
           \/ conn'[e].wbuf = <<>> /\ ~conn'[e].ready
    BY <1>0, <1>7, <2>0, CloseNoNotifyFacts
  <2>2. written' = written
    BY <1>7 DEF closeNoNotify, appVars
  <2>3. PICK u \in Nat : u = job[e]["closer"].upTo
    BY <1>0, ByteTypes
  <2>4. u <= written[e] /\ u + 0 = u /\ Len(<<>>) = 0
    BY <2>3 DEF Amount
  <2> QED
    BY <2>1, <2>2, <2>3, <2>4 DEF Amount, CPc, Busy
<1>8. CASE ServeAnswer(e)
  <2>1. conn' = conn
    BY <1>0, <1>8, ServeAnswerFacts
  <2>2. /\ written' = written
        /\ \/ job'[e]["closer"] = job[e]["closer"]
           \/ LET j == job[e]["closer"]  k == job'[e]["closer"] IN
              /\ k.todo = j.todo /\ k.op = j.op /\ k.upTo = j.upTo
              /\ k.pc \in {"result", "error", "closed"}
    BY <1>0, <1>8, ServedBytes DEF OnlyJob
  <2> QED
    BY <1>1, <2>1, <2>2 DEF Amount, Tailing, CPc, Busy
<1> QED
  BY <1>2, <1>3, <1>4, <1>5, <1>6, <1>7, <1>8

\* Every step keeps it.
LEMMA AmountStep ==
    ASSUME BaseInv, AmountInv, Next
    PROVE  AmountInv'
<1>1. PICK e \in Ends :
        \/ Write(e) \/ Flush(e)
        \/ Close(e) \/ CloseSet(e) \/ CloseTail(e) \/ CloseNotify(e) \/ CloseTimeout(e)
        \/ CloseDone(e)
        \/ \E r \in Roles : Lock(e, r) \/ Send(e, r) \/ Answered(e, r) \/ Timeout(e, r)
        \/ Read(e) \/ Receive(e) \/ \E max \in Limits : SetReadBuffer(e, max)
        \/ handlePayload(e) \/ HandleClose(e) \/ closeNoNotify(e) \/ ServeAnswer(e)
  BY NextCases
<1>2. TypeInv /\ Amount(e)
  BY DEF BaseInv, AmountInv
<1>3. Apathetic(Other(e))
  BY <1>1, OneEnd
<1>4. Amount(e)'
  BY <1>1, <1>2, WriterAmount, CloserAmount, ServeAmount DEF Roles
<1> QED
  BY <1>2, <1>3, <1>4, AmountBoth

----------------------------------------------------------------------------
(* What has arrived when Close goes on, and was read when Read ends.       *)

\* Close has flushed everything.
Ending == {"notify", "closewait", "closed"}
\* The other end has answered Close.
Told(o) ==
    conn[o].ready /\ (CPc(o) = "closed" \/ (CPc(o) = "closewait" /\ ~NoneIn(chan[o], Backs)))
\* What had been written when Close was called.
Promised(o) == job[o]["closer"].upTo
\* Over IQs, everything written before the Close of o has arrived at e when it
\* asks e to close; e answers when it has ended its own reads, so a Read that
\* reports the end then has returned all of it.
Reached(o, e) ==
    Acked /\ ~raced[o] =>
       /\ conn[o].ready /\ CPc(o) \in Ending => Promised(o) <= Len(Arr(e))
       /\ Told(o) /\ rpc[e] = "eof" => Promised(o) <= Len(got[e])
       /\ flushed[o] <= Len(Arr(e))
       /\ rpc[e] = "eof" => flushed[o] <= Len(got[e])
ReachedInv == \A e \in Ends : Reached(e, Other(e))

\* The numbers of it.
LEMMA ReachedTypes ==
    ASSUME TypeInv, NEW o \in Ends, NEW e \in Ends
    PROVE  /\ Promised(o) \in Nat /\ flushed[o] \in Nat
           /\ Len(Arr(e)) \in Nat /\ Len(got[e]) \in Nat
           /\ conn[e].rbuf = <<>> => Len(Arr(e)) = Len(got[e])
<1>1. Promised(o) \in Nat
  BY ByteTypes DEF Promised, Roles
<1>2. flushed[o] \in Nat
  BY DEF TypeInv, RestTypes
<1>3. Arr(e) \in Bytes /\ got[e] \in Bytes
  BY ByteTypes
<1>4. Len(Arr(e)) \in Nat
  BY <1>3 DEF Bytes
<1>5. Len(got[e]) \in Nat
  BY <1>3 DEF Bytes
<1>6. conn[e].rbuf = <<>> => Len(Arr(e)) = Len(got[e])
  <2> SUFFICES ASSUME conn[e].rbuf = <<>>
               PROVE  Len(Arr(e)) = Len(got[e])
    OBVIOUS
  <2>1. Len(conn[e].rbuf) = 0
    OBVIOUS
  <2>2. Len(Arr(e)) = Len(got[e]) + Len(conn[e].rbuf)
    BY ByteTypes
  <2>3. PICK g \in Nat : g = Len(got[e])
    BY <1>5
  <2>4. g + 0 = g
    BY <2>3
  <2> QED
    BY <2>1, <2>2, <2>3, <2>4
<1> QED
  BY <1>1, <1>2, <1>4, <1>5, <1>6

\* Close does not get there, nothing that has arrived is lost, and the end is
\* not reported, or there is nothing to read.
LEMMA ReachedKept ==
    ASSUME TypeInv, NEW o \in Ends, NEW e \in Ends, Reached(o, e), params' = params,
           raced[o] => raced'[o], conn'[o].ready => conn[o].ready, flushed'[o] = flushed[o],
           Len(Arr(e)') \in Nat, Len(Arr(e)') >= Len(Arr(e)),
           Len(got'[e]) \in Nat, Len(got'[e]) >= Len(got[e]),
           CPc(o)' \in Ending => CPc(o) \in Ending /\ Promised(o)' = Promised(o),
           \/ conn[e].rbuf = <<>>
           \/ (Told(o)' => Told(o)) /\ (rpc'[e] = "eof" => rpc[e] = "eof")
    PROVE  Reached(o, e)'
<1> SUFFICES ASSUME Acked, ~raced[o]
             PROVE  /\ conn'[o].ready /\ CPc(o)' \in Ending => Promised(o)' <= Len(Arr(e)')
                    /\ Told(o)' /\ rpc'[e] = "eof" => Promised(o)' <= Len(got'[e])
                    /\ flushed'[o] <= Len(Arr(e)')
                    /\ rpc'[e] = "eof" => flushed'[o] <= Len(got'[e])
  BY DEF Reached, Acked
<1>1. PICK u \in Nat : u = Promised(o)
  BY ReachedTypes
<1>2. PICK f \in Nat : f = flushed[o]
  BY ReachedTypes
<1>3. PICK a \in Nat : a = Len(Arr(e))
  BY ReachedTypes
<1>4. PICK g \in Nat : g = Len(got[e])
  BY ReachedTypes
<1>5. /\ conn[o].ready /\ CPc(o) \in Ending => u <= a
      /\ Told(o) /\ rpc[e] = "eof" => u <= g
      /\ f <= a /\ (rpc[e] = "eof" => f <= g)
      /\ conn[e].rbuf = <<>> => a = g
  BY <1>1, <1>2, <1>3, <1>4, ReachedTypes DEF Reached
<1>6. PICK x \in Nat : x = Len(Arr(e)') /\ x >= a
  BY <1>3
<1>7. PICK y \in Nat : y = Len(got'[e]) /\ y >= g
  BY <1>4
<1>8. Told(o)' => conn'[o].ready /\ CPc(o)' \in Ending
  BY DEF Told, Ending
<1>9. conn'[o].ready /\ CPc(o)' \in Ending => Promised(o)' = u /\ u <= x
  <2>1. conn'[o].ready /\ CPc(o)' \in Ending => Promised(o)' = u /\ u <= a
    BY <1>1, <1>5
  <2> QED
    BY <1>1, <1>3, <1>6, <2>1
<1>10. Told(o)' /\ rpc'[e] = "eof" => u <= y
  <2>1. Told(o)' /\ rpc'[e] = "eof" => u <= g
    <3>1. CASE conn[e].rbuf = <<>>
      BY <1>5, <1>8, <3>1
    <3>2. CASE (Told(o)' => Told(o)) /\ (rpc'[e] = "eof" => rpc[e] = "eof")
      BY <1>5, <3>2
    <3> QED
      BY <3>1, <3>2
  <2> QED
    BY <1>1, <1>4, <1>7, <2>1
<1>11. f <= x
  BY <1>2, <1>3, <1>5, <1>6
<1>12. rpc'[e] = "eof" => f <= y
  <2>1. rpc'[e] = "eof" => f <= g
    BY <1>5
  <2> QED
    BY <1>2, <1>4, <1>7, <2>1
<1> QED
  BY <1>2, <1>6, <1>7, <1>8, <1>9, <1>10, <1>11, <1>12

\* (Where e does nothing.)
LEMMA ReachedFrom ==
    ASSUME TypeInv, NEW o \in Ends, NEW e \in Ends, Reached(o, e), params' = params, Apathetic(e),
           raced[o] => raced'[o], conn'[o].ready => conn[o].ready, flushed'[o] = flushed[o],
           CPc(o)' \in Ending => CPc(o) \in Ending /\ Promised(o)' = Promised(o),
           Told(o)' => Told(o)
    PROVE  Reached(o, e)'
<1>1. got'[e] = got[e] /\ rpc'[e] = rpc[e] /\ conn'[e] = conn[e]
  BY DEF Apathetic
<1>2. Arr(e)' = Arr(e)
  BY <1>1, ArrSame
<1>3. Len(Arr(e)') = Len(Arr(e)) /\ Len(got'[e]) = Len(got[e])
  BY <1>1, <1>2
<1>4. Len(Arr(e)) \in Nat /\ Len(got[e]) \in Nat /\ Len(Arr(e)) >= Len(Arr(e)) /\ Len(got[e]) >= Len(got[e])
  BY ReachedTypes
<1> QED
  BY <1>1, <1>3, <1>4, ReachedKept

\* (Where o does nothing.)
LEMMA ReachedTo ==
    ASSUME TypeInv, NEW o \in Ends, NEW e \in Ends, Reached(o, e), params' = params, Apathetic(o),
           Len(Arr(e)') \in Nat, Len(Arr(e)') >= Len(Arr(e)),
           Len(got'[e]) \in Nat, Len(got'[e]) >= Len(got[e]),
           \/ conn[e].rbuf = <<>>
           \/ (Told(o)' => Told(o)) /\ (rpc'[e] = "eof" => rpc[e] = "eof")
    PROVE  Reached(o, e)'
<1>1. /\ conn'[o] = conn[o] /\ raced'[o] = raced[o] /\ flushed'[o] = flushed[o]
      /\ job'[o]["closer"] = job[o]["closer"]
  BY DEF Apathetic, Roles
<1>2. CPc(o)' = CPc(o) /\ Promised(o)' = Promised(o)
  BY <1>1 DEF CPc, Promised
<1> QED
  BY <1>1, <1>2, ReachedKept

\* Nothing is in the encoder or still to be sent, and nobody waits: what was
\* written before Close, and is not in the buffer any more, has arrived.
LEMMA AllArrived ==
    ASSUME TypeInv, SeqInv, NEW o \in Ends, Carried(o), Amount(o), Acked, ~raced[o],
           conn[o].ready, ~conn[o].werr, Tailing(o),
           \A r \in Roles : job[o][r].pc \notin {"wait", "error"},
           \/ (\A r \in Roles : ~Busy(o, r)) /\ conn[o].fringe = <<>>
           \/ /\ Busy(o, "closer") /\ job[o]["closer"].op = "tail"
              /\ Rest(job[o]["closer"]) = <<>>
    PROVE  Promised(o) <= Len(Arr(Other(o)))
<1>1. PICK p \in Nat : CarriedUpTo(o, p)
  BY DEF Carried
<1>2. Pending(o, p) /\ ~conn[o].handlerT
  BY <1>1 DEF CarriedUpTo, Amount
<1>3. Len(Arr(Other(o))) = p
  BY <1>1, <1>2 DEF CarriedUpTo, Whole, Due, Settled
<1>4. Run(conn[o].wbuf, p, written[o])
  <2>0. conn[o].fringe \in Bytes /\ conn[o].wbuf \in Bytes /\ <<>> \in Bytes /\ "closer" \in Roles
    <3>1. conn[o].fringe \in Bytes /\ conn[o].wbuf \in Bytes
      BY ByteTypes
    <3>2. <<>> \in Bytes
      BY DEF Bytes
    <3> QED
      BY <3>1, <3>2 DEF Roles
  <2>1. CASE (\A r \in Roles : ~Busy(o, r)) /\ conn[o].fringe = <<>>
    <3>1. PICK q \in Nat : Run(conn[o].fringe, p, q) /\ Run(conn[o].wbuf, q, written[o])
      BY <1>2, <2>1 DEF Pending
    <3>2. p = q
      BY <2>0, <2>1, <3>1, RunParts
    <3> QED
      BY <3>1, <3>2
  <2>2. CASE /\ Busy(o, "closer") /\ job[o]["closer"].op = "tail"
             /\ Rest(job[o]["closer"]) = <<>>
    <3>1. PICK q \in Nat : Cuts(Rest(job[o]["closer"]), p, q) /\ Run(conn[o].wbuf, q, written[o])
      BY <1>2, <2>0, <2>2, PendingBusy
    <3>2. Cuts(<<>>, p, q)
      BY <2>2, <3>1
    <3>3. p = q
      BY <2>0, <3>2, CutsFew
    <3> QED
      BY <3>1, <3>3
  <2> QED
    BY <2>1, <2>2
<1>5. PICK w \in Nat : w = written[o]
  BY ByteTypes
<1>6. PICK u \in Nat : u = Promised(o)
  BY ReachedTypes
<1>7. PICK k \in Nat : k = Len(conn[o].wbuf)
  BY EndTypes DEF Bytes
<1>8. p <= w /\ k = w - p
  BY <1>4, <1>5, <1>7 DEF Run
<1>9. u + k <= w
  BY <1>5, <1>6, <1>7 DEF Amount, Promised
<1>10. u <= p
  BY <1>8, <1>9
<1> QED
  BY <1>3, <1>6, <1>10

\* Nothing is answered by taking a stanza.
LEMMA ToldKept ==
    ASSUME TypeInv, NEW o \in Ends, job'[o]["closer"] = job[o]["closer"],
           conn'[o].ready => conn[o].ready,
           \/ chan'[o] = chan[o]
           \/ chan[o] # <<>> /\ chan'[o] = Tail(chan[o])
           \/ \E ms \in Seq(Stanzas) : chan'[o] = chan[o] \o ms /\ NoneIn(ms, Backs)
    PROVE  (Told(o)' => Told(o)) /\ CPc(o)' = CPc(o) /\ Promised(o)' = Promised(o)
<1>1. chan[o] \in Seq(Stanzas)
  BY ByteTypes
<1>2. NoneIn(chan[o], Backs) => NoneIn(chan'[o], Backs)
  BY <1>1, TailIn, JoinedIn
<1> QED
  BY <1>2 DEF Told, CPc, Promised

\* Close is not where it has flushed everything.
LEMMA ReachedElsewhere ==
    ASSUME TypeInv, NEW o \in Ends, NEW e \in Ends, Reached(o, e), params' = params, Apathetic(e),
           raced[o] => raced'[o], conn'[o].ready => conn[o].ready, flushed'[o] = flushed[o],
           job'[o]["closer"].pc \notin Ending
    PROVE  Reached(o, e)'
<1>1. CPc(o)' \notin Ending /\ ~Told(o)'
  BY DEF CPc, Told, Ending
<1> QED
  BY <1>1, ReachedFrom

\* The goroutine that writes, the one that reads and Serve, at o.
LEMMA OwnReached ==
    ASSUME BaseInv, FlightInv, NEW o \in Ends, NEW e \in Ends, e = Other(o), Reached(o, e),
           \/ Write(o) \/ Flush(o)
           \/ Lock(o, "writer") \/ Send(o, "writer") \/ Answered(o, "writer") \/ Timeout(o, "writer")
           \/ Read(o) \/ Receive(o) \/ \E max \in Limits : SetReadBuffer(o, max)
           \/ handlePayload(o) \/ HandleClose(o) \/ closeNoNotify(o)
    PROVE  Reached(o, e)'
<1>0. TypeInv /\ "writer" \in Roles /\ "closer" \in Roles /\ "closer" # "writer" /\ o # e
  BY OtherEnd DEF BaseInv, Roles
<1>1. Apathetic(e) /\ params' = params
  BY <1>0, OneEnd
<1>2. ASSUME job'[o]["closer"] = job[o]["closer"], conn'[o].ready => conn[o].ready,
             raced[o] => raced'[o], flushed' = flushed,
             chan'[o] = chan[o] \/ (chan[o] # <<>> /\ chan'[o] = Tail(chan[o]))
      PROVE  Reached(o, e)'
  <2>1. (Told(o)' => Told(o)) /\ CPc(o)' = CPc(o) /\ Promised(o)' = Promised(o)
    BY <1>0, <1>2, ToldKept
  <2> QED
    BY <1>0, <1>1, <1>2, <2>1, ReachedFrom
<1>3. CASE Write(o) \/ Flush(o)
  <2>1. conn' = conn /\ chan' = chan /\ raced' = raced /\ flushed' = flushed
    BY <1>3 DEF Write, Flush, ghostVars
  <2>2. JobMoves(o, "writer")
    BY <1>0, <1>3, BeginFacts
  <2> QED
    BY <1>0, <1>2, <2>1, <2>2 DEF JobMoves, OnlyJob
<1>4. CASE Lock(o, "writer")
  <2>1. OnlyJob(o, "writer") /\ Kept(o) /\ chan' = chan /\ Races(o, "writer", {"tail"})
    BY <1>0, <1>4, LockFacts
  <2>2. flushed' = flushed
    BY <1>4 DEF Lock
  <2>3. raced[o] => raced'[o]
    BY <1>0, <2>1, RacesEffect
  <2> QED
    BY <1>0, <1>2, <2>1, <2>2, <2>3 DEF Kept, Same, OnlyJob
<1>5. CASE Send(o, "writer") \/ Answered(o, "writer") \/ Timeout(o, "writer")
  <2>1. raced' = raced /\ flushed' = flushed
    BY <1>5 DEF Send, Answered, Timeout, ghostVars
  <2>2. OnlyJob(o, "writer") /\ Kept(o) /\ chan'[o] = chan[o]
    <3>1. CASE Send(o, "writer")
      <4>1. OnlyJob(o, "writer") /\ Kept(o)
        BY <1>0, <3>1, SendFacts, ZenonT(30) DEF Breaks, Advances, JobMoves, Kept, Same
      <4>2. chan' = chan \/ \E m \in Stanzas : SendsOne(o, m)
        BY <1>0, <3>1, SendFacts
      <4>3. chan'[o] = chan[o]
        BY <1>0, <4>2 DEF SendsOne
      <4> QED
        BY <4>1, <4>3
    <3>2. CASE Answered(o, "writer")
      BY <1>0, <3>2, AnsweredFacts DEF Breaks, Advances
    <3>3. CASE Timeout(o, "writer")
      BY <1>0, <3>3, TimeoutFacts DEF Breaks
    <3> QED
      BY <1>5, <3>1, <3>2, <3>3
  <2> QED
    BY <1>0, <1>2, <2>1, <2>2 DEF Kept, Same, OnlyJob
<1>6. CASE Read(o)
  <2>1. job' = job /\ chan' = chan /\ raced' = raced /\ conn'[o].ready = conn[o].ready
    BY <1>0, <1>6, ReadFacts
  <2>2. flushed' = flushed
    BY <1>0, <1>6, ReadBytes
  <2> QED
    BY <1>2, <2>1, <2>2
<1>7. CASE Receive(o)
  <2>1. job' = job /\ chan' = chan /\ raced' = raced /\ conn' = conn /\ flushed' = flushed
    BY <1>7 DEF Receive, ghostVars
  <2> QED
    BY <1>2, <2>1
<1>8. CASE \E max \in Limits : SetReadBuffer(o, max)
  <2>1. PICK max \in Limits : SetReadBuffer(o, max)
    BY <1>8
  <2>2. job' = job /\ chan' = chan /\ raced' = raced /\ conn'[o].ready = conn[o].ready
    BY <1>0, <2>1, SetReadBufferFacts
  <2>3. flushed' = flushed
    BY <2>1 DEF SetReadBuffer, ghostVars
  <2> QED
    BY <1>2, <2>2, <2>3
<1>9. CASE handlePayload(o)
  <2>1. /\ job' = job /\ raced' = raced /\ conn'[o].ready = conn[o].ready /\ chan[o] # <<>>
        /\ chan'[o] = Tail(chan[o])
    BY <1>0, <1>9, PayloadFacts DEF Takes
  <2>2. flushed' = flushed
    BY <1>0, <1>9, PayloadBytes
  <2> QED
    BY <1>2, <2>1, <2>2
<1>10. CASE HandleClose(o)
  <2>1. /\ job' = job /\ raced' = raced /\ conn' = conn /\ chan[o] # <<>>
        /\ chan'[o] = Tail(chan[o]) \/ chan' = chan
    BY <1>0, <1>10, HandleCloseFacts DEF Takes
  <2>2. flushed' = flushed
    BY <1>10 DEF HandleClose, ghostVars
  <2> QED
    BY <1>2, <2>1, <2>2
<1>11. CASE closeNoNotify(o)
  <2>0. chan[o] # <<>>
    BY <1>11 DEF BaseInv, HeadInv, closeNoNotify
  <2>1. /\ job' = job /\ (raced' = raced \/ Races(o, "none", Ops))
        /\ conn'[o].ready = conn[o].ready \/ ~conn'[o].ready
        /\ chan'[o] = Tail(chan[o]) \/ chan' = chan
    BY <1>0, <1>11, <2>0, CloseNoNotifyFacts DEF Takes
  <2>2. raced[o] => raced'[o]
    BY <1>0, <2>1, RacesEffect
  <2>3. flushed' = flushed
    BY <1>11 DEF closeNoNotify
  <2> QED
    BY <1>2, <2>0, <2>1, <2>2, <2>3
<1> QED
  BY <1>3, <1>4, <1>5, <1>6, <1>7, <1>8, <1>9, <1>10, <1>11

\* Close, at o: it goes on to ask when everything has arrived.
LEMMA CloserReached ==
    ASSUME BaseInv, SeqInv, FlightInv, NEW o \in Ends, NEW e \in Ends, e = Other(o),
           Carried(o), Amount(o), Reached(o, e),
           \/ Close(o) \/ CloseSet(o) \/ CloseTail(o) \/ CloseNotify(o) \/ CloseTimeout(o)
           \/ Lock(o, "closer") \/ Send(o, "closer") \/ Answered(o, "closer") \/ Timeout(o, "closer")
    PROVE  Reached(o, e)'
<1>0. TypeInv /\ "writer" \in Roles /\ "closer" \in Roles /\ o # e
  BY OtherEnd DEF BaseInv, Roles
<1>1. Apathetic(e) /\ params' = params
  BY <1>0, OneEnd
<1>2. ASSUME conn'[o].ready => conn[o].ready, raced[o] => raced'[o], flushed' = flushed,
             job'[o]["closer"].pc \notin Ending
      PROVE  Reached(o, e)'
  BY <1>0, <1>1, <1>2, ReachedElsewhere
<1>3. CASE Close(o)
  <2>1. conn' = conn /\ raced' = raced /\ job'[o]["closer"].pc \in {"noop", "set"}
    BY <1>0, <1>3, CloseFacts
  <2>2. flushed' = flushed
    BY <1>3 DEF Close, ghostVars
  <2> QED
    BY <1>2, <2>1, <2>2 DEF Ending
<1>4. CASE CloseSet(o)
  <2>1. /\ conn'[o] = [conn[o] EXCEPT !.closed = TRUE] /\ raced' = raced
        /\ job'[o]["closer"].pc = "lock"
    BY <1>0, <1>4, CloseSetFacts
  <2>2. flushed' = flushed
    BY <1>4 DEF CloseSet, ghostVars
  <2>3. conn'[o].ready = conn[o].ready
    BY <1>0, <2>1, EndTypes DEF ConnType
  <2> QED
    BY <1>2, <2>1, <2>2, <2>3 DEF Ending
<1>5. CASE CloseTimeout(o)
  <2>1. conn' = conn /\ raced' = raced /\ job'[o]["closer"].pc = "failed"
    BY <1>0, <1>5, CloseTimeoutFacts
  <2>2. flushed' = flushed
    BY <1>5 DEF CloseTimeout, ghostVars
  <2> QED
    BY <1>2, <2>1, <2>2 DEF Ending
<1>6. CASE Lock(o, "closer")
  <2>1. /\ Kept(o) /\ Races(o, "closer", {"tail"}) /\ job[o]["closer"].pc = "lock"
        /\ job'[o]["closer"].pc \in {"idle", "tail", "notify", "failed", "send"}
    BY <1>0, <1>6, LockFacts
  <2>2. job[o]["closer"].op = "flush"
    <3>1. job[o]["closer"].op # "write" /\ job[o]["closer"].op # "tail"
      BY <1>0, <2>1, BusyWorking DEF Amount, CPc
    <3>2. job[o]["closer"].op \in {"write", "flush", "tail"}
      BY <1>0, BusyWorking DEF Ops
    <3> QED
      BY <3>1, <3>2
  <2>3. job'[o]["closer"].pc # "notify"
    BY <1>0, <1>6, <2>2, LockFlush
  <2>4. flushed' = flushed /\ (raced[o] => raced'[o])
    BY <1>0, <1>6, <2>1, RacesEffect DEF Lock
  <2> QED
    BY <1>2, <2>1, <2>3, <2>4 DEF Ending, Kept, Same
<1>7. CASE Timeout(o, "closer")
  <2>1. Breaks(o, "closer") /\ raced' = raced
    BY <1>0, <1>7, TimeoutFacts
  <2>2. flushed' = flushed
    BY <1>7 DEF Timeout, ghostVars
  <2> QED
    BY <1>2, <2>1, <2>2 DEF Ending, Breaks, Kept, Same
<1>8. CASE CloseNotify(o)
  <2>1. /\ conn' = conn /\ raced' = raced /\ job[o]["closer"].pc = "notify"
        /\ job'[o]["closer"].pc = "closewait" /\ \E m \in Stanzas : SendsOne(o, m)
    BY <1>0, <1>8, CloseNotifyFacts
  <2>2. flushed' = flushed /\ SetJob(o, "closer", [job[o]["closer"] EXCEPT !.pc = "closewait"])
    BY <1>8 DEF CloseNotify, ghostVars
  <2>3. Promised(o)' = Promised(o)
    BY <1>0, <2>2, PcBytes DEF Promised
  <2>4. chan'[o] = chan[o]
    BY <1>0, <2>1 DEF SendsOne
  <2>5. NoneIn(chan[o], Backs)
    BY <2>1 DEF FlightInv, Flight, CPc
  <2>6. ~Told(o)'
    BY <2>1, <2>4, <2>5 DEF Told, CPc
  <2>7. CPc(o) \in Ending
    BY <2>1 DEF CPc, Ending
  <2> QED
    BY <1>0, <1>1, <2>1, <2>2, <2>3, <2>6, <2>7, ReachedFrom
<1>9. ASSUME conn'[o].ready = conn[o].ready, raced[o] => raced'[o], flushed' = flushed,
             job'[o]["closer"].pc = "notify", Promised(o)' = Promised(o),
             Acked /\ ~raced'[o] /\ conn[o].ready => Promised(o) <= Len(Arr(e))
      PROVE  Reached(o, e)'
  <2>1. got'[e] = got[e] /\ rpc'[e] = rpc[e] /\ conn'[e] = conn[e]
    BY <1>1 DEF Apathetic
  <2>2. Arr(e)' = Arr(e)
    BY <2>1, ArrSame
  <2>3. ~Told(o)'
    BY <1>9 DEF Told, CPc
  <2>4. Acked' = Acked
    BY <1>1 DEF Acked
  <2>5. Acked' /\ ~raced'[o] => flushed[o] <= Len(Arr(e)) /\ (rpc[e] = "eof" => flushed[o] <= Len(got[e]))
    BY <1>9, <2>4 DEF Reached
  <2>6. Acked' /\ ~raced'[o] /\ conn'[o].ready => Promised(o)' <= Len(Arr(e)')
    BY <1>9, <2>2, <2>4
  <2> QED
    BY <1>9, <2>1, <2>2, <2>3, <2>5, <2>6 DEF Reached
<1>10. CASE CloseTail(o)
  <2>1. conn' = conn /\ job[o]["closer"].pc = "tail" /\ Races(o, "closer", Ops)
    BY <1>0, <1>10, CloseTailFacts
  <2>2. /\ job'[o]["closer"].upTo = job[o]["closer"].upTo /\ flushed' = flushed
        /\ \/ job'[o]["closer"].pc \in {"failed", "send"}
           \/ job'[o]["closer"].pc = "notify" /\ ~conn[o].werr /\ conn[o].fringe = <<>>
    BY <1>0, <1>10, CloseTailBytes
  <2>3. /\ raced[o] => raced'[o]
        /\ (\E x \in Roles \ {"closer"} : Busy(o, x) /\ job[o][x].op \in Ops) => raced'[o]
    BY <1>0, <2>1, RacesEffect
  <2>4. CASE job'[o]["closer"].pc \in {"failed", "send"}
    BY <1>2, <2>1, <2>2, <2>3, <2>4 DEF Ending
  <2>5. CASE job'[o]["closer"].pc = "notify" /\ ~conn[o].werr /\ conn[o].fringe = <<>>
    <3>1. ~raced'[o] => \A r \in Roles : ~Busy(o, r)
      BY <1>0, <2>1, <2>3, BusyWorking DEF Roles, Working
    <3>2. (\A r \in Roles : ~Busy(o, r)) => \A r \in Roles : job[o][r].pc \notin {"wait", "error"}
      BY <1>0, BusyWorking DEF Working
    <3>3. Tailing(o)
      BY <2>1 DEF Tailing, CPc
    <3>4. Acked /\ ~raced'[o] /\ conn[o].ready => Promised(o) <= Len(Arr(e))
      BY <1>0, <2>3, <2>5, <3>1, <3>2, <3>3, AllArrived
    <3>5. Promised(o)' = Promised(o)
      BY <2>2 DEF Promised
    <3> QED
      BY <1>9, <2>1, <2>2, <2>3, <2>5, <3>4, <3>5
  <2> QED
    BY <2>2, <2>4, <2>5
<1>11. CASE Answered(o, "closer")
  <2>0. raced' = raced /\ flushed' = flushed
    BY <1>11 DEF Answered, ghostVars
  <2>1. CASE At(o, "closer", "error") /\ WriteErr(o, "closer")
    <3>1. Breaks(o, "closer")
      BY <1>0, <1>1, <2>1, WriteErrFacts
    <3> QED
      BY <1>2, <2>0, <3>1 DEF Ending, Breaks, Kept, Same
  <2>2. CASE At(o, "closer", "result") /\ Wrote(o, "closer")
    <3>1. job[o]["closer"].pc = "result" /\ Busy(o, "closer")
      BY <1>0, <2>2, BusyWorking DEF At, Working
    <3>2. conn'[o].ready = conn[o].ready
      BY <1>0, <1>1, <2>2, <3>1, WroteFacts DEF Busy, Advances, Kept, Same
    <3>3. /\ job'[o]["closer"].upTo = job[o]["closer"].upTo
          /\ \/ job'[o]["closer"].pc \in {"send", "tail"}
             \/ /\ job'[o]["closer"].pc = "notify" /\ Tail(job[o]["closer"].todo) = <<>>
                /\ job[o]["closer"].op # "flush"
      BY <1>0, <1>1, <2>2, <3>1, WroteBytes
    <3>4. CASE job'[o]["closer"].pc \in {"send", "tail"}
      BY <1>2, <2>0, <3>2, <3>4 DEF Ending
    <3>5. CASE /\ job'[o]["closer"].pc = "notify" /\ Tail(job[o]["closer"].todo) = <<>>
               /\ job[o]["closer"].op # "flush"
      <4>1. job[o]["closer"].op = "tail"
        <5>1. job[o]["closer"].op # "write"
          BY <3>1 DEF Amount
        <5>2. job[o]["closer"].op \in {"write", "flush", "tail"}
          BY <1>0, BusyWorking DEF Ops
        <5> QED
          BY <3>5, <5>1, <5>2
      <4>2. Tailing(o) /\ Rest(job[o]["closer"]) = <<>>
        BY <3>1, <3>5, <4>1 DEF Tailing, Rest, Outs
      <4>3. ASSUME ~raced[o]
            PROVE  ~conn[o].werr /\ \A r \in Roles : job[o][r].pc \notin {"wait", "error"}
        <5>1. ~conn[o].werr
          BY <1>0, <3>1, <4>3 DEF Carried
        <5>2. ~Busy(o, "writer")
          BY <3>1, <4>3 DEF SeqInv, AloneInv
        <5>3. job[o]["writer"].pc \notin {"wait", "error"}
          BY <1>0, <5>2, BusyWorking DEF Working
        <5> QED
          BY <3>1, <5>1, <5>3 DEF Roles
      <4>4. Acked /\ ~raced[o] /\ conn[o].ready => Promised(o) <= Len(Arr(e))
        BY <1>0, <3>1, <4>1, <4>2, <4>3, AllArrived
      <4>5. Promised(o)' = Promised(o)
        BY <3>3 DEF Promised
      <4> QED
        BY <1>9, <2>0, <3>2, <3>5, <4>4, <4>5
    <3> QED
      BY <3>3, <3>4, <3>5
  <2> QED
    BY <1>11, <2>1, <2>2 DEF Answered
<1>12. CASE Send(o, "closer")
  <2>0. raced' = raced /\ flushed' = flushed
    BY <1>12 DEF Send, ghostVars
  <2>1. CASE job[o]["closer"].stale
    <3>1. Breaks(o, "closer")
      BY <1>0, <1>12, <2>1, SendFacts
    <3> QED
      BY <1>2, <2>0, <3>1 DEF Ending, Breaks, Kept, Same
  <2>2. CASE ~job[o]["closer"].stale
    <3>1. Acked => conn' = conn /\ job'[o]["closer"].pc = "wait"
      BY <1>0, <1>12, <2>2, SendBytes
    <3>2. CASE Acked
      BY <1>2, <2>0, <3>1, <3>2 DEF Ending
    <3>3. CASE ~Acked
      BY <1>1, <3>3 DEF Reached, Acked
    <3> QED
      BY <3>2, <3>3
  <2> QED
    BY <2>1, <2>2
<1> QED
  BY <1>3, <1>4, <1>5, <1>6, <1>7, <1>8, <1>10, <1>11, <1>12

\* Close is answered, at o, and returns.
LEMMA AnsweredReached ==
    ASSUME BaseInv, NEW o \in Ends, NEW e \in Ends, e = Other(o), Reached(o, e),
           ServeAnswer(o) \/ CloseDone(o)
    PROVE  Reached(o, e)'
<1>0. TypeInv /\ "closer" \in Roles /\ o # e /\ DOMAIN flushed = Ends /\ chan[o] \in Seq(Stanzas)
  BY OtherEnd, ByteTypes DEF BaseInv, Roles, TypeInv, RestTypes
<1>1. Apathetic(e) /\ params' = params
  BY <1>0, OneEnd
<1>2. CASE ServeAnswer(o)
  <2>1. /\ conn' = conn /\ raced' = raced /\ chan[o] # <<>> /\ chan'[o] = Tail(chan[o])
        /\ Head(chan[o]) \in Answers
    BY <1>0, <1>2, ServeAnswerFacts DEF Takes
  <2>2. /\ flushed' = flushed
        /\ \/ job'[o]["closer"] = job[o]["closer"]
           \/ /\ job'[o]["closer"].upTo = job[o]["closer"].upTo
              /\ job'[o]["closer"].pc \in {"result", "error"}
           \/ /\ job'[o]["closer"].upTo = job[o]["closer"].upTo
              /\ job[o]["closer"].pc = "closewait" /\ Head(chan[o]).by = "closer"
    BY <1>0, <1>2, ServedBytes DEF OnlyJob
  <2>3. CASE job'[o]["closer"] = job[o]["closer"]
    <3>1. (Told(o)' => Told(o)) /\ CPc(o)' = CPc(o) /\ Promised(o)' = Promised(o)
      BY <1>0, <2>1, <2>3, ToldKept
    <3> QED
      BY <1>0, <1>1, <2>1, <2>2, <3>1, ReachedFrom
  <2>4. CASE job'[o]["closer"].pc \in {"result", "error"}
    BY <1>0, <1>1, <2>1, <2>2, <2>4, ReachedElsewhere DEF Ending
  <2>5. CASE /\ job'[o]["closer"].upTo = job[o]["closer"].upTo
             /\ job[o]["closer"].pc = "closewait" /\ Head(chan[o]).by = "closer"
    <3>1. Head(chan[o]) \in Backs
      BY <2>1, <2>5 DEF Backs, Answers
    <3>2. ~NoneIn(chan[o], Backs)
      BY <1>0, <2>1, <3>1, TailIn
    <3>3. Told(o)' => Told(o)
      BY <2>1, <2>5, <3>2 DEF Told, CPc
    <3>4. CPc(o) \in Ending /\ Promised(o)' = Promised(o)
      BY <2>5 DEF CPc, Ending, Promised
    <3> QED
      BY <1>0, <1>1, <2>1, <2>2, <3>3, <3>4, ReachedFrom
  <2> QED
    BY <2>2, <2>3, <2>4, <2>5
<1>3. CASE CloseDone(o)
  <2>1. job[o]["closer"].pc = "closed" /\ raced' = raced /\ ~conn'[o].ready
    BY <1>0, <1>3, CloseDoneFacts
  <2>2. flushed'[o] = IF conn[o].ready THEN Promised(o) ELSE flushed[o]
    BY <1>0, <1>3 DEF CloseDone, Promised
  <2>3. got'[e] = got[e] /\ rpc'[e] = rpc[e] /\ conn'[e] = conn[e]
    BY <1>1 DEF Apathetic
  <2>4. Arr(e)' = Arr(e)
    BY <2>3, ArrSame
  <2>5. conn[o].ready => Told(o) /\ CPc(o) \in Ending
    BY <2>1 DEF Told, CPc, Ending
  <2>6. ~Told(o)'
    BY <2>1 DEF Told
  <2>7. Acked' = Acked
    BY <1>1 DEF Acked
  <2>8. Acked' /\ ~raced'[o] =>
           /\ flushed'[o] <= Len(Arr(e))
           /\ rpc[e] = "eof" => flushed'[o] <= Len(got[e])
    BY <2>1, <2>2, <2>5, <2>7 DEF Reached
  <2> QED
    BY <2>1, <2>3, <2>4, <2>6, <2>8 DEF Reached
<1> QED
  BY <1>2, <1>3

\* The goroutines that write and close, at e.
LEMMA WritesReached ==
    ASSUME BaseInv, NEW o \in Ends, NEW e \in Ends, o = Other(e), Reached(o, e),
           \/ Write(e) \/ Flush(e)
           \/ Close(e) \/ CloseSet(e) \/ CloseTail(e) \/ CloseNotify(e) \/ CloseTimeout(e)
           \/ CloseDone(e)
           \/ \E r \in Roles : Lock(e, r) \/ Send(e, r) \/ Answered(e, r) \/ Timeout(e, r)
           \/ Receive(e) \/ (\E max \in Limits : SetReadBuffer(e, max)) \/ ServeAnswer(e)
    PROVE  Reached(o, e)'
<1>0. TypeInv /\ "closer" \in Roles /\ o # e /\ DOMAIN rpc = Ends /\ chan[o] \in Seq(Stanzas)
  BY OtherEnd, ByteTypes DEF BaseInv, Roles, TypeInv, RestTypes
<1>1. Apathetic(o) /\ params' = params
  BY <1>0, OneEnd
<1>2. ASSUME conn'[e].rbuf = conn[e].rbuf, got' = got, rpc'[e] = "eof" => rpc[e] = "eof",
             \/ chan'[o] = chan[o]
             \/ \E m \in Stanzas : m.kind \in {"data", "close"} /\ SendsOne(e, m)
      PROVE  Reached(o, e)'
  <2>1. Arr(e)' = Arr(e)
    BY <1>2, ArrSame
  <2>2. /\ Len(Arr(e)) \in Nat /\ Len(got[e]) \in Nat
        /\ Len(Arr(e)) >= Len(Arr(e)) /\ Len(got[e]) >= Len(got[e])
    BY <1>0, ReachedTypes
  <2>3. \/ chan'[o] = chan[o]
        \/ \E ms \in Seq(Stanzas) : chan'[o] = chan[o] \o ms /\ NoneIn(ms, Backs)
    <3>1. ASSUME NEW m \in Stanzas, m.kind \in {"data", "close"}, SendsOne(e, m)
          PROVE  \E ms \in Seq(Stanzas) : chan'[o] = chan[o] \o ms /\ NoneIn(ms, Backs)
      <4>1. chan'[o] = Append(chan[o], m)
        BY <3>1 DEF SendsOne
      <4>2. Append(chan[o], m) = chan[o] \o <<m>>
        BY <1>0
      <4>3. m \notin Backs
        BY <3>1 DEF Backs
      <4>4. <<m>> \in Seq(Stanzas) /\ NoneIn(<<m>>, Backs)
        BY <4>3, SingleIn
      <4> QED
        BY <4>1, <4>2, <4>4
    <3> QED
      BY <1>2, <3>1
  <2>4. conn'[o] = conn[o] /\ job'[o]["closer"] = job[o]["closer"]
    BY <1>0, <1>1 DEF Apathetic
  <2>5. Told(o)' => Told(o)
    BY <1>0, <2>3, <2>4, ToldKept
  <2> QED
    BY <1>0, <1>1, <1>2, <2>1, <2>2, <2>5, ReachedTo
<1>3. CASE Write(e) \/ Flush(e) \/ Close(e) \/ CloseTail(e) \/ CloseTimeout(e)
  <2>1. conn' = conn /\ got' = got /\ rpc' = rpc /\ chan' = chan
    BY <1>3 DEF Write, Flush, Close, CloseTail, CloseTimeout, appVars
  <2> QED
    BY <1>2, <2>1
<1>4. CASE CloseSet(e)
  <2>1. got' = got /\ rpc' = rpc /\ chan' = chan
    BY <1>4 DEF CloseSet, appVars
  <2>2. conn'[e] = [conn[e] EXCEPT !.closed = TRUE]
    BY <1>0, <1>4, CloseSetFacts
  <2>3. conn'[e].rbuf = conn[e].rbuf
    BY <1>0, <2>2, EndTypes DEF ConnType
  <2> QED
    BY <1>2, <2>1, <2>3
<1>5. CASE CloseNotify(e)
  <2>1. got' = got /\ rpc' = rpc
    BY <1>5 DEF CloseNotify, appVars
  <2>2. conn' = conn /\ \E m \in Stanzas : m.kind = "close" /\ SendsOne(e, m)
    BY <1>0, <1>5, CloseNotifyFacts
  <2> QED
    BY <1>2, <2>1, <2>2
<1>6. CASE CloseDone(e)
  <2>1. got' = got /\ chan' = chan /\ CloseReady(e, conn[e])
    BY <1>6 DEF CloseDone, appVars
  <2>2. conn'[e].rbuf = conn[e].rbuf
    BY <1>0, <1>6, CloseDoneFacts
  <2>3. rpc'[e] = "eof" => rpc[e] = "eof"
    BY <1>0, <2>1 DEF CloseReady
  <2> QED
    BY <1>2, <2>1, <2>2, <2>3
<1>7. ASSUME NEW r \in Roles, Lock(e, r)
      PROVE  Reached(o, e)'
  <2>1. got' = got /\ rpc' = rpc /\ chan' = chan
    BY <1>7 DEF Lock
  <2>2. Kept(e)
    BY <1>0, <1>7, LockFacts
  <2> QED
    BY <1>2, <2>1, <2>2 DEF Kept, Same
<1>8. ASSUME NEW r \in Roles, Answered(e, r) \/ Timeout(e, r)
      PROVE  Reached(o, e)'
  <2>1. got' = got /\ rpc' = rpc /\ chan' = chan
    BY <1>8 DEF Answered, Timeout
  <2>2. Kept(e)
    BY <1>0, <1>8, AnsweredFacts, TimeoutFacts DEF Breaks, Advances
  <2> QED
    BY <1>2, <2>1, <2>2 DEF Kept, Same
<1>9. ASSUME NEW r \in Roles, Send(e, r)
      PROVE  Reached(o, e)'
  <2>1. got' = got /\ rpc' = rpc
    BY <1>9 DEF Send
  <2>2. conn'[e].rbuf = conn[e].rbuf
    BY <1>0, <1>9, SendFacts DEF Breaks, Advances, Kept, Same
  <2>3. chan' = chan \/ \E m \in Stanzas : m.kind = "data" /\ SendsOne(e, m)
    BY <1>0, <1>9, SendFacts
  <2> QED
    BY <1>2, <2>1, <2>2, <2>3
<1>10. CASE Receive(e)
  <2>1. got' = got /\ conn' = conn /\ chan' = chan
    BY <1>10 DEF Receive, appVars
  <2>2. rpc'[e] # "eof"
    BY <1>0, <1>10 DEF Receive
  <2> QED
    BY <1>2, <2>1, <2>2
<1>11. CASE \E max \in Limits : SetReadBuffer(e, max)
  <2>1. PICK max \in Limits : SetReadBuffer(e, max)
    BY <1>11
  <2>2. conn'[e].rbuf = conn[e].rbuf
    BY <1>0, <2>1, SetReadBufferFacts
  <2>3. got' = got /\ rpc' = rpc /\ chan' = chan
    BY <2>1 DEF SetReadBuffer, appVars
  <2> QED
    BY <1>2, <2>2, <2>3
<1>12. CASE ServeAnswer(e)
  <2>1. got' = got /\ rpc' = rpc
    BY <1>0, <1>12, ServedBytes
  <2>2. conn' = conn /\ chan'[o] = chan[o] \o <<>>
    BY <1>0, <1>12, ServeAnswerFacts DEF Takes
  <2>3. chan'[o] = chan[o]
    BY <1>0, <2>2
  <2> QED
    BY <1>2, <2>1, <2>2, <2>3
<1> QED
  BY <1>3, <1>4, <1>5, <1>6, <1>7, <1>8, <1>9, <1>10, <1>11, <1>12

\* The goroutine that reads, and Serve, at e: an end that is reported before
\* the close of o was answered is an end with nothing left to read.
LEMMA ReadsReached ==
    ASSUME BaseInv, FlightInv, NEW o \in Ends, NEW e \in Ends, o = Other(e), e = Other(o),
           Awake(e), Reached(o, e),
           Read(e) \/ handlePayload(e) \/ HandleClose(e) \/ closeNoNotify(e)
    PROVE  Reached(o, e)'
<1>0. /\ TypeInv /\ "closer" \in Roles /\ o # e /\ DOMAIN rpc = Ends
      /\ chan[o] \in Seq(Stanzas) /\ chan[e] \in Seq(Stanzas)
  BY OtherEnd, ByteTypes DEF BaseInv, Roles, TypeInv, RestTypes
<1>1. Apathetic(o) /\ params' = params
  BY <1>0, OneEnd
<1>2. conn'[o] = conn[o] /\ job'[o]["closer"] = job[o]["closer"]
  BY <1>0, <1>1 DEF Apathetic
<1>3. PICK a \in Nat : a = Len(Arr(e))
  BY <1>0, ReachedTypes
<1>4. PICK g \in Nat : g = Len(got[e])
  BY <1>0, ReachedTypes
<1>5. a >= a /\ g >= g
  BY <1>3, <1>4
<1>6. CASE Read(e)
  <2>1. Arr(e)' = Arr(e) /\ chan' = chan /\ Len(got'[e]) >= Len(got[e])
    BY <1>0, <1>6, ReadBytes, ReadFacts
  <2>2. got'[e] \in Bytes
    BY <1>0, <1>6, ReadFacts DEF TypeInv, RestTypes
  <2>3. Len(got'[e]) \in Nat
    BY <2>2 DEF Bytes
  <2>4. rpc'[e] = "eof" => conn[e].rbuf = <<>>
    BY <1>0, <1>6, ReadBytes
  <2>5. Told(o)' => Told(o)
    BY <1>0, <1>2, <2>1, ToldKept
  <2> QED
    BY <1>0, <1>1, <1>3, <1>5, <2>1, <2>3, <2>4, <2>5, ReachedTo
<1>7. CASE handlePayload(e)
  <2>1. got' = got /\ chan[e] # <<>> /\ IsData(Head(chan[e]))
    BY <1>0, <1>7, PayloadBytes
  <2>2. PICK ms \in Seq(Answers) : Takes(e, ms) /\ Echoes(ms, Head(chan[e]))
    BY <1>0, <1>7, PayloadFacts
  <2>3. rpc'[e] = "eof" => rpc[e] = "eof"
    BY <1>0, <1>7, PayloadBytes DEF Signal
  <2>4. \/ conn'[e].rbuf = conn[e].rbuf
        \/ conn'[e].rbuf = conn[e].rbuf \o Head(chan[e]).bytes
    BY <1>0, <1>7, PayloadBytes
  <2>5. Len(Arr(e)') \in Nat /\ Len(Arr(e)') >= a
    <3>1. /\ got[e] \in Bytes /\ conn[e].rbuf \in Bytes /\ Head(chan[e]).bytes \in Bytes
      <4>1. Head(chan[e]) \in Stanzas
        BY <1>0, <2>1, HeadTailProperties
      <4> QED
        BY <1>0, <4>1, ByteTypes DEF Stanzas, StanzaType
    <3>2. CASE conn'[e].rbuf = conn[e].rbuf
      <4>1. Arr(e)' = Arr(e)
        BY <2>1, <3>2, ArrSame
      <4> QED
        BY <1>3, <1>5, <4>1
    <3>3. CASE conn'[e].rbuf = conn[e].rbuf \o Head(chan[e]).bytes
      <4>1. Arr(e)' = Arr(e) \o Head(chan[e]).bytes
        <5>1. (got[e] \o conn[e].rbuf) \o Head(chan[e]).bytes = got[e] \o (conn[e].rbuf \o Head(chan[e]).bytes)
          BY <3>1, Regrouped
        <5>2. Arr(e)' = got'[e] \o conn'[e].rbuf /\ Arr(e) = got[e] \o conn[e].rbuf
          BY DEF Arr
        <5>3. got'[e] \o conn'[e].rbuf = got[e] \o (conn[e].rbuf \o Head(chan[e]).bytes)
          BY <2>1, <3>3
        <5> QED
          BY <5>1, <5>2, <5>3
      <4>2. Arr(e) \in Bytes
        BY <1>0, ByteTypes
      <4>3. Len(Arr(e) \o Head(chan[e]).bytes) = Len(Arr(e)) + Len(Head(chan[e]).bytes)
        BY <3>1, <4>2, ConcatProperties DEF Bytes
      <4>4. PICK k \in Nat : k = Len(Head(chan[e]).bytes)
        BY <3>1 DEF Bytes
      <4>5. a + k \in Nat /\ a + k >= a
        BY <1>3, <4>4
      <4> QED
        BY <1>3, <4>1, <4>3, <4>4, <4>5
    <3> QED
      BY <2>4, <3>2, <3>3
  <2>6. Told(o)' => Told(o)
    <3>1. CASE CPc(o) = "closewait"
      <4>1. Flight("closewait", chan[e], chan[o])
        BY <3>1 DEF FlightInv
      <4>2. NoneIn(ms, Backs)
        BY <1>0, <2>1, <2>2, <4>1, AnswersOthers DEF IsData
      <4>3. ms \in Seq(Stanzas) /\ chan'[o] = chan[o] \o ms
        BY <2>2, AnswersPlain DEF Takes
      <4> QED
        BY <1>0, <1>2, <4>2, <4>3, ToldKept
    <3>2. CASE CPc(o) # "closewait"
      BY <1>2, <3>2 DEF Told, CPc
    <3> QED
      BY <3>1, <3>2
  <2> QED
    BY <1>0, <1>1, <1>3, <1>4, <1>5, <2>1, <2>3, <2>5, <2>6, ReachedTo
<1>8. ASSUME ~panic[e], got' = got, conn'[e].rbuf = conn[e].rbuf, rpc'[e] = "eof" => rpc[e] = "eof"
      PROVE  Reached(o, e)'
  <2>1. Arr(e)' = Arr(e)
    BY <1>8, ArrSame
  <2>2. CASE rpc[e] = "eof"
    <3>1. conn[e].rbuf = <<>>
      BY <1>8, <2>2 DEF Awake
    <3> QED
      BY <1>0, <1>1, <1>3, <1>4, <1>5, <1>8, <2>1, <3>1, ReachedTo
  <2>3. CASE rpc[e] # "eof"
    <3>1. Acked' = Acked /\ raced'[o] = raced[o] /\ flushed'[o] = flushed[o]
      BY <1>1 DEF Acked, Apathetic
    <3>2. CPc(o)' = CPc(o) /\ Promised(o)' = Promised(o)
      BY <1>2 DEF CPc, Promised
    <3> QED
      BY <1>2, <1>8, <2>1, <2>3, <3>1, <3>2 DEF Reached
  <2> QED
    BY <2>2, <2>3
<1>9. CASE HandleClose(e)
  <2>1. ~panic[e] /\ got' = got /\ conn' = conn /\ rpc' = rpc
    BY <1>9 DEF HandleClose, Serving, appVars
  <2> QED
    BY <1>8, <2>1
<1>10. CASE closeNoNotify(e)
  <2>0. chan[e] # <<>>
    BY <1>10 DEF BaseInv, HeadInv, closeNoNotify
  <2>1. ~panic[e] /\ got' = got /\ (rpc' = rpc \/ \E c : CloseReady(e, c))
    BY <1>10 DEF closeNoNotify, appVars
  <2>2. conn'[e].rbuf = conn[e].rbuf
    BY <1>0, <1>10, <2>0, CloseNoNotifyFacts
  <2>3. rpc'[e] = "eof" => rpc[e] = "eof"
    BY <1>0, <2>1 DEF CloseReady
  <2> QED
    BY <1>8, <2>1, <2>2, <2>3
<1> QED
  BY <1>6, <1>7, <1>9, <1>10

----------------------------------------------------------------------------
(* The end of the stream.                                                  *)

\* Every step keeps it, in both directions.
LEMMA ReachedStep ==
    ASSUME BaseInv, SeqInv, FlightInv, CarriedInv, AwakeInv, AmountInv, ReachedInv, Next
    PROVE  ReachedInv'
<1>1. PICK e \in Ends :
        \/ Write(e) \/ Flush(e)
        \/ Close(e) \/ CloseSet(e) \/ CloseTail(e) \/ CloseNotify(e) \/ CloseTimeout(e)
        \/ CloseDone(e)
        \/ \E r \in Roles : Lock(e, r) \/ Send(e, r) \/ Answered(e, r) \/ Timeout(e, r)
        \/ Read(e) \/ Receive(e) \/ \E max \in Limits : SetReadBuffer(e, max)
        \/ handlePayload(e) \/ HandleClose(e) \/ closeNoNotify(e) \/ ServeAnswer(e)
  BY NextCases
<1>2. PICK o \in Ends : o = Other(e) /\ e = Other(o) /\ \A x \in Ends : x = e \/ x = o
  BY OtherEnd
<1>3. Carried(e) /\ Amount(e) /\ Awake(e) /\ Reached(e, o) /\ Reached(o, e)
  BY <1>2 DEF CarriedInv, AmountInv, AwakeInv, ReachedInv
<1>4. Reached(e, o)'
  BY <1>1, <1>2, <1>3, OwnReached, CloserReached, AnsweredReached DEF Roles
<1>5. Reached(o, e)'
  BY <1>1, <1>2, <1>3, WritesReached, ReadsReached
<1> QED
  BY <1>2, <1>4, <1>5 DEF ReachedInv

\* Nothing is written and nothing is closed at first.
LEMMA EndInit ==
    ASSUME Init
    PROVE  SolidInv /\ AwakeInv /\ AmountInv /\ ReachedInv
<1>1. \A e \in Ends : /\ written[e] = 0 /\ got[e] = <<>> /\ chan[e] = <<>> /\ rpc[e] = "idle"
                      /\ flushed[e] = 0 /\ conn[e].rbuf = <<>> /\ conn[e].ready /\ ~conn[e].handlerT
  BY DEF Init
<1>2. \A e \in Ends, r \in Roles : job[e][r].todo = <<>> /\ job[e][r].pc = "idle" /\ job[e][r].upTo = 0
  BY DEF Init
<1>3. Filled(<<>>) /\ Solid(<<>>)
  BY DEF Filled, Solid
<1>4. SolidInv
  BY <1>1, <1>2, <1>3 DEF SolidInv
<1>5. AwakeInv
  BY <1>1, <1>2 DEF AwakeInv, Awake, CPc, Early, Roles
<1>6. AmountInv
  BY <1>1, <1>2 DEF AmountInv, Amount, Tailing, CPc, Busy, Roles
<1>7. \A e \in Ends : Len(Arr(e)) = 0
  <2>1. <<>> \o <<>> = <<>> /\ Len(<<>>) = 0
    OBVIOUS
  <2>2. \A e \in Ends : Arr(e) = <<>>
    BY <1>1, <2>1 DEF Arr
  <2> QED
    BY <2>1, <2>2
<1>8. ReachedInv
  <2> SUFFICES ASSUME NEW e \in Ends PROVE Reached(e, Other(e))
    BY DEF ReachedInv
  <2>1. Other(e) \in Ends
    BY OtherEnd
  <2>2. CPc(e) \notin Ending /\ ~Told(e)
    BY <1>2 DEF CPc, Ending, Told, Roles
  <2> QED
    BY <1>1, <1>7, <2>1, <2>2 DEF Reached
<1> QED
  BY <1>4, <1>5, <1>6, <1>8

\* (Stuttering.)
LEMMA EndStutter ==
    ASSUME SolidInv, AwakeInv, AmountInv, ReachedInv, UNCHANGED vars
    PROVE  SolidInv' /\ AwakeInv' /\ AmountInv' /\ ReachedInv'
<1>1. /\ params' = params /\ conn' = conn /\ job' = job /\ rpc' = rpc /\ chan' = chan
      /\ written' = written /\ got' = got /\ panic' = panic /\ raced' = raced /\ flushed' = flushed
  BY DEF vars, appVars, ghostVars
<1>2. SolidInv'
  BY <1>1 DEF SolidInv
<1>3. AwakeInv'
  BY <1>1 DEF AwakeInv, Awake, CPc
<1>4. AmountInv'
  BY <1>1 DEF AmountInv, Amount, Tailing, CPc, Busy
<1>5. ReachedInv'
  BY <1>1 DEF ReachedInv, Reached, Told, CPc, Promised, Arr, Acked
<1> QED
  BY <1>2, <1>3, <1>4, <1>5

\* So the end is not reported early.
LEMMA EndComplete ==
    ASSUME TypeInv, AwakeInv, ReachedInv
    PROVE  EofIsComplete
<1> SUFFICES ASSUME NEW e \in Ends, rpc[e] = "eof"
             PROVE  conn[e].closed /\ (raced[Other(e)] \/ ~Acked \/ Len(got[e]) >= flushed[Other(e)])
  BY DEF EofIsComplete
<1>1. Other(e) \in Ends /\ Other(Other(e)) = e
  BY OtherEnd
<1>2. conn[e].closed
  BY DEF AwakeInv, Awake
<1>3. Reached(Other(e), e)
  BY <1>1 DEF ReachedInv
<1>4. raced[Other(e)] \/ ~Acked \/ flushed[Other(e)] <= Len(got[e])
  BY <1>3 DEF Reached
<1>5. Len(got[e]) \in Nat /\ flushed[Other(e)] \in Nat
  BY <1>1, ReachedTypes
<1> QED
  BY <1>2, <1>4, <1>5

\* Read (ibb/conn.go) reports io.EOF when it is woken and finds nothing, and
\* readReady is closed by this end's Close or by closeNoNotify for the other's:
\* so the connection is closed, and over IQs everything written before a Close
\* that returned nil has been read.  Close asks the other end to close only
\* when each block it flushed was answered, so all of it has arrived; the answer
\* to that is sent when the reads of the other end end, and a block that were to
\* come later would be a send on a closed channel.  The exception is again a
\* flush without the lock while a block is being written.
THEOREM EndOfStreamComplete == Spec => []EofIsComplete
<1> DEFINE Inv == /\ BaseInv /\ SeqInv /\ FlightInv /\ CarriedInv
                  /\ SolidInv /\ AwakeInv /\ AmountInv /\ ReachedInv
<1>1. Init => Inv
  BY BaseInit, SeqInit, CloseInit, CarriedInit, EndInit
<1>2. Inv /\ [Next]_vars => Inv'
  <2>1. ASSUME Inv, Next PROVE Inv'
    BY <2>1, BaseStep, SeqStep, FlightStep, CarriedStep, SolidStep, AwakeStep, AmountStep, ReachedStep
  <2>2. ASSUME Inv, UNCHANGED vars PROVE Inv'
    <3>1. FlightInv'
      BY <2>2 DEF FlightInv, CPc, vars
    <3> QED
      BY <2>2, <3>1, BaseStutter, SeqStutter, CarriedStutter, EndStutter DEF BaseInv
  <2> QED
    BY <2>1, <2>2
<1>3. Inv => EofIsComplete
  BY EndComplete DEF BaseInv
<1> QED
  BY <1>1, <1>2, <1>3, PTL DEF Spec
=============================================================================
