-------------------------- MODULE ExtensionsProofs --------------------------
(***************************************************************************)
(* Proofs about the handlers under Serve, for every number of goroutines   *)
(* and whatever they call.  Receipts, history and rooms are proved one by  *)
(* one: an action of another package stands aside, that is, it touches     *)
(* neither the goroutines in the package's calls, nor its stanzas, nor     *)
(* Serve while it is in one of its handlers.                               *)
(***************************************************************************)
EXTENDS Extensions, FiniteSetTheorems, SequenceTheorems, TLAPS

ReceiptPcs == {"make", "register", "transmit", "receipt", "forget", "closechan"}
HistoryPcs == {"next", "nextbreak", "work", "workbreak", "close"}
MucPcs == {"joinput", "joinwait", "leave", "leavewait"}
ListenerPcs == {"accept", "expect"}
Places == ReceiptPcs \cup HistoryPcs \cup MucPcs \cup ListenerPcs \cup {"idle"}
Stanzas ==
    {m \in [kind : {"received", "request", "archived", "fin", "available",
                    "unavailable", "presenceerror", "open"},
            who : Routines \cup {None}, n : Nat] :
        m.who \in Routines \/ m.kind \in {"request", "open"}}
Senders == [at : {"join", "leave", "wait", "error", "response", "end"}, to : Nat]
Helpers == {None, "query", "wait", "remove", "end"}

\* The types, of muc no more than is needed here.
CommonType ==
    /\ todo \in [Routines -> Seq(Ops)] /\ pc \in [Routines -> Places]
    /\ ctx \in [Routines -> BOOLEAN] /\ ret = [g \in Routines |-> ret[g]]
ServeType ==
    /\ inbox \in Seq(Stanzas) /\ panic \in BOOLEAN
    /\ DOMAIN serve = {"at", "who", "n"}
    /\ serve.at \in {"signal", "deliver"} => serve.who \in Routines
ReceiptsType ==
    receipts \in [sent : SUBSET Routines, closed : SUBSET Routines, made : Nat,
                  wire : SUBSET Routines, lost : SUBSET Routines, replied : Nat]
HistoryType ==
    history \in [tracked : SUBSET Routines, closed : SUBSET Routines,
                 helper : [Routines -> Helpers], sent : [Routines -> Nat],
                 got : [Routines -> Nat], failed : SUBSET Routines]
MucType ==
    /\ {"helper", "to", "addr"} \subseteq DOMAIN muc
    /\ muc.helper \in [Routines -> Seq(Senders)]
    /\ muc.to \in [Routines -> Nat] /\ muc.addr \in [Routines -> Nat]
ListenerType == "closed" \in DOMAIN listener /\ listener.closed \in BOOLEAN
Types == CommonType /\ ServeType /\ ReceiptsType /\ HistoryType /\ MucType /\ ListenerType

\* While a helper of muc has the response of an error, Serve waits for it to
\* be closed (room.go: the response is closed after the error was passed on).
ResponseInv ==
    \A g \in Routines : \A n \in DOMAIN muc.helper[g] :
        muc.helper[g][n].at = "response" => serve = [at |-> "response", who |-> g, n |-> n]

----------------------------------------------------------------------------
(* What the steps of a package leave alone.                                *)

\* The calls of a package, with its places and the operations that lead
\* there: a goroutine is as it was, or is in such a call before or after.
Calling(P, O) ==
    \A g \in Routines :
        \/ todo'[g] = todo[g] /\ pc'[g] = pc[g] /\ ctx'[g] = ctx[g] /\ ret'[g] = ret[g]
        \/ /\ pc[g] \in P \cup {"idle"} /\ pc'[g] \in P \cup {"idle"}
           /\ \/ todo'[g] = todo[g]
              \/ todo[g] # <<>> /\ Head(todo[g]) \in O /\ todo'[g] = Tail(todo[g])
\* Stanzas of the kinds K are put in or taken out of the inbox.
Moving(K) ==
    \/ inbox' = inbox
    \/ inbox # <<>> /\ Head(inbox).kind \in K /\ inbox' = Tail(inbox)
    \/ \E m \in Stanzas : m.kind \in K /\ inbox' = Append(inbox, m)
\* Serve is in one of the handlers of the package, before and after.
Handling(A) ==
    \/ serve' = serve
    \/ serve.at \in A \cup {"loop"} /\ serve'.at \in A \cup {"loop"}
NotEnded == \A g \in Routines : ret'[g] = "end" => ret[g] = "end"

\* A call, a step inside one and a return touch one goroutine.
LEMMA CallsEffect ==
    ASSUME CommonType, NEW g \in Routines, NEW op \in Ops, NEW l \in Places,
           Calls(g, op, l)
    PROVE  /\ CommonType' /\ NotEnded /\ ~panic
           /\ pc[g] = "idle" /\ pc'[g] = l /\ ctx'[g] = FALSE /\ ret'[g] = None
           /\ todo[g] # <<>> /\ Head(todo[g]) = op /\ todo'[g] = Tail(todo[g])
           /\ \A x \in Routines : x # g => /\ todo'[x] = todo[x] /\ pc'[x] = pc[x]
                                           /\ ctx'[x] = ctx[x] /\ ret'[x] = ret[x]
<1>1. todo[g] \in Seq(Ops) /\ todo[g] # <<>>
  BY DEF CommonType, Calls
<1>2. Tail(todo[g]) \in Seq(Ops)
  BY <1>1
<1>3. CommonType'
  BY <1>2 DEF CommonType, Calls
<1>4. /\ pc[g] = "idle" /\ pc'[g] = l /\ ctx'[g] = FALSE /\ ret'[g] = None
      /\ Head(todo[g]) = op /\ todo'[g] = Tail(todo[g]) /\ ~panic
      /\ \A x \in Routines : x # g => /\ todo'[x] = todo[x] /\ pc'[x] = pc[x]
                                      /\ ctx'[x] = ctx[x] /\ ret'[x] = ret[x]
  BY DEF CommonType, Calls, At
<1>5. NotEnded
  BY <1>4 DEF NotEnded, None
<1> QED
  BY <1>1, <1>3, <1>4, <1>5

\* (A step inside a call.)
LEMMA GoesEffect ==
    ASSUME CommonType, NEW g \in Routines, NEW l \in Places, Goes(g, l), pc[g] # "idle"
    PROVE  /\ CommonType' /\ pc'[g] = l /\ UNCHANGED <<todo, ctx, ret>>
           /\ \A x \in Routines : x # g => pc'[x] = pc[x]
BY DEF CommonType, Goes

\* (A return.)
LEMMA ReturnsEffect ==
    ASSUME CommonType, NEW g, NEW r, Returns(g, r)
    PROVE  /\ CommonType' /\ UNCHANGED <<todo, ctx>>
           /\ g \in Routines => pc'[g] = "idle" /\ ret'[g] = r
           /\ \A x \in Routines : x # g => pc'[x] = pc[x] /\ ret'[x] = ret[x]
BY DEF CommonType, Returns, Places

\* The inbox stays one of stanzas.
LEMMA MovingType ==
    ASSUME inbox \in Seq(Stanzas), NEW K, Moving(K)
    PROVE  inbox' \in Seq(Stanzas)
<1>1. CASE inbox # <<>> /\ inbox' = Tail(inbox)
  BY <1>1
<1>2. CASE \E m \in Stanzas : inbox' = Append(inbox, m)
  BY <1>2
<1> QED
  BY <1>1, <1>2 DEF Moving

----------------------------------------------------------------------------
(* Multi-user chat.                                                        *)

MucOps == {"join", "rejoin", "rename", "leave"}
MucKinds == {"available", "unavailable", "presenceerror"}
MucEffect ==
    /\ CommonType' /\ ServeType' /\ MucType' /\ ResponseInv'
    /\ Calling(MucPcs, MucOps) /\ Moving(MucKinds) /\ Handling({"join", "response"})
    /\ NotEnded /\ panic' = panic /\ ~panic /\ UNCHANGED <<receipts, history, listener>>

\* What the calls of muc do to the queue and the addresses leaves the helpers
\* alone; a new helper has not got a response.
LEMMA MucFields ==
    ASSUME MucType, ResponseInv, serve' = serve, MucType',
           \A g \in Routines :
              \/ muc'.helper[g] = muc.helper[g]
              \/ \E h \in Senders : h.at # "response" /\ muc'.helper[g] = Append(muc.helper[g], h)
    PROVE  ResponseInv'
<1> SUFFICES ASSUME NEW g \in Routines, NEW n \in DOMAIN muc'.helper[g],
                    muc'.helper[g][n].at = "response"
             PROVE  serve = [at |-> "response", who |-> g, n |-> n]
  BY DEF ResponseInv
<1>1. muc.helper[g] \in Seq(Senders)
  BY DEF MucType
<1>2. n \in DOMAIN muc.helper[g] /\ muc.helper[g][n].at = "response"
  <2>1. CASE muc'.helper[g] = muc.helper[g]
    BY <2>1
  <2>2. ASSUME NEW h \in Senders, h.at # "response", muc'.helper[g] = Append(muc.helper[g], h)
        PROVE  n \in DOMAIN muc.helper[g] /\ muc.helper[g][n].at = "response"
    BY <1>1, <2>2
  <2> QED
    BY <2>1, <2>2
<1> QED
  BY <1>2 DEF ResponseInv

\* Join, Leave and their selects.
LEMMA MucCallEffect ==
    ASSUME Types, ResponseInv, NEW g \in Routines, MucCall(g)
    PROVE  MucEffect
<1> USE DEF MucPcs
<1>1. CommonType /\ MucType /\ ServeType
  BY DEF Types
<1>2. UNCHANGED <<inbox, peer, serve, panic, receipts, history, listener>>
  BY DEF MucCall, ClientJoin, ChannelJoin, JoinQueue, LeavePresence, LeaveSelect,
         MucCancelled, notMuc
<1>3. CASE ClientJoin(g) \/ ChannelJoin(g) \/ LeavePresence(g)
  <2>1. PICK op \in MucOps, l \in {"joinput", "leave"} : Calls(g, op, l)
    BY <1>3 DEF ClientJoin, ChannelJoin, LeavePresence, MucOps
  <2>2. op \in Ops /\ l \in Places
    BY <2>1 DEF MucOps, Ops, Places
  <2>3. /\ CommonType' /\ NotEnded /\ ~panic
        /\ pc[g] = "idle" /\ pc'[g] = l
        /\ todo[g] # <<>> /\ Head(todo[g]) = op /\ todo'[g] = Tail(todo[g])
        /\ \A x \in Routines : x # g => /\ todo'[x] = todo[x] /\ pc'[x] = pc[x]
                                        /\ ctx'[x] = ctx[x] /\ ret'[x] = ret[x]
    BY <1>1, <2>1, <2>2, CallsEffect
  <2>4. Calling(MucPcs, MucOps)
    BY <2>1, <2>3 DEF Calling
  <2>5. MucType' /\ \A x \in Routines :
              \/ muc'.helper[x] = muc.helper[x]
              \/ \E h \in Senders : h.at # "response" /\ muc'.helper[x] = Append(muc.helper[x], h)
    <3>1. CASE ClientJoin(g) \/ ChannelJoin(g)
      <4>1. /\ DOMAIN muc' = DOMAIN muc /\ muc'.helper = muc.helper
            /\ muc'.to \in [Routines -> Nat] /\ muc'.addr \in [Routines -> Nat]
        <5>1. CASE ClientJoin(g)
          <6> DEFINE managed == [muc.managed EXCEPT ![<<g, 0>>] = g]
                     to == [muc.to EXCEPT ![g] = 0]
                     addr == [muc.addr EXCEPT ![g] = 0]
                     join == [muc.join EXCEPT ![g] = <<>>]
                     left == muc.left \ {g}
          <6>1. muc' = [muc EXCEPT !.managed = managed, !.to = to, !.addr = addr,
                                   !.join = join, !.left = left]
            BY <5>1 DEF ClientJoin
          <6>2. to \in [Routines -> Nat] /\ addr \in [Routines -> Nat]
            BY <1>1 DEF MucType
          <6> HIDE DEF managed, to, addr, join, left
          <6> QED
            BY <1>1, <6>1, <6>2 DEF MucType
        <5>2. CASE ChannelJoin(g)
          <6> DEFINE to == [muc.to EXCEPT ![g] = muc.addr[g]]
                     addr == [muc.addr EXCEPT ![g] = 1]
          <6>1. \/ muc' = [muc EXCEPT !.to = to]
                \/ muc' = [muc EXCEPT !.to = to, !.addr = addr]
            BY <5>2 DEF ChannelJoin
          <6>2. to \in [Routines -> Nat] /\ addr \in [Routines -> Nat]
            BY <1>1 DEF MucType
          <6> HIDE DEF to, addr
          <6> QED
            BY <1>1, <6>1, <6>2 DEF MucType
        <5> QED
          BY <3>1, <5>1, <5>2
      <4> QED
        BY <1>1, <4>1 DEF MucType
    <3>2. CASE LeavePresence(g)
      <4> DEFINE h == Sender("leave", muc.addr[g])
      <4>1. /\ DOMAIN muc' = DOMAIN muc /\ muc'.to = muc.to /\ muc'.addr = muc.addr
            /\ muc'.helper = [muc.helper EXCEPT ![g] = Append(@, h)]
        BY <1>1, <3>2 DEF LeavePresence, MucType
      <4>2. h \in Senders /\ h.at # "response"
        BY <1>1 DEF Sender, Senders, MucType
      <4> HIDE DEF h
      <4>3. Append(muc.helper[g], h) \in Seq(Senders)
        BY <1>1, <4>2 DEF MucType
      <4>4. MucType'
        BY <1>1, <4>1, <4>3 DEF MucType
      <4> QED
        BY <1>1, <4>1, <4>2, <4>4 DEF MucType
    <3> QED
      BY <1>3, <3>1, <3>2
  <2>6. ResponseInv'
    BY <1>1, <1>2, <2>5, MucFields
  <2> QED
    BY <1>1, <1>2, <2>3, <2>4, <2>5, <2>6 DEF MucEffect, Moving, Handling, ServeType
<1>4. CASE JoinQueue(g) /\ ~UNCHANGED muc
  <2> DEFINE h == Sender("join", muc.to[g])
  <2>1. /\ Goes(g, "joinwait") /\ pc[g] = "joinput" /\ ~panic
        /\ muc' = [muc EXCEPT !.join[g] = <<Number(g) + 1>>, !.helper[g] = Append(@, h)]
    BY <1>4 DEF JoinQueue, At
  <2>2. /\ CommonType' /\ pc'[g] = "joinwait" /\ UNCHANGED <<todo, ctx, ret>>
        /\ \A x \in Routines : x # g => pc'[x] = pc[x]
    BY <1>1, <2>1, GoesEffect DEF Places
  <2>3. Calling(MucPcs, MucOps) /\ NotEnded
    <3>1. Calling(MucPcs, MucOps)
      BY <2>1, <2>2 DEF Calling
    <3>2. NotEnded
      BY <1>1, <2>1, <2>2 DEF NotEnded
    <3> QED
      BY <3>1, <3>2
  <2>4. /\ DOMAIN muc' = DOMAIN muc /\ muc'.to = muc.to /\ muc'.addr = muc.addr
        /\ muc'.helper = [muc.helper EXCEPT ![g] = Append(@, h)]
    BY <1>1, <2>1 DEF MucType
  <2>5. h \in Senders /\ h.at # "response"
    BY <1>1 DEF Sender, Senders, MucType
  <2> HIDE DEF h
  <2>6. Append(muc.helper[g], h) \in Seq(Senders)
    BY <1>1, <2>5 DEF MucType
  <2>7. MucType'
    BY <1>1, <2>4, <2>6 DEF MucType
  <2>8. \A x \in Routines :
              \/ muc'.helper[x] = muc.helper[x]
              \/ \E k \in Senders : k.at # "response" /\ muc'.helper[x] = Append(muc.helper[x], k)
    BY <1>1, <2>4, <2>5 DEF MucType
  <2>9. ResponseInv'
    BY <1>1, <1>2, <2>7, <2>8, MucFields
  <2> QED
    BY <1>1, <1>2, <2>1, <2>2, <2>3, <2>7, <2>9 DEF MucEffect, Moving, Handling, ServeType
<1>5. CASE (JoinQueue(g) /\ UNCHANGED muc) \/ LeaveSelect(g) \/ MucCancelled(g)
  <2>1. /\ ~panic /\ pc[g] \in {"joinput", "joinwait", "leave", "leavewait"}
        /\ Returns(g, "err") \/ Goes(g, "leavewait") \/ Goes(g, "joinwait")
        /\ UNCHANGED muc \/ \E late : muc' = [muc EXCEPT !.late = late]
    BY <1>5 DEF JoinQueue, LeaveSelect, MucCancelled, At
  <2>4. /\ DOMAIN muc' = DOMAIN muc /\ muc'.to = muc.to /\ muc'.addr = muc.addr
        /\ muc'.helper = muc.helper
    BY <1>1, <2>1 DEF MucType
  <2>5. MucType' /\ ResponseInv'
    BY <1>1, <1>2, <2>4 DEF MucType, ResponseInv
  <2>2. CASE Returns(g, "err")
    <3>1. /\ CommonType' /\ UNCHANGED <<todo, ctx>>
          /\ pc'[g] = "idle" /\ ret'[g] = "err"
          /\ \A x \in Routines : x # g => pc'[x] = pc[x] /\ ret'[x] = ret[x]
      BY <1>1, <2>2, ReturnsEffect
    <3>2. Calling(MucPcs, MucOps) /\ NotEnded
      BY <2>1, <3>1 DEF Calling, NotEnded
    <3> QED
      BY <1>1, <1>2, <2>1, <2>5, <3>1, <3>2 DEF MucEffect, Moving, Handling, ServeType
  <2>3. CASE Goes(g, "leavewait") \/ Goes(g, "joinwait")
    <3>1. PICK l \in {"leavewait", "joinwait"} : Goes(g, l)
      BY <2>3
    <3>2. /\ CommonType' /\ pc'[g] = l /\ UNCHANGED <<todo, ctx, ret>>
          /\ \A x \in Routines : x # g => pc'[x] = pc[x]
      BY <1>1, <2>1, <3>1, GoesEffect DEF Places
    <3>3. Calling(MucPcs, MucOps)
      BY <2>1, <3>1, <3>2 DEF Calling
    <3>4. NotEnded
      BY <3>2 DEF NotEnded
    <3> QED
      BY <1>1, <1>2, <2>1, <2>5, <3>1, <3>2, <3>3, <3>4
         DEF MucEffect, Moving, Handling, ServeType
  <2> QED
    BY <2>1, <2>2, <2>3
<1> QED
  BY <1>3, <1>4, <1>5 DEF MucCall

\* A helper that goes on is the only one that does.
LEMMA BecomesFields ==
    ASSUME MucType, NEW g, NEW n, NEW t \in {"wait", "error", "response", "end"}
    PROVE  LET m == Becomes(g, n, t) IN
           /\ DOMAIN m = DOMAIN muc /\ m.to = muc.to /\ m.addr = muc.addr
           /\ m.helper \in [Routines -> Seq(Senders)]
           /\ \A x \in Routines : /\ DOMAIN m.helper[x] = DOMAIN muc.helper[x]
                                  /\ \A k \in DOMAIN muc.helper[x] :
                                        m.helper[x][k].at = IF x = g /\ k = n THEN t
                                                            ELSE muc.helper[x][k].at
<1> DEFINE m == Becomes(g, n, t)
           q == muc.helper[g]
           r == [q EXCEPT ![n].at = t]
           h == [muc.helper EXCEPT ![g] = r]
<1>1. /\ m = [muc EXCEPT !.helper = h]
      /\ DOMAIN m = DOMAIN muc /\ m.to = muc.to /\ m.addr = muc.addr /\ m.helper = h
  <2>1. m = [muc EXCEPT !.helper = h]
    BY DEF Becomes
  <2> HIDE DEF h, m
  <2> QED
    BY <2>1 DEF MucType
<1>2. CASE g \notin Routines
  <2>1. h = muc.helper
    BY <1>2 DEF MucType
  <2> QED
    BY <1>1, <1>2, <2>1 DEF MucType
<1>3. CASE g \in Routines
  <2>1. q \in Seq(Senders)
    BY <1>3 DEF MucType
  <2> HIDE DEF q
  <2>2. r \in Seq(Senders) /\ DOMAIN r = DOMAIN q
    <3>1. \A z \in Senders : [z EXCEPT !.at = t] \in Senders
      BY DEF Senders
    <3>2. \A k \in 1 .. Len(q) : q[k] \in Senders
      BY <2>1
    <3>3. DOMAIN q = 1 .. Len(q) /\ Len(q) \in Nat
      BY <2>1
    <3>4. r = [k \in 1 .. Len(q) |-> r[k]] /\ \A k \in 1 .. Len(q) : r[k] \in Senders
      BY <3>1, <3>2, <3>3
    <3>5. r \in [1 .. Len(q) -> Senders]
      BY <3>4
    <3>6. DOMAIN r = DOMAIN q
      OBVIOUS
    <3> HIDE DEF r
    <3>7. r \in UNION {[1 .. k -> Senders] : k \in Nat}
      BY <3>3, <3>5
    <3> QED
      BY <3>6, <3>7, SeqDef
  <2>3. \A k \in DOMAIN q : r[k].at = IF k = n THEN t ELSE q[k].at
    <3> SUFFICES ASSUME NEW k \in DOMAIN q PROVE r[k].at = IF k = n THEN t ELSE q[k].at
      OBVIOUS
    <3>1. q[k] \in Senders
      BY <2>1
    <3> QED
      BY <3>1 DEF Senders
  <2> HIDE DEF r
  <2>4. h \in [Routines -> Seq(Senders)] /\ h[g] = r
        /\ \A x \in Routines : x # g => h[x] = muc.helper[x]
    BY <1>3, <2>2 DEF MucType
  <2> HIDE DEF h, m
  <2> QED
    BY <1>1, <2>2, <2>3, <2>4 DEF q, m
<1> QED
  BY <1>2, <1>3

\* The response comes from Serve and goes back to it.
LEMMA HelperStep ==
    ASSUME MucType, ResponseInv, NEW g, NEW n, NEW t \in {"wait", "error", "response", "end"},
           DOMAIN muc' = DOMAIN muc, muc'.to = muc.to, muc'.addr = muc.addr,
           muc'.helper = Becomes(g, n, t).helper,
           \/ t # "response" /\ serve' = serve
           \/ t # "response" /\ g \in Routines /\ n \in DOMAIN muc.helper[g]
                /\ muc.helper[g][n].at = "response"
           \/ serve.at = "loop" /\ serve' = [at |-> "response", who |-> g, n |-> n]
    PROVE  MucType' /\ ResponseInv'
<1> DEFINE m == Becomes(g, n, t)
<1>1. /\ m.helper \in [Routines -> Seq(Senders)]
      /\ \A x \in Routines : /\ DOMAIN m.helper[x] = DOMAIN muc.helper[x]
                             /\ \A k \in DOMAIN muc.helper[x] :
                                   m.helper[x][k].at = IF x = g /\ k = n THEN t
                                                       ELSE muc.helper[x][k].at
  BY BecomesFields
<1>2. muc'.helper = m.helper
  OBVIOUS
<1> HIDE DEF m
<1>3. MucType'
  BY <1>1, <1>2 DEF MucType
<1>4. ASSUME NEW x \in Routines, NEW k \in DOMAIN muc'.helper[x],
             muc'.helper[x][k].at = "response"
      PROVE  serve' = [at |-> "response", who |-> x, n |-> k]
  <2>1. k \in DOMAIN muc.helper[x]
        /\ (IF x = g /\ k = n THEN t ELSE muc.helper[x][k].at) = "response"
    BY <1>1, <1>2, <1>4
  <2>2. CASE x = g /\ k = n
    BY <2>1, <2>2
  <2>3. CASE ~(x = g /\ k = n)
    <3>1. serve = [at |-> "response", who |-> x, n |-> k]
      BY <2>1, <2>3 DEF ResponseInv
    <3>2. serve.at = "response" /\ serve.who = x /\ serve.n = k
      BY <3>1
    <3>3. g \in Routines /\ n \in DOMAIN muc.helper[g] /\ muc.helper[g][n].at = "response"
            => serve.who = g /\ serve.n = n
      BY DEF ResponseInv
    <3> QED
      BY <2>3, <3>1, <3>2, <3>3
  <2> QED
    BY <2>2, <2>3
<1>5. ResponseInv'
  BY <1>4 DEF ResponseInv
<1> QED
  BY <1>3, <1>5

\* The goroutines of muc that send a presence.
LEMMA MucHelperEffect ==
    ASSUME Types, ResponseInv, NEW g \in Routines, MucHelper(g)
    PROVE  MucEffect
<1>1. CommonType /\ MucType /\ ServeType
  BY DEF Types
<1>2. PICK n \in DOMAIN muc.helper[g] :
            SendPresence(g, n) \/ Report(g, n) \/ HelperCancelled(g, n)
  BY DEF MucHelper
<1>3. n \in Nat /\ muc.helper[g][n] \in Senders
  BY <1>1 DEF MucType
<1>4. \A t \in {"wait", "error", "response", "end"} : LET m == Becomes(g, n, t) IN
         DOMAIN m = DOMAIN muc /\ m.to = muc.to /\ m.addr = muc.addr
  BY <1>1, BecomesFields
<1>5. CASE SendPresence(g, n)
  <2> DEFINE w == Becomes(g, n, "wait")
             late == IF Pending(g, n) THEN w.late ELSE w.late \cup {g}
             m == [w EXCEPT !.late = late]
             a == <<g, muc.helper[g][n].to>>
  <2>1. UNCHANGED <<common, serve, panic, receipts, history, listener>> /\ ~panic
    BY <1>5 DEF SendPresence, notMuc
  <2>2. /\ \/ muc' = Becomes(g, n, "error") \/ muc' = m
           \/ \E room : muc' = [m EXCEPT !.room = room]
        /\ \/ inbox' = inbox
           \/ inbox' = Append(inbox, Stanza("presenceerror", g, n))
           \/ inbox' = Append(inbox, Stanza("available", g, a[2]))
           \/ inbox' = Append(inbox, Stanza("unavailable", g, a[2]))
    BY <1>5 DEF SendPresence, Answers
  <2>3. a[2] \in Nat
    BY <1>3 DEF Senders
  <2>4. Moving(MucKinds)
    <3>1. \A k \in MucKinds, j \in Nat : Stanza(k, g, j) \in Stanzas /\ Stanza(k, g, j).kind = k
      BY DEF MucKinds, Stanza, Stanzas
    <3> QED
      BY <1>3, <2>2, <2>3, <3>1 DEF Moving, MucKinds
  <2>5. \E t \in {"wait", "error"} : /\ DOMAIN muc' = DOMAIN muc /\ muc'.to = muc.to
                                    /\ muc'.addr = muc.addr
                                    /\ muc'.helper = Becomes(g, n, t).helper
    <3>1. CASE muc' = Becomes(g, n, "error")
      BY <1>4, <3>1
    <3>2. /\ DOMAIN w = DOMAIN muc /\ w.to = muc.to /\ w.addr = muc.addr
          /\ {"helper", "to", "addr"} \subseteq DOMAIN w
      BY <1>1, <1>4 DEF MucType
    <3> HIDE DEF w, late
    <3>3. DOMAIN m = DOMAIN w /\ m.to = w.to /\ m.addr = w.addr /\ m.helper = w.helper
      BY <3>2
    <3>4. CASE muc' = m
      BY <3>2, <3>3, <3>4 DEF w
    <3> HIDE DEF m
    <3>5. ASSUME NEW room, muc' = [m EXCEPT !.room = room]
          PROVE  /\ DOMAIN muc' = DOMAIN muc /\ muc'.to = muc.to
                 /\ muc'.addr = muc.addr /\ muc'.helper = w.helper
      BY <3>2, <3>3, <3>5
    <3> QED
      BY <2>2, <3>1, <3>4, <3>5 DEF m, w
  <2>6. MucType' /\ ResponseInv'
    <3>1. PICK t \in {"wait", "error"} :
                 /\ DOMAIN muc' = DOMAIN muc /\ muc'.to = muc.to
                 /\ muc'.addr = muc.addr
                 /\ muc'.helper = Becomes(g, n, t).helper
      BY <2>5
    <3> QED
      BY <1>1, <2>1, <3>1, HelperStep
  <2>7. inbox' \in Seq(Stanzas)
    BY <1>1, <2>4, MovingType DEF ServeType
  <2> QED
    BY <1>1, <2>1, <2>4, <2>6, <2>7
       DEF MucEffect, Calling, Handling, NotEnded, common, CommonType, ServeType
<1>6. CASE Report(g, n)
  <2>1. /\ UNCHANGED <<inbox, panic, receipts, history, listener>> /\ ~panic
        /\ muc' = Becomes(g, n, "end")
        /\ (muc.helper[g][n].at = "response" /\ serve' = Loop) \/ serve' = serve
        /\ (pc[g] \in InCall /\ Returns(g, "err")) \/ UNCHANGED common
    BY <1>6 DEF Report, notMuc, Pending
  <2>2. MucType' /\ ResponseInv'
    BY <1>1, <1>2, <1>4, <2>1, HelperStep
  <2>3. muc.helper[g][n].at = "response" => serve.at = "response"
    <3>1. muc.helper[g][n].at = "response" => serve = [at |-> "response", who |-> g, n |-> n]
      BY DEF ResponseInv
    <3> QED
      BY <3>1
  <2>4. Handling({"join", "response"}) /\ ServeType'
    BY <1>1, <2>1, <2>3 DEF Handling, Loop, ServeType
  <2>5. CommonType' /\ Calling(MucPcs, MucOps) /\ NotEnded
    <3>1. CASE UNCHANGED common
      BY <1>1, <3>1 DEF common, CommonType, Calling, NotEnded
    <3>2. CASE pc[g] \in InCall /\ Returns(g, "err")
      <4>1. /\ CommonType' /\ UNCHANGED <<todo, ctx>>
            /\ pc'[g] = "idle" /\ ret'[g] = "err"
            /\ \A x \in Routines : x # g => pc'[x] = pc[x] /\ ret'[x] = ret[x]
        BY <1>1, <3>2, ReturnsEffect
      <4> QED
        BY <3>2, <4>1 DEF Calling, NotEnded, InCall, MucPcs
    <3> QED
      BY <2>1, <3>1, <3>2
  <2> QED
    BY <2>1, <2>2, <2>4, <2>5 DEF MucEffect, Moving
<1>7. CASE HelperCancelled(g, n)
  <2>1. /\ UNCHANGED <<common, inbox, serve, panic, receipts, history, listener>>
        /\ ~panic /\ muc' = Becomes(g, n, "end")
    BY <1>7 DEF HelperCancelled, notMuc
  <2>2. MucType' /\ ResponseInv'
    BY <1>1, <1>4, <2>1, HelperStep
  <2> QED
    BY <1>1, <2>1, <2>2
       DEF MucEffect, Calling, Moving, Handling, NotEnded, common, CommonType, ServeType
<1> QED
  BY <1>2, <1>5, <1>6, <1>7

\* The room: presences it sends of its own accord.
LEMMA MucPeerEffect ==
    ASSUME Types, ResponseInv, MucPeer
    PROVE  MucEffect
<1>1. CommonType /\ MucType /\ ServeType
  BY DEF Types
<1>2. PICK g \in Routines, a \in Nicks :
        /\ ~panic /\ UNCHANGED <<common, serve, panic, receipts, history, listener>>
        /\ \/ Sends(Stanza("available", g, a)) /\ UNCHANGED muc
           \/ /\ Sends(Stanza("unavailable", g, a))
              /\ muc' = [muc EXCEPT !.room[<<g, a>>] = "out", !.kicked = @ \cup {g}]
  BY DEF MucPeer, RoomPresence, notMuc
<1>3. Moving(MucKinds)
  <2>1. \A k \in MucKinds : Stanza(k, g, a) \in Stanzas /\ Stanza(k, g, a).kind = k
    BY DEF MucKinds, Stanza, Stanzas, Nicks
  <2> QED
    BY <1>2, <2>1 DEF Moving, Sends, MucKinds
<1>4. /\ DOMAIN muc' = DOMAIN muc /\ muc'.to = muc.to /\ muc'.addr = muc.addr
      /\ muc'.helper = muc.helper
  BY <1>1, <1>2 DEF MucType
<1>5. MucType' /\ ResponseInv'
  BY <1>1, <1>2, <1>4 DEF MucType, ResponseInv
<1>6. inbox' \in Seq(Stanzas)
  BY <1>1, <1>3, MovingType DEF ServeType
<1> QED
  BY <1>1, <1>2, <1>3, <1>5, <1>6
     DEF MucEffect, Calling, Handling, NotEnded, common, CommonType, ServeType

\* HandlePresence and the responses that are errors, with what they wait for.
LEMMA MucServeEffect ==
    ASSUME Types, ResponseInv, MucServe
    PROVE  MucEffect
<1>1. CommonType /\ MucType /\ ServeType
  BY DEF Types
<1>2. ASSUME serve.at # "response", {"helper", "to", "addr"} \subseteq DOMAIN muc',
             muc'.helper = muc.helper, muc'.to = muc.to, muc'.addr \in [Routines -> Nat]
      PROVE  MucType' /\ ResponseInv'
  <2>1. \A g \in Routines : \A n \in DOMAIN muc.helper[g] : muc.helper[g][n].at # "response"
    <3> SUFFICES ASSUME NEW g \in Routines, NEW n \in DOMAIN muc.helper[g],
                        muc.helper[g][n].at = "response"
                 PROVE  FALSE
      OBVIOUS
    <3>1. serve = [at |-> "response", who |-> g, n |-> n]
      BY DEF ResponseInv
    <3> QED
      BY <1>2, <3>1
  <2> QED
    BY <1>1, <1>2, <2>1 DEF MucType, ResponseInv
<1>3. ASSUME NEW g, SelectJoin(g)
      PROVE  /\ serve'.at \in {"join", "loop"} /\ DOMAIN serve' = {"at", "who", "n"}
             /\ {"helper", "to", "addr"} \subseteq DOMAIN muc'
             /\ muc'.helper = muc.helper /\ muc'.to = muc.to
             /\ muc'.addr \in [Routines -> Nat]
  <2>1. \/ serve' = Loop /\ muc' = [muc EXCEPT !.seen = 1]
        \/ /\ serve' = [at |-> "join", who |-> g, n |-> Head(muc.join[g])]
           /\ \E join : muc' = [muc EXCEPT !.join = join]
    BY <1>3 DEF SelectJoin, Held
  <2>2. serve'.at \in {"join", "loop"} /\ DOMAIN serve' = {"at", "who", "n"}
    BY <2>1 DEF Loop
  <2>3. /\ DOMAIN muc' = DOMAIN muc /\ muc'.addr = muc.addr
        /\ muc'.helper = muc.helper /\ muc'.to = muc.to
    BY <1>1, <2>1 DEF MucType
  <2> QED
    BY <1>1, <2>2, <2>3 DEF MucType
<1>4. CASE HandleAvailable
  <2>1. /\ ~panic /\ serve = Loop /\ inbox # <<>> /\ Head(inbox).kind = "available"
        /\ inbox' = Tail(inbox)
        /\ UNCHANGED <<common, panic, receipts, history, listener>>
        /\ (serve' = serve /\ muc' = muc) \/ \E g : SelectJoin(g)
    BY <1>4 DEF HandleAvailable, Takes, InLoop, notMuc
  <2>2. Moving(MucKinds)
    BY <2>1 DEF Moving, MucKinds
  <2>3. inbox' \in Seq(Stanzas)
    BY <1>1, <2>2, MovingType DEF ServeType
  <2>4. serve.at = "loop"
    BY <2>1 DEF Loop
  <2>5. /\ serve'.at \in {"join", "loop"} /\ DOMAIN serve' = {"at", "who", "n"}
        /\ {"helper", "to", "addr"} \subseteq DOMAIN muc'
        /\ muc'.helper = muc.helper /\ muc'.to = muc.to
        /\ muc'.addr \in [Routines -> Nat]
    BY <1>1, <1>3, <2>1, <2>4 DEF MucType, ServeType
  <2>6. MucType' /\ ResponseInv'
    BY <1>2, <2>4, <2>5
  <2>7. ServeType' /\ Handling({"join", "response"})
    BY <1>1, <2>1, <2>3, <2>4, <2>5 DEF ServeType, Handling
  <2> QED
    BY <1>1, <2>1, <2>2, <2>6, <2>7 DEF MucEffect, Calling, NotEnded, common, CommonType
<1>5. CASE GiveJoin
  <2> DEFINE g == serve.who
  <2>1. /\ ~panic /\ serve.at = "join" /\ UNCHANGED <<inbox, panic, receipts, history, listener>>
        /\ \/ /\ pc[g] \in InCall /\ Returns(g, "joined") /\ serve' = Loop
              /\ muc' = [muc EXCEPT !.addr[g] = 0]
           \/ SelectJoin(g) /\ UNCHANGED common
    BY <1>5 DEF GiveJoin, Serving, Pending, notMuc
  <2> HIDE DEF g
  <2>2. CASE SelectJoin(g) /\ UNCHANGED common
    <3>1. MucType' /\ ResponseInv'
      BY <1>2, <1>3, <2>1, <2>2
    <3>2. ServeType' /\ Handling({"join", "response"})
      BY <1>1, <1>3, <2>1, <2>2 DEF ServeType, Handling
    <3> QED
      BY <1>1, <2>1, <2>2, <3>1, <3>2
         DEF MucEffect, Calling, Moving, NotEnded, common, CommonType
  <2>3. CASE /\ pc[g] \in InCall /\ Returns(g, "joined") /\ serve' = Loop
             /\ muc' = [muc EXCEPT !.addr[g] = 0]
    <3>1. /\ {"helper", "to", "addr"} \subseteq DOMAIN muc'
          /\ muc'.helper = muc.helper /\ muc'.to = muc.to
          /\ muc'.addr \in [Routines -> Nat]
      BY <1>1, <2>3 DEF MucType
    <3>2. MucType' /\ ResponseInv'
      BY <1>2, <2>1, <3>1
    <3>3. ServeType' /\ Handling({"join", "response"})
      BY <1>1, <2>1, <2>3 DEF ServeType, Handling, Loop
    <3>4. /\ CommonType' /\ UNCHANGED <<todo, ctx>>
          /\ g \in Routines => pc'[g] = "idle" /\ ret'[g] = "joined"
          /\ \A x \in Routines : x # g => pc'[x] = pc[x] /\ ret'[x] = ret[x]
      BY <1>1, <2>3, ReturnsEffect
    <3>5. Calling(MucPcs, MucOps) /\ NotEnded
      BY <2>3, <3>4 DEF Calling, NotEnded, InCall, MucPcs
    <3> QED
      BY <2>1, <3>2, <3>3, <3>4, <3>5 DEF MucEffect, Moving
  <2> QED
    BY <2>1, <2>2, <2>3
<1>6. CASE HandleUnavailable
  <2> DEFINE g == muc.managed[<<Head(inbox).who, Head(inbox).n>>]
             key == DepartKey(g)
  <2>1. /\ ~panic /\ serve = Loop /\ inbox # <<>> /\ Head(inbox).kind = "unavailable"
        /\ inbox' = Tail(inbox) /\ serve' = serve
        /\ UNCHANGED <<panic, receipts, history, listener>>
        /\ muc' = muc \/ muc' = [muc EXCEPT !.managed[key] = None, !.left = @ \cup {g}]
        /\ UNCHANGED common \/ (pc[g] = "leavewait" /\ Returns(g, "left"))
    BY <1>6 DEF HandleUnavailable, Takes, InLoop, notMuc
  <2> HIDE DEF g, key
  <2>2. Moving(MucKinds)
    BY <2>1 DEF Moving, MucKinds
  <2>3. inbox' \in Seq(Stanzas)
    BY <1>1, <2>2, MovingType DEF ServeType
  <2>4. /\ {"helper", "to", "addr"} \subseteq DOMAIN muc'
        /\ muc'.helper = muc.helper /\ muc'.to = muc.to
        /\ muc'.addr \in [Routines -> Nat]
    BY <1>1, <2>1 DEF MucType
  <2>5. MucType' /\ ResponseInv'
    BY <1>2, <2>1, <2>4 DEF Loop
  <2>6. CommonType' /\ Calling(MucPcs, MucOps) /\ NotEnded
    <3>1. CASE UNCHANGED common
      BY <1>1, <3>1 DEF common, CommonType, Calling, NotEnded
    <3>2. CASE pc[g] = "leavewait" /\ Returns(g, "left")
      <4>1. /\ CommonType' /\ UNCHANGED <<todo, ctx>>
            /\ g \in Routines => pc'[g] = "idle" /\ ret'[g] = "left"
            /\ \A x \in Routines : x # g => pc'[x] = pc[x] /\ ret'[x] = ret[x]
        BY <1>1, <3>2, ReturnsEffect
      <4> QED
        BY <3>2, <4>1 DEF Calling, NotEnded, MucPcs
    <3> QED
      BY <2>1, <3>1, <3>2
  <2> QED
    BY <1>1, <2>1, <2>2, <2>3, <2>5, <2>6 DEF MucEffect, Handling, ServeType
<1>7. CASE HandlePresenceError
  <2> DEFINE g == Head(inbox).who
             n == Head(inbox).n
  <2>1. /\ ~panic /\ serve = Loop /\ inbox # <<>> /\ Head(inbox).kind = "presenceerror"
        /\ inbox' = Tail(inbox)
        /\ UNCHANGED <<common, panic, receipts, history, listener>>
        /\ \/ muc' = Becomes(g, n, "response") /\ serve' = [at |-> "response", who |-> g, n |-> n]
           \/ muc' = muc /\ serve' = serve
    BY <1>7 DEF HandlePresenceError, Takes, InLoop, Held, notMuc
  <2> HIDE DEF g, n
  <2>2. Moving(MucKinds)
    BY <2>1 DEF Moving, MucKinds
  <2>3. inbox' \in Seq(Stanzas)
    BY <1>1, <2>2, MovingType DEF ServeType
  <2>4. serve.at = "loop"
    BY <2>1 DEF Loop
  <2>5. MucType' /\ ResponseInv'
    <3>1. CASE muc' = muc /\ serve' = serve
      BY <1>1, <3>1 DEF MucType, ResponseInv
    <3>2. CASE muc' = Becomes(g, n, "response") /\ serve' = [at |-> "response", who |-> g, n |-> n]
      <4>1. DOMAIN muc' = DOMAIN muc /\ muc'.to = muc.to /\ muc'.addr = muc.addr
        BY <1>1, <3>2, BecomesFields
      <4> QED
        BY <1>1, <2>4, <3>2, <4>1, HelperStep
    <3> QED
      BY <2>1, <3>1, <3>2
  <2>6. ServeType' /\ Handling({"join", "response"})
    BY <1>1, <2>1, <2>3, <2>4 DEF ServeType, Handling
  <2> QED
    BY <1>1, <2>1, <2>2, <2>5, <2>6 DEF MucEffect, Calling, NotEnded, common, CommonType
<1> QED
  BY <1>4, <1>5, <1>6, <1>7 DEF MucServe

----------------------------------------------------------------------------
(* In-band bytestreams that are accepted.                                  *)

ListenerOps == {"accept", "expect", "unlisten"}
ListenerEffect ==
    /\ CommonType' /\ ServeType' /\ ListenerType'
    /\ Calling(ListenerPcs, ListenerOps) /\ Moving({"open"}) /\ Handling({"accept", "expect"})
    /\ NotEnded /\ ~panic /\ (panic' => listener'.closed)
    /\ UNCHANGED <<receipts, muc, history>>

\* Accept, Expect and Close of the listener.
LEMMA ListenerCallEffect ==
    ASSUME Types, NEW g \in Routines, ListenerCall(g)
    PROVE  ListenerEffect
<1> USE DEF ListenerPcs
<1>1. CommonType /\ ListenerType /\ ServeType
  BY DEF Types
<1>2. UNCHANGED <<inbox, serve, receipts, muc, history>> /\ ~panic
  BY DEF ListenerCall, Accept, AcceptClosed, Expect, ExpectCancelled, CloseListener,
         notListener, Calls, At
<1>3. CASE Accept(g) \/ Expect(g) \/ CloseListener(g)
  <2>1. PICK op \in ListenerOps, l \in {"accept", "expect", "idle"} : Calls(g, op, l)
    BY <1>3 DEF Accept, Expect, CloseListener, ListenerOps
  <2>2. op \in Ops /\ l \in Places
    BY <2>1 DEF ListenerOps, Ops, Places
  <2>3. /\ CommonType' /\ NotEnded
        /\ pc[g] = "idle" /\ pc'[g] = l
        /\ todo[g] # <<>> /\ Head(todo[g]) = op /\ todo'[g] = Tail(todo[g])
        /\ \A x \in Routines : x # g => /\ todo'[x] = todo[x] /\ pc'[x] = pc[x]
                                        /\ ctx'[x] = ctx[x] /\ ret'[x] = ret[x]
    BY <1>1, <2>1, <2>2, CallsEffect
  <2>4. Calling(ListenerPcs, ListenerOps)
    BY <2>1, <2>3 DEF Calling
  <2>5. ListenerType' /\ (panic' => listener'.closed) /\ panic' \in BOOLEAN
    <3>1. CASE Accept(g) \/ Expect(g)
      <4>1. UNCHANGED panic
            /\ \/ listener' = listener
               \/ \E e, d : listener' = [listener EXCEPT !.expected = e, !.ended = d]
        BY <3>1 DEF Accept, Expect
      <4> QED
        BY <1>1, <1>2, <4>1 DEF ListenerType, ServeType
    <3>2. CASE CloseListener(g)
      BY <1>1, <3>2 DEF CloseListener, ListenerType
    <3> QED
      BY <1>3, <3>1, <3>2
  <2> QED
    BY <1>1, <1>2, <2>3, <2>4, <2>5 DEF ListenerEffect, Moving, Handling, ServeType
<1>4. CASE AcceptClosed(g) \/ ExpectCancelled(g)
  <2>1. /\ UNCHANGED <<listener, panic>> /\ pc[g] \in ListenerPcs /\ Returns(g, "err")
    BY <1>4 DEF AcceptClosed, ExpectCancelled, At
  <2>2. /\ CommonType' /\ UNCHANGED <<todo, ctx>>
        /\ pc'[g] = "idle" /\ ret'[g] = "err"
        /\ \A x \in Routines : x # g => pc'[x] = pc[x] /\ ret'[x] = ret[x]
    BY <1>1, <2>1, ReturnsEffect
  <2>3. Calling(ListenerPcs, ListenerOps) /\ NotEnded
    BY <2>1, <2>2 DEF Calling, NotEnded
  <2> QED
    BY <1>1, <1>2, <2>1, <2>2, <2>3
       DEF ListenerEffect, Moving, Handling, ServeType, ListenerType
<1> QED
  BY <1>3, <1>4 DEF ListenerCall

\* A peer that opens a stream, and handleOpen with what it waits for.
LEMMA ListenerServeEffect ==
    ASSUME Types, ListenerServe \/ PeerOpens
    PROVE  ListenerEffect
<1>1. CommonType /\ ListenerType /\ ServeType
  BY DEF Types
<1>2. CASE PeerOpens
  <2>1. PICK n \in 0 .. 1 : /\ ~panic /\ inbox' = Append(inbox, Stanza("open", None, n))
                            /\ UNCHANGED <<common, serve, panic, listener, receipts, muc, history>>
    BY <1>2 DEF PeerOpens, Sends, notListener
  <2>2. Stanza("open", None, n) \in Stanzas /\ Stanza("open", None, n).kind = "open"
    BY DEF Stanza, Stanzas
  <2>3. Moving({"open"})
    BY <2>1, <2>2 DEF Moving
  <2>4. inbox' \in Seq(Stanzas)
    BY <1>1, <2>3, MovingType DEF ServeType
  <2> QED
    BY <1>1, <2>1, <2>3, <2>4 DEF ListenerEffect, Calling, Handling, NotEnded, common,
       CommonType, ServeType, ListenerType
<1>3. CASE HandleOpen
  <2>1. /\ ~panic /\ serve = Loop /\ inbox # <<>> /\ Head(inbox).kind = "open"
        /\ inbox' = Tail(inbox) /\ UNCHANGED <<common, panic, receipts, muc, history>>
    BY <1>3 DEF HandleOpen, Takes, InLoop, notListener
  <2>2. Moving({"open"})
    BY <2>1 DEF Moving
  <2>3. inbox' \in Seq(Stanzas)
    BY <1>1, <2>2, MovingType DEF ServeType
  <2>4. /\ serve' = serve \/ (serve'.at \in {"accept", "expect"} /\ DOMAIN serve' = {"at", "who", "n"})
        /\ ListenerType'
    <3>1. \/ serve' = serve /\ listener' = listener
          \/ /\ serve' = [at |-> "expect", who |-> listener.expected, n |-> 0]
             /\ \E k : listener' = [listener EXCEPT !.streams = k, !.expected = None]
          \/ /\ serve' = [at |-> "accept", who |-> None, n |-> 0]
             /\ \E k : listener' = [listener EXCEPT !.streams = k]
      BY <1>3 DEF HandleOpen, Held
    <3>2. ListenerType'
      BY <1>1, <3>1 DEF ListenerType
    <3>3. serve' = serve \/ (serve'.at \in {"accept", "expect"} /\ DOMAIN serve' = {"at", "who", "n"})
      <4>1. CASE serve' = [at |-> "expect", who |-> listener.expected, n |-> 0]
        BY <4>1
      <4>2. CASE serve' = [at |-> "accept", who |-> None, n |-> 0]
        BY <4>2
      <4> QED
        BY <3>1, <4>1, <4>2
    <3> QED
      BY <3>2, <3>3
  <2>5. ServeType' /\ Handling({"accept", "expect"})
    BY <1>1, <2>1, <2>3, <2>4 DEF ServeType, Handling, Loop
  <2> QED
    BY <1>1, <2>1, <2>2, <2>4, <2>5
       DEF ListenerEffect, Calling, NotEnded, common, CommonType, ServeType
<1>4. CASE GiveExpect \/ GiveAccept
  <2>1. /\ ~panic /\ serve.at \in {"accept", "expect"} /\ serve' = Loop
        /\ UNCHANGED <<inbox, panic, listener, receipts, muc, history>>
        /\ \E g : pc[g] \in ListenerPcs /\ Returns(g, "conn")
    BY <1>4 DEF GiveExpect, GiveAccept, Serving, At, ListenerPcs, notListener
  <2>2. PICK g : pc[g] \in ListenerPcs /\ Returns(g, "conn")
    BY <2>1
  <2>3. /\ CommonType' /\ UNCHANGED <<todo, ctx>>
        /\ g \in Routines => pc'[g] = "idle" /\ ret'[g] = "conn"
        /\ \A x \in Routines : x # g => pc'[x] = pc[x] /\ ret'[x] = ret[x]
    BY <1>1, <2>2, ReturnsEffect
  <2>4. Calling(ListenerPcs, ListenerOps) /\ NotEnded
    BY <2>2, <2>3 DEF Calling, NotEnded
  <2>5. ServeType' /\ Handling({"accept", "expect"})
    BY <1>1, <2>1 DEF ServeType, Handling, Loop
  <2> QED
    BY <1>1, <2>1, <2>3, <2>4, <2>5 DEF ListenerEffect, Moving, ListenerType
<1> QED
  BY <1>2, <1>3, <1>4 DEF ListenerServe

----------------------------------------------------------------------------
(* Receipts.                                                               *)

ReceiptOps == {"message"}
ReceiptsEffect ==
    /\ CommonType' /\ ServeType' /\ ReceiptsType'
    /\ Calling(ReceiptPcs, ReceiptOps) /\ Moving({"received", "request"}) /\ Handling({"signal"})
    /\ NotEnded /\ ~panic /\ UNCHANGED <<muc, history, listener>>

NoneOf(calls, ops) == \A i \in DOMAIN calls : calls[i] \notin ops
For(l, g) == serve.at = l /\ serve.who = g

\* A goroutine closes its channel only once its context is done, the entry is
\* out of the map and it sends no other message, so that nobody finds the
\* channel afterwards.
Channel(g) ==
    /\ pc[g] \in {"forget", "closechan"} => ctx[g]
    /\ pc[g] = "closechan" => g \notin receipts.sent
    /\ pc[g] \in ReceiptPcs \/ g \in receipts.closed => NoneOf(todo[g], ReceiptOps)
    /\ g \in receipts.closed => g \notin receipts.sent /\ pc[g] \notin ReceiptPcs
    /\ g \in receipts.closed => panic \/ ~For("signal", g)
    /\ Once(todo[g], ReceiptOps)
\* As long as there is one map, a goroutine that waits for its receipt is in
\* it or is being handed the receipt.
Registered(g) ==
    /\ pc[g] \in {"register", "transmit", "receipt"} => receipts.made >= 1
    /\ receipts.made <= 1 /\ pc[g] \in {"transmit", "receipt"}
         => g \in receipts.sent \/ For("signal", g)
ReceiptInv == (\A g \in Routines : Channel(g) /\ Registered(g)) /\ ReceiptFound

\* The calls that are left after one was made.
LEMMA TailOnce ==
    ASSUME NEW q \in Seq(Ops), q # <<>>, NEW S
    PROVE  /\ Once(q, S) => Once(Tail(q), S) /\ (Head(q) \in S => NoneOf(Tail(q), S))
           /\ NoneOf(q, S) => NoneOf(Tail(q), S) /\ Head(q) \notin S
<1>1. /\ Head(q) = q[1] /\ 1 \in DOMAIN q
      /\ \A i \in DOMAIN Tail(q) : i + 1 \in DOMAIN q /\ Tail(q)[i] = q[i + 1] /\ i + 1 # 1
      /\ \A i \in DOMAIN Tail(q) : i \in Nat
  OBVIOUS
<1>2. Once(q, S) => Once(Tail(q), S)
  <2> SUFFICES ASSUME Once(q, S), NEW i \in DOMAIN Tail(q), NEW j \in DOMAIN Tail(q),
                      Tail(q)[i] \in S, Tail(q)[j] \in S
               PROVE  i = j
    BY DEF Once
  <2>1. i + 1 = j + 1
    BY <1>1 DEF Once
  <2> QED
    BY <1>1, <2>1
<1>3. Once(q, S) /\ Head(q) \in S => NoneOf(Tail(q), S)
  BY <1>1 DEF Once, NoneOf
<1>4. NoneOf(q, S) => NoneOf(Tail(q), S) /\ Head(q) \notin S
  BY <1>1 DEF NoneOf
<1> QED
  BY <1>2, <1>3, <1>4

\* The steps of the other packages stand aside.
LEMMA ReceiptsAside ==
    ASSUME Types, ReceiptInv, NEW P, NEW O, NEW A, Calling(P, O), Handling(A),
           P \cap ReceiptPcs = {}, "message" \notin O, "signal" \notin A,
           receipts' = receipts, ~panic
    PROVE  ReceiptInv'
<1>1. ASSUME NEW g \in Routines
      PROVE  For("signal", g)' = For("signal", g)
  BY DEF Handling, For
<1>2. ASSUME NEW g \in Routines
      PROVE  Channel(g)' /\ Registered(g)'
  <2>1. Channel(g) /\ Registered(g) /\ todo[g] \in Seq(Ops)
    BY DEF ReceiptInv, Types, CommonType
  <2>2. CASE todo'[g] = todo[g] /\ pc'[g] = pc[g] /\ ctx'[g] = ctx[g]
    BY <1>1, <2>1, <2>2 DEF Channel, Registered
  <2>3. CASE /\ pc[g] \in P \cup {"idle"} /\ pc'[g] \in P \cup {"idle"}
             /\ \/ todo'[g] = todo[g]
                \/ todo[g] # <<>> /\ Head(todo[g]) \in O /\ todo'[g] = Tail(todo[g])
    <3>1. pc[g] \notin ReceiptPcs /\ pc'[g] \notin ReceiptPcs
      BY <2>3 DEF ReceiptPcs
    <3>2. /\ Once(todo[g], ReceiptOps) => Once(todo'[g], ReceiptOps)
          /\ NoneOf(todo[g], ReceiptOps) => NoneOf(todo'[g], ReceiptOps)
      BY <2>1, <2>3, TailOnce
    <3>3. Channel(g)'
      BY <1>1, <2>1, <3>1, <3>2 DEF Channel, ReceiptPcs
    <3>4. Registered(g)'
      BY <3>1 DEF Registered, ReceiptPcs
    <3> QED
      BY <3>3, <3>4
  <2> QED
    BY <2>2, <2>3 DEF Calling
<1>3. ReceiptFound'
  BY DEF ReceiptInv, ReceiptFound
<1> QED
  BY <1>2, <1>3 DEF ReceiptInv

\* A step of one goroutine inside SendMessageElement.
LEMMA ReceiptsGoes ==
    ASSUME Types, ReceiptInv, NEW g \in Routines, NEW l \in ReceiptPcs, Goes(g, l),
           pc[g] \in ReceiptPcs, ~panic, ReceiptsType',
           UNCHANGED <<inbox, serve, panic, muc, history, listener>>,
           receipts'.closed = receipts.closed, receipts'.lost = receipts.lost,
           receipts'.made >= receipts.made,
           l \in {"forget", "closechan"} => ctx[g],
           l = "closechan" => g \notin receipts'.sent,
           \A x \in Routines : x # g => (x \in receipts'.sent => x \in receipts.sent),
           l \in {"register", "transmit", "receipt"} => receipts'.made >= 1,
           \A x \in Routines : receipts'.made <= 1 /\ pc'[x] \in {"transmit", "receipt"}
              => x \in receipts'.sent \/ For("signal", x)
    PROVE  ReceiptsEffect /\ ReceiptInv' /\ PanicNeedsEnd'
<1>1. CommonType /\ ServeType /\ ReceiptsType
  BY DEF Types
<1>2. /\ CommonType' /\ pc'[g] = l /\ UNCHANGED <<todo, ctx, ret>>
      /\ \A x \in Routines : x # g => pc'[x] = pc[x]
  BY <1>1, GoesEffect DEF Places, ReceiptPcs
<1>3. Calling(ReceiptPcs, ReceiptOps) /\ NotEnded
  BY <1>2 DEF Calling, NotEnded
<1>4. ReceiptsEffect
  BY <1>1, <1>2, <1>3 DEF ReceiptsEffect, Moving, Handling, ServeType
<1>5. ASSUME NEW x \in Routines
      PROVE  Channel(x)' /\ Registered(x)'
  <2>1. Channel(x) /\ Registered(x)
    BY DEF ReceiptInv
  <2>2. For("signal", x)' = For("signal", x)
    BY DEF For
  <2>3. Registered(x)'
    BY <1>1, <1>2, <2>1, <2>2 DEF Registered, ReceiptsType
  <2>4. Channel(x)'
    <3>1. CASE x = g
      BY <1>2, <2>1, <2>2, <3>1 DEF Channel
    <3>2. CASE x # g
      BY <1>2, <2>1, <2>2, <3>2 DEF Channel
    <3> QED
      BY <3>1, <3>2
  <2> QED
    BY <2>3, <2>4
<1>6. ReceiptFound'
  BY <1>1 DEF ReceiptInv, ReceiptFound, ReceiptsType
<1>7. PanicNeedsEnd'
  BY DEF PanicNeedsEnd
<1> QED
  BY <1>4, <1>5, <1>6, <1>7 DEF ReceiptInv

\* The end of SendMessageElement, by whatever way.
LEMMA ReceiptsReturns ==
    ASSUME Types, ReceiptInv, NEW g \in Routines, NEW r, r # "end", Returns(g, r),
           pc[g] \in ReceiptPcs, ~panic
    PROVE  /\ CommonType' /\ Calling(ReceiptPcs, ReceiptOps) /\ NotEnded
           /\ UNCHANGED <<todo, ctx>> /\ pc'[g] = "idle"
           /\ \A x \in Routines : x # g => pc'[x] = pc[x]
<1>1. CommonType
  BY DEF Types
<1>2. /\ CommonType' /\ UNCHANGED <<todo, ctx>>
      /\ pc'[g] = "idle" /\ ret'[g] = r
      /\ \A x \in Routines : x # g => pc'[x] = pc[x] /\ ret'[x] = ret[x]
  BY <1>1, ReturnsEffect
<1> QED
  BY <1>2 DEF Calling, NotEnded

\* SendMessageElement, step by step.
LEMMA ReceiptsCallStep ==
    ASSUME Types, ReceiptInv, NEW g \in Routines, ReceiptsCall(g)
    PROVE  ReceiptsEffect /\ ReceiptInv' /\ PanicNeedsEnd'
<1>1. CommonType /\ ServeType /\ ReceiptsType /\ ~panic
  BY DEF Types, ReceiptsCall, SendMessage, MakeMap, Register, Transmit, GiveUp, Forget,
         CloseChan, Calls, At
<1>2. Channel(g) /\ Registered(g) /\ todo[g] \in Seq(Ops)
  BY <1>1 DEF ReceiptInv, CommonType
<1>3. \A x \in Routines : Channel(x) /\ Registered(x)
  BY DEF ReceiptInv
<1>4. CASE SendMessage(g)
  <2>1. PICK l \in {"make", "register"} : /\ Calls(g, "message", l)
                                          /\ l = "register" => receipts.made # 0
    BY <1>4 DEF SendMessage
  <2>2. UNCHANGED <<inbox, serve, panic, receipts, muc, history, listener>>
    BY <1>4 DEF SendMessage, notReceipts
  <2>3. l \in Places /\ "message" \in Ops /\ l \in ReceiptPcs
    BY <2>1 DEF Places, Ops, ReceiptPcs
  <2>4. /\ CommonType' /\ NotEnded
        /\ pc[g] = "idle" /\ pc'[g] = l
        /\ todo[g] # <<>> /\ Head(todo[g]) = "message" /\ todo'[g] = Tail(todo[g])
        /\ \A x \in Routines : x # g => /\ todo'[x] = todo[x] /\ pc'[x] = pc[x]
                                        /\ ctx'[x] = ctx[x] /\ ret'[x] = ret[x]
    BY <1>1, <2>1, <2>3, CallsEffect
  <2>5. ReceiptsEffect
    <3>1. Calling(ReceiptPcs, ReceiptOps)
      BY <2>3, <2>4 DEF Calling, ReceiptOps
    <3> QED
      BY <1>1, <2>2, <2>4, <3>1 DEF ReceiptsEffect, Moving, Handling, ServeType, ReceiptsType
  <2>6. ASSUME NEW x \in Routines PROVE Channel(x)' /\ Registered(x)'
    <3>1. For("signal", x)' = For("signal", x)
      BY <2>2 DEF For
    <3>2. CASE x # g
      BY <1>3, <2>2, <2>4, <3>1, <3>2 DEF Channel, Registered
    <3>3. CASE x = g
      <4>1. /\ Once(todo'[g], ReceiptOps) /\ NoneOf(todo'[g], ReceiptOps)
            /\ ~NoneOf(todo[g], ReceiptOps)
        BY <1>2, <2>4, TailOnce DEF Channel, ReceiptOps
      <4>2. Channel(g)'
        BY <1>2, <2>1, <2>2, <2>4, <3>1, <3>3, <4>1 DEF Channel
      <4>3. Registered(g)'
        BY <1>1, <2>1, <2>2, <2>4 DEF Registered, ReceiptsType
      <4> QED
        BY <3>3, <4>2, <4>3
    <3> QED
      BY <3>2, <3>3
  <2>7. ReceiptFound' /\ PanicNeedsEnd'
    BY <1>1, <2>2 DEF ReceiptInv, ReceiptFound, PanicNeedsEnd
  <2> QED
    BY <2>5, <2>6, <2>7 DEF ReceiptInv
<1>5. CASE MakeMap(g)
  <2>1. /\ pc[g] = "make" /\ Goes(g, "register")
        /\ receipts' = [receipts EXCEPT !.sent = {}, !.made = @ + 1]
        /\ UNCHANGED <<inbox, serve, panic, muc, history, listener>>
    BY <1>5 DEF MakeMap, At, notReceipts
  <2>2. /\ ReceiptsType' /\ receipts'.sent = {} /\ receipts'.made = receipts.made + 1
        /\ receipts'.closed = receipts.closed /\ receipts'.lost = receipts.lost
        /\ receipts.made \in Nat
    <3> DEFINE made == receipts.made + 1
    <3>1. receipts.made \in Nat /\ made \in Nat /\ {} \in SUBSET Routines
      BY <1>1 DEF ReceiptsType
    <3>2. receipts' = [receipts EXCEPT !.sent = {}, !.made = made]
      BY <2>1
    <3>3. receipts'.made = made
      BY <1>1, <3>2 DEF ReceiptsType
    <3> HIDE DEF made
    <3>4. /\ ReceiptsType' /\ receipts'.sent = {}
          /\ receipts'.closed = receipts.closed /\ receipts'.lost = receipts.lost
      BY <1>1, <3>1, <3>2 DEF ReceiptsType
    <3> QED
      BY <3>1, <3>3, <3>4 DEF made
  <2>3. /\ pc'[g] = "register" /\ \A x \in Routines : x # g => pc'[x] = pc[x]
    BY <1>1, <2>1, GoesEffect DEF Places, ReceiptPcs
  <2>4. ASSUME NEW x \in Routines, receipts'.made <= 1, pc'[x] \in {"transmit", "receipt"}
        PROVE  FALSE
    <3>1. x # g /\ pc[x] \in {"transmit", "receipt"}
      BY <2>3, <2>4
    <3>2. receipts.made >= 1
      BY <1>3, <3>1 DEF Registered
    <3> QED
      BY <2>2, <2>4, <3>2
  <2>5. receipts'.made >= receipts.made /\ receipts'.made >= 1
    BY <2>2
  <2> QED
    BY <1>1, <2>1, <2>2, <2>4, <2>5, ReceiptsGoes DEF ReceiptPcs
<1>6. CASE Register(g)
  <2>1. /\ pc[g] = "register" /\ Goes(g, "transmit")
        /\ receipts' = [receipts EXCEPT !.sent = @ \cup {g}]
        /\ UNCHANGED <<inbox, serve, panic, muc, history, listener>>
    BY <1>6 DEF Register, At, notReceipts, AfterRegister
  <2>2. /\ ReceiptsType' /\ receipts'.sent = receipts.sent \cup {g}
        /\ receipts'.made = receipts.made /\ receipts.made >= 1
        /\ receipts'.closed = receipts.closed /\ receipts'.lost = receipts.lost
        /\ receipts.made \in Nat
    BY <1>1, <1>2, <2>1 DEF ReceiptsType, Registered
  <2>3. /\ pc'[g] = "transmit" /\ \A x \in Routines : x # g => pc'[x] = pc[x]
    BY <1>1, <2>1, GoesEffect DEF Places, ReceiptPcs
  <2>4. \A x \in Routines : receipts'.made <= 1 /\ pc'[x] \in {"transmit", "receipt"}
              => x \in receipts'.sent \/ For("signal", x)
    BY <1>3, <2>2, <2>3 DEF Registered
  <2>5. receipts'.made >= receipts.made /\ receipts'.made >= 1
    BY <2>2
  <2> QED
    BY <1>1, <2>1, <2>2, <2>4, <2>5, ReceiptsGoes DEF ReceiptPcs
<1>7. CASE Transmit(g) /\ Goes(g, "receipt") /\ receipts' = [receipts EXCEPT !.wire = @ \cup {g}]
  <2>1. pc[g] = "transmit" /\ UNCHANGED <<inbox, serve, panic, muc, history, listener>>
    BY <1>7 DEF Transmit, At, notReceipts
  <2>2. /\ ReceiptsType' /\ receipts'.sent = receipts.sent
        /\ receipts'.made = receipts.made /\ receipts.made >= 1
        /\ receipts'.closed = receipts.closed /\ receipts'.lost = receipts.lost
        /\ receipts.made \in Nat
    BY <1>1, <1>2, <1>7, <2>1 DEF ReceiptsType, Registered
  <2>3. /\ pc'[g] = "receipt" /\ \A x \in Routines : x # g => pc'[x] = pc[x]
    BY <1>1, <1>7, <2>1, GoesEffect DEF Places, ReceiptPcs
  <2>4. \A x \in Routines : receipts'.made <= 1 /\ pc'[x] \in {"transmit", "receipt"}
              => x \in receipts'.sent \/ For("signal", x)
    BY <1>3, <2>1, <2>2, <2>3 DEF Registered
  <2>5. receipts'.made >= receipts.made /\ receipts'.made >= 1
    BY <2>2
  <2> QED
    BY <1>1, <1>7, <2>1, <2>2, <2>4, <2>5, ReceiptsGoes DEF ReceiptPcs
<1>8. CASE GiveUp(g)
  <2>1. /\ pc[g] = "receipt" /\ ctx[g] /\ Goes(g, "forget")
        /\ UNCHANGED <<inbox, serve, panic, receipts, muc, history, listener>>
    BY <1>8 DEF GiveUp, At, Done, notReceipts
  <2>2. ReceiptsType' /\ receipts'.made >= receipts.made
    BY <1>1, <2>1 DEF ReceiptsType
  <2>3. /\ pc'[g] = "forget" /\ \A x \in Routines : x # g => pc'[x] = pc[x]
    BY <1>1, <2>1, GoesEffect DEF Places, ReceiptPcs
  <2>4. \A x \in Routines : receipts'.made <= 1 /\ pc'[x] \in {"transmit", "receipt"}
              => x \in receipts'.sent \/ For("signal", x)
    BY <1>3, <2>1, <2>3 DEF Registered
  <2> QED
    BY <1>1, <2>1, <2>2, <2>4, ReceiptsGoes DEF ReceiptPcs
<1>9. CASE Forget(g)
  <2>1. /\ pc[g] = "forget" /\ Goes(g, "closechan")
        /\ receipts' = [receipts EXCEPT !.sent = @ \ {g}]
        /\ UNCHANGED <<inbox, serve, panic, muc, history, listener>>
    BY <1>9 DEF Forget, At, notReceipts
  <2>2. /\ ReceiptsType' /\ receipts'.sent = receipts.sent \ {g}
        /\ receipts'.made = receipts.made /\ receipts.made \in Nat
        /\ receipts'.closed = receipts.closed /\ receipts'.lost = receipts.lost
    BY <1>1, <2>1 DEF ReceiptsType
  <2>3. /\ pc'[g] = "closechan" /\ \A x \in Routines : x # g => pc'[x] = pc[x]
    BY <1>1, <2>1, GoesEffect DEF Places, ReceiptPcs
  <2>4. \A x \in Routines : receipts'.made <= 1 /\ pc'[x] \in {"transmit", "receipt"}
              => x \in receipts'.sent \/ For("signal", x)
    BY <1>3, <2>2, <2>3 DEF Registered
  <2>5. ctx[g] /\ receipts'.made >= receipts.made /\ g \notin receipts'.sent
    BY <1>2, <2>1, <2>2 DEF Channel
  <2> QED
    BY <1>1, <2>1, <2>2, <2>4, <2>5, ReceiptsGoes DEF ReceiptPcs
<1>10. CASE Transmit(g) /\ Returns(g, "err") /\ UNCHANGED receipts
  <2>1. pc[g] = "transmit" /\ UNCHANGED <<inbox, serve, panic, muc, history, listener>>
    BY <1>10 DEF Transmit, At, notReceipts
  <2>2. /\ CommonType' /\ Calling(ReceiptPcs, ReceiptOps) /\ NotEnded
        /\ UNCHANGED <<todo, ctx>> /\ pc'[g] = "idle"
        /\ \A x \in Routines : x # g => pc'[x] = pc[x]
    BY <1>1, <1>10, <2>1, ReceiptsReturns DEF ReceiptPcs
  <2>3. ReceiptsEffect
    BY <1>1, <1>10, <2>1, <2>2 DEF ReceiptsEffect, Moving, Handling, ServeType, ReceiptsType
  <2>4. ASSUME NEW x \in Routines PROVE Channel(x)' /\ Registered(x)'
    <3>1. For("signal", x)' = For("signal", x)
      BY <2>1 DEF For
    <3>2. pc'[x] = pc[x] \/ (pc'[x] = "idle" /\ pc[x] = "transmit")
      BY <2>1, <2>2
    <3> QED
      BY <1>3, <1>10, <2>1, <2>2, <3>1, <3>2 DEF Channel, Registered, ReceiptPcs
  <2>5. ReceiptFound' /\ PanicNeedsEnd'
    BY <1>1, <1>10, <2>1 DEF ReceiptInv, ReceiptFound, PanicNeedsEnd
  <2> QED
    BY <2>3, <2>4, <2>5 DEF ReceiptInv
<1>11. CASE CloseChan(g)
  <2>1. /\ pc[g] = "closechan" /\ Returns(g, "err")
        /\ receipts' = [receipts EXCEPT !.closed = @ \cup {g}]
        /\ panic' = For("signal", g)
        /\ UNCHANGED <<inbox, serve, muc, history, listener>>
    BY <1>11 DEF CloseChan, At, notReceipts, For
  <2>2. /\ ReceiptsType' /\ receipts'.sent = receipts.sent
        /\ receipts'.made = receipts.made /\ receipts'.lost = receipts.lost
        /\ receipts'.closed = receipts.closed \cup {g}
    BY <1>1, <2>1 DEF ReceiptsType
  <2>3. /\ CommonType' /\ Calling(ReceiptPcs, ReceiptOps) /\ NotEnded
        /\ UNCHANGED <<todo, ctx>> /\ pc'[g] = "idle"
        /\ \A x \in Routines : x # g => pc'[x] = pc[x]
    BY <1>1, <2>1, ReceiptsReturns DEF ReceiptPcs
  <2>4. panic' \in BOOLEAN
    BY <2>1 DEF For
  <2>5. ReceiptsEffect
    BY <1>1, <2>1, <2>2, <2>3, <2>4 DEF ReceiptsEffect, Moving, Handling, ServeType
  <2>6. ctx[g] /\ g \notin receipts.sent /\ NoneOf(todo[g], ReceiptOps)
    BY <1>2, <2>1 DEF Channel, ReceiptPcs
  <2>7. ASSUME NEW x \in Routines PROVE Channel(x)' /\ Registered(x)'
    <3>1. For("signal", x)' = For("signal", x)
      BY <2>1 DEF For
    <3>2. CASE x # g
      <4>1. Channel(x) /\ Registered(x) /\ pc'[x] = pc[x]
        BY <1>3, <2>3, <3>2
      <4> QED
        BY <1>1, <2>2, <2>3, <3>1, <3>2, <4>1 DEF Channel, Registered
    <3>3. CASE x = g
      <4>1. Registered(g)'
        BY <2>3 DEF Registered
      <4>2. panic' \/ ~For("signal", g)'
        BY <2>1, <3>1, <3>3
      <4>3. Channel(g)'
        BY <1>2, <2>2, <2>3, <2>6, <4>2 DEF Channel, ReceiptPcs
      <4> QED
        BY <3>3, <4>1, <4>3
    <3> QED
      BY <3>2, <3>3
  <2>8. ReceiptFound'
    BY <2>2 DEF ReceiptInv, ReceiptFound
  <2>9. PanicNeedsEnd'
    BY <2>1, <2>3, <2>6 DEF PanicNeedsEnd, For
  <2> QED
    BY <2>5, <2>7, <2>8, <2>9 DEF ReceiptInv
<1> QED
  BY <1>4, <1>5, <1>6, <1>7, <1>8, <1>9, <1>10, <1>11 DEF ReceiptsCall, Transmit

\* HandleMessage of receipts: nobody is found whose channel is closed, and who
\* waits is found unless there are two maps.
LEMMA ReceiptsServeStep ==
    ASSUME Types, ReceiptInv, ReceiptsServe
    PROVE  ReceiptsEffect /\ ReceiptInv' /\ PanicNeedsEnd'
<1>1. CommonType /\ ServeType /\ ReceiptsType /\ inbox \in Seq(Stanzas)
  BY DEF Types, ServeType
<1>2. \A x \in Routines : Channel(x) /\ Registered(x)
  BY DEF ReceiptInv
<1>3. CASE HandleReceived
  <2> DEFINE g == Head(inbox).who
  <2>1. /\ ~panic /\ serve = Loop /\ inbox # <<>> /\ Head(inbox).kind = "received"
        /\ inbox' = Tail(inbox) /\ UNCHANGED <<common, panic, muc, history, listener>>
    BY <1>3 DEF HandleReceived, Takes, InLoop, notReceipts
  <2>2. g \in Routines
    <3>1. Head(inbox) \in Stanzas
      BY <1>1, <2>1
    <3> QED
      BY <2>1, <3>1 DEF Stanzas
  <2>3. \/ /\ g \in receipts.sent /\ serve' = [at |-> "signal", who |-> g, n |-> 0]
           /\ receipts' = [receipts EXCEPT !.sent = @ \ {g}]
        \/ /\ g \notin receipts.sent /\ serve' = serve
           /\ \/ receipts' = receipts
              \/ pc[g] = "receipt" /\ receipts' = [receipts EXCEPT !.lost = @ \cup {g}]
    <3>1. CASE g \in receipts.sent
      BY <1>3, <3>1 DEF HandleReceived, Held, TakenOut
    <3>2. CASE g \notin receipts.sent
      <4>1. /\ serve' = serve
            /\ receipts' = [receipts EXCEPT !.lost = IF pc[g] = "receipt" THEN @ \cup {g} ELSE @]
        BY <1>3, <3>2 DEF HandleReceived
      <4>2. CASE pc[g] = "receipt"
        BY <3>2, <4>1, <4>2
      <4>3. CASE pc[g] # "receipt"
        BY <1>1, <3>2, <4>1, <4>3 DEF ReceiptsType
      <4> QED
        BY <4>2, <4>3
    <3> QED
      BY <3>1, <3>2
  <2> HIDE DEF g
  <2>4. Moving({"received", "request"})
    BY <2>1 DEF Moving
  <2>5. inbox' \in Seq(Stanzas)
    BY <1>1, <2>4, MovingType
  <2>6. /\ CommonType' /\ Calling(ReceiptPcs, ReceiptOps) /\ NotEnded /\ PanicNeedsEnd'
        /\ pc' = pc /\ todo' = todo /\ ctx' = ctx
    BY <1>1, <2>1 DEF common, CommonType, Calling, NotEnded, PanicNeedsEnd
  <2>7. serve.at = "loop" /\ \A x \in Routines : ~For("signal", x)
    BY <2>1 DEF Loop, For
  <2>8. CASE /\ g \in receipts.sent /\ serve' = [at |-> "signal", who |-> g, n |-> 0]
             /\ receipts' = [receipts EXCEPT !.sent = @ \ {g}]
    <3>1. /\ ReceiptsType' /\ receipts'.sent = receipts.sent \ {g}
          /\ receipts'.made = receipts.made /\ receipts'.closed = receipts.closed
          /\ receipts'.lost = receipts.lost
      BY <1>1, <2>8 DEF ReceiptsType
    <3>2. /\ serve'.at = "signal" /\ serve'.who = g /\ DOMAIN serve' = {"at", "who", "n"}
      BY <2>8
    <3>3. ServeType' /\ Handling({"signal"})
      BY <1>1, <2>1, <2>2, <2>5, <2>7, <3>2 DEF ServeType, Handling
    <3>4. ASSUME NEW x \in Routines PROVE Channel(x)' /\ Registered(x)'
      <4>1. For("signal", x)' <=> x = g
        BY <3>2 DEF For
      <4>2. Channel(x)'
        BY <1>2, <2>1, <2>6, <2>8, <3>1, <4>1 DEF Channel
      <4>3. Registered(x)'
        BY <1>2, <2>6, <2>7, <3>1, <4>1 DEF Registered
      <4> QED
        BY <4>2, <4>3
    <3>5. ReceiptFound'
      BY <3>1 DEF ReceiptInv, ReceiptFound
    <3> QED
      BY <2>1, <2>4, <2>6, <3>1, <3>3, <3>4, <3>5 DEF ReceiptsEffect, ReceiptInv
  <2>9. CASE /\ g \notin receipts.sent /\ serve' = serve
             /\ \/ receipts' = receipts
                \/ pc[g] = "receipt" /\ receipts' = [receipts EXCEPT !.lost = @ \cup {g}]
    <3>1. /\ ReceiptsType' /\ receipts'.sent = receipts.sent
          /\ receipts'.made = receipts.made /\ receipts'.closed = receipts.closed
          /\ receipts'.lost = receipts.lost \/ pc[g] = "receipt"
      <4>1. CASE receipts' = receipts
        BY <1>1, <4>1 DEF ReceiptsType
      <4>2. CASE pc[g] = "receipt" /\ receipts' = [receipts EXCEPT !.lost = @ \cup {g}]
        BY <1>1, <2>2, <4>2 DEF ReceiptsType
      <4> QED
        BY <2>9, <4>1, <4>2
    <3>2. ServeType' /\ Handling({"signal"})
      BY <1>1, <2>1, <2>5, <2>9 DEF ServeType, Handling
    <3>3. ASSUME NEW x \in Routines PROVE Channel(x)' /\ Registered(x)'
      <4>1. For("signal", x)' = For("signal", x)
        BY <2>9 DEF For
      <4> QED
        BY <1>2, <2>1, <2>6, <3>1, <4>1 DEF Channel, Registered
    <3>4. ReceiptFound'
      <4>1. CASE receipts'.lost = receipts.lost
        BY <3>1, <4>1 DEF ReceiptInv, ReceiptFound
      <4>2. CASE pc[g] = "receipt"
        <5>1. Registered(g) /\ ~For("signal", g) /\ receipts.made \in Nat
          BY <1>1, <1>2, <2>2, <2>7 DEF ReceiptsType
        <5>2. ~(receipts.made <= 1)
          BY <2>9, <4>2, <5>1 DEF Registered
        <5>3. receipts.made > 1
          BY <5>1, <5>2
        <5> QED
          BY <3>1, <5>3 DEF ReceiptFound
      <4> QED
        BY <3>1, <4>1, <4>2
    <3> QED
      BY <2>1, <2>4, <2>6, <3>1, <3>2, <3>3, <3>4 DEF ReceiptsEffect, ReceiptInv
  <2> QED
    BY <2>3, <2>8, <2>9
<1>4. CASE Signal
  <2>1. PICK g : /\ g = serve.who /\ ~panic /\ serve.at = "signal"
                 /\ UNCHANGED <<inbox, receipts, muc, history, listener>>
                 /\ \/ pc[g] = "receipt" /\ Returns(g, "nil") /\ serve' = Loop /\ UNCHANGED panic
                    \/ g \in receipts.closed
    BY <1>4 DEF Signal, Serving, notReceipts
  <2>2. g \in Routines /\ For("signal", g)
    BY <1>1, <2>1 DEF ServeType, For
  <2>3. g \notin receipts.closed
    BY <1>2, <2>1, <2>2 DEF Channel
  <2>4. pc[g] = "receipt" /\ Returns(g, "nil") /\ serve' = Loop /\ UNCHANGED panic
    BY <2>1, <2>3
  <2>5. /\ CommonType' /\ Calling(ReceiptPcs, ReceiptOps) /\ NotEnded
        /\ UNCHANGED <<todo, ctx>> /\ pc'[g] = "idle"
        /\ \A x \in Routines : x # g => pc'[x] = pc[x]
    BY <2>1, <2>2, <2>4, ReceiptsReturns DEF ReceiptPcs
  <2>6. ReceiptsType' /\ ServeType' /\ Handling({"signal"}) /\ PanicNeedsEnd'
    BY <1>1, <2>1, <2>4 DEF ServeType, Handling, Loop, PanicNeedsEnd, ReceiptsType
  <2>7. ASSUME NEW x \in Routines PROVE Channel(x)' /\ Registered(x)'
    <3>1. ~For("signal", x)'
      BY <2>4 DEF For, Loop
    <3>2. CASE x = g
      <4>1. Channel(g)'
        BY <1>2, <2>1, <2>2, <2>3, <2>4, <2>5 DEF Channel, ReceiptPcs
      <4> QED
        BY <2>5, <3>2, <4>1 DEF Registered
    <3>3. CASE x # g
      <4>1. ~For("signal", x)
        BY <2>2, <3>3 DEF For
      <4> QED
        BY <1>2, <2>1, <2>4, <2>5, <3>1, <3>3, <4>1 DEF Channel, Registered
    <3> QED
      BY <3>2, <3>3
  <2>8. ReceiptFound'
    BY <2>1 DEF ReceiptInv, ReceiptFound
  <2> QED
    BY <2>1, <2>5, <2>6, <2>7, <2>8 DEF ReceiptsEffect, ReceiptInv, Moving
<1>5. CASE HandleRequest
  <2>1. /\ ~panic /\ serve = Loop /\ inbox # <<>> /\ Head(inbox).kind = "request"
        /\ inbox' = Tail(inbox) /\ UNCHANGED <<common, serve, panic, muc, history, listener>>
        /\ receipts' = [receipts EXCEPT !.replied = @ + 1]
    BY <1>5 DEF HandleRequest, Takes, InLoop, notReceipts
  <2>2. Moving({"received", "request"})
    BY <2>1 DEF Moving
  <2>3. inbox' \in Seq(Stanzas)
    BY <1>1, <2>2, MovingType
  <2>4. /\ ReceiptsType' /\ receipts'.sent = receipts.sent /\ receipts'.made = receipts.made
        /\ receipts'.closed = receipts.closed /\ receipts'.lost = receipts.lost
    <3> DEFINE replied == receipts.replied + 1
    <3>1. replied \in Nat
      BY <1>1 DEF ReceiptsType
    <3>2. receipts' = [receipts EXCEPT !.replied = replied]
      BY <2>1
    <3> HIDE DEF replied
    <3> QED
      BY <1>1, <3>1, <3>2 DEF ReceiptsType
  <2> QED
    BY <1>1, <1>2, <2>1, <2>2, <2>3, <2>4 DEF ReceiptsEffect, ReceiptInv, ReceiptFound,
       PanicNeedsEnd, ServeType, Handling, Calling, NotEnded, common, CommonType,
       Channel, Registered, For
<1> QED
  BY <1>3, <1>4, <1>5 DEF ReceiptsServe

\* The peer sends receipts and asks for them.
LEMMA ReceiptsPeerStep ==
    ASSUME Types, ReceiptInv, ReceiptsPeer
    PROVE  ReceiptsEffect /\ ReceiptInv' /\ PanicNeedsEnd'
<1>1. CommonType /\ ServeType /\ ReceiptsType /\ inbox \in Seq(Stanzas)
  BY DEF Types, ServeType
<1>2. PICK m \in Stanzas : m.kind \in {"received", "request"} /\ inbox' = Append(inbox, m)
  <2>1. CASE AskReceipt
    <3>1. inbox' = Append(inbox, Stanza("request", None, 0))
      BY <2>1 DEF AskReceipt, Sends
    <3>2. Stanza("request", None, 0) \in Stanzas /\ Stanza("request", None, 0).kind = "request"
      BY DEF Stanza, Stanzas
    <3> QED
      BY <3>1, <3>2
  <2>2. ASSUME NEW g \in Routines, Acknowledge(g)
        PROVE  \E m \in Stanzas : m.kind \in {"received", "request"} /\ inbox' = Append(inbox, m)
    <3>1. inbox' = Append(inbox, Stanza("received", g, 0))
      BY <2>2 DEF Acknowledge, Sends
    <3>2. Stanza("received", g, 0) \in Stanzas /\ Stanza("received", g, 0).kind = "received"
      BY DEF Stanza, Stanzas
    <3> QED
      BY <3>1, <3>2
  <2> QED
    BY <2>1, <2>2 DEF ReceiptsPeer
<1>3. /\ ~panic /\ UNCHANGED <<common, serve, panic, receipts, muc, history, listener>>
  BY DEF ReceiptsPeer, AskReceipt, Acknowledge, notReceipts
<1>4. Moving({"received", "request"})
  BY <1>2 DEF Moving
<1>5. inbox' \in Seq(Stanzas)
  BY <1>1, <1>4, MovingType
<1>6. ReceiptInv'
  BY <1>3 DEF ReceiptInv, Channel, Registered, For, ReceiptFound, common
<1> QED
  BY <1>1, <1>3, <1>4, <1>5, <1>6 DEF ReceiptsEffect, PanicNeedsEnd, ServeType, Handling,
     Calling, NotEnded, common, CommonType, ReceiptsType

----------------------------------------------------------------------------
(* The archive.                                                            *)

HistoryKinds == {"archived", "fin"}
HistoryEffect ==
    /\ CommonType' /\ ServeType' /\ HistoryType'
    /\ Calling(HistoryPcs, Fetches) /\ Moving(HistoryKinds) /\ Handling({"deliver"})
    /\ panic' = panic /\ ~panic /\ UNCHANGED <<receipts, muc, listener>>

\* Fetch, Next and Close of the iterator.
LEMMA HistoryCallEffect ==
    ASSUME Types, NEW g \in Routines, HistoryCall(g)
    PROVE  HistoryEffect
<1> USE DEF HistoryPcs
<1>1. CommonType /\ ServeType /\ HistoryType
  BY DEF Types
<1>2. UNCHANGED <<inbox, serve, panic, receipts, muc, listener>> /\ ~panic
  BY DEF HistoryCall, FetchIQ, NextEnds, Continue, CloseIter, notHistory, Calls, At
<1>3. Moving(HistoryKinds) /\ Handling({"deliver"}) /\ ServeType'
  BY <1>1, <1>2 DEF Moving, Handling, ServeType
<1>4. CASE FetchIQ(g)
  <2>1. PICK op \in Fetches, l \in {"next", "nextbreak"} : Calls(g, op, l)
    BY <1>4 DEF FetchIQ, Fetches
  <2>2. op \in Ops /\ l \in Places
    BY <2>1 DEF Fetches, Ops, Places
  <2>3. /\ CommonType' /\ pc[g] = "idle" /\ pc'[g] = l
        /\ todo[g] # <<>> /\ Head(todo[g]) = op /\ todo'[g] = Tail(todo[g])
        /\ \A x \in Routines : x # g => /\ todo'[x] = todo[x] /\ pc'[x] = pc[x]
                                        /\ ctx'[x] = ctx[x] /\ ret'[x] = ret[x]
    BY <1>1, <2>1, <2>2, CallsEffect
  <2>4. Calling(HistoryPcs, Fetches)
    BY <2>1, <2>3 DEF Calling
  <2>5. HistoryType'
    <3> DEFINE t == history.tracked \cup {g}
               h == [history.helper EXCEPT ![g] = "query"]
    <3>1. history' = [history EXCEPT !.tracked = t, !.helper = h]
      BY <1>4 DEF FetchIQ
    <3>2. t \in SUBSET Routines /\ h \in [Routines -> Helpers]
      BY <1>1 DEF HistoryType, Helpers
    <3> HIDE DEF t, h
    <3> QED
      BY <1>1, <3>1, <3>2 DEF HistoryType
  <2> QED
    BY <1>2, <1>3, <2>3, <2>4, <2>5 DEF HistoryEffect
<1>5. CASE NextEnds(g) \/ CloseIter(g)
  <2>1. PICK r : pc[g] \in HistoryPcs /\ Returns(g, r)
    BY <1>5 DEF NextEnds, CloseIter, Ready, At
  <2>2. /\ CommonType' /\ UNCHANGED <<todo, ctx>>
        /\ pc'[g] = "idle" /\ ret'[g] = r
        /\ \A x \in Routines : x # g => pc'[x] = pc[x] /\ ret'[x] = ret[x]
    BY <1>1, <2>1, ReturnsEffect
  <2>3. Calling(HistoryPcs, Fetches)
    BY <2>1, <2>2 DEF Calling
  <2>4. HistoryType'
    <3> DEFINE c == IF g \in history.tracked THEN history.closed \cup {g} ELSE history.closed
               t == history.tracked \ {g}
    <3>1. history' = history \/ history' = [history EXCEPT !.closed = c, !.tracked = t]
      BY <1>5 DEF NextEnds, CloseIter, Removed
    <3>2. c \in SUBSET Routines /\ t \in SUBSET Routines
      BY <1>1 DEF HistoryType
    <3> HIDE DEF c, t
    <3> QED
      BY <1>1, <3>1, <3>2 DEF HistoryType
  <2> QED
    BY <1>2, <1>3, <2>2, <2>3, <2>4 DEF HistoryEffect
<1>6. CASE Continue(g)
  <2>1. PICK l \in {"next", "nextbreak", "close"} : pc[g] \in {"work", "workbreak"} /\ Goes(g, l)
    BY <1>6 DEF Continue, At
  <2>2. /\ CommonType' /\ pc'[g] = l /\ UNCHANGED <<todo, ctx, ret>>
        /\ \A x \in Routines : x # g => pc'[x] = pc[x]
    BY <1>1, <2>1, GoesEffect DEF Places
  <2>3. Calling(HistoryPcs, Fetches)
    BY <2>1, <2>2 DEF Calling
  <2>4. HistoryType'
    BY <1>1, <1>6 DEF Continue, HistoryType
  <2> QED
    BY <1>2, <1>3, <2>2, <2>3, <2>4 DEF HistoryEffect
<1> QED
  BY <1>4, <1>5, <1>6 DEF HistoryCall

\* The goroutine of the query.
LEMMA HistoryHelperEffect ==
    ASSUME Types, NEW g \in Routines, HistoryHelper(g)
    PROVE  HistoryEffect
<1>1. CommonType /\ ServeType /\ HistoryType
  BY DEF Types
<1>2. UNCHANGED <<common, inbox, serve, panic, receipts, muc, listener>> /\ ~panic
  BY DEF HistoryHelper, SendQuery, QueryCancelled, RemoveQuery, notHistory
<1>3. PICK l \in Helpers :
         \/ history' = [history EXCEPT !.helper[g] = l]
         \/ history' = [history EXCEPT !.helper[g] = l, !.failed = @ \cup {g}]
         \/ history' = [Removed(g) EXCEPT !.helper[g] = l]
  BY DEF HistoryHelper, SendQuery, QueryCancelled, RemoveQuery, Helpers
<1>4. HistoryType'
  <2> DEFINE h == [history.helper EXCEPT ![g] = l]
             f == history.failed \cup {g}
  <2>1. h \in [Routines -> Helpers] /\ f \in SUBSET Routines
    BY <1>1, <1>3 DEF HistoryType
  <2>2. Removed(g).helper = history.helper /\ Removed(g) \in
           [tracked : SUBSET Routines, closed : SUBSET Routines,
            helper : [Routines -> Helpers], sent : [Routines -> Nat],
            got : [Routines -> Nat], failed : SUBSET Routines]
    BY <1>1 DEF HistoryType, Removed
  <2>3. \/ history' = [history EXCEPT !.helper = h]
        \/ history' = [history EXCEPT !.helper = h, !.failed = f]
        \/ history' = [Removed(g) EXCEPT !.helper = h]
    BY <1>3, <2>2
  <2> HIDE DEF h, f
  <2> QED
    BY <1>1, <2>1, <2>2, <2>3 DEF HistoryType
<1> QED
  BY <1>1, <1>2, <1>4 DEF HistoryEffect, Moving, Handling, Calling, ServeType, common, CommonType

\* The archive and HandleMessage and HandleIQ of history.
LEMMA HistoryServeEffect ==
    ASSUME Types, HistoryServe \/ HistoryPeer
    PROVE  HistoryEffect
<1> USE DEF HistoryKinds
<1>1. CommonType /\ ServeType /\ HistoryType /\ inbox \in Seq(Stanzas)
  BY DEF Types, ServeType
<1>2. ASSUME NEW g \in Routines, ArchiveSends(g)
      PROVE  HistoryEffect
  <2>1. PICK k \in HistoryKinds : inbox' = Append(inbox, Stanza(k, g, 0))
    BY <1>2 DEF ArchiveSends, Sends, Answers
  <2>2. Stanza(k, g, 0) \in Stanzas /\ Stanza(k, g, 0).kind \in HistoryKinds
    BY <2>1 DEF Stanza, Stanzas
  <2>3. Moving(HistoryKinds)
    BY <2>1, <2>2 DEF Moving
  <2>4. inbox' \in Seq(Stanzas)
    BY <1>1, <2>3, MovingType
  <2>5. HistoryType'
    <3> DEFINE s == [history.sent EXCEPT ![g] = @ + 1]
    <3>1. history' = history \/ history' = [history EXCEPT !.sent = s]
      BY <1>2 DEF ArchiveSends
    <3>2. s \in [Routines -> Nat]
      BY <1>1 DEF HistoryType
    <3> HIDE DEF s
    <3> QED
      BY <1>1, <3>1, <3>2 DEF HistoryType
  <2>6. UNCHANGED <<common, serve, panic, receipts, muc, listener>> /\ ~panic
    BY <1>2 DEF ArchiveSends, notHistory
  <2> QED
    BY <1>1, <2>3, <2>4, <2>5, <2>6
       DEF HistoryEffect, Handling, Calling, ServeType, common, CommonType
<1>3. CASE HandleArchived \/ HandleFin
  <2> DEFINE g == Head(inbox).who
  <2>1. /\ ~panic /\ serve = Loop /\ inbox # <<>> /\ Head(inbox).kind \in HistoryKinds
        /\ inbox' = Tail(inbox) /\ UNCHANGED <<common, panic, receipts, muc, listener>>
        /\ serve' = serve \/ (g \in history.tracked /\ serve' = [at |-> "deliver", who |-> g, n |-> 0])
        /\ history' = history \/ history' = [history EXCEPT !.helper[g] = "remove"]
    BY <1>3 DEF HandleArchived, HandleFin, Takes, InLoop, Held, Tracked, notHistory
  <2> HIDE DEF g
  <2>2. Moving(HistoryKinds)
    BY <2>1 DEF Moving
  <2>3. inbox' \in Seq(Stanzas)
    BY <1>1, <2>2, MovingType
  <2>4. HistoryType'
    <3> DEFINE h == [history.helper EXCEPT ![g] = "remove"]
    <3>1. history' = history \/ history' = [history EXCEPT !.helper = h]
      BY <2>1
    <3>2. h \in [Routines -> Helpers]
      BY <1>1 DEF HistoryType, Helpers
    <3> HIDE DEF h
    <3> QED
      BY <1>1, <3>1, <3>2 DEF HistoryType
  <2>5. ServeType' /\ Handling({"deliver"})
    <3>1. CASE serve' = serve
      BY <1>1, <2>1, <2>3, <3>1 DEF ServeType, Handling
    <3>2. CASE g \in history.tracked /\ serve' = [at |-> "deliver", who |-> g, n |-> 0]
      BY <1>1, <2>1, <2>3, <3>2 DEF ServeType, Handling, Loop, HistoryType
    <3> QED
      BY <2>1, <3>1, <3>2
  <2> QED
    BY <1>1, <2>1, <2>2, <2>4, <2>5 DEF HistoryEffect, Calling, common, CommonType
<1>4. CASE Deliver
  <2>1. PICK g, l : /\ g = serve.who /\ l \in {"work", "workbreak"}
                    /\ ~panic /\ serve.at = "deliver" /\ pc[g] \in {"next", "nextbreak"}
                    /\ serve' = Loop /\ Goes(g, l)
                    /\ history' = [history EXCEPT !.got[g] = @ + 1]
                    /\ UNCHANGED <<inbox, panic, receipts, muc, listener>>
    BY <1>4 DEF Deliver, Serving, Ready, notHistory
  <2>2. g \in Routines
    BY <1>1, <2>1 DEF ServeType
  <2>3. /\ CommonType' /\ pc'[g] = l /\ UNCHANGED <<todo, ctx, ret>>
        /\ \A x \in Routines : x # g => pc'[x] = pc[x]
    BY <1>1, <2>1, <2>2, GoesEffect DEF Places, HistoryPcs
  <2>4. Calling(HistoryPcs, Fetches)
    BY <2>1, <2>3 DEF Calling, HistoryPcs
  <2>5. HistoryType'
    <3> DEFINE s == [history.got EXCEPT ![g] = @ + 1]
    <3>1. history' = [history EXCEPT !.got = s]
      BY <2>1
    <3>2. s \in [Routines -> Nat]
      BY <1>1, <2>2 DEF HistoryType
    <3> HIDE DEF s
    <3> QED
      BY <1>1, <3>1, <3>2 DEF HistoryType
  <2>6. ServeType' /\ Handling({"deliver"})
    BY <1>1, <2>1 DEF ServeType, Handling, Loop
  <2> QED
    BY <2>1, <2>3, <2>4, <2>5, <2>6 DEF HistoryEffect, Moving
<1> QED
  BY <1>2, <1>3, <1>4 DEF HistoryServe, HistoryPeer

----------------------------------------------------------------------------
(* The handlers together.                                                  *)

HandlerInv == Types /\ ResponseInv /\ ReceiptInv
HistoryStep ==
    HistoryServe \/ HistoryPeer \/ \E g \in Routines : HistoryCall(g) \/ HistoryHelper(g)

\* A step is one of one package.
LEMMA OnePackage ==
    ASSUME HandlerInv, Next
    PROVE  \/ ReceiptsEffect /\ ReceiptInv' /\ PanicNeedsEnd'
           \/ MucEffect
           \/ ListenerEffect
           \/ HistoryEffect /\ HistoryStep
           \/ \E g \in Routines : Cancel(g)
<1> USE DEF HandlerInv
<1>1. CASE Serve \/ Peer
  BY <1>1, ReceiptsServeStep, ReceiptsPeerStep, MucServeEffect, MucPeerEffect,
     ListenerServeEffect, HistoryServeEffect DEF Serve, Peer, HistoryStep
<1>2. ASSUME NEW g \in Routines, Call(g)
      PROVE  \/ ReceiptsEffect /\ ReceiptInv' /\ PanicNeedsEnd'
             \/ MucEffect
             \/ ListenerEffect
             \/ HistoryEffect /\ HistoryStep
  BY <1>2, ReceiptsCallStep, MucCallEffect, ListenerCallEffect, HistoryCallEffect
     DEF Call, HistoryStep
<1>3. ASSUME NEW g \in Routines, Helper(g)
      PROVE  MucEffect \/ (HistoryEffect /\ HistoryStep)
  BY <1>3, MucHelperEffect, HistoryHelperEffect DEF Helper, HistoryStep
<1> QED
  BY <1>1, <1>2, <1>3 DEF Next

\* A handler of another package is entered and left while no helper of muc
\* has a response.
LEMMA ResponseAside ==
    ASSUME Types, ResponseInv, NEW A, Handling(A), "response" \notin A, muc' = muc
    PROVE  ResponseInv'
<1> SUFFICES ASSUME NEW g \in Routines, NEW n \in DOMAIN muc.helper[g],
                    muc.helper[g][n].at = "response"
             PROVE  serve' = [at |-> "response", who |-> g, n |-> n]
  BY DEF ResponseInv
<1>1. serve = [at |-> "response", who |-> g, n |-> n]
  BY DEF ResponseInv
<1>2. serve.at = "response"
  BY <1>1
<1> QED
  BY <1>1, <1>2 DEF Handling

\* Every step keeps the invariant of the handlers.
LEMMA HandlerStep ==
    ASSUME HandlerInv, PanicNeedsEnd, [Next]_vars
    PROVE  HandlerInv' /\ PanicNeedsEnd'
<1> USE DEF HandlerInv
<1>1. CASE ReceiptsEffect /\ ReceiptInv' /\ PanicNeedsEnd'
  <2>1. ResponseInv'
    BY <1>1, ResponseAside DEF ReceiptsEffect
  <2> QED
    BY <1>1, <2>1 DEF ReceiptsEffect, Types, MucType, HistoryType, ListenerType
<1>2. CASE MucEffect
  <2>1. ReceiptInv'
    <3>1. /\ Calling(MucPcs, MucOps) /\ Handling({"join", "response"})
          /\ ~panic /\ receipts' = receipts
      BY <1>2 DEF MucEffect
    <3>2. MucPcs \cap ReceiptPcs = {} /\ "message" \notin MucOps /\ "signal" \notin {"join", "response"}
      BY DEF MucPcs, ReceiptPcs, MucOps
    <3> QED
      BY <3>1, <3>2, ReceiptsAside
  <2> QED
    BY <1>2, <2>1 DEF MucEffect, PanicNeedsEnd, Types, ReceiptsType, HistoryType, ListenerType
<1>3. CASE ListenerEffect
  <2>1. ReceiptInv'
    <3>1. /\ Calling(ListenerPcs, ListenerOps) /\ Handling({"accept", "expect"})
          /\ ~panic /\ receipts' = receipts
      BY <1>3 DEF ListenerEffect
    <3>2. /\ ListenerPcs \cap ReceiptPcs = {} /\ "message" \notin ListenerOps
          /\ "signal" \notin {"accept", "expect"}
      BY DEF ListenerPcs, ReceiptPcs, ListenerOps
    <3> QED
      BY <3>1, <3>2, ReceiptsAside
  <2>2. ResponseInv'
    BY <1>3, ResponseAside DEF ListenerEffect
  <2> QED
    BY <1>3, <2>1, <2>2 DEF ListenerEffect, PanicNeedsEnd, Types, ReceiptsType, HistoryType, MucType
<1>4. CASE HistoryEffect
  <2>1. ReceiptInv'
    <3>1. /\ Calling(HistoryPcs, Fetches) /\ Handling({"deliver"})
          /\ ~panic /\ receipts' = receipts
      BY <1>4 DEF HistoryEffect
    <3>2. HistoryPcs \cap ReceiptPcs = {} /\ "message" \notin Fetches /\ "signal" \notin {"deliver"}
      BY DEF HistoryPcs, ReceiptPcs, Fetches
    <3> QED
      BY <3>1, <3>2, ReceiptsAside
  <2>2. ResponseInv'
    BY <1>4, ResponseAside DEF HistoryEffect
  <2> QED
    BY <1>4, <2>1, <2>2 DEF HistoryEffect, PanicNeedsEnd, Types, ReceiptsType, MucType, ListenerType
<1>5. ASSUME NEW g \in Routines, Cancel(g)
      PROVE  HandlerInv' /\ PanicNeedsEnd'
  <2>1. /\ UNCHANGED <<todo, pc, ret, inbox, serve, panic, receipts, muc, history, listener>>
        /\ ctx' = [ctx EXCEPT ![g] = TRUE] /\ ~panic
    BY <1>5 DEF Cancel
  <2>2. ctx' \in [Routines -> BOOLEAN] /\ \A x \in Routines : ctx[x] => ctx'[x]
    BY <2>1 DEF Types, CommonType
  <2>3. Types' /\ ResponseInv' /\ PanicNeedsEnd'
    BY <2>1, <2>2 DEF Types, CommonType, ServeType, ReceiptsType, HistoryType, MucType,
       ListenerType, ResponseInv, PanicNeedsEnd
  <2>4. ReceiptInv'
    BY <2>1, <2>2 DEF ReceiptInv, Channel, Registered, ReceiptFound, For
  <2> QED
    BY <2>3, <2>4
<1>6. CASE UNCHANGED vars
  <2>1. UNCHANGED <<todo, pc, ctx, ret, inbox, serve, panic, receipts, muc, history, listener>>
    BY <1>6 DEF vars, common
  <2>2. Types' /\ ResponseInv' /\ PanicNeedsEnd'
    BY <2>1 DEF Types, CommonType, ServeType, ReceiptsType, HistoryType, MucType,
       ListenerType, ResponseInv, PanicNeedsEnd
  <2>3. ReceiptInv'
    BY <2>1 DEF ReceiptInv, Channel, Registered, ReceiptFound, For
  <2> QED
    BY <2>2, <2>3
<1> QED
  BY <1>1, <1>2, <1>3, <1>4, <1>5, <1>6, OnePackage

\* It holds at first.
LEMMA HandlerInit ==
    ASSUME Init
    PROVE  HandlerInv /\ PanicNeedsEnd
<1>1. PICK s \in Scenarios : todo = s.calls
  BY DEF Init
<1>2. /\ todo \in [Routines -> Seq(Ops)]
      /\ \A g \in Routines : Once(todo[g], ReceiptOps) /\ Once(todo[g], Fetches)
  BY <1>1, ScenarioAssumption, OnceAssumption DEF ReceiptOps
<1>3. /\ pc = [g \in Routines |-> "idle"] /\ ctx = [g \in Routines |-> FALSE]
      /\ ret = [g \in Routines |-> None] /\ inbox = <<>> /\ serve = Loop /\ panic = FALSE
      /\ ReceiptsInit /\ MucInit /\ HistoryInit /\ ListenerInit
  BY DEF Init
<1>4. CommonType /\ ServeType /\ serve.at = "loop"
  <2>1. CommonType
    BY <1>2, <1>3 DEF CommonType, Places
  <2>2. serve.at = "loop" /\ DOMAIN serve = {"at", "who", "n"}
    BY <1>3 DEF Loop
  <2>3. <<>> \in Seq(Stanzas)
    OBVIOUS
  <2>4. panic \in BOOLEAN
    BY <1>3
  <2> QED
    BY <1>3, <2>1, <2>2, <2>3, <2>4 DEF ServeType
<1>5. ReceiptsType /\ receipts.sent = {} /\ receipts.closed = {} /\ receipts.lost = {}
  BY <1>3 DEF ReceiptsInit, ReceiptsType
<1>6. HistoryType
  BY <1>3 DEF HistoryInit, HistoryType, Helpers
<1>7. MucType /\ \A g \in Routines : muc.helper[g] = <<>>
  BY <1>3 DEF MucInit, MucType
<1>8. ListenerType
  BY <1>3 DEF ListenerInit, ListenerType
<1>9. ReceiptInv
  BY <1>2, <1>3, <1>4, <1>5 DEF ReceiptInv, Channel, Registered, ReceiptFound, For, ReceiptPcs
<1>10. ResponseInv
  BY <1>7 DEF ResponseInv
<1> QED
  BY <1>3, <1>4, <1>5, <1>6, <1>7, <1>8, <1>9, <1>10 DEF HandlerInv, Types, PanicNeedsEnd

\* The receipts' panic on a closed channel needs a context that has ended, the
\* listener's an application that closed it (receipts.go:199 against 284,
\* ibb.go:190 against listen.go:83): never the peer alone, whatever it sends
\* and however the goroutines are scheduled.
THEOREM PanicsNeedAnEnd == Spec => []PanicNeedsEnd
<1>1. Init => HandlerInv /\ PanicNeedsEnd
  BY HandlerInit
<1>2. HandlerInv /\ PanicNeedsEnd /\ [Next]_vars => (HandlerInv /\ PanicNeedsEnd)'
  BY HandlerStep
<1> QED
  BY <1>1, <1>2, PTL DEF Spec

\* A receipt that comes while its sender waits is never passed to Unhandled as
\* long as only one call made the map (receipts.go:253-257, 186-190).
THEOREM ReceiptsAreFound == Spec => []ReceiptFound
<1>1. Init => HandlerInv /\ PanicNeedsEnd
  BY HandlerInit
<1>2. HandlerInv /\ PanicNeedsEnd /\ [Next]_vars => (HandlerInv /\ PanicNeedsEnd)'
  BY HandlerStep
<1>3. HandlerInv => ReceiptFound
  BY DEF HandlerInv, ReceiptInv
<1> QED
  BY <1>1, <1>2, <1>3, PTL DEF Spec

----------------------------------------------------------------------------
(* What an iteration has seen.                                             *)

Is(m, kind, g) == m.kind = kind /\ m.who = g
Spots(q, kind, g) == {i \in DOMAIN q : Is(q[i], kind, g)}
On(g) == IF For("deliver", g) THEN 1 ELSE 0
Left(g) == Waiting("archived", g) + On(g)

\* The result does not overtake the messages of the archive.
Order(g) == \A i, j \in DOMAIN inbox :
    i < j /\ Is(inbox[i], "fin", g) => ~Is(inbox[j], "archived", g)

\* What is on its way for a query that was not sent, or whose result came.
Query(g) ==
    /\ Once(todo[g], Fetches)
    /\ history.helper[g] # None => NoneOf(todo[g], Fetches)
    /\ history.helper[g] \in {None, "query"}
         => history.sent[g] = 0 /\ history.got[g] = 0 /\ Left(g) = 0
    /\ history.helper[g] = None
         => g \notin history.tracked /\ g \notin history.closed /\ pc[g] \notin HistoryPcs
    /\ history.helper[g] = "end" => g \notin history.tracked
    /\ history.helper[g] \in {"remove", "end"} => g \in history.failed \/ Left(g) = 0
\* As long as the iterator is tracked, what the archive sent was seen or is on
\* its way; it is closed once nothing is.
Iterator(g) ==
    /\ pc[g] \in HistoryPcs => ret[g] = None
    /\ pc[g] \in HistoryPcs => g \in history.tracked \/ history.helper[g] = "end"
    /\ g \in history.tracked
         => /\ pc[g] \in HistoryPcs /\ g \notin history.closed
            /\ history.got[g] + Left(g) = history.sent[g]
    /\ pc[g] \in HistoryPcs /\ g \notin history.tracked
         => g \in history.closed /\ (g \in history.failed \/ history.got[g] = history.sent[g])
    /\ ret[g] = "end"
         => /\ history.helper[g] = "end"
            /\ g \in history.failed \/ history.got[g] = history.sent[g]
ArchiveInv == \A g \in Routines : Query(g) /\ Iterator(g) /\ Order(g)

\* Where stanzas of a kind are in a queue, as it grows and is taken from.
LEMMA SpotsFinite ==
    ASSUME NEW q \in Seq(Stanzas), NEW kind, NEW g
    PROVE  IsFiniteSet(Spots(q, kind, g)) /\ Cardinality(Spots(q, kind, g)) \in Nat
<1>1. DOMAIN q = 1 .. Len(q) /\ Len(q) \in Nat
  OBVIOUS
<1>2. IsFiniteSet(1 .. Len(q))
  BY <1>1, FS_Interval
<1>3. Spots(q, kind, g) \in SUBSET (1 .. Len(q))
  BY <1>1 DEF Spots
<1>4. IsFiniteSet(Spots(q, kind, g))
  BY <1>2, <1>3, FS_Subset
<1> QED
  BY <1>4, FS_CardinalityType

\* (A stanza is put in.)
LEMMA SpotsAppend ==
    ASSUME NEW q \in Seq(Stanzas), NEW m \in Stanzas, NEW kind, NEW g
    PROVE  Cardinality(Spots(Append(q, m), kind, g)) =
             IF Is(m, kind, g) THEN Cardinality(Spots(q, kind, g)) + 1
                               ELSE Cardinality(Spots(q, kind, g))
<1> DEFINE r == Append(q, m)
           P == Spots(q, kind, g)
           k == Len(q) + 1
<1>1. /\ DOMAIN r = DOMAIN q \cup {k} /\ k \notin DOMAIN q
      /\ r[k] = m /\ \A i \in DOMAIN q : r[i] = q[i]
  OBVIOUS
<1>2. Spots(r, kind, g) = IF Is(m, kind, g) THEN P \cup {k} ELSE P
  BY <1>1 DEF Spots
<1>3. k \notin P
  BY <1>1 DEF Spots
<1>4. IsFiniteSet(P)
  BY SpotsFinite
<1> HIDE DEF r, P, k
<1>5. Cardinality(P \cup {k}) = Cardinality(P) + 1
  BY <1>3, <1>4, FS_AddElement
<1> QED
  BY <1>2, <1>5 DEF r, P

\* (The first one is taken out.)
LEMMA SpotsTail ==
    ASSUME NEW q \in Seq(Stanzas), q # <<>>, NEW kind, NEW g
    PROVE  Cardinality(Spots(q, kind, g)) =
             IF Is(Head(q), kind, g) THEN Cardinality(Spots(Tail(q), kind, g)) + 1
                                     ELSE Cardinality(Spots(Tail(q), kind, g))
<1> DEFINE r == Tail(q)
           P == Spots(q, kind, g)
           R == Spots(r, kind, g)
           U == P \ {1}
           f == [i \in R |-> i + 1]
<1>1. /\ \A i \in DOMAIN r : i \in Nat /\ i + 1 \in DOMAIN q /\ r[i] = q[i + 1]
      /\ \A i \in DOMAIN q : i # 1 => i \in Nat /\ i - 1 \in DOMAIN r /\ (i - 1) + 1 = i
      /\ 1 \in DOMAIN q /\ Head(q) = q[1] /\ r \in Seq(Stanzas)
  OBVIOUS
<1>2. f \in Bijection(R, U)
  <2>1. \A i \in R : i \in Nat /\ i + 1 \in U
    BY <1>1 DEF Spots
  <2>2. \A j \in U : j - 1 \in R /\ (j - 1) + 1 = j
    BY <1>1 DEF Spots
  <2> HIDE DEF R, U, P, r
  <2>3. f \in [R -> U]
    BY <2>1
  <2>4. \A a, b \in R : f[a] = f[b] => a = b
    BY <2>1
  <2>5. \A j \in U : \E i \in R : f[i] = j
    BY <2>2
  <2> QED
    BY <2>3, <2>4, <2>5 DEF Bijection, Injection, Surjection, IsInjective
<1>3. IsFiniteSet(R) /\ IsFiniteSet(P)
  BY <1>1, SpotsFinite
<1>4. Cardinality(U) = Cardinality(R) /\ IsFiniteSet(U)
  BY <1>2, <1>3, FS_Bijection DEF ExistsBijection
<1>5. IF Is(Head(q), kind, g) THEN P = U \cup {1} /\ 1 \notin U ELSE P = U
  BY <1>1 DEF Spots
<1> HIDE DEF P, R, U
<1>6. 1 \notin U => Cardinality(U \cup {1}) = Cardinality(U) + 1
  BY <1>4, FS_AddElement
<1> QED
  BY <1>4, <1>5, <1>6 DEF P, R

\* The same of the inbox: how many stanzas of a kind wait, and their order.
LEMMA WaitingNat ==
    ASSUME inbox \in Seq(Stanzas), NEW kind, NEW g
    PROVE  /\ Waiting(kind, g) \in Nat
           /\ Waiting(kind, g) = 0 => \A i \in DOMAIN inbox : ~Is(inbox[i], kind, g)
<1>1. Waiting(kind, g) = Cardinality(Spots(inbox, kind, g))
  BY DEF Waiting, Spots, Is
<1>2. IsFiniteSet(Spots(inbox, kind, g)) /\ Cardinality(Spots(inbox, kind, g)) \in Nat
  BY SpotsFinite
<1>3. Waiting(kind, g) = 0 => Spots(inbox, kind, g) = {}
  BY <1>1, <1>2, FS_EmptySet
<1> QED
  BY <1>1, <1>2, <1>3 DEF Spots

\* (A stanza is put in.)
LEMMA InboxAppend ==
    ASSUME inbox \in Seq(Stanzas), NEW m \in Stanzas, inbox' = Append(inbox, m), NEW g
    PROVE  /\ \A kind : Waiting(kind, g)' = IF Is(m, kind, g) THEN Waiting(kind, g) + 1
                                                              ELSE Waiting(kind, g)
           /\ Order(g) /\ (Is(m, "archived", g) => Waiting("fin", g) = 0) => Order(g)'
<1>1. ASSUME NEW kind
      PROVE  Waiting(kind, g)' = IF Is(m, kind, g) THEN Waiting(kind, g) + 1
                                                   ELSE Waiting(kind, g)
  <2>1. /\ Waiting(kind, g) = Cardinality(Spots(inbox, kind, g))
        /\ Waiting(kind, g)' = Cardinality(Spots(Append(inbox, m), kind, g))
    BY DEF Waiting, Spots, Is
  <2> QED
    BY <2>1, SpotsAppend
<1>2. ASSUME Order(g), Is(m, "archived", g) => Waiting("fin", g) = 0
      PROVE  Order(g)'
  <2> SUFFICES ASSUME NEW i \in DOMAIN inbox', NEW j \in DOMAIN inbox', i < j,
                      Is(inbox'[i], "fin", g), Is(inbox'[j], "archived", g)
               PROVE  FALSE
    BY DEF Order, Is
  <2>1. /\ i \in DOMAIN inbox /\ inbox'[i] = inbox[i]
        /\ (j \in DOMAIN inbox /\ inbox'[j] = inbox[j]) \/ inbox'[j] = m
    OBVIOUS
  <2>2. CASE inbox'[j] = m
    BY <1>2, <2>1, <2>2, WaitingNat
  <2>3. CASE j \in DOMAIN inbox /\ inbox'[j] = inbox[j]
    BY <1>2, <2>1, <2>3 DEF Order
  <2> QED
    BY <2>1, <2>2, <2>3
<1> QED
  BY <1>1, <1>2

\* (The first one is taken out.)
LEMMA InboxTail ==
    ASSUME inbox \in Seq(Stanzas), inbox # <<>>, inbox' = Tail(inbox), NEW g
    PROVE  /\ \A kind : Waiting(kind, g) = IF Is(Head(inbox), kind, g) THEN Waiting(kind, g)' + 1
                                                                     ELSE Waiting(kind, g)'
           /\ \A kind : Waiting(kind, g)' \in Nat
           /\ Order(g) => Order(g)'
           /\ Order(g) /\ Is(Head(inbox), "fin", g) => Waiting("archived", g) = 0
<1> DEFINE H == Head(inbox)
           q == Tail(inbox)
<1>1. /\ q \in Seq(Stanzas) /\ H = inbox[1] /\ 1 \in DOMAIN inbox
      /\ \A i \in DOMAIN q : i \in Nat /\ i + 1 \in DOMAIN inbox /\ q[i] = inbox[i + 1]
      /\ \A i \in DOMAIN inbox : i \in Nat /\ i >= 1
  OBVIOUS
<1>2. ASSUME NEW kind
      PROVE  /\ Waiting(kind, g) = IF Is(H, kind, g) THEN Waiting(kind, g)' + 1
                                                     ELSE Waiting(kind, g)'
             /\ Waiting(kind, g)' \in Nat
  <2>1. /\ Waiting(kind, g) = Cardinality(Spots(inbox, kind, g))
        /\ Waiting(kind, g)' = Cardinality(Spots(q, kind, g))
    BY DEF Waiting, Spots, Is
  <2> QED
    <3>1. Cardinality(Spots(inbox, kind, g)) =
             IF Is(H, kind, g) THEN Cardinality(Spots(q, kind, g)) + 1
                               ELSE Cardinality(Spots(q, kind, g))
      BY SpotsTail
    <3>2. Cardinality(Spots(q, kind, g)) \in Nat
      BY <1>1, SpotsFinite
    <3> QED
      BY <2>1, <3>1, <3>2
<1>3. ASSUME Order(g) PROVE Order(g)'
  <2> SUFFICES ASSUME NEW i \in DOMAIN q, NEW j \in DOMAIN q, i < j,
                      Is(q[i], "fin", g), Is(q[j], "archived", g)
               PROVE  FALSE
    BY DEF Order, Is
  <2> HIDE DEF q
  <2>1. i + 1 < j + 1
    BY <1>1
  <2> QED
    BY <1>1, <1>3, <2>1 DEF Order
<1>4. ASSUME Order(g), Is(H, "fin", g)
      PROVE  Waiting("archived", g) = 0
  <2>1. ASSUME NEW j \in DOMAIN inbox
        PROVE  ~Is(inbox[j], "archived", g)
    <3>1. CASE j = 1
      BY <1>1, <1>4, <3>1 DEF Is
    <3>2. CASE j # 1
      <4>1. 1 < j
        BY <1>1, <3>2
      <4> QED
        BY <1>1, <1>4, <4>1 DEF Order
    <3> QED
      BY <3>1, <3>2
  <2>2. Spots(inbox, "archived", g) = {}
    BY <2>1 DEF Spots
  <2> QED
    BY <2>2, FS_EmptySet DEF Waiting, Spots, Is
<1> QED
  BY <1>2, <1>3, <1>4

\* What concerns one query is as it was.
Same(x) ==
    /\ todo'[x] = todo[x] /\ pc'[x] = pc[x] /\ ret'[x] = ret[x]
    /\ history'.helper[x] = history.helper[x] /\ history'.sent[x] = history.sent[x]
    /\ history'.got[x] = history.got[x]
    /\ (x \in history'.tracked <=> x \in history.tracked)
    /\ (x \in history'.closed <=> x \in history.closed)
    /\ (x \in history'.failed <=> x \in history.failed)
    /\ Left(x)' = Left(x) /\ Order(x)'

\* (Then so is the invariant.)
LEMMA SameQuery ==
    ASSUME NEW x \in Routines, Query(x), Iterator(x), Order(x), Same(x)
    PROVE  Query(x)' /\ Iterator(x)' /\ Order(x)'
<1>1. Query(x)'
  BY DEF Query, Same
<1>2. Iterator(x)'
  BY DEF Iterator, Same
<1> QED
  BY <1>1, <1>2 DEF Same

\* Stanzas of other packages do not count.
LEMMA InboxAside ==
    ASSUME inbox \in Seq(Stanzas), NEW K, Moving(K), K \cap HistoryKinds = {},
           NEW g, Order(g)
    PROVE  Order(g)' /\ Waiting("archived", g)' = Waiting("archived", g)
<1>1. CASE inbox' = inbox
  BY <1>1 DEF Order, Waiting
<1>2. CASE inbox # <<>> /\ Head(inbox).kind \in K /\ inbox' = Tail(inbox)
  <2>1. ~Is(Head(inbox), "archived", g)
    BY <1>2 DEF Is, HistoryKinds
  <2> QED
    BY <1>2, <2>1, InboxTail
<1>3. ASSUME NEW m \in Stanzas, m.kind \in K, inbox' = Append(inbox, m)
      PROVE  Order(g)' /\ Waiting("archived", g)' = Waiting("archived", g)
  <2>1. ~Is(m, "archived", g)
    BY <1>3 DEF Is, HistoryKinds
  <2> QED
    BY <1>3, <2>1, InboxAppend
<1> QED
  BY <1>1, <1>2, <1>3 DEF Moving

\* The steps of the other packages stand aside.
LEMMA ArchiveAside ==
    ASSUME Types, ArchiveInv, NEW P, NEW O, NEW K, NEW A,
           Calling(P, O), Moving(K), Handling(A), NotEnded, history' = history,
           P \cap HistoryPcs = {}, O \cap Fetches = {}, K \cap HistoryKinds = {}, "deliver" \notin A
    PROVE  ArchiveInv'
<1> SUFFICES ASSUME NEW g \in Routines
             PROVE  Query(g)' /\ Iterator(g)' /\ Order(g)'
  BY DEF ArchiveInv
<1>1. Query(g) /\ Iterator(g) /\ Order(g) /\ inbox \in Seq(Stanzas) /\ todo[g] \in Seq(Ops)
  BY DEF ArchiveInv, Types, ServeType, CommonType
<1>2. Order(g)' /\ Left(g)' = Left(g)
  <2>1. For("deliver", g)' = For("deliver", g)
    BY DEF Handling, For
  <2>2. Order(g)' /\ Waiting("archived", g)' = Waiting("archived", g)
    BY <1>1, InboxAside
  <2> QED
    BY <2>1, <2>2 DEF Left, On
<1>3. CASE todo'[g] = todo[g] /\ pc'[g] = pc[g] /\ ret'[g] = ret[g]
  <2>1. Same(g)
    BY <1>2, <1>3 DEF Same
  <2> QED
    BY <1>1, <2>1, SameQuery
<1>4. CASE /\ pc[g] \in P \cup {"idle"} /\ pc'[g] \in P \cup {"idle"}
           /\ \/ todo'[g] = todo[g]
              \/ todo[g] # <<>> /\ Head(todo[g]) \in O /\ todo'[g] = Tail(todo[g])
  <2>1. pc[g] \notin HistoryPcs /\ pc'[g] \notin HistoryPcs
    BY <1>4 DEF HistoryPcs
  <2>2. /\ Once(todo[g], Fetches) => Once(todo'[g], Fetches)
        /\ NoneOf(todo[g], Fetches) => NoneOf(todo'[g], Fetches)
    BY <1>1, <1>4, TailOnce
  <2>3. Query(g)'
    BY <1>1, <1>2, <2>1, <2>2 DEF Query
  <2>4. Iterator(g)'
    BY <1>1, <1>2, <2>1 DEF Iterator, NotEnded
  <2> QED
    BY <1>2, <2>3, <2>4
<1> QED
  BY <1>3, <1>4 DEF Calling

\* A step that neither Serve nor the inbox takes part in.
LEMMA QuietInbox ==
    ASSUME inbox' = inbox, serve' = serve, NEW x, Order(x)
    PROVE  Left(x)' = Left(x) /\ Order(x)'
BY DEF Left, On, For, Waiting, Order

\* What is left is a number.
LEMMA LeftNat ==
    ASSUME inbox \in Seq(Stanzas), NEW x
    PROVE  /\ Left(x) \in Nat /\ Waiting("archived", x) \in Nat
           /\ (Left(x) = 0 => Waiting("archived", x) = 0 /\ ~For("deliver", x))
BY WaitingNat DEF Left, On

\* Fetch, Next and Close of the iterator, seen from the archive.
LEMMA ArchiveCall ==
    ASSUME Types, ArchiveInv, NEW g \in Routines, HistoryCall(g)
    PROVE  ArchiveInv'
<1>1. CommonType /\ HistoryType /\ inbox \in Seq(Stanzas) /\ todo[g] \in Seq(Ops)
  BY DEF Types, ServeType, CommonType
<1>2. UNCHANGED <<inbox, serve>>
  BY DEF HistoryCall, FetchIQ, NextEnds, Continue, CloseIter
<1>3. \A x \in Routines : Query(x) /\ Iterator(x) /\ Order(x)
  BY DEF ArchiveInv
<1>4. \A x \in Routines : Left(x)' = Left(x) /\ Order(x)'
  BY <1>2, <1>3, QuietInbox
<1>5. CASE FetchIQ(g)
  <2>1. PICK op \in Fetches, l \in {"next", "nextbreak"} : Calls(g, op, l)
    BY <1>5 DEF FetchIQ, Fetches
  <2>2. op \in Ops /\ l \in Places
    BY <2>1 DEF Fetches, Ops, Places, HistoryPcs
  <2>3. /\ pc[g] = "idle" /\ pc'[g] = l /\ ret'[g] = None
        /\ todo[g] # <<>> /\ Head(todo[g]) = op /\ todo'[g] = Tail(todo[g])
        /\ \A x \in Routines : x # g => todo'[x] = todo[x] /\ pc'[x] = pc[x] /\ ret'[x] = ret[x]
    BY <1>1, <2>1, <2>2, CallsEffect
  <2>4. /\ history'.tracked = history.tracked \cup {g}
        /\ history'.helper = [history.helper EXCEPT ![g] = "query"]
        /\ UNCHANGED <<history.closed, history.sent, history.got, history.failed>>
    BY <1>1, <1>5 DEF FetchIQ, HistoryType
  <2>5. history'.helper[g] = "query" /\ \A x \in Routines : x # g => history'.helper[x] = history.helper[x]
    BY <1>1, <2>4 DEF HistoryType
  <2>6. ASSUME NEW x \in Routines, x # g
        PROVE  Query(x)' /\ Iterator(x)' /\ Order(x)'
    <3>1. Same(x)
      BY <1>4, <2>3, <2>4, <2>5, <2>6 DEF Same
    <3> QED
      BY <1>3, <3>1, SameQuery
  <2>7. Query(g)' /\ Iterator(g)'
    <3>1. Query(g) /\ Iterator(g)
      BY <1>3
    <3>2. Once(todo'[g], Fetches) /\ NoneOf(todo'[g], Fetches) /\ ~NoneOf(todo[g], Fetches)
      BY <1>1, <2>1, <2>3, <3>1, TailOnce DEF Query
    <3>3. history.helper[g] = None
      BY <3>1, <3>2 DEF Query
    <3>4. /\ history.sent[g] = 0 /\ history.got[g] = 0 /\ Left(g) = 0
          /\ g \notin history.tracked /\ g \notin history.closed
      BY <3>1, <3>3 DEF Query
    <3>5. l \in HistoryPcs
      BY <2>1 DEF HistoryPcs
    <3>6. Query(g)'
      BY <1>4, <2>4, <2>5, <3>2, <3>4 DEF Query, None
    <3>7. Iterator(g)'
      <4>1. history'.got[g] + Left(g)' = history'.sent[g]
        BY <1>4, <2>4, <3>4
      <4>2. g \in history'.tracked /\ g \notin history'.closed /\ ret'[g] # "end"
        BY <2>3, <2>4, <3>4 DEF None
      <4> QED
        BY <2>3, <3>5, <4>1, <4>2 DEF Iterator
    <3> QED
      BY <3>6, <3>7
  <2> QED
    BY <1>4, <2>6, <2>7 DEF ArchiveInv
<1>6. CASE NextEnds(g)
  <2>1. pc[g] \in HistoryPcs /\ g \in history.closed /\ Returns(g, "end") /\ UNCHANGED history
    BY <1>6 DEF NextEnds, Ready, HistoryPcs
  <2>2. /\ todo' = todo /\ pc'[g] = "idle"
        /\ \A x \in Routines : x # g => pc'[x] = pc[x] /\ ret'[x] = ret[x]
    BY <1>1, <2>1, ReturnsEffect
  <2>3. ASSUME NEW x \in Routines, x # g
        PROVE  Query(x)' /\ Iterator(x)' /\ Order(x)'
    <3>1. Same(x)
      BY <1>4, <2>1, <2>2, <2>3 DEF Same
    <3> QED
      BY <1>3, <3>1, SameQuery
  <2>4. Query(g) /\ Iterator(g)
    BY <1>3
  <2>5. g \notin history.tracked /\ history.helper[g] = "end"
    BY <2>1, <2>4 DEF Iterator
  <2>6. Iterator(g)'
    BY <2>1, <2>2, <2>4, <2>5 DEF Iterator, HistoryPcs
  <2>7. Query(g)'
    BY <1>4, <2>1, <2>2, <2>4, <2>5 DEF Query, None
  <2> QED
    BY <1>4, <2>3, <2>6, <2>7 DEF ArchiveInv
<1>7. CASE Continue(g)
  <2>1. /\ pc[g] \in {"work", "workbreak"} /\ UNCHANGED history
        /\ \E l \in {"next", "nextbreak", "close"} : Goes(g, l)
    BY <1>7 DEF Continue, At
  <2>2. PICK l \in {"next", "nextbreak", "close"} : Goes(g, l)
    BY <2>1
  <2>3. /\ pc'[g] = l /\ todo' = todo /\ ret' = ret
        /\ \A x \in Routines : x # g => pc'[x] = pc[x]
    BY <1>1, <2>1, <2>2, GoesEffect DEF Places, HistoryPcs
  <2>4. pc[g] \in HistoryPcs /\ pc'[g] \in HistoryPcs
    BY <2>1, <2>2, <2>3 DEF HistoryPcs
  <2>5. ASSUME NEW x \in Routines, x # g
        PROVE  Query(x)' /\ Iterator(x)' /\ Order(x)'
    <3>1. Same(x)
      BY <1>4, <2>1, <2>3, <2>5 DEF Same
    <3> QED
      BY <1>3, <3>1, SameQuery
  <2>6. Query(g)' /\ Iterator(g)'
    <3>1. Query(g) /\ Iterator(g)
      BY <1>3
    <3>2. Query(g)'
      BY <1>4, <2>1, <2>3, <2>4, <3>1 DEF Query
    <3>3. Iterator(g)'
      BY <1>4, <2>1, <2>3, <2>4, <3>1 DEF Iterator
    <3> QED
      BY <3>2, <3>3
  <2> QED
    BY <1>4, <2>5, <2>6 DEF ArchiveInv
<1>8. CASE CloseIter(g)
  <2>1. pc[g] = "close" /\ Returns(g, "closed") /\ history' = Removed(g)
    BY <1>8 DEF CloseIter, At
  <2>2. /\ todo' = todo /\ pc'[g] = "idle" /\ ret'[g] = "closed"
        /\ \A x \in Routines : x # g => pc'[x] = pc[x] /\ ret'[x] = ret[x]
    BY <1>1, <2>1, ReturnsEffect
  <2>3. /\ history'.tracked = history.tracked \ {g}
        /\ \A x : x # g => (x \in history'.closed <=> x \in history.closed)
        /\ UNCHANGED <<history.helper, history.sent, history.got, history.failed>>
    BY <1>1, <2>1 DEF Removed, HistoryType
  <2>4. ASSUME NEW x \in Routines, x # g
        PROVE  Query(x)' /\ Iterator(x)' /\ Order(x)'
    <3>1. Same(x)
      BY <1>4, <2>2, <2>3, <2>4 DEF Same
    <3> QED
      BY <1>3, <3>1, SameQuery
  <2>5. Query(g) /\ Iterator(g) /\ history.helper[g] # None
    BY <1>3, <2>1 DEF Query, HistoryPcs
  <2>6. Query(g)'
    BY <1>4, <2>2, <2>3, <2>5 DEF Query
  <2>7. Iterator(g)'
    BY <2>2, <2>3, <2>5 DEF Iterator, HistoryPcs
  <2> QED
    BY <1>4, <2>4, <2>6, <2>7 DEF ArchiveInv
<1> QED
  BY <1>5, <1>6, <1>7, <1>8 DEF HistoryCall

\* The goroutine of the query: it takes the iterator out only after the
\* result, or after it failed.
LEMMA ArchiveHelper ==
    ASSUME Types, ArchiveInv, NEW g \in Routines, HistoryHelper(g)
    PROVE  ArchiveInv'
<1>1. HistoryType /\ inbox \in Seq(Stanzas)
  BY DEF Types, ServeType
<1>2. UNCHANGED <<common, inbox, serve>>
  BY DEF HistoryHelper, SendQuery, QueryCancelled, RemoveQuery
<1>3. \A x \in Routines : Query(x) /\ Iterator(x) /\ Order(x)
  BY DEF ArchiveInv
<1>4. \A x \in Routines : Left(x)' = Left(x) /\ Order(x)'
  BY <1>2, <1>3, QuietInbox
<1>5. todo' = todo /\ pc' = pc /\ ret' = ret
  BY <1>2 DEF common
<1>6. PICK l \in {"wait", "remove", "end"} :
        /\ history'.helper = [history.helper EXCEPT ![g] = l]
        /\ UNCHANGED <<history.sent, history.got>>
        /\ \A x : x # g => /\ x \in history'.tracked <=> x \in history.tracked
                           /\ x \in history'.closed <=> x \in history.closed
                           /\ x \in history'.failed <=> x \in history.failed
        /\ \/ /\ history.helper[g] \in {"query", "wait"} /\ l # "end"
              /\ l = "wait" => history.helper[g] = "query" /\ history'.failed = history.failed
              /\ l = "remove" => g \in history'.failed
              /\ UNCHANGED <<history.tracked, history.closed>>
           \/ /\ history.helper[g] = "remove" /\ l = "end" /\ UNCHANGED history.failed
              /\ g \notin history'.tracked
              /\ g \in history'.closed <=> g \in history.closed \cup history.tracked
  <2>1. CASE history.helper[g] = "query" /\ history' = [history EXCEPT !.helper[g] = "wait"]
    BY <1>1, <2>1 DEF HistoryType
  <2>2. CASE /\ history.helper[g] \in {"query", "wait"}
             /\ history' = [history EXCEPT !.helper[g] = "remove", !.failed = @ \cup {g}]
    BY <1>1, <2>2 DEF HistoryType
  <2>3. CASE history.helper[g] = "remove" /\ history' = [Removed(g) EXCEPT !.helper[g] = "end"]
    <3>1. /\ Removed(g).helper = history.helper /\ Removed(g).sent = history.sent
          /\ Removed(g).got = history.got /\ Removed(g).failed = history.failed
          /\ Removed(g).tracked = history.tracked \ {g}
          /\ Removed(g).closed = IF g \in history.tracked THEN history.closed \cup {g} ELSE history.closed
          /\ DOMAIN Removed(g) = {"tracked", "closed", "helper", "sent", "got", "failed"}
      BY <1>1 DEF HistoryType, Removed
    <3>2. /\ history'.helper = [history.helper EXCEPT ![g] = "end"]
          /\ history'.sent = history.sent
          /\ history'.got = history.got /\ history'.failed = history.failed
          /\ history'.tracked = history.tracked \ {g}
          /\ history'.closed = IF g \in history.tracked THEN history.closed \cup {g} ELSE history.closed
      BY <2>3, <3>1
    <3> QED
      BY <2>3, <3>2
  <2> QED
    BY <2>1, <2>2, <2>3 DEF HistoryHelper, SendQuery, QueryCancelled, RemoveQuery
<1>7. history'.helper[g] = l /\ \A x \in Routines : x # g => history'.helper[x] = history.helper[x]
  BY <1>1, <1>6 DEF HistoryType
<1>8. ASSUME NEW x \in Routines, x # g
      PROVE  Query(x)' /\ Iterator(x)' /\ Order(x)'
  <2>1. Same(x)
    BY <1>4, <1>5, <1>6, <1>7, <1>8 DEF Same
  <2> QED
    BY <1>3, <2>1, SameQuery
<1>9. Query(g)' /\ Iterator(g)'
  <2>1. Query(g) /\ Iterator(g) /\ Left(g)' = Left(g)
    BY <1>3, <1>4
  <2>2. Query(g)'
    BY <1>5, <1>6, <1>7, <2>1 DEF Query, None
  <2>3. Iterator(g)'
    <3>1. CASE l # "end"
      BY <1>5, <1>6, <1>7, <2>1, <3>1 DEF Iterator
    <3>2. CASE l = "end"
      <4>1. history.helper[g] = "remove" /\ (g \in history.failed \/ Left(g) = 0)
        BY <1>6, <2>1, <3>2 DEF Query
      <4>2. Left(g) = 0 /\ g \in history.tracked => history.got[g] = history.sent[g]
        <5>1. history.got[g] \in Nat
          BY <1>1 DEF HistoryType
        <5> QED
          BY <2>1, <5>1 DEF Iterator
      <4> QED
        BY <1>5, <1>6, <1>7, <2>1, <3>2, <4>1, <4>2 DEF Iterator
    <3> QED
      BY <3>1, <3>2
  <2> QED
    BY <2>2, <2>3
<1> QED
  BY <1>4, <1>8, <1>9 DEF ArchiveInv

\* The archive sends its messages before the result.
LEMMA ArchivePeer ==
    ASSUME Types, ArchiveInv, NEW g \in Routines, ArchiveSends(g)
    PROVE  ArchiveInv'
<1>1. HistoryType /\ inbox \in Seq(Stanzas)
  BY DEF Types, ServeType
<1>2. \A x \in Routines : Query(x) /\ Iterator(x) /\ Order(x)
  BY DEF ArchiveInv
<1>3. /\ history.helper[g] = "wait" /\ Waiting("fin", g) = 0 /\ serve' = serve
      /\ todo' = todo /\ pc' = pc /\ ret' = ret
  BY DEF ArchiveSends, common
<1>4. PICK k \in HistoryKinds : /\ inbox' = Append(inbox, Stanza(k, g, 0))
                                /\ k = "archived" => history' = [history EXCEPT !.sent[g] = @ + 1]
                                /\ k = "fin" => history' = history
  BY DEF ArchiveSends, Sends, Answers, HistoryKinds
<1> DEFINE m == Stanza(k, g, 0)
<1>5. /\ m \in Stanzas /\ inbox' = Append(inbox, m)
      /\ \A kind, x : Is(m, kind, x) <=> kind = k /\ x = g
  BY <1>4 DEF Stanza, Stanzas, Is, HistoryKinds
<1> HIDE DEF m
<1>6. \A x \in Routines : For("deliver", x)' = For("deliver", x)
  BY <1>3 DEF For
<1>7. /\ history'.sent[g] = IF k = "archived" THEN history.sent[g] + 1 ELSE history.sent[g]
      /\ UNCHANGED <<history.tracked, history.closed, history.helper, history.got, history.failed>>
      /\ \A x \in Routines : x # g => history'.sent[x] = history.sent[x]
  <2>1. CASE k = "archived"
    <3> DEFINE s == [history.sent EXCEPT ![g] = @ + 1]
    <3>1. history' = [history EXCEPT !.sent = s]
      BY <1>4, <2>1
    <3>2. s[g] = history.sent[g] + 1 /\ \A x \in Routines : x # g => s[x] = history.sent[x]
      BY <1>1 DEF HistoryType
    <3> HIDE DEF s
    <3> QED
      BY <1>1, <2>1, <3>1, <3>2 DEF HistoryType
  <2>2. CASE k = "fin"
    BY <1>4, <2>2
  <2> QED
    BY <1>4, <2>1, <2>2 DEF HistoryKinds
<1>8. ASSUME NEW x \in Routines, x # g
      PROVE  Query(x)' /\ Iterator(x)' /\ Order(x)'
  <2>1. ~Is(m, "archived", x)
    BY <1>5, <1>8
  <2>2. Order(x)' /\ Waiting("archived", x)' = Waiting("archived", x)
    BY <1>1, <1>2, <1>5, <2>1, InboxAppend
  <2>3. Left(x)' = Left(x)
    BY <1>6, <2>2 DEF Left, On
  <2>4. Same(x)
    BY <1>3, <1>7, <1>8, <2>2, <2>3 DEF Same
  <2> QED
    BY <1>2, <2>4, SameQuery
<1>9. Order(g)'
  BY <1>1, <1>2, <1>3, <1>5, InboxAppend
<1>10. Left(g)' = IF k = "archived" THEN Left(g) + 1 ELSE Left(g)
  <2>1. Waiting("archived", g)' = IF k = "archived" THEN Waiting("archived", g) + 1
                                                    ELSE Waiting("archived", g)
    BY <1>1, <1>5, InboxAppend
  <2>2. Waiting("archived", g) \in Nat
    BY <1>1, LeftNat
  <2>3. On(g)' = On(g) /\ On(g) \in Nat
    BY <1>6 DEF On
  <2> HIDE DEF On
  <2> QED
    BY <2>1, <2>2, <2>3 DEF Left
<1>11. Query(g)' /\ Iterator(g)'
  <2>1. Query(g) /\ Iterator(g)
    BY <1>2
  <2>2. Query(g)'
    BY <1>3, <1>7, <2>1 DEF Query, None
  <2>3. g \in history.tracked => history'.got[g] + Left(g)' = history'.sent[g]
    <3>1. Left(g) \in Nat /\ history.got[g] \in Nat
      BY <1>1, LeftNat DEF HistoryType
    <3> QED
      BY <1>7, <1>10, <2>1, <3>1 DEF Iterator
  <2>4. Iterator(g)'
    BY <1>3, <1>7, <2>1, <2>3 DEF Iterator
  <2> QED
    BY <2>2, <2>4
<1> QED
  BY <1>8, <1>9, <1>11 DEF ArchiveInv

\* HandleMessage and HandleIQ: a message of the archive is handed over before
\* the next stanza is looked at.
LEMMA ArchiveServe ==
    ASSUME Types, ArchiveInv, HistoryServe
    PROVE  ArchiveInv'
<1>1. CommonType /\ ServeType /\ HistoryType /\ inbox \in Seq(Stanzas)
  BY DEF Types, ServeType
<1>2. \A x \in Routines : Query(x) /\ Iterator(x) /\ Order(x)
  BY DEF ArchiveInv
<1>3. CASE HandleArchived
  <2>1. PICK g : /\ g = Head(inbox).who
                 /\ serve = Loop /\ inbox # <<>> /\ Head(inbox).kind = "archived"
                 /\ inbox' = Tail(inbox) /\ todo' = todo /\ pc' = pc /\ ret' = ret
                 /\ history' = history
                 /\ g \in history.tracked => serve' = [at |-> "deliver", who |-> g, n |-> 0]
                 /\ g \notin history.tracked => serve' = serve
    BY <1>3 DEF HandleArchived, Takes, InLoop, Held, Tracked, common
  <2>2. \A kind, x : Is(Head(inbox), kind, x) <=> kind = "archived" /\ x = g
    BY <2>1 DEF Is
  <2>3. \A x \in Routines : ~For("deliver", x)
    BY <2>1 DEF Loop, For
  <2>4. \A x \in Routines : For("deliver", x)' <=> x = g /\ g \in history.tracked
    <3>1. CASE g \in history.tracked
      <4>1. serve'.at = "deliver" /\ serve'.who = g
        BY <2>1, <3>1
      <4> QED
        BY <3>1, <4>1 DEF For
    <3>2. CASE g \notin history.tracked
      BY <2>1, <2>3, <3>2 DEF For
    <3> QED
      BY <3>1, <3>2
  <2>5. \A x \in Routines :
           /\ Order(x)' /\ Waiting("archived", x)' \in Nat
           /\ Waiting("archived", x) = IF x = g THEN Waiting("archived", x)' + 1
                                                ELSE Waiting("archived", x)'
    BY <1>1, <1>2, <2>1, <2>2, InboxTail
  <2>6. ASSUME NEW x \in Routines, x # g \/ g \in history.tracked
        PROVE  Query(x)' /\ Iterator(x)' /\ Order(x)'
    <3>1. Left(x)' = Left(x)
      BY <2>3, <2>4, <2>5, <2>6 DEF Left, On
    <3>2. Same(x)
      BY <2>1, <2>5, <3>1 DEF Same
    <3> QED
      BY <1>2, <3>2, SameQuery
  <2>7. ASSUME g \in Routines, g \notin history.tracked
        PROVE  Query(g)' /\ Iterator(g)' /\ Order(g)'
    <3>1. Query(g) /\ Iterator(g) /\ Order(g)'
      BY <1>2, <2>5, <2>7
    <3>2. Left(g) # 0
      BY <2>3, <2>5, <2>7 DEF Left, On
    <3>3. Query(g)'
      BY <2>1, <3>1, <3>2 DEF Query
    <3>4. Iterator(g)'
      BY <2>1, <2>7, <3>1 DEF Iterator
    <3> QED
      BY <3>1, <3>3, <3>4
  <2> QED
    BY <2>6, <2>7 DEF ArchiveInv
<1>4. CASE Deliver
  <2>1. PICK g, l : /\ g = serve.who /\ l \in {"work", "workbreak"}
                    /\ serve.at = "deliver" /\ pc[g] \in {"next", "nextbreak"}
                    /\ serve' = Loop /\ Goes(g, l) /\ inbox' = inbox
                    /\ history' = [history EXCEPT !.got[g] = @ + 1]
    BY <1>4 DEF Deliver, Serving, Ready
  <2>2. g \in Routines
    BY <1>1, <2>1 DEF ServeType
  <2>3. /\ pc'[g] = l /\ todo' = todo /\ ret' = ret
        /\ \A x \in Routines : x # g => pc'[x] = pc[x]
    BY <1>1, <2>1, <2>2, GoesEffect DEF Places, HistoryPcs
  <2>4. pc[g] \in HistoryPcs /\ pc'[g] \in HistoryPcs
    BY <2>1, <2>3 DEF HistoryPcs
  <2>5. /\ history'.got[g] = history.got[g] + 1 /\ history.got[g] \in Nat
        /\ UNCHANGED <<history.tracked, history.closed, history.helper, history.sent, history.failed>>
        /\ \A x \in Routines : x # g => history'.got[x] = history.got[x]
    <3> DEFINE s == [history.got EXCEPT ![g] = @ + 1]
    <3>1. history' = [history EXCEPT !.got = s]
      BY <2>1
    <3>2. /\ s[g] = history.got[g] + 1 /\ history.got[g] \in Nat
          /\ \A x \in Routines : x # g => s[x] = history.got[x]
      BY <1>1, <2>2 DEF HistoryType
    <3> HIDE DEF s
    <3> QED
      BY <1>1, <3>1, <3>2 DEF HistoryType
  <2>6. \A x \in Routines : /\ For("deliver", x) <=> x = g
                            /\ ~For("deliver", x)'
                            /\ Waiting("archived", x)' = Waiting("archived", x)
                            /\ Waiting("archived", x) \in Nat /\ Order(x)'
    <3>1. \A x \in Routines : (For("deliver", x) <=> x = g) /\ ~For("deliver", x)'
      BY <2>1 DEF For, Loop
    <3>2. \A x \in Routines : Waiting("archived", x)' = Waiting("archived", x) /\ Order(x)'
      BY <1>2, <2>1 DEF Waiting, Order
    <3>3. \A x \in Routines : Waiting("archived", x) \in Nat
      BY <1>1, WaitingNat
    <3> QED
      BY <3>1, <3>2, <3>3
  <2>7. ASSUME NEW x \in Routines, x # g
        PROVE  Query(x)' /\ Iterator(x)' /\ Order(x)'
    <3>1. Left(x)' = Left(x)
      BY <2>6, <2>7 DEF Left, On
    <3>2. Same(x)
      BY <2>3, <2>5, <2>6, <2>7, <3>1 DEF Same
    <3> QED
      BY <1>2, <3>2, SameQuery
  <2>8. Query(g) /\ Iterator(g) /\ Order(g)'
    BY <1>2, <2>2, <2>6
  <2>9. /\ Left(g) = Left(g)' + 1 /\ Left(g)' \in Nat /\ Left(g) # 0
        /\ history'.got[g] + Left(g)' = history.got[g] + Left(g)
    BY <2>2, <2>5, <2>6 DEF Left, On
  <2>10. Query(g)'
    BY <2>3, <2>4, <2>5, <2>8, <2>9 DEF Query
  <2>11. Iterator(g)'
    <3>1. CASE g \in history.tracked
      <4>1. history'.got[g] + Left(g)' = history'.sent[g] /\ g \notin history.closed
        BY <2>5, <2>8, <2>9, <3>1 DEF Iterator
      <4>2. ret[g] # "end"
        BY <2>4, <2>8 DEF Iterator, None
      <4> QED
        BY <2>3, <2>4, <2>5, <2>8, <3>1, <4>1, <4>2 DEF Iterator
    <3>2. CASE g \notin history.tracked
      <4>1. history.helper[g] = "end" /\ g \in history.failed /\ g \in history.closed
        BY <2>4, <2>8, <2>9, <3>2 DEF Iterator, Query
      <4> QED
        BY <2>3, <2>4, <2>5, <2>8, <3>2, <4>1 DEF Iterator
    <3> QED
      BY <3>1, <3>2
  <2> QED
    BY <2>7, <2>8, <2>10, <2>11 DEF ArchiveInv
<1>5. CASE HandleFin
  <2>1. PICK g : /\ g = Head(inbox).who
                 /\ serve = Loop /\ inbox # <<>> /\ Head(inbox).kind = "fin"
                 /\ inbox' = Tail(inbox) /\ todo' = todo /\ pc' = pc /\ ret' = ret /\ serve' = serve
                 /\ \/ history.helper[g] = "wait" /\ history' = [history EXCEPT !.helper[g] = "remove"]
                    \/ history' = history
    BY <1>5 DEF HandleFin, Takes, InLoop, common
  <2>2. g \in Routines
    <3>1. Head(inbox) \in Stanzas
      BY <1>1, <2>1
    <3> QED
      BY <2>1, <3>1 DEF Stanzas
  <2>3. \A kind, x : Is(Head(inbox), kind, x) <=> kind = "fin" /\ x = g
    BY <2>1 DEF Is
  <2>4. \A x \in Routines : ~For("deliver", x) /\ ~For("deliver", x)'
    BY <2>1 DEF Loop, For
  <2>5. \A x \in Routines : Order(x)' /\ Waiting("archived", x) = Waiting("archived", x)'
    BY <1>1, <1>2, <2>1, <2>3, InboxTail
  <2>6. \A x \in Routines : Left(x)' = Left(x)
    BY <2>4, <2>5 DEF Left, On
  <2>7. Left(g) = 0
    <3>1. Waiting("archived", g) = 0
      BY <1>1, <1>2, <2>1, <2>2, <2>3, InboxTail
    <3> QED
      BY <2>2, <2>4, <3>1 DEF Left, On
  <2>8. CASE history' = history
    <3> SUFFICES ASSUME NEW x \in Routines
                 PROVE  Query(x)' /\ Iterator(x)' /\ Order(x)'
      BY DEF ArchiveInv
    <3>1. Same(x)
      BY <2>1, <2>5, <2>6, <2>8 DEF Same
    <3> QED
      BY <1>2, <3>1, SameQuery
  <2>9. CASE history.helper[g] = "wait" /\ history' = [history EXCEPT !.helper[g] = "remove"]
    <3>1. /\ history'.helper[g] = "remove"
          /\ \A x \in Routines : x # g => history'.helper[x] = history.helper[x]
          /\ UNCHANGED <<history.tracked, history.closed, history.got, history.sent, history.failed>>
      BY <1>1, <2>2, <2>9 DEF HistoryType
    <3>2. ASSUME NEW x \in Routines, x # g
          PROVE  Query(x)' /\ Iterator(x)' /\ Order(x)'
      <4>1. Same(x)
        BY <2>1, <2>5, <2>6, <3>1, <3>2 DEF Same
      <4> QED
        BY <1>2, <4>1, SameQuery
    <3>3. Query(g) /\ Iterator(g) /\ Order(g)'
      BY <1>2, <2>2, <2>5
    <3>4. Query(g)'
      BY <2>1, <2>2, <2>6, <2>7, <2>9, <3>1, <3>3 DEF Query, None
    <3>5. Iterator(g)'
      BY <2>1, <2>2, <2>6, <2>9, <3>1, <3>3 DEF Iterator
    <3> QED
      BY <3>2, <3>3, <3>4, <3>5 DEF ArchiveInv
  <2> QED
    BY <2>1, <2>8, <2>9
<1> QED
  BY <1>3, <1>4, <1>5 DEF HistoryServe

\* Every step keeps the invariant of the archive.
LEMMA ArchiveStep ==
    ASSUME HandlerInv, ArchiveInv, [Next]_vars
    PROVE  ArchiveInv'
<1>1. Types
  BY DEF HandlerInv
<1>2. CASE ReceiptsEffect
  <2>1. /\ Calling(ReceiptPcs, ReceiptOps) /\ Moving({"received", "request"})
        /\ Handling({"signal"}) /\ NotEnded /\ history' = history
    BY <1>2 DEF ReceiptsEffect
  <2>2. /\ ReceiptPcs \cap HistoryPcs = {} /\ ReceiptOps \cap Fetches = {}
        /\ {"received", "request"} \cap HistoryKinds = {} /\ "deliver" \notin {"signal"}
    BY DEF ReceiptPcs, HistoryPcs, ReceiptOps, Fetches, HistoryKinds
  <2> QED
    BY <1>1, <2>1, <2>2, ArchiveAside
<1>3. CASE MucEffect
  <2>1. /\ Calling(MucPcs, MucOps) /\ Moving(MucKinds)
        /\ Handling({"join", "response"}) /\ NotEnded /\ history' = history
    BY <1>3 DEF MucEffect
  <2>2. /\ MucPcs \cap HistoryPcs = {} /\ MucOps \cap Fetches = {}
        /\ MucKinds \cap HistoryKinds = {} /\ "deliver" \notin {"join", "response"}
    BY DEF MucPcs, HistoryPcs, MucOps, Fetches, HistoryKinds, MucKinds
  <2> QED
    BY <1>1, <2>1, <2>2, ArchiveAside
<1>4. CASE ListenerEffect
  <2>1. /\ Calling(ListenerPcs, ListenerOps) /\ Moving({"open"})
        /\ Handling({"accept", "expect"}) /\ NotEnded /\ history' = history
    BY <1>4 DEF ListenerEffect
  <2>2. /\ ListenerPcs \cap HistoryPcs = {} /\ ListenerOps \cap Fetches = {}
        /\ {"open"} \cap HistoryKinds = {} /\ "deliver" \notin {"accept", "expect"}
    BY DEF ListenerPcs, HistoryPcs, ListenerOps, Fetches, HistoryKinds
  <2> QED
    BY <1>1, <2>1, <2>2, ArchiveAside
<1>5. CASE HistoryStep
  BY <1>1, <1>5, ArchiveServe, ArchivePeer, ArchiveCall, ArchiveHelper
     DEF HistoryStep, HistoryPeer
<1>6. ASSUME UNCHANGED vars \/ \E g \in Routines : Cancel(g)
      PROVE  ArchiveInv'
  <2>1. UNCHANGED <<todo, pc, ret, inbox, serve, history>>
    BY <1>6 DEF Cancel, vars, common
  <2> SUFFICES ASSUME NEW x \in Routines
               PROVE  Query(x)' /\ Iterator(x)' /\ Order(x)'
    BY DEF ArchiveInv
  <2>2. Query(x) /\ Iterator(x) /\ Order(x)
    BY DEF ArchiveInv
  <2>3. Same(x)
    BY <2>1, <2>2, QuietInbox DEF Same
  <2> QED
    BY <2>2, <2>3, SameQuery
<1> QED
  BY <1>2, <1>3, <1>4, <1>5, <1>6, OnePackage

\* An iteration that ended with the result saw every message the archive sent,
\* whatever the other handlers, the other queries and the contexts did
\* meanwhile (history.go:77-93, 127-140).
THEOREM HistoriesComplete == Spec => []HistoryComplete
<1>1. Init => HandlerInv /\ PanicNeedsEnd /\ ArchiveInv
  <2> SUFFICES ASSUME Init PROVE HandlerInv /\ PanicNeedsEnd /\ ArchiveInv
    OBVIOUS
  <2>1. HandlerInv /\ PanicNeedsEnd
    BY HandlerInit
  <2>2. PICK s \in Scenarios : todo = s.calls
    BY DEF Init
  <2>3. \A g \in Routines : Once(todo[g], Fetches)
    BY <2>2, OnceAssumption
  <2>4. /\ pc = [g \in Routines |-> "idle"] /\ ret = [g \in Routines |-> None]
        /\ inbox = <<>> /\ serve = Loop /\ HistoryInit
    BY DEF Init
  <2>5. /\ history.tracked = {} /\ history.closed = {}
        /\ \A g \in Routines : /\ history.helper[g] = None /\ history.sent[g] = 0
                               /\ history.got[g] = 0
    BY <2>4 DEF HistoryInit
  <2>6. ASSUME NEW g \in Routines
        PROVE  Left(g) = 0 /\ Order(g)
    <3>1. {i \in DOMAIN inbox : inbox[i].kind = "archived" /\ inbox[i].who = g} = {}
      BY <2>4
    <3>2. Waiting("archived", g) = 0
      BY <3>1, FS_EmptySet DEF Waiting
    <3>3. ~For("deliver", g)
      BY <2>4 DEF Loop, For
    <3>4. Order(g)
      BY <2>4 DEF Order
    <3> QED
      BY <3>2, <3>3, <3>4 DEF Left, On
  <2>7. ArchiveInv
    BY <2>3, <2>4, <2>5, <2>6 DEF ArchiveInv, Query, Iterator, HistoryPcs, None
  <2> QED
    BY <2>1, <2>7
<1>2. HandlerInv /\ PanicNeedsEnd /\ ArchiveInv /\ [Next]_vars
        => (HandlerInv /\ PanicNeedsEnd /\ ArchiveInv)'
  BY HandlerStep, ArchiveStep
<1>3. ArchiveInv => HistoryComplete
  BY DEF ArchiveInv, Iterator, HistoryComplete
<1> QED
  BY <1>1, <1>2, <1>3, PTL DEF Spec

----------------------------------------------------------------------------
(* A channel and its room.                                                 *)

Presence(m, kind, g, n) == m.kind = kind /\ m.who = g /\ m.n = n
Has(q, kind, g, n) == \E i \in DOMAIN q : Presence(q[i], kind, g, n)
Departs(q, g) == {i \in DOMAIN q : Is(q[i], "unavailable", g)}
Lone(q, g) == \A i, j \in Departs(q, g) : i = j
Nicked(q, g) == \A i \in DOMAIN q :
    q[i].who = g /\ q[i].kind \in {"available", "unavailable"} => q[i].n \in Nicks
\* The presence of a user is followed by one that says that the user has left.
Dated(q, g) == \A i \in DOMAIN q : Presence(q[i], "available", g, 0) =>
    \E j \in DOMAIN q : j > i /\ Presence(q[j], "unavailable", g, 0)

\* A stanza is added at the end.
LEMMA PresenceAdded ==
    ASSUME NEW q \in Seq(Stanzas), NEW m \in Stanzas, NEW g
    PROVE  LET p == Append(q, m) IN
           /\ \A kind, n : Has(p, kind, g, n) <=> Has(q, kind, g, n) \/ Presence(m, kind, g, n)
           /\ Nicked(q, g) /\ (m.who = g /\ m.kind \in {"available", "unavailable"} => m.n \in Nicks)
                => Nicked(p, g)
           /\ Dated(q, g) /\ ~Presence(m, "available", g, 0) => Dated(p, g)
           /\ Presence(m, "unavailable", g, 0) => Dated(p, g)
<1> DEFINE p == Append(q, m)
           l == Len(q)
<1>1. /\ l \in Nat /\ DOMAIN q = 1 .. l /\ DOMAIN p = 1 .. l + 1 /\ p[l + 1] = m
      /\ \A i \in 1 .. l : p[i] = q[i]
  OBVIOUS
<1> HIDE DEF p, l
<1>2. ASSUME NEW kind, NEW n
      PROVE  Has(p, kind, g, n) <=> Has(q, kind, g, n) \/ Presence(m, kind, g, n)
  <2>1. ASSUME NEW i \in DOMAIN p, Presence(p[i], kind, g, n)
        PROVE  Has(q, kind, g, n) \/ Presence(m, kind, g, n)
    <3>1. i = l + 1 \/ i \in 1 .. l
      BY <1>1
    <3> QED
      BY <1>1, <2>1, <3>1 DEF Has
  <2>2. ASSUME NEW i \in DOMAIN q, Presence(q[i], kind, g, n) PROVE Has(p, kind, g, n)
    <3>1. i \in DOMAIN p /\ p[i] = q[i]
      BY <1>1
    <3> QED
      BY <2>2, <3>1 DEF Has
  <2>3. Presence(m, kind, g, n) => Has(p, kind, g, n)
    <3>1. l + 1 \in DOMAIN p
      BY <1>1
    <3> QED
      BY <1>1, <3>1 DEF Has
  <2> QED
    BY <2>1, <2>2, <2>3 DEF Has
<1>3. ASSUME Nicked(q, g), m.who = g /\ m.kind \in {"available", "unavailable"} => m.n \in Nicks
      PROVE  Nicked(p, g)
  <2> SUFFICES ASSUME NEW i \in DOMAIN p, p[i].who = g, p[i].kind \in {"available", "unavailable"}
               PROVE  p[i].n \in Nicks
    BY DEF Nicked
  <2>1. i = l + 1 \/ i \in 1 .. l
    BY <1>1
  <2> QED
    BY <1>1, <1>3, <2>1 DEF Nicked
<1>4. ASSUME Dated(q, g), ~Presence(m, "available", g, 0)
      PROVE  Dated(p, g)
  <2> SUFFICES ASSUME NEW i \in DOMAIN p, Presence(p[i], "available", g, 0)
               PROVE  \E j \in DOMAIN p : j > i /\ Presence(p[j], "unavailable", g, 0)
    BY DEF Dated
  <2>1. i \in 1 .. l
    BY <1>1, <1>4
  <2>2. PICK j \in DOMAIN q : j > i /\ Presence(q[j], "unavailable", g, 0)
    BY <1>1, <1>4, <2>1 DEF Dated
  <2>3. j \in DOMAIN p /\ p[j] = q[j]
    BY <1>1
  <2> QED
    BY <2>2, <2>3
<1>5. ASSUME Presence(m, "unavailable", g, 0) PROVE Dated(p, g)
  <2> SUFFICES ASSUME NEW i \in DOMAIN p, Presence(p[i], "available", g, 0)
               PROVE  \E j \in DOMAIN p : j > i /\ Presence(p[j], "unavailable", g, 0)
    BY DEF Dated
  <2>1. i # l + 1
    BY <1>1, <1>5 DEF Presence
  <2>2. l + 1 \in DOMAIN p /\ l + 1 > i
    BY <1>1, <2>1
  <2> QED
    BY <1>1, <1>5, <2>2
<1> QED
  BY <1>2, <1>3, <1>4, <1>5 DEF p

\* (The presences that say that the user has left: one of another kind.)
LEMMA OtherAdded ==
    ASSUME NEW q \in Seq(Stanzas), NEW m \in Stanzas, NEW g, ~Is(m, "unavailable", g)
    PROVE  /\ Departs(Append(q, m), g) = Departs(q, g)
           /\ \A i \in Departs(q, g) : Append(q, m)[i] = q[i]
<1> DEFINE p == Append(q, m)
           l == Len(q)
<1>1. /\ l \in Nat /\ DOMAIN q = 1 .. l /\ DOMAIN p = 1 .. l + 1 /\ p[l + 1] = m
      /\ \A i \in 1 .. l : p[i] = q[i]
  OBVIOUS
<1> HIDE DEF p, l
<1>2. \A i \in DOMAIN p : i = l + 1 \/ i \in DOMAIN q
  BY <1>1
<1>3. \A i \in DOMAIN q : i \in DOMAIN p /\ p[i] = q[i]
  BY <1>1
<1>4. Departs(p, g) = Departs(q, g) /\ \A i \in Departs(q, g) : p[i] = q[i]
  BY <1>1, <1>2, <1>3 DEF Departs
<1> QED
  BY <1>4 DEF p

\* (The first one.)
LEMMA DepartAdded ==
    ASSUME NEW q \in Seq(Stanzas), NEW m \in Stanzas, NEW g, Is(m, "unavailable", g),
           Departs(q, g) = {}
    PROVE  /\ Lone(Append(q, m), g)
           /\ \A i \in Departs(Append(q, m), g) : Append(q, m)[i] = m
<1> DEFINE p == Append(q, m)
           l == Len(q)
<1>1. /\ l \in Nat /\ DOMAIN q = 1 .. l /\ DOMAIN p = 1 .. l + 1 /\ p[l + 1] = m
      /\ \A i \in 1 .. l : p[i] = q[i]
  OBVIOUS
<1> HIDE DEF p, l
<1>2. ASSUME NEW i \in Departs(p, g) PROVE i = l + 1
  <2>1. i \in DOMAIN p /\ Is(p[i], "unavailable", g)
    BY DEF Departs
  <2>2. i \in DOMAIN q => i \in Departs(q, g)
    BY <1>1, <2>1 DEF Departs
  <2> QED
    BY <1>1, <2>1, <2>2
<1>3. Lone(p, g) /\ \A i \in Departs(p, g) : p[i] = m
  BY <1>1, <1>2 DEF Lone
<1> QED
  BY <1>3 DEF p

\* The first stanza is taken.
LEMMA PresenceTaken ==
    ASSUME NEW q \in Seq(Stanzas), q # <<>>, NEW g
    PROVE  LET p == Tail(q) IN
           /\ \A kind, n : Has(q, kind, g, n) <=> Presence(Head(q), kind, g, n) \/ Has(p, kind, g, n)
           /\ Nicked(q, g) => Nicked(p, g)
           /\ Dated(q, g) => Dated(p, g)
           /\ Dated(q, g) /\ Presence(Head(q), "available", g, 0) => Has(p, "unavailable", g, 0)
           /\ \A i \in Departs(p, g) : i + 1 \in Departs(q, g) /\ p[i] = q[i + 1]
           /\ Lone(q, g) => Lone(p, g) /\ (Is(Head(q), "unavailable", g) => Departs(p, g) = {})
<1> DEFINE p == Tail(q)
           l == Len(q)
           h == Head(q)
<1>1. /\ l \in Nat /\ l > 0 /\ DOMAIN q = 1 .. l /\ DOMAIN p = 1 .. l - 1 /\ h = q[1]
      /\ \A i \in 1 .. l - 1 : p[i] = q[i + 1]
  OBVIOUS
<1> HIDE DEF p, l, h
<1>2. ASSUME NEW kind, NEW n
      PROVE  Has(q, kind, g, n) <=> Presence(h, kind, g, n) \/ Has(p, kind, g, n)
  <2>1. ASSUME NEW i \in DOMAIN q, Presence(q[i], kind, g, n)
        PROVE  Presence(h, kind, g, n) \/ Has(p, kind, g, n)
    <3>1. i = 1 \/ (i - 1 \in DOMAIN p /\ p[i - 1] = q[i])
      BY <1>1
    <3> QED
      BY <1>1, <2>1, <3>1 DEF Has
  <2>2. ASSUME NEW i \in DOMAIN p, Presence(p[i], kind, g, n) PROVE Has(q, kind, g, n)
    <3>1. i + 1 \in DOMAIN q /\ p[i] = q[i + 1]
      BY <1>1
    <3> QED
      BY <2>2, <3>1 DEF Has
  <2>3. Presence(h, kind, g, n) => Has(q, kind, g, n)
    <3>1. 1 \in DOMAIN q
      BY <1>1
    <3> QED
      BY <1>1, <3>1 DEF Has
  <2> QED
    BY <2>1, <2>2, <2>3 DEF Has
<1>3. ASSUME Nicked(q, g) PROVE Nicked(p, g)
  <2>1. \A i \in DOMAIN p : i + 1 \in DOMAIN q /\ p[i] = q[i + 1]
    BY <1>1
  <2> QED
    BY <1>3, <2>1 DEF Nicked
<1>4. ASSUME Dated(q, g)
      PROVE  Dated(p, g) /\ (Presence(h, "available", g, 0) => Has(p, "unavailable", g, 0))
  <2>1. ASSUME NEW i \in DOMAIN q, Presence(q[i], "available", g, 0)
        PROVE  \E j \in DOMAIN p : j > i - 1 /\ Presence(p[j], "unavailable", g, 0)
    <3>1. PICK j \in DOMAIN q : j > i /\ Presence(q[j], "unavailable", g, 0)
      BY <1>4, <2>1 DEF Dated
    <3>2. j - 1 \in DOMAIN p /\ p[j - 1] = q[j] /\ j - 1 > i - 1
      BY <1>1, <3>1
    <3> QED
      BY <3>1, <3>2
  <2>2. ASSUME NEW i \in DOMAIN p, Presence(p[i], "available", g, 0)
        PROVE  \E j \in DOMAIN p : j > i /\ Presence(p[j], "unavailable", g, 0)
    <3>1. i + 1 \in DOMAIN q /\ p[i] = q[i + 1] /\ (i + 1) - 1 = i
      BY <1>1
    <3> QED
      BY <2>1, <2>2, <3>1
  <2>3. ASSUME Presence(h, "available", g, 0) PROVE Has(p, "unavailable", g, 0)
    <3>1. 1 \in DOMAIN q
      BY <1>1
    <3> QED
      BY <1>1, <2>1, <2>3, <3>1 DEF Has
  <2> QED
    BY <2>2, <2>3 DEF Dated
<1>5. \A i \in Departs(p, g) : i + 1 \in Departs(q, g) /\ p[i] = q[i + 1]
  BY <1>1 DEF Departs
<1>6. ASSUME Lone(q, g)
      PROVE  Lone(p, g) /\ (Is(h, "unavailable", g) => Departs(p, g) = {})
  <2>1. \A i \in Departs(p, g) : i \in Nat /\ i > 0
    BY <1>1 DEF Departs
  <2>2. Lone(p, g)
    <3> SUFFICES ASSUME NEW i \in Departs(p, g), NEW j \in Departs(p, g) PROVE i = j
      BY DEF Lone
    <3>1. i + 1 = j + 1
      BY <1>5, <1>6 DEF Lone
    <3> QED
      BY <2>1, <3>1
  <2>3. ASSUME Is(h, "unavailable", g), NEW i \in Departs(p, g) PROVE FALSE
    <3>1. 1 \in Departs(q, g)
      BY <1>1, <2>3 DEF Departs
    <3>2. i + 1 = 1
      BY <1>5, <1>6, <3>1 DEF Lone
    <3> QED
      BY <2>1, <3>2
  <2> QED
    BY <2>2, <2>3
<1> QED
  BY <1>2, <1>3, <1>4, <1>5, <1>6 DEF p, h

RoomFields ==
    /\ DOMAIN muc = {"managed", "addr", "to", "join", "helper", "room", "left", "late",
                     "kicked", "seen"}
    /\ muc.managed \in [Routines \X Nicks -> Routines \cup {None}]
    /\ muc.room \in [Routines \X Nicks -> {"in", "out"}]
    /\ muc.join \in [Routines -> Seq(Nat)] /\ muc.helper \in [Routines -> Seq(Senders)]
    /\ muc.addr \in [Routines -> Nicks] /\ muc.to \in [Routines -> Nicks]

\* Only entries for the nick of the first Join are made.
Named(g) ==
    /\ muc.managed[<<g, 0>>] \in {g, None} /\ muc.managed[<<g, 1>>] = None
    /\ \A n \in DOMAIN muc.helper[g] : muc.helper[g][n].to \in Nicks
    /\ Nicked(inbox, g)

\* What is pending has the number of a call; what is pending while a Leave
\* goes on is not its number, and the Leave is for the address of the channel.
Pended(g) ==
    /\ \A i \in DOMAIN muc.join[g] : muc.join[g][i] <= Number(g)
    /\ For("join", g) => serve.n \in Nat /\ serve.n <= Number(g)
    /\ \A n : Has(inbox, "presenceerror", g, n) =>
          n \in DOMAIN muc.helper[g] /\ muc.helper[g][n].at \notin {"join", "leave"}
Leaving(g) ==
    /\ pc[g] \in {"leave", "leavewait"} =>
          /\ Number(g) > 0 /\ muc.helper[g][Number(g)].to = muc.addr[g]
          /\ \A i \in DOMAIN muc.join[g] : muc.join[g][i] # Number(g)
          /\ For("join", g) => serve.n # Number(g)
    /\ pc[g] = "joinwait" => Number(g) > 0 /\ muc.helper[g][Number(g)].at # "leave"

\* A channel that has joined, or is about to be told so, is managed and in the
\* room, or it has departed, or the presence that says so is on its way.
Entered(g) ==
    /\ ret[g] \in {"joined", "left"} => pc[g] = "idle"
    /\ ret[g] = "joined" => muc.addr[g] = 0
    /\ muc.room[<<g, 0>>] = "in" \/ Dated(inbox, g)
    /\ ret[g] = "joined" \/ For("join", g) =>
          \/ g \in muc.left
          \/ /\ muc.managed[<<g, 0>>] = g
             /\ muc.room[<<g, 0>>] = "in" \/ Has(inbox, "unavailable", g, 0)

\* The presence of a user who leaves is the one the Leave that goes on has
\* asked for, and nothing else will answer that Leave.
Departed(g) ==
    \/ g \in muc.late \cup muc.kicked
    \/ /\ ret[g] = "left" => /\ muc.room[<<g, muc.addr[g]>>] = "out"
                             /\ muc.managed[<<g, muc.addr[g]>>] = None
       /\ Lone(inbox, g)
       /\ \A i \in Departs(inbox, g) :
             /\ pc[g] \in {"leave", "leavewait"} /\ inbox[i].n = muc.addr[g]
             /\ muc.room[<<g, muc.addr[g]>>] = "out"
             /\ muc.helper[g][Number(g)].at \in {"wait", "end"}
             /\ ~Has(inbox, "presenceerror", g, Number(g))
RoomOf(g) == Named(g) /\ Pended(g) /\ Leaving(g) /\ Entered(g) /\ Departed(g)
RoomInv == RoomFields /\ \A g \in Routines : RoomOf(g)

\* What a step may leave alone of a channel: its part of muc, the call of its
\* goroutine, Serve and its stanzas.
MucSame(g) ==
    /\ \A k \in Nicks : /\ muc'.managed[<<g, k>>] = muc.managed[<<g, k>>]
                        /\ muc'.room[<<g, k>>] = muc.room[<<g, k>>]
    /\ muc'.addr[g] = muc.addr[g] /\ muc'.join[g] = muc.join[g] /\ muc'.helper[g] = muc.helper[g]
    /\ g \in muc.left => g \in muc'.left
    /\ g \in muc.late \cup muc.kicked => g \in muc'.late \cup muc'.kicked
CallSame(g) ==
    \/ pc'[g] = pc[g] /\ ret'[g] = ret[g]
    \/ /\ pc[g] \notin {"leave", "leavewait"} /\ pc'[g] \notin {"leave", "leavewait", "joinwait"}
       /\ ret'[g] \notin {"joined", "left"}
ServeSame(g) == For("join", g)' => For("join", g) /\ serve'.n = serve.n
Foreign(m, g) == m.who # g \/ m.kind \notin MucKinds
InboxSame(g) ==
    \/ inbox' = inbox
    \/ inbox # <<>> /\ Foreign(Head(inbox), g) /\ inbox' = Tail(inbox)
    \/ \E m \in Stanzas : Foreign(m, g) /\ inbox' = Append(inbox, m)

\* Stanzas of others are put into and taken out of the inbox.
LEMMA InboxForeign ==
    ASSUME inbox \in Seq(Stanzas), NEW g, InboxSame(g)
    PROVE  /\ \A kind \in MucKinds : \A n : Has(inbox', kind, g, n) <=> Has(inbox, kind, g, n)
           /\ Nicked(inbox, g) => Nicked(inbox', g)
           /\ Dated(inbox, g) => Dated(inbox', g)
           /\ Lone(inbox, g) => Lone(inbox', g)
           /\ \A i \in Departs(inbox', g) : \E j \in Departs(inbox, g) : inbox'[i] = inbox[j]
<1> DEFINE q == inbox
           p == inbox'
<1>0. q \in Seq(Stanzas) /\ {"available", "unavailable", "presenceerror"} = MucKinds
  BY DEF MucKinds
<1>1. CASE p = q
  BY <1>1
<1> HIDE DEF q, p
<1>2. CASE q # <<>> /\ Foreign(Head(q), g) /\ p = Tail(q)
  <2>1. \A kind \in MucKinds : \A n : ~Presence(Head(q), kind, g, n)
    BY <1>2 DEF Foreign, Presence
  <2>2. /\ \A kind, n : Has(q, kind, g, n) <=> Presence(Head(q), kind, g, n) \/ Has(p, kind, g, n)
        /\ Nicked(q, g) => Nicked(p, g)
        /\ Dated(q, g) => Dated(p, g)
        /\ \A i \in Departs(p, g) : i + 1 \in Departs(q, g) /\ p[i] = q[i + 1]
        /\ Lone(q, g) => Lone(p, g)
    <3>1. \A kind, n : Has(q, kind, g, n) <=> Presence(Head(q), kind, g, n) \/ Has(p, kind, g, n)
      BY <1>0, <1>2, PresenceTaken
    <3>2. Nicked(q, g) => Nicked(p, g)
      BY <1>0, <1>2, PresenceTaken
    <3>3. Dated(q, g) => Dated(p, g)
      BY <1>0, <1>2, PresenceTaken
    <3>4. \A i \in Departs(p, g) : i + 1 \in Departs(q, g) /\ p[i] = q[i + 1]
      BY <1>0, <1>2, PresenceTaken
    <3>5. Lone(q, g) => Lone(p, g)
      BY <1>0, <1>2, PresenceTaken
    <3> QED
      BY <3>1, <3>2, <3>3, <3>4, <3>5
  <2> QED
    BY <2>1, <2>2 DEF q, p
<1>3. ASSUME NEW m \in Stanzas, Foreign(m, g), p = Append(q, m)
      PROVE  /\ \A kind \in MucKinds : \A n : Has(p, kind, g, n) <=> Has(q, kind, g, n)
             /\ Nicked(q, g) => Nicked(p, g)
             /\ Dated(q, g) => Dated(p, g)
             /\ Lone(q, g) => Lone(p, g)
             /\ \A i \in Departs(p, g) : \E j \in Departs(q, g) : p[i] = q[j]
  <2>1. \A kind \in MucKinds : \A n : ~Presence(m, kind, g, n)
    BY <1>3 DEF Foreign, Presence
  <2>2. /\ ~Is(m, "unavailable", g) /\ ~Presence(m, "available", g, 0)
        /\ ~(m.who = g /\ m.kind \in {"available", "unavailable"})
    BY <1>3 DEF Foreign, Is, Presence, MucKinds
  <2>3. Departs(p, g) = Departs(q, g) /\ \A i \in Departs(q, g) : p[i] = q[i]
    BY <1>0, <1>3, <2>2, OtherAdded
  <2>4. /\ \A kind, n : Has(p, kind, g, n) <=> Has(q, kind, g, n) \/ Presence(m, kind, g, n)
        /\ Nicked(q, g) => Nicked(p, g)
        /\ Dated(q, g) => Dated(p, g)
    <3>1. \A kind, n : Has(p, kind, g, n) <=> Has(q, kind, g, n) \/ Presence(m, kind, g, n)
      BY <1>0, <1>3, PresenceAdded
    <3>2. Nicked(q, g) => Nicked(p, g)
      BY <1>0, <1>3, <2>2, PresenceAdded
    <3>3. Dated(q, g) => Dated(p, g)
      BY <1>0, <1>3, <2>2, PresenceAdded
    <3> QED
      BY <3>1, <3>2, <3>3
  <2> QED
    BY <2>1, <2>3, <2>4 DEF Lone
<1> QED
  BY <1>1, <1>2, <1>3 DEF InboxSame, q, p

\* A step that leaves a channel alone keeps what holds of it.
LEMMA RoomAside ==
    ASSUME Types, RoomFields, NEW g \in Routines, RoomOf(g),
           MucSame(g), CallSame(g), ServeSame(g), InboxSame(g)
    PROVE  RoomOf(g)'
<1>1. inbox \in Seq(Stanzas) /\ muc.addr[g] \in Nicks
  BY DEF Types, ServeType, RoomFields
<1>2. /\ \A kind \in MucKinds : \A n : Has(inbox', kind, g, n) <=> Has(inbox, kind, g, n)
      /\ Nicked(inbox, g) => Nicked(inbox', g)
      /\ Dated(inbox, g) => Dated(inbox', g)
      /\ Lone(inbox, g) => Lone(inbox', g)
      /\ \A i \in Departs(inbox', g) : \E j \in Departs(inbox, g) : inbox'[i] = inbox[j]
  BY <1>1, InboxForeign
<1>3. "presenceerror" \in MucKinds /\ "unavailable" \in MucKinds /\ {0, 1} = Nicks
  BY DEF MucKinds, Nicks
<1>4. Number(g)' = Number(g)
  BY DEF MucSame, Number
<1>5. Named(g)'
  BY <1>2, <1>3 DEF RoomOf, Named, MucSame
<1>6. Pended(g)'
  BY <1>2, <1>3, <1>4 DEF RoomOf, Pended, MucSame, ServeSame
<1>7. Leaving(g)'
  BY <1>4 DEF RoomOf, Leaving, MucSame, CallSame, ServeSame
<1>8. Entered(g)'
  <2>1. muc'.room[<<g, 0>>] = "in" \/ Dated(inbox', g)
    BY <1>2, <1>3 DEF RoomOf, Entered, MucSame
  <2> QED
    BY <1>2, <1>3, <2>1 DEF RoomOf, Entered, MucSame, CallSame, ServeSame
<1>9. Departed(g)'
  <2>1. CASE g \in muc.late \cup muc.kicked
    BY <2>1 DEF MucSame, Departed
  <2>2. CASE g \notin muc.late \cup muc.kicked
    <3>1. /\ ret[g] = "left" => /\ muc.room[<<g, muc.addr[g]>>] = "out"
                                /\ muc.managed[<<g, muc.addr[g]>>] = None
          /\ Lone(inbox, g)
          /\ \A i \in Departs(inbox, g) :
                /\ pc[g] \in {"leave", "leavewait"} /\ inbox[i].n = muc.addr[g]
                /\ muc.room[<<g, muc.addr[g]>>] = "out"
                /\ muc.helper[g][Number(g)].at \in {"wait", "end"}
                /\ ~Has(inbox, "presenceerror", g, Number(g))
      BY <2>2 DEF RoomOf, Departed
    <3>2. /\ muc'.room[<<g, muc'.addr[g]>>] = muc.room[<<g, muc.addr[g]>>]
          /\ muc'.managed[<<g, muc'.addr[g]>>] = muc.managed[<<g, muc.addr[g]>>]
      BY <1>1 DEF MucSame
    <3>3. ret'[g] = "left" => ret[g] = "left"
      BY DEF CallSame
    <3>4. ASSUME NEW i \in Departs(inbox', g)
          PROVE  /\ pc'[g] \in {"leave", "leavewait"} /\ inbox'[i].n = muc'.addr[g]
                 /\ muc'.room[<<g, muc'.addr[g]>>] = "out"
                 /\ muc'.helper[g][Number(g)'].at \in {"wait", "end"}
                 /\ ~Has(inbox', "presenceerror", g, Number(g)')
      <4>1. PICK j \in Departs(inbox, g) : inbox'[i] = inbox[j]
        BY <1>2
      <4>2. /\ pc[g] \in {"leave", "leavewait"} /\ inbox[j].n = muc.addr[g]
            /\ muc.room[<<g, muc.addr[g]>>] = "out"
            /\ muc.helper[g][Number(g)].at \in {"wait", "end"}
            /\ ~Has(inbox, "presenceerror", g, Number(g))
        BY <3>1
      <4> QED
        BY <1>2, <1>3, <1>4, <3>2, <4>1, <4>2 DEF MucSame, CallSame
    <3>5. Lone(inbox', g)
      BY <1>2, <3>1
    <3> QED
      BY <3>1, <3>2, <3>3, <3>4, <3>5 DEF Departed
  <2> QED
    BY <2>1, <2>2
<1> QED
  BY <1>5, <1>6, <1>7, <1>8, <1>9 DEF RoomOf

\* What another package makes of a goroutine: it returns neither from a Join
\* nor from a Leave.
Passes ==
    \/ UNCHANGED common
    \/ \E g, op, l : Calls(g, op, l)
    \/ \E g, l : pc[g] # "idle" /\ Goes(g, l)
    \/ \E g, r : r \notin {"joined", "left"} /\ Returns(g, r)
Elsewhere ==
    \/ ReceiptsServe \/ ReceiptsPeer \/ HistoryServe \/ HistoryPeer \/ ListenerServe \/ PeerOpens
    \/ \E g \in Routines : ReceiptsCall(g) \/ HistoryCall(g) \/ HistoryHelper(g) \/ ListenerCall(g)

LEMMA ElsewherePasses ==
    ASSUME Elsewhere
    PROVE  Passes /\ muc' = muc
<1>1. CASE ReceiptsServe \/ ReceiptsPeer
  BY <1>1 DEF ReceiptsServe, ReceiptsPeer, HandleReceived, Signal, HandleRequest, AskReceipt,
     Acknowledge, Passes, notReceipts
<1>2. CASE HistoryServe \/ HistoryPeer
  <2>1. CASE Deliver
    <3>1. \E g, l : pc[g] # "idle" /\ Goes(g, l)
      BY <2>1 DEF Deliver, Ready
    <3> QED
      BY <2>1, <3>1 DEF Deliver, Passes, notHistory
  <2> QED
    BY <1>2, <2>1 DEF HistoryServe, HistoryPeer, HandleArchived, HandleFin, ArchiveSends,
       Passes, notHistory
<1>3. CASE ListenerServe \/ PeerOpens
  BY <1>3 DEF ListenerServe, HandleOpen, GiveExpect, GiveAccept, PeerOpens, Passes, notListener
<1>4. ASSUME NEW g \in Routines, ReceiptsCall(g) PROVE Passes /\ muc' = muc
  <2>1. CASE SendMessage(g)
    BY <2>1 DEF SendMessage, Passes, notReceipts
  <2>2. CASE MakeMap(g) \/ Register(g) \/ GiveUp(g) \/ Forget(g)
    <3>1. \E l : pc[g] # "idle" /\ Goes(g, l)
      BY <2>2 DEF MakeMap, Register, GiveUp, Forget, At
    <3> QED
      BY <2>2, <3>1 DEF MakeMap, Register, GiveUp, Forget, Passes, notReceipts
  <2>3. CASE Transmit(g) \/ CloseChan(g)
    <3>1. (pc[g] # "idle" /\ Goes(g, "receipt")) \/ Returns(g, "err")
      BY <2>3 DEF Transmit, CloseChan, At
    <3> QED
      BY <2>3, <3>1 DEF Transmit, CloseChan, Passes, notReceipts
  <2> QED
    BY <1>4, <2>1, <2>2, <2>3 DEF ReceiptsCall
<1>5. ASSUME NEW g \in Routines, HistoryCall(g) \/ HistoryHelper(g) PROVE Passes /\ muc' = muc
  <2>1. CASE FetchIQ(g) \/ HistoryHelper(g)
    BY <2>1 DEF FetchIQ, HistoryHelper, SendQuery, QueryCancelled, RemoveQuery, Passes, notHistory
  <2>2. CASE NextEnds(g) \/ Continue(g) \/ CloseIter(g)
    <3>1. (\E l : pc[g] # "idle" /\ Goes(g, l)) \/ Returns(g, "end") \/ Returns(g, "closed")
      BY <2>2 DEF NextEnds, Continue, CloseIter, At
    <3> QED
      BY <2>2, <3>1 DEF NextEnds, Continue, CloseIter, Passes, notHistory
  <2> QED
    BY <1>5, <2>1, <2>2 DEF HistoryCall
<1>6. ASSUME NEW g \in Routines, ListenerCall(g) PROVE Passes /\ muc' = muc
  BY <1>6 DEF ListenerCall, Accept, AcceptClosed, Expect, ExpectCancelled, CloseListener,
     Passes, notListener
<1> QED
  BY <1>1, <1>2, <1>3, <1>4, <1>5, <1>6 DEF Elsewhere

\* (A channel whose Join or Leave has returned stays where it is.)
LEMMA PassesBy ==
    ASSUME CommonType, Passes, NEW g \in Routines, ret'[g] \in {"joined", "left"}
    PROVE  ret'[g] = ret[g] /\ (pc[g] = "idle" => pc'[g] = pc[g])
<1>1. CASE UNCHANGED common
  BY <1>1 DEF common
<1>2. ASSUME NEW x, NEW op, NEW l, Calls(x, op, l)
      PROVE  ret'[g] = ret[g] /\ (pc[g] = "idle" => pc'[g] = pc[g])
  BY <1>2 DEF CommonType, Calls, None
<1>3. ASSUME NEW x, NEW l, pc[x] # "idle", Goes(x, l)
      PROVE  ret'[g] = ret[g] /\ (pc[g] = "idle" => pc'[g] = pc[g])
  BY <1>3 DEF CommonType, Goes
<1>4. ASSUME NEW x, NEW r, r \notin {"joined", "left"}, Returns(x, r)
      PROVE  ret'[g] = ret[g] /\ (pc[g] = "idle" => pc'[g] = pc[g])
  BY <1>4 DEF CommonType, Returns
<1> QED
  BY <1>1, <1>2, <1>3, <1>4 DEF Passes

\* The other packages leave every channel alone.
LEMMA RoomElsewhere ==
    ASSUME Types, RoomInv, Passes, muc' = muc,
           NEW P, NEW O, NEW K, NEW A, Calling(P, O), Moving(K), Handling(A),
           P \cap MucPcs = {}, K \cap MucKinds = {}, "join" \notin A
    PROVE  RoomInv'
<1>1. RoomFields'
  BY DEF RoomInv, RoomFields
<1>2. ASSUME NEW g \in Routines PROVE RoomOf(g)'
  <2>1. RoomFields /\ RoomOf(g) /\ CommonType
    BY DEF RoomInv, Types
  <2>2. MucSame(g)
    BY DEF MucSame
  <2>3. CallSame(g)
    <3>1. CASE ret'[g] \in {"joined", "left"}
      BY <2>1, <3>1, PassesBy DEF RoomOf, Entered, CallSame
    <3>2. CASE ret'[g] \notin {"joined", "left"}
      BY <3>2 DEF Calling, CallSame, MucPcs
    <3> QED
      BY <3>1, <3>2
  <2>4. ServeSame(g)
    BY DEF Handling, ServeSame, For
  <2>5. InboxSame(g)
    BY DEF Moving, InboxSame, Foreign
  <2> QED
    BY <2>1, <2>2, <2>3, <2>4, <2>5, RoomAside
<1> QED
  BY <1>1, <1>2 DEF RoomInv

\* A step touches one channel.
OneRoom(g) == \A x \in Routines : x # g => MucSame(x) /\ CallSame(x) /\ ServeSame(x) /\ InboxSame(x)

LEMMA OneRoomStep ==
    ASSUME Types, RoomInv, NEW g \in Routines, OneRoom(g), RoomFields', RoomOf(g)'
    PROVE  RoomInv'
<1>1. ASSUME NEW x \in Routines, x # g PROVE RoomOf(x)'
  <2>1. RoomFields /\ RoomOf(x) /\ MucSame(x) /\ CallSame(x) /\ ServeSame(x) /\ InboxSame(x)
    BY <1>1 DEF RoomInv, OneRoom
  <2> QED
    BY <2>1, RoomAside
<1>2. \A x \in Routines : RoomOf(x)'
  BY <1>1
<1> QED
  BY <1>2 DEF RoomInv

\* While a goroutine is in no Leave nobody has left (unless it is left out).
LEMMA NobodyLeft ==
    ASSUME NEW g \in Routines, Departed(g), pc[g] \notin {"leave", "leavewait"}
    PROVE  g \in muc.late \cup muc.kicked \/ Departs(inbox, g) = {}
BY DEF Departed

\* A function of addresses is changed at one of them.
LEMMA ManagedAt ==
    ASSUME RoomFields, NEW g \in Routines, NEW k \in Nicks, NEW v
    PROVE  /\ LET m == [muc.managed EXCEPT ![<<g, k>>] = v] IN
              /\ v \in Routines \cup {None} => m \in [Routines \X Nicks -> Routines \cup {None}]
              /\ m[<<g, k>>] = v
              /\ \A x \in Routines, a \in Nicks :
                    x # g \/ a # k => m[<<x, a>>] = muc.managed[<<x, a>>]
           /\ LET m == [muc.room EXCEPT ![<<g, k>>] = v] IN
              /\ v \in {"in", "out"} => m \in [Routines \X Nicks -> {"in", "out"}]
              /\ m[<<g, k>>] = v
              /\ \A x \in Routines, a \in Nicks :
                    x # g \/ a # k => m[<<x, a>>] = muc.room[<<x, a>>]
<1>1. <<g, k>> \in Routines \X Nicks
  OBVIOUS
<1>2. \A x \in Routines, a \in Nicks : x # g \/ a # k => <<x, a>> # <<g, k>> /\ <<x, a>> \in Routines \X Nicks
  OBVIOUS
<1>3. /\ muc.managed \in [Routines \X Nicks -> Routines \cup {None}]
      /\ muc.room \in [Routines \X Nicks -> {"in", "out"}]
  BY DEF RoomFields
<1> QED
  BY <1>1, <1>2, <1>3

\* (The room says that the user is there or not.)
LEMMA RoomAt ==
    ASSUME RoomFields, NEW g \in Routines, NEW k \in Nicks, NEW v \in {"in", "out"}
    PROVE  LET r == [muc.room EXCEPT ![<<g, k>>] = v] IN
           /\ r \in [Routines \X Nicks -> {"in", "out"}] /\ r[<<g, k>>] = v
           /\ \A x \in Routines, a \in Nicks :
                 x # g \/ a # k => r[<<x, a>>] = muc.room[<<x, a>>]
BY ManagedAt

\* Calls that enter the channel into managed or say where it goes.
LEMMA RoomJoin ==
    ASSUME Types, RoomInv, NEW g \in Routines, ClientJoin(g) \/ ChannelJoin(g)
    PROVE  RoomInv'
<1>1. CommonType /\ RoomFields /\ RoomOf(g) /\ Nicks = {0, 1}
  BY DEF Types, RoomInv, Nicks
<1>2. /\ UNCHANGED <<inbox, serve>> /\ \E op : Calls(g, op, "joinput")
      /\ ClientJoin(g) => serve.at # "join"
  BY DEF ClientJoin, ChannelJoin, managedM
<1>3. /\ pc[g] = "idle" /\ pc'[g] = "joinput" /\ ret'[g] = None
      /\ \A x \in Routines : x # g => pc'[x] = pc[x] /\ ret'[x] = ret[x]
  BY <1>1, <1>2 DEF CommonType, Calls, At
<1>4. /\ DOMAIN muc' = DOMAIN muc /\ muc'.room = muc.room
      /\ muc'.join \in {muc.join, [muc.join EXCEPT ![g] = <<>>]}
      /\ muc'.helper = muc.helper
      /\ muc'.left = muc.left \/ (ClientJoin(g) /\ muc'.left = muc.left \ {g})
      /\ muc'.late = muc.late /\ muc'.kicked = muc.kicked
      /\ muc'.to \in [Routines -> Nicks]
      /\ \E a \in Nicks : muc'.addr = [muc.addr EXCEPT ![g] = a]
      /\ muc'.managed \in {muc.managed, [muc.managed EXCEPT ![<<g, 0>>] = g]}
  <2>1. CASE ClientJoin(g)
    <3> DEFINE managed == [muc.managed EXCEPT ![<<g, 0>>] = g]
               to == [muc.to EXCEPT ![g] = 0]
               addr == [muc.addr EXCEPT ![g] = 0]
               join == [muc.join EXCEPT ![g] = <<>>]
               left == muc.left \ {g}
    <3>1. muc' = [muc EXCEPT !.managed = managed, !.to = to, !.addr = addr, !.join = join,
                             !.left = left]
      BY <2>1 DEF ClientJoin
    <3>2. to \in [Routines -> Nicks] /\ 0 \in Nicks
      BY <1>1 DEF RoomFields
    <3> HIDE DEF managed, to, addr, join, left
    <3>4. /\ DOMAIN muc' = DOMAIN muc /\ muc'.room = muc.room /\ muc'.join = join
          /\ muc'.helper = muc.helper /\ muc'.addr = addr /\ muc'.left = left
          /\ muc'.late = muc.late /\ muc'.kicked = muc.kicked
          /\ muc'.to = to /\ muc'.managed = managed
      BY <1>1, <3>1 DEF RoomFields
    <3> QED
      BY <2>1, <3>2, <3>4 DEF managed, addr, join, left
  <2>2. CASE ChannelJoin(g)
    <3> DEFINE to == [muc.to EXCEPT ![g] = muc.addr[g]]
               addr == [muc.addr EXCEPT ![g] = 1]
    <3>1. muc' = [muc EXCEPT !.to = to] \/ muc' = [muc EXCEPT !.to = to, !.addr = addr]
      BY <2>2 DEF ChannelJoin
    <3>2. to \in [Routines -> Nicks]
      BY <1>1 DEF RoomFields
    <3>3. muc.addr = [muc.addr EXCEPT ![g] = muc.addr[g]] /\ muc.addr[g] \in Nicks
      BY <1>1 DEF RoomFields
    <3> HIDE DEF to, addr
    <3>4. /\ DOMAIN muc' = DOMAIN muc /\ muc'.room = muc.room /\ muc'.join = muc.join
          /\ muc'.helper = muc.helper /\ muc'.left = muc.left
          /\ muc'.late = muc.late /\ muc'.kicked = muc.kicked
          /\ muc'.to = to /\ muc'.managed = muc.managed /\ muc'.addr \in {muc.addr, addr}
      BY <1>1, <3>1 DEF RoomFields
    <3>5. \E a \in Nicks : muc'.addr = [muc.addr EXCEPT ![g] = a]
      BY <1>1, <3>3, <3>4 DEF addr
    <3>6. /\ muc'.join \in {muc.join, [muc.join EXCEPT ![g] = <<>>]}
          /\ muc'.managed \in {muc.managed, [muc.managed EXCEPT ![<<g, 0>>] = g]}
      BY <3>4
    <3>7. /\ DOMAIN muc' = DOMAIN muc /\ muc'.room = muc.room /\ muc'.helper = muc.helper
          /\ muc'.left = muc.left /\ muc'.late = muc.late /\ muc'.kicked = muc.kicked
          /\ muc'.to \in [Routines -> Nicks]
      BY <3>2, <3>4
    <3> QED
      BY <3>5, <3>6, <3>7
  <2> QED
    BY <2>1, <2>2
<1>5. PICK a \in Nicks : muc'.addr = [muc.addr EXCEPT ![g] = a]
  BY <1>4
<1>6. /\ muc'.addr \in [Routines -> Nicks] /\ muc'.addr[g] = a
      /\ \A x \in Routines : x # g => muc'.addr[x] = muc.addr[x]
  BY <1>1, <1>5 DEF RoomFields
<1>7. /\ muc'.managed \in [Routines \X Nicks -> Routines \cup {None}]
      /\ \A x \in Routines, k \in Nicks : x # g => muc'.managed[<<x, k>>] = muc.managed[<<x, k>>]
      /\ muc'.managed[<<g, 0>>] \in {g, muc.managed[<<g, 0>>]}
      /\ muc'.managed[<<g, 1>>] = muc.managed[<<g, 1>>]
  <2>1. CASE muc'.managed = muc.managed
    BY <1>1, <2>1 DEF RoomFields
  <2>2. CASE muc'.managed = [muc.managed EXCEPT ![<<g, 0>>] = g]
    BY <1>1, <2>2, ManagedAt
  <2> QED
    BY <1>4, <2>1, <2>2
<1>11. /\ muc'.join \in [Routines -> Seq(Nat)] /\ muc'.join[g] \in {muc.join[g], <<>>}
       /\ \A x \in Routines : x # g => muc'.join[x] = muc.join[x]
  <2>1. muc.join \in [Routines -> Seq(Nat)] /\ <<>> \in Seq(Nat)
    BY <1>1 DEF RoomFields
  <2>2. CASE muc'.join = muc.join
    BY <2>1, <2>2
  <2>3. CASE muc'.join = [muc.join EXCEPT ![g] = <<>>]
    BY <2>1, <2>3
  <2> QED
    BY <1>4, <2>2, <2>3
<1>8. RoomFields'
  BY <1>1, <1>4, <1>6, <1>7, <1>11 DEF RoomFields
<1>9. OneRoom(g)
  BY <1>2, <1>3, <1>4, <1>6, <1>7, <1>11 DEF OneRoom, MucSame, CallSame, ServeSame, InboxSame, For
<1>10. RoomOf(g)'
  <2>1. Number(g)' = Number(g) /\ (For("join", g)' <=> For("join", g)) /\ serve'.n = serve.n
    BY <1>2, <1>4 DEF Number, For
  <2>2. Named(g)'
    BY <1>1, <1>2, <1>4, <1>7 DEF RoomOf, Named
  <2>3. Pended(g)'
    BY <1>1, <1>2, <1>4, <1>11, <2>1 DEF RoomOf, Pended
  <2>4. Leaving(g)'
    BY <1>3 DEF Leaving
  <2>5. Entered(g)'
    BY <1>1, <1>2, <1>3, <1>4, <1>7, <2>1 DEF RoomOf, Entered, For, None
  <2>6. Departed(g)'
    <3>1. g \in muc.late \cup muc.kicked \/ Departs(inbox, g) = {}
      BY <1>1, <1>3, NobodyLeft DEF RoomOf
    <3> QED
      BY <1>2, <1>3, <1>4, <3>1 DEF Departed, Lone, None
  <2> QED
    BY <2>2, <2>3, <2>4, <2>5, <2>6 DEF RoomOf
<1> QED
  BY <1>8, <1>9, <1>10, OneRoomStep

\* Calls that get a helper to send a presence.
LEMMA RoomPresenceCall ==
    ASSUME Types, RoomInv, NEW g \in Routines,
           LeavePresence(g) \/ (JoinQueue(g) /\ pc'[g] = "joinwait")
    PROVE  RoomInv'
<1>1. CommonType /\ RoomFields /\ RoomOf(g) /\ Nicks = {0, 1}
  BY DEF Types, RoomInv, Nicks
<1>2. UNCHANGED <<inbox, serve>>
  BY DEF JoinQueue, LeavePresence
<1>3. /\ pc[g] \in {"idle", "joinput"} /\ \A x \in Routines : x # g => pc'[x] = pc[x] /\ ret'[x] = ret[x]
      /\ \/ /\ JoinQueue(g) /\ pc'[g] = "joinwait" /\ pc[g] = "joinput" /\ ret'[g] = ret[g]
            /\ ~LeavePresence(g)
         \/ LeavePresence(g) /\ pc'[g] = "leave" /\ ret'[g] = None
  <2>1. CASE JoinQueue(g) /\ pc'[g] = "joinwait"
    <3>1. Goes(g, "joinwait") /\ pc[g] = "joinput"
      BY <1>1, <2>1 DEF JoinQueue, At, CommonType, Returns
    <3> QED
      BY <1>1, <2>1, <3>1 DEF CommonType, Goes, LeavePresence, Calls, At
  <2>2. CASE LeavePresence(g)
    BY <1>1, <2>2 DEF LeavePresence, CommonType, Calls, At
  <2> QED
    BY <2>1, <2>2
<1>4. \E s \in Senders, join \in Seq(Nat) :
          /\ s.to \in Nicks /\ muc'.helper = [muc.helper EXCEPT ![g] = Append(@, s)]
          /\ muc'.join = [muc.join EXCEPT ![g] = join]
          /\ LeavePresence(g) => s.to = muc.addr[g] /\ join = muc.join[g]
          /\ LeavePresence(g) \/ s.at = "join"
          /\ join \in {muc.join[g], <<Number(g) + 1>>}
          /\ DOMAIN muc' = DOMAIN muc /\ muc'.room = muc.room /\ muc'.managed = muc.managed
          /\ muc'.addr = muc.addr /\ muc'.to = muc.to /\ muc'.left = muc.left
          /\ muc'.late = muc.late /\ muc'.kicked = muc.kicked
  <2>0. Number(g) + 1 \in Nat /\ muc.addr[g] \in Nicks /\ muc.to[g] \in Nicks /\ muc.join[g] \in Seq(Nat)
    BY <1>1 DEF RoomFields, Number
  <2>1. CASE JoinQueue(g) /\ pc'[g] = "joinwait" /\ ~LeavePresence(g)
    <3> DEFINE s == Sender("join", muc.to[g])
               helper == [muc.helper EXCEPT ![g] = Append(@, s)]
               join == [muc.join EXCEPT ![g] = <<Number(g) + 1>>]
    <3>1. muc' = [muc EXCEPT !.join = join, !.helper = helper]
      BY <1>1, <2>1 DEF JoinQueue, CommonType, Returns
    <3>2. s \in Senders /\ s.to \in Nicks /\ s.at = "join"
      BY <1>1, <2>0 DEF Sender, Senders
    <3>3. <<Number(g) + 1>> \in Seq(Nat)
      BY <2>0
    <3> HIDE DEF helper, join, s
    <3>4. /\ DOMAIN muc' = DOMAIN muc /\ muc'.room = muc.room /\ muc'.managed = muc.managed
          /\ muc'.addr = muc.addr /\ muc'.to = muc.to /\ muc'.left = muc.left
          /\ muc'.late = muc.late /\ muc'.kicked = muc.kicked
          /\ muc'.helper = helper /\ muc'.join = join
      BY <1>1, <3>1 DEF RoomFields
    <3> QED
      BY <2>1, <3>2, <3>3, <3>4 DEF helper, join
  <2>2. CASE LeavePresence(g)
    <3> DEFINE s == Sender("leave", muc.addr[g])
               helper == [muc.helper EXCEPT ![g] = Append(@, s)]
    <3>1. muc' = [muc EXCEPT !.helper = helper]
      BY <2>2 DEF LeavePresence
    <3>2. s \in Senders /\ s.to = muc.addr[g]
      BY <1>1, <2>0 DEF Sender, Senders
    <3> HIDE DEF helper, s
    <3>3. /\ DOMAIN muc' = DOMAIN muc /\ muc'.room = muc.room /\ muc'.managed = muc.managed
          /\ muc'.addr = muc.addr /\ muc'.to = muc.to /\ muc'.left = muc.left
          /\ muc'.late = muc.late /\ muc'.kicked = muc.kicked
          /\ muc'.helper = helper /\ muc'.join = muc.join
      BY <1>1, <3>1 DEF RoomFields
    <3>4. muc.join = [muc.join EXCEPT ![g] = muc.join[g]]
      BY <1>1 DEF RoomFields
    <3> QED
      BY <2>0, <2>2, <3>2, <3>3, <3>4 DEF helper
  <2> QED
    BY <2>1, <2>2
<1>5. PICK s \in Senders, join \in Seq(Nat) :
          /\ s.to \in Nicks /\ muc'.helper = [muc.helper EXCEPT ![g] = Append(@, s)]
          /\ muc'.join = [muc.join EXCEPT ![g] = join]
          /\ LeavePresence(g) => s.to = muc.addr[g] /\ join = muc.join[g]
          /\ LeavePresence(g) \/ s.at = "join"
          /\ join \in {muc.join[g], <<Number(g) + 1>>}
          /\ DOMAIN muc' = DOMAIN muc /\ muc'.room = muc.room /\ muc'.managed = muc.managed
          /\ muc'.addr = muc.addr /\ muc'.to = muc.to /\ muc'.left = muc.left
          /\ muc'.late = muc.late /\ muc'.kicked = muc.kicked
  BY <1>4
<1> DEFINE h == muc.helper[g]
           N == Number(g)
<1>6. /\ h \in Seq(Senders) /\ N \in Nat /\ N = Len(h) /\ muc'.helper[g] = Append(h, s)
      /\ muc'.join[g] = join /\ muc'.helper \in [Routines -> Seq(Senders)]
      /\ muc'.join \in [Routines -> Seq(Nat)]
      /\ \A x \in Routines : x # g => muc'.helper[x] = muc.helper[x] /\ muc'.join[x] = muc.join[x]
  <2>1. h \in Seq(Senders) /\ N \in Nat /\ N = Len(h)
    BY <1>1 DEF RoomFields, Number
  <2>2. Append(h, s) \in Seq(Senders)
    BY <2>1
  <2> QED
    BY <1>1, <1>5, <2>1, <2>2 DEF RoomFields
<1>7. /\ Number(g)' = N + 1 /\ DOMAIN h = 1 .. N /\ DOMAIN muc'.helper[g] = 1 .. N + 1
      /\ muc'.helper[g][N + 1] = s /\ \A n \in 1 .. N : muc'.helper[g][n] = h[n]
  BY <1>6 DEF Number
<1> HIDE DEF h, N
<1>8. RoomFields'
  BY <1>1, <1>5, <1>6 DEF RoomFields
<1>9. OneRoom(g)
  BY <1>2, <1>3, <1>5, <1>6 DEF OneRoom, MucSame, CallSame, ServeSame, InboxSame, For
<1>10. \A i \in DOMAIN muc.join[g] : muc.join[g][i] <= N
  BY <1>1 DEF RoomOf, Pended, N
<1>11. \A i \in DOMAIN join : join[i] \in Nat /\ join[i] <= N + 1 /\ (LeavePresence(g) => join[i] # N + 1)
  <2>1. CASE join = muc.join[g]
    <3>1. \A i \in DOMAIN join : join[i] \in Nat /\ join[i] <= N
      BY <1>10, <2>1
    <3> QED
      BY <1>6, <3>1
  <2>2. CASE join = <<Number(g) + 1>> /\ ~LeavePresence(g)
    BY <1>6, <2>2 DEF N
  <2> QED
    BY <1>5, <2>1, <2>2
<1>12. RoomOf(g)'
  <2>1. Named(g)'
    <3>1. \A n \in DOMAIN muc'.helper[g] : muc'.helper[g][n].to \in Nicks
      <4>1. \A n \in 1 .. N : h[n].to \in Nicks
        BY <1>1, <1>7 DEF RoomOf, Named, h
      <4>2. \A n \in 1 .. N + 1 : n \in 1 .. N \/ n = N + 1
        BY <1>6
      <4> QED
        BY <1>5, <1>7, <4>1, <4>2
    <3> QED
      BY <1>1, <1>2, <1>5, <3>1 DEF RoomOf, Named
  <2>2. Pended(g)'
    <3>1. For("join", g)' => serve'.n \in Nat /\ serve'.n <= N + 1
      <4>1. For("join", g)' => serve'.n \in Nat /\ serve'.n <= N
        BY <1>1, <1>2 DEF RoomOf, Pended, For, N
      <4> QED
        BY <1>6, <4>1
    <3>2. ASSUME NEW n, Has(inbox', "presenceerror", g, n)
          PROVE  n \in DOMAIN muc'.helper[g] /\ muc'.helper[g][n].at \notin {"join", "leave"}
      <4>1. n \in 1 .. N /\ h[n].at \notin {"join", "leave"}
        BY <1>1, <1>2, <1>7, <3>2 DEF RoomOf, Pended, h
      <4>2. n \in 1 .. N + 1
        BY <1>6, <4>1
      <4> QED
        BY <1>7, <4>1, <4>2
    <3> QED
      BY <1>6, <1>7, <1>11, <3>1, <3>2 DEF Pended
  <2>3. Leaving(g)'
    <3>1. ASSUME pc'[g] \in {"leave", "leavewait"}
          PROVE  /\ N + 1 > 0 /\ muc'.helper[g][N + 1].to = muc'.addr[g]
                 /\ \A i \in DOMAIN muc'.join[g] : muc'.join[g][i] # N + 1
                 /\ For("join", g)' => serve'.n # N + 1
      <4>1. LeavePresence(g)
        BY <1>3, <3>1
      <4>2. For("join", g)' => serve'.n \in Nat /\ serve'.n <= N
        BY <1>1, <1>2 DEF RoomOf, Pended, For, N
      <4>3. For("join", g)' => serve'.n # N + 1
        BY <1>6, <4>2
      <4> QED
        BY <1>5, <1>6, <1>7, <1>11, <4>1, <4>3
    <3>2. pc'[g] = "joinwait" => muc'.helper[g][N + 1].at # "leave" /\ N + 1 > 0
      BY <1>3, <1>5, <1>6, <1>7
    <3> QED
      BY <1>7, <3>1, <3>2 DEF Leaving
  <2>4. Entered(g)'
    <3>1. ret'[g] \notin {"joined", "left"}
      BY <1>1, <1>3 DEF RoomOf, Entered, None
    <3>2. For("join", g)' <=> For("join", g)
      BY <1>2 DEF For
    <3> QED
      BY <1>1, <1>2, <1>5, <3>1, <3>2 DEF RoomOf, Entered
  <2>5. Departed(g)'
    <3>1. g \in muc.late \cup muc.kicked \/ Departs(inbox, g) = {}
      BY <1>1, <1>3, NobodyLeft DEF RoomOf
    <3>2. ret'[g] \notin {"joined", "left"}
      BY <1>1, <1>3 DEF RoomOf, Entered, None
    <3> QED
      BY <1>2, <1>5, <3>1, <3>2 DEF Departed, Lone
  <2> QED
    BY <2>1, <2>2, <2>3, <2>4, <2>5 DEF RoomOf
<1> QED
  BY <1>8, <1>9, <1>12, OneRoomStep

\* Calls of multi-user chat.
LEMMA RoomCall ==
    ASSUME Types, RoomInv, NEW g \in Routines, MucCall(g)
    PROVE  RoomInv'
<1>1. CommonType /\ RoomFields /\ RoomOf(g)
  BY DEF Types, RoomInv
<1>2. CASE ClientJoin(g) \/ ChannelJoin(g)
  BY <1>2, RoomJoin
<1>3. CASE (JoinQueue(g) /\ pc'[g] = "joinwait") \/ LeavePresence(g)
  BY <1>3, RoomPresenceCall
<1>4. CASE (JoinQueue(g) /\ pc'[g] # "joinwait") \/ LeaveSelect(g) \/ MucCancelled(g)
  <2>1. /\ UNCHANGED <<inbox, serve>>
        /\ \/ pc[g] \in {"joinput", "joinwait"} /\ Returns(g, "err")
           \/ pc[g] = "leavewait" /\ Returns(g, "err") /\ MucCancelled(g)
           \/ pc[g] = "leave" /\ Goes(g, "leavewait")
    BY <1>1, <1>4 DEF JoinQueue, LeaveSelect, MucCancelled, At, CommonType, Goes
  <2>2. /\ \/ pc[g] \in {"joinput", "joinwait"} /\ pc'[g] = "idle" /\ ret'[g] = "err"
           \/ pc[g] = "leavewait" /\ pc'[g] = "idle" /\ ret'[g] = "err" /\ MucCancelled(g)
           \/ pc[g] = "leave" /\ pc'[g] = "leavewait" /\ ret'[g] = ret[g]
        /\ \A x \in Routines : x # g => pc'[x] = pc[x] /\ ret'[x] = ret[x]
    BY <1>1, <2>1 DEF CommonType, Goes, Returns
  <2>3. /\ \A k \in DOMAIN muc : k # "late" => muc'[k] = muc[k]
        /\ DOMAIN muc' = DOMAIN muc
        /\ muc'.late \in {muc.late, muc.late \cup {g}}
        /\ MucCancelled(g) /\ pc[g] = "leavewait" => g \in muc'.late
    <3>1. CASE muc' = muc /\ ~MucCancelled(g)
      BY <3>1
    <3>2. CASE MucCancelled(g)
      <4> DEFINE late == IF pc[g] = "leavewait" THEN muc.late \cup {g} ELSE muc.late
      <4>1. muc' = [muc EXCEPT !.late = late]
        BY <3>2 DEF MucCancelled
      <4>2. late \in {muc.late, muc.late \cup {g}} /\ (pc[g] = "leavewait" => g \in late)
        OBVIOUS
      <4> HIDE DEF late
      <4>3. /\ \A k \in DOMAIN muc : k # "late" => muc'[k] = muc[k]
            /\ DOMAIN muc' = DOMAIN muc /\ muc'.late = late
        BY <1>1, <4>1 DEF RoomFields
      <4> QED
        BY <4>2, <4>3
    <3> QED
      BY <1>1, <1>4, <3>1, <3>2 DEF LeaveSelect, JoinQueue, CommonType, Goes
  <2>4. /\ muc'.managed = muc.managed /\ muc'.addr = muc.addr /\ muc'.to = muc.to
        /\ muc'.join = muc.join /\ muc'.helper = muc.helper /\ muc'.room = muc.room
        /\ muc'.left = muc.left /\ muc'.kicked = muc.kicked
    BY <1>1, <2>3 DEF RoomFields
  <2>5. RoomFields'
    BY <1>1, <2>3, <2>4 DEF RoomFields
  <2>6. MucSame(g) /\ ServeSame(g) /\ InboxSame(g) /\ OneRoom(g)
    BY <2>1, <2>2, <2>3, <2>4 DEF OneRoom, MucSame, CallSame, ServeSame, InboxSame, For
  <2>7. Number(g)' = Number(g) /\ (For("join", g)' <=> For("join", g))
    BY <2>1, <2>4 DEF Number, For
  <2>8. CASE pc[g] \in {"joinput", "joinwait"}
    <3>1. CallSame(g)
      BY <1>1, <2>2, <2>8 DEF CallSame, RoomOf, Entered
    <3>2. RoomOf(g)'
      BY <1>1, <2>6, <3>1, RoomAside
    <3> QED
      BY <2>5, <2>6, <3>2, OneRoomStep
  <2>9. CASE pc[g] \in {"leave", "leavewait"}
    <3>1. Named(g)' /\ Pended(g)'
      BY <1>1, <2>1, <2>4, <2>7 DEF RoomOf, Named, Pended
    <3>2. Leaving(g)'
      BY <1>1, <2>1, <2>2, <2>4, <2>7, <2>9 DEF RoomOf, Leaving
    <3>3. ret'[g] \notin {"joined", "left"}
      BY <1>1, <2>2, <2>9 DEF RoomOf, Entered
    <3>4. Entered(g)'
      BY <1>1, <2>1, <2>4, <2>7, <3>3 DEF RoomOf, Entered
    <3>5. Departed(g)'
      <4>1. CASE pc[g] = "leavewait"
        BY <2>2, <2>3, <4>1 DEF Departed
      <4>2. CASE pc[g] = "leave"
        BY <1>1, <2>1, <2>2, <2>3, <2>4, <2>7, <3>3, <4>2 DEF RoomOf, Departed
      <4> QED
        BY <2>9, <4>1, <4>2
    <3> QED
      BY <2>5, <2>6, <3>1, <3>2, <3>4, <3>5, OneRoomStep DEF RoomOf
  <2> QED
    BY <2>1, <2>8, <2>9
<1> QED
  BY <1>2, <1>3, <1>4 DEF MucCall

\* What a helper that goes on leaves alone.
Helped(g, n, t) ==
    /\ DOMAIN muc' = DOMAIN muc /\ muc'.managed = muc.managed /\ muc'.join = muc.join
    /\ muc'.addr = muc.addr /\ muc'.to = muc.to /\ muc'.left = muc.left
    /\ muc'.helper \in [Routines -> Seq(Senders)]
    /\ \A x \in Routines : x # g => muc'.helper[x] = muc.helper[x]
    /\ DOMAIN muc'.helper[g] = DOMAIN muc.helper[g] /\ Len(muc'.helper[g]) = Len(muc.helper[g])
    /\ \A k \in DOMAIN muc.helper[g] : muc'.helper[g][k].to = muc.helper[g][k].to
    /\ \A k \in DOMAIN muc.helper[g] : k # n => muc'.helper[g][k].at = muc.helper[g][k].at
    /\ muc'.helper[g][n].at = t

LEMMA BecomesRoom ==
    ASSUME RoomFields, NEW g \in Routines, NEW n \in DOMAIN muc.helper[g],
           NEW t \in {"wait", "error", "response", "end"}
    PROVE  LET m == Becomes(g, n, t) IN
           /\ muc' = m => /\ Helped(g, n, t) /\ muc'.room = muc.room
                          /\ muc'.late = muc.late /\ muc'.kicked = muc.kicked
           /\ \A late : muc' = [m EXCEPT !.late = late] =>
                 /\ Helped(g, n, t) /\ muc'.room = muc.room
                 /\ muc'.late = late /\ muc'.kicked = muc.kicked
           /\ \A late, room : muc' = [m EXCEPT !.late = late, !.room = room] =>
                 /\ Helped(g, n, t) /\ muc'.room = room
                 /\ muc'.late = late /\ muc'.kicked = muc.kicked
<1> DEFINE m == Becomes(g, n, t)
           q == muc.helper[g]
           r == [q EXCEPT ![n].at = t]
           h == [muc.helper EXCEPT ![g] = r]
           D == {"managed", "addr", "to", "join", "helper", "room", "left", "late", "kicked", "seen"}
<1>1. m = [muc EXCEPT !.helper = h] /\ DOMAIN muc = D
  BY DEF Becomes, RoomFields
<1>2. q \in Seq(Senders)
  BY DEF RoomFields
<1>3. n \in DOMAIN q
  OBVIOUS
<1> HIDE DEF q
<1>4. /\ DOMAIN r = DOMAIN q /\ r \in Seq(Senders)
      /\ \A k \in DOMAIN q : r[k].to = q[k].to /\ (k # n => r[k].at = q[k].at)
      /\ r[n].at = t
  <2>1. \A z \in Senders : /\ [z EXCEPT !.at = t] \in Senders
                           /\ [z EXCEPT !.at = t].to = z.to /\ [z EXCEPT !.at = t].at = t
    BY DEF Senders
  <2>2. DOMAIN q = 1 .. Len(q) /\ Len(q) \in Nat /\ \A k \in 1 .. Len(q) : q[k] \in Senders
    BY <1>2
  <2>3. DOMAIN r = DOMAIN q /\ \A k \in DOMAIN q : r[k] = IF k = n THEN [q[n] EXCEPT !.at = t] ELSE q[k]
    BY <1>3
  <2> HIDE DEF r
  <2>4. \A k \in 1 .. Len(q) : r[k] \in Senders
    BY <1>3, <2>1, <2>2, <2>3
  <2>5. r \in [1 .. Len(q) -> Senders]
    <3>1. r = [k \in 1 .. Len(q) |-> r[k]]
      BY <2>2, <2>3 DEF r
    <3> QED
      BY <2>4, <3>1
  <2>6. r \in UNION {[1 .. k -> Senders] : k \in Nat}
    BY <2>2, <2>5
  <2>7. r \in Seq(Senders)
    BY <2>6, SeqDef
  <2>8. \A k \in DOMAIN q : r[k].to = q[k].to /\ (k # n => r[k].at = q[k].at)
    BY <1>3, <2>1, <2>2, <2>3
  <2>9. r[n].at = t
    BY <1>3, <2>1, <2>2, <2>3
  <2> QED
    BY <2>3, <2>7, <2>8, <2>9
<1> HIDE DEF r
<1>5. Len(r) = Len(q)
  BY <1>2, <1>4
<1>6. /\ h \in [Routines -> Seq(Senders)] /\ h[g] = r
      /\ \A x \in Routines : x # g => h[x] = muc.helper[x]
  BY <1>4 DEF RoomFields
<1> HIDE DEF h, m, D
<1>7. ASSUME DOMAIN muc' = DOMAIN muc, muc'.helper = h, muc'.managed = muc.managed,
             muc'.join = muc.join, muc'.addr = muc.addr, muc'.to = muc.to, muc'.left = muc.left
      PROVE  Helped(g, n, t)
  BY <1>3, <1>4, <1>5, <1>6, <1>7 DEF Helped, q
<1>8. /\ DOMAIN m = D /\ m.helper = h /\ m.managed = muc.managed /\ m.room = muc.room
      /\ m.join = muc.join /\ m.addr = muc.addr /\ m.to = muc.to /\ m.left = muc.left
      /\ m.late = muc.late /\ m.kicked = muc.kicked
  BY <1>1 DEF D
<1>9. ASSUME muc' = m
      PROVE  /\ Helped(g, n, t) /\ muc'.room = muc.room
             /\ muc'.late = muc.late /\ muc'.kicked = muc.kicked
  BY <1>1, <1>7, <1>8, <1>9
<1>10. ASSUME NEW late, muc' = [m EXCEPT !.late = late]
       PROVE  /\ Helped(g, n, t) /\ muc'.room = muc.room
              /\ muc'.late = late /\ muc'.kicked = muc.kicked
  <2>1. /\ DOMAIN muc' = D /\ muc'.helper = h /\ muc'.managed = muc.managed /\ muc'.room = muc.room
        /\ muc'.join = muc.join /\ muc'.addr = muc.addr /\ muc'.to = muc.to /\ muc'.left = muc.left
        /\ muc'.late = late /\ muc'.kicked = muc.kicked
    BY <1>8, <1>10 DEF D
  <2> QED
    BY <1>1, <1>7, <2>1
<1>11. ASSUME NEW late, NEW room, muc' = [m EXCEPT !.late = late, !.room = room]
       PROVE  /\ Helped(g, n, t) /\ muc'.room = room
              /\ muc'.late = late /\ muc'.kicked = muc.kicked
  <2>1. /\ DOMAIN muc' = D /\ muc'.helper = h /\ muc'.managed = muc.managed /\ muc'.room = room
        /\ muc'.join = muc.join /\ muc'.addr = muc.addr /\ muc'.to = muc.to /\ muc'.left = muc.left
        /\ muc'.late = late /\ muc'.kicked = muc.kicked
    BY <1>8, <1>11 DEF D
  <2> QED
    BY <1>1, <1>7, <2>1
<1> QED
  BY <1>9, <1>10, <1>11 DEF m

\* The other channels, and what of this one depends on its helper's address.
LEMMA HelpedRoom ==
    ASSUME Types, RoomInv, NEW g \in Routines, NEW n \in DOMAIN muc.helper[g],
           NEW t \in {"wait", "error", "response", "end"}, Helped(g, n, t),
           muc'.room \in [Routines \X Nicks -> {"in", "out"}],
           \A x \in Routines, k \in Nicks : x # g => muc'.room[<<x, k>>] = muc.room[<<x, k>>],
           muc'.late \in {muc.late, muc.late \cup {g}}, muc'.kicked = muc.kicked,
           \A x \in Routines : x # g => CallSame(x) /\ ServeSame(x) /\ InboxSame(x)
    PROVE  /\ RoomFields' /\ OneRoom(g) /\ Number(g)' = Number(g)
           /\ Nicked(inbox', g) => Named(g)'
<1>1. RoomFields /\ Named(g)
  BY DEF RoomInv, RoomOf
<1>2. RoomFields'
  BY <1>1 DEF RoomFields, Helped
<1>3. OneRoom(g)
  BY DEF OneRoom, MucSame, Helped
<1>4. Number(g)' = Number(g)
  BY DEF Number, Helped
<1>5. Nicked(inbox', g) => Named(g)'
  BY <1>1 DEF Named, Helped
<1> QED
  BY <1>2, <1>3, <1>4, <1>5

\* A helper that has an error, or whose call has returned, ends.
LEMMA RoomHelperEnds ==
    ASSUME Types, RoomInv, NEW g \in Routines, NEW n \in DOMAIN muc.helper[g],
           Report(g, n) \/ HelperCancelled(g, n)
    PROVE  RoomInv'
<1>1. CommonType /\ RoomFields /\ RoomOf(g)
  BY DEF Types, RoomInv
<1>2. /\ inbox' = inbox /\ muc' = Becomes(g, n, "end") /\ serve' \in {serve, Loop}
      /\ muc.helper[g][n].at \notin {"join", "leave"}
      /\ \/ UNCHANGED common
         \/ /\ n = Number(g) /\ pc[g] \in InCall /\ Returns(g, "err")
            /\ muc.helper[g][n].at \in {"error", "response"}
  BY DEF Report, HelperCancelled, Pending
<1>3. /\ Helped(g, n, "end") /\ muc'.room = muc.room
      /\ muc'.late = muc.late /\ muc'.kicked = muc.kicked
  BY <1>1, <1>2, BecomesRoom
<1>4. /\ \/ pc'[g] = pc[g] /\ ret'[g] = ret[g]
         \/ /\ n = Number(g) /\ pc'[g] = "idle" /\ ret'[g] = "err"
            /\ muc.helper[g][n].at \in {"error", "response"}
      /\ \A x \in Routines : x # g => pc'[x] = pc[x] /\ ret'[x] = ret[x]
  BY <1>1, <1>2, ReturnsEffect DEF common
<1>5. For("join", g)' => For("join", g) /\ serve'.n = serve.n
  BY <1>2 DEF For, Loop
<1>6. \A x \in Routines : x # g => CallSame(x) /\ ServeSame(x) /\ InboxSame(x)
  BY <1>2, <1>4 DEF CallSame, ServeSame, InboxSame, For, Loop
<1>7. RoomFields' /\ OneRoom(g) /\ Number(g)' = Number(g) /\ Named(g)'
  <2>1. RoomFields' /\ OneRoom(g) /\ Number(g)' = Number(g) /\ (Nicked(inbox', g) => Named(g)')
    BY <1>1, <1>3, <1>6, HelpedRoom DEF RoomFields
  <2> QED
    BY <1>1, <1>2, <2>1 DEF RoomOf, Named
<1>8. Pended(g)'
  <2>1. ASSUME NEW k, Has(inbox', "presenceerror", g, k)
        PROVE  k \in DOMAIN muc'.helper[g] /\ muc'.helper[g][k].at \notin {"join", "leave"}
    <3>1. k \in DOMAIN muc.helper[g] /\ muc.helper[g][k].at \notin {"join", "leave"}
      BY <1>1, <1>2, <2>1 DEF RoomOf, Pended
    <3> QED
      BY <1>3, <3>1 DEF Helped
  <2>2. muc'.join = muc.join
    BY <1>3 DEF Helped
  <2> QED
    BY <1>1, <1>5, <1>7, <2>1, <2>2 DEF RoomOf, Pended
<1>9. Number(g) > 0 => Number(g) \in DOMAIN muc.helper[g]
  BY <1>1 DEF RoomFields, Number
<1>10. Leaving(g)'
  <2>1. muc'.join = muc.join /\ muc'.addr = muc.addr
    BY <1>3 DEF Helped
  <2>2. ASSUME Number(g) > 0
        PROVE  /\ muc'.helper[g][Number(g)].to = muc.helper[g][Number(g)].to
               /\ muc.helper[g][Number(g)].at # "leave" => muc'.helper[g][Number(g)].at # "leave"
    BY <1>3, <1>9, <2>2 DEF Helped
  <2> QED
    BY <1>1, <1>4, <1>5, <1>7, <2>1, <2>2 DEF RoomOf, Leaving
<1>11. Entered(g)'
  <2>1. muc'.managed = muc.managed /\ muc'.addr = muc.addr /\ muc'.left = muc.left
    BY <1>3 DEF Helped
  <2> QED
    BY <1>1, <1>2, <1>3, <1>4, <1>5, <2>1 DEF RoomOf, Entered
<1>12. Departed(g)'
  <2>1. CASE g \in muc.late \cup muc.kicked
    BY <1>3, <2>1 DEF Departed
  <2>2. CASE g \notin muc.late \cup muc.kicked
    <3>1. muc'.managed = muc.managed /\ muc'.addr = muc.addr
      BY <1>3 DEF Helped
    <3>2. /\ Lone(inbox', g)
          /\ ret[g] = "left" => /\ muc.room[<<g, muc.addr[g]>>] = "out"
                                /\ muc.managed[<<g, muc.addr[g]>>] = None
      BY <1>1, <1>2, <2>2 DEF RoomOf, Departed
    <3>3. ret'[g] = "left" => ret[g] = "left"
      BY <1>4
    <3>4. ASSUME NEW i \in Departs(inbox', g)
          PROVE  /\ pc'[g] \in {"leave", "leavewait"} /\ inbox'[i].n = muc'.addr[g]
                 /\ muc'.room[<<g, muc'.addr[g]>>] = "out"
                 /\ muc'.helper[g][Number(g)'].at \in {"wait", "end"}
                 /\ ~Has(inbox', "presenceerror", g, Number(g)')
      <4>1. /\ pc[g] \in {"leave", "leavewait"} /\ inbox[i].n = muc.addr[g]
            /\ muc.room[<<g, muc.addr[g]>>] = "out"
            /\ muc.helper[g][Number(g)].at \in {"wait", "end"}
            /\ ~Has(inbox, "presenceerror", g, Number(g))
        BY <1>1, <1>2, <2>2, <3>4 DEF RoomOf, Departed
      <4>2. Number(g) \in DOMAIN muc.helper[g]
        BY <1>1, <1>9, <4>1 DEF RoomOf, Leaving
      <4>3. muc'.helper[g][Number(g)].at \in {"wait", "end"}
        BY <1>3, <4>1, <4>2 DEF Helped
      <4>4. pc'[g] = pc[g]
        BY <1>4, <4>1
      <4> QED
        BY <1>2, <1>3, <1>7, <3>1, <4>1, <4>3, <4>4
    <3> QED
      BY <1>3, <3>1, <3>2, <3>3, <3>4 DEF Departed
  <2> QED
    BY <2>1, <2>2
<1> QED
  BY <1>7, <1>8, <1>10, <1>11, <1>12, OneRoomStep DEF RoomOf

\* A helper sends its presence, and the room answers.
LEMMA RoomSends ==
    ASSUME Types, RoomInv, NEW g \in Routines, NEW n \in DOMAIN muc.helper[g], SendPresence(g, n)
    PROVE  RoomInv'
<1>1. CommonType /\ RoomFields /\ RoomOf(g) /\ inbox \in Seq(Stanzas) /\ Nicks = {0, 1}
  BY DEF Types, RoomInv, ServeType, Nicks
<1> DEFINE to == muc.helper[g][n].to
           at == muc.helper[g][n].at
           late == IF Pending(g, n) THEN muc.late ELSE muc.late \cup {g}
           w == Becomes(g, n, "wait")
           room(v) == [muc.room EXCEPT ![<<g, to>>] = v]
<1>2. to \in Nicks /\ n \in Nat /\ at \in {"join", "leave"} /\ UNCHANGED <<common, serve>>
  BY <1>1 DEF RoomOf, Named, RoomFields, SendPresence
<1>3. /\ w.late = muc.late /\ w.room = muc.room
  BY <1>1 DEF Becomes, RoomFields
<1>4. \/ muc' = Becomes(g, n, "error") /\ inbox' = inbox
      \/ /\ muc' = [w EXCEPT !.late = late]
         /\ \/ inbox' = Append(inbox, Stanza("presenceerror", g, n))
            \/ inbox' = inbox
      \/ /\ muc' = [w EXCEPT !.late = late, !.room = room("in")]
         /\ inbox' = Append(inbox, Stanza("available", g, to))
      \/ /\ at = "leave" /\ muc' = [w EXCEPT !.late = late, !.room = room("out")]
         /\ inbox' = Append(inbox, Stanza("unavailable", g, to))
  BY <1>3 DEF SendPresence, Answers
<1> HIDE DEF to, at, w
<1>5. PICK t \in {"wait", "error"} :
      /\ Helped(g, n, t) /\ muc'.kicked = muc.kicked
      /\ \/ t = "error" /\ inbox' = inbox /\ muc'.room = muc.room /\ muc'.late = muc.late
         \/ /\ t = "wait" /\ muc'.late = late /\ muc'.room = muc.room
            /\ \/ inbox' = Append(inbox, Stanza("presenceerror", g, n))
               \/ inbox' = inbox
         \/ /\ t = "wait" /\ muc'.late = late /\ muc'.room = room("in")
            /\ inbox' = Append(inbox, Stanza("available", g, to))
         \/ /\ t = "wait" /\ at = "leave" /\ muc'.late = late /\ muc'.room = room("out")
            /\ inbox' = Append(inbox, Stanza("unavailable", g, to))
  <2> HIDE DEF late, room
  <2>1. ASSUME muc' = Becomes(g, n, "error")
        PROVE  /\ Helped(g, n, "error") /\ muc'.kicked = muc.kicked
               /\ muc'.late = muc.late /\ muc'.room = muc.room
    BY <1>1, <2>1, BecomesRoom
  <2>2. ASSUME muc' = [w EXCEPT !.late = late]
        PROVE  /\ Helped(g, n, "wait") /\ muc'.kicked = muc.kicked
               /\ muc'.late = late /\ muc'.room = muc.room
    BY <1>1, <2>2, BecomesRoom DEF w
  <2>3. ASSUME NEW r, muc' = [w EXCEPT !.late = late, !.room = r]
        PROVE  Helped(g, n, "wait") /\ muc'.kicked = muc.kicked /\ muc'.late = late /\ muc'.room = r
    BY <1>1, <2>3, BecomesRoom, ZenonT(30) DEF w
  <2> QED
    BY <1>4, <2>1, <2>2, <2>3
<1> HIDE DEF room, late
<1>6. \A v \in {"in", "out"} :
        /\ room(v) \in [Routines \X Nicks -> {"in", "out"}] /\ room(v)[<<g, to>>] = v
        /\ \A x \in Routines, k \in Nicks : x # g \/ k # to => room(v)[<<x, k>>] = muc.room[<<x, k>>]
  <2> SUFFICES ASSUME NEW v \in {"in", "out"}
               PROVE  /\ room(v) \in [Routines \X Nicks -> {"in", "out"}] /\ room(v)[<<g, to>>] = v
                      /\ \A x \in Routines, k \in Nicks :
                            x # g \/ k # to => room(v)[<<x, k>>] = muc.room[<<x, k>>]
    OBVIOUS
  <2>1. room(v) = [muc.room EXCEPT ![<<g, to>>] = v]
    BY DEF room
  <2>2. room(v) \in [Routines \X Nicks -> {"in", "out"}]
    BY <1>1, <1>2, <2>1, RoomAt
  <2>3. room(v)[<<g, to>>] = v
    BY <1>1, <1>2, <2>1, RoomAt
  <2>4. \A x \in Routines, k \in Nicks : x # g \/ k # to => room(v)[<<x, k>>] = muc.room[<<x, k>>]
    BY <1>1, <1>2, <2>1, RoomAt
  <2> QED
    BY <2>2, <2>3, <2>4
<1>7. late \in {muc.late, muc.late \cup {g}} /\ (Pending(g, n) \/ g \in late)
  BY DEF late
<1>8. /\ muc'.room \in [Routines \X Nicks -> {"in", "out"}]
      /\ \A x \in Routines, k \in Nicks : x # g => muc'.room[<<x, k>>] = muc.room[<<x, k>>]
      /\ muc'.late \in {muc.late, muc.late \cup {g}}
      /\ g \in muc.late => g \in muc'.late
      /\ t = "wait" => Pending(g, n) \/ g \in muc'.late
  <2>1. muc'.room \in {muc.room, room("in"), room("out")}
    BY <1>5
  <2>2. /\ muc'.late \in {muc.late, late}
        /\ t = "wait" => muc'.late = late
    BY <1>5
  <2>3. muc'.room \in [Routines \X Nicks -> {"in", "out"}]
    BY <1>1, <1>6, <2>1 DEF RoomFields
  <2>4. \A x \in Routines, k \in Nicks : x # g => muc'.room[<<x, k>>] = muc.room[<<x, k>>]
    BY <1>6, <2>1
  <2> QED
    BY <1>7, <2>2, <2>3, <2>4
<1>9. /\ \A k \in MucKinds, j \in Nat :
            LET m == Stanza(k, g, j) IN m \in Stanzas /\ m.who = g /\ m.kind = k /\ m.n = j
      /\ {"available", "unavailable", "presenceerror"} = MucKinds /\ to \in Nat
  BY <1>1, <1>2 DEF MucKinds, Stanza, Stanzas
<1>10. /\ pc' = pc /\ ret' = ret /\ (For("join", g)' <=> For("join", g)) /\ serve' = serve
       /\ \A x \in Routines : x # g => CallSame(x) /\ ServeSame(x) /\ InboxSame(x)
  <2>1. pc' = pc /\ ret' = ret /\ (For("join", g)' <=> For("join", g)) /\ serve' = serve
    BY <1>2 DEF common, For
  <2>2. ASSUME NEW x \in Routines, x # g PROVE InboxSame(x)
    <3>1. \A m \in Stanzas : m.who = g => Foreign(m, x)
      BY <2>2 DEF Foreign
    <3> QED
      BY <1>2, <1>5, <1>9, <3>1, ZenonT(30) DEF InboxSame
  <2> QED
    BY <2>1, <2>2 DEF CallSame, ServeSame, For
<1>11. RoomFields' /\ OneRoom(g) /\ Number(g)' = Number(g) /\ (Nicked(inbox', g) => Named(g)')
  BY <1>5, <1>8, <1>10, HelpedRoom
<1>12. Nicked(inbox, g) /\ (muc.room[<<g, 0>>] = "in" \/ Dated(inbox, g))
  BY <1>1 DEF RoomOf, Named, Entered
<1> DEFINE Kept ==
      /\ Nicked(inbox', g)
      /\ \A k : Has(inbox', "presenceerror", g, k) =>
            Has(inbox, "presenceerror", g, k) \/ (k = n /\ t = "wait")
      /\ muc'.room[<<g, 0>>] = "in" \/ Dated(inbox', g)
      /\ muc.room[<<g, 0>>] = "in" \/ Has(inbox, "unavailable", g, 0) =>
            muc'.room[<<g, 0>>] = "in" \/ Has(inbox', "unavailable", g, 0)
      /\ \/ inbox' = inbox /\ muc'.room = muc.room
         \/ t = "wait" /\ Departs(inbox', g) = Departs(inbox, g)
         \/ /\ t = "wait" /\ at = "leave" /\ muc'.room[<<g, to>>] = "out"
            /\ \A k : Has(inbox', "presenceerror", g, k) => Has(inbox, "presenceerror", g, k)
            /\ Departs(inbox, g) = {} =>
                  Lone(inbox', g) /\ \A i \in Departs(inbox', g) : inbox'[i].n = to
<1>13. Kept
  <2>1. CASE inbox' = inbox /\ muc'.room = muc.room
    BY <1>12, <2>1
  <2>2. CASE /\ t = "wait" /\ muc'.room = muc.room
             /\ inbox' = Append(inbox, Stanza("presenceerror", g, n))
    <3> DEFINE m == Stanza("presenceerror", g, n)
    <3>1. m \in Stanzas /\ m.kind = "presenceerror" /\ m.who = g /\ m.n = n
      BY <1>2, <1>9
    <3> HIDE DEF m
    <3>2. inbox' = Append(inbox, m)
      BY <2>2 DEF m
    <3>3. /\ ~Is(m, "unavailable", g) /\ ~Presence(m, "available", g, 0)
          /\ \A k : ~Presence(m, "unavailable", g, k)
          /\ \A k : Presence(m, "presenceerror", g, k) => k = n
      BY <3>1 DEF Is, Presence
    <3>4. \A kind, k : Has(inbox', kind, g, k) <=> Has(inbox, kind, g, k) \/ Presence(m, kind, g, k)
      BY <1>1, <3>1, <3>2, PresenceAdded
    <3>5. Nicked(inbox', g)
      BY <1>1, <1>12, <3>1, <3>2, PresenceAdded
    <3>6. Dated(inbox, g) => Dated(inbox', g)
      BY <1>1, <3>1, <3>2, <3>3, PresenceAdded
    <3>7. Departs(inbox', g) = Departs(inbox, g)
      BY <1>1, <3>1, <3>2, <3>3, OtherAdded
    <3> QED
      BY <1>12, <2>2, <3>3, <3>4, <3>5, <3>6, <3>7
  <2>3. CASE /\ t = "wait" /\ muc'.room = room("in")
             /\ inbox' = Append(inbox, Stanza("available", g, to))
    <3> DEFINE m == Stanza("available", g, to)
    <3>1. m \in Stanzas /\ m.kind = "available" /\ m.who = g /\ m.n = to
      BY <1>2, <1>9
    <3> HIDE DEF m
    <3>2. inbox' = Append(inbox, m)
      BY <2>3 DEF m
    <3>3. /\ ~Is(m, "unavailable", g) /\ (to # 0 => ~Presence(m, "available", g, 0))
          /\ \A k : ~Presence(m, "unavailable", g, k) /\ ~Presence(m, "presenceerror", g, k)
      BY <3>1 DEF Is, Presence
    <3>4. \A kind, k : Has(inbox', kind, g, k) <=> Has(inbox, kind, g, k) \/ Presence(m, kind, g, k)
      BY <1>1, <3>1, <3>2, PresenceAdded
    <3>5. Nicked(inbox', g)
      BY <1>1, <1>2, <1>12, <3>1, <3>2, PresenceAdded
    <3>6. to # 0 /\ Dated(inbox, g) => Dated(inbox', g)
      BY <1>1, <3>1, <3>2, <3>3, PresenceAdded
    <3>7. Departs(inbox', g) = Departs(inbox, g)
      BY <1>1, <3>1, <3>2, <3>3, OtherAdded
    <3>8. muc'.room[<<g, 0>>] = "in" \/ (to # 0 /\ muc'.room[<<g, 0>>] = muc.room[<<g, 0>>])
      BY <1>1, <1>6, <2>3, ZenonT(30)
    <3> QED
      BY <1>12, <2>3, <3>3, <3>4, <3>5, <3>6, <3>7, <3>8
  <2>4. CASE /\ t = "wait" /\ at = "leave" /\ muc'.room = room("out")
             /\ inbox' = Append(inbox, Stanza("unavailable", g, to))
    <3> DEFINE m == Stanza("unavailable", g, to)
    <3>1. m \in Stanzas /\ m.kind = "unavailable" /\ m.who = g /\ m.n = to
      BY <1>2, <1>9
    <3> HIDE DEF m
    <3>2. inbox' = Append(inbox, m)
      BY <2>4 DEF m
    <3>3. /\ Is(m, "unavailable", g) /\ ~Presence(m, "available", g, 0)
          /\ \A k : ~Presence(m, "presenceerror", g, k)
          /\ to = 0 => Presence(m, "unavailable", g, 0)
      BY <3>1 DEF Is, Presence
    <3>4. \A kind, k : Has(inbox', kind, g, k) <=> Has(inbox, kind, g, k) \/ Presence(m, kind, g, k)
      BY <1>1, <3>1, <3>2, PresenceAdded
    <3>5. Nicked(inbox', g)
      BY <1>1, <1>2, <1>12, <3>1, <3>2, PresenceAdded
    <3>6. (to = 0 => Dated(inbox', g)) /\ (Dated(inbox, g) => Dated(inbox', g))
      <4>1. Dated(inbox, g) => Dated(inbox', g)
        BY <1>1, <3>1, <3>2, <3>3, PresenceAdded
      <4>2. Presence(m, "unavailable", g, 0) => Dated(inbox', g)
        BY <1>1, <3>1, <3>2, PresenceAdded
      <4> QED
        BY <3>3, <4>1, <4>2
    <3>7. Departs(inbox, g) = {} =>
             Lone(inbox', g) /\ \A i \in Departs(inbox', g) : inbox'[i] = m
      BY <1>1, <3>1, <3>2, <3>3, DepartAdded
    <3>8. /\ to = 0 \/ muc'.room[<<g, 0>>] = muc.room[<<g, 0>>]
          /\ muc'.room[<<g, to>>] = "out"
      BY <1>1, <1>6, <2>4
    <3> QED
      BY <1>12, <2>4, <3>1, <3>3, <3>4, <3>5, <3>6, <3>7, <3>8
  <2> QED
    BY <1>5, <2>1, <2>2, <2>3, <2>4
<1>14. /\ muc'.join = muc.join /\ muc'.addr = muc.addr /\ muc'.managed = muc.managed
       /\ muc'.left = muc.left
  BY <1>5 DEF Helped
<1>15. Number(g) > 0 => Number(g) \in DOMAIN muc.helper[g]
  BY <1>1 DEF RoomFields, Number
<1>16. Pended(g)'
  <2>1. ASSUME NEW k, Has(inbox', "presenceerror", g, k)
        PROVE  k \in DOMAIN muc'.helper[g] /\ muc'.helper[g][k].at \notin {"join", "leave"}
    <3>1. CASE Has(inbox, "presenceerror", g, k)
      <4>1. k \in DOMAIN muc.helper[g] /\ muc.helper[g][k].at \notin {"join", "leave"}
        BY <1>1, <3>1 DEF RoomOf, Pended
      <4>2. k # n
        BY <1>2, <4>1 DEF at
      <4> QED
        BY <1>5, <4>1, <4>2 DEF Helped
    <3>2. CASE k = n /\ t = "wait"
      BY <1>5, <3>2 DEF Helped
    <3> QED
      BY <1>13, <2>1, <3>1, <3>2
  <2> QED
    BY <1>1, <1>10, <1>11, <1>14, <2>1 DEF RoomOf, Pended
<1>17. Leaving(g)'
  <2>1. ASSUME Number(g) > 0
        PROVE  /\ muc'.helper[g][Number(g)].to = muc.helper[g][Number(g)].to
               /\ muc.helper[g][Number(g)].at # "leave" => muc'.helper[g][Number(g)].at # "leave"
    BY <1>5, <1>15, <2>1 DEF Helped
  <2> QED
    BY <1>1, <1>10, <1>11, <1>14, <2>1 DEF RoomOf, Leaving
<1>18. Entered(g)'
  BY <1>1, <1>10, <1>13, <1>14 DEF RoomOf, Entered
<1>19. Departed(g)'
  <2>1. CASE g \in muc.late \cup muc.kicked \/ g \in muc'.late
    BY <1>5, <1>8, <2>1 DEF Departed
  <2>2. CASE g \notin muc.late \cup muc.kicked /\ g \notin muc'.late
    <3>1. /\ Lone(inbox, g)
          /\ ret[g] = "left" => /\ muc.room[<<g, muc.addr[g]>>] = "out"
                                /\ muc.managed[<<g, muc.addr[g]>>] = None
          /\ \A i \in Departs(inbox, g) :
                /\ pc[g] \in {"leave", "leavewait"} /\ inbox[i].n = muc.addr[g]
                /\ muc.room[<<g, muc.addr[g]>>] = "out"
                /\ muc.helper[g][Number(g)].at \in {"wait", "end"}
                /\ ~Has(inbox, "presenceerror", g, Number(g))
      BY <1>1, <2>2 DEF RoomOf, Departed
    <3>2. n = Number(g) => Departs(inbox, g) = {}
      BY <1>2, <3>1 DEF at
    <3>3. CASE t = "error"
      <4>1. inbox' = inbox /\ muc'.room = muc.room
        BY <1>5, <3>3
      <4>2. ASSUME NEW i \in Departs(inbox, g) PROVE muc'.helper[g][Number(g)].at \in {"wait", "end"}
        <5>1. Number(g) # n /\ Number(g) > 0
          BY <1>1, <3>1, <3>2 DEF RoomOf, Leaving
        <5> QED
          BY <1>5, <1>15, <3>1, <5>1 DEF Helped
      <4> QED
        BY <1>10, <1>11, <1>14, <3>1, <4>1, <4>2 DEF Departed
    <3>4. CASE t = "wait"
      <4>1. n = Number(g) /\ pc[g] \in InCall /\ Departs(inbox, g) = {}
        BY <1>8, <2>2, <3>2, <3>4 DEF Pending
      <4>2. ret'[g] # "left"
        BY <1>1, <1>10, <4>1 DEF RoomOf, Entered, InCall
      <4>3. CASE Departs(inbox', g) = {}
        BY <4>2, <4>3 DEF Departed, Lone
      <4>4. CASE Departs(inbox', g) # {}
        <5>1. /\ at = "leave" /\ muc'.room[<<g, to>>] = "out"
              /\ \A k : Has(inbox', "presenceerror", g, k) => Has(inbox, "presenceerror", g, k)
              /\ Lone(inbox', g) /\ \A i \in Departs(inbox', g) : inbox'[i].n = to
          BY <1>13, <4>1, <4>4
        <5>2. pc'[g] \in {"leave", "leavewait"} /\ to = muc.addr[g]
          BY <1>1, <1>10, <4>1, <5>1 DEF RoomOf, Leaving, InCall, at, to
        <5>3. muc'.helper[g][n].at = "wait"
          BY <1>5, <3>4 DEF Helped
        <5>4. ~Has(inbox', "presenceerror", g, n)
          BY <1>1, <1>2, <5>1 DEF RoomOf, Pended, at
        <5> QED
          BY <1>11, <1>14, <4>1, <4>2, <5>1, <5>2, <5>3, <5>4 DEF Departed
      <4> QED
        BY <4>3, <4>4
    <3> QED
      BY <3>3, <3>4
  <2> QED
    BY <2>1, <2>2
<1> QED
  BY <1>11, <1>13, <1>16, <1>17, <1>18, <1>19, OneRoomStep DEF RoomOf

\* The goroutines of muc that send a presence.
LEMMA RoomHelper ==
    ASSUME Types, RoomInv, NEW g \in Routines, MucHelper(g)
    PROVE  RoomInv'
BY RoomHelperEnds, RoomSends DEF MucHelper

\* The room sends the presence of the user again, or throws the user out.
LEMMA RoomPeer ==
    ASSUME Types, RoomInv, MucPeer
    PROVE  RoomInv'
<1>1. PICK g \in Routines, a \in Nicks :
        /\ UNCHANGED <<common, serve>> /\ muc.room[<<g, a>>] = "in"
        /\ \/ Sends(Stanza("available", g, a)) /\ UNCHANGED muc
           \/ /\ Sends(Stanza("unavailable", g, a))
              /\ muc' = [muc EXCEPT !.room[<<g, a>>] = "out", !.kicked = @ \cup {g}]
  BY DEF MucPeer, RoomPresence
<1>2. CommonType /\ RoomFields /\ RoomOf(g) /\ inbox \in Seq(Stanzas) /\ Nicks = {0, 1}
  BY DEF Types, RoomInv, ServeType, Nicks
<1>3. \A k \in MucKinds :
        LET m == Stanza(k, g, a) IN m \in Stanzas /\ m.who = g /\ m.kind = k /\ m.n = a
  BY <1>2 DEF MucKinds, Stanza, Stanzas
<1>4. PICK m \in Stanzas : /\ inbox' = Append(inbox, m) /\ m.who = g /\ m.n = a
                           /\ \/ m.kind = "available" /\ UNCHANGED muc
                              \/ /\ m.kind = "unavailable"
                                 /\ muc' = [muc EXCEPT !.room[<<g, a>>] = "out", !.kicked = @ \cup {g}]
  BY <1>1, <1>3 DEF Sends, MucKinds
<1>5. /\ pc' = pc /\ ret' = ret /\ serve' = serve /\ (For("join", g)' <=> For("join", g))
  BY <1>1 DEF common, For
<1>6. /\ \A kind, k : Has(inbox', kind, g, k) <=> Has(inbox, kind, g, k) \/ Presence(m, kind, g, k)
  BY <1>2, <1>4, PresenceAdded
<1>7. Nicked(inbox', g)
  <2>1. Nicked(inbox, g)
    BY <1>2 DEF RoomOf, Named
  <2> QED
    BY <1>2, <1>4, <2>1, PresenceAdded
<1>8. \A k : ~Presence(m, "presenceerror", g, k)
  BY <1>4 DEF Presence
<1>9. /\ RoomFields' /\ muc'.managed = muc.managed /\ muc'.join = muc.join /\ muc'.helper = muc.helper
      /\ muc'.addr = muc.addr /\ muc'.left = muc.left /\ muc'.late = muc.late
      /\ muc'.kicked \in {muc.kicked, muc.kicked \cup {g}}
      /\ \A x \in Routines, k \in Nicks : x # g \/ k # a => muc'.room[<<x, k>>] = muc.room[<<x, k>>]
      /\ \/ m.kind = "available" /\ UNCHANGED muc
         \/ m.kind = "unavailable" /\ g \in muc'.kicked
  <2>1. CASE m.kind = "available" /\ UNCHANGED muc
    BY <1>2, <2>1 DEF RoomFields
  <2>2. CASE /\ m.kind = "unavailable"
             /\ muc' = [muc EXCEPT !.room[<<g, a>>] = "out", !.kicked = @ \cup {g}]
    <3> DEFINE room == [muc.room EXCEPT ![<<g, a>>] = "out"]
               kicked == muc.kicked \cup {g}
    <3>1. muc' = [muc EXCEPT !.room = room, !.kicked = kicked]
      BY <2>2
    <3>2. room \in [Routines \X Nicks -> {"in", "out"}]
      BY <1>2, RoomAt
    <3>3. \A x \in Routines, k \in Nicks : x # g \/ k # a => room[<<x, k>>] = muc.room[<<x, k>>]
      BY <1>2, RoomAt
    <3> HIDE DEF room, kicked
    <3>4. /\ DOMAIN muc' = DOMAIN muc /\ muc'.managed = muc.managed /\ muc'.join = muc.join
          /\ muc'.helper = muc.helper /\ muc'.addr = muc.addr /\ muc'.left = muc.left
          /\ muc'.late = muc.late /\ muc'.to = muc.to /\ muc'.room = room /\ muc'.kicked = kicked
      BY <1>2, <3>1 DEF RoomFields
    <3>5. RoomFields'
      BY <1>2, <3>2, <3>4 DEF RoomFields
    <3> QED
      BY <2>2, <3>3, <3>4, <3>5 DEF kicked
  <2> QED
    BY <1>4, <2>1, <2>2
<1>10. OneRoom(g)
  BY <1>4, <1>5, <1>9 DEF OneRoom, MucSame, CallSame, ServeSame, InboxSame, For, Foreign
<1>11. Number(g)' = Number(g)
  BY <1>9 DEF Number
<1>12. Named(g)'
  BY <1>2, <1>7, <1>9 DEF RoomOf, Named
<1>13. Pended(g)'
  BY <1>2, <1>5, <1>6, <1>8, <1>9, <1>11 DEF RoomOf, Pended
<1>14. Leaving(g)'
  BY <1>2, <1>5, <1>9, <1>11 DEF RoomOf, Leaving
<1>15. Entered(g)'
  <2>1. muc'.room[<<g, 0>>] = "in" \/ Dated(inbox', g)
    <3>1. CASE m.kind = "available"
      <4>1. a # 0 => ~Presence(m, "available", g, 0)
        BY <1>4 DEF Presence
      <4>2. a # 0 /\ Dated(inbox, g) => Dated(inbox', g)
        BY <1>2, <1>4, <4>1, PresenceAdded
      <4> QED
        BY <1>1, <1>2, <1>9, <3>1, <4>2 DEF RoomOf, Entered
    <3>2. CASE m.kind = "unavailable"
      <4>1. (a = 0 => Presence(m, "unavailable", g, 0)) /\ ~Presence(m, "available", g, 0)
        BY <1>4, <3>2 DEF Presence
      <4>2. Presence(m, "unavailable", g, 0) => Dated(inbox', g)
        BY <1>2, <1>4, PresenceAdded
      <4>3. Dated(inbox, g) => Dated(inbox', g)
        BY <1>2, <1>4, <4>1, PresenceAdded
      <4> QED
        BY <1>2, <1>9, <4>1, <4>2, <4>3 DEF RoomOf, Entered
    <3> QED
      BY <1>4, <3>1, <3>2
  <2>2. muc.room[<<g, 0>>] = "in" \/ Has(inbox, "unavailable", g, 0) =>
           muc'.room[<<g, 0>>] = "in" \/ Has(inbox', "unavailable", g, 0)
    <3>1. m.kind = "unavailable" /\ a = 0 => Presence(m, "unavailable", g, 0)
      BY <1>4 DEF Presence
    <3> QED
      BY <1>2, <1>6, <1>9, <3>1
  <2> QED
    BY <1>2, <1>5, <1>9, <2>1, <2>2 DEF RoomOf, Entered
<1>16. Departed(g)'
  <2>1. CASE g \in muc'.late \cup muc'.kicked
    BY <2>1 DEF Departed
  <2>2. CASE g \notin muc'.late \cup muc'.kicked
    <3>1. m.kind = "available" /\ UNCHANGED muc /\ ~Is(m, "unavailable", g)
      BY <1>9, <2>2 DEF Is
    <3>2. Departs(inbox', g) = Departs(inbox, g) /\ \A i \in Departs(inbox, g) : inbox'[i] = inbox[i]
      BY <1>2, <1>4, <3>1, OtherAdded
    <3>3. Lone(inbox, g) => Lone(inbox', g)
      BY <3>2 DEF Lone
    <3> QED
      BY <1>2, <1>5, <1>6, <1>8, <1>11, <2>2, <3>1, <3>2, <3>3 DEF RoomOf, Departed
  <2> QED
    BY <2>1, <2>2
<1> QED
  BY <1>9, <1>10, <1>12, <1>13, <1>14, <1>15, <1>16, OneRoomStep DEF RoomOf

\* The stanza that is taken does not say that a user has left.
LEMMA InboxRest ==
    ASSUME inbox \in Seq(Stanzas), inbox # <<>>, inbox' = Tail(inbox),
           Head(inbox).kind # "unavailable", NEW g
    PROVE  /\ \A kind, n : Has(inbox', kind, g, n) => Has(inbox, kind, g, n)
           /\ \A n : Has(inbox, "unavailable", g, n) => Has(inbox', "unavailable", g, n)
           /\ Nicked(inbox, g) => Nicked(inbox', g)
           /\ Dated(inbox, g) => Dated(inbox', g)
           /\ Lone(inbox, g) => Lone(inbox', g)
           /\ \A i \in Departs(inbox', g) : \E j \in Departs(inbox, g) : inbox'[i] = inbox[j]
<1> DEFINE q == inbox
           p == Tail(q)
<1>1. q \in Seq(Stanzas) /\ q # <<>> /\ inbox' = p
  OBVIOUS
<1>2. \A n : ~Presence(Head(q), "unavailable", g, n)
  BY DEF Presence
<1> HIDE DEF q
<1>3. \A kind, n : Has(q, kind, g, n) <=> Presence(Head(q), kind, g, n) \/ Has(p, kind, g, n)
  BY <1>1, PresenceTaken
<1>4. Nicked(q, g) => Nicked(p, g)
  BY <1>1, PresenceTaken
<1>5. Dated(q, g) => Dated(p, g)
  BY <1>1, PresenceTaken
<1>6. \A i \in Departs(p, g) : i + 1 \in Departs(q, g) /\ p[i] = q[i + 1]
  BY <1>1, PresenceTaken
<1>7. Lone(q, g) => Lone(p, g)
  BY <1>1, PresenceTaken
<1> HIDE DEF p
<1> QED
  BY <1>1, <1>2, <1>3, <1>4, <1>5, <1>6, <1>7 DEF q

\* What of a channel depends on the inbox, when one stanza is taken that does
\* not say that the user has left.
Rests ==
    \/ inbox' = inbox
    \/ inbox # <<>> /\ inbox' = Tail(inbox) /\ Head(inbox).kind # "unavailable"

LEMMA RestsRoom ==
    ASSUME inbox \in Seq(Stanzas), NEW g, Rests
    PROVE  /\ \A kind, n : Has(inbox', kind, g, n) => Has(inbox, kind, g, n)
           /\ \A n : Has(inbox, "unavailable", g, n) => Has(inbox', "unavailable", g, n)
           /\ Nicked(inbox, g) => Nicked(inbox', g)
           /\ Dated(inbox, g) => Dated(inbox', g)
           /\ Lone(inbox, g) => Lone(inbox', g)
           /\ \A i \in Departs(inbox', g) : \E j \in Departs(inbox, g) : inbox'[i] = inbox[j]
<1>1. CASE inbox' = inbox
  BY <1>1
<1>2. CASE inbox # <<>> /\ inbox' = Tail(inbox) /\ Head(inbox).kind # "unavailable"
  BY <1>2, InboxRest
<1> QED
  BY <1>1, <1>2 DEF Rests

\* Serve goes on for a channel: it takes such a stanza, gives up a Join or
\* takes the next one from the queue.
LEMMA RoomServes ==
    ASSUME Types, RoomInv, NEW g \in Routines, Rests, UNCHANGED common, RoomFields',
           OneRoom(g),
           \A k \in Nicks : /\ muc'.managed[<<g, k>>] = muc.managed[<<g, k>>]
                            /\ muc'.room[<<g, k>>] = muc.room[<<g, k>>],
           muc'.addr[g] = muc.addr[g], muc'.helper[g] = muc.helper[g],
           muc'.left = muc.left, muc'.late = muc.late, muc'.kicked = muc.kicked,
           \A i \in DOMAIN muc'.join[g] : \E j \in DOMAIN muc.join[g] : muc'.join[g][i] = muc.join[g][j],
           For("join", g)' =>
              /\ \/ For("join", g) /\ serve'.n = serve.n
                 \/ \E i \in DOMAIN muc.join[g] : serve'.n = muc.join[g][i]
              /\ \/ g \in muc.left
                 \/ /\ muc.managed[<<g, 0>>] = g
                    /\ muc.room[<<g, 0>>] = "in" \/ Has(inbox', "unavailable", g, 0)
    PROVE  RoomInv'
<1>1. RoomFields /\ RoomOf(g) /\ inbox \in Seq(Stanzas) /\ 0 \in Nicks /\ 1 \in Nicks
      /\ muc.addr[g] \in Nicks /\ muc.join[g] \in Seq(Nat)
  BY DEF Types, RoomInv, ServeType, Nicks, RoomFields
<1>2. /\ \A kind, n : Has(inbox', kind, g, n) => Has(inbox, kind, g, n)
      /\ \A n : Has(inbox, "unavailable", g, n) => Has(inbox', "unavailable", g, n)
      /\ Nicked(inbox, g) => Nicked(inbox', g)
      /\ Dated(inbox, g) => Dated(inbox', g)
      /\ Lone(inbox, g) => Lone(inbox', g)
      /\ \A i \in Departs(inbox', g) : \E j \in Departs(inbox, g) : inbox'[i] = inbox[j]
  BY <1>1, RestsRoom
<1>3. pc' = pc /\ ret' = ret
  BY DEF common
<1>4. Number(g)' = Number(g)
  BY DEF Number
<1>5. Named(g)'
  BY <1>1, <1>2 DEF RoomOf, Named
<1>6. Pended(g)'
  <2>1. \A i \in DOMAIN muc.join[g] : muc.join[g][i] \in Nat /\ muc.join[g][i] <= Number(g)
    BY <1>1 DEF RoomOf, Pended
  <2>2. For("join", g)' => serve'.n \in Nat /\ serve'.n <= Number(g)
    BY <1>1, <2>1 DEF RoomOf, Pended
  <2>3. \A i \in DOMAIN muc'.join[g] : muc'.join[g][i] <= Number(g)
    BY <2>1
  <2>4. \A n : Has(inbox', "presenceerror", g, n) =>
             n \in DOMAIN muc'.helper[g] /\ muc'.helper[g][n].at \notin {"join", "leave"}
    BY <1>1, <1>2 DEF RoomOf, Pended
  <2> QED
    BY <1>4, <2>2, <2>3, <2>4 DEF Pended
<1>7. Leaving(g)'
  <2>1. ASSUME pc[g] \in {"leave", "leavewait"}
        PROVE  /\ \A i \in DOMAIN muc'.join[g] : muc'.join[g][i] # Number(g)
               /\ For("join", g)' => serve'.n # Number(g)
    BY <1>1, <2>1 DEF RoomOf, Leaving
  <2> QED
    BY <1>1, <1>3, <1>4, <2>1 DEF RoomOf, Leaving
<1>8. Entered(g)'
  <2>1. muc'.room[<<g, 0>>] = "in" \/ Dated(inbox', g)
    BY <1>1, <1>2 DEF RoomOf, Entered
  <2> QED
    BY <1>1, <1>2, <1>3, <2>1 DEF RoomOf, Entered
<1>9. Departed(g)'
  <2>1. CASE g \in muc.late \cup muc.kicked
    BY <2>1 DEF Departed
  <2>2. CASE g \notin muc.late \cup muc.kicked
    <3>1. /\ Lone(inbox, g)
          /\ ret[g] = "left" => /\ muc.room[<<g, muc.addr[g]>>] = "out"
                                /\ muc.managed[<<g, muc.addr[g]>>] = None
          /\ \A i \in Departs(inbox, g) :
                /\ pc[g] \in {"leave", "leavewait"} /\ inbox[i].n = muc.addr[g]
                /\ muc.room[<<g, muc.addr[g]>>] = "out"
                /\ muc.helper[g][Number(g)].at \in {"wait", "end"}
                /\ ~Has(inbox, "presenceerror", g, Number(g))
      BY <1>1, <2>2 DEF RoomOf, Departed
    <3>2. ASSUME NEW i \in Departs(inbox', g)
          PROVE  /\ pc'[g] \in {"leave", "leavewait"} /\ inbox'[i].n = muc'.addr[g]
                 /\ muc'.room[<<g, muc'.addr[g]>>] = "out"
                 /\ muc'.helper[g][Number(g)'].at \in {"wait", "end"}
                 /\ ~Has(inbox', "presenceerror", g, Number(g)')
      <4>1. PICK j \in Departs(inbox, g) : inbox'[i] = inbox[j]
        BY <1>2
      <4> QED
        BY <1>1, <1>2, <1>3, <1>4, <3>1, <4>1
    <3>3. Lone(inbox', g)
      BY <1>2, <3>1
    <3> QED
      BY <1>1, <1>3, <3>1, <3>2, <3>3 DEF Departed
  <2> QED
    BY <2>1, <2>2
<1> QED
  BY <1>5, <1>6, <1>7, <1>8, <1>9, OneRoomStep DEF RoomOf

\* The next pending Join is taken from the queue.
LEMMA RoomSelects ==
    ASSUME Types, RoomInv, NEW g \in Routines, SelectJoin(g), Rests, UNCHANGED common,
           \A x \in Routines : x # g => InboxSame(x) /\ ~For("join", x),
           \/ g \in muc.left
           \/ /\ muc.managed[<<g, 0>>] = g
              /\ muc.room[<<g, 0>>] = "in" \/ Has(inbox', "unavailable", g, 0)
    PROVE  RoomInv'
<1>1. RoomFields /\ RoomOf(g) /\ muc.join[g] \in Seq(Nat)
  BY DEF RoomInv, RoomFields
<1>2. CASE muc.join[g] = <<>>
  <2>1. serve' = Loop /\ muc' = [muc EXCEPT !.seen = 1]
    BY <1>2 DEF SelectJoin
  <2>2. /\ RoomFields' /\ muc'.managed = muc.managed /\ muc'.room = muc.room /\ muc'.addr = muc.addr
        /\ muc'.helper = muc.helper /\ muc'.left = muc.left /\ muc'.late = muc.late
        /\ muc'.kicked = muc.kicked /\ muc'.join = muc.join
    BY <1>1, <2>1 DEF RoomFields
  <2>3. \A x : ~For("join", x)'
    BY <2>1 DEF For, Loop
  <2>4. OneRoom(g)
    BY <2>2, <2>3 DEF OneRoom, MucSame, CallSame, ServeSame, common
  <2> QED
    BY <2>2, <2>3, <2>4, RoomServes
<1>3. CASE muc.join[g] # <<>>
  <2> DEFINE j == muc.join[g]
             join == [muc.join EXCEPT ![g] = Tail(j)]
  <2>1. Held("join", g, Head(j)) /\ muc' = [muc EXCEPT !.join = join]
    BY <1>3 DEF SelectJoin
  <2>2. /\ serve'.at = "join" /\ serve'.who = g /\ serve'.n = Head(j)
    BY <2>1 DEF Held
  <2>3. j \in Seq(Nat) /\ j # <<>>
    BY <1>1, <1>3
  <2>4. /\ Tail(j) \in Seq(Nat) /\ 1 \in DOMAIN j /\ Head(j) = j[1]
        /\ \A i \in DOMAIN Tail(j) : \E k \in DOMAIN j : Tail(j)[i] = j[k]
    <3> HIDE DEF j
    <3>1. Tail(j) \in Seq(Nat) /\ 1 \in DOMAIN j /\ Head(j) = j[1]
      BY <2>3
    <3>2. \A i \in DOMAIN Tail(j) : i + 1 \in DOMAIN j /\ Tail(j)[i] = j[i + 1]
      BY <2>3
    <3> QED
      BY <3>1, <3>2
  <2>5. /\ join \in [Routines -> Seq(Nat)] /\ join[g] = Tail(j)
        /\ \A x \in Routines : x # g => join[x] = muc.join[x]
    BY <1>1, <2>4 DEF RoomFields
  <2> HIDE DEF join
  <2>6. /\ DOMAIN muc' = DOMAIN muc /\ muc'.managed = muc.managed /\ muc'.room = muc.room
        /\ muc'.addr = muc.addr /\ muc'.to = muc.to
        /\ muc'.helper = muc.helper /\ muc'.left = muc.left /\ muc'.late = muc.late
        /\ muc'.kicked = muc.kicked /\ muc'.join = join
    BY <1>1, <2>1 DEF RoomFields
  <2>7. RoomFields'
    BY <1>1, <2>5, <2>6 DEF RoomFields
  <2>8. OneRoom(g)
    BY <2>2, <2>5, <2>6 DEF OneRoom, MucSame, CallSame, ServeSame, common, For
  <2>9. /\ For("join", g)' => \E i \in DOMAIN muc.join[g] : serve'.n = muc.join[g][i]
        /\ \A i \in DOMAIN muc'.join[g] : \E k \in DOMAIN muc.join[g] : muc'.join[g][i] = muc.join[g][k]
    <3>1. \E i \in DOMAIN muc.join[g] : serve'.n = muc.join[g][i]
      BY <2>2, <2>4
    <3>2. muc'.join[g] = Tail(j)
      BY <2>5, <2>6
    <3> QED
      BY <2>4, <3>1, <3>2
  <2> QED
    BY <2>6, <2>7, <2>8, <2>9, RoomServes
<1> QED
  BY <1>2, <1>3

\* A presence that says that the user is in the room.
LEMMA RoomAvailable ==
    ASSUME Types, RoomInv, HandleAvailable
    PROVE  RoomInv'
<1>0. PICK g, k : g = Head(inbox).who /\ k = Head(inbox).n
  OBVIOUS
<1>1. /\ inbox \in Seq(Stanzas) /\ inbox # <<>> /\ Head(inbox).kind = "available" /\ serve = Loop
      /\ inbox' = Tail(inbox) /\ UNCHANGED common
  BY DEF HandleAvailable, Takes, InLoop, Types, ServeType
<1>2. /\ muc.managed[<<g, k>>] = None => UNCHANGED <<serve, muc>>
      /\ muc.managed[<<g, k>>] # None => SelectJoin(muc.managed[<<g, k>>])
  BY <1>0 DEF HandleAvailable
<1>3. Head(inbox) \in Stanzas /\ 1 \in DOMAIN inbox /\ Head(inbox) = inbox[1]
  BY <1>1
<1>4. g \in Routines
  BY <1>0, <1>1, <1>3 DEF Stanzas
<1>5. RoomFields /\ RoomOf(g) /\ Nicks = {0, 1}
  BY <1>4 DEF RoomInv, Nicks
<1>6. k \in Nicks
  BY <1>0, <1>1, <1>3, <1>5 DEF RoomOf, Named, Nicked
<1>7. Rests
  BY <1>1 DEF Rests
<1>8. \A x \in Routines : x # g => InboxSame(x) /\ ~For("join", x)
  BY <1>0, <1>1 DEF InboxSame, Foreign, For, Loop
<1>9. CASE muc.managed[<<g, k>>] = None
  <2>1. UNCHANGED <<serve, muc>>
    BY <1>2, <1>9
  <2>2. RoomFields' /\ ~For("join", g)'
    BY <1>1, <1>5, <2>1 DEF RoomFields, For, Loop
  <2>3. OneRoom(g)
    BY <1>1, <1>8, <2>1 DEF OneRoom, MucSame, CallSame, ServeSame, common, For, Loop
  <2> QED
    BY <1>1, <1>4, <1>7, <2>1, <2>2, <2>3, RoomServes
<1>10. CASE muc.managed[<<g, k>>] # None
  <2>1. k = 0 /\ muc.managed[<<g, k>>] = g
    BY <1>5, <1>6, <1>10 DEF RoomOf, Named
  <2>2. muc.room[<<g, 0>>] = "in" \/ Has(inbox', "unavailable", g, 0)
    <3>1. Presence(Head(inbox), "available", g, 0)
      BY <1>0, <1>1, <2>1 DEF Presence
    <3>2. Dated(inbox, g) => Has(inbox', "unavailable", g, 0)
      BY <1>1, <3>1, PresenceTaken
    <3> QED
      BY <1>5, <3>2 DEF RoomOf, Entered
  <2>3. SelectJoin(g)
    BY <1>2, <1>10, <2>1
  <2> QED
    BY <1>1, <1>4, <1>7, <1>8, <2>1, <2>2, <2>3, RoomSelects
<1> QED
  BY <1>9, <1>10

\* The pending Join is told that the channel is in the room, or it has given up.
LEMMA RoomGives ==
    ASSUME Types, RoomInv, GiveJoin
    PROVE  RoomInv'
<1>0. PICK g : g = serve.who
  OBVIOUS
<1>1. /\ CommonType /\ RoomFields /\ inbox' = inbox /\ serve.at = "join"
      /\ \/ /\ Pending(g, serve.n) /\ Returns(g, "joined") /\ serve' = Loop
            /\ muc' = [muc EXCEPT !.addr[g] = 0]
         \/ SelectJoin(g) /\ UNCHANGED common
  BY <1>0 DEF GiveJoin, Serving, Types, RoomInv
<1>2. /\ Rests /\ \A x \in Routines : InboxSame(x)
      /\ \A x \in Routines : x # g => ~For("join", x)
  BY <1>0, <1>1 DEF Rests, InboxSame, For
<1>3. CASE g \notin Routines
  <2>1. ASSUME NEW x \in Routines PROVE MucSame(x) /\ CallSame(x) /\ ServeSame(x)
    <3>1. CASE Returns(g, "joined") /\ serve' = Loop /\ muc' = [muc EXCEPT !.addr[g] = 0]
      <4> DEFINE addr == [muc.addr EXCEPT ![g] = 0]
      <4>1. addr[x] = muc.addr[x] /\ muc' = [muc EXCEPT !.addr = addr]
        BY <1>1, <1>3, <3>1 DEF RoomFields
      <4> HIDE DEF addr
      <4>2. MucSame(x)
        BY <1>1, <4>1 DEF RoomFields, MucSame
      <4>3. CallSame(x) /\ ServeSame(x)
        BY <1>1, <1>3, <3>1, ReturnsEffect DEF CallSame, ServeSame, For, Loop
      <4> QED
        BY <4>2, <4>3
    <3>2. CASE SelectJoin(g) /\ UNCHANGED common
      <4>1. CallSame(x)
        BY <3>2 DEF CallSame, common
      <4>2. ServeSame(x)
        BY <1>3, <3>2 DEF ServeSame, For, SelectJoin, Held, Loop
      <4>3. MucSame(x)
        <5> DEFINE join == [muc.join EXCEPT ![g] = Tail(@)]
        <5>1. join[x] = muc.join[x]
              /\ (muc' = [muc EXCEPT !.join = join] \/ muc' = [muc EXCEPT !.seen = 1])
          BY <1>1, <1>3, <3>2 DEF RoomFields, SelectJoin
        <5> HIDE DEF join
        <5> QED
          BY <1>1, <5>1 DEF RoomFields, MucSame
      <4> QED
        BY <4>1, <4>2, <4>3
    <3> QED
      BY <1>1, <3>1, <3>2
  <2>2. RoomFields'
    <3>1. CASE muc' = [muc EXCEPT !.addr[g] = 0]
      BY <1>1, <1>3, <3>1 DEF RoomFields
    <3>2. CASE SelectJoin(g)
      <4> DEFINE join == [muc.join EXCEPT ![g] = Tail(@)]
      <4>1. join = muc.join
            /\ (muc' = [muc EXCEPT !.join = join] \/ muc' = [muc EXCEPT !.seen = 1])
        BY <1>1, <1>3, <3>2 DEF RoomFields, SelectJoin
      <4> HIDE DEF join
      <4> QED
        BY <1>1, <4>1 DEF RoomFields
    <3> QED
      BY <1>1, <3>1, <3>2
  <2>3. ASSUME NEW x \in Routines PROVE RoomOf(x)'
    BY <1>1, <1>2, <2>1, RoomAside DEF RoomInv
  <2> QED
    BY <2>2, <2>3 DEF RoomInv
<1>4. CASE g \in Routines
  <2>1. RoomOf(g) /\ For("join", g) /\ Nicks = {0, 1}
    BY <1>0, <1>1, <1>4 DEF RoomInv, For, Nicks
  <2>2. \/ g \in muc.left
        \/ /\ muc.managed[<<g, 0>>] = g
           /\ muc.room[<<g, 0>>] = "in" \/ Has(inbox', "unavailable", g, 0)
    BY <1>1, <2>1 DEF RoomOf, Entered
  <2>3. CASE SelectJoin(g) /\ UNCHANGED common
    BY <1>2, <1>4, <2>2, <2>3, RoomSelects
  <2>4. CASE /\ Pending(g, serve.n) /\ Returns(g, "joined") /\ serve' = Loop
             /\ muc' = [muc EXCEPT !.addr[g] = 0]
    <3> DEFINE addr == [muc.addr EXCEPT ![g] = 0]
    <3>1. /\ addr \in [Routines -> Nicks] /\ addr[g] = 0
          /\ \A x \in Routines : x # g => addr[x] = muc.addr[x]
          /\ muc' = [muc EXCEPT !.addr = addr]
      BY <1>1, <1>4, <2>1, <2>4 DEF RoomFields
    <3> HIDE DEF addr
    <3>2. /\ DOMAIN muc' = DOMAIN muc /\ muc'.managed = muc.managed /\ muc'.room = muc.room
          /\ muc'.join = muc.join /\ muc'.to = muc.to /\ muc'.addr = addr
          /\ muc'.helper = muc.helper /\ muc'.left = muc.left /\ muc'.late = muc.late
          /\ muc'.kicked = muc.kicked
      BY <1>1, <3>1 DEF RoomFields
    <3>3. RoomFields'
      BY <1>1, <3>1, <3>2 DEF RoomFields
    <3>4. /\ pc'[g] = "idle" /\ ret'[g] = "joined"
          /\ \A x \in Routines : x # g => pc'[x] = pc[x] /\ ret'[x] = ret[x]
      BY <1>1, <1>4, <2>4, ReturnsEffect
    <3>5. \A x : ~For("join", x)'
      BY <2>4 DEF For, Loop
    <3>6. OneRoom(g)
      BY <1>2, <3>1, <3>2, <3>4, <3>5 DEF OneRoom, MucSame, CallSame, ServeSame
    <3>7. pc[g] = "joinwait"
      BY <2>1, <2>4 DEF RoomOf, Leaving, Pending, InCall
    <3>8. Number(g)' = Number(g)
      BY <3>2 DEF Number
    <3>9. Named(g)' /\ Pended(g)' /\ Leaving(g)'
      <4>1. Named(g)'
        BY <1>1, <2>1, <3>2 DEF RoomOf, Named
      <4>2. Pended(g)'
        BY <1>1, <2>1, <3>2, <3>5, <3>8 DEF RoomOf, Pended
      <4>3. Leaving(g)'
        BY <3>4 DEF Leaving
      <4> QED
        BY <4>1, <4>2, <4>3
    <3>10. Entered(g)'
      BY <1>1, <2>1, <2>2, <3>1, <3>2, <3>4, <3>5 DEF RoomOf, Entered
    <3>11. Departed(g)'
      <4>1. g \in muc.late \cup muc.kicked \/ Departs(inbox, g) = {}
        BY <1>4, <2>1, <3>7, NobodyLeft DEF RoomOf
      <4> QED
        BY <1>1, <3>2, <3>4, <4>1 DEF Departed, Lone
    <3> QED
      BY <1>4, <3>3, <3>6, <3>9, <3>10, <3>11, OneRoomStep DEF RoomOf
  <2> QED
    BY <1>1, <2>3, <2>4
<1> QED
  BY <1>3, <1>4

\* A presence that says that the user has left.
LEMMA RoomUnavailable ==
    ASSUME Types, RoomInv, HandleUnavailable
    PROVE  RoomInv'
<1>0. PICK g, k : g = Head(inbox).who /\ k = Head(inbox).n
  OBVIOUS
<1>1. /\ inbox \in Seq(Stanzas) /\ inbox # <<>> /\ Head(inbox).kind = "unavailable" /\ serve = Loop
      /\ inbox' = Tail(inbox) /\ serve' = serve
  BY DEF HandleUnavailable, Takes, InLoop, Types, ServeType
<1>2. Head(inbox) \in Stanzas /\ 1 \in DOMAIN inbox /\ Head(inbox) = inbox[1]
  BY <1>1
<1>3. g \in Routines
  BY <1>0, <1>1, <1>2 DEF Stanzas
<1>4. CommonType /\ RoomFields /\ RoomOf(g) /\ Nicks = {0, 1} /\ muc.addr[g] \in Nicks
  BY <1>3 DEF RoomInv, Nicks, Types, RoomFields
<1>5. k \in Nicks /\ muc.managed[<<g, k>>] \in {None, g} /\ (muc.managed[<<g, k>>] # None => k = 0)
  BY <1>0, <1>1, <1>2, <1>4 DEF RoomOf, Named, Nicked
<1>6. \A x \in Routines : x # g => InboxSame(x)
  BY <1>0, <1>1 DEF InboxSame, Foreign
<1>7. \A x : ~For("join", x) /\ ~For("join", x)'
  BY <1>1 DEF For, Loop
<1>8. \A kind, n : Has(inbox, kind, g, n) <=> Presence(Head(inbox), kind, g, n) \/ Has(inbox', kind, g, n)
  BY <1>1, PresenceTaken
<1>9. (Nicked(inbox, g) => Nicked(inbox', g)) /\ (Dated(inbox, g) => Dated(inbox', g))
  <2>1. Nicked(inbox, g) => Nicked(inbox', g)
    BY <1>1, PresenceTaken
  <2>2. Dated(inbox, g) => Dated(inbox', g)
    BY <1>1, PresenceTaken
  <2> QED
    BY <2>1, <2>2
<1>10. Is(Head(inbox), "unavailable", g) /\ 1 \in Departs(inbox, g) /\ inbox[1].n = k
  BY <1>0, <1>1, <1>2 DEF Is, Departs
<1>11. Lone(inbox, g) => Lone(inbox', g) /\ Departs(inbox', g) = {}
  BY <1>1, <1>10, PresenceTaken
<1>12. /\ muc.managed[<<g, k>>] = None => UNCHANGED <<common, muc>>
       /\ muc.managed[<<g, k>>] # None =>
            /\ muc' = [muc EXCEPT !.managed[<<g, muc.addr[g]>>] = None, !.left = @ \cup {g}]
            /\ \/ pc[g] = "leavewait" /\ Returns(g, "left")
               \/ UNCHANGED common
  BY <1>0, <1>5 DEF HandleUnavailable, DepartKey
<1>13. CASE muc.managed[<<g, k>>] = None
  <2>1. UNCHANGED <<pc, ret, muc>>
    BY <1>12, <1>13 DEF common
  <2>2. RoomFields'
    BY <1>4, <2>1 DEF RoomFields
  <2>3. OneRoom(g)
    BY <1>1, <1>6, <2>1 DEF OneRoom, MucSame, CallSame, ServeSame, For
  <2>4. Number(g)' = Number(g)
    BY <2>1 DEF Number
  <2>5. Named(g)'
    BY <1>4, <1>9, <2>1 DEF RoomOf, Named
  <2>6. Pended(g)'
    BY <1>4, <1>7, <1>8, <2>1, <2>4 DEF RoomOf, Pended
  <2>7. Leaving(g)'
    BY <1>4, <1>7, <2>1, <2>4 DEF RoomOf, Leaving
  <2>8. Entered(g)'
    <3>1. muc.managed[<<g, 0>>] = g =>
            (Has(inbox, "unavailable", g, 0) => Has(inbox', "unavailable", g, 0))
      <4>1. muc.managed[<<g, 0>>] = g => k # 0
        BY <1>3, <1>13, RoutineAssumption
      <4> QED
        BY <1>0, <1>8, <4>1 DEF Presence
    <3> QED
      BY <1>4, <1>7, <1>9, <2>1, <3>1 DEF RoomOf, Entered
  <2>9. Departed(g)'
    <3>1. CASE g \in muc.late \cup muc.kicked
      BY <2>1, <3>1 DEF Departed
    <3>2. CASE g \notin muc.late \cup muc.kicked
      BY <1>4, <1>11, <2>1, <3>2 DEF RoomOf, Departed
    <3> QED
      BY <3>1, <3>2
  <2> QED
    BY <1>3, <2>2, <2>3, <2>5, <2>6, <2>7, <2>8, <2>9, OneRoomStep DEF RoomOf
<1>14. CASE muc.managed[<<g, k>>] # None
  <2> DEFINE managed == [muc.managed EXCEPT ![<<g, muc.addr[g]>>] = None]
             left == muc.left \cup {g}
  <2>1. muc' = [muc EXCEPT !.managed = managed, !.left = left] /\ g \in left
    BY <1>12, <1>14
  <2>2. /\ managed \in [Routines \X Nicks -> Routines \cup {None}]
        /\ managed[<<g, muc.addr[g]>>] = None
        /\ \A x \in Routines, a \in Nicks :
              x # g \/ a # muc.addr[g] => managed[<<x, a>>] = muc.managed[<<x, a>>]
    <3>0. muc.managed \in [Routines \X Nicks -> Routines \cup {None}]
      BY <1>4 DEF RoomFields
    <3>1. managed \in [Routines \X Nicks -> Routines \cup {None}]
      BY <3>0
    <3>2. managed[<<g, muc.addr[g]>>] = None
      BY <1>3, <1>4, ManagedAt
    <3>3. \A x \in Routines, a \in Nicks :
              x # g \/ a # muc.addr[g] => managed[<<x, a>>] = muc.managed[<<x, a>>]
      BY <1>3, <1>4, ManagedAt
    <3> QED
      BY <3>1, <3>2, <3>3
  <2>3. \A x \in Routines : x # g => (x \in muc.left => x \in left)
    OBVIOUS
  <2> HIDE DEF managed, left
  <2>4. /\ DOMAIN muc' = DOMAIN muc /\ muc'.managed = managed /\ muc'.room = muc.room
        /\ muc'.join = muc.join /\ muc'.to = muc.to /\ muc'.addr = muc.addr
        /\ muc'.helper = muc.helper /\ muc'.left = left /\ muc'.late = muc.late
        /\ muc'.kicked = muc.kicked
    BY <1>4, <2>1 DEF RoomFields
  <2>5. RoomFields'
    BY <1>4, <2>2, <2>4 DEF RoomFields
  <2>6. /\ \/ pc'[g] = pc[g] /\ ret'[g] = ret[g]
           \/ pc[g] = "leavewait" /\ pc'[g] = "idle" /\ ret'[g] = "left"
        /\ \A x \in Routines : x # g => pc'[x] = pc[x] /\ ret'[x] = ret[x]
    BY <1>3, <1>4, <1>12, <1>14, ReturnsEffect DEF common
  <2>7. OneRoom(g)
    BY <1>1, <1>6, <2>2, <2>3, <2>4, <2>6 DEF OneRoom, MucSame, CallSame, ServeSame, For
  <2>8. Number(g)' = Number(g)
    BY <2>4 DEF Number
  <2>9. Named(g)'
    <3>1. managed[<<g, 0>>] \in {g, None} /\ managed[<<g, 1>>] = None
      BY <1>3, <1>4, <2>2 DEF RoomOf, Named
    <3> QED
      BY <1>4, <1>9, <2>4, <3>1 DEF RoomOf, Named
  <2>10. Pended(g)'
    BY <1>4, <1>7, <1>8, <2>4, <2>8 DEF RoomOf, Pended
  <2>11. Leaving(g)'
    BY <1>4, <1>7, <2>4, <2>6, <2>8 DEF RoomOf, Leaving
  <2>12. Entered(g)'
    BY <1>4, <1>7, <1>9, <2>1, <2>4, <2>6 DEF RoomOf, Entered
  <2>13. Departed(g)'
    <3>1. CASE g \in muc.late \cup muc.kicked
      BY <2>4, <3>1 DEF Departed
    <3>2. CASE g \notin muc.late \cup muc.kicked
      <4>1. /\ pc[g] \in {"leave", "leavewait"} /\ Departs(inbox', g) = {} /\ Lone(inbox', g)
            /\ muc.room[<<g, muc.addr[g]>>] = "out"
        BY <1>4, <1>10, <1>11, <3>2 DEF RoomOf, Departed
      <4> QED
        BY <2>2, <2>4, <4>1 DEF Departed
    <3> QED
      BY <3>1, <3>2
  <2> QED
    BY <1>3, <2>5, <2>7, <2>9, <2>10, <2>11, <2>12, <2>13, OneRoomStep DEF RoomOf
<1> QED
  BY <1>13, <1>14
\* An error goes to the helper that waits for it.
LEMMA RoomError ==
    ASSUME Types, RoomInv, HandlePresenceError
    PROVE  RoomInv'
<1>0. PICK g, n : g = Head(inbox).who /\ n = Head(inbox).n
  OBVIOUS
<1>1. /\ inbox \in Seq(Stanzas) /\ inbox # <<>> /\ Head(inbox).kind = "presenceerror" /\ serve = Loop
      /\ inbox' = Tail(inbox) /\ UNCHANGED common
      /\ \/ /\ muc.helper[g][n].at = "wait"
            /\ muc' = Becomes(g, n, "response") /\ Held("response", g, n)
         \/ UNCHANGED <<serve, muc>>
  BY <1>0 DEF HandlePresenceError, Takes, InLoop, Types, ServeType
<1>2. Head(inbox) \in Stanzas /\ 1 \in DOMAIN inbox /\ Head(inbox) = inbox[1]
  BY <1>1
<1>3. g \in Routines
  BY <1>0, <1>1, <1>2 DEF Stanzas
<1>4. RoomFields /\ RoomOf(g) /\ Has(inbox, "presenceerror", g, n)
  BY <1>0, <1>1, <1>2, <1>3 DEF RoomInv, Has, Presence
<1>5. \A x \in Routines : x # g => InboxSame(x)
  BY <1>0, <1>1 DEF InboxSame, Foreign
<1>6. Rests /\ UNCHANGED <<pc, ret>>
  BY <1>1 DEF Rests, common
<1>7. CASE UNCHANGED <<serve, muc>>
  <2>1. RoomFields' /\ ~For("join", g)'
    BY <1>1, <1>4, <1>7 DEF RoomFields, For, Loop
  <2>2. OneRoom(g)
    BY <1>1, <1>5, <1>6, <1>7 DEF OneRoom, MucSame, CallSame, ServeSame, For
  <2> QED
    BY <1>1, <1>3, <1>6, <1>7, <2>1, <2>2, RoomServes
<1>8. CASE /\ muc.helper[g][n].at = "wait"
           /\ muc' = Becomes(g, n, "response") /\ Held("response", g, n)
  <2>1. n \in DOMAIN muc.helper[g]
    BY <1>4 DEF RoomOf, Pended
  <2>2. /\ Helped(g, n, "response") /\ muc'.room = muc.room
        /\ muc'.late = muc.late /\ muc'.kicked = muc.kicked
    BY <1>3, <1>4, <1>8, <2>1, BecomesRoom
  <2>3. \A x : ~For("join", x)'
    BY <1>8 DEF For, Held
  <2>4. RoomFields' /\ OneRoom(g) /\ Number(g)' = Number(g) /\ (Nicked(inbox', g) => Named(g)')
    <3>1. \A x \in Routines : x # g => CallSame(x) /\ ServeSame(x) /\ InboxSame(x)
      BY <1>5, <1>6, <2>3 DEF CallSame, ServeSame
    <3> QED
      BY <1>3, <1>4, <2>1, <2>2, <3>1, HelpedRoom DEF RoomFields
  <2>5. /\ \A kind, k : Has(inbox', kind, g, k) => Has(inbox, kind, g, k)
        /\ \A k : Has(inbox, "unavailable", g, k) => Has(inbox', "unavailable", g, k)
        /\ Nicked(inbox, g) => Nicked(inbox', g)
        /\ Dated(inbox, g) => Dated(inbox', g)
        /\ Lone(inbox, g) => Lone(inbox', g)
        /\ \A i \in Departs(inbox', g) : \E j \in Departs(inbox, g) : inbox'[i] = inbox[j]
    BY <1>1, <1>6, RestsRoom
  <2>6. Named(g)'
    BY <1>4, <2>4, <2>5 DEF RoomOf, Named
  <2>7. /\ muc'.join = muc.join /\ muc'.addr = muc.addr /\ muc'.managed = muc.managed
        /\ muc'.left = muc.left
    BY <2>2 DEF Helped
  <2>8. Number(g) > 0 => Number(g) \in DOMAIN muc.helper[g]
    BY <1>3, <1>4 DEF RoomFields, Number
  <2>9. Pended(g)'
    <3>1. ASSUME NEW k, Has(inbox', "presenceerror", g, k)
          PROVE  k \in DOMAIN muc'.helper[g] /\ muc'.helper[g][k].at \notin {"join", "leave"}
      <4>1. k \in DOMAIN muc.helper[g] /\ muc.helper[g][k].at \notin {"join", "leave"}
        BY <1>4, <2>5, <3>1 DEF RoomOf, Pended
      <4> QED
        BY <2>2, <4>1 DEF Helped
    <3> QED
      BY <1>4, <2>3, <2>4, <2>7, <3>1 DEF RoomOf, Pended
  <2>10. Leaving(g)'
    <3>1. ASSUME Number(g) > 0
          PROVE  /\ muc'.helper[g][Number(g)].to = muc.helper[g][Number(g)].to
                 /\ muc.helper[g][Number(g)].at # "leave" => muc'.helper[g][Number(g)].at # "leave"
      BY <2>2, <2>8, <3>1 DEF Helped
    <3> QED
      BY <1>4, <1>6, <2>3, <2>4, <2>7, <3>1 DEF RoomOf, Leaving
  <2>11. Entered(g)'
    BY <1>4, <1>6, <2>2, <2>3, <2>5, <2>7 DEF RoomOf, Entered
  <2>12. Departed(g)'
    <3>1. CASE g \in muc.late \cup muc.kicked
      BY <2>2, <3>1 DEF Departed
    <3>2. CASE g \notin muc.late \cup muc.kicked
      <4>1. /\ Lone(inbox, g)
            /\ ret[g] = "left" => /\ muc.room[<<g, muc.addr[g]>>] = "out"
                                  /\ muc.managed[<<g, muc.addr[g]>>] = None
            /\ \A i \in Departs(inbox, g) :
                  /\ pc[g] \in {"leave", "leavewait"} /\ inbox[i].n = muc.addr[g]
                  /\ muc.room[<<g, muc.addr[g]>>] = "out"
                  /\ muc.helper[g][Number(g)].at \in {"wait", "end"}
                  /\ ~Has(inbox, "presenceerror", g, Number(g))
        BY <1>4, <3>2 DEF RoomOf, Departed
      <4>2. ASSUME NEW i \in Departs(inbox', g)
            PROVE  /\ pc'[g] \in {"leave", "leavewait"} /\ inbox'[i].n = muc'.addr[g]
                   /\ muc'.room[<<g, muc'.addr[g]>>] = "out"
                   /\ muc'.helper[g][Number(g)'].at \in {"wait", "end"}
                   /\ ~Has(inbox', "presenceerror", g, Number(g)')
        <5>1. PICK j \in Departs(inbox, g) : inbox'[i] = inbox[j]
          BY <2>5
        <5>2. n # Number(g) /\ Number(g) \in DOMAIN muc.helper[g]
          BY <1>4, <2>8, <4>1, <5>1 DEF RoomOf, Leaving
        <5>3. muc'.helper[g][Number(g)].at \in {"wait", "end"}
          BY <2>2, <4>1, <5>1, <5>2 DEF Helped
        <5> QED
          BY <1>6, <2>2, <2>4, <2>5, <2>7, <4>1, <5>1, <5>3
      <4>3. Lone(inbox', g)
        BY <2>5, <4>1
      <4> QED
        BY <1>6, <2>2, <2>7, <4>1, <4>2, <4>3 DEF Departed
    <3> QED
      BY <3>1, <3>2
  <2> QED
    BY <1>3, <2>4, <2>6, <2>9, <2>10, <2>11, <2>12, OneRoomStep DEF RoomOf
<1> QED
  BY <1>1, <1>7, <1>8

\* HandlePresence and the responses that are errors.
LEMMA RoomServe ==
    ASSUME Types, RoomInv, MucServe
    PROVE  RoomInv'
BY RoomAvailable, RoomGives, RoomUnavailable, RoomError DEF MucServe

\* Every step keeps what holds of the channels and their rooms.
LEMMA RoomStep ==
    ASSUME HandlerInv, RoomInv, [Next]_vars
    PROVE  RoomInv'
<1>1. Types /\ ReceiptInv
  BY DEF HandlerInv
<1>2. CASE Elsewhere
  <2>1. Passes /\ muc' = muc
    BY <1>2, ElsewherePasses
  <2>2. ReceiptsEffect \/ ListenerEffect \/ HistoryEffect
    BY <1>1, <1>2, ReceiptsServeStep, ReceiptsPeerStep, ReceiptsCallStep, ListenerServeEffect,
       ListenerCallEffect, HistoryServeEffect, HistoryCallEffect, HistoryHelperEffect DEF Elsewhere
  <2>3. CASE ReceiptsEffect
    <3>1. Calling(ReceiptPcs, ReceiptOps) /\ Moving({"received", "request"}) /\ Handling({"signal"})
      BY <2>3 DEF ReceiptsEffect
    <3>2. /\ ReceiptPcs \cap MucPcs = {} /\ {"received", "request"} \cap MucKinds = {}
          /\ "join" \notin {"signal"}
      BY DEF ReceiptPcs, MucPcs, MucKinds
    <3> QED
      BY <1>1, <2>1, <3>1, <3>2, RoomElsewhere
  <2>4. CASE ListenerEffect
    <3>1. Calling(ListenerPcs, ListenerOps) /\ Moving({"open"}) /\ Handling({"accept", "expect"})
      BY <2>4 DEF ListenerEffect
    <3>2. /\ ListenerPcs \cap MucPcs = {} /\ {"open"} \cap MucKinds = {}
          /\ "join" \notin {"accept", "expect"}
      BY DEF ListenerPcs, MucPcs, MucKinds
    <3> QED
      BY <1>1, <2>1, <3>1, <3>2, RoomElsewhere
  <2>5. CASE HistoryEffect
    <3>1. Calling(HistoryPcs, Fetches) /\ Moving(HistoryKinds) /\ Handling({"deliver"})
      BY <2>5 DEF HistoryEffect
    <3>2. /\ HistoryPcs \cap MucPcs = {} /\ HistoryKinds \cap MucKinds = {}
          /\ "join" \notin {"deliver"}
      BY DEF HistoryPcs, MucPcs, MucKinds, HistoryKinds
    <3> QED
      BY <1>1, <2>1, <3>1, <3>2, RoomElsewhere
  <2> QED
    BY <2>2, <2>3, <2>4, <2>5
<1>3. CASE MucServe \/ MucPeer \/ \E g \in Routines : MucCall(g) \/ MucHelper(g)
  BY <1>1, <1>3, RoomServe, RoomPeer, RoomCall, RoomHelper
<1>4. ASSUME UNCHANGED vars \/ \E g \in Routines : Cancel(g)
      PROVE  RoomInv'
  <2>1. UNCHANGED <<pc, ret, inbox, serve, muc>>
    BY <1>4 DEF Cancel, vars, common
  <2>2. RoomFields'
    BY <2>1 DEF RoomInv, RoomFields
  <2>3. ASSUME NEW g \in Routines PROVE RoomOf(g)'
    <3>1. RoomFields /\ RoomOf(g)
      BY DEF RoomInv
    <3>2. MucSame(g) /\ CallSame(g) /\ ServeSame(g) /\ InboxSame(g)
      BY <2>1 DEF MucSame, CallSame, ServeSame, InboxSame, For
    <3> QED
      BY <1>1, <3>1, <3>2, RoomAside
  <2> QED
    BY <2>2, <2>3 DEF RoomInv
<1> QED
  BY <1>2, <1>3, <1>4 DEF Next, Serve, Peer, Call, Helper, Elsewhere

\* It holds at first.
LEMMA RoomInit ==
    ASSUME Init
    PROVE  RoomInv
<1> DEFINE managed == [a \in Routines \X Nicks |-> None]
           room == [a \in Routines \X Nicks |-> "out"]
           zero == [g \in Routines |-> 0]
           empty == [g \in Routines |-> <<>>]
<1>1. /\ pc = [g \in Routines |-> "idle"] /\ ret = [g \in Routines |-> None]
      /\ inbox = <<>> /\ serve = Loop
      /\ muc = [managed |-> managed, addr |-> zero, to |-> zero, join |-> empty, helper |-> empty,
                room |-> room, left |-> {}, late |-> {}, kicked |-> {}, seen |-> 0]
  BY DEF Init, MucInit
<1>2. /\ managed \in [Routines \X Nicks -> Routines \cup {None}]
      /\ room \in [Routines \X Nicks -> {"in", "out"}]
      /\ zero \in [Routines -> Nicks]
      /\ empty \in [Routines -> Seq(Nat)] /\ empty \in [Routines -> Seq(Senders)]
  BY DEF Nicks
<1>3. ASSUME NEW g \in Routines, NEW k \in Nicks
      PROVE  managed[<<g, k>>] = None /\ room[<<g, k>>] = "out" /\ zero[g] = 0 /\ empty[g] = <<>>
  OBVIOUS
<1> HIDE DEF managed, room, zero, empty
<1>4. RoomFields
  BY <1>1, <1>2 DEF RoomFields
<1>5. ASSUME NEW g \in Routines PROVE RoomOf(g)
  <2>1. /\ DOMAIN inbox = {} /\ Departs(inbox, g) = {} /\ Lone(inbox, g) /\ Nicked(inbox, g)
        /\ Dated(inbox, g) /\ \A kind, n : ~Has(inbox, kind, g, n)
    <3>1. DOMAIN inbox = {}
      BY <1>1
    <3> QED
      BY <3>1 DEF Departs, Lone, Nicked, Dated, Has
  <2>2. /\ muc.managed[<<g, 0>>] = None /\ muc.managed[<<g, 1>>] = None
        /\ DOMAIN muc.helper[g] = {} /\ DOMAIN muc.join[g] = {} /\ pc[g] = "idle" /\ ret[g] = None
        /\ ~For("join", g)
    <3>1. muc.managed = managed /\ muc.helper = empty /\ muc.join = empty
      BY <1>1
    <3>2. 0 \in Nicks /\ 1 \in Nicks
      BY DEF Nicks
    <3>3. DOMAIN empty[g] = {}
      <4>1. empty[g] = <<>>
        BY <1>3, <3>2
      <4>2. DOMAIN <<>> = {}
        OBVIOUS
      <4> QED
        BY <4>1, <4>2
    <3> QED
      BY <1>1, <1>3, <3>1, <3>2, <3>3 DEF For, Loop
  <2> QED
    BY <2>1, <2>2 DEF RoomOf, Named, Pended, Leaving, Entered, Departed, None
<1> QED
  BY <1>4, <1>5 DEF RoomInv

\* Once nothing is on its way for a channel, what the last Join or Leave
\* returned agrees with the room and with managed: whatever the contexts did,
\* whichever presences the room sent of its own accord and however many calls
\* there were before (muc.go:182-228, room.go:186-271).
THEOREM RoomsAgree == Spec => []Agreed
<1>1. Init => HandlerInv /\ PanicNeedsEnd /\ RoomInv
  BY HandlerInit, RoomInit
<1>2. HandlerInv /\ PanicNeedsEnd /\ RoomInv /\ [Next]_vars
        => (HandlerInv /\ PanicNeedsEnd /\ RoomInv)'
  BY HandlerStep, RoomStep
<1>3. RoomInv => Agreed
  <2> SUFFICES ASSUME RoomInv, NEW g \in Routines, Settled(g), g \notin muc.late
               PROVE  LET a == <<g, muc.addr[g]>> IN
                      /\ ret[g] = "joined" /\ g \notin muc.left =>
                            muc.room[a] = "in" /\ muc.managed[a] = g
                      /\ ret[g] = "left" /\ g \notin muc.kicked =>
                            muc.room[a] = "out" /\ muc.managed[a] = None
    BY DEF Agreed
  <2>1. RoomOf(g)
    BY DEF RoomInv
  <2>2. ~Has(inbox, "unavailable", g, 0)
    BY DEF Settled, Has, Presence
  <2>3. ASSUME ret[g] = "joined", g \notin muc.left
        PROVE  muc.room[<<g, muc.addr[g]>>] = "in" /\ muc.managed[<<g, muc.addr[g]>>] = g
    BY <2>1, <2>2, <2>3 DEF RoomOf, Entered
  <2>4. ASSUME ret[g] = "left", g \notin muc.kicked
        PROVE  muc.room[<<g, muc.addr[g]>>] = "out" /\ muc.managed[<<g, muc.addr[g]>>] = None
    BY <2>1, <2>4 DEF RoomOf, Departed
  <2> QED
    BY <2>3, <2>4
<1> QED
  BY <1>1, <1>2, <1>3, PTL DEF Spec
=============================================================================
