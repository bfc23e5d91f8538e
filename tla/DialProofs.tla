---------------------------- MODULE DialProofs ----------------------------
(***************************************************************************)
(* Dialing over TCP: whatever the resolver answers and whichever attempts  *)
(* fail, the endpoints are tried in an order that never gives up TLS       *)
(* early.                                                                  *)
(***************************************************************************)
EXTENDS Dial, SequenceTheorems, TLAPS

\* The behaviours Dialed is about.
Tcp == dialer.kind = "tcp" /\ ~dialer.noLookup

\* Those of the records, and the domain itself (the provers do not know that it
\* is a string).
Hosts == STRING \cup {"domain"}
Kinds == {"pending", "ok", "not present", "error"}
\* Only a lookup that worked has records, and each of them is of its service.
Answer(tls) ==
    /\ srv[tls].kind \in Kinds
    /\ srv[tls].addrs \in Seq([host : Hosts, port : Nat, tls : {tls}])
    /\ srv[tls].kind # "ok" => srv[tls].addrs = <<>>
    /\ srv[tls].kind = "pending" => srv[tls] = Pending
Answers == DOMAIN srv = BOOLEAN /\ \A tls \in BOOLEAN : Answer(tls)
Complete == \A tls \in Lookups : srv[tls].kind # "pending"

Endpoints == [host : Hosts, port : Nat, tls : BOOLEAN]
Lists == addrs \in Seq(Endpoints) /\ tried \in Seq(Endpoints)

\* What was tried and what is left is what the lookups gave.
Progress ==
    \/ dialAt \in {"start", "lookup"} /\ tried = <<>>
    \/ Complete /\ dialAt = "dial" /\ tried \o addrs = Addrs
    \/ /\ Complete /\ dialAt = "done" /\ tried \o addrs = Addrs
       /\ tried # <<>> /\ conn = tried[Len(tried)]
    \/ Complete /\ dialAt = "error" /\ tried = Addrs
    \/ Complete /\ dialAt = "error" /\ tried = <<>> /\ (BothFailed \/ Addrs = <<>>)

DialInv == Tcp => Answers /\ Lists /\ Progress

----------------------------------------------------------------------------
(* Joining lists.                                                          *)

\* What a joined list holds, and where.
LEMMA JoinedAt ==
    ASSUME NEW S, NEW a \in Seq(S), NEW b \in Seq(S)
    PROVE  /\ a \o b \in Seq(S) /\ Len(a \o b) = Len(a) + Len(b)
           /\ \A i \in DOMAIN a : i \in DOMAIN (a \o b) /\ (a \o b)[i] = a[i]
           /\ \A i \in DOMAIN (a \o b) :
                 \/ i \in DOMAIN a
                 \/ i - Len(a) \in DOMAIN b /\ (a \o b)[i] = b[i - Len(a)]
           /\ \A i \in DOMAIN b : i + Len(a) \in DOMAIN (a \o b) /\ (a \o b)[i + Len(a)] = b[i]
OBVIOUS

\* The empty one has no elements.
LEMMA NoElements == DOMAIN <<>> = {}
OBVIOUS

\* A list that is not empty begins somewhere.
LEMMA FirstOf ==
    ASSUME NEW S, NEW q \in Seq(S), q # <<>>
    PROVE  1 \in DOMAIN q
<1>1. Len(q) \in Nat /\ DOMAIN q = 1 .. Len(q) /\ Len(q) # 0
  BY EmptySeq, LenProperties
<1> QED
  BY <1>1

\* An element goes from one list to the other, and their join stays.
LEMMA Moved ==
    ASSUME NEW S, NEW t \in Seq(S), NEW a \in Seq(S), a # <<>>
    PROVE  /\ Append(t, Head(a)) \in Seq(S) /\ Tail(a) \in Seq(S)
           /\ Append(t, Head(a)) \o Tail(a) = t \o a
           /\ Append(t, Head(a)) # <<>>
           /\ Append(t, Head(a))[Len(Append(t, Head(a)))] = Head(a)
<1> DEFINE h == Head(a)
           r == Tail(a)
<1>1. h \in S /\ r \in Seq(S) /\ a = <<h>> \o r
  OBVIOUS
<1> HIDE DEF h, r
<1>2. Append(t, h) \in Seq(S) /\ Append(t, h) = t \o <<h>> /\ Append(t, h) # <<>>
      /\ Append(t, h)[Len(Append(t, h))] = h
  <2>1. Append(t, h) \in Seq(S) /\ Len(Append(t, h)) = Len(t) + 1 /\ Append(t, h)[Len(t) + 1] = h
    BY <1>1, AppendProperties
  <2>2. Append(t, h) # <<>>
    BY <1>1, AppendProperties
  <2>3. Append(t, h) = t \o <<h>>
    BY <1>1, AppendIsConcat
  <2> QED
    BY <2>1, <2>2, <2>3
<1>3. (t \o <<h>>) \o r = t \o (<<h>> \o r)
  BY <1>1
<1> QED
  BY <1>1, <1>2, <1>3 DEF h, r

----------------------------------------------------------------------------
(* The lists of the lookups.                                               *)

\* What OrFallback gives: endpoints of its own service, all the records, and
\* none exactly when the service is absent.
LEMMA Fallbacks ==
    ASSUME Answers, NEW tls \in BOOLEAN
    PROVE  /\ OrFallback(tls) \in Seq(Endpoints)
           /\ \A i \in DOMAIN OrFallback(tls) : OrFallback(tls)[i].tls = tls
           /\ ToSet(srv[tls].addrs) \subseteq ToSet(OrFallback(tls))
           /\ srv[tls].kind = "not present" <=> OrFallback(tls) = <<>>
<1> DEFINE q == srv[tls].addrs
           f == FallbackRecords(tls)
<1>1. /\ q \in Seq([host : Hosts, port : Nat, tls : {tls}])
      /\ srv[tls].kind = "not present" => q = <<>>
  BY DEF Answers, Answer
<1>2. PICK p \in Nat : f = <<Endpoint("domain", p, tls)>>
  BY DEF FallbackRecords
<1>3. /\ f \in Seq(Endpoints) /\ f # <<>> /\ \A i \in DOMAIN f : f[i].tls = tls
  <2> DEFINE x == Endpoint("domain", p, tls)
  <2>1. x \in Endpoints /\ x.tls = tls
    BY <1>2 DEF Endpoint, Endpoints, Hosts
  <2>2. f = <<x>>
    BY <1>2
  <2> HIDE DEF x, f
  <2> QED
    BY <2>1, <2>2
<1>4. q \in Seq(Endpoints) /\ \A i \in DOMAIN q : q[i].tls = tls
  <2> DEFINE E == [host : Hosts, port : Nat, tls : {tls}]
  <2>1. \A x \in E : x \in Endpoints /\ x.tls = tls
    BY DEF Endpoints
  <2>2. q \in Seq(E)
    BY <1>1
  <2> HIDE DEF E, q
  <2> QED
    BY <2>1, <2>2
<1>5. OrFallback(tls) = IF srv[tls].kind # "not present" /\ q = <<>> THEN f ELSE q
  BY DEF OrFallback
<1>6. ToSet(q) \subseteq ToSet(OrFallback(tls))
  <2>1. CASE q = <<>>
    BY <2>1 DEF ToSet
  <2>2. CASE q # <<>>
    BY <1>5, <2>2
  <2> QED
    BY <2>1, <2>2
<1> HIDE DEF f, q
<1> QED
  BY <1>1, <1>3, <1>4, <1>5, <1>6 DEF q

\* The part for TLS, which comes first.
First == IF dialer.noTLS THEN <<>> ELSE OrFallback(TRUE)

\* All endpoints, those with TLS before those without.
LEMMA AllEndpoints ==
    ASSUME Answers
    PROVE  /\ Addrs = First \o OrFallback(FALSE) /\ Addrs \in Seq(Endpoints)
           /\ First \in Seq(Endpoints) /\ OrFallback(FALSE) \in Seq(Endpoints)
           /\ \A i \in DOMAIN First : First[i].tls = TRUE
           /\ \A i \in DOMAIN OrFallback(FALSE) : OrFallback(FALSE)[i].tls = FALSE
           /\ \A i \in DOMAIN Addrs : /\ Addrs[i].tls = TRUE => i \in DOMAIN First
                                      /\ i \in DOMAIN First => Addrs[i] = First[i]
           /\ \A i \in DOMAIN Addrs : Addrs[i].tls = FALSE => i > Len(First)
<1>1. Addrs = First \o OrFallback(FALSE)
  BY DEF Addrs, First
<1>2. /\ First \in Seq(Endpoints) /\ OrFallback(FALSE) \in Seq(Endpoints)
      /\ \A i \in DOMAIN First : First[i].tls = TRUE
      /\ \A i \in DOMAIN OrFallback(FALSE) : OrFallback(FALSE)[i].tls = FALSE
  <2>1. \A t \in BOOLEAN : /\ OrFallback(t) \in Seq(Endpoints)
                          /\ \A i \in DOMAIN OrFallback(t) : OrFallback(t)[i].tls = t
    BY Fallbacks
  <2>2. <<>> \in Seq(Endpoints) /\ DOMAIN <<>> = {}
    OBVIOUS
  <2> QED
    BY <2>1, <2>2, Zenon DEF First
<1> DEFINE a == First
           b == OrFallback(FALSE)
           c == Addrs
<1>3. /\ c = a \o b /\ a \in Seq(Endpoints) /\ b \in Seq(Endpoints)
      /\ (\A i \in DOMAIN a : a[i].tls = TRUE) /\ (\A i \in DOMAIN b : b[i].tls = FALSE)
  BY <1>1, <1>2
<1> HIDE DEF a, b, c
<1>4. ASSUME NEW i \in DOMAIN c
      PROVE  /\ c[i].tls = TRUE => i \in DOMAIN a
             /\ i \in DOMAIN a => c[i] = a[i]
             /\ c[i].tls = FALSE => i > Len(a)
  <2>1. /\ i \in DOMAIN a => c[i] = a[i]
        /\ i \in DOMAIN a \/ (i - Len(a) \in DOMAIN b /\ c[i] = b[i - Len(a)])
    BY <1>3, JoinedAt
  <2>2. i \in Nat /\ i > 0 /\ Len(a) \in Nat /\ DOMAIN a = 1 .. Len(a) /\ DOMAIN b = 1 .. Len(b)
        /\ Len(b) \in Nat
    <3>1. c \in Seq(Endpoints)
      BY <1>3, JoinedAt
    <3> QED
      BY <1>3, <3>1
  <2>3. CASE i \in DOMAIN a
    BY <1>3, <2>1, <2>3
  <2>4. CASE i - Len(a) \in DOMAIN b /\ c[i] = b[i - Len(a)]
    <3>1. c[i].tls = FALSE
      BY <1>3, <2>4
    <3>2. i > Len(a)
      BY <2>2, <2>4
    <3> QED
      BY <2>1, <3>1, <3>2
  <2> QED
    BY <2>1, <2>3, <2>4
<1>5. c \in Seq(Endpoints)
  BY <1>3, JoinedAt
<1> QED
  BY <1>1, <1>2, <1>4, <1>5 DEF a, b, c

----------------------------------------------------------------------------
(* Steps.                                                                  *)

\* Once the lookups are done nothing about them changes.
LEMMA LookupsKept ==
    ASSUME srv' = srv, dialer' = dialer
    PROVE  /\ (Answers' <=> Answers) /\ Addrs' = Addrs
           /\ (Complete' <=> Complete) /\ (BothFailed' <=> BothFailed)
<1>1. Answers' <=> Answers
  BY DEF Answers, Answer
<1>2. \A t \in BOOLEAN : OrFallback(t)' = OrFallback(t)
  BY DEF OrFallback, FallbackRecords, connType
<1>3. Addrs' = Addrs
  BY <1>2, Zenon DEF Addrs
<1>4. (Complete' <=> Complete) /\ (BothFailed' <=> BothFailed)
  BY DEF Complete, Lookups, BothFailed
<1> QED
  BY <1>1, <1>3, <1>4

\* The endpoints of a list of hosts.
LEMMA EndpointsOf ==
    ASSUME NEW S, S \subseteq Hosts, NEW as \in Seq(S), NEW tls \in BOOLEAN
    PROVE  [i \in DOMAIN as |-> Endpoint(as[i], 1, tls)] \in Seq([host : Hosts, port : Nat, tls : {tls}])
<1> DEFINE E == [host : Hosts, port : Nat, tls : {tls}]
<1>1. \A h \in Hosts : Endpoint(h, 1, tls) \in E
  BY DEF Endpoint
<1>2. DOMAIN as = 1 .. Len(as) /\ Len(as) \in Nat /\ \A i \in DOMAIN as : as[i] \in Hosts
  <2>1. DOMAIN as = 1 .. Len(as) /\ Len(as) \in Nat
    BY LenProperties
  <2>2. \A i \in 1 .. Len(as) : as[i] \in S
    BY ElementOfSeq
  <2> QED
    BY <2>1, <2>2
<1> DEFINE es == [i \in DOMAIN as |-> Endpoint(as[i], 1, tls)]
<1>3. DOMAIN es = 1 .. Len(as) /\ \A i \in 1 .. Len(as) : es[i] \in E
  BY <1>1, <1>2
<1>4. es = [i \in 1 .. Len(as) |-> es[i]]
  BY <1>2
<1> HIDE DEF es, E
<1>5. es \in Seq(E)
  <2> DEFINE n == Len(as)
  <2>1. n \in Nat /\ \A i \in 1 .. n : es[i] \in E
    BY <1>2, <1>3
  <2> HIDE DEF n
  <2>2. [i \in 1 .. n |-> es[i]] \in Seq(E)
    BY <2>1, IsASeq
  <2> QED
    BY <1>4, <2>2 DEF n
<1> QED
  BY <1>5 DEF es, E

\* A lookup gives records of its own service or none.
LEMMA LookupStep ==
    ASSUME DialInv, Tcp, NEW tls \in BOOLEAN, NEW answer \in Records, Lookup(tls, answer)
    PROVE  Answers' /\ Lists' /\ Progress'
<1>1. /\ Answers /\ Lists /\ tried = <<>>
  BY DEF DialInv, Progress, Lookup
<1> DEFINE w == LookupServiceByDomain(answer, tls)
           E == [host : Hosts, port : Nat, tls : {tls}]
<1>2. /\ w.kind \in Kinds \ {"pending"} /\ w.addrs \in Seq(E)
      /\ w.kind # "ok" => w.addrs = <<>>
  <2>1. answer.addrs \in Seq(STRING)
    BY RecordAssumption
  <2>2. <<>> \in Seq(E)
    OBVIOUS
  <2> DEFINE as == answer.addrs
             es == [i \in DOMAIN as |-> Endpoint(as[i], 1, tls)]
  <2>3. es \in Seq(E)
    <3> DEFINE S == STRING
    <3>1. as \in Seq(S) /\ S \subseteq Hosts
      BY <2>1 DEF Hosts
    <3> HIDE DEF as, S
    <3> QED
      BY <3>1, EndpointsOf
  <2>4. \/ w.kind \in {"ok", "not present", "error"} /\ w.addrs = <<>>
        \/ w.kind = "ok" /\ w.addrs = es
    BY DEF LookupServiceByDomain
  <2> HIDE DEF w, es, E
  <2> QED
    BY <2>2, <2>3, <2>4 DEF Kinds
<1> HIDE DEF w
<1>3. DOMAIN srv = BOOLEAN /\ srv' = [srv EXCEPT ![tls] = w]
  BY <1>1 DEF Answers, Lookup, w
<1>4. DOMAIN srv' = BOOLEAN /\ srv'[tls] = w /\ \A t \in BOOLEAN : t # tls => srv'[t] = srv[t]
  BY <1>3, Zenon
<1>5. ASSUME NEW t \in BOOLEAN PROVE Answer(t)'
  <2>1. CASE t = tls
    <3>1. /\ srv'[t].kind \in Kinds
          /\ srv'[t].addrs \in Seq([host : Hosts, port : Nat, tls : {t}])
          /\ srv'[t].kind # "ok" => srv'[t].addrs = <<>>
          /\ srv'[t].kind # "pending"
      BY <1>2, <1>4, <2>1, Zenon
    <3> QED
      BY <3>1 DEF Answer
  <2>2. CASE t # tls
    <3>1. srv'[t] = srv[t] /\ Answer(t)
      BY <1>1, <1>4, <2>2, Zenon DEF Answers
    <3> QED
      BY <3>1 DEF Answer
  <2> QED
    BY <2>1, <2>2
<1>6. Answers'
  BY <1>4, <1>5 DEF Answers
<1>7. Lists' /\ Progress'
  BY <1>1 DEF Lookup, Lists, Progress
<1> QED
  BY <1>6, <1>7

\* When both lookups are done there are endpoints, or there is nothing to try.
LEMMA LookedStep ==
    ASSUME DialInv, Tcp, Looked
    PROVE  Answers' /\ Lists' /\ Progress'
<1>1. Answers /\ Lists /\ tried = <<>> /\ tried' = tried /\ srv' = srv /\ dialer' = dialer
  BY DEF DialInv, Progress, Looked
<1>2. Complete
  <2> SUFFICES ASSUME NEW tls \in Lookups PROVE srv[tls].kind # "pending"
    BY DEF Complete
  <2>1. tls \in BOOLEAN
    BY Zenon DEF Lookups
  <2> QED
    BY <1>1, <2>1 DEF Looked, Answers, Answer
<1>3. Answers' /\ Addrs' = Addrs /\ Complete' /\ (BothFailed' <=> BothFailed)
  BY <1>1, <1>2, LookupsKept
<1>4. Addrs \in Seq(Endpoints)
  BY <1>1, AllEndpoints
<1>5. CASE BothFailed \/ Addrs = <<>>
  <2>1. dialAt' = "error" /\ addrs' = addrs
    BY <1>5 DEF Looked
  <2> QED
    BY <1>1, <1>3, <1>5, <2>1 DEF Lists, Progress
<1>6. CASE ~(BothFailed \/ Addrs = <<>>)
  <2>1. dialAt' = "dial" /\ addrs' = Addrs
    BY <1>6 DEF Looked
  <2>2. tried' \o addrs' = Addrs'
    <3> DEFINE a == Addrs
    <3>1. <<>> \o a = a
      <4>1. a \in Seq(Endpoints)
        BY <1>4
      <4> HIDE DEF a
      <4> QED
        BY <4>1
    <3> QED
      BY <1>1, <1>3, <2>1, <3>1
  <2>3. Progress'
    BY <1>3, <2>1, <2>2 DEF Progress
  <2>4. Lists'
    BY <1>1, <1>4, <2>1 DEF Lists
  <2> QED
    BY <1>3, <2>3, <2>4
<1> QED
  BY <1>5, <1>6

\* An attempt moves one endpoint.
LEMMA TryStep ==
    ASSUME DialInv, Tcp, NEW ok \in BOOLEAN, Try(ok)
    PROVE  Answers' /\ Lists' /\ Progress'
<1>1. /\ Answers /\ Lists /\ Complete /\ tried \o addrs = Addrs /\ srv' = srv /\ dialer' = dialer
      /\ addrs # <<>> /\ tried' = Append(tried, Head(addrs)) /\ addrs' = Tail(addrs)
  BY DEF DialInv, Progress, Try
<1>2. Answers' /\ Addrs' = Addrs /\ Complete'
  BY <1>1, LookupsKept
<1>3. /\ tried' \in Seq(Endpoints) /\ addrs' \in Seq(Endpoints) /\ tried' \o addrs' = tried \o addrs
      /\ tried' # <<>> /\ tried'[Len(tried')] = Head(addrs)
  <2> DEFINE t == tried
             a == addrs
  <2>1. t \in Seq(Endpoints) /\ a \in Seq(Endpoints) /\ a # <<>>
    BY <1>1 DEF Lists
  <2> HIDE DEF t, a
  <2>2. /\ Append(t, Head(a)) \in Seq(Endpoints) /\ Tail(a) \in Seq(Endpoints)
        /\ Append(t, Head(a)) \o Tail(a) = t \o a /\ Append(t, Head(a)) # <<>>
        /\ Append(t, Head(a))[Len(Append(t, Head(a)))] = Head(a)
    BY <2>1, Moved
  <2>3. tried' = Append(t, Head(a)) /\ addrs' = Tail(a) /\ tried \o addrs = t \o a /\ Head(addrs) = Head(a)
    BY <1>1 DEF t, a
  <2> QED
    BY <2>2, <2>3
<1>4. \/ dialAt' = "done" /\ conn' = Head(addrs)
      \/ dialAt' = "dial"
  BY DEF Try
<1>5. Lists'
  BY <1>3 DEF Lists
<1>6. Progress'
  BY <1>1, <1>2, <1>3, <1>4 DEF Progress
<1> QED
  BY <1>2, <1>5, <1>6

\* After the last attempt everything has been tried.
LEMMA ExhaustedStep ==
    ASSUME DialInv, Tcp, Exhausted
    PROVE  Answers' /\ Lists' /\ Progress'
<1>1. /\ Answers /\ Lists /\ Complete /\ tried \o addrs = Addrs /\ srv' = srv /\ dialer' = dialer
      /\ addrs = <<>> /\ tried' = tried /\ addrs' = addrs /\ dialAt' = "error"
  BY DEF DialInv, Tcp, Progress, Exhausted
<1>2. Answers' /\ Addrs' = Addrs /\ Complete'
  BY <1>1, LookupsKept
<1>3. tried = tried \o <<>>
  BY <1>1 DEF Lists
<1>4. tried' = Addrs'
  BY <1>1, <1>2, <1>3
<1> QED
  BY <1>1, <1>2, <1>4 DEF Lists, Progress

\* Every step keeps the invariant; the other dialers have nothing to keep.
LEMMA DialStep ==
    ASSUME DialInv, [DialNext]_dialVars
    PROVE  DialInv'
<1>1. SUFFICES ASSUME Tcp' PROVE Answers' /\ Lists' /\ Progress'
  BY DEF DialInv
<1>2. dialer' = dialer
  BY DEF DialNext, dialVars, DialLegacy, DialLookup, Lookup, Looked, Try, Exhausted, DialWebSocket,
         DialDirect, ComponentStart, ComponentProc, ComponentHeader, ComponentAck, ComponentFails,
         ComponentBroken, Receive
<1>3. Tcp
  BY <1>1, <1>2 DEF Tcp
<1>4. Answers /\ Lists /\ Progress
  BY <1>3 DEF DialInv
<1>5. dialAt \in {"start", "lookup", "dial", "done", "error"}
  BY <1>4 DEF Progress
<1>6. CASE DialLookup
  <2>1. /\ srv' = srv /\ addrs' = addrs /\ tried' = tried /\ dialAt' = "lookup" /\ tried = <<>>
    BY <1>4, <1>6 DEF DialLookup, Progress
  <2> QED
    BY <1>2, <1>4, <2>1, LookupsKept DEF Lists, Progress
<1>7. CASE \E tls \in BOOLEAN, answer \in Records : Lookup(tls, answer)
  BY <1>3, <1>7, LookupStep
<1>8. CASE Looked
  BY <1>3, <1>8, LookedStep
<1>9. CASE \E ok \in BOOLEAN : Try(ok)
  BY <1>3, <1>9, TryStep
<1>10. CASE Exhausted
  BY <1>3, <1>10, ExhaustedStep
<1>11. CASE UNCHANGED dialVars
  <2>1. UNCHANGED <<dialer, dialAt, srv, addrs, tried, conn>>
    BY <1>11 DEF dialVars
  <2>2. Answers' /\ Addrs' = Addrs /\ (Complete' <=> Complete) /\ (BothFailed' <=> BothFailed)
    BY <1>4, <2>1, LookupsKept
  <2>3. Lists'
    BY <1>4, <2>1 DEF Lists
  <2>4. Progress'
    BY <1>4, <2>1, <2>2 DEF Progress
  <2> QED
    BY <2>2, <2>3, <2>4
<1>12. ~DialLegacy /\ ~(\E links \in Links : DialWebSocket(links))
       /\ ~(\E scheme \in {"ws", "wss"} : DialDirect(scheme))
       /\ ~(\E t \in Transcripts : ComponentStart(t))
  BY <1>3 DEF Tcp, DialLegacy, DialWebSocket, DialDirect, ComponentStart
<1>13. ~ComponentProc /\ ~ComponentHeader /\ ~ComponentAck /\ ~ComponentFails /\ ~ComponentBroken
  BY <1>5 DEF ComponentProc, ComponentHeader, ComponentAck, ComponentFails, ComponentBroken, Expected
<1> QED
  BY <1>6, <1>7, <1>8, <1>9, <1>10, <1>11, <1>12, <1>13 DEF DialNext

\* A dialer begins without answers and without endpoints.
LEMMA DialStart ==
    ASSUME DialInit
    PROVE  DialInv
<1>1. Answers
  <2>1. DOMAIN srv = BOOLEAN /\ \A t \in BOOLEAN : srv[t] = Pending
    BY DEF DialInit
  <2>2. Pending.kind = "pending" /\ Pending.addrs = <<>>
    BY DEF Pending
  <2>3. ASSUME NEW t \in BOOLEAN PROVE Answer(t)
    <3>1. <<>> \in Seq([host : Hosts, port : Nat, tls : {t}])
      OBVIOUS
    <3> QED
      BY <2>1, <2>2, <3>1 DEF Answer, Kinds
  <2> QED
    BY <2>1, <2>3 DEF Answers
<1>2. Lists /\ Progress
  BY DEF DialInit, Lists, Progress
<1> QED
  BY <1>1, <1>2 DEF DialInv

----------------------------------------------------------------------------
(* What follows.                                                           *)

\* Where everything has been tried, both services have.
LEMMA AllTried ==
    ASSUME Answers, tried = Addrs, NEW tls \in Lookups
    PROVE  TriedAll(tls)
<1>1. tls \in BOOLEAN /\ (tls = TRUE => ~dialer.noTLS)
  BY Zenon DEF Lookups
<1> DEFINE o == OrFallback(tls)
<1>2. /\ ToSet(srv[tls].addrs) \subseteq ToSet(o) /\ o \in Seq(Endpoints)
      /\ srv[tls].kind # "not present" => o # <<>>
      /\ \A i \in DOMAIN o : o[i].tls = tls
  BY <1>1, Fallbacks
<1>3. \A i \in DOMAIN o : \E j \in DOMAIN tried : tried[j] = o[i]
  <2>1. /\ Addrs = First \o OrFallback(FALSE) /\ First \in Seq(Endpoints)
        /\ OrFallback(FALSE) \in Seq(Endpoints)
    BY AllEndpoints
  <2>2. /\ \A i \in DOMAIN First : i \in DOMAIN tried /\ tried[i] = First[i]
        /\ \A i \in DOMAIN OrFallback(FALSE) :
              /\ i + Len(First) \in DOMAIN tried
              /\ tried[i + Len(First)] = OrFallback(FALSE)[i]
    <3> DEFINE a == First
               b == OrFallback(FALSE)
    <3>1. tried = a \o b /\ a \in Seq(Endpoints) /\ b \in Seq(Endpoints)
      BY <2>1
    <3> HIDE DEF a, b
    <3>2. /\ \A i \in DOMAIN a : i \in DOMAIN tried /\ tried[i] = a[i]
          /\ \A i \in DOMAIN b : i + Len(a) \in DOMAIN tried /\ tried[i + Len(a)] = b[i]
      BY <3>1, JoinedAt
    <3> QED
      BY <3>2 DEF a, b
  <2>3. CASE tls = TRUE
    <3>1. o = First
      BY <1>1, <2>3 DEF First
    <3> QED
      BY <2>2, <3>1
  <2>4. CASE tls = FALSE
    <3>1. o = OrFallback(FALSE)
      BY <2>4
    <3> QED
      BY <2>2, <3>1
  <2> QED
    BY <1>1, <2>3, <2>4
<1> HIDE DEF o
<1>4. ToSet(o) \subseteq ToSet(tried)
  BY <1>3 DEF ToSet
<1>5. ASSUME o # <<>> PROVE \E j \in DOMAIN tried : tried[j].tls = tls
  <2>1. 1 \in DOMAIN o
    BY <1>2, <1>5, FirstOf
  <2> QED
    BY <1>2, <1>3, <2>1
<1> QED
  BY <1>2, <1>4, <1>5 DEF TriedAll

\* Where a plain endpoint has been tried, those with TLS all have.
LEMMA TLSTried ==
    ASSUME Answers, Lists, tried \o addrs = Addrs, ~dialer.noTLS, tried # <<>>,
           tried[Len(tried)].tls = FALSE
    PROVE  TriedAll(TRUE)
<1> DEFINE o == OrFallback(TRUE)
           n == Len(tried)
<1>1. /\ ToSet(srv[TRUE].addrs) \subseteq ToSet(o) /\ o \in Seq(Endpoints)
      /\ srv[TRUE].kind # "not present" => o # <<>>
      /\ \A i \in DOMAIN o : o[i].tls = TRUE
  BY Fallbacks
<1>2. First = o
  BY DEF First
<1>3. tried \in Seq(Endpoints) /\ addrs \in Seq(Endpoints) /\ n \in Nat /\ n \in DOMAIN tried
      /\ DOMAIN tried = 1 .. n
  BY DEF Lists
<1>4. n \in DOMAIN Addrs /\ Addrs[n].tls = FALSE
  BY <1>3, JoinedAt
<1>5. n > Len(o)
  BY <1>2, <1>4, AllEndpoints
<1>6. \A i \in DOMAIN o : i \in DOMAIN tried /\ tried[i] = o[i]
  <2> SUFFICES ASSUME NEW i \in DOMAIN o PROVE i \in DOMAIN tried /\ tried[i] = o[i]
    OBVIOUS
  <2> HIDE DEF o, n
  <2>1. i \in DOMAIN tried
    <3>1. Len(o) \in Nat /\ DOMAIN o = 1 .. Len(o)
      BY <1>1, LenProperties
    <3> QED
      BY <1>3, <1>5, <3>1
  <2>2. i \in DOMAIN Addrs /\ Addrs[i] = tried[i]
    BY <1>3, <2>1, JoinedAt
  <2>3. Addrs[i] = o[i]
    BY <1>2, <2>2, AllEndpoints
  <2> QED
    BY <2>1, <2>2, <2>3
<1> HIDE DEF o, n
<1>7. ToSet(o) \subseteq ToSet(tried)
  BY <1>6 DEF ToSet
<1>8. ASSUME o # <<>> PROVE \E j \in DOMAIN tried : tried[j].tls = TRUE
  <2>1. 1 \in DOMAIN o
    BY <1>1, <1>8, FirstOf
  <2> QED
    BY <1>1, <1>6, <2>1
<1> QED
  BY <1>1, <1>7, <1>8 DEF TriedAll

\* No endpoint is of a service that is absent.
LEMMA AbsentSkipped ==
    ASSUME Answers, NEW tls \in BOOLEAN, srv[tls].kind = "not present"
    PROVE  \A i \in DOMAIN Addrs : Addrs[i].tls # tls
<1>1. OrFallback(tls) = <<>>
  BY Fallbacks
<1>2. SUFFICES ASSUME NEW i \in DOMAIN Addrs, Addrs[i].tls = tls PROVE FALSE
  OBVIOUS
<1>3. /\ Addrs = First \o OrFallback(FALSE) /\ First \in Seq(Endpoints)
      /\ OrFallback(FALSE) \in Seq(Endpoints)
      /\ \A k \in DOMAIN First : First[k].tls = TRUE
      /\ Addrs[i].tls = TRUE => i \in DOMAIN First
      /\ i \in DOMAIN First => Addrs[i] = First[i]
  BY AllEndpoints
<1>4. DOMAIN <<>> = {}
  BY NoElements
<1>5. CASE tls = TRUE
  <2>1. First = <<>>
    BY <1>1, <1>5 DEF First
  <2>2. DOMAIN First = {}
    BY <1>4, <2>1, Zenon
  <2> QED
    BY <1>2, <1>3, <1>5, <2>2
<1>6. CASE tls = FALSE
  <2>1. i \in DOMAIN First \/ i - Len(First) \in DOMAIN OrFallback(FALSE)
    BY <1>3, JoinedAt
  <2>2. DOMAIN OrFallback(FALSE) = {}
    BY <1>1, <1>6, <1>4, Zenon
  <2>3. Addrs[i].tls = TRUE
    BY <1>3, <2>1, <2>2
  <2> QED
    BY <1>2, <1>6, <2>3
<1> QED
  BY <1>5, <1>6

\* The dialer of dial/dial.go keeps its promises for all answers of the
\* resolver and all outcomes of the attempts: a plain connection is made only
\* after every endpoint with implicit TLS has failed, a service that the domain
\* declares absent is not tried, and the dialer gives up only when it has
\* tried everything it knows or could look up nothing.
THEOREM DialsInOrder == DialSpec => []Dialed
<1>1. DialInit => DialInv
  BY DialStart
<1>2. DialInv /\ [DialNext]_dialVars => DialInv'
  BY DialStep
<1>3. DialInv => Dialed
  <2> SUFFICES ASSUME DialInv, Tcp
               PROVE  /\ dialAt = "done" /\ ~conn.tls /\ ~dialer.noTLS => TriedAll(TRUE)
                      /\ \A tls \in BOOLEAN : srv[tls].kind = "not present"
                            => \A i \in DOMAIN tried : tried[i].tls # tls
                      /\ dialAt = "error" /\ (\E tls \in Lookups : srv[tls].kind = "ok")
                            => \A tls \in Lookups : TriedAll(tls)
    BY DEF Dialed, Tcp
  <2>1. Answers /\ Lists /\ Progress
    BY DEF DialInv
  <2>2. ASSUME dialAt = "done", ~conn.tls, ~dialer.noTLS PROVE TriedAll(TRUE)
    <3>1. tried \o addrs = Addrs /\ tried # <<>> /\ conn = tried[Len(tried)]
      BY <2>1, <2>2 DEF Progress
    <3>2. conn \in Endpoints
      BY <2>1, <3>1 DEF Lists
    <3>3. conn.tls = FALSE
      BY <2>2, <3>2 DEF Endpoints
    <3> QED
      BY <2>1, <2>2, <3>1, <3>3, TLSTried
  <2>3. ASSUME NEW tls \in BOOLEAN, srv[tls].kind = "not present", NEW i \in DOMAIN tried
        PROVE  tried[i].tls # tls
    <3>1. tried = <<>> \/ tried \o addrs = Addrs \/ tried = Addrs
      BY <2>1 DEF Progress
    <3>2. i \in DOMAIN Addrs /\ Addrs[i] = tried[i]
      <4>1. tried # <<>>
        BY <2>3, NoElements, Zenon
      <4> DEFINE a == tried
                 b == addrs
      <4>2. a \in Seq(Endpoints) /\ b \in Seq(Endpoints) /\ i \in DOMAIN a
        BY <2>1, <2>3 DEF Lists
      <4> HIDE DEF a, b
      <4>3. i \in DOMAIN (a \o b) /\ (a \o b)[i] = a[i]
        BY <4>2, JoinedAt
      <4>4. i \in DOMAIN (tried \o addrs) /\ (tried \o addrs)[i] = tried[i]
        BY <4>3 DEF a, b
      <4> QED
        BY <2>3, <3>1, <4>1, <4>4
    <3> QED
      BY <2>1, <2>3, <3>2, AbsentSkipped
  <2>4. ASSUME dialAt = "error", NEW t \in Lookups, srv[t].kind = "ok", NEW tls \in Lookups
        PROVE  TriedAll(tls)
    <3>1. t \in BOOLEAN
      BY Zenon DEF Lookups
    <3>2. ~BothFailed
      BY <2>4, <3>1 DEF BothFailed
    <3>3. Addrs # <<>>
      <4> DEFINE a == First
                 b == OrFallback(FALSE)
      <4>1. /\ Addrs = a \o b /\ a \in Seq(Endpoints) /\ b \in Seq(Endpoints)
        BY <2>1, AllEndpoints
      <4>2. a # <<>> \/ b # <<>>
        <5>1. OrFallback(t) # <<>>
          BY <2>1, <2>4, <3>1, Fallbacks
        <5>2. t = TRUE => ~dialer.noTLS
          BY Zenon DEF Lookups
        <5> QED
          BY <3>1, <5>1, <5>2 DEF First
      <4> HIDE DEF a, b
      <4> QED
        BY <4>1, <4>2
    <3>4. tried = Addrs
      BY <2>1, <2>4, <3>2, <3>3 DEF Progress
    <3> QED
      BY <2>1, <2>4, <3>4, AllTried
  <2> QED
    BY <2>2, <2>3, <2>4
<1> QED
  BY <1>1, <1>2, <1>3, PTL DEF DialSpec
===========================================================================
