-------------------------- MODULE NegotiateProofs --------------------------
(***************************************************************************)
(* Proofs about the negotiation of a session, for every set of             *)
(* configurations and every peer.  NegotiationInv is the inductive         *)
(* invariant: it speaks of one end's session at a time, so a step is       *)
(* correct when the record it puts there is Good.  The last section is     *)
(* about two ends: its invariant, PairInv, says which of them has the turn *)
(* and what is between them.                                               *)
(***************************************************************************)
EXTENDS Negotiate, SequenceTheorems, TLAPS

\* A negotiation that fails leaves a good session behind (every early return
\* with an error in negotiateFeatures and in the negotiator).
LEMMA FailGood ==
    ASSUME NEW e, NEW r, Good(e, r)
    PROVE  Good(e, Fail(r))
BY DEF Good, Fail, Sessions, CacheInv, ChoiceInv, ServerInv

\* A session stays one when the fields that a round of negotiateSession sets
\* have values of their types.
LEMMA UpdateType ==
    ASSUME NEW r \in Sessions, NEW bits \in SUBSET Bits, NEW tls \in BOOLEAN,
           NEW tee \in BOOLEAN, NEW again \in BOOLEAN, NEW inside \in BOOLEAN,
           NEW names \in SUBSET FeatureNames, NEW pc \in {"ready", "call"}
    PROVE  [r EXCEPT !.bits = bits, !.data = TRUE, !.doRestart = again,
                     !.negotiated = names, !.tls = tls, !.tee = tee,
                     !.inside = inside, !.pc = pc] \in Sessions
BY DEF Sessions

\* The fields of the session after negotiateSession took over what the
\* negotiator returned.
LEMMA ReturnedFields ==
    ASSUME NEW r \in Sessions, NEW mask \in SUBSET Bits,
           NEW rw \in {"nil", "conn", "tls"}
    PROVE  LET q == Returned(r, mask, rw)
           IN /\ q \in Sessions
              /\ q.bits = r.bits \cup mask
              /\ q.tls = (r.tls \/ rw = "tls")
              /\ q.pc = IF "Ready" \in r.bits \cup mask THEN "ready" ELSE "call"
              /\ q.cache = r.cache /\ q.required = r.required
              /\ q.listReq = r.listReq /\ q.sel = r.sel
<1> DEFINE q == Returned(r, mask, rw)
<1>1. /\ r.bits \cup mask \in SUBSET Bits
      /\ (r.tls \/ rw = "tls") \in BOOLEAN /\ (r.tee /\ rw # "tls") \in BOOLEAN
      /\ (rw # "nil") \in BOOLEAN /\ (r.inside /\ rw = "nil") \in BOOLEAN
      /\ (IF rw = "nil" THEN r.negotiated ELSE {}) \in SUBSET FeatureNames
  BY DEF Sessions
<1>2. q \in Sessions
  <2> DEFINE bits == r.bits \cup mask
             tls == r.tls \/ rw = "tls"
             tee == r.tee /\ rw # "tls"
             again == rw # "nil"
             inside == r.inside /\ rw = "nil"
             names == IF rw = "nil" THEN r.negotiated ELSE {}
             pc == IF "Ready" \in r.bits \cup mask THEN "ready" ELSE "call"
  <2>1. q = [r EXCEPT !.bits = bits, !.data = TRUE, !.doRestart = again,
                      !.negotiated = names, !.tls = tls, !.tee = tee,
                      !.inside = inside, !.pc = pc]
    BY DEF Returned
  <2>2. /\ bits \in SUBSET Bits /\ tls \in BOOLEAN /\ tee \in BOOLEAN
        /\ again \in BOOLEAN /\ names \in SUBSET FeatureNames
        /\ pc \in {"ready", "call"} /\ inside \in BOOLEAN
    BY <1>1
  <2> HIDE DEF q, bits, tls, tee, again, inside, names, pc
  <2>3. [r EXCEPT !.bits = bits, !.data = TRUE, !.doRestart = again,
                  !.negotiated = names, !.tls = tls, !.tee = tee,
                  !.inside = inside, !.pc = pc] \in Sessions
    BY <2>2, UpdateType, ZenonT(60)
  <2> QED
    BY <2>1, <2>3
<1>3. /\ q.bits = r.bits \cup mask
      /\ q.tls = (r.tls \/ rw = "tls")
  BY <1>1 DEF Returned, Sessions
<1>4. /\ q.pc = IF "Ready" \in r.bits \cup mask THEN "ready" ELSE "call"
      /\ q.cache = r.cache /\ q.required = r.required
      /\ q.listReq = r.listReq /\ q.sel = r.sel
  BY <1>1 DEF Returned, Sessions
<1> QED
  BY <1>2, <1>3, <1>4

\* The negotiator's results keep a session good: TLS comes with the Secure
\* bit, authentication needs TLS, and a server is ready only once it is
\* authenticated (the end of the loop in negotiateSession).
LEMMA ReturnedGood ==
    ASSUME NEW e, NEW r, Good(e, r), NEW mask \in SUBSET Bits,
           NEW rw \in {"nil", "conn", "tls"},
           "Secure" \in mask => rw = "tls" \/ r.tls,
           rw = "tls" => "Secure" \in mask,
           "Authn" \in mask => r.tls,
           Server(e) /\ "Ready" \in mask => "Authn" \in r.bits \cup mask
    PROVE  Good(e, Returned(r, mask, rw))
<1> DEFINE q == Returned(r, mask, rw)
<1>1. r \in Sessions
  BY DEF Good
<1>2. /\ q \in Sessions
      /\ q.bits = r.bits \cup mask
      /\ q.tls = (r.tls \/ rw = "tls")
      /\ q.pc = IF "Ready" \in r.bits \cup mask THEN "ready" ELSE "call"
      /\ q.cache = r.cache /\ q.required = r.required
      /\ q.listReq = r.listReq /\ q.sel = r.sel
  BY <1>1, ReturnedFields, SMTT(30)
<1> HIDE DEF q
<1>3. /\ q.required \subseteq q.cache \cup {"starttls"}
      /\ ("Secure" \in q.bits) = q.tls
      /\ "Authn" \in q.bits => q.tls
  BY <1>1, <1>2 DEF Good, Sessions
<1>4. CacheInv(q) /\ ChoiceInv(q)
  BY <1>2 DEF Good, CacheInv, ChoiceInv
<1>5. Server(e) => ServerInv(q)
  BY <1>2 DEF Good, ServerInv
<1> QED
  BY <1>2, <1>3, <1>4, <1>5 DEF Good, q

\* A feature that the session has the bits for ends well (negotiateFeatures
\* after Negotiate without an error).
LEMMA NegotiatedGood ==
    ASSUME NEW e, NEW r, Good(e, r), r.sel # "none",
           NEW mask \in SUBSET Bits, NEW rw \in {"nil", "conn", "tls"},
           "Secure" \in mask => rw = "tls" \/ r.tls,
           rw = "tls" => "Secure" \in mask,
           "Authn" \in mask => r.tls,
           rw = "nil" => mask \subseteq {"Ready"},
           Server(e) => "Ready" \notin mask \/ "Authn" \in r.bits,
           Server(e) /\ "Authn" \notin mask /\ rw # "nil" => r.listReq
    PROVE  Good(e, Negotiated(r, mask, rw))
<1> DEFINE q == [r EXCEPT !.bits = @ \cup mask, !.negotiated = @ \cup {r.sel},
                          !.tried = @ \cup {r.sel}]
           m == mask \cup (IF r.listReq THEN {} ELSE {"Ready"})
<1>1. r \in Sessions
  BY DEF Good
<1>2. /\ q \in Sessions /\ q.bits = r.bits \cup mask /\ q.tls = r.tls
      /\ q.cache = r.cache /\ q.required = r.required /\ q.pc = r.pc
      /\ q.listReq = r.listReq /\ q.sel = r.sel
  BY <1>1 DEF Sessions, Bits
<1>3. m \in SUBSET Bits
  BY DEF Bits
<1>4. Negotiated(r, mask, rw) = IF rw = "nil" /\ r.sel \notin r.required
                                  THEN [q EXCEPT !.pc = "select"]
                                  ELSE Returned(q, m, rw)
  BY DEF Negotiated
<1> HIDE DEF q, m
<1>5. CASE rw = "nil" /\ r.sel \notin r.required
  <2> DEFINE p == [q EXCEPT !.pc = "select"]
  <2>1. /\ p \in Sessions /\ p.bits = r.bits \cup mask /\ p.tls = r.tls
        /\ p.cache = r.cache /\ p.required = r.required /\ p.pc = "select"
        /\ p.listReq = r.listReq /\ p.sel = r.sel
    BY <1>2 DEF Sessions
  <2> HIDE DEF p
  <2>2. Good(e, p)
    BY <1>5, <2>1 DEF Good, CacheInv, ChoiceInv, ServerInv
  <2> QED
    BY <1>4, <1>5, <2>2 DEF p
<1>6. CASE ~(rw = "nil" /\ r.sel \notin r.required)
  <2>1. Returned(q, m, rw) \in Sessions
    BY <1>2, <1>3, ReturnedFields
  <2> DEFINE p == Returned(q, m, rw)
  <2>2. /\ p.bits = r.bits \cup mask \cup m
        /\ p.tls = (r.tls \/ rw = "tls")
        /\ p.pc = IF "Ready" \in p.bits THEN "ready" ELSE "call"
        /\ p.cache = r.cache /\ p.required = r.required
        /\ p.listReq = r.listReq /\ p.sel = r.sel
    BY <1>2, <1>3, ReturnedFields
  <2> HIDE DEF p
  <2>3. m = mask \cup (IF r.listReq THEN {} ELSE {"Ready"})
    BY DEF m
  <2>4. /\ p.required \subseteq p.cache \cup {"starttls"}
        /\ ("Secure" \in p.bits) = p.tls
        /\ "Authn" \in p.bits => p.tls
        /\ CacheInv(p) /\ ChoiceInv(p)
    BY <1>1, <2>2, <2>3 DEF Good, Sessions, CacheInv, ChoiceInv
  <2>5. Server(e) => ServerInv(p)
    BY <1>6, <2>2, <2>3 DEF Good, ServerInv
  <2>6. Good(e, p)
    BY <2>1, <2>4, <2>5 DEF Good, p
  <2> QED
    BY <1>4, <1>6, <2>6 DEF p
<1> QED
  BY <1>5, <1>6

\* A feature that failed leaves a good session (negotiateFeatures after
\* Negotiate with an error, passed on or not).
LEMMA NotNegotiatedGood ==
    ASSUME NEW e, NEW r, Good(e, r), r.sel # "none"
    PROVE  Good(e, NotNegotiated(r))
<1> DEFINE q == [r EXCEPT !.negotiated = @ \cup {r.sel}, !.tried = @ \cup {r.sel}]
           p == IF r.sel \in r.required THEN Fail(q) ELSE [q EXCEPT !.pc = "select"]
<1>1. p = NotNegotiated(r)
  BY DEF NotNegotiated
<1>2. r \in Sessions
  BY DEF Good
<1>3. /\ p \in Sessions /\ p.bits = r.bits /\ p.tls = r.tls
      /\ p.cache = r.cache /\ p.required = r.required
      /\ p.pc \in {"failed", "select"}
      /\ p.listReq = r.listReq /\ p.sel = r.sel
  BY <1>2 DEF Sessions, Fail
<1> HIDE DEF p
<1>4. Good(e, p)
  BY <1>3 DEF Good, CacheInv, ChoiceInv, ServerInv
<1> QED
  BY <1>1, <1>4

----------------------------------------------------------------------------
(* The connection: what an end writes is an element, and so is what it     *)
(* reads.                                                                  *)

Inv == TypeOK /\ NegotiationInv

\* The features of each end are features (StreamConfig.Features).
LEMMA FeaturesType ==
    ASSUME cfg \in Configs, NEW e
    PROVE  Features(e) \subseteq FeatureNames
BY ConfigAssumption DEF Features, ConfigSet

\* What the sessions write are elements (intstream.Send,
\* writeStreamFeatures and the Negotiate functions).
LEMMA ElemType ==
    ASSUME NEW r \in Sessions
    PROVE  /\ \A k \in Kinds : Elem(r, k) \in Messages
           /\ \A f, a \in Addresses : Header(r, f, a) \in Messages
           /\ \A n \in SUBSET (FeatureNames \cup {"unknown"}), b \in BOOLEAN :
                 FeatureList(r, n, b) \in Messages
BY DEF Sessions, Addresses, Elem, Header, FeatureList, Message, Messages

\* What an end reads is an element, from whichever peer.
LEMMA IncomingType ==
    ASSUME Inv, NEW e \in Ends, NEW m \in Incoming(e)
    PROVE  m \in Messages /\ (Peer(e) \notin cfg.ends => reads[e] < MaxReads)
<1>1. CASE Peer(e) \in cfg.ends
  BY <1>1 DEF Incoming, Inv, TypeOK
<1>2. CASE Peer(e) \notin cfg.ends
  <2>1. m \in Anything(e) /\ reads[e] < MaxReads
    BY <1>2 DEF Incoming
  <2>2. s[e] \in Sessions /\ Features(e) \subseteq FeatureNames
    BY FeaturesType DEF Inv, TypeOK
  <2>3. CASE m \in {Elem(s[e], k) : k \in Kinds}
    BY <2>1, <2>2, <2>3, ElemType
  <2>4. CASE m \in {Header(s[e], from, to) : from \in Addresses, to \in Addresses}
    BY <2>1, <2>2, <2>4, ElemType
  <2>5. CASE m \in {FeatureList(s[e], names, b) :
              names \in SUBSET (Features(e) \cup {"unknown"}), b \in BOOLEAN}
    <3>1. PICK names \in SUBSET (Features(e) \cup {"unknown"}), b \in BOOLEAN :
            m = FeatureList(s[e], names, b)
      BY <2>5
    <3>2. names \in SUBSET (FeatureNames \cup {"unknown"})
      BY <2>2, <3>1
    <3> QED
      BY <2>1, <2>2, <3>1, <3>2, ElemType
  <2> QED
    BY <2>1, <2>3, <2>4, <2>5 DEF Anything
<1> QED
  BY <1>1, <1>2

\* A step that puts a good session in place keeps the invariant, whether it
\* only writes ...
LEMMA GoesStep ==
    ASSUME Inv, NEW e \in Ends, NEW r, Good(e, r), NEW ms \in Seq(Messages),
           Goes(e, r, ms)
    PROVE  Inv'
<1>1. r \in Sessions /\ r.required \subseteq r.cache \cup {"starttls"}
  BY DEF Good
<1>2. /\ cfg' = cfg /\ reads' = reads /\ s' = [s EXCEPT ![e] = r]
      /\ chan' = [x \in Ends |-> IF x = Peer(e) /\ x \in cfg.ends THEN chan[x] \o ms
                              ELSE chan[x]]
  BY DEF Goes
<1>3. \A x \in Ends : chan[x] \in Seq(Messages) /\ chan[x] \o ms \in Seq(Messages)
  BY ConcatProperties DEF Inv, TypeOK
<1>4. chan' \in [Ends -> Seq(Messages)]
  BY <1>2, <1>3
<1> HIDE DEF Messages, Sessions
<1>5. s' \in [Ends -> Sessions] /\ \A x \in Ends : s'[x] = IF x = e THEN r ELSE s[x]
  BY <1>1, <1>2 DEF Inv, TypeOK
<1>6. TypeOK'
  BY <1>1, <1>2, <1>4, <1>5 DEF Inv, TypeOK
<1>7. NegotiationInv'
  BY <1>5 DEF Inv, NegotiationInv
<1> QED
  BY <1>6, <1>7 DEF Inv

\* ... or reads an element first ...
LEMMA ReadsStep ==
    ASSUME Inv, NEW e \in Ends, NEW r, Good(e, r), NEW ms \in Seq(Messages),
           NEW m \in Incoming(e), Reads(e, r, ms)
    PROVE  Inv'
<1>1. r \in Sessions /\ r.required \subseteq r.cache \cup {"starttls"}
  BY DEF Good
<1>2. /\ cfg' = cfg /\ s' = [s EXCEPT ![e] = r]
      /\ reads' = [reads EXCEPT ![e] = IF Peer(e) \in cfg.ends THEN @ ELSE @ + 1]
      /\ chan' = [x \in Ends |-> IF x = Peer(e) /\ x \in cfg.ends THEN chan[x] \o ms
                              ELSE IF x = Peer(e) \/ chan[x] = <<>> THEN chan[x] ELSE Tail(chan[x])]
  BY DEF Reads
<1>3. \A x \in Ends : chan[x] \in Seq(Messages)
  BY DEF Inv, TypeOK
<1>4. chan' \in [Ends -> Seq(Messages)]
  <2> SUFFICES ASSUME NEW x \in Ends PROVE chan'[x] \in Seq(Messages)
    BY <1>2
  <2>1. CASE x = Peer(e)
    BY <1>2, <1>3, <2>1, ConcatProperties
  <2>2. CASE x # Peer(e) /\ chan[x] = <<>>
    BY <1>2, <1>3, <2>2
  <2>3. CASE x # Peer(e) /\ chan[x] # <<>>
    <3>1. chan'[x] = Tail(chan[x])
      BY <1>2, <2>3
    <3> QED
      BY <1>3, <2>3, <3>1
  <2> QED
    BY <2>1, <2>2, <2>3
<1>5. Peer(e) \notin cfg.ends => reads[e] < MaxReads
  BY IncomingType
<1>6. reads' \in [Ends -> 0 .. MaxReads]
  BY <1>2, <1>5, BoundAssumption DEF Inv, TypeOK
<1>7. s' \in [Ends -> Sessions] /\ \A x \in Ends : s'[x] = IF x = e THEN r ELSE s[x]
  BY <1>1, <1>2 DEF Inv, TypeOK
<1>8. TypeOK'
  BY <1>1, <1>2, <1>4, <1>6, <1>7 DEF Inv, TypeOK
<1>9. NegotiationInv'
  BY <1>7 DEF Inv, NegotiationInv
<1> QED
  BY <1>8, <1>9 DEF Inv

\* ... or has its read fail.
LEMMA BrokenStep ==
    ASSUME Inv, NEW e \in Ends, NEW r, Good(e, r), Broken(e, r)
    PROVE  Inv'
<1>1. r \in Sessions /\ r.required \subseteq r.cache \cup {"starttls"}
  BY DEF Good
<1>2. UNCHANGED <<cfg, chan, reads>> /\ s' = [s EXCEPT ![e] = r]
  BY DEF Broken
<1>3. s' \in [Ends -> Sessions] /\ \A x \in Ends : s'[x] = IF x = e THEN r ELSE s[x]
  BY <1>1, <1>2 DEF Inv, TypeOK
<1>4. TypeOK'
  BY <1>1, <1>2, <1>3 DEF Inv, TypeOK
<1>5. NegotiationInv'
  BY <1>3 DEF Inv, NegotiationInv
<1> QED
  BY <1>4, <1>5 DEF Inv

----------------------------------------------------------------------------
(* The actions: the sessions they produce are good.                        *)

\* InsertTee, StartStream: nothing that the invariant speaks of but the place.
LEMMA PlaceGood ==
    ASSUME NEW e, NEW r, Good(e, r), r.pc \in {"call", "expect"}
    PROVE  /\ Good(e, [r EXCEPT !.tee = TRUE, !.data = TRUE, !.negotiated = {}])
           /\ Good(e, [r EXCEPT !.pc = "expect"])
           /\ ~Server(e) => Good(e, [r EXCEPT !.pc = "features"])
<1>1. Good(e, [r EXCEPT !.tee = TRUE, !.data = TRUE, !.negotiated = {}])
  BY DEF Good, Sessions, CacheInv, ChoiceInv, ServerInv
<1>2. Good(e, [r EXCEPT !.pc = "expect"])
  BY DEF Good, Sessions, CacheInv, ChoiceInv, ServerInv
<1>3. ~Server(e) => Good(e, [r EXCEPT !.pc = "features"])
  BY DEF Good, Sessions, CacheInv, ChoiceInv
<1> QED
  BY <1>1, <1>2, <1>3

\* Expect: new addresses.
LEMMA FromGood ==
    ASSUME NEW e, NEW r, Good(e, r), NEW m \in Messages
    PROVE  Good(e, Addressed(r, m)) /\ Addressed(r, m).pc = r.pc
<1>1. /\ r \in Sessions
      /\ Known(r.from, m.from) \in Addresses /\ Known(r.to, m.to) \in Addresses
  BY DEF Good, Sessions, Messages, Known
<1> QED
  BY <1>1 DEF Addressed, Good, Sessions, CacheInv, ChoiceInv, ServerInv

\* writeStreamFeatures: only features with their necessary bits are listed.
LEMMA WriteListGood ==
    ASSUME cfg \in Configs, NEW e, NEW r, Good(e, r), r.pc \notin {"ready", "failed"}
    PROVE  /\ Good(e, WriteList(r, e))
           /\ FeatureList(r, Listed(r, e), TRUE) \in Messages
           /\ Header(r, r.to, r.from) \in Messages
<1> DEFINE q == WriteList(r, e)
           L == Listed(r, e)
<1>1. r \in Sessions
  BY DEF Good
<1>2. L \subseteq FeatureNames /\ \A f \in L : Necessary(f) \subseteq r.bits
  BY FeaturesType DEF Listed, Possible
<1>3. /\ q = [r EXCEPT !.pc = "select", !.cache = L,
                       !.required = {f \in L : ListReq(f)},
                       !.listReq = \E f \in L : ListReq(f)]
      /\ (\E f \in L : ListReq(f)) \in BOOLEAN
  BY DEF WriteList
<1> HIDE DEF q, L
<1>4. /\ q \in Sessions /\ q.pc = "select" /\ q.cache = L
      /\ q.required = {f \in L : ListReq(f)}
      /\ q.listReq = (\E f \in L : ListReq(f))
      /\ q.bits = r.bits /\ q.tls = r.tls
  BY <1>1, <1>2, <1>3 DEF Sessions
<1>5. Good(e, q)
  BY <1>1, <1>2, <1>4 DEF Good, CacheInv, ChoiceInv, ServerInv
<1>6. r.to \in Addresses /\ r.from \in Addresses
  BY <1>1 DEF Sessions
<1> QED
  BY <1>1, <1>2, <1>5, <1>6, ElemType DEF q, L

\* readStreamFeatures: the client caches only features with their bits.
LEMMA ReadListGood ==
    ASSUME cfg \in Configs, NEW e, NEW r, Good(e, r), ~Server(e), NEW m \in Messages
    PROVE  LET q == ReadList(r, e, m)
           IN Good(e, q) /\ Good(e, RequestTLS([q EXCEPT !.required = @ \cup {"starttls"}]))
<1> DEFINE K == m.names \cap Features(e)
           C == {f \in K : Possible(r, f)}
           R == {f \in C : ParseReq(f, m)}
           q == ReadList(r, e, m)
           b == \E f \in K : ParseReq(f, m)
<1>1. r \in Sessions
  BY DEF Good
<1>2. C \subseteq FeatureNames /\ R \subseteq C /\ \A f \in C : Necessary(f) \subseteq r.bits
  BY FeaturesType DEF Possible
<1>3. q = [r EXCEPT !.pc = "select", !.cache = C, !.required = R, !.listReq = b]
      /\ b \in BOOLEAN
  BY DEF ReadList
<1> DEFINE p == RequestTLS([q EXCEPT !.required = @ \cup {"starttls"}])
<1> HIDE DEF q, C, R, b
<1>4. /\ q \in Sessions /\ q.pc = "select" /\ q.cache = C /\ q.required = R
      /\ q.bits = r.bits /\ q.tls = r.tls
  BY <1>1, <1>2, <1>3 DEF Sessions
<1>5. Good(e, q)
  BY <1>1, <1>2, <1>4 DEF Good, CacheInv, ChoiceInv
<1>6. /\ p \in Sessions /\ p.pc = "starttls" /\ p.cache = C
      /\ p.required = R \cup {"starttls"} /\ p.sel = "starttls"
      /\ p.bits = r.bits /\ p.tls = r.tls
  BY <1>1, <1>2, <1>4 DEF Sessions, RequestTLS, FeatureNames
<1> HIDE DEF p
<1>7. Good(e, p)
  BY <1>1, <1>2, <1>6 DEF Good, CacheInv, ChoiceInv
<1> QED
  BY <1>5, <1>7 DEF q, p

\* The session of an end under the invariant, and the sequences it writes.
LEMMA Session ==
    ASSUME Inv, NEW e \in Ends
    PROVE  cfg \in Configs /\ cfg \in ConfigSet /\ Good(e, s[e]) /\ s[e] \in Sessions
BY ConfigAssumption DEF Inv, TypeOK, NegotiationInv

\* Sequences of one or two elements.
LEMMA Written ==
    /\ <<>> \in Seq(Messages)
    /\ \A a \in Messages : <<a>> \in Seq(Messages)
    /\ \A a, b \in Messages : <<a, b>> \in Seq(Messages)
OBVIOUS

\* InsertTee, StartStream and SameStream keep the invariant.
LEMMA CallStep ==
    ASSUME Inv, NEW e \in Ends, InsertTee(e) \/ StartStream(e) \/ SameStream(e)
    PROVE  Inv'
<1>1. CASE InsertTee(e)
  BY <1>1, Session, PlaceGood, GoesStep, Written DEF InsertTee
<1>2. CASE StartStream(e)
  <2>1. (IF Server(e) THEN <<>> ELSE <<Header(s[e], "x", "x")>>) \in Seq(Messages)
    BY Session, ElemType, Written DEF Addresses
  <2> QED
    BY <1>2, <2>1, Session, PlaceGood, GoesStep DEF StartStream, ReadyToTalk
<1>3. CASE SameStream(e) /\ Server(e)
  <2>1. s[e].pc = "call"
    BY <1>3 DEF SameStream, ReadyToTalk
  <2>2. /\ Good(e, WriteList(s[e], e))
        /\ <<FeatureList(s[e], Listed(s[e], e), TRUE)>> \in Seq(Messages)
    BY <2>1, Session, WriteListGood, Written
  <2> QED
    BY <1>3, <2>2, GoesStep DEF SameStream
<1>4. CASE SameStream(e) /\ ~Server(e)
  BY <1>4, Session, PlaceGood, GoesStep, Written DEF SameStream, ReadyToTalk
<1> QED
  BY <1>1, <1>2, <1>3, <1>4

\* Expect keeps the invariant: a stream header read.
LEMMA ExpectStep ==
    ASSUME Inv, NEW e \in Ends, Expect(e)
    PROVE  Inv'
<1>1. cfg \in Configs /\ Good(e, s[e]) /\ Good(e, Fail(s[e]))
  BY Session, FailGood
<1>2. CASE Broken(e, Fail(s[e]))
  BY <1>1, <1>2, BrokenStep
<1>3. CASE \E m \in Incoming(e) :
            IF ~IsHeader(m) THEN Reads(e, Fail(s[e]), <<>>)
            ELSE LET r == Addressed(s[e], m)
                 IN IF ~(SameOrigin(e, m) /\ SameLocation(e, m)) THEN Reads(e, Fail(r), <<>>)
                    ELSE IF Server(e)
                      THEN Reads(e, WriteList(r, e),
                                 <<Header(r, r.to, r.from), FeatureList(r, Listed(r, e), TRUE)>>)
                      ELSE Reads(e, [r EXCEPT !.pc = "features"], <<>>)
  <2>1. PICK m \in Incoming(e) :
            IF ~IsHeader(m) THEN Reads(e, Fail(s[e]), <<>>)
            ELSE LET r == Addressed(s[e], m)
                 IN IF ~(SameOrigin(e, m) /\ SameLocation(e, m)) THEN Reads(e, Fail(r), <<>>)
                    ELSE IF Server(e)
                      THEN Reads(e, WriteList(r, e),
                                 <<Header(r, r.to, r.from), FeatureList(r, Listed(r, e), TRUE)>>)
                      ELSE Reads(e, [r EXCEPT !.pc = "features"], <<>>)
    BY <1>3
  <2> DEFINE r == Addressed(s[e], m)
  <2>2. m \in Messages
    BY IncomingType
  <2>3. Good(e, r) /\ r.pc = "expect"
    BY <1>1, <2>2, FromGood DEF Expect
  <2> HIDE DEF r
  <2>4. /\ Good(e, Fail(r)) /\ Good(e, WriteList(r, e))
        /\ ~Server(e) => Good(e, [r EXCEPT !.pc = "features"])
        /\ <<Header(r, r.to, r.from), FeatureList(r, Listed(r, e), TRUE)>> \in Seq(Messages)
    BY <1>1, <2>3, FailGood, WriteListGood, PlaceGood, Written
  <2>5. \/ Reads(e, Fail(s[e]), <<>>) \/ Reads(e, Fail(r), <<>>)
        \/ Reads(e, WriteList(r, e),
                 <<Header(r, r.to, r.from), FeatureList(r, Listed(r, e), TRUE)>>)
        \/ ~Server(e) /\ Reads(e, [r EXCEPT !.pc = "features"], <<>>)
    BY <2>1 DEF r
  <2> QED
    BY <1>1, <2>4, <2>5, ReadsStep, Written
<1> QED
  BY <1>2, <1>3 DEF Expect

\* ReadFeatures keeps the invariant: a feature list read by a client.
LEMMA ReadFeaturesStep ==
    ASSUME Inv, NEW e \in Ends, ReadFeatures(e)
    PROVE  Inv'
<1>1. /\ cfg \in Configs /\ Good(e, s[e]) /\ Good(e, Fail(s[e]))
      /\ s[e].pc = "features" /\ ~Server(e)
  BY Session, FailGood DEF Good, ServerInv, ReadFeatures
<1>2. CASE Broken(e, Fail(s[e]))
  BY <1>1, <1>2, BrokenStep
<1>3. CASE ~Broken(e, Fail(s[e]))
  <2>1. PICK m \in Incoming(e) :
          LET r == ReadList(s[e], e, m)
          IN \/ Reads(e, Fail(s[e]), <<>>)
             \/ Reads(e, RequestTLS([r EXCEPT !.required = @ \cup {"starttls"}]),
                      <<Elem(r, "starttls")>>)
             \/ Reads(e, Returned(r, {"Ready"}, "nil"), <<>>)
             \/ Reads(e, Fail(r), <<>>)
             \/ Reads(e, r, <<>>)
    BY <1>3 DEF ReadFeatures
  <2> DEFINE r == ReadList(s[e], e, m)
             q == RequestTLS([r EXCEPT !.required = @ \cup {"starttls"}])
  <2>2. m \in Messages
    BY IncomingType
  <2>3. Good(e, r) /\ Good(e, q)
    BY <1>1, <2>2, ReadListGood
  <2>5. \/ Reads(e, Fail(s[e]), <<>>) \/ Reads(e, q, <<Elem(r, "starttls")>>)
        \/ Reads(e, Returned(r, {"Ready"}, "nil"), <<>>)
        \/ Reads(e, Fail(r), <<>>) \/ Reads(e, r, <<>>)
    BY <2>1
  <2> HIDE DEF r, q
  <2>4. /\ Good(e, Fail(r))
        /\ Good(e, Returned(r, {"Ready"}, "nil"))
        /\ <<Elem(r, "starttls")>> \in Seq(Messages)
    <3>1. Good(e, Fail(r))
      BY <2>3, FailGood
    <3>2. Good(e, Returned(r, {"Ready"}, "nil"))
      BY <1>1, <2>3, ReturnedGood DEF Bits
    <3>3. r \in Sessions
      BY <2>3 DEF Good
    <3>4. <<Elem(r, "starttls")>> \in Seq(Messages)
      BY <3>3, ElemType, Written DEF Kinds
    <3> QED
      BY <3>1, <3>2, <3>4
  <2> QED
    BY <1>1, <2>3, <2>4, <2>5, ReadsStep, Written
<1> QED
  BY <1>2, <1>3

\* A session that has chosen a feature it has the bits for.
LEMMA ChosenGood ==
    ASSUME NEW e, NEW r, Good(e, r), r.pc = "select", NEW f \in r.cache,
           NEW k \in Nat
    PROVE  LET q == Chosen(r, f, k) IN
           /\ Good(e, q) /\ q.sel = f /\ q.bits = r.bits /\ q.tls = r.tls
           /\ q.cache = r.cache /\ q.required = r.required
           /\ q.listReq = r.listReq /\ q.pc = "select"
           /\ f = "sasl" => q.tls
           /\ f = "bind" => "Authn" \in q.bits
           /\ f # "none"
<1> DEFINE q == Chosen(r, f, k)
<1>1. r \in Sessions /\ f \in FeatureNames
  BY DEF Good, Sessions
<1>2. /\ q \in Sessions /\ q.sel = f /\ q.bits = r.bits /\ q.tls = r.tls
      /\ q.cache = r.cache /\ q.required = r.required
      /\ q.listReq = r.listReq /\ q.pc = "select"
  BY <1>1 DEF Sessions, Chosen
<1> HIDE DEF q
<1>3. Good(e, q)
  BY <1>2 DEF Good, CacheInv, ChoiceInv, ServerInv
<1>4. Necessary(f) \subseteq r.bits /\ f # "none"
  BY <1>1 DEF Good, CacheInv, FeatureNames
<1>5. f = "sasl" => q.tls
  BY <1>2, <1>4 DEF Good, Necessary, getFeature, newSASL, StreamFeature
<1>6. f = "bind" => "Authn" \in q.bits
  BY <1>2, <1>4 DEF Necessary, getFeature, bind, StreamFeature
<1> QED
  BY <1>2, <1>3, <1>4, <1>5, <1>6 DEF q

\* A session waiting for the answer of a feature it chose.
LEMMA WaitGood ==
    ASSUME NEW e, NEW r, Good(e, r), r.sel # "none",
           NEW l \in {"starttls", "sasl", "bind"},
           l = "sasl" => r.sel = "sasl" /\ r.tls /\ r.sel \in r.cache,
           Server(e) => l = "sasl"
    PROVE  Good(e, [r EXCEPT !.pc = l])
<1> DEFINE q == [r EXCEPT !.pc = l]
<1>1. r \in Sessions
  BY DEF Good
<1>2. /\ q \in Sessions /\ q.sel = r.sel /\ q.bits = r.bits /\ q.tls = r.tls
      /\ q.cache = r.cache /\ q.required = r.required
      /\ q.listReq = r.listReq /\ q.pc = l
  BY <1>1 DEF Sessions
<1> HIDE DEF q
<1>3. Good(e, q)
  BY <1>2 DEF Good, CacheInv, ChoiceInv, ServerInv
<1> QED
  BY <1>3 DEF q

\* ClientSelect keeps the invariant: a feature chosen from the cached list.
LEMMA ClientSelectStep ==
    ASSUME Inv, NEW e \in Ends, ClientSelect(e)
    PROVE  Inv'
<1>1. /\ cfg \in Configs /\ Good(e, s[e]) /\ s[e].pc = "select" /\ ~Server(e)
  BY Session DEF ClientSelect
<1>2. CASE Goes(e, Returned(s[e], {"Ready"}, "nil"), <<>>)
  <2>1. Good(e, Returned(s[e], {"Ready"}, "nil"))
    BY <1>1, ReturnedGood DEF Bits
  <2> QED
    BY <1>2, <2>1, GoesStep, Written
<1>3. ASSUME NEW f \in Candidates(s[e]),
             LET r == Chosen(s[e], f, 1)
             IN \/ f = "starttls" /\ Goes(e, RequestTLS(r), <<Elem(r, "starttls")>>)
                \/ f = "sasl" /\ Goes(e, [r EXCEPT !.pc = "sasl"], <<Elem(r, "auth")>>)
                \/ f = "sasl" /\ cfg.faults /\ Goes(e, NotNegotiated(r), <<>>)
                \/ f = "bind" /\ Goes(e, [r EXCEPT !.pc = "bind"], <<Elem(r, "bindiq")>>)
                \/ f = "ver" /\ Goes(e, Negotiated(r, {}, "nil"), <<>>)
                \/ f = "bidi" /\ Goes(e, Negotiated(r, {}, "nil"), <<Elem(r, "bidi")>>)
      PROVE  Inv'
  <2> DEFINE r == Chosen(s[e], f, 1)
             t == RequestTLS(r)
  <2>1. f \in s[e].cache
    BY <1>3 DEF Candidates
  <2>2. /\ Good(e, r) /\ r.sel = f /\ f # "none" /\ r.cache = s[e].cache
        /\ f = "sasl" => r.tls
    <3>1. 1 \in Nat
      OBVIOUS
    <3> QED
      BY <1>1, <2>1, <3>1, ChosenGood
  <2>3. \/ f = "starttls" /\ Goes(e, t, <<Elem(r, "starttls")>>)
        \/ f = "sasl" /\ Goes(e, [r EXCEPT !.pc = "sasl"], <<Elem(r, "auth")>>)
        \/ Goes(e, NotNegotiated(r), <<>>)
        \/ f = "bind" /\ Goes(e, [r EXCEPT !.pc = "bind"], <<Elem(r, "bindiq")>>)
        \/ Goes(e, Negotiated(r, {}, "nil"), <<>>)
        \/ Goes(e, Negotiated(r, {}, "nil"), <<Elem(r, "bidi")>>)
    BY <1>3
  <2>4. f = "starttls" => t = [r EXCEPT !.pc = "starttls"]
    BY <1>1, <2>2 DEF RequestTLS, Good, Sessions, Chosen
  <2> HIDE DEF r, t
  <2>5. r \in Sessions
    BY <2>2 DEF Good
  <2>6. \A k \in {"starttls", "auth", "bindiq", "bidi"} : <<Elem(r, k)>> \in Seq(Messages)
    BY <2>5, ElemType, Written DEF Kinds
  <2>7. f = "starttls" => Good(e, t)
    <3>1. f = "starttls" => Good(e, [r EXCEPT !.pc = "starttls"])
      BY <1>1, <2>2, WaitGood
    <3> QED
      BY <2>4, <3>1
  <2>8. f = "sasl" => Good(e, [r EXCEPT !.pc = "sasl"])
    BY <1>1, <2>1, <2>2, WaitGood
  <2>9. f = "bind" => Good(e, [r EXCEPT !.pc = "bind"])
    BY <1>1, <2>2, WaitGood
  <2>10. Good(e, NotNegotiated(r))
    BY <2>2, NotNegotiatedGood
  <2>11. Good(e, Negotiated(r, {}, "nil"))
    BY <1>1, <2>2, NegotiatedGood
  <2> QED
    BY <2>3, <2>6, <2>7, <2>8, <2>9, <2>10, <2>11, GoesStep, Written
<1> QED
  BY <1>2, <1>3 DEF ClientSelect

\* TLSAnswer and BindAnswer keep the invariant: the answer to <starttls/> or to the bind
\* IQ.
LEMMA AnswerStep ==
    ASSUME Inv, NEW e \in Ends, TLSAnswer(e) \/ BindAnswer(e)
    PROVE  Inv'
<1>1. /\ Good(e, s[e]) /\ ~Server(e) /\ s[e].sel # "none"
  BY Session DEF TLSAnswer, BindAnswer, Good, ChoiceInv
<1>2. /\ Good(e, NotNegotiated(s[e]))
      /\ Good(e, Negotiated(s[e], {"Secure"}, "tls"))
      /\ Good(e, Negotiated(s[e], {"Ready"}, "nil"))
  BY <1>1, NotNegotiatedGood, NegotiatedGood DEF Bits
<1>3. \/ Broken(e, NotNegotiated(s[e]))
      \/ \E m \in Incoming(e) :
           \/ Reads(e, Negotiated(s[e], {"Secure"}, "tls"), <<>>)
           \/ Reads(e, Negotiated(s[e], {"Ready"}, "nil"), <<>>)
           \/ Reads(e, NotNegotiated(s[e]), <<>>)
  BY DEF TLSAnswer, BindAnswer
<1> QED
  BY <1>2, <1>3, BrokenStep, ReadsStep, Written

\* Another step of the mechanism, on either side.
LEMMA StepGood ==
    ASSUME NEW e, NEW r, Good(e, r), NEW k \in Nat
    PROVE  LET q == [r EXCEPT !.step = k]
           IN /\ Good(e, q) /\ q.sel = r.sel /\ q.tls = r.tls /\ q.bits = r.bits
              /\ q.cache = r.cache /\ q.listReq = r.listReq
<1> DEFINE q == [r EXCEPT !.step = k]
<1>1. r \in Sessions
  BY DEF Good
<1>2. /\ q \in Sessions /\ q.sel = r.sel /\ q.bits = r.bits /\ q.tls = r.tls
      /\ q.cache = r.cache /\ q.required = r.required
      /\ q.listReq = r.listReq /\ q.pc = r.pc
  BY <1>1 DEF Sessions
<1> HIDE DEF q
<1>3. Good(e, q)
  BY <1>2 DEF Good, CacheInv, ChoiceInv, ServerInv
<1> QED
  BY <1>2, <1>3 DEF q

\* ClientSasl keeps the invariant: negotiateClient reads an element.
LEMMA ClientSaslStep ==
    ASSUME Inv, NEW e \in Ends, ClientSasl(e)
    PROVE  Inv'
<1>1. /\ Good(e, s[e]) /\ ~Server(e) /\ s[e].sel = "sasl" /\ s[e].tls
      /\ s[e].step + 1 \in Nat
  BY Session DEF ClientSasl, Good, ChoiceInv, Sessions
<1>2. Good(e, NotNegotiated(s[e]))
  BY <1>1, NotNegotiatedGood
<1> DEFINE r == [s[e] EXCEPT !.step = s[e].step + 1]
<1>3. \/ Broken(e, NotNegotiated(s[e]))
      \/ \E m \in Incoming(e) :
           \/ Reads(e, NotNegotiated(r), <<>>)
           \/ Reads(e, Negotiated(r, {"Authn"}, "conn"), <<>>)
           \/ Reads(e, Negotiated(r, {"Authn"}, "conn"), <<Elem(r, "response")>>)
           \/ Reads(e, r, <<Elem(r, "response")>>)
  BY DEF ClientSasl
<1>4. Good(e, r) /\ r.sel = "sasl" /\ r.tls
  BY <1>1, StepGood
<1> HIDE DEF r
<1>5. /\ Good(e, NotNegotiated(r)) /\ Good(e, Negotiated(r, {"Authn"}, "conn"))
      /\ r \in Sessions
  BY <1>1, <1>4, NotNegotiatedGood, NegotiatedGood DEF Bits, Good
<1>6. <<Elem(r, "response")>> \in Seq(Messages)
  BY <1>5, ElemType, Written DEF Kinds
<1> QED
  BY <1>2, <1>3, <1>4, <1>5, <1>6, BrokenStep, ReadsStep, Written

\* One turn of negotiateServer keeps the invariant, from either place.
LEMMA ServerSaslStep ==
    ASSUME Inv, NEW e \in Ends, Server(e), NEW r, Good(e, r), r.sel = "sasl",
           r.tls, "sasl" \in r.cache, NEW m \in Incoming(e), NEW k,
           ServerSasl(e, r, k)
    PROVE  Inv'
<1> DEFINE j == IF k = "auth" THEN 1 ELSE r.step + 1
           p == [r EXCEPT !.step = j]
           q == [r EXCEPT !.pc = "sasl", !.step = IF k = "auth" THEN 1 ELSE @ + 1]
<1>1. r \in Sessions /\ j \in Nat
  BY DEF Good, Sessions
<1>2. q = [p EXCEPT !.pc = "sasl"]
  BY <1>1 DEF Sessions
<1>3. \/ Reads(e, NotNegotiated(r), <<>>)
      \/ Reads(e, NotNegotiated(r), <<Elem(r, "failure")>>)
      \/ Reads(e, q, <<Elem(q, cfg.challenge)>>)
      \/ Reads(e, Negotiated(q, {"Authn"}, "conn"), <<Elem(q, "success")>>)
  BY DEF ServerSasl
<1> HIDE DEF j
<1>4. /\ Good(e, p) /\ p.sel = "sasl" /\ p.tls /\ p.cache = r.cache
  BY <1>1, StepGood
<1>4a. Good(e, q)
  <2> HIDE DEF p, q
  <2> QED
    BY <1>2, <1>4, WaitGood
<1>4b. q.sel = "sasl" /\ q.tls
  BY <1>1 DEF Sessions
<1> HIDE DEF p, q
<1>5. /\ Good(e, NotNegotiated(r)) /\ Good(e, Negotiated(q, {"Authn"}, "conn"))
  BY <1>4a, <1>4b, NotNegotiatedGood, NegotiatedGood DEF Bits
<1>6. cfg.challenge \in {"challenge", "emptychallenge"} /\ q \in Sessions
  BY Session, <1>4a DEF ConfigSet, Good
<1>7. /\ <<Elem(r, "failure")>> \in Seq(Messages)
      /\ <<Elem(q, cfg.challenge)>> \in Seq(Messages)
      /\ <<Elem(q, "success")>> \in Seq(Messages)
  BY <1>1, <1>6, ElemType, Written DEF Kinds
<1> QED
  BY <1>3, <1>4a, <1>5, <1>7, ReadsStep, Written

\* An element whose rest is left in the stream changes nothing else.
LEMMA InsideGood ==
    ASSUME NEW e, NEW r, Good(e, r)
    PROVE  LET p == Inside(r)
           IN /\ Good(e, p) /\ p.pc = r.pc /\ p.sel = r.sel /\ p.cache = r.cache
              /\ p.bits = r.bits /\ p.tls = r.tls /\ p.from = r.from /\ p.to = r.to
              /\ p.tried = r.tried /\ p.negotiated = r.negotiated /\ p.data = r.data
              /\ p.required = r.required /\ p.listReq = r.listReq
BY ZenonT(30) DEF Inside, Good, Sessions, CacheInv, ChoiceInv, ServerInv

\* ServerSelect keeps the invariant: a client chose a feature of the list.
LEMMA ServerSelectStep ==
    ASSUME Inv, NEW e \in Ends, ServerSelect(e)
    PROVE  Inv'
<1>1. /\ Good(e, s[e]) /\ s[e].pc = "select" /\ Server(e)
      /\ Good(e, Fail(s[e]))
  BY Session, FailGood DEF ServerSelect
<1>2. CASE Broken(e, Fail(s[e]))
  BY <1>1, <1>2, BrokenStep
<1>2a. CASE Goes(e, Fail(s[e]), <<>>)
  BY <1>1, <1>2a, GoesStep, Written
<1>3. CASE ~Broken(e, Fail(s[e])) /\ ~Goes(e, Fail(s[e]), <<>>)
  <2>1. PICK m \in Incoming(e) :
            LET f == Selects(m.kind)
                r == Chosen(s[e], f, 0)
            IN \/ ~Allowed(r, f) /\ Reads(e, Fail(s[e]), <<>>)
               \/ Allowed(r, f) /\ f = "starttls" /\ ServerStartTLS(e, r)
               \/ Allowed(r, f) /\ f = "sasl" /\ ServerSasl(e, r, m.kind)
               \/ Allowed(r, f) /\ f = "bind" /\ ServerBind(e, r)
               \/ Allowed(r, f) /\ ServerNothing(e, r)
    BY <1>3 DEF ServerSelect
  <2> DEFINE f == Selects(m.kind)
             r == Chosen(s[e], f, 0)
  <2>2. CASE ~Allowed(r, f)
    BY <1>1, <2>1, <2>2, ReadsStep, Written
  <2>3. CASE Allowed(r, f)
    <3>1. f \in s[e].cache
      <4>1. r.cache = s[e].cache
        BY <1>1 DEF Good, Sessions, Chosen
      <4> QED
        BY <2>3, <4>1 DEF Allowed
    <3>2. /\ Good(e, r) /\ r.sel = f /\ f # "none" /\ r.cache = s[e].cache
          /\ f = "sasl" => r.tls
          /\ f = "bind" => "Authn" \in r.bits
      <4>1. 0 \in Nat
        OBVIOUS
      <4> HIDE DEF f
      <4> QED
        BY <1>1, <3>1, <4>1, ChosenGood
    <3>3. f = "starttls" => r.listReq
      BY <1>1, <3>1, <3>2 DEF Good, ServerInv, ListReq, getFeature, StartTLS, StreamFeature
    <3>4. \/ f = "starttls" /\ Reads(e, Negotiated(r, {"Secure"}, "tls"),
                                     <<Elem(r, "proceed")>>)
          \/ f = "sasl" /\ ServerSasl(e, r, m.kind)
          \/ f = "bind" /\ Reads(e, Negotiated(r, {"Ready"}, "nil"),
                                 <<Elem(r, "bindresult")>>)
          \/ Reads(e, NotNegotiated(r), <<>>)
          \/ Reads(e, Negotiated(Inside(r), {}, "nil"), <<>>)
      BY <2>1, <2>3 DEF ServerStartTLS, ServerBind, ServerNothing
    <3> HIDE DEF f, r
    <3>5. f = "starttls" => Good(e, Negotiated(r, {"Secure"}, "tls"))
      BY <3>2, <3>3, NegotiatedGood DEF Bits
    <3>6. f = "bind" => Good(e, Negotiated(r, {"Ready"}, "nil"))
      BY <3>2, NegotiatedGood DEF Bits
    <3>7. Good(e, Negotiated(Inside(r), {}, "nil")) /\ Good(e, NotNegotiated(r))
      BY <3>2, InsideGood, NegotiatedGood, NotNegotiatedGood
    <3>8. r \in Sessions
      BY <3>2 DEF Good
    <3>9. <<Elem(r, "proceed")>> \in Seq(Messages) /\ <<Elem(r, "bindresult")>> \in Seq(Messages)
      BY <3>8, ElemType, Written DEF Kinds
    <3>10. CASE f = "sasl" /\ ServerSasl(e, r, m.kind)
      BY <1>1, <3>1, <3>2, <3>10, ServerSaslStep
    <3> QED
      BY <3>4, <3>5, <3>6, <3>7, <3>9, <3>10, ReadsStep, Written
  <2> QED
    BY <2>2, <2>3
<1> QED
  BY <1>2, <1>2a, <1>3

\* ServerSaslNext keeps the invariant: a response from the client.
LEMMA ServerSaslNextStep ==
    ASSUME Inv, NEW e \in Ends, ServerSaslNext(e)
    PROVE  Inv'
<1>1. /\ Good(e, s[e]) /\ Server(e) /\ s[e].sel = "sasl" /\ s[e].tls
      /\ "sasl" \in s[e].cache
  BY Session DEF ServerSaslNext, Good, ChoiceInv, ServerInv
<1>2. Good(e, NotNegotiated(s[e]))
  BY <1>1, NotNegotiatedGood
<1>3. CASE Broken(e, NotNegotiated(s[e]))
  BY <1>2, <1>3, BrokenStep
<1>4. CASE \E m \in Incoming(e) : ServerSasl(e, s[e], m.kind)
  BY <1>1, <1>4, ServerSaslStep
<1> QED
  BY <1>3, <1>4 DEF ServerSaslNext

----------------------------------------------------------------------------
(* The theorems.                                                           *)

\* The negotiation starts with good sessions (negotiateSession).
LEMMA InitInv == Init => Inv
<1> SUFFICES ASSUME Init PROVE Inv
  OBVIOUS
<1>1. cfg \in Configs /\ cfg \in ConfigSet
  BY ConfigAssumption DEF Init
<1>2. cfg.secured \in BOOLEAN
  BY <1>1 DEF ConfigSet
<1>3. \A e \in Ends : Good(e, s[e])
  <2> TAKE e \in Ends
  <2>1. /\ s[e].pc = "call" /\ s[e].bits = IF cfg.secured THEN {"Secure"} ELSE {}
        /\ s[e].tls = cfg.secured /\ s[e].cache = {} /\ s[e].required = {}
    BY DEF Init
  <2>2. s[e] \in Sessions
    BY <1>2 DEF Init, Sessions, Bits, Addresses
  <2> QED
    BY <1>2, <2>1, <2>2 DEF Good, CacheInv, ChoiceInv, ServerInv
<1>4. s \in [Ends -> Sessions]
  <2>1. s = [e \in Ends |-> s[e]]
    BY DEF Init
  <2>2. \A e \in Ends : s[e] \in Sessions
    BY <1>3 DEF Good
  <2> QED
    BY <2>1, <2>2
<1>5. chan \in [Ends -> Seq(Messages)] /\ reads \in [Ends -> 0 .. MaxReads]
  BY BoundAssumption DEF Init
<1>6. \A e \in Ends : s[e].required \subseteq s[e].cache \cup {"starttls"}
  BY <1>3 DEF Good
<1> QED
  BY <1>1, <1>3, <1>4, <1>5, <1>6 DEF Inv, TypeOK, NegotiationInv

\* No step of either end, whatever its peer sends, breaks the invariant.
LEMMA NextInv == Inv /\ [Next]_vars => Inv'
<1> SUFFICES ASSUME Inv, [Next]_vars PROVE Inv'
  OBVIOUS
<1>1. CASE UNCHANGED vars
  BY <1>1 DEF vars, Inv, TypeOK, NegotiationInv
<1>2. CASE Next
  <2>0. cfg.ends \subseteq Ends
    BY ConfigAssumption DEF Inv, TypeOK, ConfigSet
  <2>1. PICK e \in Ends : EndStep(e)
    BY <1>2, <2>0 DEF Next
  <2> QED
    BY <2>1, CallStep, ExpectStep, ReadFeaturesStep, ClientSelectStep,
       AnswerStep, ClientSaslStep, ServerSelectStep, ServerSaslNextStep
       DEF EndStep
<1> QED
  BY <1>1, <1>2

\* The invariant holds throughout a negotiation.
LEMMA AlwaysInv == Spec => []Inv
BY InitInv, NextInv, PTL DEF Spec

\* Every variable of the negotiation keeps its type.
THEOREM NegotiationTypeCorrect == Spec => []TypeOK
<1>1. Inv => TypeOK
  BY DEF Inv
<1> QED
  BY AlwaysInv, <1>1, PTL

\* For every configuration and peer: the Secure bit of Session.State means
\* TLS and SASL runs only over TLS (Necessary and Prohibited of StartTLS and
\* SASL, as negotiateFeatures applies them).
THEOREM AuthOnlyOverTLS == Spec => []SecureIsTLS
<1>1. Inv => SecureIsTLS
  BY DEF Inv, NegotiationInv, Good, ChoiceInv, SecureIsTLS
<1> QED
  BY AlwaysInv, <1>1, PTL

\* For every configuration and whatever a client sends: a received session
\* that is ready is secured and authenticated.
THEOREM ReadyOnlyAuthenticated == Spec => []ServerAuthenticates
<1>1. Inv => ServerAuthenticates
  <2> SUFFICES ASSUME Inv, NEW e \in Ends, Server(e), s[e].pc = "ready"
               PROVE  Bits \subseteq s[e].bits
    BY DEF ServerAuthenticates
  <2>1. Good(e, s[e])
    BY DEF Inv, NegotiationInv
  <2> QED
    BY <2>1 DEF Good, ServerInv, Bits
<1> QED
  BY AlwaysInv, <1>1, PTL

----------------------------------------------------------------------------
(* The origin, StartTLS and restarts.  Three more facts about one end's    *)
(* session, kept together because every action has to be gone through for  *)
(* each of them.                                                           *)

\* A client without a tee that has StartTLS among its features, until it
\* fails: it is on TLS, has tried it, or still has its first list before it,
\* with StartTLS among what it can choose once that list is read.
TlsInv(e, r) ==
    ~Server(e) /\ "starttls" \in cfg.client /\ r.pc # "failed" =>
        /\ r.negotiated \subseteq r.tried
        /\ r.pc = "starttls" => r.sel = "starttls"
        /\ r.pc = "bind" => r.tls
        /\ \/ r.tls \/ "starttls" \in r.tried
           \/ /\ ~r.data /\ r.pc # "ready"
              /\ r.pc = "select" => "starttls" \in r.cache

\* An end that is ready needs no restart: the features that restart the
\* stream or end the negotiation are required ones, on a list that says so,
\* and a client that asks for StartTLS unasked asks in vain.
Needed == {"starttls", "sasl", "bind"}
DoneInv(e, r) ==
    r.pc # "failed" =>
        /\ "Ready" \in r.bits => r.pc = "ready"
        /\ r.pc = "ready" => ~r.doRestart
        /\ r.pc \in {"select", "starttls", "sasl", "bind"} =>
             /\ r.cache \cap Needed \subseteq r.required
             /\ r.cache \cap Needed # {} => r.listReq
        /\ r.pc = "starttls" =>
             r.sel = "starttls" /\ ("starttls" \in r.cache \/ "starttls" \notin cfg.server)
        /\ r.pc \in {"sasl", "bind"} => r.sel = r.pc /\ r.sel \in r.cache
        /\ Server(e) => r.cache \subseteq cfg.server

\* What the server of this package sends to its client: lists that mark
\* StartTLS as required and have it while it can be negotiated, and an answer
\* to <starttls/> only if it knows the feature.
Lists(m) ==
    /\ m.kind = "features" =>
         m.required /\ ("starttls" \in cfg.server /\ ~m.tls => "starttls" \in m.names)
    /\ m.kind = "proceed" => "starttls" \in cfg.server
ListInv == \A i \in DOMAIN chan["client"] : Lists(chan["client"][i])

\* End e goes from r to q without losing any of them.  A client needs a
\* server of this package for the second.
Paired(e) == Server(e) \/ ("server" \in cfg.ends /\ ListInv)
Kept(e, r, q) ==
    /\ \/ q.pc = "failed"
       \/ (r.from = "none" \/ q.from = r.from) /\ (r.to = "none" \/ q.to = r.to)
    /\ TlsInv(e, r) /\ e \notin cfg.tee => TlsInv(e, q)
    /\ DoneInv(e, r) /\ Paired(e) => DoneInv(e, q)

\* A failed negotiation is none any more.
LEMMA FailKept ==
    ASSUME NEW e, NEW r, NEW q, q.pc = "failed"
    PROVE  Kept(e, r, q)
BY DEF Kept, TlsInv, DoneInv

\* The other fields after negotiateSession took over the negotiator's results.
LEMMA ReturnedRest ==
    ASSUME NEW r \in Sessions, NEW mask, NEW rw
    PROVE  LET q == Returned(r, mask, rw)
           IN /\ q.data = TRUE /\ q.doRestart = (rw # "nil")
              /\ q.negotiated \subseteq r.negotiated /\ q.tried = r.tried
              /\ q.from = r.from /\ q.to = r.to
BY DEF Returned, Sessions

\* The same for a negotiation that is over without another feature.
LEMMA ReadyFields ==
    ASSUME NEW r \in Sessions
    PROVE  LET q == Returned(r, {"Ready"}, "nil")
           IN /\ q.tls = r.tls /\ q.pc = "ready" /\ ~q.doRestart
              /\ q.negotiated = r.negotiated /\ q.tried = r.tried /\ q.from = r.from /\ q.to = r.to
BY DEF Returned, Sessions

\* The fields of a session after a feature was negotiated ...
LEMMA NegotiatedFields ==
    ASSUME NEW r \in Sessions, NEW mask \in SUBSET Bits,
           NEW rw \in {"nil", "conn", "tls"}, r.sel # "none"
    PROVE  LET q == Negotiated(r, mask, rw)
           IN /\ q.from = r.from /\ q.to = r.to /\ q.tried = r.tried \cup {r.sel}
              /\ q.negotiated \subseteq r.negotiated \cup {r.sel}
              /\ q.tls = (r.tls \/ rw = "tls")
              /\ q.cache = r.cache /\ q.required = r.required
              /\ q.listReq = r.listReq /\ q.sel = r.sel
              /\ \/ /\ rw = "nil" /\ r.sel \notin r.required
                    /\ q.pc = "select" /\ q.data = r.data
                    /\ q.bits = r.bits \cup mask
                 \/ /\ q.pc = IF "Ready" \in q.bits THEN "ready" ELSE "call"
                    /\ q.bits = r.bits \cup mask \cup (IF r.listReq THEN {} ELSE {"Ready"})
                    /\ q.doRestart = (rw # "nil")
<1> DEFINE p == [r EXCEPT !.bits = @ \cup mask, !.negotiated = @ \cup {r.sel},
                          !.tried = @ \cup {r.sel}]
           m == mask \cup (IF r.listReq THEN {} ELSE {"Ready"})
           q == Negotiated(r, mask, rw)
<1>1. /\ p \in Sessions /\ p.bits = r.bits \cup mask /\ p.tls = r.tls
      /\ p.cache = r.cache /\ p.required = r.required /\ p.pc = r.pc
      /\ p.listReq = r.listReq /\ p.sel = r.sel
      /\ p.negotiated = r.negotiated \cup {r.sel} /\ p.tried = r.tried \cup {r.sel}
      /\ p.from = r.from /\ p.to = r.to /\ p.data = r.data
  BY DEF Sessions, Bits
<1>2. m \in SUBSET Bits
  BY DEF Bits
<1>3. q = IF rw = "nil" /\ r.sel \notin r.required
            THEN [p EXCEPT !.pc = "select"] ELSE Returned(p, m, rw)
  BY DEF Negotiated
<1> HIDE DEF p, m, q
<1>4. CASE rw = "nil" /\ r.sel \notin r.required
  <2>1. q = [p EXCEPT !.pc = "select"]
    BY <1>3, <1>4
  <2>2. /\ q.bits = p.bits /\ q.tls = p.tls /\ q.cache = p.cache
        /\ q.required = p.required /\ q.pc = "select" /\ q.listReq = p.listReq
        /\ q.sel = p.sel /\ q.negotiated = p.negotiated /\ q.tried = p.tried
        /\ q.from = p.from /\ q.to = p.to /\ q.data = p.data
    BY <1>1, <2>1 DEF Sessions
  <2>3. q.tls = (r.tls \/ rw = "tls")
    BY <1>1, <1>4, <2>2 DEF Sessions
  <2> QED
    BY <1>1, <1>4, <2>2, <2>3 DEF q
<1>5. CASE ~(rw = "nil" /\ r.sel \notin r.required)
  <2>1. q = Returned(p, m, rw)
    BY <1>3, <1>5
  <2>2. /\ q.bits = p.bits \cup m
        /\ q.tls = (p.tls \/ rw = "tls")
        /\ q.pc = IF "Ready" \in p.bits \cup m THEN "ready" ELSE "call"
        /\ q.cache = p.cache /\ q.required = p.required
        /\ q.listReq = p.listReq /\ q.sel = p.sel
    <3> DEFINE t == Returned(p, m, rw)
    <3>0. p \in Sessions /\ m \in SUBSET Bits
      BY <1>1, <1>2
    <3>1. /\ t.bits = p.bits \cup m
          /\ t.tls = (p.tls \/ rw = "tls")
          /\ t.pc = IF "Ready" \in p.bits \cup m THEN "ready" ELSE "call"
          /\ t.cache = p.cache /\ t.required = p.required
          /\ t.listReq = p.listReq /\ t.sel = p.sel
      BY <3>0, ReturnedFields
    <3> HIDE DEF t
    <3>2. q = t
      BY <2>1 DEF t
    <3> QED
      BY <3>1, <3>2
  <2>3. /\ q.data = TRUE /\ q.doRestart = (rw # "nil")
        /\ q.negotiated \subseteq p.negotiated /\ q.tried = p.tried
        /\ q.from = p.from /\ q.to = p.to
    BY <1>1, <2>1, ReturnedRest
  <2>4. q.bits = r.bits \cup mask \cup (IF r.listReq THEN {} ELSE {"Ready"})
    BY <1>1, <2>2 DEF m
  <2> QED
    BY <1>1, <2>2, <2>3, <2>4 DEF q
<1> QED
  BY <1>4, <1>5

\* ... and after one failed.
LEMMA NotNegotiatedFields ==
    ASSUME NEW r \in Sessions, r.sel # "none"
    PROVE  LET q == NotNegotiated(r)
           IN /\ q.from = r.from /\ q.to = r.to /\ q.tried = r.tried \cup {r.sel}
              /\ q.negotiated = r.negotiated \cup {r.sel}
              /\ q.tls = r.tls /\ q.bits = r.bits /\ q.data = r.data
              /\ q.cache = r.cache /\ q.required = r.required
              /\ q.listReq = r.listReq /\ q.sel = r.sel
              /\ q.pc = IF r.sel \in r.required THEN "failed" ELSE "select"
BY DEF NotNegotiated, Fail, Sessions

\* What a feature's end needs for that: only StartTLS is negotiated without
\* TLS, and a feature that restarts the stream is on a list that requires
\* something.
LEMMA FeatureKept ==
    ASSUME NEW e \in Ends, NEW r, NEW p, Good(e, r), Good(e, p), p.sel # "none",
           p.from = r.from /\ p.to = r.to, p.tried = r.tried, p.negotiated = r.negotiated,
           p.tls = r.tls, p.bits = r.bits, p.data = r.data, p.cache = r.cache,
           p.required = r.required, p.listReq = r.listReq,
           r.pc \in {"select", "starttls", "sasl", "bind"},
           TlsInv(e, r) /\ ~Server(e) /\ "starttls" \in cfg.client
             => p.sel = "starttls" \/ p.tls
    PROVE  /\ Kept(e, r, NotNegotiated(p))
           /\ \A mask \in SUBSET Bits, rw \in {"nil", "conn", "tls"} :
                /\ rw = "nil" /\ "Ready" \in mask => p.sel \in p.required \/ ~DoneInv(e, r)
                /\ rw # "nil" => "Ready" \notin mask
                /\ rw # "nil" /\ DoneInv(e, r) /\ Paired(e) => p.listReq
                => Kept(e, r, Negotiated(p, mask, rw))
<1>1. p \in Sessions /\ r \in Sessions
  BY DEF Good
<1>2. Kept(e, r, NotNegotiated(p))
  <2> DEFINE q == NotNegotiated(p)
  <2>1. /\ q.from = p.from /\ q.to = p.to /\ q.tried = p.tried \cup {p.sel}
        /\ q.negotiated = p.negotiated \cup {p.sel}
        /\ q.tls = p.tls /\ q.bits = p.bits /\ q.data = p.data
        /\ q.cache = p.cache /\ q.required = p.required
        /\ q.listReq = p.listReq /\ q.sel = p.sel
        /\ q.pc = IF p.sel \in p.required THEN "failed" ELSE "select"
    BY <1>1, NotNegotiatedFields
  <2> HIDE DEF q
  <2>2. TlsInv(e, r) => TlsInv(e, q)
    BY <2>1 DEF TlsInv
  <2>3. DoneInv(e, r) => DoneInv(e, q)
    BY <2>1 DEF DoneInv
  <2> QED
    BY <2>1, <2>2, <2>3 DEF Kept, q
<1>3. ASSUME NEW mask \in SUBSET Bits, NEW rw \in {"nil", "conn", "tls"},
             rw = "nil" /\ "Ready" \in mask => p.sel \in p.required \/ ~DoneInv(e, r),
             rw # "nil" => "Ready" \notin mask,
             rw # "nil" /\ DoneInv(e, r) /\ Paired(e) => p.listReq
      PROVE  Kept(e, r, Negotiated(p, mask, rw))
  <2> DEFINE q == Negotiated(p, mask, rw)
  <2>1. /\ q.from = p.from /\ q.to = p.to /\ q.tried = p.tried \cup {p.sel}
        /\ q.negotiated \subseteq p.negotiated \cup {p.sel}
        /\ q.tls = (p.tls \/ rw = "tls")
        /\ q.cache = p.cache /\ q.required = p.required
        /\ q.listReq = p.listReq /\ q.sel = p.sel
        /\ \/ /\ rw = "nil" /\ p.sel \notin p.required
              /\ q.pc = "select" /\ q.data = p.data
              /\ q.bits = p.bits \cup mask
           \/ /\ q.pc = IF "Ready" \in q.bits THEN "ready" ELSE "call"
              /\ q.bits = p.bits \cup mask \cup (IF p.listReq THEN {} ELSE {"Ready"})
              /\ q.doRestart = (rw # "nil")
    BY <1>1, NegotiatedFields
  <2> HIDE DEF q
  <2>2. TlsInv(e, r) => TlsInv(e, q)
    BY <1>1, <2>1 DEF TlsInv, Sessions
  <2>3. DoneInv(e, r) /\ Paired(e) => DoneInv(e, q)
    BY <1>3, <2>1 DEF DoneInv
  <2> QED
    BY <2>1, <2>2, <2>3 DEF Kept, q
<1> QED
  BY <1>2, <1>3

\* A step of an end moves that end and nothing else of the sessions.
LEMMA Moved ==
    ASSUME Inv, NEW e \in Ends, NEW r, NEW ms,
           Goes(e, r, ms) \/ Reads(e, r, ms) \/ Broken(e, r)
    PROVE  /\ cfg' = cfg /\ s'[e] = r
           /\ \A x \in Ends : x # e => s'[x] = s[x]
BY DEF Goes, Reads, Broken, Inv, TypeOK

\* The features that restart the stream or end the negotiation are listed as
\* required, and parsed as such unless the list says otherwise of StartTLS.
LEMMA NeededRequired ==
    ASSUME NEW f \in Needed, NEW m
    PROVE  ListReq(f) /\ (m.required \/ f # "starttls" => ParseReq(f, m))
BY DEF Needed, ListReq, ParseReq, getFeature, StartTLS, newSASL, bind, StreamFeature

\* InsertTee, StartStream and SameStream.
LEMMA CallKept ==
    ASSUME Inv, NEW e \in Ends, InsertTee(e) \/ StartStream(e) \/ SameStream(e)
    PROVE  Kept(e, s[e], s'[e])
<1>1. s[e] \in Sessions /\ s[e].pc = "call"
  BY Session DEF InsertTee, StartStream, SameStream, ReadyToTalk
<1>2. CASE InsertTee(e)
  <2> DEFINE q == [s[e] EXCEPT !.tee = TRUE, !.data = TRUE, !.negotiated = {}]
  <2>1. s'[e] = q /\ e \in cfg.tee
    BY <1>2, Moved DEF InsertTee
  <2>2. q.pc = s[e].pc /\ q.bits = s[e].bits /\ q.cache = s[e].cache
        /\ q.from = s[e].from /\ q.to = s[e].to
    BY <1>1 DEF Sessions
  <2> HIDE DEF q
  <2> QED
    BY <1>1, <2>1, <2>2 DEF Kept, DoneInv
<1>3. CASE StartStream(e)
  <2> DEFINE q == [s[e] EXCEPT !.pc = "expect"]
  <2>1. s'[e] = q
    BY <1>3, Moved DEF StartStream
  <2>2. /\ q.pc = "expect" /\ q.bits = s[e].bits /\ q.cache = s[e].cache
        /\ q.from = s[e].from /\ q.to = s[e].to
        /\ q.negotiated = s[e].negotiated /\ q.tried = s[e].tried
        /\ q.tls = s[e].tls /\ q.data = s[e].data
    BY <1>1 DEF Sessions
  <2> HIDE DEF q
  <2> QED
    BY <1>1, <2>1, <2>2 DEF Kept, DoneInv, TlsInv
<1>4. CASE SameStream(e) /\ ~Server(e)
  <2> DEFINE q == [s[e] EXCEPT !.pc = "features"]
  <2>1. s'[e] = q
    BY <1>4, Moved DEF SameStream
  <2>2. /\ q.pc = "features" /\ q.bits = s[e].bits /\ q.from = s[e].from /\ q.to = s[e].to
        /\ q.negotiated = s[e].negotiated /\ q.tried = s[e].tried
        /\ q.tls = s[e].tls /\ q.data = s[e].data
    BY <1>1 DEF Sessions
  <2> HIDE DEF q
  <2> QED
    BY <1>1, <1>4, <2>1, <2>2 DEF Kept, DoneInv, TlsInv
<1>5. CASE SameStream(e) /\ Server(e)
  <2> DEFINE q == WriteList(s[e], e)
             L == Listed(s[e], e)
  <2>1. s'[e] = q
    BY <1>5, Moved DEF SameStream
  <2>2. /\ q.pc = "select" /\ q.bits = s[e].bits /\ q.from = s[e].from /\ q.to = s[e].to
        /\ q.cache = L /\ q.required = {f \in L : ListReq(f)}
        /\ q.listReq = \E f \in L : ListReq(f)
    BY <1>1 DEF Sessions, WriteList
  <2>4. L \subseteq cfg.server
    BY <1>5 DEF Listed, Features
  <2> HIDE DEF q, L
  <2>3. \A f \in Needed : ListReq(f)
    BY NeededRequired
  <2> QED
    BY <1>1, <1>5, <2>1, <2>2, <2>3, <2>4 DEF Kept, DoneInv, TlsInv
<1> QED
  BY <1>2, <1>3, <1>4, <1>5

\* Expect: the origin of an end that has one stays, or the negotiation fails.
LEMMA ExpectKept ==
    ASSUME Inv, NEW e \in Ends, Expect(e)
    PROVE  Kept(e, s[e], s'[e])
<1>1. s[e] \in Sessions /\ s[e].pc = "expect"
  BY Session DEF Expect
<1>2. CASE s'[e].pc = "failed"
  BY <1>2, FailKept
<1>3. CASE s'[e].pc # "failed"
  <2>1. \A q : q.pc = "failed" => s'[e] # q
    BY <1>3
  <2>2. Fail(s[e]).pc = "failed"
    BY <1>1 DEF Fail, Sessions
  <2>3. PICK m \in Incoming(e) :
            LET r == Addressed(s[e], m)
            IN IF ~(SameOrigin(e, m) /\ SameLocation(e, m)) THEN Reads(e, Fail(r), <<>>)
               ELSE IF Server(e)
                 THEN Reads(e, WriteList(r, e),
                            <<Header(r, r.to, r.from), FeatureList(r, Listed(r, e), TRUE)>>)
                 ELSE Reads(e, [r EXCEPT !.pc = "features"], <<>>)
    BY <2>1, <2>2, Moved DEF Expect
  <2> DEFINE r == Addressed(s[e], m)
  <2>4. r \in Sessions
    <3>1. m \in Messages /\ Good(e, s[e])
      BY <2>3, IncomingType, Session
    <3> QED
      BY <3>1, FromGood DEF Good
  <2>5. /\ r.pc = s[e].pc /\ r.bits = s[e].bits /\ r.tls = s[e].tls
        /\ r.negotiated = s[e].negotiated /\ r.tried = s[e].tried
        /\ r.data = s[e].data /\ r.from = Known(s[e].from, m.from)
        /\ r.to = Known(s[e].to, m.to)
    BY <1>1 DEF Sessions, Addressed
  <2>6. \/ ~(SameOrigin(e, m) /\ SameLocation(e, m)) /\ Reads(e, Fail(r), <<>>)
        \/ SameOrigin(e, m) /\ SameLocation(e, m) /\ Server(e)
             /\ Reads(e, WriteList(r, e),
                      <<Header(r, r.to, r.from), FeatureList(r, Listed(r, e), TRUE)>>)
        \/ SameOrigin(e, m) /\ SameLocation(e, m) /\ ~Server(e) /\ Reads(e, [r EXCEPT !.pc = "features"], <<>>)
    BY <2>3
  <2> HIDE DEF r
  <2>7. Fail(r).pc = "failed"
    BY <2>4 DEF Fail, Sessions
  <2>8. SameOrigin(e, m) /\ SameLocation(e, m)
    BY <2>1, <2>6, <2>7, Moved
  <2>9. /\ s[e].from = "none" \/ r.from = s[e].from
        /\ s[e].to = "none" \/ r.to = s[e].to
    BY <2>5, <2>8 DEF SameOrigin, SameLocation
  <2>10. CASE Server(e)
    <3> DEFINE q == WriteList(r, e)
               L == Listed(r, e)
    <3>1. s'[e] = q
      BY <2>6, <2>8, <2>10, Moved
    <3>2. /\ q.pc = "select" /\ q.bits = r.bits /\ q.from = r.from /\ q.to = r.to
          /\ q.cache = L /\ q.required = {f \in L : ListReq(f)}
          /\ q.listReq = \E f \in L : ListReq(f)
      BY <2>4 DEF Sessions, WriteList
    <3>4. L \subseteq cfg.server
      BY <2>10 DEF Listed, Features
    <3> HIDE DEF q, L
    <3>3. \A f \in Needed : ListReq(f)
      BY NeededRequired
    <3> QED
      BY <1>1, <2>5, <2>9, <2>10, <3>1, <3>2, <3>3, <3>4 DEF Kept, DoneInv, TlsInv
  <2>11. CASE ~Server(e)
    <3> DEFINE q == [r EXCEPT !.pc = "features"]
    <3>1. s'[e] = q
      BY <2>6, <2>8, <2>11, Moved
    <3>2. /\ q.pc = "features" /\ q.bits = r.bits /\ q.from = r.from /\ q.to = r.to
          /\ q.negotiated = r.negotiated /\ q.tried = r.tried
          /\ q.tls = r.tls /\ q.data = r.data
      BY <2>4 DEF Sessions
    <3> HIDE DEF q
    <3> QED
      BY <1>1, <2>5, <2>9, <2>11, <3>1, <3>2 DEF Kept, DoneInv, TlsInv
  <2> QED
    BY <2>10, <2>11
<1> QED
  BY <1>2, <1>3

\* What a client gets from a server of this package.
LEMMA PairedRead ==
    ASSUME Inv, NEW e \in Ends, ~Server(e), Paired(e), NEW m \in Incoming(e)
    PROVE  Lists(m) /\ m.tls = s[e].tls
<1>1. e = "client" /\ Peer(e) = "server" /\ "server" \in cfg.ends
  BY DEF Ends, Server, Peer, Paired
<1> QED
  BY <1>1 DEF Incoming, Paired, ListInv, Server

\* ReadFeatures: on its first list a client finds StartTLS or asks for it.
LEMMA ReadFeaturesKept ==
    ASSUME Inv, NEW e \in Ends, ReadFeatures(e)
    PROVE  Kept(e, s[e], s'[e])
<1>1. /\ s[e] \in Sessions /\ Good(e, s[e]) /\ s[e].pc = "features" /\ ~Server(e)
      /\ Features(e) = cfg.client
  BY Session DEF Good, ServerInv, ReadFeatures, Features
<1>2. CASE s'[e].pc = "failed"
  BY <1>2, FailKept
<1>3. CASE s'[e].pc # "failed"
  <2>1. \A q : q.pc = "failed" => s'[e] # q
    BY <1>3
  <2>2. Fail(s[e]).pc = "failed"
    BY <1>1 DEF Fail, Sessions
  <2>3. PICK m \in Incoming(e) :
          /\ m.kind = "features"
          /\ LET r == ReadList(s[e], e, m)
             IN IF ForceTLS(r, e)
                  THEN Reads(e, RequestTLS([r EXCEPT !.required = @ \cup {"starttls"}]),
                             <<Elem(r, "starttls")>>)
                ELSE IF m.names = {} THEN Reads(e, Returned(r, {"Ready"}, "nil"), <<>>)
                ELSE IF r.cache = {} THEN Reads(e, Fail(r), <<>>)
                ELSE Reads(e, r, <<>>)
    BY <2>1, <2>2, Moved DEF ReadFeatures
  <2> DEFINE K == m.names \cap Features(e)
             C == {f \in K : Possible(s[e], f)}
             R == {f \in C : ParseReq(f, m)}
             b == \E f \in K : ParseReq(f, m)
             r == ReadList(s[e], e, m)
  <2>4. /\ r.pc = "select" /\ r.cache = C /\ r.required = R /\ r.listReq = b
        /\ r.bits = s[e].bits /\ r.from = s[e].from /\ r.to = s[e].to /\ r.tls = s[e].tls
        /\ r.negotiated = s[e].negotiated /\ r.tried = s[e].tried
        /\ r.data = s[e].data
    BY <1>1 DEF Sessions, ReadList
  <2>5. r \in Sessions
    <3>1. m \in Messages /\ cfg \in Configs
      BY <2>3, IncomingType, Session
    <3> QED
      BY <1>1, <3>1, ReadListGood DEF Good
  <2>6. Paired(e) => \A f \in C \cap Needed : f \in R /\ b
    <3>1. Paired(e) => m.required
      BY <1>1, <2>3, PairedRead DEF Lists
    <3>2. Paired(e) => \A f \in C \cap Needed : ParseReq(f, m)
      BY <3>1, NeededRequired
    <3> QED
      BY <3>2
  <2>7. \/ /\ ForceTLS(r, e)
           /\ s'[e] = RequestTLS([r EXCEPT !.required = @ \cup {"starttls"}])
        \/ ~ForceTLS(r, e) /\ m.names = {} /\ s'[e] = Returned(r, {"Ready"}, "nil")
        \/ ~ForceTLS(r, e) /\ s'[e] = r
    <3>1. Fail(r).pc = "failed"
      BY <2>5 DEF Fail, Sessions
    <3> QED
      BY <2>1, <2>3, <3>1, Moved
  <2>8. ForceTLS(r, e) = (/\ ~r.data /\ "starttls" \in cfg.client
                          /\ "starttls" \notin r.cache /\ "Secure" \notin r.bits)
    BY <1>1 DEF ForceTLS
  <2>9. ("Secure" \in s[e].bits) = s[e].tls
    BY <1>1 DEF Good
  <2>10. ASSUME ForceTLS(r, e), Paired(e)
         PROVE  "starttls" \notin cfg.server
    <3>1. "starttls" \in cfg.server => "starttls" \in m.names
      BY <1>1, <2>3, <2>4, <2>8, <2>9, <2>10, PairedRead DEF Lists
    <3>2. Possible(s[e], "starttls")
      BY <2>4, <2>8, <2>10 DEF Possible, Necessary, getFeature, StartTLS, StreamFeature
    <3> QED
      BY <1>1, <2>4, <2>8, <2>10, <3>1, <3>2
  <2> HIDE DEF C, R, b, r
  <2>11. CASE ForceTLS(r, e) /\ s'[e] = RequestTLS([r EXCEPT !.required = @ \cup {"starttls"}])
    <3> DEFINE q == RequestTLS([r EXCEPT !.required = @ \cup {"starttls"}])
    <3>1. /\ q.pc = "starttls" /\ q.sel = "starttls" /\ q.cache = r.cache
          /\ q.required = r.required \cup {"starttls"} /\ q.listReq = r.listReq
          /\ q.bits = r.bits /\ q.from = r.from /\ q.to = r.to /\ q.tls = r.tls
          /\ q.negotiated = r.negotiated /\ q.tried = r.tried /\ q.data = r.data
      BY <2>5 DEF Sessions, RequestTLS
    <3> HIDE DEF q
    <3>2. s'[e] = q
      BY <2>11 DEF q
    <3>3. TlsInv(e, s[e]) => TlsInv(e, q)
      BY <1>1, <2>4, <2>8, <2>11, <3>1 DEF TlsInv
    <3>4. DoneInv(e, s[e]) /\ Paired(e) => DoneInv(e, q)
      BY <1>1, <2>4, <2>6, <2>10, <2>11, <3>1 DEF DoneInv
    <3> QED
      BY <2>4, <3>1, <3>2, <3>3, <3>4 DEF Kept
  <2>12. CASE ~ForceTLS(r, e) /\ m.names = {} /\ s'[e] = Returned(r, {"Ready"}, "nil")
    <3> DEFINE q == Returned(r, {"Ready"}, "nil")
    <3>2. /\ q.data = TRUE /\ q.doRestart = ("nil" # "nil")
          /\ q.negotiated \subseteq r.negotiated /\ q.tried = r.tried
          /\ q.from = r.from /\ q.to = r.to
      BY <2>5, ReturnedRest, ZenonT(30)
    <3>3. q.tls = r.tls /\ q.pc = "ready" /\ ~q.doRestart
      BY <2>5, ReadyFields
    <3> HIDE DEF q
    <3>4. s'[e] = q
      BY <2>12 DEF q
    <3>5. r.cache = {}
      BY <2>4, <2>12 DEF C
    <3>6. TlsInv(e, s[e]) => TlsInv(e, q)
      BY <1>1, <2>4, <2>8, <2>9, <2>12, <3>2, <3>3, <3>5 DEF TlsInv
    <3>7. DoneInv(e, q)
      BY <1>1, <3>2, <3>3 DEF DoneInv
    <3> QED
      BY <2>4, <3>2, <3>4, <3>6, <3>7 DEF Kept
  <2>13. CASE ~ForceTLS(r, e) /\ s'[e] = r
    <3>1. TlsInv(e, s[e]) => TlsInv(e, r)
      BY <1>1, <2>4, <2>8, <2>9, <2>13 DEF TlsInv
    <3>2. DoneInv(e, s[e]) /\ Paired(e) => DoneInv(e, r)
      BY <1>1, <2>4, <2>6 DEF DoneInv
    <3> QED
      BY <2>4, <2>13, <3>1, <3>2 DEF Kept
  <2> QED
    BY <2>7, <2>11, <2>12, <2>13
<1> QED
  BY <1>2, <1>3

\* A session that chose a feature, or whose mechanism went on, is as before.
LEMMA ChosenFields ==
    ASSUME NEW r \in Sessions, NEW f, NEW k
    PROVE  /\ LET p == Chosen(r, f, k)
              IN /\ p.from = r.from /\ p.to = r.to /\ p.tried = r.tried /\ p.negotiated = r.negotiated
                 /\ p.tls = r.tls /\ p.bits = r.bits /\ p.data = r.data
                 /\ p.cache = r.cache /\ p.required = r.required
                 /\ p.listReq = r.listReq /\ p.pc = r.pc /\ p.sel = f
           /\ LET p == [r EXCEPT !.step = k]
              IN /\ p.from = r.from /\ p.to = r.to /\ p.tried = r.tried /\ p.negotiated = r.negotiated
                 /\ p.tls = r.tls /\ p.bits = r.bits /\ p.data = r.data
                 /\ p.cache = r.cache /\ p.required = r.required
                 /\ p.listReq = r.listReq /\ p.pc = r.pc /\ p.sel = r.sel
BY DEF Sessions, Chosen

\* The features other than StartTLS that can be negotiated need TLS, which
\* Authn implies.
LEMMA NeedsTLS ==
    ASSUME NEW e, NEW r, Good(e, r), NEW f \in r.cache, Negotiable(f)
    PROVE  f = "starttls" \/ r.tls
<1>1. f \in FeatureNames /\ Necessary(f) \subseteq r.bits
  BY DEF Good, CacheInv, Sessions
<1>2. f \in {"sasl", "ver", "bidi"} => "Secure" \in Necessary(f)
  BY DEF Necessary, getFeature, newSASL, Versioning, Bidi, StreamFeature
<1>3. f = "bind" => "Authn" \in Necessary(f)
  BY DEF Necessary, getFeature, bind, StreamFeature
<1>4. f # "caps"
  BY DEF Negotiable, getFeature, Caps, StreamFeature
<1> QED
  BY <1>1, <1>2, <1>3, <1>4 DEF Good, FeatureNames

\* ClientSelect: a client without TLS has nothing but StartTLS to choose, and
\* does not end the negotiation before it has.
LEMMA ClientSelectKept ==
    ASSUME Inv, NEW e \in Ends, ClientSelect(e)
    PROVE  Kept(e, s[e], s'[e])
<1>1. s[e] \in Sessions /\ Good(e, s[e]) /\ s[e].pc = "select" /\ ~Server(e)
  BY Session DEF ClientSelect
<1>2. CASE Candidates(s[e]) = {} /\ Goes(e, Returned(s[e], {"Ready"}, "nil"), <<>>)
  <2> DEFINE q == Returned(s[e], {"Ready"}, "nil")
  <2>1. /\ q.negotiated = s[e].negotiated /\ q.tried = s[e].tried
        /\ q.from = s[e].from /\ q.to = s[e].to
    BY <1>1, ReadyFields
  <2>2. q.tls = s[e].tls /\ q.pc = "ready" /\ ~q.doRestart
    BY <1>1, ReadyFields
  <2> HIDE DEF q
  <2>3. s'[e] = q
    BY <1>2, Moved DEF q
  <2>4. "starttls" \notin s[e].cache \ s[e].negotiated
    <3>1. Negotiable("starttls")
      BY DEF Negotiable, getFeature, StartTLS, StreamFeature
    <3> QED
      BY <1>2, <3>1 DEF Candidates
  <2>5. TlsInv(e, s[e]) => TlsInv(e, q)
    BY <1>1, <2>1, <2>2, <2>4 DEF TlsInv
  <2>6. DoneInv(e, q)
    BY <1>1, <2>2 DEF DoneInv
  <2> QED
    BY <2>1, <2>3, <2>5, <2>6 DEF Kept
<1>3. ASSUME NEW f \in Candidates(s[e]),
             LET r == Chosen(s[e], f, 1)
             IN \/ f = "starttls" /\ Goes(e, RequestTLS(r), <<Elem(r, "starttls")>>)
                \/ f = "sasl" /\ Goes(e, [r EXCEPT !.pc = "sasl"], <<Elem(r, "auth")>>)
                \/ f = "sasl" /\ cfg.faults /\ Goes(e, NotNegotiated(r), <<>>)
                \/ f = "bind" /\ Goes(e, [r EXCEPT !.pc = "bind"], <<Elem(r, "bindiq")>>)
                \/ f = "ver" /\ Goes(e, Negotiated(r, {}, "nil"), <<>>)
                \/ f = "bidi" /\ Goes(e, Negotiated(r, {}, "nil"), <<Elem(r, "bidi")>>)
      PROVE  Kept(e, s[e], s'[e])
  <2> DEFINE r == Chosen(s[e], f, 1)
  <2>1. f \in s[e].cache /\ Negotiable(f)
    BY <1>3 DEF Candidates
  <2>2. f = "starttls" \/ s[e].tls
    BY <1>1, <2>1, NeedsTLS
  <2>3. /\ r.from = s[e].from /\ r.to = s[e].to /\ r.tried = s[e].tried /\ r.negotiated = s[e].negotiated
        /\ r.tls = s[e].tls /\ r.bits = s[e].bits /\ r.data = s[e].data
        /\ r.cache = s[e].cache /\ r.required = s[e].required
        /\ r.listReq = s[e].listReq /\ r.pc = s[e].pc /\ r.sel = f
    BY <1>1, ChosenFields
  <2>4. Good(e, r) /\ f # "none"
    <3>1. 1 \in Nat
      OBVIOUS
    <3> QED
      BY <1>1, <2>1, <3>1, ChosenGood
  <2>5. \/ f = "starttls" /\ s'[e] = RequestTLS(r)
        \/ f \in {"sasl", "bind"} /\ s'[e] = [r EXCEPT !.pc = f]
        \/ s'[e] = NotNegotiated(r)
        \/ s'[e] = Negotiated(r, {}, "nil")
    BY <1>3, Moved
  <2> HIDE DEF r
  <2>6. Kept(e, s[e], NotNegotiated(r)) /\ Kept(e, s[e], Negotiated(r, {}, "nil"))
    BY <1>1, <2>2, <2>3, <2>4, FeatureKept
  <2>7. CASE f = "starttls" /\ s'[e] = RequestTLS(r)
    <3> DEFINE q == RequestTLS(r)
    <3>1. /\ q.pc = "starttls" /\ q.sel = "starttls" /\ q.cache = r.cache
          /\ q.required = r.required /\ q.listReq = r.listReq
          /\ q.bits = r.bits /\ q.from = r.from /\ q.to = r.to /\ q.tls = r.tls
          /\ q.negotiated = r.negotiated /\ q.tried = r.tried /\ q.data = r.data
      BY <2>4 DEF Good, Sessions, RequestTLS
    <3> HIDE DEF q
    <3>2. s'[e] = q
      BY <2>7 DEF q
    <3>3. TlsInv(e, s[e]) => TlsInv(e, q)
      BY <1>1, <2>3, <3>1 DEF TlsInv
    <3>4. DoneInv(e, s[e]) => DoneInv(e, q)
      BY <1>1, <2>1, <2>3, <2>7, <3>1 DEF DoneInv
    <3> QED
      BY <2>3, <3>1, <3>2, <3>3, <3>4 DEF Kept
  <2>8. CASE f \in {"sasl", "bind"} /\ s'[e] = [r EXCEPT !.pc = f]
    <3> DEFINE q == [r EXCEPT !.pc = f]
    <3>1. /\ q.pc = f /\ q.sel = r.sel /\ q.cache = r.cache
          /\ q.required = r.required /\ q.listReq = r.listReq
          /\ q.bits = r.bits /\ q.from = r.from /\ q.to = r.to /\ q.tls = r.tls
          /\ q.negotiated = r.negotiated /\ q.tried = r.tried /\ q.data = r.data
      BY <2>4 DEF Good, Sessions
    <3> HIDE DEF q
    <3>2. s'[e] = q
      BY <2>8 DEF q
    <3>3. TlsInv(e, s[e]) => TlsInv(e, q)
      BY <1>1, <2>2, <2>3, <2>8, <3>1 DEF TlsInv
    <3>4. DoneInv(e, s[e]) => DoneInv(e, q)
      BY <1>1, <2>1, <2>3, <2>8, <3>1 DEF DoneInv
    <3> QED
      BY <2>3, <3>1, <3>2, <3>3, <3>4 DEF Kept
  <2> QED
    BY <2>5, <2>6, <2>7, <2>8
<1> QED
  BY <1>2, <1>3 DEF ClientSelect

\* TLSAnswer and BindAnswer: a server that can go on with StartTLS listed it.
LEMMA AnswerKept ==
    ASSUME Inv, NEW e \in Ends, TLSAnswer(e) \/ BindAnswer(e)
    PROVE  Kept(e, s[e], s'[e])
<1>1. /\ s[e] \in Sessions /\ Good(e, s[e]) /\ ~Server(e) /\ s[e].sel # "none"
      /\ s[e].pc \in {"starttls", "bind"}
  BY Session DEF TLSAnswer, BindAnswer, Good, ChoiceInv
<1>2. TlsInv(e, s[e]) /\ ~Server(e) /\ "starttls" \in cfg.client
        => s[e].sel = "starttls" \/ s[e].tls
  BY <1>1 DEF TlsInv
<1>3. CASE TLSAnswer(e)
  <2>1. Kept(e, s[e], NotNegotiated(s[e]))
    BY <1>1, <1>2, FeatureKept
  <2>2. ASSUME NEW m \in Incoming(e), m.kind = "proceed"
        PROVE  Kept(e, s[e], Negotiated(s[e], {"Secure"}, "tls"))
    <3>1. Paired(e) => "starttls" \in cfg.server
      BY <1>1, <2>2, PairedRead DEF Lists
    <3>2. DoneInv(e, s[e]) /\ Paired(e) => s[e].listReq
      BY <1>3, <3>1 DEF DoneInv, TLSAnswer, Needed
    <3>3. {"Secure"} \in SUBSET Bits /\ "Ready" \notin {"Secure"}
      BY DEF Bits
    <3> QED
      BY <1>1, <1>2, <3>2, <3>3, FeatureKept
  <2> QED
    BY <1>3, <2>1, <2>2, Moved DEF TLSAnswer
<1>4. CASE BindAnswer(e)
  <2>1. Kept(e, s[e], NotNegotiated(s[e]))
    BY <1>1, <1>2, FeatureKept
  <2>2. Kept(e, s[e], Negotiated(s[e], {"Ready"}, "nil"))
    <3>1. DoneInv(e, s[e]) => s[e].sel \in s[e].required
      BY <1>4 DEF DoneInv, BindAnswer, Needed
    <3>2. {"Ready"} \in SUBSET Bits
      BY DEF Bits
    <3> QED
      BY <1>1, <1>2, <3>1, <3>2, FeatureKept
  <2> QED
    BY <1>4, <2>1, <2>2, Moved DEF BindAnswer
<1> QED
  BY <1>3, <1>4

\* ClientSasl: the mechanism runs over TLS, on a list that requires it.
LEMMA ClientSaslKept ==
    ASSUME Inv, NEW e \in Ends, ClientSasl(e)
    PROVE  Kept(e, s[e], s'[e])
<1>1. /\ s[e] \in Sessions /\ Good(e, s[e]) /\ ~Server(e) /\ s[e].sel = "sasl"
      /\ s[e].tls /\ s[e].pc = "sasl" /\ s[e].step + 1 \in Nat
  BY Session DEF ClientSasl, Good, ChoiceInv, Sessions
<1> DEFINE r == [s[e] EXCEPT !.step = s[e].step + 1]
<1>2. \/ s'[e] = NotNegotiated(s[e]) \/ s'[e] = NotNegotiated(r)
      \/ s'[e] = Negotiated(r, {"Authn"}, "conn") \/ s'[e] = r
  BY Moved DEF ClientSasl
<1>3. /\ r.from = s[e].from /\ r.to = s[e].to /\ r.tried = s[e].tried /\ r.negotiated = s[e].negotiated
      /\ r.tls = s[e].tls /\ r.bits = s[e].bits /\ r.data = s[e].data
      /\ r.cache = s[e].cache /\ r.required = s[e].required
      /\ r.listReq = s[e].listReq /\ r.pc = s[e].pc /\ r.sel = s[e].sel
  BY <1>1 DEF Sessions
<1>4. Good(e, r)
  BY <1>1, StepGood
<1> HIDE DEF r
<1>5. Kept(e, s[e], NotNegotiated(s[e]))
  BY <1>1, FeatureKept
<1>6. Kept(e, s[e], NotNegotiated(r))
  BY <1>1, <1>3, <1>4, FeatureKept
<1>7. Kept(e, s[e], Negotiated(r, {"Authn"}, "conn"))
  <2>1. DoneInv(e, s[e]) => r.listReq
    BY <1>1, <1>3 DEF DoneInv, Needed
  <2>2. {"Authn"} \in SUBSET Bits /\ "Ready" \notin {"Authn"}
    BY DEF Bits
  <2> QED
    BY <1>1, <1>3, <1>4, <2>1, <2>2, FeatureKept
<1>8. Kept(e, s[e], r)
  <2>1. TlsInv(e, s[e]) => TlsInv(e, r)
    BY <1>1, <1>3 DEF TlsInv
  <2>2. DoneInv(e, s[e]) => DoneInv(e, r)
    BY <1>1, <1>3 DEF DoneInv
  <2> QED
    BY <1>3, <2>1, <2>2 DEF Kept
<1> QED
  BY <1>2, <1>5, <1>6, <1>7, <1>8

\* One turn of negotiateServer, from either place.
LEMMA ServerSaslKept ==
    ASSUME Inv, NEW e \in Ends, Server(e), s[e].pc \in {"select", "sasl"},
           NEW r, Good(e, r), r.sel = "sasl", r.tls, "sasl" \in r.cache,
           r.from = s[e].from /\ r.to = s[e].to, r.tried = s[e].tried, r.negotiated = s[e].negotiated,
           r.tls = s[e].tls, r.bits = s[e].bits, r.data = s[e].data,
           r.cache = s[e].cache, r.required = s[e].required,
           r.listReq = s[e].listReq, NEW k, ServerSasl(e, r, k)
    PROVE  Kept(e, s[e], s'[e])
<1> DEFINE j == IF k = "auth" THEN 1 ELSE r.step + 1
           p == [r EXCEPT !.step = j]
           q == [r EXCEPT !.pc = "sasl", !.step = IF k = "auth" THEN 1 ELSE @ + 1]
<1>1. r \in Sessions /\ j \in Nat /\ Good(e, s[e])
  BY Session DEF Good, Sessions
<1>2. q = [p EXCEPT !.pc = "sasl"]
  BY <1>1 DEF Sessions
<1>3. \/ s'[e] = NotNegotiated(r) \/ s'[e] = q
      \/ s'[e] = Negotiated(q, {"Authn"}, "conn")
  BY Moved DEF ServerSasl
<1>4. /\ q.from = r.from /\ q.to = r.to /\ q.tried = r.tried /\ q.negotiated = r.negotiated
      /\ q.tls = r.tls /\ q.bits = r.bits /\ q.data = r.data
      /\ q.cache = r.cache /\ q.required = r.required
      /\ q.listReq = r.listReq /\ q.pc = "sasl" /\ q.sel = r.sel
  BY <1>1 DEF Sessions
<1> HIDE DEF j
<1>5. /\ Good(e, p) /\ p.sel = "sasl" /\ p.tls /\ p.cache = r.cache
  BY <1>1, StepGood
<1>6. Good(e, q)
  <2> HIDE DEF p, q
  <2> QED
    BY <1>2, <1>5, WaitGood
<1> HIDE DEF p, q
<1>7. Kept(e, s[e], NotNegotiated(r))
  BY <1>1, FeatureKept
<1>8. Kept(e, s[e], Negotiated(q, {"Authn"}, "conn"))
  <2>1. DoneInv(e, s[e]) => q.listReq
    BY <1>4 DEF DoneInv, Needed
  <2>2. {"Authn"} \in SUBSET Bits /\ "Ready" \notin {"Authn"}
    BY DEF Bits
  <2>3. /\ q.sel # "none" /\ q.from = s[e].from /\ q.to = s[e].to /\ q.tried = s[e].tried
        /\ q.negotiated = s[e].negotiated /\ q.tls = s[e].tls
        /\ q.bits = s[e].bits /\ q.data = s[e].data /\ q.cache = s[e].cache
        /\ q.required = s[e].required /\ q.listReq = s[e].listReq
    BY <1>4
  <2> QED
    BY <1>1, <1>6, <2>1, <2>2, <2>3, FeatureKept
<1>9. Kept(e, s[e], q)
  <2>1. DoneInv(e, s[e]) => DoneInv(e, q)
    BY <1>4 DEF DoneInv
  <2>2. TlsInv(e, q)
    BY DEF TlsInv
  <2> QED
    BY <1>4, <2>1, <2>2 DEF Kept
<1> QED
  BY <1>3, <1>7, <1>8, <1>9

\* ServerSelect and ServerSaslNext: what a client may choose was listed, and
\* listed as required if it restarts the stream or ends the negotiation.
LEMMA ServerKept ==
    ASSUME Inv, NEW e \in Ends, ServerSelect(e) \/ ServerSaslNext(e)
    PROVE  Kept(e, s[e], s'[e])
<1>1. s[e] \in Sessions /\ Good(e, s[e]) /\ Server(e)
  BY Session DEF ServerSelect, ServerSaslNext
<1>2. CASE ServerSaslNext(e)
  <2>1. /\ s[e].sel = "sasl" /\ s[e].tls /\ "sasl" \in s[e].cache /\ s[e].pc = "sasl"
    BY <1>1, <1>2 DEF ServerSaslNext, Good, ChoiceInv, ServerInv
  <2>2. Kept(e, s[e], NotNegotiated(s[e]))
    BY <1>1, <2>1, FeatureKept
  <2>3. CASE Broken(e, NotNegotiated(s[e]))
    BY <2>2, <2>3, Moved
  <2>4. CASE \E m \in Incoming(e) : ServerSasl(e, s[e], m.kind)
    BY <1>1, <2>1, <2>4, ServerSaslKept
  <2> QED
    BY <1>2, <2>3, <2>4 DEF ServerSaslNext
<1>3. CASE ServerSelect(e) /\ s'[e].pc = "failed"
  BY <1>3, FailKept
<1>4. CASE ServerSelect(e) /\ s'[e].pc # "failed"
  <2>1. \A q : q.pc = "failed" => s'[e] # q
    BY <1>4
  <2>2. Fail(s[e]).pc = "failed"
    BY <1>1 DEF Fail, Sessions
  <2>3. s[e].pc = "select"
    BY <1>4 DEF ServerSelect
  <2>4. PICK m \in Incoming(e) :
            LET f == Selects(m.kind)
                r == Chosen(s[e], f, 0)
            IN /\ Allowed(r, f)
               /\ \/ f = "starttls" /\ ServerStartTLS(e, r)
                  \/ f = "sasl" /\ ServerSasl(e, r, m.kind)
                  \/ f = "bind" /\ ServerBind(e, r)
                  \/ f \in {"ver", "bidi"} /\ ServerNothing(e, r)
    BY <1>4, <2>1, <2>2, Moved DEF ServerSelect
  <2> DEFINE f == Selects(m.kind)
             r == Chosen(s[e], f, 0)
  <2>5. /\ r.from = s[e].from /\ r.to = s[e].to /\ r.tried = s[e].tried /\ r.negotiated = s[e].negotiated
        /\ r.tls = s[e].tls /\ r.bits = s[e].bits /\ r.data = s[e].data
        /\ r.cache = s[e].cache /\ r.required = s[e].required
        /\ r.listReq = s[e].listReq /\ r.pc = s[e].pc /\ r.sel = f
    BY <1>1, ChosenFields
  <2>6. f \in s[e].cache
    BY <2>4, <2>5 DEF Allowed
  <2>7. Good(e, r) /\ f # "none" /\ (f = "sasl" => r.tls)
    <3>1. 0 \in Nat
      OBVIOUS
    <3> HIDE DEF f
    <3> QED
      BY <1>1, <2>3, <2>6, <3>1, ChosenGood
  <2>8. \/ f = "starttls" /\ s'[e] = Negotiated(r, {"Secure"}, "tls")
        \/ f = "sasl" /\ ServerSasl(e, r, m.kind)
        \/ f = "bind" /\ s'[e] = Negotiated(r, {"Ready"}, "nil")
        \/ s'[e] = NotNegotiated(r)
        \/ s'[e] = Negotiated(Inside(r), {}, "nil")
    BY <2>4, Moved DEF ServerStartTLS, ServerBind, ServerNothing
  <2> HIDE DEF f, r
  <2>9a. Kept(e, s[e], NotNegotiated(r))
    BY <1>1, <2>3, <2>5, <2>7, FeatureKept
  <2>9. Kept(e, s[e], Negotiated(Inside(r), {}, "nil"))
    <3> DEFINE p == Inside(r)
    <3>1. /\ Good(e, p) /\ p.pc = r.pc /\ p.sel = r.sel /\ p.cache = r.cache
          /\ p.bits = r.bits /\ p.tls = r.tls /\ p.from = r.from /\ p.to = r.to
          /\ p.tried = r.tried /\ p.negotiated = r.negotiated /\ p.data = r.data
          /\ p.required = r.required /\ p.listReq = r.listReq
      BY <2>7, InsideGood
    <3> HIDE DEF p
    <3>2. Kept(e, s[e], Negotiated(p, {}, "nil"))
      BY <1>1, <2>3, <2>5, <2>7, <3>1, FeatureKept
    <3> QED
      BY <3>2 DEF p
  <2>10. DoneInv(e, s[e]) /\ f \in Needed => r.listReq /\ f \in r.required
    BY <2>3, <2>5, <2>6 DEF DoneInv
  <2>11. f = "starttls" => Kept(e, s[e], Negotiated(r, {"Secure"}, "tls"))
    <3>1. {"Secure"} \in SUBSET Bits /\ "Ready" \notin {"Secure"}
      BY DEF Bits
    <3> QED
      BY <1>1, <2>3, <2>5, <2>7, <2>10, <3>1, FeatureKept DEF Needed
  <2>12. f = "bind" => Kept(e, s[e], Negotiated(r, {"Ready"}, "nil"))
    <3>1. {"Ready"} \in SUBSET Bits
      BY DEF Bits
    <3> QED
      BY <1>1, <2>3, <2>5, <2>7, <2>10, <3>1, FeatureKept DEF Needed
  <2>13. f = "sasl" /\ ServerSasl(e, r, m.kind) => Kept(e, s[e], s'[e])
    BY <1>1, <2>3, <2>5, <2>6, <2>7, ServerSaslKept
  <2> QED
    BY <2>8, <2>9a, <2>9, <2>11, <2>12, <2>13
<1> QED
  BY <1>2, <1>3, <1>4

\* Every step of an end.
LEMMA EndKept ==
    ASSUME Inv, NEW e \in Ends, EndStep(e)
    PROVE  /\ Kept(e, s[e], s'[e]) /\ cfg' = cfg
           /\ \A x \in Ends : x # e => s'[x] = s[x]
<1>1. Kept(e, s[e], s'[e])
  BY CallKept, ExpectKept, ReadFeaturesKept, ClientSelectKept, AnswerKept,
     ClientSaslKept, ServerKept DEF EndStep
<1>2. \E r, ms : Goes(e, r, ms) \/ Reads(e, r, ms) \/ Broken(e, r)
  <2>1. CASE InsertTee(e) \/ StartStream(e) \/ SameStream(e)
    BY <2>1 DEF InsertTee, StartStream, SameStream
  <2>2. CASE Expect(e)
    BY <2>2 DEF Expect
  <2>3. CASE ReadFeatures(e)
    BY <2>3 DEF ReadFeatures
  <2>4. CASE ClientSelect(e)
    BY <2>4 DEF ClientSelect
  <2>5. CASE TLSAnswer(e) \/ BindAnswer(e)
    BY <2>5 DEF TLSAnswer, BindAnswer
  <2>6. CASE ClientSasl(e)
    BY <2>6 DEF ClientSasl
  <2>7. CASE ServerSelect(e) \/ ServerSaslNext(e)
    BY <2>7 DEF ServerSelect, ServerSaslNext, ServerStartTLS, ServerBind, ServerNothing,
                ServerSasl
  <2> QED
    BY <2>1, <2>2, <2>3, <2>4, <2>5, <2>6, <2>7 DEF EndStep
<1> QED
  BY <1>1, <1>2, Moved

\* A step of Next is a step of one modelled end.
LEMMA OneEnd ==
    ASSUME Inv, Next
    PROVE  \E e \in Ends : e \in cfg.ends /\ EndStep(e)
BY ConfigAssumption DEF Next, Inv, TypeOK, ConfigSet

\* For every configuration and peer: once an end knows where its peer comes
\* from and where it wants to go, no restart of the stream changes either
\* (SameOrigin and SameLocation in the negotiator's reading of a header).
THEOREM AddressesNeverChange == Spec => AddressesFixed
<1> DEFINE Fixed == \A e \in Ends :
                      \/ s'[e].pc = "failed"
                      \/ /\ s[e].from # "none" => s'[e].from = s[e].from
                         /\ s[e].to # "none" => s'[e].to = s[e].to
<1>1. Inv /\ [Next]_vars => [Fixed]_vars
  <2> SUFFICES ASSUME Inv, Next PROVE Fixed
    OBVIOUS
  <2>1. PICK e \in Ends : e \in cfg.ends /\ EndStep(e)
    BY OneEnd
  <2>2. Kept(e, s[e], s'[e]) /\ \A x \in Ends : x # e => s'[x] = s[x]
    BY <2>1, EndKept
  <2> QED
    BY <2>2 DEF Kept
<1> QED
  BY AlwaysInv, <1>1, PTL DEF Spec, AddressesFixed

\* For every configuration whose client has no tee, and whatever the server
\* sends or leaves out: a client that has StartTLS is not ready before it is on
\* TLS or has tried to be.  A tee counts as data on the first list and makes
\* the negotiator skip the attempt, so the hypothesis is needed.
THEOREM StartTLSAlwaysTried ==
    ASSUME \A c \in Configs : "client" \notin c.tee
    PROVE  Spec => []TlsTried
<1> DEFINE J == \A e \in Ends : TlsInv(e, s[e])
<1>1. Init => J
  BY DEF Init, TlsInv
<1>2. Inv /\ J /\ [Next]_vars => J'
  <2> SUFFICES ASSUME Inv, J, [Next]_vars, NEW e \in Ends PROVE TlsInv(e, s[e])'
    BY DEF J
  <2>1. CASE UNCHANGED vars
    BY <2>1 DEF vars, TlsInv
  <2>2. CASE Next
    <3>1. PICK x \in Ends : x \in cfg.ends /\ EndStep(x)
      BY <2>2, OneEnd
    <3>2. /\ Kept(x, s[x], s'[x]) /\ cfg' = cfg
          /\ \A y \in Ends : y # x => s'[y] = s[y]
      BY <3>1, EndKept
    <3>3. CASE e # x \/ Server(e)
      BY <3>2, <3>3 DEF TlsInv
    <3>4. CASE e = x /\ ~Server(e)
      <4>1. e \notin cfg.tee
        BY <3>4 DEF Ends, Server, Inv, TypeOK
      <4>2. TlsInv(e, s'[e])
        BY <3>2, <3>4, <4>1 DEF Kept
      <4> QED
        BY <3>2, <4>2 DEF TlsInv
    <3> QED
      BY <3>3, <3>4
  <2> QED
    BY <2>1, <2>2
<1>3. J => TlsTried
  BY DEF TlsInv, TlsTried
<1> QED
  BY AlwaysInv, <1>1, <1>2, <1>3, PTL DEF Spec

----------------------------------------------------------------------------
(* What the server writes.                                                 *)

\* A step of either end leaves to the client what was there, less what it
\* has read, and what the server writes.
LEMMA ListStep ==
    ASSUME Inv, ListInv, NEW e \in Ends, NEW r, NEW M, NEW ms \in Seq(M),
           Server(e) => \A m \in M : Lists(m),
           Goes(e, r, ms) \/ Reads(e, r, ms) \/ Broken(e, r)
    PROVE  ListInv'
<1> DEFINE c == chan["client"]
           d == chan'["client"]
<1>1. c \in Seq(Messages) /\ cfg' = cfg
  BY Moved DEF Inv, TypeOK, Ends
<1>2. Server(e) = (Peer(e) = "client")
  BY DEF Server, Peer
<1>3. \/ d = c
      \/ Server(e) /\ d = c \o ms
      \/ c # <<>> /\ d = Tail(c)
  BY <1>2 DEF Goes, Reads, Broken, Ends
<1>4. \A i \in DOMAIN c : Lists(c[i])
  BY DEF ListInv
<1>5. \A i \in DOMAIN d : Lists(d[i])
  <2> HIDE DEF c, d, Lists
  <2>1. CASE d = c
    BY <1>4, <2>1
  <2>2. CASE Server(e) /\ d = c \o ms
    <3> SUFFICES ASSUME NEW i \in DOMAIN d PROVE Lists(d[i])
      OBVIOUS
    <3>1. CASE i <= Len(c)
      BY <1>1, <1>4, <2>2, <3>1
    <3>2. CASE ~(i <= Len(c))
      <4>1. d[i] = ms[i - Len(c)] /\ i - Len(c) \in 1 .. Len(ms)
        BY <1>1, <2>2, <3>2
      <4> QED
        BY <2>2, <4>1
    <3> QED
      BY <3>1, <3>2
  <2>3. CASE c # <<>> /\ d = Tail(c)
    <3> SUFFICES ASSUME NEW i \in DOMAIN d PROVE Lists(d[i])
      OBVIOUS
    <3>1. d[i] = c[i + 1] /\ i + 1 \in DOMAIN c
      BY <1>1, <2>3
    <3> QED
      BY <1>4, <3>1
  <2> QED
    BY <1>3, <2>1, <2>2, <2>3
<1> QED
  BY <1>1, <1>5 DEF ListInv, Lists

\* The same for a step that writes nothing, or nothing but one element.
LEMMA ListNone ==
    ASSUME Inv, ListInv, NEW e \in Ends, NEW r,
           Goes(e, r, <<>>) \/ Reads(e, r, <<>>) \/ Broken(e, r)
    PROVE  ListInv'
<1> DEFINE ms == <<>>
           M == {}
<1>1. ms \in Seq(M) /\ \A m \in M : Lists(m)
  OBVIOUS
<1>2. Goes(e, r, ms) \/ Reads(e, r, ms) \/ Broken(e, r)
  OBVIOUS
<1> HIDE DEF ms, M
<1> QED
  BY <1>1, <1>2, ListStep

\* (The one element.)
LEMMA ListOne ==
    ASSUME Inv, ListInv, NEW e \in Ends, NEW r, NEW a, Server(e) => Lists(a),
           Goes(e, r, <<a>>) \/ Reads(e, r, <<a>>)
    PROVE  ListInv'
<1> DEFINE ms == <<a>>
           M == {a}
<1>1. ms \in Seq(M) /\ (Server(e) => \A m \in M : Lists(m))
  OBVIOUS
<1>2. Goes(e, r, ms) \/ Reads(e, r, ms) \/ Broken(e, r)
  OBVIOUS
<1> HIDE DEF ms, M
<1> QED
  BY <1>1, <1>2, ListStep

\* A list that a server writes has StartTLS as long as it can be negotiated.
LEMMA ListedLists ==
    ASSUME NEW e, Server(e), NEW r, Good(e, r)
    PROVE  Lists(FeatureList(r, Listed(r, e), TRUE)) /\ Lists(Header(r, r.to, r.from))
<1> DEFINE m == FeatureList(r, Listed(r, e), TRUE)
<1>1. m.required = TRUE /\ m.tls = r.tls /\ m.names = Listed(r, e) /\ m.kind = "features"
  BY DEF FeatureList, Message
<1>2. ("Secure" \in r.bits) = r.tls /\ Features(e) = cfg.server
  BY DEF Good, Features
<1>3. ~r.tls => Possible(r, "starttls")
  BY <1>2 DEF Possible, Necessary, getFeature, StartTLS, StreamFeature
<1>4. "starttls" \in cfg.server /\ ~m.tls => "starttls" \in m.names
  BY <1>1, <1>2, <1>3 DEF Listed
<1>5. Lists(Header(r, r.to, r.from))
  BY DEF Lists, Header, Message
<1> QED
  BY <1>1, <1>4, <1>5 DEF Lists

\* The elements a server writes for its features.
LEMMA ElemLists ==
    ASSUME NEW r, NEW k, k # "features", k # "proceed"
    PROVE  Lists(Elem(r, k))
BY DEF Lists, Elem, Message

\* One turn of negotiateServer writes nothing that matters here.
LEMMA ServerSaslLists ==
    ASSUME Inv, ListInv, NEW e \in Ends, NEW r, NEW k, ServerSasl(e, r, k)
    PROVE  ListInv'
<1> DEFINE q == [r EXCEPT !.pc = "sasl", !.step = IF k = "auth" THEN 1 ELSE @ + 1]
<1>1. cfg.challenge \in {"challenge", "emptychallenge"}
  BY Session DEF ConfigSet
<1>2. \/ Reads(e, NotNegotiated(r), <<>>)
      \/ Reads(e, NotNegotiated(r), <<Elem(r, "failure")>>)
      \/ Reads(e, q, <<Elem(q, cfg.challenge)>>)
      \/ Reads(e, Negotiated(q, {"Authn"}, "conn"), <<Elem(q, "success")>>)
  BY DEF ServerSasl
<1> HIDE DEF q
<1>3. Lists(Elem(r, "failure")) /\ Lists(Elem(q, cfg.challenge)) /\ Lists(Elem(q, "success"))
  BY <1>1, ElemLists
<1> QED
  BY <1>2, <1>3, ListNone, ListOne

\* No step puts anything else before a client.
LEMMA EndLists ==
    ASSUME Inv, ListInv, NEW e \in Ends, Server(e) => DoneInv(e, s[e]), EndStep(e)
    PROVE  ListInv'
<1>1. s[e] \in Sessions /\ Good(e, s[e])
  BY Session
<1>2. CASE InsertTee(e) \/ StartStream(e)
  BY <1>2, ListNone, ListOne DEF InsertTee, StartStream
<1>3. CASE SameStream(e)
  BY <1>1, <1>3, ListNone, ListOne, ListedLists DEF SameStream
<1>4. CASE Expect(e)
  <2>1. CASE Broken(e, Fail(s[e])) \/ \E m \in Incoming(e) : ~IsHeader(m)
                                        /\ Reads(e, Fail(s[e]), <<>>)
    BY <2>1, ListNone
  <2>2. CASE \E m \in Incoming(e) :
            LET r == Addressed(s[e], m)
            IN IF ~(SameOrigin(e, m) /\ SameLocation(e, m)) THEN Reads(e, Fail(r), <<>>)
               ELSE IF Server(e)
                 THEN Reads(e, WriteList(r, e),
                            <<Header(r, r.to, r.from), FeatureList(r, Listed(r, e), TRUE)>>)
                 ELSE Reads(e, [r EXCEPT !.pc = "features"], <<>>)
    <3>1. PICK m \in Incoming(e) :
            LET r == Addressed(s[e], m)
            IN IF ~(SameOrigin(e, m) /\ SameLocation(e, m)) THEN Reads(e, Fail(r), <<>>)
               ELSE IF Server(e)
                 THEN Reads(e, WriteList(r, e),
                            <<Header(r, r.to, r.from), FeatureList(r, Listed(r, e), TRUE)>>)
                 ELSE Reads(e, [r EXCEPT !.pc = "features"], <<>>)
      BY <2>2
    <3> DEFINE r == Addressed(s[e], m)
               h == Header(r, r.to, r.from)
               l == FeatureList(r, Listed(r, e), TRUE)
               ms == <<h, l>>
               M == {h, l}
    <3>2. Good(e, r)
      <4>1. m \in Messages
        BY <3>1, IncomingType
      <4> QED
        BY <1>1, <4>1, FromGood
    <3>3. \/ Reads(e, Fail(r), <<>>)
          \/ Server(e) /\ Reads(e, WriteList(r, e), ms)
          \/ Reads(e, [r EXCEPT !.pc = "features"], <<>>)
      BY <3>1
    <3> HIDE DEF r
    <3>4. Server(e) => Lists(h) /\ Lists(l)
      BY <3>2, ListedLists
    <3> HIDE DEF h, l
    <3>5. ms \in Seq(M) /\ (Server(e) => \A x \in M : Lists(x))
      BY <3>4
    <3> HIDE DEF ms, M
    <3> QED
      BY <3>3, <3>5, ListNone, ListStep
  <2> QED
    BY <1>4, <2>1, <2>2 DEF Expect
<1>5. CASE ReadFeatures(e)
  <2>1. ~Server(e)
    BY <1>1, <1>5 DEF ReadFeatures, Good, ServerInv
  <2> QED
    BY <1>5, <2>1, ListNone, ListOne DEF ReadFeatures
<1>6. CASE ClientSelect(e)
  BY <1>6, ListNone, ListOne DEF ClientSelect
<1>7. CASE TLSAnswer(e) \/ BindAnswer(e)
  BY <1>7, ListNone DEF TLSAnswer, BindAnswer
<1>8. CASE ClientSasl(e)
  BY <1>8, ListNone, ListOne DEF ClientSasl
<1>9. CASE ServerSaslNext(e)
  BY <1>9, ListNone, ServerSaslLists DEF ServerSaslNext
<1>10. CASE ServerSelect(e)
  <2>1. CASE Broken(e, Fail(s[e])) \/ Goes(e, Fail(s[e]), <<>>)
    BY <2>1, ListNone
  <2>2. CASE ~Broken(e, Fail(s[e])) /\ ~Goes(e, Fail(s[e]), <<>>)
    <3>1. PICK m \in Incoming(e) :
            LET f == Selects(m.kind)
                r == Chosen(s[e], f, 0)
            IN \/ Reads(e, Fail(s[e]), <<>>)
               \/ Allowed(r, f) /\ f = "starttls" /\ ServerStartTLS(e, r)
               \/ ServerSasl(e, r, m.kind)
               \/ ServerBind(e, r)
               \/ ServerNothing(e, r)
      BY <1>10, <2>2 DEF ServerSelect
    <3> DEFINE f == Selects(m.kind)
               r == Chosen(s[e], f, 0)
    <3>2. r.cache = s[e].cache
      BY <1>1, ChosenFields
    <3>3. Server(e) /\ s[e].pc = "select" /\ s[e].cache \subseteq cfg.server
      BY <1>10 DEF ServerSelect, DoneInv
    <3>4. Allowed(r, f) /\ f = "starttls" => Lists(Elem(r, "proceed"))
      BY <3>2, <3>3 DEF Allowed, Lists, Elem, Message
    <3>5. Lists(Elem(r, "bindresult"))
      BY ElemLists
    <3>6. \/ Reads(e, Fail(s[e]), <<>>)
          \/ /\ Allowed(r, f) /\ f = "starttls"
             /\ Reads(e, Negotiated(r, {"Secure"}, "tls"), <<Elem(r, "proceed")>>)
          \/ ServerSasl(e, r, m.kind)
          \/ Reads(e, Negotiated(r, {"Ready"}, "nil"), <<Elem(r, "bindresult")>>)
          \/ Reads(e, NotNegotiated(r), <<>>)
          \/ Reads(e, Negotiated(Inside(r), {}, "nil"), <<>>)
      BY <3>1 DEF ServerStartTLS, ServerBind, ServerNothing
    <3> HIDE DEF f, r
    <3> QED
      BY <3>4, <3>5, <3>6, ListNone, ListOne, ServerSaslLists
  <2> QED
    BY <2>1, <2>2
<1> QED
  BY <1>2, <1>3, <1>4, <1>5, <1>6, <1>7, <1>8, <1>9, <1>10 DEF EndStep

\* Both together, which hold throughout where no client has a server of
\* another package.
OwnServer == "client" \in cfg.ends => "server" \in cfg.ends
EndsInv == OwnServer => ListInv /\ \A e \in Ends : DoneInv(e, s[e])

\* (EndsInv is inductive.)
LEMMA AlwaysEnds == Spec => []EndsInv
<1>1. Init => EndsInv
  <2> SUFFICES ASSUME Init PROVE EndsInv
    OBVIOUS
  <2>1. ListInv
    BY DEF Init, ListInv, Ends
  <2>2. \A e \in Ends : DoneInv(e, s[e])
    BY DEF Init, DoneInv
  <2> QED
    BY <2>1, <2>2 DEF EndsInv
<1>2. Inv /\ EndsInv /\ [Next]_vars => EndsInv'
  <2> SUFFICES ASSUME Inv, EndsInv, [Next]_vars PROVE EndsInv'
    OBVIOUS
  <2>1. CASE UNCHANGED vars
    BY <2>1 DEF vars, EndsInv, OwnServer, DoneInv, ListInv, Lists
  <2>2. CASE Next /\ ~OwnServer
    <3>1. PICK x \in Ends : x \in cfg.ends /\ EndStep(x)
      BY <2>2, OneEnd
    <3>2. cfg' = cfg
      BY <3>1, EndKept
    <3> QED
      BY <2>2, <3>2 DEF EndsInv, OwnServer
  <2>3. CASE Next /\ OwnServer
    <3>0. ListInv /\ \A e \in Ends : DoneInv(e, s[e])
      BY <2>3 DEF EndsInv
    <3>1. PICK x \in Ends : x \in cfg.ends /\ EndStep(x)
      BY <2>3, OneEnd
    <3>2. /\ Kept(x, s[x], s'[x]) /\ cfg' = cfg
          /\ \A y \in Ends : y # x => s'[y] = s[y]
      BY <3>1, EndKept
    <3>3. ListInv'
      BY <3>0, <3>1, EndLists
    <3>4. Paired(x)
      BY <2>3, <3>0, <3>1 DEF Paired, OwnServer, Ends, Server
    <3>5. DoneInv(x, s'[x])
      BY <3>0, <3>2, <3>4 DEF Kept
    <3>6. \A e \in Ends : DoneInv(e, s'[e])
      BY <3>0, <3>2, <3>5
    <3>7. (\A e \in Ends : DoneInv(e, s[e]))'
      BY <3>2, <3>6 DEF DoneInv
    <3> QED
      BY <3>3, <3>7 DEF EndsInv
  <2> QED
    BY <2>1, <2>2, <2>3
<1> QED
  BY AlwaysInv, <1>1, <1>2, PTL DEF Spec

\* For every server, whatever its client sends, and for every client of such a
\* server: no session is ready while a restart of its stream is due, because
\* what restarts the stream is always required (writeStreamFeatures, and the
\* end of the round in negotiateSession).  A client is not safe from other
\* servers, which may offer StartTLS as the only and an optional feature.
THEOREM RestartsAreDone == Spec => []RestartDone
<1>1. Inv /\ EndsInv => RestartDone
  <2> SUFFICES ASSUME Inv, EndsInv, NEW e \in cfg.ends, s[e].pc = "ready",
                      Server(e) \/ Peer(e) \in cfg.ends
               PROVE  ~s[e].doRestart
    BY DEF RestartDone
  <2>1. e \in Ends
    BY ConfigAssumption DEF Inv, TypeOK, ConfigSet
  <2>2. OwnServer
    BY <2>1 DEF OwnServer, Server, Peer, Ends
  <2> QED
    BY <2>1, <2>2 DEF EndsInv, DoneInv
<1> QED
  BY AlwaysInv, AlwaysEnds, <1>1, PTL

----------------------------------------------------------------------------
(* The two ends of a connection together.  They take turns: what one of    *)
(* them waits for is what the other has written or will have to write, so  *)
(* the invariant is a table over the place of the initiating entity.  A    *)
(* step is put into one of a few kinds, by what it does to the sessions    *)
(* and to the elements under way, and the table is kept by each kind.      *)

\* Configurations in which both ends are modelled, have the features that a
\* session needs, and the client's mechanism does not end on a challenge.
Matched(c) ==
    /\ c.ends = Ends /\ Needed \subseteq c.client /\ Needed \subseteq c.server
    /\ c.clientSteps = 1 \/ c.clientSteps > c.serverSteps

\* A server v that has q to read has failed, or fails at the first of q.
Stops(v, q) ==
    \/ v.pc = "failed"
    \/ /\ q # <<>>
       /\ \/ v.pc \in {"call", "expect"} /\ v.doRestart /\ q[1].kind # "header"
          \/ v.pc = "select" /\ q[1].kind = "bidi"

\* It has the client's next header before it ...
Restarts(v) == v.pc \in {"call", "expect"} /\ v.doRestart
Idle(v, q) == Stops(v, q) \/ (Restarts(v) /\ q = <<>>)

\* ... or its choice of a feature.
One(q, k) == Len(q) = 1 /\ q[1].kind = k
Listens(v, q) == Stops(v, q) \/ (v.pc = "select" /\ q = <<>>)
Asked(v, q, k) == Stops(v, q) \/ (v.pc = "select" /\ One(q, k))

\* A list from which the client c can choose one of the features it needs.
Fresh(c, m) ==
    m.kind = "features" /\ m.required /\ \E f \in Needed \cap m.names : Possible(c, f)

\* The table: a client c that has p to read and its server v that has q.
ExpectPair(c, v, p, q) ==
    /\ v.bits = c.bits
    /\ \/ p = <<>> /\ (Stops(v, q) \/ (Restarts(v) /\ One(q, "header")))
       \/ Len(p) = 2 /\ p[1].kind = "header" /\ Fresh(c, p[2]) /\ Listens(v, q)
TLSPair(c, v, p, q) ==
    \/ p = <<>> /\ v.bits = c.bits /\ Asked(v, q, "starttls")
    \/ One(p, "proceed") /\ v.bits = c.bits \cup {"Secure"} /\ Idle(v, q)
SaslPair(c, v, p, q) ==
    \/ /\ p = <<>> /\ v.bits = c.bits
       /\ \/ Stops(v, q)
          \/ v.pc = "select" /\ One(q, "auth") /\ c.step = 1
          \/ v.pc = "sasl" /\ One(q, "response") /\ c.step = v.step + 1
    \/ /\ One(p, "challenge") \/ One(p, "emptychallenge")
       /\ v.bits = c.bits /\ c.step < cfg.serverSteps
       /\ Stops(v, q) \/ (v.pc = "sasl" /\ q = <<>> /\ v.step = c.step)
    \/ One(p, "failure") /\ v.bits = c.bits /\ Stops(v, q)
    \/ One(p, "success") /\ v.bits = c.bits \cup {"Authn"} /\ Idle(v, q)
    \/ p = <<>> /\ v.bits = c.bits \cup {"Authn"} /\ Stops(v, q)
BindPair(c, v, p, q) ==
    \/ p = <<>> /\ v.bits = c.bits /\ Asked(v, q, "bindiq")
    \/ One(p, "bindresult") /\ v.bits = c.bits \cup {"Ready"} /\ v.pc = "ready"
Pair(c, v, p, q) ==
    /\ c.pc = "call" => p = <<>> /\ v.bits = c.bits /\ c.doRestart /\ Idle(v, q)
    /\ c.pc = "expect" => ExpectPair(c, v, p, q)
    /\ c.pc = "features" =>
         v.bits = c.bits /\ Len(p) = 1 /\ Fresh(c, p[1]) /\ Listens(v, q)
    /\ c.pc = "select" =>
         v.bits = c.bits /\ p = <<>> /\ Listens(v, q) /\ c.cache \cap Needed # {}
    /\ c.pc = "starttls" => TLSPair(c, v, p, q)
    /\ c.pc = "sasl" => SaslPair(c, v, p, q)
    /\ c.pc = "bind" => BindPair(c, v, p, q)
    /\ c.pc \in {"ready", "failed"} => c.bits \subseteq v.bits
    /\ c.pc \notin {"ready", "failed"} => c.negotiated \cap Needed = {}
    /\ c.required \subseteq Needed
PairInv == Pair(s["client"], s["server"], chan["client"], chan["server"])

\* What a step does to what an end has to read: it takes the first of q ...
Takes(q, qq) ==
    /\ q # <<>> /\ (Len(q) = 1 => qq = <<>>)
    /\ Len(q) = 2 => Len(qq) = 1 /\ qq[1] = q[2]

\* ... or adds an element of kind k.
Adds(q, qq, k) ==
    /\ q = <<>> => One(qq, k)
    /\ q # <<>> => qq # <<>> /\ qq[1] = q[1]

\* A step of the server from v to w.
ServerCalls(v, w, p, pp, q, qq) ==
    /\ v.pc = "call"
    /\ v.doRestart => Restarts(w) /\ w.bits = v.bits /\ pp = p /\ qq = q
ServerFails(v, w, p, pp, q) ==
    /\ v.pc \in {"expect", "select", "sasl"} /\ w.pc = "failed" /\ w.bits = v.bits
    /\ \/ pp = p
       \/ /\ Adds(p, pp, "failure") /\ q # <<>>
          /\ v.pc = "sasl" \/ (v.pc = "select" /\ Selects(q[1].kind) = "sasl")
ServerLists(v, w, p, pp, q, qq) ==
    /\ v.pc = "expect" /\ Takes(q, qq) /\ q[1].kind = "header"
    /\ w.pc = "select" /\ w.bits = v.bits
    /\ p = <<>> => /\ Len(pp) = 2 /\ pp[1].kind = "header"
                   /\ pp[2].kind = "features" /\ pp[2].required
                   /\ \A f \in Needed : Possible(v, f) => f \in pp[2].names
ServerSecures(v, w, p, pp, q, qq) ==
    /\ v.pc = "select" /\ Takes(q, qq) /\ Selects(q[1].kind) = "starttls"
    /\ Restarts(w) /\ w.bits = v.bits \cup {"Secure"} /\ Adds(p, pp, "proceed")
ServerChallenges(v, w, p, pp, q, qq) ==
    /\ Takes(q, qq) /\ w.pc = "sasl" /\ w.bits = v.bits /\ w.step < cfg.serverSteps
    /\ Adds(p, pp, "challenge") \/ Adds(p, pp, "emptychallenge")
    /\ \/ v.pc \in {"select", "sasl"} /\ q[1].kind = "auth" /\ w.step = 1
       \/ v.pc = "sasl" /\ q[1].kind = "response" /\ w.step = v.step + 1
ServerAccepts(v, w, p, pp, q, qq) ==
    /\ Takes(q, qq) /\ Restarts(w) /\ w.bits = v.bits \cup {"Authn"}
    /\ Adds(p, pp, "success")
    /\ \/ v.pc \in {"select", "sasl"} /\ q[1].kind = "auth"
       \/ v.pc = "sasl" /\ q[1].kind = "response"
ServerBinds(v, w, p, pp, q, qq) ==
    /\ v.pc = "select" /\ Takes(q, qq) /\ Selects(q[1].kind) = "bind"
    /\ w.bits = v.bits \cup {"Ready"} /\ w.pc = "ready" /\ Adds(p, pp, "bindresult")
ServerOther(v, q) == v.pc = "select" /\ q # <<>> /\ Selects(q[1].kind) \in {"ver", "bidi"}
ServerMoves(v, w, p, pp, q, qq) ==
    /\ v.bits \subseteq w.bits
    /\ \/ ServerCalls(v, w, p, pp, q, qq)
       \/ ServerFails(v, w, p, pp, q)
       \/ ServerLists(v, w, p, pp, q, qq)
       \/ ServerSecures(v, w, p, pp, q, qq)
       \/ ServerChallenges(v, w, p, pp, q, qq)
       \/ ServerAccepts(v, w, p, pp, q, qq)
       \/ ServerBinds(v, w, p, pp, q, qq)
       \/ ServerOther(v, q)

\* A server that fails at what it reads next writes nothing more.
LEMMA StopsKept ==
    ASSUME NEW v, NEW w, NEW p, NEW pp, NEW q, NEW qq,
           ServerMoves(v, w, p, pp, q, qq), Stops(v, q)
    PROVE  Stops(w, qq) /\ w.bits = v.bits /\ pp = p
<1>1. Selects("bidi") = "none"
  BY DEF Selects
<1>2. v.pc # "failed"
  BY DEF ServerMoves, ServerCalls, ServerFails, ServerLists, ServerSecures,
         ServerChallenges, ServerAccepts, ServerBinds, ServerOther
<1>3. CASE v.pc \in {"call", "expect"} /\ v.doRestart /\ q # <<>> /\ q[1].kind # "header"
  BY <1>3 DEF ServerMoves, ServerCalls, ServerFails, ServerLists, ServerSecures,
         ServerChallenges, ServerAccepts, ServerBinds, ServerOther, Stops, Restarts
<1>4. CASE v.pc = "select" /\ q # <<>> /\ q[1].kind = "bidi"
  BY <1>1, <1>4 DEF ServerMoves, ServerCalls, ServerFails, ServerLists, ServerSecures,
         ServerChallenges, ServerAccepts, ServerBinds, ServerOther, Stops
<1> QED
  BY <1>2, <1>3, <1>4 DEF Stops

\* A server with nothing to read waits.
LEMMA WaitsKept ==
    ASSUME NEW v, NEW w, NEW p, NEW pp, NEW qq,
           ServerMoves(v, w, p, pp, <<>>, qq),
           Restarts(v) \/ v.pc \in {"select", "sasl"}
    PROVE  /\ w.bits = v.bits /\ pp = p
           /\ w.pc = "failed" \/ (Restarts(v) /\ Restarts(w) /\ qq = <<>>)
BY DEF ServerMoves, ServerCalls, ServerFails, ServerLists, ServerSecures, Takes,
       ServerChallenges, ServerAccepts, ServerBinds, ServerOther, Stops, Restarts

\* So Idle and Listens stay.
LEMMA IdleKept ==
    ASSUME NEW v, NEW w, NEW p, NEW pp, NEW q, NEW qq,
           ServerMoves(v, w, p, pp, q, qq)
    PROVE  /\ Idle(v, q) => Idle(w, qq) /\ w.bits = v.bits /\ pp = p
           /\ Listens(v, q) => Listens(w, qq) /\ w.bits = v.bits /\ pp = p
BY StopsKept, WaitsKept DEF Idle, Listens, Stops, Restarts

\* A feature that the session needs can always be negotiated next.
LEMMA NeededPossible ==
    ASSUME NEW c, "Authn" \in c.bits => "Secure" \in c.bits, "Ready" \notin c.bits
    PROVE  \E f \in Needed : Possible(c, f)
<1>1. "Secure" \notin c.bits => Possible(c, "starttls")
  BY DEF Possible, Necessary, getFeature, StartTLS, StreamFeature
<1>2. "Secure" \in c.bits /\ "Authn" \notin c.bits => Possible(c, "sasl")
  BY DEF Possible, Necessary, getFeature, newSASL, StreamFeature
<1>3. "Authn" \in c.bits => Possible(c, "bind")
  BY DEF Possible, Necessary, getFeature, bind, StreamFeature
<1> QED
  BY <1>1, <1>2, <1>3 DEF Needed

\* Which features can be negotiated depends on the bits only.
LEMMA PossibleBits ==
    ASSUME NEW c, NEW v, v.bits = c.bits, NEW f
    PROVE  Possible(c, f) = Possible(v, f)
BY DEF Possible

\* The table is kept by the server.
LEMMA ServerPair ==
    ASSUME NEW c \in Sessions, NEW v, NEW w, NEW p, NEW pp, NEW q, NEW qq,
           Pair(c, v, p, q), ServerMoves(v, w, p, pp, q, qq),
           "Authn" \in c.bits => "Secure" \in c.bits,
           c.pc # "ready" => "Ready" \notin c.bits \/ c.pc = "failed"
    PROVE  Pair(c, w, pp, qq)
<1>1. c.required \subseteq Needed /\ (c.pc \notin {"ready", "failed"} => c.negotiated \cap Needed = {})
  BY DEF Pair
<1>2. CASE c.pc \in {"ready", "failed"}
  <2>1. c.bits \subseteq w.bits
    BY <1>2 DEF Pair, ServerMoves
  <2> QED
    BY <1>1, <1>2, <2>1 DEF Pair
<1>3. CASE c.pc \in {"call", "features", "select"}
  BY <1>1, <1>3, IdleKept DEF Pair
<1>4. CASE c.pc = "expect"
  <2>1. ExpectPair(c, v, p, q)
    BY <1>4 DEF Pair
  <2> SUFFICES ExpectPair(c, w, pp, qq)
    BY <1>1, <1>4 DEF Pair
  <2>2. CASE Stops(v, q)
    BY <2>1, <2>2, StopsKept DEF ExpectPair, Listens
  <2>3. CASE Listens(v, q) /\ p # <<>>
    BY <2>1, <2>3, IdleKept DEF ExpectPair
  <2>4. CASE p = <<>> /\ Restarts(v) /\ One(q, "header")
    <3>1. CASE ServerCalls(v, w, p, pp, q, qq)
      BY <2>1, <2>4, <3>1 DEF ExpectPair, ServerCalls, Restarts
    <3>2. CASE ServerFails(v, w, p, pp, q)
      BY <2>1, <2>4, <3>2 DEF ExpectPair, ServerFails, Restarts, Stops
    <3>3. CASE ServerLists(v, w, p, pp, q, qq)
      <4>1. PICK f \in Needed : Possible(c, f)
        BY <1>4, NeededPossible
      <4>2. Possible(v, f)
        BY <2>1, <4>1, PossibleBits DEF ExpectPair
      <4>3. Fresh(c, pp[2])
        BY <2>4, <3>3, <4>1, <4>2 DEF Fresh, ServerLists
      <4>4. Listens(w, qq)
        BY <2>4, <3>3 DEF Listens, ServerLists, Takes, One
      <4> QED
        BY <2>1, <2>4, <3>3, <4>3, <4>4 DEF ExpectPair, ServerLists
    <3> QED
      BY <2>4, <3>1, <3>2, <3>3 DEF ServerMoves, ServerSecures,
         ServerChallenges, ServerAccepts, ServerBinds, ServerOther, Restarts
  <2> QED
    BY <2>1, <2>2, <2>3, <2>4 DEF ExpectPair, One
<1>5. CASE c.pc = "starttls"
  <2>1. TLSPair(c, v, p, q)
    BY <1>5 DEF Pair
  <2> SUFFICES TLSPair(c, w, pp, qq)
    BY <1>1, <1>5 DEF Pair
  <2>2. CASE Stops(v, q)
    BY <2>1, <2>2, StopsKept DEF TLSPair, Asked, Idle
  <2>3. CASE Idle(v, q) /\ One(p, "proceed")
    BY <2>1, <2>3, IdleKept DEF TLSPair, One
  <2>4. CASE p = <<>> /\ v.bits = c.bits /\ v.pc = "select" /\ One(q, "starttls")
    <3>1. q # <<>> /\ q[1].kind = "starttls" /\ Selects("starttls") = "starttls" /\ Len(q) = 1
      BY <2>4 DEF One, Selects
    <3>2. CASE ServerFails(v, w, p, pp, q)
      BY <2>4, <3>1, <3>2 DEF TLSPair, Asked, ServerFails, Stops
    <3>3. CASE ServerSecures(v, w, p, pp, q, qq)
      BY <2>4, <3>1, <3>3 DEF TLSPair, ServerSecures, Idle, Takes, Adds
    <3> QED
      BY <2>4, <3>1, <3>2, <3>3 DEF ServerMoves, ServerCalls, ServerLists,
         ServerChallenges, ServerAccepts, ServerBinds, ServerOther
  <2> QED
    BY <2>1, <2>2, <2>3, <2>4 DEF TLSPair, Asked
<1>6. CASE c.pc = "bind"
  <2>1. BindPair(c, v, p, q)
    BY <1>6 DEF Pair
  <2> SUFFICES BindPair(c, w, pp, qq)
    BY <1>1, <1>6 DEF Pair
  <2>2. CASE Stops(v, q)
    BY <2>1, <2>2, StopsKept DEF BindPair, Asked, Stops
  <2>3. CASE v.pc = "ready"
    BY <2>3 DEF ServerMoves, ServerCalls, ServerFails, ServerLists, ServerSecures,
       ServerChallenges, ServerAccepts, ServerBinds, ServerOther
  <2>4. CASE p = <<>> /\ v.bits = c.bits /\ v.pc = "select" /\ One(q, "bindiq")
    <3>1. q # <<>> /\ q[1].kind = "bindiq" /\ Selects("bindiq") = "bind" /\ Len(q) = 1
      BY <2>4, SMTT(30) DEF One, Selects
    <3>2. CASE ServerFails(v, w, p, pp, q)
      BY <2>4, <3>1, <3>2 DEF BindPair, Asked, ServerFails, Stops
    <3>3. CASE ServerBinds(v, w, p, pp, q, qq)
      BY <2>4, <3>1, <3>3 DEF BindPair, ServerBinds, Adds
    <3> QED
      BY <2>4, <3>1, <3>2, <3>3 DEF ServerMoves, ServerCalls, ServerLists,
         ServerChallenges, ServerAccepts, ServerSecures, ServerOther
  <2> QED
    BY <2>1, <2>2, <2>3, <2>4 DEF BindPair, Asked
<1>7. CASE c.pc = "sasl"
  <2>1. SaslPair(c, v, p, q)
    BY <1>7 DEF Pair
  <2> SUFFICES SaslPair(c, w, pp, qq)
    BY <1>1, <1>7 DEF Pair
  <2>2. CASE Stops(v, q)
    BY <2>1, <2>2, StopsKept DEF SaslPair, Idle
  <2>3. CASE Idle(v, q) /\ One(p, "success") /\ v.bits = c.bits \cup {"Authn"}
    BY <2>3, IdleKept DEF SaslPair
  <2>4. CASE /\ One(p, "challenge") \/ One(p, "emptychallenge")
             /\ v.bits = c.bits /\ c.step < cfg.serverSteps
             /\ v.pc = "sasl" /\ q = <<>> /\ v.step = c.step
    <3>1. w.bits = v.bits /\ pp = p /\ Stops(w, qq)
      BY <2>4, WaitsKept DEF Restarts, Stops
    <3> QED
      BY <2>4, <3>1 DEF SaslPair
  <2>5. CASE /\ p = <<>> /\ v.bits = c.bits
             /\ \/ v.pc = "select" /\ One(q, "auth") /\ c.step = 1
                \/ v.pc = "sasl" /\ One(q, "response") /\ c.step = v.step + 1
    <3>1. /\ q # <<>> /\ q[1].kind \in {"auth", "response"} /\ Len(q) = 1
          /\ Selects(q[1].kind) = "sasl"
      BY <2>5 DEF One, Selects
    <3>2. CASE ServerFails(v, w, p, pp, q)
      BY <2>5, <3>1, <3>2 DEF SaslPair, ServerFails, Stops, Adds
    <3>3. CASE ServerChallenges(v, w, p, pp, q, qq)
      <4>1. qq = <<>> /\ (One(pp, "challenge") \/ One(pp, "emptychallenge"))
        BY <2>5, <3>1, <3>3 DEF ServerChallenges, Takes, Adds
      <4>2. w.step = c.step
        BY <2>5, <3>1, <3>3 DEF ServerChallenges, One
      <4> QED
        BY <2>5, <3>3, <4>1, <4>2 DEF SaslPair, ServerChallenges
    <3>4. CASE ServerAccepts(v, w, p, pp, q, qq)
      BY <2>5, <3>1, <3>4 DEF SaslPair, ServerAccepts, Idle, Takes, Adds
    <3> QED
      BY <2>5, <3>1, <3>2, <3>3, <3>4 DEF ServerMoves, ServerCalls, ServerLists,
         ServerBinds, ServerSecures, ServerOther
  <2> QED
    BY <2>1, <2>2, <2>3, <2>4, <2>5 DEF SaslPair
<1> QED
  BY <1>2, <1>3, <1>4, <1>5, <1>6, <1>7 DEF Sessions

\* What a step does to what the ends have to read, when both are modelled:
\* one that only writes ...
LEMMA Wrote ==
    ASSUME Inv, cfg.ends = Ends, NEW e \in Ends, NEW r
    PROVE  /\ Goes(e, r, <<>>) => \A x \in Ends : chan'[x] = chan[x]
           /\ \A a : Goes(e, r, <<a>>) =>
                /\ Adds(chan[Peer(e)], chan'[Peer(e)], a.kind)
                /\ chan'[e] = chan[e]
           /\ Broken(e, r) => \A x \in Ends : chan'[x] = chan[x]
<1>1. /\ Peer(e) \in Ends /\ Peer(e) # e
      /\ \A x \in Ends : chan[x] \in Seq(Messages)
      /\ \A x \in Ends : x = e \/ x = Peer(e)
  BY DEF Ends, Peer, Server, Inv, TypeOK
<1>2. ASSUME NEW a, Goes(e, r, <<a>>)
      PROVE  Adds(chan[Peer(e)], chan'[Peer(e)], a.kind) /\ chan'[e] = chan[e]
  <2>1. chan'[Peer(e)] = chan[Peer(e)] \o <<a>> /\ chan'[e] = chan[e]
    BY <1>1, <1>2 DEF Goes
  <2>2. \A q \in Seq(Messages) : Adds(q, q \o <<a>>, a.kind)
    BY DEF Adds, One
  <2> QED
    BY <1>1, <2>1, <2>2
<1>3. ASSUME Goes(e, r, <<>>)
      PROVE  \A x \in Ends : chan'[x] = chan[x]
  <2>1. \A q \in Seq(Messages) : q \o <<>> = q
    OBVIOUS
  <2> QED
    BY <1>1, <1>3, <2>1 DEF Goes
<1> QED
  BY <1>2, <1>3 DEF Broken

\* ... and one that reads m, the first of them.
LEMMA First ==
    ASSUME Inv, cfg.ends = Ends, NEW e \in Ends, NEW m \in Incoming(e)
    PROVE  chan[e] # <<>> /\ m = chan[e][1] /\ m.tls = s[e].tls
<1>1. Peer(e) \in Ends /\ chan[e] \in Seq(Messages)
  BY DEF Ends, Peer, Server, Inv, TypeOK
<1> QED
  BY <1>1 DEF Incoming

\* What is left to it and to its peer.
LEMMA TookAny ==
    ASSUME Inv, cfg.ends = Ends, NEW e \in Ends, NEW r, NEW m \in Incoming(e),
           NEW ms, Reads(e, r, ms)
    PROVE  /\ Takes(chan[e], chan'[e])
           /\ chan[Peer(e)] \in Seq(Messages)
           /\ chan'[Peer(e)] = chan[Peer(e)] \o ms
<1>1. /\ Peer(e) \in Ends /\ Peer(e) # e
      /\ \A x \in Ends : chan[x] \in Seq(Messages)
  BY DEF Ends, Peer, Server, Inv, TypeOK
<1>2. chan[e] # <<>>
  BY First
<1>3. ASSUME NEW q \in Seq(Messages), q # <<>>
      PROVE  Takes(q, Tail(q))
  <2>1. Len(Tail(q)) = Len(q) - 1 /\ Tail(q) \in Seq(Messages) /\ Len(q) \in Nat
    BY <1>3, HeadTailProperties, LenProperties
  <2>2. Len(q) = 1 => Tail(q) = <<>>
    <3>1. \A t \in Seq(Messages) : t # <<>> => Len(t) \in Nat \ {0}
      BY EmptySeq
    <3>2. PICK t : t = Tail(q)
      OBVIOUS
    <3>3. t \in Seq(Messages) /\ Len(t) = Len(q) - 1
      BY <2>1, <3>2
    <3>4. Len(q) = 1 => t = <<>>
      BY <2>1, <3>1, <3>3
    <3> QED
      BY <3>2, <3>4
  <2>3. Len(q) = 2 => Len(Tail(q)) = 1 /\ Tail(q)[1] = q[2]
    BY <2>1, SMTT(30)
  <2> QED
    BY <1>3, <2>2, <2>3 DEF Takes
<1>4. chan'[e] = Tail(chan[e]) /\ chan'[Peer(e)] = chan[Peer(e)] \o ms
  BY <1>1, <1>2 DEF Reads
<1> QED
  BY <1>1, <1>2, <1>3, <1>4

\* (With nothing written, one element or two.)
LEMMA TookNone ==
    ASSUME Inv, cfg.ends = Ends, NEW e \in Ends, NEW r, NEW m \in Incoming(e),
           Reads(e, r, <<>>)
    PROVE  Takes(chan[e], chan'[e]) /\ chan'[Peer(e)] = chan[Peer(e)]
<1>1. /\ Takes(chan[e], chan'[e]) /\ chan[Peer(e)] \in Seq(Messages)
      /\ chan'[Peer(e)] = chan[Peer(e)] \o <<>>
  BY TookAny
<1>2. \A q \in Seq(Messages) : q \o <<>> = q
  OBVIOUS
<1> QED
  BY <1>1, <1>2

\* (One.)
LEMMA TookOne ==
    ASSUME Inv, cfg.ends = Ends, NEW e \in Ends, NEW r, NEW m \in Incoming(e),
           NEW a, Reads(e, r, <<a>>)
    PROVE  /\ Takes(chan[e], chan'[e])
           /\ Adds(chan[Peer(e)], chan'[Peer(e)], a.kind)
<1>1. /\ Takes(chan[e], chan'[e]) /\ chan[Peer(e)] \in Seq(Messages)
      /\ chan'[Peer(e)] = chan[Peer(e)] \o <<a>>
  BY TookAny
<1>2. \A q \in Seq(Messages) : Adds(q, q \o <<a>>, a.kind)
  BY DEF Adds, One
<1> QED
  BY <1>1, <1>2

\* (Two.)
LEMMA TookTwo ==
    ASSUME Inv, cfg.ends = Ends, NEW e \in Ends, NEW r, NEW m \in Incoming(e),
           NEW a, NEW b, Reads(e, r, <<a, b>>)
    PROVE  /\ Takes(chan[e], chan'[e])
           /\ chan[Peer(e)] = <<>> => chan'[Peer(e)] = <<a, b>>
<1>1. Takes(chan[e], chan'[e]) /\ chan'[Peer(e)] = chan[Peer(e)] \o <<a, b>>
  BY TookAny
<1>2. <<>> \o <<a, b>> = <<a, b>>
  OBVIOUS
<1> QED
  BY <1>1, <1>2

\* The bits of a session are never taken back, and the feature that failed
\* ends the negotiation if it was one the session needs.
LEMMA NeededEnds ==
    ASSUME NEW e, NEW r \in Sessions, NEW t \in Sessions, DoneInv(e, t),
           t.pc \in {"select", "starttls", "sasl", "bind"},
           r.cache = t.cache, r.required = t.required, r.listReq = t.listReq,
           r.bits = t.bits, r.sel \in t.cache \cap Needed
    PROVE  /\ NotNegotiated(r).pc = "failed" /\ NotNegotiated(r).bits = r.bits
           /\ NotNegotiated(r).required = r.required
           /\ LET q == Negotiated(r, {"Secure"}, "tls")
              IN q.bits = r.bits \cup {"Secure"} /\ q.pc = "call" /\ q.doRestart
           /\ LET q == Negotiated(r, {"Authn"}, "conn")
              IN q.bits = r.bits \cup {"Authn"} /\ q.pc = "call" /\ q.doRestart
           /\ LET q == Negotiated(r, {"Ready"}, "nil")
              IN q.bits = r.bits \cup {"Ready"} /\ q.pc = "ready"
<1>1. r.sel \in r.required /\ r.listReq /\ "Ready" \notin r.bits /\ r.sel # "none"
  BY DEF DoneInv, Needed
<1>2. {"Secure"} \in SUBSET Bits /\ {"Authn"} \in SUBSET Bits /\ {"Ready"} \in SUBSET Bits
  BY DEF Bits
<1>3. /\ NotNegotiated(r).pc = "failed" /\ NotNegotiated(r).bits = r.bits
      /\ NotNegotiated(r).required = r.required
  BY <1>1, NotNegotiatedFields
<1>4. LET q == Negotiated(r, {"Secure"}, "tls")
      IN q.bits = r.bits \cup {"Secure"} /\ q.pc = "call" /\ q.doRestart
  <2> DEFINE q == Negotiated(r, {"Secure"}, "tls")
  <2>1. /\ q.pc = IF "Ready" \in q.bits THEN "ready" ELSE "call"
        /\ q.bits = r.bits \cup {"Secure"} \cup (IF r.listReq THEN {} ELSE {"Ready"})
        /\ q.doRestart = ("tls" # "nil")
    BY <1>1, <1>2, NegotiatedFields
  <2> HIDE DEF q
  <2>2. q.bits = r.bits \cup {"Secure"} /\ q.pc = "call" /\ q.doRestart
    BY <1>1, <2>1
  <2> QED
    BY <2>2 DEF q
<1>5. LET q == Negotiated(r, {"Authn"}, "conn")
      IN q.bits = r.bits \cup {"Authn"} /\ q.pc = "call" /\ q.doRestart
  <2> DEFINE q == Negotiated(r, {"Authn"}, "conn")
  <2>1. /\ q.pc = IF "Ready" \in q.bits THEN "ready" ELSE "call"
        /\ q.bits = r.bits \cup {"Authn"} \cup (IF r.listReq THEN {} ELSE {"Ready"})
        /\ q.doRestart = ("conn" # "nil")
    BY <1>1, <1>2, NegotiatedFields
  <2> HIDE DEF q
  <2>2. q.bits = r.bits \cup {"Authn"} /\ q.pc = "call" /\ q.doRestart
    BY <1>1, <2>1
  <2> QED
    BY <2>2 DEF q
<1>6. LET q == Negotiated(r, {"Ready"}, "nil")
      IN q.bits = r.bits \cup {"Ready"} /\ q.pc = "ready"
  <2> DEFINE q == Negotiated(r, {"Ready"}, "nil")
  <2>1. /\ q.pc = IF "Ready" \in q.bits THEN "ready" ELSE "call"
        /\ q.bits = r.bits \cup {"Ready"} \cup (IF r.listReq THEN {} ELSE {"Ready"})
    BY <1>1, <1>2, NegotiatedFields
  <2> HIDE DEF q
  <2>2. q.bits = r.bits \cup {"Ready"} /\ q.pc = "ready"
    BY <1>1, <2>1
  <2> QED
    BY <2>2 DEF q
<1> QED
  BY <1>3, <1>4, <1>5, <1>6

\* One turn of negotiateServer, from either place.
LEMMA SaslMoves ==
    ASSUME Inv, cfg.ends = Ends, NEW v, v = s["server"], DoneInv("server", v),
           v.pc \in {"select", "sasl"}, NEW r \in Sessions, r.sel = "sasl",
           "sasl" \in v.cache, r.cache = v.cache, r.required = v.required,
           r.listReq = v.listReq, r.bits = v.bits,
           v.pc = "select" => r.step = 0, v.pc = "sasl" => r.step = v.step,
           NEW m \in Incoming("server"), Selects(m.kind) = "sasl" \/ v.pc = "sasl",
           ServerSasl("server", r, m.kind)
    PROVE  ServerMoves(v, s'["server"], chan["client"], chan'["client"],
                       chan["server"], chan'["server"])
<1> DEFINE q == [r EXCEPT !.pc = "sasl", !.step = IF m.kind = "auth" THEN 1 ELSE @ + 1]
           n == NotNegotiated(r)
           t == Negotiated(q, {"Authn"}, "conn")
           e == "server"
<1>1. e \in Ends /\ Peer(e) = "client" /\ v \in Sessions
      /\ cfg.challenge \in {"challenge", "emptychallenge"}
  <2>1. e \in Ends
    BY DEF Ends
  <2> QED
    BY <2>1, Session DEF Peer, Server, ConfigSet
<1>2. /\ q \in Sessions /\ q.sel = r.sel /\ q.bits = r.bits /\ q.cache = r.cache
      /\ q.required = r.required /\ q.listReq = r.listReq /\ q.pc = "sasl"
      /\ q.step = IF m.kind = "auth" THEN 1 ELSE r.step + 1
  <2> DEFINE j == IF m.kind = "auth" THEN 1 ELSE r.step + 1
  <2>1. j \in Nat
    BY DEF Sessions
  <2>2. q = [r EXCEPT !.pc = "sasl", !.step = j]
    BY DEF Sessions
  <2> HIDE DEF j, q
  <2>3. /\ q \in Sessions /\ q.sel = r.sel /\ q.bits = r.bits /\ q.cache = r.cache
        /\ q.required = r.required /\ q.listReq = r.listReq /\ q.pc = "sasl"
        /\ q.step = j
    BY <2>1, <2>2 DEF Sessions
  <2> QED
    BY <2>3 DEF j
<1>3. \/ Reads(e, n, <<>>)
      \/ Reads(e, n, <<Elem(r, "failure")>>)
      \/ /\ m.kind = "auth" \/ (m.kind = "response" /\ r.step > 0)
         /\ \/ q.step < cfg.serverSteps /\ Reads(e, q, <<Elem(q, cfg.challenge)>>)
            \/ Reads(e, t, <<Elem(q, "success")>>)
  BY DEF ServerSasl
<1>4. /\ Elem(r, "failure").kind = "failure" /\ Elem(q, "success").kind = "success"
      /\ Elem(q, cfg.challenge).kind = cfg.challenge
  BY DEF Elem, Message
<1> HIDE DEF q
<1>5. /\ n.pc = "failed" /\ n.bits = v.bits
      /\ t.bits = v.bits \cup {"Authn"} /\ t.pc = "call" /\ t.doRestart
  BY <1>1, <1>2, NeededEnds, SMTT(30) DEF Needed
<1> HIDE DEF n, t
<1>6. chan[e] # <<>> /\ m = chan[e][1]
  BY <1>1, First
<1>7. CASE Reads(e, n, <<>>) \/ Reads(e, n, <<Elem(r, "failure")>>)
  <2>1. s'[e] = n
    BY <1>1, <1>7, Moved
  <2>2. \/ chan'["client"] = chan["client"]
        \/ Adds(chan["client"], chan'["client"], "failure")
    BY <1>1, <1>4, <1>7, TookNone, TookOne
  <2> QED
    BY <1>5, <1>6, <2>1, <2>2 DEF ServerMoves, ServerFails
<1>8. CASE /\ m.kind = "auth" \/ (m.kind = "response" /\ r.step > 0)
           /\ q.step < cfg.serverSteps /\ Reads(e, q, <<Elem(q, cfg.challenge)>>)
  <2>1. s'[e] = q
    BY <1>1, <1>8, Moved
  <2>2. /\ Takes(chan[e], chan'[e])
        /\ Adds(chan["client"], chan'["client"], cfg.challenge)
    BY <1>1, <1>4, <1>8, TookOne
  <2>3. ServerChallenges(v, q, chan["client"], chan'["client"], chan[e], chan'[e])
    BY <1>1, <1>2, <1>6, <1>8, <2>2 DEF ServerChallenges
  <2> QED
    BY <1>2, <2>1, <2>3 DEF ServerMoves
<1>9. CASE /\ m.kind = "auth" \/ (m.kind = "response" /\ r.step > 0)
           /\ Reads(e, t, <<Elem(q, "success")>>)
  <2>1. s'[e] = t
    BY <1>1, <1>9, Moved
  <2>2. /\ Takes(chan[e], chan'[e])
        /\ Adds(chan["client"], chan'["client"], "success")
    BY <1>1, <1>4, <1>9, TookOne
  <2>3. ServerAccepts(v, t, chan["client"], chan'["client"], chan[e], chan'[e])
    BY <1>1, <1>5, <1>6, <1>9, <2>2 DEF ServerAccepts, Restarts
  <2> QED
    BY <1>5, <2>1, <2>3 DEF ServerMoves
<1> QED
  BY <1>3, <1>7, <1>8, <1>9

\* The receiving entity's choice of what to do with a feature.
LEMMA SelectMoves ==
    ASSUME Inv, cfg.ends = Ends, NEW v, v = s["server"], DoneInv("server", v),
           ServerSelect("server")
    PROVE  ServerMoves(v, s'["server"], chan["client"], chan'["client"],
                       chan["server"], chan'["server"])
<1> DEFINE e == "server"
<1>1. e \in Ends /\ Peer(e) = "client" /\ v \in Sessions /\ v.pc = "select" /\ Good(e, v)
  <2>1. e \in Ends
    BY DEF Ends
  <2> QED
    BY <2>1, Session DEF Peer, Server, ServerSelect
<1>2. Fail(v).pc = "failed" /\ Fail(v).bits = v.bits
  BY <1>1 DEF Fail, Sessions
<1>3. CASE Broken(e, Fail(v))
  <2>1. s'[e] = Fail(v) /\ chan'["client"] = chan["client"]
    BY <1>1, <1>3, Moved DEF Broken
  <2> QED
    BY <1>1, <1>2, <2>1 DEF ServerMoves, ServerFails
<1>3a. CASE Goes(e, Fail(v), <<>>)
  <2>1. s'[e] = Fail(v)
    BY <1>1, <1>3a, Moved
  <2>2. s'[e] = Fail(v) /\ chan'["client"] = chan["client"]
    BY <1>1, <1>3a, <2>1, Wrote DEF Ends
  <2> QED
    BY <1>1, <1>2, <2>2 DEF ServerMoves, ServerFails
<1>4. CASE ~Broken(e, Fail(v)) /\ ~Goes(e, Fail(v), <<>>)
  <2>1. PICK m \in Incoming(e) :
            LET f == Selects(m.kind)
                r == Chosen(v, f, 0)
            IN \/ ~Allowed(r, f) /\ Reads(e, Fail(v), <<>>)
               \/ Allowed(r, f) /\ f = "starttls" /\ ServerStartTLS(e, r)
               \/ Allowed(r, f) /\ f = "sasl" /\ ServerSasl(e, r, m.kind)
               \/ Allowed(r, f) /\ f = "bind" /\ ServerBind(e, r)
               \/ Allowed(r, f) /\ f \in {"ver", "bidi"} /\ ServerNothing(e, r)
    BY <1>4 DEF ServerSelect
  <2>2. chan[e] # <<>> /\ m = chan[e][1]
    BY <1>1, First
  <2> DEFINE f == Selects(m.kind)
             r == Chosen(v, f, 0)
  <2>3. CASE Reads(e, Fail(v), <<>>)
    <3>1. s'[e] = Fail(v) /\ chan'["client"] = chan["client"]
      BY <1>1, <2>3, Moved, TookNone
    <3> QED
      BY <1>1, <1>2, <3>1 DEF ServerMoves, ServerFails
  <2>4. CASE Allowed(r, f)
    <3>1. /\ r.bits = v.bits /\ r.cache = v.cache /\ r.required = v.required
          /\ r.listReq = v.listReq /\ r.sel = f
      BY <1>1, ChosenFields
    <3>2. f \in v.cache
      BY <2>4, <3>1 DEF Allowed
    <3>3. r \in Sessions /\ r.step = 0
      BY <1>1, <3>2 DEF Chosen, Sessions
    <3>4. \/ f = "starttls" /\ Reads(e, Negotiated(r, {"Secure"}, "tls"), <<Elem(r, "proceed")>>)
          \/ f = "sasl" /\ ServerSasl(e, r, m.kind)
          \/ f = "bind" /\ Reads(e, Negotiated(r, {"Ready"}, "nil"), <<Elem(r, "bindresult")>>)
          \/ f = "bind" /\ Reads(e, NotNegotiated(r), <<>>)
          \/ f \in {"ver", "bidi"} /\ Reads(e, Negotiated(Inside(r), {}, "nil"), <<>>)
      BY <2>1, <2>4 DEF ServerStartTLS, ServerBind, ServerNothing
    <3>5. Elem(r, "proceed").kind = "proceed" /\ Elem(r, "bindresult").kind = "bindresult"
      BY DEF Elem, Message
    <3>6. f = Selects(m.kind)
      OBVIOUS
    <3> HIDE DEF f, r
    <3>7. CASE f = "starttls" /\ Reads(e, Negotiated(r, {"Secure"}, "tls"), <<Elem(r, "proceed")>>)
      <4> DEFINE t == Negotiated(r, {"Secure"}, "tls")
      <4>1. t.bits = v.bits \cup {"Secure"} /\ t.pc = "call" /\ t.doRestart
        BY <1>1, <3>1, <3>2, <3>3, <3>7, NeededEnds DEF Needed
      <4> HIDE DEF t
      <4>2. s'[e] = t
        BY <1>1, <3>7, Moved DEF t
      <4>3. /\ Takes(chan[e], chan'[e])
            /\ Adds(chan["client"], chan'["client"], "proceed")
        BY <1>1, <3>5, <3>7, TookOne
      <4>4. ServerSecures(v, t, chan["client"], chan'["client"], chan[e], chan'[e])
        BY <1>1, <2>2, <3>6, <3>7, <4>1, <4>3 DEF ServerSecures, Restarts
      <4> QED
        BY <4>1, <4>2, <4>4 DEF ServerMoves
    <3>8. CASE f = "sasl" /\ ServerSasl(e, r, m.kind)
      BY <1>1, <3>1, <3>2, <3>3, <3>6, <3>8, SaslMoves
    <3>9. CASE f = "bind" /\ Reads(e, Negotiated(r, {"Ready"}, "nil"), <<Elem(r, "bindresult")>>)
      <4> DEFINE t == Negotiated(r, {"Ready"}, "nil")
      <4>1. t.bits = v.bits \cup {"Ready"} /\ t.pc = "ready"
        BY <1>1, <3>1, <3>2, <3>3, <3>9, NeededEnds DEF Needed
      <4> HIDE DEF t
      <4>2. s'[e] = t
        BY <1>1, <3>9, Moved DEF t
      <4>3. /\ Takes(chan[e], chan'[e])
            /\ Adds(chan["client"], chan'["client"], "bindresult")
        BY <1>1, <3>5, <3>9, TookOne
      <4>4. ServerBinds(v, t, chan["client"], chan'["client"], chan[e], chan'[e])
        BY <1>1, <2>2, <3>6, <3>9, <4>1, <4>3 DEF ServerBinds
      <4> QED
        BY <4>1, <4>2, <4>4 DEF ServerMoves
    <3>10. CASE f = "bind" /\ Reads(e, NotNegotiated(r), <<>>)
      <4> DEFINE t == NotNegotiated(r)
      <4>1. t.bits = v.bits /\ t.pc = "failed"
        BY <1>1, <3>1, <3>2, <3>3, <3>10, NeededEnds DEF Needed
      <4> HIDE DEF t
      <4>2. s'[e] = t /\ chan'["client"] = chan["client"]
        BY <1>1, <3>10, Moved, TookNone DEF t
      <4> QED
        BY <1>1, <4>1, <4>2 DEF ServerMoves, ServerFails
    <3>11. CASE f \in {"ver", "bidi"} /\ Reads(e, Negotiated(Inside(r), {}, "nil"), <<>>)
      <4> DEFINE p == Inside(r)
                 t == Negotiated(p, {}, "nil")
      <4>1. v.bits \subseteq t.bits
        <5>1. {} \in SUBSET Bits /\ r.sel # "none"
          BY <3>1, <3>11
        <5>2. p \in Sessions /\ p.sel = r.sel /\ p.bits = r.bits
          BY <3>3 DEF Inside, Sessions
        <5> HIDE DEF p
        <5> QED
          BY <3>1, <5>1, <5>2, NegotiatedFields
      <4> HIDE DEF t
      <4>2. s'[e] = t
        BY <1>1, <3>11, Moved DEF t
      <4> QED
        BY <1>1, <2>2, <3>6, <3>11, <4>1, <4>2 DEF ServerMoves, ServerOther
    <3> QED
      BY <3>4, <3>7, <3>8, <3>9, <3>10, <3>11
  <2> QED
    BY <2>1, <2>3, <2>4
<1> QED
  BY <1>3, <1>3a, <1>4

\* Every step of the receiving entity.
LEMMA ServerStep ==
    ASSUME Inv, cfg.ends = Ends, Needed \subseteq cfg.server,
           NEW v, v = s["server"], DoneInv("server", v), EndStep("server")
    PROVE  ServerMoves(v, s'["server"], chan["client"], chan'["client"],
                       chan["server"], chan'["server"])
<1> DEFINE e == "server"
<1>1. /\ e \in Ends /\ Server(e) /\ Peer(e) = "client" /\ v \in Sessions /\ Good(e, v)
      /\ Features(e) = cfg.server
  <2>1. e \in Ends
    BY DEF Ends
  <2> QED
    BY <2>1, Session DEF Peer, Server, Features
<1>2. Fail(v).pc = "failed" /\ Fail(v).bits = v.bits
  BY <1>1 DEF Fail, Sessions
<1>3. CASE InsertTee(e)
  <2> DEFINE t == [v EXCEPT !.tee = TRUE, !.data = TRUE, !.negotiated = {}]
  <2>1. t.bits = v.bits /\ t.pc = v.pc /\ t.doRestart = v.doRestart
    BY <1>1 DEF Sessions
  <2> HIDE DEF t
  <2>2. s'[e] = t /\ \A x \in Ends : chan'[x] = chan[x]
    BY <1>1, <1>3, Moved, Wrote DEF InsertTee, t
  <2> QED
    BY <1>1, <1>3, <2>1, <2>2 DEF ServerMoves, ServerCalls, Restarts, InsertTee, Ends
<1>4. CASE StartStream(e)
  <2> DEFINE t == [v EXCEPT !.pc = "expect"]
  <2>1. t.bits = v.bits /\ t.pc = "expect" /\ t.doRestart = v.doRestart
    BY <1>1 DEF Sessions
  <2> HIDE DEF t
  <2>2. s'[e] = t /\ \A x \in Ends : chan'[x] = chan[x]
    BY <1>1, <1>4, Moved, Wrote DEF StartStream, t
  <2> QED
    BY <1>1, <1>4, <2>1, <2>2 DEF ServerMoves, ServerCalls, Restarts, StartStream, ReadyToTalk, Ends
<1>5. CASE SameStream(e)
  <2>1. WriteList(v, e).bits = v.bits
    BY <1>1 DEF WriteList, Sessions
  <2>2. s'[e] = WriteList(v, e) /\ v.pc = "call" /\ ~v.doRestart
    BY <1>1, <1>5, Moved DEF SameStream, ReadyToTalk
  <2> QED
    BY <2>1, <2>2 DEF ServerMoves, ServerCalls
<1>6. CASE Expect(e)
  <2>0. v.pc = "expect"
    BY <1>6 DEF Expect
  <2>1. CASE Broken(e, Fail(v))
    <3>1. s'[e] = Fail(v) /\ chan'["client"] = chan["client"]
      BY <1>1, <2>1, Moved DEF Broken
    <3> QED
      BY <2>0, <1>2, <3>1 DEF ServerMoves, ServerFails
  <2>2. CASE ~Broken(e, Fail(v))
    <3>1. PICK m \in Incoming(e) :
            IF ~IsHeader(m) THEN Reads(e, Fail(v), <<>>)
            ELSE LET r == Addressed(v, m)
                 IN IF ~(SameOrigin(e, m) /\ SameLocation(e, m)) THEN Reads(e, Fail(r), <<>>)
                    ELSE Reads(e, WriteList(r, e),
                               <<Header(r, r.to, r.from), FeatureList(r, Listed(r, e), TRUE)>>)
      BY <1>1, <1>6, <2>2 DEF Expect
    <3> DEFINE r == Addressed(v, m)
               h == Header(r, r.to, r.from)
               l == FeatureList(r, Listed(r, e), TRUE)
               t == WriteList(r, e)
    <3>2. r \in Sessions /\ r.bits = v.bits
      <4>1. m \in Messages
        BY <1>1, <3>1, IncomingType
      <4>2. Good(e, r)
        BY <1>1, <4>1, FromGood
      <4> QED
        BY <1>1, <4>2 DEF Good, Sessions, Addressed
    <3>3. chan[e] # <<>> /\ m = chan[e][1]
      BY <1>1, First
    <3>4. \/ Reads(e, Fail(v), <<>>) \/ Reads(e, Fail(r), <<>>)
          \/ IsHeader(m) /\ Reads(e, t, <<h, l>>)
      BY <3>1
    <3> HIDE DEF r
    <3>5. Fail(r).pc = "failed" /\ Fail(r).bits = v.bits
      BY <3>2 DEF Fail, Sessions
    <3>6. CASE Reads(e, Fail(v), <<>>) \/ Reads(e, Fail(r), <<>>)
      <4>1. s'[e] = Fail(v) \/ s'[e] = Fail(r)
        BY <1>1, <3>6, Moved
      <4>2. chan'["client"] = chan["client"]
        BY <1>1, <3>6, TookNone
      <4> QED
        BY <2>0, <1>2, <3>5, <4>1, <4>2 DEF ServerMoves, ServerFails
    <3>7. CASE IsHeader(m) /\ Reads(e, t, <<h, l>>)
      <4>1. t.pc = "select" /\ t.bits = v.bits
        BY <3>2 DEF WriteList, Sessions
      <4>2. h.kind = "header" /\ l.kind = "features" /\ l.required /\ l.names = Listed(r, e)
        BY DEF Header, FeatureList, Message
      <4>3. \A f \in Needed : Possible(v, f) => f \in l.names
        BY <1>1, <3>2, <4>2, PossibleBits, ZenonT(30) DEF Listed
      <4> HIDE DEF t, h, l
      <4>4. s'[e] = t
        BY <1>1, <3>7, Moved
      <4>5. /\ Takes(chan[e], chan'[e])
            /\ chan["client"] = <<>> => chan'["client"] = <<h, l>>
        BY <1>1, <3>7, TookTwo
      <4>6. ServerLists(v, t, chan["client"], chan'["client"], chan[e], chan'[e])
        BY <2>0, <3>3, <3>7, <4>1, <4>2, <4>3, <4>5 DEF ServerLists, IsHeader
      <4> QED
        BY <4>1, <4>4, <4>6 DEF ServerMoves
    <3> QED
      BY <3>4, <3>6, <3>7
  <2> QED
    BY <2>1, <2>2
<1>7. CASE ServerSelect(e)
  BY <1>7, SelectMoves
<1>8. CASE ServerSaslNext(e)
  <2>1. /\ v.sel = "sasl" /\ "sasl" \in v.cache /\ v.pc = "sasl"
    BY <1>1, <1>8 DEF ServerSaslNext, Good, ChoiceInv, ServerInv
  <2>2. CASE Broken(e, NotNegotiated(v))
    <3>1. s'[e] = NotNegotiated(v) /\ chan'["client"] = chan["client"]
      BY <1>1, <2>2, Moved DEF Broken
    <3>2. NotNegotiated(v).pc = "failed" /\ NotNegotiated(v).bits = v.bits
      BY <1>1, <2>1, NeededEnds DEF Needed
    <3> QED
      BY <2>1, <3>1, <3>2 DEF ServerMoves, ServerFails
  <2>3. CASE \E m \in Incoming(e) : ServerSasl(e, v, m.kind)
    BY <1>1, <2>1, <2>3, SaslMoves
  <2> QED
    BY <1>8, <2>2, <2>3 DEF ServerSaslNext
<1>9. ~(ReadFeatures(e) \/ ClientSelect(e) \/ TLSAnswer(e) \/ BindAnswer(e) \/ ClientSasl(e))
  BY <1>1 DEF ReadFeatures, ClientSelect, TLSAnswer, BindAnswer, ClientSasl, Good, ServerInv
<1> QED
  BY <1>3, <1>4, <1>5, <1>6, <1>7, <1>8, <1>9 DEF EndStep

\* A step of the client from c to d.
ClientCalls(c, d, p, pp, q, qq) ==
    /\ c.pc = "call"
    /\ c.doRestart => /\ d.bits = c.bits /\ d.negotiated \subseteq c.negotiated /\ pp = p
                      /\ \/ d.pc = "call" /\ d.doRestart /\ qq = q
                         \/ d.pc = "expect" /\ Adds(q, qq, "header")
ClientFails(c, d) == d.pc = "failed" /\ d.bits = c.bits
ClientHears(c, d, p, pp, q, qq) ==
    /\ c.pc = "expect" /\ Takes(p, pp) /\ p[1].kind = "header" /\ qq = q
    /\ d.pc = "features" /\ d.bits = c.bits /\ d.negotiated = c.negotiated
ClientReads(c, d, p, pp, q, qq) ==
    /\ c.pc = "features" /\ Takes(p, pp)
    /\ \/ p[1].names = {}
       \/ "Secure" \notin c.bits /\ "starttls" \notin p[1].names
       \/ /\ d.pc = "select" /\ d.bits = c.bits /\ d.negotiated = c.negotiated
          /\ d.cache = {f \in p[1].names \cap cfg.client : Possible(c, f)}
          /\ qq = q
ClientChooses(c, d, p, pp, q, qq) ==
    /\ c.pc = "select" /\ pp = p
    /\ \/ (c.cache \ c.negotiated) \cap Needed = {}
       \/ /\ d.bits = c.bits /\ d.negotiated = c.negotiated
          /\ \/ d.pc = "starttls" /\ Adds(q, qq, "starttls")
             \/ d.pc = "sasl" /\ d.step = 1 /\ Adds(q, qq, "auth")
             \/ d.pc = "bind" /\ Adds(q, qq, "bindiq")
       \/ /\ d.pc = "select" /\ d.bits = c.bits /\ d.cache = c.cache
          /\ d.negotiated \subseteq c.negotiated \cup {"ver", "bidi"}
          /\ qq = q \/ Adds(q, qq, "bidi")
Again(d) == d.pc = "call" /\ d.doRestart /\ d.negotiated = {}
ClientSecured(c, d, p, pp, q, qq) ==
    /\ c.pc = "starttls" /\ Takes(p, pp) /\ p[1].kind = "proceed" /\ qq = q
    /\ Again(d) /\ d.bits = c.bits \cup {"Secure"}
ClientBound(c, d, p, pp, q, qq) ==
    /\ c.pc = "bind" /\ Takes(p, pp) /\ p[1].kind = "bindresult" /\ qq = q
    /\ d.pc = "ready" /\ d.bits = c.bits \cup {"Ready"}
ClientAccepted(c, d, p, pp, q, qq) ==
    /\ c.pc = "sasl" /\ Takes(p, pp)
    /\ Again(d) /\ d.bits = c.bits \cup {"Authn"}
    /\ \/ p[1].kind = "success" /\ qq = q
       \/ /\ p[1].kind = "challenge" /\ cfg.clientSteps # 1
          /\ c.step + 1 >= cfg.clientSteps
ClientResponds(c, d, p, pp, q, qq) ==
    /\ c.pc = "sasl" /\ Takes(p, pp) /\ p[1].kind \in {"challenge", "success"}
    /\ d.pc = "sasl" /\ d.bits = c.bits /\ d.negotiated = c.negotiated
    /\ d.step = c.step + 1 /\ Adds(q, qq, "response")
ClientMoves(c, d, p, pp, q, qq) ==
    /\ d.required \subseteq Needed
    /\ \/ ClientCalls(c, d, p, pp, q, qq)
       \/ ClientFails(c, d)
       \/ ClientHears(c, d, p, pp, q, qq)
       \/ ClientReads(c, d, p, pp, q, qq)
       \/ ClientChooses(c, d, p, pp, q, qq)
       \/ ClientSecured(c, d, p, pp, q, qq)
       \/ ClientBound(c, d, p, pp, q, qq)
       \/ ClientAccepted(c, d, p, pp, q, qq)
       \/ ClientResponds(c, d, p, pp, q, qq)

\* A server that fails at what it reads next does so whatever follows.
LEMMA StopsAdds ==
    ASSUME NEW v, NEW q, NEW qq, NEW k, Stops(v, q), Adds(q, qq, k)
    PROVE  Stops(v, qq)
BY DEF Stops, Adds

\* An element is not none.
LEMMA OneSome ==
    ASSUME NEW q, NEW k, One(q, k)
    PROVE  q # <<>> /\ q[1].kind = k /\ Len(q) = 1
BY DEF One

\* The bits of the client are among the server's.
LEMMA PairBits ==
    ASSUME NEW c \in Sessions, NEW v, NEW p, NEW q, Pair(c, v, p, q)
    PROVE  c.bits \subseteq v.bits
<1>1. CASE c.pc \in {"call", "features", "select", "ready", "failed"}
  BY <1>1 DEF Pair
<1>2. CASE c.pc = "expect"
  BY <1>2 DEF Pair, ExpectPair
<1>3. CASE c.pc = "starttls"
  BY <1>3 DEF Pair, TLSPair
<1>4. CASE c.pc = "bind"
  BY <1>4 DEF Pair, BindPair
<1>5. CASE c.pc = "sasl"
  BY <1>5 DEF Pair, SaslPair
<1> QED
  BY <1>1, <1>2, <1>3, <1>4, <1>5 DEF Sessions

\* A list with a feature that the session needs and can negotiate is not
\* empty, and has StartTLS if that comes next.
LEMMA FreshList ==
    ASSUME NEW c, NEW m, Fresh(c, m), "Authn" \in c.bits => "Secure" \in c.bits
    PROVE  m.names # {} /\ ("Secure" \notin c.bits => "starttls" \in m.names)
<1>1. PICK f \in Needed \cap m.names : Possible(c, f)
  BY DEF Fresh
<1>2. f = "sasl" => "Secure" \in c.bits
  BY <1>1 DEF Possible, Necessary, getFeature, newSASL, StreamFeature
<1>3. f = "bind" => "Authn" \in c.bits
  BY <1>1 DEF Possible, Necessary, getFeature, bind, StreamFeature
<1> QED
  BY <1>1, <1>2, <1>3 DEF Needed

\* The table is kept by the client.
LEMMA ClientPair ==
    ASSUME NEW c \in Sessions, NEW d, NEW v, NEW p, NEW pp, NEW q, NEW qq,
           Pair(c, v, p, q), ClientMoves(c, d, p, pp, q, qq),
           "Authn" \in c.bits => "Secure" \in c.bits,
           Needed \subseteq cfg.client,
           cfg.clientSteps \in Nat, cfg.serverSteps \in Nat,
           cfg.clientSteps = 1 \/ cfg.clientSteps > cfg.serverSteps
    PROVE  Pair(d, v, pp, qq)
<1>1. d.required \subseteq Needed /\ c.step \in Nat
  BY DEF ClientMoves, Sessions
<1>2. c.pc \notin {"ready", "failed"} => c.negotiated \cap Needed = {}
  BY DEF Pair
<1>3. CASE ClientFails(c, d)
  <2>1. c.bits \subseteq v.bits
    BY PairBits
  <2> QED
    BY <1>1, <1>3, <2>1 DEF Pair, ClientFails
<1>4. CASE ClientCalls(c, d, p, pp, q, qq)
  <2>1. /\ p = <<>> /\ pp = p /\ v.bits = c.bits /\ d.bits = c.bits /\ Idle(v, q)
        /\ d.negotiated \cap Needed = {}
        /\ \/ d.pc = "call" /\ d.doRestart /\ qq = q
           \/ d.pc = "expect" /\ Adds(q, qq, "header")
    BY <1>2, <1>4 DEF ClientCalls, Pair
  <2>2. CASE d.pc = "call"
    BY <1>1, <2>1, <2>2 DEF Pair
  <2>3. CASE d.pc = "expect"
    <3>1. Stops(v, qq) \/ (Restarts(v) /\ One(qq, "header"))
      BY <2>1, <2>3, StopsAdds DEF Idle, Adds
    <3>2. ExpectPair(d, v, pp, qq)
      BY <2>1, <3>1 DEF ExpectPair
    <3> QED
      BY <1>1, <2>1, <2>3, <3>2 DEF Pair
  <2> QED
    BY <2>1, <2>2, <2>3
<1>5. CASE ClientHears(c, d, p, pp, q, qq)
  <2>1. /\ c.pc = "expect" /\ Takes(p, pp) /\ qq = q
        /\ d.pc = "features" /\ d.bits = c.bits /\ d.negotiated = c.negotiated
    BY <1>5 DEF ClientHears
  <2>2. v.bits = c.bits /\ Len(p) = 2 /\ Fresh(c, p[2]) /\ Listens(v, q)
    BY <2>1 DEF Pair, ExpectPair, Takes
  <2>3. Len(pp) = 1 /\ pp[1] = p[2]
    BY <2>1, <2>2 DEF Takes
  <2>4. Fresh(d, pp[1])
    BY <2>1, <2>2, <2>3, PossibleBits DEF Fresh
  <2> QED
    BY <1>1, <1>2, <2>1, <2>2, <2>3, <2>4 DEF Pair
<1>6. CASE ClientReads(c, d, p, pp, q, qq)
  <2>1. /\ c.pc = "features" /\ Takes(p, pp)
        /\ v.bits = c.bits /\ Len(p) = 1 /\ Fresh(c, p[1]) /\ Listens(v, q)
    BY <1>6 DEF Pair, ClientReads
  <2>2. /\ d.pc = "select" /\ d.bits = c.bits /\ d.negotiated = c.negotiated
        /\ d.cache = {f \in p[1].names \cap cfg.client : Possible(c, f)}
        /\ qq = q
    BY <1>6, <2>1, FreshList DEF ClientReads
  <2>3. d.cache \cap Needed # {}
    BY <2>1, <2>2 DEF Fresh
  <2>4. pp = <<>>
    BY <2>1 DEF Takes
  <2> QED
    BY <1>1, <1>2, <2>1, <2>2, <2>3, <2>4 DEF Pair
<1>7. CASE ClientChooses(c, d, p, pp, q, qq)
  <2>1. /\ c.pc = "select" /\ v.bits = c.bits /\ p = <<>> /\ pp = p /\ Listens(v, q)
        /\ c.cache \cap Needed # {} /\ c.negotiated \cap Needed = {}
    BY <1>7 DEF Pair, ClientChooses
  <2>2. \A k : Adds(q, qq, k) => Asked(v, qq, k)
    BY <2>1, StopsAdds DEF Listens, Asked, Adds
  <2>3. CASE /\ d.bits = c.bits /\ d.negotiated = c.negotiated
             /\ \/ d.pc = "starttls" /\ Adds(q, qq, "starttls")
                \/ d.pc = "bind" /\ Adds(q, qq, "bindiq")
    BY <1>1, <2>1, <2>2, <2>3 DEF Pair, TLSPair, BindPair
  <2>4. CASE /\ d.bits = c.bits /\ d.negotiated = c.negotiated
             /\ d.pc = "sasl" /\ d.step = 1 /\ Adds(q, qq, "auth")
    <3>1. SaslPair(d, v, pp, qq)
      BY <2>1, <2>2, <2>4 DEF SaslPair, Asked
    <3> QED
      BY <1>1, <2>1, <2>4, <3>1 DEF Pair
  <2>5. CASE /\ d.pc = "select" /\ d.bits = c.bits /\ d.cache = c.cache
             /\ d.negotiated \subseteq c.negotiated \cup {"ver", "bidi"}
             /\ qq = q \/ Adds(q, qq, "bidi")
    <3>1. d.negotiated \cap Needed = {}
      BY <2>1, <2>5 DEF Needed
    <3>2. Listens(v, qq)
      <4>1. CASE qq = q
        BY <2>1, <4>1
      <4>2. CASE Adds(q, qq, "bidi")
        BY <2>2, <4>2, OneSome DEF Asked, Listens, Stops
      <4> QED
        BY <2>5, <4>1, <4>2
    <3> QED
      BY <1>1, <2>1, <2>5, <3>1, <3>2 DEF Pair
  <2>6. (c.cache \ c.negotiated) \cap Needed # {}
    BY <2>1
  <2> QED
    BY <1>7, <2>3, <2>4, <2>5, <2>6 DEF ClientChooses
<1>8. CASE ClientSecured(c, d, p, pp, q, qq)
  <2>1. /\ c.pc = "starttls" /\ Takes(p, pp) /\ p[1].kind = "proceed" /\ qq = q
        /\ Again(d) /\ d.bits = c.bits \cup {"Secure"}
    BY <1>8 DEF ClientSecured
  <2>2. One(p, "proceed") /\ v.bits = d.bits /\ Idle(v, q)
    BY <2>1 DEF Pair, TLSPair, Takes
  <2>3. pp = <<>>
    BY <2>1, <2>2 DEF Takes, One
  <2> QED
    BY <1>1, <2>1, <2>2, <2>3 DEF Pair, Again
<1>9. CASE ClientBound(c, d, p, pp, q, qq)
  <2>1. v.bits = d.bits /\ d.pc = "ready"
    BY <1>9 DEF ClientBound, Pair, BindPair, Takes
  <2> QED
    BY <1>1, <2>1 DEF Pair
<1>10. CASE ClientAccepted(c, d, p, pp, q, qq)
  <2>1. /\ c.pc = "sasl" /\ Takes(p, pp) /\ SaslPair(c, v, p, q) /\ p # <<>>
        /\ Again(d) /\ d.bits = c.bits \cup {"Authn"}
    BY <1>10 DEF ClientAccepted, Pair, Takes
  <2>2. CASE p[1].kind = "success" /\ qq = q
    <3>1. One(p, "success") /\ v.bits = d.bits /\ Idle(v, q)
      BY <2>1, <2>2 DEF SaslPair, One
    <3>2. pp = <<>>
      BY <2>1, <3>1 DEF Takes, One
    <3> QED
      BY <1>1, <2>1, <2>2, <3>1, <3>2 DEF Pair, Again
  <2>3. CASE /\ p[1].kind = "challenge" /\ cfg.clientSteps # 1
             /\ c.step + 1 >= cfg.clientSteps
    <3>1. c.step < cfg.serverSteps
      BY <2>1, <2>3 DEF SaslPair, One
    <3> QED
      BY <1>1, <2>3, <3>1
  <2> QED
    BY <1>10, <2>2, <2>3 DEF ClientAccepted
<1>11. CASE ClientResponds(c, d, p, pp, q, qq)
  <2>1. /\ c.pc = "sasl" /\ Takes(p, pp) /\ SaslPair(c, v, p, q) /\ p # <<>>
        /\ d.pc = "sasl" /\ d.bits = c.bits /\ d.negotiated = c.negotiated
        /\ d.step = c.step + 1 /\ Adds(q, qq, "response")
        /\ p[1].kind \in {"challenge", "success"}
    BY <1>11 DEF ClientResponds, Pair, Takes
  <2> SUFFICES SaslPair(d, v, pp, qq)
    BY <1>1, <1>2, <2>1 DEF Pair
  <2>2. CASE p[1].kind = "challenge"
    <3>1. /\ One(p, "challenge") /\ v.bits = c.bits
          /\ Stops(v, q) \/ (v.pc = "sasl" /\ q = <<>> /\ v.step = c.step)
      BY <2>1, <2>2 DEF SaslPair, One
    <3>2. pp = <<>>
      BY <2>1, <3>1 DEF Takes, One
    <3>3. Stops(v, qq) \/ (v.pc = "sasl" /\ One(qq, "response") /\ d.step = v.step + 1)
      BY <2>1, <3>1, StopsAdds DEF Adds
    <3> QED
      BY <2>1, <3>1, <3>2, <3>3 DEF SaslPair
  <2>3. CASE p[1].kind = "success"
    <3>1. One(p, "success") /\ v.bits = c.bits \cup {"Authn"} /\ Idle(v, q)
      BY <2>1, <2>3 DEF SaslPair, One
    <3>2. pp = <<>>
      BY <2>1, <3>1 DEF Takes, One
    <3>3. Stops(v, qq)
      <4>1. CASE Stops(v, q)
        BY <2>1, <4>1, StopsAdds
      <4>2. CASE Restarts(v) /\ q = <<>>
        BY <2>1, <4>2, OneSome DEF Adds, Stops, Restarts
      <4> QED
        BY <3>1, <4>1, <4>2 DEF Idle
    <3> QED
      BY <2>1, <3>1, <3>2, <3>3 DEF SaslPair
  <2> QED
    BY <2>1, <2>2, <2>3
<1> QED
  BY <1>3, <1>4, <1>5, <1>6, <1>7, <1>8, <1>9, <1>10, <1>11 DEF ClientMoves

\* A restart forgets what was negotiated; an optional feature is only added.
LEMMA RestartForgets ==
    ASSUME NEW r \in Sessions, NEW mask, NEW rw, rw # "nil"
    PROVE  /\ Negotiated(r, mask, rw).negotiated = {}
           /\ Negotiated(r, mask, rw).required = r.required
BY DEF Negotiated, Returned, Sessions

\* (An optional feature.)
LEMMA OptionalFields ==
    ASSUME NEW r \in Sessions, r.sel \notin r.required
    PROVE  LET q == Negotiated(r, {}, "nil")
           IN /\ q.pc = "select" /\ q.bits = r.bits /\ q.cache = r.cache
              /\ q.required = r.required /\ q.negotiated = r.negotiated \cup {r.sel}
BY DEF Negotiated, Sessions

\* Only what a session needs is parsed as required.
LEMMA ParsedNeeded ==
    ASSUME NEW f \in FeatureNames, NEW m, ParseReq(f, m)
    PROVE  f \in Needed
BY DEF FeatureNames, Needed, ParseReq, getFeature, StartTLS, newSASL, bind,
       Versioning, Bidi, Caps, StreamFeature

\* The initiating entity's header, and the one it reads.
LEMMA ClientTalks ==
    ASSUME Inv, cfg.ends = Ends, NEW c, c = s["client"], c.required \subseteq Needed,
           InsertTee("client") \/ StartStream("client") \/ SameStream("client")
             \/ Expect("client")
    PROVE  ClientMoves(c, s'["client"], chan["client"], chan'["client"],
                       chan["server"], chan'["server"])
<1> DEFINE e == "client"
<1>1. /\ e \in Ends /\ ~Server(e) /\ Peer(e) = "server" /\ c \in Sessions /\ Good(e, c)
  <2>1. e \in Ends
    BY DEF Ends
  <2> QED
    BY <2>1, Session DEF Peer, Server
<1>2. Fail(c).pc = "failed" /\ Fail(c).bits = c.bits /\ Fail(c).required = c.required
  BY <1>1 DEF Fail, Sessions
<1>3. CASE InsertTee(e)
  <2> DEFINE t == [c EXCEPT !.tee = TRUE, !.data = TRUE, !.negotiated = {}]
  <2>1. /\ t.bits = c.bits /\ t.pc = c.pc /\ t.doRestart = c.doRestart
        /\ t.negotiated = {} /\ t.required = c.required
    BY <1>1 DEF Sessions
  <2> HIDE DEF t
  <2>2. s'[e] = t /\ \A x \in Ends : chan'[x] = chan[x]
    BY <1>1, <1>3, Moved, Wrote DEF InsertTee, t
  <2> QED
    BY <1>1, <1>3, <2>1, <2>2 DEF ClientMoves, ClientCalls, InsertTee, Ends
<1>4. CASE StartStream(e)
  <2> DEFINE t == [c EXCEPT !.pc = "expect"]
             h == Header(c, "x", "x")
  <2>1. /\ t.bits = c.bits /\ t.pc = "expect" /\ t.negotiated = c.negotiated
        /\ t.required = c.required /\ h.kind = "header" /\ c.pc = "call"
    BY <1>1, <1>4 DEF Sessions, Header, Message, StartStream, ReadyToTalk
  <2>2. Goes(e, t, <<h>>)
    BY <1>1, <1>4 DEF StartStream
  <2> HIDE DEF t, h
  <2>3. s'[e] = t
    BY <1>1, <2>2, Moved
  <2>4. Adds(chan["server"], chan'["server"], "header") /\ chan'[e] = chan[e]
    BY <1>1, <2>1, <2>2, Wrote
  <2> QED
    BY <2>1, <2>3, <2>4 DEF ClientMoves, ClientCalls
<1>5. CASE SameStream(e)
  <2> DEFINE t == [c EXCEPT !.pc = "features"]
  <2>1. t.required = c.required
    BY <1>1 DEF Sessions
  <2> HIDE DEF t
  <2>2. s'[e] = t /\ c.pc = "call" /\ ~c.doRestart
    BY <1>1, <1>5, Moved DEF SameStream, ReadyToTalk, t
  <2> QED
    BY <2>1, <2>2 DEF ClientMoves, ClientCalls
<1>6. CASE Expect(e)
  <2>0. c.pc = "expect"
    BY <1>6 DEF Expect
  <2>1. CASE Broken(e, Fail(c))
    <3>1. s'[e] = Fail(c)
      BY <1>1, <2>1, Moved
    <3> QED
      BY <1>2, <3>1 DEF ClientMoves, ClientFails
  <2>2. CASE ~Broken(e, Fail(c))
    <3>1. PICK m \in Incoming(e) :
            IF ~IsHeader(m) THEN Reads(e, Fail(c), <<>>)
            ELSE LET r == Addressed(c, m)
                 IN IF ~(SameOrigin(e, m) /\ SameLocation(e, m)) THEN Reads(e, Fail(r), <<>>)
                    ELSE Reads(e, [r EXCEPT !.pc = "features"], <<>>)
      BY <1>1, <1>6, <2>2 DEF Expect
    <3> DEFINE r == Addressed(c, m)
               t == [r EXCEPT !.pc = "features"]
    <3>2. /\ r \in Sessions /\ r.bits = c.bits /\ r.required = c.required
          /\ r.negotiated = c.negotiated
      <4>1. m \in Messages
        BY <1>1, <3>1, IncomingType
      <4>2. Good(e, r)
        BY <1>1, <4>1, FromGood
      <4> QED
        BY <1>1, <4>2 DEF Good, Sessions, Addressed
    <3>3. chan[e] # <<>> /\ m = chan[e][1]
      BY <1>1, First
    <3>4. \/ Reads(e, Fail(c), <<>>) \/ Reads(e, Fail(r), <<>>)
          \/ IsHeader(m) /\ Reads(e, t, <<>>)
      BY <3>1
    <3> HIDE DEF r
    <3>5. Fail(r).pc = "failed" /\ Fail(r).bits = c.bits /\ Fail(r).required = c.required
      BY <3>2 DEF Fail, Sessions
    <3>6. CASE Reads(e, Fail(c), <<>>) \/ Reads(e, Fail(r), <<>>)
      <4>1. s'[e] = Fail(c) \/ s'[e] = Fail(r)
        BY <1>1, <3>6, Moved
      <4> QED
        BY <1>2, <3>5, <4>1 DEF ClientMoves, ClientFails
    <3>7. CASE IsHeader(m) /\ Reads(e, t, <<>>)
      <4>1. /\ t.pc = "features" /\ t.bits = c.bits /\ t.required = c.required
            /\ t.negotiated = c.negotiated
        BY <3>2 DEF Sessions
      <4> HIDE DEF t
      <4>2. s'[e] = t
        BY <1>1, <3>7, Moved
      <4>3. Takes(chan[e], chan'[e]) /\ chan'["server"] = chan["server"]
        BY <1>1, <3>7, TookNone
      <4>4. ClientHears(c, t, chan[e], chan'[e], chan["server"], chan'["server"])
        BY <2>0, <3>3, <3>7, <4>1, <4>3 DEF ClientHears, IsHeader
      <4> QED
        BY <4>1, <4>2, <4>4 DEF ClientMoves
    <3> QED
      BY <3>4, <3>6, <3>7
  <2> QED
    BY <2>1, <2>2
<1> QED
  BY <1>3, <1>4, <1>5, <1>6

\* A feature list read.
LEMMA ClientLists ==
    ASSUME Inv, cfg.ends = Ends, Needed \subseteq cfg.client,
           NEW c, c = s["client"], c.required \subseteq Needed, ReadFeatures("client")
    PROVE  ClientMoves(c, s'["client"], chan["client"], chan'["client"],
                       chan["server"], chan'["server"])
<1> DEFINE e == "client"
<1>1. /\ e \in Ends /\ ~Server(e) /\ Peer(e) = "server" /\ c \in Sessions /\ Good(e, c)
      /\ Features(e) = cfg.client /\ c.pc = "features" /\ cfg \in Configs
      /\ "starttls" \in cfg.client
  <2>1. e \in Ends
    BY DEF Ends
  <2> QED
    BY <2>1, Session DEF Peer, Server, Features, ReadFeatures, Needed
<1>2. Fail(c).pc = "failed" /\ Fail(c).bits = c.bits /\ Fail(c).required = c.required
  BY <1>1 DEF Fail, Sessions
<1>3. CASE Broken(e, Fail(c))
  <2>1. s'[e] = Fail(c)
    BY <1>1, <1>3, Moved
  <2> QED
    BY <1>2, <2>1 DEF ClientMoves, ClientFails
<1>4. CASE ~Broken(e, Fail(c))
  <2>1. PICK m \in Incoming(e) :
          IF m.kind # "features" THEN Reads(e, Fail(c), <<>>)
          ELSE LET r == ReadList(c, e, m)
               IN IF ForceTLS(r, e)
                    THEN Reads(e, RequestTLS([r EXCEPT !.required = @ \cup {"starttls"}]),
                               <<Elem(r, "starttls")>>)
                  ELSE IF m.names = {} THEN Reads(e, Returned(r, {"Ready"}, "nil"), <<>>)
                  ELSE IF r.cache = {} THEN Reads(e, Fail(r), <<>>)
                  ELSE Reads(e, r, <<>>)
    BY <1>1, <1>4 DEF ReadFeatures
  <2> DEFINE r == ReadList(c, e, m)
             t == RequestTLS([r EXCEPT !.required = @ \cup {"starttls"}])
             u == Returned(r, {"Ready"}, "nil")
             C == {f \in m.names \cap cfg.client : Possible(c, f)}
             R == {f \in C : ParseReq(f, m)}
  <2>2. m \in Messages /\ chan[e] # <<>> /\ m = chan[e][1]
    BY <1>1, First, IncomingType
  <2>3. /\ r.pc = "select" /\ r.cache = C /\ r.required = R
        /\ r.bits = c.bits /\ r.negotiated = c.negotiated
    BY <1>1 DEF Sessions, ReadList
  <2>4. r \in Sessions
    BY <1>1, <2>2, ReadListGood DEF Good
  <2>5. R \subseteq Needed
    <3>1. C \subseteq FeatureNames
      BY <1>1, FeaturesType
    <3> QED
      BY <3>1, ParsedNeeded
  <2>6. ForceTLS(r, e) => "starttls" \notin C /\ "Secure" \notin c.bits
    BY <2>3 DEF ForceTLS
  <2>7. "Secure" \notin c.bits /\ "starttls" \notin C => "starttls" \notin m.names
    <3>1. "Secure" \notin c.bits => Possible(c, "starttls")
      BY DEF Possible, Necessary, getFeature, StartTLS, StreamFeature
    <3> QED
      BY <1>1, <3>1
  <2>8. \/ Reads(e, Fail(c), <<>>) \/ Reads(e, Fail(r), <<>>)
        \/ ForceTLS(r, e) /\ Reads(e, t, <<Elem(r, "starttls")>>)
        \/ m.names = {} /\ Reads(e, u, <<>>)
        \/ Reads(e, r, <<>>)
    BY <2>1
  <2> HIDE DEF r, C, R
  <2>10. Fail(r).pc = "failed" /\ Fail(r).bits = r.bits /\ Fail(r).required = r.required
    BY <2>4 DEF Fail, Sessions
  <2>11. t.required = r.required \cup {"starttls"}
    BY <2>4 DEF RequestTLS, Sessions
  <2>12. u.required = r.required
    BY <2>4 DEF Returned, Sessions
  <2> HIDE DEF t, u
  <2>13. CASE Reads(e, Fail(c), <<>>) \/ Reads(e, Fail(r), <<>>)
    <3>1. s'[e] = Fail(c) \/ s'[e] = Fail(r)
      BY <1>1, <2>13, Moved
    <3> QED
      BY <1>2, <2>3, <2>5, <2>10, <3>1 DEF ClientMoves, ClientFails
  <2>14. CASE ForceTLS(r, e) /\ Reads(e, t, <<Elem(r, "starttls")>>)
    <3>1. s'[e] = t /\ Takes(chan[e], chan'[e])
      BY <1>1, <2>14, Moved, TookOne
    <3>2. t.required \subseteq Needed
      BY <2>3, <2>5, <2>11 DEF Needed
    <3> QED
      BY <1>1, <2>2, <2>6, <2>7, <2>14, <3>1, <3>2 DEF ClientMoves, ClientReads
  <2>15. CASE m.names = {} /\ Reads(e, u, <<>>)
    <3>1. s'[e] = u /\ Takes(chan[e], chan'[e])
      BY <1>1, <2>15, Moved, TookNone
    <3> QED
      BY <1>1, <2>2, <2>3, <2>5, <2>12, <2>15, <3>1 DEF ClientMoves, ClientReads
  <2>16. CASE Reads(e, r, <<>>)
    <3>1. s'[e] = r /\ Takes(chan[e], chan'[e]) /\ chan'["server"] = chan["server"]
      BY <1>1, <2>16, Moved, TookNone
    <3>2. r.cache = {f \in chan[e][1].names \cap cfg.client : Possible(c, f)}
      BY <2>2, <2>3 DEF C
    <3>3. ClientReads(c, r, chan[e], chan'[e], chan["server"], chan'["server"])
      BY <1>1, <2>3, <3>1, <3>2 DEF ClientReads
    <3> QED
      BY <2>3, <2>5, <3>1, <3>3 DEF ClientMoves
  <2> QED
    BY <2>8, <2>13, <2>14, <2>15, <2>16
<1> QED
  BY <1>3, <1>4

\* A feature chosen from the list.
LEMMA ClientChoice ==
    ASSUME Inv, cfg.ends = Ends, NEW c, c = s["client"], c.required \subseteq Needed,
           DoneInv("client", c), ClientSelect("client")
    PROVE  ClientMoves(c, s'["client"], chan["client"], chan'["client"],
                       chan["server"], chan'["server"])
<1> DEFINE e == "client"
<1>1. /\ e \in Ends /\ Peer(e) = "server" /\ c \in Sessions /\ c.pc = "select"
  <2>1. e \in Ends
    BY DEF Ends
  <2> QED
    BY <2>1, Session DEF Peer, Server, ClientSelect
<1>2. CASE Candidates(c) = {} /\ Goes(e, Returned(c, {"Ready"}, "nil"), <<>>)
  <2>1. Returned(c, {"Ready"}, "nil").required = c.required
    BY <1>1 DEF Returned, Sessions
  <2>2. \A f \in Needed : Negotiable(f)
    BY DEF Needed, Negotiable, getFeature, StartTLS, newSASL, bind, StreamFeature
  <2>3. (c.cache \ c.negotiated) \cap Needed = {}
    BY <1>2, <2>2 DEF Candidates
  <2>4. s'[e] = Returned(c, {"Ready"}, "nil") /\ chan'[e] = chan[e]
    BY <1>1, <1>2, Moved, Wrote
  <2> QED
    BY <1>1, <2>1, <2>3, <2>4 DEF ClientMoves, ClientChooses
<1>3. ASSUME NEW f \in Candidates(c),
             LET r == Chosen(c, f, 1)
             IN \/ f = "starttls" /\ Goes(e, RequestTLS(r), <<Elem(r, "starttls")>>)
                \/ f = "sasl" /\ Goes(e, [r EXCEPT !.pc = "sasl"], <<Elem(r, "auth")>>)
                \/ f = "sasl" /\ cfg.faults /\ Goes(e, NotNegotiated(r), <<>>)
                \/ f = "bind" /\ Goes(e, [r EXCEPT !.pc = "bind"], <<Elem(r, "bindiq")>>)
                \/ f = "ver" /\ Goes(e, Negotiated(r, {}, "nil"), <<>>)
                \/ f = "bidi" /\ Goes(e, Negotiated(r, {}, "nil"), <<Elem(r, "bidi")>>)
      PROVE  ClientMoves(c, s'["client"], chan["client"], chan'["client"],
                         chan["server"], chan'["server"])
  <2> DEFINE r == Chosen(c, f, 1)
             t == RequestTLS(r)
             a == [r EXCEPT !.pc = "sasl"]
             b == [r EXCEPT !.pc = "bind"]
             n == NotNegotiated(r)
             o == Negotiated(r, {}, "nil")
  <2>1. f \in c.cache /\ f \in FeatureNames
    BY <1>1, <1>3 DEF Candidates, Sessions
  <2>2. /\ r.bits = c.bits /\ r.cache = c.cache /\ r.required = c.required
        /\ r.listReq = c.listReq /\ r.sel = f /\ r.negotiated = c.negotiated
    BY <1>1, ChosenFields
  <2>3. r \in Sessions /\ r.step = 1
    BY <1>1, <2>1 DEF Chosen, Sessions
  <2>4. \/ f = "starttls" /\ Goes(e, t, <<Elem(r, "starttls")>>)
        \/ f = "sasl" /\ Goes(e, a, <<Elem(r, "auth")>>)
        \/ f = "sasl" /\ Goes(e, n, <<>>)
        \/ f = "bind" /\ Goes(e, b, <<Elem(r, "bindiq")>>)
        \/ f = "ver" /\ Goes(e, o, <<>>)
        \/ f = "bidi" /\ Goes(e, o, <<Elem(r, "bidi")>>)
    BY <1>3
  <2>5. /\ Elem(r, "starttls").kind = "starttls" /\ Elem(r, "auth").kind = "auth"
        /\ Elem(r, "bindiq").kind = "bindiq" /\ Elem(r, "bidi").kind = "bidi"
    BY DEF Elem, Message
  <2> HIDE DEF r
  <2>6. /\ t.pc = "starttls" /\ t.bits = r.bits /\ t.negotiated = r.negotiated
        /\ t.required = r.required
    BY <2>3 DEF RequestTLS, Sessions
  <2>7. /\ a.pc = "sasl" /\ a.bits = r.bits /\ a.negotiated = r.negotiated
        /\ a.required = r.required /\ a.step = r.step
    BY <2>3 DEF Sessions
  <2>8. /\ b.pc = "bind" /\ b.bits = r.bits /\ b.negotiated = r.negotiated
        /\ b.required = r.required
    BY <2>3 DEF Sessions
  <2> HIDE DEF t, a, b
  <2>9. CASE f = "starttls" /\ Goes(e, t, <<Elem(r, "starttls")>>)
    <3>1. s'[e] = t
      BY <1>1, <2>9, Moved
    <3>2. Adds(chan["server"], chan'["server"], "starttls") /\ chan'[e] = chan[e]
      BY <1>1, <2>5, <2>9, Wrote
    <3>3. ClientChooses(c, t, chan[e], chan'[e], chan["server"], chan'["server"])
      BY <1>1, <2>2, <2>6, <3>2 DEF ClientChooses
    <3> QED
      BY <2>2, <2>6, <3>1, <3>3 DEF ClientMoves
  <2>10. CASE f = "sasl" /\ Goes(e, a, <<Elem(r, "auth")>>)
    <3>1. s'[e] = a
      BY <1>1, <2>10, Moved
    <3>2. Adds(chan["server"], chan'["server"], "auth") /\ chan'[e] = chan[e]
      BY <1>1, <2>5, <2>10, Wrote
    <3>3. ClientChooses(c, a, chan[e], chan'[e], chan["server"], chan'["server"])
      BY <1>1, <2>2, <2>3, <2>7, <3>2 DEF ClientChooses
    <3> QED
      BY <2>2, <2>7, <3>1, <3>3 DEF ClientMoves
  <2>11. CASE f = "bind" /\ Goes(e, b, <<Elem(r, "bindiq")>>)
    <3>1. s'[e] = b
      BY <1>1, <2>11, Moved
    <3>2. Adds(chan["server"], chan'["server"], "bindiq") /\ chan'[e] = chan[e]
      BY <1>1, <2>5, <2>11, Wrote
    <3>3. ClientChooses(c, b, chan[e], chan'[e], chan["server"], chan'["server"])
      BY <1>1, <2>2, <2>8, <3>2 DEF ClientChooses
    <3> QED
      BY <2>2, <2>8, <3>1, <3>3 DEF ClientMoves
  <2>12. CASE f = "sasl" /\ Goes(e, n, <<>>)
    <3>1. n.pc = "failed" /\ n.bits = c.bits /\ n.required = c.required
      BY <1>1, <2>1, <2>2, <2>3, <2>12, NeededEnds DEF Needed
    <3> HIDE DEF n
    <3>2. s'[e] = n
      BY <1>1, <2>12, Moved
    <3> QED
      BY <3>1, <3>2 DEF ClientMoves, ClientFails
  <2>13. CASE f \in {"ver", "bidi"} /\ (Goes(e, o, <<>>) \/ Goes(e, o, <<Elem(r, "bidi")>>))
    <3>1. r.sel \notin r.required
      BY <2>2, <2>13 DEF Needed
    <3>2. /\ o.pc = "select" /\ o.bits = c.bits /\ o.cache = c.cache
          /\ o.required = c.required /\ o.negotiated = c.negotiated \cup {f}
      BY <2>2, <2>3, <3>1, OptionalFields
    <3> HIDE DEF o
    <3>3. s'[e] = o
      BY <1>1, <2>13, Moved
    <3>4. /\ chan'[e] = chan[e]
          /\ chan'["server"] = chan["server"] \/ Adds(chan["server"], chan'["server"], "bidi")
      BY <1>1, <2>5, <2>13, Wrote DEF Ends
    <3>5. ClientChooses(c, o, chan[e], chan'[e], chan["server"], chan'["server"])
      BY <1>1, <2>13, <3>2, <3>4 DEF ClientChooses
    <3> QED
      BY <3>2, <3>3, <3>5 DEF ClientMoves
  <2> QED
    BY <2>4, <2>9, <2>10, <2>11, <2>12, <2>13
<1> QED
  BY <1>2, <1>3 DEF ClientSelect

\* The answer to <starttls/> or to the bind IQ.
LEMMA ClientAnswered ==
    ASSUME Inv, cfg.ends = Ends, Needed \subseteq cfg.server,
           NEW c, c = s["client"], c.required \subseteq Needed,
           DoneInv("client", c), TLSAnswer("client") \/ BindAnswer("client")
    PROVE  ClientMoves(c, s'["client"], chan["client"], chan'["client"],
                       chan["server"], chan'["server"])
<1> DEFINE e == "client"
           n == NotNegotiated(c)
           t == Negotiated(c, {"Secure"}, "tls")
           b == Negotiated(c, {"Ready"}, "nil")
<1>1. /\ e \in Ends /\ Peer(e) = "server" /\ c \in Sessions
  <2>1. e \in Ends
    BY DEF Ends
  <2> QED
    BY <2>1, Session DEF Peer, Server
<1>2. c.pc \in {"starttls", "bind"} /\ c.sel \in c.cache \cap Needed
  BY DEF TLSAnswer, BindAnswer, DoneInv, Needed
<1>3. /\ n.pc = "failed" /\ n.bits = c.bits /\ n.required = c.required
      /\ t.bits = c.bits \cup {"Secure"} /\ t.pc = "call" /\ t.doRestart
      /\ b.bits = c.bits \cup {"Ready"} /\ b.pc = "ready"
  BY <1>1, <1>2, NeededEnds
<1>4. t.negotiated = {} /\ t.required = c.required
  BY <1>1, RestartForgets
<1>5. b.required = c.required
  BY <1>1 DEF Negotiated, Returned, Sessions
<1>6. \/ Broken(e, n)
      \/ \E m \in Incoming(e) :
           \/ Reads(e, n, <<>>)
           \/ c.pc = "starttls" /\ m.kind = "proceed" /\ Reads(e, t, <<>>)
           \/ c.pc = "bind" /\ m.kind = "bindresult" /\ Reads(e, b, <<>>)
  BY DEF TLSAnswer, BindAnswer
<1> HIDE DEF n, t, b
<1>7. CASE Broken(e, n)
  <2>1. s'[e] = n
    BY <1>1, <1>7, Moved
  <2> QED
    BY <1>3, <2>1 DEF ClientMoves, ClientFails
<1>8. ASSUME NEW m \in Incoming(e),
             \/ Reads(e, n, <<>>)
             \/ c.pc = "starttls" /\ m.kind = "proceed" /\ Reads(e, t, <<>>)
             \/ c.pc = "bind" /\ m.kind = "bindresult" /\ Reads(e, b, <<>>)
      PROVE  ClientMoves(c, s'["client"], chan["client"], chan'["client"],
                         chan["server"], chan'["server"])
  <2>1. chan[e] # <<>> /\ m = chan[e][1]
    BY <1>1, First
  <2>2. Takes(chan[e], chan'[e]) /\ chan'["server"] = chan["server"]
    BY <1>1, <1>8, TookNone
  <2>3. CASE Reads(e, n, <<>>)
    <3>1. s'[e] = n
      BY <1>1, <2>3, Moved
    <3> QED
      BY <1>3, <3>1 DEF ClientMoves, ClientFails
  <2>4. CASE c.pc = "starttls" /\ m.kind = "proceed" /\ Reads(e, t, <<>>)
    <3>1. s'[e] = t
      BY <1>1, <2>4, Moved
    <3>2. ClientSecured(c, t, chan[e], chan'[e], chan["server"], chan'["server"])
      BY <1>3, <1>4, <2>1, <2>2, <2>4 DEF ClientSecured, Again
    <3> QED
      BY <1>4, <3>1, <3>2 DEF ClientMoves
  <2>5. CASE c.pc = "bind" /\ m.kind = "bindresult" /\ Reads(e, b, <<>>)
    <3>1. s'[e] = b
      BY <1>1, <2>5, Moved
    <3>2. ClientBound(c, b, chan[e], chan'[e], chan["server"], chan'["server"])
      BY <1>3, <2>1, <2>2, <2>5 DEF ClientBound
    <3> QED
      BY <1>5, <3>1, <3>2 DEF ClientMoves
  <2> QED
    BY <1>8, <2>3, <2>4, <2>5
<1> QED
  BY <1>6, <1>7, <1>8

\* negotiateClient reads an element.
LEMMA ClientTurn ==
    ASSUME Inv, cfg.ends = Ends, NEW c, c = s["client"], c.required \subseteq Needed,
           DoneInv("client", c), ClientSasl("client")
    PROVE  ClientMoves(c, s'["client"], chan["client"], chan'["client"],
                       chan["server"], chan'["server"])
<1> DEFINE e == "client"
           r == [c EXCEPT !.step = c.step + 1]
           n == NotNegotiated(c)
           o == NotNegotiated(r)
           t == Negotiated(r, {"Authn"}, "conn")
<1>1. /\ e \in Ends /\ Peer(e) = "server" /\ c \in Sessions /\ c.pc = "sasl"
  <2>1. e \in Ends
    BY DEF Ends
  <2> QED
    BY <2>1, Session DEF Peer, Server, ClientSasl
<1>2. c.sel \in c.cache \cap Needed /\ c.step + 1 \in Nat
  BY <1>1 DEF DoneInv, Needed, Sessions
<1>3. /\ r \in Sessions /\ r.cache = c.cache /\ r.required = c.required
      /\ r.listReq = c.listReq /\ r.bits = c.bits /\ r.sel = c.sel /\ r.pc = c.pc
      /\ r.negotiated = c.negotiated /\ r.step = c.step + 1
  <2> DEFINE j == c.step + 1
  <2>1. j \in Nat
    BY <1>2
  <2> HIDE DEF j
  <2>2. LET x == [c EXCEPT !.step = j]
        IN /\ x \in Sessions /\ x.cache = c.cache /\ x.required = c.required
           /\ x.listReq = c.listReq /\ x.bits = c.bits /\ x.sel = c.sel /\ x.pc = c.pc
           /\ x.negotiated = c.negotiated /\ x.step = j
    BY <1>1, <2>1 DEF Sessions
  <2> QED
    BY <2>2 DEF j
<1>4. \/ Broken(e, n)
      \/ \E m \in Incoming(e) :
           \/ Reads(e, o, <<>>)
           \/ m.kind = "success" /\ Reads(e, t, <<>>)
           \/ /\ m.kind = "challenge" /\ cfg.clientSteps # 1
              /\ r.step >= cfg.clientSteps /\ Reads(e, t, <<Elem(r, "response")>>)
           \/ m.kind \in {"challenge", "success"} /\ Reads(e, r, <<Elem(r, "response")>>)
  BY DEF ClientSasl, Decodes
<1>5. Elem(r, "response").kind = "response"
  BY DEF Elem, Message
<1> HIDE DEF r
<1>6. n.pc = "failed" /\ n.bits = c.bits /\ n.required = c.required
  BY <1>1, <1>2, NeededEnds
<1>7. /\ o.pc = "failed" /\ o.bits = c.bits /\ o.required = c.required
      /\ t.bits = c.bits \cup {"Authn"} /\ t.pc = "call" /\ t.doRestart
  <2>1. r.sel \in c.cache \cap Needed /\ c.pc \in {"select", "starttls", "sasl", "bind"}
    BY <1>1, <1>2, <1>3
  <2>2. o.pc = "failed" /\ o.bits = r.bits /\ o.required = r.required
    BY <1>1, <1>3, <2>1, NeededEnds
  <2>3. t.bits = r.bits \cup {"Authn"} /\ t.pc = "call" /\ t.doRestart
    BY <1>1, <1>3, <2>1, NeededEnds, SMTT(30)
  <2> HIDE DEF o, t
  <2> QED
    BY <1>3, <2>2, <2>3
<1>8. t.negotiated = {} /\ t.required = c.required
  BY <1>3, RestartForgets
<1> HIDE DEF n, o, t
<1>9. CASE Broken(e, n)
  <2>1. s'[e] = n
    BY <1>1, <1>9, Moved
  <2> QED
    BY <1>6, <2>1 DEF ClientMoves, ClientFails
<1>10. ASSUME NEW m \in Incoming(e),
             \/ Reads(e, o, <<>>)
             \/ m.kind = "success" /\ Reads(e, t, <<>>)
             \/ /\ m.kind = "challenge" /\ cfg.clientSteps # 1
                /\ r.step >= cfg.clientSteps /\ Reads(e, t, <<Elem(r, "response")>>)
             \/ m.kind \in {"challenge", "success"} /\ Reads(e, r, <<Elem(r, "response")>>)
       PROVE  ClientMoves(c, s'["client"], chan["client"], chan'["client"],
                         chan["server"], chan'["server"])
  <2>1. chan[e] # <<>> /\ m = chan[e][1]
    BY <1>1, First
  <2>2. CASE Reads(e, o, <<>>)
    <3>1. s'[e] = o
      BY <1>1, <2>2, Moved
    <3> QED
      BY <1>7, <3>1 DEF ClientMoves, ClientFails
  <2>3. CASE m.kind = "success" /\ Reads(e, t, <<>>)
    <3>1. s'[e] = t /\ Takes(chan[e], chan'[e]) /\ chan'["server"] = chan["server"]
      BY <1>1, <2>3, Moved, TookNone
    <3>2. ClientAccepted(c, t, chan[e], chan'[e], chan["server"], chan'["server"])
      BY <1>1, <1>7, <1>8, <2>1, <2>3, <3>1 DEF ClientAccepted, Again
    <3> QED
      BY <1>8, <3>1, <3>2 DEF ClientMoves
  <2>4. CASE /\ m.kind = "challenge" /\ cfg.clientSteps # 1
             /\ r.step >= cfg.clientSteps /\ Reads(e, t, <<Elem(r, "response")>>)
    <3>1. s'[e] = t /\ Takes(chan[e], chan'[e])
      BY <1>1, <2>4, Moved, TookOne
    <3>2. ClientAccepted(c, t, chan[e], chan'[e], chan["server"], chan'["server"])
      BY <1>1, <1>3, <1>7, <1>8, <2>1, <2>4, <3>1 DEF ClientAccepted, Again
    <3> QED
      BY <1>8, <3>1, <3>2 DEF ClientMoves
  <2>5. CASE m.kind \in {"challenge", "success"} /\ Reads(e, r, <<Elem(r, "response")>>)
    <3>1. s'[e] = r
      BY <1>1, <2>5, Moved
    <3>2. Takes(chan[e], chan'[e]) /\ Adds(chan["server"], chan'["server"], "response")
      BY <1>1, <1>5, <2>5, TookOne
    <3>3. ClientResponds(c, r, chan[e], chan'[e], chan["server"], chan'["server"])
      BY <1>1, <1>3, <2>1, <2>5, <3>2 DEF ClientResponds
    <3> QED
      BY <1>3, <3>1, <3>3 DEF ClientMoves
  <2> QED
    BY <1>10, <2>2, <2>3, <2>4, <2>5
<1> QED
  BY <1>4, <1>9, <1>10

\* Every step of the initiating entity.
LEMMA ClientStep ==
    ASSUME Inv, cfg.ends = Ends, Needed \subseteq cfg.client,
           Needed \subseteq cfg.server, NEW c, c = s["client"],
           c.required \subseteq Needed, DoneInv("client", c), EndStep("client")
    PROVE  ClientMoves(c, s'["client"], chan["client"], chan'["client"],
                       chan["server"], chan'["server"])
<1>1. ~(ServerSelect("client") \/ ServerSaslNext("client"))
  BY DEF ServerSelect, ServerSaslNext, Server
<1> QED
  BY <1>1, ClientTalks, ClientLists, ClientChoice, ClientAnswered, ClientTurn DEF EndStep

\* In every connection of two ends of this package that have the features a
\* session needs, and a mechanism that does not end on a challenge, the client has no bit of Session.State that its server has not.  Both
\* hypotheses are needed: a client whose mechanism ends on a challenge is
\* authenticated before the server's verdict, and a server without resource
\* binding sends a list that makes its client ready.
THEOREM ClientNeverAhead ==
    ASSUME \A c \in Configs : c.ends = Ends => Matched(c)
    PROVE  Spec => []BitsAgree
<1> DEFINE BothInv == cfg.ends = Ends => PairInv
<1>2. Init => BothInv
  <2> SUFFICES ASSUME Init PROVE PairInv
    OBVIOUS
  <2>1. /\ s["client"].pc = "call" /\ s["server"].pc = "call"
        /\ s["client"].bits = s["server"].bits
        /\ s["client"].doRestart /\ s["server"].doRestart
        /\ s["client"].negotiated = {} /\ s["client"].required = {}
        /\ chan["client"] = <<>> /\ chan["server"] = <<>>
    BY DEF Init, Ends
  <2> QED
    BY <2>1 DEF PairInv, Pair, Idle, Restarts
<1>3. Inv /\ EndsInv /\ BothInv /\ [Next]_vars => BothInv'
  <2>0. ASSUME Inv, [Next]_vars PROVE cfg' = cfg
    BY <2>0, OneEnd, EndKept DEF vars
  <2> SUFFICES ASSUME Inv, EndsInv, cfg.ends = Ends, PairInv, [Next]_vars PROVE PairInv'
    BY <2>0
  <2> DEFINE c == s["client"]
             v == s["server"]
  <2>1. CASE UNCHANGED vars
    BY <2>1 DEF vars, PairInv, Pair, ExpectPair, TLSPair, SaslPair, BindPair
  <2>2. CASE Next
    <3>1. PICK e \in Ends : EndStep(e)
      BY <2>2, OneEnd
    <3>2. /\ cfg' = cfg /\ \A x \in Ends : x # e => s'[x] = s[x]
      BY <3>1, EndKept
    <3>3. /\ "client" \in Ends /\ "server" \in Ends
          /\ cfg \in Configs /\ Matched(cfg)
          /\ cfg.clientSteps \in Nat /\ cfg.serverSteps \in Nat
      <4>1. "client" \in Ends /\ "server" \in Ends
        BY DEF Ends
      <4> QED
        BY <4>1, Session DEF ConfigSet
    <3>4. /\ c \in Sessions /\ DoneInv("client", c) /\ DoneInv("server", v)
          /\ "Authn" \in c.bits => "Secure" \in c.bits
          /\ c.pc # "ready" => "Ready" \notin c.bits \/ c.pc = "failed"
          /\ c.required \subseteq Needed
      <4>1. c \in Sessions /\ Good("client", c)
        BY <3>3, Session
      <4>2. DoneInv("client", c) /\ DoneInv("server", v)
        BY <3>3 DEF EndsInv, OwnServer
      <4> QED
        BY <4>1, <4>2 DEF Good, DoneInv, PairInv, Pair
    <3>5. Pair(c, v, chan["client"], chan["server"])
      BY DEF PairInv
    <3>6. CASE e = "server"
      <4>1. ServerMoves(v, s'["server"], chan["client"], chan'["client"],
                        chan["server"], chan'["server"])
        BY <3>1, <3>3, <3>4, <3>6, ServerStep DEF Matched
      <4>2. Pair(c, s'["server"], chan'["client"], chan'["server"])
        BY <3>4, <3>5, <4>1, ServerPair
      <4>3. s'["client"] = c
        BY <3>2, <3>3, <3>6
      <4> QED
        BY <3>2, <4>2, <4>3 DEF PairInv, Pair, ExpectPair, TLSPair, SaslPair, BindPair
    <3>7. CASE e = "client"
      <4>1. ClientMoves(c, s'["client"], chan["client"], chan'["client"],
                        chan["server"], chan'["server"])
        BY <3>1, <3>3, <3>4, <3>7, ClientStep DEF Matched
      <4>2. Pair(s'["client"], v, chan'["client"], chan'["server"])
        BY <3>3, <3>4, <3>5, <4>1, ClientPair DEF Matched
      <4>3. s'["server"] = v
        BY <3>2, <3>3, <3>7
      <4> QED
        BY <3>2, <4>2, <4>3 DEF PairInv, Pair, ExpectPair, TLSPair, SaslPair, BindPair
    <3> QED
      BY <3>6, <3>7 DEF Ends
  <2> QED
    BY <2>1, <2>2
<1>4. Inv /\ BothInv => BitsAgree
  <2>1. "client" \in Ends
    BY DEF Ends
  <2> QED
    BY <2>1, Session, PairBits DEF PairInv, BitsAgree
<1> QED
  BY AlwaysInv, AlwaysEnds, <1>2, <1>3, <1>4, PTL DEF Spec
=============================================================================
