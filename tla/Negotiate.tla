----------------------------- MODULE Negotiate -----------------------------
(***************************************************************************)
(* Setting up a session: the loop of negotiateSession (session.go), the    *)
(* negotiator (negotiator.go), the feature lists (features.go) and the     *)
(* features StartTLS, SASL, resource binding, roster versioning, bidi and  *)
(* caps, for an initiating and a receiving entity.                         *)
(*                                                                         *)
(* An end runs by itself between two reads of the connection, so a step    *)
(* goes from one read to the next.  An end whose peer is not modelled      *)
(* reads arbitrary elements: whatever some peer could send it.             *)
(***************************************************************************)
EXTENDS Integers, Sequences, FiniteSets

CONSTANTS
    Configs,   \* the configurations a negotiation may start with
    MaxReads   \* bound: elements read from a peer that is not modelled

Ends == {"client", "server"}
FeatureNames == {"starttls", "sasl", "bind", "ver", "bidi", "caps"}

(* The ends that are modelled and whether their reads and credentials may  *)
(* fail; StreamConfig.Features of each end (List of caps is nil, so it is  *)
(* not for servers), which ends have a TeeIn or TeeOut, the S2S bit,       *)
(* whether the connection is a *tls.Conn from the start, the steps the     *)
(* SASL mechanism takes on each end and whether its challenges have data.  *)
ConfigSet ==
    [ends : SUBSET Ends, faults : BOOLEAN,
     client : SUBSET FeatureNames, server : SUBSET (FeatureNames \ {"caps"}),
     tee : SUBSET {"client", "server"}, s2s : BOOLEAN, secured : BOOLEAN,
     clientSteps : Nat \ {0}, serverSteps : Nat \ {0},
     challenge : {"challenge", "emptychallenge"}]

ASSUME ConfigAssumption == \A c \in Configs : c \in ConfigSet
ASSUME BoundAssumption == MaxReads \in Nat

VARIABLES
    cfg,    \* the configuration, fixed
    s,      \* each end's session and the place in its negotiation
    chan,   \* what each end has yet to read
    reads   \* elements each end has read

vars == <<cfg, s, chan, reads>>

Server(e) == e = "server"
Peer(e) == IF Server(e) THEN "client" ELSE "server"
Features(e) == IF Server(e) THEN cfg.server ELSE cfg.client

(* The stream features: their Necessary and Prohibited bits, whether List  *)
(* says that they are required, whether Parse does ("asked": if the peer   *)
(* says so) and whether they have a Negotiate function.                    *)
StreamFeature(necessary, prohibited, list, parse, negotiate) ==
    [necessary |-> necessary, prohibited |-> prohibited, list |-> list,
     parse |-> parse, negotiate |-> negotiate]

StartTLSBug == StreamFeature({}, {"Secure"}, FALSE, "asked", TRUE)
StartTLS == StreamFeature({}, {"Secure"}, TRUE, "asked", TRUE)
newSASLBug == StreamFeature({}, {"Authn"}, TRUE, "always", TRUE)
newSASL == StreamFeature({"Secure"}, {"Authn"}, TRUE, "always", TRUE)
bindBug == StreamFeature({}, {"Ready"}, TRUE, "always", TRUE)
bind == StreamFeature({"Authn"}, {"Ready"}, TRUE, "always", TRUE)
Versioning == StreamFeature({"Secure"}, {}, TRUE, "never", TRUE)
Bidi == StreamFeature({"Secure"}, {"Authn"}, FALSE, "never", TRUE)
Caps == StreamFeature({}, {}, FALSE, "never", FALSE)

getFeature(f) ==
    IF f = "starttls" THEN StartTLS ELSE IF f = "sasl" THEN newSASL
    ELSE IF f = "bind" THEN bind ELSE IF f = "ver" THEN Versioning
    ELSE IF f = "bidi" THEN Bidi ELSE Caps

Necessary(f) == getFeature(f).necessary
Possible(r, f) == Necessary(f) \subseteq r.bits /\ getFeature(f).prohibited \cap r.bits = {}
ListReq(f) == getFeature(f).list
ParseReq(f, m) == getFeature(f).parse = "always" \/ (getFeature(f).parse = "asked" /\ m.required)
Negotiable(f) == getFeature(f).negotiate

Init ==
    /\ cfg \in Configs
    /\ s = [e \in Ends |->
              [pc |-> "call", bits |-> IF cfg.secured THEN {"Secure"} ELSE {},
               tls |-> cfg.secured, tee |-> FALSE, data |-> FALSE,
               doRestart |-> TRUE, negotiated |-> {}, cache |-> {},
               required |-> {}, listReq |-> FALSE, sel |-> "none", step |-> 0,
               from |-> IF Server(e) THEN "none" ELSE "x",
               to |-> IF Server(e) THEN "none" ELSE "x",
               inside |-> FALSE, tried |-> {}]]
    /\ chan = [e \in Ends |-> <<>>]
    /\ reads = [e \in Ends |-> 0]

----------------------------------------------------------------------------
(* The connection.                                                         *)

Message(r, k, from, to, names, required) ==
    [kind |-> k, tls |-> r.tls, from |-> from, to |-> to, names |-> names,
     required |-> required]
Elem(r, k) == Message(r, k, "none", "none", {}, FALSE)
Header(r, from, to) == Message(r, "header", from, to, {}, FALSE)
FeatureList(r, names, required) == Message(r, "features", "none", "none", names, required)

\* Addresses in stream headers: none, the right one, another one.
Addresses == {"none", "x", "y"}

\* What an arbitrary peer can send.
Kinds == {"starttls", "proceed", "tlsfailure", "auth", "badauth", "response",
          "abort", "challenge", "emptychallenge", "success", "failure",
          "bindiq", "bindresult", "binderror", "ver", "bidi", "bidifeature",
          "other"}
Anything(e) ==
    {Elem(s[e], k) : k \in Kinds}
      \cup {Header(s[e], from, to) : from \in Addresses, to \in Addresses}
      \cup {FeatureList(s[e], names, b) :
              names \in SUBSET (Features(e) \cup {"unknown"}), b \in BOOLEAN}

\* The next element, if there is one and it was written on e's layer.
Incoming(e) ==
    IF Peer(e) \in cfg.ends
      THEN {chan[e][i] : i \in {j \in DOMAIN chan[e] : j = 1 /\ chan[e][j].tls = s[e].tls}}
      ELSE IF reads[e] < MaxReads THEN Anything(e) ELSE {}

\* End e goes on as r and writes the elements of ms ...
Goes(e, r, ms) ==
    /\ s' = [s EXCEPT ![e] = r]
    /\ chan' = [x \in Ends |-> IF x = Peer(e) /\ x \in cfg.ends THEN chan[x] \o ms
                              ELSE chan[x]]
    /\ UNCHANGED <<cfg, reads>>

\* ... having read an element.
Reads(e, r, ms) ==
    /\ s' = [s EXCEPT ![e] = r]
    /\ chan' = [x \in Ends |-> IF x = Peer(e) /\ x \in cfg.ends THEN chan[x] \o ms
                              ELSE IF x = Peer(e) \/ chan[x] = <<>> THEN chan[x] ELSE Tail(chan[x])]
    /\ reads' = [reads EXCEPT ![e] = IF Peer(e) \in cfg.ends THEN @ ELSE @ + 1]
    /\ UNCHANGED cfg

\* A read that fails: the peer has hung up, sent what cannot be read on this
\* layer, or the context of the negotiation is done.
Breaks(e) ==
    \/ cfg.faults
    \/ /\ Peer(e) \in cfg.ends
       /\ IF chan[e] = <<>> THEN s[Peer(e)].pc = "failed"
                            ELSE Head(chan[e]).tls # s[e].tls

Broken(e, r) ==
    Breaks(e) /\ s' = [s EXCEPT ![e] = r] /\ UNCHANGED <<cfg, chan, reads>>

Fail(r) == [r EXCEPT !.pc = "failed"]

----------------------------------------------------------------------------
(* The end of a feature, of the negotiator's call and of a round of        *)
(* negotiateSession.                                                       *)

\* negotiateSession after the negotiator has returned mask and rw.
Returned(r, mask, rw) ==
    [r EXCEPT !.bits = @ \cup mask, !.data = TRUE, !.doRestart = (rw # "nil"),
              !.negotiated = IF rw = "nil" THEN @ ELSE {},
              !.tls = @ \/ rw = "tls", !.tee = @ /\ rw # "tls",
              !.inside = @ /\ rw = "nil",
              !.pc = IF "Ready" \in r.bits \cup mask THEN "ready" ELSE "call"]

\* negotiateFeatures after the selected feature's Negotiate has returned.
Negotiated(r, mask, rw) ==
    LET q == [r EXCEPT !.bits = @ \cup mask, !.negotiated = @ \cup {r.sel},
                       !.tried = @ \cup {r.sel}]
    IN IF rw = "nil" /\ r.sel \notin r.required
         THEN [q EXCEPT !.pc = "select"]
         ELSE Returned(q, mask \cup (IF r.listReq THEN {} ELSE {"Ready"}), rw)

\* The same for an error, which an optional feature does not pass on.
NotNegotiated(r) ==
    LET q == [r EXCEPT !.negotiated = @ \cup {r.sel}, !.tried = @ \cup {r.sel}]
    IN IF r.sel \in r.required THEN Fail(q) ELSE [q EXCEPT !.pc = "select"]

----------------------------------------------------------------------------
(* The negotiator: the tee, then the stream header, then the features.     *)

\* The tee is put in as a new connection without state bits.
InsertTee(e) ==
    /\ s[e].pc = "call" /\ e \in cfg.tee /\ ~s[e].tee
    /\ Goes(e, [s[e] EXCEPT !.tee = TRUE, !.data = TRUE, !.negotiated = {}], <<>>)

\* The connection already is the tee, if there is to be one.
ReadyToTalk(e) == s[e].pc = "call" /\ (e \in cfg.tee => s[e].tee)

\* The initiating entity sends its header first.
StartStream(e) ==
    /\ ReadyToTalk(e) /\ s[e].doRestart
    /\ Goes(e, [s[e] EXCEPT !.pc = "expect"],
          IF Server(e) THEN <<>> ELSE <<Header(s[e], "x", "x")>>)

\* writeStreamFeatures
Listed(r, e) == {f \in Features(e) : Possible(r, f)}
WriteList(r, e) ==
    [r EXCEPT !.pc = "select", !.cache = Listed(r, e),
              !.required = {f \in Listed(r, e) : ListReq(f)},
              !.listReq = \E f \in Listed(r, e) : ListReq(f)]

\* The next features on a stream that is not restarted.
SameStream(e) ==
    /\ ReadyToTalk(e) /\ ~s[e].doRestart
    /\ IF Server(e)
         THEN Goes(e, WriteList(s[e], e), <<FeatureList(s[e], Listed(s[e], e), TRUE)>>)
         ELSE Goes(e, [s[e] EXCEPT !.pc = "features"], <<>>)

\* The addresses in a header against those already known, which stay where
\* the header has none: an entity that receives a c2s stream accepts any
\* origin while it has none, and every receiving entity any location.
Known(old, new) == IF new = "none" THEN old ELSE new
SameOriginBug(e, m) == TRUE
SameOrigin(e, m) ==
    \/ Server(e) /\ ~cfg.s2s /\ s[e].from = "none"
    \/ Known(s[e].from, m.from) = s[e].from
SameLocation(e, m) ==
    \/ Server(e) /\ s[e].to = "none"
    \/ Known(s[e].to, m.to) = s[e].to

\* The addresses are taken over before they are compared.
Addressed(r, m) ==
    [r EXCEPT !.from = Known(@, m.from), !.to = Known(@, m.to)]

\* intstream.Expect takes the next element for a stream header.
IsHeader(m) == m.kind = "header"

Expect(e) ==
    /\ s[e].pc = "expect"
    /\ \/ Broken(e, Fail(s[e]))
       \/ \E m \in Incoming(e) :
            IF ~IsHeader(m) THEN Reads(e, Fail(s[e]), <<>>)
            ELSE LET r == Addressed(s[e], m)
                 IN IF ~(SameOrigin(e, m) /\ SameLocation(e, m))
                      THEN Reads(e, Fail(r), <<>>)
                    ELSE IF Server(e)
                      THEN Reads(e, WriteList(r, e),
                                 <<Header(r, r.to, r.from), FeatureList(r, Listed(r, e), TRUE)>>)
                      ELSE Reads(e, [r EXCEPT !.pc = "features"], <<>>)

\* A feature is chosen; k is the step its SASL mechanism is at.
Chosen(r, f, k) == [r EXCEPT !.sel = f, !.step = k]

----------------------------------------------------------------------------
(* The initiating entity.                                                  *)

\* readStreamFeatures: only what is possible now is cached, but what is not
\* counts for the list being required.
ReadListBug(r, e, m) ==
    LET known == m.names \cap Features(e)
        cache == {f \in known : Possible(r, f)}
    IN [r EXCEPT !.pc = "select", !.cache = cache,
                 !.required = @ \cup {f \in cache : ParseReq(f, m)},
                 !.listReq = \E f \in known : ParseReq(f, m)]
ReadList(r, e, m) ==
    LET known == m.names \cap Features(e)
        cache == {f \in known : Possible(r, f)}
    IN [r EXCEPT !.pc = "select", !.cache = cache,
                 !.required = {f \in cache : ParseReq(f, m)},
                 !.listReq = \E f \in known : ParseReq(f, m)]

\* StartTLS is tried on the first list even if it is not on it (RFC 7590).
ForceTLSBug(r, e) == FALSE
ForceTLS(r, e) ==
    /\ ~r.data /\ "starttls" \in Features(e)
    /\ "starttls" \notin r.cache /\ "Secure" \notin r.bits

RequestTLS(r) == [r EXCEPT !.sel = "starttls", !.pc = "starttls"]

ReadFeatures(e) ==
    /\ s[e].pc = "features"
    /\ \/ Broken(e, Fail(s[e]))
       \/ \E m \in Incoming(e) :
            IF m.kind # "features" THEN Reads(e, Fail(s[e]), <<>>)
            ELSE LET r == ReadList(s[e], e, m)
                 IN IF ForceTLS(r, e)
                      THEN Reads(e, RequestTLS([r EXCEPT !.required = @ \cup {"starttls"}]),
                                 <<Elem(r, "starttls")>>)
                    ELSE IF m.names = {} THEN Reads(e, Returned(r, {"Ready"}, "nil"), <<>>)
                    ELSE IF r.cache = {} THEN Reads(e, Fail(r), <<>>)
                    ELSE Reads(e, r, <<>>)

\* The features left to choose from, the optional ones first; the order of
\* the map they are in is random.
CandidatesBug(r) ==
    LET left == {f \in r.cache : Negotiable(f)}
    IN IF left \ r.required # {} THEN left \ r.required ELSE left
Candidates(r) ==
    LET left == {f \in r.cache \ r.negotiated : Negotiable(f)}
    IN IF left \ r.required # {} THEN left \ r.required ELSE left

ClientSelect(e) ==
    /\ s[e].pc = "select" /\ ~Server(e)
    /\ \/ Candidates(s[e]) = {} /\ Goes(e, Returned(s[e], {"Ready"}, "nil"), <<>>)
       \/ \E f \in Candidates(s[e]) :
            LET r == Chosen(s[e], f, 1)
            IN \/ f = "starttls" /\ Goes(e, RequestTLS(r), <<Elem(r, "starttls")>>)
               \/ f = "sasl" /\ Goes(e, [r EXCEPT !.pc = "sasl"], <<Elem(r, "auth")>>)
               \/ f = "sasl" /\ cfg.faults /\ Goes(e, NotNegotiated(r), <<>>)
               \/ f = "bind" /\ Goes(e, [r EXCEPT !.pc = "bind"], <<Elem(r, "bindiq")>>)
               \/ f = "ver" /\ Goes(e, Negotiated(r, {}, "nil"), <<>>)
               \/ f = "bidi" /\ Goes(e, Negotiated(r, {}, "nil"), <<Elem(r, "bidi")>>)

\* StartTLS: the server's answer.
TLSAnswer(e) ==
    /\ s[e].pc = "starttls" /\ ~Server(e)
    /\ \/ Broken(e, NotNegotiated(s[e]))
       \/ \E m \in Incoming(e) :
            Reads(e, IF m.kind = "proceed" THEN Negotiated(s[e], {"Secure"}, "tls")
                                           ELSE NotNegotiated(s[e]), <<>>)

\* Resource binding: the answer to the IQ.
BindAnswer(e) ==
    /\ s[e].pc = "bind" /\ ~Server(e)
    /\ \/ Broken(e, NotNegotiated(s[e]))
       \/ \E m \in Incoming(e) :
            Reads(e, IF m.kind = "bindresult" THEN Negotiated(s[e], {"Ready"}, "nil")
                                              ELSE NotNegotiated(s[e]), <<>>)

\* decodeSASLChallenge; the "=" of an empty challenge cannot be decoded.
DecodesBug(k) == k \in {"challenge", "success", "failure"}
Decodes(k) == k \in {"challenge", "success"}

\* negotiateClient.  A mechanism with one step waits for the success; one
\* with more steps is over with its last step, whatever element led to it.
ClientSasl(e) ==
    /\ s[e].pc = "sasl" /\ ~Server(e)
    /\ \/ Broken(e, NotNegotiated(s[e]))
       \/ \E m \in Incoming(e) :
            LET r == [s[e] EXCEPT !.step = @ + 1]
                done == Negotiated(r, {"Authn"}, "conn")
                response == <<Elem(r, "response")>>
            IN IF ~Decodes(m.kind) \/ (cfg.clientSteps = 1 /\ m.kind = "challenge")
                 THEN Reads(e, NotNegotiated(r), <<>>)
               ELSE \/ cfg.faults /\ cfg.clientSteps > 1 /\ Reads(e, NotNegotiated(r), <<>>)
                    \/ m.kind # "challenge" /\ r.step >= cfg.clientSteps /\ Reads(e, done, <<>>)
                    \/ m.kind = "challenge" /\ r.step >= cfg.clientSteps /\ Reads(e, done, response)
                    \/ r.step < cfg.clientSteps /\ Reads(e, r, response)

----------------------------------------------------------------------------
(* The receiving entity.                                                   *)

\* The feature an element selects, by its namespace alone.
Selects(k) ==
    IF k \in {"starttls", "proceed", "tlsfailure"} THEN "starttls"
    ELSE IF k \in {"auth", "badauth", "response", "abort", "challenge",
                    "emptychallenge", "success", "failure"} THEN "sasl"
    ELSE IF k \in {"bindiq", "bindresult", "binderror"} THEN "bind"
    ELSE IF k = "ver" THEN "ver"
    ELSE IF k = "bidifeature" THEN "bidi" ELSE "none"

\* One turn of negotiateServer's loop.
ServerSasl(e, r, k) ==
    LET q == [r EXCEPT !.pc = "sasl", !.step = IF k = "auth" THEN 1 ELSE @ + 1]
    IN IF k = "failure" THEN Reads(e, NotNegotiated(r), <<>>)
       ELSE IF k = "auth" \/ (k = "response" /\ r.step > 0)
         THEN \/ q.step < cfg.serverSteps /\ Reads(e, q, <<Elem(q, cfg.challenge)>>)
              \/ /\ q.step >= cfg.serverSteps
                 /\ Reads(e, Negotiated(q, {"Authn"}, "conn"), <<Elem(q, "success")>>)
              \/ cfg.faults /\ Reads(e, NotNegotiated(r), <<Elem(r, "failure")>>)
              \/ cfg.faults /\ Reads(e, NotNegotiated(r), <<>>)
       ELSE Reads(e, NotNegotiated(r), <<Elem(r, "failure")>>)

\* The server's part of StartTLS, and of resource binding, where the function
\* given to BindCustom may fail.
ServerStartTLS(e, r) ==
    Reads(e, Negotiated(r, {"Secure"}, "tls"), <<Elem(r, "proceed")>>)
ServerBindBug(e, r) ==
    \/ Reads(e, Negotiated(r, {"Ready"}, "nil"), <<>>)
    \/ cfg.faults /\ Reads(e, NotNegotiated(r), <<>>)
ServerBind(e, r) ==
    \/ Reads(e, Negotiated(r, {"Ready"}, "nil"), <<Elem(r, "bindresult")>>)
    \/ cfg.faults /\ Reads(e, NotNegotiated(r), <<>>)

\* The server's part of roster versioning and of bidi does nothing.  It leaves
\* the rest of the element in the stream, unless the connection is replaced.
Inside(r) == [r EXCEPT !.inside = TRUE]
ServerNothing(e, r) == Reads(e, Negotiated(Inside(r), {}, "nil"), <<>>)

\* A feature that was not listed or was negotiated before is a policy
\* violation.
Allowed(r, f) == f \in r.cache \ r.negotiated

\* Inside an element the next token is its end, which selects nothing, or a
\* child of it.
ServerSelect(e) ==
    /\ s[e].pc = "select" /\ Server(e)
    /\ \/ Broken(e, Fail(s[e]))
       \/ s[e].inside /\ Goes(e, Fail(s[e]), <<>>)
       \/ \E m \in Incoming(e) :
            LET f == Selects(m.kind)
                r == Chosen(s[e], f, 0)
            IN \/ ~Allowed(r, f) /\ Reads(e, Fail(s[e]), <<>>)
               \/ Allowed(r, f) /\ f = "starttls" /\ ServerStartTLS(e, r)
               \/ Allowed(r, f) /\ f = "sasl" /\ ServerSasl(e, r, m.kind)
               \/ Allowed(r, f) /\ f = "bind" /\ ServerBind(e, r)
               \/ Allowed(r, f) /\ f \in {"ver", "bidi"} /\ ServerNothing(e, r)

ServerSaslNext(e) ==
    /\ s[e].pc = "sasl" /\ Server(e)
    /\ \/ Broken(e, NotNegotiated(s[e]))
       \/ \E m \in Incoming(e) : ServerSasl(e, s[e], m.kind)

----------------------------------------------------------------------------
EndStep(e) ==
    \/ InsertTee(e) \/ StartStream(e) \/ SameStream(e) \/ Expect(e)
    \/ ReadFeatures(e) \/ ClientSelect(e) \/ TLSAnswer(e) \/ BindAnswer(e)
    \/ ClientSasl(e) \/ ServerSelect(e) \/ ServerSaslNext(e)

Next == \E e \in cfg.ends : EndStep(e)

Spec == Init /\ [][Next]_vars

(* An end is never held up by anything but a read. *)
FairSpec == Spec /\ \A e \in Ends : WF_vars(e \in cfg.ends /\ EndStep(e))

----------------------------------------------------------------------------
(* Properties.                                                             *)

Bits == {"Secure", "Authn", "Ready"}
Sessions ==
    [pc : {"call", "expect", "features", "select", "starttls", "sasl", "bind",
           "ready", "failed"},
     bits : SUBSET Bits, tls : BOOLEAN, tee : BOOLEAN, data : BOOLEAN,
     doRestart : BOOLEAN, negotiated : SUBSET FeatureNames,
     cache : SUBSET FeatureNames, required : SUBSET FeatureNames,
     listReq : BOOLEAN, sel : FeatureNames \cup {"none"}, step : Nat,
     from : Addresses, to : Addresses, inside : BOOLEAN,
     tried : SUBSET FeatureNames]

Messages == [kind : Kinds \cup {"header", "features"}, tls : BOOLEAN,
             from : Addresses, to : Addresses,
             names : SUBSET (FeatureNames \cup {"unknown"}), required : BOOLEAN]

\* The type of every variable.
TypeOK == /\ cfg \in Configs
          /\ s \in [Ends -> Sessions]
          /\ \A e \in Ends : s[e].required \subseteq s[e].cache \cup {"starttls"}
          /\ chan \in [Ends -> Seq(Messages)]
          /\ reads \in [Ends -> 0 .. MaxReads]

\* The Secure bit is set exactly when the connection is encrypted, tee or
\* not, and nothing of SASL happens on one that is not.
SecureIsTLS ==
    \A e \in Ends :
        /\ ("Secure" \in s[e].bits) = s[e].tls
        /\ s[e].pc = "sasl" \/ "Authn" \in s[e].bits => s[e].tls

\* Whatever a client sends, in whatever order, a server has authenticated it
\* over TLS before the session is ready: resource binding is the only way to
\* the Ready bit and SASL the only way to binding.
ServerAuthenticates ==
    \A e \in Ends : Server(e) /\ s[e].pc = "ready" => Bits \subseteq s[e].bits

\* What makes the two above inductive.  The features an end may still choose
\* have their necessary bits, which are never taken back, and a server's list
\* with anything that ends the loop on it is a required one.
CacheInv(r) == \A f \in r.cache : Necessary(f) \subseteq r.bits
ChoiceInv(r) ==
    /\ r.pc \in {"starttls", "sasl", "bind"} => r.sel # "none"
    /\ r.pc = "sasl" => r.sel = "sasl" /\ r.tls
ServerInv(r) ==
    /\ r.required = {f \in r.cache : ListReq(f)}
    /\ r.required # {} => r.listReq
    /\ r.pc \in {"call", "expect", "select", "sasl", "ready", "failed"}
    /\ r.pc = "sasl" => r.sel \in r.cache
    /\ "Ready" \in r.bits => "Authn" \in r.bits
    /\ r.pc = "ready" => "Ready" \in r.bits
Good(e, r) ==
    /\ r \in Sessions /\ r.required \subseteq r.cache \cup {"starttls"}
    /\ ("Secure" \in r.bits) = r.tls
    /\ "Authn" \in r.bits => r.tls
    /\ CacheInv(r) /\ ChoiceInv(r)
    /\ Server(e) => ServerInv(r)
NegotiationInv == \A e \in Ends : Good(e, s[e])

\* "If the list contains no required features and a stream restart is not
\* required, negotiation is complete": a session is not handed out on a
\* connection on which no stream was opened.  A client depends on its server
\* here: one of this package lists as required what restarts the stream.
RestartDone ==
    \A e \in cfg.ends : s[e].pc = "ready" /\ (Server(e) \/ Peer(e) \in cfg.ends)
        => ~s[e].doRestart

\* Over all the restarts of a stream neither the origin of the peer nor the
\* location it asked for can change, once it is known: a session that was
\* authenticated for one pair of addresses is not used for another.
AddressesFixed ==
    [][\A e \in Ends :
          \/ s'[e].pc = "failed"
          \/ /\ s[e].from # "none" => s'[e].from = s[e].from
             /\ s[e].to # "none" => s'[e].to = s[e].to]_vars

\* "the Negotiator attempts to negotiate it whether the server advertises
\* support or not": no session is ready before StartTLS was tried.
TlsTried ==
    \A e \in Ends : /\ ~Server(e) /\ s[e].pc = "ready"
                    /\ "starttls" \in cfg.client
        => s[e].tls \/ "starttls" \in s[e].tried

\* The initiating entity has no state bit that the receiving one has not:
\* what it takes for secured, authenticated or ready the peer does too.
BitsAgree == cfg.ends = Ends => s["client"].bits \subseteq s["server"].bits

\* Two ends of this package with matching features understand each other,
\* whatever order they are chosen in: both have a ready session in the end ...
Established == cfg.faults \/ <>(\A e \in Ends : s[e].pc = "ready")

\* ... and, failing features or not, they never come to a state in which one
\* end waits for an element that the other will not write, being ready or
\* waiting itself.  "If the list contains no required features and a stream
\* restart is not required, negotiation is complete" (features.go): a server
\* has to find that out without being told.
Waiting(e) ==
    /\ chan[e] = <<>>
    /\ \/ s[e].pc \in {"expect", "features", "starttls", "sasl", "bind"}
       \/ Server(e) /\ s[e].pc = "select"
NoStandstill ==
    cfg.ends = Ends =>
        ~\E e \in Ends : Waiting(e) /\ (Waiting(Peer(e)) \/ s[Peer(e)].pc = "ready")
=============================================================================
