-------------------------------- MODULE Dial --------------------------------
(***************************************************************************)
(* How a connection comes about: dial.Dialer with the SRV lookups of       *)
(* internal/discover, websocket.Dialer with the host metadata, and the     *)
(* handshake of the component protocol, which is the whole negotiation of  *)
(* such a connection.  Which connection attempts succeed, and what the     *)
(* resolver, the web server and the peer answer, is open.                  *)
(***************************************************************************)
EXTENDS Integers, Sequences, SequencesExt, FiniteSetsExt

CONSTANTS Dialers,      \* the options: [kind, noLookup, s2s, noTLS]; for a component s2s is recv
          Records,      \* answers of the resolver: [kind, addrs]
          Links,        \* host metadata: sequences of URL schemes
          Transcripts   \* what a server sends a component: sequences of tokens

ASSUME RecordAssumption ==
    Records \subseteq [kind : {"not found", "root", "error", "records"}, addrs : Seq(STRING)]

VARIABLES dialer, dialAt,
          srv,          \* the two lookups, by whether TLS is implicit
          addrs,        \* endpoints not tried yet
          tried,        \* endpoints tried, in order
          conn,         \* what was returned: NoConn or an endpoint
          input         \* tokens of the server: those read, those left

dialVars == <<dialer, dialAt, srv, addrs, tried, conn, input>>

NoConn == [host |-> "", port |-> 0, tls |-> FALSE]
Pending == [kind |-> "pending", addrs |-> <<>>]
DialInit ==
    /\ dialer \in Dialers /\ dialAt = "start" /\ srv = [t \in BOOLEAN |-> Pending]
    /\ addrs = <<>> /\ tried = <<>> /\ conn = NoConn
    /\ input = [read |-> <<>>, left |-> <<>>]

(***************************************************************************)
(* dial.Dialer.                                                            *)
(***************************************************************************)
connType(tls) == <<IF tls THEN "xmpps" ELSE "xmpp", IF dialer.s2s THEN "server" ELSE "client">>
Endpoint(host, port, tls) == [host |-> host, port |-> port, tls |-> tls]
FallbackRecords(tls) == <<Endpoint("domain",
    CASE connType(tls) = <<"xmpp", "client">> -> 5222 [] connType(tls) = <<"xmpps", "client">> -> 5223
      [] connType(tls) = <<"xmpp", "server">> -> 5269 [] OTHER -> 5270, tls)>>

\* legacy: the client's default ports.
legacy == IF dialer.noTLS THEN <<Endpoint("domain", 5222, FALSE)>>
          ELSE <<Endpoint("domain", 5223, TRUE), Endpoint("domain", 5222, FALSE)>>
DialLegacy ==
    /\ dialer.kind = "tcp" /\ dialer.noLookup /\ dialAt = "start"
    /\ dialAt' = "dial" /\ addrs' = legacy
    /\ UNCHANGED <<dialer, srv, tried, conn, input>>

\* The lookups run in goroutines of their own; wg.Wait.
Lookups == IF dialer.noTLS THEN {FALSE} ELSE BOOLEAN
DialLookup ==
    /\ dialer.kind = "tcp" /\ ~dialer.noLookup /\ dialAt = "start" /\ dialAt' = "lookup"
    /\ UNCHANGED <<dialer, srv, addrs, tried, conn, input>>
\* LookupServiceByDomain: a record that was not found is no error, a single
\* record for the root domain says that there is no such service.
LookupServiceByDomain(answer, tls) ==
    CASE answer.kind = "not found" -> [kind |-> "ok", addrs |-> <<>>]
      [] answer.kind = "root"      -> [kind |-> "not present", addrs |-> <<>>]
      [] answer.kind = "error"     -> [kind |-> "error", addrs |-> <<>>]
      [] OTHER -> [kind |-> "ok", addrs |-> [i \in DOMAIN answer.addrs |->
                                               Endpoint(answer.addrs[i], 1, tls)]]
Lookup(tls, answer) ==
    /\ dialAt = "lookup" /\ tls \in Lookups /\ srv[tls] = Pending
    /\ srv' = [srv EXCEPT ![tls] = LookupServiceByDomain(answer, tls)]
    /\ UNCHANGED <<dialer, dialAt, addrs, tried, conn, input>>

\* Without records, and unless the domain says there is no such service, the
\* default port of the service is used, after a failed lookup too.
OrFallbackBug(tls) == IF srv[tls].addrs = <<>> THEN FallbackRecords(tls) ELSE srv[tls].addrs
OrFallback(tls) ==
    IF srv[tls].kind # "not present" /\ srv[tls].addrs = <<>> THEN FallbackRecords(tls)
                                                              ELSE srv[tls].addrs
BothFailed == \A tls \in BOOLEAN : srv[tls].kind = "error"
Addrs == (IF dialer.noTLS THEN <<>> ELSE OrFallback(TRUE)) \o OrFallback(FALSE)
Looked ==
    /\ dialAt = "lookup" /\ \A tls \in Lookups : srv[tls] # Pending
    /\ IF BothFailed \/ Addrs = <<>> THEN dialAt' = "error" /\ UNCHANGED addrs
                                     ELSE dialAt' = "dial" /\ addrs' = Addrs
    /\ UNCHANGED <<dialer, srv, tried, conn, input>>

\* The endpoints are tried in turn.  DialContext and the TLS handshake are one
\* attempt; the WebSocket library refuses a link that is neither ws: nor wss:.
Try(ok) ==
    /\ dialAt = "dial" /\ addrs # <<>> /\ (ok => Head(addrs).host # "other")
    /\ tried' = Append(tried, Head(addrs)) /\ addrs' = Tail(addrs)
    /\ conn' = IF ok THEN Head(addrs) ELSE conn
    /\ dialAt' = IF ok THEN "done" ELSE dialAt
    /\ UNCHANGED <<dialer, srv, input>>
\* The error of the last attempt; the WebSocket dialer may have made none, and
\* then returns neither a connection nor an error.
Exhausted ==
    /\ dialAt = "dial" /\ addrs = <<>>
    /\ dialAt' = IF dialer.kind = "ws" /\ tried = <<>> THEN "none" ELSE "error"
    /\ UNCHANGED <<dialer, srv, addrs, tried, conn, input>>

(***************************************************************************)
(* websocket.Dialer.  noTLS is InsecureNoTLS.  The links of the metadata   *)
(* are sorted with wss: behind everything else and ws: before it; a ws:    *)
(* link is skipped unless it is allowed.                                   *)
(***************************************************************************)
Rank(scheme) == CASE scheme = "ws" -> 0 [] scheme = "wss" -> 2 [] OTHER -> 1
Sorted(links) == SortSeq(links, LAMBDA a, b : Rank(a) < Rank(b))
Usable(links) == SelectSeq(Sorted(links), LAMBDA s : s = "ws" => dialer.noTLS)
Link(scheme) == Endpoint(IF scheme \in {"ws", "wss"} THEN "link" ELSE "other", 0, scheme = "wss")
\* lookupHostMeta: no document is an error, and so is one without a link.
DialWebSocket(links) ==
    /\ dialer.kind = "ws" /\ dialAt = "start"
    /\ IF links = <<>> THEN dialAt' = "error" /\ UNCHANGED addrs
       ELSE /\ dialAt' = "dial"
            /\ addrs' = [i \in DOMAIN Usable(links) |-> Link(Usable(links)[i])]
    /\ UNCHANGED <<dialer, srv, tried, conn, input>>
\* DialDirect takes the address as it is, ws: too.
DialDirect(scheme) ==
    /\ dialer.kind = "ws" /\ dialAt = "start" /\ dialAt' = "dial"
    /\ addrs' = <<Endpoint("direct", 0, scheme = "wss")>>
    /\ UNCHANGED <<dialer, srv, tried, conn, input>>

(***************************************************************************)
(* component.Negotiator: send the stream header, read an optional          *)
(* processing instruction and the server's header, send the hash, read the *)
(* acknowledgement.  The server's side (recv) panics.                      *)
(***************************************************************************)
ComponentStart(t) ==
    /\ dialer.kind = "component" /\ dialAt = "start"
    /\ dialAt' = IF dialer.s2s THEN "panic" ELSE "proc"
    /\ input' = [input EXCEPT !.left = t] /\ UNCHANGED <<dialer, srv, addrs, tried, conn>>
\* The end of the input is an error everywhere.
Token == IF input.left = <<>> THEN "end" ELSE Head(input.left)
Receive(token, next) ==
    /\ Token = token /\ dialAt' = next
    /\ input' = [read |-> Append(input.read, token), left |-> Tail(input.left)]
    /\ UNCHANGED <<dialer, srv, addrs, tried, conn>>
ComponentProcBug == dialAt = "proc" /\ Receive("proc", "proc")
ComponentProc == dialAt = "proc" /\ Receive("proc", "header")
ComponentHeader ==
    /\ dialAt \in {"proc", "header"}
    /\ Receive("stream id", "acknowledge") \/ Receive("stream", "noid")
\* An acknowledgement counts only if the header had an ID.
ComponentAck ==
    /\ dialAt = "acknowledge" /\ Token = "handshake" /\ dialAt' = "done"
    /\ input' = [read |-> Append(input.read, Token), left |-> Tail(input.left)]
    /\ conn' = Endpoint("component", 0, FALSE)
    /\ UNCHANGED <<dialer, srv, addrs, tried>>
Expected == [proc |-> {"proc", "stream id", "stream"}, header |-> {"stream id", "stream"},
             acknowledge |-> {"handshake"}, noid |-> {}]
ComponentFails ==
    /\ dialAt \in DOMAIN Expected /\ Token \notin Expected[dialAt]
    /\ dialAt' = "error" /\ UNCHANGED <<dialer, srv, addrs, tried, conn, input>>
\* The header or the hash cannot be written, the attributes of the server's
\* header do not parse, or the acknowledgement breaks off.
ComponentBroken ==
    /\ dialAt \in DOMAIN Expected /\ dialAt' = "broken"
    /\ UNCHANGED <<dialer, srv, addrs, tried, conn, input>>

DialNext ==
    \/ DialLegacy
    \/ DialLookup
    \/ \E tls \in BOOLEAN, answer \in Records : Lookup(tls, answer)
    \/ Looked
    \/ \E ok \in BOOLEAN : Try(ok)
    \/ Exhausted
    \/ \E links \in Links : DialWebSocket(links)
    \/ \E scheme \in {"ws", "wss"} : DialDirect(scheme)
    \/ \E t \in Transcripts : ComponentStart(t)
    \/ ComponentProc
    \/ ComponentHeader
    \/ ComponentAck
    \/ ComponentFails
    \/ ComponentBroken
DialSpec == DialInit /\ [][DialNext]_dialVars

(***************************************************************************)
(* Properties.                                                             *)
(***************************************************************************)
\* All records of a service, and at least one endpoint unless it is absent.
TriedAll(tls) ==
    /\ ToSet(srv[tls].addrs) \subseteq ToSet(tried)
    /\ srv[tls].kind # "not present" => \E i \in DOMAIN tried : tried[i].tls = tls

\* Dialing over TCP gives up an endpoint with implicit TLS only for another
\* one: a plain connection comes after every TLS endpoint has failed, a service
\* the domain declares absent is not tried even at its default port, and the
\* dialer fails only when everything known has failed or nothing could be
\* looked up (dial.go:170-263, lookup.go:106-136).
Dialed == dialer.kind = "tcp" /\ ~dialer.noLookup =>
    /\ dialAt = "done" /\ ~conn.tls /\ ~dialer.noTLS => TriedAll(TRUE)
    /\ \A tls \in BOOLEAN : srv[tls].kind = "not present" => \A i \in DOMAIN tried : tried[i].tls # tls
    /\ dialAt = "error" /\ (\E tls \in Lookups : srv[tls].kind = "ok")
         => \A tls \in Lookups : TriedAll(tls)

\* What a server may say to a component that it lets in.
Welcomes == {<<"stream id", "handshake">>, <<"proc", "stream id", "handshake">>}
\* A component's session is ready exactly when the server's header, behind at
\* most one processing instruction, had an ID and the answer to the hash was an
\* acknowledgement; the code calls its loop "probably broken"
\* (component.go:70-92, 102-149).
ComponentReady == dialer.kind = "component" =>
    /\ dialAt = "done" => input.read \in Welcomes
    /\ dialAt = "error" => \A w \in Welcomes : ~IsPrefix(w, input.read \o input.left)
=============================================================================
