-------------------------------- MODULE Mux --------------------------------
(***************************************************************************)
(* The multiplexer, mux.ServeMux: a table of patterns, the choice of the   *)
(* handler for an element, and the buffer through which the handlers of    *)
(* the children of one message or presence all read the whole stanza.      *)
(*                                                                         *)
(* A pattern is what an Option registers; the handler is named by it.  The *)
(* maps patterns, iqPatterns, msgPatterns and presencePatterns are one     *)
(* set, told apart by the field stanza ("" for Handle).  An empty string   *)
(* is a wildcard.                                                          *)
(***************************************************************************)
EXTENDS Integers, Sequences, SequencesExt, FiniteSets

CONSTANTS Patterns,     \* patterns the Options may name
          Elements,     \* top-level elements the session hands in
          MaxPatterns,  \* bound: patterns registered
          Reads         \* how many tokens a handler asks for

VARIABLES table,        \* ServeMux: the registered patterns
          muxAt,        \* what the mux is doing
          element,      \* the element in HandleXMPP
          wire,         \* its tokens still in the session's reader
          buf,          \* r.buf in forChildren
          offset,       \* r.offset
          called,       \* the handlers called for the element, in order
          handlerErr,   \* errs is not empty
          todo          \* iterators a service discovery has still to visit

muxVars == <<table, muxAt, element, wire, buf, offset, called, handlerErr, todo>>

Locals == {"iq", "message", "presence"}
NoPattern == [stanza |-> "none", type |-> "", space |-> "", local |-> ""]
NoName == [space |-> "", local |-> ""]
StanzaNS == "client"

MuxInit ==
    /\ table = {} /\ muxAt = "options" /\ element = <<>> /\ wire = <<>> /\ buf = <<>>
    /\ offset = 0 /\ called = <<>> /\ handlerErr = FALSE /\ todo = [of |-> "", handlers |-> {}, extra |-> {}]

(***************************************************************************)
(* New and the Options.  A handler that is nil, a second registration of   *)
(* the same name, or a stanza given to Handle, panics.                     *)
(***************************************************************************)
Refused(p) == p \in table \/ (p.stanza = "" /\ p.local \in Locals)
Register(p, isNil) ==
    /\ muxAt = "options" /\ Cardinality(table) < MaxPatterns
    /\ IF isNil \/ Refused(p) THEN muxAt' = "panic" /\ UNCHANGED table
                     ELSE table' = table \cup {p} /\ UNCHANGED muxAt
    /\ UNCHANGED <<element, wire, buf, offset, called, handlerErr, todo>>
New ==
    /\ muxAt = "options" /\ muxAt' = "idle"
    /\ UNCHANGED <<table, element, wire, buf, offset, called, handlerErr, todo>>

(***************************************************************************)
(* The choice of a handler: the first of the candidates that is there.     *)
(***************************************************************************)
Named(stanza, type, space, local) ==
    [stanza |-> stanza, type |-> type, space |-> space, local |-> local]
FirstOf(candidates) ==
    LET S == {i \in DOMAIN candidates : candidates[i] \in table}
    IN  IF S = {} THEN NoPattern ELSE candidates[Min(S)]

PayloadHandler(stanza, type, name) ==
    FirstOf(<<Named(stanza, type, name.space, name.local), Named(stanza, type, "", name.local),
              Named(stanza, type, name.space, ""), Named(stanza, type, "", "")>>)
IQHandler(type, name) == PayloadHandler("iq", type, name)
MessageHandler(type, name) == PayloadHandler("message", type, name)
PresenceHandler(type, name) == PayloadHandler("presence", type, name)

TopHandler(name) ==
    FirstOf(<<Named("", "", name.space, name.local), Named("", "", "", name.local),
              Named("", "", name.space, "")>>)
IsStanza(name) == name.local \in Locals /\ name.space = StanzaNS

(***************************************************************************)
(* HandleXMPP.  An element is a name, the type and whether its addresses   *)
(* parse, and the tokens after its start; a token is [kind, name].         *)
(***************************************************************************)
Opening(e) == [kind |-> "start", name |-> e.name]
Called(h, name, saw) == [handler |-> h, payload |-> name, saw |-> saw, reply |-> FALSE]

\* Handler: a pattern of Handle gets the element before the routers do.
HandleOther(e) ==
    /\ muxAt = "idle" /\ (TopHandler(e.name) # NoPattern \/ ~IsStanza(e.name))
    /\ element' = e /\ muxAt' = "done"
    /\ called' = <<Called(TopHandler(e.name), e.name, <<>>)>>
    /\ UNCHANGED <<table, wire, buf, offset, handlerErr, todo>>
Routed(e) == muxAt = "idle" /\ TopHandler(e.name) = NoPattern /\ IsStanza(e.name)

\* NewIQ, NewMessage and NewPresence fail if an address does.
RouteBad(e) ==
    /\ Routed(e) /\ ~e.parses /\ element' = e /\ muxAt' = "failed"
    /\ UNCHANGED <<table, wire, buf, offset, called, handlerErr, todo>>

\* iqRouter: white space before the payload is dropped; no payload is an
\* error unless the IQ is a result, and text instead of one always is.  An
\* IQ without handler goes to iqFallback, which answers all but answers.
iqFallback(h, type) == h = NoPattern /\ type \notin {"error", "result"}
FirstToken(e) == SelectInSeq(e.body, LAMBDA t : t.kind # "space")
iqPayload(e) ==
    IF FirstToken(e) = 0 THEN [kind |-> "cut", name |-> NoName] ELSE e.body[FirstToken(e)]
RouteIQ(e) ==
    /\ Routed(e) /\ e.parses /\ e.name.local = "iq" /\ element' = e
    /\ LET t == iqPayload(e)
           ok == t.kind = "start" \/ (t.kind = "end" /\ e.type = "result")
       IN  /\ muxAt' = IF ok THEN "done" ELSE "failed"
           /\ called' = IF ~ok THEN <<>> ELSE
                LET h == IQHandler(e.type, t.name)
                IN  <<[Called(h, t.name, <<>>) EXCEPT !.reply = iqFallback(h, e.type)]>>
    /\ UNCHANGED <<table, wire, buf, offset, handlerErr, todo>>

\* msgRouter, presenceRouter: forChildren starts behind the start token.
RouteChildren(e) ==
    /\ Routed(e) /\ e.parses /\ e.name.local # "iq"
    /\ element' = e /\ muxAt' = "children"
    /\ buf' = <<Opening(e)>> /\ offset' = 1 /\ wire' = e.body
    /\ UNCHANGED <<table, called, handlerErr, todo>>

(***************************************************************************)
(* bufReader and the iterator of xmlstream that reads from it.             *)
(***************************************************************************)
\* What bufReader gives out: the buffer, then the session's reader, whose
\* tokens are kept.
Stream == buf \o wire
BufReader(n) ==
    /\ buf' = IF n <= Len(buf) THEN buf ELSE SubSeq(Stream, 1, n)
    /\ wire' = IF n <= Len(buf) THEN wire ELSE SubSeq(Stream, n + 1, Len(Stream))

\* The depth behind token i; a child opens at depth 2, the stanza ends at 0.
DepthAt(s, i) ==
    LET n(kind) == Cardinality({j \in 1..i : s[j].kind = kind}) IN n("start") - n("end")
ChildAt(s, i) == s[i].kind = "start" /\ DepthAt(s, i) = 2
EndAt(s, i) == s[i].kind = "end" /\ DepthAt(s, i) = 0
StopsAt(s) == {i \in offset + 1 .. Len(s) : ChildAt(s, i) \/ EndAt(s, i)}

\* Iter.Next skips what is left of a child, and text.
NextChild ==
    /\ muxAt = "children" /\ StopsAt(Stream) # {}
    /\ LET i == Min(StopsAt(Stream))
       IN  /\ BufReader(i) /\ offset' = i
           /\ muxAt' = IF ChildAt(Stream, i) THEN "handler" ELSE "ended"
    /\ UNCHANGED <<table, element, called, handlerErr, todo>>

\* The stream breaks off: the error of the iterator hides the handlers'.
NextFails ==
    /\ muxAt = "children" /\ StopsAt(Stream) = {}
    /\ BufReader(Len(Stream)) /\ offset' = Len(Stream) /\ muxAt' = "failed"
    /\ UNCHANGED <<table, element, called, handlerErr, todo>>

HandlerFor(name) ==
    IF element.name.local = "message" THEN MessageHandler(element.type, name)
                                      ELSE PresenceHandler(element.type, name)
\* A handler reads n tokens, through a bufReader of its own that starts at
\* the start of the stanza, and returns; r takes over that buffer.
TakeOverBug(n) ==
    /\ wire' = IF n <= Len(buf) THEN wire ELSE SubSeq(Stream, n + 1, Len(Stream))
    /\ UNCHANGED buf
TakeOver(n) == BufReader(n)
HandleChild(asks, fails) ==
    /\ muxAt = "handler"
    /\ LET name == Stream[offset].name
           n    == Min({asks, Len(Stream)})
       IN  /\ called' = Append(called, Called(HandlerFor(name), name, SubSeq(Stream, 1, n)))
           /\ TakeOver(n)
    /\ muxAt' = "children" /\ handlerErr' = (handlerErr \/ fails)
    /\ UNCHANGED <<table, element, offset, todo>>

\* Only a stanza of two tokens goes to the handler for everything.
EmptyStanza == Len(buf) = 2 /\ ~handlerErr
EndChildren ==
    /\ muxAt = "ended" /\ muxAt' = IF handlerErr THEN "failed" ELSE "done"
    /\ called' = IF EmptyStanza THEN <<Called(HandlerFor(NoName), NoName, Stream)>> ELSE called
    /\ UNCHANGED <<table, element, wire, buf, offset, handlerErr, todo>>

(***************************************************************************)
(* Service discovery: the mux is an iterator over its handlers, in the     *)
(* order of a Go map, and over what Feature and Ident registered.  The     *)
(* callback may fail.                                                      *)
(***************************************************************************)
Iterate(of, extra) ==
    /\ muxAt = "idle" /\ muxAt' = "handlers" /\ todo' = [of |-> of, handlers |-> table, extra |-> extra]
    /\ UNCHANGED <<table, element, wire, buf, offset, called, handlerErr>>
ForItems == Iterate("items", {})
ForForms == Iterate("forms", {})
ForFeatures == Iterate("features", {"Feature"})
ForIdentities == Iterate("identities", {"Ident"})

Visit(fails) ==
    /\ muxAt \in {"handlers", "extra"}
    /\ \E h \in todo[muxAt] : todo' = [todo EXCEPT ![muxAt] = @ \ {h}]
    /\ muxAt' = IF fails THEN "failed" ELSE muxAt
    /\ UNCHANGED <<table, element, wire, buf, offset, called, handlerErr>>
Visited ==
    /\ muxAt \in {"handlers", "extra"} /\ todo[muxAt] = {}
    /\ muxAt' = IF muxAt = "handlers" THEN "extra" ELSE "done"
    /\ UNCHANGED <<table, element, wire, buf, offset, called, handlerErr, todo>>

(***************************************************************************)
(* Properties.                                                             *)
(***************************************************************************)
\* The children of the element, read off it directly.
Whole == <<Opening(element)>> \o element.body
Children == LET c == SelectSeq([i \in DOMAIN Whole |-> i], LAMBDA i : ChildAt(Whole, i))
            IN  [i \in DOMAIN c |-> Whole[c[i]].name]

Matches(p, stanza, type, name) ==
    p.stanza = stanza /\ p.type = type /\ p.space \in {"", name.space} /\ p.local \in {"", name.local}
Closer(p, q) == p # q /\ p.space \in {q.space} \cup (IF q.space = "" THEN {p.space} ELSE {})
                /\ p.local \in {q.local} \cup (IF q.local = "" THEN {p.local} ELSE {})
\* h is there and matches, and no closer pattern does; or there is none.
Closest(h, stanza, type, name) ==
    LET S == {p \in table : Matches(p, stanza, type, name)}
    IN  IF h = NoPattern THEN S = {} ELSE h \in S /\ \A p \in S : ~Closer(p, h)

\* However much of a stanza its handlers read, every child of a message or
\* presence is handled once, in order, by the closest pattern of its type, each
\* handler sees the stanza from its start, and a stanza without content goes to
\* the handler for everything; an IQ goes to one handler (mux.go:77-211, 388-557).
Dispatched ==
    muxAt = "done" /\ element # <<>> /\ TopHandler(element.name) = NoPattern /\ IsStanza(element.name) =>
      LET e == element
          payloads == [i \in DOMAIN called |-> called[i].payload]
      IN  /\ payloads = CASE e.name.local = "iq" -> IF Children = <<>> THEN <<NoName>> ELSE <<Children[1]>>
                          [] Len(e.body) = 1 -> <<NoName>>
                          [] OTHER -> Children
          /\ \A i \in DOMAIN called :
               /\ Closest(called[i].handler, e.name.local, e.type, called[i].payload)
               /\ IsPrefix(called[i].saw, Whole)
=============================================================================
