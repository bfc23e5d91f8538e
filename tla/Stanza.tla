------------------------------- MODULE Stanza -------------------------------
(***************************************************************************)
(* Stanzas on the wire: the start elements of an IQ, a message and a       *)
(* presence, the answers made from them, and stanza errors.  A value is    *)
(* written by one side and read by the other; "" is the zero value and     *)
(* "bad" an address that does not parse.                                   *)
(***************************************************************************)
EXTENDS Integers, Sequences, SequencesExt, FiniteSets, TLC

CONSTANTS Headers,      \* [kind, type, to, from, id, lang]: stanzas to write
          StanzaErrors, \* [type, by, condition, text]: errors to answer with
          Before        \* what the peer may put in front of the error

VARIABLES stanza,       \* the stanza of the sender
          reply,        \* how the receiver answered
          attrs,        \* attributes of the start element on the wire
          body,         \* its children on the wire
          read,         \* the header the other side read
          readErr,      \* the stanza error it read
          stanzaAt

stanzaVars == <<stanza, reply, attrs, body, read, readErr, stanzaAt>>

NoHeader == [kind |-> "", type |-> "", to |-> "", from |-> "", id |-> "", lang |-> ""]
NoError == [type |-> "", by |-> "", condition |-> "", text |-> <<>>]
StanzaInit ==
    /\ stanza = NoHeader /\ reply = NoError /\ attrs = <<>> /\ body = <<>>
    /\ read = NoHeader /\ readErr = NoError /\ stanzaAt = "none"

(***************************************************************************)
(* StartElement, NewIQ, NewMessage and NewPresence.                        *)
(***************************************************************************)
\* The zero value of a field is not written, except for a type.
StartAttrs(h, always) ==
    LET S == {a \in {"to", "from", "id", "lang"} : h[a] # ""}
             \cup (IF always \/ h.type # "" THEN {"type"} ELSE {})
    IN  [a \in S |-> h[a]]
iqStart(h) == StartAttrs(h, TRUE)
messageStart(h) == StartAttrs(h, TRUE)
presenceStart(h) == StartAttrs(h, FALSE)
StartElement(h) == CASE h.kind = "iq" -> iqStart(h) [] h.kind = "message" -> messageStart(h)
                     [] OTHER -> presenceStart(h)

Attr(as, a) == IF a \in DOMAIN as THEN as[a] ELSE ""
Parses(as) == Attr(as, "to") # "bad" /\ Attr(as, "from") # "bad"
ReadAttrs(kind, as, type) ==
    [kind |-> kind, type |-> type, to |-> Attr(as, "to"), from |-> Attr(as, "from"),
     id |-> Attr(as, "id"), lang |-> Attr(as, "lang")]
NewIQ(as) == ReadAttrs("iq", as, Attr(as, "type"))
\* Every type that is not known, and none, is normal.
MessageType(t) == IF t \in {"chat", "error", "groupchat", "headline"} THEN t ELSE "normal"
NewMessage(as) == ReadAttrs("message", as, MessageType(Attr(as, "type")))
NewPresence(as) == ReadAttrs("presence", as, Attr(as, "type"))
NewStanza(kind, as) == CASE kind = "iq" -> NewIQ(as) [] kind = "message" -> NewMessage(as)
                         [] OTHER -> NewPresence(as)

WriteStanza(h) ==
    /\ stanzaAt = "none" /\ stanzaAt' = "written" /\ stanza' = h /\ attrs' = StartElement(h)
    /\ UNCHANGED <<reply, body, read, readErr>>
ReadStanza ==
    /\ stanzaAt = "written"
    /\ IF Parses(attrs) THEN stanzaAt' = "read" /\ read' = NewStanza(stanza.kind, attrs)
                        ELSE stanzaAt' = "error" /\ UNCHANGED read
    /\ UNCHANGED <<stanza, reply, attrs, body, readErr>>

(***************************************************************************)
(* Answers.                                                                *)
(***************************************************************************)
\* Result and Error swap the addresses and keep the ID.
SwappedBug(h, type) == [h EXCEPT !.type = type, !.to = h.from]
Swapped(h, type) == [h EXCEPT !.type = type, !.to = h.from, !.from = h.to]
AnswerResult ==
    /\ stanzaAt = "read" /\ read.kind = "iq" /\ stanzaAt' = "answered"
    /\ attrs' = StartElement(Swapped(read, "result")) /\ body' = <<>>
    /\ UNCHANGED <<stanza, reply, read, readErr>>

\* Error.Wrap: the condition, then the texts that are not empty, by language.
ErrorChildren(e) ==
    <<[name |-> "condition", value |-> IF e.condition = "" THEN "undefined-condition" ELSE e.condition]>>
      \o SelectSeq([i \in DOMAIN e.text |-> [name |-> e.text[i].lang, value |-> e.text[i].data]],
                   LAMBDA t : t.value # "")
ErrorElement(e) == [name |-> "error", type |-> e.type, by |-> e.by, children |-> ErrorChildren(e)]
\* The peer may echo the stanza, or indent it, in front of the error.
AnswerError(e, front) ==
    /\ stanzaAt = "read" /\ stanzaAt' = "answered" /\ reply' = e
    /\ attrs' = StartElement(Swapped(read, "error"))
    /\ body' = front \o <<ErrorElement(e)>>
    /\ UNCHANGED <<stanza, read, readErr>>

\* Error.UnmarshalXML: the first condition, the texts that are not empty.
DecodeError(x) ==
    [type |-> x.type, by |-> x.by, condition |-> x.children[1].value,
     text |-> [i \in 1 .. Len(x.children) - 1 |->
                 [lang |-> x.children[i + 1].name, data |-> x.children[i + 1].value]]]
\* UnmarshalError: the first child named error; a child that is no element is
\* dereferenced all the same.
ReadAnswer ==
    /\ stanzaAt = "answered" /\ body # <<>> /\ Parses(attrs)
    /\ LET i == SelectInSeq(body, LAMBDA c : c.name = "error" \/ c.name = "text")
       IN  IF i # 0 /\ body[i].name = "text" THEN stanzaAt' = "panic" /\ UNCHANGED <<read, readErr>>
           ELSE /\ stanzaAt' = "done" /\ readErr' = DecodeError(body[i])
                /\ read' = NewStanza(stanza.kind, attrs)
    /\ UNCHANGED <<stanza, reply, attrs, body>>
ReadResult ==
    /\ stanzaAt = "answered" /\ body = <<>> /\ Parses(attrs)
    /\ stanzaAt' = "done" /\ read' = NewStanza(stanza.kind, attrs)
    /\ UNCHANGED <<stanza, reply, attrs, body, readErr>>

\* Error.Is, for errors.Is: an empty field of the target matches everything.
Is(e, target) ==
    (target.type \in {"", e.type}) /\ (target.condition \in {"", e.condition})

(***************************************************************************)
(* Properties.                                                             *)
(***************************************************************************)
\* A stanza is read as it was written, but for a message type that is not
\* known; its answer comes back to the sender, from the receiver, under the
\* same ID; and an error in it matches the one that was sent, with the same
\* texts (iq.go:47-166, message.go:49-133, error.go:267-353, 393-451).
StanzaKept ==
    /\ stanzaAt = "read" => read = [stanza EXCEPT !.type = IF stanza.kind = "message" THEN MessageType(@) ELSE @]
    /\ stanzaAt = "done" =>
         /\ read.to = stanza.from /\ read.from = stanza.to /\ read.id = stanza.id
         /\ body # <<>> => /\ Is(readErr, reply) /\ readErr.by = reply.by
                          /\ readErr.text = SelectSeq(reply.text, LAMBDA t : t.data # "")
=============================================================================
