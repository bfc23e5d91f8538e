------------------------------ MODULE Library ------------------------------
(***************************************************************************)
(* The parts of the library that a session's goroutines use one at a time: *)
(* the multiplexer, the dialers, addresses, stanzas, forms and message     *)
(* styling.  A behaviour is about one of them, chosen at its start.        *)
(***************************************************************************)
EXTENDS Mux, Dial, Jid, Stanza, Form, Styling

VARIABLE part
vars == <<part, muxVars, dialVars, jidVars, textVars, stanzaVars, formVars, stylingVars>>

Init ==
    /\ part \in {"mux", "dial", "jid", "text", "stanza", "form", "styling"}
    /\ MuxInit /\ JidInit /\ TextInit /\ StanzaInit /\ FormInit /\ StylingInit
    /\ DialInit /\ (part # "dial" => dialer = CHOOSE d \in Dialers : TRUE)

Of(p) == part = p /\ UNCHANGED part
MuxPart == Of("mux") /\ UNCHANGED <<dialVars, jidVars, textVars, stanzaVars, formVars, stylingVars>>
DialPart == Of("dial") /\ UNCHANGED <<muxVars, jidVars, textVars, stanzaVars, formVars, stylingVars>>
\* The actions of Jid leave each other's variables alone themselves.
JidPart == Of("jid") /\ UNCHANGED <<muxVars, dialVars, stanzaVars, formVars, stylingVars>>
TextPart == Of("text") /\ UNCHANGED <<muxVars, dialVars, stanzaVars, formVars, stylingVars>>
StanzaPart == Of("stanza") /\ UNCHANGED <<muxVars, dialVars, jidVars, textVars, formVars, stylingVars>>
FormPart == Of("form") /\ UNCHANGED <<muxVars, dialVars, jidVars, textVars, stanzaVars, stylingVars>>
StylingPart == Of("styling") /\ UNCHANGED <<muxVars, dialVars, jidVars, textVars, stanzaVars, formVars>>

Next ==
    \/ MuxPart /\ \E p \in Patterns, isNil \in BOOLEAN : Register(p, isNil)
    \/ MuxPart /\ New
    \/ MuxPart /\ \E e \in Elements : HandleOther(e)
    \/ MuxPart /\ \E e \in Elements : RouteBad(e)
    \/ MuxPart /\ \E e \in Elements : RouteIQ(e)
    \/ MuxPart /\ \E e \in Elements : RouteChildren(e)
    \/ MuxPart /\ NextChild
    \/ MuxPart /\ NextFails
    \/ MuxPart /\ \E n \in Reads, fails \in BOOLEAN : HandleChild(n, fails)
    \/ MuxPart /\ EndChildren
    \/ MuxPart /\ ForItems
    \/ MuxPart /\ ForForms
    \/ MuxPart /\ ForFeatures
    \/ MuxPart /\ ForIdentities
    \/ MuxPart /\ \E fails \in BOOLEAN : Visit(fails)
    \/ MuxPart /\ Visited
    \/ DialPart /\ DialNext
    \/ JidPart /\ \E s \in Addresses : Parse(s)
    \/ JidPart /\ ToBare
    \/ JidPart /\ ToDomain
    \/ JidPart /\ \E s \in Parts : UnmarshalXMLAttr(s)
    \/ JidPart /\ \E s \in Parts : WithLocal(s)
    \/ JidPart /\ \E s \in Parts : WithDomain(s)
    \/ JidPart /\ \E s \in Parts : WithResource(s)
    \/ TextPart /\ \E t \in Texts : StartText(t)
    \/ TextPart /\ Transform
    \/ StanzaPart /\ \E h \in Headers : WriteStanza(h)
    \/ StanzaPart /\ ReadStanza
    \/ StanzaPart /\ AnswerResult
    \/ StanzaPart /\ \E e \in StanzaErrors, front \in Before : AnswerError(e, front)
    \/ StanzaPart /\ ReadAnswer
    \/ StanzaPart /\ ReadResult
    \/ FormPart /\ \E f \in Fields : AddField(f)
    \/ FormPart /\ \E i \in 1 .. MaxFields, v \in Values : Set(i, v)
    \/ FormPart /\ Submit
    \/ StylingPart /\ \E t \in Documents : StartDocument(t)
    \/ StylingPart /\ \E n \in Pieces, last \in BOOLEAN : Read(n, last)
    \/ StylingPart /\ ReadEnd
    \/ StylingPart /\ NextToken
Spec == Init /\ [][Next]_vars

\* What is written is what is read: TextKept, AddressKept, StanzaKept, FormKept
\* (escape.go:74-106, jid.go:41-367, iq.go:47-136, form.go:207-500).
RoundTrip == TextKept /\ AddressKept /\ StanzaKept /\ FormKept
=============================================================================
