-------------------------------- MODULE Jid --------------------------------
(***************************************************************************)
(* Addresses: jid.JID, one byte slice with two lengths, the functions that *)
(* make one from another, and the transformers that escape and unescape a  *)
(* localpart piece by piece.                                               *)
(*                                                                         *)
(* Text is a sequence of characters of a small alphabet: a letter in both  *)
(* cases, the separators, the dot, brackets, "bad" for what is not UTF-8,   *)
(* and "4" for an IPv4 address as a whole.                                 *)
(***************************************************************************)
EXTENDS Integers, Sequences, SequencesExt, FiniteSetsExt

CONSTANTS Addresses,    \* strings given to Parse
          Parts,        \* strings given to WithLocal, WithDomain and WithResource
          MaxPart,      \* the length limit of a part, 1023 in the code
          MaxChanges,   \* bound: changes of one address
          Texts,        \* [op, text]: what is escaped or unescaped
          Room          \* free bytes of the destination at every Transform

VARIABLES jid,          \* the address at hand
          jidAt,        \* "none", "ok", "error"
          changes,      \* changes made to it so far
          task,         \* what is being transformed
          out, pSrc,    \* output so far, input consumed
          textAt        \* "run", "done", "error", "panic"

jidVars == <<jid, jidAt, changes>>
textVars == <<task, out, pSrc, textAt>>

ZeroJID == [locallen |-> 0, domainlen |-> 0, data |-> <<>>]
JidInit == jid = ZeroJID /\ jidAt = "none" /\ changes = 0
TextInit == task = [op |-> "none", text |-> <<>>] /\ out = <<>> /\ pSrc = 0 /\ textAt = "idle"

(***************************************************************************)
(* Making an address.                                                      *)
(***************************************************************************)
Has(s, c) == \E i \in DOMAIN s : s[i] = c
IndexOf(s, c) == SelectInSeq(s, LAMBDA x : x = c)
Lower(s) == [i \in DOMAIN s |-> IF s[i] = "A" THEN "a" ELSE s[i]]

\* The profiles of precis and idna.
UsernameCaseMapped(s) == Lower(s)
OpaqueString(s) == s
ToUnicodeFails(s) == \E c \in {"@", "/", "[", "]"} : Has(s, c)

Failed == [ok |-> FALSE, jid |-> ZeroJID]
Made(local, domain, resource) ==
    [ok |-> TRUE, jid |-> [locallen |-> Len(local), domainlen |-> Len(domain),
                           data |-> local \o domain \o resource]]

localChecks(s) == Len(s) <= MaxPart /\ ~Has(s, "@") /\ ~Has(s, "/")
resourceChecks(s) == Len(s) <= MaxPart

\* One dot at the end is removed.
TrimSuffix(s) == IF s # <<>> /\ Last(s) = "." THEN Front(s) ELSE s
\* An IPv6 address in brackets (a hexadecimal digit stands for it) and an IPv4
\* address stay as they are.
IPLiteral(s) == s = <<"4">> \/ s \in {<<"[", "a", "]">>, <<"[", "A", "]">>}
normalizeDomainpart(s) ==
    LET d == Lower(TrimSuffix(s))
    IN  IF IPLiteral(s) THEN [ok |-> TRUE, domain |-> s]
        ELSE [ok |-> ~Has(s, "bad") /\ ~ToUnicodeFails(d) /\ Len(d) \in 1 .. MaxPart, domain |-> d]

NewJID(local, domain, resource) ==
    LET l == UsernameCaseMapped(local)
        d == normalizeDomainpart(domain)
        r == OpaqueString(resource)
    IN  IF ~Has(local, "bad") /\ ~Has(resource, "bad") /\ d.ok /\ localChecks(l) /\ resourceChecks(r)
        THEN Made(l, d.domain, r) ELSE Failed

\* The resourcepart is cut off first, so that it may hold both separators.
splitString(s) ==
    LET slash == IndexOf(s, "/")
        front == IF slash = 0 THEN s ELSE SubSeq(s, 1, slash - 1)
        at    == IndexOf(front, "@")
    IN  [ok |-> ~(slash # 0 /\ slash = Len(s)) /\ at # 1,
         local |-> SubSeq(front, 1, at - 1), domain |-> SubSeq(front, at + 1, Len(front)),
         resource |-> IF slash = 0 THEN <<>> ELSE SubSeq(s, slash + 1, Len(s))]
ParseJID(s) == LET p == splitString(s) IN
    IF p.ok THEN NewJID(p.local, p.domain, p.resource) ELSE Failed

\* Unsafe: the parts as they are.
NewUnsafe(local, domain, resource) == Made(local, domain, resource).jid
ParseUnsafe(s) == LET p == splitString(s) IN NewUnsafe(p.local, p.domain, p.resource)

(***************************************************************************)
(* Taking it apart.                                                        *)
(***************************************************************************)
Localpart(j) == SubSeq(j.data, 1, j.locallen)
Domainpart(j) == SubSeq(j.data, j.locallen + 1, j.locallen + j.domainlen)
Resourcepart(j) == SubSeq(j.data, j.locallen + j.domainlen + 1, Len(j.data))
Bare(j) == [j EXCEPT !.data = SubSeq(@, 1, j.locallen + j.domainlen)]
Domain(j) == [locallen |-> 0, domainlen |-> j.domainlen, data |-> Domainpart(j)]

\* Whether there is a resourcepart is seen by the length of what is there.
StringOf(j) ==
    LET s == (IF j.locallen > 0 THEN Localpart(j) \o <<"@">> ELSE <<>>) \o Domainpart(j)
        addsep == IF j.locallen > 0 THEN 1 ELSE 0
    IN  IF Len(s) # Len(j.data) + addsep THEN s \o <<"/">> \o Resourcepart(j) ELSE s

(***************************************************************************)
(* The operations, each on the result of the one before.                   *)
(***************************************************************************)
Yields(r) ==
    /\ jid' = r.jid /\ jidAt' = (IF r.ok THEN "ok" ELSE "error")
    /\ changes' = changes + 1 /\ UNCHANGED textVars
Parse(s) == jidAt = "none" /\ Yields(ParseJID(s))
Changing == jidAt = "ok" /\ changes < MaxChanges

\* The other parts are not looked at again.
WithLocal(s) ==
    /\ Changing
    /\ LET l == UsernameCaseMapped(s)
       IN  Yields([ok |-> ~Has(s, "bad") /\ localChecks(l),
                   jid |-> [jid EXCEPT !.locallen = Len(l),
                                       !.data = l \o SubSeq(@, jid.locallen + 1, Len(@))]])
WithDomain(s) ==
    /\ Changing
    /\ LET d == normalizeDomainpart(s)
       IN  Yields([ok |-> d.ok,
                   jid |-> [jid EXCEPT !.domainlen = Len(d.domain),
                                       !.data = Localpart(jid) \o d.domain \o Resourcepart(jid)]])
WithResource(s) ==
    /\ Changing
    /\ Yields([ok |-> ~Has(s, "bad") /\ resourceChecks(OpaqueString(s)),
               jid |-> [Bare(jid) EXCEPT !.data = @ \o OpaqueString(s)]])
ToBare == Changing /\ Yields([ok |-> TRUE, jid |-> Bare(jid)])
ToDomain == Changing /\ Yields([ok |-> TRUE, jid |-> Domain(jid)])
\* UnmarshalXMLAttr: an empty attribute leaves the address alone.
UnmarshalXMLAttr(s) == Changing /\ Yields(IF s = <<>> THEN [ok |-> TRUE, jid |-> jid] ELSE ParseJID(s))

(***************************************************************************)
(* Escape and Unescape.  A transformer is given what is left of the input  *)
(* and Room bytes, and returns what it wrote, how much it consumed and an  *)
(* error; transform.String calls it again until all is consumed.           *)
(***************************************************************************)
Escapable == {" ", "\\"}
Sequence(c) == IF c = " " THEN <<"\\", "2", "0">> ELSE <<"\\", "5", "c">>
shouldUnescape(s) == s \in {<<"2", "0">>, <<"5", "c">>}
\* unhex of two characters; what is no digit counts as 0.
Unhex(s) == IF s = <<"2", "0">> THEN " " ELSE IF s = <<"5", "c">> THEN "\\" ELSE "other"
ishex(c) == c \in {"2", "0", "5", "c", "a"}
Result(dst, n, e) == [dst |-> dst, nSrc |-> n, err |-> e]
Copied(dst, src) == SubSeq(src, 1, Min({Len(src), Room - Len(dst)}))
Rest(src, n) == SubSeq(src, n + 1, Len(src))

\* escapeMapping.Transform.  The length that was copied is compared with idx
\* less the new nSrc, so that text before an escapable character ends the call
\* with ErrShortDst; the next call goes on at that character.
RECURSIVE Escape(_, _, _)
Escape(dst, src, nSrc) ==
    LET rest == Rest(src, nSrc)
        idx  == SelectInSeq(rest, LAMBDA c : c \in Escapable) - 1
        put  == Copied(dst, IF idx = -1 THEN rest ELSE SubSeq(rest, 1, idx))
        n    == nSrc + Len(put)
        seq  == Copied(dst \o put, Sequence(src[n + 1]))
    IN  CASE rest = <<>> -> Result(dst, nSrc, "nil")
          [] idx = -1 -> IF n < Len(src) THEN Result(dst \o put, n, "short dst")
                                         ELSE Result(dst \o put, n, "nil")
          [] idx # -1 /\ Len(put) # idx - n -> Result(dst \o put, n, "short dst")
          [] OTHER -> IF Len(seq) # 3 THEN Result(dst \o put \o seq, n + 1, "short dst")
                                      ELSE Escape(dst \o put \o seq, src, n + 1)

\* unescapeMapping.Transform at the end of the input.  The digits are looked
\* for behind nSrc by the length that was copied before the sequence.
RECURSIVE Unescape(_, _, _)
Unescape(dst, src, nSrc) ==
    LET rest == Rest(src, nSrc)
        idx  == IndexOf(rest, "\\") - 1
        all  == Copied(dst, rest)
        put  == Copied(dst, SubSeq(rest, 1, idx))
        n    == nSrc + Len(put)
        at   == n + (IF Len(put) = 0 THEN 1 ELSE Len(put))
        char == Copied(dst \o put, <<Unhex(SubSeq(src, at + 1, at + 2))>>)
        skip == Copied(dst, SubSeq(rest, 1, idx + 1))
    IN  CASE rest = <<>> -> Result(dst, nSrc, "nil")
          [] rest # <<>> /\ (idx = -1 \/ idx >= Len(rest) - 2) ->
               Result(dst \o all, nSrc + Len(all), IF Len(all) < Len(rest) THEN "short dst" ELSE "nil")
          [] idx # -1 /\ idx < Len(rest) - 2 /\ shouldUnescape(SubSeq(rest, idx + 2, idx + 3)) ->
               IF Len(put) # idx THEN Result(dst \o put, n, "short dst")
               ELSE IF at + 2 > Len(src) THEN Result(dst, nSrc, "panic")
               ELSE IF Len(char) # 1 THEN Result(dst \o put, n + 3, "short dst")
               ELSE Unescape(dst \o put \o char, src, n + 3)
          [] OTHER -> IF Len(skip) # idx + 1 THEN Result(dst \o skip, nSrc + Len(skip), "short dst")
                      ELSE Unescape(dst \o skip, src, nSrc + idx + 1)

\* The Span methods: how much of the text the transformer would leave alone.
EscapeSpan(s) == LET i == SelectInSeq(s, LAMBDA c : c \in Escapable) IN IF i = 0 THEN Len(s) ELSE i - 1
UnescapeSpan(s) ==
    LET S == {i \in 1 .. Len(s) - 2 : s[i] = "\\" /\ shouldUnescape(SubSeq(s, i + 1, i + 2))}
    IN  IF S = {} THEN Len(s) ELSE Min(S) - 1

StartText(t) ==
    /\ textAt = "idle" /\ task' = t /\ textAt' = "run" /\ UNCHANGED <<out, pSrc, jidVars>>
Transform ==
    /\ textAt = "run"
    /\ LET src == Rest(task.text, pSrc)
           r   == IF task.op = "escape" THEN Escape(<<>>, src, 0) ELSE Unescape(<<>>, src, 0)
       IN  /\ out' = out \o r.dst /\ pSrc' = pSrc + r.nSrc
           /\ textAt' = CASE r.err = "panic" -> "panic" [] pSrc' = Len(task.text) -> "done" [] OTHER -> "run"
    /\ UNCHANGED <<task, jidVars>>

(***************************************************************************)
(* Properties.                                                             *)
(***************************************************************************)
\* What the text means: each character, or each escape sequence, on its own.
RECURSIVE Meaning(_)
Meaning(t) ==
    CASE t.text = <<>> -> <<>>
      [] t.op = "unescape" /\ Len(t.text) >= 3 /\ t.text[1] = "\\" /\ shouldUnescape(SubSeq(t.text, 2, 3)) ->
           <<Unhex(SubSeq(t.text, 2, 3))>> \o Meaning([t EXCEPT !.text = SubSeq(@, 4, Len(@))])
      [] OTHER ->
           (IF t.op = "escape" /\ t.text[1] \in Escapable THEN Sequence(t.text[1]) ELSE <<t.text[1]>>)
             \o Meaning([t EXCEPT !.text = Tail(@)])

\* A text that is escaped keeps every character however often the transformer
\* breaks off, as long as a call has room for all of it, and so does one whose
\* sequences follow at most one character (four with the sequence) when it is
\* unescaped (escape.go:74-106, 175-247).
TextKept == textAt \in {"done", "panic"}
    /\ (task.op = "escape" => 3 * Len(task.text) <= Room)
    /\ (task.op = "unescape" => Len(task.text) <= Min({4, Room}))
      => textAt = "done" /\ out = Meaning(task)

\* An address read from its own string is the same address, after any changes
\* of its parts; a domain that keeps a dot at its end is left out
\* (jid.go:41-198, 228-239, 316-367).
AddressKept == jidAt = "ok" /\ Last(Domainpart(jid)) # "." =>
    ParseJID(StringOf(jid)) = [ok |-> TRUE, jid |-> jid]

\* jid/escape.go:54-55: "Unescape is a transform that maps valid escape
\* sequences to their unescaped form."
Unescaped == textAt \in {"done", "panic"} /\ task.op = "unescape"
    => textAt = "done" /\ out = Meaning(task)
=============================================================================
