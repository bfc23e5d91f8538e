------------------------------ MODULE Styling ------------------------------
(***************************************************************************)
(* Message styling: styling.Decoder, a split function for bufio.Scanner    *)
(* with a state of its own, and a decoder inside it for every level of     *)
(* quotation.  The document arrives in pieces.                             *)
(*                                                                         *)
(* A document is a sequence of characters: the directives, ">", a space, a *)
(* line break and "a".  A style bit is <<what, kind>>: what is a directive,*)
(* "pre" or "quote", kind is "on", "start" or "end".                       *)
(***************************************************************************)
EXTENDS Integers, Sequences, SequencesExt, FiniteSetsExt

CONSTANTS Documents,    \* documents to decode
          Pieces        \* sizes of what one Read of the input gives

VARIABLES document,
          fed,          \* characters the Scanner has read
          eof,          \* "no", "after" the last character or "with" it
          pos,          \* characters consumed
          decoder,      \* the Decoder and, behind it, its quoteSplits
          tokens,       \* [n, style]: the tokens that were scanned
          level,        \* Quote() at the last token
          closes,       \* virtual block quote end tokens
          stylingAt

stylingVars == <<document, fed, eof, pos, decoder, tokens, level, closes, stylingAt>>

NewDecoder == [mask |-> {}, clear |-> {}, quoteStarted |-> FALSE, lastNewline |-> FALSE,
               hasRun |-> FALSE, spanStack |-> <<>>]
StylingInit ==
    /\ document = <<>> /\ fed = 0 /\ eof = "no" /\ pos = 0 /\ decoder = <<NewDecoder>>
    /\ tokens = <<>> /\ level = 0 /\ closes = 0 /\ stylingAt = "none"

Directives == {"star", "low", "tick", "tilde"}
Fence == <<"tick", "tick", "tick">>
isSpace(c) == c \in {" ", "\n"}
SpaceAt(s, i) == i \in DOMAIN s /\ isSpace(s[i])
Starts(what) == {<<what, "on">>, <<what, "start">>}
NewlineIn(s) == SelectInSeq(s, LAMBDA c : c = "\n")

\* A split function returns its state and the length of the token; 0 asks for
\* more data.
Split(d, n) == [d |-> d, n |-> n]
OrMoreBug(data, atEOF) == Len(data)
OrMore(data, atEOF) == IF atEOF THEN Len(data) ELSE 0

(***************************************************************************)
(* scanSpan.  In the loop over the data the first of three positions ends  *)
(* it: the line break, the directive that ends the innermost open span, or *)
(* the one that ends the first span found.                                 *)
(***************************************************************************)
First(S) == IF S = {} THEN 0 ELSE Min(S)
Innermost(d, data) ==
    First({i \in DOMAIN data : d.spanStack # <<>> /\ data[i] = Last(d.spanStack)})
\* Two of a kind are not a start.
SpanStart(d, data) ==
    First({i \in DOMAIN data :
             /\ data[i] \in Directives /\ <<"tick", "on">> \notin d.mask
             /\ (i = 1 \/ SpaceAt(data, i - 1)) /\ ~SpaceAt(data, i + 1)
             /\ ~(i < Len(data) /\ data[i + 1] = data[i])})
SpanEnd(d, data) ==
    LET s == SpanStart(d, data)
    IN  IF s = 0 THEN 0
        ELSE First({i \in s + 2 .. Len(data) : data[i] = data[s] /\ ~SpaceAt(data, i - 1)})

OpenSpan(d, b) == [d EXCEPT !.spanStack = Append(@, b), !.mask = @ \cup Starts(b),
                            !.clear = @ \cup {<<b, "start">>}]
CloseSpan(d, b) == [d EXCEPT !.spanStack = Front(@), !.mask = @ \cup {<<b, "end">>},
                             !.clear = @ \cup {<<b, "on">>, <<b, "end">>}]
scanSpan(d, data, atEOF) ==
    LET line  == NewlineIn(data)
        inner == Innermost(d, data)
        end   == SpanEnd(d, data)
        at    == First({line, inner, end} \ {0})
    IN  CASE at = 0 -> Split(d, OrMore(data, atEOF))
          [] at # 0 /\ at = line -> Split(d, line)
          [] at # 0 /\ at = inner -> IF inner = 1 THEN Split(CloseSpan(d, data[1]), 1) ELSE Split(d, inner - 1)
          [] OTHER -> IF SpanStart(d, data) > 1 THEN Split(d, SpanStart(d, data) - 1)
                                                ELSE Split(OpenSpan(d, data[1]), 1)

(***************************************************************************)
(* scanPre, startsBlockQuote and scan.                                     *)
(***************************************************************************)
\* At the end of the input a line that only starts with the fence is one.
EndsPre(data, atEOF) ==
    IsPrefix(Fence, data) /\ (atEOF \/ (Len(data) > 3 /\ data[4] = "\n"))
scanPre(d, data, atEOF) ==
    CASE EndsPre(data, atEOF) ->
           Split([d EXCEPT !.mask = @ \cup {<<"pre", "end">>},
                           !.clear = @ \cup {<<"pre", "on">>, <<"pre", "end">>}],
                 IF atEOF THEN 3 ELSE 4)
      [] ~EndsPre(data, atEOF) /\ data = Fence -> Split(d, 0)
      [] OTHER -> Split(d, IF atEOF THEN Len(data) ELSE NewlineIn(data))

\* The marker takes in all white space that is there, line breaks too.
startsBlockQuote(data) ==
    IF data = <<>> \/ data[1] # ">" THEN 0
    ELSE LET text == {i \in 2 .. Len(data) : ~isSpace(data[i])}
         IN  IF text = {} THEN Len(data) ELSE Min(text) - 1

\* After a line break no level has seen its marker yet.
NewLine(ds) ==
    IF ~ds[1].lastNewline THEN ds
    ELSE [[i \in DOMAIN ds |-> [ds[i] EXCEPT !.quoteStarted = FALSE, !.hasRun = FALSE]]
            EXCEPT ![1].mask = @ \ {<<"quote", "on">>}, ![1].lastNewline = FALSE]
Cleared(ds) == [ds EXCEPT ![1].mask = @ \ ds[1].clear, ![1].clear = {}]

RECURSIVE scan(_, _, _)
scan(decoders, data, atEOF) ==
    LET ds == Cleared(NewLine(decoders))
        d  == ds[1]
        l  == startsBlockQuote(data)
        run == [d EXCEPT !.hasRun = TRUE]
        only(r, rest) == [ds |-> <<r.d>> \o rest, n |-> r.n]
        quote == [run EXCEPT !.mask = @ \cup Starts("quote"), !.clear = @ \cup {<<"quote", "start">>},
                             !.quoteStarted = TRUE]
        pre == [run EXCEPT !.mask = @ \cup Starts("pre"), !.clear = @ \cup {<<"pre", "start">>}]
        line == NewlineIn(data)
        inside == IF d.quoteStarted THEN scan(Tail(ds), data, atEOF) ELSE [ds |-> <<>>, n |-> 0]
        r == CASE d.spanStack # <<>> -> only(scanSpan(d, data, atEOF), Tail(ds))
               [] d.spanStack = <<>> /\ <<"pre", "on">> \in d.mask -> only(scanPre(run, data, atEOF), Tail(ds))
               [] OTHER ->
                    IF d.quoteStarted THEN [ds |-> <<d>> \o inside.ds, n |-> inside.n]
                    ELSE IF l > 0 THEN only(Split(quote, l), IF Len(ds) > 1 THEN Tail(ds) ELSE <<NewDecoder>>)
                    ELSE IF IsPrefix(Fence, data) THEN
                           IF line > 1 THEN only(Split(pre, line), <<>>)
                           ELSE IF atEOF THEN only(Split(pre, Len(data)), <<>>) ELSE only(Split(run, 0), <<>>)
                    ELSE only(scanSpan(run, data, atEOF), <<>>)
    IN  IF r.n > 0 /\ data[r.n] = "\n" THEN [r EXCEPT !.ds[1].lastNewline = TRUE] ELSE r

\* Quote and Style, but for the virtual token.
Quote(ds) == First({i \in DOMAIN ds : ~ds[i].quoteStarted}) - 1
Style(ds) ==
    LET shown == {i \in DOMAIN ds : \A j \in 1 .. i : ds[j].hasRun}
    IN  UNION {ds[i].mask : i \in shown}

(***************************************************************************)
(* The Scanner and Decoder.Next.                                           *)
(***************************************************************************)
StartDocument(t) ==
    /\ stylingAt = "none" /\ document' = t /\ stylingAt' = "read"
    /\ UNCHANGED <<fed, eof, pos, decoder, tokens, level, closes>>
\* The Scanner reads when the split function asks for more.
Read(n, last) ==
    /\ stylingAt = "read" /\ fed < Len(document) /\ fed' = Min({fed + n, Len(document)})
    /\ last => fed' = Len(document)
    /\ eof' = (IF last THEN "with" ELSE "no") /\ stylingAt' = "split"
    /\ UNCHANGED <<document, pos, decoder, tokens, level, closes>>
ReadEnd ==
    /\ stylingAt = "read" /\ fed = Len(document) /\ eof' = "after" /\ stylingAt' = "split"
    /\ UNCHANGED <<document, fed, pos, decoder, tokens, level, closes>>
\* A quotation that has become shallower gives one more token, of no length.
NextToken ==
    /\ stylingAt = "split"
    /\ LET data == SubSeq(document, pos + 1, fed)
           r    == scan(decoder, data, eof # "no")
           quote == Quote(r.ds)
       IN  IF data = <<>>
           THEN /\ stylingAt' = (IF eof = "no" THEN "read" ELSE "done")
                /\ UNCHANGED <<pos, decoder, tokens, level, closes>>
           ELSE /\ decoder' = r.ds /\ pos' = pos + r.n
                /\ stylingAt' = IF r.n = 0 THEN "read" ELSE "split"
                /\ tokens' = IF r.n = 0 THEN tokens ELSE Append(tokens, [n |-> r.n, style |-> Style(r.ds)])
                /\ level' = IF r.n = 0 THEN level ELSE quote
                /\ closes' = IF r.n > 0 /\ quote < level THEN closes + 1 ELSE closes
    /\ UNCHANGED <<document, fed, eof>>

(***************************************************************************)
(* Properties.                                                             *)
(***************************************************************************)
\* The tokens of a document that is there as a whole from the start.
RECURSIVE TokensOf(_, _, _)
TokensOf(ds, data, atEOF) ==
    IF data = <<>> THEN <<>>
    ELSE LET r == scan(ds, data, atEOF)
         IN  IF r.n = 0 THEN TokensOf(r.ds, data, TRUE)
             ELSE <<[n |-> r.n, style |-> Style(r.ds)]>> \o TokensOf(r.ds, SubSeq(data, r.n + 1, Len(data)), atEOF)
SpaceAfterMarker == \E i \in DOMAIN document : document[i] = ">" /\ SpaceAt(document, i + 1)

\* The tokens and their styles do not depend on the pieces the document came
\* in, unless white space follows a quotation marker or the end comes with the
\* last piece; no span is open at the end of a line, at any level; a start or
\* end bit never comes without its style (styling.go:79-86); and a level that
\* has its marker has a decoder for what follows (styling.go:206-248, 316-581).
Styled ==
    /\ stylingAt = "done" /\ eof = "after" /\ ~SpaceAfterMarker
         => tokens = TokensOf(<<NewDecoder>>, document, FALSE)
    /\ \A i \in DOMAIN decoder :
         /\ decoder[i].lastNewline \/ stylingAt = "done" => decoder[i].spanStack = <<>>
         /\ decoder[i].quoteStarted => i < Len(decoder)
    /\ \A k \in DOMAIN tokens : \A b \in tokens[k].style : <<b[1], "on">> \in tokens[k].style
=============================================================================
