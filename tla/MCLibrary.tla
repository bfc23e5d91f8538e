----------------------------- MODULE MCLibrary -----------------------------
(* Small sets of inputs for every part.                                     *)
EXTENDS Library

N(space, local) == [space |-> space, local |-> local]
Names == {N("x", "l"), N("y", "l"), N("x", "m")}
AllPatterns ==
    {Named(s, "chat", n[1], n[2]) : s \in {"message"}, n \in {"", "x"} \X {"", "l"}}
    \cup {Named("presence", "chat", "", "l"), Named("iq", "get", "x", ""),
          Named("", "", StanzaNS, ""), Named("", "", "", "iq"), Named("", "", "", "l")}

S(n) == [kind |-> "start", name |-> n]
End == [kind |-> "end", name |-> NoName]
Text == [kind |-> "text", name |-> NoName]
Space == [kind |-> "space", name |-> NoName]
Element(local, type, b) == [name |-> N(StanzaNS, local), type |-> type, parses |-> TRUE, body |-> b]
Bodies ==
    {<<End>>, <<Text, End>>, <<S(N("x", "l"))>>}
    \cup {<<S(n), End, End>> : n \in Names}
    \cup {<<S(N("x", "l")), S(N("x", "m")), End, End, Text, S(N("y", "l")), End, End>>,
          <<S(N("x", "m")), End, S(N("x", "l")), End>>}
IQBodies == {<<End>>, <<Space, S(N("x", "l")), End, End>>, <<Text, End>>, <<Space>>}
AllElements ==
    {Element("message", "chat", b) : b \in Bodies}
    \cup {Element("presence", "chat", b) : b \in {<<End>>, <<S(N("x", "l")), End, End>>}}
    \cup {Element("iq", t, b) : t \in {"get", "result"}, b \in IQBodies}
    \cup {[Element("message", "chat", <<End>>) EXCEPT !.parses = FALSE],
          [Element("l", "", <<End>>) EXCEPT !.name.space = "x"]}

AllDialers == [kind : {"tcp"}, noLookup : BOOLEAN, s2s : BOOLEAN, noTLS : BOOLEAN]
    \cup [kind : {"ws"}, noLookup : {FALSE}, s2s : {FALSE}, noTLS : BOOLEAN]
    \cup [kind : {"component"}, noLookup : {FALSE}, s2s : BOOLEAN, noTLS : {FALSE}]
AllRecords == {[kind |-> k, addrs |-> <<>>] : k \in {"not found", "root", "error"}}
    \cup {[kind |-> "records", addrs |-> a] : a \in {<<"p">>, <<"p", "q">>}}
AllLinks == {<<>>, <<"ws">>, <<"wss", "ws", "http">>, <<"ws", "http">>}
AllTranscripts == BoundedSeq({"proc", "stream", "stream id", "handshake", "error"}, 4)

AllAddresses == BoundedSeq({"a", "A", "@", "/", "."}, 5)
    \cup {<<"4">>, <<"4", ".">>, <<"[", "a">>, <<"a", "@", "[", "A", "]", "/", "a">>}
AllParts == BoundedSeq({"a", "A", "@", "."}, 2) \cup {<<"/">>, <<"bad">>, <<"/", "@">>, <<"a", "a", "a">>, <<"4">>, <<"[", "A", "]">>}
AllTexts == {[op |-> "escape", text |-> s] : s \in BoundedSeq({"a", " ", "\\"}, 4)}
    \cup {[op |-> "unescape", text |-> s] : s \in BoundedSeq({"a", "\\", "2", "0"}, 4)}
LongText == {[op |-> "unescape", text |-> <<"a", "a", "\\", "2", "0", "a", "a">>]}

AllHeaders == [kind : {"iq", "message", "presence"}, type : {"", "chat", "other"},
               to : {"", "j", "bad"}, from : {"", "k"}, id : {"", "i"}, lang : {"", "en"}]
AllErrors == [type : {"", "cancel"}, by : {"", "j"}, condition : {"", "conflict"},
              text : {<<>>, <<[lang |-> "", data |-> "t"], [lang |-> "en", data |-> ""]>>}]
AllBefore == {<<>>, <<[name |-> "query"]>>, <<[name |-> "text"]>>}

Lines == {<<>>, <<"text">>, <<"1">>, <<"jid", "text">>, <<"text", "">>, <<"0", "jid">>}
AllFields == {[typ |-> t, required |-> r, value |-> v] :
    t \in {"", "fixed", "boolean", "hidden", "jid-single", "jid-multi", "text-multi", "list-multi"},
    r \in BOOLEAN, v \in Lines}
AllValues == {Val("bool", <<"true">>), Val("bool", <<"false">>), Val("string", <<"text">>),
    Val("string", <<"text", "1">>), Val("string", <<"text", "">>), Val("jid", <<"jid">>),
    Val("jids", <<"jid", "jid">>), Val("strings", <<"text", "1">>)}
Quoted == <<">", ">", "a", "\n", ">", "star", "a", "star", "\n", "a">>
Nested == <<"star", "low", "a", "low", " ", "tick", "a", "star", "tick", "star", "\n", "a">>
Fenced == <<"tick", "tick", "tick", "a", "\n", "star", "\n", "tick", "tick", "tick", "\n", "tick", "tick", "tick">>
Cut == <<"tick", "tick", "tick", "\n", "tick", "tick", "tick", "a">>
AllDocuments == BoundedSeq({"star", "tick", ">", "\n", " ", "a"}, 4) \cup {Quoted, Nested, Fenced, Cut}
NoneOf == {}
OneDialer == {[kind |-> "component", noLookup |-> FALSE, s2s |-> FALSE, noTLS |-> FALSE]}
=============================================================================
