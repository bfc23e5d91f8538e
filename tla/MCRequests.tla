----------------------------- MODULE MCRequests -----------------------------
EXTENDS Requests

Answer(p, s) == [payload |-> p, items |-> s]
Lists == {<<>>, <<"item">>, <<"item", "item">>, <<"item", "bad", "item">>, <<"item", "cut">>,
          <<"badid", "item">>, <<"item", "set">>}
AllBodies == {Answer("cut", <<>>), Answer("empty", <<>>), Answer("text", <<"item">>)}
    \cup {Answer(p, s) : p \in {"wrong", "good"}, s \in Lists}
FewBodies == {Answer("cut", <<>>), Answer("good", <<"item">>), Answer("good", <<"item", "set">>)}
AllRequests == [handler : {"version", "disco", "roster", "block"}, user : Outcomes]
Safe == Functions \ Commands
OneCommand == {commandsExecute}
PingRequest == {[handler |-> "ping", user |-> "ok"]}
=============================================================================
