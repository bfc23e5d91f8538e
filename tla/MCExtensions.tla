---------------------------- MODULE MCExtensions ----------------------------
(* Two goroutines in every pair of packages whose calls can meet in Serve,  *)
(* and one with a long sequence of calls on one channel.                    *)
EXTENDS Extensions, TLC

Scenario(p, q, n) == [calls |-> ("g" :> p) @@ ("h" :> q), peer |-> n]
AllScenarios ==
    {Scenario(<<"message">>, <<"message">>, 2), Scenario(<<"fetch">>, <<"message">>, 2),
     Scenario(<<"fetch">>, <<"fetchbreak">>, 2), Scenario(<<"join">>, <<"message">>, 1),
     Scenario(<<"join", "leave">>, <<>>, 2), Scenario(<<"join">>, <<"join">>, 1),
     Scenario(<<"join", "rejoin">>, <<>>, 2), Scenario(<<"join", "rename">>, <<>>, 2),
     Scenario(<<"join", "leave", "rejoin", "leave">>, <<>>, 0),
     Scenario(<<"join", "rename", "leave">>, <<>>, 0),
     Scenario(<<"join", "join">>, <<>>, 1), Scenario(<<"join", "leave", "join">>, <<>>, 0),
     Scenario(<<"accept">>, <<"expect", "unlisten">>, 2),
     Scenario(<<"expect">>, <<"expect", "accept">>, 2),
     Scenario(<<"accept">>, <<"unlisten", "unlisten">>, 2),
     Scenario(<<"join">>, <<"expect">>, 2)}

=============================================================================
