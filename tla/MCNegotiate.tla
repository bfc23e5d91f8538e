---------------------------- MODULE MCNegotiate ----------------------------
(* Configurations for the runs: Standard with some of its parts varied.    *)
EXTENDS Negotiate

Core == {"starttls", "sasl", "bind"}
Standard ==
    [ends |-> Ends, faults |-> FALSE, client |-> Core, server |-> Core,
     tee |-> {}, s2s |-> FALSE, secured |-> FALSE, clientSteps |-> 3,
     serverSteps |-> 2, challenge |-> "challenge"]

\* Matching ends: any tees, TLS before or in the stream, roster versioning on
\* either side, PLAIN and SCRAM.
PairConfigs ==
    {[Standard EXCEPT !.faults = f, !.client = @ \cup c, !.server = @ \cup v,
                      !.tee = t, !.secured = b, !.clientSteps = m[1],
                      !.serverSteps = m[2]] :
        f \in BOOLEAN, c \in SUBSET {"ver"}, v \in SUBSET {"ver"},
        t \in SUBSET Ends, b \in BOOLEAN, m \in {<<1, 1>>, <<3, 2>>}}

\* A server whatever the client sends.
ServerConfigs ==
    {[Standard EXCEPT !.ends = {"server"}, !.faults = TRUE,
                      !.server = @ \cup v, !.tee = t, !.secured = b,
                      !.serverSteps = n, !.s2s = i] :
        v \in SUBSET {"ver", "bidi"}, t \in SUBSET {"server"}, b \in BOOLEAN,
        n \in {1, 2}, i \in BOOLEAN}

\* A client without a tee, whatever the server sends.
ClientConfigs ==
    {[Standard EXCEPT !.ends = {"client"}, !.faults = TRUE,
                      !.client = @ \cup c, !.secured = b, !.clientSteps = n, !.s2s = i] :
        c \in SUBSET {"ver", "bidi", "caps"}, b \in BOOLEAN, n \in {1, 3},
        i \in BOOLEAN}

AllConfigs == PairConfigs \cup ServerConfigs \cup ClientConfigs
=============================================================================
