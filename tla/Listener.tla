----------------------------- MODULE Listener ------------------------------
(* Accepting in-band bytestreams (ibb/listen.go, handleOpen in ibb/ibb.go). *)
(* Listen has been called; Expect is always for the same stream.            *)
EXTENDS Handlers

\* Listen: the application that accepts has called it.
Listens == \E g \in Routines : \E i \in DOMAIN todo[g] :
    todo[g][i] \in {"accept", "expect", "unlisten"}
ListenerInit == listener =
    [listening |-> Listens, closed |-> FALSE, expected |-> None,
     streams |-> 0, ended |-> {}]
notListener == <<receipts, muc, history>>

eLock == serve.at \notin {"accept", "expect"}

Accept(g) ==
    /\ Calls(g, "accept", "accept")
    /\ UNCHANGED <<inbox, peer, serve, panic, listener, notListener>>
AcceptClosed(g) ==
    /\ At(g, "accept") /\ listener.closed /\ Returns(g, "err")
    /\ UNCHANGED <<inbox, peer, serve, panic, listener, notListener>>

\* An earlier Expect for the same stream is cancelled and replaced.
Expect(g) ==
    /\ eLock /\ Calls(g, "expect", "expect")
    /\ listener' = [listener EXCEPT !.expected = g,
                      !.ended = (@ \cup {listener.expected}) \ {g, None}]
    /\ UNCHANGED <<inbox, peer, serve, panic, notListener>>
\* The entry stays when the context ends first.
ExpectCancelled(g) ==
    /\ At(g, "expect") /\ (ctx[g] \/ g \in listener.ended) /\ Returns(g, "err")
    /\ UNCHANGED <<inbox, peer, serve, panic, listener, notListener>>

\* Close twice, or while the handler offers a stream, panics.
CloseListener(g) ==
    /\ Calls(g, "unlisten", "idle")
    /\ listener' = [listener EXCEPT !.listening = FALSE, !.closed = TRUE]
    /\ panic' = (listener.closed \/ serve.at = "accept")
    /\ UNCHANGED <<inbox, peer, serve, notListener>>

PeerOpens ==
    /\ ~panic /\ (listener.listening \/ listener.closed)
    /\ \E n \in 0 .. 1 : Sends(Stanza("open", None, n))
    /\ UNCHANGED <<common, serve, panic, listener, notListener>>

\* handleOpen: answered and added before somebody is found to take it.
Matches(n) == n = 1 /\ listener.expected # None
HandleOpen ==
    /\ Takes("open")
    /\ IF ~listener.listening
         THEN UNCHANGED <<serve, listener>>
       ELSE IF Matches(Head(inbox).n)
         THEN /\ Held("expect", listener.expected, 0)
              /\ listener' = [listener EXCEPT !.streams = @ + 1, !.expected = None]
       ELSE Held("accept", None, 0) /\ listener' = [listener EXCEPT !.streams = @ + 1]
    /\ UNCHANGED <<common, panic, notListener>>

\* An Expect that has gone is waited for all the same.
GiveExpect ==
    LET g == serve.who IN
    /\ Serving("expect") /\ pc[g] = "expect" /\ Returns(g, "conn") /\ serve' = Loop
    /\ UNCHANGED <<inbox, peer, panic, listener, notListener>>
GiveAccept ==
    /\ Serving("accept") /\ serve' = Loop
    /\ \E g \in Routines : At(g, "accept") /\ Returns(g, "conn")
    /\ UNCHANGED <<inbox, peer, panic, listener, notListener>>

ListenerCall(g) ==
    Accept(g) \/ AcceptClosed(g) \/ Expect(g) \/ ExpectCancelled(g) \/ CloseListener(g)
ListenerServe == HandleOpen \/ GiveExpect \/ GiveAccept
=============================================================================
