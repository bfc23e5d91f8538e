------------------------------ MODULE History ------------------------------
(* The message archive (history/history.go, history/iter.go).  Every        *)
(* goroutine makes at most one query, under an ID of its own.               *)
EXTENDS Handlers

HistoryInit == history =
    [tracked |-> {}, closed |-> {}, helper |-> [g \in Routines |-> None],
     sent |-> [g \in Routines |-> 0], got |-> [g \in Routines |-> 0], failed |-> {}]
notHistory == <<receipts, muc, listener>>

Ready(g) == pc[g] \in {"next", "nextbreak"}
trackedM == serve.at # "deliver"

FetchIQ(g) ==
    /\ trackedM
    /\ Calls(g, "fetch", "next") \/ Calls(g, "fetchbreak", "nextbreak")
    /\ history' = [history EXCEPT !.tracked = @ \cup {g}, !.helper[g] = "query"]
    /\ UNCHANGED <<inbox, peer, serve, panic, notHistory>>

\* The goroutine of the query sends it, waits for the result and removes the
\* iterator.  An error of UnmarshalIQ is kept only if there already is one.
SendQuery(g) ==
    /\ ~panic /\ history.helper[g] = "query"
    /\ history' = [history EXCEPT !.helper[g] = "wait"]
         \/ history' = [history EXCEPT !.helper[g] = "remove", !.failed = @ \cup {g}]
    /\ UNCHANGED <<common, inbox, peer, serve, panic, notHistory>>
QueryCancelled(g) ==
    /\ ~panic /\ history.helper[g] = "wait" /\ ctx[g]
    /\ history' = [history EXCEPT !.helper[g] = "remove", !.failed = @ \cup {g}]
    /\ UNCHANGED <<common, inbox, peer, serve, panic, notHistory>>
Removed(g) == [history EXCEPT
    !.closed = IF g \in history.tracked THEN @ \cup {g} ELSE @, !.tracked = @ \ {g}]
RemoveQuery(g) ==
    /\ ~panic /\ history.helper[g] = "remove" /\ trackedM
    /\ history' = [Removed(g) EXCEPT !.helper[g] = "end"]
    /\ UNCHANGED <<common, inbox, peer, serve, panic, notHistory>>

\* Next ends when the channel is closed; Close takes the iterator out early.
NextEnds(g) ==
    /\ ~panic /\ Ready(g) /\ g \in history.closed
    /\ Returns(g, "end")
    /\ UNCHANGED <<inbox, peer, serve, panic, history, notHistory>>
Continue(g) ==
    /\ \/ At(g, "work") /\ Goes(g, "next")
       \/ At(g, "workbreak") /\ (Goes(g, "nextbreak") \/ Goes(g, "close"))
    /\ UNCHANGED <<inbox, peer, serve, panic, history, notHistory>>
CloseIter(g) ==
    /\ At(g, "close") /\ trackedM /\ Returns(g, "closed")
    /\ history' = Removed(g)
    /\ UNCHANGED <<inbox, peer, serve, panic, notHistory>>

\* The archive sends the messages it has and then the result.
ArchiveSends(g) ==
    /\ ~panic /\ history.helper[g] = "wait" /\ Waiting("fin", g) = 0
    /\ \/ /\ Sends(Stanza("archived", g, 0))
          /\ history' = [history EXCEPT !.sent[g] = @ + 1]
       \/ Answers(Stanza("fin", g, 0)) /\ UNCHANGED history
    /\ UNCHANGED <<common, serve, panic, notHistory>>

\* HandleMessage sends with trackedM held; what is not tracked is for the
\* inner handler.
TrackedBug(g) == g \in history.tracked /\ Ready(g)
Tracked(g) == g \in history.tracked
HandleArchived ==
    LET g == Head(inbox).who IN
    /\ Takes("archived")
    /\ IF Tracked(g) THEN Held("deliver", g, 0)
                  ELSE UNCHANGED serve
    /\ UNCHANGED <<common, panic, history, notHistory>>
Deliver ==
    LET g == serve.who IN
    /\ Serving("deliver") /\ Ready(g) /\ serve' = Loop
    /\ Goes(g, IF pc[g] = "next" THEN "work" ELSE "workbreak")
    /\ history' = [history EXCEPT !.got[g] = @ + 1]
    /\ UNCHANGED <<inbox, peer, panic, notHistory>>
HandleFin ==
    LET g == Head(inbox).who IN
    /\ Takes("fin")
    /\ \/ /\ history.helper[g] = "wait"
          /\ history' = [history EXCEPT !.helper[g] = "remove"]
       \/ (history.helper[g] # "wait" \/ ctx[g]) /\ UNCHANGED history
    /\ UNCHANGED <<common, serve, panic, notHistory>>

HistoryCall(g) == FetchIQ(g) \/ NextEnds(g) \/ Continue(g) \/ CloseIter(g)
HistoryHelper(g) == SendQuery(g) \/ QueryCancelled(g) \/ RemoveQuery(g)
HistoryServe == HandleArchived \/ Deliver \/ HandleFin
HistoryPeer == \E g \in Routines : ArchiveSends(g)
=============================================================================
