-------------------------------- MODULE Muc --------------------------------
(* Multi-user chat (muc/muc.go, muc/room.go).  Every goroutine has one      *)
(* channel at a time, in a room of its own, with the nick of Client.Join (0)*)
(* or the one of the option Nick (1).  Calls that send presence are numbered:*)
(* call n of g has the helper muc.helper[g][n], and the context of both is  *)
(* done when the call has returned.                                         *)
EXTENDS Handlers

Nicks == {0, 1}

MucInit == muc =
    [managed |-> [a \in Routines \X Nicks |-> None], addr |-> [g \in Routines |-> 0],
     to |-> [g \in Routines |-> 0], join |-> [g \in Routines |-> <<>>],
     helper |-> [g \in Routines |-> <<>>], room |-> [a \in Routines \X Nicks |-> "out"],
     left |-> {}, late |-> {}, kicked |-> {}, seen |-> 0]
notMuc == <<receipts, history, listener>>

Sender(at, to) == [at |-> at, to |-> to]
InCall == {"joinwait", "leave", "leavewait"}
Number(g) == Len(muc.helper[g])
Pending(g, n) == n = Number(g) /\ pc[g] \in InCall
Over(g, n) == ~Pending(g, n) \/ ctx[g]
managedM == serve.at # "join"

(***************************************************************************)
(* Joining and leaving.                                                    *)
(***************************************************************************)
\* Client.Join makes a new channel, which takes the place of an earlier one.
ClientJoin(g) ==
    /\ managedM /\ Calls(g, "join", "joinput")
    /\ muc' = [muc EXCEPT !.managed[<<g, 0>>] = g, !.to[g] = 0, !.addr[g] = 0,
                          !.join[g] = <<>>, !.left = @ \ {g}]
    /\ UNCHANGED <<inbox, peer, serve, panic, notMuc>>

\* Channel.Join does not enter the channel into managed again.  The presence
\* goes to the address the channel had before the option Nick changed it.
ChannelJoin(g) ==
    /\ \/ Calls(g, "rejoin", "joinput") /\ muc' = [muc EXCEPT !.to[g] = muc.addr[g]]
       \/ /\ Calls(g, "rename", "joinput")
          /\ muc' = [muc EXCEPT !.to[g] = muc.addr[g], !.addr[g] = 1]
    /\ UNCHANGED <<inbox, peer, serve, panic, notMuc>>

\* The queue of the channel holds one pending Join.
JoinQueue(g) ==
    /\ At(g, "joinput")
    /\ \/ /\ muc.join[g] = <<>> /\ Goes(g, "joinwait")
          /\ muc' = [muc EXCEPT !.join[g] = <<Number(g) + 1>>, !.helper[g] = Append(@, Sender("join", muc.to[g]))]
       \/ ctx[g] /\ Returns(g, "err") /\ UNCHANGED muc
    /\ UNCHANGED <<inbox, peer, serve, panic, notMuc>>

LeavePresence(g) ==
    /\ Calls(g, "leave", "leave")
    /\ muc' = [muc EXCEPT !.helper[g] = Append(@, Sender("leave", muc.addr[g]))]
    /\ UNCHANGED <<inbox, peer, serve, panic, notMuc>>
LeaveSelect(g) ==
    /\ At(g, "leave") /\ Goes(g, "leavewait")
    /\ UNCHANGED <<inbox, peer, serve, panic, muc, notMuc>>
MucCancelled(g) ==
    /\ ~panic /\ pc[g] \in {"joinwait", "leavewait"} /\ ctx[g] /\ Returns(g, "err")
    /\ muc' = [muc EXCEPT !.late = IF pc[g] = "leavewait" THEN @ \cup {g} ELSE @]
    /\ UNCHANGED <<inbox, peer, serve, panic, notMuc>>

(***************************************************************************)
(* The goroutine that sends the presence and waits for an error, and the   *)
(* room that answers.  A call that has returned does not stop the presence.*)
(***************************************************************************)
Becomes(g, n, s) == [muc EXCEPT !.helper[g][n].at = s]
SendPresence(g, n) ==
    LET m == [Becomes(g, n, "wait") EXCEPT !.late = IF Pending(g, n) THEN @ ELSE @ \cup {g}]
        a == <<g, muc.helper[g][n].to>> IN
    /\ ~panic /\ muc.helper[g][n].at \in {"join", "leave"}
    /\ \/ muc' = Becomes(g, n, "error") /\ UNCHANGED <<inbox, peer>>
       \/ muc' = m /\ Answers(Stanza("presenceerror", g, n))
       \/ /\ muc.helper[g][n].at = "join" /\ muc' = [m EXCEPT !.room[a] = "in"]
          /\ Answers(Stanza("available", g, a[2]))
       \/ /\ muc.helper[g][n].at = "leave" /\ muc.room[a] = "out" /\ muc' = m
          /\ UNCHANGED <<inbox, peer>>
       \/ /\ muc.helper[g][n].at = "leave" /\ muc.room[a] = "in"
          /\ muc' = [m EXCEPT !.room[a] = "out"]
          /\ Answers(Stanza("unavailable", g, a[2]))
    /\ UNCHANGED <<common, serve, panic, notMuc>>

\* The error goes to the caller if it still waits; then the response is
\* closed and Serve goes on.
Report(g, n) ==
    /\ ~panic /\ muc.helper[g][n].at \in {"error", "response"}
    /\ \/ /\ Pending(g, n) /\ pc[g] # "leave" /\ Returns(g, "err")
       \/ Over(g, n) /\ UNCHANGED common
    /\ muc' = Becomes(g, n, "end")
    /\ serve' = IF muc.helper[g][n].at = "response" THEN Loop ELSE serve
    /\ UNCHANGED <<inbox, peer, panic, notMuc>>
HelperCancelled(g, n) ==
    /\ ~panic /\ muc.helper[g][n].at = "wait" /\ Over(g, n)
    /\ muc' = Becomes(g, n, "end")
    /\ UNCHANGED <<common, inbox, peer, serve, panic, notMuc>>

\* The room sends the presence of the user again, or throws the user out.
RoomPresence(g) ==
    /\ ~panic /\ \E a \in Nicks :
         /\ muc.room[<<g, a>>] = "in"
         /\ \/ Sends(Stanza("available", g, a)) /\ UNCHANGED muc
            \/ /\ Sends(Stanza("unavailable", g, a))
               /\ muc' = [muc EXCEPT !.room[<<g, a>>] = "out", !.kicked = @ \cup {g}]
    /\ UNCHANGED <<common, serve, panic, notMuc>>

(***************************************************************************)
(* HandlePresence, with managedM held to its end.                          *)
(***************************************************************************)
\* The next pending Join is served; without one the presence is for
\* HandleUserPresence.
SelectJoin(g) ==
    IF muc.join[g] = <<>>
      THEN serve' = Loop /\ muc' = [muc EXCEPT !.seen = 1]
      ELSE Held("join", g, Head(muc.join[g])) /\ muc' = [muc EXCEPT !.join[g] = Tail(@)]

HandleAvailable ==
    LET from == <<Head(inbox).who, Head(inbox).n>> IN
    /\ Takes("available")
    /\ IF muc.managed[from] = None THEN UNCHANGED <<serve, muc>>
                                   ELSE SelectJoin(muc.managed[from])
    /\ UNCHANGED <<common, panic, notMuc>>

\* Only entries of the first nick are ever made, so that is where it is from.
GiveJoin ==
    LET g == serve.who IN
    /\ Serving("join")
    /\ \/ /\ Pending(g, serve.n) /\ Returns(g, "joined") /\ serve' = Loop
          /\ muc' = [muc EXCEPT !.addr[g] = 0]
       \/ Over(g, serve.n) /\ SelectJoin(g) /\ UNCHANGED common
    /\ UNCHANGED <<inbox, peer, panic, notMuc>>

\* The entry is deleted under the address the channel has now, and a Leave
\* that is not waiting yet misses the signal.
DepartKeyBug(g) == <<g, 1>>
DepartKey(g) == <<g, muc.addr[g]>>
HandleUnavailable ==
    LET from == <<Head(inbox).who, Head(inbox).n>> g == muc.managed[from] IN
    /\ Takes("unavailable")
    /\ IF g = None THEN UNCHANGED <<common, muc>>
       ELSE /\ muc' = [muc EXCEPT !.managed[DepartKey(g)] = None, !.left = @ \cup {g}]
            /\ \/ pc[g] = "leavewait" /\ Returns(g, "left")
               \/ (pc[g] # "leavewait" \/ ctx[g]) /\ UNCHANGED common
    /\ UNCHANGED <<serve, panic, notMuc>>

\* Serve gives an error to the helper that waits for it, if one still does.
HandlePresenceError ==
    LET g == Head(inbox).who n == Head(inbox).n IN
    /\ Takes("presenceerror")
    /\ \/ /\ muc.helper[g][n].at = "wait"
          /\ muc' = Becomes(g, n, "response") /\ Held("response", g, n)
       \/ (muc.helper[g][n].at # "wait" \/ Over(g, n)) /\ UNCHANGED <<serve, muc>>
    /\ UNCHANGED <<common, panic, notMuc>>

MucCall(g) ==
    \/ ClientJoin(g) \/ ChannelJoin(g) \/ JoinQueue(g) \/ LeavePresence(g)
    \/ LeaveSelect(g) \/ MucCancelled(g)
MucHelper(g) ==
    \/ \E n \in DOMAIN muc.helper[g] : SendPresence(g, n)
    \/ \E n \in DOMAIN muc.helper[g] : Report(g, n)
    \/ \E n \in DOMAIN muc.helper[g] : HelperCancelled(g, n)
MucServe == HandleAvailable \/ GiveJoin \/ HandleUnavailable \/ HandlePresenceError
MucPeer == \E g \in Routines : RoomPresence(g)
=============================================================================
