---------------------------- MODULE Extensions -----------------------------
(***************************************************************************)
(* One session with the handlers of receipts, muc, history and ibb: every  *)
(* stanza any of them waits for comes through the same Serve.              *)
(***************************************************************************)
EXTENDS Receipts, Muc, History, Listener

Init ==
    /\ \E s \in Scenarios : todo = s.calls /\ peer = s.peer
    /\ pc = [g \in Routines |-> "idle"] /\ ctx = [g \in Routines |-> FALSE]
    /\ ret = [g \in Routines |-> None]
    /\ inbox = <<>> /\ serve = Loop /\ panic = FALSE
    /\ ReceiptsInit /\ MucInit /\ HistoryInit /\ ListenerInit

Call(g) == ReceiptsCall(g) \/ MucCall(g) \/ HistoryCall(g) \/ ListenerCall(g)
Helper(g) == MucHelper(g) \/ HistoryHelper(g)
Serve == ReceiptsServe \/ MucServe \/ HistoryServe \/ ListenerServe
Peer == ReceiptsPeer \/ MucPeer \/ HistoryPeer \/ PeerOpens
Next ==
    \/ Serve \/ Peer
    \/ \E g \in Routines : Call(g) \/ Helper(g) \/ Cancel(g)

Spec == Init /\ [][Next]_vars
\* Goroutines that can go on do; nobody has to send or to cancel anything.
Fairness ==
    /\ WF_vars(Serve)
    /\ \A g \in Routines : WF_vars(Call(g)) /\ WF_vars(Helper(g))
FairSpec == Spec /\ Fairness

(***************************************************************************)
(* Properties.                                                             *)
(***************************************************************************)
\* A handler panics on a closed channel only if the caller it hands the
\* receipt to had its context ended (receipts.go:199 against 284) or the
\* application closed the listener (ibb.go:190 against listen.go:83).
PanicNeedsEnd == panic => listener.closed \/ (serve.at = "signal" /\ ctx[serve.who])

\* A receipt that arrives while its sender waits reaches it, unless two first
\* calls each made the map (receipts.go:253-257, 263-266, 186-190).
ReceiptFound == receipts.lost # {} => receipts.made > 1

\* Once nothing is on its way for a channel, what the last Join or Leave
\* returned agrees with the room and with managed (muc.go:182-228,
\* room.go:186-271); a channel that departed and joined again is left out, one
\* whose presence was only written after its call had given up or whose Leave
\* gave up waiting (the next Leave may take its answer), and one whom the room
\* threw out before it could leave.
Settled(g) ==
    /\ pc[g] = "idle" /\ serve = Loop /\ \A i \in DOMAIN inbox : inbox[i].who # g
    /\ \A n \in DOMAIN muc.helper[g] : muc.helper[g][n].at \in {"wait", "end"}
Agreed == \A g \in Routines : 
    LET a == <<g, muc.addr[g]>> IN Settled(g) /\ g \notin muc.late =>
      /\ ret[g] = "joined" /\ g \notin muc.left => muc.room[a] = "in" /\ muc.managed[a] = g
      /\ ret[g] = "left" /\ g \notin muc.kicked => muc.room[a] = "out" /\ muc.managed[a] = None

\* An iteration that ended because the result came has seen every message of
\* the archive: the result never overtakes them (history.go:77-93, 127-140).
HistoryComplete == \A g \in Routines :
    pc[g] = "idle" /\ ret[g] = "end" /\ g \notin history.failed => history.got[g] = history.sent[g]

\* Serve comes back from every handler, unless the application itself is not
\* there: nobody in Accept, an Expect that gave up, an iterator that is being
\* closed (muc.go:206-216, history.go:93, ibb.go:187-190, receipts.go:199).
Absent ==
    \/ serve.at = "accept" /\ \A g \in Routines : pc[g] # "accept"
    \/ serve.at = "expect" /\ pc[serve.who] # "expect"
    \/ serve.at = "deliver" /\ pc[serve.who] = "close"
HandlersReturn == []<>(serve = Loop \/ panic \/ Absent)

\* A call whose context is done returns: SendMessageElement, Join, Leave and
\* Expect by their own select, an iteration because its query is removed;
\* unless Serve holds the table's lock for an iterator that is being closed.
Cancellable == {"receipt", "joinput", "joinwait", "leavewait", "next", "expect"}
CancelReturns == \A g \in Routines :
    (ctx[g] /\ pc[g] \in Cancellable) ~>
      (pc[g] = "idle" \/ panic \/ (serve.at = "deliver" /\ pc[serve.who] = "close"))
=============================================================================
