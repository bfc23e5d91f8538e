------------------------------ MODULE Receipts ------------------------------
(* Message receipts (receipts/receipts.go).  Every goroutine sends at most  *)
(* one message, whose ID stands for its channel too.                        *)
EXTENDS Handlers

ReceiptsInit == receipts =
    [sent |-> {}, closed |-> {}, made |-> 0, wire |-> {},
     lost |-> {}, replied |-> 0]
notReceipts == <<muc, history, listener>>

\* Whether there is a map is looked at without the lock.
SendMessage(g) ==
    /\ Calls(g, "message", IF receipts.made = 0 THEN "make" ELSE "register")
    /\ UNCHANGED <<inbox, peer, serve, panic, receipts, notReceipts>>

MakeMap(g) ==
    /\ At(g, "make") /\ Goes(g, "register")
    /\ receipts' = [receipts EXCEPT !.sent = {}, !.made = @ + 1]
    /\ UNCHANGED <<inbox, peer, serve, panic, notReceipts>>

\* The channel is in the map before the message is written.
AfterRegisterBug(t, g) == t \ {g}
AfterRegister(t, g) == t \cup {g}
Register(g) ==
    /\ At(g, "register") /\ Goes(g, "transmit")
    /\ receipts' = [receipts EXCEPT !.sent = AfterRegister(@, g)]
    /\ UNCHANGED <<inbox, peer, serve, panic, notReceipts>>

\* SendElement; when it fails the entry stays.
Transmit(g) ==
    /\ At(g, "transmit")
    /\ \/ Returns(g, "err") /\ UNCHANGED receipts
       \/ /\ Goes(g, "receipt")
          /\ receipts' = [receipts EXCEPT !.wire = @ \cup {g}]
    /\ UNCHANGED <<inbox, peer, serve, panic, notReceipts>>

DoneBug(g) == TRUE
DoneNeverBug(g) == FALSE
Done(g) == ctx[g]
GiveUp(g) ==
    /\ At(g, "receipt") /\ Done(g) /\ Goes(g, "forget")
    /\ UNCHANGED <<inbox, peer, serve, panic, receipts, notReceipts>>

Forget(g) ==
    /\ At(g, "forget") /\ Goes(g, "closechan")
    /\ receipts' = [receipts EXCEPT !.sent = @ \ {g}]
    /\ UNCHANGED <<inbox, peer, serve, panic, notReceipts>>

\* A handler that waits to send on the channel panics.
CloseChan(g) ==
    /\ At(g, "closechan") /\ Returns(g, "err")
    /\ receipts' = [receipts EXCEPT !.closed = @ \cup {g}]
    /\ panic' = (serve.at = "signal" /\ serve.who = g)
    /\ UNCHANGED <<inbox, peer, serve, notReceipts>>

\* The peer acknowledges a message, perhaps from two devices, or asks for a
\* receipt of its own message.
Acknowledge(g) ==
    /\ ~panic /\ g \in receipts.wire
    /\ Sends(Stanza("received", g, 0))
    /\ UNCHANGED <<common, serve, panic, receipts, notReceipts>>
AskReceipt ==
    /\ ~panic /\ receipts.wire # {}
    /\ Sends(Stanza("request", None, 0))
    /\ UNCHANGED <<common, serve, panic, receipts, notReceipts>>

\* HandleMessage: the entry is taken out under the lock, the signal is sent
\* without it.  A receipt that is not in the map is for Unhandled.
TakenOutBug(t, g) == t
TakenOut(t, g) == t \ {g}
HandleReceived ==
    LET g == Head(inbox).who IN
    /\ Takes("received")
    /\ IF g \in receipts.sent
         THEN /\ Held("signal", g, 0)
              /\ receipts' = [receipts EXCEPT !.sent = TakenOut(@, g)]
         ELSE /\ UNCHANGED serve
              /\ receipts' = [receipts EXCEPT !.lost =
                   IF pc[g] = "receipt" THEN @ \cup {g} ELSE @]
    /\ UNCHANGED <<common, panic, notReceipts>>

Signal ==
    LET g == serve.who IN
    /\ Serving("signal")
    /\ \/ /\ pc[g] = "receipt" /\ Returns(g, "nil")
          /\ serve' = Loop /\ UNCHANGED panic
       \/ /\ g \in receipts.closed /\ panic' = TRUE
          /\ UNCHANGED <<common, serve>>
    /\ UNCHANGED <<inbox, peer, receipts, notReceipts>>

HandleRequest ==
    /\ Takes("request")
    /\ receipts' = [receipts EXCEPT !.replied = @ + 1]
    /\ UNCHANGED <<common, serve, panic, notReceipts>>

ReceiptsCall(g) ==
    \/ SendMessage(g) \/ MakeMap(g) \/ Register(g) \/ Transmit(g) \/ GiveUp(g)
    \/ Forget(g) \/ CloseChan(g)
ReceiptsServe == HandleReceived \/ Signal \/ HandleRequest
ReceiptsPeer == AskReceipt \/ \E g \in Routines : Acknowledge(g)
=============================================================================
