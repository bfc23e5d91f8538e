------------------------------ MODULE Requests ------------------------------
(***************************************************************************)
(* The functions of the extension packages that send an IQ and read the    *)
(* response, their iterators, and the handlers that answer requests of the *)
(* peer.  Serve hands out a response and stands still until it is closed;  *)
(* sending and matching are modelled in Session.                           *)
(***************************************************************************)
EXTENDS Integers, Sequences, FiniteSets

CONSTANTS
    Calls,      \* functions the application may call
    MayFail,    \* those that the peer or the application's function may make fail
    Bodies,     \* payloads of responses, see Body
    Requested,  \* requests the peer sends: records [handler, user]
    MaxCalls,   \* bound: calls made
    MaxPages    \* bound: pages an iteration turns

\* What a function does with the response: it unmarshals the payload into
\* nothing, into any element or into one of a given name; it iterates over the
\* children, decoding them, reading an attribute or leaving them to the caller;
\* it only closes the response, or hands it to its caller.
Unmarshal(f, v) == [name |-> f, reads |-> "unmarshal", child |-> v]
Iterate(f, v) == [name |-> f, reads |-> "iter", child |-> v]
CloseOnly(f) == [name |-> f, reads |-> "close", child |-> "nothing"]
HandOver(f) == [name |-> f, reads |-> "hand", child |-> "named"]
Give(f) == [name |-> f, reads |-> "give", child |-> "nothing"]

pingSend == Unmarshal("ping.Send", "nothing")
versionGet == Unmarshal("version.Get", "named")
xtimeGet == Unmarshal("xtime.Get", "named")
bobGet == Unmarshal("bob.Get", "named")
uploadGetSlot == Unmarshal("upload.GetSlot", "named")
discoGetInfo == Unmarshal("disco.GetInfo", "named")
carbonsEnable == Unmarshal("carbons.Enable", "any")
historyFetch == Unmarshal("history.Fetch", "named")
pubsubPublish == Unmarshal("pubsub.Publish", "named")
pubsubGetConfig == Unmarshal("pubsub.GetConfig", "named")
pubsubSetConfig == Unmarshal("pubsub.SetConfig", "nothing")
pubsubCreateNode == Unmarshal("pubsub.CreateNode", "nothing")
pubsubDelete == Unmarshal("pubsub.Delete", "nothing")
bookmarksPublish == [pubsubPublish EXCEPT !.name = "bookmarks.Publish"]
bookmarksDelete == [pubsubDelete EXCEPT !.name = "bookmarks.Delete"]
mucGetConfig == Unmarshal("muc.GetConfig", "named")
mucSetAffiliation == Unmarshal("muc.SetAffiliation", "nothing")

rosterSet == CloseOnly("roster.Set")
rosterDelete == [rosterSet EXCEPT !.name = "roster.Delete"]
blocklistAdd == CloseOnly("blocklist.Add")
blocklistReport == CloseOnly("blocklist.Report")
mucSetConfig == CloseOnly("muc.SetConfig")
ibbOpen == CloseOnly("ibb.Open")

rosterFetch == Iterate("roster.Fetch", "decode")
blocklistFetch == Iterate("blocklist.Fetch", "attribute")
discoFetchItems == Iterate("disco.FetchItems", "decode")
commandsFetch == [discoFetchItems EXCEPT !.name = "commands.Fetch"]
pubsubFetch == Iterate("pubsub.Fetch", "raw")
bookmarksFetch == Iterate("bookmarks.Fetch", "decode")

commandsExecute == HandOver("commands.Execute")
commandsForEach == HandOver("commands.ForEach")

\* The session's own functions for messages and presences, which are answered
\* only by an error, if at all.
SendMessage == Give("SendMessage")
SendPresence == Give("SendPresence")

Pubsubs == {pubsubFetch, bookmarksFetch}
Paged == {discoFetchItems, commandsFetch}
Commands == {commandsExecute, commandsForEach}
Functions ==
    {pingSend, versionGet, xtimeGet, bobGet, uploadGetSlot, discoGetInfo, carbonsEnable,
     historyFetch, pubsubPublish, pubsubGetConfig, pubsubSetConfig, pubsubCreateNode,
     pubsubDelete, bookmarksPublish, bookmarksDelete, mucGetConfig, mucSetAffiliation,
     rosterSet, rosterDelete, blocklistAdd, blocklistReport, mucSetConfig, ibbOpen,
     rosterFetch, blocklistFetch, SendMessage, SendPresence} \cup Pubsubs \cup Paged \cup Commands

Outcomes == {"ok", "stanza error", "error", "malformed"}
None == "none"

\* Of a result the start may be unreadable ("cut"), or the payload missing,
\* after some text, not the expected one or good.  Then come its children:
\* items, items that cannot be decoded, one whose ID is no JID, the paging set
\* that says there are more, or the point where reading fails.
Child == {"item", "bad", "badid", "set", "cut"}
Body == [payload : {"cut", "empty", "text", "wrong", "good"}, items : Seq(Child)]

\* What the handlers write when the function of the application, if they have
\* one, succeeds, returns a stanza error or another one; a request that cannot
\* be decoded is like the last.  An error of the handler ends the session, and
\* disco has by then written half of its answer.  Blocking panics on an item
\* that has no attribute or whose first one is no JID.
pingHandleIQ == [u \in Outcomes |-> "result"]
versionHandleIQ == [u \in Outcomes |-> "result"]
xtimeHandleIQ == [u \in Outcomes |-> "result"]
discoHandleIQ == [u \in Outcomes |-> IF u = "ok" THEN "result" ELSE "ended"]
bobHandleIQ == [u \in Outcomes |->
    CASE u = "ok" -> "result" [] u = "stanza error" -> "error" [] OTHER -> "ended"]
rosterHandleIQ == [u \in Outcomes |->
    CASE u = "ok" -> "result" [] u = "stanza error" -> "error" [] OTHER -> "ended"]
blocklistHandleIQ == [u \in Outcomes |-> "result"]
blockHandleIQ == [u \in Outcomes |->
    CASE u = "error" -> "ended" [] u = "malformed" -> "panic" [] OTHER -> None]
Handling ==
    [ping |-> pingHandleIQ, version |-> versionHandleIQ, xtime |-> xtimeHandleIQ,
     disco |-> discoHandleIQ, bob |-> bobHandleIQ, roster |-> rosterHandleIQ,
     blocklist |-> blocklistHandleIQ, block |-> blockHandleIQ]

ASSUME CallsAssumption == Calls \subseteq Functions /\ MayFail \subseteq Calls
ASSUME BodyAssumption == Bodies \subseteq Body
ASSUME RequestAssumption ==
    Requested \subseteq [handler : DOMAIN Handling, user : Outcomes]
ASSUME RequestBounds == MaxCalls \in Nat /\ MaxPages \in Nat

VARIABLES
    call, pc,    \* the function being called and where it is
    type, left,  \* the response, and which of its children are still unread
    missed,    \* children of the list asked for that were not given out
    err,       \* the error the function or the iterator returns
    end,       \* how an iteration ended: None, "end", "invalid" or "stop"
    held,      \* Serve waits until the response is closed
    panic,     \* closed twice, a nil iterator, or a token of another type
    calls, pages,
    asked,     \* a request of the peer that Serve has not come to
    answer     \* how the last one was answered, if any was

list == <<missed, end>>
bounds == <<calls, pages>>
serving == <<asked, answer>>
vars == <<call, pc, type, left, list, err, held, panic, bounds, serving>>

Init ==
    /\ call = pingSend /\ pc = "idle" /\ type = None /\ left = <<>>
    /\ missed = 0 /\ end = None /\ err = FALSE /\ held = FALSE /\ panic = FALSE
    /\ calls = 0 /\ pages = 0 /\ asked = <<>> /\ answer = None

(***************************************************************************)
(* Asking.                                                                 *)
(***************************************************************************)
\* An error of a handler is the end of Serve.
Running == answer # "ended"
Returns(e) == pc' = "idle" /\ err' = e
Goes(l) == pc' = l /\ UNCHANGED <<err, held, panic>>
\* iqResponder.Close closes the channel Serve waits for.
Close == held' = FALSE /\ panic' = ~held

Call(c) ==
    /\ pc = "idle" /\ calls < MaxCalls
    /\ call' = c /\ pc' = "wait" /\ calls' = calls + 1 /\ pages' = 0
    /\ missed' = 0 /\ end' = None /\ err' = FALSE /\ type' = None /\ left' = <<>>
    /\ UNCHANGED <<held, panic, serving>>

\* SendIQ fails or its context ends, and there is no response.  ItemIter.Next
\* takes the nil iterator of a page that failed and goes on with it.
NoResponse ==
    /\ pc = "wait" /\ Returns(TRUE) /\ panic' = (pages > 0)
    /\ UNCHANGED <<call, type, left, list, held, bounds, serving>>

\* Serve finds the function in sentStanzas and gives it the response.  What
\* answers the request for a further page is another list.
Count(s) == Cardinality({i \in DOMAIN s : s[i] # "cut"})
Respond ==
    /\ pc = "wait" /\ ~held /\ Running /\ pc' = "reading" /\ held' = TRUE
    /\ \/ /\ call \in MayFail /\ type' \in {"error", "unavailable"}
          /\ left' = <<>> /\ UNCHANGED missed
       \/ \E b \in Bodies :
            /\ call \in MayFail \/ b.payload = "good"
            /\ type' = b.payload /\ left' = b.items
            /\ missed' = IF pages > 0 THEN missed ELSE Count(b.items)
    /\ UNCHANGED <<call, end, err, panic, bounds, serving>>

(***************************************************************************)
(* unmarshalIQ, iterIQ and the functions that read the response themselves.*)
(***************************************************************************)
Reading(how) == pc = "reading" /\ call.reads = how
IsError == type \in {"error", "unavailable"}
rest == <<call, type, left, list, bounds, serving>>

\* The response is closed on every path.  Nothing is decoded without a
\* payload or into nil.  A ping that is answered at all has succeeded.  Text
\* is taken for a start element, and the panic closes the response too.
IgnoredBug == type = "unavailable"
Ignored == type = "unavailable" /\ call = pingSend
NoStart == type = "text" /\ call.child # "nothing"
UnmarshalIQ ==
    /\ Reading("unmarshal") /\ UNCHANGED rest
    /\ \/ ~NoStart /\ Close
       \/ NoStart /\ held' = FALSE /\ panic' = TRUE
    /\ Returns(\/ IsError /\ ~Ignored
               \/ type = "cut"
               \/ type = "wrong" /\ call.child = "named")

\* Nothing of the response is read, an error neither.
SendOnly == Reading("close") /\ Close /\ Returns(FALSE) /\ UNCHANGED rest

\* iterIQ takes any payload, pubsub.FetchIQ pops the two start tokens itself.
Refused == IsError \/ type = "cut" \/ (type = "empty" /\ call \in Pubsubs)
RefuseBug == Returns(TRUE) /\ UNCHANGED <<held, panic>>
Refuse == held' = FALSE /\ Returns(TRUE) /\ panic' = (pages > 0)
\* If text comes first they pop that, and the only child of what is left is
\* the element with the list in it.
IterIQBug ==
    /\ Reading("iter") /\ UNCHANGED <<call, type, list, bounds, serving>>
    /\ \/ Refused /\ Refuse /\ UNCHANGED left
       \/ ~Refused /\ type \notin {"text", "empty"} /\ Goes("iter") /\ UNCHANGED left
       \/ type = "text" /\ Goes("iter") /\ left' \in {<<"item">>, <<"bad">>}
IterIQ ==
    /\ Reading("iter") /\ UNCHANGED <<call, type, list, bounds, serving>>
    /\ \/ Refused /\ Refuse /\ UNCHANGED left
       \/ ~Refused /\ type # "text" /\ Goes("iter") /\ UNCHANGED left
       \/ type = "text" /\ Goes("iter") /\ left' \in {<<"item">>, <<"bad">>}

\* On an error Execute's result is nil before the deferred function looks at
\* it, and the response stays open.  So it does on the panic that the end of
\* the IQ or text in place of a payload leads to.
Execute ==
    /\ Reading("hand") /\ UNCHANGED rest
    /\ \/ /\ IsError \/ type \in {"cut", "wrong"}
          /\ Returns(TRUE) /\ UNCHANGED <<held, panic>>
       \/ type \in {"empty", "text"} /\ Returns(FALSE) /\ panic' = TRUE /\ UNCHANGED held
       \/ type = "good" /\ Goes("handed")

\* The caller of SendMessage gets the response as it is.  One that sends an
\* error itself does not wait for any.
GiveResponse == Reading("give") /\ Goes("handed") /\ UNCHANGED rest
NoneExpected ==
    /\ pc = "wait" /\ call.reads = "give" /\ Returns(FALSE) /\ UNCHANGED <<held, panic, rest>>

\* Who calls Execute closes what it returns.  ForEach does it unless the
\* function it calls fails, and goes on with the next command.
HandedBug ==
    /\ pc = "handed" /\ UNCHANGED <<call, type, left, list, pages, serving>>
    /\ Close /\ pc' \in {"idle", "handed"} /\ UNCHANGED <<err, calls>>
Handed ==
    /\ pc = "handed" /\ UNCHANGED <<call, type, left, list, pages, serving>>
    /\ \/ Close /\ Returns(FALSE) /\ UNCHANGED calls
       \/ /\ call = commandsForEach /\ call \in MayFail
          /\ Returns(TRUE) /\ UNCHANGED <<calls, held, panic>>
       \/ /\ call = commandsForEach /\ calls < MaxCalls /\ calls' = calls + 1
          /\ Close /\ pc' = "next" /\ UNCHANGED err
NextCommand == pc = "next" /\ Goes("wait") /\ UNCHANGED rest

(***************************************************************************)
(* The iterators.                                                          *)
(***************************************************************************)
AtChild(c) == pc = "iter" /\ left # <<>> /\ Head(left) = c /\ end = None
Given == missed' = IF pages > 0 THEN missed ELSE missed - 1
Skip == left' = Tail(left) /\ UNCHANGED <<pc, err>>
Ends(e) == left' = <<>> /\ err' = e /\ UNCHANGED pc
untouched == <<call, type, end, held, panic, bounds, serving>>

\* bookmarks stops at an ID that is no JID, and there is no error.
NextItem ==
    /\ UNCHANGED untouched
    /\ \/ AtChild("item") /\ Given /\ Skip
       \/ AtChild("badid") /\ call # bookmarksFetch /\ Given /\ Skip
       \/ AtChild("badid") /\ call = bookmarksFetch /\ left' = <<"invalid">>
          /\ UNCHANGED <<pc, err, missed>>

\* What cannot be decoded ends roster, disco and bookmarks; blocklist gives
\* out an empty JID first, pubsub leaves decoding to its caller.
DecodeErrorBug == FALSE
DecodeError == TRUE
NextBad ==
    /\ AtChild("bad") /\ UNCHANGED untouched
    /\ \/ call.child = "raw" /\ Given /\ Skip
       \/ call.child = "attribute" /\ Given /\ Ends(TRUE)
       \/ call.child = "decode" /\ Ends(DecodeError) /\ UNCHANGED missed
\* A list that breaks off after its paging set has a next page all the same.
NextCut ==
    /\ AtChild("cut") /\ UNCHANGED <<missed, untouched>>
    /\ IF left[Len(left)] = "turn" THEN left' = <<"turn">> /\ UNCHANGED <<pc, err>> ELSE Ends(TRUE)

\* The paging set is taken out by paging.Iter, in pubsub and disco; the others
\* give it out like any other child.  FetchItems turns the page with the last item as the
\* node to ask for.
NextSet ==
    /\ AtChild("set") /\ UNCHANGED untouched
    /\ \/ call \in Paged /\ left' = Append(Tail(left), "turn") /\ UNCHANGED <<pc, err, missed>>
       \/ call \notin Paged /\ Given /\ Skip
TurnPage ==
    /\ AtChild("turn") /\ pages < MaxPages /\ pages' = pages + 1
    /\ Close /\ pc' = "next" /\ left' = <<>>
    /\ UNCHANGED <<call, type, list, err, calls, serving>>

\* The caller closes the iterator at its end or before.
CloseIter(e) ==
    /\ end' = e /\ pc' = "idle" /\ held' = FALSE
    /\ UNCHANGED <<call, type, left, missed, err, panic, bounds, serving>>
IterEnds == pc = "iter" /\ left = <<>> /\ CloseIter("end")
IterInvalid == pc = "iter" /\ left = <<"invalid">> /\ CloseIter("invalid")
IterStops == pc = "iter" /\ left \notin {<<>>, <<"invalid">>} /\ CloseIter("stop")

(***************************************************************************)
(* The handlers of requests.                                               *)
(***************************************************************************)
PeerAsks ==
    /\ asked = <<>> /\ Running /\ \E r \in Requested : asked' = <<r>>
    /\ UNCHANGED <<call, pc, type, left, list, err, held, panic, bounds, answer>>

\* Serve answers service-unavailable when the handler wrote nothing.
Default(w) == IF w = None THEN "error" ELSE w
ServeRequest ==
    /\ asked # <<>> /\ ~held /\ Running /\ asked' = <<>>
    /\ answer' = Default(Handling[asked[1].handler][asked[1].user])
    /\ panic' = (answer' = "panic")
    /\ UNCHANGED <<call, pc, type, left, list, err, held, bounds>>

Read ==
    \/ UnmarshalIQ \/ SendOnly \/ IterIQ \/ Execute \/ GiveResponse \/ Handed \/ NextCommand \/ NextItem
    \/ NextBad \/ NextCut \/ NextSet \/ TurnPage \/ IterEnds \/ IterInvalid \/ IterStops
\* A panic is the end of the program.
Next ==
    /\ ~panic
    /\ \/ PeerAsks \/ ServeRequest \/ NoResponse \/ NoneExpected \/ Respond \/ Read
       \/ \E c \in Calls : Call(c)
Spec == Init /\ [][Next]_vars
\* Serve and a caller with a response to read go on.
FairSpec == Spec /\ WF_vars(~panic /\ ServeRequest) /\ WF_vars(~panic /\ Read)

(***************************************************************************)
(* Properties.                                                             *)
(***************************************************************************)
\* Every function asks, reads and gives the input back before it returns:
\* session_iq.go:147-152 and 187-192, pubsub/fetch.go:76-103, the iterators'
\* Close; so the rest of the stream is never held up by a call that is over.
Stage == [idle |-> "idle", wait |-> "asked", reading |-> "reading", iter |-> "reading",
          handed |-> "reading", next |-> "reading"]
Promise == INSTANCE Exchange WITH stage <- Stage[pc], held <- held
Implements == Promise!Spec

\* A call the peer refused returns an error (stanza.UnmarshalIQError in
\* unmarshalIQ, iterIQ and pubsub.FetchIQ); a ping that comes back as
\* unavailable counts as answered, and the functions that do not look at the
\* response, roster.Set, blocklist.Add, blocklist.Report and muc.SetConfig,
\* are left out, and SendMessage, whose result is the error.
ErrorReported ==
    pc = "idle" /\ IsError /\ call.reads \notin {"close", "give"} /\ ~(call = pingSend /\ type = "unavailable")
      => err

\* An iteration that ran to its end without an error has given out every
\* child of the list (Next of roster, blocklist, disco, pubsub and paging);
\* left out are those that do not: bookmarks at an ID that is no JID,
\* FetchItems when the list has a further page, and all where there is text in
\* front of the payload.
AllItems ==
    /\ pc = "idle" /\ end = "end" /\ ~err
    /\ ~(call \in Paged /\ pages > 0) /\ type # "text"
    => missed = 0

\* A response is closed once, whoever is to do it (iqResponder.Close closes a
\* channel and panics the second time): what panics there are have another
\* reason, the nil iterator of a further page, a token that is no start
\* element or the handler for blocking.
ClosedOnce ==
    panic => pages > 0 \/ type \in {"empty", "text"} \/ answer = "panic"

\* Serve comes to every request of the peer, whatever the application's calls
\* make of the responses that Serve stands still for in between: "If the
\* response is not nil it must be closed before stream processing will
\* continue" (commands/commands.go:50-51), so with a nil response it continues.
Served == (asked # <<>>) ~> (asked = <<>> \/ panic)
=============================================================================
