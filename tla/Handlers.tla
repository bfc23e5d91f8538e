------------------------------ MODULE Handlers ------------------------------
(***************************************************************************)
(* What the handlers of receipts, muc, history and ibb share: Serve takes  *)
(* one stanza at a time and runs its handler to the end, while other       *)
(* goroutines are in calls of the same packages.  A handler that waits for *)
(* one of them holds up the whole session.                                 *)
(***************************************************************************)
EXTENDS Naturals, Sequences, FiniteSets

CONSTANTS
    Routines,   \* goroutines of the application
    Scenarios,  \* what they call, one after the other, and the bound on the
                \* stanzas the peer sends of its own accord
    Cancels     \* contexts may end at any time

Ops == {"message", "join", "rejoin", "rename", "leave", "fetch", "fetchbreak",
        "accept", "expect", "unlisten"}
None == "none"

ASSUME RoutineAssumption == None \notin Routines
ASSUME ScenarioAssumption == Scenarios \subseteq [calls : [Routines -> Seq(Ops)], peer : Nat]
ASSUME CancelAssumption == Cancels \in BOOLEAN

\* A goroutine stands for the ID of its message and of its query.
Once(calls, ops) == \A i, j \in DOMAIN calls : calls[i] \in ops /\ calls[j] \in ops => i = j
Fetches == {"fetch", "fetchbreak"}
ASSUME OnceAssumption == \A s \in Scenarios, g \in Routines :
    Once(s.calls[g], {"message"}) /\ Once(s.calls[g], Fetches)

VARIABLES
    todo,      \* the calls each goroutine has still to make
    pc,        \* where it is in the current one
    ctx,       \* the context of that call is done
    ret,       \* what the last call returned
    inbox,     \* stanzas on their way to Serve
    peer,      \* how many more the peer may send of its own accord
    serve,     \* where Serve is, and for whom: "loop" between two stanzas
    panic,     \* a send on a closed channel has ended the program
    receipts, muc, history, listener  \* the state of the four handlers

common == <<todo, pc, ctx, ret>>
vars == <<common, inbox, peer, serve, panic, receipts, muc, history, listener>>

Loop == [at |-> "loop", who |-> None, n |-> 0]
InLoop(kind) == ~panic /\ serve = Loop /\ inbox # <<>> /\ Head(inbox).kind = kind
At(g, l) == ~panic /\ pc[g] = l
Serving(l) == ~panic /\ serve.at = l
Held(l, g, n) == serve' = [at |-> l, who |-> g, n |-> n]

Stanza(kind, who, n) == [kind |-> kind, who |-> who, n |-> n]
Answers(m) == inbox' = Append(inbox, m) /\ UNCHANGED peer
Sends(m) == peer > 0 /\ peer' = peer - 1 /\ inbox' = Append(inbox, m)
Takes(kind) == InLoop(kind) /\ inbox' = Tail(inbox) /\ UNCHANGED peer

Waiting(kind, g) == Cardinality({i \in DOMAIN inbox : inbox[i].kind = kind /\ inbox[i].who = g})

\* A goroutine calls op with a context of its own and is then at l.
Calls(g, op, l) ==
    /\ At(g, "idle") /\ todo[g] # <<>> /\ Head(todo[g]) = op
    /\ todo' = [todo EXCEPT ![g] = Tail(@)]
    /\ pc' = [pc EXCEPT ![g] = l]
    /\ ctx' = [ctx EXCEPT ![g] = FALSE]
    /\ ret' = [ret EXCEPT ![g] = None]
Goes(g, l) == pc' = [pc EXCEPT ![g] = l] /\ UNCHANGED <<todo, ctx, ret>>
Returns(g, r) ==
    /\ pc' = [pc EXCEPT ![g] = "idle"] /\ ret' = [ret EXCEPT ![g] = r]
    /\ UNCHANGED <<todo, ctx>>

Cancel(g) ==
    /\ Cancels /\ ~panic /\ pc[g] # "idle" /\ ~ctx[g]
    /\ ctx' = [ctx EXCEPT ![g] = TRUE]
    /\ UNCHANGED <<todo, pc, ret, inbox, peer, serve, panic, receipts, muc, history, listener>>
=============================================================================
