--------------------------- MODULE RequestsProofs ---------------------------
(***************************************************************************)
(* Proofs about the functions that ask for something over a session, for   *)
(* every set of functions, of responses and of requests of the peer.       *)
(***************************************************************************)
EXTENDS Requests, FiniteSetTheorems, SequenceTheorems, TLAPS

Places == {"idle", "wait", "reading", "iter", "handed", "next"}
Types == {None, "error", "unavailable", "cut", "empty", "text", "wrong", "good"}
Marks == {"turn", "invalid"}

USE DEF None

\* The types of the variables that are not flags.
TypeOK ==
    /\ call \in Functions /\ pc \in Places /\ type \in Types
    /\ left \in Seq(Child \cup Marks)
    /\ missed \in Int /\ end \in {None, "end", "invalid", "stop"}
    /\ calls \in Nat /\ pages \in Nat

----------------------------------------------------------------------------
(* Giving the input back.                                                  *)

\* Serve stands still exactly while a function has a response to read, and
\* the response to a function that cannot be refused is a good one.
HeldInv ==
    /\ held <=> pc \in {"reading", "iter", "handed"}
    /\ pc = "reading" /\ call \notin MayFail => type = "good"

\* Stage follows the place a function is at.
LEMMA StageOf ==
    /\ Stage["idle"] = "idle" /\ Stage["wait"] = "asked" /\ Stage["next"] = "reading"
    /\ Stage["reading"] = "reading" /\ Stage["iter"] = "reading" /\ Stage["handed"] = "reading"
BY DEF Stage

\* Nothing holds up Serve at first.
LEMMA InitHeld == Init => HeldInv
BY DEF Init, HeldInv

\* Execute and ForEach are the functions that hand the response over.
LEMMA HandOvers == \A f \in Functions : f.reads = "hand" => f \in Commands
BY DEF Functions, Pubsubs, Paged, Commands, Unmarshal, Iterate, CloseOnly, HandOver, Give,
       pingSend, versionGet, xtimeGet, bobGet, uploadGetSlot, discoGetInfo, carbonsEnable,
       historyFetch, pubsubPublish, pubsubGetConfig, pubsubSetConfig, pubsubCreateNode,
       pubsubDelete, bookmarksPublish, bookmarksDelete, mucGetConfig, mucSetAffiliation,
       rosterSet, rosterDelete, blocklistAdd, blocklistReport, mucSetConfig, ibbOpen,
       rosterFetch, blocklistFetch, discoFetchItems, commandsFetch, pubsubFetch,
       bookmarksFetch, commandsExecute, commandsForEach, SendMessage, SendPresence

\* Steps that leave the function where it is and the input alone.
Elsewhere == UNCHANGED <<pc, held, call, type>>

\* The steps that leave the input alone.
LEMMA ElsewhereHeld ==
    ASSUME HeldInv, Elsewhere
    PROVE  HeldInv' /\ UNCHANGED <<Stage[pc], held>>
BY DEF HeldInv, Elsewhere

\* The steps of a function and of Serve follow Exchange when nothing that
\* Execute and ForEach send is refused, and HeldInv is preserved.
LEMMA StepHeld ==
    ASSUME MayFail \cap Commands = {}, call \in Functions, pc \in Places, HeldInv, Next
    PROVE  HeldInv' /\ [Promise!Next]_<<Stage[pc], held>>
<1> USE DEF HeldInv, Promise!Next, Promise!Ask, Promise!Respond, Promise!GiveBack,
            Promise!AskAgain, Promise!Finish
<1>1. CASE \E c \in Calls : Call(c)
  BY <1>1, StageOf DEF Call
<1>2. CASE NoResponse
  BY <1>2, StageOf DEF NoResponse, Returns
<1>3. CASE NoneExpected
  BY <1>3, StageOf DEF NoneExpected, Returns
<1>4. CASE Respond
  BY <1>4, StageOf DEF Respond
<1>5. CASE UnmarshalIQ
  BY <1>5, StageOf DEF UnmarshalIQ, Returns, Reading, Close
<1>6. CASE SendOnly
  BY <1>6, StageOf DEF SendOnly, Returns, Reading, Close
<1>7. CASE IterIQ
  BY <1>7, StageOf DEF IterIQ, Returns, Reading, Refuse, Goes
<1>8. CASE Execute
  BY <1>8, StageOf, HandOvers DEF Execute, Returns, Reading, Goes, IsError
<1>9. CASE GiveResponse
  BY <1>9, StageOf DEF GiveResponse, Reading, Goes
<1>10. CASE Handed
  BY <1>10, StageOf DEF Handed, Returns, Close, Commands
<1>11. CASE NextCommand
  BY <1>11, StageOf DEF NextCommand, Goes
<1>12. CASE TurnPage
  BY <1>12, StageOf DEF TurnPage, AtChild, Close
<1>13. CASE IterEnds \/ IterInvalid \/ IterStops
  BY <1>13, StageOf DEF IterEnds, IterInvalid, IterStops, CloseIter
<1>14. CASE PeerAsks \/ ServeRequest
  BY <1>14, ElsewhereHeld DEF PeerAsks, ServeRequest, Elsewhere
<1>15. CASE NextItem \/ NextBad \/ NextCut \/ NextSet
  BY <1>15, ElsewhereHeld
     DEF NextItem, NextBad, NextCut, NextSet, Skip, Ends, Elsewhere, untouched
<1> QED
  BY <1>1, <1>2, <1>3, <1>4, <1>5, <1>6, <1>7, <1>8, <1>9, <1>10, <1>11, <1>12, <1>13,
     <1>14, <1>15 DEF Next, Read

----------------------------------------------------------------------------
(* Types.                                                                  *)

\* The payload and the children of a response.
LEMMA BodyType == \A b \in Bodies : b.payload \in Types /\ b.items \in Seq(Child)
BY BodyAssumption DEF Body, Types

\* A list of children may have a mark put behind it.
LEMMA ChildType == \A s \in Seq(Child) : s \in Seq(Child \cup Marks)
OBVIOUS

\* The types hold at first,
LEMMA InitType == Init => TypeOK
<1> SUFFICES ASSUME Init PROVE TypeOK
  OBVIOUS
<1>1. pingSend \in Functions
  BY DEF Functions
<1> QED
  BY <1>1 DEF Init, TypeOK, Places, Types

\* every step keeps them,
LEMMA StepType == TypeOK /\ [Next]_vars => TypeOK'
<1> SUFFICES ASSUME TypeOK, [Next]_vars PROVE TypeOK'
  OBVIOUS
<1> USE DEF TypeOK
<1>1. CASE \E c \in Calls : Call(c)
  BY <1>1, CallsAssumption DEF Call, Places, Types, serving
<1>2. CASE NoResponse \/ NoneExpected
  BY <1>2 DEF NoResponse, NoneExpected, Returns, Places, rest, list, bounds
<1>3. CASE Respond
  <2>1. type' \in Types /\ left' \in Seq(Child \cup Marks)
    <3>1. CASE type' \in {"error", "unavailable"} /\ left' = <<>>
      BY <3>1 DEF Types
    <3>2. CASE \E b \in Bodies : type' = b.payload /\ left' = b.items
      BY <3>2, BodyType, ChildType
    <3> QED
      BY <1>3, <3>1, <3>2 DEF Respond
  <2>2. missed' \in Int
    <3>1. \A b \in Bodies : Count(b.items) \in Int
      <4> SUFFICES ASSUME NEW b \in Bodies PROVE Count(b.items) \in Int
        OBVIOUS
      <4>1. IsFiniteSet(1 .. Len(b.items))
        BY BodyType, FS_Interval
      <4>2. {i \in DOMAIN b.items : b.items[i] # "cut"} \in SUBSET (1 .. Len(b.items))
        BY BodyType
      <4> QED
        BY <4>1, <4>2, FS_Subset, FS_CardinalityType DEF Count
    <3> QED
      BY <1>3, <3>1 DEF Respond, list
  <2> QED
    BY <1>3, <2>1, <2>2 DEF Respond, Places, bounds
<1>4. CASE UnmarshalIQ \/ SendOnly \/ Execute \/ GiveResponse \/ NextCommand
  BY <1>4 DEF UnmarshalIQ, SendOnly, Execute, GiveResponse, NextCommand, Returns,
              Close, Goes, Places, rest, list, bounds
<1>11. CASE IterIQ
  <2>1. <<"item">> \in Seq(Child \cup Marks) /\ <<"bad">> \in Seq(Child \cup Marks)
    BY DEF Child
  <2>2. left' \in Seq(Child \cup Marks)
    BY <1>11, <2>1 DEF IterIQ
  <2> QED
    BY <1>11, <2>2 DEF IterIQ, Returns, Refuse, Goes, Places, list, bounds
<1>5. CASE Handed
  BY <1>5 DEF Handed, Returns, Close, Places, list
<1>6. CASE NextItem \/ NextBad \/ NextCut \/ NextSet
  <2>1. left' \in Seq(Child \cup Marks)
    <3> DEFINE S == Child \cup Marks
    <3>1. "turn" \in S /\ "invalid" \in S
      BY DEF Marks
    <3> HIDE DEF S
    <3>2. left \in Seq(S) /\ (left # <<>> => Tail(left) \in Seq(S))
      BY DEF S
    <3>3. \/ left' = <<>> \/ left' = <<"turn">> \/ left' = <<"invalid">>
          \/ left # <<>> /\ (left' = Tail(left) \/ left' = Append(Tail(left), "turn"))
      BY <1>6 DEF NextItem, NextBad, NextCut, NextSet, AtChild, Skip, Ends
    <3>4. <<>> \in Seq(S) /\ <<"turn">> \in Seq(S) /\ <<"invalid">> \in Seq(S)
      BY <3>1
    <3>5. left # <<>> => Append(Tail(left), "turn") \in Seq(S)
      BY <3>1, <3>2
    <3>6. left' \in Seq(S)
      BY <3>2, <3>3, <3>4, <3>5, Zenon
    <3> QED
      BY <3>6 DEF S
  <2>2. missed' \in Int /\ UNCHANGED pc
    BY <1>6 DEF NextItem, NextBad, NextCut, NextSet, Given, Skip, Ends
  <2> QED
    BY <1>6, <2>1, <2>2 DEF NextItem, NextBad, NextCut, NextSet, untouched, bounds
<1>7. CASE TurnPage
  BY <1>7 DEF TurnPage, Close, Places, list
<1>8. CASE IterEnds \/ IterInvalid \/ IterStops
  BY <1>8 DEF IterEnds, IterInvalid, IterStops, CloseIter, Places, bounds
<1>9. CASE PeerAsks \/ ServeRequest
  BY <1>9 DEF PeerAsks, ServeRequest, list, bounds
<1>10. CASE UNCHANGED vars
  BY <1>10 DEF vars, list, bounds
<1> QED
  BY <1>1, <1>2, <1>3, <1>4, <1>5, <1>6, <1>7, <1>8, <1>9, <1>10, <1>11 DEF Next, Read

\* and so they always hold.
LEMMA AlwaysType == Spec => []TypeOK
<1> QED
  BY InitType, StepType, PTL DEF Spec

\* Every function gives the input back: the specification of the functions
\* and of Serve implements Exchange, for every response, number of calls and
\* number of pages, as long as nothing that Execute and ForEach send is
\* refused (session_iq.go:147-192 and the iterators' Close).
THEOREM GivesInputBack ==
    ASSUME MayFail \cap Commands = {}
    PROVE  Spec => Implements
<1>1. Init => Promise!Init
  BY StageOf DEF Init, Promise!Init
<1>2. TypeOK /\ HeldInv /\ [Next]_vars => HeldInv' /\ [Promise!Next]_<<Stage[pc], held>>
  <2>1. CASE Next
    BY <2>1, StepHeld DEF TypeOK
  <2>2. CASE UNCHANGED vars
    BY <2>2 DEF vars, HeldInv
  <2> QED
    BY <2>1, <2>2
<1> QED
  BY <1>1, <1>2, InitHeld, AlwaysType, PTL DEF Spec, Implements, Promise!Spec

----------------------------------------------------------------------------
(* Reporting errors.                                                       *)

\* A response that is an error does not get past the place where it is looked
\* at, unless it is the result of the function itself.
ErrInv ==
    /\ pc \in {"wait", "iter", "next"} => ~IsError
    /\ pc = "handed" => ~IsError \/ call.reads = "give"
    /\ ErrorReported

\* The kinds of functions that leave their place for another.
LEMMA Readers ==
    /\ pingSend.reads = "unmarshal" /\ commandsForEach.reads = "hand"
    /\ \A f \in Paged : f.reads = "iter"
BY DEF pingSend, commandsForEach, Paged, discoFetchItems, commandsFetch, Unmarshal,
       HandOver, Iterate

\* Every step keeps to what is read after an error and what is not.
LEMMA StepErr == TypeOK /\ ErrInv /\ [Next]_vars => ErrInv'
<1> SUFFICES ASSUME TypeOK, ErrInv, [Next]_vars PROVE ErrInv'
  OBVIOUS
<1> USE DEF ErrInv, ErrorReported, IsError
<1>1. CASE \E c \in Calls : Call(c)
  BY <1>1 DEF Call
<1>2. CASE NoResponse \/ NoneExpected
  BY <1>2 DEF NoResponse, NoneExpected, Returns, rest
<1>3. CASE Respond
  BY <1>3 DEF Respond
<1>4. CASE UnmarshalIQ
  BY <1>4 DEF UnmarshalIQ, Reading, Returns, Ignored, rest
<1>5. CASE SendOnly
  BY <1>5 DEF SendOnly, Reading, Returns, rest
<1>6. CASE IterIQ
  BY <1>6 DEF IterIQ, Reading, Refused, Refuse, Returns, Goes, rest
<1>7. CASE Execute \/ GiveResponse
  BY <1>7 DEF Execute, GiveResponse, Reading, Returns, Goes, rest
<1>8. CASE Handed
  BY <1>8, Readers DEF Handed, Returns
<1>9. CASE NextCommand
  BY <1>9 DEF NextCommand, Goes, rest
<1>10. CASE NextItem \/ NextBad \/ NextCut \/ NextSet
  BY <1>10 DEF NextItem, NextBad, NextCut, NextSet, AtChild, Skip, Ends, untouched
<1>11. CASE TurnPage \/ IterEnds \/ IterInvalid \/ IterStops
  BY <1>11 DEF TurnPage, AtChild, IterEnds, IterInvalid, IterStops, CloseIter
<1>12. CASE PeerAsks \/ ServeRequest
  BY <1>12 DEF PeerAsks, ServeRequest
<1>13. CASE UNCHANGED vars
  BY <1>13 DEF vars
<1> QED
  BY <1>1, <1>2, <1>3, <1>4, <1>5, <1>6, <1>7, <1>8, <1>9, <1>10, <1>11, <1>12, <1>13
     DEF Next, Read

\* So it always is.
LEMMA AlwaysErr == Spec => []ErrInv
<1>1. Init => ErrInv
  BY DEF Init, ErrInv, ErrorReported, IsError
<1> QED
  BY <1>1, StepErr, AlwaysType, PTL DEF Spec

\* No function swallows the error of the peer, whatever it does with the
\* response before it looks at its type.
THEOREM ErrorsReported == Spec => []ErrorReported
<1>1. ErrInv => ErrorReported
  BY DEF ErrInv
<1> QED
  BY <1>1, AlwaysErr, PTL

----------------------------------------------------------------------------
(* Iterating.                                                              *)

\* The first child taken off: one fewer to count, unless it was not counted.
LEMMA CountTail ==
    ASSUME NEW S, NEW s \in Seq(S), s # <<>>
    PROVE  /\ Count(s) \in Nat
           /\ Count(Tail(s)) = IF s[1] # "cut" THEN Count(s) - 1 ELSE Count(s)
<1> DEFINE A == {i \in DOMAIN s : s[i] # "cut"}
           B == {i \in DOMAIN Tail(s) : Tail(s)[i] # "cut"}
           f == [i \in B |-> i + 1]
<1>1. IsFiniteSet(A) /\ Cardinality(A) \in Nat
  <2>1. IsFiniteSet(1 .. Len(s)) /\ A \in SUBSET (1 .. Len(s))
    BY FS_Interval
  <2> QED
    BY <2>1, FS_Subset, FS_CardinalityType
<1>2. /\ IsFiniteSet(A \ {1})
      /\ Cardinality(A \ {1}) = IF 1 \in A THEN Cardinality(A) - 1 ELSE Cardinality(A)
  BY <1>1, FS_RemoveElement
<1>3. IsFiniteSet(B)
  <2>1. IsFiniteSet(1 .. Len(Tail(s))) /\ B \in SUBSET (1 .. Len(Tail(s)))
    BY FS_Interval
  <2> QED
    BY <2>1, FS_Subset
<1>4. f \in Bijection(B, A \ {1})
  <2>1. f \in [B -> A \ {1}]
    OBVIOUS
  <2>2. f \in Injection(B, A \ {1})
    BY <2>1 DEF Injection, IsInjective
  <2>3. \A j \in A \ {1} : \E i \in B : f[i] = j
    <3> TAKE j \in A \ {1}
    <3>1. j - 1 \in B /\ f[j - 1] = j
      OBVIOUS
    <3> QED
      BY <3>1
  <2> QED
    BY <2>1, <2>2, <2>3 DEF Bijection, Surjection
<1>5. Cardinality(B) = Cardinality(A \ {1})
  BY <1>3, <1>4, FS_Bijection DEF ExistsBijection
<1>6. 1 \in A <=> s[1] # "cut"
  OBVIOUS
<1> HIDE DEF A, B, f
<1>7. Count(s) = Cardinality(A) /\ Count(Tail(s)) = Cardinality(B)
  BY DEF Count, A, B
<1> QED
  BY <1>1, <1>2, <1>5, <1>6, <1>7

\* An empty list has no items.
LEMMA CountEmpty == Count(<<>>) = 0
<1>1. {i \in DOMAIN <<>> : <<>>[i] # "cut"} = {}
  OBVIOUS
<1> QED
  BY <1>1, FS_EmptySet DEF Count

\* While an iteration of the first list goes on without an error, the children
\* that were not given out are those still unread; a list with a further page
\* ends with the mark for it, and only then does an iteration turn the page.
Plain == pc = "iter" => type # "text"
Whole == \A i \in DOMAIN left : left[i] \in Child
ItemsInv ==
    /\ pc # "idle" => end = None
    /\ pages > 0 => call \in Paged
    /\ \A i \in DOMAIN left : left[i] = "turn" => call \in Paged
    /\ pc \in {"reading", "iter"} /\ pages = 0 /\ ~err /\ ~IsError /\ Whole /\ Plain
         => missed = Count(left)
    /\ AllItems

\* A child that is given out, or was not counted, keeps the count right.
LEMMA GivenKeeps ==
    ASSUME TypeOK, ItemsInv, ErrInv, pc = "iter", left # <<>>, left[1] \in Child \ {"cut"},
           Given, Skip, UNCHANGED <<call, type, end, pages>>
    PROVE  ItemsInv'
<1> DEFINE S == Child \cup Marks
<1>1. left \in Seq(S)
  BY DEF TypeOK
<1> HIDE DEF S
<1>2. /\ left' = Tail(left) /\ pc' = pc /\ err' = err
      /\ \A i \in DOMAIN left' : i + 1 \in DOMAIN left /\ left'[i] = left[i + 1]
  BY <1>1 DEF Skip
<1>3. \A i \in DOMAIN left' : left'[i] = "turn" => call' \in Paged
  BY <1>2 DEF ItemsInv
<1>4. Whole' => Whole
  <2> SUFFICES ASSUME Whole', NEW i \in DOMAIN left PROVE left[i] \in Child
    BY DEF Whole
  <2>1. CASE i = 1
    BY <2>1
  <2>2. CASE i # 1
    <3>1. i - 1 \in DOMAIN left' /\ left'[i - 1] = left[i]
      BY <1>1, <1>2, <2>2
    <3> QED
      BY <3>1 DEF Whole
  <2> QED
    BY <2>1, <2>2
<1>5. Count(left') = Count(left) - 1
  BY <1>1, <1>2, CountTail
<1>6. pages = 0 => missed' = missed - 1
  BY DEF Given, TypeOK
<1>7. /\ pc' \in {"reading", "iter"} /\ pages' = 0 /\ ~err' /\ ~IsError' /\ Whole' /\ Plain'
           => missed' = Count(left')
  BY <1>2, <1>4, <1>5, <1>6 DEF ItemsInv, IsError, Plain
<1> QED
  BY <1>2, <1>3, <1>7 DEF ItemsInv, AllItems

\* Every step keeps the count of what is missing.
LEMMA StepItems == TypeOK /\ ErrInv /\ ItemsInv /\ [Next]_vars => ItemsInv'
<1> SUFFICES ASSUME TypeOK, ErrInv, ItemsInv, [Next]_vars PROVE ItemsInv'
  OBVIOUS
<1> USE DEF TypeOK
<1>1. CASE \E c \in Calls : Call(c)
  BY <1>1 DEF Call, ItemsInv, AllItems
<1>2. CASE NoResponse \/ NoneExpected
  BY <1>2 DEF NoResponse, NoneExpected, Returns, rest, list, bounds, ItemsInv, AllItems
<1>3. CASE Respond
  <2>1. \A i \in DOMAIN left' : left'[i] # "turn"
    BY <1>3, BodyType DEF Respond, Child
  <2>2. pages = 0 /\ ~IsError' => missed' = Count(left')
    BY <1>3 DEF Respond, IsError
  <2> QED
    BY <1>3, <2>1, <2>2 DEF Respond, bounds, ItemsInv, AllItems
<1>4. CASE UnmarshalIQ \/ SendOnly \/ Execute \/ GiveResponse
  BY <1>4 DEF UnmarshalIQ, SendOnly, Execute, GiveResponse, Reading, Returns, Goes, rest,
              list, bounds, ItemsInv, AllItems
<1>5. CASE IterIQ
  <2>1. CASE UNCHANGED left
    BY <1>5, <2>1 DEF IterIQ, Reading, Refuse, Returns, Goes, list, bounds, ItemsInv,
                      AllItems, IsError, Whole, Plain
  <2>2. CASE type = "text" /\ Goes("iter") /\ left' \in {<<"item">>, <<"bad">>}
    <3>1. \A i \in DOMAIN left' : left'[i] # "turn"
      BY <2>2
    <3> QED
      BY <1>5, <2>2, <3>1 DEF IterIQ, Reading, Goes, list, bounds, ItemsInv, AllItems, Plain
  <2> QED
    BY <1>5, <2>1, <2>2 DEF IterIQ
<1>6. CASE Handed
  BY <1>6 DEF Handed, Returns, list, ItemsInv, AllItems
<1>7. CASE NextCommand
  BY <1>7 DEF NextCommand, Goes, rest, list, bounds, ItemsInv, AllItems
<1>8. CASE NextItem
  <2>1. CASE (AtChild("item") \/ AtChild("badid")) /\ Given /\ Skip
    BY <1>8, <2>1, GivenKeeps DEF NextItem, AtChild, Child, untouched, bounds
  <2>2. CASE left' = <<"invalid">> /\ UNCHANGED <<pc, err, missed>>
    <3>1. \A i \in DOMAIN left' : left'[i] = "invalid"
      BY <2>2
    <3>2. ~Whole' /\ pc = "iter"
      BY <1>8, <2>2, <3>1 DEF Whole, Child, NextItem, AtChild
    <3> QED
      BY <1>8, <2>2, <3>1, <3>2 DEF NextItem, untouched, bounds, ItemsInv, AllItems
  <2> QED
    BY <1>8, <2>1, <2>2 DEF NextItem
<1>9. CASE NextBad
  <2>1. CASE Given /\ Skip
    BY <1>9, <2>1, GivenKeeps DEF NextBad, AtChild, Child, untouched, bounds
  <2>2. CASE Ends(TRUE)
    BY <1>9, <2>2 DEF NextBad, AtChild, Ends, untouched, bounds, ItemsInv, AllItems
  <2> QED
    BY <1>9, <2>1, <2>2 DEF NextBad, DecodeError
<1>10. CASE NextCut
  <2>1. CASE left' = <<"turn">> /\ left[Len(left)] = "turn" /\ UNCHANGED <<pc, err>>
    <3>1. call \in Paged
      BY <1>10, <2>1 DEF NextCut, AtChild, ItemsInv
    <3>2. ~Whole'
      BY <2>1 DEF Whole, Child
    <3> QED
      BY <1>10, <2>1, <3>1, <3>2 DEF NextCut, AtChild, untouched, bounds, ItemsInv, AllItems
  <2>2. CASE Ends(TRUE)
    BY <1>10, <2>2 DEF NextCut, AtChild, Ends, untouched, bounds, ItemsInv, AllItems
  <2> QED
    BY <1>10, <2>1, <2>2 DEF NextCut
<1>11. CASE NextSet
  <2>1. CASE call \in Paged /\ left' = Append(Tail(left), "turn") /\ UNCHANGED <<pc, err, missed>>
    <3>1. Len(left') \in DOMAIN left' /\ left'[Len(left')] = "turn"
      BY <1>11, <2>1 DEF NextSet, AtChild
    <3>2. ~Whole'
      BY <3>1 DEF Whole, Child
    <3> QED
      BY <1>11, <2>1, <3>2 DEF NextSet, AtChild, untouched, bounds, ItemsInv, AllItems
  <2>2. CASE Given /\ Skip
    BY <1>11, <2>2, GivenKeeps DEF NextSet, AtChild, Child, untouched, bounds
  <2> QED
    BY <1>11, <2>1, <2>2 DEF NextSet
<1>12. CASE TurnPage
  <2>1. call \in Paged
    BY <1>12 DEF TurnPage, AtChild, ItemsInv
  <2> QED
    BY <1>12, <2>1 DEF TurnPage, AtChild, list, ItemsInv, AllItems
<1>13. CASE IterEnds
  <2>1. left = <<>> /\ pc = "iter" /\ ~IsError
    BY <1>13 DEF IterEnds, ErrInv
  <2>2. pages = 0 /\ ~err /\ type # "text" => missed = 0
    BY <2>1, CountEmpty DEF ItemsInv, Whole, Plain
  <2> QED
    BY <1>13, <2>1, <2>2 DEF IterEnds, CloseIter, bounds, ItemsInv, AllItems
<1>14. CASE IterInvalid \/ IterStops
  BY <1>14 DEF IterInvalid, IterStops, CloseIter, bounds, ItemsInv, AllItems
<1>15. CASE PeerAsks \/ ServeRequest \/ UNCHANGED vars
  BY <1>15 DEF PeerAsks, ServeRequest, vars, list, bounds, ItemsInv, AllItems, Whole, IsError,
               Plain
<1> QED
  BY <1>1, <1>2, <1>3, <1>4, <1>5, <1>6, <1>7, <1>8, <1>9, <1>10, <1>11, <1>12, <1>13,
     <1>14, <1>15 DEF Next, Read

\* An iteration that ends without an error has given out the whole list, for
\* every list and every order of items, undecodable children and paging sets
\* in it (Next and Err of the iterators of roster, blocklist, disco and pubsub).
THEOREM ListsComplete == Spec => []AllItems
<1>1. Init => ItemsInv
  BY DEF Init, ItemsInv, AllItems
<1>2. ItemsInv => AllItems
  BY DEF ItemsInv
<1> QED
  BY <1>1, <1>2, StepItems, AlwaysErr, AlwaysType, PTL DEF Spec

----------------------------------------------------------------------------
(* Closing responses.                                                      *)

\* Whoever may close a response has one that is still open.
OpenInv ==
    /\ pc \in {"reading", "iter", "handed"} => held
    /\ ClosedOnce

\* Every step keeps to it.
LEMMA StepOpen == TypeOK /\ OpenInv /\ [Next]_vars => OpenInv'
<1> SUFFICES ASSUME TypeOK, OpenInv, [Next]_vars PROVE OpenInv'
  OBVIOUS
<1> USE DEF TypeOK, OpenInv, ClosedOnce
<1>1. CASE UNCHANGED vars
  BY <1>1 DEF vars, bounds, serving
<1>2. CASE \E c \in Calls : ~panic /\ Call(c)
  BY <1>2 DEF Call
<1>3. CASE ~panic /\ (NoResponse \/ NoneExpected)
  <2>1. pc' = "idle" /\ UNCHANGED pages
    BY <1>3 DEF NoResponse, NoneExpected, Returns, rest, bounds
  <2>2. panic' => pages > 0
    BY <1>3, Zenon DEF NoResponse, NoneExpected
  <2> QED
    BY <2>1, <2>2
<1>4. CASE ~panic /\ Respond
  BY <1>4 DEF Respond
<1>5. CASE ~panic /\ (UnmarshalIQ \/ SendOnly)
  BY <1>5 DEF UnmarshalIQ, SendOnly, Reading, NoStart, Close, Returns, rest
<1>6. CASE ~panic /\ IterIQ
  <2>1. pc = "reading" /\ UNCHANGED pages /\ pc' \in {"idle", "iter"}
    BY <1>6 DEF IterIQ, Reading, Refuse, Returns, Goes, bounds
  <2>3. pc' = "idle" \/ (UNCHANGED held)
    BY <1>6 DEF IterIQ, Refuse, Returns, Goes
  <2>2. panic' => pages > 0
    BY <1>6, Zenon DEF IterIQ, Refuse, Goes
  <2> QED
    BY <2>1, <2>2, <2>3
<1>7. CASE ~panic /\ (Execute \/ GiveResponse)
  BY <1>7 DEF Execute, GiveResponse, Reading, Returns, Goes, rest
<1>8. CASE ~panic /\ (Handed \/ NextCommand)
  <2>1. pc' \in {"idle", "next", "wait"}
    BY <1>8 DEF Handed, NextCommand, Returns, Goes
  <2>2. ~panic'
    BY <1>8, Zenon DEF Handed, NextCommand, Close, Goes
  <2> QED
    BY <2>1, <2>2
<1>9. CASE ~panic /\ (NextItem \/ NextBad \/ NextCut \/ NextSet)
  BY <1>9 DEF NextItem, NextBad, NextCut, NextSet, AtChild, Skip, Ends, untouched
<1>10. CASE ~panic /\ (TurnPage \/ IterEnds \/ IterInvalid \/ IterStops)
  BY <1>10 DEF TurnPage, AtChild, Close, IterEnds, IterInvalid, IterStops, CloseIter
<1>11. CASE ~panic /\ (PeerAsks \/ ServeRequest)
  <2>1. UNCHANGED <<pc, held>>
    BY <1>11 DEF PeerAsks, ServeRequest
  <2>2. panic' => answer' = "panic"
    BY <1>11, Zenon DEF PeerAsks, ServeRequest
  <2> QED
    BY <2>1, <2>2
<1> QED
  BY <1>1, <1>2, <1>3, <1>4, <1>5, <1>6, <1>7, <1>8, <1>9, <1>10, <1>11 DEF Next, Read

\* No response is closed twice, refused commands included: whichever of the
\* function, its iterator and its caller is to close it, on no path do two of
\* them (iqResponder.Close, session_iq.go; the deferred Close of unmarshalIQ
\* and iterIQ; Close of the iterators).
THEOREM ResponsesClosedOnce == Spec => []ClosedOnce
<1>1. Init => OpenInv
  BY DEF Init, OpenInv, ClosedOnce
<1>2. OpenInv => ClosedOnce
  BY DEF OpenInv
<1> QED
  BY <1>1, <1>2, StepOpen, AlwaysType, PTL DEF Spec
=============================================================================
