------------------------------ MODULE Exchange ------------------------------
(***************************************************************************)
(* What a function that asks for something over the session promises: it   *)
(* asks, reads the response it is given while the rest of the input waits, *)
(* and has given the input back when it is done.                           *)
(***************************************************************************)
VARIABLES stage, held

Init == stage = "idle" /\ held = FALSE
Ask == stage = "idle" /\ stage' = "asked" /\ UNCHANGED held
Respond == stage = "asked" /\ ~held /\ stage' = "reading" /\ held' = TRUE
GiveBack == stage = "reading" /\ held /\ held' = FALSE /\ UNCHANGED stage
AskAgain == stage = "reading" /\ ~held /\ stage' = "asked" /\ UNCHANGED held
Finish ==
    /\ stage \in {"asked", "reading"} /\ ~held'
    /\ stage' = "idle"

Next == Ask \/ Respond \/ GiveBack \/ AskAgain \/ Finish
Spec == Init /\ [][Next]_<<stage, held>>
=============================================================================
