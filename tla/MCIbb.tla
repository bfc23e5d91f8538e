------------------------------- MODULE MCIbb -------------------------------
(* Data goes one way: the other direction is the same code.  Blocks that   *)
(* base64 passes on at once, in both carriers, and blocks of which it      *)
(* keeps a part; one end closes after more bytes, or both after fewer; a   *)
(* reading end that closes while the writer has several blocks buffered.   *)
EXTENDS Ibb

Stream(block, group, acked, bytes, closers) ==
    [block |-> block, group |-> group, acked |-> acked, bytes |-> bytes,
     closers |-> closers]
AllStreams ==
    {Stream(1, 1, TRUE, 3, {e}) : e \in Ends} \cup {Stream(1, 1, FALSE, 3, {e}) : e \in Ends}
      \cup {Stream(3, 2, TRUE, 4, {e}) : e \in Ends}
      \cup {Stream(1, 2, TRUE, 2, Ends), Stream(1, 1, TRUE, 1, Ends)}
      \cup {Stream(2, 2, TRUE, 6, {"acceptor"})}
UnclosedStreams == {Stream(1, 1, a, 2, {}) : a \in BOOLEAN}
=============================================================================
