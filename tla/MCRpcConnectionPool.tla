------------------------ MODULE MCRpcConnectionPool ------------------------
(***************************************************************************)
(* RpcConnectionPool for TLC, with every ring that a word of Width bits in *)
(* the uninitialised member Capacity produces.                             *)
(***************************************************************************)
EXTENDS RpcConnectionPool, RingIndex

Rings == {LowestBit(c) : c \in Word}

-----------------------------------------------------------------------------
\* The ring of the model is the one of the program: for every content of the
\* uninitialised Capacity that makes this ring, enqueue and dequeue mask the
\* indices they have reached to the ones that Advance gives.
AdvanceIsMasked ==
  \A c \in Word : LowestBit(c) = ring =>
    /\ Advance(head) = NextIndex(c, head)
    /\ Advance(tail) = NextIndex(c, tail)
=============================================================================
