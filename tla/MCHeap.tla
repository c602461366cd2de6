------------------------------- MODULE MCHeap -------------------------------
(* A heap of a few hundred bytes for TLC: room for four or five blocks.    *)
EXTENDS Heap

MCRequests == {16, 40}
MCAlignedRequests == {[len |-> 16, align |-> 64, boundary |-> 0],
                      [len |-> 24, align |-> 16, boundary |-> 32],
                      [len |-> 40, align |-> 16, boundary |-> 32]}
=============================================================================
