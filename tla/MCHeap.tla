------------------------------- MODULE MCHeap -------------------------------
(* Instances of Heap for TLC. *)
EXTENDS Heap

\* The first region is not aligned; the second begins where its marker ends.
MCRegions == <<<<3, 85>>, <<88, 56>>>>

MCArrays == {<<0, 3>>, <<2, 8>>, <<16, 33>>}

\* A header in the middle of a block is never read again.
Live   == InList \cup allocated \cup freeing
MCView == <<Restrict(pxNextFreeBlock, Live \cup {xStart}), Restrict(xBlockSize, Live),
            allocated, counters, held, freeing>>
=============================================================================
