------------------------------- MODULE MCHeap -------------------------------
(* Model-checking instance of Heap.  The unit is the 16-byte minimal object: *)
(* a frame has 4 units, the slab header 1, the buckets hold 1 and 2 units.   *)
EXTENDS Heap

MCLayouts == {<<1, 1>>, <<1, 2>>, <<3, 1>>, <<5, 1>>, <<9, 1>>}
MCDonated == 1..3
=============================================================================
