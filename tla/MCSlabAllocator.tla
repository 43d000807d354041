--------------------------- MODULE MCSlabAllocator ---------------------------
(* A heap of three caches with objects of 2, 4 and 8 units; from 4 units on *)
(* descriptors are off the slab.                                            *)
EXTENDS SlabAllocator, TLC

\* Two objects per slab: partial, full and empty.
MCCount == (1 :> 2) @@ (2 :> 2) @@ (3 :> 2)

\* Slabs of three objects in the middle cache, whose free chains can take more
\* shapes.
MCCountThree == (1 :> 2) @@ (2 :> 3) @@ (3 :> 2)

MCSymmetry == Permutations(Mem)
=============================================================================
