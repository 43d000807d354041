-------------------------- MODULE MCFrameAllocator --------------------------
(* Small instances of the frame allocator: three or four orders, of 1, 2,  *)
(* 4 and 8 pages.                                                          *)
EXTENDS FrameAllocator

MCSizes == (0 :> 1) @@ (1 :> 2) @@ (2 :> 4)
MCSizes4 == MCSizes @@ (3 :> 8)

\* The memory map of a boot: a reserved first page, and a range of boot
\* services data that is reclaimed later and starts inside a block.
MCUnusable ==
    <<[addr |-> 0, pages |-> 1, reclaim |-> FALSE],
      [addr |-> 3, pages |-> 2, reclaim |-> TRUE]>>

\* Only a reserved first page.
MCFirstPage == <<[addr |-> 0, pages |-> 1, reclaim |-> FALSE]>>
=============================================================================
