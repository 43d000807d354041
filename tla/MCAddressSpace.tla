--------------------------- MODULE MCAddressSpace ---------------------------
(* Small instances of an address space.                                    *)
EXTENDS AddressSpace

B(addr, pages) == [addr |-> addr, pages |-> pages]

\* Allocations of one block.
MCSingle == {<<B(0, 1)>>, <<B(2, 2)>>}

\* An allocation of three pages whose blocks are not adjacent.
MCApart == {<<B(4, 2), B(0, 1)>>}

\* An allocation of three pages whose blocks are adjacent.
MCAdjacent == {<<B(4, 2), B(6, 1)>>}

\* One block; two that are apart, of which free_pages passes over the second;
\* two that are adjacent, on whose release the kernel stops.
MCChains == MCSingle \cup MCApart \cup MCAdjacent

MCBlocks == {B(0, 2), B(8, 4)}
MCOneBlock == {B(4, 1)}
=============================================================================
