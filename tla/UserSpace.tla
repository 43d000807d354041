------------------------------ MODULE UserSpace ------------------------------
(***************************************************************************)
(* The address space of a process (kernel/src/memory/paging.c) as the ELF  *)
(* loader and the system calls use it: claim_virt_range while the image is *)
(* loaded, alloc_addr_space for everything that is mapped afterwards.      *)
(* Nothing is ever unmapped in it.  A byte of a page is the position in    *)
(* the file it was copied from, 0 when it was cleared, Junk before.        *)
(***************************************************************************)
EXTENDS Integers, SequencesExt

CONSTANTS
    PageSize,   \* bytes in a page
    Limit,      \* pages in an address space
    MaxCuts     \* bound: how often a free range is split

ASSUME PageAssumption == PageSize \in Nat \ {0} /\ Limit \in Nat \ {0} /\ MaxCuts \in Nat

Junk == -1
Bytes == 0 .. PageSize - 1
VirtPages == 0 .. Limit - 1
NotPresent == [present |-> FALSE]
Page(flags, bytes) == [present |-> TRUE, flags |-> flags, bytes |-> bytes]

PageEntry ==
    {NotPresent}
    \cup [present : {TRUE}, flags : SUBSET {"writable", "executable"}, bytes : [Bytes -> Int]]

\* A free range, and how often it was split (history).
FreeListEntry == [addr : Nat, pages : Nat, cuts : Nat]
Extent(addr, pages) == [addr |-> addr, pages |-> pages, cuts |-> 0]

\* current_address, the page tables, the free list, whether its head pointer is
\* a canonical address, and whether a range that had been split was used again
\* (history).
AddressSpace ==
    [current : 1 .. Limit, table : [VirtPages -> PageEntry], free_list : Seq(FreeListEntry),
     head_canonical : BOOLEAN, reused : BOOLEAN]

\* new_address_space at PML4 entry 0: page 0 is never used.
EmptySpace ==
    [current |-> 1, table |-> [v \in VirtPages |-> NotPresent], free_list |-> <<>>,
     head_canonical |-> TRUE, reused |-> FALSE]

\* claim_virt_range: what lies below the claimed range becomes free.
Claimable(s, at, pages) == s.current <= at /\ at + pages <= Limit
claim_virt_range_OneMore(s, at, pages) ==
    [s EXCEPT !.free_list = <<Extent(s.current, at - s.current + 1)>> \o @,
              !.head_canonical = TRUE,
              !.current = at + pages]
claim_virt_range(s, at, pages) ==
    [s EXCEPT !.free_list = <<Extent(s.current, at - s.current)>> \o @,
              !.head_canonical = TRUE,
              !.current = at + pages]

-----------------------------------------------------------------------------
(* alloc_addr_space.                                                       *)

\* The walk through the free list ends at the first entry that is large enough.
Fits(s, pages) == {i \in DOMAIN s.free_list : pages <= s.free_list[i].pages}
FirstFit(s, pages) == CHOOSE i \in Fits(s, pages) : \A j \in Fits(s, pages) : i <= j

\* A larger entry is split.  Its page count grows where it should shrink.
CutEntry(s, i, pages) ==
    [s EXCEPT !.free_list[i] = [addr |-> @.addr + pages, pages |-> @.pages + pages,
                                cuts |-> @.cuts + 1],
              !.reused = @ \/ s.free_list[i].cuts > 0]

\* An entry of the right size is unlinked.  At the head, its next field is
\* used as the new head without sign extension.
UseEntry(s, i) ==
    [s EXCEPT !.free_list = RemoveAt(@, i),
              !.head_canonical = (i = 1 => Len(s.free_list) = 1),
              !.reused = @ \/ s.free_list[i].cuts > 0]

AllocatedAt(s, pages) ==
    IF Fits(s, pages) = {} THEN s.current ELSE s.free_list[FirstFit(s, pages)].addr

alloc_addr_space(s, pages) ==
    IF Fits(s, pages) = {} THEN [s EXCEPT !.current = @ + pages]
    ELSE LET i == FirstFit(s, pages)
         IN  IF pages < s.free_list[i].pages THEN CutEntry(s, i, pages) ELSE UseEntry(s, i)

\* KERNEL_ASSERT(..., "Out of address space").
OutOfSpace(s, pages) == Fits(s, pages) = {} /\ s.current + pages >= Limit

\* The walk starts at the head pointer.
Walkable(s) == s.free_list = <<>> \/ s.head_canonical

Splittable(s, pages) ==
    Fits(s, pages) # {} =>
        LET e == s.free_list[FirstFit(s, pages)] IN pages < e.pages => e.cuts < MaxCuts

\* map_allocation and map_phys_range.  The page tables have no room for more
\* than the bits of a page of the space.
Mapped(s, pages) == {v % Limit : v \in AllocatedAt(s, pages) .. AllocatedAt(s, pages) + pages - 1}
Mappable(s, pages) == Walkable(s) /\ ~OutOfSpace(s, pages) /\ Splittable(s, pages)
WithPages(s, pages) ==
    [alloc_addr_space(s, pages) EXCEPT !.table =
        [v \in VirtPages |-> IF v \in Mapped(s, pages)
                             THEN Page({"writable"}, [b \in Bytes |-> Junk]) ELSE s.table[v]]]
=============================================================================
