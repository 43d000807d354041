---------------------------- MODULE AddressSpace ----------------------------
(***************************************************************************)
(* One address space (kernel/src/memory/paging.c) and the page allocation  *)
(* built on it (kernel/src/memory.c): which virtual ranges are free, which *)
(* page is mapped to which frame, and which frames come back when a range  *)
(* is unmapped.                                                            *)
(*                                                                         *)
(* Addresses are counted in pages.  The two levels of tables below the PDP *)
(* are one function from pages to entries; that building them can itself   *)
(* map pages is left to a module of its own.  The frame allocator hands    *)
(* out blocks, records with the first frame and the number of frames.      *)
(***************************************************************************)
EXTENDS Integers, Sequences, SequencesExt

CONSTANTS
    Base,          \* current_address of a new space
    Limit,         \* first page behind the space
    Mappings,      \* the mappings that can exist at a time
    Chains,        \* the allocations alloc_frames may return
    Blocks,        \* the blocks alloc_frames_contiguos may return
    Requests,      \* the page counts of contiguous requests
    Targets,       \* the addresses callers ask for
    Flags,         \* the paging flags callers use, as sets
    Registers,     \* the frames of device memory callers map
    MaxBlock,      \* frames in a block of the largest order
    Touched,       \* the pages the processor touches
    MaxCuts        \* bound: how often a free range is split

PagingFlags == {"WRITABLE", "EXECUTABLE", "CACHE_DISABLE", "WRITE_THROUGH"}

ASSUME RangeAssumption == Base \in Nat /\ Limit \in Nat /\ Base < Limit
ASSUME RequestAssumption ==
    /\ Requests \subseteq Nat \ {0}
    /\ Targets \subseteq Nat
    /\ Flags \subseteq SUBSET PagingFlags
    /\ Registers \subseteq Nat
    /\ MaxBlock \in Nat \ {0}
    /\ MaxCuts \in Nat

Frames == [addr : Nat, pages : Nat \ {0}]
ASSUME FrameAssumption == Chains \subseteq Seq(Frames) \ {<<>>} /\ Blocks \subseteq Frames

VARIABLES
    free_list,        \* the free ranges, head first
    head_canonical,   \* whether the head pointer is a canonical address
    current_address,  \* the first page never used so far
    pt,               \* the page table entry of every page
    tlb,              \* the entries the processor has cached
    live,             \* what every mapping is
    frames,           \* the frames the frame allocator counts as allocated
    cuts,             \* how often a free range was split
    nx,               \* g_paging_execute_disable
    kernel            \* "running", or why the kernel stopped

vars == <<free_list, head_canonical, current_address, pt, tlb, live, frames, cuts, nx, kernel>>

-----------------------------------------------------------------------------
VirtPages == Base .. Limit - 1
NotPresent == [present |-> FALSE]
Entry(frame, bits) == [present |-> TRUE, frame |-> frame, bits |-> bits]
NoMapping == [kind |-> "none"]

\* The page table index of an address: the tables have no room for more bits.
Index(page) == Base + ((page - Base) % (Limit - Base))

PagesOf(r) == r.addr .. r.addr + r.pages - 1
Indexes(r) == {Index(p) : p \in PagesOf(r)}
FramesOf(blocks) == UNION {PagesOf(b) : b \in blocks}

\* calculate_allocation_pages.
TotalPages(chain) == FoldLeft(LAMBDA n, b : n + b.pages, 0, chain)

\* The frames of an allocation, in the order in which they are mapped.
FrameSeq(chain) ==
    FoldLeft(LAMBDA s, b : s \o [i \in 1 .. b.pages |-> b.addr + i - 1], <<>>, chain)

Extent(addr, pages) == [addr |-> addr, pages |-> pages]

\* The bits of an entry.
set_flags(flags) ==
    [write |-> "WRITABLE" \in flags, cache_disable |-> "CACHE_DISABLE" \in flags,
     write_through |-> "WRITE_THROUGH" \in flags, execute_disable |-> "EXECUTABLE" \notin flags /\ nx]

IsLive(m) == live[m] # NoMapping
Running == kernel = "running"

Stop(reason) ==
    /\ kernel' = reason
    /\ UNCHANGED <<free_list, head_canonical, current_address, pt, tlb, live, frames, cuts, nx>>

\* CPUID tells whether entries have an execute disable bit.
CheckNX == nx \in BOOLEAN

Init ==
    /\ free_list = <<>>
    /\ head_canonical = TRUE
    /\ current_address = Base
    /\ pt = [p \in VirtPages |-> NotPresent]
    /\ tlb = [p \in VirtPages |-> NotPresent]
    /\ live = [m \in Mappings |-> NoMapping]
    /\ frames = {}
    /\ cuts = 0
    /\ CheckNX
    /\ kernel = "running"

-----------------------------------------------------------------------------
(* alloc_addr_space.                                                       *)

\* The entry at which the walk through the free list ends.
FirstFit(i, pages) ==
    /\ pages <= free_list[i].pages
    /\ \A j \in 1 .. i - 1 : free_list[j].pages < pages

NoFit(pages) == \A i \in DOMAIN free_list : free_list[i].pages < pages

\* A larger entry is split.  Its page count grows where it should shrink.
CutEntry(pages, addr) ==
    \E i \in DOMAIN free_list :
        /\ FirstFit(i, pages)
        /\ pages < free_list[i].pages
        /\ cuts < MaxCuts
        /\ addr = free_list[i].addr
        /\ free_list' = [free_list EXCEPT ![i] = Extent(addr + pages, @.pages + pages)]
        /\ cuts' = cuts + 1
        /\ UNCHANGED <<head_canonical, current_address>>

\* An entry of the right size is unlinked.  At the head, its next field is
\* used as the new head without sign extension.
UseEntry(pages, addr) ==
    \E i \in DOMAIN free_list :
        /\ FirstFit(i, pages)
        /\ pages = free_list[i].pages
        /\ addr = free_list[i].addr
        /\ free_list' = RemoveAt(free_list, i)
        /\ head_canonical' = (i = 1 => Len(free_list) = 1)
        /\ UNCHANGED <<current_address, cuts>>

\* Nothing fits: the space grows.
Extend(pages, addr) ==
    /\ NoFit(pages)
    /\ addr = current_address
    /\ current_address' = current_address + pages
    /\ current_address' < Limit
    /\ UNCHANGED <<free_list, head_canonical, cuts>>

Walkable == free_list = <<>> \/ head_canonical

alloc_addr_space(pages, addr) ==
    /\ Walkable
    /\ CutEntry(pages, addr) \/ UseEntry(pages, addr) \/ Extend(pages, addr)

\* KERNEL_ASSERT(..., "Out of address space").
OutOfAddressSpace(pages) ==
    /\ Running
    /\ Walkable
    /\ NoFit(pages)
    /\ current_address + pages >= Limit
    /\ Stop("out of address space")

\* The walk through the free list starts at a non-canonical address.
WalkFaults ==
    /\ Running
    /\ ~Walkable
    /\ Stop("general protection fault")

\* The addresses alloc_addr_space can return.
Candidates == {current_address} \cup {free_list[i].addr : i \in DOMAIN free_list}

-----------------------------------------------------------------------------
(* Mapping.                                                                *)

\* map_range_helper: entry by entry, each followed by an invlpg.
Map(addr, fs, flags) ==
    LET At(p) == {i \in DOMAIN fs : Index(addr + i - 1) = p}
    IN  /\ pt' = [p \in VirtPages |->
                     IF At(p) = {} THEN pt[p]
                     ELSE Entry(fs[CHOOSE i \in At(p) : \A j \in At(p) : j <= i], set_flags(flags))]
        /\ tlb' = [p \in VirtPages |-> IF At(p) = {} THEN tlb[p] ELSE NotPresent]

\* A mapping, with its frames in the order of its pages and the blocks it owns.
MappingOf(kind, addr, fs, blocks, flags) ==
    [kind |-> kind, addr |-> addr, pages |-> Len(fs), frames |-> fs, blocks |-> blocks,
     flags |-> flags]

\* The end of map_allocation and map_phys_range: address space, then the entries.
MapAnywhere(m, kind, fs, blocks, flags) ==
    /\ Running
    /\ ~IsLive(m)
    /\ FramesOf(blocks) \cap frames = {}
    /\ \E addr \in Candidates :
           /\ alloc_addr_space(Len(fs), addr)
           /\ Map(addr, fs, flags)
           /\ live' = [live EXCEPT ![m] = MappingOf(kind, addr, fs, blocks, flags)]
    /\ frames' = frames \cup FramesOf(blocks)
    /\ UNCHANGED <<nx, kernel>>

\* alloc_pages and syscall_alloc_pages: alloc_frames, then map_allocation.
alloc_pages(m, chain, flags) == MapAnywhere(m, "pages", FrameSeq(chain), ToSet(chain), flags)

\* alloc_frames returns 0 when other spaces hold the memory, and so does
\* alloc_pages.
AllocFails == Running /\ UNCHANGED vars

\* The frames of a physical range.
Consecutive(phys, pages) == [i \in 1 .. pages |-> phys + i - 1]

\* alloc_pages_contiguous: alloc_frames_contiguos gives a block of the
\* smallest order that holds the pages; map_phys_range maps the pages.
alloc_pages_contiguous(m, pages, b, flags) ==
    /\ pages <= b.pages /\ b.pages < 2 * pages
    /\ MapAnywhere(m, "contiguous", Consecutive(b.addr, pages), {b}, flags)

\* The drivers map registers, which the frame allocator does not own.
map_phys_range(m, phys, pages, flags) ==
    MapAnywhere(m, "registers", Consecutive(phys, pages), {}, flags)

\* claim_virt_range: what lies below the claimed range becomes free; only
\* addresses that were never used can be claimed.
claim_virt_range_NoGap(addr, pages) ==
    /\ current_address <= addr
    /\ addr + pages <= Limit
    /\ current_address' = addr + pages
    /\ UNCHANGED <<free_list, head_canonical>>
claim_virt_range(addr, pages) ==
    /\ current_address <= addr
    /\ addr + pages <= Limit
    /\ free_list' = <<Extent(current_address, addr - current_address)>> \o free_list
    /\ head_canonical' = TRUE
    /\ current_address' = addr + pages

\* The end of map_allocation_to_range and map_to_range.
MapAt(m, kind, addr, fs, blocks, flags) ==
    /\ Running
    /\ ~IsLive(m)
    /\ FramesOf(blocks) \cap frames = {}
    /\ claim_virt_range(addr, Len(fs))
    /\ Map(addr, fs, flags)
    /\ live' = [live EXCEPT ![m] = MappingOf(kind, addr, fs, blocks, flags)]
    /\ frames' = frames \cup FramesOf(blocks)
    /\ UNCHANGED <<cuts, nx, kernel>>

\* map_allocation_to_range, as the ELF loader uses it.
map_allocation_to_range(m, chain, addr, flags) ==
    MapAt(m, "pages", addr, FrameSeq(chain), ToSet(chain), flags)

map_to_range(m, phys, addr, pages, flags) ==
    MapAt(m, "registers", addr, Consecutive(phys, pages), {}, flags)

-----------------------------------------------------------------------------
(* Unmapping.                                                              *)

add_range_to_free_list(r) ==
    /\ free_list' = <<Extent(r.addr, r.pages)>> \o free_list
    /\ head_canonical' = TRUE

Unmap_NoInvlpg(r) ==
    /\ pt' = [p \in VirtPages |-> IF p \in Indexes(r) THEN NotPresent ELSE pt[p]]
    /\ tlb' = tlb
Unmap_OneShort(r) ==
    LET last == Index(r.addr + r.pages - 1)
    IN  /\ pt' = [p \in VirtPages |->
                     IF p \in Indexes(r) \ {last} THEN NotPresent ELSE pt[p]]
        /\ tlb' = [p \in VirtPages |->
                      IF p \in Indexes(r) \ {last} THEN NotPresent ELSE tlb[p]]
Unmap(r) ==
    /\ pt' = [p \in VirtPages |-> IF p \in Indexes(r) THEN NotPresent ELSE pt[p]]
    /\ tlb' = [p \in VirtPages |-> IF p \in Indexes(r) THEN NotPresent ELSE tlb[p]]

\* KERNEL_ASSERT(success, "Physical address does not exist").
PhysicalAddressMissing(m) ==
    /\ Running
    /\ IsLive(m)
    /\ live[m].kind = "contiguous"
    /\ ~pt[Index(live[m].addr)].present
    /\ Stop("physical address does not exist")

\* get_min_size_frame_order, as free_frames_contiguos rounds a page count.
BlockPages(n) == CHOOSE k \in {2 ^ i : i \in 0 .. n} : n <= k /\ k < 2 * n

\* free_pages_contiguous: translate, unmap, free the block.
free_pages_contiguous_NextOrder(m) ==
    /\ Running
    /\ IsLive(m)
    /\ live[m].kind = "contiguous"
    /\ pt[Index(live[m].addr)].present
    /\ add_range_to_free_list(live[m])
    /\ Unmap(live[m])
    /\ frames' = frames \ PagesOf(Extent(pt[Index(live[m].addr)].frame, 2 * BlockPages(live[m].pages)))
    /\ live' = [live EXCEPT ![m] = NoMapping]
    /\ UNCHANGED <<current_address, cuts, nx, kernel>>
free_pages_contiguous(m) ==
    /\ Running
    /\ IsLive(m)
    /\ live[m].kind = "contiguous"
    /\ pt[Index(live[m].addr)].present
    /\ add_range_to_free_list(live[m])
    /\ Unmap(live[m])
    /\ frames' = frames \ PagesOf(Extent(pt[Index(live[m].addr)].frame, BlockPages(live[m].pages)))
    /\ live' = [live EXCEPT ![m] = NoMapping]
    /\ UNCHANGED <<current_address, cuts, nx, kernel>>

\* unmap_range, as the drivers use it for registers.
unmap_range(m) ==
    /\ Running
    /\ IsLive(m)
    /\ live[m].kind = "registers"
    /\ add_range_to_free_list(live[m])
    /\ Unmap(live[m])
    /\ live' = [live EXCEPT ![m] = NoMapping]
    /\ UNCHANGED <<current_address, frames, cuts, nx, kernel>>

\* One iteration of the loop of unmap_and_free_frames, at a page mapped to f:
\* runs of consecutive frames are gathered.  Where a run ends it is freed, and
\* the frame that ended it is passed over.
GatherRun(run, f) ==
    IF run.pages = 0
    THEN [run EXCEPT !.addr = f, !.pages = 1]
    ELSE IF run.addr + run.pages # f \/ run.pages >= MaxBlock
         THEN [run EXCEPT !.pages = 0, !.freed = Append(@, Extent(run.addr, run.pages))]
         ELSE [run EXCEPT !.pages = @ + 1]

\* The runs that are freed for the frames fs.
FreedRuns(fs) ==
    LET last == FoldLeft(GatherRun, [addr |-> 0, pages |-> 0, freed |-> <<>>], fs)
    IN  IF last.pages = 0 THEN last.freed
                          ELSE Append(last.freed, Extent(last.addr, last.pages))

PowerOfTwo(n) == \E i \in 0 .. n : 2 ^ i = n

\* What the loop reads; an entry that was cleared gives frame 0.
MappedFrames(r) ==
    LET At(i) == pt[Index(r.addr + i - 1)]
    IN  [i \in 1 .. r.pages |-> IF At(i).present THEN At(i).frame ELSE 0]

\* free_pages: unmap_and_free_frames.
free_pages(m) ==
    /\ Running
    /\ IsLive(m)
    /\ live[m].kind = "pages"
    /\ LET runs == FreedRuns(MappedFrames(live[m]))
       IN  /\ \A i \in DOMAIN runs : PowerOfTwo(runs[i].pages)
           /\ frames' = frames \ FramesOf(ToSet(runs))
    /\ add_range_to_free_list(live[m])
    /\ Unmap(live[m])
    /\ live' = [live EXCEPT ![m] = NoMapping]
    /\ UNCHANGED <<current_address, cuts, nx, kernel>>

\* KERNEL_ASSERT(..., "Allocation is not power of 2").
NotPowerOfTwo(m) ==
    /\ Running
    /\ IsLive(m)
    /\ live[m].kind = "pages"
    /\ \E i \in DOMAIN FreedRuns(MappedFrames(live[m])) :
           ~PowerOfTwo(FreedRuns(MappedFrames(live[m]))[i].pages)
    /\ Stop("allocation is not power of 2")

-----------------------------------------------------------------------------
\* range_set_flags changes the entries up to the first that is not present, and
\* leaves the cached ones alone.
range_set_flags(m, flags) ==
    /\ Running
    /\ IsLive(m)
    /\ LET r == live[m]
           set == {p \in PagesOf(r) : \A q \in r.addr .. p : pt[Index(q)].present}
       IN  pt' = [p \in VirtPages |->
                     IF \E q \in set : Index(q) = p THEN [pt[p] EXCEPT !.bits = set_flags(flags)]
                                                    ELSE pt[p]]
    /\ live' = [live EXCEPT ![m].flags = flags]
    /\ UNCHANGED <<free_list, head_canonical, current_address, tlb, frames, cuts, nx, kernel>>

\* The processor caches an entry it uses.
TLBFill(p) ==
    /\ Running
    /\ pt[p].present
    /\ tlb' = [tlb EXCEPT ![p] = pt[p]]
    /\ UNCHANGED <<free_list, head_canonical, current_address, pt, live, frames, cuts, nx, kernel>>

Halted == ~Running /\ UNCHANGED vars

Next ==
    \/ \E m \in Mappings, flags \in Flags :
           \/ \E chain \in Chains :
                  \/ alloc_pages(m, chain, flags)
                  \/ \E addr \in Targets : map_allocation_to_range(m, chain, addr, flags)
           \/ \E pages \in Requests, b \in Blocks : alloc_pages_contiguous(m, pages, b, flags)
           \/ \E pages \in Requests, phys \in Registers :
                  \/ map_phys_range(m, phys, pages, flags)
                  \/ \E addr \in Targets : map_to_range(m, phys, addr, pages, flags)
           \/ range_set_flags(m, flags)
    \/ \E m \in Mappings : free_pages(m) \/ free_pages_contiguous(m) \/ unmap_range(m)
                            \/ NotPowerOfTwo(m) \/ PhysicalAddressMissing(m)
    \/ \E pages \in Requests : OutOfAddressSpace(pages)
    \/ AllocFails \/ WalkFaults
    \/ \E p \in Touched : TLBFill(p)
    \/ Halted

Spec == Init /\ [][Next]_vars

-----------------------------------------------------------------------------
(* Properties.                                                             *)

Bits == [write : BOOLEAN, cache_disable : BOOLEAN, write_through : BOOLEAN,
         execute_disable : BOOLEAN]
PTE == {NotPresent} \cup [present : {TRUE}, frame : Nat, bits : Bits]

Mapping ==
    {NoMapping} \cup [kind : {"pages", "contiguous", "registers"}, addr : Nat, pages : Nat \ {0},
                      frames : Seq(Nat), blocks : SUBSET Frames, flags : Flags]

\* The state of the address space has its type.
TypeOK ==
    /\ free_list \in Seq([addr : Nat, pages : Nat])
    /\ head_canonical \in BOOLEAN
    /\ current_address \in Nat
    /\ pt \in [VirtPages -> PTE]
    /\ tlb \in [VirtPages -> PTE]
    /\ \A m \in Mappings : live[m] \in Mapping
    /\ frames \subseteq Nat
    /\ cuts \in 0 .. MaxCuts
    /\ nx \in BOOLEAN
    /\ kernel \in {"running", "out of address space", "general protection fault",
                   "allocation is not power of 2", "physical address does not exist"}

LiveMappings == {m \in Mappings : IsLive(m)}

\* No two mappings overlap.
MappingsDisjoint ==
    \A m, n \in LiveMappings : m # n => PagesOf(live[m]) \cap PagesOf(live[n]) = {}

\* As long as no free range has been split, every page of the space belongs to
\* exactly one mapping, one free range or the part never used: reuse, claims
\* and unmapping in any order neither lose nor duplicate address space.
SpacePartitioned ==
    /\ TypeOK
    /\ cuts = 0 =>
           /\ MappingsDisjoint
           /\ \A m \in LiveMappings : PagesOf(live[m]) \subseteq Base .. current_address - 1
           /\ \A i \in DOMAIN free_list :
                  /\ PagesOf(free_list[i]) \subseteq Base .. current_address - 1
                  /\ \A m \in LiveMappings : PagesOf(free_list[i]) \cap PagesOf(live[m]) = {}
                  /\ \A j \in DOMAIN free_list :
                         i # j => PagesOf(free_list[i]) \cap PagesOf(free_list[j]) = {}
           /\ \A p \in Base .. current_address - 1 :
                  \/ \E m \in LiveMappings : p \in PagesOf(live[m])
                  \/ \E i \in DOMAIN free_list : p \in PagesOf(free_list[i])

\* As long as no free range has been split, the pages of a mapping translate
\* to its own frames in their order, can be written and executed exactly as the
\* last flags say (executed always, where the processor cannot forbid it), and
\* no other page is mapped.
TranslationExact ==
    cuts = 0 =>
        /\ \A m \in LiveMappings : \A p \in PagesOf(live[m]) :
               /\ pt[p].present
               /\ pt[p].frame = live[m].frames[p - live[m].addr + 1]
               /\ pt[p].bits.write <=> "WRITABLE" \in live[m].flags
               /\ ~pt[p].bits.execute_disable <=> "EXECUTABLE" \in live[m].flags \/ ~nx
               /\ pt[p].bits.cache_disable <=> "CACHE_DISABLE" \in live[m].flags
        /\ \A p \in VirtPages :
               pt[p].present => \E m \in LiveMappings : p \in PagesOf(live[m])

\* The processor never reaches a frame through a page that no longer maps it.
NoStaleTranslation ==
    \A p \in VirtPages : tlb[p].present => pt[p].present /\ pt[p].frame = tlb[p].frame

\* As long as no free range has been split, no call gives back a frame of a
\* mapping that still exists: neither the runs that free_pages gathers from the
\* page table nor the block that free_pages_contiguous rounds to reach beyond
\* what the freed mapping had.
LiveFramesKept ==
    cuts = 0 => \A m \in LiveMappings : FramesOf(live[m].blocks) \subseteq frames

\* "Frees pages allocated by alloc_pages" (memory.h): the frames that count as
\* allocated are those of the mappings that exist.
FramesComeBack == frames = UNION {FramesOf(live[m].blocks) : m \in LiveMappings}
=============================================================================
