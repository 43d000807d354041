----------------------------- MODULE BootMemory -----------------------------
(***************************************************************************)
(* How the kernel takes over memory from the firmware: initialize_memory   *)
(* (kernel/src/memory.c), alloc_frame_allocator_memory and                 *)
(* initialize_frame_allocator (frame_allocator.c), initialize_paging and   *)
(* free_uefi_memory_and_remove_identity_mapping (paging.c).                *)
(*                                                                         *)
(* Before there is an allocator, memory is taken from the descriptors of   *)
(* the firmware's memory map by moving their start; the frame allocator is *)
(* told later to remove everything that is not in the map any more.  The   *)
(* unit is the page, physical (a frame) or virtual (counted from           *)
(* KERNEL_OFFSET).  Unsigned arithmetic wraps at Word.                     *)
(***************************************************************************)
EXTENDS Integers, Sequences, SequencesExt, FiniteSetsExt

CONSTANTS
    MemoryMaps,           \* the memory maps a firmware may hand over
    LowPages,             \* the pages below 1 MB
    PAGE_ENTRY_COUNT,     \* entries per table
    PAGE_POOL_THRESHOLD,
    FRAME_ORDERS,
    g_frame_order_sizes,  \* the pages in a block of every order
    EntriesPerPage,       \* PAGE_SIZE / sizeof(ListEntry)
    BytesPerPage,         \* PAGE_SIZE
    Word                  \* unsigned numbers of pages are below Word

ASSUME SizeAssumption ==
    /\ {LowPages, PAGE_ENTRY_COUNT, PAGE_POOL_THRESHOLD, FRAME_ORDERS, EntriesPerPage,
        BytesPerPage, Word} \subseteq Nat \ {0}
    /\ Word > PAGE_ENTRY_COUNT * PAGE_ENTRY_COUNT * PAGE_ENTRY_COUNT
    /\ g_frame_order_sizes \in [0 .. FRAME_ORDERS - 1 -> Nat \ {0}]

\* One type stands for each group that the code treats alike.
Usable == {"conventional"}
Reclaimed == {"boot services data"}
Descriptor == [type : Usable \cup Reclaimed \cup {"loader code", "reserved"},
               physical_start : Nat, num_pages : Nat]

\* The descriptors are in the order of their addresses, the first of which is 0,
\* and do not overlap.
ASSUME MapAssumption ==
    \A m \in MemoryMaps :
        /\ m \in Seq(Descriptor) \ {<<>>}
        /\ m[1].physical_start = 0
        /\ \A k \in 1 .. Len(m) - 1 :
               m[k].physical_start + m[k].num_pages <= m[k + 1].physical_start

VARIABLES
    uefi_map,         \* the memory map as the firmware left it
    uefi_memory_map,  \* the map with what boot has taken from it
    step,             \* the step of boot that comes next
    memory_size,      \* g_memory_size
    kernel,           \* the range of the kernel image
    frame_allocator,  \* the range for the frame allocator's lists and maps
    pd_count,
    pt_count,
    table_pages,      \* the range of tables, entry pool and page pool
    allocated,        \* allocated_phys_addr: the first page of it not yet used
    pdp,              \* for every directory the range of it and its tables
    mapped,           \* the frame of every virtual page so far, in order
    index,            \* the range or the descriptor a loop has come to
    free              \* the frames in the free lists

tableVars == <<pd_count, pt_count, table_pages, allocated, pdp>>
bootVars == <<uefi_map, uefi_memory_map, step, memory_size, kernel, frame_allocator, tableVars,
              mapped, index, free>>

-----------------------------------------------------------------------------
PhysRange(start, pages) == [start |-> start, pages |-> pages]
Frames(r) == r.start .. r.start + r.pages - 1
DescFrames(d) == d.physical_start .. d.physical_start + d.num_pages - 1
FramesInOrder(r) == [k \in 1 .. r.pages |-> r.start + k - 1]
Nothing == PhysRange(0, 0)

CeilDiv(a, b) == (a + b - 1) \div b
Wrap(n) == n % Word
AtLeastOne(n) == IF n = 0 THEN 1 ELSE n

MaxBlock == g_frame_order_sizes[FRAME_ORDERS - 1]

\* The sizes that alloc_frame_allocator_memory calculates: twice the entries
\* that the largest blocks need, and a byte per block for the buddy maps.
Total(s) == FoldLeft(+, 0, s)
BuddyMapBytes == [o \in 1 .. FRAME_ORDERS - 1 |-> memory_size \div g_frame_order_sizes[o - 1]]
FrameAllocatorPages ==
    CeilDiv((memory_size \div MaxBlock) * 2, EntriesPerPage)
      + CeilDiv(Total(BuddyMapBytes), BytesPerPage)

PoolPages == 2 * PAGE_POOL_THRESHOLD   \* starting_pool_size
EntryPages == 1                        \* memory_entries_size
PT_MEM_RANGE == PAGE_ENTRY_COUNT
PD_MEM_RANGE == PT_MEM_RANGE * PAGE_ENTRY_COUNT
PDP_MEM_RANGE == PD_MEM_RANGE * PAGE_ENTRY_COUNT

TotalSize == kernel.pages + PoolPages + frame_allocator.pages + EntryPages
PagesToAllocate_NoPDP == pd_count + pt_count + PoolPages + EntryPages
PagesToAllocate == 1 + pd_count + pt_count + PoolPages + EntryPages

\* The descriptors with room for so many pages; the first one is taken.
Fitting(pages) ==
    {k \in DOMAIN uefi_memory_map : /\ uefi_memory_map[k].type \in Usable
                                    /\ uefi_memory_map[k].physical_start >= LowPages
                                    /\ uefi_memory_map[k].num_pages >= pages}
TakeFrom(k, pages) ==
    uefi_memory_map' = [uefi_memory_map EXCEPT
        ![k] = [type |-> @.type, physical_start |-> @.physical_start + pages,
                num_pages |-> @.num_pages - pages]]

At(s) == step = s
Goto(s) == step' = s

BootInit ==
    /\ uefi_map \in MemoryMaps
    /\ uefi_memory_map = uefi_map
    /\ step = "scan"
    /\ memory_size = 0
    /\ kernel = Nothing
    /\ frame_allocator = Nothing
    /\ pd_count = 0
    /\ pt_count = 0
    /\ table_pages = Nothing
    /\ allocated = 0
    /\ pdp = <<>>
    /\ mapped = <<>>
    /\ index = 1
    /\ free = {}

-----------------------------------------------------------------------------
(* initialize_memory and alloc_frame_allocator_memory.                     *)

ScanMemoryMap ==
    LET ends == {d.physical_start + d.num_pages : d \in ToSet(uefi_memory_map)}
        code == {k \in DOMAIN uefi_memory_map : uefi_memory_map[k].type = "loader code"}
        image == uefi_memory_map[Max(code)]
    IN  /\ At("scan")
        /\ memory_size' = Max(ends)
        /\ IF code = {} \/ image.num_pages = 0 THEN Goto("no kernel") /\ UNCHANGED kernel
           ELSE /\ kernel' = PhysRange(image.physical_start, image.num_pages)
                /\ Goto("frame allocator")
        /\ UNCHANGED <<uefi_map, uefi_memory_map, frame_allocator, tableVars, mapped, index, free>>

\* With no descriptor large enough the address stays 0 and boot goes on.
AllocFrameAllocatorMemory ==
    LET fit == Fitting(FrameAllocatorPages)
        desc == uefi_memory_map[Min(fit)]
    IN  /\ At("frame allocator")
        /\ IF fit = {} THEN /\ frame_allocator' = PhysRange(0, FrameAllocatorPages)
                            /\ UNCHANGED uefi_memory_map
           ELSE /\ frame_allocator' = PhysRange(desc.physical_start, FrameAllocatorPages)
                /\ TakeFrom(Min(fit), FrameAllocatorPages)
        /\ Goto("count directories")
        /\ UNCHANGED <<uefi_map, memory_size, kernel, tableVars, mapped, index, free>>

-----------------------------------------------------------------------------
(* initialize_paging: how many tables there have to be.                    *)

UnchangedButCounts ==
    UNCHANGED <<uefi_map, uefi_memory_map, memory_size, kernel, frame_allocator, table_pages,
                allocated, pdp, mapped, index, free>>

StartCounting ==
    /\ At("count directories")
    /\ pd_count = 0
    /\ pd_count' = AtLeastOne(TotalSize \div PD_MEM_RANGE)
    /\ UNCHANGED <<step, pt_count>>
    /\ UnchangedButCounts

\* "Make sure we have room to map PD entries into virtual memory".
RoomForDirectories == ~ Wrap(pd_count * PD_MEM_RANGE - TotalSize) < pd_count

CountDirectory ==
    /\ At("count directories")
    /\ pd_count # 0
    /\ IF RoomForDirectories
       THEN /\ Goto("count tables")
            /\ pt_count' = AtLeastOne(TotalSize \div PT_MEM_RANGE)
            /\ UNCHANGED pd_count
       ELSE pd_count' = pd_count + 1 /\ UNCHANGED <<step, pt_count>>
    /\ UnchangedButCounts

\* "Make sure we have room to map PT entries into virtual memory".
RoomForTables == ~ Wrap(pt_count * PT_MEM_RANGE - TotalSize) < pt_count + pd_count

CountTable_Stuck ==
    /\ At("count tables")
    /\ IF RoomForTables THEN Goto("allocate tables") ELSE UNCHANGED step
    /\ UNCHANGED <<pd_count, pt_count>>
    /\ UnchangedButCounts
CountTable ==
    /\ At("count tables")
    /\ IF RoomForTables THEN Goto("allocate tables") /\ UNCHANGED pt_count
       ELSE pt_count' = pt_count + 1 /\ UNCHANGED step
    /\ UNCHANGED pd_count
    /\ UnchangedButCounts

AllocTablePages ==
    LET fit == Fitting(PagesToAllocate)
    IN  /\ At("allocate tables")
        /\ PagesToAllocate < memory_size
        /\ PagesToAllocate < PDP_MEM_RANGE
        /\ fit # {}
        /\ table_pages' = PhysRange(uefi_memory_map[Min(fit)].physical_start, PagesToAllocate)
        /\ allocated' = table_pages'.start + 1
        /\ TakeFrom(Min(fit), PagesToAllocate)
        /\ Goto("populate")
        /\ UNCHANGED <<uefi_map, memory_size, kernel, frame_allocator, pd_count, pt_count, pdp,
                       mapped, index, free>>

\* The assertions on the size, and KERNEL_ASSERT(..., "Out of memory").
AllocTablePagesFails ==
    /\ At("allocate tables")
    /\ \/ PagesToAllocate >= memory_size
       \/ PagesToAllocate >= PDP_MEM_RANGE
       \/ Fitting(PagesToAllocate) = {}
    /\ Goto("out of memory")
    /\ UNCHANGED <<pd_count, pt_count>>
    /\ UnchangedButCounts

-----------------------------------------------------------------------------
(* initialize_paging: the tables, then the pages.                          *)

\* curr_pt_count wraps after the last full directory.
TablesOfNext ==
    LET left == Wrap(pt_count - PAGE_ENTRY_COUNT * Len(pdp))
    IN  IF left < PAGE_ENTRY_COUNT THEN left ELSE PAGE_ENTRY_COUNT

UnchangedButPdp ==
    UNCHANGED <<uefi_map, uefi_memory_map, memory_size, kernel, frame_allocator, pd_count,
                pt_count, table_pages, mapped, index, free>>

\* A directory and behind it its tables.
PopulateDirectory ==
    LET directory == PhysRange(allocated, 1 + TablesOfNext)
    IN  /\ At("populate")
        /\ Len(pdp) < pd_count
        /\ pdp' = Append(pdp, directory)
        /\ allocated' = allocated + directory.pages
        /\ UNCHANGED step
        /\ UnchangedButPdp

Populated ==
    /\ At("populate")
    /\ Len(pdp) = pd_count
    /\ Goto("map")
    /\ UNCHANGED <<allocated, pdp>>
    /\ UnchangedButPdp

\* The ranges in the order in which they are mapped.
EntryPage == PhysRange(allocated, EntryPages)
Pool_NotAdvanced == PhysRange(allocated, PoolPages)
Pool == PhysRange(allocated + EntryPages, PoolPages)
PDP == PhysRange(table_pages.start, 1)
ToMap == <<kernel, EntryPage, Pool, frame_allocator, PDP>> \o pdp

\* Whether MAP_PAGE finds the directory and the table of a virtual page.
HasTable(page) ==
    LET d == page \div PD_MEM_RANGE + 1
    IN  d <= Len(pdp) /\ (page % PD_MEM_RANGE) \div PT_MEM_RANGE < pdp[d].pages - 1

UnchangedButMapped ==
    UNCHANGED <<uefi_map, uefi_memory_map, memory_size, kernel, frame_allocator, tableVars, free>>

\* The pages of the next range are mapped behind all others.
NextPages == Len(mapped) .. Len(mapped) + ToMap[index].pages - 1

MapRange ==
    /\ At("map")
    /\ index <= Len(ToMap)
    /\ \A page \in NextPages : HasTable(page)
    /\ mapped' = mapped \o FramesInOrder(ToMap[index])
    /\ index' = index + 1
    /\ UNCHANGED step
    /\ UnchangedButMapped

\* MAP_PAGE writes through an entry that was never filled in.
MapWithoutTable ==
    /\ At("map")
    /\ index <= Len(ToMap)
    /\ \E page \in NextPages : ~HasTable(page)
    /\ Goto("no table")
    /\ UNCHANGED <<mapped, index>>
    /\ UnchangedButMapped

-----------------------------------------------------------------------------
(* initialize_frame_allocator.                                             *)

UnchangedButFrames ==
    UNCHANGED <<uefi_map, uefi_memory_map, memory_size, kernel, frame_allocator, tableVars, mapped>>

\* Populate the free lists with blocks of the largest order; what does not
\* fill one is left out.
PopulateFreeLists ==
    /\ At("map")
    /\ index > Len(ToMap)
    /\ free' = 0 .. (memory_size \div MaxBlock) * MaxBlock - 1
    /\ index' = 1
    /\ Goto("remove")
    /\ UnchangedButFrames

\* The frames between the end of the last descriptor and this one.
Gap(k) ==
    IF k = 1 THEN {}
    ELSE uefi_memory_map[k - 1].physical_start + uefi_memory_map[k - 1].num_pages
             .. uefi_memory_map[k].physical_start - 1
Removed(k) ==
    Gap(k) \cup (IF uefi_memory_map[k].type \in Usable THEN {} ELSE DescFrames(uefi_memory_map[k]))

RemoveUnusable ==
    /\ At("remove")
    /\ index <= Len(uefi_memory_map)
    /\ Removed(index) \subseteq free
    /\ free' = free \ Removed(index)
    /\ index' = index + 1
    /\ UNCHANGED step
    /\ UnchangedButFrames

\* KERNEL_ASSERT(success, "Failed to remove unusable frames ...").
RemoveFails ==
    /\ At("remove")
    /\ index <= Len(uefi_memory_map)
    /\ ~ (Removed(index) \subseteq free)
    /\ Goto("failed to remove")
    /\ UNCHANGED <<index, free>>
    /\ UnchangedButFrames

UnusableRemoved ==
    /\ At("remove")
    /\ index > Len(uefi_memory_map)
    /\ Goto("reclaim")
    /\ index' = 1
    /\ UNCHANGED free
    /\ UnchangedButFrames

\* free_uefi_memory_and_remove_identity_mapping.
FreeUefiMemory ==
    /\ At("reclaim")
    /\ index <= Len(uefi_memory_map)
    /\ free' = free \cup (IF uefi_memory_map[index].type \in Reclaimed
                          THEN DescFrames(uefi_memory_map[index]) ELSE {})
    /\ index' = index + 1
    /\ UNCHANGED step
    /\ UnchangedButFrames

UefiMemoryFreed ==
    /\ At("reclaim")
    /\ index > Len(uefi_memory_map)
    /\ Goto("running")
    /\ UNCHANGED <<index, free>>
    /\ UnchangedButFrames

Stops == {"running", "no kernel", "out of memory", "no table", "failed to remove"}
Stopped == step \in Stops /\ UNCHANGED bootVars

Boot ==
    \/ ScanMemoryMap \/ AllocFrameAllocatorMemory
    \/ StartCounting \/ CountDirectory \/ CountTable \/ AllocTablePages \/ AllocTablePagesFails
    \/ PopulateDirectory \/ Populated \/ MapRange \/ MapWithoutTable
    \/ PopulateFreeLists \/ RemoveUnusable \/ RemoveFails \/ UnusableRemoved
    \/ FreeUefiMemory \/ UefiMemoryFreed

BootNext == Boot \/ Stopped

\* Boot is one thread that nobody interrupts: it goes on as long as it can.
BootSpec == BootInit /\ [][BootNext]_bootVars /\ WF_bootVars(Boot)

-----------------------------------------------------------------------------
(* Properties.                                                             *)

PhysRanges == [start : Nat, pages : Nat]

\* The data of boot has its type.
TypeOK ==
    /\ uefi_map \in MemoryMaps
    /\ uefi_memory_map \in Seq(Descriptor)
    /\ step \in Stops \cup {"scan", "frame allocator", "count directories", "count tables",
                           "allocate tables", "populate", "map", "remove", "reclaim"}
    /\ {memory_size, pd_count, pt_count, allocated} \subseteq Nat
    /\ {kernel, frame_allocator, table_pages} \subseteq PhysRanges
    /\ pdp \in Seq(PhysRanges)
    /\ mapped \in Seq(Nat)
    /\ index \in Nat \ {0}
    /\ free \subseteq 0 .. memory_size - 1

\* The firmware's frames of some types.
FramesOf(kinds) == UNION {DescFrames(d) : d \in {e \in ToSet(uefi_map) : e.type \in kinds}}

\* What boot keeps for itself.
Kept == Frames(kernel) \cup Frames(frame_allocator) \cup Frames(table_pages)

\* A descriptor had room for the frame allocator; the assertion that is meant to
\* check it tests the out parameter, so boot also goes on without.
FrameAllocatorPlaced == frame_allocator.start # 0

\* No frame is mapped at two addresses: the image, the pools, the frame
\* allocator's memory and the tables are all different, although the frames
\* of the tables are counted in one place and used in others.
NoFrameMappedTwice == FrameAllocatorPlaced => IsInjective(mapped)

\* The free lists never hold a frame that boot has mapped for the kernel: what
\* was taken from a descriptor is removed as a gap of the map.  When boot is
\* done every frame that the firmware left usable is in the free lists, except
\* those boot keeps, and no other frame is.
FreeFramesExact ==
    /\ TypeOK
    /\ step \in {"reclaim", "running"} /\ FrameAllocatorPlaced => ToSet(mapped) \cap free = {}
    /\ step = "running" /\ FrameAllocatorPlaced =>
           free = (FramesOf(Usable \cup Reclaimed) \ Kept)
                      \cap (0 .. (memory_size \div MaxBlock) * MaxBlock - 1)

\* Boot comes to an end: the loops that count the tables stop.
BootEnds == <>(step \in Stops)

\* "Make sure we have room to map PT entries into virtual memory": every page
\* that initialize_paging maps has a table.
EveryPageHasTable == step # "no table"
=============================================================================
