----------------------------- MODULE PageTables -----------------------------
(***************************************************************************)
(* How address spaces get their page tables (get_or_alloc_page_entries in  *)
(* kernel/src/memory/paging.c).                                            *)
(*                                                                         *)
(* A table for a user's space is a frame that is mapped for it.  A table   *)
(* for the kernel's space comes from a pool of pages that are mapped       *)
(* already.  When the pool runs low it is refilled by allocating and       *)
(* mapping pages, which may need a table itself; every list entry that is  *)
(* taken on the way may refill the pool of list entries, which maps a page *)
(* too.  The two counters are raised before a refill so that refills do    *)
(* not nest.  A refill runs inside the call that needed the table, so the  *)
(* calls are activation records on a stack.                                *)
(*                                                                         *)
(* Addresses are page numbers and one level of tables stands for the two   *)
(* levels below the PDP, which the code handles alike.  Of the free lists  *)
(* only the lengths are kept, which decide how many blocks alloc_frames    *)
(* splits and so how many list entries it takes.                           *)
(***************************************************************************)
EXTENDS Integers, Sequences, FiniteSets, SequencesExt

CONSTANTS
    TablePages,           \* PAGE_ENTRY_COUNT: pages per table
    TableCount,           \* bound: tables in the directory
    PAGE_POOL_THRESHOLD,
    ENTRY_THRESHOLD,
    PageEntries,          \* list entries in a page
    FRAME_ORDERS,         \* number of block orders
    g_frame_order_sizes,  \* size in pages of a block of each order
    FreeLists,            \* how long the free lists may be after boot
    EntryCounts,          \* how many list entries there may be after boot
    Requests,             \* the page counts callers map
    UserTables            \* bound: tables of user spaces

ASSUME PoolAssumption ==
    /\ TablePages \in Nat \ {0}
    /\ TableCount \in Nat \ {0}
    /\ PAGE_POOL_THRESHOLD \in Nat \ {0}
    /\ 2 * PAGE_POOL_THRESHOLD < TablePages
    /\ ENTRY_THRESHOLD \in Nat \ {0} /\ PageEntries \in Nat /\ PageEntries >= 2 * ENTRY_THRESHOLD
    /\ EntryCounts \subseteq Nat \ 0 .. ENTRY_THRESHOLD - 1
    /\ Requests \subseteq Nat \ {0}
    /\ UserTables \in Nat

Orders == 0 .. FRAME_ORDERS - 1
Size(o) == g_frame_order_sizes[o]

\* alloc_frames_contiguos may look two orders above the smallest.
ASSUME SizesAssumption ==
    /\ FRAME_ORDERS \in Nat /\ FRAME_ORDERS > 2
    /\ g_frame_order_sizes \in [Orders -> Nat]
    /\ g_frame_order_sizes[0] = 1
    /\ \A o \in Orders \ {0} : g_frame_order_sizes[o] = 2 * g_frame_order_sizes[o - 1]

\* 20, 10 and 8 in the code.  A refill of the page pool splits a block of every
\* order but the smallest at most and takes a list entry for each page; it needs at
\* most two tables itself, and so does the refill of the list entries it meets.
ASSUME ThresholdAssumption ==
    /\ ENTRY_THRESHOLD >= PAGE_POOL_THRESHOLD + FRAME_ORDERS
    /\ PAGE_POOL_THRESHOLD >= 4

\* Address space runs out before memory does.
ASSUME MemoryAssumption ==
    \A free \in FreeLists :
        /\ free \in [Orders -> Nat]
        /\ free[FRAME_ORDERS - 1] * Size(FRAME_ORDERS - 1) > TablePages * TableCount

VARIABLES
    pd,               \* the directory: the frame of every table, or NoTable
    pt,               \* the entries: <<table frame, page, frame>>
    entry_maps,       \* where the tables are mapped: [virt_addr, phys_addr]
    user_maps,        \* the same for the tables of user spaces
    pool,             \* g_page_pool.head: [virt_addr, phys_addr], head first
    count,            \* g_page_pool.count
    current_address,  \* the first page never used so far
    next_frame,       \* the first frame alloc_frames has not handed out
    free_lists,       \* the length of the free list of every order
    entries,          \* the entries in the list g_memory_entry_pool.head
    entry_count,      \* g_memory_entry_pool.count
    stack,            \* the activation records, innermost last
    kernel            \* "running", or why the kernel stopped

tableVars == <<pd, pt, entry_maps, user_maps>>
poolVars == <<pool, count>>
spaceVars == <<current_address, next_frame>>
entryVars == <<entries, entry_count>>
vars == <<tableVars, poolVars, spaceVars, free_lists, entryVars, stack, kernel>>

-----------------------------------------------------------------------------
NoTable == -1
TableOf(page) == page \div TablePages
Limit == TableCount * TablePages
PoolEntry(virt_addr, phys_addr) == [virt_addr |-> virt_addr, phys_addr |-> phys_addr]

\* What the processor finds for a page.
Translates(dir, page, frame) ==
    dir[TableOf(page)] # NoTable /\ <<dir[TableOf(page)], page, frame>> \in pt

Running == kernel = "running"
Top == Last(stack)
At(pc) == Running /\ stack # <<>> /\ Top.pc = pc
Page == Top.addr + Top.i
Kinds == {"call", "user_table", "page_pool", "entry_pool"}

\* A call that is about to allocate and map pages.  ends has for every block of
\* its allocation how many pages the allocation has up to its end.
NewCall(kind, pages) ==
    [kind |-> kind, pc |-> "alloc", addr |-> 0, pages |-> pages, frame |-> 0, i |-> 0,
     ends |-> <<>>, order |-> 0]

\* The innermost call goes on as f.
Continue(f) == stack' = [stack EXCEPT ![Len(stack)] = f]

Stop(reason) ==
    /\ kernel' = reason
    /\ UNCHANGED <<tableVars, poolVars, spaceVars, free_lists, entryVars, stack>>

\* initialize_paging: the first table holds the starting pool and the table.
InitialPool == 2 * PAGE_POOL_THRESHOLD

Init ==
    /\ pd = [t \in 0 .. TableCount - 1 |-> IF t = 0 THEN 0 ELSE NoTable]
    /\ pt = {<<0, p, p + 1>> : p \in 0 .. InitialPool - 1} \cup {<<0, InitialPool, 0>>}
    /\ entry_maps = {PoolEntry(InitialPool, 0)}
    /\ user_maps = {}
    /\ pool = [k \in 1 .. InitialPool |-> PoolEntry(InitialPool - k, InitialPool - k + 1)]
    /\ count = InitialPool
    /\ current_address = InitialPool + 1
    /\ next_frame = InitialPool + 1
    /\ free_lists \in FreeLists
    /\ entries \in EntryCounts
    /\ entry_count = entries
    /\ stack = <<>>
    /\ kernel = "running"

-----------------------------------------------------------------------------
(* The entry pool.                                                         *)

\* The innermost call takes a list entry next.
TakesEntry == At("split") \/ At("take") \/ (At("populate") /\ Top.i < Top.pages /\ Top.i # Head(Top.ends))

RefillEntryPool ==
    /\ TakesEntry
    /\ entry_count < ENTRY_THRESHOLD
    /\ entry_count' = entry_count + ENTRY_THRESHOLD
    /\ stack' = Append(stack, NewCall("entry_pool", 1))
    /\ UNCHANGED <<tableVars, poolVars, spaceVars, free_lists, entries, kernel>>

get_memory_entry ==
    /\ TakesEntry
    /\ entry_count >= ENTRY_THRESHOLD
    /\ entries > 0
    /\ entries' = entries - 1
    /\ entry_count' = entry_count - 1

free_memory_entries(n) ==
    /\ entries' = entries + n
    /\ entry_count' = entry_count + n

\* The page is mapped: fill_memory_entry_pool writes to it.
EntryPoolRefilled ==
    /\ At("map") /\ Top.i = Top.pages
    /\ Top.kind = "entry_pool"
    /\ Translates(pd, Top.addr, Top.frame)
    /\ entries' = entries + Len(Top.ends) + PageEntries
    /\ entry_count' = entry_count + Len(Top.ends) + PageEntries - ENTRY_THRESHOLD
    /\ stack' = Front(stack)
    /\ UNCHANGED <<tableVars, poolVars, spaceVars, free_lists, kernel>>

-----------------------------------------------------------------------------
(* alloc_frames.                                                           *)

\* Somebody allocates and maps pages.
alloc_pages(pages) ==
    /\ Running
    /\ stack = <<>>
    /\ stack' = <<NewCall("call", pages)>>
    /\ UNCHANGED <<tableVars, poolVars, spaceVars, free_lists, entryVars, kernel>>

\* A user's space needs a table.
AllocUserTable ==
    /\ Running
    /\ stack = <<>>
    /\ Cardinality(user_maps) < UserTables
    /\ stack' = <<NewCall("user_table", 1)>>
    /\ UNCHANGED <<tableVars, poolVars, spaceVars, free_lists, entryVars, kernel>>

\* Pages still to be allocated, and the largest order that fits into them.
Missing == Top.pages - (IF Top.ends = <<>> THEN 0 ELSE Last(Top.ends))
order_to_alloc == CHOOSE o \in Orders : /\ Size(o) <= Missing
                                        /\ o + 1 \in Orders => Size(o + 1) > Missing

\* The lowest order from this one on that has a block, or none.
FirstFrom_Highest(order) ==
    {o \in Orders : o >= order /\ free_lists[o] > 0 /\ \A q \in o + 1 .. FRAME_ORDERS - 1 : free_lists[q] = 0}
FirstFrom(order) ==
    {o \in Orders : o >= order /\ free_lists[o] > 0 /\ \A q \in order .. o - 1 : free_lists[q] = 0}

\* Where the search for a block to split goes on.
SearchFrom == IF Top.order > order_to_alloc THEN Top.order ELSE order_to_alloc + 1

\* alloc_frames_contiguos goes one order higher, and takes that list as it is.
SecondLook ==
    {o \in {SearchFrom, SearchFrom + 1} :
        free_lists[o] > 0 /\ (o = SearchFrom \/ free_lists[SearchFrom] = 0)}

\* The first entry of an empty list is read at address 0, which is not mapped.
NullEntry ==
    /\ At("alloc") /\ Missing > 0 /\ Top.kind = "user_table"
    /\ free_lists[order_to_alloc] = 0
    /\ SecondLook = {}
    /\ Stop("page_fault")

\* A block is unlinked to be split.
UnlinkBlock ==
    /\ At("alloc") /\ Missing > 0
    /\ free_lists[order_to_alloc] = 0
    /\ \E o \in IF Top.kind = "user_table" THEN SecondLook ELSE FirstFrom(SearchFrom) :
        /\ free_lists' = [free_lists EXCEPT ![o] = @ - 1]
        /\ Continue([Top EXCEPT !.pc = "split", !.order = o])
    /\ UNCHANGED <<tableVars, poolVars, spaceVars, entryVars, kernel>>

\* split_entry has its second entry.
SplitBlock ==
    /\ At("split")
    /\ get_memory_entry
    /\ free_lists' = [free_lists EXCEPT ![Top.order - 1] = @ + 2]
    /\ Continue([Top EXCEPT !.pc = "alloc", !.order = @ - 1])
    /\ UNCHANGED <<tableVars, poolVars, spaceVars, kernel>>

\* A block of the order is there, or only smaller ones are.
Takes(o) ==
    IF free_lists[order_to_alloc] > 0 THEN o = order_to_alloc
    ELSE /\ FirstFrom(SearchFrom) = {}
         /\ o < order_to_alloc /\ free_lists[o] > 0
         /\ \A q \in o + 1 .. order_to_alloc - 1 : free_lists[q] = 0
TakeBlock ==
    /\ At("alloc") /\ Missing > 0 /\ Top.kind # "user_table"
    /\ \E o \in Orders :
        /\ Takes(o)
        /\ free_lists' = [free_lists EXCEPT ![o] = @ - 1]
        /\ Continue([Top EXCEPT !.ends = Append(@, Top.pages - Missing + Size(o)), !.order = 0])
    /\ UNCHANGED <<tableVars, poolVars, spaceVars, entryVars, kernel>>

\* alloc_frames_contiguos keeps no entry for its block.
TakeContiguous ==
    /\ At("alloc") /\ Missing > 0 /\ Top.kind = "user_table"
    /\ free_lists[order_to_alloc] > 0
    /\ free_lists' = [free_lists EXCEPT ![order_to_alloc] = @ - 1]
    /\ free_memory_entries(1)
    /\ Continue([Top EXCEPT !.ends = <<Top.pages>>, !.order = 0])
    /\ UNCHANGED <<tableVars, poolVars, spaceVars, kernel>>

-----------------------------------------------------------------------------
(* map_allocation, and kmap_phys_range for the table of a user's space.    *)

\* alloc_addr_space.
StartMapping ==
    /\ At("alloc") /\ Missing = 0
    /\ current_address + Top.pages < Limit
    /\ Continue([Top EXCEPT !.pc = "map", !.addr = current_address, !.frame = next_frame])
    /\ current_address' = current_address + Top.pages
    /\ next_frame' = next_frame + Top.pages
    /\ UNCHANGED <<tableVars, poolVars, free_lists, entryVars, kernel>>

\* KERNEL_ASSERT(..., "Out of address space").
OutOfAddressSpace ==
    /\ At("alloc") /\ Missing = 0
    /\ current_address + Top.pages >= Limit
    /\ Stop("out_of_address_space")

\* map_range_helper: the page has a table.
MapPage ==
    /\ At("map")
    /\ Top.i < Top.pages
    /\ pd[TableOf(Page)] # NoTable
    /\ pt' = {e \in pt : e[1] # pd[TableOf(Page)] \/ e[2] # Page}
                 \cup {<<pd[TableOf(Page)], Page, Top.frame + Top.i>>}
    /\ Continue([Top EXCEPT !.i = @ + 1])
    /\ UNCHANGED <<pd, entry_maps, user_maps, poolVars, spaceVars, free_lists, entryVars, kernel>>

\* The mapping comes to a page that has no table: look at the pool.
TableMissing == At("map") /\ Top.i < Top.pages /\ pd[TableOf(Page)] = NoTable

\* The pool runs low.  Its count is adjusted beforehand.
RefillPagePool_CountLater ==
    /\ TableMissing
    /\ count <= PAGE_POOL_THRESHOLD
    /\ stack' = Append([stack EXCEPT ![Len(stack)].pc = "install"],
                       NewCall("page_pool", PAGE_POOL_THRESHOLD))
    /\ UNCHANGED <<tableVars, poolVars, spaceVars, free_lists, entryVars, kernel>>
RefillPagePool ==
    /\ TableMissing
    /\ count <= PAGE_POOL_THRESHOLD
    /\ count' = count + PAGE_POOL_THRESHOLD
    /\ stack' = Append([stack EXCEPT ![Len(stack)].pc = "install"],
                       NewCall("page_pool", PAGE_POOL_THRESHOLD))
    /\ UNCHANGED <<tableVars, pool, spaceVars, free_lists, entryVars, kernel>>

PoolSuffices ==
    /\ TableMissing
    /\ count > PAGE_POOL_THRESHOLD
    /\ Continue([Top EXCEPT !.pc = "install"])
    /\ UNCHANGED <<tableVars, poolVars, spaceVars, free_lists, entryVars, kernel>>

\* The first page of the pool becomes the table.  The directory entry, found
\* missing before a refill, is not looked at again; then the page is cleared
\* through its mapping.
NewDirectory == [pd EXCEPT ![TableOf(Page)] = Head(pool).phys_addr]

InstallTable ==
    LET e == Head(pool)
    IN  /\ At("install")
        /\ pool # <<>>
        /\ Translates(NewDirectory, e.virt_addr, e.phys_addr)
        /\ pool' = Tail(pool)
        /\ count' = count - 1
        /\ entry_maps' = entry_maps \cup {e}
        /\ pd' = NewDirectory
        /\ pt' = {x \in pt : x[1] # e.phys_addr}
        /\ Continue([Top EXCEPT !.pc = "map"])
        /\ UNCHANGED <<user_maps, spaceVars, free_lists, entryVars, kernel>>

\* The mapping of the page went away with the table that was there.
InstallFaults ==
    LET e == Head(pool)
    IN  /\ At("install")
        /\ pool # <<>>
        /\ ~Translates(NewDirectory, e.virt_addr, e.phys_addr)
        /\ pool' = Tail(pool)
        /\ count' = count - 1
        /\ entry_maps' = entry_maps \cup {e}
        /\ pd' = NewDirectory
        /\ kernel' = "page_fault"
        /\ UNCHANGED <<pt, user_maps, spaceVars, free_lists, entryVars, stack>>

-----------------------------------------------------------------------------
(* The ends of mappings.                                                   *)

\* The caller's mapping: free_frame_allocation_entries.
CallReturns ==
    /\ At("map") /\ Top.i = Top.pages
    /\ Top.kind = "call"
    /\ free_memory_entries(Len(Top.ends))
    /\ stack' = Front(stack)
    /\ UNCHANGED <<tableVars, poolVars, spaceVars, free_lists, kernel>>

\* The table of a user's space is mapped and cleared; an entry remembers where.
UserTableMapped ==
    /\ At("map") /\ Top.i = Top.pages
    /\ Top.kind = "user_table"
    /\ Continue([Top EXCEPT !.pc = "take"])
    /\ UNCHANGED <<tableVars, poolVars, spaceVars, free_lists, entryVars, kernel>>

UserTableKnown ==
    /\ At("take")
    /\ get_memory_entry
    /\ user_maps' = user_maps \cup {PoolEntry(Top.addr, Top.frame)}
    /\ stack' = Front(stack)
    /\ UNCHANGED <<pd, pt, entry_maps, poolVars, spaceVars, free_lists, kernel>>

\* The new pages are put into the pool one by one, and the entry of a block is
\* freed after its pages.
StartPopulating ==
    /\ At("map") /\ Top.i = Top.pages
    /\ Top.kind = "page_pool"
    /\ Continue([Top EXCEPT !.pc = "populate", !.i = 0])
    /\ UNCHANGED <<tableVars, poolVars, spaceVars, free_lists, entryVars, kernel>>

AddToPool ==
    /\ At("populate")
    /\ get_memory_entry
    /\ pool' = <<PoolEntry(Page, Top.frame + Top.i)>> \o pool
    /\ Continue([Top EXCEPT !.i = @ + 1])
    /\ UNCHANGED <<tableVars, count, spaceVars, free_lists, kernel>>

FreeBlockEntry ==
    /\ At("populate")
    /\ Top.ends # <<>> /\ Top.i = Head(Top.ends)
    /\ free_memory_entries(1)
    /\ Continue([Top EXCEPT !.ends = Tail(@)])
    /\ UNCHANGED <<tableVars, poolVars, spaceVars, free_lists, kernel>>

PagePoolRefilled ==
    /\ At("populate")
    /\ Top.ends = <<>>
    /\ stack' = Front(stack)
    /\ UNCHANGED <<tableVars, poolVars, spaceVars, free_lists, entryVars, kernel>>

Halted == ~Running /\ UNCHANGED vars

Step ==
    \/ UnlinkBlock \/ SplitBlock \/ TakeBlock \/ TakeContiguous \/ NullEntry
    \/ StartMapping \/ OutOfAddressSpace \/ MapPage \/ RefillPagePool \/ PoolSuffices \/ InstallTable \/ InstallFaults
    \/ CallReturns \/ UserTableMapped \/ UserTableKnown \/ StartPopulating \/ RefillEntryPool \/ EntryPoolRefilled
    \/ AddToPool \/ FreeBlockEntry \/ PagePoolRefilled

Next == (\E pages \in Requests : alloc_pages(pages)) \/ AllocUserTable \/ Step \/ Halted

Spec == Init /\ [][Next]_vars

-----------------------------------------------------------------------------
(* Properties.                                                             *)

MappingEntry == [virt_addr : Nat, phys_addr : Nat]
Activation ==
    [kind : Kinds, pc : {"alloc", "split", "map", "install", "populate", "take"}, addr : Nat, pages : Nat,
     frame : Nat, i : Nat, ends : Seq(Nat), order : Orders]

\* The paging structures and the pools have their type.
TypeOK ==
    /\ pd \in [0 .. TableCount - 1 -> Nat \cup {NoTable}]
    /\ pt \subseteq Nat \X Nat \X Nat
    /\ entry_maps \subseteq MappingEntry /\ user_maps \subseteq MappingEntry
    /\ pool \in Seq(MappingEntry)
    /\ count \in Nat
    /\ current_address \in 0 .. Limit
    /\ next_frame \in Nat
    /\ free_lists \in [Orders -> Nat]
    /\ entries \in Nat
    /\ entry_count \in Nat
    /\ stack \in Seq(Activation)
    /\ kernel \in {"running", "page_fault", "out_of_address_space"}

\* The pages that a refill has counted and not yet put into the pool.
Outstanding ==
    {x \in (DOMAIN stack) \X (0 .. PAGE_POOL_THRESHOLD - 1) :
        LET f == stack[x[1]] IN f.kind = "page_pool" /\ (f.pc = "populate" => f.i <= x[2])}

\* "avoid getting stuck in an infinite loop": while a pool is refilled, neither
\* the mapping of its pages nor a list entry refills the same pool again, and
\* what is left in the pools is enough for the refills: there is a page for
\* every table and an entry for every split and every page of the page pool.
RefillsDoNotNest ==
    /\ \A l, k \in DOMAIN stack : stack[l].kind = stack[k].kind => l = k
    /\ At("install") => pool # <<>>
    /\ TakesEntry /\ entry_count >= ENTRY_THRESHOLD => entries > 0

\* "Adjust pool count beforehand": the counts are what is in the pools and what
\* the refills under way have promised, so that a later look at them never finds
\* more than there will be.  No page is used twice: the pages of the pool and
\* the tables of all spaces are different frames, and every table can be found
\* (KERNEL_ASSERT(location->pt, "PT not present")).
PoolsExact ==
    /\ TypeOK
    /\ count = Len(pool) + Cardinality(Outstanding)
    /\ entry_count = entries + ENTRY_THRESHOLD
                                 * Cardinality({l \in DOMAIN stack : stack[l].kind = "entry_pool"})
    /\ \A t \in DOMAIN pd : pd[t] # NoTable => \E e \in entry_maps : e.phys_addr = pd[t]
    /\ \A k, l \in DOMAIN pool : pool[k].phys_addr = pool[l].phys_addr => k = l
    /\ \A k \in DOMAIN pool : \A t \in DOMAIN pd : pool[k].phys_addr # pd[t]
    /\ \A e \in user_maps : e.phys_addr \notin Range(pd) \cup {p.phys_addr : p \in ToSet(pool)}
    /\ \A t, u \in DOMAIN pd : pd[t] = pd[u] /\ pd[t] # NoTable => t = u

\* "Holds physical to virtual mapping of page table entries": every entry of
\* entry_maps and of the pool translates to the frame it names.
EntryMapsTrue ==
    \A e \in entry_maps \cup user_maps \cup ToSet(pool) : Translates(pd, e.virt_addr, e.phys_addr)
=============================================================================
