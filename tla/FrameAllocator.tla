--------------------------- MODULE FrameAllocator ---------------------------
(***************************************************************************)
(* The physical frame allocator of the kernel                              *)
(* (kernel/src/memory/frame_allocator.c): a binary buddy allocator with    *)
(* one free list per order and one bit per pair of buddies.                *)
(*                                                                         *)
(* Addresses and sizes are counted in pages (MIN_FRAME_ORDER_SIZE equals   *)
(* PAGE_SIZE).  A block is a pair <<addr, order>>.  The C functions run on *)
(* one thread, but they are not atomic: split_entry calls                  *)
(* get_memory_entry, which may refill the pool of list entries and for     *)
(* that calls alloc_frames again while the outer call is half way through  *)
(* its loop.  Every loop iteration is therefore a step of its own, and a   *)
(* call can be suspended under a nested one (depth = 2).                   *)
(***************************************************************************)
EXTENDS Integers, Sequences, FiniteSets, SequencesExt

CONSTANTS
    FRAME_ORDERS,         \* number of block orders
    g_frame_order_sizes,  \* size in pages of a block of each order
    BlockCount,           \* number of blocks of the largest order in memory
    Unusable,             \* the ranges of the memory map that boot removes
    Requests,             \* the page counts callers ask for
    PAGE_POOL_THRESHOLD,  \* pages a refill of the page pool asks for
    EntryPoolRunsLow      \* whether get_memory_entry may have to refill

Orders == 0 .. FRAME_ORDERS - 1
TopOrder == FRAME_ORDERS - 1
Size(o) == g_frame_order_sizes[o]
MemoryPages == BlockCount * Size(TopOrder)

ASSUME OrdersAssumption == FRAME_ORDERS \in Nat \ {0}
ASSUME SizesAssumption ==
    /\ g_frame_order_sizes \in [Orders -> Nat]
    /\ g_frame_order_sizes[0] = 1
    /\ \A o \in Orders \ {0} : g_frame_order_sizes[o] = 2 * g_frame_order_sizes[o - 1]
ASSUME MemoryAssumption == BlockCount \in Nat \ {0}
ASSUME RequestsAssumption ==
    /\ Requests \subseteq Nat
    /\ PAGE_POOL_THRESHOLD \in Nat \ {0, 1}
    /\ EntryPoolRunsLow \in BOOLEAN
\* A range of the memory map; some are given back once boot is over.
UnusableRange == [addr : Nat, pages : Nat, reclaim : BOOLEAN]
ASSUME UnusableAssumption == Unusable \in Seq(UnusableRange)

VARIABLES
    g_free_lists,  \* the free list of every order: addresses, head first
    buddy_map,     \* for every order but the last, the pairs whose bit is set
    held,          \* the blocks callers were given and will free
    pinned,        \* the blocks nobody ever frees
    boot,          \* the unusable ranges still to be removed
    call,          \* the activation records of the running calls
    depth,         \* how many of them are active
    kernel         \* "running", or why the kernel stopped

vars == <<g_free_lists, buddy_map, held, pinned, boot, call, depth, kernel>>

-----------------------------------------------------------------------------
(* Blocks, buddies and the lists that hold them.                           *)

Block == Nat \X Orders

\* The pages of the block at address a of order o.
Pages(a, o) == a .. a + Size(o) - 1

FreeBlocks == UNION {{<<a, o>> : a \in ToSet(g_free_lists[o])} : o \in Orders}

\* The bit of a block: both buddies share it.
calc_buddy_index_Unshared(a, o) == a \div Size(o)
calc_buddy_index(a, o) == (a \div Size(o)) \div 2

get_buddy_bit(a, o) == calc_buddy_index(a, o) \in buddy_map[o]

\* The last order has no buddy map.
toggle_buddy_bit(bm, a, o) ==
    IF o = TopOrder THEN bm
    ELSE [bm EXCEPT ![o] = SymDiff(@, {calc_buddy_index(a, o)})]

BuddyOf_SameOrder(a, o) == IF a % Size(o) = 0 THEN a + Size(o) ELSE a - Size(o)
BuddyOf(a, o) == IF a % Size(o + 1) = 0 THEN a + Size(o) ELSE a - Size(o)

\* The order whose size is the largest that fits into size.
LargestFit_TooFar(o, size) ==
    /\ o # 0 => Size(o - 1) <= size
    /\ o # TopOrder => size < Size(o)
LargestFit(o, size) ==
    /\ Size(o) <= size
    /\ o # TopOrder => size < Size(o + 1)

\* What is left of size once a block of order o has been taken.
Remaining_WantedOrder(size, o) ==
    size - Size(CHOOSE w \in Orders : LargestFit(w, size))
Remaining(size, o) == size - Size(o)

\* The smallest order whose blocks hold the pages.
get_min_size_frame_order(o, pages) ==
    /\ pages <= Size(o)
    /\ o # 0 => Size(o - 1) < pages

\* The largest order a chunk at addr can have inside a range of size pages.
RangeOrder(o, addr, size) ==
    LET Fits(q) == addr % Size(q) = 0 /\ Size(q) <= size
    IN  /\ o # 0 => Fits(o)
        /\ o # TopOrder => ~Fits(o + 1)

-----------------------------------------------------------------------------
(* Activation records.                                                     *)

Ops == {"none", "alloc", "rollback", "contig", "free", "remove"}
Pcs == {"none", "pick", "search", "get_entry", "got_entry", "free", "merge"}

Frame ==
    [op : Ops, pc : Pcs,
     pages : Nat,                    \* the parameter of the call
     size : Nat,                     \* pages still to be allocated or removed
     addr : Nat,                     \* start of what remove_range still removes
     order_to_alloc : Orders,
     order : 0 .. FRAME_ORDERS,      \* order being searched, split or merged
     entry : Nat,                    \* address of the entry in hand
     chain : Seq(Block),             \* blocks gathered, or still to be freed
     keep : BOOLEAN]                 \* whether the range is never given back

NewFrame(op, pc, pages) ==
    [op |-> op, pc |-> pc, pages |-> pages, size |-> pages, addr |-> 0,
     order_to_alloc |-> 0, order |-> 0, entry |-> 0, chain |-> <<>>, keep |-> FALSE]

NoFrame == NewFrame("none", "none", 0)

Top == call[depth]
At(op, pc) == kernel = "running" /\ depth > 0 /\ Top.op = op /\ Top.pc = pc
Idle == kernel = "running" /\ depth = 0

\* A split that has taken its block off the list and not put the halves back.
Splitting(f) == f.op \in {"alloc", "contig", "remove"} /\ f.pc \in {"get_entry", "got_entry"}

\* The blocks a call works on, which are in no list and held by nobody.
InHand(f) ==
    ToSet(f.chain) \cup IF Splitting(f) THEN {<<f.entry, f.order>>} ELSE {}

\* The running call goes on with frame f.
Continue(f) == call' = [call EXCEPT ![depth] = f] /\ depth' = depth

\* The outer call returns to the rest of the kernel.
Return == depth = 1 /\ call' = [call EXCEPT ![1] = NoFrame] /\ depth' = 0

Stop(reason) ==
    /\ kernel' = reason
    /\ UNCHANGED <<g_free_lists, buddy_map, held, pinned, boot, call, depth>>

UnchangedLists == UNCHANGED <<g_free_lists, buddy_map>>
UnchangedOwners == UNCHANGED <<held, pinned, boot, kernel>>

-----------------------------------------------------------------------------
(* Initially every block of the largest order is free.                     *)

Init ==
    /\ g_free_lists = [o \in Orders |->
           IF o = TopOrder THEN [i \in 1 .. BlockCount |-> (i - 1) * Size(TopOrder)]
                           ELSE <<>>]
    /\ buddy_map = [o \in 0 .. FRAME_ORDERS - 2 |-> {}]
    /\ held = {}
    /\ pinned = {}
    /\ boot = Unusable
    /\ call = [l \in {1, 2} |-> NoFrame]
    /\ depth = 0
    /\ kernel = "running"

-----------------------------------------------------------------------------
(* Calls from the rest of the kernel.                                      *)

Call(f) ==
    /\ Idle
    /\ call' = [call EXCEPT ![1] = f]
    /\ depth' = 1
    /\ UnchangedLists
    /\ UNCHANGED <<pinned, kernel>>

alloc_frames(pages) ==
    /\ boot = <<>>
    /\ Call(NewFrame("alloc", "pick", pages))
    /\ UNCHANGED <<held, boot>>

alloc_frames_contiguos(pages) ==
    /\ boot = <<>>
    /\ pages # 0
    /\ \E o \in Orders :
           /\ get_min_size_frame_order(o, pages)
           /\ Call([NewFrame("contig", "search", pages) EXCEPT
                        !.order_to_alloc = o, !.order = o + 1])
    /\ UNCHANGED <<held, boot>>

\* KERNEL_ASSERT(order_to_alloc < FRAME_ORDERS).
ContiguousTooLarge(pages) ==
    /\ Idle
    /\ boot = <<>>
    /\ Size(TopOrder) < pages
    /\ Stop("not an order")

\* The caller hands back one block it was given.
free_frames_contiguos(b) ==
    /\ boot = <<>>
    /\ Call([NewFrame("free", "get_entry", Size(b[2])) EXCEPT !.chain = <<b>>])
    /\ held' = held \ {b}
    /\ UNCHANGED boot

\* Boot removes the unusable ranges one after the other.
remove_range ==
    /\ boot # <<>>
    /\ Call([NewFrame("remove", "pick", Head(boot).pages) EXCEPT
                 !.addr = Head(boot).addr, !.keep = ~Head(boot).reclaim])
    /\ boot' = Tail(boot)
    /\ UNCHANGED held

-----------------------------------------------------------------------------
(* alloc_frames, one step per loop iteration.                              *)

\* Get the biggest order which fits into the allocation's size.
PickOrder ==
    /\ At("alloc", "pick")
    /\ Top.size # 0
    /\ \E o \in Orders :
           /\ LargestFit(o, Top.size)
           /\ Continue([Top EXCEPT !.pc = "search", !.order_to_alloc = o, !.order = o + 1])
    /\ UnchangedLists /\ UnchangedOwners

\* No block of the wanted order is free.
NoneFree == g_free_lists[Top.order_to_alloc] = <<>>

\* The order being searched is empty as well: look one order higher.
SearchHigher_Stuck ==
    /\ At("alloc", "search")
    /\ NoneFree
    /\ Top.order < TopOrder
    /\ g_free_lists[Top.order] = <<>>
    /\ UNCHANGED vars
SearchHigher ==
    /\ At("alloc", "search")
    /\ NoneFree
    /\ Top.order < TopOrder
    /\ g_free_lists[Top.order] = <<>>
    /\ Continue([Top EXCEPT !.order = @ + 1])
    /\ UnchangedLists /\ UnchangedOwners

\* The last larger order was empty, or the read of g_free_lists[FRAME_ORDERS],
\* one past the end, happened to give a null head.
NoLarger ==
    /\ NoneFree
    /\ \/ Top.order = FRAME_ORDERS
       \/ Top.order = TopOrder /\ g_free_lists[TopOrder] = <<>>

\* ... or it gave something else, which is then used as a list entry.
ReadPastLists ==
    /\ At("alloc", "search") \/ At("contig", "search")
    /\ NoneFree
    /\ Top.order = FRAME_ORDERS
    /\ Stop("read past g_free_lists")

\* Allocate from smaller blocks because no bigger are available.
UseSmaller ==
    /\ At("alloc", "search")
    /\ NoLarger
    /\ \E o \in Orders :
           /\ o < Top.order_to_alloc
           /\ g_free_lists[o] # <<>>
           /\ \A q \in o + 1 .. Top.order_to_alloc : g_free_lists[q] = <<>>
           /\ Continue([Top EXCEPT !.order_to_alloc = o])
    /\ UnchangedLists /\ UnchangedOwners

\* Out of memory: what was gathered goes back through free_frames.
GiveUp_NoSmaller ==
    /\ At("alloc", "search")
    /\ NoLarger
    /\ Continue([Top EXCEPT !.op = "rollback", !.pc = "free"])
    /\ UnchangedLists /\ UnchangedOwners
GiveUp ==
    /\ At("alloc", "search")
    /\ NoLarger
    /\ \A o \in 0 .. Top.order_to_alloc : g_free_lists[o] = <<>>
    /\ Continue([Top EXCEPT !.op = "rollback", !.pc = "free"])
    /\ UnchangedLists /\ UnchangedOwners

\* Take the first block of list o: off the list and marked as allocated.
TakeHead(o) ==
    /\ g_free_lists[o] # <<>>
    /\ g_free_lists' = [g_free_lists EXCEPT ![o] = Tail(@)]
    /\ buddy_map' = toggle_buddy_bit(buddy_map, Head(g_free_lists[o]), o)

TakeBlock ==
    /\ At("alloc", "search")
    /\ LET o == Top.order_to_alloc
       IN  /\ TakeHead(o)
           /\ Continue([Top EXCEPT !.pc = "pick",
                                   !.chain = Append(@, <<Head(g_free_lists[o]), o>>),
                                   !.size = Remaining(@, o)])
    /\ UnchangedOwners

\* The order whose head is split: alloc_frames splits what it finds at order;
\* alloc_frames_contiguos tries one order higher, once.
SplitOrder ==
    IF Top.op = "contig" /\ g_free_lists[Top.order] = <<>> THEN Top.order + 1
                                                            ELSE Top.order

\* First half of split_entry: the block leaves its list and is marked as
\* allocated; then split_entry needs a list entry.
SplitBegin ==
    /\ At("alloc", "search") \/ At("contig", "search")
    /\ NoneFree
    /\ Top.order < FRAME_ORDERS
    /\ SplitOrder < FRAME_ORDERS
    /\ TakeHead(SplitOrder)
    /\ Continue([Top EXCEPT !.pc = "get_entry", !.order = SplitOrder,
                            !.entry = Head(g_free_lists[SplitOrder])])
    /\ UnchangedOwners

\* Second half of split_entry: both halves go to the front of the list below.
SplitEnd_FullSize ==
    /\ kernel = "running" /\ depth > 0
    /\ Splitting(Top)
    /\ LET o == Top.order - 1
           left == Top.entry
           right == left + Size(Top.order)
       IN  /\ g_free_lists' = [g_free_lists EXCEPT ![o] = <<left, right>> \o @]
           /\ Continue([Top EXCEPT !.pc = "search", !.order = o])
    /\ UNCHANGED buddy_map /\ UnchangedOwners
SplitEnd ==
    /\ kernel = "running" /\ depth > 0
    /\ Splitting(Top)
    /\ LET o == Top.order - 1
           left == Top.entry
           right == left + Size(o)
       IN  /\ g_free_lists' = [g_free_lists EXCEPT ![o] = <<left, right>> \o @]
           /\ Continue([Top EXCEPT !.pc = "search", !.order = o])
    /\ UNCHANGED buddy_map /\ UnchangedOwners

-----------------------------------------------------------------------------
(* get_memory_entry refills the entry pool by allocating and mapping a     *)
(* page (alloc_pages); mapping it may refill the page pool as well.  While *)
(* it does so the pool's count is raised, so the nested call does not      *)
(* refill again.  What is allocated here stays allocated.                  *)

RefillEntryPool ==
    /\ EntryPoolRunsLow
    /\ depth = 1
    /\ boot = <<>>
    /\ \E op \in {"alloc", "contig", "free"} : At(op, "get_entry")
    /\ call' = [call EXCEPT ![1] = [Top EXCEPT !.pc = "got_entry"],
                            ![2] = NewFrame("alloc", "pick", 1)]
    /\ depth' = 2
    /\ UnchangedLists /\ UnchangedOwners

RefillPagePool ==
    /\ depth = 2
    /\ At("alloc", "pick")
    /\ Top.size = 0
    /\ Top.pages = 1
    /\ pinned' = pinned \cup ToSet(Top.chain)
    /\ Continue(NewFrame("alloc", "pick", PAGE_POOL_THRESHOLD))
    /\ UnchangedLists /\ UNCHANGED <<held, boot, kernel>>

RefillDone ==
    /\ depth = 2
    /\ At("alloc", "pick")
    /\ Top.size = 0
    /\ pinned' = pinned \cup ToSet(Top.chain)
    /\ call' = [call EXCEPT ![2] = NoFrame]
    /\ depth' = 1
    /\ UnchangedLists /\ UNCHANGED <<held, boot, kernel>>

\* KERNEL_ASSERT(memory != 0, "Out of memory"), and the same for the page pool.
RefillFails ==
    /\ depth = 2
    /\ At("rollback", "free")
    /\ Top.chain = <<>>
    /\ Stop("out of memory")

-----------------------------------------------------------------------------
(* Returns of the outer call.                                              *)

AllocReturn ==
    /\ At("alloc", "pick")
    /\ Top.size = 0
    /\ Return
    /\ held' = held \cup ToSet(Top.chain)
    /\ UnchangedLists /\ UNCHANGED <<pinned, boot, kernel>>

\* alloc_frames fails, free_frames is through, remove_range is through.
ReturnNothing ==
    /\ \/ At("rollback", "free") /\ Top.chain = <<>>
       \/ At("free", "free") /\ Top.chain = <<>>
       \/ At("remove", "pick") /\ Top.size = 0
    /\ Return
    /\ UnchangedLists /\ UnchangedOwners

-----------------------------------------------------------------------------
(* alloc_frames_contiguos.                                                 *)

ContiguousTake ==
    /\ At("contig", "search")
    /\ LET o == Top.order_to_alloc
       IN  /\ TakeHead(o)
           /\ held' = held \cup {<<Head(g_free_lists[o]), o>>}
    /\ Return
    /\ UNCHANGED <<pinned, boot, kernel>>

\* Out of memory (the test reads one past the end when order = FRAME_ORDERS).
ContiguousFails ==
    /\ At("contig", "search")
    /\ NoLarger
    /\ Return
    /\ UnchangedLists /\ UnchangedOwners

\* The order above the empty one is taken without a look at its head.
ContiguousNullEntry ==
    /\ At("contig", "search")
    /\ NoneFree
    /\ Top.order < TopOrder
    /\ g_free_lists[Top.order] = <<>>
    /\ g_free_lists[Top.order + 1] = <<>>
    /\ Stop("null list entry")

-----------------------------------------------------------------------------
(* free_frames: every block of the chain goes to the front of its list and *)
(* is merged with its buddy as far up as possible.                         *)

FreeGetEntry ==
    /\ At("free", "get_entry") \/ At("free", "got_entry")
    /\ Continue([Top EXCEPT !.pc = "free"])
    /\ UnchangedLists /\ UnchangedOwners

FreeBlock ==
    /\ At("free", "free") \/ At("rollback", "free")
    /\ Top.chain # <<>>
    /\ LET a == Head(Top.chain)[1]
           o == Head(Top.chain)[2]
       IN  /\ buddy_map' = toggle_buddy_bit(buddy_map, a, o)
           /\ g_free_lists' = [g_free_lists EXCEPT ![o] = <<a>> \o @]
           /\ Continue([Top EXCEPT !.pc = "merge", !.chain = Tail(@),
                                   !.entry = a, !.order = o])
    /\ UnchangedOwners

Merging == At("free", "merge") \/ At("rollback", "merge")

MayMerge == Top.order < TopOrder /\ ~get_buddy_bit(Top.entry, Top.order)

\* The entry is the head of its list, its buddy is somewhere behind it.
MergeBuddies ==
    /\ Merging
    /\ MayMerge
    /\ LET o == Top.order
           a == Top.entry
           rest == Tail(g_free_lists[o])
           other_addr == BuddyOf(a, o)
           left == IF other_addr < a THEN other_addr ELSE a
       IN  /\ \E i \in DOMAIN rest :
                  /\ rest[i] = other_addr
                  /\ g_free_lists' = [g_free_lists EXCEPT ![o] = RemoveAt(rest, i),
                                                          ![o + 1] = <<left>> \o @]
           /\ buddy_map' = toggle_buddy_bit(buddy_map, left, o + 1)
           /\ Continue([Top EXCEPT !.entry = left, !.order = o + 1])
    /\ UnchangedOwners

MergeDone ==
    /\ Merging
    /\ ~MayMerge
    /\ Continue([Top EXCEPT !.pc = "free"])
    /\ UnchangedLists /\ UnchangedOwners

-----------------------------------------------------------------------------
(* remove_range: chunk by chunk, from the largest order down.              *)

RemovePick ==
    /\ At("remove", "pick")
    /\ Top.size # 0
    /\ \E o \in Orders :
           /\ RangeOrder(o, Top.addr, Top.size)
           /\ Continue([Top EXCEPT !.pc = "search", !.order_to_alloc = o,
                                   !.order = TopOrder])
    /\ UnchangedLists /\ UnchangedOwners

\* Positions in the list of the order being searched whose block contains addr.
Containing ==
    {i \in DOMAIN g_free_lists[Top.order] :
        Top.addr \in Pages(g_free_lists[Top.order][i], Top.order)}

RemoveSearchLower ==
    /\ At("remove", "search")
    /\ Containing = {}
    /\ Top.order # Top.order_to_alloc
    /\ Continue([Top EXCEPT !.order = @ - 1])
    /\ UnchangedLists /\ UnchangedOwners

\* The block containing addr leaves the list, to be removed or split.
RemoveUnlink ==
    /\ At("remove", "search")
    /\ \E i \in Containing :
           LET o == Top.order
               a == g_free_lists[o][i]
           IN  /\ \A j \in Containing : i <= j
               /\ g_free_lists' = [g_free_lists EXCEPT ![o] = RemoveAt(@, i)]
               /\ buddy_map' = toggle_buddy_bit(buddy_map, a, o)
               /\ \/ /\ o # Top.order_to_alloc
                     /\ Continue([Top EXCEPT !.pc = "get_entry", !.entry = a])
                     /\ UNCHANGED <<held, pinned>>
                  \/ /\ o = Top.order_to_alloc
                     /\ Continue([Top EXCEPT !.pc = "pick", !.size = @ - Size(o),
                                             !.addr = @ + Size(o)])
                     /\ pinned' = IF Top.keep THEN pinned \cup {<<a, o>>} ELSE pinned
                     /\ held' = IF Top.keep THEN held ELSE held \cup {<<a, o>>}
    /\ UNCHANGED <<boot, kernel>>

-----------------------------------------------------------------------------
\* A failed KERNEL_ASSERT and the exception handlers spin forever.
Halted == kernel # "running" /\ UNCHANGED vars

Environment ==
    \/ \E pages \in Requests :
           alloc_frames(pages) \/ alloc_frames_contiguos(pages) \/ ContiguousTooLarge(pages)
    \/ \E b \in held : free_frames_contiguos(b)
    \/ remove_range

\* What the processor does next inside a call: there is one thread.
Step ==
    \/ PickOrder \/ SearchHigher \/ UseSmaller \/ GiveUp \/ TakeBlock
    \/ SplitBegin \/ SplitEnd \/ ReadPastLists
    \/ RefillEntryPool \/ RefillPagePool \/ RefillDone \/ RefillFails
    \/ AllocReturn \/ ReturnNothing
    \/ ContiguousTake \/ ContiguousFails \/ ContiguousNullEntry
    \/ FreeGetEntry \/ FreeBlock \/ MergeBuddies \/ MergeDone
    \/ RemovePick \/ RemoveSearchLower \/ RemoveUnlink

Next == Environment \/ Step \/ Halted

Spec == Init /\ [][Next]_vars

\* The running call keeps executing: nothing else runs on the processor.
FairSpec == Spec /\ WF_vars(Step)

-----------------------------------------------------------------------------
(* Properties.                                                             *)

\* The state of the allocator has its type.
TypeOK ==
    /\ g_free_lists \in [Orders -> Seq(Nat)]
    /\ buddy_map \in [0 .. FRAME_ORDERS - 2 -> SUBSET Nat]
    /\ held \subseteq Block
    /\ pinned \subseteq Block
    /\ boot \in Seq(UnusableRange)
    /\ call \in [{1, 2} -> Frame]
    /\ depth \in 0 .. 2
    /\ kernel \in {"running", "not an order", "read past g_free_lists",
                   "null list entry", "out of memory"}

InUse == held \cup pinned \cup InHand(call[1]) \cup InHand(call[2])

\* No frame has two owners and none is lost: the blocks in the free lists, with
\* the callers, reserved, and in the hands of the running calls (also of one
\* that is suspended in the middle of split_entry under a refill) do not
\* overlap, no list holds an address twice, and every page of memory belongs to
\* one of those blocks, also after alloc_frames ran out of memory half way and
\* returned what it had.
FramesPartitioned ==
    /\ \A b, c \in FreeBlocks \cup InUse : b # c => Pages(b[1], b[2]) \cap Pages(c[1], c[2]) = {}
    /\ FreeBlocks \cap InUse = {}
    /\ held \cap pinned = {}
    /\ (held \cup pinned) \cap (InHand(call[1]) \cup InHand(call[2])) = {}
    /\ InHand(call[1]) \cap InHand(call[2]) = {}
    /\ \A o \in Orders : IsInjective(g_free_lists[o])
    /\ UNION {Pages(b[1], b[2]) : b \in FreeBlocks \cup InUse} = 0 .. MemoryPages - 1

\* The bit of a pair is the exclusive or of "this half is a free block": what
\* free_frames relies on to decide a merge from one bit.
BuddyBitsExact ==
    \A o \in 0 .. FRAME_ORDERS - 2 : \A k \in 0 .. (MemoryPages \div Size(o + 1)) - 1 :
        LET left == k * Size(o + 1)
        IN  k \in buddy_map[o] <=>
                ~(<<left, o>> \in FreeBlocks <=> <<left + Size(o), o>> \in FreeBlocks)

\* KERNEL_ASSERT(buddy_entry != 0, "Buddy entry not present"): whenever the
\* merge loop runs, the entry heads its list and its buddy is behind it.
\* KERNEL_ASSERT(success, "Failed to remove unusable frames from frame
\* allocator"): remove_range finds every chunk of the range, however earlier
\* removals have split the blocks around it.
AssertionsHold ==
    /\ Merging /\ MayMerge =>
           /\ g_free_lists[Top.order] # <<>>
           /\ Head(g_free_lists[Top.order]) = Top.entry
           /\ BuddyOf(Top.entry, Top.order) \in ToSet(Tail(g_free_lists[Top.order]))
    /\ At("remove", "search") /\ Top.order = Top.order_to_alloc => Containing # {}

\* The blocks alloc_frames has gathered make up the request exactly, also when
\* it fell back to smaller blocks or was interrupted by a refill.
AllocationExact ==
    \A l \in {1, 2} : call[l].op = "alloc" =>
        call[l].size + FoldLeft(LAMBDA n, b : n + Size(b[2]), 0, call[l].chain) = call[l].pages

\* alloc_frames reports failure only when not a single page is free.
GivesUpOnlyWhenEmpty ==
    [][\A l \in {1, 2} : call[l].op = "alloc" /\ call'[l].op = "rollback"
           => FreeBlocks = {}]_vars

\* "Merge blocks as far up as possible": when free_frames stops merging, some
\* page of the buddy of the block it ended with is in use.
MergesAsFarAsPossible ==
    [][Merging /\ Top.order < TopOrder /\ call'[depth].pc = "free" =>
           LET other == BuddyOf(Top.entry, Top.order)
           IN  \E b \in InUse : Pages(b[1], b[2]) \cap Pages(other, Top.order) # {}]_vars

\* Every call returns, or the kernel stops.
EveryCallReturns == depth > 0 ~> (depth = 0 \/ kernel # "running")
=============================================================================
