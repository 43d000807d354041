---------------------------- MODULE SlabAllocator ----------------------------
(***************************************************************************)
(* The kernel heap (kernel/src/memory/slab_allocator.c): one cache of      *)
(* slabs per power of two, each with a list of partly used and a list of   *)
(* full slabs, and a list of the requests that are too large for a cache.  *)
(*                                                                         *)
(* Memory comes from alloc_pages in ranges, the members of Mem.  A slab    *)
(* and a PageAllocation are named by the range they manage, so every list  *)
(* is a chain of ranges; next and prev are the pointers of the code.  An   *)
(* object is a pair <<range, index>>.  Large slabs and page allocations    *)
(* keep their descriptor in an object of the heap itself (field desc).     *)
(* alloc_pages never calls the heap, so kalloc and kfree are atomic.       *)
(***************************************************************************)
EXTENDS Integers, FiniteSets

CONSTANTS
    Mem,                  \* the ranges alloc_pages can hand out
    Null,                 \* the null pointer
    CACHE_START_ORDER,
    CACHE_END_ORDER,
    OFF_SLAB_THRESHOLD,   \* from this object size on, Slab is off the slab
    SlabSize,             \* sizeof(Slab)
    PageAllocationSize,   \* sizeof(PageAllocation)
    Count,                \* objects per slab, for every order
    Sizes                 \* the sizes callers ask for

Orders == CACHE_START_ORDER .. CACHE_END_ORDER
OnSlab(o) == 2 ^ o < OFF_SLAB_THRESHOLD

\* One past CACHE_END_ORDER when no cache is large enough.
get_min_cache_order(size) ==
    CHOOSE o \in CACHE_START_ORDER .. CACHE_END_ORDER + 1 :
        /\ o <= CACHE_END_ORDER => ~ 2 ^ o < size
        /\ \A q \in CACHE_START_ORDER .. o - 1 : 2 ^ q < size

SlabOrder == get_min_cache_order(SlabSize)
PageAllocationOrder == get_min_cache_order(PageAllocationSize)

ASSUME OrderAssumption ==
    /\ CACHE_START_ORDER \in Nat
    /\ CACHE_END_ORDER \in Nat
    /\ CACHE_START_ORDER <= CACHE_END_ORDER
ASSUME CountAssumption == Count \in [Orders -> Nat \ {0}]
\* The first two are the _Static_assert of the code; without them kalloc would
\* never return.  A slab of the largest objects never holds its own descriptor.
ASSUME DescriptorAssumption ==
    /\ SlabOrder \in Orders /\ OnSlab(SlabOrder)
    /\ PageAllocationOrder \in Orders /\ OnSlab(PageAllocationOrder)
    /\ ~OnSlab(CACHE_END_ORDER)
ASSUME MemAssumption == Null \notin Mem /\ Sizes \subseteq Nat \ {0}

VARIABLES
    heap,    \* the heads of the lists and what every range is used for
    held,    \* the pointers callers hold
    kernel   \* "running", or why the kernel stopped

vars == <<heap, held, kernel>>

-----------------------------------------------------------------------------
(* The heap: part and full are the list heads of every cache; the head of  *)
(* the page allocations is stored where part of the last cache is, because *)
(* size_caches has one element less than there are orders.                 *)

NoObject == <<Null, 0>>

Unused == [kind |-> "unused", next |-> Null, prev |-> Null, allocated |-> 0,
           next_free |-> 0, free |-> <<>>, desc |-> NoObject]

UnusedMem(h) == {m \in Mem : h.node[m].kind = "unused"}

page_allocation_list(h) == h.part[CACHE_END_ORDER]

\* Whether the first node of the shared list has the given kind.
SharedHeadIs(h, kind) ==
    page_allocation_list(h) # Null /\ h.node[page_allocation_list(h)].kind = kind

\* The nodes of a list: those in every set that holds the head and, with a
\* node, the next one.
Walk(h, head) ==
    {m \in Mem : /\ head # Null
                 /\ \A S \in SUBSET Mem :
                        head \in S /\ (\A n \in S : h.node[n].next \in S \cup {Null}) => m \in S}

\* Add to the list of partly used slabs.
AddPart(h, o, m) ==
    LET old == h.part[o]
        node == [h.node EXCEPT ![m].next = old, ![m].prev = Null]
    IN  [h EXCEPT !.part[o] = m,
                  !.node = IF old = Null THEN node ELSE [node EXCEPT ![old].prev = m]]

\* Add to the list of full slabs: prev is left as it is.
AddFull(h, o, m) ==
    LET old == h.full[o]
        node == [h.node EXCEPT ![m].next = old]
    IN  [h EXCEPT !.full[o] = m,
                  !.node = IF old = Null THEN node ELSE [node EXCEPT ![old].prev = m]]

\* The head of the list of partly used slabs leaves it.
DropPartHead(h, o) ==
    LET next == h.node[h.part[o]].next
    IN  [h EXCEPT !.part[o] = next,
                  !.node = IF next = Null THEN @ ELSE [@ EXCEPT ![next].prev = Null]]

\* The neighbours of a slab are linked to each other.
Unlinked(h, m) ==
    LET next == h.node[m].next
        prev == h.node[m].prev
        node == IF next = Null THEN h.node ELSE [h.node EXCEPT ![next].prev = prev]
    IN  IF prev = Null THEN node ELSE [node EXCEPT ![prev].next = next]

remove_slab_from_list(h, list, o, m) ==
    LET Without(head) == IF head = m THEN h.node[m].next ELSE head
    IN  IF list = "part" THEN [h EXCEPT !.node = Unlinked(h, m), !.part[o] = Without(@)]
        ELSE [h EXCEPT !.node = Unlinked(h, m), !.full[o] = Without(@)]

-----------------------------------------------------------------------------
(* kalloc.                                                                 *)

NewSlab(h, o, m, desc) ==
    AddPart([h EXCEPT !.node[m] = [Unused EXCEPT
                 !.kind = "slab", !.desc = desc,
                 !.free = [i \in 0 .. Count[o] - 1 |-> i + 1]]], o, m)

\* Take the next free object of the first partly used slab.  A kalloc that
\* succeeds is the heap it leaves and the object it returns.
Take(h, o) ==
    LET m == h.part[o]
        s == h.node[m]
        g == [h EXCEPT !.node[m].next_free = s.free[s.next_free],
                       !.node[m].allocated = s.allocated + 1]
    IN  [heap |-> IF s.allocated + 1 = Count[o] THEN AddFull(DropPartHead(g, o), o, m) ELSE g,
         obj  |-> <<m, s.next_free>>]

Reserve(h, m) == [h EXCEPT !.node[m].kind = "reserved"]

\* kalloc from a cache whose slabs hold their own descriptor.
KallocOnSlab(h, o) ==
    IF h.part[o] # Null THEN {Take(h, o)}
    ELSE {Take(NewSlab(h, o, m, NoObject), o) : m \in UnusedMem(h)}

\* kalloc from any cache: a new off-slab descriptor is allocated first.
Kalloc(h, o) ==
    IF OnSlab(o) \/ h.part[o] # Null THEN KallocOnSlab(h, o)
    ELSE UNION {{Take(NewSlab(r.heap, o, m, r.obj), o) :
                     r \in KallocOnSlab(Reserve(h, m), SlabOrder)} : m \in UnusedMem(h)}

Running == kernel = "running"
Stop(reason) == kernel' = reason /\ UNCHANGED <<heap, held>>

kalloc(size) ==
    LET o == get_min_cache_order(size)
    IN  /\ Running
        /\ o <= CACHE_END_ORDER
        /\ o = CACHE_END_ORDER => ~SharedHeadIs(heap, "pages")
        /\ \E r \in Kalloc(heap, o) :
               /\ heap' = r.heap
               /\ held' = held \cup {r.obj}
        /\ UNCHANGED kernel

\* alloc_pages fails for the slab, or for its descriptor: then the pages of
\* the slab are given back.
KallocFails(size) ==
    /\ Running
    /\ get_min_cache_order(size) <= CACHE_END_ORDER
    /\ heap.part[get_min_cache_order(size)] = Null
    /\ UNCHANGED vars

\* A request that no cache can hold gets pages of its own.
KallocPages(size) ==
    /\ Running
    /\ get_min_cache_order(size) > CACHE_END_ORDER
    /\ ~SharedHeadIs(heap, "slab")
    /\ \E m \in UnusedMem(heap) : \E r \in KallocOnSlab(Reserve(heap, m), PageAllocationOrder) :
           /\ heap' = [r.heap EXCEPT
                  !.node[m] = [Unused EXCEPT !.kind = "pages", !.desc = r.obj,
                                             !.next = page_allocation_list(heap)],
                  !.part[CACHE_END_ORDER] = m]
           /\ held' = held \cup {<<m, 0>>}
    /\ UNCHANGED kernel

\* The PageAllocation is filled in although kalloc returned 0 for it.
KallocPagesNull(size) ==
    /\ Running
    /\ get_min_cache_order(size) > CACHE_END_ORDER
    /\ heap.part[PageAllocationOrder] = Null
    /\ Stop("null page allocation")

-----------------------------------------------------------------------------
(* kfree.                                                                  *)

\* An object goes back to its slab; an empty slab goes back to alloc_pages.
FreeObject_ForgetNext(h, o, m, i) ==
    LET s == h.node[m]
        h1 == [h EXCEPT !.node[m].next_free = i]
        h2 == IF s.allocated = Count[o]
              THEN AddPart(remove_slab_from_list(h1, "full", o, m), o, m) ELSE h1
        h3 == [h2 EXCEPT !.node[m].allocated = @ - 1]
    IN  IF s.allocated = 1
        THEN [remove_slab_from_list(h3, "part", o, m) EXCEPT !.node[m] = Unused]
        ELSE h3
FreeObject(h, o, m, i) ==
    LET s == h.node[m]
        h1 == [h EXCEPT !.node[m].free[i] = s.next_free, !.node[m].next_free = i]
        h2 == IF s.allocated = Count[o]
              THEN AddPart(remove_slab_from_list(h1, "full", o, m), o, m) ELSE h1
        h3 == [h2 EXCEPT !.node[m].allocated = @ - 1]
    IN  IF s.allocated = 1
        THEN [remove_slab_from_list(h3, "part", o, m) EXCEPT !.node[m] = Unused]
        ELSE h3

\* The caches in whose lists kfree finds the range of a pointer.
CachesOf(h, m) ==
    {o \in Orders : /\ m \in Walk(h, h.part[o]) \cup Walk(h, h.full[o])
                    /\ h.node[m].kind = "slab"}

InPageList(h, m) == m \in Walk(h, page_allocation_list(h)) /\ h.node[m].kind = "pages"

\* The object goes back, and with an empty slab its off-slab descriptor.
Kfree_KeepDescriptor(h, o, p) == FreeObject(h, o, p[1], p[2])
Kfree(h, o, p) ==
    LET g == FreeObject(h, o, p[1], p[2])
        d == h.node[p[1]].desc
    IN  IF h.node[p[1]].allocated = 1 /\ d # NoObject
        THEN FreeObject(g, SlabOrder, d[1], d[2]) ELSE g

kfree(p) ==
    /\ Running
    /\ \E o \in CachesOf(heap, p[1]) :
           /\ ~ (o = CACHE_END_ORDER /\ heap.node[p[1]].allocated = Count[o]
                     /\ SharedHeadIs(heap, "pages"))
           /\ heap' = Kfree(heap, o, p)
    /\ held' = held \ {p}
    /\ UNCHANGED kernel

UnlinkPages_DropRest(h, m) ==
    [h EXCEPT !.part[CACHE_END_ORDER] = IF @ = m THEN Null ELSE @, !.node[m] = Unused]
UnlinkPages(h, m) ==
    [h EXCEPT !.part[CACHE_END_ORDER] = IF @ = m THEN h.node[m].next ELSE @,
              !.node = [n \in Mem |->
                  IF n = m THEN Unused
                  ELSE IF h.node[n].kind = "pages" /\ h.node[n].next = m
                       THEN [h.node[n] EXCEPT !.next = h.node[m].next]
                       ELSE h.node[n]]]

KfreePages(p) ==
    LET d == heap.node[p[1]].desc
    IN  /\ Running
        /\ CachesOf(heap, p[1]) = {}
        /\ InPageList(heap, p[1])
        /\ heap' = FreeObject(UnlinkPages(heap, p[1]), PageAllocationOrder, d[1], d[2])
        /\ held' = held \ {p}
        /\ UNCHANGED kernel

\* The list of page allocations and the partly used slabs of the last cache
\* are the same list: one is about to be used as the other.  What follows
\* depends on the bytes that happen to be there.
SharedListUsed ==
    /\ Running
    /\ \/ \E size \in Sizes :
              \/ get_min_cache_order(size) = CACHE_END_ORDER /\ SharedHeadIs(heap, "pages")
              \/ get_min_cache_order(size) > CACHE_END_ORDER /\ SharedHeadIs(heap, "slab")
       \/ \E p \in held : /\ CACHE_END_ORDER \in CachesOf(heap, p[1])
                          /\ heap.node[p[1]].allocated = Count[CACHE_END_ORDER]
                          /\ SharedHeadIs(heap, "pages")
    /\ Stop("shared list")

-----------------------------------------------------------------------------
Init ==
    /\ heap = [part |-> [o \in Orders |-> Null], full |-> [o \in Orders |-> Null],
               node |-> [m \in Mem |-> Unused]]
    /\ held = {}
    /\ kernel = "running"

Halted == ~Running /\ UNCHANGED vars

Next ==
    \/ \E size \in Sizes : \/ kalloc(size) \/ KallocFails(size)
                           \/ KallocPages(size) \/ KallocPagesNull(size)
    \/ \E p \in held : kfree(p) \/ KfreePages(p)
    \/ SharedListUsed
    \/ Halted

Spec == Init /\ [][Next]_vars

-----------------------------------------------------------------------------
(* Properties.                                                             *)

Link == Mem \cup {Null}
Kinds == {"unused", "slab", "pages"}

\* The heap has its type.
TypeOK ==
    /\ heap.part \in [Orders -> Link]
    /\ heap.full \in [Orders -> Link]
    /\ DOMAIN heap.node = Mem
    /\ \A m \in Mem :
           LET s == heap.node[m]
           IN  /\ s.kind \in Kinds
               /\ s.next \in Link
               /\ s.prev \in Link
               /\ s.allocated \in Nat
               /\ s.next_free \in Nat
    /\ held \subseteq Mem \X Nat
    /\ kernel \in {"running", "null page allocation", "shared list"}

Slabs == {m \in Mem : heap.node[m].kind = "slab"}
PageAllocations == {m \in Mem : heap.node[m].kind = "pages"}

\* Every object somebody uses: callers, off-slab descriptors, page allocations.
InUse ==
    {p \in held : p[1] \in Slabs}
        \cup ({heap.node[m].desc : m \in Mem} \ {NoObject})

\* The indices c[1], c[2], ... are a chain through the free array of a slab.
FreeChain(s, c) ==
    /\ 1 \in DOMAIN c => c[1] = s.next_free
    /\ \A k \in DOMAIN c : k + 1 \in DOMAIN c => s.free[c[k]] = c[k + 1]

\* kalloc returns an object nobody uses, and every unused object can still be
\* returned: the chain through the free array of a slab runs, without
\* repetition, through exactly the objects not in use, in whatever order
\* objects were allocated and freed.  The lists are what remove_slab_from_list
\* relies on: every slab is in one list, a full one in the full list and any
\* other in the partial list, and next and prev agree, with no prev at the head.
SlabsExact ==
    /\ TypeOK
    /\ \A m \in Slabs :
           /\ Cardinality(CachesOf(heap, m)) = 1
           /\ \A o \in CachesOf(heap, m) :
                  LET s == heap.node[m]
                      used == {p[2] : p \in {q \in InUse : q[1] = m}}
                  IN  /\ Cardinality(used) = s.allocated
                      /\ \E c \in [1 .. Count[o] - s.allocated -> 0 .. Count[o] - 1] :
                             /\ FreeChain(s, c)
                             /\ {c[k] : k \in DOMAIN c} = (0 .. Count[o] - 1) \ used
    /\ \A o \in Orders :
           /\ \A m \in Walk(heap, heap.full[o]) \cap Slabs : heap.node[m].allocated = Count[o]
           /\ \A m \in Walk(heap, heap.part[o]) \cap Slabs : heap.node[m].allocated < Count[o]
           /\ \A head \in {heap.part[o], heap.full[o]} :
                  /\ head \in Slabs => heap.node[head].prev = Null
                  /\ \A m \in Walk(heap, head) \cap Slabs :
                         LET next == heap.node[m].next
                         IN  next # Null => next \in Slabs /\ heap.node[next].prev = m

\* KERNEL_ASSERT(false, "Failed to free memory"): kfree finds every pointer
\* that kalloc has returned and that has not been freed.
EveryPointerFreeable ==
    \A p \in held : CachesOf(heap, p[1]) # {} \/ InPageList(heap, p[1])

\* No memory is lost: every range in use holds an object of a caller, or a
\* descriptor of such a range; once callers have freed everything, all pages
\* are back.
NoPagesLost ==
    /\ \A m \in Mem : heap.node[m].kind # "unused" => \E p \in InUse \cup held : p[1] = m
    /\ held = {} => UnusedMem(heap) = Mem

\* "List of non slab allocations": no slab is ever taken for a page
\* allocation or the other way round.
NonSlabListSeparate == kernel # "shared list"
=============================================================================
