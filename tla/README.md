# Verification of plusplus-os

TLA+ models of the boot loader, the kernel and what it runs, checked with TLC on small
instances, and theorems about them checked with TLAPS. The repository has no tests. The
core is memory management: everything else in the kernel stands on it, it is the code
with the most state, and its functions call each other in ways nobody plans for. Around
it stand the components that share state with something that acts in its own time: a
disk controller, the timer, the keyboard, the firmware.

`PROJECT.json` lists components, runs, findings, hazards, theorems and, for every
definition, the source lines it models.

## 1. Inventory

| Part | State | Operations | What makes it correct |
|---|---|---|---|
| Boot loader `bootloader/src` | the firmware's memory map, the kernel's pages | the calls of `efi_main`, `load_kernel`, `find_rsdp` | the kernel lies in memory as its file says, the map handed over is true, the last two calls do not fail by the loader's own doing |
| Boot memory `memory.c`, `paging.c`, `frame_allocator.c` | the memory map, which is edited on the way | `initialize_memory`, `initialize_paging`, `initialize_frame_allocator`, `free_uefi_memory_and_remove_identity_mapping` | no frame is used for two things, the free lists are exactly the usable rest |
| Frame allocator `memory/frame_allocator.c` | a free list and a buddy bitmap per order | `alloc_frames`, `free_frames`, `alloc_frames_contiguos`, `free_frames_contiguos`, `remove_range` | no frame has two owners, none is lost, bits agree with lists, calls return |
| Entry pool `memory/entry_pool.c` | a list of 16-byte entries and its count | `get_memory_entry`, `free_memory_entry`, `fill_memory_entry_pool` | a refill never starts another refill and never meets an empty pool |
| Page tables `memory/paging.c` | `g_page_pool`, `entry_maps`, the directories | `get_or_alloc_page_entries` | every table is found, no page is used twice, what is mapped stays mapped |
| Address spaces `memory/paging.c` | free list of ranges, `current_address`, entries, the TLB | map, claim, unmap, translate, set flags, switch | ranges are disjoint, pages reach their own frames with their own rights, frames come back |
| Page allocation `memory.c` | none of its own | `alloc_pages`, `free_pages`, the contiguous pair | what is allocated is freed by its counterpart |
| Slab allocator `memory/slab_allocator.c` | partial and full list per cache, free arrays, list of large allocations | `kalloc`, `kfree` | lists intact, free chain exact, every pointer can be freed |
| AHCI driver `ahci.c` | devices, port registers, command headers and tables | `initialize_ahci`, `read_write_sectors` | bases change with the engines off, sectors end in the right place |
| Process system `process_system.c`, system calls `syscalls.c`, ELF loader `elf_loader.c` | queue of processes, saved stacks, address spaces | context switch, `start_user_process`, the dispatcher | processes take turns, each in its own space with its own registers |
| Keyboard `ps2.c` | key states, last character | interrupt handler, `ps2_getch` | a key press is delivered, once |
| APIC, ACPI, PCI `apic.c`, `acpi.c`, `pci.c` | remap list, device list, override table, redirection entries | initialisation, look-up | tables are found, devices are listed once, interrupts reach their handler |
| GDT, IDT, exceptions, rendering | descriptors, gates, the screen | initialisation, what a handler draws | the processor finds what the kernel refers to; a fault can be read |
| Port I/O, C library, terminal | | single instructions, short sequential functions | |

How they interact. There is one processor, and the memory functions run on one thread;
interrupts do not allocate. In memory management what is hard is re-entrance:
`alloc_frames` takes a list entry in the middle of a split; the entry pool may be low and
calls `alloc_pages`; that calls `alloc_frames` again, on lists that are half updated, and
maps the page, for which a page table may be needed; the table comes from the page pool,
whose refill allocates and maps pages too. Two counters that are raised before a refill
are all that keeps this from recurring. Elsewhere it is order: `kernel_entry` sets up
descriptors, tables and controllers with interrupts enabled part of the time; the timer
comes between any two steps of a program; the keyboard interrupt comes between the
accesses of `ps2_getch`; the disk controller follows its register bits when it likes; the
firmware changes its memory map until boot services end. Further difficulties are
unsigned arithmetic at boundaries, cached translations, and running out of memory half way.

Nothing is persistent and nothing is sent over a network, so there are no crash and no
delivery hazards. A failed `KERNEL_ASSERT` and every exception stop the kernel for good;
the models have a state for that.

## 2. Modules

`MC*.tla` define the constants of the instances, `*Proofs.tla` hold theorems, `Lemmas.tla` the
facts about numbers, sequences and induction they share. `Bytes.tla` splits numbers into bytes
and puts them together again, for registers and descriptors. All modules keep the names of the
source.

### Memory

**FrameAllocator** (with **FrameAllocatorProofs**). `g_free_lists` are sequences of
addresses per order, `buddy_map` the set of pairs whose bit is set. A call is an
activation record (operation, program counter, size left, orders, the block in hand and
the chain gathered so far), and `call` is a stack of at most two of them: a call that
waits for a list entry in `split_entry` or `free_frames_contiguos` can be suspended under
the `alloc_frames` of a refill (`RefillEntryPool`, then `RefillPagePool`, `RefillDone`).
That the stack is no deeper is the business of the entry pool's and the page pool's
counters, which PageTables checks. One action is one loop iteration. `held` are blocks
with callers, `pinned` blocks nobody frees. The two defects of the search loops
(`ReadPastLists`, `ContiguousNullEntry`) stop the model, since what the processor reads
there is unknown; all other properties are about the behaviour up to such a stop.

**PageTables** (with **PageTablesProofs**). `get_or_alloc_page_entries`: the directory `pd`, the entries `pt`, the
page pool with its `count`, the number of list entries, and a stack of activation records
of kind `call`, `user_table`, `page_pool` or `entry_pool`. Of the free lists only the lengths are kept:
they decide how many blocks `alloc_frames` splits and so how many list entries it takes.
A table of the kernel's space comes from the pool, a table of a user's space
(`AllocUserTable`) is a frame of its own that is mapped for it. The two levels of tables
are one, as the code treats them alike. `InstallTable` writes the directory entry without
looking at it again, as the code does.

**AddressSpace** (with **AddressSpaceProofs**). One address space with the processor's `tlb`. The operations are whole
handlers: `alloc_addr_space` inlined into `map_allocation`, `map_phys_range`,
`claim_virt_range` with the `..._to_range` functions, `unmap_range`,
`unmap_and_free_frames`, `range_set_flags`, and on top of them `alloc_pages`,
`free_pages` and their contiguous variants, with the paging flags and the execute-disable
bit (`nx`). Device registers are mapped too and are never freed as frames. Which blocks
the frame allocator returns is a constant set of chains; that every chain it can return
consists of aligned blocks is what FrameAllocator shows. `cuts` counts how often a free
range was split: since the split is wrong in the code (run `space_overlap`), the partition
properties are stated up to the first one. `head_canonical` says whether the list head is
an address the processor accepts.

**SlabAllocator** (with **SlabAllocatorProofs**). `heap` holds the list heads and a record for every range of pages;
`next` and `prev` are the code's pointers, `free` is the free array. `kalloc` and `kfree`
are atomic because the page allocator never calls the heap; their recursive calls for
descriptors are operators on `heap`. `page_allocation_list` is the same variable as the
partial list of the last cache, as it is in memory; the other fields of that cache lie
behind the struct and are modelled as memory that nobody else writes.

**BootMemory** (with **BootProofs**). The steps from `initialize_memory` to
`free_uefi_memory_and_remove_identity_mapping`. The memory map is edited in place as in
the code; `Wrap` is the unsigned wrap-around of the two counting loops; `allocated` is
`allocated_phys_addr`, which walks through the pages for the tables; `mapped` is the sequence
of frames at consecutive virtual pages, to which the ranges of `ToMap` are added one by one.
The frame allocator is here a set of free frames: how it is cut into blocks is
FrameAllocator's subject.

### Devices and boot

**BootLoader** (with **BootProofs**). `efi_main` with `load_kernel` and `find_rsdp` as a program counter over
the services it calls; the firmware is external. It keeps a type for every page and a map
key. Every service may fail (`ServiceFails`), and until boot services end an event of the
firmware may allocate or free a page and so change the key (`FirmwareEvent`, at most
`MaxEvents` times). Bytes of the kernel are named by the position in the file they were
read from.

**Machine** (with **DeviceProofs**), which composes **Keyboard**, **Screen** and **Descriptors**. `kernel_entry`
as a sequence of phases on a machine that is chosen from `Machines`: its ACPI memory and
tables, PCI functions, BAR, I/O APICs, wiring of the keyboard, framebuffer. Between the
phases, an interrupt of the 8259 comes while it is not masked (`PicInterrupt`), and an
exception goes through whatever table is loaded (`Raise`): the firmware's, an empty one, or
the kernel's, whose handler draws the frame on a `Screen` of character cells. The PCI loops
and the loop over the MADT are one iteration per action, since they map and unmap pages
(`kmap`, `freed`). The segments, gates, `STAR` and the frame of a new process are bytes and
selectors of **Descriptors**; properties read them back as the processor does.
`register_ps2_interrupt` is three steps, because the two halves of a redirection entry are
written one after the other and the handler is registered last. An edge of the keyboard's
line goes to the local APIC only if the pin is not masked and the destination is this
processor (`PassedOn`); otherwise it is gone, and the byte stays in the controller.

**Keyboard**. `kb_handler` is one action (interrupts are off); `ps2_getch` is three, as
the handler may come between its accesses: clear, test, return. `irq` is a request the local
APIC has; `typed` and `overwritten` are history: the characters pressed since `ps2_getch`
was called, and whether a key without one came after them.

**Ahci** (with **DeviceProofs**). The driver as a program with a counter `pc`, and an
external controller: `EngineFollows` (CR follows ST, FR follows FRE, at any time),
`TransferSector`, `CompleteCommand`, `FailCommand`. The block address and the count are
split over the bytes of the command FIS, and the controller puts them together again.
`done` records where sectors were put. Buffers are contiguous inside a piece of 0x2000
bytes, which the driver assumes and `BufferAssumption` states. Finding the controller and
mapping its registers is in Machine.

### Processes

**RoundRobin** is the abstract specification: a queue whose head runs; a tick moves the
head to the end; a started process joins at the end.

**UserSpace** is the address space of a process as the loader and the system calls use it:
`claim_virt_range`, and `alloc_addr_space` with its free list as the code has it, the growing
count of a split range and the head pointer without sign extension included. `reused` is
history: a range that had been split was used again.

**ElfLoader** is `load_elf_from_buff` as operators on address spaces whose pages hold
bytes; a byte is the position it was copied from, so that a page that was not cleared can
be told from one that was.

**ProcessSystem** (with **ProcessSystemProofs**) is `process_system.c`, `syscalls.c` and the switching of address spaces:
`g_process_queue` as pointers, whose registers lie on the stack in every space, the mapped
space `pml4` and the `tlb` that survives until it is emptied. `Tick` is the whole interrupt:
save, rotate, switch, load, EOI. `Builds` covers the block between `#if 0` and `#endif` that
starts the first process: with it compiled out the kernel idles, with it the timer runs.
`start_user_process` has no caller in the repository. A system call cannot be one, as its stack
lies in the space that is switched away, so it is called from an interrupt handler. It returns
with the new space mapped and nothing maps the old one again: the interrupted program goes on in
the new space, may meet anything there (`Derailed`), and the next tick saves its registers there
(`SaveRegisters`). What the code then finds in the head's own space is any set of registers that
may be at that address; none stops the model ("registers lost").
`Queue` is the refinement mapping: the walk from the head along the `next` fields, and
`TakesTurns` is RoundRobin's specification of it.

## 3. Runs

| Run | States | Shows |
|---|---|---|
| `frames_refill` | 498,240 | `FramesPartitioned`: no frame owned twice or lost; `BuddyBitsExact`; `AssertionsHold`: the buddy in the merge loop is on its list and every unusable range is found; `AllocationExact`; `GivesUpOnlyWhenEmpty`; `EveryCallReturns`, with refills at every place where the code can refill and with memory running out |
| `tables` | about 650,000 | `RefillsDoNotNest`, also no pool runs empty; `PoolsExact`: both counts, every table found, no page used twice, among them the tables of user spaces |
| `space` | 817,262 | `SpacePartitioned`, `TranslationExact` (frames in order, with the rights asked for), `LiveFramesKept` (no call gives back a frame of a mapping that exists) up to the first split of a free range, and `NoStaleTranslation` always; with chains of one block, of adjacent blocks and of blocks that are apart |
| `slab` | | `NoPagesLost`, `EveryPointerFreeable` (an assertion), `SlabsExact`: lists doubly linked and sorted, free chains exact |
| `boot` | | `NoFrameMappedTwice`, `FreeFramesExact`, `BootEnds` for 113 memory maps |
| `ahci` | 86,188 | `BasesChangeWhenStopped`, `EveryDriveReady`, `TransferExact` (also where the byte count of the last entry wraps, and behind the low bytes of the address), `RequestEnds` |
| `processes` | 113,902 | `TakesTurns` (refinement); `OwnPagesCached`: a program in its own space sees no page of another through the TLB; `LoadedAsDescribed`, until a split range is used again; `EveryProcessRuns` |
| `machine` | 3,766 | `SegmentsExact`, `DeviceMemoryMapped`, `FaultReadable`, `AcpiMemoryReadable`, `DevicesExact`, `KeyboardRouted`, `KeyStateExact`, `FreshCharacter`, `GetchReturns` on 19 machines, 15 of which the kernel does not get past |
| `loader` | 94,024 | `MapHandedOver`, `KernelLoaded`, `LoaderAloneBoots` |

Runs that end with a counterexample, each against a comment or header of the repository
that `findings` quotes:

| Run | What the code does |
|---|---|
| `space_overlap` | splitting a free range adds instead of subtracting, and two mappings share pages (paging.c L290) |
| `tables_maps` | a directory entry is tested before a refill and written after it (paging.c L208) |
| `loader_pages` | a segment that begins where the one before it ends is not counted, and is written behind the kernel's pages (bootloader elf-loader.c L112) |

**Deviations that no run is about.** The models have them as the code has them; where the
outcome is not defined, the model stops, or a property names the condition under which it
holds.

* Frame allocator: a refill makes a split superfluous, its halves stay apart and a later
  free stops merging (frame_allocator.c L219; `MergesAsFarAsPossible` is the definition
  that would fail). `alloc_frames_contiguos` takes the head of the next list without
  looking whether it has one (L284); both searches read the list behind the last order
  (L133, L278). An unusable range in the rest behind the last whole block cannot be
  removed, and the assertion stops the boot. "Not enough memory for frame allocator"
  (L435) tests the out parameter, so boot goes on with address 0; BootMemory's
  properties ask for `FrameAllocatorPlaced`.
* Paging: `free_pages` loses the first frame of a run that follows another one (L496) and
  stops the kernel on a run that is not a power of two (L493). The header says "Unmaps virtual
  address range and frees previously mapped frames" (paging.h L93); `FramesComeBack` in
  AddressSpace states it, and with a chain of two blocks that are not adjacent it is false after
  `alloc_pages` and `free_pages`: frame 0 of the chain `<<B(4, 2), B(0, 1)>>` stays allocated
  for good. The head of the free ranges is not sign-extended when its
  first entry is used up (L295). `range_set_flags` does not invalidate the TLB (L545). The
  count of tables wraps (L666; `EveryPageHasTable`).
* Slab: one cache too few in the array, so that the list of large allocations is the last
  cache's list (slab_allocator.c L17; `NonSlabListSeparate`); the entry for a large
  allocation is not checked (L109).
* AHCI: with 12 or 13 slots the last command tables lie behind their allocation (ahci.c
  L205; `NoPhysicalAddress`).
* Keyboard: the header says of `ps2_getch` "Waits for, and returns pressed character"
  (ps2.h L9). It returns 0 when a key without a letter comes between its test and its read
  (ps2.c L44-47): a letter ends the loop, a shift key clears the character, and 0 is read.
  `FreshCharacter` admits 0 in this interleaving (`overwritten`) and in no other. An interrupt
  without a byte is never acknowledged (L51). `register_ps2_interrupt` unmasks the pin without
  reading what the controller holds (L66-93): a key pressed before leaves a byte whose edge was
  ignored, the controller raises no other edge, and `ps2_getch` waits forever. `GetchReturns` has
  the condition that such a byte is not there; without it TLC finds this behaviour.
* APIC: an interrupt's destination is the low byte of the register whose high byte holds
  the id, that is 0; an id of an I/O APIC is read with three of its four bits; the number
  of I/O APICs and processors is not checked; the keyboard's pin is unmasked before its
  handler is registered.
* PCI: whether a device has several functions is read from the function itself instead of
  function 0, and the last bus of a range is not visited. `DevicesExact` counts the functions
  of all buses of a range and names these two kinds as the only ones that are missed
  (`OnEndBus`, `Hidden`); a machine of the instance has both.
* Interrupts are enabled with an empty table, before the 8259 is masked; one that comes
  then is a triple fault. A gate's privilege is shifted by 6 instead of 5; only 0 is passed.
  Handlers of vectors with an error code are declared without one.
* The framebuffer is mapped by width instead of `pixels_per_scanline`. `DeviceMemoryMapped` is
  about the pixels in the first width times height pixels of the memory; with padding those of
  the last lines lie behind what is mapped.
* Processes: a comment says "All registers except rsp are stored on the user stack when process
  is not running" (process_system.c L28). `start_user_process` leaves the new space mapped (L149),
  so the next tick saves the registers of the interrupted process on a stack in the space of the
  new one, and they are not found again in its own. `SavedOnOwnStack` states the comment; the
  trace has four states: start, `initialize_process_system`, `start_user_process`, `Tick`.
  In the address space of a process a split range grows (paging.c L290), and what a system call
  maps when it is used again may replace pages of the image; `LoadedAsDescribed` is about
  processes for which that has not happened. A timer tick in a system call finds no stack it can use and is a triple fault;
  error returns of the ELF loader keep their frames.
* Boot loader: when the graphics mode has not been started, its description is used
  uninitialised; a stale key ends the boot instead of a second try; code of the loader next
  to the kernel is one range with it.

**Bounds.** Frames: 3 orders and 2 largest blocks; requests of 1, 3 and 5 of the 8 pages.
Two blocks are enough for a block with and without a buddy in every state, three orders for
the lowest, a middle and the largest one, which the code treats differently; requests
include one that needs several blocks and one that exceeds what is free. Tables: tables of
9 pages and a threshold of 4, so that a refill itself crosses into a new table; 8 to 11
list entries with a threshold of 8, where a refill may take 3 splits and 4 pages. The code's
proportions are the same: 7 splits and 10 pages, with 19 entries left at least.
`TableCount` and `UserTables` bound the spaces, and running out is the code's own
assertion. Space: 7 pages, two or three mappings, a target that leaves a gap, two sets of
flags, `MaxCuts` splits. Slab: three ranges, three caches (one with on-slab and two with
off-slab descriptors), two or three objects per slab, so that slabs are partial, full and
empty; ranges are symmetric. Boot: tables of 8 entries, images from less than one table to
more than one directory, maps with holes, reserved and reclaimed ranges, too little memory,
a tail. Ahci: two ports with a gap, every set of drives, engines left running by the
firmware or not, requests of one sector, exactly one entry, one more, a full table and one
more, a sector whose number needs all bytes. Processes: three processes, so that one can
join while one runs and one waits; images with a gap that the stack fills, with a gap that it
splits, and images that are not aligned, not ascending, empty, too large or leave no room for the
stack; one split of a free range (`MaxCuts`); one frame, which is too few, or nine. Machine: one letter and one shift key,
two devices of two functions on up to two buses, faults with small, full-width and zero
numbers. Loader: six or nine pages of two bytes, one event of the firmware.

**Fairness.** `FrameAllocator!FairSpec` and `BootMemory!BootSpec`: weak fairness of the running
call's next step, because there is one thread and nothing preempts it. Calls from outside
are not fair. `Ahci!Spec`: the driver keeps running; an engine eventually follows its bit
and a command that was issued to a running engine eventually goes on, completes or fails,
which is what the driver's loops without a limit rely on. `ProcessSystem!Spec`: the timer
is periodic, so a tick that is enabled eventually comes; programs and callers need not do
anything. `Machine!Spec`: boot goes on and a pending keyboard interrupt is taken; strong
fairness of `Getch` and of every key's `Press` says that somebody types and that the loop of
`ps2_getch`, millions of iterations between two keys, looks at the character in between.
`AddressSpace`, `SlabAllocator`, `PageTables` and `BootLoader` are checked for safety only.

Deadlock is checked in every run; a stopped kernel, an ended boot loader and the endless
loops of `syscall_halt` and `ps2_getch` are stuttering steps.

## 4. Proofs

Every theorem is about every value of the constants that the named assumptions of its module
allow.

**Induction.** The provers cannot use the library's induction principles, which take a
predicate. `Lemmas!NatSetInduction` is induction over a set: the least number outside of it
would have a predecessor inside (`WFMin`). With it the folds of the models are unrolled: the
equation of a fold has a solution for every number of elements, so the `CHOOSE` in the fold's
definition is one, and it is computed element by element (`FoldExists`, `SumExists`,
`FoldedExists`).

### Frame allocator

| Theorem | States |
|---|---|
| `FrameAllocatorTypeOK` | Spec => []TypeOK |
| `FailsOnlyWhenEmpty` | Spec => GivesUpOnlyWhenEmpty |
| `AllocationsAlwaysExact` | Spec => []AllocationExact |
| `FramesNeverShared` | Spec => []FramesPartitioned |
| `BuddyBitsAlwaysExact` | Spec => []BuddyBitsExact |
| `AssertionsAlwaysHold` | RangesApart => (Spec => []AssertionsHold) |

Assumptions: the sizes double from one page on, memory is a number of largest blocks, the
memory map is a sequence of ranges. That sizes grow with the order follows by induction.

`TypeOK` is not inductive: the size still to be allocated is reduced by the size of a block,
and nothing in the types says that the block fits. `ControlOK` adds what holds at each program
counter (`LocalsOK`): the wanted order fits into the size left, a split is above the wanted
order, the loop of `alloc_frames` has reached the wanted order only if its list has an entry;
and what may be suspended (`StackOK`): only a call that waits for an entry, and only under an
allocation. `ContinueOK`, `CallOK` and `ReturnOK` treat the stack once for all actions. A
suspended call keeps its `LocalsOK` because none of its parts mentions the lists at that
point: this is where re-entrance would break the proof.

`SearchInv` is for giving up: the orders between the wanted one and the one looked at were
found empty, or the order looked at has a block. The second half is needed because a refill in
the middle of a split may leave blocks between; the halves of the split are still there.

`PartitionInv` is for partition and bits: lists, callers, pinned blocks, the running and the
suspended call have different blocks (`Separate`); the blocks are aligned, inside the memory,
do not overlap and cover it (`Tiling`); the bits are exact for what is in the lists (`Bits`);
no list has a block twice; a block that is merged heads its list (`MergeOK`). That the blocks
cover the memory is needed for the merge: the buddy of a block whose bit is set is in the list
because it cannot be anything else.

`AssertionsHold` has the hypothesis `RangesApart`: unusable ranges lie in the memory of whole
blocks and do not overlap. The first half is not what every machine has: a range in the rest
behind the last whole block fails the assertion, as section 3 says. `RemoveInv` says that
during boot only `remove_range` runs, what is still to be removed is free (`RangesOK`), and
blocks that were split are those around chunks already removed (`SplitsOK`), so that the free
block around the next chunk is at least as large as the chunk.

### Address spaces

| Theorem | States |
|---|---|
| `TranslationsNeverStale` | Spec => []NoStaleTranslation |
| `SpaceAlwaysPartitioned` | Spec => []SpacePartitioned |
| `TranslationsAlwaysExact` | Spec => []TranslationExact |

For every size of the space and every set of chains. The first holds also behind the faulty
split of a free range; the others are, like the properties, about the time before it (`cuts =
0`). `PartInv` adds that ranges and mappings lie below `current_address` and cover all of it,
and that it stays below `Limit`: a claimed range is free because it is not mapped, and every
page has an entry of its own. `TransInv` is the property with the rights under a name; the
step of mapping unrolls the fold that lists the frames of a chain.

### Processes

| Theorem | States |
|---|---|
| `ProcessesTakeTurns` | Spec => TakesTurns |
| `MemoryAlwaysAsDescribed` | Spec => []LoadedAsDescribed |
| `OwnPagesAlwaysCached` | Spec => []OwnPagesCached |

The first is the refinement of RoundRobin. `QueueInv` says that some sequence of processes is
what `head`, `tail` and the `next` fields describe; `Queue`, the walk along the pointers, is
then that sequence, and every action moves it as RoundRobin allows or leaves it. The second
goes by induction over the segments a file has: every segment loaded so far is in its pages, and
the pages behind `current_address` are not mapped. For what is mapped afterwards `Good` says
of a space in which no split range was used again that free ranges which were never split lie
below `current_address` (`BelowCurrent`), hold no page that is mapped (`NotInUse`) and do not
overlap (`RangesApart`): the piece that is split off first was free, later ones need not be. For
the third, `CacheInv` is the property with the types and an empty TLB during boot. It is inductive
because the tick invalidates, on the way in, every page below the new head's `current_address`,
whatever was cached while another space was mapped, and `start_user_process` puts no page into the
space of the head.

### Boot loader

| Theorem | States |
|---|---|
| `LoaderAloneAlwaysBoots` | Spec => []LoaderAloneBoots |
| `MapAlwaysHandedOver` | Spec /\ EntryInKernel => []MapHandedOver |
| `KernelAlwaysLoaded` | Spec /\ SegmentsApart => []KernelLoaded |
| `PagesRequiredWhenApart` | Spec /\ SegmentsApart => []PagesRequired |

The first settles the "at least 2" of main.c: a memory map has as many descriptors as pages at
which a range of one type begins (`DescriptorCount`, a bijection), and a page that changes its
type begins at most one range and makes the page behind it begin at most one
(`OnePageTwoRanges`). `LoaderInv` carries the count from one `GetMemoryMap` to the next.
`KernelInv` is for the map: the kernel's pages stay `EfiLoaderCode`, since neither `FreePool`
nor the firmware touches them, and the map in the buffer is the firmware's as long as the key
is. `EntryInKernel` says of the file that its entry point lies in its pages; for another file
the loader makes the kernel's own range data. `SegmentsApart` says of the file that every
segment starts above 0 and behind the end of the one before it; under it the loop over the
headers finds the end of the last segment (`HighestIsEnd`, by induction over the headers).
Run `loader_pages` shows what happens without it.

### Boot memory

| Theorem | States |
|---|---|
| `FramesMappedOnce` | BootSpec => []NoFrameMappedTwice |
| `FreeFramesAlwaysExact` | BootSpec => []FreeFramesExact |

For every memory map whose descriptors begin at 0, are in the order of their addresses and do
not overlap (`MapAssumption`), and for every size of tables, blocks, pools and words whose words
can hold the pages of a full PDP (`SizeAssumption`). Both properties are, as in the run, about a
boot that found room for the frame allocator. `BootInv` has five parts:

* `KeptInv`: the map is the firmware's with pages cut off the front of usable descriptors
  (`Cut`), and what was cut off is exactly what the frame allocator and the tables got; the first
  descriptor is never cut because it begins below 1 MB;
* `CountInv`, `TableInv`: how far the tables are counted and laid out. The tables are counted in
  one place and used in another. That `curr_pt_count` does not wrap before the last directory is
  `TablesSuffice`: the loop over directories adds one only when the size fills the
  directories exactly, in particular not because of the wrap-around of its own test, so that all
  directories but the last are full;
* `MappedInv`: every mapped frame is of a range that was mapped, and those are pairwise apart
  (`ToMapApart`);
* `FreeInv`: the free lists are the blocks without the gaps and unusable descriptors passed so
  far, and with the firmware's descriptors freed so far. Every frame is in a descriptor or in a gap
  before one (`MapCovers`), so what is not removed is usable; what was cut off has become a gap.

`TypeOK` of BootMemory is a conjunct of `FreeFramesExact`. `EveryPageHasTable` is false where
the count of tables wraps (section 3); there the model stops.

### Page tables

| Theorem | States |
|---|---|
| `PoolsAlwaysExact` | Spec => []PoolsExact |
| `RefillsNeverNest` | Spec /\ []LargeBlockFree => []RefillsDoNotNest |

For every number of orders and of pages per table, every request and every threshold of the two
pools (`PoolAssumption`: a table has room for the first pool and the table itself, a page has
entries for two refills). `PoolsAlwaysExact` does not need that refills do not nest: the counts are
exact for every depth of the stack.

`PoolsExact` is about the state between steps; calls that are suspended hold what makes it
inductive. `PoolInv` adds three things. `RecordOK`: the ends of a call's blocks ascend to its
number of pages, and what holds at each program counter. `OwnedInv`: the frames of a call that is
mapping or filling the pool were handed out, belong to no other call and are no table and not in
the pool, so that putting one into the pool keeps the pool's frames different, and `InstallTable`,
which writes the directory without looking again, installs a frame nobody else has. `PoolCounts`:
each count is the length of its pool and what the suspended refills have still to bring; the
cardinalities over the stack are followed through push, pop and change of the innermost record
(`OutstandingIs`).

`RefillsNeverNest` has two premises more. `ThresholdAssumption`: ENTRY_THRESHOLD is at least
PAGE_POOL_THRESHOLD + FRAME_ORDERS, and PAGE_POOL_THRESHOLD at least 4. In the code that is
20 >= 10 + 8; the instance of `tables` has the least that is allowed, 8 = 4 + 4. And
`LargeBlockFree`: the free list of the largest order is never empty. When memory runs out,
`alloc_frames` gathers smaller blocks, and no bound on the splits holds; on the instance it is true
in every state. The invariant is `PoolInv /\ NestInv`:

* `Nesting` lists the stacks there are: nothing, a call, a refill of one of the pools in the call, or
  a refill of the other pool in that one. A third refill is excluded by the counts: `PoolCounts`
  makes the count of a pool include what its suspended refill has yet to bring, which keeps it
  above the threshold (`PromisedPages`, `PromisedEntries`);
* `Budget` bounds the list entries that a refill of the page pool has still to take: one for each
  page and one for each split. An order is split at most once, for a split leaves a block in every
  order below it and the search takes the lowest (`Filled`, `Within`);
* `EntryRefillOK`: a refill of the list entries leaves the blocks it split off, and a list entry for
  every order it did not split, to a refill of the page pool inside it (`Stairs`, `Ready`);
* `Slack`: the page pool has a page to spare beyond the tables that a refill still needs, which are
  at most two because its pages span at most two tables.

### Slab allocator

| Theorem | States |
|---|---|
| `SlabsAlwaysExact` | Spec => []SlabsExact |
| `PointersAlwaysFreeable` | Spec => []EveryPointerFreeable |
| `PagesNeverLost` | Spec => []NoPagesLost |

For every number of ranges, caches and objects per slab. The assumptions say that the caches of
the two kinds of descriptors keep their own descriptors on the slab, as the sizes in the code
make them, and that the last cache does not (`DescriptorAssumption`): otherwise `kalloc` would
call itself without end.

The properties follow from one invariant, `HeapInv`, which is about sets instead of pointers:
some sets `P[o]` and `F[o]` of ranges are the partial and the full list of every cache (`Lists`:
each set is what its head reaches, no node is reached from two, `prev` leads back). The list that
the last cache shares with the page allocations holds slabs only or page allocations only, up
to the stop "shared list". Every slab's free array is a chain through exactly the objects that
nobody has (`Content`), and every range in use is in one list (`Members`). A slab has at least one
object allocated (`Busy`); descriptors are objects of their caches, no two ranges have the same
one, and no caller has one (`Described`, `HeldOK`).

`kalloc` and `kfree` call themselves for descriptors. In between the heap is not as `HeapInv`
says: an object is allocated and nobody has it yet, or any more. `Extra` is that state; the
lemmas about the inner call lead from `HeapInv` to `Extra`, those about the outer one from
`Extra` back. What a list operation does is proved once for all caches (`Push`, `Drop` on a list,
then on all of them).

### Devices

| Theorem | States |
|---|---|
| `BasesOnlyWhenStopped` | AhciSpec => BasesChangeWhenStopped |
| `AhciEveryDriveReady` | AhciSpec => []EveryDriveReady |
| `AhciTransferExact` | AhciSpec => []TransferExact |
| `MachineKeyState` | Spec => []KeyStateExact |
| `MachineFreshCharacter` | Spec => []FreshCharacter |
| `AcpiAlwaysReadable` | Spec => []AcpiMemoryReadable |
| `DeviceMemoryAlwaysMapped` | Spec => []DeviceMemoryMapped |
| `KeyboardAlwaysRouted` | Spec => []KeyboardRouted |
| `SegmentsAlwaysExact` | Spec => []SegmentsExact |
| `DevicesAlwaysExact` | Spec => []DevicesExact |

AHCI: between `stop_cmd` and `start_cmd` the port in hand has ST and FRE clear, and from
"allocate" on also CR and FR: an engine that is told to stand and stands cannot start by
itself. The second adds that the drives below the port in hand are exactly the devices, in
order. `TransferInv` is for the sectors: while a command is issued its table describes the
request (`Described`: the bytes of the command FIS make up sector and count, `Bytes` being exact
below the number of places; the entries have room for all sectors and the last one may wrap), and
what was moved so far are the first sectors of the request, each at its place in the buffer.
`EntryAssumption` says that an entry is a whole number of pages and can hold its byte count,
`BufferAssumption` that the pieces of a buffer are contiguous.

Machine, for every machine `MachineAssumption` describes (tables, functions and framebuffer that
fit into their fields; ranges of buses that do not overlap). Keyboard: only keys, the handler and
`ps2_getch` touch its state, whatever boot does meanwhile; the bytes not yet read, applied to the
kernel's key states, give the keys held down. The rest has an invariant per subject, each with
what holds in which phase of `kernel_entry`:

* `CoreInv`: mapped pages are not mapped again while they are in use, the remap list has every
  ACPI page, the root table is where it was found, the loops are inside their tables, the BAR has
  its value back after its size was read;
* `DeviceInv`: framebuffer and controller registers are mapped page by page;
* `ApicInv`, `RouteInv`: the override for the keyboard is the last one of the MADT entries read so
  far, and exactly the keyboard's pin is unmasked once it is routed;
* `GateInv`, `SegmentInv`: which descriptor table the processor uses; that the bytes read back are
  the segments meant is a lemma on `Bytes` (`SegmentsLoaded`);
* `ListInv`: the device list has exactly the functions the walk over ranges, buses, devices and
  functions has come by so far, each with its class and mapped at its place, by induction over the
  walk; what it passes over on its buses is `Hidden`;
* `StopInv`, `CountInv`, `DeliveryInv`: why the kernel may have stopped, and that no interrupt
  comes from a controller that is masked or not enabled. `MachineInv` is their conjunction.

### Only model-checked

* Liveness (`EveryCallReturns`, `BootEnds`, `RequestEnds`, `EveryProcessRuns`, `GetchReturns`),
  which is out of the prover's reach.
* `LiveFramesKept`.
* `FaultReadable`: that the digits drawn are those of the number is induction over data.

## 5. Not modelled

* Functions without a caller: `delete_address_space`, `get_lapic_id`,
  `read_ioapic_version`, `unregister_interrupt`, `put_int` and `put_uint`, the number
  conversions of the C library.
* Port I/O (one instruction per function), `stage1_entry` (loads the stack pointer), the
  pixels of the font, wording of messages.
* `efilib` is vendored; only the types and services the boot loader uses are in BootLoader.
* In Machine, `kalloc` and `alloc_pages` do not fail; running out of memory is the subject of
  the modules about memory. The TLB of the kernel's own space is in AddressSpace only.

## 6. What is left

An abstract allocator (a set of free frames, allocate and free) that FrameAllocator implements;
`FramesNeverShared` has what the refinement needs.
