---------------------------- MODULE ProcessSystem ----------------------------
(***************************************************************************)
(* kernel/src/process_system.c, kernel/src/syscalls.c and the switching of *)
(* address spaces in kernel/src/memory/paging.c: processes of one          *)
(* processor that take turns under a timer interrupt.                      *)
(*                                                                         *)
(* Every process has its address space at the same entry of the PML4, so   *)
(* the mapped space decides what an address means.  Registers are saved on *)
(* the stack in the space that is mapped; a set of registers is named by   *)
(* the process it belongs to.                                              *)
(*                                                                         *)
(* The block that starts the first process and the timer stands between    *)
(* #if 0 and #endif; Builds says which builds are considered.  The         *)
(* repository has no caller of start_user_process.  A system call cannot   *)
(* be one, as its stack lies in the space that is switched away, so the    *)
(* caller is an interrupt handler, which ticks do not interrupt.  When it  *)
(* returns, the space of the new process stays mapped: the process that    *)
(* was interrupted goes on in it until the next tick.                      *)
(***************************************************************************)
EXTENDS ElfLoader, FiniteSets

CONSTANTS
    Proc,             \* the processes that can exist, 1 .. n
    Images,           \* the ELF files
    Frames,           \* how many frames may be left when a process is loaded
    StackPages,       \* USER_STACK_SIZE / PAGE_SIZE
    Requests,         \* the page counts system calls map
    Calls,            \* the numbers passed to syscall
    Touched,          \* the pages programs touch
    Builds            \* whether the block that starts the first process is compiled in

ASSUME ProcAssumption ==
    IsFiniteSet(Proc) /\ Proc = 1 .. Cardinality(Proc)
ASSUME EnvironmentAssumption ==
    /\ Frames \subseteq Nat /\ Touched \subseteq VirtPages
    /\ StackPages \in Nat \ {0} /\ Requests \subseteq Nat \ {0}
    /\ Builds \subseteq BOOLEAN
ASSUME ImageAssumption ==
    /\ Images \subseteq Elf64Ehdr
    /\ \A e \in Images : \A i \in DOMAIN e.segments :
           e.segments[i].offset > 0 /\ e.segments[i].filesz <= e.segments[i].memsz

VARIABLES
    head, tail, next,     \* g_process_queue and the next fields
    space,                \* addr_space of every process
    saved,                \* whose registers lie at context_stack_ptr in every space
    pml4,                 \* the process whose space is mapped, 0 for none
    tlb,                  \* the process whose page the processor has cached, by page
    cpu,                  \* whose registers the processor has
    mode,                 \* what the processor does
    call,                 \* the number of the system call being served
    timer,                \* the local APIC's timer and in-service bit
    kernel,               \* "running", or why the kernel stopped
    image                 \* history: the ELF file of a process

queueVars == <<head, tail, next>>
spaceVars == <<space, pml4, tlb>>
contextVars == <<saved, cpu>>
vars == <<queueVars, spaceVars, contextVars, mode, call, timer, kernel, image>>

-----------------------------------------------------------------------------
Nobody == 0
Running == kernel = "running"
APIC_TIMER_IRQ == 32
NoCall == -1
NoImage == [valid |-> FALSE, segments |-> <<>>]

Started == {p \in Proc : image[p] # NoImage}

\* Processes are numbered in the order in which they start.
Fresh == 1 + Cardinality(Started)

Stop(reason) ==
    /\ kernel' = reason
    /\ UNCHANGED <<queueVars, spaceVars, contextVars, mode, call, timer, image>>

Init ==
    /\ head = 0 /\ tail = 0
    /\ next = [p \in Proc |-> 0]
    /\ space = [p \in Proc |-> EmptySpace]
    /\ saved = [p \in Proc |-> Nobody]
    /\ pml4 = 0
    /\ tlb = [v \in Touched |-> 0]
    /\ cpu = Nobody
    /\ mode = "boot"
    /\ call = NoCall
    /\ timer = [vector |-> 0, periodic |-> FALSE, masked |-> TRUE, counting |-> FALSE,
                in_service |-> FALSE]
    /\ kernel = "running"
    /\ image = [p \in Proc |-> NoImage]

-----------------------------------------------------------------------------
(* Address spaces.                                                         *)

\* The loop of invlpg over the pages of a space up to current_address.
Invalidate(cached, s) == [v \in Touched |-> IF v < s.current THEN 0 ELSE cached[v]]

\* map_address_space and unmap_address_space on what is mapped and cached.
map_address_space_NoInvlpg(p, cached) == [mapped |-> p, cached |-> cached]
map_address_space(p, cached) == [mapped |-> p, cached |-> Invalidate(cached, space[p])]
unmap_address_space(p) == [mapped |-> 0, cached |-> Invalidate(tlb, space[p])]

-----------------------------------------------------------------------------
(* Starting processes.                                                     *)

LoadFails(e) == \E f \in Frames : ~load_elf_from_buff(EmptySpace, e, f).ok

\* The spaces the image is loaded in, when it is and a stack is allocated.
WithImage(e) ==
    {load_elf_from_buff(EmptySpace, e, f).space :
        f \in {f \in Frames : LET l == load_elf_from_buff(EmptySpace, e, f)
                              IN  l.ok /\ l.frames >= StackPages}}

\* The spaces a process may start with: its image, and its stack.
Loaded(e) == {WithPages(s, StackPages) : s \in {s \in WithImage(e) : Mappable(s, StackPages)}}

\* initialize_process_system.  The timer gets its mode and its vector; it stays
\* masked unless the first process is started.
initialize_process_system(p, e, built) ==
    /\ Running
    /\ mode = "boot"
    /\ p = Fresh
    /\ timer' = [timer EXCEPT !.vector = APIC_TIMER_IRQ, !.periodic = TRUE,
                              !.masked = ~built, !.counting = built]
    /\ \/ /\ ~built
          /\ mode' = "idle"
          /\ UNCHANGED <<queueVars, spaceVars, contextVars, image>>
       \/ /\ built
          /\ \E s \in Loaded(e) : space' = [space EXCEPT ![p] = s]
          /\ head' = p /\ tail' = p
          /\ pml4' = p
          /\ cpu' = p
          /\ image' = [image EXCEPT ![p] = e]
          /\ mode' = "user"
          /\ UNCHANGED <<next, saved, tlb>>
    /\ UNCHANGED <<call, kernel>>

\* KERNEL_ASSERT(success, "Failed to load terminal ELF file").
ImageRefused(e) ==
    /\ Running
    /\ mode \in {"boot", "user"}
    /\ Fresh \in Proc
    /\ LoadFails(e)
    /\ Stop("failed to load ELF file")

\* KERNEL_ASSERT(..., "Out of address space"), for the stack.
NoRoomForStack(e) ==
    /\ Running
    /\ mode \in {"boot", "user"}
    /\ Fresh \in Proc
    /\ \E s \in WithImage(e) : OutOfSpace(s, StackPages)
    /\ Stop("out of address space")

\* kalloc is not checked, nor is the allocation of the stack: the memset that
\* follows goes through an address that is not mapped.
OutOfMemory ==
    /\ Running
    /\ mode \in {"boot", "user"}
    /\ Fresh \in Proc
    /\ Stop("page fault")

\* start_user_process, called with interrupts off while a process runs.  The
\* space of the new process is mapped while it is empty, and every page that is
\* then put into it is invalidated.  Nothing maps the old space again.
start_user_process(p, e) ==
    /\ Running
    /\ mode = "user"
    /\ head # 0
    /\ p = Fresh
    /\ \E s \in Loaded(e) :
           /\ space' = [space EXCEPT ![p] = s]
           /\ tlb' = [v \in Touched |-> IF v = 0 \/ s.table[v].present THEN 0 ELSE tlb[v]]
    /\ pml4' = p
    /\ saved' = [saved EXCEPT ![p] = p]
    /\ next' = [next EXCEPT ![tail] = p]
    /\ tail' = p
    /\ image' = [image EXCEPT ![p] = e]
    /\ UNCHANGED <<head, cpu, mode, call, timer, kernel>>

\* KERNEL_ASSERT(g_process_queue.head != 0, ...): the build without the block.
NoProcessRunning ==
    /\ Running
    /\ mode = "idle"
    /\ Stop("no previously running process")

-----------------------------------------------------------------------------
(* The timer interrupt.                                                    *)

\* The queue after the rotation in context_switch.
Rotated_KeepsNext ==
    IF next[head] = 0 THEN [head |-> head, tail |-> tail, next |-> next]
    ELSE [head |-> next[head], tail |-> head, next |-> [next EXCEPT ![tail] = head]]
Rotated ==
    IF next[head] = 0 THEN [head |-> head, tail |-> tail, next |-> next]
    ELSE [head |-> next[head], tail |-> head,
          next |-> [next EXCEPT ![head] = 0, ![tail] = head]]

\* The registers of the head are saved at its stack pointer, but in the space
\* that is mapped, and its context_stack_ptr is set to that address.  When the
\* space is not its own, they may hit those of the process it belongs to, and in
\* its own space older ones may be at that address, or none.
SaveRegisters ==
    \/ /\ pml4 = head
       /\ saved' = [saved EXCEPT ![head] = cpu]
    \/ /\ pml4 # head
       /\ \E hit \in {cpu, saved[pml4]}, old \in {Nobody, saved[head]} :
              saved' = [saved EXCEPT ![pml4] = hit, ![head] = old]

EndOfInterrupt_Missing(t) == [t EXCEPT !.in_service = TRUE]
EndOfInterrupt(t) == [t EXCEPT !.in_service = FALSE]

\* context_switch_handler from user mode: the registers go to the stack below
\* the interrupted stack pointer, in whatever space is mapped; the spaces are
\* switched; the registers of the new head come from its stack.  If they are
\* not there, the iretq has nowhere to go.
context_switch ==
    LET to == Rotated.head
        switched == map_address_space(to, unmap_address_space(head).cached)
    IN  /\ SaveRegisters
        /\ head' = to /\ tail' = Rotated.tail /\ next' = Rotated.next
        /\ pml4' = switched.mapped /\ tlb' = switched.cached
        /\ cpu' = saved'[to]
        /\ timer' = EndOfInterrupt([timer EXCEPT !.counting = timer.periodic])
        /\ kernel' = IF cpu' = Nobody THEN "registers lost" ELSE kernel
        /\ UNCHANGED <<space, mode, call, image>>

TimerFires ==
    /\ Running
    /\ ~timer.masked /\ timer.counting /\ ~timer.in_service

Tick == TimerFires /\ mode = "user" /\ context_switch

\* A system call runs on the user's stack with interrupts on.  The tick pushes
\* its frame there, and unmap_address_space takes that stack away; the page
\* fault and the double fault it causes have no stack either.
TickInSyscall ==
    /\ TimerFires
    /\ mode = "syscall"
    /\ Stop("triple fault")

-----------------------------------------------------------------------------
(* User programs and their system calls.                                   *)

\* A program uses its stack, in the space that is mapped.
UserStep ==
    /\ Running
    /\ mode = "user"
    /\ saved' = [saved EXCEPT ![pml4] = Nobody]
    /\ UNCHANGED <<queueVars, spaceVars, cpu, mode, call, timer, kernel, image>>

\* A program that goes on in the memory of another process, or with its
\* registers, may meet anything there.  So may the tick that interrupts it.
Derailed ==
    /\ Running
    /\ mode = "user"
    /\ pml4 # head \/ cpu # head
    /\ Stop("page fault")

\* The processor caches the translation of a page it uses.
Touch(v) ==
    /\ Running
    /\ mode = "user"
    /\ space[pml4].table[v].present
    /\ tlb' = [tlb EXCEPT ![v] = IF @ = 0 THEN pml4 ELSE @]
    /\ UNCHANGED <<queueVars, space, pml4, contextVars, mode, call, timer, kernel, image>>

NUM_SYSCALLS == 5
SYSCALL_HALT == 0
SYSCALL_ALLOC_PAGES == 1
SYSCALL_GET_FRAMEBUFFER == 2
SYSCALL_GETCH == 3

syscall_dispatcher(n) ==
    /\ Running
    /\ mode = "user"
    /\ n < NUM_SYSCALLS
    /\ mode' = "syscall"
    /\ call' = n
    /\ UNCHANGED <<queueVars, spaceVars, contextVars, timer, kernel, image>>

\* sysretq.  syscall_halt never gets here; syscall_getch does when a key comes.
\* A number outside of the table returns at once and changes nothing.
SyscallReturns ==
    /\ Running
    /\ mode = "syscall"
    /\ call \notin {SYSCALL_HALT, SYSCALL_GET_FRAMEBUFFER}
    /\ mode' = "user"
    /\ call' = NoCall
    /\ UNCHANGED <<queueVars, spaceVars, contextVars, timer, kernel, image>>

\* syscall_alloc_pages and syscall_get_framebuffer map pages into the space of
\* the head of the queue; without frames syscall_alloc_pages just returns.
MapsPages ==
    /\ Running
    /\ mode = "syscall"
    /\ call \in {SYSCALL_ALLOC_PAGES, SYSCALL_GET_FRAMEBUFFER}

SyscallMaps(pages) ==
    LET s == space[head]
        at == AllocatedAt(s, pages)
    IN  /\ MapsPages
        /\ Mappable(s, pages)
        /\ space' = [space EXCEPT ![head] = WithPages(s, pages)]
        /\ tlb' = [v \in Touched |-> IF v \in at .. at + pages - 1 THEN 0 ELSE tlb[v]]
        /\ mode' = "user"
        /\ call' = NoCall
        /\ UNCHANGED <<queueVars, pml4, contextVars, timer, kernel, image>>

OutOfAddressSpace(pages) ==
    /\ MapsPages
    /\ Walkable(space[head])
    /\ OutOfSpace(space[head], pages)
    /\ Stop("out of address space")

\* The walk through the free list starts at a non-canonical address.
WalkFaults ==
    /\ MapsPages
    /\ ~Walkable(space[head])
    /\ Stop("general protection fault")

\* KERNEL_ASSERT(success, "Out of memory"): no frame for a page table.
NoFrameForTable ==
    /\ MapsPages
    /\ Stop("out of memory")

\* The loops of syscall_halt and of ps2_getch.
SyscallWaits ==
    /\ Running
    /\ mode = "syscall"
    /\ call \in {SYSCALL_HALT, SYSCALL_GETCH}
    /\ UNCHANGED vars

Halted == ~Running /\ UNCHANGED vars

Next ==
    \/ \E p \in Proc, e \in Images :
           \/ \E built \in Builds : initialize_process_system(p, e, built)
           \/ start_user_process(p, e)
    \/ \E e \in Images : ImageRefused(e) \/ NoRoomForStack(e)
    \/ OutOfMemory \/ NoProcessRunning
    \/ Tick \/ TickInSyscall
    \/ UserStep \/ Derailed
    \/ \E v \in Touched : Touch(v)
    \/ \E n \in Calls : syscall_dispatcher(n)
    \/ SyscallReturns \/ SyscallWaits
    \/ \E n \in Requests : SyscallMaps(n) \/ OutOfAddressSpace(n)
    \/ WalkFaults \/ NoFrameForTable
    \/ Halted

\* The timer keeps counting; programs need not do anything.
Spec == Init /\ [][Next]_vars /\ WF_vars(Tick \/ TickInSyscall)

-----------------------------------------------------------------------------
(* Properties.                                                             *)

Stops == {"page fault", "failed to load ELF file", "triple fault", "out of memory",
          "no previously running process", "out of address space", "registers lost",
          "general protection fault"}

\* The state of the process system has its type.
TypeOK ==
    /\ {head, tail, pml4, cpu} \subseteq Proc \cup {0}
    /\ next \in [Proc -> Proc \cup {0}] /\ saved \in [Proc -> Proc \cup {Nobody}]
    /\ \A p \in Proc : space[p] \in AddressSpace /\ image[p] \in Images \cup {NoImage}
    /\ tlb \in [Touched -> Proc \cup {0}]
    /\ mode \in {"boot", "idle", "user", "syscall"}
    /\ call \in Calls \cup {NoCall}
    /\ kernel \in {"running"} \cup Stops

\* The n-th process that a walk from the head along the next fields meets.
Walk[n \in Nat] == IF n = 0 THEN head ELSE IF Walk[n - 1] = 0 THEN 0 ELSE next[Walk[n - 1]]
QueueLength == CHOOSE n \in 0 .. 2 * Cardinality(Proc) :
                   /\ Walk[n] = 0 \/ n = 2 * Cardinality(Proc)
                   /\ \A i \in 0 .. n - 1 : Walk[i] # 0
Queue == [i \in 1 .. QueueLength |-> Walk[i - 1]]

\* The pointers of g_process_queue implement a queue in which processes take
\* turns: no tick and no start loses, repeats or overtakes a process.
TurnTaking == INSTANCE RoundRobin WITH queue <- Queue
TakesTurns == TurnTaking!Spec

\* TypeOK, and a program that runs in its own space reaches its own pages: for
\* no page below its current_address does the processor have a translation of
\* another process, whatever was cached while start_user_process had another
\* space mapped.  Between a start and the next tick the mapped space is not
\* that of the head, and this says nothing.
OwnPagesCached ==
    /\ TypeOK
    /\ Running /\ mode \in {"user", "syscall"} /\ pml4 = head =>
           \A v \in Touched : v < space[head].current => tlb[v] \in {0, head}

\* "All registers except rsp are stored on the user stack when process is not
\* running": a waiting process finds its own registers where its
\* context_stack_ptr points, in its own space.  The code does not keep this: a
\* process that is interrupted after start_user_process has its registers saved
\* in the space of the process that was started.
SavedOnOwnStack ==
    Running => /\ \A p \in Started \ {head} : saved[p] = p
               /\ cpu = head

\* The memory of a started process is what its ELF file says, byte by byte and
\* with its permissions, and stays so when system calls map more, until a free
\* range that alloc_addr_space had split is used again: then what is mapped may
\* lie on the image.  (What programs write is not followed.)
LoadedAsDescribed == \A p \in Started : space[p].reused \/ Describes(image[p], space[p])

\* The turn of every started process comes again, as long as the kernel runs.
EveryProcessRuns ==
    \A p \in Proc : p \in Started ~> (head = p \/ ~Running)
=============================================================================
