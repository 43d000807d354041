------------------------------ MODULE BootLoader ------------------------------
(***************************************************************************)
(* The UEFI application that loads the kernel: efi_main (main.c),          *)
(* load_kernel (elf-loader.c) and find_rsdp (rsdp-finder.c).               *)
(*                                                                         *)
(* The firmware is external.  It keeps a type for every page of memory and *)
(* a key that changes with the map; its services may fail; its timer       *)
(* events may allocate and free pages at any time until boot services end. *)
(* An address is a number of bytes, PageSize bytes a page.                 *)
(***************************************************************************)
EXTENDS Integers, Sequences, FiniteSets, SequencesExt

CONSTANTS
    PageSize,
    Memories,     \* the types of the pages when the loader starts
    Kernels,      \* the files KERNEL.ELF may hold
    Modes,        \* what the graphics protocol may report
    Tables,       \* the configuration tables of the firmware
    MaxEvents     \* bound: how often the firmware changes the map by itself

Elf64_Phdr == [load : BOOLEAN, vaddr : Nat, offset : Nat, filesz : Nat, memsz : Nat]
Elf64_Ehdr == [valid : BOOLEAN, entry : Nat, segments : Seq(Elf64_Phdr)]

EFI_MEMORY_TYPE ==
    {"EfiReservedMemoryType", "EfiLoaderCode", "EfiLoaderData", "EfiBootServicesCode",
     "EfiBootServicesData", "EfiRuntimeServicesCode", "EfiRuntimeServicesData",
     "EfiConventionalMemory", "EfiUnusableMemory", "EfiACPIReclaimMemory", "EfiACPIMemoryNVS",
     "EfiMemoryMappedIO", "EfiMemoryMappedIOPortSpace", "EfiPalCode"}
EFI_MEMORY_DESCRIPTOR == [Type : EFI_MEMORY_TYPE, PhysicalStart : Nat, NumberOfPages : Nat]

EFI_GRAPHICS_PIXEL_FORMAT ==
    {"PixelRedGreenBlueReserved8BitPerColor", "PixelBlueGreenRedReserved8BitPerColor",
     "PixelBitMask", "PixelBltOnly"}
EFI_GRAPHICS_OUTPUT_MODE_INFORMATION ==
    [HorizontalResolution : Nat, VerticalResolution : Nat,
     PixelFormat : EFI_GRAPHICS_PIXEL_FORMAT, PixelsPerScanLine : Nat]

EFI_CONFIGURATION_TABLE == [VendorGuid : STRING, VendorTable : Nat]

ASSUME LoaderAssumption ==
    /\ PageSize \in Nat \ {0}
    /\ Kernels \subseteq Elf64_Ehdr
    /\ \A t \in Memories : t \in Seq(EFI_MEMORY_TYPE)
    /\ Modes \subseteq EFI_GRAPHICS_OUTPUT_MODE_INFORMATION
    /\ \A t \in Tables : t \in Seq(EFI_CONFIGURATION_TABLE)

VARIABLES
    pc,           \* the service the loader calls next
    status,       \* what efi_main returned, "" while it runs
    types, key,   \* the firmware's memory map and its key
    events,       \* history: how often the firmware changed it by itself
    started,      \* whether the graphics mode has been set before
    info,         \* what the loader takes for the mode's description
    file, tables, \* the kernel's file and the configuration tables
    pool,         \* the pages taken for the loader's pool memory
    at,           \* the next program header to load
    base,         \* kernel_base_addr
    memory,       \* the bytes of memory, 0 - 1 for what was there before
    memory_map,   \* capacity, buffer and mapkey of the structure handed over
    rsdp

fwVars == <<types, key, events>>
vars == <<pc, status, fwVars, started, info, file, tables, pool, at, base, memory, memory_map, rsdp>>

Pages == DOMAIN types
Bytes(page) == page * PageSize .. page * PageSize + PageSize - 1
Garbage == 0 - 1

Init ==
    /\ pc = "watchdog"
    /\ status = ""
    /\ types \in Memories /\ key = 0 /\ events = 0
    /\ started \in BOOLEAN
    /\ info \in Modes
    /\ file \in Kernels /\ tables \in Tables
    /\ pool = {} /\ at = 1 /\ base = 0
    /\ memory = [a \in UNION {Bytes(p) : p \in DOMAIN types} |-> Garbage]
    /\ memory_map = [capacity |-> 0, buffer |-> {}, mapkey |-> 0]
    /\ rsdp = 0

-----------------------------------------------------------------------------
(* The firmware.                                                           *)

\* The descriptors of the map: the longest ranges of pages of one type.
Descriptors ==
    {[Type |-> types[r[1]], PhysicalStart |-> r[1] * PageSize, NumberOfPages |-> r[2] - r[1] + 1] :
        r \in {r \in Pages \X Pages :
                 /\ r[1] <= r[2]
                 /\ \A p \in r[1] .. r[2] : types[p] = types[r[1]]
                 /\ r[1] - 1 \in Pages => types[r[1] - 1] # types[r[1]]
                 /\ r[2] + 1 \in Pages => types[r[2] + 1] # types[r[1]]}}

SetTypes(pages, type) ==
    /\ types' = [p \in Pages |-> IF p \in pages THEN type ELSE types[p]]
    /\ key' = IF pages = {} THEN key ELSE key + 1
    /\ UNCHANGED events

\* AllocatePool: there is room in a pool page, or a page becomes one.
AllocatePool ==
    \E pages \in {{}} \cup {{p} : p \in {p \in Pages : types[p] = "EfiConventionalMemory"}} :
        /\ SetTypes(pages, "EfiLoaderData")
        /\ pool' = pool \cup pages

\* FreePool: pages that hold nothing else are given back, if any.
FreePool ==
    \E pages \in SUBSET pool :
        /\ SetTypes(pages, "EfiConventionalMemory")
        /\ pool' = pool \ pages

\* AllocatePages(AllocateAnyPages, EfiLoaderCode, n): any free range.
Fits(n, start) == n > 0 /\ \A p \in start .. start + n - 1 : p \in Pages /\ types[p] = "EfiConventionalMemory"

\* An event of the firmware takes a page for itself or gives one back.
FirmwareEvent ==
    /\ status = "" /\ pc # "kernel"
    /\ events < MaxEvents
    /\ \E p \in Pages, before, after \in {"EfiConventionalMemory", "EfiBootServicesData"} :
        /\ types[p] = before /\ before # after
        /\ types' = [types EXCEPT ![p] = after]
    /\ key' = key + 1
    /\ events' = events + 1
    /\ UNCHANGED <<pc, status, started, info, file, tables, pool, at, base, memory, memory_map, rsdp>>

-----------------------------------------------------------------------------
(* The loader.                                                             *)

\* Goes from one service call to the next.
Call(from, to) ==
    /\ pc = from /\ status = ""
    /\ pc' = to
    /\ UNCHANGED <<status, file, tables>>

Return(s) ==
    /\ status' = s
    /\ UNCHANGED <<pc, fwVars, started, info, file, tables, pool, at, base, memory, memory_map, rsdp>>

\* Any service fails, and efi_main returns its status; what was allocated and
\* opened before stays so.
ServiceFails ==
    /\ pc # "kernel" /\ status = ""
    /\ Return("error")

SetWatchdogTimer ==
    /\ Call("watchdog", "graphics")
    /\ UNCHANGED <<fwVars, started, info, pool, at, base, memory, memory_map, rsdp>>

\* What QueryMode leaves in info: the description of the current mode, or, when
\* the display is not initialized, the pointer as it was.
Answers == IF started THEN {info} ELSE Modes

\* The kernel draws into one of two formats.
Supported(i) ==
    i.PixelFormat \in {"PixelRedGreenBlueReserved8BitPerColor", "PixelBlueGreenRedReserved8BitPerColor"}

\* LocateProtocol and QueryMode.  When the mode was not started, SetMode starts
\* it, and the pointer that QueryMode did not set is followed.
QueryMode ==
    /\ Call("graphics", "volume")
    /\ info' \in Answers
    /\ Supported(info')
    /\ started' = TRUE
    /\ UNCHANGED <<fwVars, pool, at, base, memory, memory_map, rsdp>>

FormatUnsupported ==
    /\ pc = "graphics" /\ status = ""
    /\ \E i \in Answers : ~Supported(i)
    /\ Return("unsupported")

\* The file system is opened, load_kernel opens the file.
OpenFile ==
    /\ Call("volume", "header")
    /\ UNCHANGED <<fwVars, started, info, pool, at, base, memory, memory_map, rsdp>>

\* The file header is read into pool memory and looked at.
ReadHeader ==
    /\ Call("header", "programs")
    /\ file.valid
    /\ AllocatePool
    /\ UNCHANGED <<started, info, at, base, memory, memory_map, rsdp>>

HeaderUnsupported ==
    /\ pc = "header" /\ status = ""
    /\ ~file.valid
    /\ AllocatePool
    /\ status' = "unsupported"
    /\ UNCHANGED <<pc, started, info, file, tables, at, base, memory, memory_map, rsdp>>

\* The program headers are read into pool memory.
ReadPrograms ==
    /\ Call("programs", "pages")
    /\ AllocatePool
    /\ UNCHANGED <<started, info, at, base, memory, memory_map, rsdp>>

\* The extent of the segments, as the loop over the headers finds it.
Loads == {i \in DOMAIN file.segments : file.segments[i].load}
low_virt_addr == Min({file.segments[i].vaddr : i \in Loads})
high_virt_addr ==
    FoldLeft(LAMBDA high, s : IF s.load /\ s.vaddr > high THEN s.vaddr + s.memsz ELSE high,
             0, file.segments)

EFI_SIZE_TO_PAGES(size) == (size \div PageSize) + (IF size % PageSize # 0 THEN 1 ELSE 0)
num_kernel_pages == EFI_SIZE_TO_PAGES(high_virt_addr - low_virt_addr)

AllocateKernel ==
    /\ pc = "pages"
    /\ Loads # {}
    /\ Call("pages", "segments")
    /\ \E start \in Pages :
        /\ Fits(num_kernel_pages, start)
        /\ SetTypes(start .. start + num_kernel_pages - 1, "EfiLoaderCode")
        /\ base' = start * PageSize
    /\ UNCHANGED <<started, info, pool, at, memory, memory_map, rsdp>>

NoSegments ==
    /\ pc = "pages" /\ status = ""
    /\ Loads = {}
    /\ Return("not found")

NoPages ==
    /\ pc = "pages" /\ status = ""
    /\ Loads # {}
    /\ ~ \E start \in Pages : Fits(num_kernel_pages, start)
    /\ Return("out of resources")

\* What one iteration writes at an address: the bytes of the file, then zeros.
\* Addresses beyond the end of memory are left out.
SegmentBytes_Last(s, a, old) ==
    LET offset == a - (base + s.vaddr - low_virt_addr)
    IN  IF 0 <= offset /\ offset < s.filesz THEN s.offset + offset
        ELSE IF s.filesz <= offset /\ offset < s.memsz - 1 THEN 0 ELSE old
SegmentBytes(s, a, old) ==
    LET offset == a - (base + s.vaddr - low_virt_addr)
    IN  IF 0 <= offset /\ offset < s.filesz THEN s.offset + offset
        ELSE IF s.filesz <= offset /\ offset < s.memsz THEN 0 ELSE old

LoadSegment ==
    /\ at <= Len(file.segments)
    /\ Call("segments", "segments")
    /\ at' = at + 1
    /\ memory' = IF file.segments[at].load
                 THEN [a \in DOMAIN memory |-> SegmentBytes(file.segments[at], a, memory[a])]
                 ELSE memory
    /\ UNCHANGED <<fwVars, started, info, pool, base, memory_map, rsdp>>

\* Both headers are freed, the files closed.
FreeHeaders ==
    /\ at > Len(file.segments)
    /\ Call("segments", "rsdp")
    /\ FreePool
    /\ UNCHANGED <<started, info, at, base, memory, memory_map, rsdp>>

\* The first table with the GUID of ACPI 2.0.
find_rsdp ==
    /\ pc = "rsdp"
    /\ \E i \in DOMAIN tables :
        /\ tables[i].VendorGuid = "ACPI 2.0"
        /\ \A j \in 1 .. i - 1 : tables[j].VendorGuid # "ACPI 2.0"
        /\ rsdp' = tables[i].VendorTable
    /\ Call("rsdp", "size")
    /\ UNCHANGED <<fwVars, started, info, pool, at, base, memory, memory_map>>

NoRsdp ==
    /\ pc = "rsdp" /\ status = ""
    /\ \A i \in DOMAIN tables : tables[i].VendorGuid # "ACPI 2.0"
    /\ Return("not found")

\* The first GetMemoryMap says how large the map is; nbytes += desc_size * 2.
MapBytes_One(descriptors) == descriptors + 1
MapBytes(descriptors) == descriptors + 2

GetMapSize ==
    /\ Call("size", "buffer")
    /\ memory_map' = [memory_map EXCEPT !.capacity = MapBytes(Cardinality(Descriptors))]
    /\ UNCHANGED <<fwVars, started, info, pool, at, base, memory, rsdp>>

AllocateBuffer ==
    /\ Call("buffer", "map")
    /\ AllocatePool
    /\ UNCHANGED <<started, info, at, base, memory, memory_map, rsdp>>

\* kernel_entry.
Entry == base + file.entry - low_virt_addr

\* The kernel's range stays EfiLoaderCode, the others become EfiLoaderData.
IsKernel_Above(d) == Entry >= d.PhysicalStart
IsKernel(d) == Entry >= d.PhysicalStart /\ Entry < d.PhysicalStart + d.NumberOfPages * PageSize
Retype(d) == IF d.Type = "EfiLoaderCode" /\ ~IsKernel(d) THEN [d EXCEPT !.Type = "EfiLoaderData"] ELSE d

GetMap ==
    /\ pc = "map"
    /\ Cardinality(Descriptors) <= memory_map.capacity
    /\ Call("map", "exit")
    /\ memory_map' = [memory_map EXCEPT !.buffer = {Retype(d) : d \in Descriptors}, !.mapkey = key]
    /\ UNCHANGED <<fwVars, started, info, pool, at, base, memory, rsdp>>

BufferTooSmall ==
    /\ pc = "map" /\ status = ""
    /\ Cardinality(Descriptors) > memory_map.capacity
    /\ Return("buffer too small")

\* The firmware ends boot services when the key is the current one, and the
\* loader jumps to the kernel.
ExitBootServices ==
    /\ pc = "exit"
    /\ memory_map.mapkey = key
    /\ Call("exit", "kernel")
    /\ UNCHANGED <<fwVars, started, info, pool, at, base, memory, memory_map, rsdp>>

StaleKey ==
    /\ pc = "exit" /\ status = ""
    /\ memory_map.mapkey # key
    /\ Return("invalid parameter")

Done == (pc = "kernel" \/ status # "") /\ UNCHANGED vars

Next ==
    \/ FirmwareEvent \/ ServiceFails
    \/ SetWatchdogTimer \/ QueryMode \/ FormatUnsupported
    \/ OpenFile \/ ReadHeader \/ HeaderUnsupported \/ ReadPrograms
    \/ AllocateKernel \/ NoSegments \/ NoPages \/ LoadSegment \/ FreeHeaders
    \/ find_rsdp \/ NoRsdp
    \/ GetMapSize \/ AllocateBuffer \/ GetMap \/ BufferTooSmall
    \/ ExitBootServices \/ StaleKey
    \/ Done

Spec == Init /\ [][Next]_vars

-----------------------------------------------------------------------------
(* Properties.                                                             *)

InKernel == pc = "kernel"
KernelPages == base \div PageSize .. (base \div PageSize) + num_kernel_pages - 1

\* "Make the kernel be the only memory range with the type EfiLoaderCode"
\* (main.c): the map handed over describes every page of memory as the firmware
\* last had it, and its one code range holds the whole kernel.
MapHandedOver ==
    InKernel =>
        LET first(d) == d.PhysicalStart \div PageSize
            covered(d) == first(d) .. first(d) + d.NumberOfPages - 1
            code == {d \in memory_map.buffer : d.Type = "EfiLoaderCode"}
        IN  /\ memory_map.buffer \subseteq EFI_MEMORY_DESCRIPTOR
            /\ \A p \in Pages : \E d \in memory_map.buffer :
                   /\ p \in covered(d)
                   /\ types[p] = d.Type \/ (types[p] = "EfiLoaderCode" /\ d.Type = "EfiLoaderData")
                   /\ \A e \in memory_map.buffer : p \in covered(e) => e = d
            /\ \E d \in code :
                   /\ code = {d}
                   /\ KernelPages \subseteq covered(d)

\* "Get number of required kernel pages" (elf-loader.c): every segment lies in
\* the pages that were allocated.
PagesRequired ==
    pc = "segments" =>
        \A i \in Loads :
            file.segments[i].vaddr - low_virt_addr + file.segments[i].memsz <= num_kernel_pages * PageSize

\* The kernel lies in memory as its file describes it, zeros included, and
\* nothing was written outside of its pages.
KernelLoaded ==
    InKernel =>
        /\ \A i \in Loads : \A n \in 0 .. file.segments[i].memsz - 1 :
               LET s == file.segments[i]
                   a == base + s.vaddr - low_virt_addr + n
               IN  /\ a \in DOMAIN memory
                   /\ memory[a] = IF n < s.filesz THEN s.offset + n ELSE 0
        /\ \A p \in Pages \ KernelPages : \A a \in Bytes(p) : memory[a] = Garbage

\* "We have to increase the size by at least 2 because the memory map size could
\* increase after we allocate" (main.c): what the loader does itself between
\* its two reads of the map and the end of boot services never makes the buffer
\* too small or the key stale.
LoaderAloneBoots ==
    status \in {"buffer too small", "invalid parameter"} => events > 0
=============================================================================
