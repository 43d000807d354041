------------------------------- MODULE Machine -------------------------------
(***************************************************************************)
(* kernel_entry (kernel/src/main.c) on a machine: the descriptor tables,   *)
(* the ACPI tables, the PCI devices, the interrupt controllers and the     *)
(* keyboard, in the order in which the kernel sets them up, with the       *)
(* interrupts that may come meanwhile.                                     *)
(*                                                                         *)
(* A machine is a record that says what the firmware and the hardware hold *)
(* (see MCMachine).  Addresses are counted in pages, and every ACPI table  *)
(* has a page of its own; how kmap_phys_range finds address space is the   *)
(* subject of AddressSpace.  Memory suffices for what boot allocates; the  *)
(* calls of kalloc and alloc_pages are not seen to fail here.              *)
(***************************************************************************)
EXTENDS Keyboard, Screen, Descriptors

CONSTANTS
    Machines,           \* the machines to boot on
    Devices, Functions, \* devices on a bus and functions of a device (32 and 8)
    MAX_IOAPIC_COUNT, MAX_LAPIC_COUNT,
    AddressBits,        \* bits of a base address register
    Frames              \* what the processor may push when it faults

-----------------------------------------------------------------------------
(* The tables and registers, as far as the kernel looks at them.  A number *)
(* of a page stands for an address; sound says that the bytes add up to 0. *)

ACPISDTHeader == [signature : STRING, sound : BOOLEAN]
RSDP == [signature : STRING, sound : BOOLEAN, xsdt : Nat]
XSDT == [signature : STRING, sound : BOOLEAN, entries : Seq(Nat)]

MCFGEntry == [base : Nat \ {0}, start : Nat, end : Nat]
MCFG == [signature : STRING, sound : BOOLEAN, ranges : Seq(MCFGEntry)]
PCIConfigSpace0 == [class : STRING, multi : BOOLEAN]
PCIDeviceEntry == [class : STRING, config_space : Nat]

MADTEntry ==
    [type : {"lapic", "other"}]
    \cup [type : {"ioapic"}, number : Nat, id : Nat, base : Nat]
    \cup [type : {"override"}, irq : 0 .. 15, gsi : Nat]
    \cup [type : {"address"}, address : Nat \ {0}]
MADT == [signature : STRING, sound : BOOLEAN, lapic : Nat \ {0}, madt : Seq(MADTEntry)]
IOAPICInfo == [number : Nat, gsi_offset : Nat, used_irqs : Nat]
IOREDTBLEntry == [masked : BOOLEAN, vector : Nat, destination : Nat]
LocalAPIC == [address : Nat, enabled : BOOLEAN]

InterruptFrame == [rip : Nat, rsp : Nat, err : Nat, cr2 : Nat]

-----------------------------------------------------------------------------
(* What the hardware and the firmware of a machine can be relied on for.   *)

AcpiPages(x) == UNION {x.acpi[i].phys .. x.acpi[i].phys + x.acpi[i].pages - 1 : i \in DOMAIN x.acpi}

PageSize == 16

\* An address in the ACPI memory that the firmware names is that of a table,
\* and the signature of a table says what it holds.
TablesOK(x) ==
    LET signed(signature) == {p \in DOMAIN x.tables : x.tables[p].signature = signature}
        named == {x.rsdp} \cup {x.tables[p].xsdt : p \in signed("RSD PTR")}
                     \cup UNION {Range(x.tables[p].entries) : p \in signed("XSDT")}
    IN  /\ x.acpi \in Seq([phys : Nat \ {0}, pages : Nat])
        /\ named \subseteq Nat
        /\ named \cap AcpiPages(x) \subseteq DOMAIN x.tables
        /\ DOMAIN x.tables \subseteq Nat
        /\ \A p \in DOMAIN x.tables :
               x.tables[p] \in ACPISDTHeader \cup RSDP \cup XSDT \cup MADT \cup MCFG
        /\ \A p \in signed("RSD PTR") : x.tables[p] \in RSDP
        /\ \A p \in signed("XSDT") : x.tables[p] \in XSDT
        /\ \A p \in signed("APIC") : x.tables[p] \in MADT
        /\ \A p \in signed("MCFG") : x.tables[p] \in MCFG

\* The configuration spaces that a range of buses has, which start with a device.
\* Ranges have none in common.
RangePages(r) == r.base + r.start * Devices * Functions .. r.base + r.end * Devices * Functions - 1
FunctionsOK(x) ==
    /\ \A page \in DOMAIN x.functions : x.functions[page] \in PCIConfigSpace0
    /\ \A p \in DOMAIN x.tables : x.tables[p].signature = "MCFG" =>
           LET ranges == x.tables[p].ranges
           IN  \A i \in DOMAIN ranges :
                   /\ ranges[i].base % Functions = 0
                   /\ \A j \in DOMAIN ranges : i # j => RangePages(ranges[i]) \cap RangePages(ranges[j]) = {}

\* A base address register takes an address aligned to its size, a power of two.
BarOK(x) ==
    /\ x.bar \in [base : Nat \ {0}, size : Nat \ {0}, flags : 0 .. 15]
    /\ x.bar.size % PageSize = 0 /\ x.bar.base % x.bar.size = 0
    /\ (2 ^ AddressBits) % x.bar.size = 0

\* Interrupt 1 of the bus, as the overrides leave it.
KeyboardGsi(entries) ==
    LET of1 == {i \in DOMAIN entries : entries[i].type = "override" /\ entries[i].irq = 1}
    IN  IF of1 = {} THEN 1 ELSE entries[Max(of1)].gsi
\* The I/O APIC that the MADT gives the keyboard's interrupt to has the
\* keyboard's line, at that pin.
KeyboardOK(x) ==
    /\ x.ioapics \in Seq([irqs : 1 .. 256, hardware_id : Nat])
    /\ \A p \in DOMAIN x.tables : x.tables[p].signature = "APIC" =>
           LET entries == x.tables[p].madt
           IN  \A i \in DOMAIN entries : entries[i].type = "ioapic" =>
                   /\ entries[i].number \in DOMAIN x.ioapics
                   /\ KeyboardGsi(entries) - entries[i].base \in 0 .. x.ioapics[entries[i].number].irqs - 1
                          => /\ entries[i].number = x.keyboard.ioapic
                             /\ KeyboardGsi(entries) - entries[i].base = x.keyboard.pin

\* The firmware maps low memory, where the framebuffer is, to itself.
ScreenOK(x) == x.screen \in Framebuffer /\ x.framebuffer \in Nat \ {0} /\ 0 \in x.pml4

ASSUME MachineAssumption ==
    /\ Frames \subseteq InterruptFrame
    /\ {Devices, Functions, Byte, MAX_IOAPIC_COUNT, MAX_LAPIC_COUNT, 2 ^ AddressBits} \subseteq Nat \ {0}
    /\ \A x \in Machines :
           /\ TablesOK(x) /\ FunctionsOK(x) /\ BarOK(x) /\ KeyboardOK(x) /\ ScreenOK(x)
           /\ x.tss \in 0 .. Place(Byte, 8) - 1

-----------------------------------------------------------------------------
VARIABLES
    m,                  \* the machine
    phase,              \* what kernel_entry does
    kernel,             \* "running", or why the kernel stopped
    interrupts,         \* the interrupt flag
    idt,                \* the gates of the interrupt table, or the firmware's
    cpu, tss,           \* the segments and tables the processor uses; g_tss
    g_pml4,             \* the entries of the top-level table that are present
    framebuffer,        \* the page of the address in g_frame_buffer, 0 for the physical one
    pic,                \* whether the 8259 delivers interrupts
    kmap, freed,        \* the physical page behind every kernel page; pages given back
    g_remap_list,       \* where the ACPI memory is mapped
    g_xsdt,
    at,                 \* the position of the loop over functions or MADT entries
    g_pci_device_list,
    bar, controller,    \* BAR5 of the AHCI controller; the pages of its registers
    g_found_ioapics, g_lapic_count, g_gsi_override_table,
    lapic,              \* address and enable bit of the local APIC
    redtable,           \* the redirection entries of the I/O APICs
    screen, fault       \* what an exception handler draws, and the frame it was given

segmentVars == <<cpu, tss>>
bootVars == <<interrupts, idt, segmentVars, g_pml4, framebuffer, pic>>
acpiVars == <<g_remap_list, g_xsdt>>
pciVars == <<g_pci_device_list, bar, controller>>
apicVars == <<g_found_ioapics, g_lapic_count, g_gsi_override_table, lapic, redtable>>
mapVars == <<kmap, freed>>
faultVars == <<screen, fault>>
vars == <<m, phase, kernel, faultVars, bootVars, acpiVars, pciVars, apicVars, mapVars, at, kbVars>>

-----------------------------------------------------------------------------
Running == kernel = "running"
FirmwareIdt == [v \in {-1} |-> [handler |-> "firmware", selector |-> 0, ist |-> 0, type_attr |-> 0]]
FirmwareSegments == [gdt |-> <<>>, tr |-> 0, ss |-> 0, cs |-> 0]
PAGE_FAULT == 14
GENERAL_PROTECTION_FAULT == 13
KB_VECTOR == 33
KERNEL_PML4_OFFSET == 480

NoFault == [rip |-> 0, rsp |-> 0, err |-> 0, cr2 |-> 0]

\* KERNEL_ASSERT and the triple fault.
Stop(reason) ==
    /\ kernel' = reason
    /\ UNCHANGED <<m, phase, faultVars, bootVars, acpiVars, pciVars, apicVars, mapVars, at, kbVars>>

\* A call of kernel_entry has returned, and the next one begins.
Step(from, to) ==
    /\ Running
    /\ phase = from
    /\ phase' = to
    /\ UNCHANGED <<m, kernel, faultVars, kbVars>>

Init ==
    /\ m \in Machines
    /\ phase = "memory"
    /\ kernel = "running"
    /\ interrupts = TRUE
    /\ idt = FirmwareIdt /\ cpu = [segments |-> FirmwareSegments, star |-> <<>>] /\ tss = g_tss
    /\ g_pml4 = m.pml4
    /\ framebuffer = 0
    /\ pic = TRUE
    /\ kmap = <<>> /\ freed = <<>>
    /\ g_remap_list = <<>> /\ g_xsdt = 0
    /\ at = <<0, 0, 0, 0>>
    /\ g_pci_device_list = <<>>
    /\ bar = m.bar.base + m.bar.flags /\ controller = <<>>
    /\ g_found_ioapics = <<>> /\ g_lapic_count = 0
    /\ g_gsi_override_table = <<>>
    /\ lapic = [address |-> 0, enabled |-> FALSE]
    /\ redtable = [i \in DOMAIN m.ioapics |->
                      [n \in 0 .. m.ioapics[i].irqs - 1 |->
                          [masked |-> TRUE, vector |-> 0, destination |-> 0]]]
    /\ screen = clear_screen /\ fault = NoFault
    /\ KeyboardInit

-----------------------------------------------------------------------------
(* Memory, screen and descriptor tables.                                   *)

\* kmap_phys_range: a page that was given back fits exactly, or the space grows.
MapPages(phys, pages) ==
    IF pages = 1 /\ freed # <<>>
    THEN [virt |-> Head(freed), kmap |-> [kmap EXCEPT ![Head(freed)] = phys], freed |-> Tail(freed)]
    ELSE [virt |-> Len(kmap) + 1, kmap |-> kmap \o [i \in 1 .. pages |-> phys + i - 1],
          freed |-> freed]

Mapped(r) == kmap' = r.kmap /\ freed' = r.freed

\* The table that initialize_paging builds keeps the firmware's entries, through
\* which physical addresses are mapped to themselves, next to the kernel's.
Retained(uefi_pml4) == uefi_pml4 \cup {KERNEL_PML4_OFFSET}

\* initialize_memory, jump_to_kernel_virtual.
initialize_memory ==
    /\ Step("memory", "framebuffer")
    /\ g_pml4' = Retained(g_pml4)
    /\ UNCHANGED <<interrupts, idt, segmentVars, framebuffer, pic, acpiVars, pciVars, apicVars, mapVars, at>>

remap_framebuffer ==
    /\ Step("framebuffer", "acpi memory")
    /\ LET r == MapPages(m.framebuffer, FramebufferPages(m.screen, PageSize))
       IN  framebuffer' = r.virt /\ Mapped(r)
    /\ UNCHANGED <<interrupts, idt, segmentVars, g_pml4, pic, acpiVars, pciVars, apicVars, at>>

\* The stack of the interrupt stack table is two pages from alloc_pages.
TssStack == 30
setup_gdt_and_tss ==
    /\ Step("gdt", "idt")
    /\ interrupts' = FALSE
    /\ LET r == MapPages(TssStack, 2)
       IN  Mapped(r) /\ tss' = [tss EXCEPT !.interrupt_stack_table = r.virt + 2]
    /\ cpu' = [cpu EXCEPT !.segments = Loaded(WithTss(g_gdt, m.tss))]
    /\ UNCHANGED <<idt, g_pml4, framebuffer, pic, acpiVars, pciVars, apicVars, at>>

\* setup_idt loads the empty table and enables interrupts.
setup_idt ==
    /\ Step("idt", "exceptions")
    /\ idt' = <<>>
    /\ interrupts' = TRUE
    /\ UNCHANGED <<segmentVars, g_pml4, framebuffer, pic, acpiVars, pciVars, apicVars, mapVars, at>>

register_exception_interrupts ==
    /\ Step("exceptions", "reclaim")
    /\ LET all == [v \in (0 .. 31) \cup DOMAIN idt |->
                      IF v \in 0 .. 31
                      THEN register_interrupt(idt, v, INTERRUPT_GATE, FALSE, "unimplemented exception")[v]
                      ELSE idt[v]]
       IN  idt' = register_interrupt(
                      register_interrupt(all, PAGE_FAULT, INTERRUPT_GATE, FALSE, "page fault"),
                      GENERAL_PROTECTION_FAULT, INTERRUPT_GATE, FALSE, "general protection fault")
    /\ UNCHANGED <<interrupts, segmentVars, g_pml4, framebuffer, pic, acpiVars, pciVars, apicVars, mapVars, at>>

free_uefi_memory_and_remove_identity_mapping ==
    /\ Step("reclaim", "acpi")
    /\ g_pml4' = {i \in g_pml4 : i >= KERNEL_PML4_OFFSET}
    /\ UNCHANGED <<interrupts, idt, segmentVars, framebuffer, pic, acpiVars, pciVars, apicVars, mapVars, at>>

\* A text of n characters whose wording does not matter.
Text(n) == [i \in 1 .. n |-> 73]

\* Lines that two of the exception handlers begin with: a title, RIP and RSP.
FaultLines(title, f) ==
    LET named == put_string(clear_screen, title, 10, 10)
        rip == put_hex(put_string(named, Text(21), 10, 11), f.rip, 31, 11)
    IN  put_hex(put_string(rip, Text(21), 10, 12), f.rsp, 31, 12)

unimplemented_exception(f) == FaultLines(Text(23), f)

general_protection_fault(f) ==
    LET err == put_binary(put_string(FaultLines(Text(2), f), Text(5), 10, 14),
                          (f.err \div 2) % 4, 15, 14)
    IN  put_hex(put_string(err, Text(16), 10, 15), (f.err \div 16) % (2 ^ 13), 26, 15)

page_fault(f) ==
    LET cr2 == put_hex(put_string(FaultLines(Text(10), f), Text(20), 10, 13), f.cr2, 30, 13)
        bit(k) == (f.err \div 2 ^ k) % 2
        info == put_string(put_string(cr2, Text(17), 10, 15), Text(16 + 9 * bit(0)), 10, 16)
        user == put_string(put_string(info, Text(13), 10, 17), Text(8 * bit(2)), 10, 17 + bit(2))
        reserved == put_string(user, Text(12 * bit(3)), 10, 17 + bit(2) + bit(3))
    IN  put_string(reserved, Text(27 * bit(4)), 10, 18 + bit(2) + bit(3))

\* What the handlers draw.
Drawn(handler, f) ==
    CASE handler = "unimplemented exception" -> unimplemented_exception(f)
      [] handler = "general protection fault" -> general_protection_fault(f)
      [] handler = "page fault" -> page_fault(f)

\* The processor goes through the gate of a vector.  A vector without one is a
\* protection fault; without a single gate nothing can be handled.
Raise(vector) ==
    IF idt = <<>> THEN Stop("triple fault")
    ELSE LET gate == IF vector \in DOMAIN idt THEN vector ELSE GENERAL_PROTECTION_FAULT
         IN  /\ kernel' = idt[gate].handler
             /\ fault' \in Frames
             /\ screen' = Drawn(idt[gate].handler, fault')
             /\ UNCHANGED <<m, phase, bootVars, acpiVars, pciVars, apicVars, mapVars, at, kbVars>>

\* An interrupt of the 8259 before setup_apic has remapped and masked it, at a
\* vector the firmware chose: among the exceptions, or above them.
PicInterrupt ==
    /\ Running
    /\ pic /\ interrupts
    /\ idt # FirmwareIdt
    /\ \E vector \in m.pic : Raise(vector)

-----------------------------------------------------------------------------
(* ACPI.                                                                   *)

range_contains(page, r) == r.phys <= page /\ page < r.phys + r.pages

\* One iteration of the second loop of prepare_acpi_memory.
RemapRange(s, r) ==
    [list |-> Append(s.list, [phys |-> r.phys, virt |-> Len(s.kmap) + 1, pages |-> r.pages]),
     kmap |-> s.kmap \o [i \in 1 .. r.pages |-> r.phys + i - 1]]

prepare_acpi_memory ==
    /\ Step("acpi memory", "gdt")
    /\ LET done == FoldLeft(RemapRange, [list |-> <<>>, kmap |-> kmap], m.acpi)
       IN  g_remap_list' = done.list /\ kmap' = done.kmap
    /\ UNCHANGED <<bootVars, freed, g_xsdt, pciVars, apicVars, at>>

\* get_virtual_acpi_address: the first range that contains the address, or 0.
get_virtual_acpi_address_Size(phys) ==
    LET i == SelectInSeq(g_remap_list, LAMBDA r : range_contains(phys, [r EXCEPT !.pages = @ - 1]))
    IN  IF i = 0 THEN 0 ELSE g_remap_list[i].virt - g_remap_list[i].phys + phys
get_virtual_acpi_address(phys) ==
    LET i == SelectInSeq(g_remap_list, LAMBDA r : range_contains(phys, r))
    IN  IF i = 0 THEN 0 ELSE g_remap_list[i].virt - g_remap_list[i].phys + phys

\* What lies at a kernel address, as far as it is an ACPI table.
TableAt(virt) == m.tables[kmap[virt]]

\* The signature is the wanted one and the bytes add up to zero.
sdt_is_valid(virt, signature) == TableAt(virt).signature = signature /\ TableAt(virt).sound

Rsdp == get_virtual_acpi_address(m.rsdp)
Xsdt == get_virtual_acpi_address(TableAt(Rsdp).xsdt)
AcpiValid ==
    /\ Rsdp # 0 /\ sdt_is_valid(Rsdp, "RSD PTR")
    /\ Xsdt # 0 /\ sdt_is_valid(Xsdt, "XSDT")

initialize_acpi ==
    /\ phase = "acpi"
    /\ AcpiValid
    /\ Step("acpi", "pci")
    /\ g_xsdt' = Xsdt
    /\ UNCHANGED <<bootVars, g_remap_list, pciVars, apicVars, mapVars, at>>

\* The assertions of initialize_acpi.
AcpiRefused ==
    /\ Running
    /\ phase = "acpi"
    /\ ~AcpiValid
    /\ Stop("invalid ACPI tables")

\* find_table walks the XSDT to the first table with the signature.  An entry
\* outside of the ACPI memory is read at address 0.
Entries == [i \in DOMAIN TableAt(g_xsdt).entries |->
               get_virtual_acpi_address(TableAt(g_xsdt).entries[i])]
find_table(signature) ==
    LET i == SelectInSeq(Entries, LAMBDA v : v = 0 \/ TableAt(v).signature = signature)
    IN  IF i = 0 THEN 0 ELSE IF Entries[i] = 0 THEN -1 ELSE Entries[i]

\* The assertions that a table was found, and the read at address 0.
TableMissing(signature) ==
    /\ Running
    /\ phase = IF signature = "MCFG" THEN "pci" ELSE "apic"
    /\ at = <<0, 0, 0, 0>>
    /\ \/ find_table(signature) = 0 /\ Stop("table not found")
       \/ find_table(signature) = -1 /\ Raise(PAGE_FAULT)

-----------------------------------------------------------------------------
(* PCI.                                                                    *)

Ranges == TableAt(find_table("MCFG")).ranges
ConfigPage == Ranges[at[1]].base + (at[2] * Devices + at[3]) * Functions + at[4]

\* The position of the loops: range, bus, device, function.
FirstFunction(i) ==
    LET rest == {j \in i .. Len(Ranges) : Ranges[j].start < Ranges[j].end}
        j == CHOOSE j \in rest : \A k \in rest : j <= k
    IN  IF rest = {} THEN <<Len(Ranges) + 1, 0, 0, 0>> ELSE <<j, Ranges[j].start, 0, 0>>
NextDevice ==
    IF at[3] + 1 < Devices THEN <<at[1], at[2], at[3] + 1, 0>>
    ELSE IF at[2] + 1 < Ranges[at[1]].end THEN <<at[1], at[2] + 1, 0, 0>>
    ELSE FirstFunction(at[1] + 1)
NextFunction == IF at[4] + 1 < Functions THEN [at EXCEPT ![4] = @ + 1] ELSE NextDevice

StartEnumeration ==
    /\ Step("pci", "functions")
    /\ find_table("MCFG") > 0
    /\ at' = FirstFunction(1)
    /\ UNCHANGED <<bootVars, acpiVars, pciVars, apicVars, mapVars>>

Exists == ConfigPage \in DOMAIN m.functions

\* The test reads the function's own header; a function that does not exist
\* reads as ones.
IsMultiFunction == Exists => m.functions[ConfigPage].multi

\* kunmap_range of the page that was just mapped.
Unmapped_Leaks(r) == [r EXCEPT !.kmap[r.virt] = 0]
Unmapped(r) == [r EXCEPT !.kmap[r.virt] = 0, !.freed = <<r.virt>> \o @]

\* One iteration of the loops of enumerate_pci_devices.
VisitFunction ==
    LET r == MapPages(ConfigPage, 1)
    IN  /\ phase = "functions"
        /\ at[1] <= Len(Ranges)
        /\ Step("functions", "functions")
        /\ \/ /\ at[4] > 0 /\ ~IsMultiFunction
              /\ Mapped(Unmapped(r))
              /\ at' = NextDevice
              /\ UNCHANGED g_pci_device_list
           \/ /\ at[4] > 0 => IsMultiFunction
              /\ ~Exists
              /\ Mapped(Unmapped(r))
              /\ at' = NextFunction
              /\ UNCHANGED g_pci_device_list
           \/ /\ at[4] > 0 => IsMultiFunction
              /\ Exists
              /\ Mapped(r)
              /\ at' = NextFunction
              /\ g_pci_device_list' =
                     <<[class |-> m.functions[ConfigPage].class, config_space |-> r.virt]>>
                         \o g_pci_device_list
        /\ UNCHANGED <<bootVars, acpiVars, bar, controller, apicVars>>

EnumerationEnds ==
    /\ phase = "functions"
    /\ at[1] > Len(Ranges)
    /\ Step("functions", "apic")
    /\ at' = <<0, 0, 0, 0>>
    /\ UNCHANGED <<bootVars, acpiVars, pciVars, apicVars, mapVars>>

\* get_pci_device: the first entry of the list with the class, or 0.
get_pci_device(class) ==
    LET i == SelectInSeq(g_pci_device_list, LAMBDA d : d.class = class)
    IN  IF i = 0 THEN 0 ELSE g_pci_device_list[i].config_space

-----------------------------------------------------------------------------
(* The interrupt controllers.                                              *)

\* setup_apic masks the 8259 and resets the override table.
Madt == TableAt(find_table("APIC"))
StartApic ==
    /\ Step("apic", "madt")
    /\ find_table("APIC") > 0
    /\ sdt_is_valid(find_table("APIC"), "APIC")
    /\ pic' = FALSE
    /\ g_gsi_override_table' = [n \in 0 .. 15 |-> n]
    /\ lapic' = [lapic EXCEPT !.address = Madt.lapic]
    /\ at' = <<1, 0, 0, 0>>
    /\ UNCHANGED <<interrupts, idt, segmentVars, g_pml4, framebuffer, acpiVars, pciVars, g_found_ioapics,
                   g_lapic_count, redtable, mapVars>>

MadtInvalid ==
    /\ Running
    /\ phase = "apic"
    /\ find_table("APIC") > 0
    /\ ~sdt_is_valid(find_table("APIC"), "APIC")
    /\ Stop("invalid MADT")

\* read_ioapic_id: bits 24 to 26 of the register, of the four that hold the id.
read_ioapic_id(io) == io.hardware_id % 8

\* read_ioapic_mre: bits 16 to 23, the number of the last entry.
read_ioapic_mre(io) == (io.irqs - 1) % 256

\* One iteration of the loop over the MADT.
ParseEntry ==
    LET e == Madt.madt[at[1]]
    IN  /\ phase = "madt"
        /\ at[1] <= Len(Madt.madt)
        /\ Step("madt", "madt")
        /\ at' = [at EXCEPT ![1] = @ + 1]
        /\ \/ /\ e.type = "lapic"
              /\ g_lapic_count < MAX_LAPIC_COUNT
              /\ g_lapic_count' = g_lapic_count + 1
              /\ UNCHANGED <<g_found_ioapics, g_gsi_override_table, lapic, mapVars>>
           \/ /\ e.type = "ioapic"
              /\ Len(g_found_ioapics) < MAX_IOAPIC_COUNT
              /\ e.id = read_ioapic_id(m.ioapics[e.number])
              /\ Mapped(MapPages(90 + e.number, 1))
              /\ g_found_ioapics' = Append(g_found_ioapics,
                     [number |-> e.number, gsi_offset |-> e.base,
                      used_irqs |-> 1 + read_ioapic_mre(m.ioapics[e.number])])
              /\ UNCHANGED <<g_lapic_count, g_gsi_override_table, lapic>>
           \/ /\ e.type = "override"
              /\ g_gsi_override_table' = [g_gsi_override_table EXCEPT ![e.irq] = e.gsi]
              /\ UNCHANGED <<g_found_ioapics, g_lapic_count, lapic, mapVars>>
           \/ /\ e.type = "address"
              /\ lapic' = [lapic EXCEPT !.address = e.address]
              /\ UNCHANGED <<g_found_ioapics, g_lapic_count, g_gsi_override_table, mapVars>>
           \/ /\ e.type = "other"
              /\ UNCHANGED <<g_found_ioapics, g_lapic_count, g_gsi_override_table, lapic, mapVars>>
        /\ UNCHANGED <<bootVars, acpiVars, pciVars, redtable>>

\* KERNEL_ASSERT(stored_id == fetched_id, ...), and the arrays at their end,
\* behind which other variables lie.
EntryRefused ==
    LET e == Madt.madt[at[1]]
    IN  /\ Running
        /\ phase = "madt"
        /\ at[1] <= Len(Madt.madt)
        /\ \/ /\ e.type = "lapic"
              /\ g_lapic_count >= MAX_LAPIC_COUNT
              /\ Stop("written behind the array")
           \/ /\ e.type = "ioapic"
              /\ Stop(IF Len(g_found_ioapics) >= MAX_IOAPIC_COUNT
                      THEN "written behind the array" ELSE "ID mismatch")
              /\ \/ Len(g_found_ioapics) >= MAX_IOAPIC_COUNT
                 \/ e.id # read_ioapic_id(m.ioapics[e.number])

EnableLocalApic ==
    /\ phase = "madt"
    /\ at[1] > Len(Madt.madt)
    /\ Step("madt", "ahci")
    /\ lapic' = [lapic EXCEPT !.enabled = TRUE]
    /\ Mapped(MapPages(lapic.address, 1))
    /\ at' = <<0, 0, 0, 0>>
    /\ UNCHANGED <<bootVars, acpiVars, pciVars, g_found_ioapics, g_lapic_count,
                   g_gsi_override_table, redtable>>

\* get_responsible_ioapic, as an index into g_found_ioapics.
get_responsible_ioapic_Inclusive(gsi) ==
    SelectInSeq(g_found_ioapics,
                LAMBDA io : io.gsi_offset <= gsi /\ gsi <= io.gsi_offset + io.used_irqs)
get_responsible_ioapic(gsi) ==
    SelectInSeq(g_found_ioapics,
                LAMBDA io : io.gsi_offset <= gsi /\ gsi < io.gsi_offset + io.used_irqs)

-----------------------------------------------------------------------------
(* The AHCI controller's registers.                                        *)

\* What the register of a block of the given size holds after v was written:
\* the address bits within the block are zero, the low four bits are flags.
BarReads(v) == ((v \div m.bar.size) * m.bar.size) + m.bar.flags
Ones == (2 ^ AddressBits) - 1

\* BAR5 & 0xfffffff0.
AddressOf(v) == (v \div 16) * 16

\* ~(BAR5 & 0xfffffff0) + 1 in AddressBits bits, in pages.
Pages == (((2 ^ AddressBits) - AddressOf(BarReads(Ones))) + PageSize - 1) \div PageSize

\* What is in the register once its size is known.
Restored_Skipped(abar) == BarReads(Ones)
Restored(abar) == BarReads(abar)

\* The first block of initialize_ahci: the size is found by writing ones.
MapController ==
    LET r == MapPages(AddressOf(bar) \div PageSize, Pages)
    IN  /\ phase = "ahci"
        /\ get_pci_device("ahci") # 0 /\ m.addresses64
        /\ Step("ahci", "syscalls")
        /\ bar' = Restored(bar)
        /\ controller' = [i \in 1 .. Pages |-> r.virt + i - 1]
        /\ Mapped(r)
        /\ UNCHANGED <<bootVars, acpiVars, g_pci_device_list, apicVars, at>>

\* The assertions that there is a controller and that it can use all of memory.
NoController ==
    /\ Running
    /\ phase = "ahci"
    /\ \/ get_pci_device("ahci") = 0 /\ Stop("AHCI controller not found")
       \/ get_pci_device("ahci") # 0 /\ ~m.addresses64 /\ Stop("no 64-bit addressing")

\* prepare_syscalls writes EFER, STAR and LSTAR and the table.
prepare_syscalls ==
    /\ Step("syscalls", "keyboard")
    /\ cpu' = [cpu EXCEPT !.star = Star]
    /\ UNCHANGED <<interrupts, idt, tss, g_pml4, framebuffer, pic, acpiVars, pciVars, apicVars, mapVars, at>>

-----------------------------------------------------------------------------
(* register_ps2_interrupt: the lower half of the entry, which unmasks it,  *)
(* then the upper half, then the handler.                                  *)

KbGsi == g_gsi_override_table[1]
KbIoapic == g_found_ioapics[get_responsible_ioapic(KbGsi)]
KbPin == KbGsi - KbIoapic.gsi_offset

SetEntry(entry) == redtable' = [redtable EXCEPT ![KbIoapic.number][KbPin] = entry]
KbEntry == redtable[KbIoapic.number][KbPin]

WriteLower ==
    /\ phase = "keyboard"
    /\ get_responsible_ioapic(KbGsi) # 0
    /\ Step("keyboard", "destination")
    /\ SetEntry([masked |-> FALSE, vector |-> KB_VECTOR, destination |-> KbEntry.destination])
    /\ UNCHANGED <<bootVars, acpiVars, pciVars, g_found_ioapics, g_lapic_count,
                   g_gsi_override_table, lapic, mapVars, at>>

NoIoapic ==
    /\ Running
    /\ phase = "keyboard"
    /\ get_responsible_ioapic(KbGsi) = 0
    /\ Stop("no I/O APIC for the keyboard")

\* The destination is the low byte of the id register, whose high byte holds
\* the id of the local APIC.
WriteUpper ==
    /\ Step("destination", "handler")
    /\ SetEntry([KbEntry EXCEPT !.destination = 0])
    /\ UNCHANGED <<bootVars, acpiVars, pciVars, g_found_ioapics, g_lapic_count,
                   g_gsi_override_table, lapic, mapVars, at>>

\* register_interrupt(0x21, ...), then initialize_process_system.
RegisterHandler ==
    /\ Step("handler", "idle")
    /\ idt' = register_interrupt(idt, KB_VECTOR, INTERRUPT_GATE, FALSE, "kb_handler")
    /\ UNCHANGED <<interrupts, segmentVars, g_pml4, framebuffer, pic, acpiVars, pciVars, apicVars, mapVars, at>>

-----------------------------------------------------------------------------
(* Keyboard interrupts.  The line is wired to a pin of an I/O APIC, which  *)
(* ignores an edge while the entry is masked, and sends it to a local APIC *)
(* when it is not.  What the controller held before the entry was unmasked *)
(* is not read by register_ps2_interrupt, and keeps the line up.           *)

Wired == redtable[m.keyboard.ioapic][m.keyboard.pin]

PassedOn == ~Wired.masked /\ Wired.destination = m.lapic_id /\ lapic.enabled

Delivered ==
    /\ Running
    /\ interrupts
    /\ lapic.enabled
    /\ irq /\ ~in_service

KeyboardInterrupt ==
    /\ Delivered
    /\ Wired.vector \in DOMAIN idt
    /\ kb_handler \/ NothingToRead
    /\ UNCHANGED <<m, phase, kernel, faultVars, bootVars, acpiVars, pciVars, apicVars, mapVars, at>>

\* The entry is unmasked before the handler is registered.
NoHandler ==
    /\ Delivered
    /\ Wired.vector \notin DOMAIN idt
    /\ Raise(Wired.vector)

Press(key) ==
    /\ Running
    /\ KeyEvent(key, PassedOn)
    /\ UNCHANGED <<m, phase, kernel, faultVars, bootVars, acpiVars, pciVars, apicVars, mapVars, at>>

SpuriousEdge ==
    /\ Running
    /\ m.spurious /\ phase = "idle"
    /\ byte = NoByte /\ PassedOn /\ ~irq
    /\ irq' = TRUE
    /\ UNCHANGED <<held, byte, in_service, g_kbstatus, g_last_char_changed, callVars, historyVars>>
    /\ UNCHANGED <<m, phase, kernel, faultVars, bootVars, acpiVars, pciVars, apicVars, mapVars, at>>

\* A program calls ps2_getch through syscall_getch.
Getch ==
    /\ Running
    /\ phase = "idle"
    /\ ps2_getch_Clear \/ ps2_getch_Test \/ ps2_getch_Return
    /\ UNCHANGED <<m, phase, kernel, faultVars, bootVars, acpiVars, pciVars, apicVars, mapVars, at>>

Halted == ~Running /\ UNCHANGED vars

Boot ==
    \/ initialize_memory \/ remap_framebuffer \/ prepare_acpi_memory
    \/ setup_gdt_and_tss \/ setup_idt \/ register_exception_interrupts
    \/ free_uefi_memory_and_remove_identity_mapping
    \/ initialize_acpi \/ AcpiRefused
    \/ StartEnumeration \/ VisitFunction \/ EnumerationEnds
    \/ StartApic \/ MadtInvalid \/ ParseEntry \/ EntryRefused \/ EnableLocalApic
    \/ MapController \/ NoController \/ prepare_syscalls
    \/ WriteLower \/ NoIoapic \/ WriteUpper \/ RegisterHandler
    \/ TableMissing("MCFG") \/ TableMissing("APIC")

Next ==
    \/ Boot
    \/ PicInterrupt \/ KeyboardInterrupt \/ NoHandler \/ SpuriousEdge
    \/ \E key \in Keys : Press(key)
    \/ Getch
    \/ Halted

\* The processor goes on and takes interrupts; somebody types, slowly enough
\* for the loop of ps2_getch to look at the character in between.
Fairness ==
    /\ WF_vars(Boot)
    /\ WF_vars(KeyboardInterrupt)
    /\ SF_vars(Getch)
    /\ \A key \in Keys : SF_vars(Press(key))

Spec == Init /\ [][Next]_vars /\ Fairness

-----------------------------------------------------------------------------
(* Properties.                                                             *)

TypeOK ==
    /\ m \in Machines
    /\ kernel \in {"running", "triple fault", "unimplemented exception", "invalid ACPI tables",
                  "table not found", "page fault", "invalid MADT", "written behind the array",
                  "ID mismatch", "AHCI controller not found", "no 64-bit addressing", "no I/O APIC for the keyboard",
                  "general protection fault"}
    /\ freed \in Seq(DOMAIN kmap)
    /\ g_lapic_count \in 0 .. MAX_LAPIC_COUNT
    /\ g_found_ioapics \in Seq(IOAPICInfo) /\ Len(g_found_ioapics) <= MAX_IOAPIC_COUNT
    /\ g_pci_device_list \in Seq(PCIDeviceEntry)
    /\ lapic \in LocalAPIC
    /\ \A i \in DOMAIN redtable : redtable[i] \in [DOMAIN redtable[i] -> IOREDTBLEntry]
    /\ fault \in InterruptFrame
    /\ \A vector \in DOMAIN idt : idt[vector] \in IDTEntry
    /\ cpu.segments.gdt \in Seq(GDTEntry)
    /\ KeyboardTypeOK

\* The table maps the framebuffer's address, a physical one at first.  Once it is
\* a virtual one, a pixel in the first width times height pixels of the memory
\* is drawn there.  These are all pixels of a screen without padding, each in a
\* place of its own, and the places the terminal draws to.  With padding, pixels
\* of the last lines lie behind what remap_framebuffer maps.
PixelsMapped ==
    /\ (IF framebuffer = 0 THEN 0 ELSE KERNEL_PML4_OFFSET) \in g_pml4
    /\ framebuffer # 0 =>
           LET pixels == (0 .. m.screen.width - 1) \X (0 .. m.screen.height - 1)
               offset(p) == put_pixel_Offset(m.screen, p[1], p[2])
               inside(p) == offset(p) < m.screen.width * m.screen.height * 4
           IN  /\ \A p \in pixels : inside(p) =>
                   /\ framebuffer + (offset(p) \div PageSize) \in DOMAIN kmap
                   /\ kmap[framebuffer + (offset(p) \div PageSize)] = m.framebuffer + (offset(p) \div PageSize)
               /\ m.screen.pixels_per_scanline = m.screen.width =>
                   /\ terminal_Offsets(m.screen) = {offset(p) : p \in pixels}
                   /\ \A p \in pixels : inside(p) /\ \A q \in pixels : q # p => offset(q) # offset(p)

\* The segments that the kernel loads, names in its gates and leaves to syscall,
\* sysretq and iretq are, in the table that is loaded, code and data segments
\* of the privilege they are meant for; the processor finds the TSS; and the
\* stack in it is mapped.
SegmentsExact ==
    LET gdt == cpu.segments.gdt
    IN  gdt # <<>> =>
            /\ AreSegments(gdt, cpu.segments, 0)
            /\ AreSegments(gdt, StartFrame, 3)
            /\ TssAddress(gdt, cpu.segments.tr) = m.tss
            /\ \A page \in tss.interrupt_stack_table - 2 .. tss.interrupt_stack_table - 1 :
                   page \in DOMAIN kmap /\ kmap[page] # 0
            /\ idt # FirmwareIdt => \A v \in DOMAIN idt :
                   /\ IsSegment(gdt, idt[v].selector, 1, 0)
                   /\ Bit(idt[v].type_attr, 128) = 1 /\ (idt[v].type_attr \div 32) % 4 = 0
            /\ cpu.star # <<>> => /\ AreSegments(gdt, OnSyscall(cpu.star), 0)
                                 /\ AreSegments(gdt, OnSysret(cpu.star), 3)

\* The number that can be read at a place of the screen.
Shown(x, y) ==
    LET digit(i) == screen[<<x + 1 + i, y>>] - (IF screen[<<x + 1 + i, y>>] >= 65 THEN 55 ELSE 48)
        n == CHOOSE n \in 0 .. Nibbles : /\ <<x + 2 + n, y>> \notin DOMAIN screen
                                         /\ \A i \in 1 .. n : <<x + 1 + i, y>> \in DOMAIN screen
    IN  FoldLeft(LAMBDA v, d : 16 * v + d, 0, [i \in 1 .. n |-> digit(i)])

\* What an exception handler draws can be read: the instruction, the stack and
\* the address of the fault are on the screen in full, and no line has drawn
\* over another one.
FaultReadable ==
    /\ fault # NoFault => Shown(31, 11) = fault.rip /\ Shown(31, 12) = fault.rsp
    /\ kernel = "page fault" => Shown(30, 13) = fault.cr2
    /\ kernel = "general protection fault" => Shown(26, 15) = (fault.err \div 16) % (2 ^ 13)

\* Every page of the firmware's ACPI memory is found through the remap list,
\* whatever was mapped and given back since prepare_acpi_memory.
AcpiMemoryReadable ==
    phase \notin {"memory", "framebuffer", "acpi memory"} =>
        \A i \in DOMAIN m.acpi : \A page \in m.acpi[i].phys .. m.acpi[i].phys + m.acpi[i].pages - 1 :
            LET v == get_virtual_acpi_address(page)
            IN  v \in DOMAIN kmap /\ kmap[v] = page

\* The functions on the buses of the MCFG entries, whose end bus is one of them.
BusPages(r) == RangePages([r EXCEPT !.end = @ + 1])
OnBus == {page \in DOMAIN m.functions : \E i \in DOMAIN Ranges : page \in BusPages(Ranges[i])}

\* The functions the code does not look for: those of an end bus, and those
\* behind a function that is not the first of its device and whose own header
\* does not have the bit, which is only asked for in the header of the first.
OnEndBus(page) ==
    \E i \in DOMAIN Ranges : page \in BusPages(Ranges[i]) \ RangePages(Ranges[i])
Hidden(page) ==
    \E q \in DOMAIN m.functions :
        /\ q <= page /\ q \div Functions = page \div Functions
        /\ q % Functions # 0 /\ ~m.functions[q].multi

\* enumerate_pci_devices lists functions of the buses, each once, with its class
\* and with its configuration space mapped; it misses only those of an end bus
\* and the hidden ones, and gives back the address space of all it does not list.
DevicesExact ==
    /\ TypeOK
    /\ Range(freed) = {v \in DOMAIN kmap : kmap[v] = 0}
    /\ phase \in {"apic", "madt", "ahci", "syscalls", "keyboard", "destination", "handler", "idle"} =>
        LET pages == [i \in DOMAIN g_pci_device_list |-> kmap[g_pci_device_list[i].config_space]]
        IN  /\ IsInjective(pages)
            /\ \A i \in DOMAIN pages :
                   /\ pages[i] \in OnBus
                   /\ m.functions[pages[i]].class = g_pci_device_list[i].class
            /\ \A page \in OnBus \ Range(pages) : OnEndBus(page) \/ Hidden(page)

\* The kernel maps all of the controller's registers and nothing else as its
\* registers, and finding out their size leaves the controller where it was.
ControllerMapped ==
    controller # <<>> =>
        /\ bar = m.bar.base + m.bar.flags
        /\ [i \in DOMAIN controller |-> kmap[controller[i]]] =
               [i \in 1 .. m.bar.size \div PageSize |-> (m.bar.base \div PageSize) + i - 1]

\* The kernel reaches the memory of its devices where it believes it to be.
DeviceMemoryMapped == PixelsMapped /\ ControllerMapped

\* Once the keyboard is set up, the pin that it is wired to raises its vector,
\* and no other pin was unmasked, whatever the MADT says about overrides and
\* about how the interrupts are split among the I/O APICs.
KeyboardRouted ==
    phase = "idle" =>
        \A i \in DOMAIN redtable : \A pin \in DOMAIN redtable[i] :
            /\ ~redtable[i][pin].masked <=> i = m.keyboard.ioapic /\ pin = m.keyboard.pin
            /\ ~redtable[i][pin].masked => redtable[i][pin].vector = KB_VECTOR

\* On a machine whose boot processor has the local APIC 0, and whose keyboard
\* raises its line only for a byte, a program that waits for a character gets
\* an answer as long as somebody types, unless the controller holds a byte that
\* no interrupt announces, from a key that was pressed while the kernel booted:
\* no byte that comes later is left there.
GetchReturns ==
    (getch = "wait" /\ m.lapic_id = 0 /\ ~m.spurious /\ (byte # NoByte => irq))
        ~> (getch = "idle" \/ ~Running)
=============================================================================
