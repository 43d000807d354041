------------------------------ MODULE MCMachine ------------------------------
(* Machines that differ in what their firmware and hardware hold.  Pages 1 *)
(* to 9 are memory, 91 and 92 the I/O APICs, 100 and up the configuration  *)
(* spaces: one page per function, four functions a bus.                    *)
EXTENDS Machine

Table(signature) == [signature |-> signature, sound |-> TRUE]
LocalApic == [type |-> "lapic"]
Ioapic(number, id, base) == [type |-> "ioapic", number |-> number, id |-> id, base |-> base]
Override(source, gsi) == [type |-> "override", irq |-> source, gsi |-> gsi]
Address(address) == [type |-> "address", address |-> address]
Other == [type |-> "other"]

Func(class, multi) == [class |-> class, multi |-> multi]

\* One range of ACPI memory before the tables, one with them; two I/O APICs,
\* the keyboard on the first pin of the second; a multi-function device, and a
\* function of the end bus.
Plain ==
    [acpi |-> <<[phys |-> 2, pages |-> 1], [phys |-> 4, pages |-> 5]>>,
     rsdp |-> 4,
     tables |-> 4 :> [signature |-> "RSD PTR", sound |-> TRUE, xsdt |-> 5]
             @@ 5 :> [signature |-> "XSDT", sound |-> TRUE, entries |-> <<6, 7, 8>>]
             @@ 6 :> Table("FACP")
             @@ 7 :> [signature |-> "APIC", sound |-> TRUE, lapic |-> 50,
                      madt |-> <<LocalApic, Ioapic(1, 0, 0), Ioapic(2, 1, 1),
                                 Other, Address(51)>>]
             @@ 8 :> [signature |-> "MCFG", sound |-> TRUE,
                      ranges |-> <<[base |-> 100, start |-> 0, end |-> 2]>>],
     functions |-> 100 :> Func("bridge", FALSE) @@ 102 :> Func("ide", TRUE)
                @@ 103 :> Func("ahci", TRUE) @@ 106 :> Func("net", FALSE)
                @@ 109 :> Func("audio", TRUE),
     bar |-> [base |-> 64, size |-> 32, flags |-> 8],
     ioapics |-> <<[irqs |-> 1, hardware_id |-> 0], [irqs |-> 2, hardware_id |-> 1]>>,
     keyboard |-> [ioapic |-> 2, pin |-> 0],
     lapic_id |-> 0, addresses64 |-> TRUE, pic |-> {}, pml4 |-> {0}, tss |-> 27182, spurious |-> FALSE, framebuffer |-> 60,
     screen |-> [width |-> 3, height |-> 3, pixels_per_scanline |-> 3]]

WithMadt(entries) == [Plain EXCEPT !.tables[7].madt = entries]

\* The keyboard at the last pin through an override; two buses in two ranges,
\* one empty.
Redirected ==
    [WithMadt(<<LocalApic, Override(1, 2), Ioapic(2, 1, 1), Ioapic(1, 0, 0)>>)
     EXCEPT !.keyboard = [ioapic |-> 2, pin |-> 1],
            !.tables[8].ranges = <<[base |-> 100, start |-> 1, end |-> 1],
                                   [base |-> 100, start |-> 0, end |-> 1],
                                   [base |-> 200, start |-> 0, end |-> 1]>>,
            !.functions = 100 :> Func("bridge", TRUE) @@ 101 :> Func("usb", TRUE)
                       @@ 203 :> Func("ahci", TRUE),
            !.pic = {8, 104}, !.pml4 = {0, 255, 511},
            !.screen.pixels_per_scanline = 4]

\* What the kernel meets on the way and does not get past.
Refused ==
    {[Plain EXCEPT !.rsdp = 3],
     [Plain EXCEPT !.tables[4].sound = FALSE],
     [Plain EXCEPT !.tables[4].xsdt = 9],
     [Plain EXCEPT !.tables[5].sound = FALSE],
     [Plain EXCEPT !.tables[5].entries = <<6, 7>>],
     [Plain EXCEPT !.tables[5].entries = <<6, 8>>],
     [Plain EXCEPT !.tables[5].entries = <<6, 3, 7, 8>>],
     [Plain EXCEPT !.tables[7].sound = FALSE],
     [Plain EXCEPT !.addresses64 = FALSE],
     [Plain EXCEPT !.functions = 100 :> Func("bridge", FALSE) @@ 102 :> Func("ide", TRUE)],
     \* A multi-function device whose second function does not say so.
     [Plain EXCEPT !.functions[103] = Func("ahci", FALSE)],
     \* An I/O APIC with an id of four bits; too many of them; too many processors.
     [WithMadt(<<LocalApic, Ioapic(1, 9, 0)>>) EXCEPT !.ioapics[1].hardware_id = 9],
     WithMadt(<<Ioapic(1, 0, 0), Ioapic(2, 1, 1), Ioapic(2, 1, 1)>>),
     WithMadt(<<LocalApic, LocalApic, LocalApic>>),
     WithMadt(<<LocalApic, Ioapic(1, 0, 0)>>)}

MCFrames ==
    {[rip |-> 7, rsp |-> 65535, err |-> 5, cr2 |-> 0],
     [rip |-> 4660, rsp |-> 256, err |-> 282, cr2 |-> 43981]}

MCMachines ==
    {Plain, Redirected, [Plain EXCEPT !.lapic_id = 1], [Plain EXCEPT !.spurious = TRUE]} \cup Refused
=============================================================================
