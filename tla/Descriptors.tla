----------------------------- MODULE Descriptors -----------------------------
(***************************************************************************)
(* The descriptor tables (kernel/src/gdt.c, kernel/src/idt.c) and the      *)
(* selectors with which the rest of the kernel refers to them.             *)
(*                                                                         *)
(* An address is a number of eight bytes; the handler of a gate is a name. *)
(***************************************************************************)
EXTENDS Bytes, Sequences

CONSTANT
    Byte        \* values of a byte of an address

GDT_KERNEL_CODE_SEGMENT == 8
GDT_KERNEL_DATA_SEGMENT == 16
GDT_USER_DATA_SEGMENT == 32
GDT_USER_CODE_SEGMENT == 40
GDT_TSS_SEGMENT == 48

GDTEntry == [limit_0_15 : Nat, base_0_15 : Nat, base_16_23 : Nat, base_24_31 : Nat, access : Nat]

\* An entry whose other fields are zero.
Access(byte) ==
    [limit_0_15 |-> 0, base_0_15 |-> 0, base_16_23 |-> 0, base_24_31 |-> 0, access |-> byte]

\* null, kernel_code, kernel_data, null2, user_data, user_code, tss_low, tss_high.
g_gdt_CodeFirst ==
    <<Access(0), Access(\b10011010), Access(\b10010010), Access(0),
      Access(\b11111010), Access(\b11110010), Access(\b10001001), Access(0)>>
g_gdt ==
    <<Access(0), Access(\b10011010), Access(\b10010010), Access(0),
      Access(\b11110010), Access(\b11111010), Access(\b10001001), Access(0)>>

\* g_tss.interrupt_stack_table[0], as the first page behind the stack.
g_tss == [interrupt_stack_table |-> 0]

\* The address of the TSS, split over its two entries.
WithTss(gdt, address) ==
    [gdt EXCEPT ![7].base_0_15 = address % Place(Byte, 2),
                ![7].base_16_23 = (address \div Place(Byte, 2)) % Byte,
                ![7].base_24_31 = (address \div Place(Byte, 3)) % Byte,
                ![8].limit_0_15 = (address \div Place(Byte, 4)) % Place(Byte, 2),
                ![8].base_0_15 = (address \div Place(Byte, 6)) % Place(Byte, 2)]

\* What set_gdt_and_tss loads.
Loaded(gdt) ==
    [gdt |-> gdt, tr |-> GDT_TSS_SEGMENT, ss |-> GDT_KERNEL_DATA_SEGMENT,
     cs |-> GDT_KERNEL_CODE_SEGMENT]

\* The upper half of STAR, as prepare_syscalls writes it.
Star == [syscall |-> GDT_KERNEL_CODE_SEGMENT, sysret |-> (GDT_USER_CODE_SEGMENT + 3) - 16]

\* The selectors in the frame from which a new process gets its registers.
StartFrame == [cs |-> GDT_USER_CODE_SEGMENT + 3, ss |-> GDT_USER_DATA_SEGMENT + 3]

-----------------------------------------------------------------------------
(* The interrupt descriptor table: the gates that are present, by vector.  *)

INTERRUPT_GATE == 14
\* The routines that gates lead to.
Handlers == {"firmware", "unimplemented exception", "page fault", "general protection fault", "kb_handler"}
IDTEntry == [handler : Handlers, selector : Nat, ist : 0 .. 1, type_attr : Nat]

set_idt_gate(idt, irq, type, handler, selector, ist, privilege) ==
    LET gate == [handler |-> handler, selector |-> selector, ist |-> ist,
                 type_attr |-> 128 + ((64 * privilege) % 128) + type]
    IN  [v \in {irq} \cup DOMAIN idt |-> IF v = irq THEN gate ELSE idt[v]]

register_interrupt(idt, irq, type, ist, handler) ==
    set_idt_gate(idt, irq, type, handler, GDT_KERNEL_CODE_SEGMENT, IF ist THEN 1 ELSE 0, 0)

-----------------------------------------------------------------------------
(* The processor.                                                          *)

Selected(gdt, selector) == gdt[(selector \div 8) + 1]
\* The bit of a number that is worth so much.
Bit(n, worth) == (n \div worth) % 2

\* A present code or data segment for a privilege level.
IsSegment(gdt, selector, code, ring) ==
    LET access == Selected(gdt, selector).access
    IN  /\ Bit(access, 128) = 1 /\ Bit(access, 16) = 1
        /\ Bit(access, 8) = code
        /\ (access \div 32) % 4 = ring /\ selector % 4 = ring

AreSegments(gdt, s, ring) == IsSegment(gdt, s.cs, 1, ring) /\ IsSegment(gdt, s.ss, 0, ring)

\* Where a TSS descriptor says that the TSS is.
TssAddress(gdt, selector) ==
    LET low == Selected(gdt, selector) high == Selected(gdt, selector + 8)
    IN  low.base_0_15 + low.base_16_23 * Place(Byte, 2) + low.base_24_31 * Place(Byte, 3)
            + high.limit_0_15 * Place(Byte, 4) + high.base_0_15 * Place(Byte, 6)

\* syscall and sysretq take the segments from STAR.
OnSyscall(star) == [cs |-> star.syscall, ss |-> star.syscall + 8]
OnSysret(star) == [cs |-> star.sysret + 16, ss |-> star.sysret + 8]
=============================================================================
