----------------------------- MODULE MCBootLoader -----------------------------
(* Six or nine pages of two bytes.                                               *)
EXTENDS BootLoader

Segment(vaddr, filesz, memsz, offset) ==
    [load |-> TRUE, vaddr |-> vaddr, filesz |-> filesz, memsz |-> memsz, offset |-> offset]
Note == [load |-> FALSE, vaddr |-> 0, filesz |-> 1, memsz |-> 1, offset |-> 9]

\* The loader's image below or above free memory, and in two parts.
Free(n) == [i \in 1 .. n |-> "EfiConventionalMemory"]
MCMemories ==
    {<<"EfiBootServicesData", "EfiLoaderCode">> \o Free(4),
     Free(4) \o <<"EfiLoaderData", "EfiLoaderCode">>,
     Free(1) \o <<"EfiBootServicesData">> \o Free(7)}

\* Code, and data whose zeros reach into a page of their own; a segment without
\* file bytes behind a gap; too large; empty; of the wrong kind.  Every segment
\* starts behind the end of the one before it.
MCKernels ==
    {[valid |-> TRUE, entry |-> 3, segments |-> <<Note, Segment(2, 1, 1, 1), Segment(4, 1, 3, 5)>>],
     [valid |-> TRUE, entry |-> 2, segments |-> <<Segment(2, 1, 2, 1), Segment(6, 0, 1, 5)>>],
     [valid |-> TRUE, entry |-> 2, segments |-> <<Segment(2, 2, 20, 1)>>],
     [valid |-> TRUE, entry |-> 2, segments |-> <<Note>>],
     [valid |-> FALSE, entry |-> 2, segments |-> <<>>]}

\* A segment that starts where the one before it ends.
MCTightKernels ==
    {[valid |-> TRUE, entry |-> 2, segments |-> <<Segment(2, 2, 2, 1), Segment(4, 1, 2, 5)>>]}

Mode(format) ==
    [HorizontalResolution |-> 4, VerticalResolution |-> 3, PixelFormat |-> format,
     PixelsPerScanLine |-> 4]
MCModes == {Mode("PixelBlueGreenRedReserved8BitPerColor"), Mode("PixelBltOnly")}
MCTables ==
    {<<[VendorGuid |-> "SMBIOS", VendorTable |-> 1], [VendorGuid |-> "ACPI 2.0", VendorTable |-> 2]>>,
     <<[VendorGuid |-> "ACPI 1.0", VendorTable |-> 3]>>}
=============================================================================
