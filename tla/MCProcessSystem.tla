--------------------------- MODULE MCProcessSystem ---------------------------
(* Two pages per segment at most, pages of two bytes.                      *)
EXTENDS ProcessSystem

Segment(vaddr, filesz, memsz, w) ==
    [load |-> TRUE, vaddr |-> vaddr, filesz |-> filesz, memsz |-> memsz, offset |-> 5,
     w |-> w, x |-> ~w]
Note == [load |-> FALSE, vaddr |-> 1, filesz |-> 1, memsz |-> 1, offset |-> 1,
         w |-> FALSE, x |-> FALSE]

\* Code and data, whose last byte is cleared, behind a gap of one page, which
\* the stack fills; a header of another type, and data behind a larger gap,
\* which the stack splits.
MCImages ==
    {[valid |-> TRUE, segments |-> <<Segment(4, 2, 2, FALSE), Segment(6, 1, 2, TRUE)>>],
     [valid |-> TRUE, segments |-> <<Segment(4, 2, 2, FALSE), Note, Segment(12, 1, 2, TRUE)>>],
     \* Segments that are not aligned, not ascending, empty, too large, and one
     \* that leaves no room for the stack.
     [valid |-> TRUE, segments |-> <<Segment(3, 1, 2, TRUE)>>],
     [valid |-> TRUE, segments |-> <<Segment(4, 1, 2, TRUE), Segment(2, 1, 2, TRUE)>>],
     [valid |-> TRUE, segments |-> <<Segment(2, 0, 0, TRUE)>>],
     [valid |-> TRUE, segments |-> <<Segment(2, 2, 40, TRUE)>>],
     [valid |-> TRUE, segments |-> <<Segment(2, 2, 15, TRUE)>>]}
=============================================================================
