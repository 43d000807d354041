---------------------------- MODULE MCBootMemory ----------------------------
(* Memory maps of a low part, the kernel image, usable memory with a hole  *)
(* or a reserved range in it, memory that is reclaimed, and a tail.        *)
EXTENDS BootMemory

Desc(type, start, pages) == [type |-> type, physical_start |-> start, num_pages |-> pages]

\* low memory; the image of size k; hole pages of nothing; usable memory;
\* reserved or reclaimed memory; usable memory up to the end
Layout(k, hole, usable, middle, end) ==
    <<Desc("conventional", 0, 2), Desc("loader code", 2, k),
      Desc("conventional", 2 + k + hole, usable),
      Desc(middle, 2 + k + hole + usable, 3),
      Desc("conventional", 5 + k + hole + usable, end - (5 + k + hole + usable))>>

MCMaps ==
    {Layout(k, hole, usable, middle, end) :
        k \in {2, 4, 10}, hole \in {0, 1}, usable \in {2, 4, 11},
        middle \in {"reserved", "boot services data"}, end \in {36, 44, 46}}

\* The kernel image is missing, memory is scarce, the end is reserved, usable
\* memory is scattered, or the image needs a second directory.
MCOddMaps ==
    {<<Desc("conventional", 0, 8)>>,
     <<Desc("loader code", 0, 2), Desc("conventional", 2, 6)>>,
     <<Desc("loader code", 0, 2), Desc("conventional", 2, 39), Desc("reserved", 41, 4)>>,
     <<Desc("loader code", 0, 2), Desc("conventional", 2, 10), Desc("reserved", 12, 23),
       Desc("conventional", 35, 9)>>,
     <<Desc("conventional", 0, 2), Desc("loader code", 2, 38), Desc("conventional", 40, 60)>>}

MCSizes == [o \in 0 .. 2 |-> 2 ^ o]

MCAllMaps == MCMaps \cup MCOddMaps
=============================================================================
