------------------------------ MODULE ElfLoader ------------------------------
(***************************************************************************)
(* kernel/src/elf_loader.c: an ELF image in memory becomes the pages of an *)
(* address space.                                                          *)
(***************************************************************************)
EXTENDS UserSpace

\* A program header, and a file: whether its identification is accepted, and
\* its program headers.
Elf64Phdr ==
    [load : BOOLEAN, vaddr : Nat, offset : Nat, filesz : Nat, memsz : Nat, w : BOOLEAN, x : BOOLEAN]
Elf64Ehdr == [valid : BOOLEAN, segments : Seq(Elf64Phdr)]

\* Memory as a function of the offset; a byte is named by where it comes from.
memset(mem, c, n) == [i \in DOMAIN mem |-> IF i < n THEN c ELSE mem[i]]
memcpy(mem, src, n) == [i \in DOMAIN mem |-> IF i < n THEN src + i ELSE mem[i]]

\* The bytes of the pages of a segment, cleared and then copied.
FreshBytes(pages) == [i \in 0 .. pages * PageSize - 1 |-> Junk]
SegmentBytes(h, pages) ==
    memcpy(memset(FreshBytes(pages), 0, pages * PageSize), h.offset, h.filesz)

SegmentFlags(h) ==
    (IF h.x THEN {"executable"} ELSE {}) \cup (IF h.w THEN {"writable"} ELSE {})

Failed(load, frames) == [load EXCEPT !.ok = FALSE, !.frames = frames]

\* One iteration of the loop over the program headers.  alloc_frames returns 0
\* for no pages and when there are too few frames.
LoadSegment(load, h) ==
    LET at == h.vaddr \div PageSize
        pages == (h.memsz + PageSize - 1) \div PageSize
        claimed == claim_virt_range(load.space, at, pages)
    IN  IF ~load.ok \/ ~h.load THEN load
        ELSE IF h.vaddr % PageSize # 0 \/ pages = 0 \/ pages > load.frames
             THEN Failed(load, load.frames)
        ELSE IF ~Claimable(load.space, at, pages) THEN Failed(load, load.frames - pages)
        ELSE [load EXCEPT
                !.frames = @ - pages,
                !.space = [claimed EXCEPT !.table = [v \in VirtPages |->
                    IF v \in at .. at + pages - 1
                    THEN Page(SegmentFlags(h), [b \in Bytes |-> SegmentBytes(h, pages)[(v - at) * PageSize + b]])
                    ELSE claimed.table[v]]]]

\* load_elf_from_buff: the space it leaves, and whether it succeeded.
load_elf_from_buff(space, elf, frames) ==
    FoldLeft(LoadSegment, [ok |-> elf.valid, space |-> space, frames |-> frames], elf.segments)

-----------------------------------------------------------------------------
\* What an ELF file says of the memory of its process, byte by byte.
Describes(elf, space) ==
    \A i \in DOMAIN elf.segments :
        LET h == elf.segments[i]
        IN  h.load => \A n \in 0 .. h.memsz - 1 :
                LET page == space.table[(h.vaddr + n) \div PageSize]
                IN  /\ page.present
                    /\ page.bytes[(h.vaddr + n) % PageSize] =
                           (IF n < h.filesz THEN h.offset + n ELSE 0)
                    /\ ("writable" \in page.flags) = h.w
                    /\ ("executable" \in page.flags) = h.x
=============================================================================
