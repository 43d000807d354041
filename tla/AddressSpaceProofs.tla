------------------------- MODULE AddressSpaceProofs -------------------------
(***************************************************************************)
(* Theorems about an address space, for every size of it, every set of     *)
(* allocations and requests and every order of mapping, claiming,          *)
(* unmapping and changing flags.                                           *)
(***************************************************************************)
EXTENDS AddressSpace, Lemmas, TLAPS

-----------------------------------------------------------------------------
(* The frames of an allocation.                                            *)

\* The frames of a block, behind those mapped so far.
Behind(s, b) == s \o [i \in 1 .. b.pages |-> b.addr + i - 1]

\* The equation of the fold in FrameSeq, for the blocks 1 .. n.
Iterated(f, chain, n) ==
    f = [s \in SUBSET (1 .. n) |->
            IF s = {} THEN <<>> ELSE Behind(f[s \ {Max(s)}], chain[Max(s)])]

\* The equation has a solution, by induction on the number of blocks.
LEMMA FoldExists ==
    ASSUME NEW chain
    PROVE  \A n \in Nat : \E f : Iterated(f, chain, n)
<1> DEFINE S == {n \in Nat : \E f : Iterated(f, chain, n)}
<1>1. 0 \in S
  <2> DEFINE f == [s \in SUBSET (1 .. 0) |-> <<>>]
  <2>1. \A s \in SUBSET (1 .. 0) : s = {}
    OBVIOUS
  <2>2. Iterated(f, chain, 0)
    BY <2>1 DEF Iterated
  <2> QED BY <2>2
<1>2. ASSUME NEW n \in Nat, n \in S PROVE n + 1 \in S
  <2>1. PICK f : Iterated(f, chain, n)
    BY <1>2
  <2> DEFINE e == n + 1
  <2> DEFINE T == SUBSET (1 .. n)
  <2> DEFINE U == SUBSET (1 .. e)
  <2> DEFINE g == [s \in U |-> IF e \in s THEN Behind(f[s \ {e}], chain[e]) ELSE f[s]]
  <2>2. /\ \A s \in U : e \notin s => s \in T
        /\ \A s \in U : s \ {e} \in T
        /\ \A s \in T : s \in U /\ e \notin s
        /\ \A s \in U : e \in s => s # {} /\ \A x \in s : x \in Int /\ x <= e
        /\ e \in Int
    OBVIOUS
  <2>3. ASSUME NEW s \in U, e \in s PROVE Max(s) = e
    <3> HIDE DEF e, U
    <3> QED BY <2>2, <2>3, MaxIs
  <2>4. f = [s \in T |-> IF s = {} THEN <<>> ELSE Behind(f[s \ {Max(s)}], chain[Max(s)])]
    BY <2>1 DEF Iterated
  <2> HIDE DEF T, U, e
  <2>5. ASSUME NEW s \in U
        PROVE  g[s] = IF s = {} THEN <<>> ELSE Behind(g[s \ {Max(s)}], chain[Max(s)])
    <3>1. CASE e \in s
      <4>1. Max(s) = e /\ s # {} /\ s \ {e} \in T
        BY <2>2, <2>3, <3>1
      <4>2. g[s \ {e}] = f[s \ {e}]
        BY <2>2, <4>1
      <4>3. g[s] = Behind(f[s \ {e}], chain[e])
        BY <3>1
      <4> QED BY <4>1, <4>2, <4>3
    <3>2. CASE e \notin s
      <4>1. s \in T /\ g[s] = f[s]
        BY <2>2, <3>2
      <4>2. s \ {Max(s)} \in T
        BY <4>1 DEF T
      <4>3. g[s \ {Max(s)}] = f[s \ {Max(s)}]
        BY <2>2, <4>2
      <4> QED BY <2>4, <4>1, <4>3
    <3> QED BY <3>1, <3>2
  <2>6. g = [s \in U |-> IF s = {} THEN <<>> ELSE Behind(g[s \ {Max(s)}], chain[Max(s)])]
    BY <2>5
  <2>7. Iterated(g, chain, n + 1)
    BY <2>6 DEF Iterated, U, e
  <2> QED BY <2>7
<1>3. Nat \subseteq S
  <2> HIDE DEF S
  <2> QED BY <1>1, <1>2, NatSetInduction
<1> QED BY <1>3

\* A block adds frames.
LEMMA BehindLonger ==
    ASSUME NEW s \in Seq(Nat), NEW b \in Frames
    PROVE  Behind(s, b) \in Seq(Nat) /\ Behind(s, b) # <<>>
<1> DEFINE n == b.pages
<1> DEFINE a == b.addr
<1> DEFINE t == [i \in 1 .. n |-> a + i - 1]
<1>1. n \in Nat \ {0} /\ a \in Nat
  BY DEF Frames
<1> HIDE DEF n, a
<1>2. t \in Seq(Nat) /\ Len(t) = n
  BY <1>1
<1> HIDE DEF t
<1>3. Len(s) \in Nat /\ s \o t \in Seq(Nat) /\ Len(s \o t) = Len(s) + Len(t)
  <2>1. s \o t \in Seq(Nat) /\ Len(s \o t) = Len(s) + Len(t)
    BY <1>2, ConcatProperties, Zenon
  <2> QED BY <2>1
<1>4. s \o t # <<>>
  BY <1>1, <1>2, <1>3
<1> QED BY <1>3, <1>4 DEF Behind, t, n, a

\* An allocation has frames, and they are numbers.
LEMMA FrameSeqFacts ==
    ASSUME NEW chain \in Chains
    PROVE  FrameSeq(chain) \in Seq(Nat) /\ FrameSeq(chain) # <<>>
<1> DEFINE N == Len(chain)
<1>1. chain \in Seq(Frames) /\ N \in Nat \ {0} /\ DOMAIN chain = 1 .. N
  BY FrameAssumption
<1> DEFINE W == CHOOSE f : Iterated(f, chain, N)
<1>2. Iterated(W, chain, N)
  BY <1>1, FoldExists
<1>3. FrameSeq(chain) = W[1 .. N]
  BY <1>1 DEF FrameSeq, FoldLeft, MapThenFoldSet, Iterated, Behind
<1> HIDE DEF N, W
<1> DEFINE T == {n \in Nat : n <= N => /\ W[1 .. n] \in Seq(Nat)
                                       /\ n # 0 => W[1 .. n] # <<>>}
<1>4. 0 \in T
  <2>1. 1 .. 0 = {} /\ {} \in SUBSET (1 .. N)
    OBVIOUS
  <2>2. W[{}] = <<>> /\ <<>> \in Seq(Nat)
    BY <1>2, <2>1 DEF Iterated
  <2>3. W[1 .. 0] \in Seq(Nat) /\ 0 \in Nat
    BY <2>1, <2>2
  <2> HIDE DEF W
  <2> QED BY <2>3
<1>5. ASSUME NEW n \in Nat, n \in T PROVE n + 1 \in T
  <2> SUFFICES ASSUME n + 1 <= N PROVE W[1 .. n + 1] \in Seq(Nat) /\ W[1 .. n + 1] # <<>>
    OBVIOUS
  <2> DEFINE s == 1 .. n + 1
  <2>0. n + 1 \in s /\ n + 1 \in Int /\ \A x \in s : x \in Int /\ x <= n + 1
    OBVIOUS
  <2>1. s \in SUBSET (1 .. N) /\ s # {} /\ s \ {n + 1} = 1 .. n /\ n <= N /\ n + 1 \in 1 .. N
    <3>1. \A x : x \in s \ {n + 1} <=> x \in 1 .. n
      OBVIOUS
    <3>2. n <= N /\ s \in SUBSET (1 .. N) /\ n + 1 \in 1 .. N
      BY <1>1
    <3> HIDE DEF s
    <3> QED BY <2>0, <3>1, <3>2
  <2> HIDE DEF s
  <2>2. Max(s) = n + 1
    BY <2>0, MaxIs
  <2>3. W[s] = Behind(W[1 .. n], chain[n + 1])
    BY <1>2, <2>1, <2>2 DEF Iterated
  <2>4. W[1 .. n] \in Seq(Nat) /\ chain[n + 1] \in Frames
    BY <1>1, <1>5, <2>1
  <2> QED BY <2>3, <2>4, BehindLonger DEF s
<1>6. N \in T
  <2>1. Nat \subseteq T
    <3> HIDE DEF T
    <3> QED BY <1>4, <1>5, NatSetInduction
  <2> QED BY <1>1, <2>1
<1> QED BY <1>1, <1>3, <1>6

-----------------------------------------------------------------------------
(* What a step can be.                                                     *)

Extents == [addr : Nat, pages : Nat]
Reasons == {"running", "out of address space", "general protection fault",
            "allocation is not power of 2", "physical address does not exist"}

\* TypeOK says too little to be kept by a step: live must be a function, and
\* the gap that claim_virt_range frees lies behind the base.
TypeInv ==
    /\ TypeOK
    /\ live \in [Mappings -> Mapping]
    /\ Base <= current_address

\* Address space from the free list or from the end of the space.
Cut == /\ cuts < MaxCuts /\ cuts' = cuts + 1
       /\ free_list' \in Seq(Extents)
       /\ UNCHANGED <<head_canonical, current_address>>
Used(i, addr, n) ==
    /\ free_list[i].addr = addr /\ free_list[i].pages = n
    /\ free_list' = RemoveAt(free_list, i)
    /\ head_canonical' \in BOOLEAN
    /\ UNCHANGED <<current_address, cuts>>
Extended(addr, n) ==
    /\ addr = current_address
    /\ current_address' = addr + n /\ addr + n <= Limit
    /\ UNCHANGED <<free_list, head_canonical, cuts>>
Claimed(addr, n) ==
    /\ current_address <= addr
    /\ current_address' = addr + n /\ addr + n <= Limit
    /\ free_list' = <<Extent(current_address, addr - current_address)>> \o free_list
    /\ head_canonical' \in BOOLEAN
    /\ UNCHANGED cuts

\* A mapping m comes into being.
Mapped(m, kind, addr, fs, blocks, flags) ==
    /\ kind \in {"pages", "contiguous", "registers"}
    /\ addr \in Nat /\ fs \in Seq(Nat) /\ Len(fs) \in Nat \ {0}
    /\ blocks \subseteq Frames /\ flags \in Flags
    /\ ~IsLive(m)
    /\ \/ Cut
       \/ \E i \in 1 .. Len(free_list) : Used(i, addr, Len(fs))
       \/ Extended(addr, Len(fs))
       \/ Claimed(addr, Len(fs))
    /\ Map(addr, fs, flags)
    /\ live' = [live EXCEPT ![m] = MappingOf(kind, addr, fs, blocks, flags)]
    /\ frames' = frames \cup FramesOf(blocks)
    /\ UNCHANGED <<nx, kernel>>

\* A mapping goes.
Unmapped(m) ==
    /\ IsLive(m)
    /\ add_range_to_free_list(live[m])
    /\ Unmap(live[m])
    /\ live' = [live EXCEPT ![m] = NoMapping]
    /\ frames' \subseteq frames
    /\ UNCHANGED <<current_address, cuts, nx, kernel>>

\* Nothing changes but whether the kernel runs.
Quiet ==
    /\ kernel' \in Reasons
    /\ UNCHANGED <<free_list, head_canonical, current_address, pt, tlb, live, frames, cuts, nx>>

\* Blocks and requests have pages.
LEMMA ConsecutiveFacts ==
    ASSUME NEW phys \in Nat, NEW pages \in Nat \ {0}
    PROVE  /\ Consecutive(phys, pages) \in Seq(Nat)
           /\ Len(Consecutive(phys, pages)) = pages
BY DEF Consecutive

\* alloc_addr_space, and the mapping behind it.
LEMMA AnywhereMaps ==
    ASSUME TypeInv, NEW m \in Mappings, NEW kind \in {"pages", "contiguous", "registers"},
           NEW fs \in Seq(Nat), Len(fs) \in Nat \ {0}, NEW blocks \in SUBSET Frames,
           NEW flags \in Flags, MapAnywhere(m, kind, fs, blocks, flags)
    PROVE  \E addr \in Nat : Mapped(m, kind, addr, fs, blocks, flags)
<1>1. /\ free_list \in Seq(Extents) /\ current_address \in Nat /\ cuts \in 0 .. MaxCuts
      /\ Len(free_list) \in Nat /\ DOMAIN free_list = 1 .. Len(free_list)
      /\ \A i \in DOMAIN free_list : free_list[i] \in Extents
  <2>1. free_list \in Seq(Extents) /\ current_address \in Nat /\ cuts \in 0 .. MaxCuts
    BY Zenon DEF TypeInv, TypeOK, Extents
  <2> QED BY <2>1
<1>2. PICK addr \in Candidates :
          /\ alloc_addr_space(Len(fs), addr)
          /\ Map(addr, fs, flags)
          /\ live' = [live EXCEPT ![m] = MappingOf(kind, addr, fs, blocks, flags)]
  BY DEF MapAnywhere
<1>3. addr \in Nat
  <2>1. \A i \in DOMAIN free_list : free_list[i].addr \in Nat
    BY <1>1 DEF Extents
  <2> QED BY <1>1, <1>2, <2>1 DEF Candidates
<1> DEFINE n == Len(fs)
<1>4. n \in Nat \ {0}
  OBVIOUS
<1>5. CutEntry(n, addr) \/ UseEntry(n, addr) \/ Extend(n, addr)
  BY <1>2 DEF alloc_addr_space
<1> HIDE DEF n
<1>6. ASSUME CutEntry(n, addr) PROVE Cut
  <2>1. PICK i \in DOMAIN free_list :
            /\ cuts < MaxCuts
            /\ free_list' = [free_list EXCEPT ![i] = Extent(addr + n, @.pages + n)]
            /\ cuts' = cuts + 1
            /\ UNCHANGED <<head_canonical, current_address>>
    BY <1>6 DEF CutEntry
  <2>2. free_list[i].pages \in Nat
    BY <1>1, <2>1 DEF Extents
  <2> DEFINE e == Extent(addr + n, free_list[i].pages + n)
  <2>3. e \in Extents
    BY <1>3, <1>4, <2>2 DEF Extent, Extents
  <2>4. free_list' = [free_list EXCEPT ![i] = e]
    BY <2>1
  <2> HIDE DEF e
  <2>5. free_list' \in Seq(Extents)
    BY <1>1, <2>1, <2>3, <2>4, ExceptSeq
  <2> QED BY <2>1, <2>5 DEF Cut
<1>7. ASSUME UseEntry(n, addr) PROVE \E i \in 1 .. Len(free_list) : Used(i, addr, n)
  <2>1. PICK i \in DOMAIN free_list :
            /\ n = free_list[i].pages /\ addr = free_list[i].addr
            /\ free_list' = RemoveAt(free_list, i)
            /\ head_canonical' = (i = 1 => Len(free_list) = 1)
            /\ UNCHANGED <<current_address, cuts>>
    BY <1>7 DEF UseEntry
  <2>2. head_canonical' \in BOOLEAN
    BY <2>1
  <2> QED BY <1>1, <2>1, <2>2 DEF Used
<1>8. ASSUME Extend(n, addr) PROVE Extended(addr, n)
  BY <1>1, <1>4, <1>8, RangeAssumption DEF Extend, Extended
<1> QED BY <1>2, <1>3, <1>4, <1>5, <1>6, <1>7, <1>8 DEF Mapped, MapAnywhere, n

\* claim_virt_range, and the mapping behind it.
LEMMA AtMaps ==
    ASSUME TypeInv, NEW m \in Mappings, NEW kind \in {"pages", "contiguous", "registers"},
           NEW addr \in Nat,
           NEW fs \in Seq(Nat), Len(fs) \in Nat \ {0}, NEW blocks \in SUBSET Frames,
           NEW flags \in Flags, MapAt(m, kind, addr, fs, blocks, flags)
    PROVE  Mapped(m, kind, addr, fs, blocks, flags)
<1>1. Claimed(addr, Len(fs))
  BY DEF MapAt, claim_virt_range, Claimed
<1> QED BY <1>1 DEF MapAt, Mapped

\* Every step maps, unmaps, changes flags, fills the TLB or does nothing to the
\* space.
LEMMA Steps ==
    ASSUME TypeInv, [Next]_vars
    PROVE  \/ \E m \in Mappings : \E kind, addr, fs, blocks, flags :
                  Mapped(m, kind, addr, fs, blocks, flags)
           \/ \E m \in Mappings : Unmapped(m)
           \/ \E m \in Mappings, flags \in Flags : range_set_flags(m, flags)
           \/ \E p \in Touched : TLBFill(p)
           \/ Quiet
<1>1. kernel \in Reasons
  BY DEF TypeInv, TypeOK, Reasons
<1>2. ASSUME NEW reason \in Reasons, Stop(reason) PROVE Quiet
  BY <1>2 DEF Stop, Quiet
<1>3. ASSUME UNCHANGED vars PROVE Quiet
  BY <1>1, <1>3 DEF vars, Quiet
<1>4. ASSUME NEW chain \in Chains PROVE /\ FrameSeq(chain) \in Seq(Nat)
                                        /\ Len(FrameSeq(chain)) \in Nat \ {0}
                                        /\ ToSet(chain) \in SUBSET Frames
  <2>1. FrameSeq(chain) \in Seq(Nat) /\ FrameSeq(chain) # <<>>
    BY FrameSeqFacts
  <2> DEFINE fs == FrameSeq(chain)
  <2>2. Len(fs) \in Nat \ {0}
    <3> HIDE DEF fs
    <3> QED BY <2>1 DEF fs
  <2>3. chain \in Seq(Frames)
    BY FrameAssumption
  <2>4. ToSet(chain) \in SUBSET Frames
    BY <2>3, ToSetElement
  <2> QED BY <2>1, <2>2, <2>4
<1>5. ASSUME NEW m \in Mappings, NEW flags \in Flags, NEW chain \in Chains,
             alloc_pages(m, chain, flags)
      PROVE  \E addr : Mapped(m, "pages", addr, FrameSeq(chain), ToSet(chain), flags)
  <2> DEFINE fs == FrameSeq(chain)
  <2> DEFINE bs == ToSet(chain)
  <2>1. fs \in Seq(Nat) /\ Len(fs) \in Nat \ {0} /\ bs \in SUBSET Frames
        /\ MapAnywhere(m, "pages", fs, bs, flags)
    BY <1>4, <1>5 DEF alloc_pages
  <2> HIDE DEF fs, bs
  <2>2. \E addr : Mapped(m, "pages", addr, fs, bs, flags)
    BY <2>1, AnywhereMaps
  <2> QED BY <2>2 DEF fs, bs
<1>6. ASSUME NEW m \in Mappings, NEW flags \in Flags, NEW chain \in Chains, NEW addr \in Targets,
             map_allocation_to_range(m, chain, addr, flags)
      PROVE  Mapped(m, "pages", addr, FrameSeq(chain), ToSet(chain), flags)
  <2> DEFINE fs == FrameSeq(chain)
  <2> DEFINE bs == ToSet(chain)
  <2>1. fs \in Seq(Nat) /\ Len(fs) \in Nat \ {0} /\ bs \in SUBSET Frames
        /\ MapAt(m, "pages", addr, fs, bs, flags) /\ addr \in Nat
    BY <1>4, <1>6, RequestAssumption DEF map_allocation_to_range
  <2> HIDE DEF fs, bs
  <2>2. Mapped(m, "pages", addr, fs, bs, flags)
    BY <2>1, AtMaps
  <2> QED BY <2>2 DEF fs, bs
<1>7. ASSUME NEW m \in Mappings, NEW flags \in Flags, NEW pages \in Requests, NEW b \in Blocks,
             alloc_pages_contiguous(m, pages, b, flags)
      PROVE  \E addr : Mapped(m, "contiguous", addr, Consecutive(b.addr, pages), {b}, flags)
  <2> DEFINE fs == Consecutive(b.addr, pages)
  <2>1. b \in Frames /\ b.addr \in Nat /\ pages \in Nat \ {0}
    BY FrameAssumption, RequestAssumption DEF Frames
  <2>2. fs \in Seq(Nat) /\ Len(fs) \in Nat \ {0} /\ {b} \in SUBSET Frames
        /\ MapAnywhere(m, "contiguous", fs, {b}, flags)
    BY <1>7, <2>1, ConsecutiveFacts DEF alloc_pages_contiguous
  <2> HIDE DEF fs
  <2>3. \E addr : Mapped(m, "contiguous", addr, fs, {b}, flags)
    BY <2>2, AnywhereMaps
  <2> QED BY <2>3 DEF fs
<1>8. ASSUME NEW m \in Mappings, NEW flags \in Flags, NEW pages \in Requests, NEW phys \in Registers,
             map_phys_range(m, phys, pages, flags)
      PROVE  \E addr : Mapped(m, "registers", addr, Consecutive(phys, pages), {}, flags)
  <2> DEFINE fs == Consecutive(phys, pages)
  <2>1. phys \in Nat /\ pages \in Nat \ {0}
    BY RequestAssumption
  <2>2. fs \in Seq(Nat) /\ Len(fs) \in Nat \ {0} /\ {} \in SUBSET Frames
        /\ MapAnywhere(m, "registers", fs, {}, flags)
    BY <1>8, <2>1, ConsecutiveFacts DEF map_phys_range
  <2> HIDE DEF fs
  <2>3. \E addr : Mapped(m, "registers", addr, fs, {}, flags)
    BY <2>2, AnywhereMaps
  <2> QED BY <2>3 DEF fs
<1>9. ASSUME NEW m \in Mappings, NEW flags \in Flags, NEW pages \in Requests, NEW phys \in Registers,
             NEW addr \in Targets, map_to_range(m, phys, addr, pages, flags)
      PROVE  Mapped(m, "registers", addr, Consecutive(phys, pages), {}, flags)
  <2> DEFINE fs == Consecutive(phys, pages)
  <2>1. phys \in Nat /\ pages \in Nat \ {0} /\ addr \in Nat
    BY RequestAssumption
  <2>2. fs \in Seq(Nat) /\ Len(fs) \in Nat \ {0} /\ {} \in SUBSET Frames
        /\ MapAt(m, "registers", addr, fs, {}, flags)
    BY <1>9, <2>1, ConsecutiveFacts DEF map_to_range
  <2> HIDE DEF fs
  <2>3. Mapped(m, "registers", addr, fs, {}, flags)
    BY <2>1, <2>2, AtMaps
  <2> QED BY <2>3 DEF fs
<1>10. ASSUME NEW m \in Mappings, free_pages(m) PROVE Unmapped(m)
  BY <1>10 DEF free_pages, Unmapped
<1>11. ASSUME NEW m \in Mappings, free_pages_contiguous(m) PROVE Unmapped(m)
  BY <1>11 DEF free_pages_contiguous, Unmapped
<1>12. ASSUME NEW m \in Mappings, unmap_range(m) PROVE Unmapped(m)
  BY <1>12 DEF unmap_range, Unmapped
<1>13. ASSUME NEW m \in Mappings, NotPowerOfTwo(m) \/ PhysicalAddressMissing(m) PROVE Quiet
  BY <1>2, <1>13 DEF NotPowerOfTwo, PhysicalAddressMissing, Reasons
<1>14. ASSUME (\E pages \in Requests : OutOfAddressSpace(pages)) \/ WalkFaults PROVE Quiet
  BY <1>2, <1>14 DEF OutOfAddressSpace, WalkFaults, Reasons
<1>15. ASSUME AllocFails \/ Halted PROVE Quiet
  BY <1>3, <1>15 DEF AllocFails, Halted
<1>16. CASE \E m \in Mappings, flags \in Flags :
              \/ \E chain \in Chains :
                     \/ alloc_pages(m, chain, flags)
                     \/ \E addr \in Targets : map_allocation_to_range(m, chain, addr, flags)
              \/ \E pages \in Requests, b \in Blocks : alloc_pages_contiguous(m, pages, b, flags)
              \/ \E pages \in Requests, phys \in Registers :
                     \/ map_phys_range(m, phys, pages, flags)
                     \/ \E addr \in Targets : map_to_range(m, phys, addr, pages, flags)
              \/ range_set_flags(m, flags)
  <2>1. PICK m \in Mappings, flags \in Flags :
              \/ \E chain \in Chains :
                     \/ alloc_pages(m, chain, flags)
                     \/ \E addr \in Targets : map_allocation_to_range(m, chain, addr, flags)
              \/ \E pages \in Requests, b \in Blocks : alloc_pages_contiguous(m, pages, b, flags)
              \/ \E pages \in Requests, phys \in Registers :
                     \/ map_phys_range(m, phys, pages, flags)
                     \/ \E addr \in Targets : map_to_range(m, phys, addr, pages, flags)
              \/ range_set_flags(m, flags)
    BY <1>16, Zenon
  <2>2. CASE \E chain \in Chains :
                 \/ alloc_pages(m, chain, flags)
                 \/ \E addr \in Targets : map_allocation_to_range(m, chain, addr, flags)
    <3>1. PICK chain \in Chains :
                 \/ alloc_pages(m, chain, flags)
                 \/ \E addr \in Targets : map_allocation_to_range(m, chain, addr, flags)
      BY <2>2
    <3>2. \E addr : Mapped(m, "pages", addr, FrameSeq(chain), ToSet(chain), flags)
      BY <1>5, <1>6, <3>1
    <3> QED BY <3>2, Zenon
  <2>3. CASE \E pages \in Requests, b \in Blocks : alloc_pages_contiguous(m, pages, b, flags)
    BY <1>7, <2>3, Zenon
  <2>4. CASE \E pages \in Requests, phys \in Registers :
                 \/ map_phys_range(m, phys, pages, flags)
                 \/ \E addr \in Targets : map_to_range(m, phys, addr, pages, flags)
    <3>1. PICK pages \in Requests, phys \in Registers :
                 \/ map_phys_range(m, phys, pages, flags)
                 \/ \E addr \in Targets : map_to_range(m, phys, addr, pages, flags)
      BY <2>4
    <3>2. \E addr : Mapped(m, "registers", addr, Consecutive(phys, pages), {}, flags)
      BY <1>8, <1>9, <3>1
    <3> QED BY <3>2, Zenon
  <2> QED BY <2>1, <2>2, <2>3, <2>4, Zenon
<1>17. CASE \/ \E m \in Mappings : free_pages(m) \/ free_pages_contiguous(m) \/ unmap_range(m)
                                   \/ NotPowerOfTwo(m) \/ PhysicalAddressMissing(m)
            \/ \E pages \in Requests : OutOfAddressSpace(pages)
            \/ AllocFails \/ WalkFaults
            \/ \E p \in Touched : TLBFill(p)
            \/ Halted \/ UNCHANGED vars
  BY <1>3, <1>10, <1>11, <1>12, <1>13, <1>14, <1>15, <1>17, Zenon
<1> QED BY <1>16, <1>17, Zenon DEF Next

-----------------------------------------------------------------------------
(* Types and cached translations.                                          *)

\* Of finitely many numbers one is the largest.
LEMMA LargestExists ==
    ASSUME NEW n \in Nat, NEW A \in SUBSET (1 .. n), A # {}
    PROVE  \E i \in A : \A j \in A : j <= i
<1> SUFFICES ASSUME \A i \in A : \E j \in A : ~(j <= i) PROVE FALSE
  OBVIOUS
<1> DEFINE S == {k \in Nat : \E i \in A : k <= i}
<1>1. 0 \in S
  <2>1. PICK i \in A : TRUE
    OBVIOUS
  <2>2. i \in Nat /\ 0 <= i
    BY <2>1
  <2> QED BY <2>1, <2>2
<1>2. ASSUME NEW k \in Nat, k \in S PROVE k + 1 \in S
  <2>1. PICK i \in A : k <= i
    BY <1>2
  <2>2. PICK j \in A : ~(j <= i)
    OBVIOUS
  <2>3. k + 1 <= j
    BY <2>1, <2>2
  <2> QED BY <2>3
<1>3. Nat \subseteq S
  <2> HIDE DEF S
  <2> QED BY <1>1, <1>2, NatSetInduction
<1>4. n + 1 \in S
  <2> HIDE DEF S
  <2> QED BY <1>3
<1>5. PICK i \in A : n + 1 <= i
  BY <1>4
<1> QED BY <1>5

\* The bits of an entry are bits.
LEMMA BitsTyped ==
    ASSUME NEW flags, nx \in BOOLEAN PROVE set_flags(flags) \in Bits
BY DEF set_flags, Bits

\* An entry that is present has a frame.
LEMMA PresentEntry ==
    ASSUME NEW e \in PTE, e.present
    PROVE  e \in [present : {TRUE}, frame : Nat, bits : Bits]
<1>1. NotPresent.present = FALSE
  BY DEF NotPresent
<1>2. e # NotPresent
  BY <1>1, Zenon
<1> QED BY <1>2 DEF PTE

\* Mapping writes entries, and caches nothing.
LEMMA MapTyped ==
    ASSUME TypeInv, NEW addr \in Nat, NEW fs \in Seq(Nat), NEW flags, Map(addr, fs, flags)
    PROVE  /\ pt' \in [VirtPages -> PTE] /\ tlb' \in [VirtPages -> PTE]
           /\ \A p \in VirtPages : tlb'[p].present => tlb'[p] = tlb[p] /\ pt'[p] = pt[p]
<1> DEFINE At(p) == {i \in DOMAIN fs : Index(addr + i - 1) = p}
<1> DEFINE e(p) == Entry(fs[CHOOSE i \in At(p) : \A j \in At(p) : j <= i], set_flags(flags))
<1>1. /\ pt' = [p \in VirtPages |-> IF At(p) = {} THEN pt[p] ELSE e(p)]
      /\ tlb' = [p \in VirtPages |-> IF At(p) = {} THEN tlb[p] ELSE NotPresent]
  BY DEF Map
<1>2. pt \in [VirtPages -> PTE] /\ tlb \in [VirtPages -> PTE] /\ nx \in BOOLEAN
  BY DEF TypeInv, TypeOK
<1>3. ASSUME NEW p \in VirtPages, At(p) # {} PROVE e(p) \in PTE
  <2>1. Len(fs) \in Nat /\ At(p) \in SUBSET (1 .. Len(fs))
    OBVIOUS
  <2> DEFINE A == At(p)
  <2>2. A \in SUBSET (1 .. Len(fs)) /\ A # {}
    BY <1>3, <2>1
  <2> HIDE DEF A
  <2> DEFINE i == CHOOSE i \in A : \A j \in A : j <= i
  <2>3. i \in A
    BY <2>1, <2>2, LargestExists
  <2> HIDE DEF i
  <2>4. fs[i] \in Nat
    BY <2>2, <2>3
  <2>5. Entry(fs[i], set_flags(flags)) \in PTE
    BY <1>2, <2>4, BitsTyped DEF Entry, PTE
  <2> QED BY <2>5 DEF i, A
<1>4. NotPresent \in PTE /\ ~NotPresent.present
  BY DEF PTE, NotPresent
<1> HIDE DEF At, e
<1> QED BY <1>1, <1>2, <1>3, <1>4

\* A new mapping is one.
LEMMA MappingTyped ==
    ASSUME NEW kind \in {"pages", "contiguous", "registers"}, NEW addr \in Nat,
           NEW fs \in Seq(Nat), Len(fs) \in Nat \ {0}, NEW blocks \in SUBSET Frames,
           NEW flags \in Flags
    PROVE  /\ MappingOf(kind, addr, fs, blocks, flags) \in Mapping
           /\ MappingOf(kind, addr, fs, blocks, flags) # NoMapping
<1> DEFINE r == MappingOf(kind, addr, fs, blocks, flags)
<1>1. r \in Mapping
  BY DEF MappingOf, Mapping
<1>2. r.kind # NoMapping.kind
  BY DEF MappingOf, NoMapping
<1> QED BY <1>1, <1>2

\* A mapping that exists has pages.
LEMMA LiveTyped ==
    ASSUME TypeInv, NEW m \in Mappings, IsLive(m)
    PROVE  live[m] \in [kind : {"pages", "contiguous", "registers"}, addr : Nat, pages : Nat \ {0},
                        frames : Seq(Nat), blocks : SUBSET Frames, flags : Flags]
BY DEF TypeInv, IsLive, Mapping

\* A free range in front.
LEMMA FreeTyped ==
    ASSUME NEW fl \in Seq(Extents), NEW a \in Nat, NEW n \in Nat
    PROVE  LET r == <<Extent(a, n)>> \o fl
           IN  /\ r \in Seq(Extents) /\ Len(r) = Len(fl) + 1
               /\ r[1] = Extent(a, n)
               /\ \A i \in 1 .. Len(fl) : r[i + 1] = fl[i]
<1> DEFINE e == Extent(a, n)
<1>1. e \in Extents
  BY DEF Extent, Extents
<1> HIDE DEF e
<1>2. <<e>> \in Seq(Extents) /\ Len(<<e>>) = 1 /\ <<e>>[1] = e
  BY <1>1
<1> DEFINE s == <<e>>
<1> HIDE DEF s
<1>3. /\ s \o fl \in Seq(Extents) /\ Len(s \o fl) = Len(s) + Len(fl)
      /\ \A i \in 1 .. Len(s) + Len(fl) : (s \o fl)[i] = IF i <= Len(s) THEN s[i] ELSE fl[i - Len(s)]
  BY <1>2, ConcatProperties, Zenon DEF s
<1>4. Len(fl) \in Nat /\ Len(s) = 1 /\ s[1] = e
  BY <1>2 DEF s
<1>5. (s \o fl)[1] = e /\ \A i \in 1 .. Len(fl) : (s \o fl)[i + 1] = fl[i]
  BY <1>3, <1>4
<1> QED BY <1>3, <1>4, <1>5 DEF s, e

\* The free list and the end of the space keep their types.
LEMMA MappedSpace ==
    ASSUME TypeInv, NEW m, NEW kind, NEW addr, NEW fs, NEW blocks, NEW flags,
           Mapped(m, kind, addr, fs, blocks, flags)
    PROVE  /\ free_list' \in Seq(Extents) /\ head_canonical' \in BOOLEAN
           /\ current_address' \in Nat /\ Base <= current_address'
           /\ cuts' \in 0 .. MaxCuts
<1>1. /\ free_list \in Seq(Extents) /\ head_canonical \in BOOLEAN /\ current_address \in Nat
      /\ cuts \in 0 .. MaxCuts /\ Base <= current_address
  BY Zenon DEF TypeInv, TypeOK, Extents
<1>2. Base \in Nat /\ MaxCuts \in Nat
  BY RangeAssumption, RequestAssumption
<1>3. addr \in Nat /\ Len(fs) \in Nat
  BY DEF Mapped
<1>4. CASE Cut
  BY <1>1, <1>2, <1>4 DEF Cut
<1>5. ASSUME NEW i \in 1 .. Len(free_list), Used(i, addr, Len(fs)) PROVE
          /\ free_list' \in Seq(Extents) /\ head_canonical' \in BOOLEAN
          /\ current_address' \in Nat /\ Base <= current_address'
          /\ cuts' \in 0 .. MaxCuts
  <2>1. RemoveAt(free_list, i) \in Seq(Extents)
    BY <1>1, <1>5, RemoveAtElements
  <2> QED BY <1>1, <1>5, <2>1 DEF Used
<1>6. CASE Extended(addr, Len(fs))
  BY <1>1, <1>2, <1>3, <1>6 DEF Extended
<1>7. CASE Claimed(addr, Len(fs))
  <2>1. addr - current_address \in Nat
    BY <1>1, <1>3, <1>7 DEF Claimed
  <2>2. free_list' \in Seq(Extents)
    BY <1>1, <1>7, <2>1, FreeTyped DEF Claimed
  <2>3. current_address' \in Nat /\ Base <= current_address'
    BY <1>1, <1>2, <1>3, <1>7 DEF Claimed
  <2> QED BY <1>1, <1>7, <2>2, <2>3 DEF Claimed
<1> QED BY <1>4, <1>5, <1>6, <1>7 DEF Mapped

\* Changing flags changes no frame.
LEMMA FlagsTyped ==
    ASSUME TypeInv, NEW m \in Mappings, NEW flags \in Flags, range_set_flags(m, flags)
    PROVE  /\ pt' \in [VirtPages -> PTE]
           /\ \A p \in VirtPages : pt'[p].present = pt[p].present /\ pt'[p].frame = pt[p].frame
           /\ live' \in [Mappings -> Mapping]
<1> DEFINE set == {p \in PagesOf(live[m]) : \A q \in live[m].addr .. p : pt[Index(q)].present}
<1> DEFINE Hit(p) == \E q \in set : Index(q) = p
<1>1. /\ pt' = [p \in VirtPages |-> IF Hit(p) THEN [pt[p] EXCEPT !.bits = set_flags(flags)]
                                              ELSE pt[p]]
      /\ live' = [live EXCEPT ![m].flags = flags] /\ IsLive(m)
  BY DEF range_set_flags
<1>2. pt \in [VirtPages -> PTE] /\ nx \in BOOLEAN /\ live \in [Mappings -> Mapping]
  BY DEF TypeInv, TypeOK
<1>3. live[m] \in [kind : {"pages", "contiguous", "registers"}, addr : Nat, pages : Nat \ {0},
                   frames : Seq(Nat), blocks : SUBSET Frames, flags : Flags]
  BY <1>1, LiveTyped
<1>4. ASSUME NEW p \in VirtPages, Hit(p) PROVE pt[p].present
  <2>1. PICK q \in set : Index(q) = p
    BY <1>4
  <2>2. live[m].addr \in Int /\ live[m].pages \in Int
    BY <1>3
  <2>3. q \in live[m].addr .. q
    BY <2>1, <2>2 DEF PagesOf
  <2> QED BY <2>1, <2>3
<1>5. ASSUME NEW p \in VirtPages, Hit(p)
      PROVE  /\ [pt[p] EXCEPT !.bits = set_flags(flags)] \in PTE
             /\ [pt[p] EXCEPT !.bits = set_flags(flags)].present = pt[p].present
             /\ [pt[p] EXCEPT !.bits = set_flags(flags)].frame = pt[p].frame
  <2>1. pt[p] \in [present : {TRUE}, frame : Nat, bits : Bits]
    BY <1>2, <1>4, <1>5, PresentEntry
  <2>2. set_flags(flags) \in Bits
    BY <1>2, BitsTyped
  <2> DEFINE b == set_flags(flags)
  <2> DEFINE e == pt[p]
  <2> HIDE DEF b, e
  <2>3. /\ [e EXCEPT !.bits = b] \in [present : {TRUE}, frame : Nat, bits : Bits]
        /\ [e EXCEPT !.bits = b].present = e.present /\ [e EXCEPT !.bits = b].frame = e.frame
    BY <2>1, <2>2 DEF b, e
  <2> QED BY <2>3 DEF PTE, b, e
<1> HIDE DEF Hit
<1>6. pt' \in [VirtPages -> PTE]
  BY <1>1, <1>2, <1>5
<1>7. \A p \in VirtPages : pt'[p].present = pt[p].present /\ pt'[p].frame = pt[p].frame
  BY <1>1, <1>5
<1>8. [live[m] EXCEPT !.flags = flags] \in Mapping
  BY <1>3 DEF Mapping
<1>9. live' \in [Mappings -> Mapping]
  BY <1>1, <1>2, <1>8
<1> QED BY <1>6, <1>7, <1>9

\* Every step keeps the types, and leaves no translation behind that is gone.
LEMMA TypeStep ==
    ASSUME TypeInv, NoStaleTranslation, [Next]_vars
    PROVE  TypeInv' /\ NoStaleTranslation'
<1>1. /\ free_list \in Seq(Extents) /\ head_canonical \in BOOLEAN /\ current_address \in Nat
      /\ cuts \in 0 .. MaxCuts /\ Base <= current_address
      /\ pt \in [VirtPages -> PTE] /\ tlb \in [VirtPages -> PTE]
      /\ live \in [Mappings -> Mapping] /\ frames \subseteq Nat /\ nx \in BOOLEAN
      /\ kernel \in Reasons
  BY Zenon DEF TypeInv, TypeOK, Extents, Reasons
<1>2. ASSUME /\ free_list' \in Seq(Extents) /\ head_canonical' \in BOOLEAN
             /\ current_address' \in Nat /\ cuts' \in 0 .. MaxCuts /\ Base <= current_address'
             /\ pt' \in [VirtPages -> PTE] /\ tlb' \in [VirtPages -> PTE]
             /\ live' \in [Mappings -> Mapping] /\ frames' \subseteq Nat /\ nx' \in BOOLEAN
             /\ kernel' \in Reasons
      PROVE  TypeInv'
  <2>1. \A m \in Mappings : live'[m] \in Mapping
    BY <1>2
  <2> QED BY <1>2, <2>1, Zenon DEF TypeInv, TypeOK, Extents, Reasons
<1>3. NotPresent \in PTE /\ NotPresent.present = FALSE
  BY DEF PTE, NotPresent
<1>4. ASSUME NEW m \in Mappings, NEW kind, NEW addr, NEW fs, NEW blocks, NEW flags,
             Mapped(m, kind, addr, fs, blocks, flags)
      PROVE  TypeInv' /\ NoStaleTranslation'
  <2>1. /\ kind \in {"pages", "contiguous", "registers"} /\ addr \in Nat /\ fs \in Seq(Nat)
        /\ Len(fs) \in Nat \ {0} /\ blocks \in SUBSET Frames /\ flags \in Flags
        /\ Map(addr, fs, flags)
        /\ live' = [live EXCEPT ![m] = MappingOf(kind, addr, fs, blocks, flags)]
        /\ frames' = frames \cup FramesOf(blocks) /\ nx' = nx /\ kernel' = kernel
    BY <1>4 DEF Mapped
  <2>2. /\ free_list' \in Seq(Extents) /\ head_canonical' \in BOOLEAN
        /\ current_address' \in Nat /\ Base <= current_address'
        /\ cuts' \in 0 .. MaxCuts
    BY <1>4, MappedSpace
  <2>3. /\ pt' \in [VirtPages -> PTE] /\ tlb' \in [VirtPages -> PTE]
        /\ \A p \in VirtPages : tlb'[p].present => tlb'[p] = tlb[p] /\ pt'[p] = pt[p]
    BY <2>1, MapTyped
  <2> DEFINE r == MappingOf(kind, addr, fs, blocks, flags)
  <2>4. r \in Mapping
    BY <2>1, MappingTyped
  <2> HIDE DEF r
  <2>5. live' \in [Mappings -> Mapping]
    BY <1>1, <2>1, <2>4 DEF r
  <2>7. FramesOf(blocks) \subseteq Nat
    BY <2>1 DEF FramesOf, PagesOf, Frames
  <2>6. TypeInv'
    BY <1>1, <1>2, <2>1, <2>2, <2>3, <2>5, <2>7
  <2> QED BY <2>3, <2>6 DEF NoStaleTranslation
<1>5. ASSUME NEW m \in Mappings, Unmapped(m) PROVE TypeInv' /\ NoStaleTranslation'
  <2>1. /\ IsLive(m) /\ live' = [live EXCEPT ![m] = NoMapping] /\ frames' \subseteq frames
        /\ free_list' = <<Extent(live[m].addr, live[m].pages)>> \o free_list
        /\ head_canonical' = TRUE
        /\ pt' = [p \in VirtPages |-> IF p \in Indexes(live[m]) THEN NotPresent ELSE pt[p]]
        /\ tlb' = [p \in VirtPages |-> IF p \in Indexes(live[m]) THEN NotPresent ELSE tlb[p]]
        /\ UNCHANGED <<current_address, cuts, nx, kernel>>
    BY <1>5 DEF Unmapped, add_range_to_free_list, Unmap
  <2>2. live[m].addr \in Nat /\ live[m].pages \in Nat
    BY <2>1, LiveTyped
  <2>3. free_list' \in Seq(Extents)
    BY <1>1, <2>1, <2>2, FreeTyped
  <2>4. pt' \in [VirtPages -> PTE] /\ tlb' \in [VirtPages -> PTE]
    BY <1>1, <1>3, <2>1
  <2>5. NoMapping \in Mapping
    BY DEF Mapping
  <2>6. live' \in [Mappings -> Mapping]
    BY <1>1, <2>1, <2>5
  <2>7. TypeInv'
    BY <1>1, <1>2, <2>1, <2>3, <2>4, <2>6
  <2>8. \A p \in VirtPages : tlb'[p].present => tlb'[p] = tlb[p] /\ pt'[p] = pt[p]
    BY <1>3, <2>1
  <2> QED BY <2>7, <2>8 DEF NoStaleTranslation
<1>6. ASSUME NEW m \in Mappings, NEW flags \in Flags, range_set_flags(m, flags)
      PROVE  TypeInv' /\ NoStaleTranslation'
  <2>1. /\ pt' \in [VirtPages -> PTE] /\ live' \in [Mappings -> Mapping]
        /\ \A p \in VirtPages : pt'[p].present = pt[p].present /\ pt'[p].frame = pt[p].frame
    BY <1>6, FlagsTyped
  <2>2. UNCHANGED <<free_list, head_canonical, current_address, tlb, frames, cuts, nx, kernel>>
    BY <1>6 DEF range_set_flags
  <2>3. TypeInv'
    BY <1>1, <1>2, <2>1, <2>2
  <2> QED BY <2>1, <2>2, <2>3 DEF NoStaleTranslation
<1>7. ASSUME NEW p \in Touched, TLBFill(p) PROVE TypeInv' /\ NoStaleTranslation'
  <2>1. /\ pt[p].present /\ tlb' = [tlb EXCEPT ![p] = pt[p]]
        /\ UNCHANGED <<free_list, head_canonical, current_address, pt, live, frames, cuts, nx, kernel>>
    BY <1>7 DEF TLBFill
  <2>2. tlb' \in [VirtPages -> PTE]
    BY <1>1, <2>1
  <2>3. \A q \in VirtPages : tlb'[q] = tlb[q] \/ (q = p /\ tlb'[q] = pt[q])
    BY <1>1, <2>1
  <2>4. TypeInv'
    BY <1>1, <1>2, <2>1, <2>2
  <2>5. NoStaleTranslation'
    <3> SUFFICES ASSUME NEW q \in VirtPages, tlb'[q].present
                 PROVE  pt[q].present /\ pt[q].frame = tlb'[q].frame
      BY <2>1 DEF NoStaleTranslation
    <3>1. CASE tlb'[q] = tlb[q]
      BY <3>1 DEF NoStaleTranslation
    <3>2. CASE tlb'[q] = pt[q]
      BY <3>2
    <3> QED BY <2>3, <3>1, <3>2
  <2> QED BY <2>4, <2>5
<1>8. ASSUME Quiet PROVE TypeInv' /\ NoStaleTranslation'
  <2>1. /\ kernel' \in Reasons
        /\ UNCHANGED <<free_list, head_canonical, current_address, pt, tlb, live, frames, cuts, nx>>
    BY <1>8 DEF Quiet
  <2>2. TypeInv'
    BY <1>1, <1>2, <2>1
  <2> QED BY <2>1, <2>2 DEF NoStaleTranslation
<1> QED BY <1>4, <1>5, <1>6, <1>7, <1>8, Steps

\* The types hold in every state, and no cached translation is stale.
LEMMA TypeAlways == Spec => [](TypeInv /\ NoStaleTranslation)
<1>1. Init => TypeInv /\ NoStaleTranslation
  <2> SUFFICES ASSUME Init PROVE TypeInv /\ NoStaleTranslation
    OBVIOUS
  <2>1. /\ free_list = <<>> /\ head_canonical = TRUE /\ current_address = Base
        /\ pt = [p \in VirtPages |-> NotPresent] /\ tlb = [p \in VirtPages |-> NotPresent]
        /\ live = [m \in Mappings |-> NoMapping] /\ frames = {} /\ cuts = 0
        /\ nx \in BOOLEAN /\ kernel = "running"
    BY DEF Init, CheckNX
  <2>2. NotPresent \in PTE /\ NotPresent.present = FALSE /\ NoMapping \in Mapping
    BY DEF PTE, NotPresent, Mapping
  <2>3. /\ free_list \in Seq([addr : Nat, pages : Nat]) /\ current_address \in Nat
        /\ Base <= current_address /\ cuts \in 0 .. MaxCuts
    BY <2>1, RangeAssumption, RequestAssumption
  <2>4. /\ pt \in [VirtPages -> PTE] /\ tlb \in [VirtPages -> PTE]
        /\ live \in [Mappings -> Mapping] /\ \A m \in Mappings : live[m] \in Mapping
    BY <2>1, <2>2
  <2>5. TypeOK
    BY <2>1, <2>3, <2>4 DEF TypeOK
  <2>6. \A p \in VirtPages : tlb[p].present = FALSE
    BY <2>1, <2>2
  <2> QED BY <2>3, <2>4, <2>5, <2>6 DEF TypeInv, NoStaleTranslation
<1>2. TypeInv /\ NoStaleTranslation /\ [Next]_vars => (TypeInv /\ NoStaleTranslation)'
  BY TypeStep
<1> QED BY <1>1, <1>2, PTL DEF Spec

\* The processor never reaches a frame through a page that no longer maps it,
\* whatever is mapped, unmapped, reused and touched in between, and also where
\* ranges overlap.
THEOREM TranslationsNeverStale == Spec => []NoStaleTranslation
BY TypeAlways, PTL

-----------------------------------------------------------------------------
(* Which page belongs to whom.                                             *)

\* The ranges of the free list fl and of the mappings lv share no page; they
\* lie between Base and end; and every page between is in one of them.
Apart(fl, lv) ==
    /\ \A m, n \in Mappings : \A p :
           /\ lv[m] # NoMapping /\ lv[n] # NoMapping
           /\ p \in PagesOf(lv[m]) /\ p \in PagesOf(lv[n])
           => m = n
    /\ \A i, j \in 1 .. Len(fl) : \A p : p \in PagesOf(fl[i]) /\ p \in PagesOf(fl[j]) => i = j
    /\ \A m \in Mappings : \A i \in 1 .. Len(fl) : \A p :
           lv[m] # NoMapping /\ p \in PagesOf(lv[m]) => p \notin PagesOf(fl[i])
Within(fl, lv, end) ==
    /\ \A m \in Mappings : \A p :
           lv[m] # NoMapping /\ p \in PagesOf(lv[m]) => p \in Base .. end - 1
    /\ \A i \in 1 .. Len(fl) : \A p : p \in PagesOf(fl[i]) => p \in Base .. end - 1
Covered(fl, lv, end) ==
    \A p \in Base .. end - 1 :
        \/ \E m \in Mappings : lv[m] # NoMapping /\ p \in PagesOf(lv[m])
        \/ \E i \in 1 .. Len(fl) : p \in PagesOf(fl[i])
Split(fl, lv, end) == Apart(fl, lv) /\ Within(fl, lv, end) /\ Covered(fl, lv, end)

\* What no step breaks before a free range is split.  That the ranges are
\* together all the pages is what makes a claimed gap free; that the space
\* ends at Limit is what gives every page a table entry of its own.
PartInv ==
    cuts = 0 => Split(free_list, live, current_address) /\ current_address <= Limit

\* A free range becomes a mapping.
LEMMA SplitUse ==
    ASSUME NEW fl \in Seq(Extents), NEW lv \in [Mappings -> Mapping], NEW end \in Nat,
           Split(fl, lv, end), NEW m \in Mappings, lv[m] = NoMapping,
           NEW i \in 1 .. Len(fl), NEW r \in Mapping, PagesOf(r) = PagesOf(fl[i]), r # NoMapping
    PROVE  Split(RemoveAt(fl, i), [lv EXCEPT ![m] = r], end)
<1> DEFINE gl == RemoveAt(fl, i)
<1> DEFINE kv == [lv EXCEPT ![m] = r]
<1>1. /\ gl \in Seq(Extents) /\ Len(gl) = Len(fl) - 1 /\ Len(fl) \in Nat
      /\ \A j \in 1 .. Len(fl) - 1 : gl[j] = IF j < i THEN fl[j] ELSE fl[j + 1]
  BY RemoveAtElements
<1>2. kv[m] = r /\ \A n \in Mappings : n # m => kv[n] = lv[n]
  OBVIOUS
<1> HIDE DEF gl, kv
<1> DEFINE At(j) == IF j < i THEN j ELSE j + 1
<1>3. \A j \in 1 .. Len(gl) : At(j) \in 1 .. Len(fl) /\ At(j) # i /\ gl[j] = fl[At(j)]
  BY <1>1
<1>4. \A j, k \in 1 .. Len(gl) : At(j) = At(k) => j = k
  BY <1>1
<1>5. \A k \in 1 .. Len(fl) : k # i => \E j \in 1 .. Len(gl) : At(j) = k
  <2> TAKE k \in 1 .. Len(fl)
  <2> HAVE k # i
  <2>1. CASE k < i
    <3>1. k \in 1 .. Len(gl) /\ At(k) = k
      BY <1>1, <2>1
    <3> QED BY <3>1
  <2>2. CASE k > i
    <3>1. k - 1 \in 1 .. Len(gl) /\ At(k - 1) = k
      BY <1>1, <2>2
    <3> QED BY <3>1
  <2> QED BY <2>1, <2>2
<1> HIDE DEF At
<1>6. Apart(gl, kv)
  <2>1. ASSUME NEW k \in Mappings, NEW n \in Mappings, NEW p, kv[k] # NoMapping, kv[n] # NoMapping,
               p \in PagesOf(kv[k]), p \in PagesOf(kv[n])
        PROVE  k = n
    BY <1>2, <2>1 DEF Split, Apart
  <2>2. ASSUME NEW j \in 1 .. Len(gl), NEW k \in 1 .. Len(gl), NEW p,
               p \in PagesOf(gl[j]), p \in PagesOf(gl[k])
        PROVE  j = k
    BY <1>3, <1>4, <2>2 DEF Split, Apart
  <2>3. ASSUME NEW n \in Mappings, NEW j \in 1 .. Len(gl), NEW p,
               kv[n] # NoMapping, p \in PagesOf(kv[n])
        PROVE  p \notin PagesOf(gl[j])
    BY <1>2, <1>3, <2>3 DEF Split, Apart
  <2> QED BY <2>1, <2>2, <2>3 DEF Apart
<1>7. Within(gl, kv, end)
  BY <1>2, <1>3 DEF Split, Within
<1>8. Covered(gl, kv, end)
  <2> SUFFICES ASSUME NEW p \in Base .. end - 1
               PROVE  \/ \E n \in Mappings : kv[n] # NoMapping /\ p \in PagesOf(kv[n])
                      \/ \E j \in 1 .. Len(gl) : p \in PagesOf(gl[j])
    BY DEF Covered
  <2>1. CASE \E n \in Mappings : lv[n] # NoMapping /\ p \in PagesOf(lv[n])
    BY <1>2, <2>1
  <2>2. ASSUME NEW k \in 1 .. Len(fl), p \in PagesOf(fl[k])
        PROVE  \/ \E n \in Mappings : kv[n] # NoMapping /\ p \in PagesOf(kv[n])
               \/ \E j \in 1 .. Len(gl) : p \in PagesOf(gl[j])
    BY <1>2, <1>3, <1>5, <2>2
  <2> QED BY <2>1, <2>2 DEF Split, Covered
<1> QED BY <1>6, <1>7, <1>8 DEF Split, gl, kv

\* A mapping at the end of the space, next to a free range or not.
LEMMA SplitGrow ==
    ASSUME NEW fl \in Seq(Extents), NEW lv \in [Mappings -> Mapping], NEW end \in Nat, Base <= end,
           Split(fl, lv, end), NEW m \in Mappings, lv[m] = NoMapping, NEW r \in Mapping,
           r # NoMapping, NEW new \in Nat, end <= new, NEW gl \in Seq(Extents),
           \/ gl = fl /\ \A p : p \in PagesOf(r) <=> p \in end .. new - 1
           \/ /\ Len(gl) = Len(fl) + 1 /\ \A i \in 1 .. Len(fl) : gl[i + 1] = fl[i]
              /\ \A p : p \in end .. new - 1 <=> p \in PagesOf(gl[1]) \/ p \in PagesOf(r)
              /\ \A p : ~(p \in PagesOf(gl[1]) /\ p \in PagesOf(r))
    PROVE  Split(gl, [lv EXCEPT ![m] = r], new)
<1> DEFINE kv == [lv EXCEPT ![m] = r]
<1>1. kv[m] = r /\ \A n \in Mappings : n # m => kv[n] = lv[n]
  OBVIOUS
<1> HIDE DEF kv
<1>2. /\ Len(fl) \in Nat /\ Len(gl) \in Nat /\ Base \in Nat
  BY RangeAssumption
<1>3. /\ \A p : p \in Base .. new - 1 <=> p \in Base .. end - 1 \/ p \in end .. new - 1
      /\ \A p : ~(p \in Base .. end - 1 /\ p \in end .. new - 1)
  BY <1>2
<1>4. \A n \in Mappings : \A p :
          kv[n] # NoMapping /\ p \in PagesOf(kv[n]) =>
              \/ n # m /\ lv[n] # NoMapping /\ p \in PagesOf(lv[n]) /\ p \in Base .. end - 1
              \/ n = m /\ p \in PagesOf(r) /\ p \in end .. new - 1
  BY <1>1 DEF Split, Within
<1>5. \A j \in 1 .. Len(gl) : \A p :
          p \in PagesOf(gl[j]) =>
              \/ /\ p \in end .. new - 1 /\ gl # fl /\ Len(gl) = Len(fl) + 1 /\ j = 1
              \/ /\ p \in Base .. end - 1
                 /\ \/ gl = fl /\ j \in 1 .. Len(fl)
                    \/ /\ Len(gl) = Len(fl) + 1 /\ j - 1 \in 1 .. Len(fl)
                       /\ p \in PagesOf(fl[j - 1])
  <2> TAKE j \in 1 .. Len(gl)
  <2> TAKE p
  <2> HAVE p \in PagesOf(gl[j])
  <2>1. CASE gl = fl
    BY <2>1 DEF Split, Within
  <2>2. CASE /\ Len(gl) = Len(fl) + 1 /\ \A i \in 1 .. Len(fl) : gl[i + 1] = fl[i]
             /\ \A x : x \in end .. new - 1 <=> x \in PagesOf(gl[1]) \/ x \in PagesOf(r)
    <3>0. gl # fl
      BY <1>2, <2>2
    <3>1. CASE j = 1
      BY <2>2, <3>0, <3>1
    <3>2. CASE j # 1
      <4>1. j - 1 \in 1 .. Len(fl) /\ (j - 1) + 1 = j
        BY <1>2, <2>2, <3>2
      <4>2. p \in PagesOf(fl[j - 1])
        BY <2>2, <4>1
      <4>3. p \in Base .. end - 1
        BY <4>1, <4>2 DEF Split, Within
      <4> QED BY <2>2, <4>1, <4>2, <4>3
    <3> QED BY <3>1, <3>2
  <2> QED BY <2>1, <2>2
<1>6. Apart(gl, kv)
  <2>1. ASSUME NEW k \in Mappings, NEW n \in Mappings, NEW p, kv[k] # NoMapping, kv[n] # NoMapping,
               p \in PagesOf(kv[k]), p \in PagesOf(kv[n])
        PROVE  k = n
    BY <1>3, <1>4, <2>1 DEF Split, Apart
  <2>2. ASSUME NEW j \in 1 .. Len(gl), NEW k \in 1 .. Len(gl), NEW p,
               p \in PagesOf(gl[j]), p \in PagesOf(gl[k])
        PROVE  j = k
    <3>1. CASE gl = fl
      BY <2>2, <3>1 DEF Split, Apart
    <3>2. CASE gl # fl /\ p \in end .. new - 1
      BY <1>3, <1>5, <2>2, <3>2
    <3>3. CASE gl # fl /\ p \in Base .. end - 1
      <4>1. /\ j - 1 \in 1 .. Len(fl) /\ p \in PagesOf(fl[j - 1])
            /\ k - 1 \in 1 .. Len(fl) /\ p \in PagesOf(fl[k - 1])
        BY <1>3, <1>5, <2>2, <3>3
      <4>2. j - 1 = k - 1
        BY <4>1 DEF Split, Apart
      <4> QED BY <1>2, <4>2
    <3> QED BY <1>5, <2>2, <3>1, <3>2, <3>3
  <2>3. ASSUME NEW n \in Mappings, NEW j \in 1 .. Len(gl), NEW p,
               kv[n] # NoMapping, p \in PagesOf(kv[n]), p \in PagesOf(gl[j])
        PROVE  FALSE
    <3>1. CASE n = m
      <4>1. p \in PagesOf(r) /\ p \in end .. new - 1
        BY <1>4, <2>3, <3>1
      <4>2. gl # fl /\ j = 1
        BY <1>3, <1>5, <2>3, <4>1
      <4> QED BY <2>3, <4>1, <4>2
    <3>2. CASE n # m
      <4>1. lv[n] # NoMapping /\ p \in PagesOf(lv[n]) /\ p \in Base .. end - 1
        BY <1>4, <2>3, <3>2
      <4>2. CASE gl = fl
        BY <2>3, <4>1, <4>2 DEF Split, Apart
      <4>3. CASE gl # fl
        <5>1. j - 1 \in 1 .. Len(fl) /\ p \in PagesOf(fl[j - 1])
          BY <1>3, <1>5, <2>3, <4>1, <4>3
        <5> QED BY <4>1, <5>1 DEF Split, Apart
      <4> QED BY <4>2, <4>3
    <3> QED BY <3>1, <3>2
  <2> QED BY <2>1, <2>2, <2>3 DEF Apart
<1>7. Within(gl, kv, new)
  BY <1>3, <1>4, <1>5 DEF Within
<1>8. Covered(gl, kv, new)
  <2> SUFFICES ASSUME NEW p \in Base .. new - 1
               PROVE  \/ \E n \in Mappings : kv[n] # NoMapping /\ p \in PagesOf(kv[n])
                      \/ \E j \in 1 .. Len(gl) : p \in PagesOf(gl[j])
    BY DEF Covered
  <2>1. CASE p \in end .. new - 1
    <3>1. CASE p \in PagesOf(r)
      BY <1>1, <3>1
    <3>2. CASE p \notin PagesOf(r)
      <4>1. Len(gl) = Len(fl) + 1 /\ p \in PagesOf(gl[1])
        BY <2>1, <3>2
      <4>2. 1 \in 1 .. Len(gl)
        BY <1>2, <4>1
      <4> QED BY <4>1, <4>2
    <3> QED BY <3>1, <3>2
  <2>2. CASE p \in Base .. end - 1
    <3>1. CASE \E n \in Mappings : lv[n] # NoMapping /\ p \in PagesOf(lv[n])
      BY <1>1, <3>1
    <3>2. ASSUME NEW k \in 1 .. Len(fl), p \in PagesOf(fl[k])
          PROVE  \E j \in 1 .. Len(gl) : p \in PagesOf(gl[j])
      <4>1. CASE gl = fl
        BY <3>2, <4>1
      <4>2. CASE Len(gl) = Len(fl) + 1 /\ \A i \in 1 .. Len(fl) : gl[i + 1] = fl[i]
        <5>1. k + 1 \in 1 .. Len(gl) /\ gl[k + 1] = fl[k]
          BY <1>2, <4>2
        <5> QED BY <3>2, <5>1
      <4> QED BY <4>1, <4>2
    <3> QED BY <2>2, <3>1, <3>2 DEF Split, Covered
  <2> QED BY <1>3, <2>1, <2>2
<1> QED BY <1>6, <1>7, <1>8 DEF Split, kv

\* A mapping becomes a free range.
LEMMA SplitGive ==
    ASSUME NEW fl \in Seq(Extents), NEW lv \in [Mappings -> Mapping], NEW end \in Nat,
           Split(fl, lv, end), NEW m \in Mappings, lv[m] # NoMapping,
           NEW gl \in Seq(Extents), Len(gl) = Len(fl) + 1, \A i \in 1 .. Len(fl) : gl[i + 1] = fl[i],
           PagesOf(gl[1]) = PagesOf(lv[m])
    PROVE  Split(gl, [lv EXCEPT ![m] = NoMapping], end)
<1> DEFINE kv == [lv EXCEPT ![m] = NoMapping]
<1>1. kv[m] = NoMapping /\ \A n \in Mappings : n # m => kv[n] = lv[n]
  OBVIOUS
<1> HIDE DEF kv
<1>2. Len(fl) \in Nat /\ Len(gl) \in Nat /\ 1 \in 1 .. Len(gl)
  OBVIOUS
<1>3. \A j \in 1 .. Len(gl) : j = 1 \/ (j - 1 \in 1 .. Len(fl) /\ gl[j] = fl[j - 1])
  <2> TAKE j \in 1 .. Len(gl)
  <2>1. CASE j # 1
    <3>1. j - 1 \in 1 .. Len(fl) /\ (j - 1) + 1 = j
      BY <1>2, <2>1
    <3> QED BY <3>1
  <2> QED BY <2>1
<1>4. \A k \in 1 .. Len(fl) : k + 1 \in 1 .. Len(gl) /\ gl[k + 1] = fl[k]
  BY <1>2
<1>5. Apart(gl, kv)
  <2>1. ASSUME NEW k \in Mappings, NEW n \in Mappings, NEW p, kv[k] # NoMapping, kv[n] # NoMapping,
               p \in PagesOf(kv[k]), p \in PagesOf(kv[n])
        PROVE  k = n
    BY <1>1, <2>1 DEF Split, Apart
  <2>2. ASSUME NEW j \in 1 .. Len(gl), NEW k \in 1 .. Len(gl), NEW p,
               p \in PagesOf(gl[j]), p \in PagesOf(gl[k])
        PROVE  j = k
    <3>1. CASE j = 1 /\ k = 1
      BY <3>1
    <3>2. CASE j = 1 /\ k # 1
      BY <1>3, <2>2, <3>2 DEF Split, Apart
    <3>3. CASE j # 1 /\ k = 1
      BY <1>3, <2>2, <3>3 DEF Split, Apart
    <3>4. CASE j # 1 /\ k # 1
      <4>1. j - 1 = k - 1
        BY <1>3, <2>2, <3>4 DEF Split, Apart
      <4> QED BY <1>2, <4>1
    <3> QED BY <3>1, <3>2, <3>3, <3>4
  <2>3. ASSUME NEW n \in Mappings, NEW j \in 1 .. Len(gl), NEW p,
               kv[n] # NoMapping, p \in PagesOf(kv[n]), p \in PagesOf(gl[j])
        PROVE  FALSE
    <3>1. n # m /\ lv[n] # NoMapping /\ p \in PagesOf(lv[n])
      BY <1>1, <2>3
    <3>2. CASE j = 1
      BY <2>3, <3>1, <3>2 DEF Split, Apart
    <3>3. CASE j # 1
      BY <1>3, <2>3, <3>1, <3>3 DEF Split, Apart
    <3> QED BY <3>2, <3>3
  <2> QED BY <2>1, <2>2, <2>3 DEF Apart
<1>6. Within(gl, kv, end)
  BY <1>1, <1>3 DEF Split, Within
<1>7. Covered(gl, kv, end)
  BY <1>1, <1>2, <1>4 DEF Split, Covered
<1> QED BY <1>5, <1>6, <1>7 DEF Split, kv

\* The pages of ranges.
LEMMA PagesOfRange ==
    ASSUME NEW a \in Nat, NEW n \in Nat, NEW r, r.addr = a, r.pages = n
    PROVE  \A p : p \in PagesOf(r) <=> p \in a .. a + n - 1
BY DEF PagesOf

\* What a mapping and a free range record.
LEMMA RangeFields ==
    ASSUME NEW kind, NEW addr, NEW fs, NEW blocks, NEW flags, NEW n
    PROVE  /\ MappingOf(kind, addr, fs, blocks, flags).addr = addr
           /\ MappingOf(kind, addr, fs, blocks, flags).pages = Len(fs)
           /\ MappingOf(kind, addr, fs, blocks, flags).frames = fs
           /\ MappingOf(kind, addr, fs, blocks, flags).flags = flags
           /\ Extent(addr, n).addr = addr /\ Extent(addr, n).pages = n
BY DEF MappingOf, Extent

\* A new mapping takes pages that were free.
LEMMA MappedApart ==
    ASSUME TypeInv, PartInv, NEW m \in Mappings, NEW kind, NEW addr, NEW fs, NEW blocks, NEW flags,
           Mapped(m, kind, addr, fs, blocks, flags)
    PROVE  PartInv' /\ (cuts' = 0 => cuts = 0)
<1>1. /\ free_list \in Seq(Extents) /\ current_address \in Nat /\ cuts \in Nat
      /\ Base <= current_address /\ live \in [Mappings -> Mapping]
  <2>1. /\ free_list \in Seq(Extents) /\ current_address \in Nat /\ cuts \in 0 .. MaxCuts
        /\ Base <= current_address /\ live \in [Mappings -> Mapping]
    BY Zenon DEF TypeInv, TypeOK, Extents
  <2> QED BY <2>1, RequestAssumption
<1>2. /\ addr \in Nat /\ Len(fs) \in Nat \ {0} /\ live[m] = NoMapping /\ fs \in Seq(Nat)
      /\ kind \in {"pages", "contiguous", "registers"} /\ blocks \in SUBSET Frames /\ flags \in Flags
      /\ live' = [live EXCEPT ![m] = MappingOf(kind, addr, fs, blocks, flags)]
  BY DEF Mapped, IsLive
<1> DEFINE r == MappingOf(kind, addr, fs, blocks, flags)
<1> DEFINE n == Len(fs)
<1>3. r \in Mapping /\ r # NoMapping /\ r.addr = addr /\ r.pages = n
  <2>1. r \in Mapping /\ r # NoMapping
    BY <1>2, MappingTyped
  <2>2. r.addr = addr /\ r.pages = n
    BY DEF MappingOf
  <2> QED BY <2>1, <2>2
<1>4. live' = [live EXCEPT ![m] = r] /\ n \in Nat \ {0}
  BY <1>2
<1>5. \/ Cut
      \/ \E i \in 1 .. Len(free_list) : Used(i, addr, n)
      \/ Extended(addr, n)
      \/ Claimed(addr, n)
  BY DEF Mapped
<1> HIDE DEF r, n
<1>6. \A p : p \in PagesOf(r) <=> p \in addr .. addr + n - 1
  BY <1>2, <1>3, <1>4, PagesOfRange
<1>7. CASE Cut
  BY <1>1, <1>7 DEF Cut, PartInv
<1>8. ASSUME NEW i \in 1 .. Len(free_list), Used(i, addr, n) PROVE PartInv' /\ (cuts' = 0 => cuts = 0)
  <2>1. /\ free_list[i].addr = addr /\ free_list[i].pages = n
        /\ free_list' = RemoveAt(free_list, i) /\ UNCHANGED <<current_address, cuts>>
    BY <1>8 DEF Used
  <2>2. \A p : p \in PagesOf(free_list[i]) <=> p \in addr .. addr + n - 1
    BY <1>2, <1>4, <2>1, PagesOfRange
  <2>3. PagesOf(r) = PagesOf(free_list[i])
    BY <1>6, <2>2
  <2>4. ASSUME cuts = 0 PROVE Split(free_list', live', current_address)
    <3>1. Split(free_list, live, current_address)
      BY <2>4 DEF PartInv
    <3>2. Split(RemoveAt(free_list, i), [live EXCEPT ![m] = r], current_address)
      BY <1>1, <1>2, <1>3, <2>3, <3>1, SplitUse
    <3> QED BY <1>4, <2>1, <3>2
  <2> QED BY <2>1, <2>4 DEF PartInv
<1>9. CASE Extended(addr, n)
  <2>1. /\ addr = current_address /\ current_address' = addr + n /\ addr + n <= Limit
        /\ UNCHANGED <<free_list, cuts>>
    BY <1>9 DEF Extended
  <2> DEFINE new == current_address'
  <2>2. /\ new \in Nat /\ current_address <= new
        /\ \A p : p \in PagesOf(r) <=> p \in current_address .. new - 1
    BY <1>1, <1>4, <1>6, <2>1
  <2> HIDE DEF new
  <2>3. ASSUME cuts = 0 PROVE Split(free_list, [live EXCEPT ![m] = r], new)
    <3>1. Split(free_list, live, current_address)
      BY <2>3 DEF PartInv
    <3> QED BY <1>1, <1>2, <1>3, <2>2, <3>1, SplitGrow
  <2> QED BY <1>4, <2>1, <2>3 DEF PartInv, new
<1>10. CASE Claimed(addr, n)
  <2>1. /\ current_address <= addr /\ current_address' = addr + n /\ addr + n <= Limit
        /\ free_list' = <<Extent(current_address, addr - current_address)>> \o free_list
        /\ UNCHANGED cuts
    BY <1>10 DEF Claimed
  <2> DEFINE new == current_address'
  <2> DEFINE gap == addr - current_address
  <2> DEFINE g == Extent(current_address, gap)
  <2> DEFINE gl == free_list'
  <2>2. new \in Nat /\ current_address <= new /\ gap \in Nat /\ new = addr + n
        /\ current_address + gap = addr
    BY <1>1, <1>2, <1>4, <2>1
  <2>3. g.addr = current_address /\ g.pages = gap
    BY RangeFields
  <2>4. /\ gl \in Seq(Extents) /\ Len(gl) = Len(free_list) + 1
        /\ gl[1] = g /\ \A i \in 1 .. Len(free_list) : gl[i + 1] = free_list[i]
    BY <1>1, <2>1, <2>2, FreeTyped
  <2> HIDE DEF new, gap, g, gl
  <2>5. \A p : p \in PagesOf(g) <=> p \in current_address .. current_address + gap - 1
    BY <1>1, <2>2, <2>3, PagesOfRange
  <2>6. /\ \A p : p \in current_address .. new - 1 <=> p \in PagesOf(gl[1]) \/ p \in PagesOf(r)
        /\ \A p : ~(p \in PagesOf(gl[1]) /\ p \in PagesOf(r))
    <3>1. \A p : p \in PagesOf(gl[1]) <=> p \in current_address .. addr - 1
      <4>1. current_address + gap - 1 = addr - 1
        BY <1>1, <1>2, <2>2
      <4> QED BY <2>4, <2>5, <4>1
    <3>2. \A p : p \in PagesOf(r) <=> p \in addr .. new - 1
      <4>1. addr + n - 1 = new - 1
        BY <1>2, <1>4, <2>2
      <4> QED BY <1>6, <4>1
    <3>3. /\ \A p : p \in current_address .. new - 1 <=>
                     p \in current_address .. addr - 1 \/ p \in addr .. new - 1
          /\ \A p : ~(p \in current_address .. addr - 1 /\ p \in addr .. new - 1)
      BY <1>1, <1>2, <1>4, <2>1, <2>2
    <3> QED BY <3>1, <3>2, <3>3
  <2>7. ASSUME cuts = 0 PROVE Split(gl, [live EXCEPT ![m] = r], new)
    <3>1. Split(free_list, live, current_address)
      BY <2>7 DEF PartInv
    <3> QED BY <1>1, <1>2, <1>3, <2>2, <2>4, <2>6, <3>1, SplitGrow
  <2> QED BY <1>4, <2>1, <2>7 DEF PartInv, new, gl
<1> QED BY <1>5, <1>7, <1>8, <1>9, <1>10

\* Pages of a mapping that goes become free.
LEMMA UnmappedApart ==
    ASSUME TypeInv, PartInv, NEW m \in Mappings, Unmapped(m)
    PROVE  PartInv' /\ cuts' = cuts
<1>1. /\ free_list \in Seq(Extents) /\ current_address \in Nat /\ live \in [Mappings -> Mapping]
  BY Zenon DEF TypeInv, TypeOK, Extents
<1>2. /\ live[m] # NoMapping /\ live' = [live EXCEPT ![m] = NoMapping]
      /\ free_list' = <<Extent(live[m].addr, live[m].pages)>> \o free_list
      /\ UNCHANGED <<current_address, cuts>>
  BY DEF Unmapped, add_range_to_free_list, IsLive
<1>3. live[m].addr \in Nat /\ live[m].pages \in Nat
  BY LiveTyped DEF Unmapped
<1> DEFINE g == Extent(live[m].addr, live[m].pages)
<1> DEFINE gl == free_list'
<1>4. g.addr = live[m].addr /\ g.pages = live[m].pages
  BY RangeFields
<1>5. /\ gl \in Seq(Extents) /\ Len(gl) = Len(free_list) + 1
      /\ gl[1] = g /\ \A i \in 1 .. Len(free_list) : gl[i + 1] = free_list[i]
  BY <1>1, <1>2, <1>3, FreeTyped
<1>6. PagesOf(g) = PagesOf(live[m])
  BY <1>4 DEF PagesOf
<1> HIDE DEF g, gl
<1>7. ASSUME cuts = 0 PROVE Split(gl, [live EXCEPT ![m] = NoMapping], current_address)
  <2>1. Split(free_list, live, current_address)
    BY <1>7 DEF PartInv
  <2> QED BY <1>1, <1>2, <1>5, <1>6, <2>1, SplitGive
<1> QED BY <1>2, <1>7 DEF PartInv, gl

\* Changing flags moves nothing.
LEMMA FlagsApart ==
    ASSUME TypeInv, PartInv, NEW m \in Mappings, NEW flags \in Flags, range_set_flags(m, flags)
    PROVE  /\ PartInv' /\ cuts' = cuts
           /\ \A n \in Mappings : live'[n] = NoMapping <=> live[n] = NoMapping
           /\ \A n \in Mappings : live[n] # NoMapping =>
                  /\ PagesOf(live'[n]) = PagesOf(live[n])
                  /\ live'[n].addr = live[n].addr /\ live'[n].frames = live[n].frames
                  /\ live'[n].flags = IF n = m THEN flags ELSE live[n].flags
<1>1. /\ live' = [live EXCEPT ![m].flags = flags] /\ live[m] # NoMapping
      /\ UNCHANGED <<free_list, current_address, cuts>>
  BY DEF range_set_flags, IsLive
<1>2. live \in [Mappings -> Mapping]
  BY DEF TypeInv
<1>3. live[m] \in [kind : {"pages", "contiguous", "registers"}, addr : Nat, pages : Nat \ {0},
                   frames : Seq(Nat), blocks : SUBSET Frames, flags : Flags]
  BY LiveTyped DEF range_set_flags
<1> DEFINE old == live[m]
<1> DEFINE r == [old EXCEPT !.flags = flags]
<1>4. live' = [live EXCEPT ![m] = r]
  BY <1>1
<1> HIDE DEF old
<1>5. /\ r.addr = old.addr /\ r.pages = old.pages /\ r.frames = old.frames /\ r.kind = old.kind
      /\ r.flags = flags
  BY <1>3 DEF old
<1>6. r # NoMapping
  <2>1. r.kind # "none" /\ NoMapping.kind = "none"
    BY <1>3, <1>5 DEF old, NoMapping
  <2> QED BY <2>1
<1>7. PagesOf(r) = PagesOf(old)
  BY <1>5 DEF PagesOf
<1> HIDE DEF r
<1>8. live'[m] = r /\ \A n \in Mappings : n # m => live'[n] = live[n]
  BY <1>2, <1>4
<1>9. \A n \in Mappings : live'[n] = NoMapping <=> live[n] = NoMapping
  BY <1>1, <1>6, <1>8
<1>10. \A n \in Mappings : live[n] # NoMapping =>
                  /\ PagesOf(live'[n]) = PagesOf(live[n])
                  /\ live'[n].addr = live[n].addr /\ live'[n].frames = live[n].frames
                  /\ live'[n].flags = IF n = m THEN flags ELSE live[n].flags
  BY <1>5, <1>7, <1>8 DEF old
<1>11. Split(free_list, live, current_address) => Split(free_list, live', current_address)
  BY <1>9, <1>10 DEF Split, Apart, Within, Covered
<1> QED BY <1>1, <1>9, <1>10, <1>11 DEF PartInv

\* Every step keeps the ranges apart.
LEMMA PartStep ==
    ASSUME TypeInv, PartInv, [Next]_vars PROVE PartInv'
<1>1. ASSUME NEW p \in Touched, TLBFill(p) PROVE PartInv'
  BY <1>1 DEF TLBFill, PartInv
<1>2. ASSUME Quiet PROVE PartInv'
  BY <1>2 DEF Quiet, PartInv
<1> QED BY <1>1, <1>2, Steps, MappedApart, UnmappedApart, FlagsApart

\* The ranges are apart in every state.
LEMMA PartAlways == Spec => []PartInv
<1>1. Init => PartInv
  <2> SUFFICES ASSUME Init PROVE PartInv
    OBVIOUS
  <2>1. /\ free_list = <<>> /\ current_address = Base /\ live = [m \in Mappings |-> NoMapping]
        /\ Base \in Nat /\ Limit \in Nat /\ Base < Limit
    BY RangeAssumption DEF Init
  <2>2. 1 .. Len(free_list) = {} /\ Base .. current_address - 1 = {}
    BY <2>1
  <2>3. \A m \in Mappings : live[m] = NoMapping
    BY <2>1
  <2> QED BY <2>1, <2>2, <2>3 DEF PartInv, Split, Apart, Within, Covered
<1>2. TypeInv /\ PartInv /\ [Next]_vars => PartInv'
  BY PartStep
<1> QED BY <1>1, <1>2, TypeAlways, PTL DEF Spec

\* As long as no free range has been split, every page of the space belongs to
\* exactly one mapping, one free range or the part never used: reuse, claims
\* and unmapping in any order neither lose nor duplicate address space.
THEOREM SpaceAlwaysPartitioned == Spec => []SpacePartitioned
<1>1. TypeInv /\ PartInv => SpacePartitioned
  <2> SUFFICES ASSUME TypeInv, PartInv, cuts = 0
               PROVE  /\ MappingsDisjoint
                      /\ \A m \in LiveMappings : PagesOf(live[m]) \subseteq Base .. current_address - 1
                      /\ \A i \in DOMAIN free_list :
                             /\ PagesOf(free_list[i]) \subseteq Base .. current_address - 1
                             /\ \A m \in LiveMappings : PagesOf(free_list[i]) \cap PagesOf(live[m]) = {}
                             /\ \A j \in DOMAIN free_list :
                                    i # j => PagesOf(free_list[i]) \cap PagesOf(free_list[j]) = {}
                      /\ \A p \in Base .. current_address - 1 :
                             \/ \E m \in LiveMappings : p \in PagesOf(live[m])
                             \/ \E i \in DOMAIN free_list : p \in PagesOf(free_list[i])
    BY DEF SpacePartitioned, TypeInv
  <2>1. DOMAIN free_list = 1 .. Len(free_list)
    <3>1. free_list \in Seq(Extents)
      BY Zenon DEF TypeInv, TypeOK, Extents
    <3> QED BY <3>1
  <2>2. \A m : m \in LiveMappings <=> m \in Mappings /\ live[m] # NoMapping
    BY DEF LiveMappings, IsLive
  <2>3. Apart(free_list, live) /\ Within(free_list, live, current_address)
        /\ Covered(free_list, live, current_address)
    BY DEF PartInv, Split
  <2>4. MappingsDisjoint
    BY <2>2, <2>3 DEF MappingsDisjoint, Apart
  <2>5. \A m \in LiveMappings : PagesOf(live[m]) \subseteq Base .. current_address - 1
    BY <2>2, <2>3 DEF Within
  <2>6. ASSUME NEW i \in DOMAIN free_list
        PROVE  /\ PagesOf(free_list[i]) \subseteq Base .. current_address - 1
               /\ \A m \in LiveMappings : PagesOf(free_list[i]) \cap PagesOf(live[m]) = {}
               /\ \A j \in DOMAIN free_list :
                      i # j => PagesOf(free_list[i]) \cap PagesOf(free_list[j]) = {}
    BY <2>1, <2>2, <2>3 DEF Within, Apart
  <2>7. \A p \in Base .. current_address - 1 :
            \/ \E m \in LiveMappings : p \in PagesOf(live[m])
            \/ \E i \in DOMAIN free_list : p \in PagesOf(free_list[i])
    BY <2>1, <2>2, <2>3 DEF Covered
  <2> QED BY <2>4, <2>5, <2>6, <2>7
<1> QED BY <1>1, TypeAlways, PartAlways, PTL

-----------------------------------------------------------------------------
(* What a page translates to.                                              *)

\* What the bits of an entry allow is what the flags say, x telling whether
\* the processor can forbid execution.
Rights(bits, flags, x) ==
    /\ bits.write <=> "WRITABLE" \in flags
    /\ ~bits.execute_disable <=> "EXECUTABLE" \in flags \/ ~x
    /\ bits.cache_disable <=> "CACHE_DISABLE" \in flags

\* The entry e is the one page p of the mapping r should have.
Translates(e, r, p, x) ==
    /\ e.present
    /\ e.frame = r.frames[p - r.addr + 1]
    /\ Rights(e.bits, r.flags, x)

\* TranslationExact, with the rights kept under a name.
TransInv ==
    cuts = 0 =>
        /\ \A m \in Mappings : live[m] # NoMapping =>
               \A p \in PagesOf(live[m]) : Translates(pt[p], live[m], p, nx)
        /\ \A p \in VirtPages :
               pt[p].present => \E m \in Mappings : live[m] # NoMapping /\ p \in PagesOf(live[m])

\* set_flags sets the bits that the flags ask for.
LEMMA RightsSet ==
    ASSUME NEW flags, nx \in BOOLEAN PROVE Rights(set_flags(flags), flags, nx)
<1>1. /\ set_flags(flags).write = ("WRITABLE" \in flags)
      /\ set_flags(flags).cache_disable = ("CACHE_DISABLE" \in flags)
      /\ set_flags(flags).execute_disable = ("EXECUTABLE" \notin flags /\ nx)
  BY DEF set_flags
<1> QED BY <1>1, Zenon DEF Rights

\* Pages of the space have entries of their own.
LEMMA IndexIs ==
    ASSUME NEW p \in VirtPages PROVE Index(p) = p
<1> DEFINE k == Limit - Base
<1> DEFINE x == p - Base
<1>1. k \in Nat \ {0} /\ x \in Nat /\ x < k /\ Base + x = p
  BY RangeAssumption DEF VirtPages
<1> HIDE DEF k, x
<1>2. x % k = x
  <2> DEFINE q == x \div k
  <2> DEFINE y == x % k
  <2>1. q \in Nat /\ y \in 0 .. k - 1 /\ x = q * k + y
    BY <1>1, DivMod
  <2>2. x \in 0 .. k - 1 /\ 0 \in Int /\ q \in Int /\ 0 * k + x = x
    BY <1>1, <2>1
  <2> HIDE DEF q, y
  <2> QED BY <1>1, <2>1, <2>2, QuotientUnique DEF y
<1> QED BY <1>1, <1>2 DEF Index, k, x

\* The pages of mappings lie in the space.
LEMMA PagesInside ==
    ASSUME TypeInv, PartInv, cuts = 0, NEW m \in Mappings, live[m] # NoMapping
    PROVE  \A p \in PagesOf(live[m]) : p \in VirtPages
<1>1. /\ current_address \in Nat /\ Base \in Nat /\ Limit \in Nat /\ current_address <= Limit
      /\ \A p : p \in PagesOf(live[m]) => p \in Base .. current_address - 1
  BY RangeAssumption DEF TypeInv, TypeOK, PartInv, Split, Within
<1>2. \A p \in Base .. current_address - 1 : p \in VirtPages
  BY <1>1 DEF VirtPages
<1> QED BY <1>1, <1>2

\* Mapping a range that lies in the space writes an entry for each page of it.
LEMMA MapExact ==
    ASSUME TypeInv, NEW addr \in Nat, NEW fs \in Seq(Nat), NEW flags, Map(addr, fs, flags),
           \A p \in addr .. addr + Len(fs) - 1 : p \in VirtPages
    PROVE  \A p \in VirtPages :
               pt'[p] = IF p \in addr .. addr + Len(fs) - 1
                        THEN Entry(fs[p - addr + 1], set_flags(flags)) ELSE pt[p]
<1> DEFINE At(p) == {i \in DOMAIN fs : Index(addr + i - 1) = p}
<1> DEFINE at(p) == CHOOSE i \in At(p) : \A j \in At(p) : j <= i
<1>1. pt' = [p \in VirtPages |-> IF At(p) = {} THEN pt[p] ELSE Entry(fs[at(p)], set_flags(flags))]
  BY DEF Map
<1> DEFINE n == Len(fs)
<1>2. n \in Nat /\ DOMAIN fs = 1 .. n
  OBVIOUS
<1>3. ASSUME NEW i \in 1 .. n PROVE Index(addr + i - 1) = addr + i - 1
  <2>1. addr + i - 1 \in addr .. addr + n - 1
    BY <1>2
  <2>2. addr + i - 1 \in VirtPages
    BY <2>1
  <2> QED BY <2>2, IndexIs
<1>4. ASSUME NEW p \in VirtPages PROVE \A i : i \in At(p) <=> i \in 1 .. n /\ addr + i - 1 = p
  BY <1>2, <1>3
<1> HIDE DEF n
<1>5. ASSUME NEW p \in VirtPages, p \notin addr .. addr + n - 1 PROVE At(p) = {}
  <2>1. \A i \in 1 .. n : addr + i - 1 \in addr .. addr + n - 1
    BY <1>2
  <2> HIDE DEF At
  <2> QED BY <1>4, <1>5, <2>1
<1>6. ASSUME NEW p \in VirtPages, p \in addr .. addr + n - 1
      PROVE  At(p) # {} /\ at(p) = p - addr + 1
  <2> DEFINE k == p - addr + 1
  <2>1. k \in 1 .. n /\ addr + k - 1 = p
    BY <1>2, <1>6
  <2>2. \A i \in 1 .. n : addr + i - 1 = p => i = k
    BY <1>2, <1>6
  <2> HIDE DEF At, k
  <2>3. \A i : i \in At(p) <=> i = k
    BY <1>4, <2>1, <2>2
  <2>4. k <= k
    BY <2>1
  <2>5. \E i \in At(p) : \A j \in At(p) : j <= i
    <3>1. k \in At(p) /\ \A j \in At(p) : j = k
      BY <2>3
    <3>2. \A j \in At(p) : j <= k
      BY <2>4, <3>1
    <3> QED BY <3>1, <3>2
  <2>6. at(p) \in At(p)
    BY <2>5
  <2> HIDE DEF at
  <2> QED BY <2>3, <2>6 DEF k
<1> HIDE DEF At, at
<1>7. ASSUME NEW p \in VirtPages
      PROVE  pt'[p] = IF p \in addr .. addr + n - 1
                      THEN Entry(fs[p - addr + 1], set_flags(flags)) ELSE pt[p]
  BY <1>1, <1>5, <1>6
<1> QED BY <1>7 DEF n

\* A new mapping translates exactly, and disturbs no other.
LEMMA MappedTranslates ==
    ASSUME TypeInv, PartInv, TransInv, TypeInv', NEW m \in Mappings, NEW kind, NEW addr, NEW fs,
           NEW blocks, NEW flags, Mapped(m, kind, addr, fs, blocks, flags)
    PROVE  TransInv'
<1> SUFFICES ASSUME cuts' = 0
             PROVE  /\ \A k \in Mappings : live'[k] # NoMapping =>
                           \A p \in PagesOf(live'[k]) : Translates(pt'[p], live'[k], p, nx')
                    /\ \A p \in VirtPages :
                           pt'[p].present => \E k \in Mappings :
                               live'[k] # NoMapping /\ p \in PagesOf(live'[k])
  BY DEF TransInv
<1>1. PartInv' /\ cuts = 0
  BY MappedApart
<1> DEFINE r == MappingOf(kind, addr, fs, blocks, flags)
<1>2. /\ addr \in Nat /\ fs \in Seq(Nat) /\ Len(fs) \in Nat /\ live[m] = NoMapping
      /\ live' = [live EXCEPT ![m] = r] /\ Map(addr, fs, flags) /\ nx' = nx
      /\ live \in [Mappings -> Mapping] /\ nx \in BOOLEAN
  BY DEF Mapped, IsLive, TypeInv, TypeOK
<1>3. r # NoMapping
  BY MappingTyped DEF Mapped
<1>4. r.addr = addr /\ r.pages = Len(fs) /\ r.frames = fs /\ r.flags = flags
  BY DEF MappingOf
<1> HIDE DEF r
<1>5. live'[m] = r /\ \A k \in Mappings : k # m => live'[k] = live[k]
  BY <1>2
<1>6. PagesOf(r) = addr .. addr + Len(fs) - 1
  BY <1>4 DEF PagesOf
<1>7. \A k \in Mappings : live'[k] # NoMapping => \A p \in PagesOf(live'[k]) : p \in VirtPages
  <2> DEFINE end == current_address'
  <2>1. /\ end \in Nat /\ end <= Limit
        /\ \A k \in Mappings : \A p :
               live'[k] # NoMapping /\ p \in PagesOf(live'[k]) => p \in Base .. end - 1
    BY <1>1 DEF TypeInv, TypeOK, PartInv, Split, Within
  <2> HIDE DEF end
  <2>2. \A p \in Base .. end - 1 : p \in VirtPages
    BY <2>1, RangeAssumption DEF VirtPages
  <2> QED BY <2>1, <2>2
<1>8. \A p \in PagesOf(r) : p \in VirtPages
  BY <1>3, <1>5, <1>7
<1>9. \A p \in VirtPages :
          pt'[p] = IF p \in PagesOf(r) THEN Entry(fs[p - addr + 1], set_flags(flags)) ELSE pt[p]
  BY <1>2, <1>6, <1>8, MapExact
<1>10. \A k \in Mappings : \A p :
           k # m /\ live[k] # NoMapping /\ p \in PagesOf(live[k]) => p \notin PagesOf(r)
  BY <1>1, <1>3, <1>5 DEF PartInv, Split, Apart
<1>11. ASSUME NEW k \in Mappings, live'[k] # NoMapping, NEW p \in PagesOf(live'[k])
       PROVE  Translates(pt'[p], live'[k], p, nx')
  <2>1. p \in VirtPages
    BY <1>7, <1>11
  <2>2. CASE k = m
    <3> DEFINE e == Entry(fs[p - addr + 1], set_flags(flags))
    <3>1. pt'[p] = e
      BY <1>5, <1>9, <1>11, <2>1, <2>2
    <3>2. e.present /\ e.frame = fs[p - addr + 1] /\ e.bits = set_flags(flags)
      BY DEF Entry
    <3> HIDE DEF e
    <3>3. Rights(e.bits, r.flags, nx)
      BY <1>2, <1>4, <3>2, RightsSet
    <3>4. Translates(e, r, p, nx)
      BY <1>4, <3>2, <3>3, Zenon DEF Translates
    <3> QED BY <1>2, <1>5, <2>2, <3>1, <3>4
  <2>3. CASE k # m
    <3>1. live'[k] = live[k] /\ pt'[p] = pt[p]
      BY <1>5, <1>9, <1>10, <1>11, <2>1, <2>3
    <3>2. Translates(pt[p], live[k], p, nx)
      BY <1>1, <1>11, <3>1 DEF TransInv
    <3> QED BY <1>2, <3>1, <3>2
  <2> QED BY <2>2, <2>3
<1>12. ASSUME NEW p \in VirtPages, pt'[p].present
       PROVE  \E k \in Mappings : live'[k] # NoMapping /\ p \in PagesOf(live'[k])
  <2>1. CASE p \in PagesOf(r)
    BY <1>3, <1>5, <2>1
  <2>2. CASE p \notin PagesOf(r)
    <3>1. pt[p].present
      BY <1>9, <1>12, <2>2
    <3>2. PICK k \in Mappings : live[k] # NoMapping /\ p \in PagesOf(live[k])
      BY <1>1, <3>1 DEF TransInv
    <3> QED BY <1>2, <1>5, <3>2
  <2> QED BY <2>1, <2>2
<1> QED BY <1>11, <1>12

\* Unmapping clears the entries of the mapping that goes, and no others.
LEMMA UnmappedTranslates ==
    ASSUME TypeInv, PartInv, TransInv, NEW m \in Mappings, Unmapped(m)
    PROVE  TransInv'
<1> SUFFICES ASSUME cuts' = 0
             PROVE  /\ \A k \in Mappings : live'[k] # NoMapping =>
                           \A p \in PagesOf(live'[k]) : Translates(pt'[p], live'[k], p, nx')
                    /\ \A p \in VirtPages :
                           pt'[p].present => \E k \in Mappings :
                               live'[k] # NoMapping /\ p \in PagesOf(live'[k])
  BY DEF TransInv
<1>1. /\ cuts = 0 /\ nx' = nx /\ live[m] # NoMapping /\ live' = [live EXCEPT ![m] = NoMapping]
      /\ pt' = [p \in VirtPages |-> IF p \in Indexes(live[m]) THEN NotPresent ELSE pt[p]]
      /\ live \in [Mappings -> Mapping]
  BY DEF Unmapped, Unmap, IsLive, TypeInv
<1>2. live'[m] = NoMapping /\ \A k \in Mappings : k # m => live'[k] = live[k]
  BY <1>1
<1>3. \A k \in Mappings : live[k] # NoMapping => \A p \in PagesOf(live[k]) : p \in VirtPages
  BY <1>1, PagesInside
<1>4. \A p : p \in Indexes(live[m]) <=> p \in PagesOf(live[m])
  <2>1. \A p \in PagesOf(live[m]) : Index(p) = p
    BY <1>1, <1>3, IndexIs
  <2> QED BY <2>1 DEF Indexes
<1>5. \A p \in VirtPages : pt'[p] = IF p \in PagesOf(live[m]) THEN NotPresent ELSE pt[p]
  BY <1>1, <1>4
<1>6. \A k \in Mappings : \A p :
          k # m /\ live[k] # NoMapping /\ p \in PagesOf(live[k]) => p \notin PagesOf(live[m])
  BY <1>1 DEF PartInv, Split, Apart
<1>7. ASSUME NEW k \in Mappings, live'[k] # NoMapping, NEW p \in PagesOf(live'[k])
      PROVE  Translates(pt'[p], live'[k], p, nx')
  <2>1. k # m /\ live'[k] = live[k]
    BY <1>2, <1>7
  <2>2. p \in VirtPages
    BY <1>3, <1>7, <2>1
  <2>3. pt'[p] = pt[p]
    BY <1>5, <1>6, <1>7, <2>1, <2>2
  <2>4. Translates(pt[p], live[k], p, nx)
    BY <1>1, <1>7, <2>1 DEF TransInv
  <2> QED BY <1>1, <2>1, <2>3, <2>4
<1>8. ASSUME NEW p \in VirtPages, pt'[p].present
      PROVE  \E k \in Mappings : live'[k] # NoMapping /\ p \in PagesOf(live'[k])
  <2>1. NotPresent.present = FALSE
    BY DEF NotPresent
  <2>2. p \notin PagesOf(live[m]) /\ pt[p].present
    BY <1>5, <1>8, <2>1
  <2>3. PICK k \in Mappings : live[k] # NoMapping /\ p \in PagesOf(live[k])
    BY <1>1, <2>2 DEF TransInv
  <2> QED BY <1>2, <2>2, <2>3
<1> QED BY <1>7, <1>8

\* Changing flags changes the bits of the mapping's entries, and no others.
LEMMA FlagsTranslate ==
    ASSUME TypeInv, PartInv, TransInv, NEW m \in Mappings, NEW flags \in Flags,
           range_set_flags(m, flags)
    PROVE  TransInv'
<1> SUFFICES ASSUME cuts' = 0
             PROVE  /\ \A k \in Mappings : live'[k] # NoMapping =>
                           \A p \in PagesOf(live'[k]) : Translates(pt'[p], live'[k], p, nx')
                    /\ \A p \in VirtPages :
                           pt'[p].present => \E k \in Mappings :
                               live'[k] # NoMapping /\ p \in PagesOf(live'[k])
  BY DEF TransInv
<1> DEFINE set == {p \in PagesOf(live[m]) : \A q \in live[m].addr .. p : pt[Index(q)].present}
<1> DEFINE b == set_flags(flags)
<1>1. /\ cuts = 0 /\ nx' = nx /\ live[m] # NoMapping /\ nx \in BOOLEAN /\ pt \in [VirtPages -> PTE]
      /\ pt' = [p \in VirtPages |-> IF \E q \in set : Index(q) = p THEN [pt[p] EXCEPT !.bits = b]
                                                                   ELSE pt[p]]
  BY DEF range_set_flags, IsLive, TypeInv, TypeOK
<1>2. /\ \A n \in Mappings : live'[n] = NoMapping <=> live[n] = NoMapping
      /\ \A n \in Mappings : live[n] # NoMapping =>
                  /\ PagesOf(live'[n]) = PagesOf(live[n])
                  /\ live'[n].addr = live[n].addr /\ live'[n].frames = live[n].frames
                  /\ live'[n].flags = IF n = m THEN flags ELSE live[n].flags
  BY FlagsApart
<1>3. \A k \in Mappings : live[k] # NoMapping => \A p \in PagesOf(live[k]) : p \in VirtPages
  BY <1>1, PagesInside
<1>4. \A p \in PagesOf(live[m]) : Index(p) = p /\ pt[p].present
  BY <1>1, <1>3, IndexIs DEF TransInv, Translates
<1>5. \A p \in PagesOf(live[m]) : p \in set
  <2> SUFFICES ASSUME NEW p \in PagesOf(live[m]), NEW q \in live[m].addr .. p
               PROVE  pt[Index(q)].present
    OBVIOUS
  <2>1. live[m].addr \in Nat /\ live[m].pages \in Nat
    BY <1>1, LiveTyped DEF IsLive
  <2>2. q \in PagesOf(live[m])
    BY <2>1 DEF PagesOf
  <2> QED BY <1>4, <2>2
<1>6. \A p : (\E q \in set : Index(q) = p) <=> p \in PagesOf(live[m])
  BY <1>4, <1>5
<1> HIDE DEF set
<1>7. ASSUME NEW p \in VirtPages
      PROVE  pt'[p] = IF p \in PagesOf(live[m]) THEN [pt[p] EXCEPT !.bits = b] ELSE pt[p]
  BY <1>1, <1>6
<1>8. ASSUME NEW p \in PagesOf(live[m])
      PROVE  LET e == [pt[p] EXCEPT !.bits = b]
             IN  e.present /\ e.frame = pt[p].frame /\ e.bits = b
  <2> DEFINE d == pt[p]
  <2>1. d \in [present : {TRUE}, frame : Nat, bits : Bits]
    BY <1>1, <1>3, <1>4, PresentEntry
  <2>2. b \in Bits
    BY <1>1, BitsTyped
  <2> HIDE DEF d, b
  <2>3. [d EXCEPT !.bits = b].present /\ [d EXCEPT !.bits = b].frame = d.frame
        /\ [d EXCEPT !.bits = b].bits = b
    BY <2>1, <2>2
  <2> QED BY <2>3 DEF d
<1>9. \A k \in Mappings : \A p :
          k # m /\ live[k] # NoMapping /\ p \in PagesOf(live[k]) => p \notin PagesOf(live[m])
  BY <1>1 DEF PartInv, Split, Apart
<1>10. ASSUME NEW k \in Mappings, live'[k] # NoMapping, NEW p \in PagesOf(live'[k])
       PROVE  Translates(pt'[p], live'[k], p, nx')
  <2>1. live[k] # NoMapping /\ p \in PagesOf(live[k]) /\ p \in VirtPages
    BY <1>2, <1>3, <1>10
  <2>2. /\ pt[p].present /\ pt[p].frame = live[k].frames[p - live[k].addr + 1]
        /\ Rights(pt[p].bits, live[k].flags, nx)
    BY <1>1, <2>1 DEF TransInv, Translates
  <2>3. live'[k].addr = live[k].addr /\ live'[k].frames = live[k].frames
    BY <1>2, <2>1
  <2>4. CASE k = m
    <3> DEFINE e == [pt[p] EXCEPT !.bits = b]
    <3>1. pt'[p] = e /\ e.present /\ e.frame = pt[p].frame /\ e.bits = b
      BY <1>7, <1>8, <2>1, <2>4
    <3>2. live'[k].flags = flags
      BY <1>2, <2>1, <2>4
    <3>3. Rights(b, flags, nx)
      BY <1>1, RightsSet
    <3> HIDE DEF e, b
    <3> QED BY <1>1, <2>2, <2>3, <3>1, <3>2, <3>3 DEF Translates
  <2>5. CASE k # m
    <3>1. pt'[p] = pt[p] /\ live'[k].flags = live[k].flags
      BY <1>2, <1>7, <1>9, <2>1, <2>5
    <3> QED BY <1>1, <2>2, <2>3, <3>1 DEF Translates
  <2> QED BY <2>4, <2>5
<1>11. ASSUME NEW p \in VirtPages, pt'[p].present
       PROVE  \E k \in Mappings : live'[k] # NoMapping /\ p \in PagesOf(live'[k])
  <2>1. pt[p].present
    BY <1>4, <1>7, <1>11
  <2>2. PICK k \in Mappings : live[k] # NoMapping /\ p \in PagesOf(live[k])
    BY <1>1, <2>1 DEF TransInv
  <2> QED BY <1>2, <2>2
<1> QED BY <1>10, <1>11

\* Every step keeps the translations exact.
LEMMA TransStep ==
    ASSUME TypeInv, NoStaleTranslation, PartInv, TransInv, [Next]_vars PROVE TransInv'
<1>1. ASSUME NEW p \in Touched, TLBFill(p) PROVE TransInv'
  BY <1>1 DEF TLBFill, TransInv
<1>2. ASSUME Quiet PROVE TransInv'
  BY <1>2 DEF Quiet, TransInv
<1>3. TypeInv'
  BY TypeStep
<1> QED BY <1>1, <1>2, <1>3, Steps, MappedTranslates, UnmappedTranslates, FlagsTranslate

\* As long as no free range has been split, every page of a mapping translates
\* to its own frame with the rights of the last flags, through any number of
\* reuses of the same addresses, and no page outside a mapping translates.
THEOREM TranslationsAlwaysExact == Spec => []TranslationExact
<1>1. Init => TransInv
  <2> SUFFICES ASSUME Init PROVE TransInv
    OBVIOUS
  <2>1. /\ \A m \in Mappings : live[m] = NoMapping
        /\ \A p \in VirtPages : pt[p].present = FALSE
    BY DEF Init, NotPresent
  <2> QED BY <2>1 DEF TransInv
<1>2. TypeInv /\ NoStaleTranslation /\ PartInv /\ TransInv /\ [Next]_vars => TransInv'
  BY TransStep
<1>3. TransInv => TranslationExact
  <2>1. \A m : m \in LiveMappings <=> m \in Mappings /\ live[m] # NoMapping
    BY DEF LiveMappings, IsLive
  <2> QED BY <2>1, Zenon DEF TransInv, TranslationExact, Translates, Rights
<1> QED BY <1>1, <1>2, <1>3, TypeAlways, PartAlways, PTL DEF Spec
=============================================================================
