----------------------------- MODULE BootProofs -----------------------------
(***************************************************************************)
(* Theorems about booting.  The boot loader: for every memory of the       *)
(* firmware, every kernel and every failure and event of the firmware.     *)
(* The kernel's takeover of memory: for every memory map of a firmware and *)
(* every size of the tables, the lists and the blocks.                     *)
(***************************************************************************)
EXTENDS BootLoader, BootMemory, Lemmas, FiniteSetTheorems, TLAPS

-----------------------------------------------------------------------------
(* A memory map has one descriptor for every page at which a range begins. *)

\* The types of n pages.
Map(n) == [1 .. n -> EFI_MEMORY_TYPE]

\* The pages at which a range of one type begins.
Starts(t) == {p \in DOMAIN t : p - 1 \in DOMAIN t => t[p - 1] # t[p]}

\* The longest ranges of pages of one type, and how one is described.
IsRange(t, a, b) ==
    /\ a \in DOMAIN t /\ b \in DOMAIN t /\ a <= b
    /\ \A p \in a .. b : t[p] = t[a]
    /\ a - 1 \in DOMAIN t => t[a - 1] # t[a]
    /\ b + 1 \in DOMAIN t => t[b + 1] # t[a]
Describe(t, a, b) ==
    [Type |-> t[a], PhysicalStart |-> a * PageSize, NumberOfPages |-> b - a + 1]
DescriptorsOf(t) == {Describe(t, r[1], r[2]) : r \in {r \in (DOMAIN t) \X (DOMAIN t) : IsRange(t, r[1], r[2])}}

\* These are the firmware's descriptors.
LEMMA DescriptorsAre == Descriptors = DescriptorsOf(types)
<1>1. {r \in Pages \X Pages :
          /\ r[1] <= r[2]
          /\ \A p \in r[1] .. r[2] : types[p] = types[r[1]]
          /\ r[1] - 1 \in Pages => types[r[1] - 1] # types[r[1]]
          /\ r[2] + 1 \in Pages => types[r[2] + 1] # types[r[1]]}
      = {r \in (DOMAIN types) \X (DOMAIN types) : IsRange(types, r[1], r[2])}
  BY DEF Pages, IsRange
<1> QED BY <1>1 DEF Descriptors, DescriptorsOf, Describe

\* ... and so they are after a step.
LEMMA DescriptorsAreNext == Descriptors' = DescriptorsOf(types')
<1>1. {r \in Pages' \X Pages' :
          /\ r[1] <= r[2]
          /\ \A p \in r[1] .. r[2] : types'[p] = types'[r[1]]
          /\ r[1] - 1 \in Pages' => types'[r[1] - 1] # types'[r[1]]
          /\ r[2] + 1 \in Pages' => types'[r[2] + 1] # types'[r[1]]}
      = {r \in (DOMAIN types') \X (DOMAIN types') : IsRange(types', r[1], r[2])}
  BY DEF Pages, IsRange
<1> QED BY <1>1 DEF Descriptors, DescriptorsOf, Describe

\* What the descriptors are, one by one.
LEMMA DescriptorElement ==
    ASSUME NEW t, NEW d
    PROVE  d \in DescriptorsOf(t) <=> \E a, b \in DOMAIN t : IsRange(t, a, b) /\ d = Describe(t, a, b)
<1>1. ASSUME d \in DescriptorsOf(t)
      PROVE  \E a, b \in DOMAIN t : IsRange(t, a, b) /\ d = Describe(t, a, b)
  <2>1. PICK r \in (DOMAIN t) \X (DOMAIN t) : IsRange(t, r[1], r[2]) /\ d = Describe(t, r[1], r[2])
    BY <1>1 DEF DescriptorsOf
  <2> QED BY <2>1
<1>2. ASSUME NEW a \in DOMAIN t, NEW b \in DOMAIN t, IsRange(t, a, b), d = Describe(t, a, b)
      PROVE  d \in DescriptorsOf(t)
  <2> DEFINE r == <<a, b>>
  <2>1. r \in (DOMAIN t) \X (DOMAIN t) /\ r[1] = a /\ r[2] = b
    OBVIOUS
  <2> HIDE DEF r
  <2> QED BY <1>2, <2>1 DEF DescriptorsOf
<1> QED BY <1>1, <1>2

\* From every page a range goes on to an end.
LEMMA RangeEnd ==
    ASSUME NEW n \in Nat, NEW t \in Map(n), NEW p \in 1 .. n
    PROVE  \E b \in 1 .. n : /\ p <= b
                             /\ \A q \in p .. b : t[q] = t[p]
                             /\ b + 1 \in 1 .. n => t[b + 1] # t[p]
<1> SUFFICES ASSUME \A b \in 1 .. n : /\ p <= b
                                      /\ \A q \in p .. b : t[q] = t[p]
                                      => b + 1 \in 1 .. n /\ t[b + 1] = t[p]
             PROVE  FALSE
  OBVIOUS
<1> DEFINE S == {k \in Nat : p + k \in 1 .. n /\ \A q \in p .. p + k : t[q] = t[p]}
<1>1. 0 \in S
  <2>1. p + 0 = p /\ \A q \in p .. p : q = p
    OBVIOUS
  <2> QED BY <2>1
<1>2. ASSUME NEW k \in Nat, k \in S PROVE k + 1 \in S
  <2> DEFINE b == p + k
  <2>1. b \in 1 .. n /\ p <= b /\ \A q \in p .. b : t[q] = t[p]
    BY <1>2
  <2>2. b + 1 \in 1 .. n /\ t[b + 1] = t[p]
    BY <2>1
  <2>3. \A q \in p .. b + 1 : q \in p .. b \/ q = b + 1
    OBVIOUS
  <2>4. p + (k + 1) = b + 1
    OBVIOUS
  <2> QED BY <2>1, <2>2, <2>3, <2>4
<1>3. n \in S
  <2> HIDE DEF S
  <2> QED BY <1>1, <1>2, NatSetInduction
<1>4. ~(p + n \in 1 .. n)
  OBVIOUS
<1> QED BY <1>3, <1>4

\* ... and back to a beginning.
LEMMA RangeStart ==
    ASSUME NEW n \in Nat, NEW t \in Map(n), NEW p \in 1 .. n
    PROVE  \E a \in 1 .. n : /\ a <= p
                             /\ \A q \in a .. p : t[q] = t[p]
                             /\ a - 1 \in 1 .. n => t[a - 1] # t[p]
<1> SUFFICES ASSUME \A a \in 1 .. n : /\ a <= p
                                      /\ \A q \in a .. p : t[q] = t[p]
                                      => a - 1 \in 1 .. n /\ t[a - 1] = t[p]
             PROVE  FALSE
  OBVIOUS
<1> DEFINE S == {k \in Nat : p - k \in 1 .. n /\ \A q \in p - k .. p : t[q] = t[p]}
<1>1. 0 \in S
  <2>1. p - 0 = p /\ \A q \in p .. p : q = p
    OBVIOUS
  <2> QED BY <2>1
<1>2. ASSUME NEW k \in Nat, k \in S PROVE k + 1 \in S
  <2> DEFINE a == p - k
  <2>1. a \in 1 .. n /\ a <= p /\ \A q \in a .. p : t[q] = t[p]
    BY <1>2
  <2>2. a - 1 \in 1 .. n /\ t[a - 1] = t[p]
    BY <2>1
  <2>3. \A q \in a - 1 .. p : q \in a .. p \/ q = a - 1
    OBVIOUS
  <2>4. p - (k + 1) = a - 1
    OBVIOUS
  <2> QED BY <2>1, <2>2, <2>3, <2>4
<1>3. n \in S
  <2> HIDE DEF S
  <2> QED BY <1>1, <1>2, NatSetInduction
<1>4. ~(p - n \in 1 .. n)
  OBVIOUS
<1> QED BY <1>3, <1>4

\* Every page lies in a range.
LEMMA RangeOfPage ==
    ASSUME NEW n \in Nat, NEW t \in Map(n), NEW p \in 1 .. n
    PROVE  \E a, b \in 1 .. n : IsRange(t, a, b) /\ a <= p /\ p <= b /\ t[a] = t[p]
<1>1. DOMAIN t = 1 .. n
  BY DEF Map
<1>2. PICK a \in 1 .. n : /\ a <= p
                          /\ \A q \in a .. p : t[q] = t[p]
                          /\ a - 1 \in 1 .. n => t[a - 1] # t[p]
  BY RangeStart
<1>3. PICK b \in 1 .. n : /\ p <= b
                          /\ \A q \in p .. b : t[q] = t[p]
                          /\ b + 1 \in 1 .. n => t[b + 1] # t[p]
  BY RangeEnd
<1>4. a <= b /\ a \in a .. p /\ \A q \in a .. b : q \in a .. p \/ q \in p .. b
  BY <1>2, <1>3
<1>5. t[a] = t[p] /\ \A q \in a .. b : t[q] = t[a]
  BY <1>2, <1>3, <1>4
<1> QED BY <1>1, <1>2, <1>3, <1>4, <1>5 DEF IsRange

\* Two ranges with a page in common are the same.
LEMMA RangesUnique ==
    ASSUME NEW n \in Nat, NEW t \in Map(n), NEW a, NEW b, NEW c, NEW d, NEW p \in Int,
           IsRange(t, a, b), IsRange(t, c, d), a <= p, p <= b, c <= p, p <= d
    PROVE  a = c /\ b = d
<1>1. DOMAIN t = 1 .. n
  BY DEF Map
<1>2. a \in 1 .. n /\ b \in 1 .. n /\ c \in 1 .. n /\ d \in 1 .. n
  BY <1>1 DEF IsRange
<1>3. p \in a .. b /\ p \in c .. d
  BY <1>2
<1>4. t[a] = t[p] /\ t[c] = t[p]
  BY <1>3 DEF IsRange
<1>5. ~(a < c)
  <2> SUFFICES ASSUME a < c PROVE FALSE
    OBVIOUS
  <2>1. c - 1 \in a .. b /\ c - 1 \in 1 .. n
    BY <1>2
  <2> QED BY <1>1, <1>4, <2>1 DEF IsRange
<1>6. ~(c < a)
  <2> SUFFICES ASSUME c < a PROVE FALSE
    OBVIOUS
  <2>1. a - 1 \in c .. d /\ a - 1 \in 1 .. n
    BY <1>2
  <2> QED BY <1>1, <1>4, <2>1 DEF IsRange
<1>7. ~(b < d)
  <2> SUFFICES ASSUME b < d PROVE FALSE
    OBVIOUS
  <2>1. b + 1 \in c .. d /\ b + 1 \in 1 .. n
    BY <1>2
  <2> QED BY <1>1, <1>4, <2>1 DEF IsRange
<1>8. ~(d < b)
  <2> SUFFICES ASSUME d < b PROVE FALSE
    OBVIOUS
  <2>1. d + 1 \in a .. b /\ d + 1 \in 1 .. n
    BY <1>2
  <2> QED BY <1>1, <1>4, <2>1 DEF IsRange
<1> QED BY <1>2, <1>5, <1>6, <1>7, <1>8

\* As many descriptors as beginnings.
LEMMA DescriptorCount ==
    ASSUME NEW n \in Nat, NEW t \in Map(n)
    PROVE  /\ IsFiniteSet(Starts(t)) /\ Cardinality(Starts(t)) \in Nat
           /\ Cardinality(DescriptorsOf(t)) = Cardinality(Starts(t))
<1>1. DOMAIN t = 1 .. n /\ PageSize \in Nat \ {0}
  BY LoaderAssumption DEF Map
<1>2. IsFiniteSet(Starts(t)) /\ Cardinality(Starts(t)) \in Nat
  <2>1. IsFiniteSet(1 .. n)
    BY FS_Interval
  <2>2. Starts(t) \in SUBSET (1 .. n)
    BY <1>1 DEF Starts
  <2> QED BY <2>1, <2>2, FS_Subset, FS_CardinalityType
<1> DEFINE end(a) == CHOOSE b \in 1 .. n : IsRange(t, a, b)
<1> DEFINE f == [a \in Starts(t) |-> Describe(t, a, end(a))]
<1>3. ASSUME NEW a \in Starts(t) PROVE end(a) \in 1 .. n /\ IsRange(t, a, end(a))
  <2>1. a \in 1 .. n /\ (a - 1 \in 1 .. n => t[a - 1] # t[a])
    BY <1>1 DEF Starts
  <2>2. PICK c, b \in 1 .. n : IsRange(t, c, b) /\ c <= a /\ a <= b
    BY <2>1, RangeOfPage
  <2>3. c = a
    <3> SUFFICES ASSUME c # a PROVE FALSE
      OBVIOUS
    <3>1. a - 1 \in c .. b /\ a \in c .. b /\ a - 1 \in 1 .. n
      BY <2>1, <2>2
    <3> QED BY <2>1, <2>2, <3>1 DEF IsRange
  <2> QED BY <2>2, <2>3
<1>4. f \in [Starts(t) -> DescriptorsOf(t)]
  <2>1. ASSUME NEW a \in Starts(t) PROVE f[a] \in DescriptorsOf(t)
    <3>1. a \in DOMAIN t /\ end(a) \in DOMAIN t
      BY <1>1, <1>3 DEF Starts
    <3> HIDE DEF end
    <3> QED BY <1>3, <3>1, DescriptorElement
  <2> HIDE DEF f
  <2> QED BY <2>1 DEF f
<1>5. ASSUME NEW a \in Starts(t), NEW b \in Starts(t), f[a] = f[b] PROVE a = b
  <2>1. f[a].PhysicalStart = a * PageSize /\ f[b].PhysicalStart = b * PageSize
    BY DEF Describe
  <2>2. a \in Int /\ b \in Int
    BY <1>1 DEF Starts
  <2>3. a * PageSize + 0 = b * PageSize + 0 /\ 0 \in 0 .. PageSize - 1
    <3>1. a * PageSize = b * PageSize
      BY <1>5, <2>1
    <3> QED BY <1>1, <3>1
  <2> QED BY <1>1, <2>2, <2>3, QuotientUnique
<1>6. ASSUME NEW d \in DescriptorsOf(t) PROVE \E a \in Starts(t) : f[a] = d
  <2>1. PICK a, b \in DOMAIN t : IsRange(t, a, b) /\ d = Describe(t, a, b)
    BY DescriptorElement
  <2>2. a \in Starts(t)
    BY <2>1 DEF Starts, IsRange
  <2>3. end(a) = b
    <3>1. end(a) \in 1 .. n /\ IsRange(t, a, end(a))
      BY <1>3, <2>2
    <3> HIDE DEF end
    <3>2. a \in Int /\ a <= a /\ a <= b
      BY <1>1, <2>1 DEF IsRange
    <3>3. a <= end(a)
      BY <3>1 DEF IsRange
    <3> QED BY <2>1, <3>1, <3>2, <3>3, RangesUnique
  <2> QED BY <2>1, <2>2, <2>3
<1> HIDE DEF f
<1>7. f \in Bijection(Starts(t), DescriptorsOf(t))
  BY <1>4, <1>5, <1>6 DEF Bijection, Injection, Surjection, IsInjective
<1>8. ExistsBijection(Starts(t), DescriptorsOf(t))
  BY <1>7 DEF ExistsBijection
<1> QED BY <1>2, <1>8, FS_Bijection

\* A page that changes its type makes at most two ranges more: it begins one,
\* and so does the page behind it.
LEMMA OnePageTwoRanges ==
    ASSUME NEW n \in Nat, NEW t \in Map(n), NEW u \in Map(n), NEW p \in Int,
           \A q \in 1 .. n : q # p => u[q] = t[q]
    PROVE  Cardinality(DescriptorsOf(u)) <= Cardinality(DescriptorsOf(t)) + 2
<1> DEFINE S == Starts(t)
<1> DEFINE T == S \cup {p}
<1> DEFINE V == T \cup {p + 1}
<1>1. /\ IsFiniteSet(S) /\ Cardinality(S) \in Nat
      /\ Cardinality(DescriptorsOf(t)) = Cardinality(S)
      /\ Cardinality(DescriptorsOf(u)) = Cardinality(Starts(u))
      /\ Cardinality(Starts(u)) \in Nat
  BY DescriptorCount
<1>2. Starts(u) \subseteq V
  <2> SUFFICES ASSUME NEW q \in Starts(u), q # p, q # p + 1 PROVE q \in S
    OBVIOUS
  <2>1. DOMAIN t = 1 .. n /\ DOMAIN u = 1 .. n
    BY DEF Map
  <2>2. q \in 1 .. n /\ (q - 1 \in 1 .. n => u[q - 1] # u[q]) /\ q - 1 # p
    BY <2>1 DEF Starts
  <2> QED BY <2>1, <2>2 DEF Starts
<1>3. IsFiniteSet(T) /\ Cardinality(T) \in Nat /\ Cardinality(T) <= Cardinality(S) + 1
  <2> HIDE DEF S
  <2>1. IsFiniteSet(T) /\ (Cardinality(T) = Cardinality(S) \/ Cardinality(T) = Cardinality(S) + 1)
    BY <1>1, FS_AddElement
  <2> QED BY <1>1, <2>1
<1>4. IsFiniteSet(V) /\ Cardinality(V) \in Nat /\ Cardinality(V) <= Cardinality(T) + 1
  <2> HIDE DEF T
  <2>1. IsFiniteSet(V) /\ (Cardinality(V) = Cardinality(T) \/ Cardinality(V) = Cardinality(T) + 1)
    BY <1>3, FS_AddElement
  <2> QED BY <1>3, <2>1
<1> HIDE DEF S, T, V
<1>5. Cardinality(Starts(u)) <= Cardinality(V)
  BY <1>2, <1>4, FS_Subset
<1> QED BY <1>1, <1>3, <1>4, <1>5
-----------------------------------------------------------------------------
(* The loader alone.                                                       *)

\* What the second call of GetMemoryMap and ExitBootServices find, as long as
\* only the loader has changed the map.  AllocateBuffer is the one change
\* between the two reads, and a single page.
LoaderInv ==
    /\ \E n \in Nat : types \in Map(n)
    /\ key \in Nat /\ events \in Nat
    /\ \E c \in Nat, k \in Nat : \E b : memory_map = [capacity |-> c, buffer |-> b, mapkey |-> k]
    /\ pc = "buffer" /\ events = 0 => memory_map.capacity = Cardinality(Descriptors) + 2
    /\ pc = "map" /\ events = 0 => Cardinality(Descriptors) <= memory_map.capacity
    /\ pc = "exit" /\ events = 0 => memory_map.mapkey = key
    /\ LoaderAloneBoots

\* Changing types leaves a map.
LEMMA SetTypesMap ==
    ASSUME NEW n \in Nat, types \in Map(n), NEW pages, NEW type \in EFI_MEMORY_TYPE, key \in Nat,
           SetTypes(pages, type)
    PROVE  /\ types' \in Map(n) /\ key' \in Nat /\ events' = events
           /\ \A p \in 1 .. n : p \notin pages => types'[p] = types[p]
BY DEF SetTypes, Map, Pages

\* AllocatePool makes at most two ranges more.
LEMMA AllocatePoolRanges ==
    ASSUME NEW n \in Nat, types \in Map(n), key \in Nat, AllocatePool
    PROVE  /\ types' \in Map(n) /\ key' \in Nat /\ events' = events
           /\ Cardinality(Descriptors)' <= Cardinality(Descriptors) + 2
<1>1. "EfiLoaderData" \in EFI_MEMORY_TYPE
  BY DEF EFI_MEMORY_TYPE
<1>2. PICK pages \in {{}} \cup {{p} : p \in {p \in Pages : types[p] = "EfiConventionalMemory"}} :
          SetTypes(pages, "EfiLoaderData")
  BY DEF AllocatePool
<1>3. /\ types' \in Map(n) /\ key' \in Nat /\ events' = events
      /\ \A q \in 1 .. n : q \notin pages => types'[q] = types[q]
  BY <1>1, <1>2, SetTypesMap
<1>4. Descriptors = DescriptorsOf(types) /\ Descriptors' = DescriptorsOf(types')
  BY DescriptorsAre, DescriptorsAreNext
<1>5. \E p \in Int : \A q \in pages : q = p
  <2>1. CASE pages = {}
    BY <2>1
  <2>2. CASE \E p \in Pages : pages = {p}
    <3>1. PICK p \in Pages : pages = {p}
      BY <2>2
    <3>2. p \in Int
      BY DEF Pages, Map
    <3> QED BY <3>1, <3>2
  <2> QED BY <1>2, <2>1, <2>2
<1>6. PICK p \in Int : \A q \in pages : q = p
  BY <1>5
<1> DEFINE new == types'
<1>7. new \in Map(n) /\ \A q \in 1 .. n : q # p => new[q] = types[q]
  BY <1>3, <1>6
<1> HIDE DEF new
<1>8. Cardinality(DescriptorsOf(new)) <= Cardinality(DescriptorsOf(types)) + 2
  BY <1>7, OnePageTwoRanges
<1> QED BY <1>3, <1>4, <1>8 DEF new

\* The number of descriptors is one.
LEMMA CountNat ==
    ASSUME NEW n \in Nat, types \in Map(n)
    PROVE  Cardinality(Descriptors) \in Nat
BY DescriptorsAre, DescriptorCount

\* The steps that leave the map alone, end a call and go on, or return.
LEMMA QuietKeepsLoaderInv ==
    ASSUME LoaderInv, UNCHANGED <<fwVars, memory_map>>, pc' \notin {"buffer", "map", "exit"},
           status' = status
    PROVE  LoaderInv'
BY DEF LoaderInv, LoaderAloneBoots, fwVars

LEMMA ReturnKeepsLoaderInv ==
    ASSUME LoaderInv, NEW s, Return(s), s \in {"buffer too small", "invalid parameter"} => events > 0
    PROVE  LoaderInv'
<1>1. UNCHANGED <<types, key, events, memory_map, pc>> /\ status' = s
  BY DEF Return, fwVars
<1>2. Cardinality(Descriptors)' = Cardinality(Descriptors)
  BY <1>1, DescriptorsAre, DescriptorsAreNext
<1> QED BY <1>1, <1>2 DEF LoaderInv, LoaderAloneBoots

LEMMA LoaderInvInit == Init => LoaderInv
<1> SUFFICES ASSUME Init PROVE LoaderInv
  OBVIOUS
<1>1. \E n \in Nat : types \in Map(n)
  <2>1. types \in Seq(EFI_MEMORY_TYPE)
    BY LoaderAssumption DEF Init
  <2>2. Len(types) \in Nat /\ types \in [1 .. Len(types) -> EFI_MEMORY_TYPE]
    BY <2>1
  <2> QED BY <2>2 DEF Map
<1> QED BY <1>1 DEF Init, LoaderInv, LoaderAloneBoots

LEMMA LoaderInvNext == LoaderInv /\ [Next]_vars => LoaderInv'
<1> SUFFICES ASSUME LoaderInv, [Next]_vars PROVE LoaderInv'
  OBVIOUS
<1>1. PICK n \in Nat : types \in Map(n)
  BY DEF LoaderInv
<1>0. PICK c \in Nat, k \in Nat : \E b : memory_map = [capacity |-> c, buffer |-> b, mapkey |-> k]
  BY DEF LoaderInv
<1>2. PICK b : memory_map = [capacity |-> c, buffer |-> b, mapkey |-> k]
  BY <1>0
<1>3. key \in Nat /\ events \in Nat /\ Cardinality(Descriptors) \in Nat
  BY <1>1, CountNat DEF LoaderInv
<1>4. ASSUME types' \in Map(n), key' \in Nat, events' = events, UNCHANGED memory_map,
             pc' \notin {"buffer", "map", "exit"},
             status' \in {"buffer too small", "invalid parameter"} => status' = status
      PROVE  LoaderInv'
  BY <1>4 DEF LoaderInv, LoaderAloneBoots
<1>5. ASSUME NEW pages, NEW type \in {"EfiLoaderCode", "EfiConventionalMemory"}, SetTypes(pages, type)
      PROVE  types' \in Map(n) /\ key' \in Nat /\ events' = events
  <2>1. type \in EFI_MEMORY_TYPE
    BY DEF EFI_MEMORY_TYPE
  <2> QED BY <1>1, <1>3, <1>5, <2>1, SetTypesMap
<1>6. CASE FirmwareEvent
  <2>1. types' \in Map(n)
    <3>1. {"EfiConventionalMemory", "EfiBootServicesData"} \subseteq EFI_MEMORY_TYPE
      BY DEF EFI_MEMORY_TYPE
    <3> QED BY <1>1, <1>6, <3>1 DEF FirmwareEvent, Map, Pages
  <2>2. key' = key + 1 /\ events' = events + 1 /\ UNCHANGED <<status, memory_map>>
    BY <1>6 DEF FirmwareEvent
  <2>3. key' \in Nat /\ events' \in Nat /\ events' > 0 /\ events' # 0
    BY <1>3, <2>2
  <2> QED BY <2>1, <2>2, <2>3 DEF LoaderInv, LoaderAloneBoots
<1>7. CASE ServiceFails
  BY <1>7, ReturnKeepsLoaderInv DEF ServiceFails
<1>8. CASE SetWatchdogTimer
  BY <1>8, QuietKeepsLoaderInv DEF SetWatchdogTimer, Call
<1>9. CASE QueryMode
  BY <1>9, QuietKeepsLoaderInv DEF QueryMode, Call
<1>10. CASE FormatUnsupported
  BY <1>10, ReturnKeepsLoaderInv DEF FormatUnsupported
<1>11. CASE OpenFile
  BY <1>11, QuietKeepsLoaderInv DEF OpenFile, Call
<1>12. CASE ReadHeader
  BY <1>1, <1>3, <1>4, <1>12, AllocatePoolRanges DEF ReadHeader, Call
<1>13. CASE HeaderUnsupported
  BY <1>1, <1>3, <1>4, <1>13, AllocatePoolRanges DEF HeaderUnsupported
<1>14. CASE ReadPrograms
  BY <1>1, <1>3, <1>4, <1>14, AllocatePoolRanges DEF ReadPrograms, Call
<1>15. CASE AllocateKernel
  <2>1. PICK start \in Pages : SetTypes(start .. start + num_kernel_pages - 1, "EfiLoaderCode")
    BY <1>15 DEF AllocateKernel
  <2>2. types' \in Map(n) /\ key' \in Nat /\ events' = events
    BY <1>5, <2>1
  <2> QED BY <1>4, <1>15, <2>2 DEF AllocateKernel, Call
<1>16. CASE NoSegments
  BY <1>16, ReturnKeepsLoaderInv DEF NoSegments
<1>17. CASE NoPages
  BY <1>17, ReturnKeepsLoaderInv DEF NoPages
<1>18. CASE LoadSegment
  BY <1>18, QuietKeepsLoaderInv DEF LoadSegment, Call
<1>19. CASE FreeHeaders
  <2>1. PICK pages \in SUBSET pool : SetTypes(pages, "EfiConventionalMemory")
    BY <1>19 DEF FreeHeaders, FreePool
  <2>2. types' \in Map(n) /\ key' \in Nat /\ events' = events
    BY <1>5, <2>1
  <2> QED BY <1>4, <1>19, <2>2 DEF FreeHeaders, Call
<1>20. CASE find_rsdp
  BY <1>20, QuietKeepsLoaderInv DEF find_rsdp, Call
<1>21. CASE NoRsdp
  BY <1>21, ReturnKeepsLoaderInv DEF NoRsdp
<1>22. CASE GetMapSize
  <2>1. UNCHANGED <<types, key, events, status>> /\ pc' = "buffer"
    BY <1>22 DEF GetMapSize, Call, fwVars
  <2>2. memory_map' = [capacity |-> Cardinality(Descriptors) + 2, buffer |-> b, mapkey |-> k]
    BY <1>2, <1>22 DEF GetMapSize, MapBytes
  <2>3. Cardinality(Descriptors)' = Cardinality(Descriptors)
    BY <2>1, DescriptorsAre, DescriptorsAreNext
  <2>4. Cardinality(Descriptors) + 2 \in Nat
    BY <1>3
  <2> HIDE DEF Descriptors
  <2>5. memory_map'.capacity = Cardinality(Descriptors)' + 2
    BY <2>2, <2>3
  <2>6. \E c1 \in Nat, k1 \in Nat : \E b1 : memory_map' = [capacity |-> c1, buffer |-> b1, mapkey |-> k1]
    BY <2>2, <2>4
  <2> QED BY <1>1, <1>3, <2>1, <2>5, <2>6 DEF LoaderInv, LoaderAloneBoots
<1>23. CASE AllocateBuffer
  <2>1. UNCHANGED <<memory_map, status>> /\ pc = "buffer" /\ pc' = "map"
    BY <1>23 DEF AllocateBuffer, Call
  <2>2. /\ types' \in Map(n) /\ key' \in Nat /\ events' = events
        /\ Cardinality(Descriptors)' <= Cardinality(Descriptors) + 2
    BY <1>1, <1>3, <1>23, AllocatePoolRanges DEF AllocateBuffer
  <2>3. events = 0 => memory_map.capacity = Cardinality(Descriptors) + 2
    BY <2>1 DEF LoaderInv
  <2> HIDE DEF Descriptors
  <2> QED BY <2>1, <2>2, <2>3 DEF LoaderInv, LoaderAloneBoots
<1>24. CASE GetMap
  <2>1. UNCHANGED <<types, key, events, status>> /\ pc' = "exit"
    BY <1>24 DEF GetMap, Call, fwVars
  <2>2. memory_map' = [capacity |-> c, buffer |-> {Retype(d) : d \in Descriptors}, mapkey |-> key]
    BY <1>2, <1>24 DEF GetMap
  <2>3. memory_map'.mapkey = key
    BY <2>2
  <2>4. \E c1 \in Nat, k1 \in Nat : \E b1 : memory_map' = [capacity |-> c1, buffer |-> b1, mapkey |-> k1]
    BY <1>3, <2>2
  <2> QED BY <1>1, <1>3, <2>1, <2>3, <2>4 DEF LoaderInv, LoaderAloneBoots
<1>25. CASE BufferTooSmall
  <2>1. events > 0
    <3>1. memory_map.capacity = c
      BY <1>2
    <3>2. Cardinality(Descriptors) > c /\ (events = 0 => Cardinality(Descriptors) <= c)
      BY <1>25, <3>1 DEF BufferTooSmall, LoaderInv
    <3> HIDE DEF Descriptors
    <3> QED BY <1>3, <3>2
  <2> QED BY <1>25, <2>1, ReturnKeepsLoaderInv DEF BufferTooSmall
<1>26. CASE ExitBootServices
  BY <1>26, QuietKeepsLoaderInv DEF ExitBootServices, Call
<1>27. CASE StaleKey
  <2>1. events > 0
    <3>1. events # 0
      BY <1>27 DEF StaleKey, LoaderInv
    <3> QED BY <1>3, <3>1
  <2> QED BY <1>27, <2>1, ReturnKeepsLoaderInv DEF StaleKey
<1>28. CASE UNCHANGED vars
  <2>1. UNCHANGED <<types, key, events, memory_map, pc, status>>
    BY <1>28 DEF vars, fwVars
  <2>2. Cardinality(Descriptors)' = Cardinality(Descriptors)
    BY <2>1, DescriptorsAre, DescriptorsAreNext
  <2> QED BY <2>1, <2>2 DEF LoaderInv, LoaderAloneBoots
<1> QED
  BY <1>6, <1>7, <1>8, <1>9, <1>10, <1>11, <1>12, <1>13, <1>14, <1>15, <1>16, <1>17, <1>18, <1>19,
     <1>20, <1>21, <1>22, <1>23, <1>24, <1>25, <1>26, <1>27, <1>28 DEF Next, Done

\* LoaderAloneBoots for every memory, kernel and choice of pool pages: two more
\* descriptors are enough for the page the buffer itself may take, so the
\* second GetMemoryMap and ExitBootServices fail only when the firmware
\* changed the map by itself.
THEOREM LoaderAloneAlwaysBoots == Spec => []LoaderAloneBoots
<1>1. LoaderInv => LoaderAloneBoots
  BY DEF LoaderInv
<1> QED BY LoaderInvInit, LoaderInvNext, <1>1, PTL DEF Spec

-----------------------------------------------------------------------------
(* The extent of the segments.                                             *)

\* One step of the loop over the headers, and the loop.
Higher(high, s) == IF s.load /\ s.vaddr > high THEN s.vaddr + s.memsz ELSE high
Highest(segments) ==
    FoldLeft(LAMBDA high, s : IF s.load /\ s.vaddr > high THEN s.vaddr + s.memsz ELSE high,
             0, segments)

\* The equation of the fold, for the segments 1 .. n.
Folded(f, segments, n) ==
    f = [s \in SUBSET (1 .. n) |->
            IF s = {} THEN 0 ELSE Higher(f[s \ {Max(s)}], segments[Max(s)])]

\* The equation has a solution, by induction on the number of segments.
LEMMA FoldedExists ==
    ASSUME NEW segments
    PROVE  \A n \in Nat : \E f : Folded(f, segments, n)
<1> DEFINE S == {n \in Nat : \E f : Folded(f, segments, n)}
<1>1. 0 \in S
  <2> DEFINE f == [s \in SUBSET (1 .. 0) |-> 0]
  <2>1. \A s \in SUBSET (1 .. 0) : s = {}
    OBVIOUS
  <2>2. Folded(f, segments, 0)
    BY <2>1 DEF Folded
  <2> QED BY <2>2
<1>2. ASSUME NEW n \in Nat, n \in S PROVE n + 1 \in S
  <2>1. PICK f : Folded(f, segments, n)
    BY <1>2
  <2> DEFINE e == n + 1
  <2> DEFINE T == SUBSET (1 .. n)
  <2> DEFINE U == SUBSET (1 .. e)
  <2> DEFINE g == [s \in U |-> IF e \in s THEN Higher(f[s \ {e}], segments[e]) ELSE f[s]]
  <2>2. /\ \A s \in U : e \notin s => s \in T
        /\ \A s \in U : s \ {e} \in T
        /\ \A s \in T : s \in U /\ e \notin s
        /\ \A s \in U : e \in s => s # {} /\ \A x \in s : x \in Int /\ x <= e
        /\ e \in Int
    OBVIOUS
  <2>3. ASSUME NEW s \in U, e \in s PROVE Max(s) = e
    <3> HIDE DEF e, U
    <3> QED BY <2>2, <2>3, MaxIs
  <2>4. f = [s \in T |-> IF s = {} THEN 0 ELSE Higher(f[s \ {Max(s)}], segments[Max(s)])]
    BY <2>1 DEF Folded
  <2> HIDE DEF T, U, e
  <2>5. ASSUME NEW s \in U
        PROVE  g[s] = IF s = {} THEN 0 ELSE Higher(g[s \ {Max(s)}], segments[Max(s)])
    <3>1. CASE e \in s
      <4>1. Max(s) = e /\ s # {} /\ s \ {e} \in T
        BY <2>2, <2>3, <3>1
      <4>2. g[s \ {e}] = f[s \ {e}]
        BY <2>2, <4>1
      <4>3. g[s] = Higher(f[s \ {e}], segments[e])
        BY <3>1
      <4> QED BY <4>1, <4>2, <4>3
    <3>2. CASE e \notin s
      <4>1. s \in T /\ g[s] = f[s]
        BY <2>2, <3>2
      <4>2. s \ {Max(s)} \in T
        BY <4>1 DEF T
      <4>3. g[s \ {Max(s)}] = f[s \ {Max(s)}]
        BY <2>2, <4>2
      <4> QED BY <2>4, <4>1, <4>3
    <3> QED BY <3>1, <3>2
  <2>6. g = [s \in U |-> IF s = {} THEN 0 ELSE Higher(g[s \ {Max(s)}], segments[Max(s)])]
    BY <2>5
  <2>7. Folded(g, segments, n + 1)
    BY <2>6 DEF Folded, U, e
  <2> QED BY <2>7
<1>3. Nat \subseteq S
  <2> HIDE DEF S
  <2> QED BY <1>1, <1>2, NatSetInduction
<1> QED BY <1>3

\* The loop, header by header.
LEMMA HighestSteps ==
    ASSUME NEW segments \in Seq(Elf64_Phdr)
    PROVE  \E h : /\ h[0] = 0
                  /\ \A n \in Nat : n + 1 <= Len(segments) => h[n + 1] = Higher(h[n], segments[n + 1])
                  /\ Highest(segments) = h[Len(segments)]
<1> DEFINE N == Len(segments)
<1> DEFINE W == CHOOSE f : Folded(f, segments, N)
<1>1. N \in Nat /\ DOMAIN segments = 1 .. N
  OBVIOUS
<1>2. Folded(W, segments, N)
  BY <1>1, FoldedExists
<1>3. Highest(segments) = W[1 .. N]
  BY <1>1 DEF Highest, FoldLeft, MapThenFoldSet, Folded, Higher
<1> HIDE DEF N, W
<1>4. W[1 .. 0] = 0
  <2>1. 1 .. 0 = {} /\ {} \in SUBSET (1 .. N)
    OBVIOUS
  <2> QED BY <1>2, <2>1 DEF Folded
<1>5. ASSUME NEW n \in Nat, n + 1 <= N PROVE W[1 .. n + 1] = Higher(W[1 .. n], segments[n + 1])
  <2> DEFINE s == 1 .. n + 1
  <2>1. n + 1 \in s /\ n + 1 \in Int /\ \A x \in s : x \in Int /\ x <= n + 1
    OBVIOUS
  <2>2. \A x : x \in s \ {n + 1} <=> x \in 1 .. n
    OBVIOUS
  <2>3. s \in SUBSET (1 .. N)
    BY <1>1, <1>5
  <2> HIDE DEF s
  <2>4. s \ {n + 1} = 1 .. n /\ s # {}
    BY <2>1, <2>2
  <2>5. Max(s) = n + 1
    BY <2>1, MaxIs
  <2> QED BY <1>2, <2>3, <2>4, <2>5 DEF Folded, s
<1> DEFINE h == [n \in Nat |-> W[1 .. n]]
<1>6. h[0] = 0 /\ h[N] = W[1 .. N]
  BY <1>1, <1>4
<1>7. ASSUME NEW n \in Nat, n + 1 <= N PROVE h[n + 1] = Higher(h[n], segments[n + 1])
  <2>1. h[n + 1] = W[1 .. n + 1] /\ h[n] = W[1 .. n]
    OBVIOUS
  <2> QED BY <1>5, <1>7, <2>1
<1> HIDE DEF h
<1> QED BY <1>3, <1>6, <1>7 DEF N

\* Every segment starts above zero and behind the end of the one before it, and
\* its bytes in the file are no more than those in memory.
Apart(segments) ==
    LET loads == {i \in DOMAIN segments : segments[i].load}
    IN  /\ \A i \in loads : segments[i].vaddr > 0 /\ segments[i].filesz <= segments[i].memsz
        /\ \A i, j \in loads : i < j => segments[i].vaddr + segments[i].memsz < segments[j].vaddr

\* The loop finds a number, and when the segments lie apart no end lies above it.
LEMMA HighestIsEnd ==
    ASSUME NEW segments \in Seq(Elf64_Phdr)
    PROVE  /\ Highest(segments) \in Nat
           /\ Apart(segments) => \A i \in DOMAIN segments :
                  segments[i].load => segments[i].vaddr + segments[i].memsz <= Highest(segments)
<1>1. PICK h : /\ h[0] = 0
               /\ \A n \in Nat : n + 1 <= Len(segments) => h[n + 1] = Higher(h[n], segments[n + 1])
               /\ Highest(segments) = h[Len(segments)]
  BY HighestSteps
<1> DEFINE N == Len(segments)
<1>2. N \in Nat /\ DOMAIN segments = 1 .. N
  OBVIOUS
<1>3. ASSUME NEW i \in 1 .. N
      PROVE  /\ segments[i].load \in BOOLEAN /\ segments[i].vaddr \in Nat
             /\ segments[i].filesz \in Nat /\ segments[i].memsz \in Nat
  <2>1. segments[i] \in Elf64_Phdr
    BY <1>2
  <2> QED BY <2>1 DEF Elf64_Phdr
<1> HIDE DEF N
\* All ends so far, and below every segment to come.
<1> DEFINE End(i) == segments[i].vaddr + segments[i].memsz
<1> DEFINE Under(n) ==
      /\ h[n] \in Nat
      /\ Apart(segments) => /\ \A i \in 1 .. n : segments[i].load => End(i) <= h[n]
                            /\ \A i \in 1 .. N : i > n /\ segments[i].load => h[n] < segments[i].vaddr
<1> DEFINE S == {n \in Nat : n <= N => Under(n)}
<1>4. 0 \in S
  <2>1. h[0] \in Nat /\ 1 .. 0 = {}
    BY <1>1
  <2>2. Apart(segments) => \A i \in 1 .. N : segments[i].load => h[0] < segments[i].vaddr
    BY <1>1, <1>2, <1>3 DEF Apart
  <2> QED BY <2>1, <2>2
<1>5. ASSUME NEW n \in Nat, n \in S PROVE n + 1 \in S
  <2> SUFFICES ASSUME n + 1 <= N PROVE Under(n + 1)
    OBVIOUS
  <2> DEFINE s == segments[n + 1]
  <2>1. n <= N /\ n + 1 \in 1 .. N
    BY <1>2
  <2>2. Under(n)
    BY <1>5, <2>1
  <2>3. h[n + 1] = IF s.load /\ s.vaddr > h[n] THEN s.vaddr + s.memsz ELSE h[n]
    BY <1>1, <2>1 DEF Higher, N
  <2>4. h[n + 1] \in Nat
    BY <1>3, <2>1, <2>2, <2>3
  <2>5. ASSUME Apart(segments)
        PROVE  /\ \A i \in 1 .. n + 1 : segments[i].load => End(i) <= h[n + 1]
               /\ \A i \in 1 .. N : i > n + 1 /\ segments[i].load => h[n + 1] < segments[i].vaddr
    <3>1. CASE s.load
      <4>0. h[n] \in Nat /\ s.vaddr \in Nat /\ h[n] < s.vaddr
        <5>1. n + 1 > n
          OBVIOUS
        <5> QED BY <1>3, <2>1, <2>2, <2>5, <3>1, <5>1
      <4>1. h[n + 1] = End(n + 1)
        BY <2>3, <3>1, <4>0
      <4>2. h[n] <= h[n + 1]
        <5>1. s.memsz \in Nat /\ h[n + 1] = s.vaddr + s.memsz
          BY <1>3, <2>1, <4>1
        <5> HIDE DEF s
        <5> QED BY <4>0, <5>1
      <4>3. ASSUME NEW i \in 1 .. n, segments[i].load PROVE End(i) <= h[n + 1]
        <5>1. i \in 1 .. N /\ End(i) <= h[n]
          BY <1>2, <2>1, <2>2, <2>5, <4>3
        <5>2. End(i) \in Nat
          BY <1>3, <5>1
        <5> QED BY <2>2, <2>4, <4>2, <5>1, <5>2
      <4>4. ASSUME NEW i \in 1 .. N, i > n + 1, segments[i].load PROVE h[n + 1] < segments[i].vaddr
        BY <1>2, <2>1, <2>5, <3>1, <4>1, <4>4 DEF Apart
      <4>5. h[n + 1] <= h[n + 1] /\ \A i \in 1 .. n + 1 : i \in 1 .. n \/ i = n + 1
        BY <2>4
      <4> QED BY <4>1, <4>3, <4>4, <4>5
    <3>2. CASE ~s.load
      <4>1. h[n + 1] = h[n]
        BY <2>3, <3>2
      <4>2. \A i \in 1 .. n + 1 : i \in 1 .. n \/ i = n + 1
        OBVIOUS
      <4>3. \A i \in 1 .. N : i > n + 1 => i > n
        OBVIOUS
      <4> QED BY <2>2, <2>5, <3>2, <4>1, <4>2, <4>3
    <3> QED BY <1>3, <2>1, <3>1, <3>2
  <2> QED BY <2>4, <2>5
<1>6. N \in S
  <2> HIDE DEF S
  <2> QED BY <1>2, <1>4, <1>5, NatSetInduction
<1>7. Under(N)
  BY <1>2, <1>6
<1> QED BY <1>1, <1>2, <1>7 DEF N

\* What the loop gives of the kernel's file.
LEMMA Extent ==
    ASSUME file \in Kernels
    PROVE  /\ file.segments \in Seq(Elf64_Phdr) /\ file.entry \in Nat
           /\ Loads # {} =>
                  /\ low_virt_addr \in Nat /\ num_kernel_pages \in Int
                  /\ \A i \in Loads : low_virt_addr <= file.segments[i].vaddr
                  /\ Apart(file.segments) => \A i \in Loads :
                         file.segments[i].vaddr - low_virt_addr + file.segments[i].memsz
                             <= num_kernel_pages * PageSize
<1>1. file \in Elf64_Ehdr
  BY LoaderAssumption
<1>2. file.segments \in Seq(Elf64_Phdr) /\ file.entry \in Nat
  BY <1>1 DEF Elf64_Ehdr
<1>3. \A i \in Loads : /\ i \in DOMAIN file.segments /\ file.segments[i].load
                       /\ file.segments[i].vaddr \in Nat /\ file.segments[i].memsz \in Nat
  <2> SUFFICES ASSUME NEW i \in Loads
               PROVE  /\ i \in DOMAIN file.segments /\ file.segments[i].load
                      /\ file.segments[i].vaddr \in Nat /\ file.segments[i].memsz \in Nat
    OBVIOUS
  <2>1. i \in DOMAIN file.segments /\ file.segments[i].load
    BY DEF Loads
  <2>2. file.segments[i] \in Elf64_Phdr
    BY <1>2, <2>1
  <2> QED BY <2>1, <2>2 DEF Elf64_Phdr
<1>4. high_virt_addr = Highest(file.segments)
  BY DEF high_virt_addr, Highest
<1>5. high_virt_addr \in Nat
  BY <1>2, <1>4, HighestIsEnd
<1>6. ASSUME Loads # {}
      PROVE  low_virt_addr \in Nat /\ \A i \in Loads : low_virt_addr <= file.segments[i].vaddr
  <2> DEFINE V == {file.segments[i].vaddr : i \in Loads}
  <2>1. V # {} /\ V \subseteq Nat
    BY <1>3, <1>6
  <2>2. IsWellFoundedOn(Below, Nat)
    BY NatLessThanWellFounded DEF OpToRel, Below
  <2> HIDE DEF V
  <2>3. PICK x \in V : \A y \in V : ~(<<y, x>> \in Below)
    BY <2>1, <2>2, WFMin
  <2>4. \A y \in V : x <= y
    <3> SUFFICES ASSUME NEW y \in V PROVE x <= y
      OBVIOUS
    <3>1. x \in Nat /\ y \in Nat /\ ~(<<y, x>> \in Below)
      BY <2>1, <2>3
    <3> QED BY <3>1 DEF Below
  <2>5. Min(V) \in V /\ \A y \in V : Min(V) <= y
    BY <2>3, <2>4 DEF Min
  <2>6. low_virt_addr = Min(V)
    BY DEF low_virt_addr, V
  <2> QED BY <2>1, <2>5, <2>6 DEF V
<1>7. ASSUME Loads # {} PROVE num_kernel_pages \in Int
  <2> DEFINE size == high_virt_addr - low_virt_addr
  <2>1. size \in Int /\ PageSize \in Nat \ {0}
    BY <1>5, <1>6, <1>7, LoaderAssumption
  <2> HIDE DEF size
  <2>2. size \div PageSize \in Int
    BY <2>1
  <2>3. num_kernel_pages = EFI_SIZE_TO_PAGES(size)
    BY DEF num_kernel_pages, size
  <2> QED BY <2>2, <2>3 DEF EFI_SIZE_TO_PAGES
<1>8. ASSUME Loads # {}, Apart(file.segments), NEW i \in Loads
      PROVE  file.segments[i].vaddr - low_virt_addr + file.segments[i].memsz <= num_kernel_pages * PageSize
  <2> DEFINE size == high_virt_addr - low_virt_addr
  <2> DEFINE used == file.segments[i].vaddr - low_virt_addr + file.segments[i].memsz
  <2>1. file.segments[i].vaddr + file.segments[i].memsz <= high_virt_addr
    BY <1>2, <1>3, <1>4, <1>8, HighestIsEnd
  <2>2. used <= size /\ size \in Nat /\ used \in Nat
    BY <1>3, <1>5, <1>6, <1>8, <2>1
  <2>3. PageSize \in Nat \ {0}
    BY LoaderAssumption
  <2>4. num_kernel_pages = EFI_SIZE_TO_PAGES(size)
    BY DEF num_kernel_pages
  <2> HIDE DEF size, used
  <2> DEFINE q == size \div PageSize
  <2> DEFINE r == size % PageSize
  <2>5. q \in Nat /\ r \in 0 .. PageSize - 1 /\ size = q * PageSize + r
    BY <2>2, <2>3, DivMod
  <2>6. num_kernel_pages = q + (IF r # 0 THEN 1 ELSE 0)
    BY <2>4 DEF EFI_SIZE_TO_PAGES
  <2> HIDE DEF q, r
  <2>7. (q + 1) * PageSize = q * PageSize + PageSize /\ (q + 0) * PageSize = q * PageSize
        /\ q * PageSize \in Nat
    BY <2>3, <2>5
  <2>8. size <= num_kernel_pages * PageSize /\ num_kernel_pages * PageSize \in Nat
    <3>1. CASE r = 0
      BY <2>3, <2>5, <2>6, <2>7, <3>1
    <3>2. CASE r # 0
      <4>1. num_kernel_pages * PageSize = q * PageSize + PageSize
        BY <2>6, <2>7, <3>2
      <4> QED BY <2>2, <2>3, <2>5, <2>7, <4>1
    <3> QED BY <3>1, <3>2
  <2>9. used <= num_kernel_pages * PageSize
    BY <2>2, <2>8
  <2> QED BY <2>9 DEF used
<1> QED BY <1>2, <1>6, <1>7, <1>8

\* The file is never another one.
LEMMA FileStays == [Next]_vars => file' = file
BY DEF Next, vars, FirmwareEvent, ServiceFails, SetWatchdogTimer, QueryMode, FormatUnsupported, OpenFile,
       ReadHeader, HeaderUnsupported, ReadPrograms, AllocateKernel, NoSegments, NoPages, LoadSegment,
       FreeHeaders, find_rsdp, NoRsdp, GetMapSize, AllocateBuffer, GetMap, BufferTooSmall,
       ExitBootServices, StaleKey, Done, Call, Return

LEMMA FileKept ==
    ASSUME file' = file
    PROVE  /\ Loads' = Loads /\ low_virt_addr' = low_virt_addr /\ num_kernel_pages' = num_kernel_pages
           /\ \A i : file.segments[i]' = file.segments[i]
<1>1. Loads' = Loads
  BY DEF Loads
<1>2. low_virt_addr' = low_virt_addr
  BY <1>1 DEF low_virt_addr
<1>3. high_virt_addr' = high_virt_addr
  <2>1. high_virt_addr = Highest(file.segments)
    BY DEF high_virt_addr, Highest
  <2>2. high_virt_addr' = Highest(file'.segments)
    BY DEF high_virt_addr, Highest, FoldLeft, MapThenFoldSet
  <2> QED BY <2>1, <2>2
<1>4. num_kernel_pages' = num_kernel_pages
  BY <1>2, <1>3 DEF num_kernel_pages
<1> QED BY <1>1, <1>2, <1>4

-----------------------------------------------------------------------------
(* The kernel's pages and the map that is handed over.                     *)

\* From AllocateKernel on there are pages for the kernel.
Loading == pc \in {"segments", "rsdp", "size", "buffer", "map", "exit", "kernel"}

\* They begin at a page, are as many as were asked for, and are the loader's
\* code: neither FreePool nor an event of the firmware takes one away.
KernelAt(start) ==
    /\ base = start * PageSize
    /\ Loads # {} /\ num_kernel_pages > 0
    /\ \A p \in start .. start + num_kernel_pages - 1 : p \in Pages /\ types[p] = "EfiLoaderCode"
PagesInv ==
    /\ \A p \in pool : p \in Pages /\ types[p] = "EfiLoaderData"
    /\ Loading => \E start \in Pages : KernelAt(start)

\* The map that was read is the firmware's as long as its key is.
Handed == {Retype(d) : d \in Descriptors}
HandedInv ==
    /\ pc \in {"exit", "kernel"} =>
           /\ memory_map.mapkey <= key
           /\ memory_map.mapkey = key => memory_map.buffer = Handed
    /\ pc = "kernel" => memory_map.mapkey = key

KernelInv == file \in Kernels /\ PagesInv /\ HandedInv

LEMMA HandedKept ==
    ASSUME types' = types, base' = base, file' = file
    PROVE  Handed' = Handed
<1>1. Descriptors' = Descriptors
  BY DescriptorsAre, DescriptorsAreNext
<1>2. Entry' = Entry
  BY FileKept DEF Entry
<1>3. \A d : Retype(d)' = Retype(d)
  BY <1>2 DEF Retype, IsKernel
<1>4. Handed' = {Retype(d)' : d \in Descriptors'}
  BY DEF Handed
<1> QED BY <1>1, <1>3, <1>4 DEF Handed

\* A step that leaves the loader's code alone keeps the kernel's pages.
LEMMA CodeKept ==
    ASSUME PagesInv, file' = file, base' = base, Pages' = Pages, Loading' => Loading,
           \A p \in Pages : types[p] = "EfiLoaderCode" => types'[p] = types[p],
           \A p \in pool' : p \in Pages /\ types'[p] = "EfiLoaderData"
    PROVE  PagesInv'
<1>1. ASSUME NEW start \in Pages, KernelAt(start) PROVE KernelAt(start)'
  BY <1>1, FileKept DEF KernelAt
<1>2. Loading' => \E start \in Pages : KernelAt(start)
  BY DEF PagesInv
<1>3. Loading' => \E start \in Pages' : KernelAt(start)'
  BY <1>1, <1>2
<1>4. \A p \in pool' : p \in Pages' /\ types'[p] = "EfiLoaderData"
  OBVIOUS
<1> QED BY <1>3, <1>4 DEF PagesInv

\* ... among them every one that changes neither memory nor pool.
LEMMA TypesKept ==
    ASSUME PagesInv, UNCHANGED <<types, file, base, pool>>, Loading' => Loading
    PROVE  PagesInv'
<1>1. Pages' = Pages
  BY DEF Pages
<1>2. \A p \in pool' : p \in Pages /\ types'[p] = "EfiLoaderData"
  BY DEF PagesInv
<1> QED BY <1>1, <1>2, CodeKept

LEMMA ReturnKeepsKernelInv ==
    ASSUME KernelInv, UNCHANGED <<pc, types, key, file, base, pool, memory_map>>
    PROVE  KernelInv'
<1>1. Handed' = Handed
  BY HandedKept
<1>2. HandedInv'
  BY <1>1 DEF KernelInv, HandedInv
<1>3. Loading' => Loading
  BY DEF Loading
<1>4. PagesInv'
  BY <1>3, TypesKept DEF KernelInv
<1> QED BY <1>2, <1>4 DEF KernelInv

\* AllocatePool takes conventional memory.
LEMMA AllocatePoolKeeps ==
    ASSUME PagesInv, AllocatePool, file' = file, base' = base, Loading' => Loading
    PROVE  PagesInv'
<1>1. PICK pages \in {{}} \cup {{p} : p \in {p \in Pages : types[p] = "EfiConventionalMemory"}} :
          SetTypes(pages, "EfiLoaderData") /\ pool' = pool \cup pages
  BY DEF AllocatePool
<1>2. \A p \in pages : p \in Pages /\ types[p] = "EfiConventionalMemory"
  OBVIOUS
<1>3. Pages' = Pages /\ \A p \in Pages : types'[p] = IF p \in pages THEN "EfiLoaderData" ELSE types[p]
  BY <1>1 DEF SetTypes, Pages
<1>4. \A p \in Pages : types[p] = "EfiLoaderCode" => types'[p] = types[p]
  BY <1>2, <1>3
<1>5. \A p \in pool' : p \in Pages /\ types'[p] = "EfiLoaderData"
  BY <1>1, <1>2, <1>3 DEF PagesInv
<1> QED BY <1>3, <1>4, <1>5, CodeKept

LEMMA KernelInvInit == Init => KernelInv
BY DEF Init, KernelInv, PagesInv, HandedInv, Loading

LEMMA KernelInvNext == LoaderInv /\ KernelInv /\ [Next]_vars => KernelInv'
<1> SUFFICES ASSUME LoaderInv, KernelInv, [Next]_vars PROVE KernelInv'
  OBVIOUS
<1>1. PICK n \in Nat : types \in Map(n)
  BY DEF LoaderInv
<1>0. PICK c \in Nat, k \in Nat : \E b : memory_map = [capacity |-> c, buffer |-> b, mapkey |-> k]
  BY DEF LoaderInv
<1>2. PICK b : memory_map = [capacity |-> c, buffer |-> b, mapkey |-> k]
  BY <1>0
<1>3. key \in Nat /\ file' = file /\ PagesInv /\ HandedInv /\ memory_map.mapkey = k /\ file' \in Kernels
  BY <1>2, FileStays DEF LoaderInv, KernelInv
\* Before GetMap only the pages matter.
<1>4. ASSUME PagesInv', pc' \notin {"exit", "kernel"} PROVE KernelInv'
  BY <1>3, <1>4 DEF KernelInv, HandedInv
<1>5. ASSUME UNCHANGED <<types, base, pool>>, Loading' => Loading, pc' \notin {"exit", "kernel"}
      PROVE  KernelInv'
  BY <1>3, <1>4, <1>5, TypesKept
<1>6. ASSUME AllocatePool, base' = base, Loading' => Loading, pc' \notin {"exit", "kernel"}
      PROVE  KernelInv'
  BY <1>3, <1>4, <1>6, AllocatePoolKeeps
<1>7. CASE FirmwareEvent
  <2>1. UNCHANGED <<pc, base, pool, memory_map>> /\ key' = key + 1
    BY <1>7 DEF FirmwareEvent
  <2>2. PICK p \in Pages, t \in {"EfiConventionalMemory", "EfiBootServicesData"} :
            /\ types[p] \in {"EfiConventionalMemory", "EfiBootServicesData"}
            /\ types' = [types EXCEPT ![p] = t]
    BY <1>7 DEF FirmwareEvent
  <2>3. Pages' = Pages /\ \A q \in Pages : q # p => types'[q] = types[q]
    BY <1>1, <2>2 DEF Pages, Map
  <2>4. \A q \in Pages : types[q] = "EfiLoaderCode" => types'[q] = types[q]
    BY <2>2, <2>3
  <2>5. \A q \in pool' : q \in Pages /\ types'[q] = "EfiLoaderData"
    BY <1>3, <2>1, <2>2, <2>3 DEF PagesInv
  <2>6. PagesInv'
    BY <1>3, <2>1, <2>3, <2>4, <2>5, CodeKept DEF Loading
  <2>7. pc # "kernel"
    BY <1>7 DEF FirmwareEvent
  <2>8. pc = "exit" => k <= key /\ memory_map'.mapkey = k
    BY <1>3, <2>1 DEF HandedInv
  <2>9. pc = "exit" => memory_map'.mapkey <= key' /\ memory_map'.mapkey # key'
    BY <1>3, <2>1, <2>8
  <2>10. HandedInv'
    BY <2>1, <2>7, <2>9 DEF HandedInv
  <2> QED BY <1>3, <2>6, <2>10 DEF KernelInv
<1>8. CASE \E s : Return(s)
  BY <1>3, <1>8, ReturnKeepsKernelInv DEF Return, fwVars
<1>9. CASE SetWatchdogTimer
  BY <1>5, <1>9 DEF SetWatchdogTimer, Call, fwVars, Loading
<1>10. CASE QueryMode
  BY <1>5, <1>10 DEF QueryMode, Call, fwVars, Loading
<1>11. CASE OpenFile
  BY <1>5, <1>11 DEF OpenFile, Call, fwVars, Loading
<1>12. CASE ReadHeader
  BY <1>6, <1>12 DEF ReadHeader, Call, Loading
<1>13. CASE HeaderUnsupported
  BY <1>6, <1>13 DEF HeaderUnsupported, Loading
<1>14. CASE ReadPrograms
  BY <1>6, <1>14 DEF ReadPrograms, Call, Loading
<1>15. CASE AllocateKernel
  <2>1. PICK start \in Pages : /\ Fits(num_kernel_pages, start)
                               /\ SetTypes(start .. start + num_kernel_pages - 1, "EfiLoaderCode")
                               /\ base' = start * PageSize
    BY <1>15 DEF AllocateKernel
  <2> DEFINE pages == start .. start + num_kernel_pages - 1
  <2>2. Pages' = Pages /\ \A p \in Pages : types'[p] = IF p \in pages THEN "EfiLoaderCode" ELSE types[p]
    BY <2>1 DEF SetTypes, Pages
  <2>3. num_kernel_pages > 0 /\ \A p \in pages : p \in Pages /\ types[p] = "EfiConventionalMemory"
    BY <2>1 DEF Fits
  <2>4. pc' = "segments" /\ pool' = pool /\ Loads # {}
    BY <1>15 DEF AllocateKernel, Call
  <2> HIDE DEF pages
  <2>5. \A p \in pages : p \in Pages' /\ types'[p] = "EfiLoaderCode"
    BY <2>2, <2>3
  <2>6. KernelAt(start)'
    BY <1>3, <2>1, <2>3, <2>4, <2>5, FileKept DEF KernelAt, pages
  <2>7. \A p \in pool' : p \in Pages' /\ types'[p] = "EfiLoaderData"
    BY <1>3, <2>2, <2>3, <2>4 DEF PagesInv
  <2>8. PagesInv'
    BY <2>2, <2>6, <2>7 DEF PagesInv
  <2> QED BY <1>4, <2>4, <2>8
<1>16. CASE LoadSegment
  BY <1>5, <1>16 DEF LoadSegment, Call, fwVars, Loading
<1>17. CASE FreeHeaders
  <2>1. PICK pages \in SUBSET pool : SetTypes(pages, "EfiConventionalMemory") /\ pool' = pool \ pages
    BY <1>17 DEF FreeHeaders, FreePool
  <2>2. /\ Pages' = Pages
        /\ \A p \in Pages : types'[p] = IF p \in pages THEN "EfiConventionalMemory" ELSE types[p]
    BY <2>1 DEF SetTypes, Pages
  <2>3. \A p \in pool : p \in Pages /\ types[p] = "EfiLoaderData"
    BY <1>3 DEF PagesInv
  <2>4. \A p \in Pages : types[p] = "EfiLoaderCode" => types'[p] = types[p]
    BY <2>2, <2>3
  <2>5. \A p \in pool' : p \in Pages /\ types'[p] = "EfiLoaderData"
    BY <2>1, <2>2, <2>3
  <2>6. base' = base /\ (Loading' => Loading) /\ pc' \notin {"exit", "kernel"}
    BY <1>17 DEF FreeHeaders, Call, Loading
  <2> QED BY <1>3, <1>4, <2>2, <2>4, <2>5, <2>6, CodeKept
<1>18. CASE find_rsdp
  BY <1>5, <1>18 DEF find_rsdp, Call, fwVars, Loading
<1>19. CASE GetMapSize
  BY <1>5, <1>19 DEF GetMapSize, Call, fwVars, Loading
<1>20. CASE AllocateBuffer
  BY <1>6, <1>20 DEF AllocateBuffer, Call, Loading
<1>21. CASE GetMap
  <2>1. UNCHANGED <<types, key, base, pool>> /\ pc' = "exit" /\ pc = "map"
    BY <1>21 DEF GetMap, Call, fwVars
  <2>2. memory_map' = [capacity |-> c, buffer |-> Handed, mapkey |-> key]
    BY <1>2, <1>21 DEF GetMap, Handed
  <2>3. memory_map'.mapkey = key /\ memory_map'.buffer = Handed
    BY <2>2
  <2>4. Handed' = Handed
    BY <1>3, <2>1, HandedKept
  <2>5. HandedInv'
    BY <1>3, <2>1, <2>3, <2>4 DEF HandedInv
  <2>6. PagesInv'
    BY <1>3, <2>1, TypesKept DEF Loading
  <2> QED BY <1>3, <2>5, <2>6 DEF KernelInv
<1>22. CASE ExitBootServices
  <2>1. UNCHANGED <<types, key, base, pool, memory_map>> /\ pc' = "kernel" /\ pc = "exit"
    BY <1>22 DEF ExitBootServices, Call, fwVars
  <2>2. memory_map.mapkey = key
    BY <1>22 DEF ExitBootServices
  <2>3. Handed' = Handed
    BY <1>3, <2>1, HandedKept
  <2>4. HandedInv'
    BY <1>3, <2>1, <2>2, <2>3 DEF HandedInv
  <2>5. PagesInv'
    BY <1>3, <2>1, TypesKept DEF Loading
  <2> QED BY <1>3, <2>4, <2>5 DEF KernelInv
<1>23. CASE UNCHANGED vars
  BY <1>23, ReturnKeepsKernelInv DEF vars, fwVars
<1>24. ServiceFails \/ FormatUnsupported \/ NoSegments \/ NoPages \/ NoRsdp \/ BufferTooSmall \/ StaleKey
       => \E s : Return(s)
  BY DEF ServiceFails, FormatUnsupported, NoSegments, NoPages, NoRsdp, BufferTooSmall, StaleKey
<1> QED
  BY <1>7, <1>8, <1>9, <1>10, <1>11, <1>12, <1>13, <1>14, <1>15, <1>16, <1>17, <1>18, <1>19,
     <1>20, <1>21, <1>22, <1>23, <1>24 DEF Next, Done

\* The page of an address that lies in a range of pages.
LEMMA PageOfAddress ==
    ASSUME NEW n \in Nat \ {0}, NEW x \in Nat, NEW a \in Nat, NEW b \in Nat,
           a * n <= x, x < a * n + (b - a + 1) * n
    PROVE  a <= x \div n /\ x \div n <= b
<1> DEFINE q == x \div n
<1>1. q \in Nat /\ x % n \in 0 .. n - 1 /\ x = q * n + (x % n)
  BY DivMod
<1>2. a * n \in Nat /\ (b - a + 1) * n \in Int /\ a * n + (b - a + 1) * n = (b + 1) * n
  OBVIOUS
<1> HIDE DEF q
<1>3. ~(q < a)
  <2> SUFFICES ASSUME q < a PROVE FALSE
    BY <1>1
  <2>1. (q + 1) * n <= a * n
    BY <1>1, MulMonotone
  <2>2. (q + 1) * n = q * n + n /\ q * n \in Nat
    BY <1>1
  <2> QED BY <1>1, <1>2, <2>1, <2>2
<1>4. ~(b < q)
  <2> SUFFICES ASSUME b < q PROVE FALSE
    BY <1>1
  <2>1. (b + 1) * n <= q * n
    BY <1>1, MulMonotone
  <2>2. q * n \in Nat /\ (b + 1) * n \in Nat
    BY <1>1
  <2> QED BY <1>1, <1>2, <2>1, <2>2
<1> QED BY <1>1, <1>3, <1>4 DEF q

\* The pages a descriptor stands for.
Covered(d) == d.PhysicalStart \div PageSize .. (d.PhysicalStart \div PageSize) + d.NumberOfPages - 1

\* What Retype does to the descriptor of a range.
LEMMA RetypeRange ==
    ASSUME NEW n \in Nat, types \in Map(n), NEW a \in 1 .. n, NEW b \in 1 .. n, a <= b,
           NEW d, d = Retype(Describe(types, a, b))
    PROVE  /\ d \in EFI_MEMORY_DESCRIPTOR /\ Covered(d) = a .. b
           /\ d.Type = types[a] \/ (types[a] = "EfiLoaderCode" /\ d.Type = "EfiLoaderData")
           /\ d.Type = "EfiLoaderCode" <=> types[a] = "EfiLoaderCode" /\ IsKernel(Describe(types, a, b))
<1> DEFINE old == Describe(types, a, b)
<1>1. PageSize \in Nat \ {0} /\ types[a] \in EFI_MEMORY_TYPE /\ "EfiLoaderData" \in EFI_MEMORY_TYPE
  BY LoaderAssumption DEF Map, EFI_MEMORY_TYPE
<1>2. a * PageSize \in Nat /\ b - a + 1 \in Nat /\ (a * PageSize) \div PageSize = a
  <2>1. a \in Nat /\ b \in Nat
    OBVIOUS
  <2>2. a * PageSize \in Nat /\ (a * PageSize) \div PageSize = a
    BY <1>1, <2>1, MultipleDiv
  <2> QED BY <2>1, <2>2
<1>3. PICK type \in EFI_MEMORY_TYPE :
          /\ d = [Type |-> type, PhysicalStart |-> a * PageSize, NumberOfPages |-> b - a + 1]
          /\ type = IF types[a] = "EfiLoaderCode" /\ ~IsKernel(old) THEN "EfiLoaderData" ELSE types[a]
  <2> DEFINE type == IF types[a] = "EfiLoaderCode" /\ ~IsKernel(old) THEN "EfiLoaderData" ELSE types[a]
  <2>1. type \in EFI_MEMORY_TYPE
    BY <1>1
  <2>2. d = [Type |-> type, PhysicalStart |-> a * PageSize, NumberOfPages |-> b - a + 1]
    BY DEF Retype, Describe
  <2> QED BY <2>1, <2>2
<1>4. /\ d \in EFI_MEMORY_DESCRIPTOR /\ d.Type = type
      /\ d.PhysicalStart = a * PageSize /\ d.NumberOfPages = b - a + 1
  BY <1>2, <1>3 DEF EFI_MEMORY_DESCRIPTOR
<1>5. Covered(d) = a .. a + (b - a + 1) - 1
  BY <1>2, <1>4 DEF Covered
<1>6. Covered(d) = a .. b
  BY <1>5
<1> QED BY <1>3, <1>4, <1>6

\* Every entry of the map handed over is the description of a range.
LEMMA HandedElement ==
    ASSUME NEW n \in Nat, types \in Map(n), NEW d
    PROVE  d \in Handed <=> \E a, b \in 1 .. n : IsRange(types, a, b) /\ d = Retype(Describe(types, a, b))
<1>1. DOMAIN types = 1 .. n
  BY DEF Map
<1>2. \A e : e \in Descriptors <=> \E a, b \in 1 .. n : IsRange(types, a, b) /\ e = Describe(types, a, b)
  <2> SUFFICES ASSUME NEW e
               PROVE  e \in Descriptors
                      <=> \E a, b \in 1 .. n : IsRange(types, a, b) /\ e = Describe(types, a, b)
    OBVIOUS
  <2>1. e \in DescriptorsOf(types)
        <=> \E a, b \in DOMAIN types : IsRange(types, a, b) /\ e = Describe(types, a, b)
    BY DescriptorElement
  <2> QED BY <1>1, <2>1, DescriptorsAre
<1> QED BY <1>2 DEF Handed

\* The kernel's entry point lies in the pages that are allocated for it.
EntryInKernel ==
    Loads # {} => low_virt_addr <= file.entry /\ file.entry < low_virt_addr + num_kernel_pages * PageSize

\* What the invariant says when the kernel is entered.
LEMMA HandedOver ==
    ASSUME LoaderInv, KernelInv, EntryInKernel
    PROVE  MapHandedOver
<1> SUFFICES ASSUME InKernel PROVE MapHandedOver
  BY DEF MapHandedOver
<1>1. PICK n \in Nat : types \in Map(n)
  BY DEF LoaderInv
<1>2. Pages = 1 .. n /\ DOMAIN types = 1 .. n /\ PageSize \in Nat \ {0}
  BY <1>1, LoaderAssumption DEF Pages, Map
<1>3. memory_map.buffer = Handed
  BY DEF InKernel, KernelInv, HandedInv
<1>4. PICK start \in Pages : KernelAt(start)
  BY DEF InKernel, KernelInv, PagesInv, Loading
<1>5. \A d \in Handed : \E a, b \in 1 .. n : IsRange(types, a, b) /\ d = Retype(Describe(types, a, b))
  BY <1>1, HandedElement
<1>6. \A a, b \in 1 .. n : IsRange(types, a, b) => a <= b /\ Retype(Describe(types, a, b)) \in Handed
  BY <1>1, HandedElement DEF IsRange
<1> DEFINE t == types
<1>7. ASSUME NEW a \in 1 .. n, NEW b \in 1 .. n, NEW c \in 1 .. n, NEW f \in 1 .. n, NEW p \in Int,
              IsRange(types, a, b), IsRange(types, c, f), a <= p, p <= b, c <= p, p <= f
       PROVE  a = c /\ b = f
  <2>1. t \in Map(n) /\ IsRange(t, a, b) /\ IsRange(t, c, f)
    BY <1>1, <1>7
  <2> HIDE DEF t
  <2> QED BY <1>7, <2>1, RangesUnique
\* Every page is described once.
<1>8. Handed \subseteq EFI_MEMORY_DESCRIPTOR
  BY <1>1, <1>5, <1>6, RetypeRange
<1>9. ASSUME NEW p \in 1 .. n, NEW a \in 1 .. n, NEW b \in 1 .. n, IsRange(types, a, b), a <= p, p <= b,
             NEW e \in Handed, p \in Covered(e)
      PROVE  e = Retype(Describe(types, a, b))
  <2>1. PICK c, f \in 1 .. n : IsRange(types, c, f) /\ e = Retype(Describe(types, c, f))
    BY <1>5
  <2>2. Covered(e) = c .. f
    BY <1>1, <1>6, <2>1, RetypeRange
  <2>3. c <= p /\ p <= f /\ p \in Int
    BY <1>9, <2>2
  <2>4. a = c /\ b = f
    BY <1>9, <1>7, <2>1, <2>3
  <2> QED BY <2>1, <2>4
<1>10. ASSUME NEW p \in Pages
      PROVE  \E d \in Handed :
                 /\ p \in Covered(d)
                 /\ types[p] = d.Type \/ (types[p] = "EfiLoaderCode" /\ d.Type = "EfiLoaderData")
                 /\ \A e \in Handed : p \in Covered(e) => e = d
  <2>1. p \in 1 .. n
    BY <1>2
  <2>2. PICK a, b \in 1 .. n : IsRange(types, a, b) /\ a <= p /\ p <= b /\ types[a] = types[p]
    BY <1>1, <2>1, RangeOfPage
  <2> DEFINE d == Retype(Describe(types, a, b))
  <2>3. d \in Handed /\ a <= b
    BY <1>6, <2>2
  <2>4. /\ Covered(d) = a .. b
        /\ d.Type = types[a] \/ (types[a] = "EfiLoaderCode" /\ d.Type = "EfiLoaderData")
    BY <1>1, <2>3, RetypeRange
  <2>5. \A e \in Handed : p \in Covered(e) => e = d
    BY <1>9, <2>1, <2>2
  <2>6. p \in a .. b
    BY <2>1, <2>2
  <2> HIDE DEF d
  <2> QED BY <2>2, <2>3, <2>4, <2>5, <2>6
\* The kernel's pages lie in one range.
<1>11. file \in Kernels /\ Loads # {} /\ num_kernel_pages > 0 /\ base = start * PageSize
  BY <1>4 DEF KernelInv, KernelAt
<1>12. start \in 1 .. n /\ num_kernel_pages \in Nat \ {0} /\ low_virt_addr \in Nat /\ file.entry \in Nat
  BY <1>2, <1>11, Extent
<1>13. \A p \in start .. start + num_kernel_pages - 1 : p \in 1 .. n /\ types[p] = "EfiLoaderCode"
  BY <1>2, <1>4 DEF KernelAt
<1>14. PICK a, b \in 1 .. n : IsRange(types, a, b) /\ a <= start /\ start <= b /\ types[a] = types[start]
  BY <1>1, <1>12, RangeOfPage
<1>15. types[a] = "EfiLoaderCode"
  BY <1>12, <1>13, <1>14
<1>16. start + num_kernel_pages - 1 <= b
  <2> SUFFICES ASSUME b < start + num_kernel_pages - 1 PROVE FALSE
    BY <1>12
  <2>1. b + 1 \in start .. start + num_kernel_pages - 1
    BY <1>12, <1>14
  <2> QED BY <1>2, <1>13, <1>14, <1>15, <2>1 DEF IsRange
\* The entry point lies in it.
<1> DEFINE num == num_kernel_pages
<1>17. /\ Entry \in Nat /\ start * PageSize <= Entry /\ Entry < start * PageSize + num * PageSize
       /\ num * PageSize \in Nat /\ start * PageSize \in Nat
  <2>1. num * PageSize \in Nat /\ start * PageSize \in Nat
    BY <1>2, <1>12
  <2>2. low_virt_addr <= file.entry /\ file.entry < low_virt_addr + num * PageSize
    BY <1>11 DEF EntryInKernel
  <2>3. Entry = start * PageSize + file.entry - low_virt_addr
    BY <1>11 DEF Entry
  <2> QED BY <1>12, <2>1, <2>2, <2>3
<1> HIDE DEF num
<1>18. a * PageSize <= Entry /\ Entry < a * PageSize + (b - a + 1) * PageSize
  <2>1. a * PageSize <= start * PageSize
    BY <1>2, <1>12, <1>14, MulMonotone
  <2>2. (start + num) * PageSize <= (b + 1) * PageSize
    BY <1>2, <1>12, <1>16, MulMonotone DEF num
  <2>3. /\ (start + num) * PageSize = start * PageSize + num * PageSize
        /\ (b + 1) * PageSize = a * PageSize + (b - a + 1) * PageSize
        /\ a * PageSize \in Nat /\ (b + 1) * PageSize \in Nat
    BY <1>2, <1>12 DEF num
  <2>4. Entry < (b + 1) * PageSize
    BY <1>17, <2>2, <2>3
  <2> QED BY <1>17, <2>1, <2>3, <2>4
<1>19. \A c, f : IsKernel(Describe(types, c, f))
                 <=> Entry >= c * PageSize /\ Entry < c * PageSize + (f - c + 1) * PageSize
  BY DEF IsKernel, Describe
<1> DEFINE d == Retype(Describe(types, a, b))
<1>20. d \in Handed /\ d.Type = "EfiLoaderCode" /\ Covered(d) = a .. b
  <2>1. IsKernel(Describe(types, a, b))
    BY <1>2, <1>17, <1>18, <1>19
  <2> QED BY <1>1, <1>6, <1>14, <1>15, <2>1, RetypeRange
<1>21. ASSUME NEW e \in Handed, e.Type = "EfiLoaderCode" PROVE e = d
  <2>1. PICK c, f \in 1 .. n : IsRange(types, c, f) /\ e = Retype(Describe(types, c, f))
    BY <1>5
  <2>2. IsKernel(Describe(types, c, f))
    BY <1>1, <1>6, <1>21, <2>1, RetypeRange
  <2>3. c * PageSize <= Entry /\ Entry < c * PageSize + (f - c + 1) * PageSize
    <3>1. Entry >= c * PageSize /\ Entry < c * PageSize + (f - c + 1) * PageSize
      BY <1>19, <2>2
    <3>2. c * PageSize \in Nat
      BY <1>2
    <3> QED BY <1>17, <3>1, <3>2
  <2> DEFINE q == Entry \div PageSize
  <2>4. q \in Int
    BY <1>2, <1>17, DivMod
  <2> DEFINE x == Entry
  <2>5. x \in Nat /\ a \in Nat /\ b \in Nat /\ c \in Nat /\ f \in Nat /\ q = x \div PageSize
    BY <1>17
  <2>6. /\ a * PageSize <= x /\ x < a * PageSize + (b - a + 1) * PageSize
        /\ c * PageSize <= x /\ x < c * PageSize + (f - c + 1) * PageSize
    BY <1>18, <2>3
  <2> HIDE DEF x, q
  <2>7. a <= q /\ q <= b
    BY <1>2, <2>5, <2>6, PageOfAddress
  <2>8. c <= q /\ q <= f
    BY <1>2, <2>5, <2>6, PageOfAddress
  <2>9. a = c /\ b = f
    BY <1>14, <1>7, <2>1, <2>4, <2>7, <2>8
  <2> QED BY <2>1, <2>9
<1>22. KernelPages \subseteq a .. b
  <2>1. base \div PageSize = start
    BY <1>2, <1>11, <1>12, MultipleDiv
  <2>2. KernelPages = start .. start + num_kernel_pages - 1
    BY <2>1 DEF KernelPages
  <2> QED BY <1>12, <1>14, <1>16, <2>2
<1> HIDE DEF d
<1>23. {e \in Handed : e.Type = "EfiLoaderCode"} = {d}
  BY <1>20, <1>21
<1>24. \E x \in {e \in Handed : e.Type = "EfiLoaderCode"} :
          {e \in Handed : e.Type = "EfiLoaderCode"} = {x} /\ KernelPages \subseteq Covered(x)
  BY <1>20, <1>22, <1>23
<1> QED BY <1>3, <1>8, <1>10, <1>24 DEF MapHandedOver, Covered

\* MapHandedOver for every memory and every kernel whose entry point lies in
\* its pages: the map handed over is the firmware's at the end of boot
\* services, and its one code range holds the kernel.  An entry point outside
\* of the pages would make the kernel's own range data.
THEOREM MapAlwaysHandedOver == Spec /\ EntryInKernel => []MapHandedOver
<1>1. EntryInKernel /\ [Next]_vars => EntryInKernel'
  <2> SUFFICES ASSUME EntryInKernel, [Next]_vars PROVE EntryInKernel'
    OBVIOUS
  <2>1. file' = file
    BY FileStays
  <2> QED BY <2>1, FileKept DEF EntryInKernel
<1>2. LoaderInv /\ KernelInv /\ EntryInKernel => MapHandedOver
  BY HandedOver
<1> QED BY LoaderInvInit, LoaderInvNext, KernelInvInit, KernelInvNext, <1>1, <1>2, PTL DEF Spec

-----------------------------------------------------------------------------
(* The kernel in memory.                                                   *)

\* The segments before the next one lie in memory, and nothing lies outside of
\* the kernel's pages.
Image(i) ==
    \A n \in 0 .. file.segments[i].memsz - 1 :
        LET s == file.segments[i]
            a == base + s.vaddr - low_virt_addr + n
        IN  /\ a \in DOMAIN memory
            /\ memory[a] = IF n < s.filesz THEN s.offset + n ELSE 0
MemoryInv ==
    /\ DOMAIN memory = UNION {Bytes(p) : p \in Pages}
    /\ at \in Nat \ {0} /\ (~Loading => at = 1)
    /\ Loading /\ pc # "segments" => at > Len(file.segments)
    /\ Loading => \A i \in Loads : i < at => Image(i)
    /\ \A p \in Pages : ~Loading \/ p \notin KernelPages => \A a \in Bytes(p) : memory[a] = Garbage

\* An address lies in one page only.
LEMMA BytesApart ==
    ASSUME NEW p \in Int, NEW q \in Int, NEW a, a \in Bytes(p), a \in Bytes(q)
    PROVE  p = q
<1>1. PageSize \in Nat \ {0} /\ p * PageSize \in Int /\ q * PageSize \in Int /\ a \in Int
  BY LoaderAssumption DEF Bytes
<1> DEFINE r == a - p * PageSize
<1> DEFINE s == a - q * PageSize
<1>2. r \in 0 .. PageSize - 1 /\ s \in 0 .. PageSize - 1
  BY <1>1 DEF Bytes
<1>3. p * PageSize + r = q * PageSize + s
  BY <1>1
<1> HIDE DEF r, s
<1> QED BY <1>1, <1>2, <1>3, QuotientUnique

\* The kernel's addresses are those of its pages.
LEMMA KernelAddress ==
    ASSUME NEW n \in Nat, types \in Map(n), file \in Kernels, NEW start \in Pages, KernelAt(start),
           NEW a \in Int, base <= a, a < base + num_kernel_pages * PageSize
    PROVE  \E p \in Pages : p \in KernelPages /\ a \in Bytes(p)
<1>1. PageSize \in Nat \ {0} /\ start \in Nat /\ start >= 1 /\ Loads # {} /\ num_kernel_pages > 0
      /\ base = start * PageSize
  BY LoaderAssumption DEF Pages, Map, KernelAt
<1>2. num_kernel_pages \in Nat
  BY <1>1, Extent
<1> DEFINE num == num_kernel_pages
<1> DEFINE b == start + num - 1
<1>3. b \in Nat /\ start * PageSize \in Nat /\ a \in Nat /\ b - start + 1 = num
  <2>1. start * PageSize \in Nat
    BY <1>1
  <2> QED BY <1>1, <1>2, <2>1
<1>4. start * PageSize <= a /\ a < start * PageSize + (b - start + 1) * PageSize
  BY <1>1, <1>3
<1> HIDE DEF b
<1> DEFINE p == a \div PageSize
<1>5. start <= p /\ p <= b
  BY <1>1, <1>3, <1>4, PageOfAddress
<1>6. p \in Nat /\ a % PageSize \in 0 .. PageSize - 1 /\ a = p * PageSize + (a % PageSize)
  BY <1>1, <1>3, DivMod
<1> HIDE DEF p
<1>7. a \in Bytes(p)
  <2>1. p * PageSize \in Nat
    BY <1>1, <1>6
  <2> QED BY <1>1, <1>3, <1>6, <2>1 DEF Bytes
<1>8. p \in start .. start + num - 1
  BY <1>1, <1>2, <1>5, <1>6 DEF b
<1>9. p \in Pages
  BY <1>8 DEF KernelAt
<1>10. p \in KernelPages
  <2>1. base \div PageSize = start
    BY <1>1, MultipleDiv
  <2> QED BY <1>8, <2>1 DEF KernelPages
<1> QED BY <1>7, <1>9, <1>10

\* A step that leaves memory alone keeps it.
LEMMA MemoryKept ==
    ASSUME MemoryInv, file' = file, UNCHANGED <<base, memory, at>>, Pages' = Pages,
           Loading' <=> Loading,
           Loading' /\ pc' # "segments" => pc # "segments" \/ at > Len(file.segments)
    PROVE  MemoryInv'
<1>1. /\ Loads' = Loads /\ low_virt_addr' = low_virt_addr /\ num_kernel_pages' = num_kernel_pages
      /\ \A i : file.segments[i]' = file.segments[i]
  BY FileKept
<1>2. KernelPages' = KernelPages
  BY <1>1 DEF KernelPages
<1>3. \A i : Image(i)' <=> Image(i)
  BY <1>1 DEF Image
<1>4. DOMAIN memory' = UNION {Bytes(p) : p \in Pages'}
  BY DEF MemoryInv
<1>5. at' \in Nat \ {0} /\ (~Loading' => at' = 1)
  BY DEF MemoryInv
<1>6. Loading' /\ pc' # "segments" => at' > Len(file'.segments)
  BY DEF MemoryInv
<1>7. Loading' => \A i \in Loads' : i < at' => Image(i)'
  BY <1>1, <1>3 DEF MemoryInv
<1>8. \A p \in Pages' : ~Loading' \/ p \notin KernelPages' => \A a \in Bytes(p) : memory'[a] = Garbage
  BY <1>2 DEF MemoryInv
<1> QED BY <1>4, <1>5, <1>6, <1>7, <1>8 DEF MemoryInv

\* LoadSegment puts one segment into memory and leaves those before it.
LEMMA SegmentLoaded ==
    ASSUME LoaderInv, KernelInv, MemoryInv, Apart(file.segments), LoadSegment
    PROVE  MemoryInv'
<1>1. PICK n \in Nat : types \in Map(n)
  BY DEF LoaderInv
<1>2. /\ UNCHANGED <<types, base, file>> /\ pc = "segments" /\ pc' = "segments" /\ at' = at + 1
      /\ at <= Len(file.segments)
      /\ memory' = IF file.segments[at].load
                   THEN [a \in DOMAIN memory |-> SegmentBytes(file.segments[at], a, memory[a])]
                   ELSE memory
  BY DEF LoadSegment, Call, fwVars
<1>3. /\ Loads' = Loads /\ low_virt_addr' = low_virt_addr /\ num_kernel_pages' = num_kernel_pages
      /\ \A i : file.segments[i]' = file.segments[i]
  BY <1>2, FileKept
<1>4. Loading /\ Loading'
  BY <1>2 DEF Loading
<1>5. PICK start \in Pages : KernelAt(start)
  BY <1>4 DEF KernelInv, PagesInv
<1>6. /\ file \in Kernels /\ Loads # {} /\ file.segments \in Seq(Elf64_Phdr) /\ low_virt_addr \in Nat
      /\ num_kernel_pages \in Int
      /\ \A i \in Loads : low_virt_addr <= file.segments[i].vaddr
      /\ \A i \in Loads : file.segments[i].vaddr - low_virt_addr + file.segments[i].memsz
                              <= num_kernel_pages * PageSize
  BY <1>5, Extent DEF KernelInv, KernelAt
<1>7. PageSize \in Nat \ {0} /\ base \in Nat /\ num_kernel_pages * PageSize \in Int /\ at \in Nat \ {0}
  <2>1. PageSize \in Nat \ {0} /\ start \in Nat /\ base = start * PageSize
    BY <1>1, <1>5, LoaderAssumption DEF Pages, Map, KernelAt
  <2> QED BY <1>6, <2>1 DEF MemoryInv
<1>8. ASSUME NEW i \in Loads
      PROVE  /\ i \in Nat /\ i >= 1 /\ i <= Len(file.segments) /\ file.segments[i].load
             /\ file.segments[i].vaddr \in Nat /\ file.segments[i].memsz \in Nat
             /\ file.segments[i].filesz \in Nat /\ file.segments[i].filesz <= file.segments[i].memsz
  <2>1. i \in DOMAIN file.segments /\ file.segments[i].load
    BY DEF Loads
  <2>2. file.segments[i] \in Elf64_Phdr /\ i \in 1 .. Len(file.segments)
    BY <1>6, <2>1
  <2>3. file.segments[i].filesz <= file.segments[i].memsz
    BY <2>1 DEF Apart
  <2> QED BY <1>6, <2>1, <2>2, <2>3 DEF Elf64_Phdr
<1>9. \A i, j \in Loads : i < j => file.segments[i].vaddr + file.segments[i].memsz < file.segments[j].vaddr
  BY DEF Apart, Loads
<1>10. Pages' = Pages /\ DOMAIN memory' = DOMAIN memory
  BY <1>2 DEF Pages
<1>11. CASE ~file.segments[at].load
  <2>1. memory' = memory
    BY <1>2, <1>11
  <2>2. \A i \in Loads : i < at + 1 => i < at
    BY <1>7, <1>8, <1>11
  <2>3. \A i : Image(i)' <=> Image(i)
    BY <1>2, <1>3, <2>1 DEF Image
  <2>4. KernelPages' = KernelPages
    BY <1>2, <1>3 DEF KernelPages
  <2>5. \A i \in Loads' : i < at' => Image(i)'
    BY <1>2, <1>3, <1>4, <2>2, <2>3 DEF MemoryInv
  <2>6. at' \in Nat \ {0}
    BY <1>2, <1>7
  <2>7. DOMAIN memory' = UNION {Bytes(p) : p \in Pages'}
    BY <1>10 DEF MemoryInv
  <2>8. \A p \in Pages' : p \notin KernelPages' => \A a \in Bytes(p) : memory'[a] = Garbage
    BY <1>4, <1>10, <2>1, <2>4 DEF MemoryInv
  <2> QED BY <1>2, <1>4, <2>5, <2>6, <2>7, <2>8 DEF MemoryInv
<1>12. CASE file.segments[at].load
  <2> DEFINE s == file.segments[at]
  <2> DEFINE first == base + s.vaddr - low_virt_addr
  <2>1. at \in Loads
    <3>1. at \in DOMAIN file.segments
      BY <1>2, <1>6, <1>7
    <3> QED BY <1>12, <3>1 DEF Loads
  <2>2. /\ s.vaddr \in Nat /\ s.memsz \in Nat /\ s.filesz \in Nat /\ s.filesz <= s.memsz
        /\ low_virt_addr <= s.vaddr /\ s.vaddr - low_virt_addr + s.memsz <= num_kernel_pages * PageSize
    BY <1>6, <1>8, <2>1
  <2>3. first \in Nat /\ base <= first /\ first + s.memsz <= base + num_kernel_pages * PageSize
    <3> DEFINE v == s.vaddr
    <3> DEFINE m == s.memsz
    <3> DEFINE low == low_virt_addr
    <3> DEFINE size == num_kernel_pages * PageSize
    <3>1. /\ v \in Nat /\ m \in Nat /\ low \in Nat /\ base \in Nat /\ size \in Int
          /\ low <= v /\ v - low + m <= size /\ first = base + v - low
      BY <1>6, <1>7, <2>2
    <3> HIDE DEF v, low, size, first, m
    <3>2. first \in Nat /\ base <= first /\ first + m <= base + size
      BY <3>1
    <3> QED BY <3>2 DEF m, size
  <2>4. \A a \in DOMAIN memory : memory'[a] = SegmentBytes(s, a, memory[a])
    BY <1>2, <1>12
  <2>5. \A a, old : SegmentBytes(s, a, old) =
            IF 0 <= a - first /\ a - first < s.filesz THEN s.offset + (a - first)
            ELSE IF s.filesz <= a - first /\ a - first < s.memsz THEN 0 ELSE old
    BY DEF SegmentBytes
  <2> HIDE DEF first
  \* Where the segment does not lie nothing changes.
  <2>6. ASSUME NEW a \in Int, a \in DOMAIN memory, a < first \/ first + s.memsz <= a
        PROVE  memory'[a] = memory[a]
    <3>1. ~(0 <= a - first /\ a - first < s.filesz) /\ ~(s.filesz <= a - first /\ a - first < s.memsz)
      BY <2>2, <2>3, <2>6
    <3> QED BY <2>4, <2>5, <2>6, <3>1
  <2>7. ASSUME NEW a \in Int, first <= a, a < first + s.memsz
        PROVE  \E p \in Pages : p \in KernelPages /\ a \in Bytes(p)
    <3>1. base <= a /\ a < base + num_kernel_pages * PageSize
      BY <1>7, <2>2, <2>3, <2>7
    <3> QED BY <1>1, <1>5, <1>6, <3>1, KernelAddress
  <2>8. KernelPages' = KernelPages
    BY <1>2, <1>3 DEF KernelPages
  \* The segment itself.
  <2>9. ASSUME NEW i, i = at PROVE Image(i)'
    <3> SUFFICES ASSUME NEW k \in 0 .. s.memsz - 1
                 PROVE  /\ first + k \in DOMAIN memory
                        /\ memory'[first + k] = IF k < s.filesz THEN s.offset + k ELSE 0
      BY <1>2, <1>3, <1>10, <2>9 DEF Image, first
    <3> DEFINE a == first + k
    <3>1. a \in Int /\ first <= a /\ a < first + s.memsz /\ a - first = k /\ 0 <= k /\ k \in Int
      BY <2>2, <2>3
    <3> HIDE DEF a
    <3>2. a \in DOMAIN memory
      BY <2>7, <3>1 DEF MemoryInv
    <3>3. memory'[a] = IF 0 <= k /\ k < s.filesz THEN s.offset + k
                       ELSE IF s.filesz <= k /\ k < s.memsz THEN 0 ELSE memory[a]
      BY <2>4, <2>5, <3>1, <3>2
    <3>4. 0 <= k /\ (k < s.filesz \/ s.filesz <= k) /\ k < s.memsz /\ (k < s.filesz => ~(s.filesz <= k))
      BY <2>2, <3>1
    <3>5. memory'[a] = IF k < s.filesz THEN s.offset + k ELSE 0
      BY <3>3, <3>4
    <3> QED BY <3>2, <3>5 DEF a
  \* Those before it.
  <2>10. ASSUME NEW i \in Loads, i < at PROVE Image(i)'
    <3> DEFINE r == file.segments[i]
    <3>1. r.vaddr \in Nat /\ r.memsz \in Nat /\ r.vaddr + r.memsz < s.vaddr
      BY <1>8, <1>9, <2>1, <2>10
    <3>2. Image(i)
      BY <1>4, <2>10 DEF MemoryInv
    <3> SUFFICES ASSUME NEW k \in 0 .. r.memsz - 1
                 PROVE  LET a == base + r.vaddr - low_virt_addr + k
                        IN  /\ a \in DOMAIN memory
                            /\ memory'[a] = IF k < r.filesz THEN r.offset + k ELSE 0
      BY <1>2, <1>3, <1>10 DEF Image
    <3> DEFINE a == base + r.vaddr - low_virt_addr + k
    <3>3. a \in DOMAIN memory /\ memory[a] = IF k < r.filesz THEN r.offset + k ELSE 0
      BY <3>2 DEF Image
    <3>4. a \in Int /\ a < first
      <4> DEFINE v == s.vaddr
      <4> DEFINE u == r.vaddr
      <4> DEFINE m == r.memsz
      <4> DEFINE low == low_virt_addr
      <4>1. /\ v \in Nat /\ u \in Nat /\ m \in Nat /\ low \in Nat /\ base \in Nat /\ u + m < v
            /\ first = base + v - low /\ a = base + u - low + k /\ k \in 0 .. m - 1
        BY <1>6, <1>7, <2>2, <3>1 DEF first
      <4> HIDE DEF v, u, m, low, a, first
      <4> QED BY <4>1
    <3>5. memory'[a] = memory[a]
      BY <2>6, <3>3, <3>4
    <3> QED BY <3>3, <3>5
  <2>11. \A i \in Loads' : i < at' => Image(i)'
    <3>1. \A i \in Loads : i < at + 1 => i < at \/ i = at
      BY <1>7, <1>8
    <3> QED BY <1>2, <1>3, <2>9, <2>10, <3>1
  \* Nothing else.
  <2>12. ASSUME NEW p \in Pages, p \notin KernelPages, NEW a \in Bytes(p) PROVE memory'[a] = Garbage
    <3>1. p \in Int /\ a \in Int /\ a \in DOMAIN memory /\ memory[a] = Garbage
      <4>1. p \in Int
        BY <1>1 DEF Pages, Map
      <4>2. a \in Int
        BY <1>7, <4>1 DEF Bytes
      <4> QED BY <1>4, <2>12, <4>1, <4>2 DEF MemoryInv
    <3>2. ~(first <= a /\ a < first + s.memsz)
      <4> SUFFICES ASSUME first <= a, a < first + s.memsz PROVE FALSE
        OBVIOUS
      <4>1. PICK q \in Pages : q \in KernelPages /\ a \in Bytes(q)
        BY <2>7, <3>1
      <4>2. q \in Int
        BY <1>1 DEF Pages, Map
      <4> QED BY <2>12, <3>1, <4>1, <4>2, BytesApart
    <3>3. a < first \/ first + s.memsz <= a
      BY <2>2, <2>3, <3>1, <3>2
    <3> QED BY <2>6, <3>1, <3>3
  <2>13. at' \in Nat \ {0}
    BY <1>2, <1>7
  <2>14. DOMAIN memory' = UNION {Bytes(p) : p \in Pages'}
    BY <1>10 DEF MemoryInv
  <2>15. \A p \in Pages' : p \notin KernelPages' => \A a \in Bytes(p) : memory'[a] = Garbage
    BY <1>10, <2>8, <2>12
  <2> QED BY <1>2, <1>4, <2>11, <2>13, <2>14, <2>15 DEF MemoryInv
<1> QED BY <1>11, <1>12

LEMMA MemoryInvInit == Init => MemoryInv
<1> SUFFICES ASSUME Init PROVE MemoryInv
  OBVIOUS
<1>1. ~Loading /\ at = 1 /\ memory = [a \in UNION {Bytes(p) : p \in DOMAIN types} |-> Garbage]
  BY DEF Init, Loading
<1> QED BY <1>1 DEF MemoryInv, Pages

LEMMA MemoryInvNext ==
    LoaderInv /\ KernelInv /\ MemoryInv /\ Apart(file.segments) /\ [Next]_vars => MemoryInv'
<1> SUFFICES ASSUME LoaderInv, KernelInv, MemoryInv, Apart(file.segments), [Next]_vars PROVE MemoryInv'
  OBVIOUS
<1>1. PICK n \in Nat : types \in Map(n)
  BY DEF LoaderInv
<1>2. file' = file
  BY FileStays
<1>3. ASSUME Pages' = Pages, UNCHANGED <<base, memory, at>>, Loading' <=> Loading,
             Loading' /\ pc' # "segments" => pc # "segments" \/ at > Len(file.segments)
      PROVE  MemoryInv'
  BY <1>2, <1>3, MemoryKept
<1>4. types' = types => Pages' = Pages
  BY DEF Pages
<1>5. \A pages, type : SetTypes(pages, type) => Pages' = Pages
  BY DEF SetTypes, Pages
<1>6. AllocatePool \/ FreePool => Pages' = Pages
  BY <1>5 DEF AllocatePool, FreePool
<1>7. CASE FirmwareEvent
  <2>1. Pages' = Pages
    BY <1>1, <1>7 DEF FirmwareEvent, Pages, Map
  <2> QED BY <1>3, <1>7, <2>1 DEF FirmwareEvent, Loading
<1>8. CASE \E s : Return(s)
  BY <1>3, <1>4, <1>8 DEF Return, fwVars, Loading
<1>9. CASE SetWatchdogTimer
  BY <1>3, <1>4, <1>9 DEF SetWatchdogTimer, Call, fwVars, Loading
<1>10. CASE QueryMode
  BY <1>3, <1>4, <1>10 DEF QueryMode, Call, fwVars, Loading
<1>11. CASE OpenFile
  BY <1>3, <1>4, <1>11 DEF OpenFile, Call, fwVars, Loading
<1>12. CASE ReadHeader
  BY <1>3, <1>6, <1>12 DEF ReadHeader, Call, Loading
<1>13. CASE HeaderUnsupported
  BY <1>3, <1>6, <1>13 DEF HeaderUnsupported, Loading
<1>14. CASE ReadPrograms
  BY <1>3, <1>6, <1>14 DEF ReadPrograms, Call, Loading
<1>15. CASE AllocateKernel
  <2>1. pc = "pages" /\ pc' = "segments" /\ UNCHANGED <<at, memory>>
    BY <1>15 DEF AllocateKernel, Call
  <2>2. Pages' = Pages
    BY <1>5, <1>15 DEF AllocateKernel
  <2>3. ~Loading /\ at = 1
    BY <2>1 DEF Loading, MemoryInv
  <2>4. \A i \in Loads' : ~(i < at')
    <3>1. file.segments \in Seq(Elf64_Phdr) /\ Loads' = Loads
      BY <1>2, FileKept, Extent DEF KernelInv
    <3>2. \A i \in Loads : i \in 1 .. Len(file.segments)
      BY <3>1 DEF Loads
    <3>3. Len(file.segments) \in Nat
      BY <3>1
    <3> QED BY <2>1, <2>3, <3>1, <3>2, <3>3
  <2> QED BY <2>1, <2>2, <2>3, <2>4 DEF MemoryInv
<1>16. CASE LoadSegment
  BY <1>16, SegmentLoaded
<1>17. CASE FreeHeaders
  BY <1>3, <1>6, <1>17 DEF FreeHeaders, Call, Loading
<1>18. CASE find_rsdp
  BY <1>3, <1>4, <1>18 DEF find_rsdp, Call, fwVars, Loading
<1>19. CASE GetMapSize
  BY <1>3, <1>4, <1>19 DEF GetMapSize, Call, fwVars, Loading
<1>20. CASE AllocateBuffer
  BY <1>3, <1>6, <1>20 DEF AllocateBuffer, Call, Loading
<1>21. CASE GetMap
  BY <1>3, <1>4, <1>21 DEF GetMap, Call, fwVars, Loading
<1>22. CASE ExitBootServices
  BY <1>3, <1>4, <1>22 DEF ExitBootServices, Call, fwVars, Loading
<1>23. CASE UNCHANGED vars
  BY <1>3, <1>4, <1>23 DEF vars, fwVars, Loading
<1>24. ServiceFails \/ FormatUnsupported \/ NoSegments \/ NoPages \/ NoRsdp \/ BufferTooSmall \/ StaleKey
       => \E s : Return(s)
  BY DEF ServiceFails, FormatUnsupported, NoSegments, NoPages, NoRsdp, BufferTooSmall, StaleKey
<1> QED
  BY <1>7, <1>8, <1>9, <1>10, <1>11, <1>12, <1>13, <1>14, <1>15, <1>16, <1>17, <1>18, <1>19,
     <1>20, <1>21, <1>22, <1>23, <1>24 DEF Next, Done

\* The segments of the file lie apart.
SegmentsApart == Apart(file.segments)

LEMMA ApartStays == SegmentsApart /\ [Next]_vars => SegmentsApart'
BY FileStays DEF SegmentsApart

\* PagesRequired, which the run loader_pages refutes for segments that touch,
\* holds when each starts behind the end of the one before it: the loop's
\* highest address is then the end of the last.
THEOREM PagesRequiredWhenApart == Spec /\ SegmentsApart => []PagesRequired
<1>1. KernelInv /\ SegmentsApart => PagesRequired
  <2> SUFFICES ASSUME KernelInv, SegmentsApart, pc = "segments", NEW i \in Loads
               PROVE  file.segments[i].vaddr - low_virt_addr + file.segments[i].memsz
                          <= num_kernel_pages * PageSize
    BY DEF PagesRequired
  <2> QED BY Extent DEF KernelInv, SegmentsApart
<1> QED BY LoaderInvInit, LoaderInvNext, KernelInvInit, KernelInvNext, ApartStays, <1>1, PTL DEF Spec

\* KernelLoaded for every memory and every kernel whose segments lie apart: all
\* of its bytes are in place, the zeros too, when the kernel is entered, and
\* no other page of memory was written.
THEOREM KernelAlwaysLoaded == Spec /\ SegmentsApart => []KernelLoaded
<1>1. KernelInv /\ MemoryInv => KernelLoaded
  <2> SUFFICES ASSUME KernelInv, MemoryInv, InKernel PROVE KernelLoaded
    BY DEF KernelLoaded
  <2>1. Loading /\ pc # "segments"
    BY DEF InKernel, Loading
  <2>2. file.segments \in Seq(Elf64_Phdr) /\ at > Len(file.segments) /\ at \in Nat
    BY <2>1, Extent DEF KernelInv, MemoryInv
  <2>3. ASSUME NEW i \in Loads PROVE Image(i)
    <3>1. i \in 1 .. Len(file.segments) /\ Len(file.segments) \in Nat
      BY <2>2 DEF Loads
    <3>2. i < at
      BY <2>2, <3>1
    <3> QED BY <2>1, <3>2 DEF MemoryInv
  <2>4. \A p \in Pages \ KernelPages : \A a \in Bytes(p) : memory[a] = Garbage
    BY DEF MemoryInv
  <2> QED BY <2>3, <2>4 DEF KernelLoaded, Image
<1> QED
  BY LoaderInvInit, LoaderInvNext, KernelInvInit, KernelInvNext, MemoryInvInit, MemoryInvNext,
     ApartStays, <1>1, PTL DEF Spec, SegmentsApart

-----------------------------------------------------------------------------
(* Boot memory: the sizes.                                                 *)

\* The numbers of the code.
LEMMA Sizes ==
    /\ LowPages \in Nat \ {0} /\ PAGE_ENTRY_COUNT \in Nat \ {0} /\ PAGE_POOL_THRESHOLD \in Nat \ {0}
    /\ FRAME_ORDERS \in Nat \ {0} /\ EntriesPerPage \in Nat \ {0} /\ BytesPerPage \in Nat \ {0}
    /\ Word \in Nat \ {0}
    /\ PoolPages \in Nat /\ EntryPages = 1
    /\ PT_MEM_RANGE = PAGE_ENTRY_COUNT /\ PD_MEM_RANGE \in Nat \ {0} /\ PDP_MEM_RANGE \in Nat
    /\ Word > PDP_MEM_RANGE
    /\ MaxBlock \in Nat \ {0}
<1>1. /\ LowPages \in Nat \ {0} /\ PAGE_ENTRY_COUNT \in Nat \ {0} /\ PAGE_POOL_THRESHOLD \in Nat \ {0}
      /\ FRAME_ORDERS \in Nat \ {0} /\ EntriesPerPage \in Nat \ {0} /\ BytesPerPage \in Nat \ {0}
      /\ Word \in Nat \ {0}
  BY SizeAssumption
<1>2. PoolPages \in Nat /\ EntryPages = 1
  BY <1>1 DEF PoolPages, EntryPages
<1>3. ASSUME NEW a \in Nat \ {0} PROVE a * a \in Nat \ {0} /\ a * a * a \in Nat
  OBVIOUS
<1>4. PT_MEM_RANGE = PAGE_ENTRY_COUNT /\ PD_MEM_RANGE \in Nat \ {0} /\ PDP_MEM_RANGE \in Nat
  BY <1>1, <1>3 DEF PT_MEM_RANGE, PD_MEM_RANGE, PDP_MEM_RANGE
<1>5. Word > PDP_MEM_RANGE
  BY SizeAssumption DEF PT_MEM_RANGE, PD_MEM_RANGE, PDP_MEM_RANGE
<1>6. MaxBlock \in Nat \ {0}
  <2>1. FRAME_ORDERS - 1 \in 0 .. FRAME_ORDERS - 1
    BY <1>1
  <2> QED BY <2>1, SizeAssumption DEF MaxBlock
<1> QED BY <1>1, <1>2, <1>4, <1>5, <1>6

\* The equation of the sum of the buddy maps, for the first n of them.
SummedUp(f, s, n) ==
    f = [t \in SUBSET (1 .. n) |-> IF t = {} THEN 0 ELSE f[t \ {Max(t)}] + s[Max(t)]]

LEMMA SummedUpExists ==
    ASSUME NEW s
    PROVE  \A n \in Nat : \E f : SummedUp(f, s, n)
<1> DEFINE S == {n \in Nat : \E f : SummedUp(f, s, n)}
<1>1. 0 \in S
  <2> DEFINE f == [t \in SUBSET (1 .. 0) |-> 0]
  <2>1. \A t \in SUBSET (1 .. 0) : t = {}
    OBVIOUS
  <2>2. SummedUp(f, s, 0)
    BY <2>1 DEF SummedUp
  <2> QED BY <2>2
<1>2. ASSUME NEW n \in Nat, n \in S PROVE n + 1 \in S
  <2>1. PICK f : SummedUp(f, s, n)
    BY <1>2
  <2> DEFINE e == n + 1
             T == SUBSET (1 .. n)
             U == SUBSET (1 .. e)
             g == [t \in U |-> IF e \in t THEN f[t \ {e}] + s[e] ELSE f[t]]
  <2>2. /\ \A t \in U : e \notin t => t \in T
        /\ \A t \in U : t \ {e} \in T
        /\ \A t \in T : t \in U /\ e \notin t
        /\ \A t \in U : e \in t => t # {} /\ \A x \in t : x \in Int /\ x <= e
        /\ e \in Int
    OBVIOUS
  <2>3. ASSUME NEW t \in U, e \in t PROVE Max(t) = e
    <3> HIDE DEF e, U
    <3> QED BY <2>2, <2>3, MaxIs
  <2>4. f = [t \in T |-> IF t = {} THEN 0 ELSE f[t \ {Max(t)}] + s[Max(t)]]
    BY <2>1 DEF SummedUp
  <2> HIDE DEF T, U, e
  <2>5. ASSUME NEW t \in U
        PROVE  g[t] = IF t = {} THEN 0 ELSE g[t \ {Max(t)}] + s[Max(t)]
    <3>1. CASE e \in t
      <4>1. Max(t) = e /\ t # {} /\ t \ {e} \in T
        BY <2>2, <2>3, <3>1
      <4>2. g[t \ {e}] = f[t \ {e}]
        BY <2>2, <4>1
      <4>3. g[t] = f[t \ {e}] + s[e]
        BY <3>1
      <4> QED BY <4>1, <4>2, <4>3
    <3>2. CASE e \notin t
      <4>1. t \in T /\ g[t] = f[t]
        BY <2>2, <3>2
      <4>2. t \ {Max(t)} \in T
        BY <4>1 DEF T
      <4>3. g[t \ {Max(t)}] = f[t \ {Max(t)}]
        BY <2>2, <4>2
      <4> QED BY <2>4, <4>1, <4>3
    <3> QED BY <3>1, <3>2
  <2>6. g = [t \in U |-> IF t = {} THEN 0 ELSE g[t \ {Max(t)}] + s[Max(t)]]
    BY <2>5
  <2>7. SummedUp(g, s, n + 1)
    BY <2>6 DEF SummedUp, U, e
  <2> QED BY <2>7
<1>3. Nat \subseteq S
  <2> HIDE DEF S
  <2> QED BY <1>1, <1>2, NatSetInduction
<1> QED BY <1>3

\* The sum of natural numbers is one.
LEMMA FoldedSum ==
    ASSUME NEW s \in Seq(Nat)
    PROVE  Total(s) \in Nat
<1> DEFINE N == Len(s)
           W == CHOOSE f : SummedUp(f, s, N)
           S == {n \in Nat : n <= N => W[1 .. n] \in Nat}
<1>1. N \in Nat /\ DOMAIN s = 1 .. N /\ \A j \in 1 .. N : s[j] \in Nat
  OBVIOUS
<1>2. SummedUp(W, s, N)
  BY <1>1, SummedUpExists
<1>3. Total(s) = W[1 .. N]
  BY <1>1 DEF Total, FoldLeft, MapThenFoldSet, SummedUp
<1> HIDE DEF W, N
<1>4. 0 \in S
  <2>1. 1 .. 0 = {} /\ {} \in SUBSET (1 .. N)
    OBVIOUS
  <2> QED BY <1>2, <2>1 DEF SummedUp
<1>5. ASSUME NEW n \in Nat, n \in S PROVE n + 1 \in S
  <2> SUFFICES ASSUME n + 1 <= N PROVE W[1 .. n + 1] \in Nat
    OBVIOUS
  <2> DEFINE t == 1 .. n + 1
  <2>1. n + 1 \in t /\ n + 1 \in Int /\ \A x \in t : x \in Int /\ x <= n + 1
    OBVIOUS
  <2>2. \A x : x \in t \ {n + 1} <=> x \in 1 .. n
    OBVIOUS
  <2>3. t \in SUBSET (1 .. N)
    BY <1>1
  <2>4. W[1 .. n] \in Nat /\ n + 1 \in 1 .. N
    BY <1>1, <1>5
  <2> HIDE DEF t
  <2>5. t \ {n + 1} = 1 .. n /\ t # {}
    BY <2>1, <2>2
  <2>6. Max(t) = n + 1
    BY <2>1, MaxIs
  <2>7. W[t] = W[1 .. n] + s[n + 1]
    BY <1>2, <2>3, <2>5, <2>6 DEF SummedUp
  <2> QED BY <1>1, <2>4, <2>7 DEF t
<1>6. Nat \subseteq S
  <2> HIDE DEF S
  <2> QED BY <1>4, <1>5, NatSetInduction
<1> QED BY <1>1, <1>3, <1>6

LEMMA CeilDivNat ==
    ASSUME NEW a \in Nat, NEW b \in Nat \ {0}
    PROVE  CeilDiv(a, b) \in Nat
<1>1. a + b - 1 \in Nat
  OBVIOUS
<1> QED BY <1>1, DivMod DEF CeilDiv

LEMMA FrameAllocatorPagesNat == memory_size \in Nat => FrameAllocatorPages \in Nat
<1> SUFFICES ASSUME memory_size \in Nat PROVE FrameAllocatorPages \in Nat
  OBVIOUS
<1>1. memory_size \div MaxBlock \in Nat
  BY Sizes, DivMod
<1>2. (memory_size \div MaxBlock) * 2 \in Nat
  BY <1>1
<1>3. \A o \in 1 .. FRAME_ORDERS - 1 : memory_size \div g_frame_order_sizes[o - 1] \in Nat
  <2> SUFFICES ASSUME NEW o \in 1 .. FRAME_ORDERS - 1 PROVE memory_size \div g_frame_order_sizes[o - 1] \in Nat
    OBVIOUS
  <2>1. o - 1 \in 0 .. FRAME_ORDERS - 1
    BY Sizes
  <2>2. g_frame_order_sizes[o - 1] \in Nat \ {0}
    BY <2>1, SizeAssumption
  <2> QED BY <2>2, DivMod
<1>4. BuddyMapBytes \in Seq(Nat)
  <2>1. FRAME_ORDERS - 1 \in Nat
    BY Sizes
  <2>2. BuddyMapBytes \in [1 .. FRAME_ORDERS - 1 -> Nat]
    BY <1>3 DEF BuddyMapBytes
  <2> QED BY <2>1, <2>2
<1>5. Total(BuddyMapBytes) \in Nat
  BY <1>4, FoldedSum
<1>6. CeilDiv((memory_size \div MaxBlock) * 2, EntriesPerPage) \in Nat
  BY <1>2, CeilDivNat, Sizes
<1>7. CeilDiv(Total(BuddyMapBytes), BytesPerPage) \in Nat
  BY <1>5, CeilDivNat, Sizes
<1> QED BY <1>6, <1>7 DEF FrameAllocatorPages

-----------------------------------------------------------------------------
(* Boot memory: how many tables there are.                                 *)

\* The number of directories the loop starts with.
Directories == AtLeastOne(TotalSize \div PD_MEM_RANGE)

\* The loop went on at every number below.
DirectoriesCounted ==
    /\ pd_count \in Nat /\ pd_count >= Directories
    /\ \A p \in Nat : Directories <= p /\ p < pd_count => Wrap(p * PD_MEM_RANGE - TotalSize) < p

\* What is below Word does not wrap, and what is a little below 0 becomes large.
LEMMA WrapIs ==
    ASSUME NEW n \in Int
    PROVE  /\ n \in 0 .. Word - 1 => Wrap(n) = n
           /\ n < 0 /\ n + Word >= 0 => Wrap(n) = n + Word
<1>1. Word \in Nat \ {0}
  BY Sizes
<1>2. ASSUME n \in 0 .. Word - 1 PROVE Wrap(n) = n
  BY <1>1, <1>2 DEF Wrap
<1>3. ASSUME n < 0, n + Word >= 0 PROVE Wrap(n) = n + Word
  BY <1>1, <1>3 DEF Wrap
<1> QED BY <1>2, <1>3

\* Either the size fills the directories exactly, and the loop adds one, or it
\* stops at once: all tables but those of the last directory are counted.
LEMMA TablesSuffice ==
    ASSUME TotalSize \in Nat, DirectoriesCounted, pt_count \in Nat,
           pt_count >= AtLeastOne(TotalSize \div PT_MEM_RANGE), pt_count < PDP_MEM_RANGE
    PROVE  pd_count >= 1 /\ PAGE_ENTRY_COUNT * (pd_count - 1) <= pt_count
<1> DEFINE T == TotalSize
           N == PAGE_ENTRY_COUNT
           R == PD_MEM_RANGE
           q == T \div R
           r == T % R
           K == Directories
<1>1. /\ N \in Nat \ {0} /\ R \in Nat \ {0} /\ T \in Nat /\ R = N * N
      /\ PDP_MEM_RANGE = R * N /\ Word \in Nat \ {0} /\ Word > R * N /\ PT_MEM_RANGE = N
  BY Sizes DEF PD_MEM_RANGE, PDP_MEM_RANGE, PT_MEM_RANGE
<1>2. q \in Nat /\ r \in 0 .. R - 1 /\ T = q * R + r
  BY <1>1, DivMod
<1>3. K = (IF q = 0 THEN 1 ELSE q)
  BY DEF Directories, AtLeastOne
<1>4. /\ pd_count \in Nat /\ pd_count >= K
      /\ \A p \in Nat : K <= p /\ p < pd_count => Wrap(p * R - T) < p
  BY DEF DirectoriesCounted
<1>5. T \div N \in Nat /\ pt_count >= T \div N /\ pt_count >= 1 /\ pt_count < R * N /\ pt_count \in Nat
  <2>1. T \div N \in Nat
    BY <1>1, DivMod
  <2> QED BY <1>1, <2>1 DEF AtLeastOne
<1>6. q * N <= T \div N
  <2> DEFINE a == T \div N
             b == T % N
  <2>1. a \in Nat /\ b \in 0 .. N - 1 /\ T = a * N + b
    BY <1>1, DivMod
  <2> HIDE DEF a, b
  <2>2. q * R = (q * N) * N
    <3>1. \A x, y \in Nat : x * (y * y) = (x * y) * y
      OBVIOUS
    <3> QED BY <1>1, <1>2, <3>1
  <2>3. q * N \in Nat
    BY <1>1, <1>2
  <2>4. ASSUME a < q * N PROVE FALSE
    <3> DEFINE c == q * N
    <3>1. c \in Nat /\ a + 1 <= c /\ c * N <= T
      BY <1>1, <1>2, <2>1, <2>2, <2>3, <2>4
    <3> HIDE DEF c
    <3>2. (a + 1) * N <= c * N
      BY <1>1, <2>1, <3>1, MulMonotone
    <3>3. (a + 1) * N = a * N + N /\ a * N \in Nat
      BY <1>1, <2>1
    <3> QED BY <1>1, <2>1, <3>1, <3>2, <3>3
  <2>5. a >= q * N
    BY <2>1, <2>3, <2>4
  <2> QED BY <2>5 DEF a
<1> HIDE DEF T, N, R, q, r, K
<1>7. N >= 2
  <2> SUFFICES ASSUME N = 1 PROVE FALSE
    BY <1>1
  <2> QED BY <1>1, <1>5
<1>8. q < R
  <2> SUFFICES ASSUME q >= R PROVE FALSE
    BY <1>1, <1>2
  <2>1. R * N <= q * N
    BY <1>1, <1>2, MulMonotone
  <2> QED BY <1>1, <1>2, <1>5, <1>6, <2>1
<1>9. 2 * R <= R * N /\ R * N \in Nat
  <2>1. 2 * R <= N * R
    BY <1>1, <1>7, MulMonotone
  <2> QED BY <1>1, <2>1
<1>10. CASE pd_count = K
  <2>1. CASE q = 0
    <3>1. pd_count = 1
      BY <1>3, <1>10, <2>1
    <3> QED BY <1>1, <1>5, <3>1 DEF N
  <2>2. CASE q # 0
    <3>1. pd_count = q /\ q >= 1
      BY <1>2, <1>3, <1>10, <2>2
    <3>2. (q - 1) * N <= q * N /\ (q - 1) * N = N * (q - 1) /\ q * N \in Nat /\ (q - 1) * N \in Nat
      BY <1>1, <1>2, <3>1, MulMonotone
    <3> QED BY <1>1, <1>5, <1>6, <3>1, <3>2 DEF N
  <2> QED BY <2>1, <2>2
<1>11. CASE pd_count # K
  <2>1. K \in Nat /\ K >= 1 /\ K < pd_count
    BY <1>2, <1>3, <1>4, <1>11
  <2>2. Wrap(K * R - T) < K
    BY <1>4, <2>1
  <2>3. q # 0
    <3> SUFFICES ASSUME q = 0 PROVE FALSE
      OBVIOUS
    <3>1. K = 1 /\ T = r /\ R - T \in 0 .. Word - 1 /\ R - T >= 1
      BY <1>1, <1>2, <1>3, <1>9
    <3>2. Wrap(R - T) = R - T
      BY <1>1, <1>2, <3>1, WrapIs
    <3>3. K * R = R
      BY <1>1, <3>1
    <3> QED BY <1>1, <1>2, <2>2, <3>1, <3>2, <3>3
  <2>4. K = q /\ K < R
    BY <1>3, <1>8, <2>3
  <2>5. r = 0
    <3> SUFFICES ASSUME r # 0 PROVE FALSE
      OBVIOUS
    <3>1. K * R - T = 0 - r /\ 0 - r \in Int /\ 0 - r < 0 /\ 0 - r + Word >= 0
      <4>1. K * R \in Nat /\ T = K * R + r
        BY <1>1, <1>2, <2>1, <2>4
      <4> QED BY <1>1, <1>2, <1>9, <4>1
    <3>2. Wrap(0 - r) = 0 - r + Word
      BY <3>1, WrapIs
    <3> QED BY <1>1, <1>2, <1>9, <2>1, <2>2, <2>4, <3>1, <3>2
  <2>6. pd_count = K + 1
    <3> SUFFICES ASSUME K + 1 < pd_count PROVE FALSE
      BY <1>4, <2>1
    <3>1. Wrap((K + 1) * R - T) < K + 1
      BY <1>4, <2>1
    <3>2. (K + 1) * R - T = R
      <4>1. K * R \in Nat /\ (K + 1) * R = K * R + R /\ T = K * R + 0
        BY <1>1, <1>2, <2>1, <2>4, <2>5
      <4> QED BY <1>1, <4>1
    <3>3. Wrap(R) = R
      BY <1>1, <1>9, WrapIs
    <3> QED BY <1>1, <2>1, <2>4, <3>1, <3>2, <3>3
  <2>7. N * (pd_count - 1) = q * N /\ q * N \in Nat /\ pd_count >= 1
    BY <1>1, <1>2, <2>1, <2>4, <2>6
  <2> QED BY <1>5, <1>6, <2>7 DEF N
<1> QED BY <1>10, <1>11

-----------------------------------------------------------------------------
(* Boot memory: the map.                                                   *)

End(d) == d.physical_start + d.num_pages

LEMMA DescriptorFields ==
    ASSUME NEW d \in Descriptor
    PROVE  /\ d.physical_start \in Nat /\ d.num_pages \in Nat
           /\ d.type \in Usable \cup Reclaimed \cup {"loader code", "reserved"}
           /\ d = [type |-> d.type, physical_start |-> d.physical_start, num_pages |-> d.num_pages]
BY DEF Descriptor

LEMMA DescriptorIs ==
    ASSUME NEW m \in Seq(Descriptor), NEW k \in 1 .. Len(m)
    PROVE  /\ m[k].physical_start \in Nat /\ m[k].num_pages \in Nat /\ End(m[k]) \in Nat
           /\ m[k].physical_start <= End(m[k])
           /\ m[k].type \in Usable \cup Reclaimed \cup {"loader code", "reserved"}
<1>1. m[k] \in Descriptor
  OBVIOUS
<1>2. m[k].physical_start \in Nat /\ m[k].num_pages \in Nat
      /\ m[k].type \in Usable \cup Reclaimed \cup {"loader code", "reserved"}
  BY <1>1, DescriptorFields
<1>3. End(m[k]) = m[k].physical_start + m[k].num_pages
  BY DEF End
<1>4. \A a, b \in Nat : a + b \in Nat /\ a <= a + b
  OBVIOUS
<1>5. End(m[k]) \in Nat /\ m[k].physical_start <= End(m[k])
  BY <1>2, <1>3, <1>4
<1> QED BY <1>2, <1>5

\* The descriptors of a map lie one behind the other.
LEMMA MapOrdered ==
    ASSUME NEW m \in MemoryMaps
    PROVE  /\ m \in Seq(Descriptor) /\ Len(m) >= 1 /\ m[1].physical_start = 0
           /\ \A k, l \in 1 .. Len(m) : k < l => End(m[k]) <= m[l].physical_start
<1>1. /\ m \in Seq(Descriptor) /\ m # <<>> /\ m[1].physical_start = 0
      /\ \A k \in 1 .. Len(m) - 1 : End(m[k]) <= m[k + 1].physical_start
  BY MapAssumption DEF End
<1>2. Len(m) \in Nat /\ Len(m) >= 1
  BY <1>1
<1>3. \A k \in 1 .. Len(m) : m[k].physical_start \in Nat /\ m[k].num_pages \in Nat /\ End(m[k]) \in Nat
                             /\ m[k].physical_start <= End(m[k])
  BY <1>1, DescriptorIs
<1> DEFINE Far(n) == \A k, l \in 1 .. Len(m) : k < l /\ l <= k + n + 1 => End(m[k]) <= m[l].physical_start
           S == {n \in Nat : Far(n)}
<1>4. 0 \in S
  <2> SUFFICES Far(0)
    OBVIOUS
  <2> SUFFICES ASSUME NEW k \in 1 .. Len(m), NEW l \in 1 .. Len(m), k < l, l <= k + 0 + 1
               PROVE  End(m[k]) <= m[l].physical_start
    OBVIOUS
  <2>1. l = k + 1 /\ k \in 1 .. Len(m) - 1
    BY <1>2
  <2> QED BY <1>1, <2>1
<1>5. ASSUME NEW n \in Nat, n \in S PROVE n + 1 \in S
  <2>0. Far(n)
    BY <1>5
  <2> SUFFICES Far(n + 1)
    <3> HIDE DEF Far
    <3> QED OBVIOUS
  <2> SUFFICES ASSUME NEW k \in 1 .. Len(m), NEW l \in 1 .. Len(m), k < l, l <= k + (n + 1) + 1
               PROVE  End(m[k]) <= m[l].physical_start
    OBVIOUS
  <2>1. CASE l <= k + n + 1
    BY <2>0, <2>1
  <2>2. CASE l = k + n + 2
    <3> DEFINE j == l - 1
    <3>1. j \in 1 .. Len(m) - 1 /\ j \in 1 .. Len(m) /\ k < j /\ j <= k + n + 1 /\ j + 1 = l
      BY <1>2, <2>2
    <3> HIDE DEF j
    <3>2. End(m[k]) <= m[j].physical_start
      BY <2>0, <3>1
    <3>3. End(m[j]) <= m[l].physical_start
      BY <1>1, <3>1
    <3>4. m[j].physical_start \in Nat /\ End(m[j]) \in Nat /\ m[j].physical_start <= End(m[j])
          /\ End(m[k]) \in Nat /\ m[l].physical_start \in Nat
      BY <1>3, <3>1
    <3> QED BY <3>2, <3>3, <3>4
  <2> QED BY <2>1, <2>2
<1>6. Nat \subseteq S
  <2> HIDE DEF S
  <2> QED BY <1>4, <1>5, NatSetInduction
<1>7. ASSUME NEW k \in 1 .. Len(m), NEW l \in 1 .. Len(m), k < l PROVE End(m[k]) <= m[l].physical_start
  <2>1. l <= k + Len(m) + 1
    BY <1>2
  <2>2. Len(m) \in S
    <3> HIDE DEF S
    <3> QED BY <1>2, <1>6
  <2>3. Far(Len(m))
    BY <2>2
  <2> QED BY <1>7, <2>1, <2>3
<1> QED BY <1>1, <1>2, <1>7

\* The map v is the map u after some pages were taken from the front of usable descriptors.
Cut(u, v) ==
    /\ v \in Seq(Descriptor) /\ Len(v) = Len(u)
    /\ \A k \in 1 .. Len(u) :
           /\ v[k].type = u[k].type
           /\ v[k].physical_start >= u[k].physical_start
           /\ End(v[k]) = End(u[k])
           /\ v[k].physical_start # u[k].physical_start => k # 1 /\ u[k].type \in Usable

\* The pages that were taken from a descriptor.
Taken(u, v, k) == u[k].physical_start .. v[k].physical_start - 1

\* Taking pages from a descriptor that has them.
LEMMA TakeFromIs ==
    ASSUME uefi_memory_map \in Seq(Descriptor), NEW k \in 1 .. Len(uefi_memory_map), NEW n \in Nat,
           n <= uefi_memory_map[k].num_pages, TakeFrom(k, n)
    PROVE  /\ uefi_memory_map' \in Seq(Descriptor) /\ Len(uefi_memory_map') = Len(uefi_memory_map)
           /\ \A j \in 1 .. Len(uefi_memory_map) : j # k => uefi_memory_map'[j] = uefi_memory_map[j]
           /\ uefi_memory_map'[k].type = uefi_memory_map[k].type
           /\ uefi_memory_map'[k].physical_start = uefi_memory_map[k].physical_start + n
           /\ End(uefi_memory_map'[k]) = End(uefi_memory_map[k])
<1> DEFINE v == uefi_memory_map
           d == v[k]
           e == [type |-> d.type, physical_start |-> d.physical_start + n, num_pages |-> d.num_pages - n]
           w == [v EXCEPT ![k] = e]
<1>1. d \in Descriptor /\ v \in Seq(Descriptor) /\ k \in 1 .. Len(v)
  OBVIOUS
<1>2. /\ d = [type |-> d.type, physical_start |-> d.physical_start, num_pages |-> d.num_pages]
      /\ d.physical_start \in Nat /\ d.num_pages \in Nat
      /\ d.type \in Usable \cup Reclaimed \cup {"loader code", "reserved"}
  BY <1>1, DescriptorFields
<1>3. e \in Descriptor
  <2>1. \A a, b \in Nat : a + b \in Nat /\ (b <= a => a - b \in Nat)
    OBVIOUS
  <2>2. d.num_pages - n \in Nat /\ d.physical_start + n \in Nat
    BY <1>2, <2>1
  <2> QED BY <1>2, <2>2 DEF Descriptor
<1>4. uefi_memory_map' = w
  BY DEF TakeFrom
<1>5. w \in Seq(Descriptor) /\ Len(w) = Len(v) /\ w[k] = e /\ \A j \in 1 .. Len(v) : j # k => w[j] = v[j]
  <2> HIDE DEF e, d
  <2> QED BY <1>1, <1>3
<1>6. End(e) = End(d)
  <2>1. \A a, b, c \in Nat : (a + c) + (b - c) = a + b
    OBVIOUS
  <2> QED BY <1>2, <2>1 DEF End
<1>7. e.type = d.type /\ e.physical_start = d.physical_start + n
  OBVIOUS
<1> HIDE DEF w, e
<1> QED BY <1>4, <1>5, <1>6, <1>7

\* The cut goes on.
LEMMA CutMore ==
    ASSUME uefi_map \in MemoryMaps, Cut(uefi_map, uefi_memory_map), NEW pages \in Nat,
           Fitting(pages) # {}, TakeFrom(Min(Fitting(pages)), pages), uefi_map' = uefi_map
    PROVE  /\ Cut(uefi_map, uefi_memory_map)'
           /\ \E k \in 1 .. Len(uefi_map) :
                  /\ k # 1 /\ uefi_map[k].type \in Usable
                  /\ k = Min(Fitting(pages))
                  /\ uefi_memory_map[k].physical_start \in Nat \ {0}
                  /\ uefi_memory_map[k].physical_start >= uefi_map[k].physical_start
                  /\ uefi_memory_map'[k].physical_start = uefi_memory_map[k].physical_start + pages
                  /\ \A j \in 1 .. Len(uefi_map) : j # k => uefi_memory_map'[j] = uefi_memory_map[j]
<1> DEFINE u == uefi_map
           v == uefi_memory_map
           F == Fitting(pages)
           k == Min(F)
<1>1. /\ v \in Seq(Descriptor) /\ Len(v) = Len(u) /\ DOMAIN v = 1 .. Len(v)
      /\ \A j \in 1 .. Len(u) :
           /\ v[j].type = u[j].type
           /\ v[j].physical_start >= u[j].physical_start
           /\ End(v[j]) = End(u[j])
           /\ v[j].physical_start # u[j].physical_start => j # 1 /\ u[j].type \in Usable
  BY DEF Cut
<1>2. F \in SUBSET Nat /\ F \subseteq 1 .. Len(v)
  BY <1>1 DEF Fitting
<1>3. k \in F
  BY <1>2, MinOf
<1>4. k \in 1 .. Len(v) /\ v[k].type \in Usable /\ v[k].physical_start >= LowPages /\ v[k].num_pages >= pages
  BY <1>2, <1>3 DEF Fitting
<1>5. u \in Seq(Descriptor) /\ u[1].physical_start = 0 /\ Len(u) >= 1
  BY MapOrdered
<1>6. v[k].physical_start \in Nat /\ v[k].num_pages \in Nat
  BY <1>1, <1>4, DescriptorIs
<1>7. v[k].physical_start # 0
  BY <1>4, <1>6, Sizes
<1> HIDE DEF k, F
<1>8. k # 1
  <2> SUFFICES ASSUME k = 1 PROVE FALSE
    OBVIOUS
  <2>1. v[1].physical_start = u[1].physical_start
    BY <1>1, <1>4
  <2> QED BY <1>5, <1>7, <2>1
<1>9. TakeFrom(k, pages)
  BY DEF k, F
<1>10. /\ v' \in Seq(Descriptor) /\ Len(v') = Len(v)
       /\ \A j \in 1 .. Len(v) : j # k => v'[j] = v[j]
       /\ v'[k].type = v[k].type
       /\ v'[k].physical_start = v[k].physical_start + pages
       /\ End(v'[k]) = End(v[k])
  BY <1>1, <1>4, <1>6, <1>9, TakeFromIs
<1>11. k \in 1 .. Len(u) /\ u[k].type \in Usable
  BY <1>1, <1>4
<1>12. \A j \in 1 .. Len(u) : u[j].physical_start \in Nat
  BY <1>5, DescriptorIs
<1>13. ASSUME NEW j \in 1 .. Len(u)
       PROVE  /\ v'[j].type = u[j].type
              /\ v'[j].physical_start >= u[j].physical_start
              /\ End(v'[j]) = End(u[j])
              /\ v'[j].physical_start # u[j].physical_start => j # 1 /\ u[j].type \in Usable
  <2>1. CASE j # k
    BY <1>1, <1>10, <2>1
  <2>2. CASE j = k
    BY <1>1, <1>4, <1>6, <1>8, <1>10, <1>11, <1>12, <2>2
  <2> QED BY <2>1, <2>2
<1>14. Cut(u, v)'
  BY <1>1, <1>10, <1>13 DEF Cut
<1> QED BY <1>1, <1>6, <1>7, <1>8, <1>10, <1>11, <1>14 DEF k, F

-----------------------------------------------------------------------------
(* Boot memory: what boot keeps.                                           *)

FirstSteps == {"scan", "no kernel", "frame allocator"}
TableSteps == {"populate", "map", "no table", "remove", "failed to remove", "reclaim", "running"}
CountSteps == {"count directories", "count tables", "allocate tables", "out of memory"}

KernelOK == \E k \in 1 .. Len(uefi_map) : /\ uefi_map[k].type = "loader code"
                                          /\ kernel = PhysRange(uefi_map[k].physical_start, uefi_map[k].num_pages)

\* The range was taken from some descriptor.
TakenWhole(r) == \E k \in 1 .. Len(uefi_map) : Frames(r) \subseteq Taken(uefi_map, uefi_memory_map, k)

KeptInv ==
    /\ uefi_map \in MemoryMaps /\ Cut(uefi_map, uefi_memory_map)
    /\ step \in FirstSteps \cup CountSteps \cup TableSteps
    /\ memory_size \in Nat
    /\ step # "scan" => memory_size = End(uefi_map[Len(uefi_map)])
    /\ {kernel, frame_allocator, table_pages} \subseteq PhysRanges
    /\ step \notin {"scan", "no kernel"} => KernelOK
    /\ step \in FirstSteps => uefi_memory_map = uefi_map /\ frame_allocator = Nothing
    /\ step \notin TableSteps => table_pages = Nothing
    /\ step \in TableSteps => TakenWhole(table_pages)
    /\ FrameAllocatorPlaced =>
           TakenWhole(frame_allocator) /\ Frames(frame_allocator) \cap Frames(table_pages) = {}
    /\ \A k \in 1 .. Len(uefi_map) :
           Taken(uefi_map, uefi_memory_map, k) \subseteq Frames(frame_allocator) \cup Frames(table_pages)

LEMMA NothingFrames == Nothing \in PhysRanges /\ Frames(Nothing) = {} /\ Nothing.start = 0
BY DEF Nothing, PhysRange, PhysRanges, Frames

LEMMA KeptInit == BootInit => KeptInv
<1> SUFFICES ASSUME BootInit PROVE KeptInv
  OBVIOUS
<1>1. uefi_map \in MemoryMaps /\ uefi_memory_map = uefi_map /\ step = "scan" /\ memory_size = 0
      /\ kernel = Nothing /\ frame_allocator = Nothing /\ table_pages = Nothing
  BY DEF BootInit
<1>2. uefi_map \in Seq(Descriptor)
  BY <1>1, MapOrdered
<1>3. \A k \in 1 .. Len(uefi_map) : uefi_map[k].physical_start \in Nat
  BY <1>2, DescriptorIs
<1>4. Cut(uefi_map, uefi_memory_map)
  BY <1>1, <1>2, <1>3 DEF Cut
<1>5. \A k \in 1 .. Len(uefi_map) : Taken(uefi_map, uefi_memory_map, k) = {}
  BY <1>1, <1>3 DEF Taken
<1> QED BY <1>1, <1>4, <1>5, NothingFrames DEF KeptInv, FirstSteps, TableSteps, FrameAllocatorPlaced

LEMMA MaxBelow ==
    ASSUME NEW n \in Nat, NEW S \in SUBSET (1 .. n), S # {}
    PROVE  Max(S) \in S
<1> DEFINE D == {n - k : k \in S}
<1>1. D \in SUBSET Nat /\ D # {}
  <2>1. \A k \in S : n - k \in Nat
    OBVIOUS
  <2> QED BY <2>1
<1>2. Min(D) \in D /\ \A y \in D : Min(D) <= y
  BY <1>1, MinOf
<1>3. PICK k \in S : n - k = Min(D)
  BY <1>2
<1>4. \A j \in S : n - k <= n - j
  BY <1>2, <1>3
<1>5. k \in Int /\ \A j \in S : j \in Int /\ j <= k
  BY <1>4
<1> QED BY <1>5, MaxIs

LEMMA KeptScan ==
    ASSUME KeptInv, ScanMemoryMap
    PROVE  KeptInv'
<1> DEFINE u == uefi_map
           v == uefi_memory_map
           ends == {d.physical_start + d.num_pages : d \in ToSet(v)}
           code == {k \in DOMAIN v : v[k].type = "loader code"}
           image == v[Max(code)]
           L == Len(u)
<1>1. /\ step = "scan" /\ memory_size' = Max(ends) /\ v' = v /\ u' = u
      /\ frame_allocator' = frame_allocator /\ table_pages' = table_pages
      /\ step' \in {"no kernel", "frame allocator"}
      /\ kernel' = kernel \/ (code # {} /\ kernel' = PhysRange(image.physical_start, image.num_pages))
      /\ step' = "frame allocator" => code # {} /\ kernel' = PhysRange(image.physical_start, image.num_pages)
  BY DEF ScanMemoryMap, At, Goto, tableVars
<1>2. /\ u \in MemoryMaps /\ v = u /\ frame_allocator = Nothing /\ table_pages = Nothing
      /\ kernel \in PhysRanges
      /\ Cut(u, v)
      /\ \A k \in 1 .. Len(u) : Taken(u, v, k) \subseteq Frames(frame_allocator) \cup Frames(table_pages)
  BY <1>1 DEF KeptInv, FirstSteps, TableSteps
<1>3. /\ u \in Seq(Descriptor) /\ L \in Nat /\ L >= 1
      /\ \A k, l \in 1 .. L : k < l => End(u[k]) <= u[l].physical_start
  BY <1>2, MapOrdered
<1>4. \A k \in 1 .. L : u[k].physical_start \in Nat /\ u[k].num_pages \in Nat /\ End(u[k]) \in Nat
                        /\ u[k].physical_start <= End(u[k])
  BY <1>3, DescriptorIs
<1>5. Max(ends) = End(u[L])
  <2>1. \A x : x \in ends <=> \E k \in 1 .. L : x = End(u[k])
    BY <1>2, <1>3 DEF ToSet, End
  <2> HIDE DEF ends
  <2>2. End(u[L]) \in ends /\ End(u[L]) \in Int
    BY <1>3, <1>4, <2>1
  <2>3. ASSUME NEW x \in ends PROVE x \in Int /\ x <= End(u[L])
    <3>1. PICK k \in 1 .. L : x = End(u[k])
      BY <2>1, <2>3
    <3>2. CASE k = L
      BY <1>4, <3>1, <3>2
    <3>3. CASE k < L
      <4>1. End(u[k]) <= u[L].physical_start /\ L \in 1 .. L
        BY <1>3, <3>1, <3>3
      <4> QED BY <1>4, <3>1, <4>1
    <3> QED BY <3>1, <3>2, <3>3
  <2> QED BY <2>2, <2>3, MaxIs
<1>6. ASSUME code # {} PROVE Max(code) \in 1 .. L /\ u[Max(code)].type = "loader code"
  <2>1. DOMAIN v = 1 .. L /\ v = u
    BY <1>2, <1>3
  <2>2. \A k \in code : k \in 1 .. L /\ u[k].type = "loader code"
    BY <2>1
  <2> HIDE DEF code, L
  <2>3. Max(code) \in code
    BY <1>3, <1>6, <2>2, MaxBelow
  <2> QED BY <2>2, <2>3
<1>7. memory_size' = End(u[L]) /\ memory_size' \in Nat
  <2>1. L \in 1 .. L
    BY <1>3
  <2> HIDE DEF L, ends
  <2> QED BY <1>1, <1>4, <1>5, <2>1
<1>8. step' = "frame allocator" => KernelOK'
  BY <1>1, <1>2, <1>6 DEF KernelOK
<1>9. kernel' \in PhysRanges
  <2>1. CASE kernel' = kernel
    BY <1>2, <2>1
  <2>2. CASE code # {} /\ kernel' = PhysRange(image.physical_start, image.num_pages)
    <3>1. image.physical_start \in Nat /\ image.num_pages \in Nat
      <4> HIDE DEF code
      <4> QED BY <1>2, <1>4, <1>6, <2>2
    <3> HIDE DEF image
    <3> QED BY <2>2, <3>1 DEF PhysRange, PhysRanges
  <2> HIDE DEF code, image
  <2> QED BY <1>1, <2>1, <2>2
<1>10. /\ Cut(u, v)'
       /\ \A k \in 1 .. Len(u') : Taken(u, v, k)' \subseteq Frames(frame_allocator') \cup Frames(table_pages')
  BY <1>1, <1>2
<1> QED BY <1>1, <1>2, <1>7, <1>8, <1>9, <1>10, NothingFrames
        DEF KeptInv, FirstSteps, TableSteps, CountSteps, FrameAllocatorPlaced

\* The frames of the descriptors do not overlap.
LEMMA DescriptorsApart ==
    ASSUME NEW m \in MemoryMaps, NEW k \in 1 .. Len(m), NEW l \in 1 .. Len(m), NEW x \in Int,
           m[k].physical_start <= x, x < End(m[k]), m[l].physical_start <= x, x < End(m[l])
    PROVE  k = l
<1>1. /\ m \in Seq(Descriptor) /\ Len(m) \in Nat
      /\ \A i, j \in 1 .. Len(m) : i < j => End(m[i]) <= m[j].physical_start
  BY MapOrdered
<1>2. /\ m[k].physical_start \in Nat /\ End(m[k]) \in Nat
      /\ m[l].physical_start \in Nat /\ End(m[l]) \in Nat
  BY <1>1, DescriptorIs
<1>3. ~(k < l)
  BY <1>1, <1>2
<1>4. ~(l < k)
  BY <1>1, <1>2
<1> QED BY <1>1, <1>3, <1>4

\* The numbers of a map and of what is left of it.
LEMMA CutNumbers ==
    ASSUME NEW m \in MemoryMaps, NEW v, Cut(m, v)
    PROVE  /\ Len(v) = Len(m) /\ Len(m) \in Nat /\ Len(m) >= 1
           /\ \A k \in 1 .. Len(m) :
                 /\ m[k].physical_start \in Nat /\ v[k].physical_start \in Nat /\ End(m[k]) \in Nat
                 /\ m[k].physical_start <= v[k].physical_start /\ v[k].physical_start <= End(m[k])
                 /\ End(v[k]) = End(m[k]) /\ v[k].type = m[k].type
                 /\ v[k].num_pages \in Nat
                 /\ v[k].physical_start # m[k].physical_start => k # 1 /\ m[k].type \in Usable
<1>1. /\ v \in Seq(Descriptor) /\ Len(v) = Len(m)
      /\ \A k \in 1 .. Len(m) : 
           /\ v[k].type = m[k].type
           /\ v[k].physical_start >= m[k].physical_start
           /\ End(v[k]) = End(m[k])
           /\ v[k].physical_start # m[k].physical_start => k # 1 /\ m[k].type \in Usable
  BY DEF Cut
<1>2. m \in Seq(Descriptor) /\ Len(m) >= 1
  BY MapOrdered
<1>3. Len(m) \in Nat
  BY <1>2
<1>4. ASSUME NEW k \in 1 .. Len(m)
      PROVE  /\ m[k].physical_start \in Nat /\ v[k].physical_start \in Nat /\ End(m[k]) \in Nat
             /\ v[k].physical_start <= End(v[k]) /\ v[k].num_pages \in Nat
  <2>1. m[k].physical_start \in Nat /\ End(m[k]) \in Nat
    BY <1>2, DescriptorIs
  <2>2. v[k].physical_start \in Nat /\ v[k].physical_start <= End(v[k]) /\ v[k].num_pages \in Nat
    BY <1>1, DescriptorIs
  <2> QED BY <2>1, <2>2
<1>5. ASSUME NEW k \in 1 .. Len(m)
      PROVE  m[k].physical_start <= v[k].physical_start /\ v[k].physical_start <= End(m[k])
  BY <1>1, <1>4
<1> QED BY <1>1, <1>2, <1>3, <1>4, <1>5

LEMMA PhysRangeIs ==
    ASSUME NEW a \in Nat, NEW n \in Nat
    PROVE  /\ PhysRange(a, n) \in PhysRanges /\ PhysRange(a, n).start = a /\ PhysRange(a, n).pages = n
           /\ Frames(PhysRange(a, n)) = a .. a + n - 1
BY DEF PhysRange, PhysRanges, Frames

\* The steps that take nothing.
LEMMA KeptSame ==
    ASSUME KeptInv,
           UNCHANGED <<uefi_map, uefi_memory_map, memory_size, kernel, frame_allocator, table_pages>>,
           \/ step' = step
           \/ step \in CountSteps /\ step' \in CountSteps
           \/ step \in TableSteps /\ step' \in TableSteps
    PROVE  KeptInv'
<1>1. /\ uefi_map' = uefi_map /\ uefi_memory_map' = uefi_memory_map /\ memory_size' = memory_size
      /\ kernel' = kernel /\ frame_allocator' = frame_allocator /\ table_pages' = table_pages
  OBVIOUS
<1>2. /\ Cut(uefi_map, uefi_memory_map)' = Cut(uefi_map, uefi_memory_map)
      /\ KernelOK' = KernelOK /\ TakenWhole(table_pages)' = TakenWhole(table_pages)
      /\ TakenWhole(frame_allocator)' = TakenWhole(frame_allocator)
      /\ FrameAllocatorPlaced' = FrameAllocatorPlaced
  BY <1>1 DEF KernelOK, TakenWhole, FrameAllocatorPlaced
<1>3. CASE step' = step
  BY <1>1, <1>2, <1>3 DEF KeptInv
<1>4. CASE step \in CountSteps /\ step' \in CountSteps
  BY <1>1, <1>2, <1>4 DEF KeptInv, CountSteps, TableSteps, FirstSteps
<1>5. CASE step \in TableSteps /\ step' \in TableSteps
  BY <1>1, <1>2, <1>5 DEF KeptInv, CountSteps, TableSteps, FirstSteps
<1> QED BY <1>3, <1>4, <1>5

LEMMA KeptFrameAllocator ==
    ASSUME KeptInv, AllocFrameAllocatorMemory
    PROVE  KeptInv'
<1> DEFINE u == uefi_map
           v == uefi_memory_map
           P == FrameAllocatorPages
<1>1. /\ step = "frame allocator" /\ step' = "count directories"
      /\ u' = u /\ memory_size' = memory_size /\ kernel' = kernel /\ table_pages' = table_pages
  BY DEF AllocFrameAllocatorMemory, At, Goto, tableVars
<1>2. /\ u \in MemoryMaps /\ v = u /\ Cut(u, v) /\ memory_size \in Nat /\ table_pages = Nothing
      /\ memory_size = End(u[Len(u)]) /\ kernel \in PhysRanges /\ KernelOK
  BY <1>1 DEF KeptInv, FirstSteps, TableSteps
<1>3. P \in Nat
  BY <1>2, FrameAllocatorPagesNat
<1>4. KernelOK' /\ memory_size' = End(u'[Len(u')]) /\ Frames(table_pages)' = {} /\ table_pages' = Nothing
  BY <1>1, <1>2, NothingFrames DEF KernelOK
<1>5. /\ Len(u) \in Nat
      /\ \A k \in 1 .. Len(u) : u[k].physical_start \in Nat /\ Taken(u, u, k) = {}
  BY <1>2, CutNumbers DEF Taken
<1>6. CASE Fitting(P) = {}
  <2>1. frame_allocator' = PhysRange(0, P) /\ v' = v
    BY <1>6 DEF AllocFrameAllocatorMemory
  <2>2. frame_allocator' \in PhysRanges /\ ~FrameAllocatorPlaced'
    BY <1>3, <2>1, PhysRangeIs DEF FrameAllocatorPlaced
  <2>3. Cut(u, v)' /\ \A k \in 1 .. Len(u) : Taken(u, v, k)' = {}
    BY <1>1, <1>2, <1>5, <2>1
  <2> QED BY <1>1, <1>2, <1>4, <2>2, <2>3, NothingFrames DEF KeptInv, FirstSteps, TableSteps, CountSteps
<1>7. CASE Fitting(P) # {}
  <2>1. /\ frame_allocator' = PhysRange(v[Min(Fitting(P))].physical_start, P)
        /\ TakeFrom(Min(Fitting(P)), P)
    BY <1>7 DEF AllocFrameAllocatorMemory
  <2>2. /\ Cut(u, v)'
        /\ \E k \in 1 .. Len(u) :
                  /\ k # 1 /\ u[k].type \in Usable
                  /\ k = Min(Fitting(P))
                  /\ v[k].physical_start \in Nat \ {0}
                  /\ v[k].physical_start >= u[k].physical_start
                  /\ v'[k].physical_start = v[k].physical_start + P
                  /\ \A j \in 1 .. Len(u) : j # k => v'[j] = v[j]
    <3> HIDE DEF P
    <3> QED BY <1>1, <1>2, <1>3, <1>7, <2>1, CutMore
  <2>3. PICK k \in 1 .. Len(u) :
                  /\ k = Min(Fitting(P))
                  /\ v[k].physical_start \in Nat \ {0}
                  /\ v'[k].physical_start = v[k].physical_start + P
                  /\ \A j \in 1 .. Len(u) : j # k => v'[j] = v[j]
    <3> HIDE DEF P
    <3> QED BY <2>2
  <2>4. frame_allocator' = PhysRange(v[k].physical_start, P)
    BY <2>1, <2>3
  <2> HIDE DEF P
  <2>5. /\ frame_allocator' \in PhysRanges
        /\ Frames(frame_allocator)' = v[k].physical_start .. v[k].physical_start + P - 1
    BY <1>3, <2>3, <2>4, PhysRangeIs
  <2>6. Taken(u, v, k)' = Frames(frame_allocator)'
    <3>1. Taken(u, v, k)' = u[k].physical_start .. (v[k].physical_start + P) - 1
      BY <1>1, <2>3 DEF Taken
    <3>2. u[k].physical_start = v[k].physical_start
      BY <1>2
    <3>3. Frames(frame_allocator)' = v[k].physical_start .. (v[k].physical_start + P) - 1
      <4>1. (v[k].physical_start + P) - 1 = v[k].physical_start + P - 1
        BY <1>3, <2>3
      <4> QED BY <2>5, <4>1, Zenon
    <3> QED BY <3>1, <3>2, <3>3, Zenon
  <2>7. \A j \in 1 .. Len(u) : j # k => Taken(u, v, j)' = {}
    BY <1>1, <1>2, <1>5, <2>3 DEF Taken
  <2>8. TakenWhole(frame_allocator)'
    BY <1>1, <2>6 DEF TakenWhole
  <2>9. \A j \in 1 .. Len(u') : Taken(u, v, j)' \subseteq Frames(frame_allocator)' \cup Frames(table_pages)'
    BY <1>1, <2>6, <2>7
  <2>10. Frames(frame_allocator)' \cap Frames(table_pages)' = {}
    BY <1>4
  <2> QED BY <1>1, <1>2, <1>4, <2>2, <2>5, <2>8, <2>9, <2>10, NothingFrames
          DEF KeptInv, FirstSteps, TableSteps, CountSteps
<1> QED BY <1>6, <1>7

LEMMA KeptTables ==
    ASSUME KeptInv, pd_count \in Nat, pt_count \in Nat, AllocTablePages
    PROVE  KeptInv'
<1> DEFINE u == uefi_map
           v == uefi_memory_map
           P == PagesToAllocate
           F == Fitting(P)
<1>1. /\ step = "allocate tables" /\ step' = "populate"
      /\ u' = u /\ memory_size' = memory_size /\ kernel' = kernel /\ frame_allocator' = frame_allocator
      /\ F # {} /\ TakeFrom(Min(F), P)
      /\ table_pages' = PhysRange(v[Min(F)].physical_start, P)
  BY DEF AllocTablePages, At, Goto
<1>2. /\ u \in MemoryMaps /\ Cut(u, v) /\ memory_size \in Nat /\ table_pages = Nothing
      /\ memory_size = End(u[Len(u)]) /\ kernel \in PhysRanges /\ KernelOK
      /\ frame_allocator \in PhysRanges
      /\ FrameAllocatorPlaced => TakenWhole(frame_allocator)
      /\ \A k \in 1 .. Len(u) : Taken(u, v, k) \subseteq Frames(frame_allocator) \cup Frames(table_pages)
  BY <1>1 DEF KeptInv, FirstSteps, TableSteps
<1>3. P \in Nat
  BY Sizes DEF PagesToAllocate
<1> HIDE DEF P
<1>4. KernelOK' /\ memory_size' = End(u'[Len(u')]) /\ FrameAllocatorPlaced' = FrameAllocatorPlaced
  BY <1>1, <1>2 DEF KernelOK, FrameAllocatorPlaced
<1>5. /\ Cut(u, v)'
      /\ \E k \in 1 .. Len(u) :
                  /\ k # 1 /\ u[k].type \in Usable
                  /\ k = Min(Fitting(P))
                  /\ v[k].physical_start \in Nat \ {0}
                  /\ v[k].physical_start >= u[k].physical_start
                  /\ v'[k].physical_start = v[k].physical_start + P
                  /\ \A j \in 1 .. Len(u) : j # k => v'[j] = v[j]
  BY <1>1, <1>2, <1>3, CutMore
<1>6. PICK k \in 1 .. Len(u) :
                  /\ k = Min(F)
                  /\ v'[k].physical_start = v[k].physical_start + P
                  /\ \A j \in 1 .. Len(u) : j # k => v'[j] = v[j]
  BY <1>5
<1>7. \A j \in 1 .. Len(u) :
         /\ u[j].physical_start \in Nat /\ v[j].physical_start \in Nat /\ End(u[j]) \in Nat
         /\ u[j].physical_start <= v[j].physical_start /\ v[j].physical_start <= End(u[j])
  BY <1>2, CutNumbers
<1>8. v'[k].physical_start <= End(u[k])
  <2>1. Cut(u, v')
    BY <1>1, <1>5
  <2> QED BY <1>2, <2>1, CutNumbers
<1>9. table_pages' = PhysRange(v[k].physical_start, P)
  BY <1>1, <1>6
<1>10. /\ table_pages' \in PhysRanges
       /\ Frames(table_pages)' = v[k].physical_start .. v[k].physical_start + P - 1
  BY <1>3, <1>7, <1>9, PhysRangeIs
<1>11. Taken(u, v, k)' = Taken(u, v, k) \cup Frames(table_pages)'
  <2>1. \A a, b, c \in Nat : a <= b => a .. (b + c) - 1 = (a .. b - 1) \cup (b .. b + c - 1)
    OBVIOUS
  <2>2. Taken(u, v, k)' = u[k].physical_start .. (v[k].physical_start + P) - 1
    BY <1>1, <1>6 DEF Taken
  <2>3. u[k].physical_start .. (v[k].physical_start + P) - 1
          = (u[k].physical_start .. v[k].physical_start - 1)
                \cup (v[k].physical_start .. v[k].physical_start + P - 1)
    <3> DEFINE a == u[k].physical_start
               b == v[k].physical_start
    <3>1. a \in Nat /\ b \in Nat /\ a <= b
      BY <1>7
    <3> HIDE DEF a, b
    <3>2. a .. (b + P) - 1 = (a .. b - 1) \cup (b .. b + P - 1)
      BY <1>3, <3>1, <2>1
    <3> QED BY <3>2 DEF a, b
  <2>4. Taken(u, v, k) = u[k].physical_start .. v[k].physical_start - 1
    BY DEF Taken
  <2> QED BY <1>10, <2>2, <2>3, <2>4
<1>12. \A j \in 1 .. Len(u) : j # k => Taken(u, v, j)' = Taken(u, v, j)
  BY <1>1, <1>6 DEF Taken
<1>13. TakenWhole(table_pages)'
  BY <1>1, <1>11 DEF TakenWhole
<1>14. Frames(table_pages) = {} /\ Frames(frame_allocator)' = Frames(frame_allocator)
  BY <1>1, <1>2, NothingFrames
<1>15. \A j \in 1 .. Len(u') : Taken(u, v, j)' \subseteq Frames(frame_allocator)' \cup Frames(table_pages)'
  BY <1>1, <1>2, <1>11, <1>12, <1>14
<1>16. ASSUME FrameAllocatorPlaced
       PROVE  TakenWhole(frame_allocator)' /\ Frames(frame_allocator)' \cap Frames(table_pages)' = {}
  <2>1. PICK j \in 1 .. Len(u) : Frames(frame_allocator) \subseteq Taken(u, v, j)
    BY <1>2, <1>16 DEF TakenWhole
  <2>2. Taken(u, v, j) \subseteq Taken(u, v, j)'
    BY <1>11, <1>12
  <2>3. TakenWhole(frame_allocator)'
    BY <1>1, <2>1, <2>2 DEF TakenWhole
  <2>4. ASSUME NEW x \in Taken(u, v, j), x \in Frames(table_pages)' PROVE FALSE
    <3>1. x \in Int /\ u[j].physical_start <= x /\ x < v[j].physical_start
      BY <1>7, <2>4 DEF Taken
    <3>2. v[k].physical_start <= x /\ x < v[k].physical_start + P
      BY <1>3, <1>7, <1>10, <2>4
    <3>3. j # k
      BY <1>7, <3>1, <3>2
    <3>4. x < End(u[j])
      BY <1>7, <3>1
    <3>5. u[k].physical_start <= x
      BY <1>7, <3>1, <3>2
    <3>6. v[k].physical_start + P <= End(u[k]) /\ v[k].physical_start \in Nat /\ End(u[k]) \in Nat
      BY <1>6, <1>7, <1>8
    <3>7. x < End(u[k])
      BY <1>3, <3>1, <3>2, <3>6
    <3> QED BY <1>2, <3>1, <3>3, <3>4, <3>5, <3>7, DescriptorsApart
  <2> QED BY <1>14, <2>1, <2>3, <2>4
<1> QED BY <1>1, <1>2, <1>4, <1>5, <1>10, <1>13, <1>15, <1>16
        DEF KeptInv, FirstSteps, TableSteps, CountSteps

-----------------------------------------------------------------------------
(* Boot memory: the tables.                                                *)

\* How far the counting of the tables has come.
CountInv ==
    /\ pd_count \in Nat /\ pt_count \in Nat
    /\ step \in FirstSteps => pd_count = 0
    /\ step = "count directories" => pd_count = 0 \/ DirectoriesCounted
    /\ step \in {"count tables", "allocate tables"} \cup TableSteps =>
           DirectoriesCounted /\ pt_count >= AtLeastOne(TotalSize \div PT_MEM_RANGE)

LEMMA TotalSizeNat == KeptInv => TotalSize \in Nat
<1> SUFFICES ASSUME KeptInv PROVE TotalSize \in Nat
  OBVIOUS
<1>1. kernel.pages \in Nat /\ frame_allocator.pages \in Nat
  BY DEF KeptInv, PhysRanges
<1> QED BY <1>1, Sizes DEF TotalSize

LEMMA AtLeastOneNat ==
    ASSUME NEW a \in Nat, NEW b \in Nat \ {0}
    PROVE  AtLeastOne(a \div b) \in Nat \ {0}
BY DivMod DEF AtLeastOne

LEMMA SameCounts ==
    ASSUME kernel' = kernel, frame_allocator' = frame_allocator
    PROVE  /\ TotalSize' = TotalSize /\ Directories' = Directories
           /\ pd_count' = pd_count => DirectoriesCounted' = DirectoriesCounted
<1>1. TotalSize' = TotalSize
  BY DEF TotalSize, PoolPages, EntryPages
<1>2. Directories' = Directories
  BY <1>1 DEF Directories, AtLeastOne, PD_MEM_RANGE, PT_MEM_RANGE
<1>3. ASSUME pd_count' = pd_count PROVE DirectoriesCounted' = DirectoriesCounted
  BY <1>1, <1>2, <1>3 DEF DirectoriesCounted, Wrap, PD_MEM_RANGE, PT_MEM_RANGE
<1> QED BY <1>1, <1>2, <1>3

\* The steps that count nothing.
LEMMA CountSame ==
    ASSUME CountInv, pd_count' = pd_count, pt_count' = pt_count,
           \/ step \in FirstSteps /\ step' \in FirstSteps \cup {"count directories"}
           \/ /\ step' = step \/ step' = "out of memory"
                 \/ (step \in {"allocate tables"} \cup TableSteps /\ step' \in TableSteps)
              /\ kernel' = kernel /\ frame_allocator' = frame_allocator
    PROVE  CountInv'
<1>1. CASE step \in FirstSteps /\ step' \in FirstSteps \cup {"count directories"}
  BY <1>1 DEF CountInv, FirstSteps, TableSteps
<1>2. CASE /\ step' = step \/ step' = "out of memory"
              \/ (step \in {"allocate tables"} \cup TableSteps /\ step' \in TableSteps)
           /\ kernel' = kernel /\ frame_allocator' = frame_allocator
  <2>1. DirectoriesCounted' = DirectoriesCounted /\ TotalSize' = TotalSize
    BY <1>2, SameCounts
  <2>2. AtLeastOne(TotalSize \div PT_MEM_RANGE)' = AtLeastOne(TotalSize \div PT_MEM_RANGE)
    BY <2>1 DEF AtLeastOne, PT_MEM_RANGE
  <2> QED BY <1>2, <2>1, <2>2 DEF CountInv, FirstSteps, TableSteps
<1> QED BY <1>1, <1>2

LEMMA CountStart ==
    ASSUME KeptInv, CountInv, StartCounting
    PROVE  CountInv'
<1>1. /\ step = "count directories" /\ step' = step /\ pd_count' = Directories /\ pt_count' = pt_count
      /\ kernel' = kernel /\ frame_allocator' = frame_allocator
  BY DEF StartCounting, At, UnchangedButCounts, Directories
<1>2. Directories' = Directories /\ Directories \in Nat
  BY <1>1, SameCounts, TotalSizeNat, Sizes, AtLeastOneNat DEF Directories
<1>3. DirectoriesCounted'
  <2>1. pd_count' = Directories' /\ pd_count' \in Nat
    BY <1>1, <1>2
  <2> QED BY <2>1 DEF DirectoriesCounted
<1> QED BY <1>1, <1>2, <1>3 DEF CountInv, FirstSteps, TableSteps

LEMMA CountMoreDirectories ==
    ASSUME KeptInv, CountInv, CountDirectory
    PROVE  CountInv'
<1>1. /\ step = "count directories" /\ DirectoriesCounted /\ pd_count \in Nat /\ pt_count \in Nat
      /\ kernel' = kernel /\ frame_allocator' = frame_allocator
  BY DEF CountDirectory, CountInv, At, UnchangedButCounts
<1>2. Directories' = Directories /\ TotalSize' = TotalSize
  BY <1>1, SameCounts
<1>3. CASE RoomForDirectories
  <2>1. /\ step' = "count tables" /\ pt_count' = AtLeastOne(TotalSize \div PT_MEM_RANGE)
        /\ pd_count' = pd_count
    BY <1>3 DEF CountDirectory, Goto
  <2>2. DirectoriesCounted'
    BY <1>1, <2>1, SameCounts
  <2>3. pt_count' \in Nat /\ pt_count' >= AtLeastOne(TotalSize \div PT_MEM_RANGE)'
    <3>1. AtLeastOne(TotalSize \div PT_MEM_RANGE)' = AtLeastOne(TotalSize \div PT_MEM_RANGE)
      BY <1>2 DEF AtLeastOne, PT_MEM_RANGE
    <3>2. AtLeastOne(TotalSize \div PT_MEM_RANGE) \in Nat
      BY TotalSizeNat, Sizes, AtLeastOneNat
    <3>3. pt_count' = AtLeastOne(TotalSize \div PT_MEM_RANGE)
      BY <2>1
    <3>4. \A n \in Nat : n >= n
      OBVIOUS
    <3> QED BY <3>1, <3>2, <3>3, <3>4, Zenon
  <2> QED BY <1>1, <2>1, <2>2, <2>3 DEF CountInv, FirstSteps, TableSteps
<1>4. CASE ~RoomForDirectories
  <2>1. step' = step /\ pt_count' = pt_count /\ pd_count' = pd_count + 1
    BY <1>4 DEF CountDirectory
  <2>2. Wrap(pd_count * PD_MEM_RANGE - TotalSize) < pd_count
    BY <1>4 DEF RoomForDirectories
  <2>3. Directories \in Nat
    BY TotalSizeNat, Sizes, AtLeastOneNat DEF Directories
  <2>4. /\ pd_count >= Directories
        /\ \A p \in Nat : Directories <= p /\ p < pd_count => Wrap(p * PD_MEM_RANGE - TotalSize) < p
    BY <1>1 DEF DirectoriesCounted
  <2>5. ASSUME NEW p \in Nat, Directories <= p, p < pd_count + 1
        PROVE  Wrap(p * PD_MEM_RANGE - TotalSize) < p
    <3>0. pd_count \in Nat
      BY <1>1
    <3>1. p < pd_count \/ p = pd_count
      BY <2>5, <3>0
    <3> QED BY <2>2, <2>4, <2>5, <3>1
  <2>6. DirectoriesCounted'
    <3>0. pd_count \in Nat /\ pd_count >= Directories
      BY <1>1, <2>4
    <3>1. pd_count + 1 \in Nat /\ pd_count + 1 >= Directories
      BY <2>3, <3>0
    <3>2. \A p \in Nat : Wrap(p * PD_MEM_RANGE - TotalSize)' = Wrap(p * PD_MEM_RANGE - TotalSize)
      BY <1>2 DEF Wrap, PD_MEM_RANGE, PT_MEM_RANGE
    <3>3. pd_count' \in Nat /\ pd_count' >= Directories'
      BY <1>2, <2>1, <3>1
    <3>4. \A p \in Nat : Directories' <= p /\ p < pd_count' => Wrap(p * PD_MEM_RANGE - TotalSize)' < p
      BY <1>2, <2>1, <2>5, <3>2
    <3>5. \A p \in Nat : Directories' <= p /\ p < pd_count' => Wrap(p * PD_MEM_RANGE - TotalSize') < p
      BY <1>2, <2>1, <2>5
    <3> QED BY <3>3, <3>5, Zenon DEF DirectoriesCounted
  <2>7. pd_count' \in Nat /\ pt_count' \in Nat /\ step' = "count directories"
    BY <1>1, <2>1, <2>6 DEF DirectoriesCounted
  <2> QED BY <2>6, <2>7 DEF CountInv, FirstSteps, TableSteps
<1> QED BY <1>3, <1>4

LEMMA CountMoreTables ==
    ASSUME KeptInv, CountInv, CountTable
    PROVE  CountInv'
<1>1. /\ step = "count tables" /\ step' \in {"count tables", "allocate tables"} /\ pd_count' = pd_count
      /\ pt_count' = pt_count \/ pt_count' = pt_count + 1
      /\ kernel' = kernel /\ frame_allocator' = frame_allocator
  BY DEF CountTable, At, Goto, UnchangedButCounts
<1>2. /\ pd_count \in Nat /\ pt_count \in Nat /\ DirectoriesCounted
      /\ pt_count >= AtLeastOne(TotalSize \div PT_MEM_RANGE)
  BY <1>1 DEF CountInv
<1>3. DirectoriesCounted' /\ TotalSize' = TotalSize
  BY <1>1, <1>2, SameCounts
<1>4. AtLeastOne(TotalSize \div PT_MEM_RANGE)' = AtLeastOne(TotalSize \div PT_MEM_RANGE)
  BY <1>3 DEF AtLeastOne, PT_MEM_RANGE
<1>5. AtLeastOne(TotalSize \div PT_MEM_RANGE) \in Nat
  BY TotalSizeNat, Sizes, AtLeastOneNat
<1>6. pt_count' \in Nat /\ pt_count' >= AtLeastOne(TotalSize \div PT_MEM_RANGE)'
  <2> DEFINE n == AtLeastOne(TotalSize \div PT_MEM_RANGE)
  <2>1. n \in Nat /\ n' = n /\ pt_count >= n /\ pt_count \in Nat
    BY <1>2, <1>4, <1>5
  <2>2. pt_count' = pt_count \/ pt_count' = pt_count + 1
    BY <1>1
  <2> HIDE DEF n
  <2>3. pt_count' \in Nat /\ pt_count' >= n
    BY <2>1, <2>2
  <2> QED BY <2>1, <2>3 DEF n
<1> QED BY <1>1, <1>2, <1>3, <1>6 DEF CountInv, FirstSteps, TableSteps

-----------------------------------------------------------------------------

\* The tables of the first n directories.
TablesIn(n) == IF PAGE_ENTRY_COUNT * n <= pt_count THEN PAGE_ENTRY_COUNT * n ELSE pt_count

\* Ranges one behind the other from a on, and before b.
Laid(s, a, b) ==
    \A j \in 1 .. Len(s) : /\ a <= s[j].start /\ s[j].start + s[j].pages <= b
                           /\ \A i \in 1 .. j - 1 : s[i].start + s[i].pages <= s[j].start

\* How far the tables are laid out in the pages for them.
TableInv ==
    /\ allocated \in Nat /\ pdp \in Seq(PhysRanges)
    /\ step \notin TableSteps => pdp = <<>>
    /\ step \in TableSteps =>
           /\ table_pages.pages = PagesToAllocate /\ pt_count < PDP_MEM_RANGE
           /\ Len(pdp) <= pd_count /\ (step # "populate" => Len(pdp) = pd_count)
           /\ allocated = table_pages.start + 1 + Len(pdp) + TablesIn(Len(pdp))
           /\ Laid(pdp, table_pages.start + 1, allocated)

LEMMA LaidAppend ==
    ASSUME NEW s \in Seq(PhysRanges), NEW a \in Nat, NEW b \in Nat, a <= b, Laid(s, a, b),
           NEW r \in PhysRanges, r.start = b
    PROVE  Laid(Append(s, r), a, b + r.pages)
<1> DEFINE t == Append(s, r)
           c == b + r.pages
<1>1. /\ Len(s) \in Nat /\ Len(t) = Len(s) + 1 /\ t[Len(s) + 1] = r
      /\ \A i \in 1 .. Len(s) : t[i] = s[i] /\ s[i] \in PhysRanges
  OBVIOUS
<1>2. r.pages \in Nat /\ \A i \in 1 .. Len(s) : s[i].start \in Nat /\ s[i].pages \in Nat
                                               /\ s[i].start + s[i].pages \in Nat
  <2>1. \A x \in PhysRanges : x.start \in Nat /\ x.pages \in Nat /\ x.start + x.pages \in Nat
    BY DEF PhysRanges
  <2> QED BY <1>1, <2>1
<1>3. c \in Nat /\ b <= c
  BY <1>2
<1> HIDE DEF t, c
<1> SUFFICES ASSUME NEW j \in 1 .. Len(t)
             PROVE  /\ a <= t[j].start /\ t[j].start + t[j].pages <= c
                    /\ \A i \in 1 .. j - 1 : t[i].start + t[i].pages <= t[j].start
  BY DEF Laid, t, c
<1>4. CASE j \in 1 .. Len(s)
  <2>1. /\ a <= s[j].start /\ s[j].start + s[j].pages <= b
        /\ \A i \in 1 .. j - 1 : s[i].start + s[i].pages <= s[j].start
    BY <1>4 DEF Laid
  <2>2. \A i \in 1 .. j - 1 : i \in 1 .. Len(s)
    BY <1>1, <1>4
  <2>3. s[j].start + s[j].pages <= c
    BY <1>2, <1>3, <1>4, <2>1
  <2> QED BY <1>1, <1>4, <2>1, <2>2, <2>3
<1>5. CASE j = Len(s) + 1
  <2>1. t[j] = r /\ t[j].start + t[j].pages = c
    BY <1>1, <1>5 DEF c
  <2>2. \A i \in 1 .. j - 1 : i \in 1 .. Len(s)
    BY <1>1, <1>5
  <2>3. \A i \in 1 .. Len(s) : s[i].start + s[i].pages <= b
    BY DEF Laid
  <2> QED BY <1>1, <1>3, <2>1, <2>2, <2>3
<1> QED BY <1>1, <1>4, <1>5

\* The steps that lay out nothing.
LEMMA TableSame ==
    ASSUME TableInv, UNCHANGED tableVars,
           \/ step' = step \/ (step \notin TableSteps /\ step' \notin TableSteps)
           \/ (step \in TableSteps \ {"populate"} /\ step' \in TableSteps \ {"populate"})
    PROVE  TableInv'
<1>1. /\ pd_count' = pd_count /\ pt_count' = pt_count /\ table_pages' = table_pages
      /\ allocated' = allocated /\ pdp' = pdp
  BY DEF tableVars
<1>2. /\ PagesToAllocate' = PagesToAllocate /\ PDP_MEM_RANGE' = PDP_MEM_RANGE
      /\ TablesIn(Len(pdp))' = TablesIn(Len(pdp))
      /\ Laid(pdp, table_pages.start + 1, allocated)' = Laid(pdp, table_pages.start + 1, allocated)
  BY <1>1 DEF PagesToAllocate, PDP_MEM_RANGE, PD_MEM_RANGE, PT_MEM_RANGE, TablesIn, PoolPages, EntryPages
<1> QED BY <1>1, <1>2 DEF TableInv

\* The steps that only count.
LEMMA TableCounting ==
    ASSUME TableInv, allocated' = allocated, pdp' = pdp, step \notin TableSteps, step' \notin TableSteps
    PROVE  TableInv'
BY DEF TableInv

LEMMA TableAlloc ==
    ASSUME KeptInv, CountInv, TableInv, AllocTablePages
    PROVE  TableInv'
<1> DEFINE F == Fitting(PagesToAllocate)
           a == uefi_memory_map[Min(F)].physical_start
<1>1. /\ step = "allocate tables" /\ step' = "populate"
      /\ PagesToAllocate < PDP_MEM_RANGE /\ F # {}
      /\ table_pages' = PhysRange(a, PagesToAllocate)
      /\ allocated' = table_pages'.start + 1
      /\ pd_count' = pd_count /\ pt_count' = pt_count /\ pdp' = pdp
  BY DEF AllocTablePages, At, Goto
<1>0. pdp = <<>>
  BY <1>1 DEF TableInv, TableSteps
<1>2. pd_count \in Nat /\ pt_count \in Nat
  BY DEF CountInv
<1>3. PagesToAllocate \in Nat /\ pt_count <= PagesToAllocate
  BY <1>2, Sizes DEF PagesToAllocate
<1>4. a \in Nat
  <2>1. uefi_map \in MemoryMaps /\ Cut(uefi_map, uefi_memory_map)
    BY DEF KeptInv
  <2>2. uefi_memory_map \in Seq(Descriptor)
    BY <2>1 DEF Cut
  <2>3. F \in SUBSET Nat /\ F \subseteq 1 .. Len(uefi_memory_map)
    BY <2>2 DEF Fitting
  <2>4. Min(F) \in 1 .. Len(uefi_memory_map)
    <3> HIDE DEF F
    <3> QED BY <1>1, <2>3, MinOf
  <2> QED BY <2>2, <2>4, DescriptorIs
<1> HIDE DEF a, F
<1>5. /\ table_pages'.pages = PagesToAllocate /\ table_pages'.start = a
      /\ PagesToAllocate' = PagesToAllocate /\ PDP_MEM_RANGE' = PDP_MEM_RANGE
  BY <1>1, <1>3, <1>4, PhysRangeIs
     DEF PagesToAllocate, PoolPages, EntryPages, PDP_MEM_RANGE, PD_MEM_RANGE, PT_MEM_RANGE
<1>6. TablesIn(0)' = 0
  <2>1. pt_count' \in Nat /\ PAGE_ENTRY_COUNT \in Nat
    BY <1>1, <1>2, Sizes
  <2>2. PAGE_ENTRY_COUNT * 0 = 0 /\ 0 <= pt_count'
    BY <2>1
  <2> QED BY <2>2 DEF TablesIn
<1>7. Len(pdp') = 0 /\ pdp' \in Seq(PhysRanges)
  <2>1. pdp' = <<>>
    BY <1>0, <1>1
  <2> QED BY <2>1
<1>8. Laid(pdp, table_pages.start + 1, allocated)'
  BY <1>7 DEF Laid
<1>9. pt_count' < PDP_MEM_RANGE'
  <2>1. pt_count' = pt_count /\ PagesToAllocate < PDP_MEM_RANGE
    BY <1>1
  <2> QED BY <1>2, <1>3, <1>5, <2>1, Sizes
<1>10. allocated' \in Nat /\ allocated' = table_pages'.start + 1 + 0 + 0
  <2>1. allocated' = a + 1 /\ table_pages'.start = a
    BY <1>1, <1>5
  <2>2. a + 1 \in Nat /\ a + 1 = a + 1 + 0 + 0
    BY <1>4
  <2> QED BY <2>1, <2>2
<1>11. Len(pdp') <= pd_count'
  <2>1. pd_count' \in Nat
    BY <1>1, <1>2
  <2> QED BY <1>7, <2>1
<1> QED BY <1>1, <1>5, <1>6, <1>7, <1>8, <1>9, <1>10, <1>11 DEF TableInv, TableSteps

LEMMA TablePopulate ==
    ASSUME KeptInv, CountInv, TableInv, PopulateDirectory
    PROVE  TableInv'
<1> DEFINE N == PAGE_ENTRY_COUNT
           L == Len(pdp)
           a == table_pages.start + 1
           r == PhysRange(allocated, 1 + TablesOfNext)
<1>1. /\ step = "populate" /\ step' = step /\ L < pd_count /\ pdp' = Append(pdp, r)
      /\ allocated' = allocated + r.pages
      /\ pd_count' = pd_count /\ pt_count' = pt_count /\ table_pages' = table_pages
  BY DEF PopulateDirectory, At, UnchangedButPdp
<1>2. /\ pd_count \in Nat /\ pt_count \in Nat /\ DirectoriesCounted
      /\ pt_count >= AtLeastOne(TotalSize \div PT_MEM_RANGE)
  BY <1>1 DEF CountInv, TableSteps
<1>3. /\ allocated \in Nat /\ pdp \in Seq(PhysRanges)
      /\ table_pages.pages = PagesToAllocate /\ pt_count < PDP_MEM_RANGE
      /\ allocated = table_pages.start + 1 + L + TablesIn(L)
      /\ Laid(pdp, a, allocated)
  BY <1>1 DEF TableInv, TableSteps
<1>4. pd_count >= 1 /\ N * (pd_count - 1) <= pt_count
  BY <1>2, <1>3, TablesSuffice, TotalSizeNat
<1>5. N \in Nat \ {0} /\ L \in Nat /\ a \in Nat /\ Word \in Nat /\ PDP_MEM_RANGE \in Nat /\ Word > PDP_MEM_RANGE
  <2>1. table_pages.start \in Nat
    BY DEF KeptInv, PhysRanges
  <2> QED BY <1>3, <2>1, Sizes
<1> HIDE DEF N, L, a
<1>6. N * L <= pt_count /\ N * L \in Nat /\ N * (L + 1) = N * L + N
  <2>1. L <= pd_count - 1 /\ pd_count - 1 \in Int
    BY <1>1, <1>2, <1>4, <1>5
  <2>2. L * N <= (pd_count - 1) * N
    BY <1>5, <2>1, MulMonotone
  <2>3. L * N = N * L /\ (pd_count - 1) * N = N * (pd_count - 1) /\ N * L \in Nat
        /\ N * (pd_count - 1) \in Int /\ N * (L + 1) = N * L + N
    BY <1>2, <1>5
  <2> QED BY <1>2, <1>4, <2>2, <2>3
<1>7. TablesOfNext = (IF pt_count - N * L < N THEN pt_count - N * L ELSE N)
  <2>1. pt_count - N * L \in 0 .. Word - 1
    BY <1>2, <1>3, <1>5, <1>6
  <2>2. Wrap(pt_count - N * L) = pt_count - N * L
    BY <1>2, <1>6, <2>1, WrapIs
  <2> QED BY <2>2 DEF TablesOfNext, N, L
<1>8. TablesOfNext \in Nat /\ TablesIn(L) + TablesOfNext = TablesIn(L + 1) /\ TablesIn(L) \in Nat
  <2>1. TablesIn(L) = N * L
    BY <1>6 DEF TablesIn, N
  <2>2. TablesIn(L + 1) = IF N * L + N <= pt_count THEN N * L + N ELSE pt_count
    BY <1>6 DEF TablesIn, N
  <2> QED BY <1>2, <1>5, <1>6, <1>7, <2>1, <2>2
<1>9. r \in PhysRanges /\ r.start = allocated /\ r.pages = 1 + TablesOfNext
  <2>1. allocated \in Nat /\ 1 + TablesOfNext \in Nat
    BY <1>3, <1>8
  <2> QED BY <2>1, PhysRangeIs
<1> HIDE DEF r
<1>10. a <= allocated
  BY <1>3, <1>5, <1>8 DEF a
<1>11. Laid(Append(pdp, r), a, allocated + r.pages)
  BY <1>3, <1>5, <1>9, <1>10, LaidAppend
<1>12. /\ pdp' \in Seq(PhysRanges) /\ Len(pdp') = L + 1
  BY <1>1, <1>3, <1>9 DEF L
<1>13. allocated' \in Nat /\ allocated' = table_pages.start + 1 + (L + 1) + TablesIn(L + 1)
  <2>1. table_pages.start \in Nat
    BY DEF KeptInv, PhysRanges
  <2> DEFINE s == table_pages.start
             c == TablesIn(L)
             e == TablesIn(L + 1)
             n == TablesOfNext
  <2>2. /\ allocated' = allocated + (1 + n) /\ allocated = s + 1 + L + c
        /\ s \in Nat /\ c \in Nat /\ n \in Nat /\ c + n = e
    BY <1>1, <1>3, <1>8, <1>9, <2>1
  <2> HIDE DEF s, c, e, n
  <2>3. allocated' \in Nat /\ allocated' = s + 1 + (L + 1) + e
    BY <1>5, <2>2
  <2> QED BY <2>3 DEF s, e
<1>14. TablesIn(Len(pdp))' = TablesIn(L + 1) /\ PagesToAllocate' = PagesToAllocate /\ PDP_MEM_RANGE' = PDP_MEM_RANGE
  BY <1>1, <1>12 DEF TablesIn, PagesToAllocate, PoolPages, EntryPages, PDP_MEM_RANGE, PD_MEM_RANGE, PT_MEM_RANGE
<1>15. Laid(pdp, table_pages.start + 1, allocated)'
  BY <1>1, <1>11 DEF a
<1>16. Len(pdp') <= pd_count'
  BY <1>1, <1>2, <1>5, <1>12
<1> QED BY <1>1, <1>3, <1>12, <1>13, <1>14, <1>15, <1>16 DEF TableInv, TableSteps

LEMMA TablePopulated ==
    ASSUME TableInv, Populated
    PROVE  TableInv'
<1>1. /\ step = "populate" /\ step' = "map" /\ Len(pdp) = pd_count
      /\ pd_count' = pd_count /\ pt_count' = pt_count /\ table_pages' = table_pages
      /\ allocated' = allocated /\ pdp' = pdp
  BY DEF Populated, At, Goto, UnchangedButPdp
<1>2. /\ PagesToAllocate' = PagesToAllocate /\ PDP_MEM_RANGE' = PDP_MEM_RANGE
      /\ TablesIn(Len(pdp))' = TablesIn(Len(pdp))
      /\ Laid(pdp, table_pages.start + 1, allocated)' = Laid(pdp, table_pages.start + 1, allocated)
  BY <1>1 DEF PagesToAllocate, PDP_MEM_RANGE, PD_MEM_RANGE, PT_MEM_RANGE, TablesIn, PoolPages, EntryPages
<1>3. Len(pdp') <= pd_count'
  BY <1>1 DEF TableInv, TableSteps
<1> QED BY <1>1, <1>2, <1>3 DEF TableInv, TableSteps

-----------------------------------------------------------------------------
(* Boot memory: what is mapped.                                            *)

Later == TableSteps \ {"populate"}

Before(r, s) == r.start + r.pages <= s.start

LEMMA RangeNumbers ==
    ASSUME NEW r \in PhysRanges
    PROVE  /\ r.start \in Nat /\ r.pages \in Nat /\ r.start + r.pages \in Nat
           /\ \A x : x \in Frames(r) <=> x \in Int /\ r.start <= x /\ x < r.start + r.pages
<1>1. r.start \in Nat /\ r.pages \in Nat
  BY DEF PhysRanges
<1> QED BY <1>1 DEF Frames

LEMMA BeforeApart ==
    ASSUME NEW r \in PhysRanges, NEW s \in PhysRanges, Before(r, s)
    PROVE  Frames(r) \cap Frames(s) = {}
<1> SUFFICES ASSUME NEW x, x \in Frames(r), x \in Frames(s) PROVE FALSE
  OBVIOUS
<1>1. r.start + r.pages \in Nat /\ s.start \in Nat /\ r.start + r.pages <= s.start
  BY RangeNumbers DEF Before
<1>2. x \in Int /\ x < r.start + r.pages
  BY RangeNumbers
<1>3. s.start <= x
  BY RangeNumbers
<1> QED BY <1>1, <1>2, <1>3

LEMMA Concatenated ==
    ASSUME NEW R, NEW s \in Seq(R), NEW t \in Seq(R)
    PROVE  /\ s \o t \in Seq(R) /\ Len(s \o t) = Len(s) + Len(t)
           /\ \A k \in 1 .. Len(s) : (s \o t)[k] = s[k]
           /\ \A k \in 1 .. Len(s) + Len(t) : k > Len(s) => (s \o t)[k] = t[k - Len(s)]
OBVIOUS

\* The ranges to map and their order.
LEMMA ToMapIs ==
    ASSUME KeptInv, TableInv, step \in Later
    PROVE  /\ ToMap \in Seq(PhysRanges) /\ Len(ToMap) = 5 + Len(pdp) /\ Len(pdp) \in Nat
           /\ ToMap[1] = kernel /\ ToMap[2] = EntryPage /\ ToMap[3] = Pool
           /\ ToMap[4] = frame_allocator /\ ToMap[5] = PDP
           /\ \A k \in 1 .. Len(pdp) : ToMap[5 + k] = pdp[k]
           /\ {kernel, EntryPage, Pool, frame_allocator, PDP, table_pages} \subseteq PhysRanges
           /\ \A k \in 1 .. Len(pdp) : pdp[k] \in PhysRanges
<1>1. /\ {kernel, frame_allocator, table_pages} \subseteq PhysRanges
      /\ allocated \in Nat /\ pdp \in Seq(PhysRanges)
  BY DEF KeptInv, TableInv
<1>2. table_pages.start \in Nat /\ allocated + 1 \in Nat /\ PoolPages \in Nat /\ EntryPages = 1
  BY <1>1, RangeNumbers, Sizes
<1>3. EntryPage \in PhysRanges /\ PDP \in PhysRanges
  BY <1>1, <1>2, PhysRangeIs DEF EntryPage, PDP
<1>4. Pool \in PhysRanges
  BY <1>1, <1>2, PhysRangeIs DEF Pool
<1> DEFINE five == <<kernel, EntryPage, Pool, frame_allocator, PDP>>
<1>5. /\ five \in Seq(PhysRanges) /\ Len(five) = 5
      /\ five[1] = kernel /\ five[2] = EntryPage /\ five[3] = Pool /\ five[4] = frame_allocator /\ five[5] = PDP
  BY <1>1, <1>3, <1>4
<1>6. ToMap = five \o pdp
  BY DEF ToMap
<1> HIDE DEF five
<1>7. /\ ToMap \in Seq(PhysRanges) /\ Len(ToMap) = 5 + Len(pdp) /\ Len(pdp) \in Nat
      /\ \A k \in 1 .. 5 : ToMap[k] = five[k]
      /\ \A k \in 1 .. Len(pdp) : ToMap[5 + k] = pdp[k]
  <2>1. five \in Seq(PhysRanges) /\ Len(five) = 5 /\ pdp \in Seq(PhysRanges) /\ Len(pdp) \in Nat
    BY <1>1, <1>5
  <2>2. /\ ToMap \in Seq(PhysRanges) /\ Len(ToMap) = 5 + Len(pdp)
        /\ \A k \in 1 .. 5 : ToMap[k] = five[k]
        /\ \A k \in 1 .. 5 + Len(pdp) : k > 5 => ToMap[k] = pdp[k - 5]
    <3>1. /\ five \o pdp \in Seq(PhysRanges) /\ Len(five \o pdp) = Len(five) + Len(pdp)
          /\ \A k \in 1 .. Len(five) : (five \o pdp)[k] = five[k]
          /\ \A k \in 1 .. Len(five) + Len(pdp) : k > Len(five) => (five \o pdp)[k] = pdp[k - Len(five)]
      BY <2>1, Concatenated, Zenon
    <3>2. ToMap = five \o pdp /\ Len(five) = 5
      BY <1>6, <2>1
    <3> QED BY <3>1, <3>2, Zenon
  <2>3. ASSUME NEW k \in 1 .. Len(pdp) PROVE ToMap[5 + k] = pdp[k]
    <3>1. 5 + k \in 1 .. 5 + Len(pdp) /\ 5 + k > 5 /\ (5 + k) - 5 = k
      BY <2>1
    <3>2. ToMap[5 + k] = pdp[(5 + k) - 5]
      BY <2>2, <3>1
    <3> QED BY <3>1, <3>2
  <2> QED BY <2>1, <2>2, <2>3
<1>8. 1 \in 1 .. 5 /\ 2 \in 1 .. 5 /\ 3 \in 1 .. 5 /\ 4 \in 1 .. 5 /\ 5 \in 1 .. 5
  OBVIOUS
<1>9. \A k \in 1 .. Len(pdp) : pdp[k] \in PhysRanges
  BY <1>1
<1>10. ToMap[1] = kernel /\ ToMap[2] = EntryPage /\ ToMap[3] = Pool /\ ToMap[4] = frame_allocator /\ ToMap[5] = PDP
  BY <1>5, <1>7, <1>8
<1> QED BY <1>1, <1>3, <1>4, <1>7, <1>9, <1>10

\* The pages for the tables are used one behind the other: the PDP, the
\* directories with their tables, the page of entries, the pool.
LEMMA TablesInOrder ==
    ASSUME KeptInv, CountInv, TableInv, step \in Later
    PROVE  /\ PDP.start = table_pages.start
           /\ Before(PDP, EntryPage) /\ Before(PDP, Pool) /\ Before(EntryPage, Pool)
           /\ \A k \in 1 .. Len(pdp) : /\ Before(PDP, pdp[k]) /\ Before(pdp[k], EntryPage)
                                       /\ Before(pdp[k], Pool)
                                       /\ \A j \in 1 .. k - 1 : Before(pdp[j], pdp[k])
           /\ Pool.start + Pool.pages <= table_pages.start + table_pages.pages
<1> DEFINE s == table_pages.start
           L == Len(pdp)
<1>1. /\ allocated \in Nat /\ pdp \in Seq(PhysRanges) /\ table_pages.pages = PagesToAllocate
      /\ L = pd_count
      /\ allocated = s + 1 + L + TablesIn(L)
      /\ Laid(pdp, s + 1, allocated)
  BY DEF TableInv, Later
<1>2. s \in Nat /\ L \in Nat /\ PoolPages \in Nat /\ EntryPages = 1 /\ pt_count \in Nat
  BY <1>1, ToMapIs, RangeNumbers, Sizes DEF CountInv
<1>3. TablesIn(L) \in Nat /\ TablesIn(L) <= pt_count
  <2>1. PAGE_ENTRY_COUNT * L \in Nat
    BY <1>2, Sizes
  <2> QED BY <1>2, <2>1 DEF TablesIn
<1>4. /\ PDP.start = s /\ PDP.pages = 1 /\ EntryPage.start = allocated /\ EntryPage.pages = 1
      /\ Pool.start = allocated + 1 /\ Pool.pages = PoolPages
  BY <1>2 DEF PDP, EntryPage, Pool, PhysRange
<1>5. s + 1 <= allocated /\ allocated + 1 + PoolPages <= s + (1 + pd_count + pt_count + PoolPages + 1)
  <2> DEFINE c == TablesIn(L)
  <2>1. c \in Nat /\ c <= pt_count /\ allocated = s + 1 + L + c /\ pd_count = L /\ allocated \in Nat
    BY <1>1, <1>3
  <2> HIDE DEF s, L, c
  <2> QED BY <1>2, <2>1
<1>6. PagesToAllocate = 1 + pd_count + pt_count + PoolPages + 1
  <2>1. EntryPages = 1
    BY Sizes
  <2> QED BY <2>1, Zenon DEF PagesToAllocate
<1>7. Pool.start + Pool.pages <= s + table_pages.pages
  <2>1. table_pages.pages = 1 + pd_count + pt_count + PoolPages + 1
    BY <1>1, <1>6
  <2> HIDE DEF s
  <2> QED BY <1>4, <1>5, <2>1
<1>8. Before(PDP, EntryPage) /\ Before(PDP, Pool) /\ Before(EntryPage, Pool)
  <2>1. allocated \in Nat
    BY <1>1
  <2> HIDE DEF s
  <2>2. s + 1 <= allocated /\ s + 1 <= allocated + 1 /\ allocated + 1 <= allocated + 1
    BY <1>2, <1>5, <2>1
  <2> QED BY <1>4, <2>2 DEF Before
<1>9. ASSUME NEW k \in 1 .. L
      PROVE  /\ Before(PDP, pdp[k]) /\ Before(pdp[k], EntryPage) /\ Before(pdp[k], Pool)
             /\ \A j \in 1 .. k - 1 : Before(pdp[j], pdp[k])
  <2>1. /\ s + 1 <= pdp[k].start /\ pdp[k].start + pdp[k].pages <= allocated
        /\ \A i \in 1 .. k - 1 : pdp[i].start + pdp[i].pages <= pdp[k].start
    BY <1>1 DEF Laid
  <2>2. pdp[k].start + pdp[k].pages \in Nat
    BY <1>1, RangeNumbers
  <2>3. pdp[k].start + pdp[k].pages <= allocated + 1
    <3>1. allocated \in Nat
      BY <1>1
    <3> QED BY <2>1, <2>2, <3>1
  <2> QED BY <1>4, <2>1, <2>3 DEF Before
<1> QED BY <1>4, <1>7, <1>8, <1>9

\* All ranges but the image and the frame allocator's lie in the pages for the tables.
LEMMA TablesWithin ==
    ASSUME KeptInv, CountInv, TableInv, step \in Later, NEW k \in 1 .. Len(ToMap), k # 1, k # 4
    PROVE  Frames(ToMap[k]) \subseteq Frames(table_pages)
<1> DEFINE r == ToMap[k]
           t == table_pages
<1>1. /\ Len(pdp) \in Nat /\ Len(ToMap) = 5 + Len(pdp)
      /\ \A j \in 1 .. Len(pdp) : ToMap[5 + j] = pdp[j] /\ pdp[j] \in PhysRanges
      /\ ToMap[2] = EntryPage /\ ToMap[3] = Pool /\ ToMap[5] = PDP
      /\ {EntryPage, Pool, PDP, t} \subseteq PhysRanges
  BY ToMapIs
<1>2. /\ PDP.start = t.start
      /\ Before(PDP, EntryPage) /\ Before(PDP, Pool) /\ Before(EntryPage, Pool)
      /\ \A j \in 1 .. Len(pdp) : Before(PDP, pdp[j]) /\ Before(pdp[j], Pool)
      /\ Pool.start + Pool.pages <= t.start + t.pages
  BY TablesInOrder
<1>3. k \in {2, 3, 5} \/ \E j \in 1 .. Len(pdp) : k = 5 + j
  <2>1. k \in {2, 3, 5} \/ (k - 5 \in 1 .. Len(pdp) /\ k = 5 + (k - 5))
    BY <1>1
  <2> QED BY <2>1
<1>4. \/ r \in {EntryPage, Pool, PDP} \/ \E j \in 1 .. Len(pdp) : r = pdp[j]
  BY <1>1, <1>3
<1>5. /\ r \in PhysRanges
      /\ r = PDP \/ Before(PDP, r)
      /\ r = Pool \/ Before(r, Pool)
  BY <1>1, <1>2, <1>4
<1> HIDE DEF r, t
<1>6. /\ PDP.start \in Nat /\ PDP.pages \in Nat /\ Pool.start \in Nat /\ Pool.pages \in Nat
      /\ t.start \in Nat /\ t.pages \in Nat /\ r.start \in Nat /\ r.pages \in Nat
  BY <1>1, <1>5, RangeNumbers
<1>7. t.start <= r.start
  <2>1. PDP.start = t.start /\ (r = PDP \/ PDP.start + PDP.pages <= r.start)
    BY <1>2, <1>5 DEF Before
  <2>2. CASE r = PDP
    BY <1>6, <2>1, <2>2
  <2>3. CASE PDP.start + PDP.pages <= r.start
    BY <1>6, <2>1, <2>3
  <2> QED BY <2>1, <2>2, <2>3
<1>8. r.start + r.pages <= t.start + t.pages
  <2>1. Pool.start + Pool.pages <= t.start + t.pages /\ (r = Pool \/ r.start + r.pages <= Pool.start)
    BY <1>2, <1>5 DEF Before
  <2>2. CASE r = Pool
    BY <2>1, <2>2
  <2>3. CASE r.start + r.pages <= Pool.start
    BY <1>6, <2>1, <2>3
  <2> QED BY <2>1, <2>2, <2>3
<1>9. \A x : x \in Frames(r) => x \in Frames(t)
  <2> SUFFICES ASSUME NEW x, x \in Frames(r) PROVE x \in Frames(t)
    OBVIOUS
  <2>1. x \in Int /\ r.start <= x /\ x < r.start + r.pages
    BY <1>5, RangeNumbers
  <2>2. t.start <= x /\ x < t.start + t.pages
    BY <1>6, <1>7, <1>8, <2>1
  <2>3. t \in PhysRanges
    BY <1>1
  <2> QED BY <2>1, <2>2, <2>3, RangeNumbers
<1> QED BY <1>9 DEF r, t

\* The image is no part of what was taken from usable descriptors.
LEMMA KernelApart ==
    ASSUME KeptInv, KernelOK, NEW r, TakenWhole(r)
    PROVE  Frames(kernel) \cap Frames(r) = {}
<1> SUFFICES ASSUME NEW x, x \in Frames(kernel), x \in Frames(r) PROVE FALSE
  OBVIOUS
<1> DEFINE u == uefi_map
           v == uefi_memory_map
<1>1. u \in MemoryMaps /\ Cut(u, v)
  BY DEF KeptInv
<1>2. PICK k \in 1 .. Len(u) : /\ u[k].type = "loader code"
                               /\ kernel = PhysRange(u[k].physical_start, u[k].num_pages)
  BY DEF KernelOK
<1>3. PICK j \in 1 .. Len(u) : Frames(r) \subseteq Taken(u, v, j)
  BY DEF TakenWhole
<1>4. \A i \in 1 .. Len(u) :
         /\ u[i].physical_start \in Nat /\ v[i].physical_start \in Nat /\ End(u[i]) \in Nat
         /\ v[i].physical_start <= End(u[i])
         /\ v[i].physical_start # u[i].physical_start => u[i].type \in Usable
  BY <1>1, CutNumbers
<1>5. u \in Seq(Descriptor)
  BY <1>1, MapOrdered
<1>6. u[k].num_pages \in Nat /\ u[k].physical_start \in Nat
  BY <1>5, DescriptorIs
<1>7. Frames(kernel) = u[k].physical_start .. u[k].physical_start + u[k].num_pages - 1
  BY <1>2, <1>6, PhysRangeIs
<1>8. x \in Int /\ u[k].physical_start <= x /\ x < u[k].physical_start + u[k].num_pages
  BY <1>6, <1>7
<1>9. x < End(u[k])
  BY <1>8 DEF End
<1>10. u[j].physical_start <= x /\ x < v[j].physical_start /\ x < End(u[j])
  <2>1. x \in u[j].physical_start .. v[j].physical_start - 1
    BY <1>3 DEF Taken
  <2> QED BY <1>4, <1>8, <2>1
<1>11. k = j
  BY <1>1, <1>8, <1>9, <1>10, DescriptorsApart
<1>12. u[j].type \in Usable
  BY <1>4, <1>8, <1>10
<1> QED BY <1>2, <1>11, <1>12 DEF Usable

\* No two ranges to map have a frame in common.
LEMMA ToMapApart ==
    ASSUME KeptInv, CountInv, TableInv, step \in Later, FrameAllocatorPlaced,
           NEW i \in 1 .. Len(ToMap), NEW j \in 1 .. Len(ToMap), i < j
    PROVE  Frames(ToMap[i]) \cap Frames(ToMap[j]) = {}
<1>1. /\ Len(pdp) \in Nat /\ Len(ToMap) = 5 + Len(pdp)
      /\ \A k \in 1 .. Len(pdp) : ToMap[5 + k] = pdp[k] /\ pdp[k] \in PhysRanges
      /\ ToMap[1] = kernel /\ ToMap[2] = EntryPage /\ ToMap[3] = Pool
      /\ ToMap[4] = frame_allocator /\ ToMap[5] = PDP
      /\ {EntryPage, Pool, PDP} \subseteq PhysRanges
  BY ToMapIs
<1>2. /\ Before(PDP, EntryPage) /\ Before(PDP, Pool) /\ Before(EntryPage, Pool)
      /\ \A k \in 1 .. Len(pdp) : /\ Before(PDP, pdp[k]) /\ Before(pdp[k], EntryPage)
                                  /\ Before(pdp[k], Pool)
                                  /\ \A l \in 1 .. k - 1 : Before(pdp[l], pdp[k])
  BY TablesInOrder
<1>3. /\ KernelOK /\ TakenWhole(table_pages) /\ TakenWhole(frame_allocator)
      /\ Frames(frame_allocator) \cap Frames(table_pages) = {}
  BY DEF KeptInv, Later, TableSteps
<1>4. Frames(kernel) \cap Frames(table_pages) = {} /\ Frames(kernel) \cap Frames(frame_allocator) = {}
  BY <1>3, KernelApart
<1>5. \A k \in 1 .. Len(ToMap) : k # 1 /\ k # 4 => Frames(ToMap[k]) \subseteq Frames(table_pages)
  BY TablesWithin
<1>6. CASE i = 1
  <2>1. j # 1
    BY <1>6
  <2> QED BY <1>1, <1>4, <1>5, <1>6, <2>1
<1>7. CASE i # 1 /\ (i = 4 \/ j = 4)
  <2>1. j # 1 /\ i # j
    BY <1>1
  <2>2. CASE i = 4
    BY <1>1, <1>3, <1>5, <2>1, <2>2
  <2>3. CASE j = 4
    BY <1>1, <1>3, <1>5, <1>7, <2>1, <2>3
  <2> QED BY <1>7, <2>2, <2>3
<1>8. CASE i # 1 /\ i # 4 /\ j # 4
  <2>1. \/ i = 2 /\ j = 3
        \/ i \in {2, 3} /\ j = 5
        \/ i \in {2, 3, 5} /\ j - 5 \in 1 .. Len(pdp) /\ j = 5 + (j - 5)
        \/ /\ i - 5 \in 1 .. Len(pdp) /\ i = 5 + (i - 5) /\ j - 5 \in 1 .. Len(pdp) /\ j = 5 + (j - 5)
           /\ i - 5 \in 1 .. (j - 5) - 1
    BY <1>1, <1>8
  <2>2. CASE i = 2 /\ j = 3
    BY <1>1, <1>2, <2>2, BeforeApart
  <2>3. CASE i \in {2, 3} /\ j = 5
    <3>1. Frames(PDP) \cap Frames(EntryPage) = {} /\ Frames(PDP) \cap Frames(Pool) = {}
      BY <1>1, <1>2, BeforeApart
    <3> QED BY <1>1, <2>3, <3>1
  <2>4. CASE i \in {2, 3, 5} /\ j - 5 \in 1 .. Len(pdp) /\ j = 5 + (j - 5)
    <3> DEFINE k == j - 5
    <3>1. k \in 1 .. Len(pdp) /\ ToMap[j] = pdp[k] /\ pdp[k] \in PhysRanges
      BY <1>1, <2>4
    <3> HIDE DEF k
    <3>2. /\ Frames(PDP) \cap Frames(pdp[k]) = {} /\ Frames(pdp[k]) \cap Frames(Pool) = {}
          /\ Frames(pdp[k]) \cap Frames(EntryPage) = {}
      BY <1>1, <1>2, <3>1, BeforeApart
    <3> QED BY <1>1, <2>4, <3>1, <3>2
  <2>5. CASE /\ i - 5 \in 1 .. Len(pdp) /\ i = 5 + (i - 5) /\ j - 5 \in 1 .. Len(pdp) /\ j = 5 + (j - 5)
             /\ i - 5 \in 1 .. (j - 5) - 1
    <3> DEFINE k == j - 5
               l == i - 5
    <3>1. /\ k \in 1 .. Len(pdp) /\ ToMap[j] = pdp[k] /\ pdp[k] \in PhysRanges
          /\ l \in 1 .. Len(pdp) /\ ToMap[i] = pdp[l] /\ pdp[l] \in PhysRanges
          /\ l \in 1 .. k - 1
      BY <1>1, <2>5
    <3> HIDE DEF k, l
    <3> QED BY <1>2, <3>1, BeforeApart
  <2> QED BY <2>1, <2>2, <2>3, <2>4, <2>5
<1> QED BY <1>6, <1>7, <1>8

\* Every mapped frame is one of a range that was mapped.
MappedInv ==
    /\ mapped \in Seq(Nat) /\ index \in Nat \ {0}
    /\ step \notin Later => mapped = <<>> /\ index = 1
    /\ step \in Later =>
           /\ \A p \in 1 .. Len(mapped) :
                 \E k \in 1 .. Len(ToMap) : mapped[p] \in Frames(ToMap[k]) /\ (step = "map" => k < index)
           /\ FrameAllocatorPlaced => IsInjective(mapped)

LEMMA ToMapSame ==
    ASSUME UNCHANGED <<kernel, frame_allocator, tableVars>>
    PROVE  ToMap' = ToMap /\ FrameAllocatorPlaced' = FrameAllocatorPlaced
BY DEF tableVars, ToMap, EntryPage, Pool, PDP, PoolPages, EntryPages, PhysRange, FrameAllocatorPlaced

\* The steps that map nothing.
LEMMA MappedSame ==
    ASSUME MappedInv, mapped' = mapped,
           \/ step \notin Later /\ step' \notin Later /\ index' = index
           \/ /\ step \in Later /\ step' \in Later /\ index' \in Nat \ {0}
              /\ UNCHANGED <<kernel, frame_allocator, tableVars>>
              /\ step' = "map" => step = "map" /\ index' = index
    PROVE  MappedInv'
<1>1. CASE step \notin Later /\ step' \notin Later /\ index' = index
  BY <1>1 DEF MappedInv, Later
<1>2. CASE /\ step \in Later /\ step' \in Later /\ index' \in Nat \ {0}
           /\ UNCHANGED <<kernel, frame_allocator, tableVars>>
           /\ step' = "map" => step = "map" /\ index' = index
  <2>1. ToMap' = ToMap /\ FrameAllocatorPlaced' = FrameAllocatorPlaced
    BY <1>2, ToMapSame
  <2>2. /\ mapped \in Seq(Nat)
        /\ \A p \in 1 .. Len(mapped) :
              \E k \in 1 .. Len(ToMap) : mapped[p] \in Frames(ToMap[k]) /\ (step = "map" => k < index)
        /\ FrameAllocatorPlaced => IsInjective(mapped)
    BY <1>2 DEF MappedInv
  <2>3. \A p \in 1 .. Len(mapped') :
           \E k \in 1 .. Len(ToMap') : mapped'[p] \in Frames(ToMap'[k]) /\ (step' = "map" => k < index')
    BY <1>2, <2>1, <2>2
  <2> QED BY <1>2, <2>1, <2>2, <2>3 DEF MappedInv, Frames
<1> QED BY <1>1, <1>2

LEMMA MappedStart ==
    ASSUME MappedInv, Populated
    PROVE  MappedInv'
<1>1. step = "populate" /\ step' = "map" /\ mapped' = mapped /\ index' = index
  BY DEF Populated, At, Goto, UnchangedButPdp
<1>2. mapped' = <<>> /\ index' = 1
  BY <1>1 DEF MappedInv, Later
<1>3. mapped' \in Seq(Nat) /\ Len(mapped') = 0 /\ IsInjective(mapped')
  BY <1>2 DEF IsInjective
<1>4. \A p \in 1 .. Len(mapped') :
           \E k \in 1 .. Len(ToMap') : mapped'[p] \in Frames(ToMap'[k]) /\ (step' = "map" => k < index')
  BY <1>3
<1> QED BY <1>1, <1>2, <1>3, <1>4 DEF MappedInv, Later, Frames

LEMMA MappedMore ==
    ASSUME KeptInv, CountInv, TableInv, MappedInv, MapRange
    PROVE  MappedInv'
<1> DEFINE r == ToMap[index]
           n == Len(mapped)
           m == mapped \o FramesInOrder(r)
<1>1. /\ step = "map" /\ step' = "map" /\ index <= Len(ToMap) /\ mapped' = m /\ index' = index + 1
      /\ UNCHANGED <<kernel, frame_allocator, tableVars>>
  BY DEF MapRange, At, UnchangedButMapped
<1>2. step \in Later /\ step' \in Later
  BY <1>1 DEF Later, TableSteps
<1>3. ToMap \in Seq(PhysRanges) /\ Len(ToMap) \in Nat
  BY <1>2, ToMapIs
<1>4. /\ mapped \in Seq(Nat) /\ index \in Nat \ {0}
      /\ \A p \in 1 .. n : \E k \in 1 .. Len(ToMap) : mapped[p] \in Frames(ToMap[k]) /\ k < index
      /\ FrameAllocatorPlaced => IsInjective(mapped)
  BY <1>1, <1>2 DEF MappedInv
<1>5. index \in 1 .. Len(ToMap) /\ r \in PhysRanges
  BY <1>1, <1>3, <1>4
<1>6. r.start \in Nat /\ r.pages \in Nat /\ n \in Nat
  BY <1>4, <1>5, RangeNumbers
<1> HIDE DEF r
<1>7. FramesInOrder(r) \in Seq(Nat) /\ Len(FramesInOrder(r)) = r.pages
  <2>1. \A k \in 1 .. r.pages : r.start + k - 1 \in Nat
    BY <1>6
  <2> QED BY <1>6, <2>1 DEF FramesInOrder
<1>8. /\ m \in Seq(Nat) /\ Len(m) = n + r.pages
      /\ \A p \in 1 .. n : m[p] = mapped[p]
      /\ \A p \in 1 .. n + r.pages : p > n => m[p] = FramesInOrder(r)[p - n]
  BY <1>4, <1>6, <1>7
<1> HIDE DEF m
<1>9. \A p \in 1 .. n + r.pages : p > n => m[p] = r.start + (p - n) - 1 /\ m[p] \in Frames(r)
  <2> SUFFICES ASSUME NEW p \in 1 .. n + r.pages, p > n
               PROVE  m[p] = r.start + (p - n) - 1 /\ m[p] \in Frames(r)
    OBVIOUS
  <2>1. p - n \in 1 .. r.pages
    BY <1>6
  <2>2. m[p] = r.start + (p - n) - 1
    BY <1>8, <2>1 DEF FramesInOrder
  <2>3. r.start + (p - n) - 1 \in Frames(r)
    <3>1. /\ r.start + (p - n) - 1 \in Int /\ r.start <= r.start + (p - n) - 1
          /\ r.start + (p - n) - 1 < r.start + r.pages
      BY <1>6, <2>1
    <3> QED BY <1>5, <3>1, RangeNumbers
  <2> QED BY <2>2, <2>3
<1>10. \A p \in 1 .. Len(m) : \E k \in 1 .. Len(ToMap) : m[p] \in Frames(ToMap[k]) /\ k < index + 1
  <2> SUFFICES ASSUME NEW p \in 1 .. Len(m)
               PROVE  \E k \in 1 .. Len(ToMap) : m[p] \in Frames(ToMap[k]) /\ k < index + 1
    OBVIOUS
  <2>1. CASE p <= n
    <3>1. p \in 1 .. n
      BY <1>6, <1>8, <2>1
    <3>2. PICK k \in 1 .. Len(ToMap) : mapped[p] \in Frames(ToMap[k]) /\ k < index
      BY <1>4, <3>1
    <3>3. k < index + 1
      BY <1>4, <3>2
    <3> QED BY <1>8, <3>1, <3>2, <3>3
  <2>2. CASE p > n
    <3>1. m[p] \in Frames(ToMap[index])
      BY <1>8, <1>9, <2>2 DEF r
    <3>2. index < index + 1
      BY <1>4
    <3> QED BY <1>5, <3>1, <3>2
  <2> QED BY <1>6, <1>8, <2>1, <2>2
<1>11. ASSUME FrameAllocatorPlaced PROVE IsInjective(m)
  <2>1. IsInjective(mapped) /\ DOMAIN mapped = 1 .. n /\ DOMAIN m = 1 .. n + r.pages
    BY <1>4, <1>8, <1>11
  <2>2. ASSUME NEW p \in 1 .. n, NEW q \in 1 .. n + r.pages, q > n, m[p] = m[q] PROVE FALSE
    <3>1. PICK k \in 1 .. Len(ToMap) : mapped[p] \in Frames(ToMap[k]) /\ k < index
      BY <1>4
    <3>2. m[p] \in Frames(ToMap[k]) /\ m[q] \in Frames(ToMap[index])
      BY <1>8, <1>9, <2>2, <3>1 DEF r
    <3>3. Frames(ToMap[k]) \cap Frames(ToMap[index]) = {}
      BY <1>2, <1>5, <1>11, <3>1, ToMapApart
    <3> QED BY <2>2, <3>2, <3>3
  <2> SUFFICES ASSUME NEW p \in 1 .. n + r.pages, NEW q \in 1 .. n + r.pages, m[p] = m[q] PROVE p = q
    BY <2>1 DEF IsInjective
  <2>3. CASE p <= n /\ q <= n
    <3>1. p \in 1 .. n /\ q \in 1 .. n
      BY <1>6, <2>3
    <3> QED BY <1>8, <2>1, <3>1 DEF IsInjective
  <2>4. CASE p <= n /\ q > n
    <3>1. p \in 1 .. n
      BY <1>6, <2>4
    <3> QED BY <2>2, <2>4, <3>1
  <2>5. CASE p > n /\ q <= n
    <3>1. q \in 1 .. n /\ m[q] = m[p]
      BY <1>6, <2>5
    <3> QED BY <2>2, <2>5, <3>1
  <2>6. CASE p > n /\ q > n
    <3>1. r.start + (p - n) - 1 = r.start + (q - n) - 1
      BY <1>9, <2>6
    <3> QED BY <1>6, <3>1
  <2> QED BY <1>6, <2>3, <2>4, <2>5, <2>6
<1>12. ToMap' = ToMap /\ FrameAllocatorPlaced' = FrameAllocatorPlaced
  BY <1>1, ToMapSame
<1>13. index' \in Nat \ {0}
  <2>1. index' = index + 1
    BY <1>1
  <2> QED BY <1>4, <2>1
<1>14. \A p \in 1 .. Len(mapped') :
           \E k \in 1 .. Len(ToMap') : mapped'[p] \in Frames(ToMap'[k]) /\ (step' = "map" => k < index')
  BY <1>1, <1>10, <1>12
<1>15. mapped' \in Seq(Nat) /\ (FrameAllocatorPlaced' => IsInjective(mapped'))
  BY <1>1, <1>8, <1>11, <1>12
<1> QED BY <1>2, <1>13, <1>14, <1>15 DEF MappedInv, Frames

-----------------------------------------------------------------------------
(* Boot memory: the free lists.                                            *)

FreeSteps == {"remove", "failed to remove", "reclaim", "running"}

\* The end of the last block of the largest order.
Bound == (memory_size \div MaxBlock) * MaxBlock

FreeInv ==
    /\ step \notin FreeSteps => free = {}
    /\ step \in {"remove", "failed to remove"} =>
           /\ \A k \in 1 .. Len(uefi_memory_map) : k < index => Removed(k) \subseteq 0 .. Bound - 1
           /\ \A x : x \in free <=>
                  /\ x \in 0 .. Bound - 1
                  /\ \A k \in 1 .. Len(uefi_memory_map) : k < index => x \notin Removed(k)
    /\ step \in {"reclaim", "running"} =>
           /\ \A k \in 1 .. Len(uefi_memory_map) : Removed(k) \subseteq 0 .. Bound - 1
           /\ \A x : x \in free <=>
                  \/ /\ x \in 0 .. Bound - 1
                     /\ \A k \in 1 .. Len(uefi_memory_map) : x \notin Removed(k)
                  \/ \E k \in 1 .. Len(uefi_memory_map) :
                         /\ uefi_memory_map[k].type \in Reclaimed
                         /\ x \in DescFrames(uefi_memory_map[k])
                         /\ step = "reclaim" => k < index

LEMMA BoundNat ==
    ASSUME memory_size \in Nat
    PROVE  Bound \in Nat /\ Bound <= memory_size
<1> DEFINE q == memory_size \div MaxBlock
           r == memory_size % MaxBlock
<1>1. MaxBlock \in Nat \ {0}
  BY Sizes
<1>2. q \in Nat /\ r \in 0 .. MaxBlock - 1 /\ memory_size = q * MaxBlock + r
  BY <1>1, DivMod
<1>3. Bound = q * MaxBlock
  BY DEF Bound
<1> HIDE DEF q, r
<1>4. q * MaxBlock \in Nat /\ r \in Nat
  BY <1>1, <1>2
<1> QED BY <1>2, <1>3, <1>4

LEMMA SameRemoved ==
    ASSUME uefi_memory_map' = uefi_memory_map, memory_size' = memory_size
    PROVE  Bound' = Bound /\ \A k : Removed(k)' = Removed(k)
<1>1. Bound' = Bound
  BY DEF Bound, MaxBlock
<1>2. \A k : Gap(k)' = Gap(k)
  BY DEF Gap
<1>3. \A k : Removed(k)' = Removed(k)
  BY <1>2 DEF Removed, Usable, DescFrames
<1> QED BY <1>1, <1>3

\* The steps that leave the free lists alone.
LEMMA FreeSame ==
    ASSUME FreeInv, free' = free,
           \/ step \notin FreeSteps /\ step' \notin FreeSteps
           \/ /\ step' = step /\ index' = index
              /\ uefi_memory_map' = uefi_memory_map /\ memory_size' = memory_size
    PROVE  FreeInv'
<1>1. CASE step \notin FreeSteps /\ step' \notin FreeSteps
  BY <1>1 DEF FreeInv, FreeSteps
<1>2. CASE /\ step' = step /\ index' = index
           /\ uefi_memory_map' = uefi_memory_map /\ memory_size' = memory_size
  <2>1. Bound' = Bound /\ \A k : Removed(k)' = Removed(k)
    BY <1>2, SameRemoved
  <2>2. Reclaimed' = Reclaimed /\ \A k : DescFrames(uefi_memory_map[k])' = DescFrames(uefi_memory_map[k])
    BY <1>2 DEF Reclaimed, DescFrames
  <2> QED BY <1>2, <2>1, <2>2 DEF FreeInv
<1> QED BY <1>1, <1>2

LEMMA FreePopulate ==
    ASSUME PopulateFreeLists
    PROVE  FreeInv'
<1>1. /\ step' = "remove" /\ index' = 1 /\ free' = 0 .. Bound - 1
      /\ uefi_memory_map' = uefi_memory_map /\ memory_size' = memory_size
  BY DEF PopulateFreeLists, Goto, UnchangedButFrames, Bound
<1>2. Bound' = Bound
  BY <1>1, SameRemoved
<1>3. \A k \in 1 .. Len(uefi_memory_map) : ~(k < index')
  <2>1. \A n : \A k \in 1 .. n : ~(k < 1)
    OBVIOUS
  <2> QED BY <1>1, <2>1
<1> QED BY <1>1, <1>2, <1>3 DEF FreeInv, FreeSteps

LEMMA FreeRemove ==
    ASSUME FreeInv, index \in Nat \ {0}, uefi_memory_map \in Seq(Descriptor), RemoveUnusable
    PROVE  FreeInv'
<1> DEFINE I == 1 .. Len(uefi_memory_map)
<1>1. /\ step = "remove" /\ step' = "remove" /\ index' = index + 1 /\ free' = free \ Removed(index)
      /\ uefi_memory_map' = uefi_memory_map /\ memory_size' = memory_size
      /\ Removed(index) \subseteq free /\ index <= Len(uefi_memory_map)
  BY DEF RemoveUnusable, At, UnchangedButFrames
<1>2. Bound' = Bound /\ \A k : Removed(k)' = Removed(k)
  BY <1>1, SameRemoved
<1>3. /\ \A k \in I : k < index => Removed(k) \subseteq 0 .. Bound - 1
      /\ \A x : x \in free <=> x \in 0 .. Bound - 1 /\ \A k \in I : k < index => x \notin Removed(k)
  BY <1>1 DEF FreeInv
<1>4. index \in I /\ \A k \in I : k < index + 1 <=> k < index \/ k = index
  <2>1. index <= Len(uefi_memory_map) /\ Len(uefi_memory_map) \in Nat
    BY <1>1
  <2> QED BY <2>1
<1> HIDE DEF I
<1>5. \A k \in I : k < index + 1 => Removed(k) \subseteq 0 .. Bound - 1
  BY <1>1, <1>3, <1>4
<1>6. \A x : x \in free' <=> x \in 0 .. Bound - 1 /\ \A k \in I : k < index + 1 => x \notin Removed(k)
  <2>1. ASSUME NEW x PROVE x \in free' <=> x \in 0 .. Bound - 1 /\ \A k \in I : k < index + 1 => x \notin Removed(k)
    <3>1. x \in free' <=> x \in free /\ x \notin Removed(index)
      BY <1>1
    <3>2. (\A k \in I : k < index + 1 => x \notin Removed(k))
             <=> (\A k \in I : k < index => x \notin Removed(k)) /\ x \notin Removed(index)
      BY <1>4
    <3>3. x \in free <=> x \in 0 .. Bound - 1 /\ \A k \in I : k < index => x \notin Removed(k)
      BY <1>3
    <3> QED BY <3>1, <3>2, <3>3, Zenon
  <2> QED BY <2>1
<1>7. \A k \in I' : k < index' => Removed(k)' \subseteq 0 .. Bound' - 1
  BY <1>1, <1>2, <1>5 DEF I
<1>8. \A x : x \in free' <=> x \in 0 .. Bound' - 1 /\ \A k \in I' : k < index' => x \notin Removed(k)'
  BY <1>1, <1>2, <1>6 DEF I
<1> QED BY <1>1, <1>7, <1>8, Zenon DEF FreeInv, FreeSteps, I

LEMMA FreeRemoveFails ==
    ASSUME FreeInv, RemoveFails
    PROVE  FreeInv'
<1>1. /\ step = "remove" /\ step' = "failed to remove" /\ index' = index /\ free' = free
      /\ uefi_memory_map' = uefi_memory_map /\ memory_size' = memory_size
  BY DEF RemoveFails, At, Goto, UnchangedButFrames
<1>2. Bound' = Bound /\ \A k : Removed(k)' = Removed(k)
  BY <1>1, SameRemoved
<1> QED BY <1>1, <1>2 DEF FreeInv, FreeSteps

LEMMA FreeRemoved ==
    ASSUME FreeInv, index \in Nat \ {0}, uefi_memory_map \in Seq(Descriptor), UnusableRemoved
    PROVE  FreeInv'
<1> DEFINE I == 1 .. Len(uefi_memory_map)
<1>1. /\ step = "remove" /\ step' = "reclaim" /\ index' = 1 /\ free' = free
      /\ uefi_memory_map' = uefi_memory_map /\ memory_size' = memory_size
      /\ index > Len(uefi_memory_map)
  BY DEF UnusableRemoved, At, Goto, UnchangedButFrames
<1>2. Bound' = Bound /\ \A k : Removed(k)' = Removed(k)
  BY <1>1, SameRemoved
<1>3. \A k \in I : k < index /\ ~(k < 1)
  <2>1. index > Len(uefi_memory_map) /\ Len(uefi_memory_map) \in Nat
    BY <1>1
  <2> QED BY <2>1
<1>4. /\ \A k \in I : k < index => Removed(k) \subseteq 0 .. Bound - 1
      /\ \A x : x \in free <=> x \in 0 .. Bound - 1 /\ \A k \in I : k < index => x \notin Removed(k)
  BY <1>1 DEF FreeInv
<1> HIDE DEF I
<1>5. /\ \A k \in I : Removed(k) \subseteq 0 .. Bound - 1
      /\ \A x : x \in free <=> x \in 0 .. Bound - 1 /\ \A k \in I : x \notin Removed(k)
  BY <1>3, <1>4
<1>6. \A k \in I' : Removed(k)' \subseteq 0 .. Bound' - 1
  BY <1>1, <1>2, <1>5 DEF I
<1>7. \A x : x \in free' <=>
         \/ x \in 0 .. Bound' - 1 /\ \A k \in I' : x \notin Removed(k)'
         \/ \E k \in I' : /\ uefi_memory_map'[k].type \in Reclaimed
                          /\ x \in DescFrames(uefi_memory_map'[k])
                          /\ step' = "reclaim" => k < index'
  BY <1>1, <1>2, <1>3, <1>5 DEF I
<1> QED BY <1>1, <1>6, <1>7, Zenon DEF FreeInv, FreeSteps, I

LEMMA FreeReclaim ==
    ASSUME FreeInv, index \in Nat \ {0}, uefi_memory_map \in Seq(Descriptor), FreeUefiMemory
    PROVE  FreeInv'
<1> DEFINE I == 1 .. Len(uefi_memory_map)
           Back(k, x) == uefi_memory_map[k].type \in Reclaimed /\ x \in DescFrames(uefi_memory_map[k])
           Stays(x) == x \in 0 .. Bound - 1 /\ \A k \in I : x \notin Removed(k)
<1>1. /\ step = "reclaim" /\ step' = "reclaim" /\ index' = index + 1
      /\ free' = free \cup (IF uefi_memory_map[index].type \in Reclaimed
                            THEN DescFrames(uefi_memory_map[index]) ELSE {})
      /\ uefi_memory_map' = uefi_memory_map /\ memory_size' = memory_size
      /\ index <= Len(uefi_memory_map)
  BY DEF FreeUefiMemory, At, UnchangedButFrames
<1>2. Bound' = Bound /\ \A k : Removed(k)' = Removed(k)
  BY <1>1, SameRemoved
<1>3. index \in I /\ \A k \in I : k < index + 1 <=> k < index \/ k = index
  <2>1. index <= Len(uefi_memory_map) /\ Len(uefi_memory_map) \in Nat
    BY <1>1
  <2> QED BY <2>1
<1>4. /\ \A k \in I : Removed(k) \subseteq 0 .. Bound - 1
      /\ \A x : x \in free <=> Stays(x) \/ \E k \in I : Back(k, x) /\ k < index
  BY <1>1 DEF FreeInv
<1>5. \A x : x \in free' <=> x \in free \/ Back(index, x)
  BY <1>1
<1> HIDE DEF I, Back, Stays
<1>6. \A x : x \in free' <=> Stays(x) \/ \E k \in I : Back(k, x) /\ k < index + 1
  <2>1. ASSUME NEW x PROVE x \in free' <=> Stays(x) \/ \E k \in I : Back(k, x) /\ k < index + 1
    <3>1. (\E k \in I : Back(k, x) /\ k < index + 1) <=> (\E k \in I : Back(k, x) /\ k < index) \/ Back(index, x)
      BY <1>3
    <3> QED BY <1>4, <1>5, <3>1, Zenon
  <2> QED BY <2>1
<1>7. \A k \in I' : Removed(k)' \subseteq 0 .. Bound' - 1
  BY <1>1, <1>2, <1>4 DEF I
<1>8. \A x : x \in free' <=>
         \/ x \in 0 .. Bound' - 1 /\ \A k \in I' : x \notin Removed(k)'
         \/ \E k \in I' : /\ uefi_memory_map'[k].type \in Reclaimed
                          /\ x \in DescFrames(uefi_memory_map'[k])
                          /\ step' = "reclaim" => k < index'
  BY <1>1, <1>2, <1>6 DEF I, Stays, Back
<1> QED BY <1>1, <1>7, <1>8, Zenon DEF FreeInv, FreeSteps, I

LEMMA FreeFreed ==
    ASSUME FreeInv, index \in Nat \ {0}, uefi_memory_map \in Seq(Descriptor), UefiMemoryFreed
    PROVE  FreeInv'
<1> DEFINE I == 1 .. Len(uefi_memory_map)
<1>1. /\ step = "reclaim" /\ step' = "running" /\ index' = index /\ free' = free
      /\ uefi_memory_map' = uefi_memory_map /\ memory_size' = memory_size
      /\ index > Len(uefi_memory_map)
  BY DEF UefiMemoryFreed, At, Goto, UnchangedButFrames
<1>2. Bound' = Bound /\ \A k : Removed(k)' = Removed(k)
  BY <1>1, SameRemoved
<1>3. \A k \in I : k < index
  <2>1. index > Len(uefi_memory_map) /\ Len(uefi_memory_map) \in Nat
    BY <1>1
  <2> QED BY <2>1
<1>4. /\ \A k \in I : Removed(k) \subseteq 0 .. Bound - 1
      /\ \A x : x \in free <=>
           \/ x \in 0 .. Bound - 1 /\ \A k \in I : x \notin Removed(k)
           \/ \E k \in I : /\ uefi_memory_map[k].type \in Reclaimed
                           /\ x \in DescFrames(uefi_memory_map[k])
                           /\ k < index
  BY <1>1 DEF FreeInv
<1> HIDE DEF I
<1>6. \A k \in I' : Removed(k)' \subseteq 0 .. Bound' - 1
  BY <1>1, <1>2, <1>4 DEF I
<1>7. \A x : x \in free' <=>
         \/ x \in 0 .. Bound' - 1 /\ \A k \in I' : x \notin Removed(k)'
         \/ \E k \in I' : /\ uefi_memory_map'[k].type \in Reclaimed
                          /\ x \in DescFrames(uefi_memory_map'[k])
                          /\ step' = "reclaim" => k < index'
  BY <1>1, <1>2, <1>3, <1>4 DEF I
<1> QED BY <1>1, <1>6, <1>7, Zenon DEF FreeInv, FreeSteps, I

-----------------------------------------------------------------------------
(* Boot memory: the free lists at the end.                                 *)

LEMMA InDescriptor ==
    ASSUME NEW d, d.physical_start \in Nat, d.num_pages \in Nat
    PROVE  \A x : x \in DescFrames(d) <=> x \in Int /\ d.physical_start <= x /\ x < End(d)
BY DEF DescFrames, End

\* Every frame of memory is in a descriptor or in the gap before one.
LEMMA MapCovers ==
    ASSUME NEW m \in MemoryMaps, NEW v, Cut(m, v), NEW x \in Nat, x < End(m[Len(m)])
    PROVE  \E k \in 1 .. Len(m) : /\ x < End(v[k])
                                  /\ \/ v[k].physical_start <= x
                                     \/ k # 1 /\ End(v[k - 1]) <= x /\ x < v[k].physical_start
<1>1. /\ Len(v) = Len(m) /\ Len(m) \in Nat /\ Len(m) >= 1
      /\ \A k \in 1 .. Len(m) : /\ v[k].physical_start \in Nat /\ End(v[k]) \in Nat
                                /\ End(v[k]) = End(m[k])
                                /\ v[k].physical_start # m[k].physical_start => k # 1
  BY CutNumbers
<1>2. m[1].physical_start = 0
  BY MapOrdered
<1> DEFINE S == {k \in 1 .. Len(m) : x < End(v[k])}
           k == Min(S)
<1>3. Len(m) \in S /\ S \in SUBSET Nat
  <2>1. Len(m) \in 1 .. Len(m)
    BY <1>1
  <2> QED BY <1>1, <2>1
<1>4. k \in S /\ \A j \in S : k <= j
  <2> HIDE DEF S
  <2> QED BY <1>3, MinOf
<1> HIDE DEF k
<1>5. k \in 1 .. Len(m) /\ x < End(v[k]) /\ v[k].physical_start \in Nat
  BY <1>1, <1>4
<1>6. CASE v[k].physical_start <= x
  BY <1>5, <1>6
<1>7. CASE x < v[k].physical_start
  <2>1. k # 1
    <3> SUFFICES ASSUME k = 1 PROVE FALSE
      OBVIOUS
    <3>1. v[1].physical_start = 0
      BY <1>1, <1>2, <1>5
    <3> QED BY <1>7, <3>1
  <2>2. k - 1 \in 1 .. Len(m) /\ ~(k <= k - 1)
    BY <1>1, <1>5, <2>1
  <2>3. ~(x < End(v[k - 1])) /\ End(v[k - 1]) \in Nat
    BY <1>1, <1>4, <2>2
  <2>4. End(v[k - 1]) <= x
    BY <2>3
  <2> QED BY <1>5, <1>7, <2>1, <2>4
<1> QED BY <1>5, <1>6, <1>7

\* What is removed on the way to the k-th descriptor is apart from a usable one.
LEMMA RemovedApart ==
    ASSUME uefi_map \in MemoryMaps, Cut(uefi_map, uefi_memory_map),
           NEW k \in 1 .. Len(uefi_map), NEW j \in 1 .. Len(uefi_map),
           uefi_memory_map[k].type \in Usable, NEW x, x \in DescFrames(uefi_memory_map[k])
    PROVE  x \notin Removed(j)
<1> DEFINE u == uefi_map
           v == uefi_memory_map
<1>1. /\ Len(u) \in Nat
      /\ \A i \in 1 .. Len(u) :
            /\ u[i].physical_start \in Nat /\ v[i].physical_start \in Nat /\ End(u[i]) \in Nat
            /\ u[i].physical_start <= v[i].physical_start /\ v[i].physical_start <= End(u[i])
            /\ End(v[i]) = End(u[i]) /\ v[i].num_pages \in Nat
  BY CutNumbers
<1>2. \A i, l \in 1 .. Len(u) : i < l => End(u[i]) <= u[l].physical_start
  BY MapOrdered
<1>3. x \in Int /\ v[k].physical_start <= x /\ x < End(u[k])
  BY <1>1, InDescriptor
<1>4. x \notin Gap(j)
  <2> SUFFICES ASSUME j # 1, x \in End(v[j - 1]) .. v[j].physical_start - 1 PROVE FALSE
    BY DEF Gap, End
  <2>1. j - 1 \in 1 .. Len(u) /\ k \in Int /\ j \in Int
    BY <1>1
  <2>2. End(u[j - 1]) <= x /\ x < v[j].physical_start
    BY <1>1, <1>3, <2>1
  <2>3. CASE k < j
    <3>1. End(u[k]) <= End(u[j - 1])
      <4>1. CASE k = j - 1
        BY <1>1, <2>1, <4>1
      <4>2. CASE k < j - 1
        <5>1. End(u[k]) <= u[j - 1].physical_start
          BY <1>2, <2>1, <4>2
        <5> DEFINE i == j - 1
        <5>2. /\ u[i].physical_start \in Nat /\ v[i].physical_start \in Nat /\ End(u[i]) \in Nat
              /\ u[i].physical_start <= v[i].physical_start /\ v[i].physical_start <= End(u[i])
              /\ End(u[k]) \in Nat /\ End(u[k]) <= u[i].physical_start
          BY <1>1, <2>1, <5>1
        <5> HIDE DEF i
        <5>3. End(u[k]) <= End(u[i])
          BY <5>2
        <5> QED BY <5>3 DEF i
      <4> QED BY <2>1, <2>3, <4>1, <4>2
    <3> QED BY <1>1, <1>3, <2>1, <2>2, <3>1
  <2>4. CASE k = j
    BY <1>1, <1>3, <2>2, <2>4
  <2>5. CASE j < k
    <3>1. End(u[j]) <= u[k].physical_start
      BY <1>2, <2>5
    <3> QED BY <1>1, <1>3, <2>2, <3>1
  <2> QED BY <2>1, <2>3, <2>4, <2>5
<1>5. ASSUME v[j].type \notin Usable, x \in DescFrames(v[j]) PROVE FALSE
  <2>1. u[j].physical_start <= x /\ x < End(u[j]) /\ u[k].physical_start <= x
    <3>1. v[j].physical_start <= x /\ x < End(u[j])
      BY <1>1, <1>5, InDescriptor
    <3> QED BY <1>1, <1>3, <3>1
  <2>2. j = k
    BY <1>3, <2>1, DescriptorsApart
  <2> QED BY <1>5, <2>2
<1> QED BY <1>4, <1>5 DEF Removed

\* What boot keeps is the image and what was taken.
LEMMA KeptIs ==
    ASSUME KeptInv, step \in TableSteps, FrameAllocatorPlaced,
           NEW k \in 1 .. Len(uefi_map), NEW x, x \in DescFrames(uefi_map[k]),
           uefi_map[k].type \in Usable \cup Reclaimed
    PROVE  x \in Kept <=> x \notin DescFrames(uefi_memory_map[k])
<1> DEFINE u == uefi_map
           v == uefi_memory_map
<1>1. /\ u \in MemoryMaps /\ Cut(u, v) /\ KernelOK
      /\ TakenWhole(table_pages) /\ TakenWhole(frame_allocator)
      /\ \A j \in 1 .. Len(u) : Taken(u, v, j) \subseteq Frames(frame_allocator) \cup Frames(table_pages)
  BY DEF KeptInv, TableSteps
<1>2. \A i \in 1 .. Len(u) :
         /\ u[i].physical_start \in Nat /\ v[i].physical_start \in Nat /\ End(u[i]) \in Nat
         /\ u[i].physical_start <= v[i].physical_start /\ v[i].physical_start <= End(u[i])
         /\ End(v[i]) = End(u[i]) /\ v[i].num_pages \in Nat
  BY <1>1, CutNumbers
<1>3. u \in Seq(Descriptor)
  BY <1>1, MapOrdered
<1>4. \A i \in 1 .. Len(u) : u[i].num_pages \in Nat
  BY <1>3, DescriptorIs
<1>5. x \in Int /\ u[k].physical_start <= x /\ x < End(u[k])
  BY <1>2, <1>4, InDescriptor
<1>6. x \in DescFrames(v[k]) <=> v[k].physical_start <= x
  BY <1>2, <1>5, InDescriptor
<1>7. x \in Taken(u, v, k) <=> x < v[k].physical_start
  BY <1>2, <1>5 DEF Taken
<1>8. ASSUME x \notin DescFrames(v[k]) PROVE x \in Kept
  <2>1. x \in Taken(u, v, k)
    BY <1>2, <1>5, <1>6, <1>7, <1>8
  <2> QED BY <1>1, <2>1 DEF Kept
<1>9. ASSUME NEW r, TakenWhole(r), x \in Frames(r) PROVE x < v[k].physical_start
  <2>1. PICK j \in 1 .. Len(u) : Frames(r) \subseteq Taken(u, v, j)
    BY <1>9 DEF TakenWhole
  <2>2. x \in u[j].physical_start .. v[j].physical_start - 1
    BY <1>9, <2>1 DEF Taken
  <2>3. u[j].physical_start <= x /\ x < v[j].physical_start /\ x < End(u[j])
    BY <1>2, <1>5, <2>2
  <2>4. j = k
    BY <1>1, <1>5, <2>3, DescriptorsApart
  <2> QED BY <2>3, <2>4
<1>10. x \notin Frames(kernel)
  <2> SUFFICES ASSUME x \in Frames(kernel) PROVE FALSE
    OBVIOUS
  <2>1. PICK j \in 1 .. Len(u) : /\ u[j].type = "loader code"
                                 /\ kernel = PhysRange(u[j].physical_start, u[j].num_pages)
    BY <1>1 DEF KernelOK
  <2>2. Frames(kernel) = u[j].physical_start .. u[j].physical_start + u[j].num_pages - 1
    BY <1>2, <1>4, <2>1, PhysRangeIs
  <2>3. u[j].physical_start <= x /\ x < u[j].physical_start + u[j].num_pages
    BY <1>2, <1>4, <1>5, <2>2
  <2>4. x < End(u[j])
    BY <2>3 DEF End
  <2>5. j = k
    BY <1>1, <1>5, <2>3, <2>4, DescriptorsApart
  <2> QED BY <2>1, <2>5 DEF Usable, Reclaimed
<1>11. ASSUME x \in Kept PROVE x \notin DescFrames(v[k])
  <2>1. x < v[k].physical_start
    BY <1>1, <1>9, <1>10, <1>11 DEF Kept
  <2> QED BY <1>2, <1>5, <1>6, <2>1
<1> QED BY <1>8, <1>11

\* The usable frames that nobody keeps are free, and no other frame is.
LEMMA FreeExact ==
    ASSUME KeptInv, FreeInv, step \in {"reclaim", "running"}, FrameAllocatorPlaced
    PROVE  /\ \A x \in free : x \in 0 .. Bound - 1 /\ x \notin Kept /\ x \in FramesOf(Usable \cup Reclaimed)
           /\ step = "running" =>
                  \A x \in 0 .. Bound - 1 :
                      x \in FramesOf(Usable \cup Reclaimed) /\ x \notin Kept => x \in free
<1> DEFINE u == uefi_map
           v == uefi_memory_map
           T == Usable \cup Reclaimed
<1>1. /\ u \in MemoryMaps /\ Cut(u, v) /\ step \in TableSteps /\ memory_size \in Nat
      /\ memory_size = End(u[Len(u)])
  BY DEF KeptInv, TableSteps
<1>2. /\ Len(v) = Len(u) /\ Len(u) \in Nat
      /\ \A i \in 1 .. Len(u) :
            /\ u[i].physical_start \in Nat /\ v[i].physical_start \in Nat /\ End(u[i]) \in Nat
            /\ u[i].physical_start <= v[i].physical_start
            /\ End(v[i]) = End(u[i]) /\ v[i].num_pages \in Nat /\ v[i].type = u[i].type
            /\ v[i].physical_start # u[i].physical_start => u[i].type \in Usable
  BY <1>1, CutNumbers
<1>3. u \in Seq(Descriptor)
  BY <1>1, MapOrdered
<1>4. \A i \in 1 .. Len(u) : u[i].num_pages \in Nat
  BY <1>3, DescriptorIs
<1>5. \A x : x \in FramesOf(T) <=> \E k \in 1 .. Len(u) : u[k].type \in T /\ x \in DescFrames(u[k])
  <2>1. \A d : d \in ToSet(u) <=> \E k \in 1 .. Len(u) : u[k] = d
    BY <1>3, ToSetElement
  <2> HIDE DEF u, T
  <2> QED BY <2>1 DEF FramesOf, u
<1>6. ASSUME NEW k \in 1 .. Len(u), NEW x, x \in DescFrames(v[k]) PROVE x \in DescFrames(u[k])
  <2>1. x \in Int /\ v[k].physical_start <= x /\ x < End(u[k])
    BY <1>2, <1>6, InDescriptor
  <2>2. u[k].physical_start <= x
    BY <1>2, <2>1
  <2> QED BY <1>2, <1>4, <2>1, <2>2, InDescriptor
<1>7. ASSUME NEW k \in 1 .. Len(u), NEW x, x \in DescFrames(v[k]), v[k].type \in T
      PROVE  x \notin Kept /\ x \in FramesOf(T)
  <2>1. x \in DescFrames(u[k]) /\ u[k].type \in T
    BY <1>2, <1>6, <1>7
  <2>2. x \in Kept <=> x \notin DescFrames(v[k])
    BY <1>1, <2>1, KeptIs
  <2> QED BY <1>5, <1>7, <2>1, <2>2
<1>8. Bound \in Nat /\ Bound <= memory_size
  BY <1>1, BoundNat
<1>9. /\ \A k \in 1 .. Len(u) : Removed(k) \subseteq 0 .. Bound - 1
      /\ \A x : x \in free <=>
            \/ x \in 0 .. Bound - 1 /\ \A k \in 1 .. Len(u) : x \notin Removed(k)
            \/ \E k \in 1 .. Len(u) : /\ v[k].type \in Reclaimed /\ x \in DescFrames(v[k])
                                      /\ step = "reclaim" => k < index
  BY <1>2 DEF FreeInv
<1>10. ASSUME NEW x \in free PROVE x \in 0 .. Bound - 1 /\ x \notin Kept /\ x \in FramesOf(T)
  <2>1. CASE x \in 0 .. Bound - 1 /\ \A k \in 1 .. Len(u) : x \notin Removed(k)
    <3>1. x \in Nat /\ x < End(u[Len(u)])
      <4>1. memory_size = End(u[Len(u)])
        BY <1>1
      <4>2. x \in Nat /\ x < memory_size
        <5>1. memory_size \in Nat /\ x \in 0 .. Bound - 1
          BY <1>1, <2>1
        <5> QED BY <1>8, <5>1
      <4> QED BY <4>1, <4>2
    <3>2. PICK k \in 1 .. Len(u) : /\ x < End(v[k])
                                   /\ \/ v[k].physical_start <= x
                                      \/ k # 1 /\ End(v[k - 1]) <= x /\ x < v[k].physical_start
      BY <1>1, <3>1, MapCovers
    <3>3. ~(k # 1 /\ End(v[k - 1]) <= x /\ x < v[k].physical_start)
      <4> SUFFICES ASSUME k # 1, End(v[k - 1]) <= x, x < v[k].physical_start PROVE FALSE
        OBVIOUS
      <4>1. k - 1 \in 1 .. Len(u)
        BY <1>2
      <4>2. x \in End(v[k - 1]) .. v[k].physical_start - 1
        <5>1. End(v[k - 1]) \in Nat /\ v[k].physical_start \in Nat /\ x \in Nat
          BY <1>2, <3>1, <4>1
        <5> QED BY <5>1
      <4>3. x \in Gap(k)
        BY <4>2 DEF Gap, End
      <4> QED BY <2>1, <4>3 DEF Removed
    <3>4. x \in DescFrames(v[k])
      <4>1. v[k].physical_start \in Nat /\ v[k].num_pages \in Nat
        BY <1>2
      <4>2. v[k].physical_start <= x /\ x < End(v[k])
        BY <3>2, <3>3
      <4> QED BY <3>1, <4>1, <4>2, InDescriptor
    <3>5. v[k].type \in Usable
      BY <2>1, <3>4 DEF Removed
    <3> QED BY <1>7, <2>1, <3>4, <3>5
  <2>2. CASE \E k \in 1 .. Len(u) : v[k].type \in Reclaimed /\ x \in DescFrames(v[k])
    <3>1. PICK k \in 1 .. Len(u) : v[k].type \in Reclaimed /\ x \in DescFrames(v[k])
      BY <2>2
    <3>2. x \in Removed(k)
      BY <3>1 DEF Removed, Reclaimed, Usable
    <3> QED BY <1>7, <1>9, <3>1, <3>2
  <2> QED BY <1>9, <1>10, <2>1, <2>2
<1>11. ASSUME step = "running", NEW x \in 0 .. Bound - 1, x \in FramesOf(T), x \notin Kept PROVE x \in free
  <2>1. PICK k \in 1 .. Len(u) : u[k].type \in T /\ x \in DescFrames(u[k])
    BY <1>5, <1>11
  <2>2. x \in DescFrames(v[k])
    BY <1>1, <1>11, <2>1, KeptIs
  <2>3. CASE u[k].type \in Reclaimed
    BY <1>2, <1>9, <1>11, <2>2, <2>3
  <2>4. CASE u[k].type \in Usable
    <3>1. \A j \in 1 .. Len(u) : x \notin Removed(j)
      BY <1>1, <1>2, <2>2, <2>4, RemovedApart
    <3> QED BY <1>9, <1>11, <3>1
  <2> QED BY <2>1, <2>3, <2>4
<1> QED BY <1>10, <1>11

\* The free lists never go beyond the memory.
LEMMA FreeBounded ==
    ASSUME KeptInv, FreeInv
    PROVE  free \subseteq 0 .. memory_size - 1
<1>1. /\ memory_size \in Nat /\ step \in FirstSteps \cup CountSteps \cup TableSteps
      /\ uefi_map \in MemoryMaps /\ Cut(uefi_map, uefi_memory_map)
  BY DEF KeptInv
<1>2. Bound \in Nat /\ Bound <= memory_size
  BY <1>1, BoundNat
<1>3. 0 .. Bound - 1 \subseteq 0 .. memory_size - 1
  BY <1>1, <1>2
<1>4. CASE step \notin FreeSteps
  BY <1>4 DEF FreeInv
<1>5. CASE step \in {"remove", "failed to remove"}
  BY <1>3, <1>5 DEF FreeInv
<1>6. CASE step \in {"reclaim", "running"}
  <2>1. ASSUME NEW x \in free PROVE x \in 0 .. Bound - 1
    <3>1. CASE x \in 0 .. Bound - 1
      BY <3>1
    <3>2. CASE \E k \in 1 .. Len(uefi_memory_map) :
                  uefi_memory_map[k].type \in Reclaimed /\ x \in DescFrames(uefi_memory_map[k])
      <4>1. PICK k \in 1 .. Len(uefi_memory_map) :
                  uefi_memory_map[k].type \in Reclaimed /\ x \in DescFrames(uefi_memory_map[k])
        BY <3>2
      <4>2. x \in Removed(k)
        BY <4>1 DEF Removed, Reclaimed, Usable
      <4> QED BY <1>6, <4>2 DEF FreeInv
    <3> QED BY <1>6, <2>1, <3>1, <3>2 DEF FreeInv
  <2> QED BY <1>3, <2>1
<1> QED BY <1>4, <1>5, <1>6 DEF FreeSteps

-----------------------------------------------------------------------------
(* Boot memory: the invariant and the theorems.                            *)

BootInv == KeptInv /\ CountInv /\ TableInv /\ MappedInv /\ FreeInv

LEMMA BootInvInit == BootInit => BootInv
<1> SUFFICES ASSUME BootInit PROVE BootInv
  OBVIOUS
<1>1. KeptInv
  BY KeptInit
<1>2. /\ step = "scan" /\ pd_count = 0 /\ pt_count = 0 /\ allocated = 0 /\ pdp = <<>> /\ mapped = <<>>
      /\ index = 1 /\ free = {}
  BY DEF BootInit
<1>3. CountInv
  BY <1>2 DEF CountInv, FirstSteps, TableSteps
<1>4. TableInv
  BY <1>2 DEF TableInv, TableSteps
<1>5. MappedInv
  BY <1>2 DEF MappedInv, Later, TableSteps
<1>6. FreeInv
  BY <1>2 DEF FreeInv, FreeSteps
<1> QED BY <1>1, <1>3, <1>4, <1>5, <1>6 DEF BootInv

\* The steps after the tables were laid out only change what is mapped and free.
LEMMA LaterSteps ==
    ASSUME BootInv,
           \/ MapRange \/ MapWithoutTable \/ PopulateFreeLists \/ RemoveUnusable \/ RemoveFails
           \/ UnusableRemoved \/ FreeUefiMemory \/ UefiMemoryFreed
    PROVE  /\ step \in Later /\ step' \in Later
           /\ UNCHANGED <<uefi_map, uefi_memory_map, memory_size, kernel, frame_allocator, tableVars>>
           /\ KeptInv' /\ CountInv' /\ TableInv'
           /\ uefi_memory_map \in Seq(Descriptor) /\ index \in Nat \ {0}
<1>1. /\ step \in Later /\ step' \in Later
      /\ UNCHANGED <<uefi_map, uefi_memory_map, memory_size, kernel, frame_allocator, tableVars>>
  <2>1. CASE MapRange
    BY <2>1 DEF MapRange, At, UnchangedButMapped, Later, TableSteps
  <2>2. CASE MapWithoutTable
    BY <2>2 DEF MapWithoutTable, At, Goto, UnchangedButMapped, Later, TableSteps
  <2>3. CASE PopulateFreeLists
    BY <2>3 DEF PopulateFreeLists, At, Goto, UnchangedButFrames, Later, TableSteps
  <2>4. CASE RemoveUnusable
    BY <2>4 DEF RemoveUnusable, At, UnchangedButFrames, Later, TableSteps
  <2>5. CASE RemoveFails
    BY <2>5 DEF RemoveFails, At, Goto, UnchangedButFrames, Later, TableSteps
  <2>6. CASE UnusableRemoved
    BY <2>6 DEF UnusableRemoved, At, Goto, UnchangedButFrames, Later, TableSteps
  <2>7. CASE FreeUefiMemory
    BY <2>7 DEF FreeUefiMemory, At, UnchangedButFrames, Later, TableSteps
  <2>8. CASE UefiMemoryFreed
    BY <2>8 DEF UefiMemoryFreed, At, Goto, UnchangedButFrames, Later, TableSteps
  <2> QED BY <2>1, <2>2, <2>3, <2>4, <2>5, <2>6, <2>7, <2>8
<1>2. KeptInv /\ CountInv /\ TableInv /\ MappedInv
  BY DEF BootInv
<1>3. KeptInv'
  BY <1>1, <1>2, KeptSame DEF Later, tableVars
<1>4. CountInv'
  BY <1>1, <1>2, CountSame DEF Later, tableVars
<1>5. TableInv'
  BY <1>1, <1>2, TableSame DEF Later
<1>6. uefi_memory_map \in Seq(Descriptor) /\ index \in Nat \ {0}
  BY <1>2 DEF KeptInv, Cut, MappedInv
<1> QED BY <1>1, <1>3, <1>4, <1>5, <1>6

LEMMA BootInvScan == ASSUME BootInv, ScanMemoryMap PROVE BootInv'
<1>1. KeptInv /\ CountInv /\ TableInv /\ MappedInv /\ FreeInv
  BY DEF BootInv
<1>2. /\ step = "scan" /\ step' \in {"no kernel", "frame allocator"}
      /\ UNCHANGED <<tableVars, mapped, index, free>>
  BY DEF ScanMemoryMap, At, Goto
<1>3. KeptInv'
  BY <1>1, KeptScan
<1>4. CountInv'
  BY <1>1, <1>2, CountSame DEF FirstSteps, tableVars
<1>5. TableInv'
  BY <1>1, <1>2, TableSame DEF TableSteps
<1>6. MappedInv' /\ FreeInv'
  BY <1>1, <1>2, MappedSame, FreeSame DEF Later, TableSteps, FreeSteps
<1> QED BY <1>3, <1>4, <1>5, <1>6 DEF BootInv

LEMMA BootInvFrameAllocator == ASSUME BootInv, AllocFrameAllocatorMemory PROVE BootInv'
<1>1. KeptInv /\ CountInv /\ TableInv /\ MappedInv /\ FreeInv
  BY DEF BootInv
<1>2. /\ step = "frame allocator" /\ step' = "count directories"
      /\ UNCHANGED <<tableVars, mapped, index, free>>
  BY DEF AllocFrameAllocatorMemory, At, Goto
<1>3. KeptInv'
  BY <1>1, KeptFrameAllocator
<1>4. CountInv'
  BY <1>1, <1>2, CountSame DEF FirstSteps, tableVars
<1>5. TableInv'
  BY <1>1, <1>2, TableSame DEF TableSteps
<1>6. MappedInv' /\ FreeInv'
  BY <1>1, <1>2, MappedSame, FreeSame DEF Later, TableSteps, FreeSteps
<1> QED BY <1>3, <1>4, <1>5, <1>6 DEF BootInv

LEMMA BootInvCounting ==
    ASSUME BootInv, StartCounting \/ CountDirectory \/ CountTable \/ AllocTablePagesFails
    PROVE  BootInv'
<1>1. KeptInv /\ CountInv /\ TableInv /\ MappedInv /\ FreeInv
  BY DEF BootInv
<1>2. /\ step \in CountSteps /\ step' \in CountSteps /\ UnchangedButCounts
  <2>1. CASE StartCounting
    BY <2>1 DEF StartCounting, At, CountSteps
  <2>2. CASE CountDirectory
    BY <2>2 DEF CountDirectory, At, Goto, CountSteps
  <2>3. CASE CountTable
    BY <2>3 DEF CountTable, At, Goto, CountSteps
  <2>4. CASE AllocTablePagesFails
    BY <2>4 DEF AllocTablePagesFails, At, Goto, CountSteps
  <2> QED BY <2>1, <2>2, <2>3, <2>4
<1>3. KeptInv'
  BY <1>1, <1>2, KeptSame DEF UnchangedButCounts
<1>4. CountInv'
  <2>1. CASE AllocTablePagesFails
    BY <1>1, <2>1, CountSame DEF AllocTablePagesFails, Goto, UnchangedButCounts
  <2> QED BY <1>1, <2>1, CountStart, CountMoreDirectories, CountMoreTables
<1>5. step \notin TableSteps /\ step' \notin TableSteps
  BY <1>2 DEF CountSteps, TableSteps
<1>6. TableInv'
  BY <1>1, <1>2, <1>5, TableCounting DEF UnchangedButCounts
<1>7. MappedInv' /\ FreeInv'
  BY <1>1, <1>2, <1>5, MappedSame, FreeSame DEF UnchangedButCounts, Later, TableSteps, FreeSteps
<1> QED BY <1>3, <1>4, <1>6, <1>7 DEF BootInv

LEMMA BootInvTables == ASSUME BootInv, AllocTablePages PROVE BootInv'
<1>1. KeptInv /\ CountInv /\ TableInv /\ MappedInv /\ FreeInv
  BY DEF BootInv
<1>2. /\ step = "allocate tables" /\ step' = "populate" /\ kernel' = kernel /\ frame_allocator' = frame_allocator
      /\ pd_count' = pd_count /\ pt_count' = pt_count /\ UNCHANGED <<mapped, index, free>>
  BY DEF AllocTablePages, At, Goto
<1>3. KeptInv'
  BY <1>1, KeptTables DEF CountInv
<1>4. CountInv'
  BY <1>1, <1>2, CountSame DEF TableSteps
<1>5. TableInv'
  BY <1>1, TableAlloc
<1>6. MappedInv' /\ FreeInv'
  BY <1>1, <1>2, MappedSame, FreeSame DEF Later, TableSteps, FreeSteps
<1> QED BY <1>3, <1>4, <1>5, <1>6 DEF BootInv

LEMMA BootInvPopulate == ASSUME BootInv, PopulateDirectory \/ Populated PROVE BootInv'
<1>1. KeptInv /\ CountInv /\ TableInv /\ MappedInv /\ FreeInv
  BY DEF BootInv
<1>2. step = "populate" /\ step' \in {"populate", "map"} /\ UnchangedButPdp
  BY DEF PopulateDirectory, Populated, At, Goto
<1>3. KeptInv'
  BY <1>1, <1>2, KeptSame DEF UnchangedButPdp, TableSteps
<1>4. CountInv'
  BY <1>1, <1>2, CountSame DEF UnchangedButPdp, TableSteps
<1>5. TableInv'
  BY <1>1, TablePopulate, TablePopulated
<1>6. FreeInv'
  BY <1>1, <1>2, FreeSame DEF UnchangedButPdp, FreeSteps
<1>7. MappedInv'
  <2>1. CASE PopulateDirectory
    <3>1. step' = "populate"
      BY <1>2, <2>1 DEF PopulateDirectory
    <3> QED BY <1>1, <1>2, <3>1, MappedSame DEF UnchangedButPdp, Later
  <2>2. CASE Populated
    BY <1>1, <2>2, MappedStart
  <2> QED BY <2>1, <2>2
<1> QED BY <1>3, <1>4, <1>5, <1>6, <1>7 DEF BootInv

LEMMA BootInvMap == ASSUME BootInv, MapRange \/ MapWithoutTable PROVE BootInv'
<1>1. KeptInv /\ CountInv /\ TableInv /\ MappedInv /\ FreeInv
  BY DEF BootInv
<1>2. /\ step \in Later /\ step' \in Later
      /\ UNCHANGED <<uefi_map, uefi_memory_map, memory_size, kernel, frame_allocator, tableVars>>
      /\ KeptInv' /\ CountInv' /\ TableInv' /\ index \in Nat \ {0}
  BY LaterSteps
<1>3. step = "map" /\ step' \in {"map", "no table"} /\ free' = free
  BY DEF MapRange, MapWithoutTable, At, Goto, UnchangedButMapped
<1>4. FreeInv'
  BY <1>1, <1>3, FreeSame DEF FreeSteps
<1>5. MappedInv'
  <2>1. CASE MapRange
    BY <1>1, <2>1, MappedMore
  <2>2. CASE MapWithoutTable
    <3>1. step' = "no table" /\ mapped' = mapped /\ index' = index
      BY <2>2 DEF MapWithoutTable, Goto
    <3> QED BY <1>1, <1>2, <3>1, MappedSame
  <2> QED BY <2>1, <2>2
<1> QED BY <1>2, <1>4, <1>5 DEF BootInv

LEMMA BootInvFree ==
    ASSUME BootInv,
           \/ PopulateFreeLists \/ RemoveUnusable \/ RemoveFails \/ UnusableRemoved
           \/ FreeUefiMemory \/ UefiMemoryFreed
    PROVE  BootInv'
<1>1. KeptInv /\ CountInv /\ TableInv /\ MappedInv /\ FreeInv
  BY DEF BootInv
<1>2. /\ step \in Later /\ step' \in Later
      /\ UNCHANGED <<uefi_map, uefi_memory_map, memory_size, kernel, frame_allocator, tableVars>>
      /\ KeptInv' /\ CountInv' /\ TableInv' /\ index \in Nat \ {0} /\ uefi_memory_map \in Seq(Descriptor)
  BY LaterSteps
<1>3. FreeInv'
  BY <1>1, <1>2, FreePopulate, FreeRemove, FreeRemoveFails, FreeRemoved, FreeReclaim, FreeFreed
<1>4. step' # "map" /\ mapped' = mapped /\ (index' = index \/ index' = 1 \/ index' = index + 1)
  <2>1. CASE PopulateFreeLists
    BY <2>1 DEF PopulateFreeLists, Goto, UnchangedButFrames
  <2>2. CASE RemoveUnusable
    BY <2>2 DEF RemoveUnusable, At, UnchangedButFrames
  <2>3. CASE RemoveFails
    BY <2>3 DEF RemoveFails, Goto, UnchangedButFrames
  <2>4. CASE UnusableRemoved
    BY <2>4 DEF UnusableRemoved, Goto, UnchangedButFrames
  <2>5. CASE FreeUefiMemory
    BY <2>5 DEF FreeUefiMemory, At, UnchangedButFrames
  <2>6. CASE UefiMemoryFreed
    BY <2>6 DEF UefiMemoryFreed, Goto, UnchangedButFrames
  <2> QED BY <2>1, <2>2, <2>3, <2>4, <2>5, <2>6
<1>5. index' \in Nat \ {0}
  <2>1. index' = index \/ index' = 1 \/ index' = index + 1
    BY <1>4
  <2>2. index \in Nat \ {0}
    BY <1>2
  <2> QED BY <2>1, <2>2
<1>6. MappedInv'
  BY <1>1, <1>2, <1>4, <1>5, MappedSame
<1> QED BY <1>2, <1>3, <1>6 DEF BootInv

LEMMA BootInvSame == ASSUME BootInv, UNCHANGED bootVars PROVE BootInv'
<1>1. KeptInv /\ CountInv /\ TableInv /\ MappedInv /\ FreeInv
  BY DEF BootInv
<1>2. UNCHANGED <<uefi_map, uefi_memory_map, step, memory_size, kernel, frame_allocator, tableVars,
                  mapped, index, free>>
  BY DEF bootVars
<1>3. KeptInv' /\ CountInv'
  BY <1>1, <1>2, KeptSame, CountSame DEF tableVars
<1>4. TableInv'
  BY <1>1, <1>2, TableSame
<1>5. MappedInv'
  BY <1>1, <1>2, MappedSame DEF MappedInv
<1>6. FreeInv'
  BY <1>1, <1>2, FreeSame
<1> QED BY <1>3, <1>4, <1>5, <1>6 DEF BootInv

LEMMA BootInvNext == BootInv /\ [BootNext]_bootVars => BootInv'
<1> SUFFICES ASSUME BootInv, [BootNext]_bootVars PROVE BootInv'
  OBVIOUS
<1>1. CASE ScanMemoryMap \/ AllocFrameAllocatorMemory
  BY <1>1, BootInvScan, BootInvFrameAllocator
<1>2. CASE StartCounting \/ CountDirectory \/ CountTable \/ AllocTablePages \/ AllocTablePagesFails
  BY <1>2, BootInvCounting, BootInvTables
<1>3. CASE PopulateDirectory \/ Populated \/ MapRange \/ MapWithoutTable
  BY <1>3, BootInvPopulate, BootInvMap
<1>4. CASE \/ PopulateFreeLists \/ RemoveUnusable \/ RemoveFails \/ UnusableRemoved
           \/ FreeUefiMemory \/ UefiMemoryFreed
  BY <1>4, BootInvFree
<1>5. CASE UNCHANGED bootVars
  BY <1>5, BootInvSame
<1> QED BY <1>1, <1>2, <1>3, <1>4, <1>5 DEF BootNext, Boot, Stopped

LEMMA BootInvAlways == BootSpec => []BootInv
BY BootInvInit, BootInvNext, PTL DEF BootSpec

LEMMA BootInvTypes == BootInv => TypeOK
<1> SUFFICES ASSUME BootInv PROVE TypeOK
  OBVIOUS
<1>1. KeptInv /\ CountInv /\ TableInv /\ MappedInv /\ FreeInv
  BY DEF BootInv
<1>2. free \subseteq 0 .. memory_size - 1
  BY <1>1, FreeBounded
<1>3. step \in Stops \cup {"scan", "frame allocator", "count directories", "count tables",
                           "allocate tables", "populate", "map", "remove", "reclaim"}
  BY <1>1 DEF KeptInv, FirstSteps, CountSteps, TableSteps, Stops
<1>4. uefi_map \in MemoryMaps /\ uefi_memory_map \in Seq(Descriptor) /\ memory_size \in Nat
      /\ {kernel, frame_allocator, table_pages} \subseteq PhysRanges
  BY <1>1 DEF KeptInv, Cut
<1>5. pd_count \in Nat /\ pt_count \in Nat /\ allocated \in Nat /\ pdp \in Seq(PhysRanges)
  BY <1>1 DEF CountInv, TableInv
<1>6. mapped \in Seq(Nat) /\ index \in Nat \ {0}
  BY <1>1 DEF MappedInv
<1> QED BY <1>2, <1>3, <1>4, <1>5, <1>6 DEF TypeOK

\* Every frame that is mapped is one boot keeps.
LEMMA MappedKept ==
    ASSUME BootInv, step \in Later
    PROVE  ToSet(mapped) \subseteq Kept
<1>1. KeptInv /\ CountInv /\ TableInv /\ MappedInv
  BY DEF BootInv
<1>2. mapped \in Seq(Nat) /\ \A p \in 1 .. Len(mapped) : \E k \in 1 .. Len(ToMap) : mapped[p] \in Frames(ToMap[k])
  BY <1>1 DEF MappedInv
<1>3. ToMap[1] = kernel /\ ToMap[4] = frame_allocator
  BY <1>1, ToMapIs
<1>4. ASSUME NEW k \in 1 .. Len(ToMap) PROVE Frames(ToMap[k]) \subseteq Kept
  <2>1. CASE k = 1 \/ k = 4
    BY <1>3, <2>1 DEF Kept
  <2>2. CASE k # 1 /\ k # 4
    BY <1>1, <2>2, TablesWithin DEF Kept
  <2> QED BY <2>1, <2>2
<1>5. \A x \in ToSet(mapped) : \E p \in 1 .. Len(mapped) : mapped[p] = x
  BY <1>2, ToSetElement
<1> QED BY <1>2, <1>4, <1>5

\* initialize_paging maps no frame at two addresses, whatever the firmware's memory
\* map: the image, the page of entries, the pool, the frame allocator's memory, the PDP
\* and every directory with its tables are pairwise apart.  The arithmetic of the two
\* counting loops, which wraps, leaves enough pages for what populate uses.
THEOREM FramesMappedOnce == BootSpec => []NoFrameMappedTwice
<1>1. BootInv => NoFrameMappedTwice
  <2> SUFFICES ASSUME BootInv, FrameAllocatorPlaced PROVE IsInjective(mapped)
    BY DEF NoFrameMappedTwice
  <2>1. MappedInv
    BY DEF BootInv
  <2>2. CASE step \in Later
    BY <2>1, <2>2 DEF MappedInv
  <2>3. CASE step \notin Later
    <3>1. mapped = <<>>
      BY <2>1, <2>3 DEF MappedInv
    <3> QED BY <3>1 DEF IsInjective
  <2> QED BY <2>2, <2>3
<1> QED BY <1>1, BootInvAlways, PTL

\* When boot has handed memory over to the frame allocator, the free lists hold exactly
\* the frames the firmware left usable and boot did not keep, up to the last block of
\* the largest order; no mapped frame is ever free.
THEOREM FreeFramesAlwaysExact == BootSpec => []FreeFramesExact
<1>1. BootInv => FreeFramesExact
  <2> SUFFICES ASSUME BootInv PROVE FreeFramesExact
    OBVIOUS
  <2>1. TypeOK
    BY BootInvTypes
  <2>2. KeptInv /\ FreeInv
    BY DEF BootInv
  <2>3. ASSUME step \in {"reclaim", "running"}, FrameAllocatorPlaced PROVE ToSet(mapped) \cap free = {}
    <3>1. step \in Later
      BY <2>3 DEF Later, TableSteps
    <3> QED BY <2>2, <2>3, <3>1, MappedKept, FreeExact
  <2>4. ASSUME step = "running", FrameAllocatorPlaced
        PROVE  free = (FramesOf(Usable \cup Reclaimed) \ Kept)
                          \cap (0 .. (memory_size \div MaxBlock) * MaxBlock - 1)
    <3>1. step \in {"reclaim", "running"}
      BY <2>4
    <3>2. /\ \A x \in free : x \in 0 .. Bound - 1 /\ x \notin Kept /\ x \in FramesOf(Usable \cup Reclaimed)
          /\ \A x \in 0 .. Bound - 1 :
                      x \in FramesOf(Usable \cup Reclaimed) /\ x \notin Kept => x \in free
      BY <2>2, <2>4, <3>1, FreeExact
    <3>3. free = (FramesOf(Usable \cup Reclaimed) \ Kept) \cap (0 .. Bound - 1)
      BY <3>2
    <3> QED BY <3>3 DEF Bound
  <2> QED BY <2>1, <2>3, <2>4 DEF FreeFramesExact
<1> QED BY <1>1, BootInvAlways, PTL

=============================================================================
