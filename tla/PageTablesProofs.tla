-------------------------- MODULE PageTablesProofs --------------------------
(***************************************************************************)
(* Theorems about the page tables, for every pool size, every directory,   *)
(* every free list after boot and every sequence of requests: the counts   *)
(* of the two pools, and the use of every frame, while refills run inside  *)
(* the mappings that need them; and that no refill starts another one of   *)
(* the same pool.                                                          *)
(***************************************************************************)
EXTENDS PageTables, Lemmas, FiniteSetTheorems, TLAPS

-----------------------------------------------------------------------------
(* The inductive invariant.                                                *)

\* The ends of the blocks of an allocation ascend and lie in the allocation.
EndsOK(f) ==
    /\ \A a \in DOMAIN f.ends : f.ends[a] \in 1 .. f.pages
    /\ \A a, b \in DOMAIN f.ends : a < b => f.ends[a] < f.ends[b]

\* The blocks of an allocation make up all of it.
Complete(f) == f.ends # <<>> /\ Last(f.ends) = f.pages

\* What is known of a call at its program counter.
RecordOK(f) ==
    /\ f.pages > 0
    /\ f.kind \in {"user_table", "entry_pool"} => f.pages = 1
    /\ f.kind = "page_pool" => f.pages = PAGE_POOL_THRESHOLD
    /\ EndsOK(f)
    /\ f.pc = "alloc" => f.order + 1 \in Orders /\ f.i = 0
    /\ f.pc = "split" => f.order # 0 /\ f.i = 0
    /\ f.pc \in {"map", "install"} => Complete(f) /\ f.addr + f.pages < Limit
    /\ f.pc = "install" => f.i < f.pages
    /\ f.pc = "take" => f.kind = "user_table"
    /\ f.pc = "populate" =>
        /\ f.kind = "page_pool"
        /\ f.ends = <<>> => f.i = f.pages
        /\ f.ends # <<>> => Complete(f) /\ f.i <= Head(f.ends)

TypeInv == TypeOK /\ \A l \in DOMAIN stack : RecordOK(stack[l])

\* The frames that were allocated for a call and are not in the pool yet.
FirstOwned(f) == IF f.pc = "populate" THEN f.frame + f.i ELSE f.frame
Owned(f) == IF f.pc \in {"alloc", "split"} THEN {} ELSE FirstOwned(f) .. f.frame + f.pages - 1

\* The frames that are tables or are kept for tables.
IsTable(x) ==
    \/ x # NoTable /\ \E t \in DOMAIN pd : pd[t] = x
    \/ \E k \in DOMAIN pool : pool[k].phys_addr = x
    \/ \E e \in user_maps : e.phys_addr = x

OwnedInv ==
    /\ \A x \in Nat : IsTable(x) => x < next_frame
    /\ \A l \in DOMAIN stack : \A x \in Owned(stack[l]) : x < next_frame /\ ~IsTable(x)
    /\ \A l, k \in DOMAIN stack : l # k => Owned(stack[l]) \cap Owned(stack[k]) = {}

\* Every frame has one use.
UseInv ==
    /\ \A t \in DOMAIN pd : pd[t] # NoTable => \E e \in entry_maps : e.phys_addr = pd[t]
    /\ \A k, l \in DOMAIN pool : pool[k].phys_addr = pool[l].phys_addr => k = l
    /\ \A k \in DOMAIN pool : \A t \in DOMAIN pd : pool[k].phys_addr # pd[t]
    /\ \A e \in user_maps : /\ \A t \in DOMAIN pd : pd[t] # e.phys_addr
                            /\ \A k \in DOMAIN pool : pool[k].phys_addr # e.phys_addr
    /\ \A t, u \in DOMAIN pd : pd[t] = pd[u] /\ pd[t] # NoTable => t = u

EntryRefills == {l \in DOMAIN stack : stack[l].kind = "entry_pool"}

PoolCounts ==
    /\ count = Len(pool) + Cardinality(Outstanding)
    /\ entry_count = entries + ENTRY_THRESHOLD * Cardinality(EntryRefills)

PoolInv == TypeInv /\ OwnedInv /\ UseInv /\ PoolCounts

-----------------------------------------------------------------------------
(* Sequences.                                                              *)

\* Without its last element.
LEMMA FrontOf ==
    ASSUME NEW S, NEW s \in Seq(S), s # <<>>
    PROVE  /\ Front(s) \in Seq(S) /\ Len(Front(s)) = Len(s) - 1
           /\ \A l \in 1 .. Len(s) - 1 : Front(s)[l] = s[l]
           /\ Len(s) \in Nat \ {0} /\ Last(s) = s[Len(s)] /\ Last(s) \in S
<1>1. Len(s) \in Nat \ {0} /\ s[Len(s)] \in S
  OBVIOUS
<1>2. \A l \in 1 .. Len(s) - 1 : s[l] \in S
  OBVIOUS
<1> DEFINE n == Len(s) - 1
<1>3. n \in Int /\ 1 \in Int /\ \A i \in 1 .. n : s[i] \in S
  BY <1>1, <1>2
<1> HIDE DEF n
<1>4. /\ SubSeq(s, 1, n) \in Seq(S)
      /\ Len(SubSeq(s, 1, n)) = IF 1 <= n THEN n - 1 + 1 ELSE 0
      /\ \A i \in 1 .. n - 1 + 1 : SubSeq(s, 1, n)[i] = s[1 + i - 1]
  BY <1>3, SubSeqProperties
<1>5. n \in Nat
  BY <1>1 DEF n
<1>6. n - 1 + 1 = n /\ \A i \in 1 .. n : 1 + i - 1 = i
  BY <1>5
<1>7. Len(SubSeq(s, 1, n)) = n
  BY <1>4, <1>5
<1>8. \A i \in 1 .. n : SubSeq(s, 1, n)[i] = s[i]
  BY <1>4, <1>6
<1> QED BY <1>1, <1>4, <1>7, <1>8 DEF n, Front, Last

\* With another last element.
LEMMA LastReplaced ==
    ASSUME NEW S, NEW s \in Seq(S), s # <<>>, NEW x \in S
    PROVE  LET r == [s EXCEPT ![Len(s)] = x]
           IN  /\ r \in Seq(S) /\ Len(r) = Len(s) /\ r # <<>>
               /\ r[Len(s)] = x /\ \A l \in 1 .. Len(s) - 1 : r[l] = s[l]
<1>1. Len(s) \in Nat \ {0}
  OBVIOUS
<1> QED BY <1>1

\* With one more element.
LEMMA OneMore ==
    ASSUME NEW S, NEW s \in Seq(S), NEW x \in S
    PROVE  /\ Append(s, x) \in Seq(S) /\ Len(Append(s, x)) = Len(s) + 1
           /\ Append(s, x)[Len(s) + 1] = x
           /\ \A l \in 1 .. Len(s) : Append(s, x)[l] = s[l]
OBVIOUS

\* The innermost call goes on.
LEMMA ContinueStack ==
    ASSUME TypeOK, stack # <<>>, NEW f \in Activation, Continue(f)
    PROVE  /\ stack' \in Seq(Activation) /\ Len(stack') = Len(stack)
           /\ Len(stack) \in Nat \ {0} /\ Top = stack[Len(stack)]
           /\ stack'[Len(stack)] = f /\ \A l \in 1 .. Len(stack) - 1 : stack'[l] = stack[l]
<1>1. stack \in Seq(Activation)
  BY DEF TypeOK
<1>2. Len(stack) \in Nat \ {0} /\ Top = stack[Len(stack)]
  BY <1>1, FrontOf DEF Top
<1>3. stack' = [stack EXCEPT ![Len(stack)] = f]
  BY DEF Continue
<1> QED BY <1>1, <1>2, <1>3, LastReplaced

\* The innermost call returns.
LEMMA PopStack ==
    ASSUME TypeOK, stack # <<>>, stack' = Front(stack)
    PROVE  /\ stack' \in Seq(Activation) /\ Len(stack') = Len(stack) - 1
           /\ Len(stack) \in Nat \ {0} /\ Top = stack[Len(stack)]
           /\ \A l \in 1 .. Len(stack) - 1 : stack'[l] = stack[l]
<1>1. stack \in Seq(Activation)
  BY DEF TypeOK
<1> QED BY <1>1, FrontOf DEF Top

\* A call begins.
LEMMA PushStack ==
    ASSUME TypeOK, NEW f \in Activation, stack' = Append(stack, f)
    PROVE  /\ stack' \in Seq(Activation) /\ Len(stack') = Len(stack) + 1
           /\ Len(stack) \in Nat /\ stack'[Len(stack) + 1] = f
           /\ \A l \in 1 .. Len(stack) : stack'[l] = stack[l]
<1>1. stack \in Seq(Activation)
  BY DEF TypeOK
<1> QED BY <1>1, OneMore

\* The innermost call is an activation record of its type.
LEMMA TopIs ==
    ASSUME TypeInv, stack # <<>>
    PROVE  /\ Top \in Activation /\ RecordOK(Top)
           /\ Len(stack) \in DOMAIN stack /\ Top = stack[Len(stack)] /\ Len(stack) \in Nat \ {0}
<1>1. /\ Top \in Activation /\ Top = stack[Len(stack)] /\ Len(stack) \in Nat \ {0}
  BY FrontOf DEF TypeInv, TypeOK, Top
<1>2. stack \in Seq(Activation)
  BY DEF TypeInv, TypeOK
<1>3. Len(stack) \in DOMAIN stack
  BY <1>1, <1>2
<1> QED BY <1>1, <1>3 DEF TypeInv

\* The two smallest orders.
LEMMA SmallOrders == 0 \in Orders /\ 0 + 1 \in Orders
BY SizesAssumption DEF Orders

\* The empty sequence.
LEMMA NoEnds == <<>> \in Seq(Nat) /\ DOMAIN <<>> = {}
OBVIOUS

\* A new call has its type.
LEMMA NewCallOK ==
    ASSUME NEW kind \in Kinds, NEW pages \in Nat, pages > 0,
           kind \in {"user_table", "entry_pool"} => pages = 1,
           kind = "page_pool" => pages = PAGE_POOL_THRESHOLD
    PROVE  NewCall(kind, pages) \in Activation /\ RecordOK(NewCall(kind, pages))
<1> DEFINE f == NewCall(kind, pages)
<1>2. f \in Activation
  BY SmallOrders, NoEnds DEF NewCall, Activation, Kinds
<1>3. f.ends = <<>> /\ f.pages = pages /\ f.kind = kind /\ f.pc = "alloc" /\ f.order = 0 /\ f.i = 0
  BY DEF NewCall
<1> HIDE DEF f
<1>4. EndsOK(f)
  BY <1>3, NoEnds DEF EndsOK
<1>5. f.order + 1 \in Orders
  BY <1>3, SmallOrders
<1>6. RecordOK(f)
  BY <1>3, <1>4, <1>5 DEF RecordOK
<1> QED BY <1>2, <1>6 DEF f

-----------------------------------------------------------------------------
(* Orders.                                                                 *)

\* Doubling keeps the sizes positive and makes them grow, by induction on the
\* orders.
LEMMA SizesGrow ==
    ASSUME NEW p \in Orders
    PROVE  /\ Size(p) \in Nat \ {0}
           /\ \A q \in Orders : p <= q => Size(p) <= Size(q)
<1>1. \A o \in Orders : o \in Nat /\ o < FRAME_ORDERS /\ (o # 0 => o - 1 \in Orders)
  BY SizesAssumption DEF Orders
<1>2. /\ \A o \in Orders : Size(o) \in Nat
      /\ Size(0) = 1
      /\ \A o \in Orders : o # 0 => Size(o) = 2 * Size(o - 1)
  BY SizesAssumption DEF Size
<1> DEFINE Positive == {n \in Nat : n \in Orders => Size(n) # 0}
<1>4. Nat \subseteq Positive
  <2>1. 0 \in Positive
    BY <1>2
  <2>2. ASSUME NEW n \in Nat, n \in Positive PROVE n + 1 \in Positive
    <3> SUFFICES ASSUME n + 1 \in Orders PROVE Size(n + 1) # 0
      OBVIOUS
    <3>1. n \in Orders /\ n + 1 # 0 /\ (n + 1) - 1 = n
      BY <1>1, n + 1 # 0, (n + 1) - 1 = n
    <3> QED BY <1>2, <2>2, <3>1
  <2> HIDE DEF Positive
  <2> QED BY <2>1, <2>2, NatSetInduction
<1> DEFINE Larger == {n \in Nat : p + n \in Orders => Size(p) <= Size(p + n)}
<1>5. Nat \subseteq Larger
  <2>1. 0 \in Larger
    BY <1>1, <1>2
  <2>2. ASSUME NEW n \in Nat, n \in Larger PROVE n + 1 \in Larger
    <3> SUFFICES ASSUME p + (n + 1) \in Orders PROVE Size(p) <= Size(p + (n + 1))
      OBVIOUS
    <3> DEFINE r == p + (n + 1)
    <3>1. r # 0 /\ r - 1 = p + n
      BY <1>1
    <3>2. p + n \in Orders /\ Size(r) = 2 * Size(p + n)
      BY <1>1, <1>2, <3>1
    <3> HIDE DEF r
    <3>3. Size(p) <= Size(p + n)
      BY <2>2, <3>2
    <3>4. Size(p) \in Nat /\ Size(p + n) \in Nat
      BY <1>2, <3>2
    <3>5. Size(p) <= Size(r)
      BY <3>2, <3>3, <3>4
    <3> QED BY <3>5 DEF r
  <2> HIDE DEF Larger
  <2> QED BY <2>1, <2>2, NatSetInduction
<1>6. ASSUME NEW q \in Orders, p <= q PROVE Size(p) <= Size(q)
  <2>1. q - p \in Nat /\ p + (q - p) = q
    BY <1>1, <1>6
  <2> QED BY <1>5, <2>1
<1> QED BY <1>1, <1>2, <1>4, <1>6

\* Some order is the largest that fits into a number of pages.
LEMMA LargestOrder ==
    ASSUME NEW m \in Nat, m > 0
    PROVE  \E o \in Orders : Size(o) <= m /\ (o + 1 \in Orders => Size(o + 1) > m)
<1> SUFFICES ASSUME \A o \in Orders : Size(o) <= m => o + 1 \in Orders /\ ~(Size(o + 1) > m)
             PROVE  FALSE
  OBVIOUS
<1>1. \A o \in Orders : Size(o) \in Nat
  BY SizesGrow
<1>2. Size(0) = 1 /\ 0 \in Orders
  BY SizesAssumption, SmallOrders DEF Size
<1> DEFINE Fits == {n \in Nat : n \in Orders /\ Size(n) <= m}
<1>3. 0 \in Fits
  BY <1>2
<1>4. ASSUME NEW n \in Nat, n \in Fits PROVE n + 1 \in Fits
  <2>1. n \in Orders /\ Size(n) <= m
    BY <1>4
  <2>2. n + 1 \in Orders /\ ~(Size(n + 1) > m)
    BY <2>1
  <2>3. Size(n + 1) \in Nat
    BY <1>1, <2>2
  <2> QED BY <2>2, <2>3
<1> HIDE DEF Fits
<1>5. Nat \subseteq Fits
  BY <1>3, <1>4, NatSetInduction
<1>6. FRAME_ORDERS \in Nat
  BY SizesAssumption
<1>7. FRAME_ORDERS \in Orders
  BY <1>5, <1>6 DEF Fits
<1> QED BY <1>6, <1>7 DEF Orders

\* What is missing of an allocation is at least nothing.
LEMMA MissingIs ==
    ASSUME TypeInv, stack # <<>>
    PROVE  /\ Missing \in 0 .. Top.pages
           /\ Top.ends = <<>> => Missing = Top.pages
           /\ Top.ends # <<>> => Missing = Top.pages - Last(Top.ends) /\ Last(Top.ends) \in 1 .. Top.pages
<1>1. Top \in Activation /\ EndsOK(Top)
  BY TopIs DEF RecordOK
<1>2. Top.ends \in Seq(Nat) /\ Top.pages \in Nat
  BY <1>1 DEF Activation
<1>3. CASE Top.ends = <<>>
  BY <1>2, <1>3 DEF Missing
<1>4. CASE Top.ends # <<>>
  <2>1. Len(Top.ends) \in DOMAIN Top.ends
    BY <1>2, <1>4
  <2>2. Last(Top.ends) \in 1 .. Top.pages
    BY <1>1, <2>1 DEF EndsOK, Last
  <2> QED BY <1>2, <1>4, <2>2 DEF Missing
<1> QED BY <1>3, <1>4

\* The order that an allocation looks for first.
LEMMA OrderIs ==
    ASSUME TypeInv, stack # <<>>, Missing > 0
    PROVE  /\ order_to_alloc \in Orders
           /\ Size(order_to_alloc) <= Missing
           /\ Missing = 1 => order_to_alloc = 0
<1>1. Missing \in Nat
  BY MissingIs, TopIs DEF Activation
<1> DEFINE P(o) == Size(o) <= Missing /\ (o + 1 \in Orders => Size(o + 1) > Missing)
<1>2. \E o \in Orders : P(o)
  BY <1>1, LargestOrder
<1>3. order_to_alloc = CHOOSE o \in Orders : P(o)
  BY DEF order_to_alloc
<1>4. order_to_alloc \in Orders /\ P(order_to_alloc)
  BY <1>2, <1>3
<1>5. ASSUME Missing = 1 PROVE order_to_alloc = 0
  <2> SUFFICES ASSUME order_to_alloc # 0 PROVE FALSE
    OBVIOUS
  <2>1. order_to_alloc >= 1
    BY <1>4, SizesAssumption DEF Orders
  <2>2. 1 \in Orders /\ 1 # 0 /\ 1 - 1 = 0
    BY SmallOrders
  <2>3. Size(1) = 2
    BY <2>2, SizesAssumption DEF Size
  <2>4. Size(1) <= Size(order_to_alloc) /\ Size(order_to_alloc) \in Nat
    BY <1>4, <2>1, <2>2, SizesGrow
  <2> QED BY <1>4, <1>5, <2>3, <2>4
<1> QED BY <1>4, <1>5

-----------------------------------------------------------------------------
(* Types.                                                                  *)

\* The types when only lists, entries, addresses and calls change.
LEMMA TypeStep ==
    ASSUME TypeOK, UNCHANGED <<tableVars, poolVars, kernel>>,
           current_address' \in 0 .. Limit, next_frame' \in Nat, free_lists' \in [Orders -> Nat],
           entries' \in Nat, entry_count' \in Nat, stack' \in Seq(Activation)
    PROVE  TypeOK'
BY DEF TypeOK, tableVars, poolVars

\* The types when only calls change.
LEMMA TypeCalls ==
    ASSUME TypeOK, UNCHANGED <<tableVars, poolVars, spaceVars, free_lists, entryVars, kernel>>,
           stack' \in Seq(Activation)
    PROVE  TypeOK'
<1>1. /\ current_address' \in 0 .. Limit /\ next_frame' \in Nat /\ free_lists' \in [Orders -> Nat]
      /\ entries' \in Nat /\ entry_count' \in Nat
  BY DEF TypeOK, spaceVars, entryVars
<1> QED BY <1>1, TypeStep

\* A new call for one page.
LEMMA OnePage ==
    ASSUME NEW kind \in {"user_table", "entry_pool"}
    PROVE  NewCall(kind, 1) \in Activation /\ RecordOK(NewCall(kind, 1))
<1>1. kind \in Kinds /\ kind # "page_pool"
  BY DEF Kinds
<1> DEFINE n == 1
<1>2. n \in Nat /\ n > 0 /\ n = 1
  OBVIOUS
<1> HIDE DEF n
<1>3. NewCall(kind, n) \in Activation /\ RecordOK(NewCall(kind, n))
  BY <1>1, <1>2, NewCallOK
<1> QED BY <1>2, <1>3

\* The innermost call goes on as f.
LEMMA ContinueOK ==
    ASSUME TypeInv, stack # <<>>, NEW f \in Activation, RecordOK(f), Continue(f)
    PROVE  stack' \in Seq(Activation) /\ \A l \in DOMAIN stack' : RecordOK(stack'[l])
<1>1. /\ stack' \in Seq(Activation) /\ Len(stack') = Len(stack) /\ Len(stack) \in Nat \ {0}
      /\ stack'[Len(stack)] = f /\ \A l \in 1 .. Len(stack) - 1 : stack'[l] = stack[l]
  BY ContinueStack DEF TypeInv
<1>2. stack \in Seq(Activation) /\ \A l \in DOMAIN stack : RecordOK(stack[l])
  BY DEF TypeInv, TypeOK
<1>3. DOMAIN stack = 1 .. Len(stack) /\ DOMAIN stack' = 1 .. Len(stack)
  BY <1>1, <1>2
<1> QED BY <1>1, <1>2, <1>3

\* The innermost call returns.
LEMMA PopOK ==
    ASSUME TypeInv, stack # <<>>, stack' = Front(stack)
    PROVE  stack' \in Seq(Activation) /\ \A l \in DOMAIN stack' : RecordOK(stack'[l])
<1>1. /\ stack' \in Seq(Activation) /\ Len(stack') = Len(stack) - 1 /\ Len(stack) \in Nat \ {0}
      /\ \A l \in 1 .. Len(stack) - 1 : stack'[l] = stack[l]
  BY PopStack DEF TypeInv
<1>2. stack \in Seq(Activation) /\ \A l \in DOMAIN stack : RecordOK(stack[l])
  BY DEF TypeInv, TypeOK
<1>3. DOMAIN stack = 1 .. Len(stack) /\ DOMAIN stack' = 1 .. Len(stack) - 1
  BY <1>1, <1>2
<1> QED BY <1>1, <1>2, <1>3

\* A call begins.
LEMMA PushOK ==
    ASSUME TypeInv, NEW f \in Activation, RecordOK(f), stack' = Append(stack, f)
    PROVE  stack' \in Seq(Activation) /\ \A l \in DOMAIN stack' : RecordOK(stack'[l])
<1>1. /\ stack' \in Seq(Activation) /\ Len(stack') = Len(stack) + 1 /\ Len(stack) \in Nat
      /\ stack'[Len(stack) + 1] = f /\ \A l \in 1 .. Len(stack) : stack'[l] = stack[l]
  BY PushStack DEF TypeInv
<1>2. stack \in Seq(Activation) /\ \A l \in DOMAIN stack : RecordOK(stack[l])
  BY DEF TypeInv, TypeOK
<1>3. DOMAIN stack = 1 .. Len(stack) /\ DOMAIN stack' = 1 .. Len(stack) + 1
  BY <1>1, <1>2
<1> QED BY <1>1, <1>2, <1>3

\* A call goes on at another place, with what is known there.
LEMMA TypeContinue ==
    ASSUME TypeInv, stack # <<>>, NEW f \in Activation, RecordOK(f), Continue(f),
           UNCHANGED <<tableVars, poolVars, spaceVars, free_lists, entryVars, kernel>>
    PROVE  TypeInv'
BY ContinueOK, TypeCalls DEF TypeInv

LEMMA EntryTypes == ASSUME TypeInv PROVE entries \in Nat /\ entry_count \in Nat
BY DEF TypeInv, TypeOK

\* The entry pool's count is at least the threshold when an entry is taken.
LEMMA TakenEntry ==
    ASSUME TypeInv, get_memory_entry
    PROVE  entries' \in Nat /\ entry_count' \in Nat
BY EntryTypes, PoolAssumption DEF get_memory_entry

LEMMA FreedEntries ==
    ASSUME TypeInv, NEW n \in Nat, free_memory_entries(n)
    PROVE  entries' \in Nat /\ entry_count' \in Nat
BY EntryTypes DEF free_memory_entries

LEMMA RefillEntryPoolType == ASSUME TypeInv, RefillEntryPool PROVE TypeInv'
<1> DEFINE f == NewCall("entry_pool", 1)
<1>1. f \in Activation /\ RecordOK(f)
  BY OnePage
<1> HIDE DEF f
<1>2. stack' = Append(stack, f)
  BY DEF RefillEntryPool, f
<1>3. entries' \in Nat /\ entry_count' \in Nat
  <2>1. entries' = entries /\ entry_count' = entry_count + ENTRY_THRESHOLD
    BY DEF RefillEntryPool
  <2> QED BY <2>1, EntryTypes, PoolAssumption
<1>4. /\ UNCHANGED <<tableVars, poolVars, kernel>>
      /\ current_address' \in 0 .. Limit /\ next_frame' \in Nat /\ free_lists' \in [Orders -> Nat]
  BY DEF TypeInv, TypeOK, RefillEntryPool, spaceVars
<1> QED BY <1>1, <1>2, <1>3, <1>4, PushOK, TypeStep DEF TypeInv

LEMMA EntryPoolRefilledType == ASSUME TypeInv, EntryPoolRefilled PROVE TypeInv'
<1>1. stack # <<>> /\ stack' = Front(stack)
  BY DEF EntryPoolRefilled, At
<1>2. Len(Top.ends) \in Nat
  BY <1>1, TopIs DEF Activation
<1>3. entries' \in Nat /\ entry_count' \in Nat
  <2>1. /\ entries' = entries + Len(Top.ends) + PageEntries
        /\ entry_count' = entry_count + Len(Top.ends) + PageEntries - ENTRY_THRESHOLD
    BY DEF EntryPoolRefilled
  <2> QED BY <1>2, <2>1, EntryTypes, PoolAssumption
<1>4. /\ UNCHANGED <<tableVars, poolVars, kernel>>
      /\ current_address' \in 0 .. Limit /\ next_frame' \in Nat /\ free_lists' \in [Orders -> Nat]
  BY DEF TypeInv, TypeOK, EntryPoolRefilled, spaceVars
<1> QED BY <1>1, <1>3, <1>4, PopOK, TypeStep DEF TypeInv

LEMMA CallReturnsType == ASSUME TypeInv, CallReturns PROVE TypeInv'
<1>1. stack # <<>> /\ stack' = Front(stack)
  BY DEF CallReturns, At
<1>2. Len(Top.ends) \in Nat
  BY <1>1, TopIs DEF Activation
<1>3. entries' \in Nat /\ entry_count' \in Nat
  BY <1>2, FreedEntries DEF CallReturns
<1>4. /\ UNCHANGED <<tableVars, poolVars, kernel>>
      /\ current_address' \in 0 .. Limit /\ next_frame' \in Nat /\ free_lists' \in [Orders -> Nat]
  BY DEF TypeInv, TypeOK, CallReturns, spaceVars
<1> QED BY <1>1, <1>3, <1>4, PopOK, TypeStep DEF TypeInv

LEMMA PagePoolRefilledType == ASSUME TypeInv, PagePoolRefilled PROVE TypeInv'
<1>1. stack # <<>> /\ stack' = Front(stack)
  BY DEF PagePoolRefilled, At
<1> QED BY <1>1, PopOK, TypeCalls DEF TypeInv, PagePoolRefilled

LEMMA UserTableKnownType == ASSUME TypeInv, UserTableKnown PROVE TypeInv'
<1>1. stack # <<>> /\ stack' = Front(stack)
  BY DEF UserTableKnown, At
<1>2. stack' \in Seq(Activation) /\ \A l \in DOMAIN stack' : RecordOK(stack'[l])
  BY <1>1, PopOK
<1>3. PoolEntry(Top.addr, Top.frame) \in MappingEntry
  BY <1>1, TopIs DEF Activation, PoolEntry, MappingEntry
<1>4. user_maps' \subseteq MappingEntry
  BY <1>3 DEF TypeInv, TypeOK, UserTableKnown
<1>5. entries' \in Nat /\ entry_count' \in Nat
  BY TakenEntry DEF UserTableKnown
<1>6. UNCHANGED <<pd, pt, entry_maps, poolVars, spaceVars, free_lists, kernel>>
  BY DEF UserTableKnown
<1>7. TypeOK'
  BY <1>2, <1>4, <1>5, <1>6 DEF TypeInv, TypeOK, poolVars, spaceVars
<1> QED BY <1>2, <1>7 DEF TypeInv

LEMMA BeginsType ==
    ASSUME TypeInv, (\E pages \in Requests : alloc_pages(pages)) \/ AllocUserTable
    PROVE  TypeInv'
<1>1. \E f \in Activation : RecordOK(f) /\ stack = <<>> /\ stack' = <<f>>
  <2>1. ASSUME NEW pages \in Requests, alloc_pages(pages)
        PROVE  \E f \in Activation : RecordOK(f) /\ stack = <<>> /\ stack' = <<f>>
    <3>1. pages \in Nat /\ pages > 0
      BY PoolAssumption
    <3>2. NewCall("call", pages) \in Activation /\ RecordOK(NewCall("call", pages))
      BY <3>1, NewCallOK DEF Kinds
    <3> QED BY <2>1, <3>2 DEF alloc_pages
  <2>2. ASSUME AllocUserTable
        PROVE  \E f \in Activation : RecordOK(f) /\ stack = <<>> /\ stack' = <<f>>
    <3>1. NewCall("user_table", 1) \in Activation /\ RecordOK(NewCall("user_table", 1))
      BY OnePage
    <3> QED BY <2>2, <3>1 DEF AllocUserTable
  <2> QED BY <2>1, <2>2
<1>2. PICK f \in Activation : RecordOK(f) /\ stack = <<>> /\ stack' = <<f>>
  BY <1>1
<1>3. stack' = Append(stack, f)
  BY <1>2
<1>4. UNCHANGED <<tableVars, poolVars, spaceVars, free_lists, entryVars, kernel>>
  BY DEF alloc_pages, AllocUserTable
<1> QED BY <1>2, <1>3, <1>4, PushOK, TypeCalls DEF TypeInv

\* The orders are the numbers below FRAME_ORDERS.
LEMMA OrdersAre ==
    /\ FRAME_ORDERS \in Nat /\ FRAME_ORDERS > 2
    /\ \A o : o \in Orders <=> o \in Nat /\ o < FRAME_ORDERS
<1>1. FRAME_ORDERS \in Nat /\ FRAME_ORDERS > 2
  BY SizesAssumption
<1> QED BY <1>1 DEF Orders

\* Ends and pages of a call that stay.
LEMMA EndsSame ==
    ASSUME NEW f, NEW g, EndsOK(g), f.ends = g.ends, f.pages = g.pages
    PROVE  EndsOK(f) /\ (Complete(g) => Complete(f))
BY DEF EndsOK, Complete

\* Where a block is looked for lies above the order wanted.
LEMMA SearchAbove ==
    ASSUME TypeInv, At("alloc"), Missing > 0
    PROVE  /\ SearchFrom \in Nat \ {0} /\ SearchFrom > order_to_alloc
           /\ Top.kind = "user_table" => SearchFrom \in Orders /\ SearchFrom + 1 \in Orders
<1>1. /\ stack # <<>> /\ Top.order + 1 \in Orders /\ Top.order \in Orders
      /\ Top.kind = "user_table" => Top.pages = 1
  BY TopIs DEF At, Activation, RecordOK
<1>2. order_to_alloc \in Orders
  BY <1>1, OrderIs
<1>3. \A o \in Orders : o \in Nat
  BY SizesAssumption DEF Orders
<1>4. ASSUME Top.kind = "user_table" PROVE SearchFrom \in Orders /\ SearchFrom + 1 \in Orders
  <2>1. Missing = 1
    BY <1>1, <1>4, MissingIs
  <2>2. order_to_alloc = 0
    BY <1>1, <2>1, OrderIs
  <2> QED BY <1>1, <2>2, OrdersAre DEF SearchFrom
<1> QED BY <1>1, <1>2, <1>3, <1>4 DEF SearchFrom

LEMMA UnlinkBlockType == ASSUME TypeInv, UnlinkBlock PROVE TypeInv'
<1>1. /\ At("alloc") /\ Missing > 0 /\ stack # <<>>
      /\ UNCHANGED <<tableVars, poolVars, spaceVars, entryVars, kernel>>
  BY DEF UnlinkBlock, At
<1>2. PICK o \in IF Top.kind = "user_table" THEN SecondLook ELSE FirstFrom(SearchFrom) :
        /\ free_lists' = [free_lists EXCEPT ![o] = @ - 1]
        /\ Continue([Top EXCEPT !.pc = "split", !.order = o])
  BY DEF UnlinkBlock
<1>3. /\ SearchFrom \in Nat \ {0}
      /\ Top.kind = "user_table" => SearchFrom \in Orders /\ SearchFrom + 1 \in Orders
  BY <1>1, SearchAbove
<1>4. o \in Orders /\ o # 0 /\ free_lists[o] > 0
  <2>1. CASE Top.kind = "user_table"
    BY <1>2, <1>3, <2>1 DEF SecondLook
  <2>2. CASE Top.kind # "user_table"
    BY <1>2, <1>3, <2>2 DEF FirstFrom, Orders
  <2> QED BY <2>1, <2>2
<1> DEFINE f == [Top EXCEPT !.pc = "split", !.order = o]
<1>5. Top \in Activation /\ RecordOK(Top) /\ Top.pc = "alloc"
  BY <1>1, TopIs DEF At
<1>6. f \in Activation
  BY <1>4, <1>5 DEF Activation
<1>7. /\ f.pc = "split" /\ f.order = o /\ f.ends = Top.ends /\ f.pages = Top.pages /\ f.kind = Top.kind
      /\ f.i = Top.i
  BY <1>5 DEF Activation
<1> HIDE DEF f
<1>8. RecordOK(f)
  BY <1>4, <1>5, <1>7, EndsSame DEF RecordOK
<1>9. free_lists' \in [Orders -> Nat]
  <2>1. free_lists \in [Orders -> Nat]
    BY DEF TypeInv, TypeOK
  <2> QED BY <1>2, <1>4, <2>1
<1>10. Continue(f)
  BY <1>2 DEF f
<1>11. /\ current_address' \in 0 .. Limit /\ next_frame' \in Nat /\ entries' \in Nat /\ entry_count' \in Nat
  BY <1>1 DEF TypeInv, TypeOK, spaceVars, entryVars
<1> QED BY <1>1, <1>6, <1>8, <1>9, <1>10, <1>11, ContinueOK, TypeStep DEF TypeInv

LEMMA SplitBlockType == ASSUME TypeInv, SplitBlock PROVE TypeInv'
<1> DEFINE f == [Top EXCEPT !.pc = "alloc", !.order = @ - 1]
<1>1. /\ stack # <<>> /\ Top.pc = "split" /\ get_memory_entry
      /\ free_lists' = [free_lists EXCEPT ![Top.order - 1] = @ + 2]
      /\ UNCHANGED <<tableVars, poolVars, spaceVars, kernel>> /\ Continue(f)
  BY DEF SplitBlock, At
<1>2. Top \in Activation /\ RecordOK(Top) /\ Top.order \in Orders /\ Top.order # 0
  BY <1>1, TopIs DEF RecordOK, Activation
<1>3. Top.order - 1 \in Orders /\ (Top.order - 1) + 1 \in Orders
  BY <1>2, OrdersAre
<1>4. f \in Activation
  BY <1>2, <1>3 DEF Activation
<1>5. /\ f.pc = "alloc" /\ f.order = Top.order - 1 /\ f.ends = Top.ends /\ f.pages = Top.pages
      /\ f.kind = Top.kind /\ f.i = Top.i
  BY <1>2 DEF Activation
<1> HIDE DEF f
<1>6. RecordOK(f)
  BY <1>1, <1>2, <1>3, <1>5, EndsSame DEF RecordOK
<1>7. free_lists' \in [Orders -> Nat]
  <2>1. free_lists \in [Orders -> Nat]
    BY DEF TypeInv, TypeOK
  <2> QED BY <1>1, <1>3, <2>1
<1>8. entries' \in Nat /\ entry_count' \in Nat
  BY <1>1, TakenEntry
<1>9. current_address' \in 0 .. Limit /\ next_frame' \in Nat
  BY <1>1 DEF TypeInv, TypeOK, spaceVars
<1> QED BY <1>1, <1>4, <1>6, <1>7, <1>8, <1>9, ContinueOK, TypeStep DEF TypeInv

\* A block that is taken ends behind the blocks before it.
LEMMA TakenEnds ==
    ASSUME TypeInv, stack # <<>>, Missing > 0, NEW s \in Nat, s > 0, s <= Missing, NEW f,
           f.ends = Append(Top.ends, Top.pages - Missing + s), f.pages = Top.pages
    PROVE  f.ends \in Seq(Nat) /\ EndsOK(f)
<1>1. Top \in Activation /\ EndsOK(Top)
  BY TopIs DEF RecordOK
<1>2. Top.ends \in Seq(Nat) /\ Top.pages \in Nat
  BY <1>1 DEF Activation
<1> DEFINE g == Top.ends
<1> DEFINE n == Len(g)
<1> DEFINE e == Top.pages - Missing + s
<1>3. e \in 1 .. Top.pages /\ Missing \in Nat
  BY <1>2, MissingIs
<1>4. g # <<>> => e > Last(g)
  BY <1>2, <1>3, MissingIs
<1>5. n \in Nat /\ DOMAIN g = 1 .. n
  BY <1>2
<1>6. /\ f.ends \in Seq(Nat) /\ DOMAIN f.ends = 1 .. n + 1 /\ f.ends[n + 1] = e
      /\ \A a \in 1 .. n : f.ends[a] = g[a]
  BY <1>2, <1>3, <1>5
<1>7. \A a \in 1 .. n : g[a] < e
  <2> SUFFICES ASSUME NEW a \in 1 .. n PROVE g[a] < e
    OBVIOUS
  <2>1. g # <<>> /\ Last(g) = g[n] /\ n \in 1 .. n
    BY <1>2, <1>5 DEF Last
  <2>2. a = n \/ g[a] < g[n]
    BY <1>1, <1>5, <2>1 DEF EndsOK
  <2>3. g[a] \in Nat /\ g[n] \in Nat
    BY <1>2, <2>1
  <2> QED BY <1>3, <1>4, <2>1, <2>2, <2>3
<1>8. /\ \A a \in 1 .. n : g[a] \in 1 .. Top.pages
      /\ \A a, b \in 1 .. n : a < b => g[a] < g[b]
  BY <1>1, <1>5 DEF EndsOK
<1> HIDE DEF g, n, e
<1>9. \A a \in 1 .. n + 1 : a \in 1 .. n \/ a = n + 1
  BY <1>5
<1>10. \A a \in 1 .. n + 1 : f.ends[a] \in 1 .. Top.pages
  BY <1>3, <1>6, <1>8, <1>9
<1>11. \A a, b \in 1 .. n + 1 : a < b => a \in 1 .. n
  BY <1>5
<1>12. \A a, b \in 1 .. n + 1 : a < b => f.ends[a] < f.ends[b]
  BY <1>6, <1>7, <1>8, <1>9, <1>11
<1> QED BY <1>6, <1>10, <1>12 DEF EndsOK

LEMMA TakeBlockType == ASSUME TypeInv, TakeBlock PROVE TypeInv'
<1>1. /\ At("alloc") /\ Missing > 0 /\ stack # <<>> /\ Top.pc = "alloc"
      /\ UNCHANGED <<tableVars, poolVars, spaceVars, entryVars, kernel>>
  BY DEF TakeBlock, At
<1>2. PICK o \in Orders :
        /\ Takes(o)
        /\ free_lists' = [free_lists EXCEPT ![o] = @ - 1]
        /\ Continue([Top EXCEPT !.ends = Append(@, Top.pages - Missing + Size(o)), !.order = 0])
  BY DEF TakeBlock
<1>3. /\ order_to_alloc \in Orders /\ Size(order_to_alloc) <= Missing /\ Missing \in Nat
  BY <1>1, OrderIs, MissingIs, TopIs DEF Activation
<1>4. free_lists \in [Orders -> Nat]
  BY DEF TypeInv, TypeOK
<1>5. o <= order_to_alloc /\ free_lists[o] > 0
  BY <1>2, <1>3, <1>4, SizesAssumption DEF Takes, Orders
<1>6. Size(o) \in Nat /\ Size(o) > 0 /\ Size(o) <= Missing
  BY <1>2, <1>3, <1>5, SizesGrow
<1> DEFINE f == [Top EXCEPT !.ends = Append(@, Top.pages - Missing + Size(o)), !.order = 0]
<1>7. Top \in Activation /\ RecordOK(Top)
  BY <1>1, TopIs
<1>8. /\ f.pc = "alloc" /\ f.order = 0 /\ f.ends = Append(Top.ends, Top.pages - Missing + Size(o))
      /\ f.pages = Top.pages /\ f.kind = Top.kind /\ f.i = Top.i
  BY <1>1, <1>7 DEF Activation
<1>9. f.ends \in Seq(Nat) /\ EndsOK(f)
  BY <1>1, <1>6, <1>8, TakenEnds
<1>10. f \in Activation
  BY <1>7, <1>8, <1>9, SmallOrders DEF Activation
<1>11. Continue(f)
  BY <1>2
<1> HIDE DEF f
<1>12. RecordOK(f)
  BY <1>1, <1>7, <1>8, <1>9, SmallOrders DEF RecordOK
<1>13. free_lists' \in [Orders -> Nat]
  BY <1>2, <1>4, <1>5
<1>14. /\ current_address' \in 0 .. Limit /\ next_frame' \in Nat /\ entries' \in Nat /\ entry_count' \in Nat
  BY <1>1 DEF TypeInv, TypeOK, spaceVars, entryVars
<1> QED BY <1>1, <1>10, <1>11, <1>12, <1>13, <1>14, ContinueOK, TypeStep DEF TypeInv

LEMMA TakeContiguousType == ASSUME TypeInv, TakeContiguous PROVE TypeInv'
<1> DEFINE f == [Top EXCEPT !.ends = <<Top.pages>>, !.order = 0]
<1>1. /\ stack # <<>> /\ Top.pc = "alloc" /\ Missing > 0 /\ free_lists[order_to_alloc] > 0
      /\ free_lists' = [free_lists EXCEPT ![order_to_alloc] = @ - 1]
      /\ free_memory_entries(1) /\ Continue(f)
      /\ UNCHANGED <<tableVars, poolVars, spaceVars, kernel>>
  BY DEF TakeContiguous, At
<1>2. Top \in Activation /\ RecordOK(Top)
  BY <1>1, TopIs
<1>3. order_to_alloc \in Orders
  BY <1>1, OrderIs
<1>4. /\ f.pc = "alloc" /\ f.order = 0 /\ f.ends = <<Top.pages>>
      /\ f.pages = Top.pages /\ f.kind = Top.kind /\ f.i = Top.i
  BY <1>1, <1>2 DEF Activation
<1>5. Top.pages \in 1 .. Top.pages /\ Top.pages \in Nat
  BY <1>2 DEF RecordOK, Activation
<1>6. f \in Activation
  <2>1. <<Top.pages>> \in Seq(Nat)
    BY <1>5
  <2> QED BY <1>2, <2>1, SmallOrders DEF Activation
<1> HIDE DEF f
<1>7. EndsOK(f)
  <2>1. \A a \in DOMAIN f.ends : a = 1
    BY <1>4
  <2>2. f.ends[1] = Top.pages
    BY <1>4
  <2> QED BY <1>4, <1>5, <2>1, <2>2 DEF EndsOK
<1>8. RecordOK(f)
  BY <1>1, <1>2, <1>4, <1>7, SmallOrders DEF RecordOK
<1>9. free_lists' \in [Orders -> Nat]
  <2>1. free_lists \in [Orders -> Nat]
    BY DEF TypeInv, TypeOK
  <2> QED BY <1>1, <1>3, <2>1
<1>10. entries' \in Nat /\ entry_count' \in Nat
  BY <1>1, EntryTypes DEF free_memory_entries
<1>11. current_address' \in 0 .. Limit /\ next_frame' \in Nat
  BY <1>1 DEF TypeInv, TypeOK, spaceVars
<1> QED BY <1>1, <1>6, <1>8, <1>9, <1>10, <1>11, ContinueOK, TypeStep DEF TypeInv

LEMMA StartMappingType == ASSUME TypeInv, StartMapping PROVE TypeInv'
<1> DEFINE f == [Top EXCEPT !.pc = "map", !.addr = current_address, !.frame = next_frame]
<1>1. /\ stack # <<>> /\ Top.pc = "alloc" /\ Missing = 0 /\ Continue(f)
      /\ current_address + Top.pages < Limit
      /\ current_address' = current_address + Top.pages /\ next_frame' = next_frame + Top.pages
      /\ UNCHANGED <<tableVars, poolVars, free_lists, entryVars, kernel>>
  BY DEF StartMapping, At
<1>2. Top \in Activation /\ RecordOK(Top) /\ Top.pages \in Nat /\ Top.pages > 0
  BY <1>1, TopIs DEF RecordOK, Activation
<1>3. current_address \in 0 .. Limit /\ next_frame \in Nat /\ current_address \in Nat /\ Limit \in Nat
  <2>1. Limit \in Nat
    BY PoolAssumption DEF Limit
  <2>2. current_address \in 0 .. Limit /\ next_frame \in Nat
    BY DEF TypeInv, TypeOK
  <2> QED BY <2>1, <2>2
<1>4. f \in Activation
  BY <1>2, <1>3 DEF Activation
<1>5. /\ f.pc = "map" /\ f.ends = Top.ends /\ f.pages = Top.pages /\ f.kind = Top.kind
      /\ f.addr = current_address
  BY <1>1, <1>2 DEF Activation
<1> HIDE DEF f
<1>6. Complete(Top)
  BY <1>1, <1>2, MissingIs DEF Complete
<1>7. RecordOK(f)
  BY <1>1, <1>2, <1>5, <1>6, EndsSame DEF RecordOK
<1>8. current_address' \in 0 .. Limit /\ next_frame' \in Nat
  BY <1>1, <1>2, <1>3
<1>9. free_lists' \in [Orders -> Nat] /\ entries' \in Nat /\ entry_count' \in Nat
  BY <1>1 DEF TypeInv, TypeOK, entryVars
<1> QED BY <1>1, <1>4, <1>7, <1>8, <1>9, ContinueOK, TypeStep DEF TypeInv

\* The page that is mapped lies in the directory.
LEMMA PageInDirectory ==
    ASSUME TypeInv, stack # <<>>, Top.pc \in {"map", "install"}, Top.i < Top.pages
    PROVE  TableOf(Page) \in 0 .. TableCount - 1
<1>1. Top \in Activation /\ Top.addr + Top.pages < Limit
  BY TopIs DEF RecordOK
<1>2. Page \in Nat /\ Page < Limit
  BY <1>1, PoolAssumption DEF Activation, Page, Limit
<1>3. TablePages \in Nat \ {0} /\ TableCount \in Nat
  BY PoolAssumption
<1> DEFINE q == Page \div TablePages
<1>4. q \in Nat /\ Page % TablePages \in 0 .. TablePages - 1 /\ Page = q * TablePages + (Page % TablePages)
  BY <1>2, <1>3, DivMod
<1> HIDE DEF q
<1>5. ASSUME q >= TableCount PROVE FALSE
  <2>1. TableCount * TablePages <= q * TablePages
    BY <1>3, <1>4, <1>5, MulMonotone
  <2>2. TableCount * TablePages \in Nat /\ q * TablePages \in Nat
    BY <1>3, <1>4
  <2>3. q * TablePages <= Page
    BY <1>2, <1>3, <1>4, <2>2
  <2> QED BY <1>2, <2>1, <2>2, <2>3 DEF Limit
<1>6. q \in 0 .. TableCount - 1
  BY <1>3, <1>4, <1>5
<1> QED BY <1>6 DEF TableOf, q

LEMMA MapPageType == ASSUME TypeInv, MapPage PROVE TypeInv'
<1> DEFINE f == [Top EXCEPT !.i = @ + 1]
<1>1. /\ stack # <<>> /\ Top.pc = "map" /\ Continue(f) /\ Top.i < Top.pages
      /\ pd[TableOf(Page)] # NoTable
      /\ pt' = {e \in pt : e[1] # pd[TableOf(Page)] \/ e[2] # Page}
                 \cup {<<pd[TableOf(Page)], Page, Top.frame + Top.i>>}
      /\ UNCHANGED <<pd, entry_maps, user_maps, poolVars, spaceVars, free_lists, entryVars, kernel>>
  BY DEF MapPage, At
<1>2. Top \in Activation /\ RecordOK(Top)
  BY <1>1, TopIs
<1>3. f \in Activation
  <2>1. Top.i \in Nat /\ Top.i + 1 \in Nat
    BY <1>2 DEF Activation
  <2> QED BY <1>2, <2>1 DEF Activation
<1>4. /\ f.pc = "map" /\ f.ends = Top.ends /\ f.pages = Top.pages /\ f.kind = Top.kind
      /\ f.addr = Top.addr
  BY <1>1, <1>2 DEF Activation
<1> HIDE DEF f
<1>5. RecordOK(f)
  BY <1>1, <1>2, <1>4, EndsSame DEF RecordOK
<1>6. stack' \in Seq(Activation) /\ \A l \in DOMAIN stack' : RecordOK(stack'[l])
  BY <1>1, <1>3, <1>5, ContinueOK
<1>7. pt' \subseteq Nat \X Nat \X Nat
  <2>1. Page \in Nat /\ Top.frame + Top.i \in Nat
    BY <1>2 DEF Activation, Page
  <2>2. /\ pd \in [0 .. TableCount - 1 -> Nat \cup {NoTable}] /\ pt \subseteq Nat \X Nat \X Nat
        /\ current_address \in 0 .. Limit
    BY DEF TypeInv, TypeOK
  <2>3. TableOf(Page) \in 0 .. TableCount - 1
    BY <1>1, PageInDirectory
  <2>4. pd[TableOf(Page)] \in Nat
    BY <1>1, <2>2, <2>3
  <2> QED BY <1>1, <2>1, <2>2, <2>4
<1>8. TypeOK'
  BY <1>1, <1>6, <1>7 DEF TypeInv, TypeOK, poolVars, spaceVars, entryVars
<1> QED BY <1>6, <1>8 DEF TypeInv

\* The pool is as long as it is counted, and can be counted.
LEMMA OutstandingFinite == ASSUME TypeOK PROVE IsFiniteSet(Outstanding) /\ Cardinality(Outstanding) \in Nat
<1>1. stack \in Seq(Activation)
  BY DEF TypeOK
<1> DEFINE D == 1 .. Len(stack)
<1> DEFINE P == 0 .. PAGE_POOL_THRESHOLD - 1
<1>2. DOMAIN stack = D /\ Len(stack) \in Nat
  BY <1>1
<1>3. IsFiniteSet(D) /\ IsFiniteSet(P)
  BY <1>2, FS_Interval, PoolAssumption
<1> HIDE DEF D, P
<1>4. IsFiniteSet(D \X P)
  BY <1>3, FS_Product
<1>5. Outstanding \in SUBSET (D \X P)
  BY <1>2 DEF Outstanding, P
<1>6. IsFiniteSet(Outstanding)
  BY <1>4, <1>5, FS_Subset
<1> QED BY <1>6, FS_CardinalityType

LEMMA RefillPagePoolType == ASSUME TypeInv, RefillPagePool PROVE TypeInv'
<1> DEFINE g == [Top EXCEPT !.pc = "install"]
<1> DEFINE s == [stack EXCEPT ![Len(stack)] = g]
<1> DEFINE f == NewCall("page_pool", PAGE_POOL_THRESHOLD)
<1>1. /\ stack # <<>> /\ Top.pc = "map" /\ Top.i < Top.pages
      /\ count' = count + PAGE_POOL_THRESHOLD
      /\ UNCHANGED <<tableVars, pool, spaceVars, free_lists, entryVars, kernel>>
  BY DEF RefillPagePool, TableMissing, At
<1>2. stack' = Append(s, f)
  BY DEF RefillPagePool, Top, Last
<1>3. Top \in Activation /\ RecordOK(Top) /\ stack \in Seq(Activation)
  BY <1>1, TopIs DEF TypeInv, TypeOK
<1>4. g \in Activation
  BY <1>3 DEF Activation
<1>5. /\ g.pc = "install" /\ g.ends = Top.ends /\ g.pages = Top.pages /\ g.kind = Top.kind
      /\ g.addr = Top.addr /\ g.i = Top.i
  BY <1>1, <1>3 DEF Activation
<1> HIDE DEF g
<1>6. RecordOK(g)
  BY <1>1, <1>3, <1>5, EndsSame DEF RecordOK
<1>7. f \in Activation /\ RecordOK(f)
  <2>1. PAGE_POOL_THRESHOLD \in Nat /\ PAGE_POOL_THRESHOLD > 0
    BY PoolAssumption
  <2>2. "page_pool" \in Kinds
    BY DEF Kinds
  <2> QED BY <2>1, <2>2, NewCallOK
<1> HIDE DEF f
<1>8. /\ s \in Seq(Activation) /\ Len(s) = Len(stack) /\ Len(stack) \in Nat \ {0}
      /\ s[Len(stack)] = g /\ \A l \in 1 .. Len(stack) - 1 : s[l] = stack[l]
  BY <1>1, <1>3, <1>4, LastReplaced, TopIs
<1> HIDE DEF s
<1>9. /\ stack' \in Seq(Activation) /\ Len(stack') = Len(stack) + 1
      /\ stack'[Len(stack) + 1] = f /\ \A l \in 1 .. Len(stack) : stack'[l] = s[l]
  BY <1>2, <1>7, <1>8, OneMore
<1>10. \A l \in DOMAIN stack' : RecordOK(stack'[l])
  <2>1. DOMAIN stack' = 1 .. Len(stack) + 1 /\ DOMAIN stack = 1 .. Len(stack)
    BY <1>3, <1>9
  <2>2. \A l \in DOMAIN stack : RecordOK(stack[l])
    BY DEF TypeInv
  <2>3. \A l \in DOMAIN stack' : l \in 1 .. Len(stack) - 1 \/ l = Len(stack) \/ l = Len(stack) + 1
    BY <1>8, <2>1
  <2>4. \A l \in 1 .. Len(stack) - 1 : l \in 1 .. Len(stack)
    BY <1>8
  <2>5. Len(stack) \in 1 .. Len(stack)
    BY <1>8
  <2> QED BY <1>6, <1>7, <1>8, <1>9, <2>1, <2>2, <2>3, <2>4, <2>5
<1>11. count' \in Nat
  <2>1. count \in Nat
    BY DEF TypeInv, TypeOK
  <2> QED BY <1>1, <2>1, PoolAssumption
<1>12. TypeOK'
  BY <1>1, <1>9, <1>11 DEF TypeInv, TypeOK, tableVars, spaceVars, entryVars
<1> QED BY <1>10, <1>12 DEF TypeInv

LEMMA PoolSufficesType == ASSUME TypeInv, PoolSuffices PROVE TypeInv'
<1> DEFINE g == [Top EXCEPT !.pc = "install"]
<1>1. /\ stack # <<>> /\ Top.pc = "map" /\ Top.i < Top.pages /\ Continue(g)
      /\ UNCHANGED <<tableVars, poolVars, spaceVars, free_lists, entryVars, kernel>>
  BY DEF PoolSuffices, TableMissing, At
<1>2. Top \in Activation /\ RecordOK(Top)
  BY <1>1, TopIs
<1>3. g \in Activation
  BY <1>2 DEF Activation
<1>4. /\ g.pc = "install" /\ g.ends = Top.ends /\ g.pages = Top.pages /\ g.kind = Top.kind
      /\ g.addr = Top.addr /\ g.i = Top.i
  BY <1>1, <1>2 DEF Activation
<1> HIDE DEF g
<1>5. RecordOK(g)
  BY <1>1, <1>2, <1>4, EndsSame DEF RecordOK
<1> QED BY <1>1, <1>3, <1>5, TypeContinue

LEMMA UserTableMappedType == ASSUME TypeInv, UserTableMapped PROVE TypeInv'
<1> DEFINE g == [Top EXCEPT !.pc = "take"]
<1>1. /\ stack # <<>> /\ Top.pc = "map" /\ Top.kind = "user_table" /\ Continue(g)
      /\ UNCHANGED <<tableVars, poolVars, spaceVars, free_lists, entryVars, kernel>>
  BY DEF UserTableMapped, At
<1>2. Top \in Activation /\ RecordOK(Top)
  BY <1>1, TopIs
<1>3. g \in Activation
  BY <1>2 DEF Activation
<1>4. g.pc = "take" /\ g.ends = Top.ends /\ g.pages = Top.pages /\ g.kind = Top.kind
  BY <1>1, <1>2 DEF Activation
<1> HIDE DEF g
<1>5. RecordOK(g)
  BY <1>1, <1>2, <1>4, EndsSame DEF RecordOK
<1> QED BY <1>1, <1>3, <1>5, TypeContinue

LEMMA StartPopulatingType == ASSUME TypeInv, StartPopulating PROVE TypeInv'
<1> DEFINE g == [Top EXCEPT !.pc = "populate", !.i = 0]
<1>1. /\ stack # <<>> /\ Top.pc = "map" /\ Top.kind = "page_pool" /\ Continue(g)
      /\ UNCHANGED <<tableVars, poolVars, spaceVars, free_lists, entryVars, kernel>>
  BY DEF StartPopulating, At
<1>2. Top \in Activation /\ RecordOK(Top) /\ Top.ends \in Seq(Nat)
  BY <1>1, TopIs DEF Activation
<1>3. g \in Activation
  BY <1>2 DEF Activation
<1>4. g.pc = "populate" /\ g.ends = Top.ends /\ g.pages = Top.pages /\ g.kind = Top.kind /\ g.i = 0
  BY <1>1, <1>2 DEF Activation
<1> HIDE DEF g
<1>5. Complete(Top) /\ Head(Top.ends) \in Nat
  BY <1>1, <1>2 DEF RecordOK, Complete
<1>6. g.ends # <<>> /\ Complete(g) /\ g.i <= Head(g.ends) /\ EndsOK(g)
  BY <1>2, <1>4, <1>5, EndsSame DEF RecordOK, Complete
<1>7. RecordOK(g)
  BY <1>1, <1>2, <1>4, <1>6 DEF RecordOK
<1> QED BY <1>1, <1>3, <1>7, TypeContinue

\* A call that takes an entry for the pool has a block whose pages are not all
\* in the pool.
LEMMA Populating ==
    ASSUME TypeInv, At("populate"), get_memory_entry
    PROVE  /\ Top.kind = "page_pool" /\ Top.pages = PAGE_POOL_THRESHOLD /\ Top.i \in 0 .. Top.pages - 1
           /\ Top.ends # <<>> /\ Top.i < Head(Top.ends) /\ Complete(Top)
<1>1. stack # <<>> /\ Top.pc = "populate" /\ Top.i < Top.pages /\ Top.i # Head(Top.ends)
  BY DEF At, get_memory_entry, TakesEntry
<1>2. Top \in Activation /\ RecordOK(Top) /\ Top.i \in Nat /\ Top.pages \in Nat /\ Top.ends \in Seq(Nat)
  BY <1>1, TopIs DEF Activation
<1>3. Top.ends # <<>> /\ Top.i <= Head(Top.ends) /\ Complete(Top)
  BY <1>1, <1>2 DEF RecordOK
<1>4. Head(Top.ends) \in Nat
  BY <1>2, <1>3
<1> QED BY <1>1, <1>2, <1>3, <1>4 DEF RecordOK

LEMMA AddToPoolType == ASSUME TypeInv, AddToPool PROVE TypeInv'
<1> DEFINE g == [Top EXCEPT !.i = @ + 1]
<1> DEFINE p == PoolEntry(Page, Top.frame + Top.i)
<1>1. /\ At("populate") /\ get_memory_entry /\ stack # <<>> /\ Top.pc = "populate"
      /\ pool' = <<p>> \o pool /\ Continue(g)
      /\ UNCHANGED <<tableVars, count, spaceVars, free_lists, kernel>>
  BY DEF AddToPool, At
<1>2. Top \in Activation /\ RecordOK(Top) /\ Top.i \in Nat /\ Top.ends \in Seq(Nat)
  BY <1>1, TopIs DEF Activation
<1>3. Top.i < Head(Top.ends) /\ Top.ends # <<>> /\ Complete(Top)
  BY <1>1, Populating
<1>4. g \in Activation
  <2>1. Top.i + 1 \in Nat
    BY <1>2
  <2> QED BY <1>2, <2>1 DEF Activation
<1>5. g.pc = "populate" /\ g.ends = Top.ends /\ g.pages = Top.pages /\ g.kind = Top.kind /\ g.i = Top.i + 1
  BY <1>1, <1>2 DEF Activation
<1>6. p \in MappingEntry
  <2>1. Page \in Nat /\ Top.frame + Top.i \in Nat
    BY <1>2 DEF Activation, Page
  <2> QED BY <2>1 DEF PoolEntry, MappingEntry
<1> HIDE DEF g, p
<1>7. g.i <= Head(g.ends)
  <2>1. Head(Top.ends) \in Nat
    BY <1>2, <1>3
  <2> QED BY <1>2, <1>3, <1>5, <2>1
<1>8. RecordOK(g)
  BY <1>1, <1>2, <1>3, <1>5, <1>7, EndsSame DEF RecordOK
<1>9. stack' \in Seq(Activation) /\ \A l \in DOMAIN stack' : RecordOK(stack'[l])
  BY <1>1, <1>4, <1>8, ContinueOK
<1>10. pool' \in Seq(MappingEntry)
  <2>1. pool \in Seq(MappingEntry)
    BY DEF TypeInv, TypeOK
  <2> QED BY <1>1, <1>6, <2>1
<1>11. entries' \in Nat /\ entry_count' \in Nat
  BY <1>1, TakenEntry
<1>12. TypeOK'
  BY <1>1, <1>9, <1>10, <1>11 DEF TypeInv, TypeOK, tableVars, spaceVars
<1> QED BY <1>9, <1>12 DEF TypeInv

\* Without the first of the ascending ends.
LEMMA TailEnds ==
    ASSUME NEW f \in Activation, EndsOK(f), Complete(f), f.i = Head(f.ends), NEW g,
           g.ends = Tail(f.ends), g.pages = f.pages, g.i = f.i
    PROVE  /\ g.ends \in Seq(Nat) /\ EndsOK(g)
           /\ g.ends = <<>> => g.i = g.pages
           /\ g.ends # <<>> => Complete(g) /\ g.i <= Head(g.ends)
<1> DEFINE s == f.ends
<1> DEFINE t == Tail(s)
<1> DEFINE n == Len(s) - 1
<1>1. s \in Seq(Nat) /\ s # <<>> /\ s[Len(s)] = f.pages
  BY DEF Activation, Complete, Last
<1>2. /\ n \in Nat /\ t \in Seq(Nat) /\ Len(t) = n /\ DOMAIN t = 1 .. n /\ DOMAIN s = 1 .. n + 1
      /\ \A a \in 1 .. n : t[a] = s[a + 1]
      /\ Head(s) = s[1]
  BY <1>1
<1>3. /\ \A a \in 1 .. n + 1 : s[a] \in 1 .. f.pages
      /\ \A a, b \in 1 .. n + 1 : a < b => s[a] < s[b]
  BY <1>2 DEF EndsOK
<1> HIDE DEF n
<1>4. \A a \in 1 .. n : a + 1 \in 1 .. n + 1
  BY <1>2
<1>5. \A a \in 1 .. n : t[a] \in 1 .. f.pages
  BY <1>2, <1>3, <1>4
<1>6. \A a, b \in 1 .. n : a < b => t[a] < t[b]
  BY <1>2, <1>3, <1>4
<1>7. EndsOK(g)
  BY <1>2, <1>5, <1>6 DEF EndsOK
<1>8. ASSUME g.ends = <<>> PROVE g.i = g.pages
  <2>1. n = 0
    <3>1. Len(t) = Len(<<>>) /\ Len(<<>>) = 0
      BY <1>8, EmptySeq
    <3> QED BY <1>2, <3>1
  <2>2. Len(s) = 1
    BY <1>1, <2>1 DEF n
  <2> QED BY <1>1, <1>2, <2>2
<1>9. ASSUME g.ends # <<>> PROVE Complete(g) /\ g.i <= Head(g.ends)
  <2>1. n > 0 /\ n \in Nat
    BY <1>2, <1>9
  <2>2. Last(t) = t[n] /\ t[n] = s[n + 1] /\ Head(t) = t[1] /\ t[1] = s[2]
    BY <1>2, <1>9, <2>1 DEF Last
  <2>3. n + 1 = Len(s)
    BY <1>1 DEF n
  <2>4. s[1] < s[2] /\ s[1] \in Nat /\ s[2] \in Nat
    BY <1>3, <2>1
  <2>5. Last(t) = f.pages
    BY <1>1, <2>2, <2>3
  <2>6. f.i <= Head(t)
    <3>1. f.i = s[1] /\ Head(t) = s[2]
      BY <1>2, <2>2
    <3> HIDE DEF s, t
    <3> QED BY <2>4, <3>1
  <2> QED BY <1>9, <2>5, <2>6 DEF Complete
<1> QED BY <1>2, <1>7, <1>8, <1>9

LEMMA FreeBlockEntryType == ASSUME TypeInv, FreeBlockEntry PROVE TypeInv'
<1> DEFINE g == [Top EXCEPT !.ends = Tail(@)]
<1>1. /\ stack # <<>> /\ Top.pc = "populate" /\ Top.ends # <<>> /\ Top.i = Head(Top.ends)
      /\ free_memory_entries(1) /\ Continue(g)
      /\ UNCHANGED <<tableVars, poolVars, spaceVars, free_lists, kernel>>
  BY DEF FreeBlockEntry, At
<1>2. Top \in Activation /\ RecordOK(Top)
  BY <1>1, TopIs
<1>3. /\ g.pc = "populate" /\ g.ends = Tail(Top.ends) /\ g.pages = Top.pages /\ g.kind = Top.kind
      /\ g.i = Top.i
  BY <1>1, <1>2 DEF Activation
<1>4. EndsOK(Top) /\ Complete(Top)
  BY <1>1, <1>2 DEF RecordOK
<1>5. /\ g.ends \in Seq(Nat) /\ EndsOK(g)
      /\ g.ends = <<>> => g.i = g.pages
      /\ g.ends # <<>> => Complete(g) /\ g.i <= Head(g.ends)
  BY <1>1, <1>2, <1>3, <1>4, TailEnds
<1>6. g \in Activation
  BY <1>2, <1>3, <1>5 DEF Activation
<1> HIDE DEF g
<1>7. RecordOK(g)
  BY <1>1, <1>2, <1>3, <1>5 DEF RecordOK
<1>8. entries' \in Nat /\ entry_count' \in Nat
  BY <1>1, EntryTypes DEF free_memory_entries
<1>9. /\ current_address' \in 0 .. Limit /\ next_frame' \in Nat /\ free_lists' \in [Orders -> Nat]
  BY <1>1 DEF TypeInv, TypeOK, spaceVars
<1> QED BY <1>1, <1>6, <1>7, <1>8, <1>9, ContinueOK, TypeStep DEF TypeInv

\* The first page of the pool.
LEMMA FirstPage ==
    ASSUME TypeInv, PoolCounts, pool # <<>>
    PROVE  /\ Head(pool) \in MappingEntry /\ Head(pool) = pool[1]
           /\ Tail(pool) \in Seq(MappingEntry) /\ Len(Tail(pool)) = Len(pool) - 1 /\ Len(pool) \in Nat \ {0}
           /\ \A k \in 1 .. Len(pool) - 1 : Tail(pool)[k] = pool[k + 1]
           /\ count - 1 \in Nat
<1>1. pool \in Seq(MappingEntry) /\ TypeOK
  BY DEF TypeInv, TypeOK
<1>2. /\ Head(pool) \in MappingEntry /\ Head(pool) = pool[1]
      /\ Tail(pool) \in Seq(MappingEntry) /\ Len(Tail(pool)) = Len(pool) - 1 /\ Len(pool) \in Nat \ {0}
      /\ \A k \in 1 .. Len(pool) - 1 : Tail(pool)[k] = pool[k + 1]
  BY <1>1
<1>3. Cardinality(Outstanding) \in Nat
  BY <1>1, OutstandingFinite
<1>4. count - 1 \in Nat
  BY <1>2, <1>3 DEF PoolCounts
<1> QED BY <1>2, <1>4

\* The directory with a new table.
LEMMA NewDirectoryType ==
    ASSUME TypeInv, PoolCounts, At("install"), pool # <<>>
    PROVE  /\ NewDirectory \in [0 .. TableCount - 1 -> Nat \cup {NoTable}]
           /\ TableOf(Page) \in 0 .. TableCount - 1
           /\ \A t \in 0 .. TableCount - 1 :
                 NewDirectory[t] = IF t = TableOf(Page) THEN Head(pool).phys_addr ELSE pd[t]
           /\ Head(pool).phys_addr \in Nat
<1>1. stack # <<>> /\ Top.pc = "install"
  BY DEF At
<1>2. Top.i < Top.pages
  BY <1>1, TopIs DEF RecordOK
<1>3. TableOf(Page) \in 0 .. TableCount - 1
  BY <1>1, <1>2, PageInDirectory
<1>4. Head(pool).phys_addr \in Nat
  BY FirstPage DEF MappingEntry
<1>5. pd \in [0 .. TableCount - 1 -> Nat \cup {NoTable}]
  BY DEF TypeInv, TypeOK
<1> QED BY <1>3, <1>4, <1>5 DEF NewDirectory

LEMMA InstallTableType == ASSUME TypeInv, PoolCounts, InstallTable PROVE TypeInv'
<1> DEFINE g == [Top EXCEPT !.pc = "map"]
<1> DEFINE e == Head(pool)
<1>1. /\ At("install") /\ pool # <<>> /\ stack # <<>> /\ Top.pc = "install"
      /\ pool' = Tail(pool) /\ count' = count - 1 /\ entry_maps' = entry_maps \cup {e}
      /\ pd' = NewDirectory /\ pt' = {x \in pt : x[1] # e.phys_addr} /\ Continue(g)
      /\ UNCHANGED <<user_maps, spaceVars, free_lists, entryVars, kernel>>
  BY DEF InstallTable, At
<1>2. Top \in Activation /\ RecordOK(Top)
  BY <1>1, TopIs
<1>3. g \in Activation
  BY <1>2 DEF Activation
<1>4. g.pc = "map" /\ g.ends = Top.ends /\ g.pages = Top.pages /\ g.kind = Top.kind /\ g.addr = Top.addr
  BY <1>1, <1>2 DEF Activation
<1> HIDE DEF g
<1>5. RecordOK(g)
  BY <1>1, <1>2, <1>4, EndsSame DEF RecordOK
<1>6. stack' \in Seq(Activation) /\ \A l \in DOMAIN stack' : RecordOK(stack'[l])
  BY <1>1, <1>3, <1>5, ContinueOK
<1>7. pool' \in Seq(MappingEntry) /\ count' \in Nat /\ e \in MappingEntry
  BY <1>1, FirstPage
<1>8. pd' \in [0 .. TableCount - 1 -> Nat \cup {NoTable}]
  BY <1>1, NewDirectoryType
<1>9. entry_maps' \subseteq MappingEntry /\ pt' \subseteq Nat \X Nat \X Nat
  BY <1>1, <1>7 DEF TypeInv, TypeOK
<1>10. TypeOK'
  BY <1>1, <1>6, <1>7, <1>8, <1>9 DEF TypeInv, TypeOK, spaceVars, entryVars
<1> QED BY <1>6, <1>10 DEF TypeInv

LEMMA InstallFaultsType == ASSUME TypeInv, PoolCounts, InstallFaults PROVE TypeInv'
<1> DEFINE e == Head(pool)
<1>1. /\ At("install") /\ pool # <<>>
      /\ pool' = Tail(pool) /\ count' = count - 1 /\ entry_maps' = entry_maps \cup {e}
      /\ pd' = NewDirectory /\ kernel' = "page_fault"
      /\ UNCHANGED <<pt, user_maps, spaceVars, free_lists, entryVars, stack>>
  BY DEF InstallFaults
<1>2. pool' \in Seq(MappingEntry) /\ count' \in Nat /\ e \in MappingEntry
  BY <1>1, FirstPage
<1>3. pd' \in [0 .. TableCount - 1 -> Nat \cup {NoTable}]
  BY <1>1, NewDirectoryType
<1>4. entry_maps' \subseteq MappingEntry
  BY <1>1, <1>2 DEF TypeInv, TypeOK
<1>5. TypeOK'
  BY <1>1, <1>2, <1>3, <1>4 DEF TypeInv, TypeOK, spaceVars, entryVars
<1> QED BY <1>1, <1>5 DEF TypeInv

\* The kernel stops, or has stopped.
LEMMA StopsType ==
    ASSUME TypeInv, UNCHANGED <<tableVars, poolVars, spaceVars, free_lists, entryVars, stack>>,
           kernel' \in {kernel, "page_fault", "out_of_address_space"}
    PROVE  TypeInv'
<1>1. TypeOK'
  BY DEF TypeInv, TypeOK, tableVars, poolVars, spaceVars, entryVars
<1> QED BY <1>1 DEF TypeInv

-----------------------------------------------------------------------------
(* Counts.                                                                 *)

\* A refill of the page pool has not put its page k into the pool.
OutOf(f, k) == f.kind = "page_pool" /\ (f.pc = "populate" => f.i <= k)
PoolPages == 0 .. PAGE_POOL_THRESHOLD - 1

\* Both sets in terms of the length of the stack, before and after a step.
LEMMA OutstandingNext ==
    ASSUME stack' \in Seq(Activation)
    PROVE  /\ DOMAIN stack' = 1 .. Len(stack') /\ Len(stack') \in Nat
           /\ Outstanding' = {x \in (1 .. Len(stack')) \X PoolPages : OutOf(stack'[x[1]], x[2])}
           /\ EntryRefills' = {l \in 1 .. Len(stack') : stack'[l].kind = "entry_pool"}
<1>1. DOMAIN stack' = 1 .. Len(stack') /\ Len(stack') \in Nat
  OBVIOUS
<1> QED BY <1>1 DEF Outstanding, EntryRefills, OutOf, PoolPages

LEMMA OutstandingIs ==
    ASSUME TypeOK
    PROVE  /\ DOMAIN stack = 1 .. Len(stack) /\ Len(stack) \in Nat
           /\ Outstanding = {x \in (1 .. Len(stack)) \X PoolPages : OutOf(stack[x[1]], x[2])}
           /\ EntryRefills = {l \in 1 .. Len(stack) : stack[l].kind = "entry_pool"}
<1>1. stack \in Seq(Activation)
  BY DEF TypeOK
<1>2. DOMAIN stack = 1 .. Len(stack) /\ Len(stack) \in Nat
  BY <1>1
<1> QED BY <1>2 DEF Outstanding, EntryRefills, OutOf, PoolPages

LEMMA RefillsFinite == ASSUME TypeOK PROVE IsFiniteSet(EntryRefills) /\ Cardinality(EntryRefills) \in Nat
<1> DEFINE D == 1 .. Len(stack)
<1>1. IsFiniteSet(D)
  BY OutstandingIs, FS_Interval
<1>2. EntryRefills \in SUBSET D
  BY OutstandingIs
<1> HIDE DEF D
<1>3. IsFiniteSet(EntryRefills)
  BY <1>1, <1>2, FS_Subset
<1> QED BY <1>3, FS_CardinalityType

\* Both sets stay when the innermost call goes on and neither its kind nor what
\* it has put into the pool changes.
LEMMA ContinueCounts ==
    ASSUME TypeInv, stack # <<>>, NEW f \in Activation, Continue(f), f.kind = Top.kind,
           \A k \in PoolPages : OutOf(f, k) <=> OutOf(Top, k)
    PROVE  Outstanding' = Outstanding /\ EntryRefills' = EntryRefills
<1> DEFINE n == Len(stack)
<1>1. /\ stack' \in Seq(Activation) /\ Len(stack') = n /\ n \in Nat \ {0} /\ Top = stack[n]
      /\ stack'[n] = f /\ \A l \in 1 .. n - 1 : stack'[l] = stack[l]
  BY ContinueStack DEF TypeInv
<1>2. /\ Outstanding = {x \in (1 .. n) \X PoolPages : OutOf(stack[x[1]], x[2])}
      /\ EntryRefills = {l \in 1 .. n : stack[l].kind = "entry_pool"}
  BY OutstandingIs DEF TypeInv
<1>3. /\ Outstanding' = {x \in (1 .. n) \X PoolPages : OutOf(stack'[x[1]], x[2])}
      /\ EntryRefills' = {l \in 1 .. n : stack'[l].kind = "entry_pool"}
  <2>1. /\ Outstanding' = {x \in (1 .. Len(stack')) \X PoolPages : OutOf(stack'[x[1]], x[2])}
        /\ EntryRefills' = {l \in 1 .. Len(stack') : stack'[l].kind = "entry_pool"}
    BY <1>1, OutstandingNext
  <2> QED BY <1>1, <2>1
<1> HIDE DEF n
<1>4. \A l \in 1 .. n : l = n \/ l \in 1 .. n - 1
  BY <1>1
<1>5. \A l \in 1 .. n : \A k \in PoolPages : OutOf(stack'[l], k) <=> OutOf(stack[l], k)
  BY <1>1, <1>4
<1>6. \A l \in 1 .. n : stack'[l].kind = stack[l].kind
  BY <1>1, <1>4
<1>7. Outstanding' = Outstanding
  BY <1>2, <1>3, <1>5
<1>8. EntryRefills' = EntryRefills
  BY <1>2, <1>3, <1>6
<1> QED BY <1>7, <1>8

\* Both sets stay when a call returns that has put all its pages into the pool
\* and is no refill of the entry pool.
LEMMA PopCounts ==
    ASSUME TypeInv, stack # <<>>, stack' = Front(stack), \A k \in PoolPages : ~OutOf(Top, k)
    PROVE  Outstanding' = Outstanding /\ EntryRefills' = EntryRefills \ {Len(stack)}
<1> DEFINE n == Len(stack)
<1>1. /\ stack' \in Seq(Activation) /\ Len(stack') = n - 1 /\ n \in Nat \ {0} /\ Top = stack[n]
      /\ \A l \in 1 .. n - 1 : stack'[l] = stack[l]
  BY PopStack DEF TypeInv
<1>2. /\ Outstanding = {x \in (1 .. n) \X PoolPages : OutOf(stack[x[1]], x[2])}
      /\ EntryRefills = {l \in 1 .. n : stack[l].kind = "entry_pool"}
  BY OutstandingIs DEF TypeInv
<1>3. /\ Outstanding' = {x \in (1 .. n - 1) \X PoolPages : OutOf(stack'[x[1]], x[2])}
      /\ EntryRefills' = {l \in 1 .. n - 1 : stack'[l].kind = "entry_pool"}
  BY <1>1, OutstandingNext
<1> HIDE DEF n
<1>4. \A l : l \in 1 .. n <=> l = n \/ l \in 1 .. n - 1
  BY <1>1
<1>5. n \notin 1 .. n - 1
  BY <1>1
<1>6. Outstanding' = Outstanding
  BY <1>1, <1>2, <1>3, <1>4
<1>7. EntryRefills' = EntryRefills \ {n}
  BY <1>1, <1>2, <1>3, <1>4, <1>5
<1> QED BY <1>6, <1>7 DEF n

\* A call begins: a refill of the entry pool is one more, and a refill of the
\* page pool has all its pages to bring.
LEMMA PushCounts ==
    ASSUME TypeInv, NEW s \in Seq(Activation), Len(s) = Len(stack), NEW f \in Activation, f.pc = "alloc",
           stack' = Append(s, f),
           \A l \in 1 .. Len(stack) : /\ s[l].kind = stack[l].kind
                                      /\ \A k \in PoolPages : OutOf(s[l], k) <=> OutOf(stack[l], k)
    PROVE  /\ f.kind = "page_pool" => Outstanding' = Outstanding \cup ({Len(stack) + 1} \X PoolPages)
           /\ f.kind # "page_pool" => Outstanding' = Outstanding
           /\ f.kind = "entry_pool" => EntryRefills' = EntryRefills \cup {Len(stack) + 1}
           /\ f.kind # "entry_pool" => EntryRefills' = EntryRefills
<1> DEFINE n == Len(stack)
<1> DEFINE m == Len(stack) + 1
<1>1. /\ stack' \in Seq(Activation) /\ Len(stack') = m /\ stack'[m] = f
      /\ \A l \in 1 .. n : stack'[l] = s[l]
  BY OneMore
<1>2. /\ Outstanding = {x \in (1 .. n) \X PoolPages : OutOf(stack[x[1]], x[2])}
      /\ EntryRefills = {l \in 1 .. n : stack[l].kind = "entry_pool"} /\ n \in Nat
  BY OutstandingIs DEF TypeInv
<1>3. /\ Outstanding' = {x \in (1 .. m) \X PoolPages : OutOf(stack'[x[1]], x[2])}
      /\ EntryRefills' = {l \in 1 .. m : stack'[l].kind = "entry_pool"}
  BY <1>1, OutstandingNext
<1>4. \A l : l \in 1 .. m <=> l = m \/ l \in 1 .. n
  BY <1>2
<1>5. m \notin 1 .. n
  BY <1>2
<1> HIDE DEF n, m
<1>6. \A l \in 1 .. n : \A k \in PoolPages : OutOf(stack'[l], k) <=> OutOf(stack[l], k)
  BY <1>1 DEF n
<1>7. \A l \in 1 .. n : stack'[l].kind = stack[l].kind
  BY <1>1 DEF n
<1>8. \A k \in PoolPages : OutOf(f, k) <=> f.kind = "page_pool"
  BY DEF OutOf
<1>9. ASSUME f.kind = "page_pool" PROVE Outstanding' = Outstanding \cup ({m} \X PoolPages)
  BY <1>1, <1>2, <1>3, <1>4, <1>6, <1>8, <1>9
<1>10. ASSUME f.kind # "page_pool" PROVE Outstanding' = Outstanding
  BY <1>1, <1>2, <1>3, <1>4, <1>6, <1>8, <1>10
<1>11. ASSUME f.kind = "entry_pool" PROVE EntryRefills' = EntryRefills \cup {m}
  BY <1>1, <1>2, <1>3, <1>4, <1>7, <1>11
<1>12. ASSUME f.kind # "entry_pool" PROVE EntryRefills' = EntryRefills
  BY <1>1, <1>2, <1>3, <1>4, <1>7, <1>12
<1> QED BY <1>9, <1>10, <1>11, <1>12 DEF m

\* The page pool stays, and the entries change as they are counted.
LEMMA CountsStep ==
    ASSUME TypeInv, PoolCounts, NEW d \in Int, entries' = entries + d, entry_count' = entry_count + d,
           pool' = pool, count' = count, Outstanding' = Outstanding, EntryRefills' = EntryRefills
    PROVE  PoolCounts'
<1> DEFINE z == ENTRY_THRESHOLD * Cardinality(EntryRefills)
<1>1. z \in Int
  BY RefillsFinite, PoolAssumption DEF TypeInv
<1>2. entry_count = entries + z /\ count = Len(pool) + Cardinality(Outstanding)
  BY DEF PoolCounts
<1>3. z' = z
  OBVIOUS
<1> HIDE DEF z
<1>4. entry_count' = entries' + z
  BY <1>1, <1>2, EntryTypes
<1> QED BY <1>2, <1>3, <1>4 DEF PoolCounts, z

\* An activation record that goes on from one place where its pages are all
\* missing to another one.
LEMMA OutSame ==
    ASSUME NEW f, NEW g, f.kind = g.kind, f.pc # "populate", g.pc # "populate"
    PROVE  \A k \in PoolPages : OutOf(f, k) <=> OutOf(g, k)
BY DEF OutOf

\* An allocation or a mapping goes on, and entries change as counted.
LEMMA ContinueCounted ==
    ASSUME TypeInv, PoolCounts, stack # <<>>, NEW f \in Activation, Continue(f), f.kind = Top.kind,
           f.pc # "populate", Top.pc # "populate", UNCHANGED poolVars,
           NEW d \in Int, entries' = entries + d, entry_count' = entry_count + d
    PROVE  PoolCounts'
<1>1. \A k \in PoolPages : OutOf(f, k) <=> OutOf(Top, k)
  BY OutSame
<1>2. Outstanding' = Outstanding /\ EntryRefills' = EntryRefills
  BY <1>1, ContinueCounts
<1> QED BY <1>2, CountsStep DEF poolVars

\* Neither pool changes, and the innermost call goes on.
LEMMA ContinueUncounted ==
    ASSUME TypeInv, PoolCounts, stack # <<>>, NEW f \in Activation, Continue(f), f.kind = Top.kind,
           f.pc # "populate", Top.pc # "populate", UNCHANGED <<poolVars, entryVars>>
    PROVE  PoolCounts'
<1>1. 0 \in Int /\ entries' = entries + 0 /\ entry_count' = entry_count + 0
  BY EntryTypes DEF entryVars
<1> QED BY <1>1, ContinueCounted

LEMMA UnlinkBlockCounts == ASSUME TypeInv, PoolCounts, UnlinkBlock PROVE PoolCounts'
<1>1. stack # <<>> /\ Top.pc = "alloc" /\ UNCHANGED <<poolVars, entryVars>>
  BY DEF UnlinkBlock, At
<1>2. PICK o : Continue([Top EXCEPT !.pc = "split", !.order = o]) /\ o \in Orders
  <2>1. PICK o \in IF Top.kind = "user_table" THEN SecondLook ELSE FirstFrom(SearchFrom) :
            Continue([Top EXCEPT !.pc = "split", !.order = o])
    BY DEF UnlinkBlock
  <2>2. o \in Orders
    <3>1. At("alloc") /\ Missing > 0
      BY DEF UnlinkBlock
    <3>2. Top.kind = "user_table" => SearchFrom \in Orders /\ SearchFrom + 1 \in Orders
      BY <3>1, SearchAbove
    <3>3. CASE Top.kind = "user_table"
      BY <2>1, <3>2, <3>3 DEF SecondLook
    <3>4. CASE Top.kind # "user_table"
      BY <2>1, <3>4 DEF FirstFrom
    <3> QED BY <3>3, <3>4
  <2> QED BY <2>1, <2>2
<1> DEFINE f == [Top EXCEPT !.pc = "split", !.order = o]
<1>3. Top \in Activation
  BY <1>1, TopIs
<1>4. f \in Activation /\ f.kind = Top.kind /\ f.pc = "split"
  BY <1>2, <1>3 DEF Activation
<1> HIDE DEF f
<1> QED BY <1>1, <1>2, <1>4, ContinueUncounted DEF f

LEMMA SplitBlockCounts == ASSUME TypeInv, PoolCounts, SplitBlock PROVE PoolCounts'
<1> DEFINE f == [Top EXCEPT !.pc = "alloc", !.order = @ - 1]
<1>1. stack # <<>> /\ Top.pc = "split" /\ get_memory_entry /\ UNCHANGED poolVars /\ Continue(f)
  BY DEF SplitBlock, At
<1>2. Top \in Activation /\ Top.order \in Orders /\ Top.order # 0
  BY <1>1, TopIs DEF RecordOK, Activation
<1>3. Top.order - 1 \in Orders
  BY <1>2, OrdersAre
<1>4. f \in Activation /\ f.kind = Top.kind /\ f.pc = "alloc"
  BY <1>2, <1>3 DEF Activation
<1> HIDE DEF f
<1>5. -1 \in Int /\ entries' = entries + (-1) /\ entry_count' = entry_count + (-1)
  BY <1>1, EntryTypes DEF get_memory_entry
<1> QED BY <1>1, <1>4, <1>5, ContinueCounted

LEMMA TakeBlockCounts == ASSUME TypeInv, PoolCounts, TakeBlock PROVE PoolCounts'
<1>1. stack # <<>> /\ Top.pc = "alloc" /\ Missing > 0 /\ UNCHANGED <<poolVars, entryVars>>
  BY DEF TakeBlock, At
<1>2. PICK o \in Orders :
        Continue([Top EXCEPT !.ends = Append(@, Top.pages - Missing + Size(o)), !.order = 0])
  BY DEF TakeBlock
<1> DEFINE f == [Top EXCEPT !.ends = Append(@, Top.pages - Missing + Size(o)), !.order = 0]
<1>3. Top \in Activation /\ Top.ends \in Seq(Nat) /\ Top.pages \in Nat
  BY <1>1, TopIs DEF Activation
<1>4. Top.pages - Missing + Size(o) \in Nat
  BY <1>1, <1>3, SizesGrow, MissingIs
<1>5. Append(Top.ends, Top.pages - Missing + Size(o)) \in Seq(Nat)
  BY <1>3, <1>4
<1>6. f \in Activation /\ f.kind = Top.kind /\ f.pc = "alloc"
  BY <1>1, <1>3, <1>5, SmallOrders DEF Activation
<1> HIDE DEF f
<1> QED BY <1>1, <1>2, <1>6, ContinueUncounted DEF f

LEMMA TakeContiguousCounts == ASSUME TypeInv, PoolCounts, TakeContiguous PROVE PoolCounts'
<1> DEFINE f == [Top EXCEPT !.ends = <<Top.pages>>, !.order = 0]
<1>1. stack # <<>> /\ Top.pc = "alloc" /\ free_memory_entries(1) /\ Continue(f) /\ UNCHANGED poolVars
  BY DEF TakeContiguous, At
<1>2. Top \in Activation /\ Top.pages \in Nat
  BY <1>1, TopIs DEF Activation
<1>3. <<Top.pages>> \in Seq(Nat)
  BY <1>2
<1>4. f \in Activation /\ f.kind = Top.kind /\ f.pc = "alloc"
  BY <1>1, <1>2, <1>3, SmallOrders DEF Activation
<1> HIDE DEF f
<1>5. 1 \in Int /\ entries' = entries + 1 /\ entry_count' = entry_count + 1
  BY <1>1 DEF free_memory_entries
<1> QED BY <1>1, <1>4, <1>5, ContinueCounted

LEMMA StartMappingCounts == ASSUME TypeInv, PoolCounts, StartMapping PROVE PoolCounts'
<1> DEFINE f == [Top EXCEPT !.pc = "map", !.addr = current_address, !.frame = next_frame]
<1>1. stack # <<>> /\ Top.pc = "alloc" /\ Continue(f) /\ UNCHANGED <<poolVars, entryVars>>
  BY DEF StartMapping, At
<1>2. Top \in Activation /\ current_address \in Nat /\ next_frame \in Nat
  BY <1>1, TopIs DEF TypeInv, TypeOK
<1>3. f \in Activation /\ f.kind = Top.kind /\ f.pc = "map"
  BY <1>2 DEF Activation
<1> HIDE DEF f
<1> QED BY <1>1, <1>3, ContinueUncounted

LEMMA MapPageCounts == ASSUME TypeInv, PoolCounts, MapPage PROVE PoolCounts'
<1> DEFINE f == [Top EXCEPT !.i = @ + 1]
<1>1. stack # <<>> /\ Top.pc = "map" /\ Continue(f) /\ UNCHANGED <<poolVars, entryVars>>
  BY DEF MapPage, At
<1>2. Top \in Activation /\ Top.i + 1 \in Nat
  BY <1>1, TopIs DEF Activation
<1>3. f \in Activation /\ f.kind = Top.kind /\ f.pc = "map"
  BY <1>1, <1>2 DEF Activation
<1> HIDE DEF f
<1> QED BY <1>1, <1>3, ContinueUncounted

LEMMA PoolSufficesCounts == ASSUME TypeInv, PoolCounts, PoolSuffices PROVE PoolCounts'
<1> DEFINE f == [Top EXCEPT !.pc = "install"]
<1>1. stack # <<>> /\ Top.pc = "map" /\ Continue(f) /\ UNCHANGED <<poolVars, entryVars>>
  BY DEF PoolSuffices, TableMissing, At
<1>2. f \in Activation /\ f.kind = Top.kind /\ f.pc = "install"
  BY <1>1, TopIs DEF Activation
<1> HIDE DEF f
<1> QED BY <1>1, <1>2, ContinueUncounted

LEMMA UserTableMappedCounts == ASSUME TypeInv, PoolCounts, UserTableMapped PROVE PoolCounts'
<1> DEFINE f == [Top EXCEPT !.pc = "take"]
<1>1. stack # <<>> /\ Top.pc = "map" /\ Continue(f) /\ UNCHANGED <<poolVars, entryVars>>
  BY DEF UserTableMapped, At
<1>2. f \in Activation /\ f.kind = Top.kind /\ f.pc = "take"
  BY <1>1, TopIs DEF Activation
<1> HIDE DEF f
<1> QED BY <1>1, <1>2, ContinueUncounted

\* A refill that begins to put its pages into the pool has none of them in it.
LEMMA StartPopulatingCounts == ASSUME TypeInv, PoolCounts, StartPopulating PROVE PoolCounts'
<1> DEFINE f == [Top EXCEPT !.pc = "populate", !.i = 0]
<1>1. stack # <<>> /\ Top.pc = "map" /\ Continue(f) /\ UNCHANGED <<poolVars, entryVars>>
  BY DEF StartPopulating, At
<1>2. f \in Activation /\ f.kind = Top.kind /\ f.pc = "populate" /\ f.i = 0
  BY <1>1, TopIs DEF Activation
<1> HIDE DEF f
<1>3. \A k \in PoolPages : 0 <= k
  BY PoolAssumption DEF PoolPages
<1>4. \A k \in PoolPages : OutOf(f, k) <=> OutOf(Top, k)
  BY <1>1, <1>2, <1>3 DEF OutOf
<1>5. Outstanding' = Outstanding /\ EntryRefills' = EntryRefills
  BY <1>1, <1>2, <1>4, ContinueCounts
<1>6. 0 \in Int /\ entries' = entries + 0 /\ entry_count' = entry_count + 0
  BY <1>1, EntryTypes DEF entryVars
<1> QED BY <1>1, <1>5, <1>6, CountsStep DEF poolVars

LEMMA FreeBlockEntryCounts == ASSUME TypeInv, PoolCounts, FreeBlockEntry PROVE PoolCounts'
<1> DEFINE f == [Top EXCEPT !.ends = Tail(@)]
<1>1. /\ stack # <<>> /\ Top.ends # <<>> /\ Continue(f) /\ free_memory_entries(1) /\ UNCHANGED poolVars
  BY DEF FreeBlockEntry, At
<1>2. Top \in Activation /\ Top.ends \in Seq(Nat)
  BY <1>1, TopIs DEF Activation
<1>3. Tail(Top.ends) \in Seq(Nat)
  BY <1>1, <1>2
<1>4. f \in Activation /\ f.kind = Top.kind /\ f.pc = Top.pc /\ f.i = Top.i
  BY <1>2, <1>3 DEF Activation
<1> HIDE DEF f
<1>5. \A k \in PoolPages : OutOf(f, k) <=> OutOf(Top, k)
  BY <1>4 DEF OutOf
<1>6. Outstanding' = Outstanding /\ EntryRefills' = EntryRefills
  BY <1>1, <1>4, <1>5, ContinueCounts
<1>7. 1 \in Int /\ entries' = entries + 1 /\ entry_count' = entry_count + 1
  BY <1>1 DEF free_memory_entries
<1> QED BY <1>1, <1>6, <1>7, CountsStep DEF poolVars

\* A page leaves the pool, and the count goes down.
LEMMA PageTaken ==
    ASSUME TypeInv, PoolCounts, pool # <<>>, pool' = Tail(pool), count' = count - 1, UNCHANGED entryVars,
           Outstanding' = Outstanding, EntryRefills' = EntryRefills
    PROVE  PoolCounts'
<1>1. Len(pool') = Len(pool) - 1 /\ Len(pool) \in Nat \ {0}
  BY FirstPage
<1>2. Cardinality(Outstanding) \in Nat
  BY OutstandingFinite DEF TypeInv
<1>3. count = Len(pool) + Cardinality(Outstanding)
  BY DEF PoolCounts
<1>4. count' = Len(pool') + Cardinality(Outstanding)
  BY <1>1, <1>2, <1>3
<1> QED BY <1>4 DEF PoolCounts, entryVars

LEMMA InstallTableCounts == ASSUME TypeInv, PoolCounts, InstallTable PROVE PoolCounts'
<1> DEFINE f == [Top EXCEPT !.pc = "map"]
<1>1. /\ stack # <<>> /\ Top.pc = "install" /\ Continue(f) /\ pool # <<>> /\ pool' = Tail(pool)
      /\ count' = count - 1 /\ UNCHANGED entryVars
  BY DEF InstallTable, At
<1>2. f \in Activation /\ f.kind = Top.kind /\ f.pc = "map"
  BY <1>1, TopIs DEF Activation
<1> HIDE DEF f
<1>3. \A k \in PoolPages : OutOf(f, k) <=> OutOf(Top, k)
  BY <1>1, <1>2, OutSame
<1>4. Outstanding' = Outstanding /\ EntryRefills' = EntryRefills
  BY <1>1, <1>2, <1>3, ContinueCounts
<1> QED BY <1>1, <1>4, PageTaken

LEMMA InstallFaultsCounts == ASSUME TypeInv, PoolCounts, InstallFaults PROVE PoolCounts'
<1>1. /\ pool # <<>> /\ pool' = Tail(pool) /\ count' = count - 1 /\ UNCHANGED <<entryVars, stack>>
  BY DEF InstallFaults
<1>2. Outstanding' = Outstanding /\ EntryRefills' = EntryRefills
  BY <1>1 DEF Outstanding, EntryRefills
<1> QED BY <1>1, <1>2, PageTaken

\* The page that is put into the pool is no longer outstanding.
LEMMA AddToPoolCounts == ASSUME TypeInv, PoolCounts, AddToPool PROVE PoolCounts'
<1> DEFINE f == [Top EXCEPT !.i = @ + 1]
<1> DEFINE p == PoolEntry(Page, Top.frame + Top.i)
<1> DEFINE n == Len(stack)
<1> DEFINE i == Top.i
<1>1. /\ At("populate") /\ stack # <<>> /\ Top.pc = "populate" /\ Continue(f) /\ pool' = <<p>> \o pool
      /\ count' = count /\ get_memory_entry
  BY DEF AddToPool, At
<1>2. /\ Top.kind = "page_pool" /\ i \in PoolPages /\ i \in Nat
  BY <1>1, Populating, PoolAssumption DEF PoolPages
<1>3. Top \in Activation /\ i + 1 \in Nat
  BY <1>1, <1>2, TopIs
<1>4. f \in Activation /\ f.kind = "page_pool" /\ f.pc = "populate" /\ f.i = i + 1
  BY <1>1, <1>2, <1>3 DEF Activation
<1> HIDE DEF f
<1>5. \A k \in PoolPages : OutOf(f, k) <=> OutOf(Top, k) /\ k # i
  BY <1>1, <1>2, <1>4, PoolAssumption DEF OutOf, PoolPages
<1>6. OutOf(Top, i)
  BY <1>1, <1>2 DEF OutOf
<1> HIDE DEF i
<1>7. /\ stack' \in Seq(Activation) /\ Len(stack') = n /\ n \in Nat \ {0} /\ Top = stack[n]
      /\ stack'[n] = f /\ \A l \in 1 .. n - 1 : stack'[l] = stack[l]
  BY <1>1, <1>4, ContinueStack DEF TypeInv
<1>8. /\ Outstanding = {x \in (1 .. n) \X PoolPages : OutOf(stack[x[1]], x[2])}
      /\ EntryRefills = {l \in 1 .. n : stack[l].kind = "entry_pool"}
  BY OutstandingIs DEF TypeInv
<1>9. /\ Outstanding' = {x \in (1 .. n) \X PoolPages : OutOf(stack'[x[1]], x[2])}
      /\ EntryRefills' = {l \in 1 .. n : stack'[l].kind = "entry_pool"}
  BY <1>7, OutstandingNext
<1> HIDE DEF n
<1>10. \A l : l \in 1 .. n <=> l = n \/ l \in 1 .. n - 1
  BY <1>7
<1>11. n \notin 1 .. n - 1
  BY <1>7
<1>12. EntryRefills' = EntryRefills
  <2>1. \A l \in 1 .. n : stack'[l].kind = stack[l].kind
    BY <1>2, <1>4, <1>7, <1>10
  <2> QED BY <1>8, <1>9, <2>1
<1>13. Outstanding' = Outstanding \ {<<n, i>>} /\ <<n, i>> \in Outstanding
  <2>1. \A l \in 1 .. n : \A k \in PoolPages : OutOf(stack'[l], k) <=> OutOf(stack[l], k) /\ <<l, k>> # <<n, i>>
    BY <1>5, <1>7, <1>10, <1>11
  <2>2. <<n, i>> \in Outstanding
    BY <1>2, <1>6, <1>7, <1>8, <1>10
  <2>3. \A x \in (1 .. n) \X PoolPages : x = <<x[1], x[2]>> /\ x[1] \in 1 .. n /\ x[2] \in PoolPages
    OBVIOUS
  <2>4. \A x : x \in Outstanding' <=> x \in Outstanding /\ x # <<n, i>>
    BY <1>8, <1>9, <2>1, <2>3
  <2> QED BY <2>2, <2>4
<1>14. /\ Cardinality(Outstanding') = Cardinality(Outstanding) - 1
       /\ Cardinality(Outstanding) \in Nat
  BY <1>13, FS_RemoveElement, OutstandingFinite DEF TypeInv
<1>15. Len(pool') = Len(pool) + 1 /\ Len(pool) \in Nat
  <2>1. pool \in Seq(MappingEntry)
    BY DEF TypeInv, TypeOK
  <2>2. p \in MappingEntry
    BY <1>3, PoolAssumption DEF Activation, Page, PoolEntry, MappingEntry, i
  <2> HIDE DEF p
  <2> QED BY <1>1, <2>1, <2>2
<1>16. count' = Len(pool') + Cardinality(Outstanding')
  BY <1>1, <1>14, <1>15 DEF PoolCounts
<1> DEFINE z == ENTRY_THRESHOLD * Cardinality(EntryRefills)
<1>17. entry_count' = entries' + z
  <2>1. z \in Int
    BY RefillsFinite, PoolAssumption DEF TypeInv
  <2>2. entry_count = entries + z
    BY DEF PoolCounts
  <2>3. entries' = entries - 1 /\ entry_count' = entry_count - 1
    BY <1>1 DEF get_memory_entry
  <2> HIDE DEF z
  <2> QED BY <2>1, <2>2, <2>3, EntryTypes
<1> QED BY <1>12, <1>16, <1>17 DEF PoolCounts

\* A refill of the page pool counts its pages beforehand.
LEMMA RefillPagePoolCounts == ASSUME TypeInv, PoolCounts, RefillPagePool PROVE PoolCounts'
<1> DEFINE g == [Top EXCEPT !.pc = "install"]
<1> DEFINE s == [stack EXCEPT ![Len(stack)] = g]
<1> DEFINE f == NewCall("page_pool", PAGE_POOL_THRESHOLD)
<1> DEFINE n == Len(stack)
<1>1. /\ stack # <<>> /\ Top.pc = "map" /\ count' = count + PAGE_POOL_THRESHOLD /\ UNCHANGED <<pool, entryVars>>
  BY DEF RefillPagePool, TableMissing, At
<1>2. stack' = Append(s, f)
  BY DEF RefillPagePool, Top, Last
<1>3. Top \in Activation /\ stack \in Seq(Activation) /\ Top = stack[n]
  BY <1>1, TopIs DEF TypeInv, TypeOK
<1>4. g \in Activation /\ g.pc = "install" /\ g.kind = Top.kind
  BY <1>3 DEF Activation
<1> HIDE DEF g
<1>5. f \in Activation /\ f.pc = "alloc" /\ f.kind = "page_pool"
  <2>1. PAGE_POOL_THRESHOLD \in Nat /\ PAGE_POOL_THRESHOLD > 0
    BY PoolAssumption
  <2>2. "page_pool" \in Kinds
    BY DEF Kinds
  <2>3. f \in Activation
    BY <2>1, <2>2, NewCallOK
  <2> QED BY <2>3 DEF NewCall
<1> HIDE DEF f
<1>6. /\ s \in Seq(Activation) /\ Len(s) = n /\ n \in Nat \ {0}
      /\ s[n] = g /\ \A l \in 1 .. n - 1 : s[l] = stack[l]
  BY <1>1, <1>3, <1>4, LastReplaced, TopIs
<1> HIDE DEF s
<1>7. \A k \in PoolPages : OutOf(g, k) <=> OutOf(Top, k)
  BY <1>1, <1>4, OutSame
<1>8. \A l \in 1 .. n : /\ s[l].kind = stack[l].kind
                        /\ \A k \in PoolPages : OutOf(s[l], k) <=> OutOf(stack[l], k)
  <2>1. \A l \in 1 .. n : l = n \/ l \in 1 .. n - 1
    BY <1>6
  <2> QED BY <1>3, <1>4, <1>6, <1>7, <2>1
<1>9. /\ Outstanding' = Outstanding \cup ({n + 1} \X PoolPages)
      /\ EntryRefills' = EntryRefills
  BY <1>2, <1>5, <1>6, <1>8, PushCounts
<1> DEFINE New == {n + 1} \X PoolPages
<1>10. Outstanding \cap New = {}
  <2>1. \A x \in Outstanding : x[1] \in 1 .. n
    BY OutstandingIs DEF TypeInv
  <2>2. \A x \in New : x[1] = n + 1
    OBVIOUS
  <2>3. n + 1 \notin 1 .. n
    BY <1>6
  <2> QED BY <2>1, <2>2, <2>3
<1>11. IsFiniteSet(New) /\ Cardinality(New) = PAGE_POOL_THRESHOLD
  <2> DEFINE One == {n + 1}
  <2>1. IsFiniteSet(One) /\ Cardinality(One) = 1
    BY FS_Singleton
  <2>2. IsFiniteSet(PoolPages) /\ Cardinality(PoolPages) = PAGE_POOL_THRESHOLD
    BY FS_Interval, PoolAssumption DEF PoolPages
  <2> HIDE DEF One
  <2>3. IsFiniteSet(One \X PoolPages) /\ Cardinality(One \X PoolPages) = 1 * PAGE_POOL_THRESHOLD
    BY <2>1, <2>2, FS_Product
  <2> QED BY <2>3, PoolAssumption DEF One
<1> HIDE DEF New
<1>12. IsFiniteSet(Outstanding) /\ Cardinality(Outstanding) \in Nat
  BY OutstandingFinite DEF TypeInv
<1>13. Cardinality(Outstanding \cup New) = Cardinality(Outstanding) + PAGE_POOL_THRESHOLD - Cardinality({})
  BY <1>10, <1>11, <1>12, FS_Union
<1>14. Cardinality(Outstanding') = Cardinality(Outstanding) + PAGE_POOL_THRESHOLD
  BY <1>9, <1>12, <1>13, FS_EmptySet, PoolAssumption DEF New
<1>15. count' = Len(pool') + Cardinality(Outstanding')
  <2>1. count = Len(pool) + Cardinality(Outstanding) /\ Len(pool) \in Nat
    BY DEF PoolCounts, TypeInv, TypeOK
  <2> QED BY <1>1, <1>12, <1>14, <2>1, PoolAssumption
<1> QED BY <1>1, <1>9, <1>15 DEF PoolCounts, entryVars

LEMMA RefillEntryPoolCounts == ASSUME TypeInv, PoolCounts, RefillEntryPool PROVE PoolCounts'
<1> DEFINE f == NewCall("entry_pool", 1)
<1> DEFINE n == Len(stack)
<1>1. /\ stack' = Append(stack, f) /\ entry_count' = entry_count + ENTRY_THRESHOLD
      /\ UNCHANGED <<poolVars, entries>>
  BY DEF RefillEntryPool
<1>2. f \in Activation /\ f.pc = "alloc" /\ f.kind = "entry_pool"
  <2>1. f \in Activation
    BY OnePage
  <2> QED BY <2>1 DEF NewCall
<1> HIDE DEF f
<1>3. stack \in Seq(Activation) /\ n \in Nat
  BY DEF TypeInv, TypeOK
<1>4. Outstanding' = Outstanding /\ EntryRefills' = EntryRefills \cup {n + 1}
  BY <1>1, <1>2, <1>3, PushCounts
<1>5. n + 1 \notin EntryRefills
  <2>1. EntryRefills \subseteq 1 .. n
    BY OutstandingIs DEF TypeInv
  <2>2. n + 1 \notin 1 .. n
    BY <1>3
  <2> QED BY <2>1, <2>2
<1> DEFINE c == Cardinality(EntryRefills)
<1>6. Cardinality(EntryRefills') = c + 1 /\ c \in Nat
  BY <1>4, <1>5, RefillsFinite, FS_AddElement DEF TypeInv
<1>7. entry_count = entries + ENTRY_THRESHOLD * c /\ count = Len(pool) + Cardinality(Outstanding)
  BY DEF PoolCounts
<1> HIDE DEF c
<1>8. ENTRY_THRESHOLD * (c + 1) = ENTRY_THRESHOLD * c + ENTRY_THRESHOLD /\ ENTRY_THRESHOLD * c \in Int
  BY <1>6, PoolAssumption
<1>9. entry_count' = entries' + ENTRY_THRESHOLD * (c + 1)
  BY <1>1, <1>7, <1>8, EntryTypes, PoolAssumption
<1> QED BY <1>1, <1>4, <1>6, <1>7, <1>9 DEF PoolCounts, poolVars

LEMMA EntryPoolRefilledCounts == ASSUME TypeInv, PoolCounts, EntryPoolRefilled PROVE PoolCounts'
<1> DEFINE n == Len(stack)
<1>1. /\ stack # <<>> /\ Top.kind = "entry_pool" /\ stack' = Front(stack)
      /\ entries' = entries + Len(Top.ends) + PageEntries
      /\ entry_count' = entry_count + Len(Top.ends) + PageEntries - ENTRY_THRESHOLD
      /\ UNCHANGED poolVars
  BY DEF EntryPoolRefilled, At
<1>2. /\ Len(Top.ends) \in Nat /\ n \in Nat \ {0} /\ Top = stack[n]
  BY <1>1, TopIs DEF Activation
<1>3. Outstanding' = Outstanding /\ EntryRefills' = EntryRefills \ {n}
  BY <1>1, PopCounts DEF OutOf
<1>4. n \in EntryRefills
  BY <1>1, <1>2, OutstandingIs DEF TypeInv
<1> DEFINE c == Cardinality(EntryRefills)
<1>5. Cardinality(EntryRefills') = c - 1 /\ c \in Nat
  BY <1>3, <1>4, RefillsFinite, FS_RemoveElement DEF TypeInv
<1>6. entry_count = entries + ENTRY_THRESHOLD * c /\ count = Len(pool) + Cardinality(Outstanding)
  BY DEF PoolCounts
<1> HIDE DEF c
<1>7. ENTRY_THRESHOLD * (c - 1) = ENTRY_THRESHOLD * c - ENTRY_THRESHOLD /\ ENTRY_THRESHOLD * c \in Int
  BY <1>5, PoolAssumption
<1>8. entry_count' = entries' + ENTRY_THRESHOLD * (c - 1)
  <2> DEFINE z == ENTRY_THRESHOLD * c
  <2>1. z \in Int /\ entry_count = entries + z /\ ENTRY_THRESHOLD * (c - 1) = z - ENTRY_THRESHOLD
    BY <1>6, <1>7
  <2> HIDE DEF z
  <2>2. entry_count' = entries' + (z - ENTRY_THRESHOLD)
    <3> DEFINE d == Len(Top.ends)
    <3>1. d \in Nat /\ entries' = entries + d + PageEntries
                    /\ entry_count' = entry_count + d + PageEntries - ENTRY_THRESHOLD
      BY <1>1, <1>2
    <3>2. PageEntries \in Nat /\ ENTRY_THRESHOLD \in Nat
      BY PoolAssumption
    <3> HIDE DEF d
    <3> QED BY <2>1, <3>1, <3>2, EntryTypes
  <2> QED BY <2>1, <2>2
<1> QED BY <1>1, <1>3, <1>5, <1>6, <1>8 DEF PoolCounts, poolVars

\* A call returns that is no refill.
LEMMA PopCounted ==
    ASSUME TypeInv, PoolCounts, stack # <<>>, stack' = Front(stack), Top.kind # "entry_pool",
           \A k \in PoolPages : ~OutOf(Top, k), UNCHANGED poolVars,
           NEW d \in Int, entries' = entries + d, entry_count' = entry_count + d
    PROVE  PoolCounts'
<1>1. Outstanding' = Outstanding /\ EntryRefills' = EntryRefills \ {Len(stack)}
  BY PopCounts
<1>2. Len(stack) \notin EntryRefills
  BY TopIs DEF EntryRefills
<1>3. EntryRefills' = EntryRefills
  BY <1>1, <1>2
<1> QED BY <1>1, <1>3, CountsStep DEF poolVars

LEMMA CallReturnsCounts == ASSUME TypeInv, PoolCounts, CallReturns PROVE PoolCounts'
<1> DEFINE d == Len(Top.ends)
<1>1. /\ stack # <<>> /\ Top.kind = "call" /\ stack' = Front(stack) /\ free_memory_entries(d)
      /\ UNCHANGED poolVars
  BY DEF CallReturns, At
<1>2. d \in Int
  BY <1>1, TopIs DEF Activation
<1> HIDE DEF d
<1>3. entries' = entries + d /\ entry_count' = entry_count + d
  BY <1>1 DEF free_memory_entries
<1> QED BY <1>1, <1>2, <1>3, PopCounted DEF OutOf

LEMMA UserTableKnownCounts == ASSUME TypeInv, PoolCounts, UserTableKnown PROVE PoolCounts'
<1>1. /\ stack # <<>> /\ Top.pc = "take" /\ stack' = Front(stack) /\ get_memory_entry /\ UNCHANGED poolVars
  BY DEF UserTableKnown, At
<1>2. Top.kind = "user_table"
  BY <1>1, TopIs DEF RecordOK
<1>3. -1 \in Int /\ entries' = entries + (-1) /\ entry_count' = entry_count + (-1)
  BY <1>1, EntryTypes DEF get_memory_entry
<1> QED BY <1>1, <1>2, <1>3, PopCounted DEF OutOf

\* A refill of the page pool returns when all its pages are in the pool.
LEMMA PagePoolRefilledCounts == ASSUME TypeInv, PoolCounts, PagePoolRefilled PROVE PoolCounts'
<1>1. /\ stack # <<>> /\ Top.pc = "populate" /\ Top.ends = <<>> /\ stack' = Front(stack)
      /\ UNCHANGED <<poolVars, entryVars>>
  BY DEF PagePoolRefilled, At
<1>2. Top.kind = "page_pool" /\ Top.i = PAGE_POOL_THRESHOLD
  BY <1>1, TopIs DEF RecordOK
<1>3. \A k \in PoolPages : ~(PAGE_POOL_THRESHOLD <= k)
  BY PoolAssumption DEF PoolPages
<1>4. \A k \in PoolPages : ~OutOf(Top, k)
  BY <1>1, <1>2, <1>3 DEF OutOf
<1>5. 0 \in Int /\ entries' = entries + 0 /\ entry_count' = entry_count + 0
  BY <1>1, EntryTypes DEF entryVars
<1> QED BY <1>1, <1>2, <1>4, <1>5, PopCounted

LEMMA BeginsCounts ==
    ASSUME TypeInv, PoolCounts, (\E pages \in Requests : alloc_pages(pages)) \/ AllocUserTable
    PROVE  PoolCounts'
<1>1. \E f \in Activation : /\ f.kind \in {"call", "user_table"} /\ f.pc = "alloc"
                            /\ stack = <<>> /\ stack' = <<f>>
  <2>1. ASSUME NEW pages \in Requests, alloc_pages(pages)
        PROVE  \E f \in Activation : /\ f.kind \in {"call", "user_table"} /\ f.pc = "alloc"
                                     /\ stack = <<>> /\ stack' = <<f>>
    <3>1. pages \in Nat /\ pages > 0
      BY PoolAssumption
    <3>2. NewCall("call", pages) \in Activation
      BY <3>1, NewCallOK DEF Kinds
    <3>3. NewCall("call", pages).kind = "call" /\ NewCall("call", pages).pc = "alloc"
      BY DEF NewCall
    <3> QED BY <2>1, <3>2, <3>3 DEF alloc_pages
  <2>2. ASSUME AllocUserTable
        PROVE  \E f \in Activation : /\ f.kind \in {"call", "user_table"} /\ f.pc = "alloc"
                                     /\ stack = <<>> /\ stack' = <<f>>
    <3>1. NewCall("user_table", 1) \in Activation
      BY OnePage
    <3>2. NewCall("user_table", 1).kind = "user_table" /\ NewCall("user_table", 1).pc = "alloc"
      BY DEF NewCall
    <3> QED BY <2>2, <3>1, <3>2 DEF AllocUserTable
  <2> QED BY <2>1, <2>2
<1>2. PICK f \in Activation : /\ f.kind \in {"call", "user_table"} /\ f.pc = "alloc"
                              /\ stack = <<>> /\ stack' = <<f>>
  BY <1>1
<1>3. stack' = Append(stack, f) /\ stack \in Seq(Activation)
  BY <1>2 DEF TypeInv, TypeOK
<1>4. Outstanding' = Outstanding /\ EntryRefills' = EntryRefills
  BY <1>2, <1>3, PushCounts
<1>5. UNCHANGED <<poolVars, entryVars>>
  BY DEF alloc_pages, AllocUserTable
<1>6. 0 \in Int /\ entries' = entries + 0 /\ entry_count' = entry_count + 0
  BY <1>5, EntryTypes DEF entryVars
<1> QED BY <1>4, <1>5, <1>6, CountsStep DEF poolVars

LEMMA StopsCounts ==
    ASSUME PoolCounts, UNCHANGED <<poolVars, entryVars, stack>>
    PROVE  PoolCounts'
BY DEF PoolCounts, Outstanding, EntryRefills, poolVars, entryVars

-----------------------------------------------------------------------------
(* Frames.                                                                 *)

\* What a call owns are numbers of frames.
LEMMA OwnedNat == ASSUME NEW f \in Activation PROVE Owned(f) \subseteq Nat
<1>1. f.frame \in Nat /\ f.i \in Nat /\ f.pages \in Nat
  BY DEF Activation
<1>2. FirstOwned(f) \in Nat
  BY <1>1 DEF FirstOwned
<1>3. FirstOwned(f) .. f.frame + f.pages - 1 \subseteq Nat
  BY <1>1, <1>2
<1> QED BY <1>3 DEF Owned

\* The innermost call goes on.  It may own new frames, and a frame may become a
\* table that it owned before.
LEMMA OwnedContinue ==
    ASSUME TypeInv, OwnedInv, stack # <<>>, NEW f \in Activation, Continue(f),
           next_frame' \in Nat, next_frame <= next_frame',
           \A x \in Nat : IsTable(x)' => IsTable(x) \/ (x \in Owned(Top) /\ x \notin Owned(f)),
           \A x \in Owned(f) : x \in Owned(Top) \/ (next_frame <= x /\ x < next_frame')
    PROVE  OwnedInv'
<1> DEFINE n == Len(stack)
<1>1. /\ stack' \in Seq(Activation) /\ Len(stack') = n /\ n \in Nat \ {0} /\ Top = stack[n]
      /\ stack'[n] = f /\ \A l \in 1 .. n - 1 : stack'[l] = stack[l]
  BY ContinueStack DEF TypeInv
<1>2. DOMAIN stack = 1 .. n /\ DOMAIN stack' = 1 .. n /\ \A l \in 1 .. n : stack[l] \in Activation
  BY <1>1 DEF TypeInv, TypeOK
<1> HIDE DEF n
<1>3. \A l : l \in 1 .. n <=> l = n \/ l \in 1 .. n - 1
  BY <1>1
<1>4. next_frame \in Nat
  BY DEF TypeInv, TypeOK
<1>5. /\ \A x \in Nat : IsTable(x) => x < next_frame
      /\ \A l \in 1 .. n : \A x \in Owned(stack[l]) : x < next_frame /\ ~IsTable(x)
      /\ \A l, k \in 1 .. n : l # k => Owned(stack[l]) \cap Owned(stack[k]) = {}
  BY <1>2 DEF OwnedInv
<1>6. Owned(f) \subseteq Nat /\ \A l \in 1 .. n : Owned(stack[l]) \subseteq Nat
  BY <1>2, OwnedNat
<1>7. \A x \in Nat : x < next_frame => x < next_frame' /\ ~(next_frame <= x)
  BY <1>4
<1>8. n \in 1 .. n
  BY <1>1
<1>9. \A x \in Nat : IsTable(x)' => x < next_frame'
  BY <1>1, <1>5, <1>7, <1>8
<1>10. ASSUME NEW l \in 1 .. n, NEW x \in Owned(stack'[l])
       PROVE  x < next_frame' /\ ~IsTable(x)'
  <2>1. CASE l = n
    <3>1. x \in Owned(f) /\ x \in Nat
      BY <1>1, <1>6, <1>10, <2>1
    <3>2. CASE x \in Owned(Top)
      <4>1. x < next_frame /\ ~IsTable(x)
        BY <1>1, <1>5, <1>8, <3>2
      <4> QED BY <1>7, <3>1, <4>1
    <3>3. CASE next_frame <= x /\ x < next_frame'
      <4>1. ~(x < next_frame)
        BY <1>7, <3>1, <3>3
      <4>2. ~IsTable(x) /\ x \notin Owned(Top)
        BY <1>1, <1>5, <1>8, <3>1, <4>1
      <4> QED BY <3>1, <3>3, <4>2
    <3> QED BY <3>1, <3>2, <3>3
  <2>2. CASE l \in 1 .. n - 1
    <3>1. x \in Owned(stack[l]) /\ x \in Nat /\ l # n
      BY <1>1, <1>6, <1>10, <2>2
    <3>2. x < next_frame /\ ~IsTable(x)
      BY <1>5, <3>1
    <3>3. x \notin Owned(Top)
      BY <1>1, <1>5, <1>8, <3>1
    <3> QED BY <1>7, <3>1, <3>2, <3>3
  <2> QED BY <1>3, <2>1, <2>2
<1>11. ASSUME NEW l \in 1 .. n, l # n PROVE Owned(stack'[l]) \cap Owned(f) = {}
  <2>1. l \in 1 .. n - 1 /\ stack'[l] = stack[l]
    BY <1>1, <1>3, <1>11
  <2>2. \A x \in Owned(stack[l]) : x \in Nat /\ x < next_frame
    BY <1>5, <1>6
  <2>3. Owned(stack[l]) \cap Owned(Top) = {}
    BY <1>1, <1>5, <1>8, <1>11
  <2> QED BY <1>7, <2>1, <2>2, <2>3
<1>12. ASSUME NEW l \in 1 .. n, NEW k \in 1 .. n, l # k PROVE Owned(stack'[l]) \cap Owned(stack'[k]) = {}
  <2>1. CASE l = n
    BY <1>1, <1>11, <1>12, <2>1
  <2>2. CASE k = n
    BY <1>1, <1>11, <1>12, <2>2
  <2>3. CASE l # n /\ k # n
    <3>1. stack'[l] = stack[l] /\ stack'[k] = stack[k]
      BY <1>1, <1>3, <2>3
    <3> QED BY <1>5, <1>12, <3>1
  <2> QED BY <2>1, <2>2, <2>3
<1> QED BY <1>2, <1>9, <1>10, <1>12 DEF OwnedInv

\* The innermost call returns.  A frame may become a table that it owned.
LEMMA OwnedPop ==
    ASSUME TypeInv, OwnedInv, stack # <<>>, stack' = Front(stack), next_frame' = next_frame,
           \A x \in Nat : IsTable(x)' => IsTable(x) \/ x \in Owned(Top)
    PROVE  OwnedInv'
<1> DEFINE n == Len(stack)
<1>1. /\ stack' \in Seq(Activation) /\ Len(stack') = n - 1 /\ n \in Nat \ {0} /\ Top = stack[n]
      /\ \A l \in 1 .. n - 1 : stack'[l] = stack[l]
  BY PopStack DEF TypeInv
<1>2. DOMAIN stack = 1 .. n /\ DOMAIN stack' = 1 .. n - 1 /\ \A l \in 1 .. n : stack[l] \in Activation
  BY <1>1 DEF TypeInv, TypeOK
<1> HIDE DEF n
<1>3. n \in 1 .. n /\ \A l \in 1 .. n - 1 : l \in 1 .. n /\ l # n
  BY <1>1
<1>4. /\ \A x \in Nat : IsTable(x) => x < next_frame
      /\ \A l \in 1 .. n : \A x \in Owned(stack[l]) : x < next_frame /\ ~IsTable(x)
      /\ \A l, k \in 1 .. n : l # k => Owned(stack[l]) \cap Owned(stack[k]) = {}
  BY <1>2 DEF OwnedInv
<1>5. \A l \in 1 .. n : Owned(stack[l]) \subseteq Nat
  BY <1>2, OwnedNat
<1>6. \A x \in Nat : IsTable(x)' => x < next_frame'
  BY <1>1, <1>3, <1>4
<1>7. ASSUME NEW l \in 1 .. n - 1, NEW x \in Owned(stack'[l]) PROVE x < next_frame' /\ ~IsTable(x)'
  <2>1. x \in Owned(stack[l]) /\ x \in Nat /\ x < next_frame /\ ~IsTable(x)
    BY <1>1, <1>3, <1>4, <1>5, <1>7
  <2>2. x \notin Owned(Top)
    BY <1>1, <1>3, <1>4, <2>1
  <2> QED BY <2>1, <2>2
<1>8. \A l, k \in 1 .. n - 1 : l # k => Owned(stack'[l]) \cap Owned(stack'[k]) = {}
  BY <1>1, <1>3, <1>4
<1> QED BY <1>2, <1>6, <1>7, <1>8 DEF OwnedInv

\* A call begins, which owns nothing.
LEMMA OwnedPush ==
    ASSUME TypeInv, OwnedInv, NEW s \in Seq(Activation), Len(s) = Len(stack), NEW f \in Activation,
           f.pc = "alloc", stack' = Append(s, f), next_frame' = next_frame, UNCHANGED <<pd, pool, user_maps>>,
           \A l \in 1 .. Len(stack) : Owned(s[l]) = Owned(stack[l])
    PROVE  OwnedInv'
<1> DEFINE n == Len(stack)
<1> DEFINE m == n + 1
<1>1. /\ stack' \in Seq(Activation) /\ Len(stack') = m /\ stack'[m] = f
      /\ \A l \in 1 .. n : stack'[l] = s[l]
  BY OneMore
<1>2. DOMAIN stack = 1 .. n /\ DOMAIN stack' = 1 .. m /\ n \in Nat
  BY <1>1 DEF TypeInv, TypeOK
<1>3. \A l : l \in 1 .. m <=> l = m \/ l \in 1 .. n
  BY <1>2
<1>4. Owned(f) = {}
  BY DEF Owned
<1>5. \A l \in 1 .. n : Owned(stack'[l]) = Owned(stack[l])
  BY <1>1
<1> HIDE DEF n, m
<1>6. \A x \in Nat : IsTable(x)' <=> IsTable(x)
  BY DEF IsTable
<1>7. /\ \A x \in Nat : IsTable(x) => x < next_frame
      /\ \A l \in 1 .. n : \A x \in Owned(stack[l]) : x < next_frame /\ ~IsTable(x)
      /\ \A l, k \in 1 .. n : l # k => Owned(stack[l]) \cap Owned(stack[k]) = {}
  BY <1>2 DEF OwnedInv
<1>8. \A x : IsTable(x)' <=> IsTable(x)
  BY DEF IsTable
<1>9. \A l \in 1 .. m : \A x \in Owned(stack'[l]) : x < next_frame' /\ ~IsTable(x)'
  BY <1>1, <1>3, <1>4, <1>5, <1>7, <1>8
<1>10. \A l, k \in 1 .. m : l # k => Owned(stack'[l]) \cap Owned(stack'[k]) = {}
  <2> SUFFICES ASSUME NEW l \in 1 .. m, NEW k \in 1 .. m, l # k
               PROVE  Owned(stack'[l]) \cap Owned(stack'[k]) = {}
    OBVIOUS
  <2>1. CASE l = m \/ k = m
    BY <1>1, <1>4, <2>1
  <2>2. CASE l \in 1 .. n /\ k \in 1 .. n
    BY <1>5, <1>7, <2>2
  <2> QED BY <1>3, <2>1, <2>2
<1> QED BY <1>2, <1>6, <1>7, <1>9, <1>10 DEF OwnedInv

\* The calls stay, and no frame becomes a table.
LEMMA OwnedStay ==
    ASSUME TypeInv, OwnedInv, UNCHANGED <<stack, next_frame>>, \A x \in Nat : IsTable(x)' => IsTable(x)
    PROVE  OwnedInv'
<1>1. \A l \in DOMAIN stack : Owned(stack[l]) \subseteq Nat
  <2>1. \A l \in DOMAIN stack : stack[l] \in Activation
    BY DEF TypeInv, TypeOK
  <2> QED BY <2>1, OwnedNat
<1>2. \A l \in DOMAIN stack : \A x \in Owned(stack[l]) : x < next_frame /\ ~IsTable(x)'
  BY <1>1 DEF OwnedInv
<1> QED BY <1>2 DEF OwnedInv

\* What a call owns depends on its place, its frame and its pages.
LEMMA OwnedIs ==
    ASSUME NEW f
    PROVE  /\ f.pc \in {"alloc", "split"} => Owned(f) = {}
           /\ f.pc \in {"map", "install", "take"} => Owned(f) = f.frame .. f.frame + f.pages - 1
           /\ f.pc = "populate" => Owned(f) = f.frame + f.i .. f.frame + f.pages - 1
BY DEF Owned, FirstOwned

\* Tables stay tables.
LEMMA SameTables == ASSUME UNCHANGED <<pd, pool, user_maps>> PROVE \A x \in Nat : IsTable(x)' => IsTable(x)
BY DEF IsTable

\* The innermost call goes on and owns what it owned.
LEMMA OwnedSame ==
    ASSUME TypeInv, OwnedInv, stack # <<>>, NEW f \in Activation, Continue(f), next_frame' = next_frame,
           UNCHANGED <<pd, pool, user_maps>>, Owned(f) \subseteq Owned(Top)
    PROVE  OwnedInv'
<1>1. next_frame \in Nat
  BY DEF TypeInv, TypeOK
<1>2. next_frame' \in Nat /\ next_frame <= next_frame'
  BY <1>1
<1>3. \A x \in Nat : IsTable(x)' => IsTable(x) \/ (x \in Owned(Top) /\ x \notin Owned(f))
  BY SameTables
<1>4. \A x \in Owned(f) : x \in Owned(Top) \/ (next_frame <= x /\ x < next_frame')
  OBVIOUS
<1> QED BY <1>2, <1>3, <1>4, OwnedContinue

\* An allocation goes on, which owns nothing yet.
LEMMA AllocationOwned ==
    ASSUME TypeInv, TypeInv', OwnedInv, UnlinkBlock \/ SplitBlock \/ TakeBlock \/ TakeContiguous
    PROVE  OwnedInv'
<1>1. stack # <<>> /\ UNCHANGED <<pd, pool, user_maps, next_frame>>
  BY DEF UnlinkBlock, SplitBlock, TakeBlock, TakeContiguous, At, tableVars, poolVars, spaceVars
<1>2. stack \in Seq(Activation) /\ stack' \in Seq(Activation)
  BY DEF TypeInv, TypeOK
<1>3. PICK g : Continue(g) /\ g.pc \in {"alloc", "split"}
  <2>1. Top \in Activation /\ Top.pc \in {"alloc", "split"}
    BY <1>1, TopIs DEF UnlinkBlock, SplitBlock, TakeBlock, TakeContiguous, At
  <2>2. /\ \A o : [Top EXCEPT !.pc = "split", !.order = o].pc = "split"
        /\ [Top EXCEPT !.pc = "alloc", !.order = @ - 1].pc = "alloc"
        /\ \A s : [Top EXCEPT !.ends = s, !.order = 0].pc = Top.pc
    BY <2>1 DEF Activation
  <2>3. CASE UnlinkBlock
    BY <2>2, <2>3 DEF UnlinkBlock
  <2>4. CASE SplitBlock
    BY <2>2, <2>4 DEF SplitBlock
  <2>5. CASE TakeBlock
    <3>1. PICK o : Continue([Top EXCEPT !.ends = Append(@, Top.pages - Missing + Size(o)), !.order = 0])
      BY <2>5 DEF TakeBlock
    <3> QED BY <2>1, <2>2, <3>1
  <2>6. CASE TakeContiguous
    BY <2>1, <2>2, <2>6 DEF TakeContiguous
  <2> QED BY <2>3, <2>4, <2>5, <2>6
<1>4. stack' = [stack EXCEPT ![Len(stack)] = g] /\ Len(stack) \in DOMAIN stack
  BY <1>1, <1>3, TopIs DEF Continue
<1>5. stack'[Len(stack)] = g /\ Len(stack) \in DOMAIN stack'
  BY <1>4
<1>6. g \in Activation
  BY <1>2, <1>5
<1>7. Owned(g) = {}
  BY <1>3, OwnedIs
<1> QED BY <1>1, <1>3, <1>6, <1>7, OwnedSame

\* The frames of a mapping that starts are new.
LEMMA StartMappingOwned == ASSUME TypeInv, OwnedInv, StartMapping PROVE OwnedInv'
<1> DEFINE f == [Top EXCEPT !.pc = "map", !.addr = current_address, !.frame = next_frame]
<1>1. /\ stack # <<>> /\ Continue(f) /\ next_frame' = next_frame + Top.pages
      /\ UNCHANGED <<pd, pool, user_maps>>
  BY DEF StartMapping, At, tableVars, poolVars
<1>2. Top \in Activation /\ Top.pages \in Nat /\ next_frame \in Nat /\ current_address \in Nat
  <2>1. next_frame \in Nat /\ current_address \in Nat
    BY DEF TypeInv, TypeOK
  <2>2. Top \in Activation /\ Top.pages \in Nat
    BY <1>1, TopIs DEF Activation
  <2> QED BY <2>1, <2>2
<1>3. f \in Activation /\ f.pc = "map" /\ f.frame = next_frame /\ f.pages = Top.pages
  BY <1>2 DEF Activation
<1> HIDE DEF f
<1>4. Owned(f) = next_frame .. next_frame + Top.pages - 1
  BY <1>3, OwnedIs
<1>5. next_frame' \in Nat /\ next_frame <= next_frame'
  BY <1>1, <1>2
<1>6. \A x \in Owned(f) : next_frame <= x /\ x < next_frame'
  BY <1>1, <1>2, <1>4
<1>7. \A x \in Nat : IsTable(x)' => IsTable(x) \/ (x \in Owned(Top) /\ x \notin Owned(f))
  BY <1>1, SameTables
<1>8. \A x \in Owned(f) : x \in Owned(Top) \/ (next_frame <= x /\ x < next_frame')
  BY <1>6
<1> QED BY <1>1, <1>3, <1>5, <1>7, <1>8, OwnedContinue

\* A mapping goes on with its frames.
LEMMA MappingOwned ==
    ASSUME TypeInv, OwnedInv, MapPage \/ PoolSuffices \/ UserTableMapped \/ StartPopulating \/ FreeBlockEntry
    PROVE  OwnedInv'
<1>1. stack # <<>> /\ UNCHANGED <<pd, pool, user_maps, next_frame>>
  BY DEF MapPage, PoolSuffices, TableMissing, UserTableMapped, StartPopulating, FreeBlockEntry, At,
         tableVars, poolVars, spaceVars
<1>2. Top \in Activation /\ Top.i \in Nat /\ Top.frame \in Nat /\ Top.pages \in Nat /\ Top.ends \in Seq(Nat)
  BY <1>1, TopIs DEF Activation
<1>3. CASE MapPage
  <2> DEFINE f == [Top EXCEPT !.i = @ + 1]
  <2>1. Continue(f) /\ Top.pc = "map" /\ Top.i + 1 \in Nat
    BY <1>2, <1>3 DEF MapPage, At
  <2>2. f \in Activation /\ f.pc = "map" /\ f.frame = Top.frame /\ f.pages = Top.pages
    BY <1>2, <2>1 DEF Activation
  <2> HIDE DEF f
  <2>3. Owned(f) = Owned(Top)
    BY <2>1, <2>2, OwnedIs
  <2> QED BY <1>1, <2>1, <2>2, <2>3, OwnedSame
<1>4. CASE PoolSuffices
  <2> DEFINE f == [Top EXCEPT !.pc = "install"]
  <2>1. Continue(f) /\ Top.pc = "map"
    BY <1>4 DEF PoolSuffices, TableMissing, At
  <2>2. f \in Activation /\ f.pc = "install" /\ f.frame = Top.frame /\ f.pages = Top.pages
    BY <1>2 DEF Activation
  <2> HIDE DEF f
  <2>3. Owned(f) = Owned(Top)
    BY <2>1, <2>2, OwnedIs
  <2> QED BY <1>1, <2>1, <2>2, <2>3, OwnedSame
<1>5. CASE UserTableMapped
  <2> DEFINE f == [Top EXCEPT !.pc = "take"]
  <2>1. Continue(f) /\ Top.pc = "map"
    BY <1>5 DEF UserTableMapped, At
  <2>2. f \in Activation /\ f.pc = "take" /\ f.frame = Top.frame /\ f.pages = Top.pages
    BY <1>2 DEF Activation
  <2> HIDE DEF f
  <2>3. Owned(f) = Owned(Top)
    BY <2>1, <2>2, OwnedIs
  <2> QED BY <1>1, <2>1, <2>2, <2>3, OwnedSame
<1>6. CASE StartPopulating
  <2> DEFINE f == [Top EXCEPT !.pc = "populate", !.i = 0]
  <2>1. Continue(f) /\ Top.pc = "map"
    BY <1>6 DEF StartPopulating, At
  <2>2. f \in Activation /\ f.pc = "populate" /\ f.frame = Top.frame /\ f.pages = Top.pages /\ f.i = 0
    BY <1>2 DEF Activation
  <2> HIDE DEF f
  <2>3. Owned(f) = Top.frame + 0 .. Top.frame + Top.pages - 1 /\ Top.frame + 0 = Top.frame
    BY <1>2, <2>2, OwnedIs
  <2>4. Owned(f) = Owned(Top)
    BY <2>1, <2>3, OwnedIs
  <2> QED BY <1>1, <2>1, <2>2, <2>4, OwnedSame
<1>7. CASE FreeBlockEntry
  <2> DEFINE f == [Top EXCEPT !.ends = Tail(@)]
  <2>1. Continue(f) /\ Top.pc = "populate" /\ Tail(Top.ends) \in Seq(Nat)
    BY <1>2, <1>7 DEF FreeBlockEntry, At
  <2>2. f \in Activation /\ f.pc = "populate" /\ f.frame = Top.frame /\ f.pages = Top.pages /\ f.i = Top.i
    BY <1>2, <2>1 DEF Activation
  <2> HIDE DEF f
  <2>3. Owned(f) = Owned(Top)
    BY <2>1, <2>2, OwnedIs
  <2> QED BY <1>1, <2>1, <2>2, <2>3, OwnedSame
<1> QED BY <1>3, <1>4, <1>5, <1>6, <1>7

\* The page of the pool that becomes a table was in the pool.
LEMMA InstalledTables ==
    ASSUME TypeInv, PoolCounts, At("install"), pool # <<>>, pd' = NewDirectory, pool' = Tail(pool),
           UNCHANGED user_maps
    PROVE  \A x \in Nat : IsTable(x)' => IsTable(x)
<1>1. /\ TableOf(Page) \in 0 .. TableCount - 1
      /\ \A t \in 0 .. TableCount - 1 : pd'[t] = IF t = TableOf(Page) THEN Head(pool).phys_addr ELSE pd[t]
      /\ DOMAIN pd' = 0 .. TableCount - 1
  BY NewDirectoryType
<1>2. DOMAIN pd = 0 .. TableCount - 1
  BY DEF TypeInv, TypeOK
<1>3. /\ Head(pool) = pool[1] /\ Len(pool) \in Nat \ {0} /\ DOMAIN pool = 1 .. Len(pool)
      /\ DOMAIN pool' = 1 .. Len(pool) - 1 /\ \A k \in 1 .. Len(pool) - 1 : pool'[k] = pool[k + 1]
  <2>1. pool \in Seq(MappingEntry)
    BY DEF TypeInv, TypeOK
  <2>2. /\ Head(pool) = pool[1] /\ Len(pool) \in Nat \ {0}
        /\ Tail(pool) \in Seq(MappingEntry) /\ Len(Tail(pool)) = Len(pool) - 1
        /\ \A k \in 1 .. Len(pool) - 1 : Tail(pool)[k] = pool[k + 1]
    BY FirstPage
  <2>3. DOMAIN pool = 1 .. Len(pool) /\ DOMAIN Tail(pool) = 1 .. Len(Tail(pool))
    BY <2>1, <2>2
  <2> QED BY <2>2, <2>3
<1>4. 1 \in DOMAIN pool /\ \A k \in 1 .. Len(pool) - 1 : k + 1 \in DOMAIN pool
  BY <1>3
<1> SUFFICES ASSUME NEW x \in Nat, IsTable(x)' PROVE IsTable(x)
  OBVIOUS
<1>5. \/ x # NoTable /\ \E t \in DOMAIN pd' : pd'[t] = x
      \/ \E k \in DOMAIN pool' : pool'[k].phys_addr = x
      \/ \E e \in user_maps' : e.phys_addr = x
  BY DEF IsTable, NoTable
<1>6. CASE x # NoTable /\ \E t \in DOMAIN pd' : pd'[t] = x
  BY <1>1, <1>2, <1>3, <1>4, <1>6 DEF IsTable
<1>7. CASE \E k \in DOMAIN pool' : pool'[k].phys_addr = x
  BY <1>3, <1>4, <1>7 DEF IsTable
<1>8. CASE \E e \in user_maps' : e.phys_addr = x
  BY <1>8 DEF IsTable
<1> QED BY <1>5, <1>6, <1>7, <1>8

LEMMA InstallTableOwned == ASSUME TypeInv, PoolCounts, OwnedInv, InstallTable PROVE OwnedInv'
<1> DEFINE f == [Top EXCEPT !.pc = "map"]
<1>1. /\ At("install") /\ stack # <<>> /\ Top.pc = "install" /\ Continue(f) /\ pool # <<>>
      /\ pool' = Tail(pool) /\ pd' = NewDirectory /\ UNCHANGED <<user_maps, next_frame>>
  BY DEF InstallTable, At, spaceVars
<1>2. f \in Activation /\ f.pc = "map" /\ f.frame = Top.frame /\ f.pages = Top.pages
  BY <1>1, TopIs DEF Activation
<1> HIDE DEF f
<1>3. Owned(f) = Owned(Top)
  BY <1>1, <1>2, OwnedIs
<1>4. \A x \in Nat : IsTable(x)' => IsTable(x)
  BY <1>1, InstalledTables
<1>5. next_frame \in Nat
  BY DEF TypeInv, TypeOK
<1>6. next_frame' \in Nat /\ next_frame <= next_frame'
  BY <1>1, <1>5
<1>7. \A x \in Nat : IsTable(x)' => IsTable(x) \/ (x \in Owned(Top) /\ x \notin Owned(f))
  BY <1>4
<1>8. \A x \in Owned(f) : x \in Owned(Top) \/ (next_frame <= x /\ x < next_frame')
  BY <1>3
<1> QED BY <1>1, <1>2, <1>6, <1>7, <1>8, OwnedContinue

LEMMA InstallFaultsOwned == ASSUME TypeInv, PoolCounts, OwnedInv, InstallFaults PROVE OwnedInv'
<1>1. /\ At("install") /\ pool # <<>> /\ pool' = Tail(pool) /\ pd' = NewDirectory
      /\ UNCHANGED <<user_maps, next_frame, stack>>
  BY DEF InstallFaults, spaceVars
<1> QED BY <1>1, InstalledTables, OwnedStay

\* The page that is put into the pool was owned by the refill.
LEMMA AddedPage ==
    ASSUME TypeInv, OwnedInv, AddToPool
    PROVE  LET x == Top.frame + Top.i
               p == PoolEntry(Page, x)
           IN  /\ x \in Nat /\ x \in Owned(Top) /\ ~IsTable(x)
               /\ pool' = <<p>> \o pool /\ p \in MappingEntry /\ p.phys_addr = x
               /\ Len(pool) \in Nat /\ DOMAIN pool = 1 .. Len(pool) /\ DOMAIN pool' = 1 .. Len(pool) + 1
               /\ pool'[1] = p /\ \A k \in 1 .. Len(pool) : pool'[k + 1] = pool[k]
<1> DEFINE x == Top.frame + Top.i
<1> DEFINE p == PoolEntry(Page, x)
<1>1. /\ At("populate") /\ stack # <<>> /\ Top.pc = "populate" /\ get_memory_entry /\ pool' = <<p>> \o pool
  BY DEF AddToPool, At
<1>2. /\ Top \in Activation /\ Top.frame \in Nat /\ Top.i \in Nat /\ Top.pages \in Nat /\ Top.addr \in Nat
      /\ Len(stack) \in DOMAIN stack /\ Top = stack[Len(stack)]
  BY <1>1, TopIs DEF Activation
<1>3. Top.i < Top.pages
  BY <1>1, <1>2, Populating
<1>4. x \in Nat /\ x \in Top.frame + Top.i .. Top.frame + Top.pages - 1
  BY <1>2, <1>3
<1>5. x \in Owned(Top)
  BY <1>1, <1>4, OwnedIs
<1>6. ~IsTable(x)
  BY <1>2, <1>5 DEF OwnedInv
<1>7. p \in MappingEntry /\ p.phys_addr = x
  BY <1>2, <1>4 DEF Page, PoolEntry, MappingEntry
<1>8. pool \in Seq(MappingEntry)
  BY DEF TypeInv, TypeOK
<1> HIDE DEF p
<1>9. /\ Len(pool) \in Nat /\ DOMAIN pool = 1 .. Len(pool) /\ DOMAIN pool' = 1 .. Len(pool) + 1
      /\ pool'[1] = p /\ \A k \in 1 .. Len(pool) : pool'[k + 1] = pool[k]
  BY <1>1, <1>7, <1>8
<1> QED BY <1>1, <1>4, <1>5, <1>6, <1>7, <1>9 DEF p

LEMMA AddToPoolOwned == ASSUME TypeInv, OwnedInv, AddToPool PROVE OwnedInv'
<1> DEFINE f == [Top EXCEPT !.i = @ + 1]
<1> DEFINE y == Top.frame + Top.i
<1> DEFINE n == Len(pool)
<1>1. /\ stack # <<>> /\ Top.pc = "populate" /\ Continue(f) /\ UNCHANGED <<pd, user_maps, next_frame>>
  BY DEF AddToPool, At, tableVars, spaceVars
<1>2. Top \in Activation /\ Top.frame \in Nat /\ Top.i \in Nat /\ Top.pages \in Nat /\ Top.i + 1 \in Nat
  BY <1>1, TopIs DEF Activation
<1>3. f \in Activation /\ f.pc = "populate" /\ f.frame = Top.frame /\ f.pages = Top.pages /\ f.i = Top.i + 1
  BY <1>1, <1>2 DEF Activation
<1> HIDE DEF f
<1>4. /\ Owned(f) = Top.frame + (Top.i + 1) .. Top.frame + Top.pages - 1
      /\ Owned(Top) = Top.frame + Top.i .. Top.frame + Top.pages - 1
  BY <1>1, <1>3, OwnedIs
<1>5. Owned(f) \subseteq Owned(Top) /\ y \notin Owned(f)
  BY <1>2, <1>4
<1>6. /\ y \in Owned(Top) /\ n \in Nat /\ DOMAIN pool = 1 .. n /\ DOMAIN pool' = 1 .. n + 1
      /\ pool'[1].phys_addr = y /\ \A k \in 1 .. n : pool'[k + 1] = pool[k]
  BY AddedPage
<1> HIDE DEF y, n
<1>7. \A x \in Nat : IsTable(x)' => IsTable(x) \/ x = y
  <2> SUFFICES ASSUME NEW x \in Nat, IsTable(x)' PROVE IsTable(x) \/ x = y
    OBVIOUS
  <2>1. CASE \E k \in DOMAIN pool' : pool'[k].phys_addr = x
    <3>1. PICK k \in 1 .. n + 1 : pool'[k].phys_addr = x
      BY <1>6, <2>1
    <3>2. k = 1 \/ (k - 1 \in 1 .. n /\ (k - 1) + 1 = k)
      BY <1>6
    <3>3. k = 1 \/ (k - 1 \in DOMAIN pool /\ pool[k - 1].phys_addr = x)
      BY <1>6, <3>1, <3>2
    <3> QED BY <1>6, <3>1, <3>3 DEF IsTable
  <2>2. CASE x # NoTable /\ \E t \in DOMAIN pd : pd[t] = x
    BY <2>2 DEF IsTable
  <2>3. CASE \E e \in user_maps : e.phys_addr = x
    BY <2>3 DEF IsTable
  <2> QED BY <1>1, <2>1, <2>2, <2>3 DEF IsTable, NoTable
<1>8. next_frame \in Nat
  BY DEF TypeInv, TypeOK
<1>9. next_frame' \in Nat /\ next_frame <= next_frame'
  BY <1>1, <1>8
<1>10. \A x \in Nat : IsTable(x)' => IsTable(x) \/ (x \in Owned(Top) /\ x \notin Owned(f))
  BY <1>5, <1>6, <1>7
<1>11. \A x \in Owned(f) : x \in Owned(Top) \/ (next_frame <= x /\ x < next_frame')
  BY <1>5
<1> QED BY <1>1, <1>3, <1>9, <1>10, <1>11, OwnedContinue

\* The frame of a table for a user's space was owned by its call.
LEMMA KnownFrame ==
    ASSUME TypeInv, OwnedInv, UserTableKnown
    PROVE  /\ stack # <<>> /\ Top.frame \in Nat /\ Top.frame \in Owned(Top) /\ ~IsTable(Top.frame)
           /\ \A e \in user_maps' : e \in user_maps \/ e.phys_addr = Top.frame
<1>1. stack # <<>> /\ Top.pc = "take" /\ user_maps' = user_maps \cup {PoolEntry(Top.addr, Top.frame)}
  BY DEF UserTableKnown, At
<1>2. /\ Top.frame \in Nat /\ Top.pages = 1 /\ Len(stack) \in DOMAIN stack /\ Top = stack[Len(stack)]
  BY <1>1, TopIs DEF Activation, RecordOK
<1>3. Top.frame \in Top.frame .. Top.frame + Top.pages - 1
  BY <1>2
<1>4. Top.frame \in Owned(Top)
  BY <1>1, <1>3, OwnedIs
<1>5. ~IsTable(Top.frame)
  BY <1>2, <1>4 DEF OwnedInv
<1> QED BY <1>1, <1>2, <1>4, <1>5 DEF PoolEntry

LEMMA ReturnsOwned ==
    ASSUME TypeInv, OwnedInv, CallReturns \/ EntryPoolRefilled \/ PagePoolRefilled \/ UserTableKnown
    PROVE  OwnedInv'
<1>1. /\ stack # <<>> /\ stack' = Front(stack) /\ UNCHANGED <<pd, pool, next_frame>>
  BY DEF CallReturns, EntryPoolRefilled, PagePoolRefilled, UserTableKnown, At, tableVars, poolVars, spaceVars
<1>2. CASE UNCHANGED user_maps
  BY <1>1, <1>2, SameTables, OwnedPop
<1>3. CASE UserTableKnown
  <2>1. \A e \in user_maps' : e \in user_maps \/ e.phys_addr = Top.frame
    BY <1>3, KnownFrame
  <2>2. \A x \in Nat : IsTable(x)' => IsTable(x) \/ x = Top.frame
    BY <1>1, <2>1 DEF IsTable
  <2>3. \A x \in Nat : IsTable(x)' => IsTable(x) \/ x \in Owned(Top)
    BY <1>3, <2>2, KnownFrame
  <2> QED BY <1>1, <2>3, OwnedPop
<1> QED BY <1>2, <1>3 DEF CallReturns, EntryPoolRefilled, PagePoolRefilled, tableVars

LEMMA BeginsOwned ==
    ASSUME TypeInv, OwnedInv, (\E pages \in Requests : alloc_pages(pages)) \/ AllocUserTable \/ RefillEntryPool
    PROVE  OwnedInv'
<1>1. \E f \in Activation : f.pc = "alloc" /\ stack' = Append(stack, f)
  <2>1. ASSUME NEW pages \in Requests, alloc_pages(pages)
        PROVE  \E f \in Activation : f.pc = "alloc" /\ stack' = Append(stack, f)
    <3>1. pages \in Nat /\ pages > 0
      BY PoolAssumption
    <3>2. NewCall("call", pages) \in Activation
      BY <3>1, NewCallOK DEF Kinds
    <3>3. NewCall("call", pages).pc = "alloc"
      BY DEF NewCall
    <3>4. stack = <<>> /\ stack' = <<NewCall("call", pages)>>
      BY <2>1 DEF alloc_pages
    <3>5. stack' = Append(stack, NewCall("call", pages))
      BY <3>4
    <3> QED BY <3>2, <3>3, <3>5
  <2>2. ASSUME AllocUserTable
        PROVE  \E f \in Activation : f.pc = "alloc" /\ stack' = Append(stack, f)
    <3>1. NewCall("user_table", 1) \in Activation
      BY OnePage
    <3>2. NewCall("user_table", 1).pc = "alloc"
      BY DEF NewCall
    <3>3. stack = <<>> /\ stack' = <<NewCall("user_table", 1)>>
      BY <2>2 DEF AllocUserTable
    <3>4. stack' = Append(stack, NewCall("user_table", 1))
      BY <3>3
    <3> QED BY <3>1, <3>2, <3>4
  <2>3. ASSUME RefillEntryPool
        PROVE  \E f \in Activation : f.pc = "alloc" /\ stack' = Append(stack, f)
    <3>1. NewCall("entry_pool", 1) \in Activation
      BY OnePage
    <3>2. NewCall("entry_pool", 1).pc = "alloc"
      BY DEF NewCall
    <3> QED BY <2>3, <3>1, <3>2 DEF RefillEntryPool
  <2> QED BY <2>1, <2>2, <2>3
<1>2. UNCHANGED <<pd, pool, user_maps, next_frame>>
  BY DEF alloc_pages, AllocUserTable, RefillEntryPool, tableVars, poolVars, spaceVars
<1>3. stack \in Seq(Activation)
  BY DEF TypeInv, TypeOK
<1> QED BY <1>1, <1>2, <1>3, OwnedPush

LEMMA RefillPagePoolOwned == ASSUME TypeInv, OwnedInv, RefillPagePool PROVE OwnedInv'
<1> DEFINE g == [Top EXCEPT !.pc = "install"]
<1> DEFINE s == [stack EXCEPT ![Len(stack)] = g]
<1> DEFINE f == NewCall("page_pool", PAGE_POOL_THRESHOLD)
<1> DEFINE n == Len(stack)
<1>1. /\ stack # <<>> /\ Top.pc = "map" /\ UNCHANGED <<pd, pool, user_maps, next_frame>>
  BY DEF RefillPagePool, TableMissing, At, tableVars, spaceVars
<1>2. stack' = Append(s, f)
  BY DEF RefillPagePool, Top, Last
<1>3. Top \in Activation /\ stack \in Seq(Activation) /\ Top = stack[n]
  BY <1>1, TopIs DEF TypeInv, TypeOK
<1>4. g \in Activation /\ g.pc = "install" /\ g.frame = Top.frame /\ g.pages = Top.pages
  BY <1>3 DEF Activation
<1> HIDE DEF g
<1>5. Owned(g) = Owned(Top)
  BY <1>1, <1>4, OwnedIs
<1>6. f \in Activation /\ f.pc = "alloc"
  <2>1. PAGE_POOL_THRESHOLD \in Nat /\ PAGE_POOL_THRESHOLD > 0
    BY PoolAssumption
  <2>2. "page_pool" \in Kinds
    BY DEF Kinds
  <2>3. f \in Activation
    BY <2>1, <2>2, NewCallOK
  <2> QED BY <2>3 DEF NewCall
<1> HIDE DEF f
<1>7. /\ s \in Seq(Activation) /\ Len(s) = n /\ n \in Nat \ {0}
      /\ s[n] = g /\ \A l \in 1 .. n - 1 : s[l] = stack[l]
  BY <1>1, <1>3, <1>4, LastReplaced, TopIs
<1> HIDE DEF s
<1>8. \A l \in 1 .. n : Owned(s[l]) = Owned(stack[l])
  <2>1. \A l \in 1 .. n : l = n \/ l \in 1 .. n - 1
    BY <1>7
  <2> QED BY <1>3, <1>5, <1>7, <2>1
<1> QED BY <1>1, <1>2, <1>6, <1>7, <1>8, OwnedPush

\* The page of the pool that becomes a table is used once, and can be found.
LEMMA InstalledUse ==
    ASSUME TypeInv, PoolCounts, UseInv, At("install"), pool # <<>>, pd' = NewDirectory, pool' = Tail(pool),
           entry_maps' = entry_maps \cup {Head(pool)}, UNCHANGED user_maps
    PROVE  UseInv'
<1> DEFINE h == Head(pool)
<1> DEFINE d == TableOf(Page)
<1> DEFINE n == Len(pool)
<1>1. /\ d \in 0 .. TableCount - 1 /\ h.phys_addr \in Nat
      /\ \A t \in 0 .. TableCount - 1 : pd'[t] = IF t = d THEN h.phys_addr ELSE pd[t]
      /\ DOMAIN pd' = 0 .. TableCount - 1
  BY NewDirectoryType
<1>2. DOMAIN pd = 0 .. TableCount - 1
  BY DEF TypeInv, TypeOK
<1>3. /\ h = pool[1] /\ n \in Nat \ {0} /\ DOMAIN pool = 1 .. n
      /\ DOMAIN pool' = 1 .. n - 1 /\ \A k \in 1 .. n - 1 : pool'[k] = pool[k + 1]
  <2>1. pool \in Seq(MappingEntry)
    BY DEF TypeInv, TypeOK
  <2>2. /\ Head(pool) = pool[1] /\ Len(pool) \in Nat \ {0}
        /\ Tail(pool) \in Seq(MappingEntry) /\ Len(Tail(pool)) = Len(pool) - 1
        /\ \A k \in 1 .. Len(pool) - 1 : Tail(pool)[k] = pool[k + 1]
    BY FirstPage
  <2>3. DOMAIN pool = 1 .. Len(pool) /\ DOMAIN Tail(pool) = 1 .. Len(Tail(pool))
    BY <2>1, <2>2
  <2> QED BY <2>2, <2>3
<1>4. h \in entry_maps'
  OBVIOUS
<1> HIDE DEF h, d, n
<1>5. 1 \in 1 .. n /\ \A k \in 1 .. n - 1 : k + 1 \in 1 .. n /\ k + 1 # 1
  BY <1>3
<1>6. /\ \A t \in 0 .. TableCount - 1 : pd[t] # NoTable => \E e \in entry_maps : e.phys_addr = pd[t]
      /\ \A k, l \in 1 .. n : pool[k].phys_addr = pool[l].phys_addr => k = l
      /\ \A k \in 1 .. n : \A t \in 0 .. TableCount - 1 : pool[k].phys_addr # pd[t]
      /\ \A e \in user_maps : /\ \A t \in 0 .. TableCount - 1 : pd[t] # e.phys_addr
                              /\ \A k \in 1 .. n : pool[k].phys_addr # e.phys_addr
      /\ \A t, u \in 0 .. TableCount - 1 : pd[t] = pd[u] /\ pd[t] # NoTable => t = u
  BY <1>2, <1>3 DEF UseInv
<1>7. \A t \in 0 .. TableCount - 1 : h.phys_addr # pd[t]
  BY <1>3, <1>5, <1>6
<1>8. \A t \in 0 .. TableCount - 1 : pd'[t] # NoTable => \E e \in entry_maps' : e.phys_addr = pd'[t]
  <2> SUFFICES ASSUME NEW t \in 0 .. TableCount - 1, pd'[t] # NoTable
               PROVE  \E e \in entry_maps' : e.phys_addr = pd'[t]
    OBVIOUS
  <2>1. CASE t = d
    BY <1>1, <1>4, <2>1
  <2>2. CASE t # d
    <3>1. pd'[t] = pd[t]
      BY <1>1, <2>2
    <3> QED BY <1>6, <3>1
  <2> QED BY <2>1, <2>2
<1>9. \A k, l \in 1 .. n - 1 : pool'[k].phys_addr = pool'[l].phys_addr => k = l
  <2> SUFFICES ASSUME NEW k \in 1 .. n - 1, NEW l \in 1 .. n - 1, pool'[k].phys_addr = pool'[l].phys_addr
               PROVE  k = l
    OBVIOUS
  <2>1. k + 1 = l + 1
    BY <1>3, <1>5, <1>6
  <2> QED BY <2>1
<1>10. \A k \in 1 .. n - 1 : \A t \in 0 .. TableCount - 1 : pool'[k].phys_addr # pd'[t]
  <2> SUFFICES ASSUME NEW k \in 1 .. n - 1, NEW t \in 0 .. TableCount - 1
               PROVE  pool'[k].phys_addr # pd'[t]
    OBVIOUS
  <2>1. pool[k + 1].phys_addr # h.phys_addr /\ pool[k + 1].phys_addr # pd[t]
    BY <1>3, <1>5, <1>6
  <2> QED BY <1>1, <1>3, <2>1
<1>11. \A e \in user_maps' : /\ \A t \in 0 .. TableCount - 1 : pd'[t] # e.phys_addr
                             /\ \A k \in 1 .. n - 1 : pool'[k].phys_addr # e.phys_addr
  <2>1. \A e \in user_maps : h.phys_addr # e.phys_addr
    BY <1>3, <1>5, <1>6
  <2> QED BY <1>1, <1>3, <1>5, <1>6, <2>1
<1>12. \A t, u \in 0 .. TableCount - 1 : pd'[t] = pd'[u] /\ pd'[t] # NoTable => t = u
  BY <1>1, <1>6, <1>7
<1> QED BY <1>1, <1>3, <1>8, <1>9, <1>10, <1>11, <1>12 DEF UseInv

\* A page that no table is, and no other page of the pool, is put into the pool.
LEMMA AddToPoolUse == ASSUME TypeInv, OwnedInv, UseInv, AddToPool PROVE UseInv'
<1> DEFINE x == Top.frame + Top.i
<1> DEFINE n == Len(pool)
<1>1. /\ x \in Nat /\ ~IsTable(x) /\ n \in Nat /\ DOMAIN pool = 1 .. n /\ DOMAIN pool' = 1 .. n + 1
      /\ pool'[1].phys_addr = x /\ \A k \in 1 .. n : pool'[k + 1] = pool[k]
  BY AddedPage
<1>2. UNCHANGED <<pd, entry_maps, user_maps>>
  BY DEF AddToPool, tableVars
<1> HIDE DEF x, n
<1>3. x # NoTable
  BY <1>1 DEF NoTable
<1>4. /\ \A t \in DOMAIN pd : pd[t] # x
      /\ \A k \in 1 .. n : pool[k].phys_addr # x
      /\ \A e \in user_maps : e.phys_addr # x
  BY <1>1, <1>3 DEF IsTable
<1>5. \A k \in 1 .. n + 1 : k = 1 \/ (k - 1 \in 1 .. n /\ (k - 1) + 1 = k)
  BY <1>1
<1>6. \A k \in 1 .. n + 1 : k = 1 \/ (k - 1 \in 1 .. n /\ pool'[k] = pool[k - 1])
  BY <1>1, <1>5
<1>7. /\ \A k, l \in 1 .. n : pool[k].phys_addr = pool[l].phys_addr => k = l
      /\ \A k \in 1 .. n : \A t \in DOMAIN pd : pool[k].phys_addr # pd[t]
      /\ \A e \in user_maps : \A k \in 1 .. n : pool[k].phys_addr # e.phys_addr
  BY <1>1 DEF UseInv
<1>8. \A k, l \in 1 .. n + 1 : pool'[k].phys_addr = pool'[l].phys_addr => k = l
  <2> SUFFICES ASSUME NEW k \in 1 .. n + 1, NEW l \in 1 .. n + 1, pool'[k].phys_addr = pool'[l].phys_addr
               PROVE  k = l
    OBVIOUS
  <2>1. CASE k = 1 /\ l # 1
    BY <1>1, <1>4, <1>6, <2>1
  <2>2. CASE l = 1 /\ k # 1
    BY <1>1, <1>4, <1>6, <2>2
  <2>3. CASE k # 1 /\ l # 1
    <3>1. k - 1 = l - 1
      BY <1>6, <1>7, <2>3
    <3> QED BY <3>1
  <2> QED BY <2>1, <2>2, <2>3
<1>9. \A k \in 1 .. n + 1 : \A t \in DOMAIN pd : pool'[k].phys_addr # pd[t]
  <2> SUFFICES ASSUME NEW k \in 1 .. n + 1, NEW t \in DOMAIN pd PROVE pool'[k].phys_addr # pd[t]
    OBVIOUS
  <2>1. CASE k = 1
    BY <1>1, <1>4, <2>1
  <2>2. CASE k # 1
    BY <1>6, <1>7, <2>2
  <2> QED BY <2>1, <2>2
<1>10. \A e \in user_maps : \A k \in 1 .. n + 1 : pool'[k].phys_addr # e.phys_addr
  <2> SUFFICES ASSUME NEW k \in 1 .. n + 1, NEW e \in user_maps PROVE pool'[k].phys_addr # e.phys_addr
    OBVIOUS
  <2>1. CASE k = 1
    BY <1>1, <1>4, <2>1
  <2>2. CASE k # 1
    BY <1>6, <1>7, <2>2
  <2> QED BY <2>1, <2>2
<1> QED BY <1>1, <1>2, <1>8, <1>9, <1>10 DEF UseInv

\* A frame that is no table becomes a table of a user's space.
LEMMA UserTableKnownUse == ASSUME TypeInv, OwnedInv, UseInv, UserTableKnown PROVE UseInv'
<1>1. /\ Top.frame \in Nat /\ ~IsTable(Top.frame)
      /\ \A e \in user_maps' : e \in user_maps \/ e.phys_addr = Top.frame
  BY KnownFrame
<1>2. UNCHANGED <<pd, entry_maps, pool>>
  BY DEF UserTableKnown, poolVars
<1>3. Top.frame # NoTable
  BY <1>1 DEF NoTable
<1>4. /\ \A t \in DOMAIN pd : pd[t] # Top.frame
      /\ \A k \in DOMAIN pool : pool[k].phys_addr # Top.frame
  BY <1>1, <1>3 DEF IsTable
<1> QED BY <1>1, <1>2, <1>4 DEF UseInv

\* Nothing becomes a table.
LEMMA SameUse == ASSUME UseInv, UNCHANGED <<pd, entry_maps, user_maps, pool>> PROVE UseInv'
BY DEF UseInv

-----------------------------------------------------------------------------
(* The theorem.                                                            *)

\* After boot the pool has its pages and nothing is under way.
LEMMA InitialPoolInv == Init => PoolInv
<1> SUFFICES ASSUME Init PROVE PoolInv
  OBVIOUS
<1> DEFINE m == InitialPool
<1>1. /\ m \in Nat \ {0} /\ m + 1 <= TablePages /\ TablePages \in Nat /\ TableCount \in Nat \ {0}
  BY PoolAssumption DEF InitialPool
<1>2. Limit \in Nat /\ TablePages <= Limit
  <2>1. \A a, b \in Nat : b # 0 => b * a \in Nat /\ a <= b * a
    BY SMT
  <2> QED BY <1>1, <2>1 DEF Limit
<1>3. /\ pd = [t \in 0 .. TableCount - 1 |-> IF t = 0 THEN 0 ELSE NoTable]
      /\ pt = {<<0, p, p + 1>> : p \in 0 .. m - 1} \cup {<<0, m, 0>>}
      /\ entry_maps = {PoolEntry(m, 0)}
      /\ user_maps = {}
      /\ pool = [k \in 1 .. m |-> PoolEntry(m - k, m - k + 1)]
      /\ count = m
      /\ current_address = m + 1
      /\ next_frame = m + 1
      /\ free_lists \in FreeLists
      /\ entries \in EntryCounts
      /\ entry_count = entries
      /\ stack = <<>>
      /\ kernel = "running"
  BY DEF Init
<1> HIDE DEF m
<1>4. \A k \in 1 .. m : /\ PoolEntry(m - k, m - k + 1) \in MappingEntry
                        /\ PoolEntry(m - k, m - k + 1).phys_addr = m - k + 1
  BY <1>1 DEF PoolEntry, MappingEntry
<1>5. /\ pool \in Seq(MappingEntry) /\ Len(pool) = m /\ DOMAIN pool = 1 .. m
      /\ \A k \in 1 .. m : pool[k].phys_addr = m - k + 1
  <2>1. pool \in [1 .. m -> MappingEntry]
    BY <1>3, <1>4
  <2>2. \A k \in 1 .. m : pool[k].phys_addr = m - k + 1
    BY <1>3, <1>4
  <2>3. pool \in Seq(MappingEntry) /\ Len(pool) = m
    BY <1>1, <2>1
  <2> QED BY <2>1, <2>2, <2>3
<1>6. TypeInv
  <2>1. pt \subseteq Nat \X Nat \X Nat
    BY <1>1, <1>3
  <2>2. entry_maps \subseteq MappingEntry
    BY <1>1, <1>3 DEF PoolEntry, MappingEntry
  <2>3. free_lists \in [Orders -> Nat]
    BY <1>3, MemoryAssumption
  <2>4. entries \in Nat
    BY <1>3, PoolAssumption
  <2>5. current_address \in 0 .. Limit
    BY <1>1, <1>2, <1>3
  <2>6. pd \in [0 .. TableCount - 1 -> Nat \cup {NoTable}]
    BY <1>3 DEF NoTable
  <2>7. stack \in Seq(Activation) /\ DOMAIN stack = {}
    BY <1>3
  <2>8. count \in Nat /\ next_frame \in Nat
    BY <1>1, <1>3
  <2>9. TypeOK
    BY <1>3, <1>5, <2>1, <2>2, <2>3, <2>4, <2>5, <2>6, <2>7, <2>8 DEF TypeOK
  <2> QED BY <2>7, <2>9 DEF TypeInv
<1>7. DOMAIN stack = {}
  BY <1>3
<1>8. DOMAIN pd = 0 .. TableCount - 1 /\ \A t \in 0 .. TableCount - 1 : pd[t] = IF t = 0 THEN 0 ELSE NoTable
  BY <1>3
<1>9. OwnedInv
  <2>1. \A x \in Nat : IsTable(x) => x < next_frame
    BY <1>1, <1>3, <1>5, <1>8 DEF IsTable
  <2> QED BY <1>7, <2>1 DEF OwnedInv
<1>10. UseInv
  <2>1. \A t \in DOMAIN pd : pd[t] # NoTable => \E e \in entry_maps : e.phys_addr = pd[t]
    <3>1. PoolEntry(m, 0) \in entry_maps /\ PoolEntry(m, 0).phys_addr = 0
      BY <1>3 DEF PoolEntry
    <3> QED BY <1>8, <3>1
  <2>2. \A k, l \in 1 .. m : pool[k].phys_addr = pool[l].phys_addr => k = l
    BY <1>1, <1>5
  <2>3. \A k \in 1 .. m : pool[k].phys_addr \in Nat \ {0}
    BY <1>1, <1>5
  <2>4. \A k \in 1 .. m : \A t \in DOMAIN pd : pool[k].phys_addr # pd[t]
    BY <1>8, <2>3 DEF NoTable
  <2>5. \A t, u \in DOMAIN pd : pd[t] = pd[u] /\ pd[t] # NoTable => t = u
    BY <1>8
  <2> QED BY <1>3, <1>5, <2>1, <2>2, <2>4, <2>5 DEF UseInv
<1>11. PoolCounts
  <2>1. Outstanding = {} /\ EntryRefills = {}
    BY <1>7 DEF Outstanding, EntryRefills
  <2>2. Cardinality({}) = 0
    BY FS_EmptySet
  <2>3. entries \in Nat /\ ENTRY_THRESHOLD \in Nat /\ count \in Nat
    BY <1>6, PoolAssumption DEF TypeInv, TypeOK
  <2> QED BY <1>3, <1>5, <2>1, <2>2, <2>3 DEF PoolCounts
<1> QED BY <1>6, <1>9, <1>10, <1>11 DEF PoolInv

\* A step of an allocation.
LEMMA AllocationPoolInv ==
    ASSUME PoolInv, UnlinkBlock \/ SplitBlock \/ TakeBlock \/ TakeContiguous \/ StartMapping
    PROVE  PoolInv'
<1>1. TypeInv /\ OwnedInv /\ UseInv /\ PoolCounts
  BY DEF PoolInv
<1>2. TypeInv'
  BY <1>1, UnlinkBlockType, SplitBlockType, TakeBlockType, TakeContiguousType, StartMappingType
<1>3. PoolCounts'
  BY <1>1, UnlinkBlockCounts, SplitBlockCounts, TakeBlockCounts, TakeContiguousCounts, StartMappingCounts
<1>4. OwnedInv'
  BY <1>1, <1>2, AllocationOwned, StartMappingOwned
<1>5. UNCHANGED <<pd, entry_maps, user_maps, pool>>
  BY DEF UnlinkBlock, SplitBlock, TakeBlock, TakeContiguous, StartMapping, tableVars, poolVars
<1>6. UseInv'
  BY <1>1, <1>5, SameUse
<1> QED BY <1>2, <1>3, <1>4, <1>6 DEF PoolInv

\* A step of a mapping or of a refill.
LEMMA MappingPoolInv ==
    ASSUME PoolInv, MapPage \/ PoolSuffices \/ UserTableMapped \/ StartPopulating \/ FreeBlockEntry
                        \/ RefillPagePool
    PROVE  PoolInv'
<1>1. TypeInv /\ OwnedInv /\ UseInv /\ PoolCounts
  BY DEF PoolInv
<1>2. TypeInv'
  BY <1>1, MapPageType, PoolSufficesType, UserTableMappedType, StartPopulatingType, FreeBlockEntryType,
     RefillPagePoolType
<1>3. PoolCounts'
  BY <1>1, MapPageCounts, PoolSufficesCounts, UserTableMappedCounts, StartPopulatingCounts, FreeBlockEntryCounts,
     RefillPagePoolCounts
<1>4. OwnedInv'
  BY <1>1, MappingOwned, RefillPagePoolOwned
<1>5. UNCHANGED <<pd, entry_maps, user_maps, pool>>
  BY DEF MapPage, PoolSuffices, UserTableMapped, StartPopulating, FreeBlockEntry, RefillPagePool, tableVars, poolVars
<1>6. UseInv'
  BY <1>1, <1>5, SameUse
<1> QED BY <1>2, <1>3, <1>4, <1>6 DEF PoolInv

\* A call begins or returns.
LEMMA CallPoolInv ==
    ASSUME PoolInv, (\E pages \in Requests : alloc_pages(pages)) \/ AllocUserTable \/ RefillEntryPool
                        \/ CallReturns \/ EntryPoolRefilled \/ PagePoolRefilled
    PROVE  PoolInv'
<1>1. TypeInv /\ OwnedInv /\ UseInv /\ PoolCounts
  BY DEF PoolInv
<1>2. TypeInv'
  BY <1>1, BeginsType, RefillEntryPoolType, CallReturnsType, EntryPoolRefilledType, PagePoolRefilledType
<1>3. PoolCounts'
  BY <1>1, BeginsCounts, RefillEntryPoolCounts, CallReturnsCounts, EntryPoolRefilledCounts, PagePoolRefilledCounts
<1>4. OwnedInv'
  BY <1>1, BeginsOwned, ReturnsOwned
<1>5. UNCHANGED <<pd, entry_maps, user_maps, pool>>
  BY DEF alloc_pages, AllocUserTable, RefillEntryPool, CallReturns, EntryPoolRefilled, PagePoolRefilled,
         tableVars, poolVars
<1>6. UseInv'
  BY <1>1, <1>5, SameUse
<1> QED BY <1>2, <1>3, <1>4, <1>6 DEF PoolInv

\* A frame becomes a table, or is kept for one.
LEMMA TablePoolInv ==
    ASSUME PoolInv, InstallTable \/ InstallFaults \/ AddToPool \/ UserTableKnown
    PROVE  PoolInv'
<1>1. TypeInv /\ OwnedInv /\ UseInv /\ PoolCounts
  BY DEF PoolInv
<1>2. TypeInv'
  BY <1>1, InstallTableType, InstallFaultsType, AddToPoolType, UserTableKnownType
<1>3. PoolCounts'
  BY <1>1, InstallTableCounts, InstallFaultsCounts, AddToPoolCounts, UserTableKnownCounts
<1>4. OwnedInv'
  BY <1>1, InstallTableOwned, InstallFaultsOwned, AddToPoolOwned, ReturnsOwned
<1>5. UseInv'
  <2>1. CASE InstallTable
    BY <1>1, <2>1, InstalledUse DEF InstallTable
  <2>2. CASE InstallFaults
    BY <1>1, <2>2, InstalledUse DEF InstallFaults
  <2>3. CASE AddToPool
    BY <1>1, <2>3, AddToPoolUse
  <2>4. CASE UserTableKnown
    BY <1>1, <2>4, UserTableKnownUse
  <2> QED BY <2>1, <2>2, <2>3, <2>4
<1> QED BY <1>2, <1>3, <1>4, <1>5 DEF PoolInv

\* The kernel stops, has stopped, or does nothing.
LEMMA StopPoolInv ==
    ASSUME PoolInv, NullEntry \/ OutOfAddressSpace \/ Halted \/ UNCHANGED vars
    PROVE  PoolInv'
<1>1. TypeInv /\ OwnedInv /\ UseInv /\ PoolCounts
  BY DEF PoolInv
<1>2. /\ UNCHANGED <<tableVars, poolVars, spaceVars, free_lists, entryVars, stack>>
      /\ kernel' \in {kernel, "page_fault", "out_of_address_space"}
  BY DEF NullEntry, OutOfAddressSpace, Stop, Halted, vars
<1>3. UNCHANGED <<pd, pt, entry_maps, user_maps, pool, count, next_frame, stack>>
  BY <1>2 DEF tableVars, poolVars, spaceVars
<1>4. TypeInv' /\ PoolCounts'
  BY <1>1, <1>2, StopsType, StopsCounts
<1>5. OwnedInv'
  BY <1>1, <1>3, SameTables, OwnedStay
<1>6. UseInv'
  BY <1>1, <1>3, SameUse
<1> QED BY <1>4, <1>5, <1>6 DEF PoolInv

\* Every step keeps the invariant.
LEMMA PoolInvStep == PoolInv /\ [Next]_vars => PoolInv'
<1> SUFFICES ASSUME PoolInv, [Next]_vars PROVE PoolInv'
  OBVIOUS
<1>1. CASE \E pages \in Requests : alloc_pages(pages)
  BY <1>1, CallPoolInv
<1>2. CASE AllocUserTable
  BY <1>2, CallPoolInv
<1>3. CASE Step
  <2>1. \/ UnlinkBlock \/ SplitBlock \/ TakeBlock \/ TakeContiguous \/ StartMapping
        \/ MapPage \/ PoolSuffices \/ UserTableMapped \/ StartPopulating \/ FreeBlockEntry \/ RefillPagePool
        \/ RefillEntryPool \/ CallReturns \/ EntryPoolRefilled \/ PagePoolRefilled
        \/ InstallTable \/ InstallFaults \/ AddToPool \/ UserTableKnown
        \/ NullEntry \/ OutOfAddressSpace
    BY <1>3 DEF Step
  <2> QED BY <2>1, AllocationPoolInv, MappingPoolInv, CallPoolInv, TablePoolInv, StopPoolInv
<1>4. CASE Halted
  BY <1>4, StopPoolInv
<1>5. CASE UNCHANGED vars
  BY <1>5, StopPoolInv
<1> QED BY <1>1, <1>2, <1>3, <1>4, <1>5 DEF Next

\* The invariant says what the pools promise.
LEMMA PoolInvExact == PoolInv => PoolsExact
<1> SUFFICES ASSUME PoolInv PROVE PoolsExact
  OBVIOUS
<1>1. TypeOK /\ UseInv /\ PoolCounts
  BY DEF PoolInv, TypeInv
<1>2. pool \in Seq(MappingEntry)
  BY <1>1 DEF TypeOK
<1>3. \A e \in user_maps : e.phys_addr \notin Range(pd) \cup {p.phys_addr : p \in ToSet(pool)}
  <2> SUFFICES ASSUME NEW e \in user_maps
               PROVE  e.phys_addr \notin Range(pd) /\ e.phys_addr \notin {p.phys_addr : p \in ToSet(pool)}
    OBVIOUS
  <2>1. e.phys_addr \notin Range(pd)
    BY <1>1 DEF UseInv, Range
  <2>2. ToSet(pool) = {pool[k] : k \in DOMAIN pool}
    BY DEF ToSet
  <2>3. \A p \in ToSet(pool) : p.phys_addr # e.phys_addr
    BY <1>1, <2>2 DEF UseInv
  <2> QED BY <2>1, <2>3
<1> QED BY <1>1, <1>3 DEF PoolsExact, UseInv, PoolCounts, EntryRefills

\* PoolsExact: however the refills of the page pool and of the entry pool are
\* interleaved with the mappings that need them (get_or_alloc_page_entries,
\* fill_page_entry_pool and fill_memory_entry_pool), the counts are what is in
\* the pools and what refills under way have promised, no frame is used for two
\* tables, and every table of the kernel's space can be found.
THEOREM PoolsAlwaysExact == Spec => []PoolsExact
<1>1. Init => PoolInv
  BY InitialPoolInv
<1>2. PoolInv /\ [Next]_vars => PoolInv'
  BY PoolInvStep
<1>3. PoolInv => PoolsExact
  BY PoolInvExact
<1> QED BY <1>1, <1>2, <1>3, PTL DEF Spec

-----------------------------------------------------------------------------
(* Refills do not nest.  Operators of this part have the free lists, the   *)
(* directory and the number of entries as parameters: what they say of a   *)
(* call is used before and after a step.                                   *)

Largest == FRAME_ORDERS - 1

\* As long as there is a block of the largest order, nothing runs out.
LargeBlockFree == free_lists[Largest] > 0

\* What Missing, order_to_alloc and SearchFrom are for the innermost call.
MissingOf(f) == f.pages - (IF f.ends = <<>> THEN 0 ELSE Last(f.ends))
OrderOf(f) == CHOOSE o \in Orders : /\ Size(o) <= MissingOf(f)
                                    /\ o + 1 \in Orders => Size(o + 1) > MissingOf(f)
From(f) == IF f.order > OrderOf(f) THEN f.order ELSE OrderOf(f) + 1

\* A block that is split is larger than what is wanted.
SplitOK(f) == f.pc = "split" => MissingOf(f) > 0 /\ f.order > OrderOf(f)

\* There is a block of every order below h that an allocation may still want.
Filled(f, h, lists) == \A q \in Orders : q < h /\ q <= OrderOf(f) => lists[q] > 0

\* An allocation splits no block of an order above l any more: a block of that
\* order or a lower one is left when it has what it wants now.
Within(f, l, lists) ==
    \/ l = Largest
    \/ f.order > OrderOf(f) /\ lists[f.order] > 0 /\ f.order <= l
    \/ f.order <= OrderOf(f) /\ \E k \in Orders : /\ k <= l
                                                  /\ \/ k > OrderOf(f) /\ lists[k] > 0
                                                     \/ k = OrderOf(f) /\ lists[k] > 1

\* A refill of the page pool takes at most b entries more.  It splits a block of
\* an order at most once, and none of an order that is Filled.
Budget(f, b, lists) ==
    /\ f.pc = "alloc" /\ MissingOf(f) > 0 =>
        \E h, l \in Orders : /\ h <= l /\ b >= PAGE_POOL_THRESHOLD + l - h
                             /\ Filled(f, h, lists) /\ (OrderOf(f) < h \/ Within(f, l, lists))
    /\ f.pc = "split" =>
        \E h, l \in Orders : /\ h <= OrderOf(f) /\ f.order <= l /\ b >= PAGE_POOL_THRESHOLD + l - h
                             /\ Filled(f, h, lists)
    /\ f.pc # "populate" => b >= PAGE_POOL_THRESHOLD
    /\ f.pc = "populate" => b >= PAGE_POOL_THRESHOLD - f.i

-----------------------------------------------------------------------------
(* Allocations.                                                            *)

LEMMA TopOrders == Missing = MissingOf(Top) /\ order_to_alloc = OrderOf(Top) /\ SearchFrom = From(Top)
BY DEF Missing, order_to_alloc, SearchFrom, MissingOf, OrderOf, From

LEMMA LargestIs == Largest \in Orders /\ Largest \in Nat \ {0} /\ \A o \in Orders : o \in Nat /\ o <= Largest
BY OrdersAre DEF Largest

LEMMA OrderOfIs ==
    ASSUME NEW f, MissingOf(f) \in Nat \ {0}
    PROVE  /\ OrderOf(f) \in Orders /\ OrderOf(f) \in Nat
           /\ Size(OrderOf(f)) <= MissingOf(f)
           /\ OrderOf(f) + 1 \in Orders => Size(OrderOf(f) + 1) > MissingOf(f)
           /\ MissingOf(f) = 1 => OrderOf(f) = 0
<1> DEFINE m == MissingOf(f)
<1> DEFINE w == OrderOf(f)
<1>1. \E o \in Orders : Size(o) <= m /\ (o + 1 \in Orders => Size(o + 1) > m)
  BY LargestOrder
<1>2. w = CHOOSE o \in Orders : Size(o) <= m /\ (o + 1 \in Orders => Size(o + 1) > m)
  BY DEF OrderOf
<1> HIDE DEF w, m
<1>3. w \in Orders /\ Size(w) <= m /\ (w + 1 \in Orders => Size(w + 1) > m)
  BY <1>1, <1>2
<1>4. ASSUME m = 1 PROVE w = 0
  <2> SUFFICES ASSUME w # 0 PROVE FALSE
    OBVIOUS
  <2>1. w >= 1
    BY <1>3, LargestIs
  <2>2. 1 \in Orders /\ 1 # 0 /\ 1 - 1 = 0
    BY SmallOrders
  <2>3. Size(1) = 2
    BY <2>2, SizesAssumption DEF Size
  <2>4. Size(1) <= Size(w) /\ Size(w) \in Nat
    BY <1>3, <2>1, <2>2, SizesGrow
  <2> QED BY <1>3, <1>4, <2>3, <2>4
<1> QED BY <1>3, <1>4, LargestIs DEF w, m

\* An order below the one before is wanted next, or the largest one again.
LEMMA NextOrder ==
    ASSUME NEW f, NEW g, MissingOf(f) \in Nat \ {0}, MissingOf(g) \in Nat \ {0},
           MissingOf(g) = MissingOf(f) - Size(OrderOf(f))
    PROVE  OrderOf(g) < OrderOf(f) \/ OrderOf(f) = Largest
<1> SUFFICES ASSUME OrderOf(f) # Largest, OrderOf(f) <= OrderOf(g) PROVE FALSE
  BY OrderOfIs
<1> DEFINE w == OrderOf(f)
<1> DEFINE v == OrderOf(g)
<1>1. /\ w \in Orders /\ w \in Nat /\ Size(w) <= MissingOf(f) /\ (w + 1 \in Orders => Size(w + 1) > MissingOf(f))
      /\ v \in Orders /\ Size(v) <= MissingOf(g)
  BY OrderOfIs
<1>2. w + 1 \in Orders /\ w + 1 # 0 /\ (w + 1) - 1 = w
  BY <1>1, OrdersAre DEF Largest
<1>3. Size(w + 1) = 2 * Size(w)
  BY <1>2, SizesAssumption DEF Size
<1>4. Size(w) <= Size(v) /\ Size(w) \in Nat /\ Size(v) \in Nat
  BY <1>1, SizesGrow
<1> HIDE DEF w, v
<1>5. MissingOf(f) < 2 * Size(w) /\ MissingOf(g) = MissingOf(f) - Size(w)
  BY <1>1, <1>2, <1>3, <1>4 DEF w
<1> QED BY <1>1, <1>4, <1>5

\* A block is unlinked to be split: the lowest there is.
LEMMA UnlinkBudget ==
    ASSUME NEW f, f.pc = "alloc", f.order \in Orders, MissingOf(f) \in Nat \ {0}, NEW lists \in [Orders -> Nat],
           lists[OrderOf(f)] = 0, NEW o \in Orders, o >= From(f), lists[o] > 0,
           \A q \in From(f) .. o - 1 : lists[q] = 0,
           NEW g, g.pc = "split", g.order = o, g.pages = f.pages, g.ends = f.ends,
           NEW b \in Int, Budget(f, b, lists)
    PROVE  Budget(g, b, [lists EXCEPT ![o] = @ - 1])
<1> DEFINE w == OrderOf(f)
<1> DEFINE new == [lists EXCEPT ![o] = @ - 1]
<1>1. w \in Orders /\ w \in Nat /\ o \in Nat /\ f.order \in Nat
  BY OrderOfIs, LargestIs
<1>2. OrderOf(g) = w /\ MissingOf(g) = MissingOf(f)
  BY DEF OrderOf, MissingOf
<1>3. o > w
  BY <1>1 DEF From
<1>4. PICK h, l \in Orders : /\ h <= l /\ b >= PAGE_POOL_THRESHOLD + l - h
                             /\ Filled(f, h, lists) /\ (w < h \/ Within(f, l, lists))
  BY DEF Budget
<1>5. h \in Nat /\ l \in Nat
  BY LargestIs
<1>6. h <= w
  <2> SUFFICES ASSUME w < h PROVE FALSE
    BY <1>1, <1>5
  <2>1. lists[w] > 0
    BY <1>1, <1>4 DEF Filled
  <2> QED BY <2>1
<1>7. o <= l
  <2> SUFFICES ASSUME l < o PROVE FALSE
    BY <1>1, <1>5
  <2>1. Within(f, l, lists)
    BY <1>1, <1>4, <1>5, <1>6
  <2>2. CASE l = Largest
    BY <1>1, <1>5, <2>2, LargestIs
  <2>3. CASE f.order > w /\ lists[f.order] > 0 /\ f.order <= l
    <3>1. f.order \in From(f) .. o - 1
      BY <1>1, <1>5, <2>3 DEF From
    <3> QED BY <2>3, <3>1
  <2>4. ASSUME f.order <= w, NEW k \in Orders, k <= l, k > w, lists[k] > 0 PROVE FALSE
    <3>1. k \in Nat
      BY LargestIs
    <3>2. k \in From(f) .. o - 1
      BY <1>1, <1>5, <2>4, <3>1 DEF From
    <3> QED BY <2>4, <3>2
  <2> QED BY <2>1, <2>2, <2>3, <2>4 DEF Within
<1>8. Filled(g, h, new)
  <2>1. \A q \in Orders : q <= w => new[q] = lists[q]
    BY <1>1, <1>3, LargestIs
  <2> QED BY <1>2, <1>4, <2>1 DEF Filled
<1>9. b >= PAGE_POOL_THRESHOLD
  BY DEF Budget
<1> HIDE DEF w, new
<1>10. Budget(g, b, new)
  BY <1>2, <1>4, <1>6, <1>7, <1>8, <1>9 DEF Budget
<1> QED BY <1>10 DEF new

\* The block is split: an entry less, and its halves are there.
LEMMA SplitBudget ==
    ASSUME NEW f, f.pc = "split", f.order \in Orders, f.order # 0, MissingOf(f) \in Nat \ {0}, f.order > OrderOf(f),
           NEW lists \in [Orders -> Nat],
           NEW g, g.pc = "alloc", g.order = f.order - 1, g.pages = f.pages, g.ends = f.ends,
           NEW b \in Int, Budget(f, b, lists)
    PROVE  Budget(g, b - 1, [lists EXCEPT ![f.order - 1] = @ + 2])
<1> DEFINE w == OrderOf(f)
<1> DEFINE o == f.order - 1
<1> DEFINE new == [lists EXCEPT ![o] = @ + 2]
<1>1. w \in Orders /\ w \in Nat /\ f.order \in Nat
  BY OrderOfIs, LargestIs
<1>2. OrderOf(g) = w /\ MissingOf(g) = MissingOf(f)
  BY DEF OrderOf, MissingOf
<1>3. PICK h, l \in Orders : /\ h <= w /\ f.order <= l /\ b >= PAGE_POOL_THRESHOLD + l - h
                             /\ Filled(f, h, lists)
  BY DEF Budget
<1>4. h \in Nat /\ l \in Nat
  BY LargestIs
<1>5. l - 1 \in Orders /\ o \in Orders /\ o \in Nat /\ o >= w /\ o <= l - 1 /\ h <= l - 1
  BY <1>1, <1>3, <1>4, OrdersAre
<1>6. \A q \in Orders : new[q] >= lists[q] /\ new[q] \in Nat
  BY <1>5
<1>7. new[o] >= 2
  BY <1>5
<1>8. g.order = o
  OBVIOUS
<1> HIDE DEF w, new, o
<1>9. Filled(g, h, new)
  <2>1. \A q \in Orders : lists[q] \in Nat
    OBVIOUS
  <2> QED BY <1>2, <1>3, <1>6, <2>1 DEF Filled, w
<1>10. Within(g, l - 1, new)
  <2>1. CASE o > w
    BY <1>2, <1>5, <1>6, <1>7, <1>8, <2>1 DEF Within
  <2>2. CASE o = w
    BY <1>2, <1>5, <1>6, <1>7, <1>8, <2>2 DEF Within
  <2> QED BY <1>1, <1>5, <2>1, <2>2
<1>11. b - 1 >= PAGE_POOL_THRESHOLD + (l - 1) - h /\ b - 1 >= PAGE_POOL_THRESHOLD
  BY <1>3, <1>4, <1>5, PoolAssumption
<1>12. Budget(g, b - 1, new)
  BY <1>5, <1>9, <1>10, <1>11 DEF Budget
<1> QED BY <1>12 DEF new, o

\* A block of the wanted order is taken.
LEMMA TakeBudget ==
    ASSUME NEW f, f.pc = "alloc", f.order \in Orders, MissingOf(f) \in Nat \ {0}, NEW lists \in [Orders -> Nat],
           lists[OrderOf(f)] > 0,
           NEW g, g.pc = "alloc", g.order = 0, MissingOf(g) \in Nat, MissingOf(g) = MissingOf(f) - Size(OrderOf(f)),
           NEW b \in Int, Budget(f, b, lists)
    PROVE  Budget(g, b, [lists EXCEPT ![OrderOf(f)] = @ - 1])
<1> DEFINE w == OrderOf(f)
<1> DEFINE v == OrderOf(g)
<1> DEFINE new == [lists EXCEPT ![w] = @ - 1]
<1>1. w \in Orders /\ w \in Nat /\ f.order \in Nat
  BY OrderOfIs, LargestIs
<1>2. b >= PAGE_POOL_THRESHOLD
  BY DEF Budget
<1>3. CASE MissingOf(g) = 0
  BY <1>2, <1>3 DEF Budget
<1>4. CASE MissingOf(g) # 0
  <2>1. MissingOf(g) \in Nat \ {0}
    BY <1>4
  <2>2. v \in Orders /\ v \in Nat
    BY <2>1, OrderOfIs
  <2>3. v < w \/ w = Largest
    BY <2>1, NextOrder
  <2>4. PICK h, l \in Orders : /\ h <= l /\ b >= PAGE_POOL_THRESHOLD + l - h
                               /\ Filled(f, h, lists) /\ (w < h \/ Within(f, l, lists))
    BY DEF Budget
  <2>5. h \in Nat /\ l \in Nat /\ h <= Largest /\ l <= Largest
    BY LargestIs
  <2>6. \A q \in Orders : q # w => new[q] = lists[q]
    OBVIOUS
  <2>7. new[w] = lists[w] - 1 /\ lists[w] \in Nat
    BY <1>1
  <2>8. w <= Largest /\ v <= Largest
    BY <1>1, <2>2, LargestIs
  <2>9. \A q \in Orders : (lists[q] > 0 /\ q < h /\ q <= w) \/ ~(q < h /\ q <= w)
    BY <2>4 DEF Filled
  <2> HIDE DEF w, v, new
  <2>10. CASE w < h
    <3>1. v < w
      BY <1>1, <2>2, <2>3, <2>5, <2>10
    <3>2. Filled(g, w, new)
      <4>1. \A q \in Orders : q < w => q < h /\ q <= w /\ q # w
        BY <1>1, <2>5, <2>10, LargestIs
      <4>2. \A q \in Orders : q < w => new[q] > 0
        BY <2>6, <2>9, <4>1
      <4> QED BY <4>2 DEF Filled
    <3>3. b >= PAGE_POOL_THRESHOLD + w - w
      BY <1>1, <1>2, PoolAssumption
    <3>4. \E x, l1 \in Orders : /\ x <= l1 /\ b >= PAGE_POOL_THRESHOLD + l1 - x
                                /\ Filled(g, x, new) /\ (v < x \/ Within(g, l1, new))
      BY <1>1, <3>1, <3>2, <3>3
    <3>5. Budget(g, b, new)
      BY <1>2, <3>4 DEF Budget, v
    <3> QED BY <3>5 DEF new, w
  <2>11. CASE w >= h
    <3>1. Filled(g, h, new)
      <4>1. \A q \in Orders : q < h => q # w /\ q <= w
        BY <1>1, <2>5, <2>11, LargestIs
      <4>2. \A q \in Orders : q < h => new[q] > 0
        BY <2>6, <2>9, <4>1
      <4> QED BY <4>2 DEF Filled
    <3>2. Within(f, l, lists)
      BY <1>1, <2>4, <2>5, <2>11
    <3>3. Within(g, l, new)
      <4>1. CASE l = Largest
        BY <4>1 DEF Within
      <4>2. ASSUME l # Largest, NEW k \in Orders, k <= l,
                   \/ k > w /\ lists[k] > 0
                   \/ k = w /\ lists[k] > 1
            PROVE  Within(g, l, new)
        <5>1. v < w /\ k \in Nat
          BY <1>1, <2>3, <2>5, <2>8, <4>2, LargestIs
        <5>2. k > v /\ new[k] > 0
          BY <1>1, <2>2, <2>6, <2>7, <4>2, <5>1
        <5> QED BY <2>2, <4>2, <5>2 DEF Within, v
      <4> QED BY <3>2, <4>1, <4>2 DEF Within, w
    <3>4. Budget(g, b, new)
      BY <1>2, <2>4, <3>1, <3>3 DEF Budget
    <3> QED BY <3>4 DEF new, w
  <2> QED BY <1>1, <2>5, <2>10, <2>11
<1> QED BY <1>3, <1>4

\* The rest of a refill: it maps, and puts page by page into the pool.
LEMMA MappingBudget ==
    ASSUME NEW f, NEW g, NEW lists, NEW new, NEW b \in Int, Budget(f, b, lists), f.pc # "populate",
           g.pc \in {"map", "install"} \/ (g.pc = "populate" /\ g.i = 0)
    PROVE  Budget(g, b, new)
BY PoolAssumption DEF Budget

LEMMA PutBudget ==
    ASSUME NEW f, NEW g, NEW lists, NEW b \in Int, Budget(f, b, lists), f.pc = "populate", g.pc = "populate",
           f.i \in Nat
    PROVE  /\ g.i = f.i + 1 => Budget(g, b - 1, lists)
           /\ g.i = f.i => Budget(g, b + 1, lists)
BY PoolAssumption DEF Budget

\* A refill that has to take an entry may take one.
LEMMA BudgetLeft ==
    ASSUME NEW f, NEW lists, NEW b \in Int, Budget(f, b, lists), f.order \in Orders,
           \/ f.pc = "split" /\ MissingOf(f) \in Nat \ {0} /\ f.order > OrderOf(f)
           \/ f.pc = "populate" /\ f.i \in Nat /\ f.i < PAGE_POOL_THRESHOLD
    PROVE  b > 0
<1>1. CASE f.pc = "split"
  <2>1. OrderOf(f) \in Nat /\ f.order \in Nat
    BY <1>1, OrderOfIs, LargestIs
  <2>2. PICK h, l \in Orders : h <= OrderOf(f) /\ f.order <= l /\ b >= PAGE_POOL_THRESHOLD + l - h
    BY <1>1 DEF Budget
  <2>3. h \in Nat /\ l \in Nat
    BY LargestIs
  <2> QED BY <1>1, <2>1, <2>2, <2>3, PoolAssumption
<1>2. CASE f.pc = "populate"
  BY <1>2, PoolAssumption DEF Budget
<1> QED BY <1>1, <1>2

\* A page refill that begins, with the entries it may need.
LEMMA FirstBudget ==
    ASSUME NEW f, f.pc = "alloc", f.order = 0, NEW b \in Int, NEW lists, NEW h \in Orders,
           b >= PAGE_POOL_THRESHOLD + Largest - h, \A q \in 0 .. h - 1 : lists[q] > 0
    PROVE  Budget(f, b, lists)
<1>1. h \in Nat /\ Largest \in Orders /\ h <= Largest /\ Largest \in Nat
  BY LargestIs
<1>2. \A q \in Orders : q < h => q \in 0 .. h - 1
  BY <1>1, LargestIs
<1>3. Filled(f, h, lists)
  BY <1>2 DEF Filled
<1>4. Within(f, Largest, lists)
  BY DEF Within
<1>5. b >= PAGE_POOL_THRESHOLD
  BY <1>1, PoolAssumption
<1> HIDE DEF Largest
<1> QED BY <1>1, <1>3, <1>4, <1>5 DEF Budget

\* With all the entries that a refill may need, a suspended one goes on.
LEMMA FullBudget ==
    ASSUME NEW f, f.pc \in {"split", "populate"}, f.order \in Orders, f.i \in Nat,
           f.pc = "split" => MissingOf(f) \in Nat \ {0},
           NEW b \in Int, b >= PAGE_POOL_THRESHOLD + Largest, NEW lists
    PROVE  Budget(f, b, lists)
<1>1. CASE f.pc = "populate"
  BY <1>1, PoolAssumption, LargestIs DEF Budget
<1>2. CASE f.pc = "split"
  <2>1. OrderOf(f) \in Nat /\ f.order <= Largest /\ Largest \in Orders /\ 0 \in Orders /\ Largest \in Nat
    BY <1>2, OrderOfIs, LargestIs, SmallOrders
  <2>2. Filled(f, 0, lists)
    BY LargestIs DEF Filled
  <2>3. b >= PAGE_POOL_THRESHOLD + Largest - 0 /\ b >= PAGE_POOL_THRESHOLD /\ 0 <= OrderOf(f)
    BY <2>1, PoolAssumption
  <2> HIDE DEF Largest
  <2> QED BY <1>2, <2>1, <2>2, <2>3 DEF Budget
<1> QED BY <1>1, <1>2

-----------------------------------------------------------------------------
(* A refill of the entry pool.                                             *)

\* A refill of the page pool may begin with e entries.
Ready(e, lists) ==
    \E h \in Orders : e >= PAGE_POOL_THRESHOLD + Largest - h /\ \A q \in 0 .. h - 1 : lists[q] > 0

\* A block of an order below h is there for every order from this one on, and an
\* entry for every order that is still to be split.
Stairs(o, e, lists) ==
    \E h \in Orders : /\ h >= o /\ e >= PAGE_POOL_THRESHOLD + Largest - h + o
                      /\ \A q \in o .. h - 1 : lists[q] > 0
                      /\ \A q \in 0 .. o - 1 : lists[q] = 0

\* What a refill of the entry pool leaves is enough for a refill of the page pool
\* inside it.
EntryRefillOK(f, e, lists, d) ==
    /\ f.pc = "alloc" /\ MissingOf(f) > 0 =>
        \/ f.order = 0 /\ e >= PAGE_POOL_THRESHOLD + Largest
        \/ lists[f.order] > 1 /\ Stairs(f.order, e, lists)
    /\ f.pc = "split" => Stairs(f.order, e, lists)
    /\ f.pc = "alloc" /\ MissingOf(f) = 0 => Ready(e, lists)
    /\ f.pc = "map" /\ f.i < f.pages /\ d[TableOf(f.addr + f.i)] = NoTable => Ready(e, lists)

LEMMA EntryUnlink ==
    ASSUME NEW f, f.pc = "alloc", f.order \in Orders, MissingOf(f) = 1, NEW lists \in [Orders -> Nat],
           lists[OrderOf(f)] = 0, NEW o \in Orders, o >= From(f), lists[o] > 0,
           \A q \in From(f) .. o - 1 : lists[q] = 0,
           NEW g, g.pc = "split", g.order = o,
           NEW e \in Nat, NEW d, EntryRefillOK(f, e, lists, d)
    PROVE  EntryRefillOK(g, e, [lists EXCEPT ![o] = @ - 1], d)
<1> DEFINE new == [lists EXCEPT ![o] = @ - 1]
<1>0. MissingOf(f) \in Nat \ {0}
  OBVIOUS
<1>1. OrderOf(f) = 0 /\ f.order \in Nat /\ o \in Nat /\ 0 \in Orders
  BY <1>0, OrderOfIs, LargestIs, SmallOrders
<1>2. lists[0] = 0 /\ new[o] = lists[o] - 1 /\ \A q \in Orders : q # o => new[q] = lists[q]
  BY <1>1
<1>3. \A q \in Nat : q <= o => q \in Orders
  BY OrdersAre
<1> HIDE DEF new
<1>4. Stairs(o, e, new)
  <2>1. CASE f.order = 0 /\ e >= PAGE_POOL_THRESHOLD + Largest
    <3>1. From(f) = 1
      BY <1>1, <2>1 DEF From
    <3>2. \A q \in 0 .. o - 1 : q \in Orders /\ q # o /\ (q = 0 \/ q \in 1 .. o - 1)
      BY <1>1, <1>3
    <3>3. \A q \in 0 .. o - 1 : new[q] = 0
      BY <1>2, <3>1, <3>2
    <3>4. e >= PAGE_POOL_THRESHOLD + Largest - o + o /\ o >= o /\ \A q \in o .. o - 1 : new[q] > 0
      BY <1>1, <2>1, LargestIs, PoolAssumption
    <3> QED BY <3>3, <3>4 DEF Stairs
  <2>2. CASE lists[f.order] > 1 /\ Stairs(f.order, e, lists)
    <3>1. f.order # 0
      BY <1>2, <2>2
    <3>2. From(f) = f.order
      BY <1>1, <3>1 DEF From
    <3>3. o = f.order
      <4> SUFFICES ASSUME o # f.order PROVE FALSE
        OBVIOUS
      <4>1. f.order \in From(f) .. o - 1
        BY <1>1, <3>2
      <4> QED BY <2>2, <4>1
    <3>4. PICK h \in Orders : /\ h >= o /\ e >= PAGE_POOL_THRESHOLD + Largest - h + o
                              /\ \A q \in o .. h - 1 : lists[q] > 0
                              /\ \A q \in 0 .. o - 1 : lists[q] = 0
      BY <2>2, <3>3 DEF Stairs
    <3>5. \A q \in o .. h - 1 : q \in Orders /\ new[q] > 0
      <4>1. \A q \in o .. h - 1 : q \in Orders
        BY <1>1, OrdersAre
      <4>2. new[o] > 0
        BY <1>2, <2>2, <3>3
      <4> QED BY <1>2, <3>4, <4>1, <4>2
    <3>6. \A q \in 0 .. o - 1 : q \in Orders /\ q # o
      BY <1>1, <1>3
    <3>7. \A q \in 0 .. o - 1 : new[q] = 0
      BY <1>2, <3>4, <3>6
    <3> QED BY <3>4, <3>5, <3>7 DEF Stairs
  <2> QED BY <2>1, <2>2 DEF EntryRefillOK
<1>5. EntryRefillOK(g, e, new, d)
  BY <1>4 DEF EntryRefillOK
<1> QED BY <1>5 DEF new

LEMMA EntrySplit ==
    ASSUME NEW f, f.pc = "split", f.order \in Orders, f.order # 0, NEW lists \in [Orders -> Nat],
           NEW g, g.pc = "alloc", g.order = f.order - 1, MissingOf(g) \in Nat \ {0},
           NEW e \in Nat, NEW d, EntryRefillOK(f, e, lists, d)
    PROVE  EntryRefillOK(g, e - 1, [lists EXCEPT ![f.order - 1] = @ + 2], d)
<1> DEFINE o == f.order
<1> DEFINE new == [lists EXCEPT ![o - 1] = @ + 2]
<1>1. o \in Nat \ {0} /\ o - 1 \in Orders /\ o - 1 \in Nat
  BY OrdersAre
<1>2. PICK h \in Orders : /\ h >= o /\ e >= PAGE_POOL_THRESHOLD + Largest - h + o
                          /\ \A q \in o .. h - 1 : lists[q] > 0
                          /\ \A q \in 0 .. o - 1 : lists[q] = 0
  BY DEF EntryRefillOK, Stairs
<1>3. h \in Nat
  BY LargestIs
<1>4. new[o - 1] = lists[o - 1] + 2 /\ lists[o - 1] \in Nat /\ \A q \in Orders : q # o - 1 => new[q] = lists[q]
  BY <1>1
<1> HIDE DEF new, o
<1>5. \A q \in o - 1 .. h - 1 : new[q] > 0
  <2>1. \A q \in o - 1 .. h - 1 : q = o - 1 \/ (q \in o .. h - 1 /\ q \in Orders /\ q # o - 1)
    BY <1>1, <1>3, OrdersAre
  <2> QED BY <1>2, <1>4, <2>1
<1>6. \A q \in 0 .. (o - 1) - 1 : new[q] = 0
  <2>1. \A q \in 0 .. (o - 1) - 1 : q \in 0 .. o - 1 /\ q \in Orders /\ q # o - 1
    BY <1>1, OrdersAre
  <2> QED BY <1>2, <1>4, <2>1
<1>7. h >= o - 1 /\ e - 1 >= PAGE_POOL_THRESHOLD + Largest - h + (o - 1)
  BY <1>1, <1>2, <1>3, LargestIs, PoolAssumption
<1>8. Stairs(o - 1, e - 1, new)
  BY <1>5, <1>6, <1>7 DEF Stairs
<1>9. new[o - 1] > 1
  BY <1>4
<1>10. g.order = o - 1
  BY DEF o
<1>11. EntryRefillOK(g, e - 1, new, d)
  BY <1>8, <1>9, <1>10 DEF EntryRefillOK
<1> QED BY <1>11 DEF new, o

LEMMA EntryTake ==
    ASSUME NEW f, f.pc = "alloc", f.order \in Orders, MissingOf(f) = 1, NEW lists \in [Orders -> Nat],
           lists[OrderOf(f)] > 0,
           NEW g, g.pc = "alloc", MissingOf(g) = 0,
           NEW e \in Nat, NEW d, EntryRefillOK(f, e, lists, d)
    PROVE  EntryRefillOK(g, e, [lists EXCEPT ![OrderOf(f)] = @ - 1], d)
<1> DEFINE new == [lists EXCEPT ![0] = @ - 1]
<1>0. MissingOf(f) \in Nat \ {0}
  OBVIOUS
<1>1. OrderOf(f) = 0 /\ f.order \in Nat /\ 0 \in Orders
  BY <1>0, OrderOfIs, LargestIs, SmallOrders
<1>2. lists[0] > 0 /\ lists[0] \in Nat /\ new[0] = lists[0] - 1 /\ \A q \in Orders : q # 0 => new[q] = lists[q]
  BY <1>1
<1> HIDE DEF new
<1>3. Ready(e, new)
  <2>1. CASE f.order = 0 /\ e >= PAGE_POOL_THRESHOLD + Largest
    <3>1. e >= PAGE_POOL_THRESHOLD + Largest - 0 /\ \A q \in 0 .. 0 - 1 : new[q] > 0
      BY <2>1, LargestIs, PoolAssumption
    <3> QED BY <1>1, <3>1 DEF Ready
  <2>2. CASE lists[f.order] > 1 /\ Stairs(f.order, e, lists)
    <3>1. PICK h \in Orders : /\ h >= f.order /\ e >= PAGE_POOL_THRESHOLD + Largest - h + f.order
                              /\ \A q \in f.order .. h - 1 : lists[q] > 0
                              /\ \A q \in 0 .. f.order - 1 : lists[q] = 0
      BY <2>2 DEF Stairs
    <3>2. f.order = 0
      <4> SUFFICES ASSUME f.order # 0 PROVE FALSE
        OBVIOUS
      <4>1. 0 \in 0 .. f.order - 1
        BY <1>1
      <4> QED BY <1>2, <3>1, <4>1
    <3>3. new[0] > 0
      BY <1>2, <2>2, <3>2
    <3>4. \A q \in 0 .. h - 1 : q \in Orders
      BY OrdersAre
    <3>5. \A q \in 0 .. h - 1 : new[q] > 0
      BY <1>2, <3>1, <3>2, <3>3, <3>4
    <3>6. e >= PAGE_POOL_THRESHOLD + Largest - h
      BY <3>1, <3>2, LargestIs, PoolAssumption
    <3> QED BY <3>5, <3>6 DEF Ready
  <2> QED BY <2>1, <2>2 DEF EntryRefillOK
<1>4. EntryRefillOK(g, e, new, d)
  BY <1>3 DEF EntryRefillOK
<1> QED BY <1>1, <1>4 DEF new

\* The page is mapped once it has a table.
LEMMA EntryMapping ==
    ASSUME NEW f, NEW g, NEW e, NEW lists, NEW d, NEW new, EntryRefillOK(f, e, lists, d),
           \/ f.pc = "alloc" /\ MissingOf(f) = 0 /\ g.pc = "map"
           \/ g.pc = "map" /\ ~(g.i < g.pages)
           \/ g.pc = "map" /\ new[TableOf(g.addr + g.i)] # NoTable
           \/ g.pc = "install"
    PROVE  EntryRefillOK(g, e, lists, new)
BY DEF EntryRefillOK

\* A refill of the entry pool begins with one entry less than the threshold.
LEMMA EntryBegins ==
    ASSUME NEW f, f.pc = "alloc", f.order = 0, MissingOf(f) = 1, NEW e \in Nat, e >= ENTRY_THRESHOLD - 1,
           NEW lists, NEW d
    PROVE  EntryRefillOK(f, e, lists, d)
<1>1. e >= PAGE_POOL_THRESHOLD + Largest
  BY ThresholdAssumption, PoolAssumption, SizesAssumption DEF Largest
<1> QED BY <1>1 DEF EntryRefillOK

\* A refill of the entry pool that has to take an entry finds one.
LEMMA EntryLeft ==
    ASSUME NEW f, f.pc = "split", f.order \in Orders, NEW e \in Nat, NEW lists, NEW d, EntryRefillOK(f, e, lists, d)
    PROVE  e > 0
<1>1. PICK h \in Orders : e >= PAGE_POOL_THRESHOLD + Largest - h + f.order
  BY DEF EntryRefillOK, Stairs
<1>2. h \in Nat /\ f.order \in Nat /\ Largest \in Nat /\ h <= Largest
  BY LargestIs
<1> HIDE DEF Largest
<1> QED BY <1>1, <1>2, PoolAssumption

-----------------------------------------------------------------------------
(* The tables a mapping may still need.                                    *)

TablesLeft(f, d) ==
    IF f.pc \in {"alloc", "split"} THEN IF f.pages = 1 THEN 1 ELSE 2
    ELSE IF f.pc \in {"map", "install"} /\ f.i < f.pages
    THEN (IF f.pc = "install" \/ d[TableOf(f.addr + f.i)] = NoTable THEN 1 ELSE 0)
         + (IF TableOf(f.addr + f.pages - 1) > TableOf(f.addr + f.i) THEN 1 ELSE 0)
    ELSE 0

\* The pages of a refill that are in the pool.
Put(f) == IF f.pc = "populate" THEN f.i ELSE 0

\* What a refill leaves of a pool of n pages, apart from the pages it puts there.
Slack(f, n, d) == n - Put(f) - TablesLeft(f, d)

LEMMA SlackInt ==
    ASSUME NEW f \in Activation, NEW n \in Int, NEW d
    PROVE  Slack(f, n, d) \in Int /\ TablesLeft(f, d) \in 0 .. 2 /\ Put(f) \in Nat
<1>1. f.i \in Nat
  BY DEF Activation
<1>2. TablesLeft(f, d) \in 0 .. 2
  BY DEF TablesLeft
<1>3. Put(f) \in Nat
  BY <1>1 DEF Put
<1> QED BY <1>2, <1>3 DEF Slack

\* Next pages are in the same table or in the next one.
LEMMA NextTable ==
    ASSUME NEW p \in Nat, NEW k \in Nat, k <= TablePages
    PROVE  /\ TableOf(p) \in Nat /\ TableOf(p + k) \in Nat
           /\ TableOf(p) <= TableOf(p + k) /\ TableOf(p + k) <= TableOf(p) + 1
<1> DEFINE T == TablePages
<1> DEFINE a == p \div T
<1> DEFINE b == (p + k) \div T
<1>1. T \in Nat \ {0} /\ p + k \in Nat
  BY PoolAssumption
<1>2. a \in Nat /\ p % T \in 0 .. T - 1 /\ p = a * T + (p % T)
  BY <1>1, DivMod
<1>3. b \in Nat /\ (p + k) % T \in 0 .. T - 1 /\ p + k = b * T + ((p + k) % T)
  BY <1>1, DivMod
<1> DEFINE r == p % T
<1> DEFINE s == (p + k) % T
<1> HIDE DEF a, b, r, s, T
<1>4. r \in 0 .. T - 1 /\ p = a * T + r /\ s \in 0 .. T - 1 /\ p + k = b * T + s
  BY <1>2, <1>3 DEF r, s
<1>5. ASSUME b < a PROVE FALSE
  <2>1. (b + 1) * T <= a * T
    BY <1>1, <1>2, <1>3, <1>5, MulMonotone
  <2>2. (b + 1) * T = b * T + T /\ b * T \in Nat /\ a * T \in Nat
    BY <1>1, <1>2, <1>3
  <2> QED BY <1>1, <1>4, <2>1, <2>2
<1>6. ASSUME b > a + 1 PROVE FALSE
  <2>1. (a + 2) * T <= b * T
    BY <1>1, <1>2, <1>3, <1>6, MulMonotone
  <2>2. (a + 2) * T = a * T + T + T /\ b * T \in Nat /\ a * T \in Nat
    BY <1>1, <1>2, <1>3
  <2>3. k <= T
    BY DEF T
  <2> QED BY <1>1, <1>4, <2>1, <2>2, <2>3
<1> QED BY <1>2, <1>3, <1>5, <1>6 DEF TableOf, a, b, T

\* While a refill allocates nothing changes; then it needs at most the tables of
\* its first and of its last page.
LEMMA SlackAllocates ==
    ASSUME NEW f \in Activation, NEW g \in Activation, f.pc \in {"alloc", "split"}, g.pages = f.pages,
           NEW n \in Int, NEW d, g.pc \in {"alloc", "split"} \/ (g.pc = "map" /\ g.i = 0)
    PROVE  Slack(g, n, d) >= Slack(f, n, d)
<1>1. Put(f) = 0 /\ Put(g) = 0
  BY DEF Put
<1>2. TablesLeft(g, d) <= TablesLeft(f, d)
  <2>1. CASE g.pc \in {"alloc", "split"}
    BY <2>1 DEF TablesLeft
  <2>2. CASE g.pc = "map" /\ g.i = 0
    <3>1. g.addr \in Nat /\ g.pages \in Nat
      BY DEF Activation
    <3>2. g.pages = 1 => g.addr + g.pages - 1 = g.addr + g.i
      BY <2>2, <3>1
    <3>3. g.pages = 1 => TableOf(g.addr + g.pages - 1) = TableOf(g.addr + g.i)
      BY <3>2
    <3>4. g.pages = 1 => ~(TableOf(g.addr + g.pages - 1) > TableOf(g.addr + g.i))
      <4>1. g.addr + g.i \in Nat /\ 0 \in Nat /\ 0 <= TablePages
        BY <2>2, <3>1, PoolAssumption
      <4>2. TableOf(g.addr + g.i) \in Nat
        BY <4>1, NextTable
      <4> QED BY <3>3, <4>2
    <3> QED BY <2>2, <3>4 DEF TablesLeft
  <2> QED BY <2>1, <2>2
<1> QED BY <1>1, <1>2, SlackInt DEF Slack

\* The page is mapped: the next one is in its table or in the last one.
LEMMA SlackMaps ==
    ASSUME NEW f \in Activation, NEW g \in Activation, f.pc = "map", f.i < f.pages, f.pages <= TablePages,
           g.pc = "map", g.pages = f.pages, g.addr = f.addr, g.i = f.i + 1,
           NEW n \in Int, NEW d, d[TableOf(f.addr + f.i)] # NoTable
    PROVE  Slack(g, n, d) >= Slack(f, n, d)
<1>1. Put(f) = 0 /\ Put(g) = 0
  BY DEF Put
<1>2. f.addr \in Nat /\ f.pages \in Nat /\ f.i \in Nat /\ TablePages \in Nat
  BY PoolAssumption DEF Activation
<1> DEFINE p == f.addr + f.i
<1> DEFINE a == TableOf(p)
<1> DEFINE c == TableOf(p + 1)
<1> DEFINE z == TableOf(f.addr + f.pages - 1)
<1>3. p \in Nat /\ 1 \in Nat /\ 1 <= TablePages
  BY <1>2, PoolAssumption
<1>4. a \in Nat /\ c \in Nat /\ a <= c /\ c <= a + 1
  BY <1>3, NextTable
<1>5. z \in Nat /\ z <= a + 1
  <2> DEFINE k == f.pages - 1 - f.i
  <2>1. k \in Nat /\ k <= TablePages /\ p + k = f.addr + f.pages - 1
    BY <1>2
  <2> HIDE DEF k, p
  <2>2. TableOf(p + k) \in Nat /\ TableOf(p + k) <= TableOf(p) + 1
    BY <1>3, <2>1, NextTable
  <2> QED BY <2>1, <2>2
<1>6. g.addr + g.i = p + 1 /\ g.addr + g.pages - 1 = f.addr + f.pages - 1
  BY <1>2
<1>7. f.pc # "install" /\ d[a] # NoTable
  OBVIOUS
<1>8. TablesLeft(f, d) = IF z > a THEN 1 ELSE 0
  BY <1>7 DEF TablesLeft
<1>9. g.i < g.pages => TablesLeft(g, d) = (IF d[c] = NoTable THEN 1 ELSE 0) + (IF z > c THEN 1 ELSE 0)
  BY <1>6 DEF TablesLeft
<1>10. ~(g.i < g.pages) => TablesLeft(g, d) = 0
  BY DEF TablesLeft
<1>11. g.i < g.pages => c <= z
  <2> SUFFICES ASSUME g.i < g.pages PROVE c <= z
    OBVIOUS
  <2> DEFINE k == f.pages - 2 - f.i
  <2>1. k \in Nat /\ k <= TablePages /\ (p + 1) + k = f.addr + f.pages - 1 /\ p + 1 \in Nat
    BY <1>2
  <2> HIDE DEF k, p
  <2>2. TableOf(p + 1) <= TableOf((p + 1) + k)
    BY <1>3, <2>1, NextTable
  <2> QED BY <2>1, <2>2
<1> HIDE DEF p, a, c, z
<1>12. TablesLeft(g, d) <= TablesLeft(f, d)
  <2>1. CASE ~(g.i < g.pages)
    BY <1>8, <1>10, <2>1
  <2>2. CASE g.i < g.pages /\ c = a
    BY <1>4, <1>5, <1>7, <1>8, <1>9, <2>2
  <2>3. CASE g.i < g.pages /\ c # a
    BY <1>4, <1>5, <1>8, <1>9, <1>11, <2>3
  <2> QED BY <2>1, <2>2, <2>3
<1> QED BY <1>1, <1>12, SlackInt DEF Slack

\* A table is wanted, and taken from the pool.
LEMMA SlackWants ==
    ASSUME NEW f \in Activation, NEW g \in Activation, f.pc = "map", f.i < f.pages,
           g.pc = "install", g.pages = f.pages, g.addr = f.addr, g.i = f.i,
           NEW n \in Int, NEW d, d[TableOf(f.addr + f.i)] = NoTable
    PROVE  Slack(g, n, d) >= Slack(f, n, d)
<1>1. Put(f) = 0 /\ Put(g) = 0
  BY DEF Put
<1>2. TablesLeft(g, d) = TablesLeft(f, d)
  BY DEF TablesLeft
<1> QED BY <1>1, <1>2, SlackInt DEF Slack

LEMMA SlackInstalls ==
    ASSUME NEW f \in Activation, NEW g \in Activation, f.pc = "install", f.i < f.pages,
           g.pc = "map", g.pages = f.pages, g.addr = f.addr, g.i = f.i,
           NEW n \in Int, NEW d, NEW new, new[TableOf(f.addr + f.i)] # NoTable
    PROVE  Slack(g, n - 1, new) >= Slack(f, n, d)
<1>1. Put(f) = 0 /\ Put(g) = 0
  BY DEF Put
<1>2. TablesLeft(g, new) = TablesLeft(f, d) - 1
  BY DEF TablesLeft
<1>3. TablesLeft(f, d) \in Int
  BY SlackInt
<1> QED BY <1>1, <1>2, <1>3 DEF Slack

\* Pages are put into the pool.
LEMMA SlackPuts ==
    ASSUME NEW f \in Activation, NEW g \in Activation, g.pc = "populate", NEW n \in Int, NEW d
    PROVE  /\ f.pc = "map" /\ f.i = f.pages /\ g.i = 0 => Slack(g, n, d) >= Slack(f, n, d)
           /\ f.pc = "populate" /\ g.i = f.i => Slack(g, n, d) >= Slack(f, n, d)
           /\ f.pc = "populate" /\ g.i = f.i + 1 => Slack(g, n + 1, d) >= Slack(f, n, d)
<1>1. f.i \in Nat /\ g.i \in Nat /\ f.pages \in Nat
  BY DEF Activation
<1>2. TablesLeft(g, d) = 0 /\ Put(g) = g.i
  BY DEF TablesLeft, Put
<1>3. CASE f.pc = "map" /\ f.i = f.pages
  <2>1. TablesLeft(f, d) = 0 /\ Put(f) = 0
    BY <1>1, <1>3 DEF TablesLeft, Put
  <2> QED BY <1>1, <1>2, <1>3, <2>1 DEF Slack
<1>4. CASE f.pc = "populate"
  <2>1. TablesLeft(f, d) = 0 /\ Put(f) = f.i
    BY <1>4 DEF TablesLeft, Put
  <2> QED BY <1>1, <1>2, <1>4, <2>1 DEF Slack
<1> QED BY <1>3, <1>4

-----------------------------------------------------------------------------
(* How calls and refills nest.                                             *)

Caller(f) == f.kind \in {"call", "user_table"}

\* What is in the pools when they are not refilled.
EntriesFull(e) == e >= ENTRY_THRESHOLD - 1
PagesFull(f, n) == n >= PAGE_POOL_THRESHOLD /\ (f.pc = "install" => n > PAGE_POOL_THRESHOLD)

\* A refill of the page pool can be interrupted by a refill of the entry pool, or
\* has the entries for the rest.
PageRefillOK(f, e, n, lists, d) ==
    \/ Slack(f, n, d) >= 2
    \/ Slack(f, n, d) >= 1 /\ Budget(f, e - ENTRY_THRESHOLD, lists)

\* The stack s with e entries and n pages in the pools.
Idle(s, e, n) == s = <<>> /\ EntriesFull(e) /\ n >= PAGE_POOL_THRESHOLD
Calling(s, e, n) == Len(s) = 1 /\ Caller(s[1]) /\ EntriesFull(e) /\ PagesFull(s[1], n)
InPageRefill(s, e, n, lists, d) ==
    /\ Len(s) = 2 /\ Caller(s[1]) /\ s[2].kind = "page_pool" /\ s[1].pc = "install"
    /\ EntriesFull(e) /\ PageRefillOK(s[2], e, n, lists, d)
InEntryRefill(s, e, n, lists, d) ==
    /\ Len(s) = 2 /\ Caller(s[1]) /\ s[2].kind = "entry_pool" /\ s[1].pc \in {"split", "take"}
    /\ PagesFull(s[2], n) /\ EntryRefillOK(s[2], e, lists, d)
EntryInPage(s, e, n, lists, d) ==
    /\ Len(s) = 3 /\ Caller(s[1]) /\ s[2].kind = "page_pool" /\ s[3].kind = "entry_pool"
    /\ s[1].pc = "install" /\ s[2].pc \in {"split", "populate"}
    /\ EntryRefillOK(s[3], e, lists, d)
    /\ Slack(s[3], n, d) >= Put(s[2]) + TablesLeft(s[2], d) + 1
PageInEntry(s, e, n, lists, d) ==
    /\ Len(s) = 3 /\ Caller(s[1]) /\ s[2].kind = "entry_pool" /\ s[3].kind = "page_pool"
    /\ s[1].pc \in {"split", "take"} /\ s[2].pc = "install"
    /\ Budget(s[3], e, lists) /\ Slack(s[3], n, d) >= 1

Nesting(s, e, n, lists, d) ==
    \/ Idle(s, e, n) \/ Calling(s, e, n)
    \/ InPageRefill(s, e, n, lists, d) \/ InEntryRefill(s, e, n, lists, d)
    \/ EntryInPage(s, e, n, lists, d) \/ PageInEntry(s, e, n, lists, d)

\* No two calls of the same kind are on the stack.
KindsOnce == \A l, k \in DOMAIN stack : stack[l].kind = stack[k].kind => l = k

NestInv ==
    /\ \A l \in DOMAIN stack : SplitOK(stack[l])
    /\ KindsOnce
    /\ Running => Nesting(stack, entries, Len(pool), free_lists, pd)

LEMMA SuspendedTables ==
    ASSUME NEW f, f.pc \in {"split", "populate"}, NEW d, NEW new
    PROVE  TablesLeft(f, d) = TablesLeft(f, new)
BY DEF TablesLeft

\* No kind is twice on a stack of such a shape.
LEMMA NestedKinds ==
    ASSUME NEW s \in Seq(Activation), NEW e, NEW n, NEW lists, NEW d, Nesting(s, e, n, lists, d)
    PROVE  \A l, k \in DOMAIN s : s[l].kind = s[k].kind => l = k
<1>1. DOMAIN s = 1 .. Len(s) /\ Len(s) \in Nat
  OBVIOUS
<1>2. CASE Len(s) = 0
  BY <1>1, <1>2
<1>3. CASE Len(s) = 1
  BY <1>1, <1>3
<1>4. CASE Len(s) = 2
  <2>1. Caller(s[1]) /\ s[2].kind \in {"page_pool", "entry_pool"}
    BY <1>4 DEF Nesting, Idle, Calling, InPageRefill, InEntryRefill, EntryInPage, PageInEntry
  <2>2. \A l \in 1 .. 2 : l = 1 \/ l = 2
    OBVIOUS
  <2> QED BY <1>1, <1>4, <2>1, <2>2 DEF Caller
<1>5. CASE Len(s) = 3
  <2>1. Caller(s[1]) /\ s[2].kind \in {"page_pool", "entry_pool"} /\ s[3].kind \in {"page_pool", "entry_pool"}
        /\ s[2].kind # s[3].kind
    BY <1>5 DEF Nesting, Idle, Calling, InPageRefill, InEntryRefill, EntryInPage, PageInEntry
  <2>2. \A l \in 1 .. 3 : l = 1 \/ l = 2 \/ l = 3
    OBVIOUS
  <2> QED BY <1>1, <1>5, <2>1, <2>2 DEF Caller
<1>6. Len(s) \in {0, 1, 2, 3}
  BY DEF Nesting, Idle, Calling, InPageRefill, InEntryRefill, EntryInPage, PageInEntry
<1> QED BY <1>2, <1>3, <1>4, <1>5, <1>6

-----------------------------------------------------------------------------
(* The counts, by the refills on the stack.                                *)

NoPageRefill == \A l \in DOMAIN stack : stack[l].kind # "page_pool"
NoEntryRefill == \A l \in DOMAIN stack : stack[l].kind # "entry_pool"

LEMMA PlainPages == ASSUME TypeInv, PoolCounts, NoPageRefill PROVE count = Len(pool)
<1>1. Outstanding = {}
  BY OutstandingIs DEF TypeInv, NoPageRefill, OutOf
<1>2. Cardinality(Outstanding) = 0
  BY <1>1, FS_EmptySet
<1>3. Len(pool) \in Nat
  BY DEF TypeInv, TypeOK
<1> QED BY <1>2, <1>3 DEF PoolCounts

LEMMA PlainEntries == ASSUME TypeInv, PoolCounts, NoEntryRefill PROVE entry_count = entries
<1>1. EntryRefills = {}
  BY DEF EntryRefills, NoEntryRefill
<1>2. Cardinality(EntryRefills) = 0
  BY <1>1, FS_EmptySet
<1> QED BY <1>2, EntryTypes, PoolAssumption DEF PoolCounts

\* While a pool is refilled, its count has what the refill will bring.
LEMMA PromisedPages ==
    ASSUME TypeInv, PoolCounts, NEW m \in DOMAIN stack, stack[m].kind = "page_pool"
    PROVE  count >= Len(pool) + PAGE_POOL_THRESHOLD - Put(stack[m])
<1> DEFINE f == stack[m]
<1> DEFINE P == Put(f) .. PAGE_POOL_THRESHOLD - 1
<1> DEFINE One == {m}
<1>1. f \in Activation /\ Len(pool) \in Nat /\ DOMAIN stack = 1 .. Len(stack)
  BY DEF TypeInv, TypeOK
<1>2. Put(f) \in Nat
  BY <1>1 DEF Put, Activation
<1>3. CASE Put(f) > PAGE_POOL_THRESHOLD
  <2>1. Cardinality(Outstanding) \in Nat
    BY OutstandingFinite DEF TypeInv
  <2> QED BY <1>1, <1>2, <1>3, <2>1, PoolAssumption DEF PoolCounts
<1>4. CASE Put(f) <= PAGE_POOL_THRESHOLD
  <2>1. IsFiniteSet(P) /\ Cardinality(P) = PAGE_POOL_THRESHOLD - Put(f)
    <3> DEFINE a == Put(f)
    <3> DEFINE b == PAGE_POOL_THRESHOLD - 1
    <3>1. a \in Int /\ b \in Int
      BY <1>2, PoolAssumption
    <3> HIDE DEF a, b
    <3>2. IsFiniteSet(a .. b) /\ Cardinality(a .. b) = IF a > b THEN 0 ELSE b - a + 1
      BY <3>1, FS_Interval
    <3> QED BY <1>2, <1>4, <3>2, PoolAssumption DEF a, b
  <2>2. IsFiniteSet(One) /\ Cardinality(One) = 1
    BY FS_Singleton
  <2> HIDE DEF One, P
  <2>3. IsFiniteSet(One \X P) /\ Cardinality(One \X P) = 1 * (PAGE_POOL_THRESHOLD - Put(f))
    BY <2>1, <2>2, FS_Product
  <2>4. One \X P \subseteq Outstanding
    <3>1. \A k \in P : k \in PoolPages /\ OutOf(f, k)
      BY <1>2 DEF P, PoolPages, OutOf, Put
    <3>2. \A x \in One \X P : x \in (1 .. Len(stack)) \X PoolPages /\ x[1] = m /\ x[2] \in P
      BY <1>1, <3>1 DEF One
    <3> QED BY <3>1, <3>2, OutstandingIs DEF TypeInv
  <2>5. IsFiniteSet(Outstanding) /\ Cardinality(Outstanding) \in Nat
    BY OutstandingFinite DEF TypeInv
  <2>6. Cardinality(One \X P) <= Cardinality(Outstanding)
    BY <2>4, <2>5, FS_Subset
  <2> QED BY <1>1, <1>2, <2>3, <2>5, <2>6, PoolAssumption DEF PoolCounts
<1> QED BY <1>2, <1>3, <1>4, PoolAssumption

LEMMA PromisedEntries ==
    ASSUME TypeInv, PoolCounts, NEW m \in DOMAIN stack, stack[m].kind = "entry_pool"
    PROVE  entry_count >= entries + ENTRY_THRESHOLD
<1> DEFINE c == Cardinality(EntryRefills)
<1>1. IsFiniteSet(EntryRefills) /\ c \in Nat
  BY RefillsFinite DEF TypeInv
<1>2. EntryRefills # {}
  BY DEF EntryRefills
<1>3. c # 0
  BY <1>1, <1>2, FS_EmptySet
<1>4. entry_count = entries + ENTRY_THRESHOLD * c
  BY DEF PoolCounts
<1> HIDE DEF c
<1>5. ENTRY_THRESHOLD * 1 <= ENTRY_THRESHOLD * c
  <2>1. ENTRY_THRESHOLD * c = c * ENTRY_THRESHOLD /\ ENTRY_THRESHOLD * 1 = 1 * ENTRY_THRESHOLD
    BY <1>1, PoolAssumption
  <2>2. 1 * ENTRY_THRESHOLD <= c * ENTRY_THRESHOLD
    BY <1>1, <1>3, PoolAssumption, MulMonotone
  <2> QED BY <2>1, <2>2
<1>6. ENTRY_THRESHOLD * c \in Int /\ ENTRY_THRESHOLD \in Nat
  BY <1>1, PoolAssumption
<1> QED BY <1>4, <1>5, <1>6, EntryTypes

-----------------------------------------------------------------------------
(* The innermost call goes on.                                             *)

\* The innermost call goes on as g: with the pools full enough, or with what a
\* refill needs for the rest.
LEMMA ContinueNesting ==
    ASSUME TypeInv, Running, stack # <<>>, NestInv,
           NEW g \in Activation, Continue(g), g.kind = Top.kind, SplitOK(g), UNCHANGED kernel,
           entries' \in Nat, Len(pool') \in Nat,
           NoPageRefill /\ PagesFull(Top, Len(pool)) => PagesFull(g, Len(pool')),
           NoEntryRefill /\ EntriesFull(entries) => EntriesFull(entries'),
           Top.kind = "page_pool" =>
               \A b \in Int : Budget(Top, b, free_lists) => Budget(g, b + (entries' - entries), free_lists'),
           Top.kind = "entry_pool" /\ EntryRefillOK(Top, entries, free_lists, pd)
               => EntryRefillOK(g, entries', free_lists', pd'),
           Top.kind \in {"page_pool", "entry_pool"} => Slack(g, Len(pool'), pd') >= Slack(Top, Len(pool), pd)
    PROVE  NestInv'
<1> DEFINE s == stack
<1> DEFINE m == Len(stack)
<1> DEFINE e == entries
<1> DEFINE n == Len(pool)
<1>1. /\ stack' \in Seq(Activation) /\ Len(stack') = m /\ m \in Nat \ {0} /\ Top = stack[m]
      /\ stack'[m] = g /\ \A l \in 1 .. m - 1 : stack'[l] = stack[l]
  BY ContinueStack DEF TypeInv
<1>2. /\ stack \in Seq(Activation) /\ DOMAIN stack = 1 .. m /\ DOMAIN stack' = 1 .. m
      /\ \A l \in 1 .. m : stack[l] \in Activation
      /\ e \in Nat /\ n \in Nat
  BY <1>1 DEF TypeInv, TypeOK
<1>3. \A l \in DOMAIN stack : SplitOK(stack[l])
  BY DEF NestInv
<1>4. \A l \in DOMAIN stack' : SplitOK(stack'[l])
  <2>1. \A l \in 1 .. m : l = m \/ l \in 1 .. m - 1
    BY <1>1
  <2> QED BY <1>1, <1>2, <1>3, <2>1
<1>5. Nesting(stack, e, n, free_lists, pd)
  BY DEF NestInv
<1>6. Slack(g, Len(pool'), pd') \in Int /\ Slack(Top, n, pd) \in Int
  BY <1>1, <1>2, SlackInt
<1> HIDE DEF m, e, n
<1>7. ASSUME Idle(stack, e, n) PROVE Nesting(stack', entries', Len(pool'), free_lists', pd')
  BY <1>7 DEF Idle
<1>8. ASSUME Calling(stack, e, n) PROVE Nesting(stack', entries', Len(pool'), free_lists', pd')
  <2>1. m = 1 /\ Caller(Top) /\ EntriesFull(e) /\ PagesFull(Top, n)
    BY <1>1, <1>8 DEF Calling, m
  <2>2. NoPageRefill /\ NoEntryRefill
    BY <1>1, <1>2, <2>1 DEF NoPageRefill, NoEntryRefill, Caller
  <2>3. PagesFull(g, Len(pool')) /\ EntriesFull(entries')
    BY <2>1, <2>2 DEF e, n
  <2>4. Calling(stack', entries', Len(pool'))
    BY <1>1, <2>1, <2>3 DEF Calling, Caller
  <2> QED BY <2>4 DEF Nesting
<1>9. ASSUME InPageRefill(stack, e, n, free_lists, pd) PROVE Nesting(stack', entries', Len(pool'), free_lists', pd')
  <2>1. /\ m = 2 /\ Caller(stack[1]) /\ Top.kind = "page_pool" /\ stack[1].pc = "install"
        /\ EntriesFull(e) /\ PageRefillOK(Top, e, n, free_lists, pd)
    BY <1>1, <1>9 DEF InPageRefill, m
  <2>2. stack'[1] = stack[1] /\ stack'[2] = g /\ stack[2] = Top
    BY <1>1, <2>1
  <2>3. NoEntryRefill
    <3>1. \A l \in 1 .. 2 : l = 1 \/ l = 2
      OBVIOUS
    <3> QED BY <1>2, <2>1, <2>2, <3>1 DEF NoEntryRefill, Caller
  <2>4. EntriesFull(entries')
    BY <2>1, <2>3 DEF e
  <2>5. Slack(g, Len(pool'), pd') >= Slack(Top, n, pd)
    BY <2>1 DEF n
  <2>6. PageRefillOK(g, entries', Len(pool'), free_lists', pd')
    <3>1. CASE Slack(Top, n, pd) >= 2
      BY <1>6, <2>5, <3>1 DEF PageRefillOK
    <3>2. CASE Slack(Top, n, pd) >= 1 /\ Budget(Top, e - ENTRY_THRESHOLD, free_lists)
      <4> DEFINE b == e - ENTRY_THRESHOLD
      <4>1. b \in Int /\ b + (entries' - entries) = entries' - ENTRY_THRESHOLD
        BY <1>2, PoolAssumption DEF e
      <4> HIDE DEF b
      <4>2. Budget(Top, b, free_lists)
        BY <3>2 DEF b
      <4>3. Budget(g, b + (entries' - entries), free_lists')
        BY <2>1, <4>1, <4>2
      <4>4. Budget(g, entries' - ENTRY_THRESHOLD, free_lists')
        BY <4>1, <4>3
      <4> QED BY <1>6, <2>5, <3>2, <4>4 DEF PageRefillOK
    <3> QED BY <2>1, <3>1, <3>2 DEF PageRefillOK
  <2>7. InPageRefill(stack', entries', Len(pool'), free_lists', pd')
    BY <1>1, <2>1, <2>2, <2>4, <2>6 DEF InPageRefill
  <2> QED BY <2>7 DEF Nesting
<1>10. ASSUME InEntryRefill(stack, e, n, free_lists, pd) PROVE Nesting(stack', entries', Len(pool'), free_lists', pd')
  <2>1. /\ m = 2 /\ Caller(stack[1]) /\ Top.kind = "entry_pool" /\ stack[1].pc \in {"split", "take"}
        /\ PagesFull(Top, n) /\ EntryRefillOK(Top, e, free_lists, pd)
    BY <1>1, <1>10 DEF InEntryRefill, m
  <2>2. stack'[1] = stack[1] /\ stack'[2] = g /\ stack[2] = Top
    BY <1>1, <2>1
  <2>3. NoPageRefill
    <3>1. \A l \in 1 .. 2 : l = 1 \/ l = 2
      OBVIOUS
    <3> QED BY <1>2, <2>1, <2>2, <3>1 DEF NoPageRefill, Caller
  <2>4. PagesFull(g, Len(pool'))
    BY <2>1, <2>3 DEF n
  <2>5. EntryRefillOK(g, entries', free_lists', pd')
    BY <2>1 DEF e
  <2>6. InEntryRefill(stack', entries', Len(pool'), free_lists', pd')
    BY <1>1, <2>1, <2>2, <2>4, <2>5 DEF InEntryRefill
  <2> QED BY <2>6 DEF Nesting
<1>11. ASSUME EntryInPage(stack, e, n, free_lists, pd) PROVE Nesting(stack', entries', Len(pool'), free_lists', pd')
  <2>1. /\ m = 3 /\ Caller(stack[1]) /\ stack[2].kind = "page_pool" /\ Top.kind = "entry_pool"
        /\ stack[1].pc = "install" /\ stack[2].pc \in {"split", "populate"}
        /\ EntryRefillOK(Top, e, free_lists, pd)
        /\ Slack(Top, n, pd) >= Put(stack[2]) + TablesLeft(stack[2], pd) + 1
    BY <1>1, <1>11 DEF EntryInPage, m
  <2>2. stack'[1] = stack[1] /\ stack'[2] = stack[2] /\ stack'[3] = g /\ stack[2] \in Activation
    BY <1>1, <1>2, <2>1
  <2>3. EntryRefillOK(g, entries', free_lists', pd')
    BY <2>1 DEF e
  <2>4. TablesLeft(stack[2], pd') = TablesLeft(stack[2], pd)
    BY <2>1, SuspendedTables
  <2>5. Slack(g, Len(pool'), pd') >= Slack(Top, n, pd)
    BY <2>1 DEF n
  <2>6. Slack(g, Len(pool'), pd') >= Put(stack[2]) + TablesLeft(stack[2], pd') + 1
    <3>1. Put(stack[2]) \in Int /\ TablesLeft(stack[2], pd) \in Int
      BY <1>2, <2>2, SlackInt
    <3> QED BY <1>6, <2>1, <2>4, <2>5, <3>1
  <2>7. EntryInPage(stack', entries', Len(pool'), free_lists', pd')
    BY <1>1, <2>1, <2>2, <2>3, <2>6 DEF EntryInPage
  <2> QED BY <2>7 DEF Nesting
<1>12. ASSUME PageInEntry(stack, e, n, free_lists, pd) PROVE Nesting(stack', entries', Len(pool'), free_lists', pd')
  <2>1. /\ m = 3 /\ Caller(stack[1]) /\ stack[2].kind = "entry_pool" /\ Top.kind = "page_pool"
        /\ stack[1].pc \in {"split", "take"} /\ stack[2].pc = "install"
        /\ Budget(Top, e, free_lists) /\ Slack(Top, n, pd) >= 1
    BY <1>1, <1>12 DEF PageInEntry, m
  <2>2. stack'[1] = stack[1] /\ stack'[2] = stack[2] /\ stack'[3] = g
    BY <1>1, <2>1
  <2>3. Slack(g, Len(pool'), pd') >= 1
    <3>1. Slack(g, Len(pool'), pd') >= Slack(Top, n, pd)
      BY <2>1 DEF n
    <3> QED BY <1>6, <2>1, <3>1
  <2>4. Budget(g, e + (entries' - entries), free_lists')
    <3>1. e \in Int
      BY <1>2
    <3> QED BY <2>1, <3>1
  <2>5. e + (entries' - entries) = entries'
    <3>1. entries \in Int /\ entries' \in Int
      BY EntryTypes
    <3>2. \A x, y \in Int : x + (y - x) = y
      OBVIOUS
    <3>3. entries + (entries' - entries) = entries'
      BY <3>1, <3>2
    <3> QED BY <3>3 DEF e
  <2>6. Budget(g, entries', free_lists')
    BY <2>4, <2>5
  <2>7. PageInEntry(stack', entries', Len(pool'), free_lists', pd')
    BY <1>1, <2>1, <2>2, <2>3, <2>6 DEF PageInEntry
  <2> QED BY <2>7 DEF Nesting
<1>13. Nesting(stack', entries', Len(pool'), free_lists', pd')
  BY <1>5, <1>7, <1>8, <1>9, <1>10, <1>11, <1>12 DEF Nesting
<1>14. KindsOnce'
  BY <1>1, <1>13, NestedKinds DEF KindsOnce
<1> QED BY <1>4, <1>13, <1>14 DEF NestInv

LEMMA MissingOfIs ==
    ASSUME NEW f \in Activation, RecordOK(f)
    PROVE  /\ MissingOf(f) \in Nat /\ MissingOf(f) <= f.pages
           /\ f.kind = "entry_pool" /\ MissingOf(f) > 0 => MissingOf(f) = 1
           /\ f.order \in Orders /\ f.order \in Nat /\ f.i \in Nat /\ f.pages \in Nat
<1>1. EndsOK(f) /\ f.ends \in Seq(Nat) /\ f.pages \in Nat /\ f.order \in Orders /\ f.i \in Nat
  BY DEF RecordOK, Activation
<1>4. f.order \in Nat /\ (f.kind = "entry_pool" => f.pages = 1)
  BY <1>1, LargestIs DEF RecordOK
<1>2. CASE f.ends = <<>>
  BY <1>1, <1>2, <1>4 DEF MissingOf
<1>3. CASE f.ends # <<>>
  <2>1. Len(f.ends) \in DOMAIN f.ends
    BY <1>1, <1>3
  <2>2. Last(f.ends) \in 1 .. f.pages
    BY <1>1, <2>1 DEF EndsOK, Last
  <2>3. MissingOf(f) = f.pages - Last(f.ends)
    BY <1>3 DEF MissingOf
  <2> QED BY <1>1, <1>4, <2>2, <2>3
<1> QED BY <1>2, <1>3

\* What a step adds to the entries it adds to what a refill may take.
LEMMA Shift ==
    ASSUME NEW b \in Int, NEW x \in Nat
    PROVE  b + (x - x) = b /\ b + ((x - 1) - x) = b - 1 /\ b + ((x + 1) - x) = b + 1
OBVIOUS

\* A list entry is taken: without a refill the count is at least the threshold.
LEMMA TakenFull ==
    ASSUME TypeInv, PoolCounts, get_memory_entry, NoEntryRefill
    PROVE  EntriesFull(entries')
<1>1. entry_count = entries
  BY PlainEntries
<1> QED BY <1>1, EntryTypes, PoolAssumption DEF get_memory_entry, EntriesFull

LEMMA UnlinkBlockNests ==
    ASSUME TypeInv, PoolCounts, NestInv, UnlinkBlock
    PROVE  NestInv'
<1>1. /\ At("alloc") /\ Missing > 0 /\ stack # <<>> /\ Running /\ Top.pc = "alloc" /\ free_lists[order_to_alloc] = 0
      /\ UNCHANGED <<pd, pool, entries, kernel>>
  BY DEF UnlinkBlock, At, tableVars, poolVars, entryVars
<1>2. PICK o \in IF Top.kind = "user_table" THEN SecondLook ELSE FirstFrom(SearchFrom) :
        /\ free_lists' = [free_lists EXCEPT ![o] = @ - 1]
        /\ Continue([Top EXCEPT !.pc = "split", !.order = o])
  BY DEF UnlinkBlock
<1>3. /\ SearchFrom \in Nat \ {0} /\ SearchFrom > order_to_alloc
      /\ Top.kind = "user_table" => SearchFrom \in Orders /\ SearchFrom + 1 \in Orders
  BY <1>1, SearchAbove
<1>4. /\ Top \in Activation /\ RecordOK(Top) /\ MissingOf(Top) \in Nat \ {0} /\ Top.order \in Orders
      /\ Top.kind = "entry_pool" => MissingOf(Top) = 1
  BY <1>1, TopIs, TopOrders, MissingOfIs
<1>5. OrderOf(Top) \in Orders /\ OrderOf(Top) \in Nat
  BY <1>4, OrderOfIs
<1>6. o \in Orders /\ o \in Nat /\ o >= SearchFrom /\ free_lists[o] > 0
  <2>1. CASE Top.kind = "user_table"
    BY <1>2, <1>3, <2>1, LargestIs DEF SecondLook
  <2>2. CASE Top.kind # "user_table"
    BY <1>2, <1>3, <2>2, LargestIs DEF FirstFrom
  <2> QED BY <2>1, <2>2
<1>7. Top.kind # "user_table" => \A q \in SearchFrom .. o - 1 : free_lists[q] = 0
  BY <1>2 DEF FirstFrom
<1> DEFINE g == [Top EXCEPT !.pc = "split", !.order = o]
<1>8. g \in Activation
  BY <1>4, <1>6 DEF Activation
<1>9. g.pc = "split" /\ g.order = o /\ g.ends = Top.ends /\ g.pages = Top.pages /\ g.kind = Top.kind
  BY <1>4 DEF Activation
<1>10. Continue(g)
  BY <1>2
<1> HIDE DEF g
<1>11. free_lists \in [Orders -> Nat] /\ entries \in Nat /\ entries' = entries /\ Len(pool) \in Nat
       /\ Len(pool') = Len(pool) /\ Len(pool) \in Int
  BY <1>1 DEF TypeInv, TypeOK
<1>12. SplitOK(g)
  <2>1. MissingOf(g) = MissingOf(Top) /\ OrderOf(g) = OrderOf(Top)
    BY <1>9 DEF MissingOf, OrderOf
  <2>2. o > OrderOf(Top)
    BY <1>3, <1>5, <1>6, TopOrders
  <2> QED BY <1>4, <1>9, <2>1, <2>2 DEF SplitOK
<1>13. PagesFull(Top, Len(pool)) => PagesFull(g, Len(pool'))
  BY <1>9, <1>11 DEF PagesFull
<1>14. free_lists[OrderOf(Top)] = 0 /\ o >= From(Top)
       /\ (Top.kind # "user_table" => \A q \in From(Top) .. o - 1 : free_lists[q] = 0)
  BY <1>1, <1>6, <1>7, TopOrders
<1>15. ASSUME Top.kind = "page_pool", NEW b \in Int, Budget(Top, b, free_lists)
       PROVE  Budget(g, b + (entries' - entries), free_lists')
  <2>1. Budget(g, b, [free_lists EXCEPT ![o] = @ - 1])
    BY <1>1, <1>4, <1>6, <1>9, <1>11, <1>14, <1>15, UnlinkBudget
  <2>2. b + (entries' - entries) = b
    BY <1>11, Shift
  <2> QED BY <1>2, <2>1, <2>2
<1>16. ASSUME Top.kind = "entry_pool", EntryRefillOK(Top, entries, free_lists, pd)
       PROVE  EntryRefillOK(g, entries', free_lists', pd')
  <2>1. EntryRefillOK(g, entries, [free_lists EXCEPT ![o] = @ - 1], pd)
    BY <1>1, <1>4, <1>6, <1>9, <1>11, <1>14, <1>16, EntryUnlink
  <2> QED BY <1>1, <1>2, <2>1
<1>17. Slack(g, Len(pool'), pd') >= Slack(Top, Len(pool), pd)
  <2>1. Slack(g, Len(pool), pd) >= Slack(Top, Len(pool), pd)
    BY <1>1, <1>4, <1>8, <1>9, <1>11, SlackAllocates
  <2> QED BY <1>1, <2>1
<1> QED BY <1>1, <1>8, <1>9, <1>10, <1>11, <1>12, <1>13, <1>15, <1>16, <1>17, ContinueNesting

LEMMA SplitBlockNests ==
    ASSUME TypeInv, PoolCounts, NestInv, SplitBlock
    PROVE  NestInv'
<1> DEFINE g == [Top EXCEPT !.pc = "alloc", !.order = @ - 1]
<1>1. /\ stack # <<>> /\ Running /\ Top.pc = "split" /\ get_memory_entry
      /\ free_lists' = [free_lists EXCEPT ![Top.order - 1] = @ + 2]
      /\ UNCHANGED <<pd, pool, kernel>> /\ Continue(g)
  BY DEF SplitBlock, At, tableVars, poolVars
<1>2. /\ Top \in Activation /\ RecordOK(Top) /\ Top.order \in Orders /\ Top.order # 0
      /\ Len(stack) \in DOMAIN stack /\ Top = stack[Len(stack)]
  BY <1>1, TopIs DEF RecordOK, Activation
<1>3. MissingOf(Top) \in Nat \ {0} /\ Top.order > OrderOf(Top)
  <2>1. SplitOK(Top)
    BY <1>2 DEF NestInv
  <2> QED BY <1>1, <1>2, <2>1, MissingOfIs DEF SplitOK
<1>4. g \in Activation
  <2>1. Top.order - 1 \in Orders
    BY <1>2, OrdersAre
  <2> QED BY <1>2, <2>1 DEF Activation
<1>5. g.pc = "alloc" /\ g.order = Top.order - 1 /\ g.ends = Top.ends /\ g.pages = Top.pages /\ g.kind = Top.kind
  BY <1>2 DEF Activation
<1> HIDE DEF g
<1>6. free_lists \in [Orders -> Nat] /\ entries \in Nat /\ Len(pool) \in Nat /\ Len(pool) \in Int
  BY DEF TypeInv, TypeOK
<1>7. entries' = entries - 1 /\ entries' \in Nat /\ Len(pool') = Len(pool) /\ Len(pool') \in Nat
  BY <1>1, <1>6, TakenEntry DEF get_memory_entry
<1>8. SplitOK(g)
  BY <1>5 DEF SplitOK
<1>9. PagesFull(Top, Len(pool)) => PagesFull(g, Len(pool'))
  BY <1>5, <1>7 DEF PagesFull
<1>10. NoEntryRefill => EntriesFull(entries')
  BY <1>1, TakenFull
<1>11. ASSUME Top.kind = "page_pool", NEW b \in Int, Budget(Top, b, free_lists)
       PROVE  Budget(g, b + (entries' - entries), free_lists')
  <2>1. Budget(g, b - 1, [free_lists EXCEPT ![Top.order - 1] = @ + 2])
    BY <1>1, <1>2, <1>3, <1>5, <1>6, <1>11, SplitBudget
  <2>2. b + (entries' - entries) = b - 1
    BY <1>6, <1>7, Shift
  <2> QED BY <1>1, <2>1, <2>2
<1>12. ASSUME Top.kind = "entry_pool", EntryRefillOK(Top, entries, free_lists, pd)
       PROVE  EntryRefillOK(g, entries', free_lists', pd')
  <2>1. MissingOf(g) = MissingOf(Top)
    BY <1>5 DEF MissingOf
  <2>2. EntryRefillOK(g, entries - 1, [free_lists EXCEPT ![Top.order - 1] = @ + 2], pd)
    BY <1>1, <1>2, <1>3, <1>5, <1>6, <1>12, <2>1, EntrySplit
  <2> QED BY <1>1, <1>7, <2>2
<1>13. Slack(g, Len(pool'), pd') >= Slack(Top, Len(pool), pd)
  <2>1. Slack(g, Len(pool), pd) >= Slack(Top, Len(pool), pd)
    BY <1>1, <1>2, <1>4, <1>5, <1>6, SlackAllocates
  <2> QED BY <1>1, <2>1
<1> QED BY <1>1, <1>4, <1>5, <1>7, <1>8, <1>9, <1>10, <1>11, <1>12, <1>13, ContinueNesting

\* As long as there is a large block, the block taken is of the wanted order.
LEMMA TakesWanted ==
    ASSUME TypeInv, LargeBlockFree, At("alloc"), Missing > 0, NEW o \in Orders, Takes(o)
    PROVE  o = order_to_alloc /\ free_lists[o] > 0
<1>1. CASE free_lists[order_to_alloc] > 0
  BY <1>1 DEF Takes
<1>2. CASE ~(free_lists[order_to_alloc] > 0)
  <2>1. /\ FirstFrom(SearchFrom) = {} /\ o < order_to_alloc
    BY <1>2 DEF Takes
  <2>2. stack # <<>> /\ Top \in Activation /\ RecordOK(Top) /\ Top.order + 1 \in Orders /\ Top.order \in Nat
    BY TopIs, MissingOfIs DEF At, RecordOK
  <2>3. order_to_alloc \in Orders /\ order_to_alloc \in Nat
    BY <2>2, OrderIs, LargestIs
  <2>4. free_lists \in [Orders -> Nat]
    BY DEF TypeInv, TypeOK
  <2>5. order_to_alloc # Largest
    BY <1>2 DEF LargeBlockFree
  <2>6. SearchFrom \in Nat /\ SearchFrom <= Largest
    BY <2>2, <2>3, <2>5, OrdersAre DEF SearchFrom, Largest
  <2> DEFINE From1 == {q \in Orders : q >= SearchFrom /\ free_lists[q] > 0}
  <2>7. Largest \in From1
    BY <2>6, LargestIs DEF LargeBlockFree
  <2>8. From1 \subseteq Nat
    BY LargestIs
  <2> HIDE DEF From1
  <2>9. PICK q \in From1 : \A k \in From1 : q <= k
    BY <2>7, <2>8, MinOf
  <2>10. \A k \in SearchFrom .. q - 1 : free_lists[k] = 0
    <3> SUFFICES ASSUME NEW k \in SearchFrom .. q - 1, free_lists[k] # 0 PROVE FALSE
      OBVIOUS
    <3>1. q \in Orders /\ q \in Nat
      BY <2>8, <2>9 DEF From1
    <3>2. k \in Orders /\ k >= SearchFrom /\ k < q
      BY <2>6, <3>1, OrdersAre
    <3>3. free_lists[k] > 0
      BY <2>4, <3>2
    <3>4. k \in From1
      BY <3>2, <3>3 DEF From1
    <3> QED BY <2>9, <3>1, <3>2, <3>4, LargestIs
  <2>11. q \in FirstFrom(SearchFrom)
    BY <2>9, <2>10 DEF FirstFrom, From1
  <2> QED BY <2>1, <2>11
<1> QED BY <1>1, <1>2

LEMMA TakeBlockNests ==
    ASSUME TypeInv, PoolCounts, NestInv, LargeBlockFree, TakeBlock
    PROVE  NestInv'
<1>1. /\ At("alloc") /\ Missing > 0 /\ stack # <<>> /\ Running /\ Top.pc = "alloc"
      /\ UNCHANGED <<pd, pool, entries, kernel>>
  BY DEF TakeBlock, At, tableVars, poolVars, entryVars
<1>2. PICK o \in Orders :
        /\ Takes(o)
        /\ free_lists' = [free_lists EXCEPT ![o] = @ - 1]
        /\ Continue([Top EXCEPT !.ends = Append(@, Top.pages - Missing + Size(o)), !.order = 0])
  BY DEF TakeBlock
<1>3. o = OrderOf(Top) /\ free_lists[o] > 0
  BY <1>1, <1>2, TakesWanted, TopOrders
<1>4. /\ Top \in Activation /\ RecordOK(Top) /\ MissingOf(Top) \in Nat \ {0} /\ Top.order \in Orders
      /\ Top.kind = "entry_pool" => MissingOf(Top) = 1
      /\ MissingOf(Top) <= Top.pages /\ Top.pages \in Nat /\ Missing = MissingOf(Top)
  BY <1>1, TopIs, TopOrders, MissingOfIs
<1>5. Size(o) \in Nat /\ Size(o) <= MissingOf(Top) /\ Size(o) > 0
  BY <1>2, <1>3, <1>4, OrderOfIs, SizesGrow
<1> DEFINE x == Top.pages - Missing + Size(o)
<1> DEFINE g == [Top EXCEPT !.ends = Append(@, x), !.order = 0]
<1>6. x \in Nat /\ Top.ends \in Seq(Nat)
  BY <1>4, <1>5 DEF Activation
<1> HIDE DEF x
<1>7. g \in Activation
  <2>1. Append(Top.ends, x) \in Seq(Nat)
    BY <1>6
  <2> QED BY <1>4, <2>1, SmallOrders DEF Activation
<1>8. g.pc = "alloc" /\ g.order = 0 /\ g.ends = Append(Top.ends, x) /\ g.pages = Top.pages /\ g.kind = Top.kind
  BY <1>1, <1>4 DEF Activation
<1>9. Continue(g)
  BY <1>2 DEF x
<1> HIDE DEF g
<1>10. MissingOf(g) = MissingOf(Top) - Size(o)
  <2>1. g.ends # <<>> /\ Last(g.ends) = x
    BY <1>6, <1>8 DEF Last
  <2>2. MissingOf(g) = Top.pages - x
    BY <1>8, <2>1 DEF MissingOf
  <2> QED BY <1>4, <1>5, <2>2 DEF x
<1>11. free_lists \in [Orders -> Nat] /\ entries \in Nat /\ entries' = entries /\ Len(pool) \in Nat
       /\ Len(pool') = Len(pool) /\ Len(pool) \in Int
  BY <1>1 DEF TypeInv, TypeOK
<1>12. SplitOK(g)
  BY <1>8 DEF SplitOK
<1>13. PagesFull(Top, Len(pool)) => PagesFull(g, Len(pool'))
  BY <1>8, <1>11 DEF PagesFull
<1>14. MissingOf(g) \in Nat
  BY <1>4, <1>5, <1>10
<1>15. ASSUME Top.kind = "page_pool", NEW b \in Int, Budget(Top, b, free_lists)
       PROVE  Budget(g, b + (entries' - entries), free_lists')
  <2>1. Budget(g, b, [free_lists EXCEPT ![OrderOf(Top)] = @ - 1])
    BY <1>1, <1>3, <1>4, <1>8, <1>10, <1>11, <1>14, <1>15, TakeBudget
  <2>2. b + (entries' - entries) = b
    BY <1>11, Shift
  <2> QED BY <1>2, <1>3, <2>1, <2>2
<1>16. ASSUME Top.kind = "entry_pool", EntryRefillOK(Top, entries, free_lists, pd)
       PROVE  EntryRefillOK(g, entries', free_lists', pd')
  <2>1. MissingOf(g) = 0 /\ MissingOf(Top) = 1
    BY <1>4, <1>5, <1>10, <1>14, <1>16
  <2>2. EntryRefillOK(g, entries, [free_lists EXCEPT ![OrderOf(Top)] = @ - 1], pd)
    BY <1>1, <1>3, <1>4, <1>8, <1>11, <1>16, <2>1, EntryTake
  <2> QED BY <1>1, <1>2, <1>3, <2>2
<1>17. Slack(g, Len(pool'), pd') >= Slack(Top, Len(pool), pd)
  <2>1. Slack(g, Len(pool), pd) >= Slack(Top, Len(pool), pd)
    BY <1>1, <1>4, <1>7, <1>8, <1>11, SlackAllocates
  <2> QED BY <1>1, <2>1
<1> QED BY <1>1, <1>7, <1>8, <1>9, <1>11, <1>12, <1>13, <1>15, <1>16, <1>17, ContinueNesting

\* A step of the call itself that is no refill.
LEMMA CallerNests ==
    ASSUME TypeInv, PoolCounts, NestInv, Running, stack # <<>>, NEW g \in Activation, Continue(g), g.kind = Top.kind,
           Top.kind = "user_table", g.pc \in {"alloc", "take"}, UNCHANGED <<kernel, pool>>,
           entries' \in Nat, entries' >= entries
    PROVE  NestInv'
<1>1. SplitOK(g)
  BY DEF SplitOK
<1>2. Len(pool) \in Nat /\ entries \in Nat /\ Len(pool') = Len(pool)
  BY DEF TypeInv, TypeOK
<1>3. PagesFull(Top, Len(pool)) => PagesFull(g, Len(pool'))
  BY <1>2 DEF PagesFull
<1>4. EntriesFull(entries) => EntriesFull(entries')
  BY <1>2, PoolAssumption DEF EntriesFull
<1> QED BY <1>1, <1>2, <1>3, <1>4, ContinueNesting

LEMMA TakeContiguousNests ==
    ASSUME TypeInv, PoolCounts, NestInv, TakeContiguous
    PROVE  NestInv'
<1> DEFINE g == [Top EXCEPT !.ends = <<Top.pages>>, !.order = 0]
<1>1. /\ stack # <<>> /\ Running /\ Top.pc = "alloc" /\ Top.kind = "user_table" /\ free_memory_entries(1)
      /\ Continue(g) /\ UNCHANGED <<kernel, pool>>
  BY DEF TakeContiguous, At, poolVars
<1>2. Top \in Activation
  BY <1>1, TopIs
<1>3. g \in Activation
  <2>1. <<Top.pages>> \in Seq(Nat)
    BY <1>2 DEF Activation
  <2> QED BY <1>2, <2>1, SmallOrders DEF Activation
<1>4. g.pc = "alloc" /\ g.kind = Top.kind
  BY <1>1, <1>2 DEF Activation
<1> HIDE DEF g
<1>5. entries' \in Nat /\ entries' >= entries
  BY <1>1, EntryTypes DEF free_memory_entries
<1> QED BY <1>1, <1>3, <1>4, <1>5, CallerNests

LEMMA UserTableMappedNests ==
    ASSUME TypeInv, PoolCounts, NestInv, UserTableMapped
    PROVE  NestInv'
<1> DEFINE g == [Top EXCEPT !.pc = "take"]
<1>1. /\ stack # <<>> /\ Running /\ Top.kind = "user_table" /\ Continue(g) /\ UNCHANGED <<kernel, pool, entries>>
  BY DEF UserTableMapped, At, poolVars, entryVars
<1>2. Top \in Activation
  BY <1>1, TopIs
<1>3. g \in Activation /\ g.pc = "take" /\ g.kind = Top.kind
  BY <1>2 DEF Activation
<1> HIDE DEF g
<1>4. entries' \in Nat /\ entries' >= entries
  BY <1>1, EntryTypes
<1> QED BY <1>1, <1>3, <1>4, CallerNests

\* A step of a mapping that leaves the lists and their entries.
LEMMA MappingNests ==
    ASSUME TypeInv, PoolCounts, NestInv, Running, stack # <<>>, NEW g \in Activation, Continue(g), g.kind = Top.kind,
           Top.pc # "populate", g.pc \in {"map", "install"} \/ (g.pc = "populate" /\ g.i = 0),
           UNCHANGED <<kernel, entries, free_lists>>, Len(pool') \in Nat,
           NoPageRefill /\ PagesFull(Top, Len(pool)) => PagesFull(g, Len(pool')),
           Top.kind = "entry_pool" /\ EntryRefillOK(Top, entries, free_lists, pd)
               => EntryRefillOK(g, entries, free_lists, pd'),
           Top.kind \in {"page_pool", "entry_pool"} => Slack(g, Len(pool'), pd') >= Slack(Top, Len(pool), pd)
    PROVE  NestInv'
<1>1. SplitOK(g)
  BY DEF SplitOK
<1>2. entries \in Nat /\ entries' = entries
  BY DEF TypeInv, TypeOK
<1>3. ASSUME NEW b \in Int, Budget(Top, b, free_lists)
      PROVE  Budget(g, b + (entries' - entries), free_lists')
  <2>1. Budget(g, b, free_lists')
    BY <1>3, MappingBudget
  <2>2. b + (entries' - entries) = b
    BY <1>2, Shift
  <2> QED BY <2>1, <2>2
<1>4. Top.kind = "entry_pool" /\ EntryRefillOK(Top, entries, free_lists, pd)
         => EntryRefillOK(g, entries', free_lists', pd')
  BY <1>2
<1> QED BY <1>1, <1>2, <1>3, <1>4, ContinueNesting

LEMMA StartMappingNests ==
    ASSUME TypeInv, PoolCounts, NestInv, StartMapping
    PROVE  NestInv'
<1> DEFINE g == [Top EXCEPT !.pc = "map", !.addr = current_address, !.frame = next_frame]
<1>1. /\ stack # <<>> /\ Running /\ Top.pc = "alloc" /\ Missing = 0 /\ Continue(g)
      /\ UNCHANGED <<kernel, pool, pd, entries, free_lists>>
  BY DEF StartMapping, At, poolVars, entryVars, tableVars
<1>2. Top \in Activation /\ RecordOK(Top) /\ current_address \in Nat /\ next_frame \in Nat /\ Len(pool) \in Nat
      /\ Len(pool') = Len(pool) /\ Len(pool) \in Int
  BY <1>1, TopIs DEF TypeInv, TypeOK
<1>3. g \in Activation
  BY <1>2 DEF Activation
<1>4. g.pc = "map" /\ g.kind = Top.kind /\ g.pages = Top.pages /\ g.i = Top.i /\ Top.i = 0
  BY <1>1, <1>2 DEF Activation, RecordOK
<1> HIDE DEF g
<1>5. PagesFull(Top, Len(pool)) => PagesFull(g, Len(pool'))
  BY <1>2, <1>4 DEF PagesFull
<1>6. EntryRefillOK(Top, entries, free_lists, pd) => EntryRefillOK(g, entries, free_lists, pd')
  <2>1. MissingOf(Top) = 0
    BY <1>1, TopOrders
  <2> QED BY <1>1, <1>4, <2>1, EntryMapping
<1>7. Slack(g, Len(pool'), pd') >= Slack(Top, Len(pool), pd)
  <2>1. Slack(g, Len(pool), pd) >= Slack(Top, Len(pool), pd)
    BY <1>1, <1>2, <1>3, <1>4, SlackAllocates
  <2> QED BY <1>1, <2>1
<1> QED BY <1>1, <1>2, <1>3, <1>4, <1>5, <1>6, <1>7, MappingNests

LEMMA MapPageNests ==
    ASSUME TypeInv, PoolCounts, NestInv, MapPage
    PROVE  NestInv'
<1> DEFINE g == [Top EXCEPT !.i = @ + 1]
<1>1. /\ stack # <<>> /\ Running /\ Top.pc = "map" /\ Continue(g) /\ Top.i < Top.pages
      /\ pd[TableOf(Page)] # NoTable /\ UNCHANGED <<kernel, pool, pd, entries, free_lists>>
  BY DEF MapPage, At, poolVars, entryVars
<1>2. Top \in Activation /\ RecordOK(Top) /\ Len(pool) \in Nat /\ Len(pool') = Len(pool) /\ Len(pool) \in Int
      /\ Top.i \in Nat /\ Top.pages \in Nat
  <2>1. Top \in Activation /\ RecordOK(Top)
    BY <1>1, TopIs
  <2>2. Len(pool) \in Nat /\ Len(pool') = Len(pool) /\ Len(pool) \in Int
    BY <1>1 DEF TypeInv, TypeOK
  <2> QED BY <2>1, <2>2 DEF Activation
<1>3. g \in Activation
  <2>1. Top.i + 1 \in Nat
    BY <1>2
  <2> QED BY <1>2, <2>1 DEF Activation
<1>4. g.pc = "map" /\ g.kind = Top.kind /\ g.pages = Top.pages /\ g.addr = Top.addr /\ g.i = Top.i + 1
  BY <1>1, <1>2 DEF Activation
<1> HIDE DEF g
<1>5. PagesFull(Top, Len(pool)) => PagesFull(g, Len(pool'))
  BY <1>2, <1>4 DEF PagesFull
<1>6. Top.kind = "entry_pool" /\ EntryRefillOK(Top, entries, free_lists, pd)
         => EntryRefillOK(g, entries, free_lists, pd')
  <2>1. Top.kind = "entry_pool" => ~(g.i < g.pages)
    BY <1>1, <1>2, <1>4 DEF RecordOK
  <2> QED BY <1>4, <2>1, EntryMapping
<1>7. ASSUME Top.kind \in {"page_pool", "entry_pool"}
      PROVE  Slack(g, Len(pool'), pd') >= Slack(Top, Len(pool), pd)
  <2>1. Top.pages <= TablePages
    BY <1>2, <1>7, PoolAssumption DEF RecordOK
  <2>2. pd[TableOf(Top.addr + Top.i)] # NoTable
    BY <1>1 DEF Page
  <2>3. Slack(g, Len(pool), pd) >= Slack(Top, Len(pool), pd)
    BY <1>1, <1>2, <1>3, <1>4, <2>1, <2>2, SlackMaps
  <2> QED BY <1>1, <2>3
<1> QED BY <1>1, <1>2, <1>3, <1>4, <1>5, <1>6, <1>7, MappingNests

LEMMA PoolSufficesNests ==
    ASSUME TypeInv, PoolCounts, NestInv, PoolSuffices
    PROVE  NestInv'
<1> DEFINE g == [Top EXCEPT !.pc = "install"]
<1>1. /\ stack # <<>> /\ Running /\ Top.pc = "map" /\ Continue(g) /\ Top.i < Top.pages
      /\ pd[TableOf(Page)] = NoTable /\ UNCHANGED <<kernel, pool, pd, entries, free_lists>>
      /\ count > PAGE_POOL_THRESHOLD
  BY DEF PoolSuffices, TableMissing, At, poolVars, entryVars, tableVars
<1>2. Top \in Activation /\ RecordOK(Top) /\ Len(pool) \in Nat /\ Len(pool') = Len(pool) /\ Len(pool) \in Int
  BY <1>1, TopIs DEF TypeInv, TypeOK
<1>3. g \in Activation
  BY <1>2 DEF Activation
<1>4. g.pc = "install" /\ g.kind = Top.kind /\ g.pages = Top.pages /\ g.addr = Top.addr /\ g.i = Top.i
  BY <1>1, <1>2 DEF Activation
<1> HIDE DEF g
<1>5. NoPageRefill => PagesFull(g, Len(pool'))
  <2>1. NoPageRefill => Len(pool) > PAGE_POOL_THRESHOLD
    BY <1>1, PlainPages
  <2> QED BY <1>2, <2>1, PoolAssumption DEF PagesFull
<1>6. EntryRefillOK(Top, entries, free_lists, pd) => EntryRefillOK(g, entries, free_lists, pd')
  BY <1>4, EntryMapping
<1>7. Slack(g, Len(pool'), pd') >= Slack(Top, Len(pool), pd)
  <2>1. pd[TableOf(Top.addr + Top.i)] = NoTable
    BY <1>1 DEF Page
  <2>2. Slack(g, Len(pool), pd) >= Slack(Top, Len(pool), pd)
    BY <1>1, <1>2, <1>3, <1>4, <2>1, SlackWants
  <2> QED BY <1>1, <2>2
<1> QED BY <1>1, <1>2, <1>3, <1>4, <1>5, <1>6, <1>7, MappingNests

LEMMA InstallTableNests ==
    ASSUME TypeInv, PoolCounts, NestInv, InstallTable
    PROVE  NestInv'
<1> DEFINE g == [Top EXCEPT !.pc = "map"]
<1>1. /\ At("install") /\ pool # <<>> /\ stack # <<>> /\ Running /\ Top.pc = "install" /\ Continue(g)
      /\ pool' = Tail(pool) /\ pd' = NewDirectory /\ UNCHANGED <<kernel, entries, free_lists>>
  BY DEF InstallTable, At, entryVars
<1>2. Top \in Activation /\ RecordOK(Top) /\ Top.i < Top.pages
  BY <1>1, TopIs DEF RecordOK
<1>3. g \in Activation
  BY <1>2 DEF Activation
<1>4. g.pc = "map" /\ g.kind = Top.kind /\ g.pages = Top.pages /\ g.addr = Top.addr /\ g.i = Top.i
  BY <1>1, <1>2 DEF Activation
<1> HIDE DEF g
<1>5. Len(pool') = Len(pool) - 1 /\ Len(pool) \in Nat \ {0} /\ Len(pool') \in Nat /\ Len(pool) \in Int
  BY <1>1, FirstPage
<1>6. pd'[TableOf(Top.addr + Top.i)] # NoTable
  BY <1>1, NewDirectoryType DEF Page, NoTable
<1>7. PagesFull(Top, Len(pool)) => PagesFull(g, Len(pool'))
  BY <1>1, <1>4, <1>5, PoolAssumption DEF PagesFull
<1>8. EntryRefillOK(Top, entries, free_lists, pd) => EntryRefillOK(g, entries, free_lists, pd')
  BY <1>4, <1>6, EntryMapping
<1>9. Slack(g, Len(pool'), pd') >= Slack(Top, Len(pool), pd)
  <2>1. Slack(g, Len(pool) - 1, pd') >= Slack(Top, Len(pool), pd)
    BY <1>1, <1>2, <1>3, <1>4, <1>5, <1>6, SlackInstalls
  <2> QED BY <1>5, <2>1
<1> QED BY <1>1, <1>3, <1>4, <1>5, <1>7, <1>8, <1>9, MappingNests

LEMMA StartPopulatingNests ==
    ASSUME TypeInv, PoolCounts, NestInv, StartPopulating
    PROVE  NestInv'
<1> DEFINE g == [Top EXCEPT !.pc = "populate", !.i = 0]
<1>1. /\ stack # <<>> /\ Running /\ Top.pc = "map" /\ Continue(g) /\ Top.i = Top.pages /\ Top.kind = "page_pool"
      /\ UNCHANGED <<kernel, pool, pd, entries, free_lists>>
  BY DEF StartPopulating, At, poolVars, entryVars, tableVars
<1>2. Top \in Activation /\ RecordOK(Top) /\ Len(pool) \in Nat /\ Len(pool') = Len(pool) /\ Len(pool) \in Int
  BY <1>1, TopIs DEF TypeInv, TypeOK
<1>3. g \in Activation
  BY <1>2 DEF Activation
<1>4. g.pc = "populate" /\ g.kind = Top.kind /\ g.i = 0
  BY <1>1, <1>2 DEF Activation
<1> HIDE DEF g
<1>5. PagesFull(Top, Len(pool)) => PagesFull(g, Len(pool'))
  BY <1>2, <1>4 DEF PagesFull
<1>6. Slack(g, Len(pool'), pd') >= Slack(Top, Len(pool), pd)
  <2>1. Slack(g, Len(pool), pd) >= Slack(Top, Len(pool), pd)
    BY <1>1, <1>2, <1>3, <1>4, SlackPuts
  <2> QED BY <1>1, <2>1
<1> QED BY <1>1, <1>2, <1>3, <1>4, <1>5, <1>6, MappingNests

LEMMA AddToPoolNests ==
    ASSUME TypeInv, PoolCounts, NestInv, AddToPool
    PROVE  NestInv'
<1> DEFINE g == [Top EXCEPT !.i = @ + 1]
<1> DEFINE p == PoolEntry(Page, Top.frame + Top.i)
<1>1. /\ At("populate") /\ get_memory_entry /\ stack # <<>> /\ Running /\ Top.pc = "populate"
      /\ pool' = <<p>> \o pool /\ Continue(g) /\ UNCHANGED <<kernel, pd, free_lists>>
  BY DEF AddToPool, At, tableVars
<1>2. Top \in Activation /\ RecordOK(Top) /\ Top.i \in Nat /\ pool \in Seq(MappingEntry) /\ Top.kind = "page_pool"
  BY <1>1, TopIs, Populating DEF TypeInv, TypeOK, Activation
<1>3. g \in Activation
  <2>1. Top.i + 1 \in Nat
    BY <1>2
  <2> QED BY <1>2, <2>1 DEF Activation
<1>4. g.pc = "populate" /\ g.kind = Top.kind /\ g.i = Top.i + 1
  BY <1>1, <1>2 DEF Activation
<1>5. Len(pool') = Len(pool) + 1 /\ Len(pool) \in Nat /\ Len(pool') \in Nat /\ Len(pool) \in Int
  <2>1. p \in MappingEntry
    <3>1. Page \in Nat /\ Top.frame + Top.i \in Nat
      BY <1>2 DEF Activation, Page
    <3> QED BY <3>1 DEF PoolEntry, MappingEntry
  <2> HIDE DEF p
  <2> QED BY <1>1, <1>2, <2>1
<1> HIDE DEF g, p
<1>6. entries \in Nat /\ entries' = entries - 1 /\ entries' \in Nat
  BY <1>1, EntryTypes, TakenEntry DEF get_memory_entry
<1>7. SplitOK(g)
  BY <1>4 DEF SplitOK
<1>8. PagesFull(Top, Len(pool)) => PagesFull(g, Len(pool'))
  BY <1>4, <1>5, PoolAssumption DEF PagesFull
<1>9. NoEntryRefill => EntriesFull(entries')
  BY <1>1, TakenFull
<1>10. ASSUME NEW b \in Int, Budget(Top, b, free_lists)
       PROVE  Budget(g, b + (entries' - entries), free_lists')
  <2>1. Budget(g, b - 1, free_lists)
    BY <1>1, <1>2, <1>4, <1>10, PutBudget
  <2>2. b + (entries' - entries) = b - 1
    BY <1>6, Shift
  <2> QED BY <1>1, <2>1, <2>2
<1>11. Slack(g, Len(pool'), pd') >= Slack(Top, Len(pool), pd)
  <2>1. Slack(g, Len(pool) + 1, pd) >= Slack(Top, Len(pool), pd)
    BY <1>1, <1>2, <1>3, <1>4, <1>5, SlackPuts
  <2> QED BY <1>1, <1>5, <2>1
<1> QED BY <1>1, <1>2, <1>3, <1>4, <1>5, <1>6, <1>7, <1>8, <1>9, <1>10, <1>11, ContinueNesting

LEMMA FreeBlockEntryNests ==
    ASSUME TypeInv, PoolCounts, NestInv, FreeBlockEntry
    PROVE  NestInv'
<1> DEFINE g == [Top EXCEPT !.ends = Tail(@)]
<1>1. /\ stack # <<>> /\ Running /\ Top.pc = "populate" /\ Top.ends # <<>> /\ free_memory_entries(1)
      /\ Continue(g) /\ UNCHANGED <<kernel, pool, pd, free_lists>>
  BY DEF FreeBlockEntry, At, tableVars, poolVars
<1>2. Top \in Activation /\ RecordOK(Top) /\ Top.i \in Nat /\ Top.ends \in Seq(Nat) /\ Top.kind = "page_pool"
      /\ Len(pool) \in Nat /\ Len(pool') = Len(pool) /\ Len(pool) \in Int
  <2>1. Top \in Activation /\ RecordOK(Top) /\ Top.kind = "page_pool"
    BY <1>1, TopIs DEF RecordOK
  <2>2. Len(pool) \in Nat /\ Len(pool') = Len(pool) /\ Len(pool) \in Int
    BY <1>1 DEF TypeInv, TypeOK
  <2> QED BY <2>1, <2>2 DEF Activation
<1>3. g \in Activation
  <2>1. Tail(Top.ends) \in Seq(Nat)
    BY <1>1, <1>2
  <2> QED BY <1>2, <2>1 DEF Activation
<1>4. g.pc = "populate" /\ g.kind = Top.kind /\ g.i = Top.i
  BY <1>1, <1>2 DEF Activation
<1> HIDE DEF g
<1>5. entries \in Nat /\ entries' = entries + 1 /\ entries' \in Nat
  BY <1>1, EntryTypes DEF free_memory_entries
<1>6. SplitOK(g)
  BY <1>4 DEF SplitOK
<1>7. PagesFull(Top, Len(pool)) => PagesFull(g, Len(pool'))
  BY <1>2, <1>4 DEF PagesFull
<1>8. EntriesFull(entries) => EntriesFull(entries')
  BY <1>5, PoolAssumption DEF EntriesFull
<1>9. ASSUME NEW b \in Int, Budget(Top, b, free_lists)
      PROVE  Budget(g, b + (entries' - entries), free_lists')
  <2>1. Budget(g, b + 1, free_lists)
    BY <1>1, <1>2, <1>4, <1>9, PutBudget
  <2>2. b + (entries' - entries) = b + 1
    BY <1>5, Shift
  <2> QED BY <1>1, <2>1, <2>2
<1>10. Slack(g, Len(pool'), pd') >= Slack(Top, Len(pool), pd)
  <2>1. Slack(g, Len(pool), pd) >= Slack(Top, Len(pool), pd)
    BY <1>1, <1>2, <1>3, <1>4, SlackPuts
  <2> QED BY <1>1, <2>1
<1> QED BY <1>1, <1>2, <1>3, <1>4, <1>5, <1>6, <1>7, <1>8, <1>9, <1>10, ContinueNesting

-----------------------------------------------------------------------------
(* Calls and refills begin.                                                *)

\* What is on the stack when it has this length.
LEMMA ShapeOf ==
    ASSUME TypeInv, NestInv, Running
    PROVE  /\ stack = <<>> => Idle(stack, entries, Len(pool))
           /\ stack # <<>> => \/ Calling(stack, entries, Len(pool))
                              \/ InPageRefill(stack, entries, Len(pool), free_lists, pd)
                              \/ InEntryRefill(stack, entries, Len(pool), free_lists, pd)
                              \/ EntryInPage(stack, entries, Len(pool), free_lists, pd)
                              \/ PageInEntry(stack, entries, Len(pool), free_lists, pd)
<1>1. Nesting(stack, entries, Len(pool), free_lists, pd)
  BY DEF NestInv
<1>2. stack = <<>> => Len(stack) = 0
  OBVIOUS
<1> QED BY <1>1, <1>2 DEF Nesting, Idle, Calling, InPageRefill, InEntryRefill, EntryInPage, PageInEntry

\* A stack of such a shape keeps the invariant.
LEMMA NewNesting ==
    ASSUME stack' \in Seq(Activation), \A l \in DOMAIN stack' : SplitOK(stack'[l]),
           Nesting(stack', entries', Len(pool'), free_lists', pd')
    PROVE  NestInv'
<1>1. KindsOnce'
  BY NestedKinds DEF KindsOnce
<1> QED BY <1>1 DEF NestInv

LEMMA BeginsNests ==
    ASSUME TypeInv, NestInv, (\E pages \in Requests : alloc_pages(pages)) \/ AllocUserTable
    PROVE  NestInv'
<1>1. PICK f \in {NewCall("call", pages) : pages \in Requests} \cup {NewCall("user_table", 1)} :
        Running /\ stack = <<>> /\ stack' = <<f>> /\ UNCHANGED <<pool, entries>>
  BY DEF alloc_pages, AllocUserTable, poolVars, entryVars
<1>2. f \in Activation
  <2>1. \A pages \in Requests : NewCall("call", pages) \in Activation
    <3> SUFFICES ASSUME NEW pages \in Requests PROVE NewCall("call", pages) \in Activation
      OBVIOUS
    <3>1. "call" \in Kinds /\ pages \in Nat /\ pages > 0
      BY PoolAssumption DEF Kinds
    <3> QED BY <3>1, NewCallOK
  <2>2. NewCall("user_table", 1) \in Activation
    BY OnePage
  <2> QED BY <2>1, <2>2
<1>3. f.pc = "alloc" /\ Caller(f)
  BY DEF NewCall, Caller
<1>4. stack' \in Seq(Activation) /\ Len(stack') = 1 /\ stack'[1] = f /\ DOMAIN stack' = {1}
  BY <1>1, <1>2
<1>5. EntriesFull(entries') /\ PagesFull(f, Len(pool'))
  BY <1>1, <1>3, ShapeOf DEF Idle, PagesFull
<1>6. Calling(stack', entries', Len(pool'))
  BY <1>3, <1>4, <1>5 DEF Calling
<1>7. Nesting(stack', entries', Len(pool'), free_lists', pd')
  BY <1>6 DEF Nesting
<1>8. \A l \in DOMAIN stack' : SplitOK(stack'[l])
  BY <1>3, <1>4 DEF SplitOK
<1> QED BY <1>4, <1>7, <1>8, NewNesting

\* A refill that begins.
LEMMA NewRefill ==
    /\ LET f == NewCall("page_pool", PAGE_POOL_THRESHOLD)
       IN  /\ f \in Activation /\ f.pc = "alloc" /\ f.kind = "page_pool" /\ f.order = 0
           /\ \A n \in Int : \A d : Slack(f, n, d) = n - 2
    /\ LET f == NewCall("entry_pool", 1)
       IN  /\ f \in Activation /\ f.pc = "alloc" /\ f.kind = "entry_pool" /\ f.order = 0 /\ MissingOf(f) = 1
           /\ \A n \in Int : \A d : Slack(f, n, d) = n - 1
<1>1. LET f == NewCall("page_pool", PAGE_POOL_THRESHOLD)
      IN  /\ f \in Activation /\ f.pc = "alloc" /\ f.kind = "page_pool" /\ f.order = 0
          /\ f.pages = PAGE_POOL_THRESHOLD
  <2>1. "page_pool" \in Kinds /\ PAGE_POOL_THRESHOLD \in Nat /\ PAGE_POOL_THRESHOLD > 0
    BY PoolAssumption DEF Kinds
  <2>2. NewCall("page_pool", PAGE_POOL_THRESHOLD) \in Activation
    BY <2>1, NewCallOK
  <2> QED BY <2>2 DEF NewCall
<1>2. LET f == NewCall("entry_pool", 1)
      IN  /\ f \in Activation /\ f.pc = "alloc" /\ f.kind = "entry_pool" /\ f.order = 0 /\ f.pages = 1
          /\ f.ends = <<>>
  <2>1. NewCall("entry_pool", 1) \in Activation
    BY OnePage
  <2> QED BY <2>1 DEF NewCall
<1>3. PAGE_POOL_THRESHOLD # 1
  BY ThresholdAssumption, PoolAssumption
<1>4. ASSUME NEW f, f.pc = "alloc", NEW n \in Int, NEW d
      PROVE  Slack(f, n, d) = IF f.pages = 1 THEN n - 1 ELSE n - 2
  BY <1>4 DEF Slack, Put, TablesLeft
<1>5. ASSUME NEW f, f.pages = 1, f.ends = <<>> PROVE MissingOf(f) = 1
  BY <1>5 DEF MissingOf
<1> QED BY <1>1, <1>2, <1>3, <1>4, <1>5

LEMMA RefillPagePoolNests ==
    ASSUME TypeInv, PoolCounts, NestInv, RefillPagePool
    PROVE  NestInv'
<1> DEFINE g == [Top EXCEPT !.pc = "install"]
<1> DEFINE s == [stack EXCEPT ![Len(stack)] = g]
<1> DEFINE f == NewCall("page_pool", PAGE_POOL_THRESHOLD)
<1> DEFINE m == Len(stack)
<1> DEFINE n == Len(pool)
<1>1. /\ stack # <<>> /\ Running /\ Top.pc = "map" /\ Top.i < Top.pages /\ pd[TableOf(Page)] = NoTable
      /\ count <= PAGE_POOL_THRESHOLD /\ UNCHANGED <<pool, entries, free_lists, pd, kernel>>
  BY DEF RefillPagePool, TableMissing, At, entryVars, tableVars
<1>2. stack' = Append(s, f)
  BY DEF RefillPagePool, Top, Last
<1>3. /\ Top \in Activation /\ stack \in Seq(Activation) /\ Top = stack[m] /\ m \in Nat \ {0} /\ m \in DOMAIN stack
      /\ n \in Nat /\ n \in Int /\ entries \in Nat /\ DOMAIN stack = 1 .. m
  BY <1>1, TopIs DEF TypeInv, TypeOK
<1>4. g \in Activation /\ g.pc = "install" /\ g.kind = Top.kind
  BY <1>3 DEF Activation
<1>5. /\ f \in Activation /\ f.pc = "alloc" /\ f.kind = "page_pool" /\ f.order = 0 /\ Slack(f, n, pd) = n - 2
  BY <1>3, NewRefill
<1> HIDE DEF f, g
<1>6. /\ s \in Seq(Activation) /\ Len(s) = m /\ s[m] = g /\ \A l \in 1 .. m - 1 : s[l] = stack[l]
  BY <1>1, <1>3, <1>4, LastReplaced
<1> HIDE DEF s
<1>7. /\ stack' \in Seq(Activation) /\ Len(stack') = m + 1 /\ DOMAIN stack' = 1 .. m + 1
      /\ stack'[m + 1] = f /\ stack'[m] = g /\ \A l \in 1 .. m - 1 : stack'[l] = stack[l]
  <2>1. stack' \in Seq(Activation) /\ Len(stack') = m + 1 /\ stack'[m + 1] = f /\ \A l \in 1 .. m : stack'[l] = s[l]
    BY <1>2, <1>5, <1>6, OneMore
  <2>2. m \in 1 .. m /\ \A l \in 1 .. m - 1 : l \in 1 .. m
    BY <1>3
  <2> QED BY <1>6, <2>1, <2>2
<1>8. \A l \in DOMAIN stack' : SplitOK(stack'[l])
  <2>1. \A l \in 1 .. m + 1 : l = m + 1 \/ l = m \/ l \in 1 .. m - 1
    <3> HIDE DEF m
    <3> QED BY <1>3
  <2>2. SplitOK(f) /\ SplitOK(g)
    BY <1>4, <1>5 DEF SplitOK
  <2>3. \A l \in 1 .. m - 1 : SplitOK(stack[l])
    <3>1. \A l \in 1 .. m - 1 : l \in DOMAIN stack
      BY <1>3
    <3> QED BY <3>1 DEF NestInv
  <2> QED BY <1>7, <2>1, <2>2, <2>3
<1>9. Put(Top) = 0
  BY <1>1 DEF Put
<1> HIDE DEF m, n
<1>10. ASSUME Calling(stack, entries, n)
       PROVE  Nesting(stack', entries', Len(pool'), free_lists', pd')
  <2>1. m = 1 /\ Caller(Top) /\ EntriesFull(entries) /\ n >= PAGE_POOL_THRESHOLD
    BY <1>3, <1>10 DEF Calling, PagesFull, m
  <2>2. Slack(f, n, pd) >= 2
    BY <1>3, <1>5, <2>1, ThresholdAssumption, PoolAssumption
  <2>3. PageRefillOK(f, entries, n, free_lists, pd)
    BY <2>2 DEF PageRefillOK
  <2>4. Len(stack') = 2 /\ stack'[1] = g /\ stack'[2] = f
    BY <1>7, <2>1
  <2>5. InPageRefill(stack', entries, n, free_lists, pd)
    BY <1>4, <1>5, <2>1, <2>3, <2>4 DEF InPageRefill, Caller
  <2>6. InPageRefill(stack', entries', Len(pool'), free_lists', pd')
    BY <1>1, <2>5 DEF n
  <2> QED BY <2>6 DEF Nesting
<1>11. ASSUME InEntryRefill(stack, entries, n, free_lists, pd)
       PROVE  Nesting(stack', entries', Len(pool'), free_lists', pd')
  <2>1. /\ m = 2 /\ Caller(stack[1]) /\ Top.kind = "entry_pool" /\ stack[1].pc \in {"split", "take"}
        /\ n >= PAGE_POOL_THRESHOLD /\ EntryRefillOK(Top, entries, free_lists, pd)
    BY <1>3, <1>11 DEF InEntryRefill, PagesFull, m
  <2>2. Ready(entries, free_lists)
    BY <1>1, <2>1 DEF EntryRefillOK, Page
  <2>3. PICK h \in Orders : entries >= PAGE_POOL_THRESHOLD + Largest - h /\ \A q \in 0 .. h - 1 : free_lists[q] > 0
    BY <2>2 DEF Ready
  <2>4. Budget(f, entries, free_lists)
    <3>1. entries \in Int
      BY <1>3
    <3> QED BY <1>5, <2>3, <3>1, FirstBudget
  <2>5. Slack(f, n, pd) >= 1
    BY <1>3, <1>5, <2>1, ThresholdAssumption, PoolAssumption
  <2>6. Len(stack') = 3 /\ stack'[1] = stack[1] /\ stack'[2] = g /\ stack'[3] = f
    BY <1>7, <2>1
  <2>7. PageInEntry(stack', entries, n, free_lists, pd)
    BY <1>4, <1>5, <2>1, <2>4, <2>5, <2>6 DEF PageInEntry
  <2>8. PageInEntry(stack', entries', Len(pool'), free_lists', pd')
    BY <1>1, <2>7 DEF n
  <2> QED BY <2>8 DEF Nesting
<1>12. ASSUME NEW k \in DOMAIN stack, stack[k].kind = "page_pool", n > Put(stack[k]), Put(stack[k]) \in Nat PROVE FALSE
  <2>1. count >= n + PAGE_POOL_THRESHOLD - Put(stack[k])
    BY <1>12, PromisedPages DEF n
  <2>2. count \in Nat
    BY DEF TypeInv, TypeOK
  <2> QED BY <1>1, <1>3, <1>12, <2>1, <2>2, PoolAssumption
<1>13. TablesLeft(Top, pd) \in Nat
  BY <1>3, SlackInt
<1>14. ASSUME Slack(Top, n, pd) >= 1, Top.kind = "page_pool" PROVE FALSE
  <2>1. n > Put(Top) /\ Put(Top) \in Nat
    BY <1>3, <1>9, <1>13, <1>14 DEF Slack
  <2> QED BY <1>3, <1>12, <1>14, <2>1
<1>15. ASSUME InPageRefill(stack, entries, n, free_lists, pd) PROVE FALSE
  <2>1. Top.kind = "page_pool" /\ (Slack(Top, n, pd) >= 2 \/ Slack(Top, n, pd) >= 1)
    BY <1>3, <1>15 DEF InPageRefill, PageRefillOK, m
  <2> QED BY <1>3, <1>14, <2>1, SlackInt
<1>16. ASSUME PageInEntry(stack, entries, n, free_lists, pd) PROVE FALSE
  <2>1. Top.kind = "page_pool" /\ Slack(Top, n, pd) >= 1
    BY <1>3, <1>16 DEF PageInEntry, m
  <2> QED BY <1>14, <2>1
<1>17. ASSUME EntryInPage(stack, entries, n, free_lists, pd) PROVE FALSE
  <2>1. /\ m = 3 /\ stack[2].kind = "page_pool" /\ Slack(Top, n, pd) >= Put(stack[2]) + TablesLeft(stack[2], pd) + 1
    BY <1>3, <1>17 DEF EntryInPage, m
  <2>2. 2 \in DOMAIN stack /\ stack[2] \in Activation
    BY <1>3, <2>1
  <2>3. Put(stack[2]) \in Nat /\ TablesLeft(stack[2], pd) \in Nat
    BY <1>3, <2>2, SlackInt
  <2>4. n > Put(stack[2])
    BY <1>3, <1>9, <1>13, <2>1, <2>3 DEF Slack
  <2> QED BY <1>12, <2>1, <2>2, <2>3, <2>4
<1>18. Nesting(stack', entries', Len(pool'), free_lists', pd')
  BY <1>1, <1>10, <1>11, <1>15, <1>16, <1>17, ShapeOf DEF n
<1> QED BY <1>7, <1>8, <1>18, NewNesting

LEMMA RefillEntryPoolNests ==
    ASSUME TypeInv, PoolCounts, NestInv, RefillEntryPool
    PROVE  NestInv'
<1> DEFINE f == NewCall("entry_pool", 1)
<1> DEFINE m == Len(stack)
<1> DEFINE n == Len(pool)
<1>1. /\ TakesEntry /\ entry_count < ENTRY_THRESHOLD /\ stack' = Append(stack, f)
      /\ UNCHANGED <<pool, entries, free_lists, pd, kernel>>
  BY DEF RefillEntryPool, tableVars, poolVars
<1>2. stack # <<>> /\ Running /\ Top.pc \in {"split", "take", "populate"} /\ (Top.pc = "populate" => Top.i < Top.pages)
  BY <1>1 DEF TakesEntry, At
<1>3. /\ Top \in Activation /\ RecordOK(Top) /\ stack \in Seq(Activation) /\ Top = stack[m] /\ m \in Nat \ {0}
      /\ m \in DOMAIN stack /\ DOMAIN stack = 1 .. m /\ n \in Nat /\ n \in Int /\ entries \in Nat
  BY <1>2, TopIs DEF TypeInv, TypeOK
<1>4. /\ f \in Activation /\ f.pc = "alloc" /\ f.kind = "entry_pool" /\ f.order = 0 /\ MissingOf(f) = 1
      /\ Slack(f, n, pd) = n - 1
  BY <1>3, NewRefill
<1> HIDE DEF f
<1>5. /\ stack' \in Seq(Activation) /\ Len(stack') = m + 1 /\ DOMAIN stack' = 1 .. m + 1
      /\ stack'[m + 1] = f /\ \A l \in 1 .. m : stack'[l] = stack[l]
  <2>1. stack' \in Seq(Activation) /\ Len(stack') = m + 1 /\ stack'[m + 1] = f /\ \A l \in 1 .. m : stack'[l] = stack[l]
    BY <1>1, <1>3, <1>4, OneMore
  <2> QED BY <2>1
<1>6. \A l \in DOMAIN stack' : SplitOK(stack'[l])
  <2>1. \A l \in 1 .. m + 1 : l = m + 1 \/ l \in 1 .. m
    BY <1>3
  <2>2. SplitOK(f)
    BY <1>4 DEF SplitOK
  <2>3. \A l \in 1 .. m : SplitOK(stack[l])
    BY <1>3 DEF NestInv
  <2> QED BY <1>5, <2>1, <2>2, <2>3
<1> HIDE DEF m, n
<1>7. EntriesFull(entries) => EntryRefillOK(f, entries, free_lists, pd)
  BY <1>3, <1>4, EntryBegins DEF EntriesFull
<1>8. ASSUME Calling(stack, entries, n)
      PROVE  Nesting(stack', entries', Len(pool'), free_lists', pd')
  <2>1. m = 1 /\ Caller(Top) /\ EntriesFull(entries) /\ n >= PAGE_POOL_THRESHOLD
    BY <1>3, <1>8 DEF Calling, PagesFull, m
  <2>2. Top.pc \in {"split", "take"}
    BY <1>2, <1>3, <2>1 DEF RecordOK, Caller
  <2>3. Len(stack') = 2 /\ stack'[1] = Top /\ stack'[2] = f
    BY <1>3, <1>5, <2>1
  <2>4. PagesFull(f, n)
    BY <1>4, <2>1 DEF PagesFull
  <2>5. InEntryRefill(stack', entries, n, free_lists, pd)
    BY <1>4, <1>7, <2>1, <2>2, <2>3, <2>4 DEF InEntryRefill
  <2>6. InEntryRefill(stack', entries', Len(pool'), free_lists', pd')
    BY <1>1, <2>5 DEF n
  <2> QED BY <2>6 DEF Nesting
<1>9. ASSUME InPageRefill(stack, entries, n, free_lists, pd)
      PROVE  Nesting(stack', entries', Len(pool'), free_lists', pd')
  <2>1. /\ m = 2 /\ Caller(stack[1]) /\ Top.kind = "page_pool" /\ stack[1].pc = "install"
        /\ EntriesFull(entries) /\ PageRefillOK(Top, entries, n, free_lists, pd)
    BY <1>3, <1>9 DEF InPageRefill, m
  <2>2. Top.pc \in {"split", "populate"}
    BY <1>2, <1>3, <2>1 DEF RecordOK
  <2>3. NoEntryRefill
    <3>1. \A l \in 1 .. 2 : l = 1 \/ l = 2
      OBVIOUS
    <3> QED BY <1>3, <2>1, <3>1 DEF NoEntryRefill, Caller
  <2>4. entries < ENTRY_THRESHOLD
    BY <1>1, <2>3, PlainEntries
  <2>5. Slack(Top, n, pd) >= 2
    <3> SUFFICES ASSUME Budget(Top, entries - ENTRY_THRESHOLD, free_lists) PROVE FALSE
      BY <2>1 DEF PageRefillOK
    <3> DEFINE b == entries - ENTRY_THRESHOLD
    <3>1. b \in Int /\ ~(b > 0)
      BY <1>3, <2>4, PoolAssumption
    <3>2. Budget(Top, b, free_lists)
      OBVIOUS
    <3> HIDE DEF b
    <3>3. Top.order \in Orders /\ Top.i \in Nat /\ MissingOf(Top) \in Nat
      BY <1>3, MissingOfIs
    <3>4. Top.pc = "split" => MissingOf(Top) \in Nat \ {0} /\ Top.order > OrderOf(Top)
      <4>1. SplitOK(Top)
        BY <1>3 DEF NestInv
      <4> QED BY <3>3, <4>1 DEF SplitOK
    <3>5. Top.pc = "populate" => Top.i < PAGE_POOL_THRESHOLD
      BY <1>2, <1>3, <2>1 DEF RecordOK
    <3>6. b > 0
      BY <2>2, <3>1, <3>2, <3>3, <3>4, <3>5, BudgetLeft
    <3> QED BY <3>1, <3>6
  <2>6. Len(stack') = 3 /\ stack'[1] = stack[1] /\ stack'[2] = Top /\ stack'[3] = f
    BY <1>3, <1>5, <2>1
  <2>7. Slack(f, n, pd) >= Put(Top) + TablesLeft(Top, pd) + 1
    <3>1. Put(Top) \in Nat /\ TablesLeft(Top, pd) \in Nat
      BY <1>3, SlackInt
    <3> QED BY <1>3, <1>4, <2>5, <3>1 DEF Slack
  <2>8. EntryInPage(stack', entries, n, free_lists, pd)
    BY <1>4, <1>7, <2>1, <2>2, <2>6, <2>7 DEF EntryInPage
  <2>9. EntryInPage(stack', entries', Len(pool'), free_lists', pd')
    BY <1>1, <2>8 DEF n
  <2> QED BY <2>9 DEF Nesting
<1>10. ASSUME NEW k \in DOMAIN stack, stack[k].kind = "entry_pool" PROVE FALSE
  BY <1>1, <1>3, <1>10, PromisedEntries, EntryTypes, PoolAssumption
<1>11. ASSUME \/ InEntryRefill(stack, entries, n, free_lists, pd) \/ EntryInPage(stack, entries, n, free_lists, pd)
              \/ PageInEntry(stack, entries, n, free_lists, pd)
       PROVE  FALSE
  <2>1. \/ Len(stack) = 2 /\ stack[2].kind = "entry_pool"
        \/ Len(stack) = 3 /\ (stack[2].kind = "entry_pool" \/ stack[3].kind = "entry_pool")
    BY <1>11 DEF InEntryRefill, EntryInPage, PageInEntry
  <2>2. DOMAIN stack = 1 .. Len(stack)
    BY <1>3
  <2> QED BY <1>10, <2>1, <2>2
<1>12. Nesting(stack', entries', Len(pool'), free_lists', pd')
  BY <1>2, <1>8, <1>9, <1>11, ShapeOf DEF n
<1> QED BY <1>5, <1>6, <1>12, NewNesting

-----------------------------------------------------------------------------
(* Calls and refills return.                                               *)

\* What is left on the stack.
LEMMA PopNests ==
    ASSUME TypeInv, NestInv, stack # <<>>, stack' = Front(stack)
    PROVE  /\ stack' \in Seq(Activation) /\ \A l \in DOMAIN stack' : SplitOK(stack'[l])
           /\ Len(stack') = Len(stack) - 1 /\ Top = stack[Len(stack)] /\ Len(stack) \in Nat
           /\ \A l \in 1 .. Len(stack) - 1 : stack'[l] = stack[l]
<1> DEFINE m == Len(stack)
<1>1. /\ stack' \in Seq(Activation) /\ Len(stack') = m - 1 /\ m \in Nat \ {0} /\ Top = stack[m]
      /\ \A l \in 1 .. m - 1 : stack'[l] = stack[l]
  BY PopStack DEF TypeInv
<1>2. DOMAIN stack' = 1 .. m - 1 /\ DOMAIN stack = 1 .. m
  BY <1>1 DEF TypeInv, TypeOK
<1> HIDE DEF m
<1>3. \A l \in 1 .. m - 1 : l \in DOMAIN stack
  BY <1>1, <1>2
<1>4. \A l \in DOMAIN stack' : SplitOK(stack'[l])
  BY <1>1, <1>2, <1>3 DEF NestInv
<1> QED BY <1>1, <1>4 DEF m

\* A call returns, and both pools are as they should be.
LEMMA CallerReturns ==
    ASSUME TypeInv, NestInv, Running, stack # <<>>, stack' = Front(stack), Caller(Top),
           UNCHANGED <<pool, pd, free_lists>>,
           NoEntryRefill /\ EntriesFull(entries) => EntriesFull(entries')
    PROVE  NestInv'
<1>1. /\ stack' \in Seq(Activation) /\ \A l \in DOMAIN stack' : SplitOK(stack'[l])
      /\ Len(stack') = Len(stack) - 1 /\ Top = stack[Len(stack)]
  BY PopNests
<1>2. Calling(stack, entries, Len(pool))
  BY <1>1, ShapeOf DEF Caller, InPageRefill, InEntryRefill, EntryInPage, PageInEntry
<1>3. Len(stack) = 1 /\ EntriesFull(entries) /\ Len(pool) >= PAGE_POOL_THRESHOLD
  BY <1>2 DEF Calling, PagesFull
<1>4. NoEntryRefill
  <2>1. DOMAIN stack = 1 .. 1
    BY <1>3 DEF TypeInv, TypeOK
  <2> QED BY <1>1, <1>3, <2>1 DEF NoEntryRefill, Caller
<1>5. stack' = <<>>
  BY <1>1, <1>3
<1>6. Idle(stack', entries', Len(pool'))
  BY <1>3, <1>4, <1>5 DEF Idle
<1>7. Nesting(stack', entries', Len(pool'), free_lists', pd')
  BY <1>6 DEF Nesting
<1> QED BY <1>1, <1>7, NewNesting

LEMMA CallReturnsNests == ASSUME TypeInv, PoolCounts, NestInv, CallReturns PROVE NestInv'
<1>1. /\ Running /\ stack # <<>> /\ stack' = Front(stack) /\ Top.kind = "call" /\ free_memory_entries(Len(Top.ends))
      /\ UNCHANGED <<pool, pd, free_lists>>
  BY DEF CallReturns, At, tableVars, poolVars
<1>2. Len(Top.ends) \in Nat
  BY <1>1, TopIs DEF Activation
<1>3. EntriesFull(entries) => EntriesFull(entries')
  BY <1>1, <1>2, EntryTypes, PoolAssumption DEF free_memory_entries, EntriesFull
<1>4. Caller(Top)
  BY <1>1 DEF Caller
<1> QED BY <1>1, <1>3, <1>4, CallerReturns

LEMMA UserTableKnownNests == ASSUME TypeInv, PoolCounts, NestInv, UserTableKnown PROVE NestInv'
<1>1. /\ Running /\ stack # <<>> /\ stack' = Front(stack) /\ Top.pc = "take" /\ get_memory_entry
      /\ UNCHANGED <<pool, pd, free_lists>>
  BY DEF UserTableKnown, At, poolVars
<1>2. Caller(Top)
  BY <1>1, TopIs DEF RecordOK, Caller
<1>3. NoEntryRefill => EntriesFull(entries')
  BY <1>1, TakenFull
<1> QED BY <1>1, <1>2, <1>3, CallerReturns

LEMMA PagePoolRefilledNests == ASSUME TypeInv, PoolCounts, NestInv, PagePoolRefilled PROVE NestInv'
<1> DEFINE m == Len(stack)
<1> DEFINE n == Len(pool)
<1>1. /\ Running /\ stack # <<>> /\ stack' = Front(stack) /\ Top.pc = "populate" /\ Top.ends = <<>>
      /\ UNCHANGED <<pool, pd, free_lists, entries>>
  BY DEF PagePoolRefilled, At, tableVars, poolVars, entryVars
<1>2. /\ stack' \in Seq(Activation) /\ \A l \in DOMAIN stack' : SplitOK(stack'[l])
      /\ Len(stack') = m - 1 /\ Top = stack[m] /\ m \in Nat
      /\ \A l \in 1 .. m - 1 : stack'[l] = stack[l]
  BY <1>1, PopNests
<1>3. Top.kind = "page_pool" /\ Put(Top) = PAGE_POOL_THRESHOLD /\ TablesLeft(Top, pd) = 0 /\ n \in Nat
  BY <1>1, TopIs DEF RecordOK, Put, TablesLeft, TypeInv, TypeOK
<1>4. Slack(Top, n, pd) = n - PAGE_POOL_THRESHOLD
  BY <1>3, PoolAssumption DEF Slack
<1> HIDE DEF m, n
<1>5. Slack(Top, n, pd) >= 1 => \A f : PagesFull(f, n)
  BY <1>3, <1>4, PoolAssumption DEF PagesFull
<1>6. ASSUME InPageRefill(stack, entries, n, free_lists, pd)
      PROVE  Nesting(stack', entries', Len(pool'), free_lists', pd')
  <2>1. m = 2 /\ Caller(stack[1]) /\ EntriesFull(entries) /\ Slack(Top, n, pd) >= 1
    <3>1. m = 2 /\ Caller(stack[1]) /\ EntriesFull(entries) /\ (Slack(Top, n, pd) >= 2 \/ Slack(Top, n, pd) >= 1)
      BY <1>2, <1>6 DEF InPageRefill, PageRefillOK, m
    <3> QED BY <1>3, <1>4, <3>1, PoolAssumption
  <2>2. Len(stack') = 1 /\ stack'[1] = stack[1]
    BY <1>2, <2>1
  <2>3. Calling(stack', entries, n)
    BY <1>5, <2>1, <2>2 DEF Calling
  <2>4. Calling(stack', entries', Len(pool'))
    BY <1>1, <2>3 DEF n
  <2> QED BY <2>4 DEF Nesting
<1>7. ASSUME PageInEntry(stack, entries, n, free_lists, pd)
      PROVE  Nesting(stack', entries', Len(pool'), free_lists', pd')
  <2>1. /\ m = 3 /\ Caller(stack[1]) /\ stack[2].kind = "entry_pool" /\ stack[1].pc \in {"split", "take"}
        /\ stack[2].pc = "install" /\ Slack(Top, n, pd) >= 1
    BY <1>2, <1>7 DEF PageInEntry, m
  <2>2. Len(stack') = 2 /\ stack'[1] = stack[1] /\ stack'[2] = stack[2]
    BY <1>2, <2>1
  <2>3. EntryRefillOK(stack[2], entries, free_lists, pd)
    BY <2>1 DEF EntryRefillOK
  <2>4. InEntryRefill(stack', entries, n, free_lists, pd)
    BY <1>5, <2>1, <2>2, <2>3 DEF InEntryRefill
  <2>5. InEntryRefill(stack', entries', Len(pool'), free_lists', pd')
    BY <1>1, <2>4 DEF n
  <2> QED BY <2>5 DEF Nesting
<1>8. \/ InPageRefill(stack, entries, n, free_lists, pd) \/ PageInEntry(stack, entries, n, free_lists, pd)
  BY <1>1, <1>2, <1>3, ShapeOf DEF Calling, InEntryRefill, EntryInPage, Caller, m, n
<1> QED BY <1>2, <1>6, <1>7, <1>8, NewNesting

LEMMA EntryPoolRefilledNests == ASSUME TypeInv, PoolCounts, NestInv, EntryPoolRefilled PROVE NestInv'
<1> DEFINE m == Len(stack)
<1> DEFINE n == Len(pool)
<1>1. /\ Running /\ stack # <<>> /\ stack' = Front(stack) /\ Top.pc = "map" /\ Top.kind = "entry_pool"
      /\ entries' = entries + Len(Top.ends) + PageEntries /\ UNCHANGED <<pool, pd, free_lists>>
  BY DEF EntryPoolRefilled, At, tableVars, poolVars
<1>2. /\ stack' \in Seq(Activation) /\ \A l \in DOMAIN stack' : SplitOK(stack'[l])
      /\ Len(stack') = m - 1 /\ Top = stack[m] /\ m \in Nat
      /\ \A l \in 1 .. m - 1 : stack'[l] = stack[l]
  BY <1>1, PopNests
<1>3. Top \in Activation /\ Len(Top.ends) \in Nat
  BY <1>1, TopIs DEF Activation
<1>4. n \in Nat /\ n \in Int /\ stack \in Seq(Activation) /\ DOMAIN stack = 1 .. m
      /\ \A l \in DOMAIN stack : RecordOK(stack[l]) /\ SplitOK(stack[l]) /\ stack[l] \in Activation
  BY DEF TypeInv, TypeOK, NestInv
<1>5. entries' \in Nat /\ entries' >= 2 * ENTRY_THRESHOLD
  BY <1>1, <1>3, EntryTypes, PoolAssumption
<1>6. EntriesFull(entries')
  BY <1>5, PoolAssumption DEF EntriesFull
<1> HIDE DEF m, n
<1>7. ASSUME InEntryRefill(stack, entries, n, free_lists, pd)
      PROVE  Nesting(stack', entries', Len(pool'), free_lists', pd')
  <2>1. m = 2 /\ Caller(stack[1]) /\ stack[1].pc \in {"split", "take"} /\ n >= PAGE_POOL_THRESHOLD
    BY <1>7 DEF InEntryRefill, PagesFull, m
  <2>2. Len(stack') = 1 /\ stack'[1] = stack[1]
    BY <1>2, <2>1
  <2>3. Calling(stack', entries', n)
    BY <1>6, <2>1, <2>2 DEF Calling, PagesFull
  <2>4. Calling(stack', entries', Len(pool'))
    BY <1>1, <2>3 DEF n
  <2> QED BY <2>4 DEF Nesting
<1>8. ASSUME EntryInPage(stack, entries, n, free_lists, pd)
      PROVE  Nesting(stack', entries', Len(pool'), free_lists', pd')
  <2> DEFINE f == stack[2]
  <2>1. /\ m = 3 /\ Caller(stack[1]) /\ f.kind = "page_pool" /\ stack[1].pc = "install" /\ f.pc \in {"split", "populate"}
        /\ Slack(Top, n, pd) >= Put(f) + TablesLeft(f, pd) + 1
    BY <1>2, <1>8 DEF EntryInPage, m
  <2>2. Len(stack') = 2 /\ stack'[1] = stack[1] /\ stack'[2] = f
    BY <1>2, <2>1
  <2>3. f \in Activation /\ RecordOK(f) /\ SplitOK(f)
    <3>1. 2 \in DOMAIN stack
      BY <1>4, <2>1
    <3> QED BY <1>4, <3>1
  <2>4. f.order \in Orders /\ f.i \in Nat /\ (f.pc = "split" => MissingOf(f) \in Nat \ {0})
    BY <2>3, MissingOfIs DEF SplitOK
  <2> DEFINE b == entries' - ENTRY_THRESHOLD
  <2>5. b \in Int /\ b >= PAGE_POOL_THRESHOLD + Largest
    <3> DEFINE e == entries'
    <3>1. e \in Nat /\ e >= 2 * ENTRY_THRESHOLD
      BY <1>5
    <3> HIDE DEF e
    <3>2. e - ENTRY_THRESHOLD \in Int /\ e - ENTRY_THRESHOLD >= PAGE_POOL_THRESHOLD + Largest
      BY <3>1, ThresholdAssumption, PoolAssumption, SizesAssumption DEF Largest
    <3> QED BY <3>2 DEF e
  <2> HIDE DEF b, f
  <2>6. Budget(f, b, free_lists)
    BY <2>1, <2>4, <2>5, FullBudget
  <2>7. Slack(f, n, pd) >= 1
    <3>1. Put(f) \in Nat /\ TablesLeft(f, pd) \in Nat /\ TablesLeft(Top, pd) \in Nat
      BY <1>3, <1>4, <2>3, SlackInt
    <3>2. Put(Top) = 0
      BY <1>1 DEF Put
    <3> QED BY <1>4, <2>1, <3>1, <3>2 DEF Slack
  <2>8. PageRefillOK(f, entries', n, free_lists, pd)
    BY <2>6, <2>7 DEF PageRefillOK, b
  <2>9. InPageRefill(stack', entries', n, free_lists, pd)
    BY <1>6, <2>1, <2>2, <2>8 DEF InPageRefill
  <2>10. InPageRefill(stack', entries', Len(pool'), free_lists', pd')
    BY <1>1, <2>9 DEF n
  <2> QED BY <2>10 DEF Nesting
<1>9. \/ InEntryRefill(stack, entries, n, free_lists, pd) \/ EntryInPage(stack, entries, n, free_lists, pd)
  BY <1>1, <1>2, ShapeOf DEF Calling, InPageRefill, PageInEntry, Caller, m, n
<1> QED BY <1>2, <1>7, <1>8, <1>9, NewNesting

\* The kernel stops, has stopped, or does nothing.
LEMMA StopNests ==
    ASSUME TypeInv, NestInv, NullEntry \/ OutOfAddressSpace \/ InstallFaults \/ Halted \/ UNCHANGED vars
    PROVE  NestInv'
<1>1. UNCHANGED stack
  BY DEF NullEntry, OutOfAddressSpace, Stop, InstallFaults, Halted, vars
<1>2. \/ kernel' \in {"page_fault", "out_of_address_space"}
      \/ UNCHANGED <<kernel, entries, pool, free_lists, pd>>
  BY DEF NullEntry, OutOfAddressSpace, Stop, InstallFaults, Halted, vars, tableVars, poolVars, entryVars
<1>3. (\A l \in DOMAIN stack' : SplitOK(stack'[l])) /\ KindsOnce'
  BY <1>1 DEF NestInv, KindsOnce
<1>4. CASE kernel' \in {"page_fault", "out_of_address_space"}
  BY <1>3, <1>4 DEF NestInv, Running
<1>5. CASE UNCHANGED <<kernel, entries, pool, free_lists, pd>>
  <2>1. Running' => Nesting(stack, entries, Len(pool), free_lists, pd)
    BY <1>5 DEF NestInv, Running
  <2>2. Running' => Nesting(stack', entries', Len(pool'), free_lists', pd')
    BY <1>1, <1>5, <2>1
  <2> QED BY <1>3, <2>2 DEF NestInv
<1> QED BY <1>2, <1>4, <1>5

LEMMA InitialNests == Init => NestInv
<1> SUFFICES ASSUME Init PROVE NestInv
  OBVIOUS
<1>1. stack = <<>> /\ DOMAIN stack = {}
  BY DEF Init
<1>2. EntriesFull(entries)
  BY PoolAssumption DEF Init, EntriesFull
<1>3. Len(pool) >= PAGE_POOL_THRESHOLD
  <2> DEFINE x == InitialPool
  <2>1. x \in Nat /\ x >= PAGE_POOL_THRESHOLD
    BY PoolAssumption DEF InitialPool
  <2>2. pool = [k \in 1 .. x |-> PoolEntry(x - k, x - k + 1)]
    BY DEF Init
  <2> HIDE DEF x
  <2>3. Len(pool) = x
    BY <2>1, <2>2
  <2> QED BY <2>1, <2>3
<1>4. Nesting(stack, entries, Len(pool), free_lists, pd)
  BY <1>1, <1>2, <1>3 DEF Nesting, Idle
<1> QED BY <1>1, <1>4 DEF NestInv, KindsOnce

\* Every step keeps the nesting as long as there is a block of the largest order.
LEMMA NestInvStep == PoolInv /\ NestInv /\ LargeBlockFree /\ [Next]_vars => NestInv'
<1> SUFFICES ASSUME PoolInv, NestInv, LargeBlockFree, [Next]_vars PROVE NestInv'
  OBVIOUS
<1>1. TypeInv /\ PoolCounts
  BY DEF PoolInv
<1>2. CASE (\E pages \in Requests : alloc_pages(pages)) \/ AllocUserTable
  BY <1>1, <1>2, BeginsNests
<1>3. CASE UnlinkBlock \/ SplitBlock \/ TakeBlock \/ TakeContiguous \/ StartMapping
  BY <1>1, <1>3, UnlinkBlockNests, SplitBlockNests, TakeBlockNests, TakeContiguousNests, StartMappingNests
<1>4. CASE MapPage \/ PoolSuffices \/ InstallTable \/ UserTableMapped
  BY <1>1, <1>4, MapPageNests, PoolSufficesNests, InstallTableNests, UserTableMappedNests
<1>5. CASE StartPopulating \/ AddToPool \/ FreeBlockEntry
  BY <1>1, <1>5, StartPopulatingNests, AddToPoolNests, FreeBlockEntryNests
<1>6. CASE RefillPagePool \/ RefillEntryPool
  BY <1>1, <1>6, RefillPagePoolNests, RefillEntryPoolNests
<1>7. CASE CallReturns \/ UserTableKnown \/ PagePoolRefilled \/ EntryPoolRefilled
  BY <1>1, <1>7, CallReturnsNests, UserTableKnownNests, PagePoolRefilledNests, EntryPoolRefilledNests
<1>8. CASE NullEntry \/ OutOfAddressSpace \/ InstallFaults \/ Halted \/ UNCHANGED vars
  BY <1>1, <1>8, StopNests
<1> QED BY <1>2, <1>3, <1>4, <1>5, <1>6, <1>7, <1>8 DEF Next, Step

\* A call or a refill that needs a page or an entry finds one.
LEMMA NestInvEnough == PoolInv /\ NestInv => RefillsDoNotNest
<1> SUFFICES ASSUME PoolInv, NestInv PROVE RefillsDoNotNest
  OBVIOUS
<1> DEFINE m == Len(stack)
<1> DEFINE n == Len(pool)
<1>1. TypeInv /\ PoolCounts
  BY DEF PoolInv
<1>2. \A l, k \in DOMAIN stack : stack[l].kind = stack[k].kind => l = k
  BY DEF NestInv, KindsOnce
<1>3. n \in Nat /\ n \in Int /\ pool \in Seq(MappingEntry) /\ entries \in Nat /\ entry_count \in Nat
      /\ stack \in Seq(Activation) /\ DOMAIN stack = 1 .. m /\ \A l \in 1 .. m : stack[l] \in Activation
  BY <1>1 DEF TypeInv, TypeOK
<1> HIDE DEF n, m
<1>4. ASSUME At("install") PROVE pool # <<>>
  <2>1. stack # <<>> /\ Running /\ Top \in Activation /\ Top = stack[m] /\ m \in Nat \ {0}
    BY <1>1, <1>4, TopIs DEF At, m
  <2>2. Slack(Top, n, pd) >= 1 => n >= 1
    <3>1. Put(Top) \in Nat /\ TablesLeft(Top, pd) \in 0 .. 2
      BY <1>3, <2>1, SlackInt
    <3> QED BY <1>3, <3>1 DEF Slack
  <2>3. Slack(Top, n, pd) \in Int
    BY <1>3, <2>1, SlackInt
  <2>4. ASSUME Calling(stack, entries, n) PROVE n >= 1
    BY <1>3, <2>4, PoolAssumption DEF Calling, PagesFull
  <2>5. ASSUME InEntryRefill(stack, entries, n, free_lists, pd) PROVE n >= 1
    BY <1>3, <2>5, PoolAssumption DEF InEntryRefill, PagesFull
  <2>6. ASSUME InPageRefill(stack, entries, n, free_lists, pd) PROVE n >= 1
    BY <2>1, <2>2, <2>3, <2>6 DEF InPageRefill, PageRefillOK, m
  <2>7. ASSUME PageInEntry(stack, entries, n, free_lists, pd) PROVE n >= 1
    BY <2>1, <2>2, <2>3, <2>7 DEF PageInEntry, m
  <2>8. ASSUME EntryInPage(stack, entries, n, free_lists, pd) PROVE n >= 1
    <3>1. m = 3 /\ Slack(Top, n, pd) >= Put(stack[2]) + TablesLeft(stack[2], pd) + 1
      BY <2>1, <2>8 DEF EntryInPage, m
    <3>2. stack[2] \in Activation
      BY <1>3, <3>1
    <3>3. Put(stack[2]) \in Nat /\ TablesLeft(stack[2], pd) \in 0 .. 2
      BY <1>3, <3>2, SlackInt
    <3> QED BY <2>2, <2>3, <3>1, <3>3
  <2>9. n >= 1
    BY <1>1, <1>3, <2>1, <2>2, <2>3, <2>4, <2>5, <2>6, <2>7, <2>8, ShapeOf DEF n
  <2> QED BY <2>9, <1>3 DEF n
<1>5. ASSUME TakesEntry, entry_count >= ENTRY_THRESHOLD PROVE entries > 0
  <2>1. stack # <<>> /\ Running /\ Top.pc \in {"split", "take", "populate"} /\ (Top.pc = "populate" => Top.i < Top.pages)
    BY <1>5 DEF TakesEntry, At
  <2>2. Top \in Activation /\ RecordOK(Top) /\ Top = stack[m] /\ m \in DOMAIN stack
    BY <1>1, <2>1, TopIs DEF m
  <2>3. Top.order \in Orders /\ Top.i \in Nat /\ MissingOf(Top) \in Nat /\ SplitOK(Top)
    BY <2>2, MissingOfIs DEF NestInv
  <2>4. ASSUME NoEntryRefill PROVE entries > 0
    BY <1>1, <1>3, <1>5, <2>4, PlainEntries, PoolAssumption
  <2>5. CASE Calling(stack, entries, n)
    <3>1. m = 1 /\ Caller(Top)
      BY <2>2, <2>5 DEF Calling, m
    <3> QED BY <1>3, <2>2, <2>4, <3>1 DEF NoEntryRefill, Caller
  <2>6. CASE InPageRefill(stack, entries, n, free_lists, pd)
    <3>1. m = 2 /\ Caller(stack[1]) /\ stack[2].kind = "page_pool"
      BY <2>6 DEF InPageRefill, m
    <3>2. \A l \in 1 .. 2 : l = 1 \/ l = 2
      OBVIOUS
    <3> QED BY <1>3, <2>4, <3>1, <3>2 DEF NoEntryRefill, Caller
  <2>7. CASE Top.kind = "entry_pool" /\ EntryRefillOK(Top, entries, free_lists, pd)
    <3>1. Top.pc = "split"
      BY <2>1, <2>2, <2>7 DEF RecordOK
    <3> QED BY <1>3, <2>3, <2>7, <3>1, EntryLeft
  <2>8. CASE Top.kind = "page_pool" /\ Budget(Top, entries, free_lists)
    <3>1. Top.pc \in {"split", "populate"} /\ Top.pages = PAGE_POOL_THRESHOLD
      BY <2>1, <2>2, <2>8 DEF RecordOK
    <3>2. Top.pc = "split" => MissingOf(Top) \in Nat \ {0} /\ Top.order > OrderOf(Top)
      BY <2>3 DEF SplitOK
    <3>3. entries \in Int
      BY <1>3
    <3> QED BY <2>1, <2>3, <2>8, <3>1, <3>2, <3>3, BudgetLeft
  <2>9. \/ Calling(stack, entries, n) \/ InPageRefill(stack, entries, n, free_lists, pd)
        \/ InEntryRefill(stack, entries, n, free_lists, pd) \/ EntryInPage(stack, entries, n, free_lists, pd)
        \/ PageInEntry(stack, entries, n, free_lists, pd)
    BY <1>1, <2>1, ShapeOf DEF n
  <2>10. /\ InEntryRefill(stack, entries, n, free_lists, pd) \/ EntryInPage(stack, entries, n, free_lists, pd) =>
              Top.kind = "entry_pool" /\ EntryRefillOK(Top, entries, free_lists, pd)
         /\ PageInEntry(stack, entries, n, free_lists, pd) => Top.kind = "page_pool" /\ Budget(Top, entries, free_lists)
    BY <2>2 DEF InEntryRefill, EntryInPage, PageInEntry, m
  <2> QED BY <2>5, <2>6, <2>7, <2>8, <2>9, <2>10
<1> QED BY <1>2, <1>4, <1>5 DEF RefillsDoNotNest

\* RefillsDoNotNest: as long as the frame allocator has a block of its largest
\* order, a refill of the page pool never starts another one, neither does a
\* refill of the entry pool ("avoid getting stuck in an infinite loop"), and
\* what is in the pools is enough for every table, every split and every page
\* put into the page pool, for all thresholds that ThresholdAssumption allows.
THEOREM RefillsNeverNest == Spec /\ []LargeBlockFree => []RefillsDoNotNest
<1>1. Init => PoolInv /\ NestInv
  BY InitialPoolInv, InitialNests
<1>2. PoolInv /\ NestInv /\ LargeBlockFree /\ [Next]_vars => PoolInv' /\ NestInv'
  BY PoolInvStep, NestInvStep
<1>3. PoolInv /\ NestInv => RefillsDoNotNest
  BY NestInvEnough
<1> QED BY <1>1, <1>2, <1>3, PTL DEF Spec
=============================================================================
