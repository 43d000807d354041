------------------------ MODULE FrameAllocatorProofs ------------------------
(***************************************************************************)
(* Theorems about the frame allocator, for every number of orders, every   *)
(* amount of memory, every memory map and every sequence of requests and   *)
(* refills: it keeps its types, fails only when there is nothing to give,  *)
(* never hands out a page twice and never loses one, its buddy bits are    *)
(* exact and its assertions hold.                                          *)
(***************************************************************************)
EXTENDS FrameAllocator, Lemmas, TLAPS

-----------------------------------------------------------------------------
(* Where the program counter of a call is restricts its local variables.   *)
(* TypeOK is not inductive without it: the size still to be allocated      *)
(* stays a natural number only because the order in hand fits into it, and *)
(* a split has an order below it only because the loop of alloc_frames     *)
(* ends when the list of the wanted order is not empty.                    *)

LocalsOK(f, lists) ==
    /\ f.op = "none" <=> f.pc = "none"
    /\ f.pc = "search" => f.op \in {"alloc", "contig", "remove"}
    /\ f.pc = "search" => f.order_to_alloc <= f.order
    /\ f.pc = "search" /\ f.op = "remove" => f.order \in Orders
    /\ f.pc = "search" /\ f.op # "remove" /\ f.order = f.order_to_alloc
           => lists[f.order] # <<>>
    /\ Splitting(f) => f.order \in Orders /\ f.order_to_alloc < f.order
    /\ f.pc = "search" /\ f.op \in {"alloc", "remove"} => Size(f.order_to_alloc) <= f.size
    /\ Splitting(f) /\ f.op \in {"alloc", "remove"} => Size(f.order_to_alloc) <= f.size
    /\ f.pc = "merge" => f.order \in Orders

\* Only a call that waits for a list entry can be suspended under another.
StackOK ==
    /\ depth = 0 => call[1] = NoFrame
    /\ depth < 2 => call[2] = NoFrame
    /\ depth = 2 => /\ call[1].pc = "got_entry"
                    /\ call[2].op \in {"alloc", "rollback"}
                    /\ call[2].pc # "got_entry"

ControlOK ==
    /\ TypeOK
    /\ StackOK
    /\ \A l \in {1, 2} : LocalsOK(call[l], g_free_lists)

-----------------------------------------------------------------------------
(* Facts about the constants, the records and the lists.                   *)

\* Doubling keeps the sizes positive and makes them grow, by induction on the
\* orders.
LEMMA SizesGrow ==
    ASSUME NEW p \in Orders
    PROVE  /\ Size(p) \in Nat \ {0}
           /\ \A q \in Orders : p <= q => Size(p) <= Size(q)
<1>1. \A o \in Orders : o \in Nat /\ o < FRAME_ORDERS
  BY OrdersAssumption DEF Orders
<1>2. /\ \A o \in Orders : Size(o) \in Nat
      /\ Size(0) = 1
      /\ \A o \in Orders : o # 0 => Size(o) = 2 * Size(o - 1)
  BY SizesAssumption DEF Size
<1>3. \A o \in Orders : o # 0 => o - 1 \in Orders
  BY OrdersAssumption DEF Orders
<1> DEFINE Positive == {n \in Nat : n \in Orders => Size(n) # 0}
<1>4. Nat \subseteq Positive
  <2>1. 0 \in Positive
    BY <1>2
  <2>2. ASSUME NEW n \in Nat, n \in Positive PROVE n + 1 \in Positive
    <3> SUFFICES ASSUME n + 1 \in Orders PROVE Size(n + 1) # 0
      OBVIOUS
    <3>1. n \in Orders /\ n + 1 # 0 /\ (n + 1) - 1 = n
      BY <1>3, n + 1 # 0, (n + 1) - 1 = n
    <3> QED BY <1>2, <2>2, <3>1
  <2> HIDE DEF Positive
  <2> QED BY <2>1, <2>2, NatSetInduction
<1> DEFINE Larger == {n \in Nat : p + n \in Orders => Size(p) <= Size(p + n)}
<1>5. Nat \subseteq Larger
  <2>1. 0 \in Larger
    BY <1>1, <1>2
  <2>2. ASSUME NEW n \in Nat, n \in Larger PROVE n + 1 \in Larger
    <3> SUFFICES ASSUME p + (n + 1) \in Orders PROVE Size(p) <= Size(p + (n + 1))
      OBVIOUS
    <3> DEFINE r == p + (n + 1)
    <3>1. r # 0 /\ r - 1 = p + n
      BY <1>1
    <3>2. p + n \in Orders /\ Size(r) = 2 * Size(p + n)
      BY <1>2, <1>3, <3>1
    <3> HIDE DEF r
    <3>3. Size(p) <= Size(p + n)
      BY <2>2, <3>2
    <3>4. Size(p) \in Nat /\ Size(p + n) \in Nat
      BY <1>2, <3>2
    <3>5. Size(p) <= Size(r)
      BY <3>2, <3>3, <3>4
    <3> QED BY <3>5 DEF r
  <2> HIDE DEF Larger
  <2> QED BY <2>1, <2>2, NatSetInduction
<1>6. ASSUME NEW q \in Orders, p <= q PROVE Size(p) <= Size(q)
  <2>1. q - p \in Nat /\ p + (q - p) = q
    BY <1>1, <1>6
  <2> QED BY <1>5, <2>1
<1> QED BY <1>1, <1>2, <1>4, <1>6

\* Every order has a positive size.
LEMMA SizePositive == \A o \in Orders : Size(o) \in Nat \ {0}
BY SizesGrow

\* A larger order has a larger size.
LEMMA SizesMonotone == \A p, q \in Orders : p <= q => Size(p) <= Size(q)
BY SizesGrow

\* The frame of a call that has just begun is well formed.
LEMMA NewFrameType ==
    ASSUME NEW op \in Ops, NEW pc \in Pcs, NEW pages \in Nat
    PROVE  NewFrame(op, pc, pages) \in Frame
BY OrdersAssumption DEF NewFrame, Frame, Orders, Block

\* No call at all is a frame that satisfies LocalsOK.
LEMMA NoFrameOK ==
    /\ NoFrame \in Frame
    /\ \A lists : LocalsOK(NoFrame, lists)
<1>1. NoFrame \in Frame
  BY NewFrameType DEF NoFrame, Ops, Pcs
<1>2. \A lists : LocalsOK(NoFrame, lists)
  BY DEF NoFrame, NewFrame, LocalsOK, Splitting
<1> QED BY <1>1, <1>2

\* A call that goes on with a frame that satisfies LocalsOK keeps the stack in
\* order: a suspended call does not depend on the lists.
LEMMA ContinueOK ==
    ASSUME ControlOK, depth > 0, NEW f \in Frame, Continue(f),
           LocalsOK(f, g_free_lists'),
           depth = 2 => f.op \in {"alloc", "rollback"} /\ f.pc # "got_entry"
    PROVE  /\ call' \in [{1, 2} -> Frame]
           /\ depth' \in 0 .. 2
           /\ StackOK'
           /\ \A l \in {1, 2} : LocalsOK(call'[l], g_free_lists')
<1>a. depth \in {1, 2}
  <2>1. depth \in 0 .. 2
    BY DEF ControlOK, TypeOK
  <2> QED BY <2>1
<1>1. depth \in {1, 2} /\ depth' = depth /\ call' = [call EXCEPT ![depth] = f]
  BY <1>a DEF Continue
<1>2. call \in [{1, 2} -> Frame]
  BY DEF ControlOK, TypeOK
<1>3. call' \in [{1, 2} -> Frame] /\ call'[depth] = f
  BY <1>1, <1>2
<1>4. CASE depth = 1
  <2>1. call'[2] = NoFrame
    BY <1>1, <1>2, <1>4 DEF ControlOK, StackOK
  <2> QED BY <1>1, <1>3, <1>4, <2>1, NoFrameOK DEF StackOK
<1>5. CASE depth = 2
  <2>1. call'[1] = call[1] /\ call[1].pc = "got_entry"
    BY <1>1, <1>2, <1>5 DEF ControlOK, StackOK
  <2>2. LocalsOK(call[1], g_free_lists)
    BY DEF ControlOK
  <2>3. LocalsOK(call'[1], g_free_lists')
    BY <2>1, <2>2 DEF LocalsOK
  <2> QED BY <1>1, <1>3, <1>5, <2>1, <2>3 DEF StackOK
<1> QED BY <1>1, <1>3, <1>4, <1>5

\* A call that returns leaves an empty stack.
LEMMA ReturnOK ==
    ASSUME ControlOK, Return
    PROVE  /\ call' \in [{1, 2} -> Frame]
           /\ depth' \in 0 .. 2
           /\ StackOK'
           /\ \A l \in {1, 2} : LocalsOK(call'[l], g_free_lists')
<1>1. call' = [call EXCEPT ![1] = NoFrame] /\ depth = 1 /\ depth' = 0
  BY DEF Return
<1>a. call \in [{1, 2} -> Frame]
  BY DEF ControlOK, TypeOK
<1>b. StackOK
  BY DEF ControlOK
<1>2. call \in [{1, 2} -> Frame] /\ call[2] = NoFrame
  BY <1>1, <1>a, <1>b DEF StackOK
<1>3. call'[1] = NoFrame /\ call'[2] = NoFrame /\ call' \in [{1, 2} -> Frame]
  BY <1>1, <1>2, NoFrameOK
<1> QED BY <1>1, <1>3, NoFrameOK DEF StackOK

\* A call that begins is the only one.
LEMMA CallOK ==
    ASSUME ControlOK, NEW f \in Frame, Call(f), LocalsOK(f, g_free_lists)
    PROVE  /\ call' \in [{1, 2} -> Frame]
           /\ depth' \in 0 .. 2
           /\ StackOK'
           /\ \A l \in {1, 2} : LocalsOK(call'[l], g_free_lists')
<1>1. /\ call' = [call EXCEPT ![1] = f] /\ depth = 0 /\ depth' = 1
      /\ g_free_lists' = g_free_lists
  BY DEF Call, Idle, UnchangedLists
<1>a. call \in [{1, 2} -> Frame]
  BY DEF ControlOK, TypeOK
<1>b. StackOK
  BY DEF ControlOK
<1>2. call \in [{1, 2} -> Frame] /\ call[2] = NoFrame
  BY <1>1, <1>a, <1>b DEF StackOK
<1>3. call'[1] = f /\ call'[2] = NoFrame /\ call' \in [{1, 2} -> Frame]
  BY <1>1, <1>2, NoFrameOK
<1> QED BY <1>1, <1>3, NoFrameOK DEF StackOK

\* Toggling the bit of a block keeps the type of the buddy maps.
LEMMA ToggleType ==
    ASSUME NEW bm \in [0 .. FRAME_ORDERS - 2 -> SUBSET Nat], NEW a \in Nat, NEW o \in Orders
    PROVE  toggle_buddy_bit(bm, a, o) \in [0 .. FRAME_ORDERS - 2 -> SUBSET Nat]
<1>1. calc_buddy_index(a, o) \in Nat
  <2>1. a \div Size(o) \in Nat
    BY SizePositive
  <2> QED BY <2>1 DEF calc_buddy_index
<1>2. CASE o = TopOrder
  BY <1>2 DEF toggle_buddy_bit
<1>3. CASE o # TopOrder
  <2>1. SymDiff(bm[o], {calc_buddy_index(a, o)}) \in SUBSET Nat
    BY <1>1, <1>3, OrdersAssumption DEF SymDiff, Orders, TopOrder
  <2> QED BY <2>1, <1>3 DEF toggle_buddy_bit
<1> QED BY <1>2, <1>3

\* Taking the head of a list keeps the types of the lists and the maps.
LEMMA TakeHeadType ==
    ASSUME TypeOK, NEW o \in Orders, TakeHead(o)
    PROVE  /\ g_free_lists' \in [Orders -> Seq(Nat)]
           /\ buddy_map' \in [0 .. FRAME_ORDERS - 2 -> SUBSET Nat]
           /\ Head(g_free_lists[o]) \in Nat
<1>1. g_free_lists[o] \in Seq(Nat) /\ g_free_lists[o] # <<>>
  BY DEF TypeOK, TakeHead
<1>2. Head(g_free_lists[o]) \in Nat /\ Tail(g_free_lists[o]) \in Seq(Nat)
  BY <1>1
<1> QED BY <1>2, ToggleType DEF TypeOK, TakeHead

\* The frame of the running call.
LEMMA TopOK ==
    ASSUME ControlOK, depth > 0
    PROVE  /\ Top \in Frame
           /\ LocalsOK(Top, g_free_lists)
           /\ depth = 2 => Top.op \in {"alloc", "rollback"} /\ Top.pc # "got_entry"
<1>1. depth \in 0 .. 2 /\ call \in [{1, 2} -> Frame]
  BY DEF ControlOK, TypeOK
<1>2. depth \in {1, 2}
  BY <1>1
<1>3. StackOK /\ \A l \in {1, 2} : LocalsOK(call[l], g_free_lists)
  BY DEF ControlOK
<1> QED BY <1>1, <1>2, <1>3 DEF Top, StackOK

-----------------------------------------------------------------------------
(* Every action preserves ControlOK.                                       *)

\* Steps that touch neither the lists nor the owners.
LEMMA QuietStep ==
    ASSUME ControlOK, UnchangedLists, UnchangedOwners,
           /\ call' \in [{1, 2} -> Frame]
           /\ depth' \in 0 .. 2
           /\ StackOK'
           /\ \A l \in {1, 2} : LocalsOK(call'[l], g_free_lists')
    PROVE  ControlOK'
BY DEF ControlOK, TypeOK, UnchangedLists, UnchangedOwners

\* The order picked fits into the size that is still to be allocated.
LEMMA PickOrderOK == ASSUME ControlOK, PickOrder PROVE ControlOK'
<1>1. Top \in Frame /\ depth > 0 /\ Top.op = "alloc" /\ Top.pc = "pick"
  BY TopOK DEF PickOrder, At
<1>2. PICK o \in Orders : LargestFit(o, Top.size) /\
          Continue([Top EXCEPT !.pc = "search", !.order_to_alloc = o, !.order = o + 1])
  BY DEF PickOrder
<1> DEFINE f == [Top EXCEPT !.pc = "search", !.order_to_alloc = o, !.order = o + 1]
<1>3. f \in Frame /\ f.op = "alloc" /\ f.pc = "search"
  <2>1. o + 1 \in 0 .. FRAME_ORDERS /\ "search" \in Pcs
    BY OrdersAssumption DEF Orders, Pcs
  <2> QED BY <1>1, <2>1 DEF Frame
<1>4. LocalsOK(f, g_free_lists')
  BY <1>1, <1>2, OrdersAssumption DEF Frame, Orders, LocalsOK, Splitting, LargestFit
<1>5. UnchangedLists /\ UnchangedOwners
  BY DEF PickOrder
<1> HIDE DEF f
<1> QED BY <1>1, <1>2, <1>3, <1>4, <1>5, ContinueOK, QuietStep DEF f

\* The search goes one order up and stays within the lists.
LEMMA SearchHigherOK == ASSUME ControlOK, SearchHigher PROVE ControlOK'
<1>1. /\ Top \in Frame /\ LocalsOK(Top, g_free_lists)
      /\ depth > 0 /\ Top.op = "alloc" /\ Top.pc = "search"
      /\ Top.order < TopOrder
  BY TopOK DEF SearchHigher, At
<1> DEFINE f == [Top EXCEPT !.order = @ + 1]
<1>3. f \in Frame /\ f.op = "alloc" /\ f.pc = "search"
  BY <1>1, OrdersAssumption DEF Frame, Orders, TopOrder
<1>4. LocalsOK(f, g_free_lists')
  BY <1>1, OrdersAssumption DEF Frame, Orders, LocalsOK, Splitting
<1>5. UnchangedLists /\ UnchangedOwners /\ Continue(f)
  BY DEF SearchHigher
<1> HIDE DEF f
<1> QED BY <1>1, <1>3, <1>4, <1>5, ContinueOK, QuietStep

\* A smaller order fits where a larger one did: the sizes are monotone.
LEMMA UseSmallerOK == ASSUME ControlOK, UseSmaller PROVE ControlOK'
<1>1. /\ Top \in Frame /\ LocalsOK(Top, g_free_lists)
      /\ depth > 0 /\ Top.op = "alloc" /\ Top.pc = "search"
  BY TopOK DEF UseSmaller, At
<1>2. PICK o \in Orders : o < Top.order_to_alloc /\ Continue([Top EXCEPT !.order_to_alloc = o])
  BY DEF UseSmaller
<1> DEFINE f == [Top EXCEPT !.order_to_alloc = o]
<1>3. f \in Frame /\ f.op = "alloc" /\ f.pc = "search"
  BY <1>1 DEF Frame
<1>4. LocalsOK(f, g_free_lists')
  <2>1. Size(o) <= Size(Top.order_to_alloc) /\ Size(Top.order_to_alloc) <= Top.size
    BY <1>1, <1>2, SizesMonotone DEF Frame, Orders, LocalsOK, Size
  <2>2. Size(o) <= f.size
    BY <1>1, <2>1, SizePositive DEF Frame
  <2> QED BY <1>1, <1>2, <2>2, OrdersAssumption DEF Frame, Orders, LocalsOK, Splitting
<1>5. UnchangedLists /\ UnchangedOwners
  BY DEF UseSmaller
<1> HIDE DEF f
<1> QED BY <1>1, <1>2, <1>3, <1>4, <1>5, ContinueOK, QuietStep DEF f

\* Giving up turns the allocation into the return of what it has.
LEMMA GiveUpOK == ASSUME ControlOK, GiveUp PROVE ControlOK'
<1>1. /\ Top \in Frame /\ depth > 0
  BY TopOK DEF GiveUp, At
<1> DEFINE f == [Top EXCEPT !.op = "rollback", !.pc = "free"]
<1>3. f \in Frame /\ f.op = "rollback" /\ f.pc = "free"
  BY <1>1 DEF Frame, Ops, Pcs
<1>4. LocalsOK(f, g_free_lists')
  BY <1>3 DEF LocalsOK, Splitting
<1>5. UnchangedLists /\ UnchangedOwners /\ Continue(f)
  BY DEF GiveUp
<1> HIDE DEF f
<1> QED BY <1>1, <1>3, <1>4, <1>5, ContinueOK, QuietStep

\* A block taken fits into the size left, which stays a natural number.
LEMMA TakeBlockOK == ASSUME ControlOK, TakeBlock PROVE ControlOK'
<1> DEFINE o == Top.order_to_alloc
<1> DEFINE a == Head(g_free_lists[o])
<1>1. /\ Top \in Frame /\ LocalsOK(Top, g_free_lists)
      /\ depth > 0 /\ Top.op = "alloc" /\ Top.pc = "search"
  BY TopOK DEF TakeBlock, At
<1>2. o \in Orders /\ TypeOK
  BY <1>1 DEF Frame, ControlOK
<1> DEFINE f == [Top EXCEPT !.pc = "pick", !.chain = Append(@, <<a, o>>),
                            !.size = Remaining(@, o)]
<1>3. TakeHead(o) /\ Continue(f) /\ UnchangedOwners
  BY DEF TakeBlock
<1>4. /\ g_free_lists' \in [Orders -> Seq(Nat)]
      /\ buddy_map' \in [0 .. FRAME_ORDERS - 2 -> SUBSET Nat]
      /\ a \in Nat
  BY <1>2, <1>3, TakeHeadType
<1>5. Remaining(Top.size, o) \in Nat
  BY <1>1, <1>2, SizePositive DEF LocalsOK, Frame, Remaining
<1>6. Append(Top.chain, <<a, o>>) \in Seq(Block)
  BY <1>1, <1>2, <1>4 DEF Frame, Block
<1>7. f \in Frame /\ f.op = "alloc" /\ f.pc = "pick"
  BY <1>1, <1>5, <1>6 DEF Frame, Pcs
<1>8. LocalsOK(f, g_free_lists')
  BY <1>7 DEF LocalsOK, Splitting
<1> HIDE DEF f
<1>9. /\ call' \in [{1, 2} -> Frame]
      /\ depth' \in 0 .. 2
      /\ StackOK'
      /\ \A l \in {1, 2} : LocalsOK(call'[l], g_free_lists')
  BY <1>1, <1>3, <1>7, <1>8, ContinueOK
<1> QED BY <1>2, <1>3, <1>4, <1>9 DEF ControlOK, TypeOK, UnchangedOwners

\* A split begins above the wanted order, so there is an order below it.
LEMMA SplitBeginOK == ASSUME ControlOK, SplitBegin PROVE ControlOK'
<1> DEFINE o == SplitOrder
<1> DEFINE a == Head(g_free_lists[o])
<1>1. /\ Top \in Frame /\ LocalsOK(Top, g_free_lists)
      /\ depth > 0 /\ Top.op \in {"alloc", "contig"} /\ Top.pc = "search"
      /\ depth = 2 => Top.op \in {"alloc", "rollback"}
      /\ NoneFree /\ Top.order < FRAME_ORDERS /\ o < FRAME_ORDERS
  BY TopOK DEF SplitBegin, At
<1>2. Top.order_to_alloc < Top.order
  BY <1>1 DEF LocalsOK, NoneFree, Frame, Orders
<1>3. o \in Orders /\ Top.order_to_alloc < o /\ TypeOK
  BY <1>1, <1>2, OrdersAssumption DEF SplitOrder, Frame, Orders, ControlOK
<1> DEFINE f == [Top EXCEPT !.pc = "get_entry", !.order = o, !.entry = a]
<1>4. TakeHead(o) /\ Continue(f) /\ UnchangedOwners
  BY DEF SplitBegin
<1>5. /\ g_free_lists' \in [Orders -> Seq(Nat)]
      /\ buddy_map' \in [0 .. FRAME_ORDERS - 2 -> SUBSET Nat]
      /\ a \in Nat
  BY <1>3, <1>4, TakeHeadType
<1>6. f \in Frame /\ f.op = Top.op /\ f.pc = "get_entry"
  <2> HIDE DEF o
  <2>1. o \in 0 .. FRAME_ORDERS /\ "get_entry" \in Pcs
    BY <1>3, OrdersAssumption DEF Orders, Pcs
  <2> QED BY <1>1, <1>5, <2>1 DEF Frame
<1>7. LocalsOK(f, g_free_lists')
  BY <1>1, <1>3 DEF LocalsOK, Splitting, Frame
<1> HIDE DEF f, o
<1>8. /\ call' \in [{1, 2} -> Frame]
      /\ depth' \in 0 .. 2
      /\ StackOK'
      /\ \A l \in {1, 2} : LocalsOK(call'[l], g_free_lists')
  BY <1>1, <1>4, <1>6, <1>7, ContinueOK
<1> QED BY <1>3, <1>4, <1>5, <1>8 DEF ControlOK, TypeOK, UnchangedOwners

\* A split puts two halves on the list below, where the search then ends.
LEMMA SplitEndOK == ASSUME ControlOK, SplitEnd PROVE ControlOK'
<1> DEFINE o == Top.order - 1
<1> DEFINE g == <<Top.entry, Top.entry + Size(o)>> \o g_free_lists[o]
<1> DEFINE f == [Top EXCEPT !.pc = "search", !.order = o]
<1>1. /\ Top \in Frame /\ LocalsOK(Top, g_free_lists)
      /\ depth > 0 /\ Splitting(Top)
      /\ depth = 2 => Top.op \in {"alloc", "rollback"}
  BY TopOK DEF SplitEnd
<1>2. /\ o \in Orders /\ Top.order_to_alloc <= o
      /\ g_free_lists \in [Orders -> Seq(Nat)]
  <2>1. g_free_lists \in [Orders -> Seq(Nat)]
    BY DEF ControlOK, TypeOK
  <2>2. Top.order \in Orders /\ Top.order_to_alloc \in Orders /\ Top.order_to_alloc < Top.order
    BY <1>1 DEF LocalsOK, Frame
  <2> QED BY <2>1, <2>2, OrdersAssumption DEF Orders
<1>3. /\ g_free_lists' = [g_free_lists EXCEPT ![o] = g]
      /\ Continue(f) /\ UNCHANGED buddy_map /\ UnchangedOwners
  BY <1>2 DEF SplitEnd
<1>4. g \in Seq(Nat) /\ g # <<>>
  <2>1. Size(o) \in Nat /\ Top.entry \in Nat
    BY <1>1, <1>2, SizePositive DEF Frame
  <2>2. <<Top.entry, Top.entry + Size(o)>> \in Seq(Nat) /\ g_free_lists[o] \in Seq(Nat)
    BY <1>2, <2>1
  <2>3. g \in Seq(Nat) /\ Len(g) = 2 + Len(g_free_lists[o])
    BY <2>2
  <2> QED BY <2>2, <2>3
<1>5. g_free_lists' \in [Orders -> Seq(Nat)] /\ g_free_lists'[o] # <<>>
  BY <1>2, <1>3, <1>4
<1>6. f \in Frame /\ f.op = Top.op /\ f.pc = "search"
  <2> HIDE DEF o
  <2>1. o \in 0 .. FRAME_ORDERS /\ "search" \in Pcs
    BY <1>2, OrdersAssumption DEF Orders, Pcs
  <2> QED BY <1>1, <2>1 DEF Frame
<1>7. LocalsOK(f, g_free_lists')
  <2> HIDE DEF o, g
  <2>1. f.order = o /\ f.order_to_alloc = Top.order_to_alloc /\ f.size = Top.size
    BY <1>1 DEF Frame
  <2> HIDE DEF f
  <2> QED BY <1>1, <1>2, <1>5, <1>6, <2>1 DEF LocalsOK, Splitting
<1> HIDE DEF f, o, g
<1>8. /\ call' \in [{1, 2} -> Frame]
      /\ depth' \in 0 .. 2
      /\ StackOK'
      /\ \A l \in {1, 2} : LocalsOK(call'[l], g_free_lists')
  BY <1>1, <1>3, <1>6, <1>7, ContinueOK
<1> QED BY <1>3, <1>5, <1>8 DEF ControlOK, TypeOK, UnchangedOwners

\* A refill starts a second allocation under the call that needs an entry.
LEMMA RefillEntryPoolOK == ASSUME ControlOK, RefillEntryPool PROVE ControlOK'
<1> DEFINE f == [Top EXCEPT !.pc = "got_entry"]
<1> DEFINE n == NewFrame("alloc", "pick", 1)
<1>1. /\ Top \in Frame /\ LocalsOK(Top, g_free_lists)
      /\ depth = 1 /\ Top.op \in {"alloc", "contig", "free"} /\ Top.pc = "get_entry"
  BY TopOK DEF RefillEntryPool, At
<1>2. /\ call' = [call EXCEPT ![1] = f, ![2] = n] /\ depth' = 2
      /\ UnchangedLists /\ UnchangedOwners
  BY DEF RefillEntryPool
<1>3. f \in Frame /\ f.pc = "got_entry" /\ f.op = Top.op
  BY <1>1 DEF Frame, Pcs
<1>4. n \in Frame
  BY NewFrameType DEF Ops, Pcs
<1>5. LocalsOK(f, g_free_lists') /\ LocalsOK(n, g_free_lists')
  <2>1. LocalsOK(f, g_free_lists')
    BY <1>1 DEF LocalsOK, Splitting, Frame
  <2>2. LocalsOK(n, g_free_lists')
    BY DEF LocalsOK, Splitting, NewFrame
  <2> QED BY <2>1, <2>2
<1>6. n.op = "alloc" /\ n.pc = "pick"
  BY DEF NewFrame
<1>7. call \in [{1, 2} -> Frame]
  BY DEF ControlOK, TypeOK
<1> HIDE DEF f, n
<1>8. call' \in [{1, 2} -> Frame] /\ call'[1] = f /\ call'[2] = n
  BY <1>2, <1>3, <1>4, <1>7
<1>9. StackOK'
  BY <1>2, <1>3, <1>6, <1>8 DEF StackOK
<1> QED BY <1>2, <1>5, <1>8, <1>9, QuietStep

\* The refill of the page pool starts an allocation in the same way.
LEMMA RefillPagePoolOK == ASSUME ControlOK, RefillPagePool PROVE ControlOK'
<1> DEFINE f == NewFrame("alloc", "pick", PAGE_POOL_THRESHOLD)
<1>1. Top \in Frame /\ depth = 2
  BY TopOK DEF RefillPagePool
<1>2. f \in Frame
  BY NewFrameType, RequestsAssumption DEF Ops, Pcs
<1>3. f.op = "alloc" /\ f.pc = "pick" /\ LocalsOK(f, g_free_lists')
  BY DEF LocalsOK, Splitting, NewFrame
<1>4. Continue(f) /\ pinned' = pinned \cup ToSet(Top.chain)
      /\ UnchangedLists /\ UNCHANGED <<held, boot, kernel>>
  BY DEF RefillPagePool
<1> HIDE DEF f
<1>5. /\ call' \in [{1, 2} -> Frame]
      /\ depth' \in 0 .. 2
      /\ StackOK'
      /\ \A l \in {1, 2} : LocalsOK(call'[l], g_free_lists')
  BY <1>1, <1>2, <1>3, <1>4, ContinueOK
<1>6. ToSet(Top.chain) \subseteq Block
  BY <1>1 DEF Frame, ToSet
<1> QED BY <1>4, <1>5, <1>6 DEF ControlOK, TypeOK, UnchangedLists

\* When the refill returns, the suspended call is as it was.
LEMMA RefillDoneOK == ASSUME ControlOK, RefillDone PROVE ControlOK'
<1>1. Top \in Frame /\ depth = 2
  BY TopOK DEF RefillDone
<1>2. /\ call' = [call EXCEPT ![2] = NoFrame] /\ depth' = 1
      /\ pinned' = pinned \cup ToSet(Top.chain)
      /\ UnchangedLists /\ UNCHANGED <<held, boot, kernel>>
  BY DEF RefillDone
<1>3. call \in [{1, 2} -> Frame] /\ \A l \in {1, 2} : LocalsOK(call[l], g_free_lists)
  BY DEF ControlOK, TypeOK
<1>4. call' \in [{1, 2} -> Frame] /\ call'[1] = call[1] /\ call'[2] = NoFrame
  BY <1>2, <1>3, NoFrameOK
<1>5. StackOK' /\ \A l \in {1, 2} : LocalsOK(call'[l], g_free_lists')
  BY <1>2, <1>3, <1>4, NoFrameOK DEF StackOK, UnchangedLists
<1>6. ToSet(Top.chain) \subseteq Block
  BY <1>1 DEF Frame, ToSet
<1>7. /\ depth' \in 0 .. 2 /\ pinned' = pinned \cup ToSet(Top.chain)
      /\ UnchangedLists /\ UNCHANGED <<held, boot, kernel>>
  BY <1>2
<1>8. TypeOK'
  BY <1>4, <1>6, <1>7 DEF ControlOK, TypeOK, UnchangedLists
<1> QED BY <1>5, <1>8 DEF ControlOK

\* The kernel stops: nothing else changes.
LEMMA StopOK ==
    ASSUME ControlOK,
           NEW reason \in {"not an order", "read past g_free_lists",
                           "null list entry", "out of memory"},
           Stop(reason)
    PROVE  ControlOK'
<1>1. TypeOK'
  BY DEF ControlOK, TypeOK, Stop
<1>2. StackOK'
  BY DEF ControlOK, StackOK, Stop
<1> QED BY <1>1, <1>2 DEF ControlOK, Stop

\* The ways in which a call returns, with blocks or without.
LEMMA ReturnsOK ==
    ASSUME ControlOK, AllocReturn \/ ReturnNothing \/ ContiguousTake \/ ContiguousFails
    PROVE  ControlOK'
<1>1. CASE AllocReturn
  <2>1. Top \in Frame /\ held' = held \cup ToSet(Top.chain)
    BY <1>1, TopOK DEF AllocReturn, At
  <2>2. ToSet(Top.chain) \subseteq Block
    BY <2>1 DEF Frame, ToSet
  <2>3. Return /\ UnchangedLists /\ UNCHANGED <<pinned, boot, kernel>>
    BY <1>1 DEF AllocReturn
  <2> QED BY <2>1, <2>2, <2>3, ReturnOK DEF ControlOK, TypeOK, UnchangedLists
<1>2. CASE ReturnNothing
  BY <1>2, ReturnOK, QuietStep DEF ReturnNothing
<1>3. CASE ContiguousTake
  <2> DEFINE o == Top.order_to_alloc
  <2>1. Top \in Frame
    BY <1>3, TopOK DEF ContiguousTake, At
  <2>2. TakeHead(o) /\ held' = held \cup {<<Head(g_free_lists[o]), o>>}
        /\ Return /\ UNCHANGED <<pinned, boot, kernel>>
    BY <1>3 DEF ContiguousTake
  <2>3. o \in Orders /\ TypeOK
    BY <2>1 DEF Frame, ControlOK
  <2> HIDE DEF o
  <2>4. /\ g_free_lists' \in [Orders -> Seq(Nat)]
        /\ buddy_map' \in [0 .. FRAME_ORDERS - 2 -> SUBSET Nat]
        /\ Head(g_free_lists[o]) \in Nat
    BY <2>2, <2>3, TakeHeadType
  <2>5. {<<Head(g_free_lists[o]), o>>} \subseteq Block
    BY <2>3, <2>4 DEF Block
  <2>6. /\ call' \in [{1, 2} -> Frame] /\ depth' \in 0 .. 2
        /\ StackOK' /\ \A l \in {1, 2} : LocalsOK(call'[l], g_free_lists')
    BY <2>2, ReturnOK
  <2>7. TypeOK'
    BY <2>2, <2>3, <2>4, <2>5, <2>6 DEF TypeOK
  <2> QED BY <2>6, <2>7 DEF ControlOK
<1>4. CASE ContiguousFails
  BY <1>4, ReturnOK, QuietStep DEF ContiguousFails
<1> QED BY <1>1, <1>2, <1>3, <1>4

\* free_frames waits for a list entry for the next block of its chain.
LEMMA FreeGetEntryOK == ASSUME ControlOK, FreeGetEntry PROVE ControlOK'
<1> DEFINE f == [Top EXCEPT !.pc = "free"]
<1>1. /\ Top \in Frame /\ depth > 0 /\ Top.op = "free"
      /\ depth = 2 => Top.op \in {"alloc", "rollback"}
  BY TopOK DEF FreeGetEntry, At
<1>2. f \in Frame /\ f.op = "free" /\ f.pc = "free"
  BY <1>1 DEF Frame, Pcs
<1>3. LocalsOK(f, g_free_lists')
  BY <1>2 DEF LocalsOK, Splitting
<1>4. UnchangedLists /\ UnchangedOwners /\ Continue(f)
  BY DEF FreeGetEntry
<1> HIDE DEF f
<1> QED BY <1>1, <1>2, <1>3, <1>4, ContinueOK, QuietStep

\* A block that is given back goes to the list of its order.
LEMMA FreeBlockOK == ASSUME ControlOK, FreeBlock PROVE ControlOK'
<1> DEFINE a == Head(Top.chain)[1]
<1> DEFINE o == Head(Top.chain)[2]
<1> DEFINE f == [Top EXCEPT !.pc = "merge", !.chain = Tail(@), !.entry = a, !.order = o]
<1>1. /\ Top \in Frame /\ depth > 0 /\ Top.op \in {"free", "rollback"}
      /\ depth = 2 => Top.op \in {"alloc", "rollback"}
      /\ Top.chain # <<>>
  BY TopOK DEF FreeBlock, At
<1>2. Top.chain \in Seq(Block)
  BY <1>1 DEF Frame
<1>3. Head(Top.chain) \in Block /\ Tail(Top.chain) \in Seq(Block)
  BY <1>1, <1>2
<1>4. a \in Nat /\ o \in Orders
  BY <1>3 DEF Block
<1>5. /\ buddy_map' = toggle_buddy_bit(buddy_map, a, o)
      /\ g_free_lists' = [g_free_lists EXCEPT ![o] = <<a>> \o @]
      /\ Continue(f) /\ UnchangedOwners
  BY DEF FreeBlock
<1>6. f \in Frame /\ f.op = Top.op /\ f.pc = "merge" /\ f.order = o
  <2> HIDE DEF a, o
  <2>1. o \in 0 .. FRAME_ORDERS /\ "merge" \in Pcs
    BY <1>4, OrdersAssumption DEF Orders, Pcs
  <2> QED BY <1>1, <1>3, <1>4, <2>1 DEF Frame
<1> HIDE DEF a, o
<1>7. LocalsOK(f, g_free_lists')
  <2> HIDE DEF f
  <2> QED BY <1>1, <1>4, <1>6 DEF LocalsOK, Splitting
<1> HIDE DEF f
<1>8. /\ call' \in [{1, 2} -> Frame]
      /\ depth' \in 0 .. 2
      /\ StackOK'
      /\ \A l \in {1, 2} : LocalsOK(call'[l], g_free_lists')
  BY <1>1, <1>5, <1>6, <1>7, ContinueOK
<1>9. /\ g_free_lists \in [Orders -> Seq(Nat)]
      /\ buddy_map \in [0 .. FRAME_ORDERS - 2 -> SUBSET Nat]
  BY DEF ControlOK, TypeOK
<1>10. /\ g_free_lists' \in [Orders -> Seq(Nat)]
       /\ buddy_map' \in [0 .. FRAME_ORDERS - 2 -> SUBSET Nat]
  <2>1. <<a>> \o g_free_lists[o] \in Seq(Nat)
    BY <1>4, <1>9
  <2> QED BY <1>4, <1>5, <1>9, <2>1, ToggleType
<1> QED BY <1>5, <1>8, <1>10 DEF ControlOK, TypeOK, UnchangedOwners

\* Removing an element keeps a sequence a sequence.
LEMMA RemoveAtType ==
    ASSUME NEW S, NEW s \in Seq(S), NEW i \in DOMAIN s
    PROVE  RemoveAt(s, i) \in Seq(S)
<1>1. i \in 1 .. Len(s) /\ Len(s) \in Nat
  OBVIOUS
<1>2. SubSeq(s, 1, i - 1) \in Seq(S)
  BY <1>1
<1>3. SubSeq(s, i + 1, Len(s)) \in Seq(S)
  BY <1>1
<1> QED BY <1>2, <1>3 DEF RemoveAt

\* A merge unlinks two blocks and puts one on the list above, which exists.
LEMMA MergeBuddiesOK == ASSUME ControlOK, MergeBuddies PROVE ControlOK'
<1> DEFINE o == Top.order
<1> DEFINE a == Top.entry
<1> DEFINE rest == Tail(g_free_lists[o])
<1> DEFINE other == BuddyOf(a, o)
<1> DEFINE left == IF other < a THEN other ELSE a
<1> DEFINE f == [Top EXCEPT !.entry = left, !.order = o + 1]
<1>1. /\ Top \in Frame /\ LocalsOK(Top, g_free_lists)
      /\ depth > 0 /\ Top.op \in {"free", "rollback"} /\ Top.pc = "merge"
      /\ depth = 2 => Top.op \in {"alloc", "rollback"}
      /\ Top.order < TopOrder
  BY TopOK DEF MergeBuddies, Merging, MayMerge, At
<1>2. /\ o \in Orders /\ o + 1 \in Orders /\ o + 1 \in 0 .. FRAME_ORDERS
  BY <1>1, OrdersAssumption DEF LocalsOK, Orders, TopOrder
<1>3. /\ g_free_lists \in [Orders -> Seq(Nat)]
      /\ buddy_map \in [0 .. FRAME_ORDERS - 2 -> SUBSET Nat]
  BY DEF ControlOK, TypeOK
<1>4. PICK i \in DOMAIN rest :
          /\ rest[i] = other
          /\ g_free_lists' = [g_free_lists EXCEPT ![o] = RemoveAt(rest, i),
                                                  ![o + 1] = <<left>> \o @]
  BY DEF MergeBuddies
<1>5. /\ buddy_map' = toggle_buddy_bit(buddy_map, left, o + 1)
      /\ Continue(f) /\ UnchangedOwners
  BY DEF MergeBuddies
<1>6. rest \in Seq(Nat) /\ other \in Nat /\ left \in Nat
  <2> HIDE DEF o, other
  <2>1. g_free_lists[o] # <<>>
    BY <1>2, <1>3, <1>4
  <2>2. rest \in Seq(Nat)
    BY <1>2, <1>3, <2>1
  <2>3. other \in Nat
    BY <1>4, <2>2
  <2> QED BY <1>1, <2>2, <2>3 DEF Frame
<1> HIDE DEF rest, other, left
<1>7. f \in Frame /\ f.op = Top.op /\ f.pc = "merge" /\ f.order = o + 1
  <2> HIDE DEF o
  <2> QED BY <1>1, <1>2, <1>6 DEF Frame
<1>8. LocalsOK(f, g_free_lists')
  <2> HIDE DEF f, o
  <2> QED BY <1>1, <1>2, <1>7 DEF LocalsOK, Splitting
<1> HIDE DEF f
<1>9. /\ call' \in [{1, 2} -> Frame] /\ depth' \in 0 .. 2
      /\ StackOK' /\ \A l \in {1, 2} : LocalsOK(call'[l], g_free_lists')
  BY <1>1, <1>5, <1>7, <1>8, ContinueOK
<1> HIDE DEF o
<1>10. g_free_lists' \in [Orders -> Seq(Nat)]
  <2>1. RemoveAt(rest, i) \in Seq(Nat)
    BY <1>4, <1>6, RemoveAtType
  <2>2. <<left>> \o g_free_lists[o + 1] \in Seq(Nat)
    BY <1>2, <1>3, <1>6
  <2>3. g_free_lists' = [q \in Orders |-> IF q = o + 1 THEN <<left>> \o g_free_lists[o + 1]
                                          ELSE IF q = o THEN RemoveAt(rest, i)
                                          ELSE g_free_lists[q]]
    BY <1>2, <1>3, <1>4 DEF Orders
  <2> QED BY <1>3, <2>1, <2>2, <2>3
<1>11. buddy_map' \in [0 .. FRAME_ORDERS - 2 -> SUBSET Nat]
  BY <1>2, <1>3, <1>5, <1>6, ToggleType
<1>12. TypeOK'
  BY <1>5, <1>9, <1>10, <1>11 DEF ControlOK, TypeOK, UnchangedOwners
<1> QED BY <1>9, <1>12 DEF ControlOK

\* The end of a merge goes back to the chain.
LEMMA MergeDoneOK == ASSUME ControlOK, MergeDone PROVE ControlOK'
<1> DEFINE f == [Top EXCEPT !.pc = "free"]
<1>1. /\ Top \in Frame /\ depth > 0 /\ Top.op \in {"free", "rollback"}
      /\ depth = 2 => Top.op \in {"alloc", "rollback"}
  BY TopOK DEF MergeDone, Merging, At
<1>2. f \in Frame /\ f.op = Top.op /\ f.pc = "free"
  BY <1>1 DEF Frame, Pcs
<1>3. LocalsOK(f, g_free_lists')
  BY <1>1, <1>2 DEF LocalsOK, Splitting
<1>4. UnchangedLists /\ UnchangedOwners /\ Continue(f)
  BY DEF MergeDone
<1> HIDE DEF f
<1> QED BY <1>1, <1>2, <1>3, <1>4, ContinueOK, QuietStep

\* The order picked for a part of an unusable range fits into the range.
LEMMA RemovePickOK == ASSUME ControlOK, RemovePick PROVE ControlOK'
<1>1. /\ Top \in Frame /\ depth > 0 /\ Top.op = "remove" /\ Top.size # 0
      /\ depth = 2 => Top.op \in {"alloc", "rollback"}
  BY TopOK DEF RemovePick, At
<1>2. PICK o \in Orders : RangeOrder(o, Top.addr, Top.size) /\
          Continue([Top EXCEPT !.pc = "search", !.order_to_alloc = o, !.order = TopOrder])
  BY DEF RemovePick
<1> DEFINE f == [Top EXCEPT !.pc = "search", !.order_to_alloc = o, !.order = TopOrder]
<1>3. /\ f \in Frame /\ f.op = "remove" /\ f.pc = "search" /\ f.order_to_alloc = o
      /\ f.order = TopOrder /\ f.size = Top.size /\ Top.size \in Nat
  <2>1. TopOrder \in 0 .. FRAME_ORDERS /\ "search" \in Pcs
    BY OrdersAssumption DEF TopOrder, Pcs
  <2> QED BY <1>1, <2>1 DEF Frame
<1>4. Size(o) <= Top.size
  <2>1. CASE o = 0
    BY <2>1, <1>1, <1>3, SizesAssumption DEF Size
  <2>2. CASE o # 0
    BY <2>2, <1>2 DEF RangeOrder
  <2> QED BY <2>1, <2>2
<1>5. LocalsOK(f, g_free_lists')
  <2> HIDE DEF f
  <2>1. TopOrder \in Orders /\ o <= TopOrder
    BY OrdersAssumption DEF Orders, TopOrder
  <2> QED BY <1>3, <1>4, <2>1 DEF LocalsOK, Splitting
<1>6. UnchangedLists /\ UnchangedOwners /\ Continue(f)
  BY <1>2 DEF RemovePick
<1> HIDE DEF f
<1> QED BY <1>1, <1>3, <1>5, <1>6, ContinueOK, QuietStep

\* The search of remove_range goes down, not below the order it wants.
LEMMA RemoveSearchLowerOK == ASSUME ControlOK, RemoveSearchLower PROVE ControlOK'
<1> DEFINE f == [Top EXCEPT !.order = @ - 1]
<1>1. /\ Top \in Frame /\ LocalsOK(Top, g_free_lists)
      /\ depth > 0 /\ Top.op = "remove" /\ Top.pc = "search"
      /\ depth = 2 => Top.op \in {"alloc", "rollback"}
      /\ Top.order # Top.order_to_alloc
  BY TopOK DEF RemoveSearchLower, At
<1>2. Top.order - 1 \in Orders /\ Top.order_to_alloc <= Top.order - 1
      /\ Top.order - 1 \in 0 .. FRAME_ORDERS
  BY <1>1, OrdersAssumption DEF LocalsOK, Frame, Orders
<1>3. /\ f \in Frame /\ f.op = "remove" /\ f.pc = "search" /\ f.order = Top.order - 1
      /\ f.size = Top.size /\ f.order_to_alloc = Top.order_to_alloc
  BY <1>1, <1>2 DEF Frame
<1>4. LocalsOK(f, g_free_lists')
  <2> HIDE DEF f
  <2> QED BY <1>1, <1>2, <1>3 DEF LocalsOK, Splitting
<1>5. UnchangedLists /\ UnchangedOwners /\ Continue(f)
  BY DEF RemoveSearchLower
<1> HIDE DEF f
<1> QED BY <1>1, <1>3, <1>4, <1>5, ContinueOK, QuietStep

\* remove_range splits a block that is too large, or takes it out.
LEMMA RemoveUnlinkOK == ASSUME ControlOK, RemoveUnlink PROVE ControlOK'
<1> DEFINE o == Top.order
<1>1. /\ Top \in Frame /\ LocalsOK(Top, g_free_lists)
      /\ depth > 0 /\ Top.op = "remove" /\ Top.pc = "search"
      /\ depth = 2 => Top.op \in {"alloc", "rollback"}
  BY TopOK DEF RemoveUnlink, At
<1>2. o \in Orders /\ Top.order_to_alloc <= o
  BY <1>1 DEF LocalsOK
<1>3. /\ g_free_lists \in [Orders -> Seq(Nat)]
      /\ buddy_map \in [0 .. FRAME_ORDERS - 2 -> SUBSET Nat]
      /\ held \subseteq Block /\ pinned \subseteq Block
  BY DEF ControlOK, TypeOK
<1> DEFINE F1(a) == [Top EXCEPT !.pc = "get_entry", !.entry = a]
<1> DEFINE F2 == [Top EXCEPT !.pc = "pick", !.size = @ - Size(o), !.addr = @ + Size(o)]
<1>4. PICK i \in Containing :
          LET a == g_free_lists[o][i]
          IN  /\ g_free_lists' = [g_free_lists EXCEPT ![o] = RemoveAt(@, i)]
              /\ buddy_map' = toggle_buddy_bit(buddy_map, a, o)
              /\ \/ /\ o # Top.order_to_alloc
                    /\ Continue(F1(a))
                    /\ UNCHANGED <<held, pinned>>
                 \/ /\ o = Top.order_to_alloc
                    /\ Continue(F2)
                    /\ pinned' = IF Top.keep THEN pinned \cup {<<a, o>>} ELSE pinned
                    /\ held' = IF Top.keep THEN held ELSE held \cup {<<a, o>>}
  BY DEF RemoveUnlink
<1>5. boot' = boot /\ kernel' = kernel
  BY DEF RemoveUnlink
<1> DEFINE a == g_free_lists[o][i]
<1>6. i \in DOMAIN g_free_lists[o] /\ a \in Nat
  BY <1>2, <1>3 DEF Containing
<1>7. g_free_lists' \in [Orders -> Seq(Nat)]
  BY <1>2, <1>3, <1>4, <1>6, RemoveAtType
<1>8. buddy_map' \in [0 .. FRAME_ORDERS - 2 -> SUBSET Nat]
  BY <1>2, <1>3, <1>4, <1>6, ToggleType
<1>9. held' \subseteq Block /\ pinned' \subseteq Block
  BY <1>2, <1>3, <1>4, <1>6 DEF Block
<1>10. /\ call' \in [{1, 2} -> Frame] /\ depth' \in 0 .. 2
       /\ StackOK' /\ \A l \in {1, 2} : LocalsOK(call'[l], g_free_lists')
  <2>1. CASE o # Top.order_to_alloc
    <3> DEFINE f == F1(a)
    <3>1. Continue(f)
      BY <2>1, <1>4
    <3>2. /\ f \in Frame /\ f.op = "remove" /\ f.pc = "get_entry" /\ f.order = o
          /\ f.size = Top.size /\ f.order_to_alloc = Top.order_to_alloc
      BY <1>1, <1>6 DEF Frame, Pcs
    <3>3. LocalsOK(f, g_free_lists')
      <4> HIDE DEF f
      <4>1. Top.order_to_alloc < o
        BY <1>1, <1>2, <2>1 DEF Frame, Orders
      <4> QED BY <1>1, <1>2, <3>2, <4>1 DEF LocalsOK, Splitting
    <3> HIDE DEF f
    <3> QED BY <1>1, <3>1, <3>2, <3>3, ContinueOK
  <2>2. CASE o = Top.order_to_alloc
    <3>1. Continue(F2)
      BY <2>2, <1>4
    <3>2. Top.size - Size(o) \in Nat /\ Top.addr + Size(o) \in Nat
      BY <1>1, <1>2, <2>2, SizePositive DEF LocalsOK, Frame
    <3>3. F2 \in Frame /\ F2.op = "remove" /\ F2.pc = "pick"
      <4> HIDE DEF o
      <4> QED BY <1>1, <3>2 DEF Frame, Pcs
    <3>4. LocalsOK(F2, g_free_lists')
      <4> HIDE DEF F2
      <4> QED BY <3>3 DEF LocalsOK, Splitting
    <3> HIDE DEF F2
    <3> QED BY <1>1, <3>1, <3>3, <3>4, ContinueOK
  <2> QED BY <2>1, <2>2
<1>11. TypeOK'
  BY <1>5, <1>7, <1>8, <1>9, <1>10 DEF ControlOK, TypeOK
<1> QED BY <1>10, <1>11 DEF ControlOK

\* Every call from outside begins with a well-formed frame.
LEMMA CallsOK ==
    ASSUME ControlOK, Environment
    PROVE  ControlOK'
<1>1. ASSUME NEW pages \in Requests, alloc_frames(pages)
      PROVE  ControlOK'
  <2> DEFINE f == NewFrame("alloc", "pick", pages)
  <2>1. f \in Frame
    BY NewFrameType, RequestsAssumption DEF Ops, Pcs
  <2>2. LocalsOK(f, g_free_lists)
    BY DEF LocalsOK, Splitting, NewFrame
  <2>3. Call(f) /\ UNCHANGED <<held, boot>>
    BY <1>1 DEF alloc_frames
  <2> HIDE DEF f
  <2> QED BY <2>1, <2>2, <2>3, CallOK, QuietStep DEF Call, UnchangedOwners
<1>2. ASSUME NEW pages \in Requests, alloc_frames_contiguos(pages)
      PROVE  ControlOK'
  <2> DEFINE n == NewFrame("contig", "search", pages)
  <2>1. PICK o \in Orders : Call([n EXCEPT !.order_to_alloc = o, !.order = o + 1])
    BY <1>2 DEF alloc_frames_contiguos
  <2> DEFINE f == [n EXCEPT !.order_to_alloc = o, !.order = o + 1]
  <2>2. n \in Frame /\ n.op = "contig" /\ n.pc = "search"
    <3>1. n \in Frame
      BY NewFrameType, RequestsAssumption DEF Ops, Pcs
    <3> QED BY <3>1 DEF NewFrame
  <2>3. o + 1 \in 0 .. FRAME_ORDERS /\ o <= o + 1 /\ o # o + 1
    BY OrdersAssumption DEF Orders
  <2> HIDE DEF n
  <2>4. /\ f \in Frame /\ f.op = "contig" /\ f.pc = "search"
        /\ f.order = o + 1 /\ f.order_to_alloc = o
    BY <2>2, <2>3 DEF Frame
  <2>5. UNCHANGED <<held, boot>>
    BY <1>2 DEF alloc_frames_contiguos
  <2> HIDE DEF f
  <2>6. LocalsOK(f, g_free_lists)
    BY <2>3, <2>4 DEF LocalsOK, Splitting
  <2> QED BY <2>1, <2>4, <2>5, <2>6, CallOK, QuietStep DEF Call, UnchangedOwners, f
<1>3. ASSUME NEW pages \in Requests, ContiguousTooLarge(pages)
      PROVE  ControlOK'
  BY <1>3, StopOK DEF ContiguousTooLarge
<1>4. ASSUME NEW b \in held, free_frames_contiguos(b)
      PROVE  ControlOK'
  <2> DEFINE n == NewFrame("free", "get_entry", Size(b[2]))
  <2> DEFINE f == [n EXCEPT !.chain = <<b>>]
  <2>1. b \in Block /\ held \subseteq Block
    BY DEF ControlOK, TypeOK
  <2>2. Size(b[2]) \in Nat
    BY <2>1, SizePositive DEF Block
  <2>3. n \in Frame /\ n.op = "free" /\ n.pc = "get_entry"
    <3>1. n \in Frame
      BY <2>2, NewFrameType DEF Ops, Pcs
    <3> QED BY <3>1 DEF NewFrame
  <2>4. <<b>> \in Seq(Block)
    BY <2>1
  <2> HIDE DEF n
  <2>5. f \in Frame /\ f.op = "free" /\ f.pc = "get_entry"
    BY <2>3, <2>4 DEF Frame
  <2>6. Call(f) /\ held' = held \ {b} /\ boot' = boot
    BY <1>4 DEF free_frames_contiguos, n
  <2> HIDE DEF f
  <2>7. LocalsOK(f, g_free_lists)
    BY <2>5 DEF LocalsOK, Splitting
  <2>8. /\ call' \in [{1, 2} -> Frame] /\ depth' \in 0 .. 2
        /\ StackOK' /\ \A l \in {1, 2} : LocalsOK(call'[l], g_free_lists')
    BY <2>5, <2>6, <2>7, CallOK
  <2>9. UnchangedLists /\ UNCHANGED <<pinned, kernel>>
    BY <2>6 DEF Call
  <2>10. TypeOK'
    BY <2>6, <2>8, <2>9 DEF ControlOK, TypeOK, UnchangedLists
  <2> QED BY <2>8, <2>10 DEF ControlOK
<1>5. ASSUME remove_range
      PROVE  ControlOK'
  <2> DEFINE n == NewFrame("remove", "pick", Head(boot).pages)
  <2> DEFINE f == [n EXCEPT !.addr = Head(boot).addr, !.keep = ~Head(boot).reclaim]
  <2>1. boot \in Seq(UnusableRange) /\ boot # <<>>
    BY <1>5 DEF remove_range, ControlOK, TypeOK
  <2>2. /\ Head(boot) \in UnusableRange
        /\ Tail(boot) \in Seq(UnusableRange)
    BY <2>1
  <2>4. Head(boot).addr \in Nat /\ Head(boot).pages \in Nat /\ (~Head(boot).reclaim) \in BOOLEAN
    BY <2>2 DEF UnusableRange
  <2>3. n \in Frame /\ n.op = "remove" /\ n.pc = "pick"
    <3>1. n \in Frame
      BY <2>4, NewFrameType DEF Ops, Pcs
    <3> QED BY <3>1 DEF NewFrame
  <2> HIDE DEF n
  <2>5. f \in Frame /\ f.op = "remove" /\ f.pc = "pick"
    BY <2>3, <2>4 DEF Frame
  <2>6. Call(f) /\ boot' = Tail(boot) /\ held' = held
    BY <1>5 DEF remove_range, n
  <2> HIDE DEF f
  <2>7. LocalsOK(f, g_free_lists)
    BY <2>5 DEF LocalsOK, Splitting
  <2>8. /\ call' \in [{1, 2} -> Frame] /\ depth' \in 0 .. 2
        /\ StackOK' /\ \A l \in {1, 2} : LocalsOK(call'[l], g_free_lists')
    BY <2>5, <2>6, <2>7, CallOK
  <2>9. UnchangedLists /\ UNCHANGED <<pinned, kernel>>
    BY <2>6 DEF Call
  <2>10. TypeOK'
    BY <2>2, <2>6, <2>8, <2>9 DEF ControlOK, TypeOK, UnchangedLists
  <2> QED BY <2>8, <2>10 DEF ControlOK
<1> QED BY <1>1, <1>2, <1>3, <1>4, <1>5 DEF Environment

\* Initially nothing runs and every list has its type.
LEMMA InitControlOK == Init => ControlOK
<1> SUFFICES ASSUME Init PROVE ControlOK
  OBVIOUS
<1>1. g_free_lists \in [Orders -> Seq(Nat)]
  <2>1. TopOrder \in Orders /\ Size(TopOrder) \in Nat
    BY OrdersAssumption, SizePositive DEF Orders, TopOrder
  <2>2. \A i \in 1 .. BlockCount : (i - 1) * Size(TopOrder) \in Nat
    BY <2>1, MemoryAssumption
  <2> DEFINE G(i) == (i - 1) * Size(TopOrder)
  <2>3. BlockCount \in Nat /\ \A i \in 1 .. BlockCount : G(i) \in Nat
    BY <2>2, MemoryAssumption
  <2> DEFINE first == [i \in 1 .. BlockCount |-> G(i)]
  <2> HIDE DEF G
  <2>4. first \in Seq(Nat)
    BY <2>3
  <2>5. g_free_lists = [o \in Orders |-> IF o = TopOrder THEN first ELSE <<>>]
    BY DEF Init, G
  <2>6. <<>> \in Seq(Nat)
    OBVIOUS
  <2> HIDE DEF first
  <2> QED BY <2>4, <2>5, <2>6
<1>2. buddy_map \in [0 .. FRAME_ORDERS - 2 -> SUBSET Nat]
  BY DEF Init
<1>3. /\ call = [l \in {1, 2} |-> NoFrame] /\ depth = 0 /\ kernel = "running"
      /\ held = {} /\ pinned = {} /\ boot = Unusable
  BY DEF Init
<1>4. call \in [{1, 2} -> Frame] /\ call[1] = NoFrame /\ call[2] = NoFrame
  BY <1>3, NoFrameOK
<1>5. TypeOK
  BY <1>1, <1>2, <1>3, <1>4, UnusableAssumption DEF TypeOK
<1>6. StackOK
  BY <1>3, <1>4 DEF StackOK
<1> QED BY <1>4, <1>5, <1>6, NoFrameOK DEF ControlOK

\* Every step of the allocator preserves ControlOK.
LEMMA NextControlOK == ControlOK /\ [Next]_vars => ControlOK'
<1> SUFFICES ASSUME ControlOK, [Next]_vars PROVE ControlOK'
  OBVIOUS
<1>1. CASE Environment
  BY <1>1, CallsOK
<1>2. CASE PickOrder \/ SearchHigher \/ UseSmaller \/ GiveUp \/ TakeBlock \/ SplitBegin \/ SplitEnd
  BY <1>2, PickOrderOK, SearchHigherOK, UseSmallerOK, GiveUpOK, TakeBlockOK, SplitBeginOK, SplitEndOK
<1>3. CASE ReadPastLists \/ RefillFails \/ ContiguousNullEntry
  BY <1>3, StopOK DEF ReadPastLists, RefillFails, ContiguousNullEntry
<1>4. CASE RefillEntryPool \/ RefillPagePool \/ RefillDone
  BY <1>4, RefillEntryPoolOK, RefillPagePoolOK, RefillDoneOK
<1>5. CASE AllocReturn \/ ReturnNothing \/ ContiguousTake \/ ContiguousFails
  BY <1>5, ReturnsOK
<1>6. CASE FreeGetEntry \/ FreeBlock \/ MergeBuddies \/ MergeDone
  BY <1>6, FreeGetEntryOK, FreeBlockOK, MergeBuddiesOK, MergeDoneOK
<1>7. CASE RemovePick \/ RemoveSearchLower \/ RemoveUnlink
  BY <1>7, RemovePickOK, RemoveSearchLowerOK, RemoveUnlinkOK
<1>8. CASE UNCHANGED vars
  <2>1. TypeOK'
    BY <1>8 DEF vars, ControlOK, TypeOK
  <2>2. StackOK'
    BY <1>8 DEF vars, ControlOK, StackOK
  <2>3. call' = call /\ g_free_lists' = g_free_lists
    BY <1>8 DEF vars
  <2> QED BY <2>1, <2>2, <2>3 DEF ControlOK
<1> QED BY <1>1, <1>2, <1>3, <1>4, <1>5, <1>6, <1>7, <1>8 DEF Next, Step, Halted

\* Type correctness of the frame allocator: however calls, refills and
\* failures interleave, the sizes it computes never go below zero, it never
\* splits a block of order 0, and only the defects of the search loops
\* (which stop the kernel) take an order outside the lists.
THEOREM FrameAllocatorTypeOK == Spec => []TypeOK
<1>1. ControlOK => TypeOK
  BY DEF ControlOK
<1> QED BY <1>1, InitControlOK, NextControlOK, PTL DEF Spec

-----------------------------------------------------------------------------
(* alloc_frames gives up only when no block at all is free.                *)

\* While alloc_frames searches, it has found the orders between the wanted one
\* and the one it looks at empty, or it looks at a list with a block.  The
\* second part is needed after a split: a refill may have left blocks in the
\* orders between, but the halves are still there.
Searched(f, lists) ==
    \/ \A q \in Orders : f.order_to_alloc < q /\ q < f.order => lists[q] = <<>>
    \/ f.order \in Orders /\ lists[f.order] # <<>>

SearchInv ==
    /\ ControlOK
    /\ depth > 0 /\ Top.op = "alloc" /\ Top.pc = "search" => Searched(Top, g_free_lists)

\* What Continue does to the stack.
LEMMA ContinueTop ==
    ASSUME ControlOK, depth > 0, NEW f, Continue(f)
    PROVE  /\ depth' = depth /\ Top' = f /\ depth \in {1, 2}
           /\ \A l \in {1, 2} : call'[l] = IF l = depth THEN f ELSE call[l]
<1>1. depth \in 0 .. 2 /\ call \in [{1, 2} -> Frame]
  BY DEF ControlOK, TypeOK
<1>2. depth \in {1, 2}
  BY <1>1
<1>3. depth' = depth /\ call' = [call EXCEPT ![depth] = f]
  BY DEF Continue
<1>4. \A l \in {1, 2} : call'[l] = IF l = depth THEN f ELSE call[l]
  BY <1>1, <1>2, <1>3
<1> QED BY <1>2, <1>3, <1>4 DEF Top

\* Steps after which the running call is the one it was, and not in the search
\* of alloc_frames.
LEMMA OtherSteps ==
    ASSUME ControlOK,
           \/ TakeBlock \/ SplitBegin
           \/ FreeGetEntry \/ FreeBlock \/ MergeBuddies \/ MergeDone
           \/ RemovePick \/ RemoveSearchLower \/ RemoveUnlink
    PROVE  /\ depth > 0
           /\ \E f : Continue(f) /\ f.op = Top.op /\ (f.op = "alloc" => f.pc # "search")
<1>1. depth > 0
  BY DEF TakeBlock, SplitBegin, FreeGetEntry, FreeBlock, MergeBuddies, MergeDone,
         Merging, RemovePick, RemoveSearchLower, RemoveUnlink, At
<1>2. Top \in Frame
  BY <1>1, TopOK
<1>3. CASE TakeBlock
  <2> DEFINE o == Top.order_to_alloc
  <2> DEFINE f == [Top EXCEPT !.pc = "pick", !.chain = Append(@, <<Head(g_free_lists[o]), o>>),
                              !.size = Remaining(@, o)]
  <2>1. Continue(f)
    BY <1>3 DEF TakeBlock
  <2>2. f.op = Top.op /\ f.pc = "pick"
    BY <1>2 DEF Frame
  <2> HIDE DEF f
  <2> QED BY <1>1, <2>1, <2>2
<1>4. CASE SplitBegin
  <2> DEFINE f == [Top EXCEPT !.pc = "get_entry", !.order = SplitOrder,
                              !.entry = Head(g_free_lists[SplitOrder])]
  <2>1. Continue(f)
    BY <1>4 DEF SplitBegin
  <2>2. f.op = Top.op /\ f.pc = "get_entry"
    BY <1>2 DEF Frame
  <2> HIDE DEF f
  <2> QED BY <1>1, <2>1, <2>2
<1>5. CASE FreeGetEntry \/ MergeDone
  <2> DEFINE f == [Top EXCEPT !.pc = "free"]
  <2>1. Continue(f)
    BY <1>5 DEF FreeGetEntry, MergeDone
  <2>2. f.op = Top.op /\ f.pc = "free"
    BY <1>2 DEF Frame
  <2> HIDE DEF f
  <2> QED BY <1>1, <2>1, <2>2
<1>6. CASE FreeBlock
  <2> DEFINE f == [Top EXCEPT !.pc = "merge", !.chain = Tail(@),
                              !.entry = Head(Top.chain)[1], !.order = Head(Top.chain)[2]]
  <2>1. Continue(f)
    BY <1>6 DEF FreeBlock
  <2>2. f.op = Top.op /\ f.pc = "merge"
    BY <1>2 DEF Frame
  <2> HIDE DEF f
  <2> QED BY <1>1, <2>1, <2>2
<1>7. CASE MergeBuddies
  <2>1. \E x, y : Continue([Top EXCEPT !.entry = x, !.order = y]) /\ Top.pc = "merge"
    BY <1>7 DEF MergeBuddies, Merging, At
  <2>2. PICK x, y : Continue([Top EXCEPT !.entry = x, !.order = y]) /\ Top.pc = "merge"
    BY <2>1
  <2> DEFINE f == [Top EXCEPT !.entry = x, !.order = y]
  <2>3. f.op = Top.op /\ f.pc = "merge"
    BY <1>2, <2>2 DEF Frame
  <2> HIDE DEF f
  <2> QED BY <1>1, <2>2, <2>3 DEF f
<1>8. CASE RemovePick
  <2>1. PICK o \in Orders : Continue([Top EXCEPT !.pc = "search", !.order_to_alloc = o,
                                                 !.order = TopOrder])
    BY <1>8 DEF RemovePick
  <2> DEFINE f == [Top EXCEPT !.pc = "search", !.order_to_alloc = o, !.order = TopOrder]
  <2>2. Top.op = "remove"
    BY <1>8 DEF RemovePick, At
  <2>3. f.op = Top.op /\ f.op # "alloc"
    BY <1>2, <2>2 DEF Frame
  <2> HIDE DEF f
  <2> QED BY <1>1, <2>1, <2>3 DEF f
<1>9. CASE RemoveSearchLower
  <2> DEFINE f == [Top EXCEPT !.order = @ - 1]
  <2>1. Continue(f) /\ Top.op = "remove"
    BY <1>9 DEF RemoveSearchLower, At
  <2>2. f.op = Top.op /\ f.op # "alloc"
    BY <1>2, <2>1 DEF Frame
  <2> HIDE DEF f
  <2> QED BY <1>1, <2>1, <2>2
<1>10. CASE RemoveUnlink
  <2>1. \/ \E x : Continue([Top EXCEPT !.pc = "get_entry", !.entry = x])
        \/ \E o : Continue([Top EXCEPT !.pc = "pick", !.size = @ - Size(o), !.addr = @ + Size(o)])
    BY <1>10 DEF RemoveUnlink
  <2>2. CASE \E x : Continue([Top EXCEPT !.pc = "get_entry", !.entry = x])
    <3>1. PICK x : Continue([Top EXCEPT !.pc = "get_entry", !.entry = x])
      BY <2>2
    <3> DEFINE f == [Top EXCEPT !.pc = "get_entry", !.entry = x]
    <3>2. f.op = Top.op /\ f.pc = "get_entry"
      BY <1>2 DEF Frame
    <3> HIDE DEF f
    <3> QED BY <1>1, <3>1, <3>2 DEF f
  <2>3. CASE \E o : Continue([Top EXCEPT !.pc = "pick", !.size = @ - Size(o), !.addr = @ + Size(o)])
    <3>1. PICK o : Continue([Top EXCEPT !.pc = "pick", !.size = @ - Size(o), !.addr = @ + Size(o)])
      BY <2>3
    <3> DEFINE f == [Top EXCEPT !.pc = "pick", !.size = @ - Size(o), !.addr = @ + Size(o)]
    <3>2. f.op = Top.op /\ f.pc = "pick"
      BY <1>2 DEF Frame
    <3> HIDE DEF f
    <3> QED BY <1>1, <3>1, <3>2 DEF f
  <2> QED BY <2>1, <2>2, <2>3
<1> QED BY <1>3, <1>4, <1>5, <1>6, <1>7, <1>8, <1>9, <1>10

\* The steps of the search itself: the call stays an allocation.
LEMMA SearchSteps ==
    ASSUME SearchInv, PickOrder \/ SearchHigher \/ UseSmaller \/ SplitEnd
    PROVE  /\ depth > 0
           /\ \E f : /\ Continue(f) /\ f.op = Top.op
                     /\ f.op = "alloc" => Searched(f, g_free_lists')
<1>1. depth > 0 /\ ControlOK
  BY DEF SearchInv, PickOrder, SearchHigher, UseSmaller, SplitEnd, At
<1>2. Top \in Frame /\ LocalsOK(Top, g_free_lists) /\ g_free_lists \in [Orders -> Seq(Nat)]
  BY <1>1, TopOK DEF ControlOK, TypeOK
<1>3. CASE PickOrder
  <2>1. PICK o \in Orders :
            Continue([Top EXCEPT !.pc = "search", !.order_to_alloc = o, !.order = o + 1])
    BY <1>3 DEF PickOrder
  <2> DEFINE f == [Top EXCEPT !.pc = "search", !.order_to_alloc = o, !.order = o + 1]
  <2>2. f.op = Top.op /\ f.order_to_alloc = o /\ f.order = o + 1
    BY <1>2 DEF Frame
  <2> HIDE DEF f
  <2>3. Searched(f, g_free_lists')
    BY <2>2, OrdersAssumption DEF Searched, Orders
  <2> QED BY <1>1, <2>1, <2>2, <2>3 DEF f
<1>4. CASE SearchHigher
  <2> DEFINE f == [Top EXCEPT !.order = @ + 1]
  <2>1. /\ Continue(f) /\ Top.op = "alloc" /\ Top.pc = "search"
        /\ g_free_lists[Top.order] = <<>> /\ g_free_lists' = g_free_lists
    BY <1>4 DEF SearchHigher, At, UnchangedLists
  <2>2. f.op = Top.op /\ f.order_to_alloc = Top.order_to_alloc /\ f.order = Top.order + 1
    BY <1>2 DEF Frame
  <2> HIDE DEF f
  <2>3. \A q \in Orders : Top.order_to_alloc < q /\ q < Top.order => g_free_lists[q] = <<>>
    BY <1>1, <2>1 DEF SearchInv, Searched
  <2>4. Top.order \in Nat /\ \A q \in Orders : q \in Nat
    BY <1>2 DEF Frame, Orders
  <2>5. Searched(f, g_free_lists')
    BY <2>1, <2>2, <2>3, <2>4 DEF Searched
  <2> QED BY <1>1, <2>1, <2>2, <2>5
<1>5. CASE UseSmaller
  <2>1. PICK o \in Orders :
            /\ o < Top.order_to_alloc
            /\ \A q \in o + 1 .. Top.order_to_alloc : g_free_lists[q] = <<>>
            /\ Continue([Top EXCEPT !.order_to_alloc = o])
    BY <1>5 DEF UseSmaller
  <2> DEFINE f == [Top EXCEPT !.order_to_alloc = o]
  <2>2. f.op = Top.op /\ f.order_to_alloc = o /\ f.order = Top.order
    BY <1>2 DEF Frame
  <2> HIDE DEF f
  <2>3. /\ Top.op = "alloc" /\ Top.pc = "search" /\ g_free_lists' = g_free_lists
        /\ \/ Top.order = FRAME_ORDERS
           \/ Top.order = TopOrder /\ g_free_lists[TopOrder] = <<>>
    BY <1>5 DEF UseSmaller, NoLarger, At, UnchangedLists
  <2>4. Top.order \in Orders => g_free_lists[Top.order] = <<>>
    BY <2>3, OrdersAssumption DEF Orders
  <2>5. \A q \in Orders : Top.order_to_alloc < q /\ q < Top.order => g_free_lists[q] = <<>>
    BY <1>1, <2>3, <2>4 DEF SearchInv, Searched
  <2>6. \A q \in Orders : o < q /\ q < Top.order => g_free_lists[q] = <<>>
    <3>1. Top.order_to_alloc \in Orders
      BY <1>2 DEF Frame
    <3>2. \A q \in Orders : o < q /\ ~(Top.order_to_alloc < q) => q \in o + 1 .. Top.order_to_alloc
      BY <3>1, OrdersAssumption DEF Orders
    <3> QED BY <2>1, <2>5, <3>2
  <2>7. Searched(f, g_free_lists')
    BY <2>2, <2>3, <2>6 DEF Searched
  <2> QED BY <1>1, <2>1, <2>2, <2>7 DEF f
<1>6. CASE SplitEnd
  <2> DEFINE o == Top.order - 1
  <2> DEFINE f == [Top EXCEPT !.pc = "search", !.order = o]
  <2> DEFINE left == Top.entry
  <2> DEFINE right == left + Size(o)
  <2>1. /\ Continue(f) /\ Splitting(Top)
        /\ g_free_lists' = [g_free_lists EXCEPT ![o] = <<left, right>> \o @]
    BY <1>6 DEF SplitEnd
  <2>2. f.op = Top.op /\ f.order = o
    BY <1>2 DEF Frame
  <2>3. o \in Orders
    <3>1. Top.order \in Orders /\ Top.order_to_alloc \in Orders /\ Top.order_to_alloc < Top.order
      BY <1>2, <2>1 DEF LocalsOK, Frame
    <3> QED BY <3>1, OrdersAssumption DEF Orders
  <2>4. g_free_lists'[o] # <<>>
    <3>1. left \in Nat /\ right \in Nat /\ g_free_lists[o] \in Seq(Nat)
      BY <1>2, <2>3, SizePositive DEF Frame
    <3> HIDE DEF left, right, o
    <3>2. Len(<<left, right>> \o g_free_lists[o]) = 2 + Len(g_free_lists[o])
      BY <3>1
    <3>3. <<left, right>> \o g_free_lists[o] # <<>>
      BY <3>1, <3>2
    <3> QED BY <1>2, <2>1, <2>3, <3>3
  <2> HIDE DEF f, o
  <2>5. Searched(f, g_free_lists')
    BY <2>2, <2>3, <2>4 DEF Searched
  <2> QED BY <1>1, <2>1, <2>2, <2>5
<1> QED BY <1>3, <1>4, <1>5, <1>6

\* Giving up: with the orders above searched and those below looked at, there
\* is no block left.
LEMMA GiveUpEmpty == ASSUME SearchInv, GiveUp PROVE FreeBlocks = {}
<1>1. /\ depth > 0 /\ ControlOK /\ Top.op = "alloc" /\ Top.pc = "search"
      /\ \/ Top.order = FRAME_ORDERS
         \/ Top.order = TopOrder /\ g_free_lists[TopOrder] = <<>>
      /\ \A o \in 0 .. Top.order_to_alloc : g_free_lists[o] = <<>>
  BY DEF SearchInv, GiveUp, At, NoLarger
<1>2. Top.order_to_alloc \in Orders
  BY <1>1, TopOK DEF Frame
<1>3. Top.order \in Orders => g_free_lists[Top.order] = <<>>
  BY <1>1, OrdersAssumption DEF Orders
<1>4. \A q \in Orders : Top.order_to_alloc < q /\ q < Top.order => g_free_lists[q] = <<>>
  BY <1>1, <1>3 DEF SearchInv, Searched
<1>5. \A q \in Orders : g_free_lists[q] = <<>>
  <2> TAKE q \in Orders
  <2>1. CASE q <= Top.order_to_alloc
    <3>1. q \in 0 .. Top.order_to_alloc
      BY <1>2, <2>1, OrdersAssumption DEF Orders
    <3> QED BY <1>1, <3>1
  <2>2. CASE Top.order_to_alloc < q /\ q < Top.order
    BY <1>4, <2>2
  <2>3. CASE ~(q < Top.order)
    <3>1. Top.order = TopOrder /\ q = TopOrder
      BY <1>1, <2>3, OrdersAssumption DEF Orders, TopOrder
    <3> QED BY <1>3, <3>1
  <2>4. Top.order \in Nat /\ q \in Nat /\ Top.order_to_alloc \in Nat
    BY <1>1, <1>2, TopOK DEF Frame, Orders
  <2> QED BY <2>1, <2>2, <2>3, <2>4
<1>6. ToSet(<<>>) = {}
  BY DEF ToSet
<1> QED BY <1>5, <1>6 DEF FreeBlocks

\* An allocation that begins has gathered nothing, and is not in its search.
Begun(f) == f.op = "alloc" => f.pc # "search" /\ f.size = f.pages /\ f.chain = <<>>

\* A new call has just begun.
LEMMA CallTop ==
    ASSUME ControlOK, Environment
    PROVE  \/ UNCHANGED <<call, depth, g_free_lists>>
           \/ /\ depth = 0 /\ call'[2] = call[2]
              /\ depth' = 1
              /\ Begun(Top') /\ call'[1] = Top'
<1>1. call \in [{1, 2} -> Frame]
  BY DEF ControlOK, TypeOK
<1>2. ASSUME NEW f, Call(f)
      PROVE  depth = 0 /\ depth' = 1 /\ call'[2] = call[2] /\ Top' = f /\ call'[1] = Top'
  BY <1>1, <1>2 DEF Call, Idle, Top
<1>3. ASSUME NEW pages \in Requests, alloc_frames(pages)
      PROVE  \E f : Call(f) /\ Begun(f)
  <2> DEFINE f == NewFrame("alloc", "pick", pages)
  <2>1. Begun(f)
    BY DEF NewFrame, Begun
  <2> QED BY <1>3, <2>1 DEF alloc_frames
<1>4. ASSUME NEW pages \in Requests, alloc_frames_contiguos(pages)
      PROVE  \E f : Call(f) /\ Begun(f)
  <2> DEFINE n == NewFrame("contig", "search", pages)
  <2>1. PICK o \in Orders : Call([n EXCEPT !.order_to_alloc = o, !.order = o + 1])
    BY <1>4 DEF alloc_frames_contiguos
  <2>2. n \in Frame /\ n.op = "contig"
    <3>1. n \in Frame
      BY NewFrameType, RequestsAssumption DEF Ops, Pcs
    <3> QED BY <3>1 DEF NewFrame
  <2> DEFINE f == [n EXCEPT !.order_to_alloc = o, !.order = o + 1]
  <2> HIDE DEF n
  <2>3. f.op = "contig"
    BY <2>2 DEF Frame
  <2> HIDE DEF f
  <2> QED BY <2>1, <2>3 DEF f, Begun
<1>5. ASSUME NEW b \in held, free_frames_contiguos(b)
      PROVE  \E f : Call(f) /\ Begun(f)
  <2> DEFINE n == NewFrame("free", "get_entry", Size(b[2]))
  <2> DEFINE f == [n EXCEPT !.chain = <<b>>]
  <2>1. Call(f)
    BY <1>5 DEF free_frames_contiguos
  <2>2. n \in Frame /\ n.op = "free"
    <3>1. b \in Block
      BY DEF ControlOK, TypeOK
    <3>2. Size(b[2]) \in Nat
      BY <3>1, SizePositive DEF Block
    <3>3. n \in Frame
      BY <3>2, NewFrameType DEF Ops, Pcs
    <3> QED BY <3>3 DEF NewFrame
  <2> HIDE DEF n
  <2>3. f.op = "free"
    BY <2>2 DEF Frame
  <2> HIDE DEF f
  <2> QED BY <2>1, <2>3 DEF Begun
<1>6. ASSUME remove_range
      PROVE  \E f : Call(f) /\ Begun(f)
  <2> DEFINE n == NewFrame("remove", "pick", Head(boot).pages)
  <2> DEFINE f == [n EXCEPT !.addr = Head(boot).addr, !.keep = ~Head(boot).reclaim]
  <2>1. Call(f)
    BY <1>6 DEF remove_range
  <2>2. n \in Frame /\ n.op = "remove"
    <3>1. boot \in Seq(UnusableRange) /\ boot # <<>>
      BY <1>6 DEF remove_range, ControlOK, TypeOK
    <3>2. Head(boot) \in UnusableRange
      BY <3>1
    <3>3. Head(boot).pages \in Nat
      BY <3>2 DEF UnusableRange
    <3>4. n \in Frame
      BY <3>3, NewFrameType DEF Ops, Pcs
    <3> QED BY <3>4 DEF NewFrame
  <2> HIDE DEF n
  <2>3. f.op = "remove"
    BY <2>2 DEF Frame
  <2> HIDE DEF f
  <2> QED BY <2>1, <2>3 DEF Begun
<1>7. ASSUME NEW pages \in Requests, ContiguousTooLarge(pages)
      PROVE  UNCHANGED <<call, depth, g_free_lists>>
  BY <1>7 DEF ContiguousTooLarge, Stop
<1>8. CASE \E f : Call(f) /\ Begun(f)
  BY <1>2, <1>8
<1> QED BY <1>3, <1>4, <1>5, <1>6, <1>7, <1>8 DEF Environment

\* What a step does to the running calls: it stops, it begins or ends a call, a
\* refill begins or ends, it goes on with the call as it is, or it gives up.
LEMMA StepCases ==
    ASSUME SearchInv, [Next]_vars
    PROVE  \/ UNCHANGED <<call, depth, g_free_lists>>
           \/ depth = 0 /\ call'[2] = call[2] /\ depth' = 1 /\ Begun(Top') /\ call'[1] = Top'
           \/ depth' = 0 /\ call'[1] = NoFrame /\ call'[2] = call[2]
           \/ RefillEntryPool \/ RefillPagePool \/ RefillDone
           \/ /\ depth > 0
              /\ \E f : /\ Continue(f) /\ f.op = Top.op
                        /\ f.op = "alloc" => f.pc # "search" \/ Searched(f, g_free_lists')
           \/ GiveUp
<1>1. ControlOK /\ call \in [{1, 2} -> Frame]
  BY DEF SearchInv, ControlOK, TypeOK
<1>2. CASE Environment
  BY <1>1, <1>2, CallTop
<1>3. CASE AllocReturn \/ ReturnNothing \/ ContiguousTake \/ ContiguousFails
  <2>1. Return
    BY <1>3 DEF AllocReturn, ReturnNothing, ContiguousTake, ContiguousFails
  <2> QED BY <1>1, <2>1 DEF Return
<1>4. CASE ReadPastLists \/ RefillFails \/ ContiguousNullEntry
  BY <1>4 DEF ReadPastLists, RefillFails, ContiguousNullEntry, Stop
<1>5. CASE UNCHANGED vars
  BY <1>5 DEF vars
<1>6. CASE \/ TakeBlock \/ SplitBegin
           \/ FreeGetEntry \/ FreeBlock \/ MergeBuddies \/ MergeDone
           \/ RemovePick \/ RemoveSearchLower \/ RemoveUnlink
  BY <1>1, <1>6, OtherSteps
<1>7. CASE PickOrder \/ SearchHigher \/ UseSmaller \/ SplitEnd
  BY <1>7, SearchSteps
<1> QED BY <1>2, <1>3, <1>4, <1>5, <1>6, <1>7 DEF Next, Step, Halted

\* A refill does not continue a search: it begins one, or it ends and the call
\* below it still has to link the halves of its split.
LEMMA RefillTop ==
    ASSUME ControlOK, RefillEntryPool \/ RefillPagePool \/ RefillDone
    PROVE  /\ Top'.pc # "search"
           /\ \A l \in {1, 2} : call[l].op = "alloc" => call'[l].op # "rollback"
<1>1. call \in [{1, 2} -> Frame] /\ StackOK
  BY DEF ControlOK, TypeOK
<1>2. CASE RefillEntryPool
  <2> DEFINE f == [Top EXCEPT !.pc = "got_entry"]
  <2> DEFINE n == NewFrame("alloc", "pick", 1)
  <2>1. depth = 1 /\ depth' = 2 /\ call' = [call EXCEPT ![1] = f, ![2] = n]
    BY <1>2 DEF RefillEntryPool
  <2>2. Top = call[1] /\ Top \in Frame
    BY <1>1, <2>1 DEF Top
  <2>3. f.op = call[1].op /\ n.op = "alloc" /\ n.pc = "pick"
    BY <2>2 DEF Frame, NewFrame
  <2> HIDE DEF f, n
  <2>4. call'[1] = f /\ call'[2] = n
    BY <1>1, <2>1
  <2>5. Top' = n
    BY <2>1, <2>4 DEF Top
  <2> QED BY <2>3, <2>4, <2>5
<1>3. CASE RefillPagePool
  <2> DEFINE n == NewFrame("alloc", "pick", PAGE_POOL_THRESHOLD)
  <2>1. depth = 2 /\ depth > 0 /\ Continue(n)
    BY <1>3 DEF RefillPagePool
  <2>2. n.op = "alloc" /\ n.pc = "pick"
    BY DEF NewFrame
  <2> HIDE DEF n
  <2> QED BY <2>1, <2>2, ContinueTop
<1>4. CASE RefillDone
  <2>1. depth = 2 /\ depth' = 1 /\ call' = [call EXCEPT ![2] = NoFrame]
    BY <1>4 DEF RefillDone
  <2>2. call'[1] = call[1] /\ call'[2] = NoFrame /\ call[1].pc = "got_entry"
    BY <1>1, <2>1 DEF StackOK
  <2>3. Top' = call[1] /\ NoFrame.op = "none"
    BY <2>1, <2>2 DEF Top, NoFrame, NewFrame
  <2> QED BY <2>2, <2>3
<1> QED BY <1>2, <1>3, <1>4

\* Initially nothing runs, and every step keeps what the search relies on.
LEMMA SearchAlways == Spec => []SearchInv
<1>1. Init => SearchInv
  <2>1. Init => ControlOK /\ depth = 0
    BY InitControlOK DEF Init
  <2> QED BY <2>1 DEF SearchInv
<1>2. SearchInv /\ [Next]_vars => SearchInv'
  <2> SUFFICES ASSUME SearchInv, [Next]_vars PROVE SearchInv'
    OBVIOUS
  <2>1. ControlOK /\ ControlOK'
    BY NextControlOK DEF SearchInv
  <2>2. CASE UNCHANGED <<call, depth, g_free_lists>>
    BY <2>1, <2>2 DEF SearchInv, Top
  <2>3. CASE depth' = 1 /\ Begun(Top')
    BY <2>1, <2>3 DEF SearchInv, Begun
  <2>4. CASE depth' = 0
    BY <2>1, <2>4 DEF SearchInv
  <2>5. CASE RefillEntryPool \/ RefillPagePool \/ RefillDone
    BY <2>1, <2>5, RefillTop DEF SearchInv
  <2>6. CASE /\ depth > 0
             /\ \E f : /\ Continue(f) /\ f.op = Top.op
                       /\ f.op = "alloc" => f.pc # "search" \/ Searched(f, g_free_lists')
    <3>1. PICK f : /\ Continue(f) /\ f.op = Top.op
                   /\ f.op = "alloc" => f.pc # "search" \/ Searched(f, g_free_lists')
      BY <2>6
    <3>2. Top' = f
      BY <2>1, <2>6, <3>1, ContinueTop
    <3> QED BY <2>1, <3>1, <3>2 DEF SearchInv
  <2>7. CASE GiveUp
    <3> DEFINE f == [Top EXCEPT !.op = "rollback", !.pc = "free"]
    <3>1. Continue(f) /\ depth > 0
      BY <2>7 DEF GiveUp, At
    <3>2. f.pc = "free"
      BY <2>1, <3>1, TopOK DEF Frame
    <3> HIDE DEF f
    <3>3. Top' = f
      BY <2>1, <3>1, ContinueTop
    <3> QED BY <2>1, <3>2, <3>3 DEF SearchInv
  <2> QED BY <2>2, <2>3, <2>4, <2>5, <2>6, <2>7, StepCases
<1> QED BY <1>1, <1>2, PTL DEF Spec

\* alloc_frames reports failure only when not a single page is free, also when
\* refills have changed the lists under its search, in the outer call and in
\* the allocation of a refill.
THEOREM FailsOnlyWhenEmpty == Spec => GivesUpOnlyWhenEmpty
<1>1. SearchInv /\ [Next]_vars =>
          [\A l \in {1, 2} : call[l].op = "alloc" /\ call'[l].op = "rollback"
               => FreeBlocks = {}]_vars
  <2> SUFFICES ASSUME SearchInv, [Next]_vars,
                      NEW l \in {1, 2}, call[l].op = "alloc", call'[l].op = "rollback"
               PROVE  FreeBlocks = {}
    OBVIOUS
  <2>1. ControlOK /\ StackOK /\ call \in [{1, 2} -> Frame] /\ NoFrame.op = "none"
    BY DEF SearchInv, ControlOK, TypeOK, NoFrame, NewFrame
  <2>2. CASE UNCHANGED <<call, depth, g_free_lists>>
    BY <2>2
  <2>3. CASE depth = 0 /\ call'[2] = call[2]
    BY <2>1, <2>3 DEF StackOK
  <2>4. CASE call'[1] = NoFrame /\ call'[2] = call[2]
    BY <2>1, <2>4
  <2>5. CASE RefillEntryPool \/ RefillPagePool \/ RefillDone
    BY <2>1, <2>5, RefillTop
  <2>6. CASE depth > 0 /\ \E f : Continue(f) /\ f.op = Top.op
    <3>1. PICK f : Continue(f) /\ f.op = Top.op
      BY <2>6
    <3>2. call'[l] = IF l = depth THEN f ELSE call[l]
      BY <2>1, <2>6, <3>1, ContinueTop
    <3> QED BY <3>1, <3>2 DEF Top
  <2>7. CASE GiveUp
    BY <2>7, GiveUpEmpty
  <2> QED BY <2>2, <2>3, <2>4, <2>5, <2>6, <2>7, StepCases
<1> QED BY <1>1, SearchAlways, PTL DEF Spec, GivesUpOnlyWhenEmpty

-----------------------------------------------------------------------------
(* What alloc_frames has gathered.                                         *)

\* One step of the fold of TotalPages: the block b added to the pages so far.
Sum(n, b) == n + Size(b[2])
Total(chain) == FoldLeft(LAMBDA n, b : n + Size(b[2]), 0, chain)

\* The equation of the fold in AllocationExact, for the blocks 1 .. n.
Summed(f, chain, n) ==
    f = [s \in SUBSET (1 .. n) |->
            IF s = {} THEN 0 ELSE Sum(f[s \ {Max(s)}], chain[Max(s)])]

\* The equation has a solution, by induction on the number of blocks.
LEMMA SumExists ==
    ASSUME NEW chain
    PROVE  \A n \in Nat : \E f : Summed(f, chain, n)
<1> DEFINE S == {n \in Nat : \E f : Summed(f, chain, n)}
<1>1. 0 \in S
  <2> DEFINE f == [s \in SUBSET (1 .. 0) |-> 0]
  <2>1. \A s \in SUBSET (1 .. 0) : s = {}
    OBVIOUS
  <2>2. Summed(f, chain, 0)
    BY <2>1 DEF Summed
  <2> QED BY <2>2
<1>2. ASSUME NEW n \in Nat, n \in S PROVE n + 1 \in S
  <2>1. PICK f : Summed(f, chain, n)
    BY <1>2
  <2> DEFINE e == n + 1
  <2> DEFINE T == SUBSET (1 .. n)
  <2> DEFINE U == SUBSET (1 .. e)
  <2> DEFINE g == [s \in U |-> IF e \in s THEN Sum(f[s \ {e}], chain[e]) ELSE f[s]]
  <2>2. /\ \A s \in U : e \notin s => s \in T
        /\ \A s \in U : s \ {e} \in T
        /\ \A s \in T : s \in U /\ e \notin s
        /\ \A s \in U : e \in s => s # {} /\ \A x \in s : x \in Int /\ x <= e
        /\ e \in Int
    OBVIOUS
  <2>3. ASSUME NEW s \in U, e \in s PROVE Max(s) = e
    <3> HIDE DEF e, U
    <3> QED BY <2>2, <2>3, MaxIs
  <2>4. f = [s \in T |-> IF s = {} THEN 0 ELSE Sum(f[s \ {Max(s)}], chain[Max(s)])]
    BY <2>1 DEF Summed
  <2> HIDE DEF T, U, e
  <2>5. ASSUME NEW s \in U
        PROVE  g[s] = IF s = {} THEN 0 ELSE Sum(g[s \ {Max(s)}], chain[Max(s)])
    <3>1. CASE e \in s
      <4>1. Max(s) = e /\ s # {} /\ s \ {e} \in T
        BY <2>2, <2>3, <3>1
      <4>2. g[s \ {e}] = f[s \ {e}]
        BY <2>2, <4>1
      <4>3. g[s] = Sum(f[s \ {e}], chain[e])
        BY <3>1
      <4> QED BY <4>1, <4>2, <4>3
    <3>2. CASE e \notin s
      <4>1. s \in T /\ g[s] = f[s]
        BY <2>2, <3>2
      <4>2. s \ {Max(s)} \in T
        BY <4>1 DEF T
      <4>3. g[s \ {Max(s)}] = f[s \ {Max(s)}]
        BY <2>2, <4>2
      <4> QED BY <2>4, <4>1, <4>3
    <3> QED BY <3>1, <3>2
  <2>6. g = [s \in U |-> IF s = {} THEN 0 ELSE Sum(g[s \ {Max(s)}], chain[Max(s)])]
    BY <2>5
  <2>7. Summed(g, chain, n + 1)
    BY <2>6 DEF Summed, U, e
  <2> QED BY <2>7
<1>3. Nat \subseteq S
  <2> HIDE DEF S
  <2> QED BY <1>1, <1>2, NatSetInduction
<1> QED BY <1>3

\* A solution gives the sums block by block.
LEMMA SummedStep ==
    ASSUME NEW f, NEW chain, NEW N \in Nat, Summed(f, chain, N)
    PROVE  /\ f[1 .. 0] = 0
           /\ \A n \in Nat : n + 1 <= N => f[1 .. n + 1] = Sum(f[1 .. n], chain[n + 1])
<1>1. f[1 .. 0] = 0
  <2>1. 1 .. 0 = {} /\ {} \in SUBSET (1 .. N)
    OBVIOUS
  <2> QED BY <2>1 DEF Summed
<1>2. ASSUME NEW n \in Nat, n + 1 <= N PROVE f[1 .. n + 1] = Sum(f[1 .. n], chain[n + 1])
  <2> DEFINE s == 1 .. n + 1
  <2>1. n + 1 \in s /\ n + 1 \in Int /\ \A x \in s : x \in Int /\ x <= n + 1
    OBVIOUS
  <2>2. \A x : x \in s \ {n + 1} <=> x \in 1 .. n
    OBVIOUS
  <2>3. s \in SUBSET (1 .. N)
    BY <1>2
  <2> HIDE DEF s
  <2>4. s \ {n + 1} = 1 .. n /\ s # {}
    BY <2>1, <2>2
  <2>5. Max(s) = n + 1
    BY <2>1, MaxIs
  <2> QED BY <2>3, <2>4, <2>5 DEF Summed, s
<1> QED BY <1>1, <1>2

\* The fold is a solution.
LEMMA TotalSummed ==
    ASSUME NEW chain \in Seq(Block)
    PROVE  \E f : Summed(f, chain, Len(chain)) /\ Total(chain) = f[1 .. Len(chain)]
<1> DEFINE W == CHOOSE f : Summed(f, chain, Len(chain))
<1>1. Len(chain) \in Nat /\ DOMAIN chain = 1 .. Len(chain)
  OBVIOUS
<1>2. Summed(W, chain, Len(chain))
  BY <1>1, SumExists
<1>3. Total(chain) = W[1 .. Len(chain)]
  BY <1>1 DEF Total, FoldLeft, MapThenFoldSet, Summed, Sum
<1> QED BY <1>2, <1>3

\* A chain grows by the size of the block behind it.
LEMMA TotalAppend ==
    /\ Total(<<>>) = 0
    /\ \A chain \in Seq(Block), b \in Block :
           /\ Total(chain) \in Nat
           /\ Total(Append(chain, b)) = Total(chain) + Size(b[2])
<1>1. Total(<<>>) = 0
  <2>1. <<>> \in Seq(Block) /\ Len(<<>>) = 0
    OBVIOUS
  <2>2. PICK f : Summed(f, <<>>, 0) /\ Total(<<>>) = f[1 .. 0]
    BY <2>1, TotalSummed
  <2> QED BY <2>2, SummedStep
<1>2. ASSUME NEW chain \in Seq(Block), NEW b \in Block
      PROVE  Total(chain) \in Nat /\ Total(Append(chain, b)) = Total(chain) + Size(b[2])
  <2> DEFINE N == Len(chain)
  <2> DEFINE longer == Append(chain, b)
  <2>1. /\ N \in Nat /\ longer \in Seq(Block) /\ Len(longer) = N + 1 /\ longer[N + 1] = b
        /\ \A i \in 1 .. N : longer[i] = chain[i] /\ chain[i] \in Block
    OBVIOUS
  <2> HIDE DEF N, longer
  <2>2. PICK f : Summed(f, chain, N) /\ Total(chain) = f[1 .. N]
    BY TotalSummed DEF N
  <2>3. PICK g : Summed(g, longer, N + 1) /\ Total(longer) = g[1 .. N + 1]
    BY <2>1, TotalSummed
  <2>4. /\ f[1 .. 0] = 0 /\ \A n \in Nat : n + 1 <= N => f[1 .. n + 1] = Sum(f[1 .. n], chain[n + 1])
    BY <2>1, <2>2, SummedStep
  <2>5. /\ g[1 .. 0] = 0
        /\ \A n \in Nat : n + 1 <= N + 1 => g[1 .. n + 1] = Sum(g[1 .. n], longer[n + 1])
    <3>1. N + 1 \in Nat
      BY <2>1
    <3> QED BY <2>3, <3>1, SummedStep
  <2> DEFINE S == {n \in Nat : n <= N => f[1 .. n] = g[1 .. n] /\ f[1 .. n] \in Nat}
  <2>6. 0 \in S
    BY <2>4, <2>5
  <2>7. ASSUME NEW n \in Nat, n \in S PROVE n + 1 \in S
    <3> SUFFICES ASSUME n + 1 <= N
                 PROVE  f[1 .. n + 1] = g[1 .. n + 1] /\ f[1 .. n + 1] \in Nat
      OBVIOUS
    <3>1. n <= N /\ n + 1 <= N + 1 /\ n + 1 \in 1 .. N
      BY <2>1
    <3>2. f[1 .. n] = g[1 .. n] /\ f[1 .. n] \in Nat
      BY <2>7, <3>1
    <3>3. f[1 .. n + 1] = Sum(f[1 .. n], chain[n + 1]) /\ g[1 .. n + 1] = Sum(f[1 .. n], chain[n + 1])
      BY <2>1, <2>4, <2>5, <3>1, <3>2
    <3>4. chain[n + 1] \in Block
      BY <2>1, <3>1
    <3>5. Size(chain[n + 1][2]) \in Nat
      BY <3>4, SizePositive DEF Block
    <3>6. Sum(f[1 .. n], chain[n + 1]) \in Nat
      BY <3>2, <3>5 DEF Sum
    <3> QED BY <3>3, <3>6
  <2>8. f[1 .. N] = g[1 .. N] /\ f[1 .. N] \in Nat
    <3>1. Nat \subseteq S
      <4> HIDE DEF S
      <4> QED BY <2>6, <2>7, NatSetInduction
    <3> QED BY <2>1, <3>1
  <2>9. g[1 .. N + 1] = Sum(g[1 .. N], longer[N + 1])
    BY <2>1, <2>5
  <2> QED BY <2>1, <2>2, <2>3, <2>8, <2>9 DEF Sum, longer
<1> QED BY <1>1, <1>2

\* The blocks of an allocation and the size left make up the request.
Gathered(f) == f.op = "alloc" => f.size + Total(f.chain) = f.pages

\* A frame that agrees in these fields.
LEMMA GatheredSame ==
    ASSUME NEW f, NEW g, Gathered(g), f.op = g.op, f.size = g.size, f.chain = g.chain,
           f.pages = g.pages
    PROVE  Gathered(f)
BY DEF Gathered

\* A call that has just begun has gathered nothing.
LEMMA GatheredBegun ==
    ASSUME NEW f \in Frame, Begun(f) PROVE Gathered(f)
BY TotalAppend DEF Begun, Gathered, Frame

\* Steps after which the running call is an allocation only if it was one, and
\* has gathered what it had.
LEMMA GatheredContinue ==
    ASSUME ControlOK, AllocationExact,
           \/ PickOrder \/ SearchHigher \/ UseSmaller \/ GiveUp \/ TakeBlock
           \/ SplitBegin \/ SplitEnd
           \/ FreeGetEntry \/ FreeBlock \/ MergeBuddies \/ MergeDone
           \/ RemovePick \/ RemoveSearchLower \/ RemoveUnlink
    PROVE  depth > 0 /\ \E f : Continue(f) /\ Gathered(f)
<1>1. depth > 0
  BY DEF PickOrder, SearchHigher, UseSmaller, GiveUp, SplitEnd,
         TakeBlock, SplitBegin, FreeGetEntry, FreeBlock, MergeBuddies, MergeDone,
         Merging, RemovePick, RemoveSearchLower, RemoveUnlink, At
<1>2. Top \in Frame /\ LocalsOK(Top, g_free_lists)
  BY <1>1, TopOK
<1>3. Gathered(Top)
  <2>1. depth \in 0 .. 2
    BY DEF ControlOK, TypeOK
  <2>2. depth \in {1, 2}
    BY <1>1, <2>1
  <2> QED BY <2>2 DEF AllocationExact, Gathered, Total, Top
<1>4. CASE \/ FreeGetEntry \/ FreeBlock \/ MergeBuddies \/ MergeDone
           \/ RemovePick \/ RemoveSearchLower \/ RemoveUnlink
  <2>1. Top.op # "alloc"
    BY <1>4 DEF FreeGetEntry, FreeBlock, MergeBuddies, MergeDone,
                Merging, RemovePick, RemoveSearchLower, RemoveUnlink, At
  <2>2. PICK f : Continue(f) /\ f.op = Top.op
    BY <1>4, OtherSteps
  <2> QED BY <1>1, <2>1, <2>2 DEF Gathered
<1>5. CASE PickOrder
  <2>1. PICK o \in Orders :
            Continue([Top EXCEPT !.pc = "search", !.order_to_alloc = o, !.order = o + 1])
    BY <1>5 DEF PickOrder
  <2> DEFINE f == [Top EXCEPT !.pc = "search", !.order_to_alloc = o, !.order = o + 1]
  <2>2. f.op = Top.op /\ f.size = Top.size /\ f.chain = Top.chain /\ f.pages = Top.pages
    BY <1>2 DEF Frame
  <2> HIDE DEF f
  <2> QED BY <1>1, <1>3, <2>1, <2>2, GatheredSame DEF f
<1>6. CASE SearchHigher
  <2> DEFINE f == [Top EXCEPT !.order = @ + 1]
  <2>1. Continue(f)
    BY <1>6 DEF SearchHigher
  <2>2. f.op = Top.op /\ f.size = Top.size /\ f.chain = Top.chain /\ f.pages = Top.pages
    BY <1>2 DEF Frame
  <2> HIDE DEF f
  <2> QED BY <1>1, <1>3, <2>1, <2>2, GatheredSame
<1>7. CASE UseSmaller
  <2>1. PICK o \in Orders : Continue([Top EXCEPT !.order_to_alloc = o])
    BY <1>7 DEF UseSmaller
  <2> DEFINE f == [Top EXCEPT !.order_to_alloc = o]
  <2>2. f.op = Top.op /\ f.size = Top.size /\ f.chain = Top.chain /\ f.pages = Top.pages
    BY <1>2 DEF Frame
  <2> HIDE DEF f
  <2> QED BY <1>1, <1>3, <2>1, <2>2, GatheredSame DEF f
<1>8. CASE GiveUp
  <2> DEFINE f == [Top EXCEPT !.op = "rollback", !.pc = "free"]
  <2>1. Continue(f)
    BY <1>8 DEF GiveUp
  <2>2. f.op = "rollback"
    BY <1>2 DEF Frame
  <2> HIDE DEF f
  <2> QED BY <1>1, <2>1, <2>2 DEF Gathered
<1>9. CASE TakeBlock
  <2> DEFINE o == Top.order_to_alloc
  <2> DEFINE b == <<Head(g_free_lists[o]), o>>
  <2> DEFINE f == [Top EXCEPT !.pc = "pick", !.chain = Append(@, b), !.size = Remaining(@, o)]
  <2>1. Continue(f) /\ TakeHead(o) /\ Top.op = "alloc" /\ Top.pc = "search" /\ TypeOK
    BY <1>9 DEF TakeBlock, At, ControlOK
  <2>2. o \in Orders
    BY <1>2 DEF Frame
  <2>3. b \in Block /\ b[2] = o
    BY <2>1, <2>2, TakeHeadType DEF Block
  <2>4. f.op = "alloc" /\ f.size = Top.size - Size(o) /\ f.chain = Append(Top.chain, b)
        /\ f.pages = Top.pages
    BY <1>2, <2>1 DEF Frame, Remaining
  <2>5. Top.chain \in Seq(Block) /\ Top.size \in Nat /\ Top.pages \in Nat
    BY <1>2 DEF Frame
  <2>6. Top.size + Total(Top.chain) = Top.pages
    BY <1>3, <2>1 DEF Gathered
  <2> HIDE DEF f, b, o
  <2>7. Total(Top.chain) \in Nat /\ Total(f.chain) = Total(Top.chain) + Size(o)
    BY <2>3, <2>4, <2>5, TotalAppend
  <2>8. Size(o) \in Nat
    BY <2>2, SizePositive
  <2>9. f.size + Total(f.chain) = f.pages
    BY <2>4, <2>5, <2>6, <2>7, <2>8
  <2> QED BY <1>1, <2>1, <2>9 DEF Gathered
<1>10. CASE SplitBegin
  <2> DEFINE f == [Top EXCEPT !.pc = "get_entry", !.order = SplitOrder,
                              !.entry = Head(g_free_lists[SplitOrder])]
  <2>1. Continue(f)
    BY <1>10 DEF SplitBegin
  <2>2. f.op = Top.op /\ f.size = Top.size /\ f.chain = Top.chain /\ f.pages = Top.pages
    BY <1>2 DEF Frame
  <2> HIDE DEF f
  <2> QED BY <1>1, <1>3, <2>1, <2>2, GatheredSame
<1>11. CASE SplitEnd
  <2> DEFINE f == [Top EXCEPT !.pc = "search", !.order = Top.order - 1]
  <2>1. Continue(f)
    BY <1>11 DEF SplitEnd
  <2>2. f.op = Top.op /\ f.size = Top.size /\ f.chain = Top.chain /\ f.pages = Top.pages
    BY <1>2 DEF Frame
  <2> HIDE DEF f
  <2> QED BY <1>1, <1>3, <2>1, <2>2, GatheredSame
<1> QED BY <1>4, <1>5, <1>6, <1>7, <1>8, <1>9, <1>10, <1>11

\* A refill begins with nothing, and the call below it keeps what it has.
LEMMA GatheredRefill ==
    ASSUME ControlOK, \A l \in {1, 2} : Gathered(call[l]),
           RefillEntryPool \/ RefillPagePool \/ RefillDone
    PROVE  \A l \in {1, 2} : Gathered(call'[l])
<1>1. call \in [{1, 2} -> Frame] /\ StackOK
  BY DEF ControlOK, TypeOK
<1>2. \A n : Gathered(NewFrame("alloc", "pick", n)) \/ n \notin Nat
  <2> SUFFICES ASSUME NEW n \in Nat PROVE Gathered(NewFrame("alloc", "pick", n))
    OBVIOUS
  <2> DEFINE f == NewFrame("alloc", "pick", n)
  <2>1. f \in Frame
    BY NewFrameType DEF Ops, Pcs
  <2>2. Begun(f)
    BY DEF NewFrame, Begun
  <2> HIDE DEF f
  <2>3. Gathered(f)
    BY <2>1, <2>2, GatheredBegun
  <2> QED BY <2>3 DEF f
<1>3. Gathered(NoFrame)
  BY DEF NoFrame, NewFrame, Gathered
<1>4. CASE RefillEntryPool
  <2> DEFINE f == [Top EXCEPT !.pc = "got_entry"]
  <2> DEFINE n == NewFrame("alloc", "pick", 1)
  <2>1. depth = 1 /\ call' = [call EXCEPT ![1] = f, ![2] = n]
    BY <1>4 DEF RefillEntryPool
  <2>2. Top = call[1] /\ Top \in Frame
    BY <1>1, <2>1 DEF Top
  <2>3. f.op = Top.op /\ f.size = Top.size /\ f.chain = Top.chain /\ f.pages = Top.pages
    BY <2>2 DEF Frame
  <2>4. Gathered(n)
    BY <1>2
  <2> HIDE DEF f, n
  <2>5. Gathered(f)
    BY <2>2, <2>3, GatheredSame
  <2>6. call'[1] = f /\ call'[2] = n
    BY <1>1, <2>1
  <2> QED BY <2>4, <2>5, <2>6
<1>5. CASE RefillPagePool
  <2> DEFINE n == NewFrame("alloc", "pick", PAGE_POOL_THRESHOLD)
  <2>1. depth = 2 /\ depth > 0 /\ Continue(n)
    BY <1>5 DEF RefillPagePool
  <2>2. Gathered(n)
    BY <1>2, RequestsAssumption
  <2> HIDE DEF n
  <2> QED BY <2>1, <2>2, ContinueTop
<1>6. CASE RefillDone
  <2>1. call'[1] = call[1] /\ call'[2] = NoFrame
    BY <1>1, <1>6 DEF RefillDone
  <2> QED BY <1>3, <2>1
<1> QED BY <1>4, <1>5, <1>6

\* The blocks alloc_frames has gathered make up the request exactly, also when
\* it fell back to smaller blocks, was interrupted by a refill or is one.
THEOREM AllocationsAlwaysExact == Spec => []AllocationExact
<1> DEFINE Inv == \A l \in {1, 2} : Gathered(call[l])
<1>1. AllocationExact <=> Inv
  BY DEF AllocationExact, Gathered, Total
<1>2. Init => Inv
  <2> SUFFICES ASSUME Init PROVE Inv
    OBVIOUS
  <2>1. call[1] = NoFrame /\ call[2] = NoFrame /\ NoFrame.op = "none"
    BY DEF Init, NoFrame, NewFrame
  <2> QED BY <2>1 DEF Gathered
<1>3. SearchInv /\ Inv /\ [Next]_vars => Inv'
  <2> SUFFICES ASSUME SearchInv, Inv, [Next]_vars, NEW l \in {1, 2} PROVE Gathered(call'[l])
    OBVIOUS
  <2>1. ControlOK /\ ControlOK' /\ AllocationExact /\ NoFrame.op = "none"
    BY <1>1, NextControlOK DEF SearchInv, NoFrame, NewFrame
  <2>2. CASE UNCHANGED call
    BY <2>2
  <2>3. CASE depth' = 1 /\ Begun(Top') /\ call'[2] = call[2] /\ call'[1] = Top'
    <3>1. Top' \in Frame
      BY <2>1, <2>3 DEF ControlOK, TypeOK
    <3>2. Gathered(Top')
      BY <2>3, <3>1, GatheredBegun
    <3> QED BY <2>3, <3>2
  <2>4. CASE call'[1] = NoFrame /\ call'[2] = call[2]
    BY <2>1, <2>4 DEF Gathered
  <2>5. CASE RefillEntryPool \/ RefillPagePool \/ RefillDone
    BY <2>1, <2>5, GatheredRefill
  <2>6. CASE \/ PickOrder \/ SearchHigher \/ UseSmaller \/ GiveUp \/ TakeBlock
             \/ SplitBegin \/ SplitEnd
             \/ FreeGetEntry \/ FreeBlock \/ MergeBuddies \/ MergeDone
             \/ RemovePick \/ RemoveSearchLower \/ RemoveUnlink
    <3>1. PICK f : Continue(f) /\ Gathered(f) /\ depth > 0
      BY <2>1, <2>6, GatheredContinue
    <3>2. call'[l] = IF l = depth THEN f ELSE call[l]
      BY <2>1, <3>1, ContinueTop
    <3> QED BY <3>1, <3>2
  <2>7. CASE Environment
    BY <2>1, <2>2, <2>3, <2>7, CallTop
  <2>8. CASE \/ AllocReturn \/ ReturnNothing \/ ContiguousTake \/ ContiguousFails
             \/ ReadPastLists \/ RefillFails \/ ContiguousNullEntry
    <3>1. CASE AllocReturn \/ ReturnNothing \/ ContiguousTake \/ ContiguousFails
      <4>1. call \in [{1, 2} -> Frame] /\ call' = [call EXCEPT ![1] = NoFrame]
        BY <2>1, <3>1 DEF AllocReturn, ReturnNothing, ContiguousTake, ContiguousFails, Return,
                          ControlOK, TypeOK
      <4>2. call'[1] = NoFrame /\ call'[2] = call[2]
        BY <4>1
      <4> QED BY <2>4, <4>2
    <3>2. CASE ReadPastLists \/ RefillFails \/ ContiguousNullEntry
      BY <2>2, <3>2 DEF ReadPastLists, RefillFails, ContiguousNullEntry, Stop
    <3> QED BY <2>8, <3>1, <3>2
  <2>9. CASE UNCHANGED vars
    BY <2>2, <2>9 DEF vars
  <2> QED BY <2>5, <2>6, <2>7, <2>8, <2>9 DEF Next, Step, Halted
<1> HIDE DEF Inv
<1> QED BY <1>1, <1>2, <1>3, SearchAlways, PTL DEF Spec

-----------------------------------------------------------------------------
(* The blocks partition the memory: the inductive invariant.               *)

\* The blocks in a family of lists.
FreeOf(lists) == UNION {{<<a, o>> : a \in ToSet(lists[o])} : o \in Orders}

\* What the running call works on, and what a call suspended under it does.
Running == IF depth = 0 THEN {} ELSE InHand(call[depth])
Suspended == IF depth = 2 THEN InHand(call[1]) ELSE {}

\* Everybody who can have a block: the lists, the callers, nobody for ever, the
\* running call and the suspended one.
Separate(F, H, P, R, S) ==
    /\ F \cap H = {} /\ F \cap P = {} /\ F \cap R = {} /\ F \cap S = {}
    /\ H \cap P = {} /\ H \cap R = {} /\ H \cap S = {}
    /\ P \cap R = {} /\ P \cap S = {}
    /\ R \cap S = {}

Apart(T) == \A b, c \in T : b # c => Pages(b[1], b[2]) \cap Pages(c[1], c[2]) = {}
Covered(T) == UNION {Pages(b[1], b[2]) : b \in T}

\* Blocks that lie on a multiple of their size tile the memory.
Tiling(T) ==
    /\ T \subseteq Block
    /\ Apart(T)
    /\ Covered(T) = 0 .. MemoryPages - 1
    /\ \A b \in T : b[1] % Size(b[2]) = 0

Tiles == FreeBlocks \cup held \cup pinned \cup Running \cup Suspended

\* The bit of a pair says whether exactly one half is in F.
Bits(F, bm) ==
    \A o \in 0 .. FRAME_ORDERS - 2 : \A k \in Nat :
        k \in bm[o] <=> ~(<<k * Size(o + 1), o>> \in F <=> <<k * Size(o + 1) + Size(o), o>> \in F)

\* A call gathers a block once, and what it splits is not among them.
HandOK(f) ==
    /\ IsInjective(f.chain)
    /\ f.op \in {"contig", "remove"} => f.chain = <<>>
    /\ Splitting(f) => <<f.entry, f.order>> \notin ToSet(f.chain)

\* While free_frames merges, the block it merges heads its list.
MergeOK(f, lists) ==
    f.pc = "merge" => lists[f.order] # <<>> /\ Head(lists[f.order]) = f.entry

PartitionInv ==
    /\ ControlOK
    /\ Separate(FreeBlocks, held, pinned, Running, Suspended)
    /\ Tiling(Tiles)
    /\ Bits(FreeBlocks, buddy_map)
    /\ \A o \in Orders : IsInjective(g_free_lists[o])
    /\ \A l \in {1, 2} : HandOK(call[l])
    /\ depth > 0 => MergeOK(Top, g_free_lists)

-----------------------------------------------------------------------------
(* The lists and the blocks in them.                                       *)

\* A block is an address and an order.
LEMMA BlockPair == \A b \in Block : b = <<b[1], b[2]>> /\ b[1] \in Nat /\ b[2] \in Orders
BY DEF Block

\* What is in the lists, address by address.
LEMMA FreeElement ==
    ASSUME NEW lists, NEW a, NEW o \in Orders
    PROVE  <<a, o>> \in FreeOf(lists) <=> a \in ToSet(lists[o])
BY DEF FreeOf

\* What is in the lists are blocks.
LEMMA FreeType ==
    ASSUME NEW lists \in [Orders -> Seq(Nat)]
    PROVE  /\ FreeOf(lists) \subseteq Block
           /\ \A b \in FreeOf(lists) : b = <<b[1], b[2]>> /\ b[2] \in Orders
<1>1. ASSUME NEW o \in Orders, NEW a \in ToSet(lists[o]) PROVE a \in Nat
  BY <1>1, ToSetElement
<1> QED BY <1>1 DEF FreeOf, Block

\* The lists new are the lists of before, without address a in list o.
Without(new, lists, o, a) ==
    /\ ToSet(new[o]) = ToSet(lists[o]) \ {a}
    /\ \A q \in Orders : q # o => new[q] = lists[q]

\* ... or with it.
With(new, lists, o, a) ==
    /\ ToSet(new[o]) = ToSet(lists[o]) \cup {a}
    /\ \A q \in Orders : q # o => new[q] = lists[q]

\* A list of which an address a disappears.
LEMMA FreeTake ==
    ASSUME NEW lists \in [Orders -> Seq(Nat)], NEW new \in [Orders -> Seq(Nat)],
           NEW o \in Orders, NEW a \in Nat, Without(new, lists, o, a)
    PROVE  \A b : b \in FreeOf(new) <=> b \in FreeOf(lists) /\ b # <<a, o>>
<1>1. ASSUME NEW x \in Nat, NEW q \in Orders
      PROVE  <<x, q>> \in FreeOf(new) <=> <<x, q>> \in FreeOf(lists) \ {<<a, o>>}
  <2>1. CASE q = o
    BY <2>1, FreeElement DEF Without
  <2>2. CASE q # o
    <3>1. <<x, q>> # <<a, o>>
      BY <2>2
    <3> QED BY <2>2, <3>1, FreeElement DEF Without
  <2> QED BY <2>1, <2>2
<1>2. FreeOf(new) \subseteq Block /\ FreeOf(lists) \ {<<a, o>>} \subseteq Block
  BY FreeType
<1>3. \A b \in Block : b \in FreeOf(new) <=> b \in FreeOf(lists) \ {<<a, o>>}
  BY <1>1, BlockPair
<1>4. FreeOf(new) = FreeOf(lists) \ {<<a, o>>}
  BY <1>2, <1>3
<1> QED BY <1>4

\* A list to which an address a comes.
LEMMA FreePut ==
    ASSUME NEW lists \in [Orders -> Seq(Nat)], NEW new \in [Orders -> Seq(Nat)],
           NEW o \in Orders, NEW a \in Nat, With(new, lists, o, a)
    PROVE  \A b : b \in FreeOf(new) <=> b \in FreeOf(lists) \/ b = <<a, o>>
<1>1. ASSUME NEW x \in Nat, NEW q \in Orders
      PROVE  <<x, q>> \in FreeOf(new) <=> <<x, q>> \in FreeOf(lists) \cup {<<a, o>>}
  <2>1. CASE q = o
    BY <2>1, FreeElement DEF With
  <2>2. CASE q # o
    <3>1. <<x, q>> # <<a, o>>
      BY <2>2
    <3> QED BY <2>2, <3>1, FreeElement DEF With
  <2> QED BY <2>1, <2>2
<1>2. FreeOf(new) \subseteq Block /\ FreeOf(lists) \cup {<<a, o>>} \subseteq Block
  <2>1. <<a, o>> \in Block
    BY DEF Block
  <2> QED BY <2>1, FreeType
<1>3. \A b \in Block : b \in FreeOf(new) <=> b \in FreeOf(lists) \cup {<<a, o>>}
  BY <1>1, BlockPair
<1>4. FreeOf(new) = FreeOf(lists) \cup {<<a, o>>}
  BY <1>2, <1>3
<1> QED BY <1>4

-----------------------------------------------------------------------------
(* Splitting a block and joining two keeps a tiling.                       *)

\* The pages of a set of blocks.
LEMMA CoveredPage ==
    ASSUME NEW T, NEW p
    PROVE  p \in Covered(T) <=> \E b \in T : p \in Pages(b[1], b[2])
BY DEF Covered

\* The two halves of a block.
LEMMA Halves ==
    ASSUME NEW a \in Nat, NEW o \in Orders, o + 1 \in Orders
    PROVE  /\ Size(o) \in Nat \ {0} /\ Size(o + 1) = 2 * Size(o)
           /\ Pages(a, o + 1) = Pages(a, o) \cup Pages(a + Size(o), o)
           /\ Pages(a, o) \cap Pages(a + Size(o), o) = {}
           /\ a \in Pages(a, o) /\ a + Size(o) \in Pages(a + Size(o), o)
<1>1. Size(o) \in Nat \ {0}
  BY SizePositive
<1>2. Size(o + 1) = 2 * Size(o)
  <2>1. o \in Nat /\ o + 1 # 0 /\ (o + 1) - 1 = o
    BY OrdersAssumption DEF Orders
  <2>2. o + 1 \in Orders \ {0}
    BY <2>1
  <2> QED BY <2>1, <2>2, SizesAssumption DEF Size
<1> QED BY <1>1, <1>2 DEF Pages

\* A block in two: the halves were not blocks of the tiling before.
LEMMA SplitTiles ==
    ASSUME NEW T, Tiling(T), NEW a \in Nat, NEW o \in Orders, o + 1 \in Orders,
           <<a, o + 1>> \in T
    PROVE  /\ <<a, o>> \notin T /\ <<a + Size(o), o>> \notin T /\ a # a + Size(o)
           /\ Tiling((T \ {<<a, o + 1>>}) \cup {<<a, o>>, <<a + Size(o), o>>})
<1> DEFINE b == <<a, o + 1>>
<1> DEFINE l == <<a, o>>
<1> DEFINE r == <<a + Size(o), o>>
<1> DEFINE U == (T \ {b}) \cup {l, r}
<1> DEFINE Pg(c) == Pages(c[1], c[2])
<1>1. /\ Size(o) \in Nat \ {0} /\ Size(o + 1) = 2 * Size(o)
      /\ Pg(b) = Pg(l) \cup Pg(r) /\ Pg(l) \cap Pg(r) = {}
      /\ a \in Pg(l) /\ a + Size(o) \in Pg(r)
  BY Halves
<1>2. l # b /\ r # b /\ l # r /\ a # a + Size(o) /\ a + Size(o) \in Nat
  <2>1. o # o + 1 /\ a # a + Size(o) /\ a + Size(o) \in Nat
    BY <1>1 DEF Orders
  <2> QED BY <2>1
<1>3. l[1] = a /\ l[2] = o /\ r[1] = a + Size(o) /\ r[2] = o /\ b[1] = a /\ b[2] = o + 1
  OBVIOUS
<1>4. l \in Block /\ r \in Block
  BY <1>2 DEF Block
<1>5. b \in T
  OBVIOUS
<1> HIDE DEF b, l, r, Pg
<1>6. \A c \in T : c # b => Pg(c) \cap Pg(b) = {}
  BY <1>5 DEF Tiling, Apart, Pg
<1>7. l \notin T /\ r \notin T
  BY <1>1, <1>2, <1>6
<1>8. \A c, d \in U : c # d => Pg(c) \cap Pg(d) = {}
  <2>1. \A c, d \in T : c # d => Pg(c) \cap Pg(d) = {}
    BY DEF Tiling, Apart, Pg
  <2>2. \A c \in T \ {b} : Pg(c) \cap Pg(l) = {} /\ Pg(c) \cap Pg(r) = {}
    BY <1>1, <1>6
  <2> QED BY <1>1, <2>1, <2>2
<1>9. Covered(U) = Covered(T)
  <2>1. \A p : p \in Covered(T) <=> \E c \in T : p \in Pg(c)
    BY CoveredPage DEF Pg
  <2>2. \A p : p \in Covered(U) <=> \E c \in U : p \in Pg(c)
    BY CoveredPage DEF Pg
  <2>3. \A p : p \in Covered(T) <=> p \in Covered(U)
    BY <1>1, <1>5, <2>1, <2>2
  <2> QED BY <2>3
<1>10. \A c \in U : c[1] % Size(c[2]) = 0
  <2>1. \A c \in T : c[1] % Size(c[2]) = 0
    BY DEF Tiling
  <2>2. a % Size(o + 1) = 0
    BY <1>3, <1>5, <2>1
  <2>3. a % Size(o) = 0 /\ (a + Size(o)) % Size(o) = 0
    BY <1>1, <2>2, AlignedHalves
  <2>4. l[1] % Size(l[2]) = 0 /\ r[1] % Size(r[2]) = 0
    BY <1>3, <2>3
  <2> QED BY <2>1, <2>4
<1>11. U \subseteq Block
  BY <1>4 DEF Tiling
<1>12. Tiling(U)
  BY <1>8, <1>9, <1>10, <1>11 DEF Tiling, Apart, Pg
<1> QED BY <1>2, <1>7, <1>12 DEF b, l, r

\* Two buddies into one block.
LEMMA JoinTiles ==
    ASSUME NEW T, Tiling(T), NEW a \in Nat, NEW o \in Orders, o + 1 \in Orders,
           <<a, o>> \in T, <<a + Size(o), o>> \in T, a % Size(o + 1) = 0
    PROVE  /\ <<a, o + 1>> \notin T
           /\ Tiling((T \ {<<a, o>>, <<a + Size(o), o>>}) \cup {<<a, o + 1>>})
<1> DEFINE b == <<a, o + 1>>
<1> DEFINE l == <<a, o>>
<1> DEFINE r == <<a + Size(o), o>>
<1> DEFINE U == (T \ {l, r}) \cup {b}
<1> DEFINE Pg(c) == Pages(c[1], c[2])
<1>1. /\ Size(o) \in Nat \ {0} /\ Size(o + 1) = 2 * Size(o)
      /\ Pg(b) = Pg(l) \cup Pg(r) /\ Pg(l) \cap Pg(r) = {}
      /\ a \in Pg(l) /\ a + Size(o) \in Pg(r)
  BY Halves
<1>2. l # b
  <2>1. o # o + 1
    BY DEF Orders
  <2> QED BY <2>1
<1>3. b[1] = a /\ b[2] = o + 1 /\ b \in Block
  BY DEF Block
<1>5. l \in T /\ r \in T
  OBVIOUS
<1> HIDE DEF b, l, r, Pg
<1>6. \A c, d \in T : c # d => Pg(c) \cap Pg(d) = {}
  BY DEF Tiling, Apart, Pg
<1>7. b \notin T
  BY <1>1, <1>2, <1>5, <1>6
<1>8. \A c, d \in U : c # d => Pg(c) \cap Pg(d) = {}
  <2>1. \A c \in T \ {l, r} : Pg(c) \cap Pg(b) = {}
    BY <1>1, <1>5, <1>6
  <2> QED BY <1>6, <2>1
<1>9. Covered(U) = Covered(T)
  <2>1. \A p : p \in Covered(T) <=> \E c \in T : p \in Pg(c)
    BY CoveredPage DEF Pg
  <2>2. \A p : p \in Covered(U) <=> \E c \in U : p \in Pg(c)
    BY CoveredPage DEF Pg
  <2>3. \A p : p \in Covered(T) <=> p \in Covered(U)
    BY <1>1, <1>5, <2>1, <2>2
  <2> QED BY <2>3
<1>10. \A c \in U : c[1] % Size(c[2]) = 0
  <2>1. \A c \in T : c[1] % Size(c[2]) = 0
    BY DEF Tiling
  <2>2. b[1] % Size(b[2]) = 0
    BY <1>3
  <2> QED BY <2>1, <2>2
<1>11. Tiling(U)
  BY <1>3, <1>8, <1>9, <1>10 DEF Tiling, Apart, Pg
<1> QED BY <1>7, <1>11 DEF b, l, r

-----------------------------------------------------------------------------
(* The buddy bits.                                                         *)

\* One block comes or goes, and its bit is toggled.
LEMMA ToggleBits ==
    ASSUME NEW bm \in [0 .. FRAME_ORDERS - 2 -> SUBSET Nat], NEW F, NEW G, Bits(F, bm),
           NEW a \in Nat, NEW o \in Orders, a % Size(o) = 0,
           \A b : b # <<a, o>> => (b \in F <=> b \in G),
           <<a, o>> \in F <=> <<a, o>> \notin G
    PROVE  Bits(G, toggle_buddy_bit(bm, a, o))
<1> DEFINE new == toggle_buddy_bit(bm, a, o)
<1> DEFINE Exact(bits, E, p, k) ==
        k \in bits[p] <=>
            ~(<<k * Size(p + 1), p>> \in E <=> <<k * Size(p + 1) + Size(p), p>> \in E)
<1>1. ASSUME NEW p \in 0 .. FRAME_ORDERS - 2, p # o, NEW k \in Nat PROVE Exact(new, G, p, k)
  <2>1. new[p] = bm[p]
    BY <1>1 DEF toggle_buddy_bit
  <2>2. \A x : <<x, p>> # <<a, o>>
    BY <1>1
  <2>3. Exact(bm, F, p, k)
    BY DEF Bits
  <2> QED BY <2>1, <2>2, <2>3
<1>2. ASSUME o \in 0 .. FRAME_ORDERS - 2, NEW k \in Nat PROVE Exact(new, G, o, k)
  <2>1. o + 1 \in Orders /\ o # TopOrder
    BY <1>2, OrdersAssumption DEF Orders, TopOrder
  <2>2. Size(o) \in Nat \ {0} /\ Size(o + 1) = 2 * Size(o)
    BY <2>1, Halves
  <2> DEFINE i == calc_buddy_index(a, o)
  <2> DEFINE left == k * Size(o + 1)
  <2>3. new[o] = (bm[o] \ {i}) \cup ({i} \ bm[o])
    BY <1>2, <2>1 DEF toggle_buddy_bit, SymDiff
  <2>4. k = i <=> a = left \/ a = left + Size(o)
    <3> DEFINE n == Size(o)
    <3>1. n \in Nat \ {0} /\ a % n = 0 /\ Size(o + 1) = 2 * n
      BY <2>2
    <3>2. i = (a \div n) \div 2
      BY DEF calc_buddy_index
    <3> HIDE DEF n, i
    <3>3. k = (a \div n) \div 2 <=> a = k * (2 * n) \/ a = k * (2 * n) + n
      BY <3>1, PairIndex
    <3> QED BY <3>1, <3>2, <3>3 DEF n
  <2>5. left # left + Size(o)
    <3>1. left \in Nat
      BY <2>2
    <3> QED BY <2>2, <3>1
  <2>6. Exact(bm, F, o, k)
    BY <1>2 DEF Bits
  <2> HIDE DEF i, left, new
  <2>7. k \in new[o] <=> ~(<<left, o>> \in G <=> <<left + Size(o), o>> \in G)
    <3>1. k \in bm[o] <=> ~(<<left, o>> \in F <=> <<left + Size(o), o>> \in F)
      BY <2>6 DEF left
    <3>2. CASE k = i
      <4>1. k \in new[o] <=> k \notin bm[o]
        BY <2>3, <3>2
      <4>2. CASE a = left
        <5>1. <<left + Size(o), o>> # <<a, o>>
          BY <2>5, <4>2
        <5> QED BY <3>1, <4>1, <4>2, <5>1
      <4>3. CASE a = left + Size(o)
        <5>1. <<left, o>> # <<a, o>>
          BY <2>5, <4>3
        <5> QED BY <3>1, <4>1, <4>3, <5>1
      <4> QED BY <2>4, <3>2, <4>2, <4>3
    <3>3. CASE k # i
      <4>1. k \in new[o] <=> k \in bm[o]
        BY <2>3, <3>3
      <4>2. <<left + Size(o), o>> # <<a, o>> /\ <<left, o>> # <<a, o>>
        BY <2>4, <3>3
      <4> QED BY <3>1, <4>1, <4>2
    <3> QED BY <3>2, <3>3
  <2> QED BY <2>7 DEF left
<1> QED BY <1>1, <1>2 DEF Bits

\* Both halves of a pair come or go together, and their bit stays as it is.
LEMMA PairBits ==
    ASSUME NEW bm, NEW F, NEW G, Bits(F, bm),
           NEW a \in Nat, NEW o \in Orders, o + 1 \in Orders, a % Size(o + 1) = 0,
           \A b : b # <<a, o>> /\ b # <<a + Size(o), o>> => (b \in F <=> b \in G),
           <<a, o>> \in F <=> <<a + Size(o), o>> \in F,
           <<a, o>> \in G <=> <<a + Size(o), o>> \in G
    PROVE  Bits(G, bm)
<1> DEFINE Exact(E, p, k) ==
        k \in bm[p] <=>
            ~(<<k * Size(p + 1), p>> \in E <=> <<k * Size(p + 1) + Size(p), p>> \in E)
<1>1. ASSUME NEW p \in 0 .. FRAME_ORDERS - 2, p # o, NEW k \in Nat PROVE Exact(G, p, k)
  <2>1. \A x : <<x, p>> # <<a, o>> /\ <<x, p>> # <<a + Size(o), o>>
    BY <1>1
  <2>2. Exact(F, p, k)
    BY DEF Bits
  <2> QED BY <2>1, <2>2
<1>2. ASSUME o \in 0 .. FRAME_ORDERS - 2, NEW k \in Nat PROVE Exact(G, o, k)
  <2>1. Size(o) \in Nat \ {0} /\ Size(o + 1) = 2 * Size(o) /\ Size(o + 1) \in Nat \ {0}
    BY Halves, SizePositive
  <2> DEFINE j == a \div Size(o + 1)
  <2>2. j \in Nat /\ a = j * Size(o + 1)
    BY <2>1, AlignedMultiple
  <2> DEFINE left == k * Size(o + 1)
  <2>3. left \in Nat /\ left # a + Size(o) /\ a # left + Size(o)
    <3>1. /\ k * (2 * Size(o)) # j * (2 * Size(o)) + Size(o)
          /\ j * (2 * Size(o)) # k * (2 * Size(o)) + Size(o)
      BY <2>1, <2>2, PairsApart
    <3>2. left = k * (2 * Size(o)) /\ a = j * (2 * Size(o)) /\ left \in Nat
      BY <2>1, <2>2
    <3> HIDE DEF left, j
    <3> QED BY <3>1, <3>2
  <2>4. left + Size(o) = a + Size(o) => left = a
    BY <2>1, <2>3
  <2>5. k \in bm[o] <=> ~(<<left, o>> \in F <=> <<left + Size(o), o>> \in F)
    BY <1>2 DEF Bits
  <2> HIDE DEF left, j
  <2>6. CASE left = a
    BY <2>5, <2>6 DEF left
  <2>7. CASE left # a
    <3>1. /\ <<left, o>> # <<a, o>> /\ <<left, o>> # <<a + Size(o), o>>
          /\ <<left + Size(o), o>> # <<a, o>> /\ <<left + Size(o), o>> # <<a + Size(o), o>>
      BY <2>3, <2>4, <2>7
    <3> QED BY <2>5, <3>1 DEF left
  <2> QED BY <2>6, <2>7
<1> QED BY <1>1, <1>2 DEF Bits

-----------------------------------------------------------------------------
(* What has to be shown of a step: that it moves blocks between their      *)
(* owners, or replaces blocks by others with the same pages.               *)

\* The invariant, in terms of the running call.
LEMMA PartitionFacts ==
    ASSUME PartitionInv, depth > 0
    PROVE  /\ Top \in Frame /\ LocalsOK(Top, g_free_lists) /\ HandOK(Top)
           /\ MergeOK(Top, g_free_lists)
           /\ depth = 2 => Top.op \in {"alloc", "rollback"}
           /\ g_free_lists \in [Orders -> Seq(Nat)]
           /\ buddy_map \in [0 .. FRAME_ORDERS - 2 -> SUBSET Nat]
           /\ \A o \in Orders : IsInjective(g_free_lists[o])
           /\ Bits(FreeOf(g_free_lists), buddy_map)
           /\ Separate(FreeOf(g_free_lists), held, pinned, InHand(Top), Suspended)
           /\ Tiling(FreeOf(g_free_lists) \cup held \cup pinned \cup InHand(Top) \cup Suspended)
<1>1. ControlOK /\ depth \in {1, 2}
  <2>1. ControlOK /\ depth \in 0 .. 2
    BY DEF PartitionInv, ControlOK, TypeOK
  <2> QED BY <2>1
<1>2. Running = InHand(Top) /\ FreeBlocks = FreeOf(g_free_lists)
  BY <1>1 DEF Running, Top, FreeBlocks, FreeOf
<1>3. HandOK(Top)
  BY <1>1 DEF PartitionInv, Top
<1>4. /\ g_free_lists \in [Orders -> Seq(Nat)]
      /\ buddy_map \in [0 .. FRAME_ORDERS - 2 -> SUBSET Nat]
  BY <1>1 DEF ControlOK, TypeOK
<1>5. /\ Separate(FreeOf(g_free_lists), held, pinned, InHand(Top), Suspended)
      /\ Bits(FreeOf(g_free_lists), buddy_map)
  BY <1>2 DEF PartitionInv
<1>6. Tiling(FreeOf(g_free_lists) \cup held \cup pinned \cup InHand(Top) \cup Suspended)
  BY <1>2 DEF PartitionInv, Tiles
<1>7. MergeOK(Top, g_free_lists) /\ \A o \in Orders : IsInjective(g_free_lists[o])
  BY DEF PartitionInv
<1> QED BY <1>1, <1>3, <1>4, <1>5, <1>6, <1>7, TopOK

\* The running call goes on with frame f.
LEMMA PartitionContinue ==
    ASSUME PartitionInv, ControlOK', depth > 0, NEW f, Continue(f), HandOK(f),
           MergeOK(f, g_free_lists'),
           \A o \in Orders : IsInjective(g_free_lists'[o]),
           Bits(FreeOf(g_free_lists'), buddy_map'),
           Separate(FreeOf(g_free_lists'), held', pinned', InHand(f), Suspended),
           Tiling(FreeOf(g_free_lists') \cup held' \cup pinned' \cup InHand(f) \cup Suspended)
    PROVE  PartitionInv'
<1>1. call \in [{1, 2} -> Frame] /\ depth \in {1, 2}
  <2>1. call \in [{1, 2} -> Frame] /\ depth \in 0 .. 2
    BY DEF PartitionInv, ControlOK, TypeOK
  <2> QED BY <2>1
<1>2. depth' = depth /\ call' = [call EXCEPT ![depth] = f]
  BY DEF Continue
<1>3. call'[depth'] = f /\ \A l \in {1, 2} : l # depth => call'[l] = call[l]
  BY <1>1, <1>2
<1>4. Running' = InHand(f)
  BY <1>1, <1>2, <1>3 DEF Running
<1>5. Suspended' = Suspended
  <2>1. CASE depth = 2
    BY <1>2, <1>3, <2>1 DEF Suspended
  <2>2. CASE depth # 2
    BY <1>2, <2>2 DEF Suspended
  <2> QED BY <2>1, <2>2
<1>6. FreeBlocks' = FreeOf(g_free_lists')
  BY DEF FreeBlocks, FreeOf
<1>7. \A l \in {1, 2} : HandOK(call'[l])
  <2>1. \A l \in {1, 2} : HandOK(call[l])
    BY DEF PartitionInv
  <2> QED BY <1>1, <1>2, <1>3, <2>1
<1>8. Top' = f
  BY <1>3 DEF Top
<1>9. Tiling(Tiles') /\ Separate(FreeBlocks', held', pinned', Running', Suspended')
  BY <1>4, <1>5, <1>6 DEF Tiles
<1>10. MergeOK(Top', g_free_lists') /\ Bits(FreeBlocks', buddy_map')
  BY <1>6, <1>8
<1> QED BY <1>7, <1>9, <1>10 DEF PartitionInv

\* A step that changes neither lists nor owners.
LEMMA PartitionQuiet ==
    ASSUME PartitionInv, ControlOK', depth > 0, NEW f, Continue(f),
           UnchangedLists, UnchangedOwners,
           HandOK(f), InHand(f) = InHand(Top), f.pc # "merge"
    PROVE  PartitionInv'
<1>1. g_free_lists' = g_free_lists /\ buddy_map' = buddy_map /\ held' = held /\ pinned' = pinned
  BY DEF UnchangedLists, UnchangedOwners
<1>2. MergeOK(f, g_free_lists')
  BY DEF MergeOK
<1> QED BY <1>1, <1>2, PartitionFacts, PartitionContinue

\* The outer call returns.
LEMMA PartitionReturn ==
    ASSUME PartitionInv, ControlOK', Return,
           \A o \in Orders : IsInjective(g_free_lists'[o]),
           Bits(FreeOf(g_free_lists'), buddy_map'),
           Separate(FreeOf(g_free_lists'), held', pinned', {}, {}),
           Tiling(FreeOf(g_free_lists') \cup held' \cup pinned')
    PROVE  PartitionInv'
<1>1. depth = 1 /\ depth' = 0
  BY DEF Return
<1>2. Running' = {} /\ Suspended' = {} /\ FreeBlocks' = FreeOf(g_free_lists')
  BY <1>1 DEF Running, Suspended, FreeBlocks, FreeOf
<1>3. call'[1] = NoFrame /\ call'[2] = NoFrame
  BY <1>1 DEF ControlOK, StackOK
<1>4. HandOK(NoFrame)
  BY DEF HandOK, NoFrame, NewFrame, Splitting, IsInjective
<1>5. Tiling(Tiles') /\ Separate(FreeBlocks', held', pinned', Running', Suspended')
  BY <1>2 DEF Tiles
<1>6. ~(depth' > 0) /\ \A l \in {1, 2} : HandOK(call'[l])
  BY <1>1, <1>3, <1>4
<1> QED BY <1>2, <1>5, <1>6 DEF PartitionInv

-----------------------------------------------------------------------------
(* Every action preserves the invariant.                                   *)

\* A call that goes on with the same chain and splits nothing.
LEMMA SameHand ==
    ASSUME NEW f, NEW g, HandOK(g), f.chain = g.chain, ~Splitting(f), ~Splitting(g),
           f.op \in {"contig", "remove"} => f.op = g.op
    PROVE  HandOK(f) /\ InHand(f) = InHand(g)
BY DEF HandOK, InHand

\* The steps that only search or only wait for an entry.
LEMMA SearchPartition ==
    ASSUME PartitionInv, ControlOK',
           \/ PickOrder \/ SearchHigher \/ UseSmaller \/ GiveUp
           \/ FreeGetEntry \/ MergeDone \/ RemovePick \/ RemoveSearchLower
    PROVE  PartitionInv'
<1>1. ASSUME NEW f, depth > 0, Continue(f), UnchangedLists, UnchangedOwners,
             f.chain = Top.chain, f.pc \in {"search", "free"}, ~Splitting(Top),
             f.op \in {"contig", "remove"} => f.op = Top.op
      PROVE  PartitionInv'
  <2>1. ~Splitting(f) /\ f.pc # "merge"
    BY <1>1 DEF Splitting
  <2>2. HandOK(f) /\ InHand(f) = InHand(Top)
    BY <1>1, <2>1, PartitionFacts, SameHand
  <2> QED BY <1>1, <2>1, <2>2, PartitionQuiet
<1>2. CASE PickOrder
  <2>1. depth > 0 /\ Top \in Frame /\ ~Splitting(Top) /\ UnchangedLists /\ UnchangedOwners
    BY <1>2, PartitionFacts DEF PickOrder, At, Splitting
  <2>2. PICK o \in Orders :
            Continue([Top EXCEPT !.pc = "search", !.order_to_alloc = o, !.order = o + 1])
    BY <1>2 DEF PickOrder
  <2> DEFINE f == [Top EXCEPT !.pc = "search", !.order_to_alloc = o, !.order = o + 1]
  <2>3. f.chain = Top.chain /\ f.pc = "search" /\ f.op = Top.op /\ Continue(f)
    BY <2>1, <2>2 DEF Frame
  <2> HIDE DEF f
  <2> QED BY <1>1, <2>1, <2>3
<1>3. CASE SearchHigher
  <2>1. depth > 0 /\ Top \in Frame /\ Top.pc = "search" /\ UnchangedLists /\ UnchangedOwners
    BY <1>3, PartitionFacts DEF SearchHigher, At
  <2> DEFINE f == [Top EXCEPT !.order = @ + 1]
  <2>2. f.chain = Top.chain /\ f.pc = "search" /\ f.op = Top.op /\ Continue(f)
    BY <1>3, <2>1 DEF Frame, SearchHigher
  <2>3. ~Splitting(Top)
    BY <2>1 DEF Splitting
  <2> HIDE DEF f
  <2> QED BY <1>1, <2>1, <2>2, <2>3
<1>4. CASE UseSmaller
  <2>1. depth > 0 /\ Top \in Frame /\ Top.pc = "search" /\ UnchangedLists /\ UnchangedOwners
    BY <1>4, PartitionFacts DEF UseSmaller, At
  <2>2. PICK o \in Orders : Continue([Top EXCEPT !.order_to_alloc = o])
    BY <1>4 DEF UseSmaller
  <2> DEFINE f == [Top EXCEPT !.order_to_alloc = o]
  <2>3. f.chain = Top.chain /\ f.pc = "search" /\ f.op = Top.op /\ Continue(f)
    BY <2>1, <2>2 DEF Frame
  <2>4. ~Splitting(Top)
    BY <2>1 DEF Splitting
  <2> HIDE DEF f
  <2> QED BY <1>1, <2>1, <2>3, <2>4
<1>5. CASE GiveUp
  <2>1. depth > 0 /\ Top \in Frame /\ ~Splitting(Top) /\ UnchangedLists /\ UnchangedOwners
    BY <1>5, PartitionFacts DEF GiveUp, At, Splitting
  <2> DEFINE f == [Top EXCEPT !.op = "rollback", !.pc = "free"]
  <2>2. f.chain = Top.chain /\ f.pc = "free" /\ f.op = "rollback" /\ Continue(f)
    BY <1>5, <2>1 DEF Frame, GiveUp
  <2> HIDE DEF f
  <2> QED BY <1>1, <2>1, <2>2
<1>6. CASE FreeGetEntry
  <2>1. depth > 0 /\ Top \in Frame /\ Top.op = "free" /\ UnchangedLists /\ UnchangedOwners
    BY <1>6, PartitionFacts DEF FreeGetEntry, At
  <2> DEFINE f == [Top EXCEPT !.pc = "free"]
  <2>2. f.chain = Top.chain /\ f.pc = "free" /\ f.op = Top.op /\ Continue(f)
    BY <1>6, <2>1 DEF Frame, FreeGetEntry
  <2>3. ~Splitting(Top)
    BY <2>1 DEF Splitting
  <2> HIDE DEF f
  <2> QED BY <1>1, <2>1, <2>2, <2>3
<1>7. CASE MergeDone
  <2>1. depth > 0 /\ Top \in Frame /\ Top.pc = "merge" /\ UnchangedLists /\ UnchangedOwners
    BY <1>7, PartitionFacts DEF MergeDone, Merging, At
  <2> DEFINE f == [Top EXCEPT !.pc = "free"]
  <2>2. f.chain = Top.chain /\ f.pc = "free" /\ f.op = Top.op /\ Continue(f)
    BY <1>7, <2>1 DEF Frame, MergeDone
  <2>3. ~Splitting(Top)
    BY <2>1 DEF Splitting
  <2> HIDE DEF f
  <2> QED BY <1>1, <2>1, <2>2, <2>3
<1>8. CASE RemovePick
  <2>1. depth > 0 /\ Top \in Frame /\ ~Splitting(Top) /\ UnchangedLists /\ UnchangedOwners
    BY <1>8, PartitionFacts DEF RemovePick, At, Splitting
  <2>2. PICK o \in Orders :
            Continue([Top EXCEPT !.pc = "search", !.order_to_alloc = o, !.order = TopOrder])
    BY <1>8 DEF RemovePick
  <2> DEFINE f == [Top EXCEPT !.pc = "search", !.order_to_alloc = o, !.order = TopOrder]
  <2>3. f.chain = Top.chain /\ f.pc = "search" /\ f.op = Top.op /\ Continue(f)
    BY <2>1, <2>2 DEF Frame
  <2> HIDE DEF f
  <2> QED BY <1>1, <2>1, <2>3
<1>9. CASE RemoveSearchLower
  <2>1. depth > 0 /\ Top \in Frame /\ Top.pc = "search" /\ UnchangedLists /\ UnchangedOwners
    BY <1>9, PartitionFacts DEF RemoveSearchLower, At
  <2> DEFINE f == [Top EXCEPT !.order = @ - 1]
  <2>2. f.chain = Top.chain /\ f.pc = "search" /\ f.op = Top.op /\ Continue(f)
    BY <1>9, <2>1 DEF Frame, RemoveSearchLower
  <2>3. ~Splitting(Top)
    BY <2>1 DEF Splitting
  <2> HIDE DEF f
  <2> QED BY <1>1, <2>1, <2>2, <2>3
<1> QED BY <1>2, <1>3, <1>4, <1>5, <1>6, <1>7, <1>8, <1>9

\* A block has been taken off its list and its bit toggled.
Taken(a, o) ==
    /\ <<a, o>> \in FreeOf(g_free_lists)
    /\ FreeOf(g_free_lists') = FreeOf(g_free_lists) \ {<<a, o>>}
    /\ Bits(FreeOf(g_free_lists'), buddy_map')
    /\ \A q \in Orders : IsInjective(g_free_lists'[q])

\* That is so whichever element of the list it was.
LEMMA TakePartition ==
    ASSUME PartitionInv, depth > 0, NEW o \in Orders, NEW a \in Nat, a \in ToSet(g_free_lists[o]),
           g_free_lists' \in [Orders -> Seq(Nat)], Without(g_free_lists', g_free_lists, o, a),
           IsInjective(g_free_lists'[o]),
           buddy_map' = toggle_buddy_bit(buddy_map, a, o)
    PROVE  Taken(a, o)
<1>1. /\ g_free_lists \in [Orders -> Seq(Nat)]
      /\ \A q \in Orders : IsInjective(g_free_lists[q])
      /\ buddy_map \in [0 .. FRAME_ORDERS - 2 -> SUBSET Nat]
      /\ Bits(FreeOf(g_free_lists), buddy_map)
      /\ Tiling(FreeOf(g_free_lists) \cup held \cup pinned \cup InHand(Top) \cup Suspended)
  BY PartitionFacts
<1> DEFINE F == FreeOf(g_free_lists)
<1> DEFINE G == FreeOf(g_free_lists')
<1>2. G = F \ {<<a, o>>}
  <2>1. \A b : b \in G <=> b \in F /\ b # <<a, o>>
    BY <1>1, FreeTake
  <2> QED BY <2>1
<1>3. <<a, o>> \in F
  BY FreeElement
<1>4. a % Size(o) = 0
  <2>1. <<a, o>>[1] % Size(<<a, o>>[2]) = 0
    BY <1>1, <1>3 DEF Tiling
  <2> QED BY <2>1
<1>5. \A q \in Orders : IsInjective(g_free_lists'[q])
  BY <1>1 DEF Without
<1>6. Bits(F, buddy_map)
  BY <1>1
<1> HIDE DEF F, G
<1>7. Bits(G, buddy_map')
  <2>1. \A b : b # <<a, o>> => (b \in F <=> b \in G)
    BY <1>2
  <2>2. <<a, o>> \in F <=> <<a, o>> \notin G
    BY <1>2, <1>3
  <2> QED BY <1>1, <1>4, <1>6, <2>1, <2>2, ToggleBits
<1> QED BY <1>2, <1>3, <1>5, <1>7 DEF Taken, F, G

\* The head of a list is taken.
LEMMA HeadTaken ==
    ASSUME PartitionInv, depth > 0, NEW o \in Orders, TakeHead(o)
    PROVE  /\ Taken(Head(g_free_lists[o]), o)
           /\ Head(g_free_lists[o]) \in Nat
<1> DEFINE s == g_free_lists[o]
<1> DEFINE a == Head(s)
<1> DEFINE t == Tail(s)
<1>1. g_free_lists \in [Orders -> Seq(Nat)] /\ IsInjective(s)
  BY PartitionFacts
<1>2. /\ s # <<>> /\ g_free_lists' = [g_free_lists EXCEPT ![o] = t]
      /\ buddy_map' = toggle_buddy_bit(buddy_map, a, o)
  BY DEF TakeHead
<1>3. s \in Seq(Nat)
  BY <1>1
<1> HIDE DEF s
<1>4. a \in Nat /\ t \in Seq(Nat)
  BY <1>2, <1>3
<1>5. a \in ToSet(s) /\ ToSet(t) = ToSet(s) \ {a} /\ IsInjective(t)
  BY <1>1, <1>2, <1>3, ToSetTail
<1> HIDE DEF a, t
<1>6. /\ g_free_lists' \in [Orders -> Seq(Nat)] /\ g_free_lists'[o] = t
      /\ \A q \in Orders : q # o => g_free_lists'[q] = g_free_lists[q]
  BY <1>1, <1>2, <1>4
<1>7. Without(g_free_lists', g_free_lists, o, a)
  BY <1>5, <1>6 DEF Without, s
<1>8. Taken(a, o)
  BY <1>2, <1>4, <1>5, <1>6, <1>7, TakePartition DEF s
<1> QED BY <1>4, <1>8 DEF a, s

\* An element further back is taken.
LEMMA ElementTaken ==
    ASSUME PartitionInv, depth > 0, NEW o \in Orders, NEW i \in 1 .. Len(g_free_lists[o]),
           g_free_lists' = [g_free_lists EXCEPT ![o] = RemoveAt(@, i)],
           buddy_map' = toggle_buddy_bit(buddy_map, g_free_lists[o][i], o)
    PROVE  Taken(g_free_lists[o][i], o) /\ g_free_lists[o][i] \in Nat
<1> DEFINE s == g_free_lists[o]
<1> DEFINE a == s[i]
<1> DEFINE r == RemoveAt(s, i)
<1>1. g_free_lists \in [Orders -> Seq(Nat)] /\ IsInjective(s)
  BY PartitionFacts
<1>2. g_free_lists' = [g_free_lists EXCEPT ![o] = r]
  OBVIOUS
<1>3. s \in Seq(Nat) /\ i \in 1 .. Len(s) /\ a \in Nat
  BY <1>1
<1>4. buddy_map' = toggle_buddy_bit(buddy_map, a, o)
  OBVIOUS
<1> HIDE DEF s
<1>5. /\ a \in ToSet(s) /\ ToSet(r) = ToSet(s) \ {a} /\ IsInjective(r)
      /\ r \in Seq(Nat)
  BY <1>1, <1>3, ToSetRemoveAt, RemoveAtElements
<1> HIDE DEF a, r
<1>6. /\ g_free_lists' \in [Orders -> Seq(Nat)] /\ g_free_lists'[o] = r
      /\ \A q \in Orders : q # o => g_free_lists'[q] = g_free_lists[q]
  BY <1>1, <1>2, <1>5
<1>7. Without(g_free_lists', g_free_lists, o, a)
  BY <1>5, <1>6 DEF Without, s
<1>8. Taken(a, o)
  BY <1>3, <1>4, <1>5, <1>6, <1>7, TakePartition DEF s
<1> QED BY <1>3, <1>8 DEF a, s

\* alloc_frames takes a block into its chain.
LEMMA TakeBlockPartition == ASSUME PartitionInv, ControlOK', TakeBlock PROVE PartitionInv'
<1> DEFINE o == Top.order_to_alloc
<1> DEFINE a == Head(g_free_lists[o])
<1> DEFINE f == [Top EXCEPT !.pc = "pick", !.chain = Append(@, <<a, o>>),
                            !.size = Remaining(@, o)]
<1>1. depth > 0 /\ Top.op = "alloc" /\ Top.pc = "search"
  BY DEF TakeBlock, At
<1>2. TakeHead(o) /\ Continue(f) /\ UnchangedOwners
  BY DEF TakeBlock
<1>3. Top \in Frame /\ HandOK(Top) /\ o \in Orders /\ Top.chain \in Seq(Block)
  BY <1>1, PartitionFacts DEF Frame
<1>4. Taken(a, o) /\ a \in Nat
  BY <1>1, <1>2, <1>3, HeadTaken
<1>5. <<a, o>> \in Block
  BY <1>3, <1>4 DEF Block
<1>6. /\ f.op = "alloc" /\ f.pc = "pick" /\ f.chain = Append(Top.chain, <<a, o>>)
  BY <1>1, <1>3 DEF Frame
<1> HIDE DEF a, f
<1>7. InHand(Top) = ToSet(Top.chain)
  BY <1>1 DEF InHand, Splitting
<1>8. InHand(f) = InHand(Top) \cup {<<a, o>>}
  <2>1. ToSet(f.chain) = ToSet(Top.chain) \cup {<<a, o>>}
    BY <1>3, <1>5, <1>6, ToSetAppend
  <2> QED BY <1>6, <1>7, <2>1 DEF InHand, Splitting
<1> DEFINE F == FreeOf(g_free_lists)
<1> DEFINE G == FreeOf(g_free_lists')
<1>9. /\ Separate(F, held, pinned, InHand(Top), Suspended)
      /\ Tiling(F \cup held \cup pinned \cup InHand(Top) \cup Suspended)
  BY <1>1, PartitionFacts
<1>10. <<a, o>> \in F /\ G = F \ {<<a, o>>}
  BY <1>4 DEF Taken
<1>11. held' = held /\ pinned' = pinned
  BY <1>2 DEF UnchangedOwners
<1> HIDE DEF F, G
<1>12. HandOK(f)
  <2>1. <<a, o>> \notin ToSet(Top.chain)
    BY <1>7, <1>9, <1>10 DEF Separate
  <2>2. IsInjective(f.chain)
    BY <1>3, <1>5, <1>6, <2>1, ToSetAppend DEF HandOK
  <2> QED BY <1>6, <2>2 DEF HandOK, Splitting
<1>13. Separate(G, held', pinned', InHand(f), Suspended)
  BY <1>8, <1>9, <1>10, <1>11 DEF Separate
<1>14. Tiling(G \cup held' \cup pinned' \cup InHand(f) \cup Suspended)
  <2>1. G \cup held' \cup pinned' \cup InHand(f) \cup Suspended
            = F \cup held \cup pinned \cup InHand(Top) \cup Suspended
    BY <1>8, <1>10, <1>11
  <2> QED BY <1>9, <2>1
<1>15. MergeOK(f, g_free_lists')
  BY <1>6 DEF MergeOK
<1> QED BY <1>1, <1>2, <1>4, <1>12, <1>13, <1>14, <1>15, PartitionContinue DEF Taken, G

\* A block is taken to be split.
LEMMA TakenForSplit ==
    ASSUME PartitionInv, ControlOK', depth > 0, NEW a, NEW o, Taken(a, o),
           held' = held, pinned' = pinned, ~Splitting(Top),
           NEW f, Continue(f), Splitting(f),
           f.op = Top.op, f.chain = Top.chain, f.entry = a, f.order = o
    PROVE  PartitionInv'
<1> DEFINE F == FreeOf(g_free_lists)
<1> DEFINE G == FreeOf(g_free_lists')
<1>1. /\ Separate(F, held, pinned, InHand(Top), Suspended) /\ HandOK(Top)
      /\ Tiling(F \cup held \cup pinned \cup InHand(Top) \cup Suspended)
  BY PartitionFacts
<1>2. <<a, o>> \in F /\ G = F \ {<<a, o>>}
  BY DEF Taken
<1>3. InHand(Top) = ToSet(Top.chain) /\ InHand(f) = InHand(Top) \cup {<<a, o>>}
  BY DEF InHand
<1> HIDE DEF F, G
<1>4. HandOK(f)
  <2>1. <<a, o>> \notin ToSet(Top.chain)
    BY <1>1, <1>2, <1>3 DEF Separate
  <2> QED BY <1>1, <2>1 DEF HandOK
<1>5. Separate(G, held', pinned', InHand(f), Suspended)
  BY <1>1, <1>2, <1>3 DEF Separate
<1>6. Tiling(G \cup held' \cup pinned' \cup InHand(f) \cup Suspended)
  <2>1. G \cup held' \cup pinned' \cup InHand(f) \cup Suspended
            = F \cup held \cup pinned \cup InHand(Top) \cup Suspended
    BY <1>2, <1>3
  <2> QED BY <1>1, <2>1
<1>7. MergeOK(f, g_free_lists')
  BY DEF MergeOK, Splitting
<1> QED BY <1>4, <1>5, <1>6, <1>7, PartitionContinue DEF Taken, G

\* split_entry takes the head of a list.
LEMMA SplitBeginPartition == ASSUME PartitionInv, ControlOK', SplitBegin PROVE PartitionInv'
<1> DEFINE o == SplitOrder
<1> DEFINE a == Head(g_free_lists[o])
<1> DEFINE f == [Top EXCEPT !.pc = "get_entry", !.order = o, !.entry = a]
<1>1. depth > 0 /\ Top.op \in {"alloc", "contig"} /\ Top.pc = "search"
  BY DEF SplitBegin, At
<1>2. TakeHead(o) /\ Continue(f) /\ UnchangedOwners /\ o < FRAME_ORDERS
  BY DEF SplitBegin
<1>3. Top \in Frame
  BY <1>1, PartitionFacts
<1>4. o \in Orders
  BY <1>2, <1>3, OrdersAssumption DEF SplitOrder, Frame, Orders
<1>5. f.op = Top.op /\ f.pc = "get_entry" /\ f.chain = Top.chain /\ f.entry = a /\ f.order = o
  BY <1>3 DEF Frame
<1> HIDE DEF o
<1>6. Taken(a, o)
  BY <1>1, <1>2, <1>4, HeadTaken
<1> HIDE DEF a, f
<1>7. Splitting(f) /\ ~Splitting(Top) /\ held' = held /\ pinned' = pinned
  BY <1>1, <1>2, <1>5 DEF Splitting, UnchangedOwners
<1> QED BY <1>1, <1>2, <1>5, <1>6, <1>7, TakenForSplit

\* alloc_frames_contiguos returns the head of a list.
LEMMA ContiguousTakePartition ==
    ASSUME PartitionInv, ControlOK', ContiguousTake PROVE PartitionInv'
<1> DEFINE o == Top.order_to_alloc
<1> DEFINE a == Head(g_free_lists[o])
<1> DEFINE F == FreeOf(g_free_lists)
<1> DEFINE G == FreeOf(g_free_lists')
<1>1. depth > 0 /\ Top.op = "contig" /\ Top.pc = "search"
  BY DEF ContiguousTake, At
<1>2. TakeHead(o) /\ Return /\ held' = held \cup {<<a, o>>} /\ pinned' = pinned
  BY DEF ContiguousTake
<1>3. /\ Top \in Frame /\ HandOK(Top)
      /\ Separate(F, held, pinned, InHand(Top), Suspended)
      /\ Tiling(F \cup held \cup pinned \cup InHand(Top) \cup Suspended)
  BY <1>1, PartitionFacts
<1>4. o \in Orders
  BY <1>3 DEF Frame
<1>5. Taken(a, o)
  BY <1>1, <1>2, <1>4, HeadTaken
<1>6. InHand(Top) = {} /\ Suspended = {}
  <2>1. Top.chain = <<>> /\ ~Splitting(Top)
    BY <1>1, <1>3 DEF HandOK, Splitting
  <2>2. ToSet(<<>>) = {}
    BY DEF ToSet
  <2> QED BY <1>2, <2>1, <2>2 DEF InHand, Suspended, Return
<1>7. <<a, o>> \in F /\ G = F \ {<<a, o>>}
  BY <1>5 DEF Taken
<1> HIDE DEF F, G, a, o
<1>8. Separate(G, held', pinned', {}, {})
  BY <1>2, <1>3, <1>7 DEF Separate
<1>9. Tiling(G \cup held' \cup pinned')
  <2>1. G \cup held' \cup pinned' = F \cup held \cup pinned \cup InHand(Top) \cup Suspended
    BY <1>2, <1>6, <1>7
  <2> QED BY <1>3, <2>1
<1> QED BY <1>2, <1>5, <1>8, <1>9, PartitionReturn DEF Taken, G

\* remove_range takes the block around an address, to split it or to keep it
\* away from the lists.
LEMMA RemoveUnlinkPartition ==
    ASSUME PartitionInv, ControlOK', RemoveUnlink PROVE PartitionInv'
<1> DEFINE o == Top.order
<1> DEFINE F1(a) == [Top EXCEPT !.pc = "get_entry", !.entry = a]
<1> DEFINE F2 == [Top EXCEPT !.pc = "pick", !.size = @ - Size(o), !.addr = @ + Size(o)]
<1>1. depth > 0 /\ Top.op = "remove" /\ Top.pc = "search"
  BY DEF RemoveUnlink, At
<1>2. PICK i \in Containing :
          LET a == g_free_lists[o][i]
          IN  /\ g_free_lists' = [g_free_lists EXCEPT ![o] = RemoveAt(@, i)]
              /\ buddy_map' = toggle_buddy_bit(buddy_map, a, o)
              /\ \/ /\ o # Top.order_to_alloc
                    /\ Continue(F1(a))
                    /\ UNCHANGED <<held, pinned>>
                 \/ /\ o = Top.order_to_alloc
                    /\ Continue(F2)
                    /\ pinned' = IF Top.keep THEN pinned \cup {<<a, o>>} ELSE pinned
                    /\ held' = IF Top.keep THEN held ELSE held \cup {<<a, o>>}
  BY DEF RemoveUnlink
<1> DEFINE a == g_free_lists[o][i]
<1> DEFINE F == FreeOf(g_free_lists)
<1> DEFINE G == FreeOf(g_free_lists')
<1>3. /\ Top \in Frame /\ LocalsOK(Top, g_free_lists) /\ HandOK(Top)
      /\ g_free_lists \in [Orders -> Seq(Nat)]
      /\ Separate(F, held, pinned, InHand(Top), Suspended)
      /\ Tiling(F \cup held \cup pinned \cup InHand(Top) \cup Suspended)
  BY <1>1, PartitionFacts
<1>4. o \in Orders
  BY <1>1, <1>3 DEF LocalsOK
<1>5. i \in 1 .. Len(g_free_lists[o])
  <2>1. i \in DOMAIN g_free_lists[o]
    BY DEF Containing
  <2> QED BY <1>3, <1>4, <2>1
<1>6. Taken(a, o)
  BY <1>1, <1>2, <1>4, <1>5, ElementTaken
<1>7. ~Splitting(Top)
  BY <1>1 DEF Splitting
<1>8. CASE o # Top.order_to_alloc
  <2> DEFINE f == F1(a)
  <2>1. Continue(f) /\ held' = held /\ pinned' = pinned
    BY <1>2, <1>8
  <2>2. f.op = Top.op /\ f.pc = "get_entry" /\ f.chain = Top.chain /\ f.entry = a /\ f.order = o
    BY <1>3 DEF Frame
  <2> HIDE DEF f, a, o
  <2>3. Splitting(f)
    BY <1>1, <2>2 DEF Splitting
  <2> QED BY <1>1, <1>6, <1>7, <2>1, <2>2, <2>3, TakenForSplit
<1>9. CASE o = Top.order_to_alloc
  <2>1. /\ Continue(F2)
        /\ pinned' = IF Top.keep THEN pinned \cup {<<a, o>>} ELSE pinned
        /\ held' = IF Top.keep THEN held ELSE held \cup {<<a, o>>}
    BY <1>2, <1>9
  <2>2. F2.op = Top.op /\ F2.pc = "pick" /\ F2.chain = Top.chain
    BY <1>3 DEF Frame
  <2>3. <<a, o>> \in F /\ G = F \ {<<a, o>>}
    BY <1>6 DEF Taken
  <2> HIDE DEF F2, a, o, F, G
  <2>4. ~Splitting(F2) /\ F2.pc # "merge"
    BY <2>2 DEF Splitting
  <2>5. HandOK(F2) /\ InHand(F2) = InHand(Top)
    BY <1>3, <1>7, <2>2, <2>4, SameHand
  <2>6. Separate(G, held', pinned', InHand(F2), Suspended)
    <3>1. CASE Top.keep
      BY <1>3, <2>1, <2>3, <2>5, <3>1 DEF Separate
    <3>2. CASE ~Top.keep
      BY <1>3, <2>1, <2>3, <2>5, <3>2 DEF Separate
    <3> QED BY <3>1, <3>2
  <2>7. Tiling(G \cup held' \cup pinned' \cup InHand(F2) \cup Suspended)
    <3>1. held' \cup pinned' = held \cup pinned \cup {<<a, o>>}
      <4>1. CASE Top.keep
        BY <2>1, <4>1
      <4>2. CASE ~Top.keep
        BY <2>1, <4>2
      <4> QED BY <4>1, <4>2
    <3>2. G \cup held' \cup pinned' \cup InHand(F2) \cup Suspended
              = F \cup held \cup pinned \cup InHand(Top) \cup Suspended
      BY <2>3, <2>5, <3>1
    <3> QED BY <1>3, <3>2
  <2>8. MergeOK(F2, g_free_lists')
    BY <2>4 DEF MergeOK
  <2> QED BY <1>1, <1>6, <2>1, <2>5, <2>6, <2>7, <2>8, PartitionContinue DEF Taken, G
<1> QED BY <1>8, <1>9

\* The lists new are the lists of before with address a in front of list o.
Pushed(new, lists, o, a) == new = [lists EXCEPT ![o] = <<a>> \o @]

\* Putting a block in front of its list adds it to what is free.
LEMMA PushFree ==
    ASSUME NEW lists \in [Orders -> Seq(Nat)], NEW new, NEW o \in Orders, NEW a \in Nat,
           Pushed(new, lists, o, a), <<a, o>> \notin FreeOf(lists),
           \A q \in Orders : IsInjective(lists[q])
    PROVE  /\ new \in [Orders -> Seq(Nat)]
           /\ \A b : b \in FreeOf(new) <=> b \in FreeOf(lists) \/ b = <<a, o>>
           /\ \A q \in Orders : IsInjective(new[q])
           /\ new[o] # <<>> /\ Head(new[o]) = a
<1> DEFINE s == lists[o]
<1> DEFINE t == <<a>> \o s
<1>1. s \in Seq(Nat) /\ a \notin ToSet(s) /\ IsInjective(s)
  BY FreeElement
<1>2. new = [lists EXCEPT ![o] = t]
  BY DEF Pushed
<1> HIDE DEF s
<1>3. /\ ToSet(t) = ToSet(s) \cup {a} /\ IsInjective(t) /\ t # <<>> /\ Head(t) = a
      /\ t \in Seq(Nat)
  BY <1>1, ToSetCons
<1> HIDE DEF t
<1>4. /\ new \in [Orders -> Seq(Nat)] /\ new[o] = t
      /\ \A q \in Orders : q # o => new[q] = lists[q]
  BY <1>2, <1>3
<1>5. With(new, lists, o, a)
  BY <1>3, <1>4 DEF With, s
<1>6. \A b : b \in FreeOf(new) <=> b \in FreeOf(lists) \/ b = <<a, o>>
  BY <1>4, <1>5, FreePut
<1>7. \A q \in Orders : IsInjective(new[q])
  BY <1>3, <1>4
<1> QED BY <1>3, <1>4, <1>6, <1>7

\* The second half of split_entry: a block in hand becomes two free ones.
LEMMA SplitEndPartition == ASSUME PartitionInv, ControlOK', SplitEnd PROVE PartitionInv'
<1> DEFINE o == Top.order - 1
<1> DEFINE l == Top.entry
<1> DEFINE r == l + Size(o)
<1> DEFINE f == [Top EXCEPT !.pc = "search", !.order = o]
<1> DEFINE F == FreeOf(g_free_lists)
<1> DEFINE G == FreeOf(g_free_lists')
<1> DEFINE b == <<l, o + 1>>
<1>1. depth > 0 /\ Splitting(Top)
  BY DEF SplitEnd
<1>2. /\ Top \in Frame /\ LocalsOK(Top, g_free_lists) /\ HandOK(Top)
      /\ g_free_lists \in [Orders -> Seq(Nat)]
      /\ \A q \in Orders : IsInjective(g_free_lists[q])
      /\ Bits(F, buddy_map)
      /\ Separate(F, held, pinned, InHand(Top), Suspended)
      /\ Tiling(F \cup held \cup pinned \cup InHand(Top) \cup Suspended)
  BY <1>1, PartitionFacts
<1>3. o \in Orders /\ o + 1 \in Orders /\ o + 1 = Top.order /\ l \in Nat
  <2>1. Top.order \in Orders /\ Top.order_to_alloc \in Orders /\ Top.order_to_alloc < Top.order
    BY <1>1, <1>2 DEF LocalsOK, Frame
  <2>2. l \in Nat
    BY <1>2 DEF Frame
  <2> QED BY <2>1, <2>2, OrdersAssumption DEF Orders
<1>4. /\ g_free_lists' = [g_free_lists EXCEPT ![o] = <<l, r>> \o @]
      /\ Continue(f) /\ buddy_map' = buddy_map /\ held' = held /\ pinned' = pinned
  BY DEF SplitEnd, UnchangedOwners
<1>5. f.op = Top.op /\ f.pc = "search" /\ f.chain = Top.chain
  BY <1>2 DEF Frame
<1> HIDE DEF f
<1>6. b \in InHand(Top) /\ InHand(Top) = ToSet(Top.chain) \cup {b} /\ b \notin ToSet(Top.chain)
  BY <1>1, <1>2, <1>3 DEF InHand, HandOK
<1>7. InHand(f) = ToSet(Top.chain) /\ HandOK(f)
  <2>1. ~Splitting(f)
    BY <1>5 DEF Splitting
  <2> QED BY <1>2, <1>5, <2>1 DEF InHand, HandOK
<1>8. Size(o) \in Nat \ {0}
  BY <1>3, SizePositive
<1>9. r \in Nat
  BY <1>3, <1>8
<1> DEFINE T == F \cup held \cup pinned \cup InHand(Top) \cup Suspended
<1>10. /\ <<l, o>> \notin T /\ <<r, o>> \notin T /\ l # r
       /\ Tiling((T \ {b}) \cup {<<l, o>>, <<r, o>>})
  <2> HIDE DEF o, l
  <2>1. b \in T /\ Tiling(T)
    BY <1>2, <1>6
  <2> HIDE DEF T
  <2> QED BY <1>3, <2>1, SplitTiles
<1> HIDE DEF o, l, r, F, b
<1> DEFINE mid == [g_free_lists EXCEPT ![o] = <<r>> \o @]
<1>11. Pushed(mid, g_free_lists, o, r) /\ Pushed(g_free_lists', mid, o, l)
  <2>1. Pushed(mid, g_free_lists, o, r)
    BY DEF Pushed
  <2>2. <<l, r>> \o g_free_lists[o] = <<l>> \o (<<r>> \o g_free_lists[o])
    <3>1. g_free_lists[o] \in Seq(Nat)
      BY <1>2, <1>3
    <3> QED BY <1>3, <1>9, <3>1, ConsTwice
  <2>3. mid[o] = <<r>> \o g_free_lists[o]
    BY <1>2, <1>3
  <2>4. g_free_lists' = [mid EXCEPT ![o] = <<l>> \o @]
    BY <1>2, <1>3, <1>4, <2>2, <2>3
  <2> QED BY <2>1, <2>4 DEF Pushed
<1> HIDE DEF mid
<1>12. /\ mid \in [Orders -> Seq(Nat)] /\ FreeOf(mid) = F \cup {<<r, o>>}
       /\ \A q \in Orders : IsInjective(mid[q])
  <2>1. <<r, o>> \notin FreeOf(g_free_lists)
    BY <1>10 DEF F
  <2>2. /\ mid \in [Orders -> Seq(Nat)] /\ \A q \in Orders : IsInjective(mid[q])
        /\ \A c : c \in FreeOf(mid) <=> c \in F \/ c = <<r, o>>
    BY <1>2, <1>3, <1>9, <1>11, <2>1, PushFree DEF F
  <2>3. FreeOf(mid) = F \cup {<<r, o>>}
    BY <2>2
  <2> QED BY <2>2, <2>3
<1>13. /\ G = F \cup {<<r, o>>, <<l, o>>}
       /\ \A q \in Orders : IsInjective(g_free_lists'[q])
  <2>1. <<l, o>> # <<r, o>>
    BY <1>10
  <2>2. <<l, o>> \notin FreeOf(mid)
    BY <1>10, <1>12, <2>1
  <2>3. FreeOf(g_free_lists') = FreeOf(mid) \cup {<<l, o>>}
        /\ \A q \in Orders : IsInjective(g_free_lists'[q])
    <3> DEFINE new == g_free_lists'
    <3>1. Pushed(new, mid, o, l) /\ o \in Orders /\ l \in Nat
      BY <1>3, <1>11
    <3>2. mid \in [Orders -> Seq(Nat)] /\ \A q \in Orders : IsInjective(mid[q])
      BY <1>12
    <3> HIDE DEF new
    <3>3. /\ \A c : c \in FreeOf(new) <=> c \in FreeOf(mid) \/ c = <<l, o>>
          /\ \A q \in Orders : IsInjective(new[q])
      BY <2>2, <3>1, <3>2, PushFree
    <3>4. FreeOf(new) = FreeOf(mid) \cup {<<l, o>>}
      BY <3>3
    <3> QED BY <3>3, <3>4 DEF new
  <2> QED BY <1>12, <2>3
<1> HIDE DEF G
<1>14. Bits(G, buddy_map')
  <2>1. l % Size(o + 1) = 0
    <3>1. b[1] % Size(b[2]) = 0
      BY <1>2, <1>6 DEF Tiling
    <3> QED BY <3>1 DEF b
  <2>2. \A c : c # <<l, o>> /\ c # <<l + Size(o), o>> => (c \in F <=> c \in G)
    BY <1>13 DEF r
  <2>3. <<l, o>> \in F <=> <<l + Size(o), o>> \in F
    BY <1>10 DEF r
  <2>4. <<l, o>> \in G <=> <<l + Size(o), o>> \in G
    BY <1>13 DEF r
  <2>5. Bits(G, buddy_map)
    BY <1>2, <1>3, <2>1, <2>2, <2>3, <2>4, PairBits
  <2> QED BY <1>4, <2>5
<1>15. Separate(G, held', pinned', InHand(f), Suspended)
  BY <1>2, <1>4, <1>6, <1>7, <1>10, <1>13 DEF Separate
<1>16. Tiling(G \cup held' \cup pinned' \cup InHand(f) \cup Suspended)
  <2>1. G \cup held' \cup pinned' \cup InHand(f) \cup Suspended
            = (T \ {b}) \cup {<<l, o>>, <<r, o>>}
    BY <1>2, <1>4, <1>6, <1>7, <1>13 DEF Separate
  <2> QED BY <1>10, <2>1
<1>17. MergeOK(f, g_free_lists')
  BY <1>5 DEF MergeOK
<1> QED BY <1>1, <1>4, <1>7, <1>13, <1>14, <1>15, <1>16, <1>17, PartitionContinue DEF G

\* free_frames puts the first block of its chain in front of a list.
LEMMA FreeBlockPartition == ASSUME PartitionInv, ControlOK', FreeBlock PROVE PartitionInv'
<1> DEFINE a == Head(Top.chain)[1]
<1> DEFINE o == Head(Top.chain)[2]
<1> DEFINE f == [Top EXCEPT !.pc = "merge", !.chain = Tail(@), !.entry = a, !.order = o]
<1> DEFINE F == FreeOf(g_free_lists)
<1> DEFINE G == FreeOf(g_free_lists')
<1>1. depth > 0 /\ Top.op \in {"free", "rollback"} /\ Top.chain # <<>>
  BY DEF FreeBlock, At
<1>2. /\ Top \in Frame /\ HandOK(Top)
      /\ g_free_lists \in [Orders -> Seq(Nat)]
      /\ buddy_map \in [0 .. FRAME_ORDERS - 2 -> SUBSET Nat]
      /\ \A q \in Orders : IsInjective(g_free_lists[q])
      /\ Bits(F, buddy_map)
      /\ Separate(F, held, pinned, InHand(Top), Suspended)
      /\ Tiling(F \cup held \cup pinned \cup InHand(Top) \cup Suspended)
  BY <1>1, PartitionFacts
<1>3. Top.chain \in Seq(Block) /\ IsInjective(Top.chain)
  BY <1>2 DEF Frame, HandOK
<1>4. Head(Top.chain) \in Block
  BY <1>1, <1>3
<1>5. Head(Top.chain) = <<a, o>> /\ a \in Nat /\ o \in Orders
  BY <1>4 DEF Block
<1>6. /\ buddy_map' = toggle_buddy_bit(buddy_map, a, o)
      /\ g_free_lists' = [g_free_lists EXCEPT ![o] = <<a>> \o @]
      /\ Continue(f) /\ held' = held /\ pinned' = pinned
  BY DEF FreeBlock, UnchangedOwners
<1>7. /\ f.op = Top.op /\ f.pc = "merge" /\ f.chain = Tail(Top.chain)
      /\ f.entry = a /\ f.order = o
  BY <1>2 DEF Frame
<1> HIDE DEF a, o, f
<1>8. /\ <<a, o>> \in ToSet(Top.chain)
      /\ ToSet(f.chain) = ToSet(Top.chain) \ {<<a, o>>} /\ IsInjective(f.chain)
  BY <1>1, <1>3, <1>5, <1>7, ToSetTail
<1>9. ~Splitting(Top) /\ ~Splitting(f)
  BY <1>1, <1>7 DEF Splitting
<1>10. InHand(Top) = ToSet(Top.chain) /\ InHand(f) = InHand(Top) \ {<<a, o>>}
  BY <1>8, <1>9 DEF InHand
<1>11. HandOK(f)
  BY <1>1, <1>7, <1>8, <1>9 DEF HandOK
<1>12. <<a, o>> \notin F
  BY <1>2, <1>8, <1>10 DEF Separate
<1>13. /\ G = F \cup {<<a, o>>} /\ \A q \in Orders : IsInjective(g_free_lists'[q])
       /\ g_free_lists'[o] # <<>> /\ Head(g_free_lists'[o]) = a
  <2> DEFINE new == g_free_lists'
  <2>1. Pushed(new, g_free_lists, o, a)
    BY <1>6 DEF Pushed
  <2> HIDE DEF new
  <2>2. /\ \A b : b \in FreeOf(new) <=> b \in FreeOf(g_free_lists) \/ b = <<a, o>>
        /\ \A q \in Orders : IsInjective(new[q])
        /\ new[o] # <<>> /\ Head(new[o]) = a
    BY <1>2, <1>5, <1>12, <2>1, PushFree
  <2>3. FreeOf(new) = FreeOf(g_free_lists) \cup {<<a, o>>}
    BY <2>2
  <2> QED BY <2>2, <2>3 DEF new
<1> HIDE DEF F, G
<1>14. Bits(G, buddy_map')
  <2>1. a % Size(o) = 0
    <3>1. <<a, o>>[1] % Size(<<a, o>>[2]) = 0
      BY <1>2, <1>8, <1>10 DEF Tiling
    <3> QED BY <3>1
  <2>2. \A b : b # <<a, o>> => (b \in F <=> b \in G)
    BY <1>13
  <2>3. <<a, o>> \in F <=> <<a, o>> \notin G
    BY <1>12, <1>13
  <2> QED BY <1>2, <1>5, <1>6, <2>1, <2>2, <2>3, ToggleBits
<1>15. Separate(G, held', pinned', InHand(f), Suspended)
  BY <1>2, <1>6, <1>8, <1>10, <1>13 DEF Separate
<1>16. Tiling(G \cup held' \cup pinned' \cup InHand(f) \cup Suspended)
  <2>1. G \cup held' \cup pinned' \cup InHand(f) \cup Suspended
            = F \cup held \cup pinned \cup InHand(Top) \cup Suspended
    BY <1>6, <1>8, <1>10, <1>13
  <2> QED BY <1>2, <2>1
<1>17. MergeOK(f, g_free_lists')
  BY <1>7, <1>13 DEF MergeOK
<1> QED BY <1>1, <1>6, <1>11, <1>13, <1>14, <1>15, <1>16, <1>17, PartitionContinue DEF G

\* The left one of a block and its buddy.
LEMMA LeftBuddy ==
    ASSUME NEW a \in Nat, NEW o \in Orders, o + 1 \in Orders, a % Size(o) = 0,
           NEW left, left = (IF BuddyOf(a, o) < a THEN BuddyOf(a, o) ELSE a)
    PROVE  /\ left \in Nat /\ left % Size(o + 1) = 0 /\ BuddyOf(a, o) \in Nat
           /\ \/ a = left /\ BuddyOf(a, o) = left + Size(o)
              \/ a = left + Size(o) /\ BuddyOf(a, o) = left
<1>1. Size(o) \in Nat \ {0} /\ Size(o + 1) = 2 * Size(o)
  BY Halves
<1>2. CASE a % Size(o + 1) = 0
  <2>1. BuddyOf(a, o) = a + Size(o)
    BY <1>2 DEF BuddyOf
  <2>2. ~(a + Size(o) < a) /\ a + Size(o) \in Nat
    BY <1>1
  <2> QED BY <1>2, <2>1, <2>2
<1>3. CASE a % Size(o + 1) # 0
  <2>1. BuddyOf(a, o) = a - Size(o)
    BY <1>3 DEF BuddyOf
  <2>2. a % (2 * Size(o)) # 0
    BY <1>1, <1>3
  <2>3. a - Size(o) \in Nat /\ (a - Size(o)) % (2 * Size(o)) = 0
    BY <1>1, <2>2, AlignedPair
  <2>4. a - Size(o) < a /\ a = (a - Size(o)) + Size(o)
    BY <1>1
  <2> QED BY <1>1, <2>1, <2>3, <2>4
<1> QED BY <1>2, <1>3

\* Two buddies leave their list and the block they make up goes on the list
\* above.
LEMMA MergeBuddiesPartition ==
    ASSUME PartitionInv, ControlOK', MergeBuddies PROVE PartitionInv'
<1> DEFINE o == Top.order
<1> DEFINE a == Top.entry
<1> DEFINE s == g_free_lists[o]
<1> DEFINE rest == Tail(s)
<1> DEFINE other == BuddyOf(a, o)
<1> DEFINE left == IF other < a THEN other ELSE a
<1> DEFINE f == [Top EXCEPT !.entry = left, !.order = o + 1]
<1> DEFINE F == FreeOf(g_free_lists)
<1> DEFINE G == FreeOf(g_free_lists')
<1>1. /\ depth > 0 /\ Top.op \in {"free", "rollback"} /\ Top.pc = "merge"
      /\ Top.order < TopOrder
  BY DEF MergeBuddies, Merging, MayMerge, At
<1>2. /\ Top \in Frame /\ HandOK(Top) /\ LocalsOK(Top, g_free_lists)
      /\ MergeOK(Top, g_free_lists)
      /\ g_free_lists \in [Orders -> Seq(Nat)]
      /\ buddy_map \in [0 .. FRAME_ORDERS - 2 -> SUBSET Nat]
      /\ \A q \in Orders : IsInjective(g_free_lists[q])
      /\ Bits(F, buddy_map)
      /\ Separate(F, held, pinned, InHand(Top), Suspended)
      /\ Tiling(F \cup held \cup pinned \cup InHand(Top) \cup Suspended)
  BY <1>1, PartitionFacts
<1>3. o \in Orders /\ o + 1 \in Orders /\ a \in Nat
  <2>1. Top.order \in Orders /\ Top.entry \in Nat
    BY <1>1, <1>2 DEF LocalsOK, Frame
  <2> QED BY <1>1, <2>1, OrdersAssumption DEF Orders, TopOrder
<1>4. s \in Seq(Nat) /\ s # <<>> /\ Head(s) = a /\ IsInjective(s)
  BY <1>1, <1>2, <1>3 DEF MergeOK
<1>5. PICK i \in DOMAIN rest :
          /\ rest[i] = other
          /\ g_free_lists' = [g_free_lists EXCEPT ![o] = RemoveAt(rest, i),
                                                  ![o + 1] = <<left>> \o @]
  BY DEF MergeBuddies
<1>6. /\ buddy_map' = toggle_buddy_bit(buddy_map, left, o + 1)
      /\ Continue(f) /\ held' = held /\ pinned' = pinned
  BY DEF MergeBuddies, UnchangedOwners
<1>7. /\ f.op = Top.op /\ f.pc = "merge" /\ f.chain = Top.chain
      /\ f.entry = left /\ f.order = o + 1
  <2> HIDE DEF left, o
  <2> QED BY <1>1, <1>2 DEF Frame
<1> HIDE DEF f, o, a
<1>8. a \in ToSet(s) /\ ToSet(rest) = ToSet(s) \ {a} /\ IsInjective(rest) /\ rest \in Seq(Nat)
  <2> HIDE DEF s
  <2>1. rest \in Seq(Nat)
    BY <1>4
  <2> QED BY <1>4, <2>1, ToSetTail
<1> HIDE DEF rest
<1> DEFINE r == RemoveAt(rest, i)
<1>9. /\ ToSet(r) = ToSet(rest) \ {other} /\ other \in ToSet(rest) /\ IsInjective(r)
      /\ r \in Seq(Nat)
  <2>1. i \in 1 .. Len(rest)
    BY <1>5, <1>8
  <2> QED BY <1>5, <1>8, <2>1, ToSetRemoveAt, RemoveAtElements
<1>10. <<a, o>> \in F /\ <<other, o>> \in F /\ a # other
  <2> HIDE DEF other
  <2>1. a \in ToSet(g_free_lists[o]) /\ other \in ToSet(g_free_lists[o]) /\ a # other
    BY <1>8, <1>9
  <2> QED BY <1>3, <2>1, FreeElement
<1>11. a % Size(o) = 0
  <2>1. <<a, o>>[1] % Size(<<a, o>>[2]) = 0
    BY <1>2, <1>10 DEF Tiling
  <2> QED BY <2>1
<1>12. /\ left \in Nat /\ left % Size(o + 1) = 0 /\ other \in Nat
       /\ \/ a = left /\ other = left + Size(o)
          \/ a = left + Size(o) /\ other = left
  BY <1>3, <1>11, LeftBuddy
<1> HIDE DEF r, other, left, F, G
<1> DEFINE mid1 == [g_free_lists EXCEPT ![o] = rest]
<1> DEFINE mid2 == [g_free_lists EXCEPT ![o] = r]
<1> DEFINE E1 == FreeOf(mid1)
<1> DEFINE E == FreeOf(mid2)
<1>13. /\ mid1 \in [Orders -> Seq(Nat)] /\ mid1[o] = rest
       /\ mid2 \in [Orders -> Seq(Nat)] /\ mid2[o] = r
       /\ \A q \in Orders : q # o => mid1[q] = g_free_lists[q] /\ mid2[q] = g_free_lists[q]
  BY <1>2, <1>3, <1>8, <1>9
<1>14. Pushed(g_free_lists', mid2, o + 1, left)
  <2>1. o + 1 # o
    BY <1>3 DEF Orders
  <2>2. g_free_lists' = [mid2 EXCEPT ![o + 1] = <<left>> \o @]
    BY <1>2, <1>3, <1>5, <2>1 DEF r
  <2> QED BY <2>2 DEF Pushed
<1> HIDE DEF mid1, mid2
<1>15. E1 = F \ {<<a, o>>}
  <2>1. Without(mid1, g_free_lists, o, a)
    BY <1>8, <1>13 DEF Without, s
  <2>2. \A c : c \in E1 <=> c \in F /\ c # <<a, o>>
    BY <1>2, <1>3, <1>13, <2>1, FreeTake DEF F
  <2> QED BY <2>2
<1>16. E = E1 \ {<<other, o>>}
  <2>1. Without(mid2, mid1, o, other)
    BY <1>9, <1>13 DEF Without
  <2>2. \A c : c \in E <=> c \in E1 /\ c # <<other, o>>
    BY <1>3, <1>12, <1>13, <2>1, FreeTake
  <2> QED BY <2>2
<1> HIDE DEF E, E1
<1>17. \A q \in Orders : IsInjective(mid2[q])
  BY <1>2, <1>9, <1>13
<1> DEFINE l == <<left, o>>
<1> DEFINE rr == <<left + Size(o), o>>
<1> DEFINE b == <<left, o + 1>>
<1> DEFINE T == F \cup held \cup pinned \cup InHand(Top) \cup Suspended
<1>18. l \in F /\ rr \in F /\ E = F \ {l, rr}
  BY <1>10, <1>12, <1>15, <1>16
<1>19. b \notin T /\ Tiling((T \ {l, rr}) \cup {b})
  <2>1. l \in T /\ rr \in T /\ Tiling(T)
    BY <1>2, <1>18
  <2> HIDE DEF T
  <2> QED BY <1>3, <1>12, <2>1, JoinTiles
<1>20. b # l /\ b # rr
  BY <1>18, <1>19
<1>21. /\ G = E \cup {b} /\ \A q \in Orders : IsInjective(g_free_lists'[q])
       /\ g_free_lists'[o + 1] # <<>> /\ Head(g_free_lists'[o + 1]) = left
  <2> DEFINE new == g_free_lists'
  <2>1. Pushed(new, mid2, o + 1, left) /\ <<left, o + 1>> \notin FreeOf(mid2)
    BY <1>14, <1>18, <1>19 DEF E
  <2> DEFINE p == o + 1
  <2>2. p \in Orders /\ Pushed(new, mid2, p, left) /\ <<left, p>> \notin FreeOf(mid2)
    BY <1>3, <2>1
  <2> HIDE DEF new, p
  <2>3. /\ \A c : c \in FreeOf(new) <=> c \in FreeOf(mid2) \/ c = <<left, p>>
        /\ \A q \in Orders : IsInjective(new[q])
        /\ new[p] # <<>> /\ Head(new[p]) = left
    BY <1>12, <1>13, <1>17, <2>2, PushFree
  <2>4. FreeOf(new) = FreeOf(mid2) \cup {<<left, p>>}
    BY <2>3
  <2> QED BY <2>3, <2>4 DEF new, G, E, p
<1>22. Bits(E, buddy_map)
  <2>1. \A c : c # l /\ c # rr => (c \in F <=> c \in E)
    BY <1>18
  <2>2. (l \in F <=> rr \in F) /\ (l \in E <=> rr \in E)
    BY <1>18
  <2> QED BY <1>2, <1>3, <1>12, <2>1, <2>2, PairBits
<1>23. Bits(G, buddy_map')
  <2>1. \A c : c # b => (c \in E <=> c \in G)
    BY <1>21
  <2>2. b \in E <=> b \notin G
    BY <1>18, <1>19, <1>21
  <2> QED BY <1>2, <1>3, <1>6, <1>12, <1>22, <2>1, <2>2, ToggleBits
<1>24. InHand(f) = InHand(Top) /\ HandOK(f)
  <2>1. ~Splitting(Top) /\ ~Splitting(f)
    BY <1>1, <1>7 DEF Splitting
  <2> QED BY <1>2, <1>7, <2>1, SameHand
<1> HIDE DEF l, rr, b
<1>25. Separate(G, held', pinned', InHand(f), Suspended)
  BY <1>2, <1>6, <1>18, <1>19, <1>21, <1>24 DEF Separate
<1>26. Tiling(G \cup held' \cup pinned' \cup InHand(f) \cup Suspended)
  <2>1. G \cup held' \cup pinned' \cup InHand(f) \cup Suspended = (T \ {l, rr}) \cup {b}
    BY <1>2, <1>6, <1>18, <1>21, <1>24 DEF Separate
  <2> QED BY <1>19, <2>1
<1>27. MergeOK(f, g_free_lists')
  BY <1>7, <1>21 DEF MergeOK
<1> QED BY <1>1, <1>6, <1>21, <1>23, <1>24, <1>25, <1>26, <1>27, PartitionContinue DEF G

\* The outer call returns, with blocks for its caller or with none.
LEMMA ReturnsPartition ==
    ASSUME PartitionInv, ControlOK', AllocReturn \/ ReturnNothing \/ ContiguousFails
    PROVE  PartitionInv'
<1> DEFINE F == FreeOf(g_free_lists)
<1>1. depth > 0 /\ ~Splitting(Top) /\ Return /\ UnchangedLists /\ pinned' = pinned
  <2>1. Return /\ UnchangedLists /\ pinned' = pinned
    BY DEF AllocReturn, ReturnNothing, ContiguousFails, UnchangedOwners
  <2>2. depth > 0 /\ Top.pc \in {"pick", "free", "search"}
    BY DEF AllocReturn, ReturnNothing, ContiguousFails, At
  <2> QED BY <2>1, <2>2 DEF Splitting
<1>2. /\ HandOK(Top) /\ \A q \in Orders : IsInjective(g_free_lists[q])
      /\ Bits(F, buddy_map)
      /\ Separate(F, held, pinned, InHand(Top), Suspended)
      /\ Tiling(F \cup held \cup pinned \cup InHand(Top) \cup Suspended)
  BY <1>1, PartitionFacts
<1>3. InHand(Top) = ToSet(Top.chain) /\ Suspended = {}
  BY <1>1 DEF InHand, Suspended, Return
<1>4. held' = held \cup InHand(Top)
  <2>1. CASE AllocReturn
    BY <1>3, <2>1 DEF AllocReturn
  <2>2. CASE ReturnNothing \/ ContiguousFails
    <3>1. held' = held
      BY <2>2 DEF ReturnNothing, ContiguousFails, UnchangedOwners
    <3>2. Top.chain = <<>>
      BY <1>2, <2>2 DEF ReturnNothing, ContiguousFails, At, HandOK
    <3>3. ToSet(<<>>) = {}
      BY DEF ToSet
    <3> QED BY <1>3, <3>1, <3>2, <3>3
  <2> QED BY <2>1, <2>2
<1>5. g_free_lists' = g_free_lists /\ buddy_map' = buddy_map
  BY <1>1 DEF UnchangedLists
<1> HIDE DEF F
<1>6. Separate(F, held', pinned', {}, {})
  BY <1>1, <1>2, <1>4 DEF Separate
<1>7. Tiling(F \cup held' \cup pinned')
  <2>1. F \cup held' \cup pinned' = F \cup held \cup pinned \cup InHand(Top) \cup Suspended
    BY <1>1, <1>3, <1>4
  <2> QED BY <1>2, <2>1
<1> QED BY <1>1, <1>2, <1>5, <1>6, <1>7, PartitionReturn DEF F

\* A call that has just begun works on nothing.
LEMMA NewFrameHand ==
    ASSUME NEW op \in {"none", "alloc", "contig", "remove"},
           NEW pc \in {"none", "pick", "search"}, NEW pages
    PROVE  HandOK(NewFrame(op, pc, pages)) /\ InHand(NewFrame(op, pc, pages)) = {}
<1> DEFINE f == NewFrame(op, pc, pages)
<1>1. f.op = op /\ f.pc = pc /\ f.chain = <<>>
  BY DEF NewFrame
<1> HIDE DEF f
<1>2. ~Splitting(f)
  BY <1>1 DEF Splitting
<1>3. ToSet(<<>>) = {} /\ IsInjective(<<>>)
  BY DEF ToSet, IsInjective
<1>4. HandOK(f) /\ InHand(f) = {}
  BY <1>1, <1>2, <1>3 DEF HandOK, InHand
<1> QED BY <1>4 DEF f

\* get_memory_entry suspends the call that needs an entry and allocates.
LEMMA RefillEntryPoolPartition ==
    ASSUME PartitionInv, ControlOK', RefillEntryPool PROVE PartitionInv'
<1> DEFINE f == [Top EXCEPT !.pc = "got_entry"]
<1> DEFINE n == NewFrame("alloc", "pick", 1)
<1>1. depth = 1 /\ depth > 0 /\ Top.pc = "get_entry"
  BY DEF RefillEntryPool, At
<1>2. /\ call' = [call EXCEPT ![1] = f, ![2] = n] /\ depth' = 2
      /\ UnchangedLists /\ UnchangedOwners
  BY DEF RefillEntryPool
<1>3. Top \in Frame /\ HandOK(Top) /\ call \in [{1, 2} -> Frame]
  BY <1>1, PartitionFacts DEF PartitionInv, ControlOK, TypeOK
<1>4. /\ f.op = Top.op /\ f.pc = "got_entry" /\ f.chain = Top.chain
      /\ f.entry = Top.entry /\ f.order = Top.order
  BY <1>3 DEF Frame
<1>5. HandOK(n) /\ InHand(n) = {} /\ n.pc = "pick"
  <2>1. n.pc = "pick"
    BY DEF NewFrame
  <2> QED BY <2>1, NewFrameHand
<1> HIDE DEF f, n
<1>6. call'[1] = f /\ call'[2] = n
  BY <1>2, <1>3
<1>7. HandOK(f) /\ InHand(f) = InHand(Top)
  <2>1. Splitting(f) <=> Splitting(Top)
    BY <1>1, <1>4 DEF Splitting
  <2> QED BY <1>3, <1>4, <2>1 DEF HandOK, InHand
<1>8. Running' = {} /\ Suspended' = Running /\ Suspended = {}
  BY <1>1, <1>2, <1>5, <1>6, <1>7 DEF Running, Suspended, Top
<1>9. /\ FreeBlocks' = FreeBlocks /\ held' = held /\ pinned' = pinned
      /\ g_free_lists' = g_free_lists /\ buddy_map' = buddy_map
  BY <1>2 DEF FreeBlocks, UnchangedLists, UnchangedOwners
<1>10. Separate(FreeBlocks', held', pinned', Running', Suspended')
  BY <1>8, <1>9 DEF PartitionInv, Separate
<1>11. Tiles' = Tiles
  BY <1>8, <1>9 DEF Tiles
<1>12. Top' = n /\ MergeOK(n, g_free_lists')
  BY <1>2, <1>5, <1>6 DEF Top, MergeOK
<1> QED BY <1>5, <1>6, <1>7, <1>9, <1>10, <1>11, <1>12 DEF PartitionInv

\* The entry pool keeps its page for ever; the page pool is refilled next.
LEMMA RefillPagePoolPartition ==
    ASSUME PartitionInv, ControlOK', RefillPagePool PROVE PartitionInv'
<1> DEFINE n == NewFrame("alloc", "pick", PAGE_POOL_THRESHOLD)
<1> DEFINE F == FreeOf(g_free_lists)
<1>1. depth > 0 /\ Top.pc = "pick"
  BY DEF RefillPagePool, At
<1>2. /\ Continue(n) /\ pinned' = pinned \cup ToSet(Top.chain) /\ held' = held
      /\ g_free_lists' = g_free_lists /\ buddy_map' = buddy_map
  BY DEF RefillPagePool, UnchangedLists
<1>3. /\ \A q \in Orders : IsInjective(g_free_lists[q])
      /\ Bits(F, buddy_map)
      /\ Separate(F, held, pinned, InHand(Top), Suspended)
      /\ Tiling(F \cup held \cup pinned \cup InHand(Top) \cup Suspended)
  BY <1>1, PartitionFacts
<1>4. InHand(Top) = ToSet(Top.chain)
  BY <1>1 DEF InHand, Splitting
<1>5. HandOK(n) /\ InHand(n) = {} /\ MergeOK(n, g_free_lists')
  <2>1. n.pc = "pick"
    BY DEF NewFrame
  <2> HIDE DEF n
  <2>2. MergeOK(n, g_free_lists')
    BY <2>1 DEF MergeOK
  <2> QED BY <2>2, NewFrameHand DEF n
<1> HIDE DEF n, F
<1>6. Separate(F, held', pinned', InHand(n), Suspended)
  BY <1>2, <1>3, <1>4, <1>5 DEF Separate
<1>7. Tiling(F \cup held' \cup pinned' \cup InHand(n) \cup Suspended)
  <2>1. F \cup held' \cup pinned' \cup InHand(n) \cup Suspended
            = F \cup held \cup pinned \cup InHand(Top) \cup Suspended
    BY <1>2, <1>4, <1>5
  <2> QED BY <1>3, <2>1
<1> QED BY <1>1, <1>2, <1>3, <1>5, <1>6, <1>7, PartitionContinue DEF F

\* The refill is over and the suspended call goes on with what it had.
LEMMA RefillDonePartition ==
    ASSUME PartitionInv, ControlOK', RefillDone PROVE PartitionInv'
<1>1. depth = 2 /\ depth > 0 /\ Top.pc = "pick"
  BY DEF RefillDone, At
<1>2. /\ call' = [call EXCEPT ![2] = NoFrame] /\ depth' = 1
      /\ pinned' = pinned \cup ToSet(Top.chain) /\ held' = held
      /\ g_free_lists' = g_free_lists /\ buddy_map' = buddy_map
  BY DEF RefillDone, UnchangedLists
<1>3. call \in [{1, 2} -> Frame] /\ HandOK(call[1]) /\ call[1].pc = "got_entry"
  BY <1>1 DEF PartitionInv, ControlOK, TypeOK, StackOK
<1>4. call'[1] = call[1] /\ call'[2] = NoFrame
  BY <1>2, <1>3
<1>5. Running = ToSet(Top.chain)
  <2>1. Running = InHand(Top) /\ ~Splitting(Top)
    BY <1>1 DEF Running, Top, Splitting
  <2> QED BY <2>1 DEF InHand
<1>6. Running' = Suspended /\ Suspended' = {}
  BY <1>1, <1>2, <1>4 DEF Running, Suspended
<1>7. FreeBlocks' = FreeBlocks
  BY <1>2 DEF FreeBlocks
<1>8. Separate(FreeBlocks', held', pinned', Running', Suspended')
  BY <1>2, <1>5, <1>6, <1>7 DEF PartitionInv, Separate
<1>9. Tiles' = Tiles
  BY <1>2, <1>5, <1>6, <1>7 DEF Tiles
<1>10. HandOK(NoFrame)
  BY NewFrameHand DEF NoFrame
<1>11. Top' = call[1] /\ MergeOK(call[1], g_free_lists')
  BY <1>2, <1>3, <1>4 DEF Top, MergeOK
<1> QED BY <1>2, <1>3, <1>4, <1>7, <1>8, <1>9, <1>10, <1>11 DEF PartitionInv

\* A call begins with frame f, which has what the callers lose.
LEMMA PartitionCall ==
    ASSUME PartitionInv, ControlOK', NEW f, Call(f), HandOK(f), f.pc # "merge",
           held' \cup InHand(f) = held, held' \cap InHand(f) = {}
    PROVE  PartitionInv'
<1>1. /\ depth = 0 /\ depth' = 1 /\ call' = [call EXCEPT ![1] = f]
      /\ g_free_lists' = g_free_lists /\ buddy_map' = buddy_map /\ pinned' = pinned
  BY DEF Call, Idle, UnchangedLists
<1>2. call \in [{1, 2} -> Frame] /\ \A l \in {1, 2} : HandOK(call[l])
  BY DEF PartitionInv, ControlOK, TypeOK
<1>3. call'[1] = f /\ call'[2] = call[2]
  BY <1>1, <1>2
<1>4. Running = {} /\ Suspended = {} /\ Running' = InHand(f) /\ Suspended' = {}
  BY <1>1, <1>3 DEF Running, Suspended
<1>5. FreeBlocks' = FreeBlocks
  BY <1>1 DEF FreeBlocks
<1>6. Separate(FreeBlocks', held', pinned', Running', Suspended')
  BY <1>1, <1>4, <1>5 DEF PartitionInv, Separate
<1>7. Tiles' = Tiles
  BY <1>1, <1>4, <1>5 DEF Tiles
<1>8. Top' = f /\ MergeOK(f, g_free_lists')
  BY <1>1, <1>3 DEF Top, MergeOK
<1> QED BY <1>1, <1>2, <1>3, <1>5, <1>6, <1>7, <1>8 DEF PartitionInv

\* A call that takes nothing along.
LEMMA PartitionCallEmpty ==
    ASSUME PartitionInv, ControlOK', NEW f, Call(f), held' = held,
           f.pc \in {"pick", "search"}, f.chain = <<>>
    PROVE  PartitionInv'
<1>1. ToSet(<<>>) = {} /\ IsInjective(<<>>)
  BY DEF ToSet, IsInjective
<1>2. ~Splitting(f)
  BY DEF Splitting
<1>3. HandOK(f) /\ InHand(f) = {}
  BY <1>1, <1>2 DEF HandOK, InHand
<1> QED BY <1>3, PartitionCall

\* The kernel stops, or nothing happens: the blocks stay where they are.
LEMMA PartitionStill ==
    ASSUME PartitionInv, ControlOK',
           UNCHANGED <<g_free_lists, buddy_map, held, pinned, call, depth>>
    PROVE  PartitionInv'
<1>1. FreeBlocks' = FreeBlocks /\ Running' = Running /\ Suspended' = Suspended /\ Top' = Top
  BY DEF FreeBlocks, Running, Suspended, Top
<1>2. Tiles' = Tiles
  BY <1>1 DEF Tiles
<1> QED BY <1>1, <1>2 DEF PartitionInv

\* The calls from the rest of the kernel.
LEMMA EnvironmentPartition ==
    ASSUME PartitionInv, ControlOK', Environment PROVE PartitionInv'
<1>1. ASSUME NEW pages \in Requests, alloc_frames(pages) PROVE PartitionInv'
  <2> DEFINE f == NewFrame("alloc", "pick", pages)
  <2>1. Call(f) /\ held' = held
    BY <1>1 DEF alloc_frames
  <2>2. f.pc = "pick" /\ f.chain = <<>>
    BY DEF NewFrame
  <2> HIDE DEF f
  <2> QED BY <2>1, <2>2, PartitionCallEmpty
<1>2. ASSUME NEW pages \in Requests, alloc_frames_contiguos(pages) PROVE PartitionInv'
  <2> DEFINE n == NewFrame("contig", "search", pages)
  <2>1. PICK o \in Orders : Call([n EXCEPT !.order_to_alloc = o, !.order = o + 1])
    BY <1>2 DEF alloc_frames_contiguos
  <2> DEFINE f == [n EXCEPT !.order_to_alloc = o, !.order = o + 1]
  <2>2. n \in Frame /\ n.pc = "search" /\ n.chain = <<>>
    <3>1. n \in Frame
      BY NewFrameType, RequestsAssumption DEF Ops, Pcs
    <3> QED BY <3>1 DEF NewFrame
  <2> HIDE DEF n
  <2>3. f.pc = "search" /\ f.chain = <<>>
    BY <2>2 DEF Frame
  <2>4. held' = held
    BY <1>2 DEF alloc_frames_contiguos
  <2> HIDE DEF f
  <2> QED BY <2>1, <2>3, <2>4, PartitionCallEmpty DEF f
<1>3. ASSUME NEW pages \in Requests, ContiguousTooLarge(pages) PROVE PartitionInv'
  BY <1>3, PartitionStill DEF ContiguousTooLarge, Stop
<1>4. ASSUME NEW b \in held, free_frames_contiguos(b) PROVE PartitionInv'
  <2> DEFINE n == NewFrame("free", "get_entry", Size(b[2]))
  <2> DEFINE f == [n EXCEPT !.chain = <<b>>]
  <2>1. b \in Block
    BY DEF PartitionInv, ControlOK, TypeOK
  <2>2. n \in Frame /\ n.op = "free" /\ n.pc = "get_entry"
    <3>1. Size(b[2]) \in Nat
      BY <2>1, SizePositive DEF Block
    <3>2. n \in Frame
      BY <3>1, NewFrameType DEF Ops, Pcs
    <3> QED BY <3>2 DEF NewFrame
  <2> HIDE DEF n
  <2>3. f.op = "free" /\ f.pc = "get_entry" /\ f.chain = <<b>>
    BY <2>2 DEF Frame
  <2>4. Call(f) /\ held' = held \ {b}
    BY <1>4 DEF free_frames_contiguos, n
  <2> HIDE DEF f
  <2>5. ToSet(<<b>>) = {b} /\ IsInjective(<<b>>)
    BY DEF ToSet, IsInjective
  <2>6. ~Splitting(f)
    BY <2>3 DEF Splitting
  <2>7. HandOK(f) /\ InHand(f) = {b}
    BY <2>3, <2>5, <2>6 DEF HandOK, InHand
  <2> QED BY <2>3, <2>4, <2>7, PartitionCall
<1>5. ASSUME remove_range PROVE PartitionInv'
  <2> DEFINE n == NewFrame("remove", "pick", Head(boot).pages)
  <2> DEFINE f == [n EXCEPT !.addr = Head(boot).addr, !.keep = ~Head(boot).reclaim]
  <2>1. n.pc = "pick" /\ n.chain = <<>>
    BY DEF NewFrame
  <2>2. n \in Frame
    <3>1. boot \in Seq(UnusableRange) /\ boot # <<>>
      BY <1>5 DEF remove_range, PartitionInv, ControlOK, TypeOK
    <3>2. Head(boot) \in UnusableRange
      BY <3>1
    <3>3. Head(boot).pages \in Nat
      BY <3>2 DEF UnusableRange
    <3> QED BY <3>3, NewFrameType DEF Ops, Pcs
  <2>3. Call(f) /\ held' = held
    BY <1>5 DEF remove_range
  <2> HIDE DEF n
  <2>4. f.pc = "pick" /\ f.chain = <<>>
    BY <2>1, <2>2 DEF Frame
  <2> HIDE DEF f
  <2> QED BY <2>3, <2>4, PartitionCallEmpty
<1> QED BY <1>1, <1>2, <1>3, <1>4, <1>5 DEF Environment

\* Initially the blocks of the largest order are free, and they are all there is.
LEMMA InitPartition == Init => PartitionInv
<1> SUFFICES ASSUME Init PROVE PartitionInv
  OBVIOUS
<1> DEFINE n == Size(TopOrder)
<1> DEFINE G(i) == (i - 1) * n
<1> DEFINE first == [i \in 1 .. BlockCount |-> G(i)]
<1>1. ControlOK
  BY InitControlOK
<1>2. TopOrder \in Orders /\ n \in Nat \ {0} /\ BlockCount \in Nat \ {0}
  BY OrdersAssumption, SizePositive, MemoryAssumption DEF Orders, TopOrder
<1>3. g_free_lists = [o \in Orders |-> IF o = TopOrder THEN first ELSE <<>>]
  BY DEF Init
<1>4. /\ buddy_map = [o \in 0 .. FRAME_ORDERS - 2 |-> {}]
      /\ held = {} /\ pinned = {} /\ depth = 0
      /\ call = [l \in {1, 2} |-> NoFrame]
  BY DEF Init
<1>5. \A i \in 1 .. BlockCount : G(i) \in Nat /\ i - 1 \in Nat /\ G(i) % n = 0
  <2> TAKE i \in 1 .. BlockCount
  <2>1. i - 1 \in Nat
    BY <1>2
  <2> HIDE DEF n
  <2> QED BY <1>2, <2>1, MultipleDiv
<1>6. ASSUME NEW i \in 1 .. BlockCount, NEW j \in 1 .. BlockCount, G(i) = G(j) PROVE i = j
  <2>1. i - 1 \in Nat /\ j - 1 \in Nat
    BY <1>2
  <2> HIDE DEF n
  <2>2. i - 1 = ((i - 1) * n) \div n /\ j - 1 = ((j - 1) * n) \div n
    BY <1>2, <2>1, MultipleDiv
  <2>3. i - 1 = j - 1
    BY <1>6, <2>2
  <2> QED BY <2>3
<1>7. g_free_lists[TopOrder] = first /\ \A o \in Orders : o # TopOrder => g_free_lists[o] = <<>>
  BY <1>2, <1>3
<1>8. DOMAIN first = 1 .. BlockCount /\ \A i \in 1 .. BlockCount : first[i] = G(i)
  OBVIOUS
<1> HIDE DEF G, first
<1>9. ToSet(first) = {G(i) : i \in 1 .. BlockCount} /\ IsInjective(first)
  BY <1>6, <1>8 DEF ToSet, IsInjective
<1>10. ToSet(<<>>) = {} /\ IsInjective(<<>>)
  BY DEF ToSet, IsInjective
<1>11. \A a, o : <<a, o>> \in FreeBlocks <=> o = TopOrder /\ \E i \in 1 .. BlockCount : a = G(i)
  <2>1. \A b : b \in FreeBlocks <=> \E o \in Orders : \E a \in ToSet(g_free_lists[o]) : b = <<a, o>>
    BY DEF FreeBlocks
  <2>2. \A a, o : <<a, o>> \in FreeBlocks <=> o \in Orders /\ a \in ToSet(g_free_lists[o])
    BY <2>1
  <2>3. \A a, o : <<a, o>> \in FreeBlocks <=> o = TopOrder /\ a \in ToSet(first)
    BY <1>2, <1>7, <1>10, <2>2
  <2> QED BY <1>9, <2>3
<1>12. \A b \in FreeBlocks : b = <<b[1], b[2]>>
  BY DEF FreeBlocks
<1>13. Tiles = FreeBlocks /\ Running = {} /\ Suspended = {}
  BY <1>4 DEF Tiles, Running, Suspended
<1>14. Separate(FreeBlocks, held, pinned, Running, Suspended)
  BY <1>4, <1>13 DEF Separate
<1>15. Tiling(FreeBlocks)
  <2>1. ASSUME NEW b \in FreeBlocks
        PROVE  b \in Block /\ b[2] = TopOrder /\ \E i \in 1 .. BlockCount : b[1] = G(i)
    <3>1. b = <<b[1], b[2]>> /\ b[2] = TopOrder /\ \E i \in 1 .. BlockCount : b[1] = G(i)
      BY <1>11, <1>12
    <3> QED BY <1>2, <1>5, <3>1 DEF Block
  <2>2. \A b \in FreeBlocks : b[1] % Size(b[2]) = 0
    BY <1>5, <2>1
  <2>3. ASSUME NEW p \in Nat, NEW i \in 1 .. BlockCount
        PROVE  p \in Pages(G(i), TopOrder) <=> i = p \div n + 1
    <3> DEFINE q == p \div n
    <3> DEFINE m == p % n
    <3>1. q \in Nat /\ m \in 0 .. n - 1 /\ p = q * n + m
      BY <1>2, DivMod
    <3>2. p \in Pages(G(i), TopOrder) <=> G(i) <= p /\ p <= G(i) + n - 1
      BY <1>2, <1>5 DEF Pages
    <3>3. G(i) \in Nat /\ i - 1 \in Nat /\ G(i) = (i - 1) * n
      BY <1>5 DEF G
    <3> HIDE DEF q, m, n
    <3>4. CASE i = q + 1
      <4>1. i - 1 = q
        BY <3>1, <3>4
      <4>2. p = G(i) + m
        BY <3>1, <3>3, <4>1
      <4>3. G(i) <= p /\ p <= G(i) + n - 1
        BY <1>2, <3>1, <3>3, <4>2
      <4> QED BY <3>2, <3>4, <4>3 DEF q
    <3>5. CASE i # q + 1
      <4> SUFFICES ASSUME p \in Pages(G(i), TopOrder) PROVE FALSE
        BY <3>5 DEF q
      <4> DEFINE r == p - G(i)
      <4>1. r \in 0 .. n - 1 /\ p = G(i) + r
        BY <1>2, <3>2, <3>3
      <4> HIDE DEF r
      <4>2. (i - 1) * n + r = q * n + m
        BY <3>1, <3>3, <4>1
      <4>3. i - 1 \in Int /\ q \in Int
        BY <3>1, <3>3
      <4>4. i - 1 = q
        BY <1>2, <3>1, <4>1, <4>2, <4>3, QuotientUnique
      <4> QED BY <3>5, <4>4
    <3> QED BY <3>4, <3>5
  <2>4. \A b \in FreeBlocks : Pages(b[1], b[2]) \subseteq Nat
    BY <1>2, <1>5, <2>1 DEF Pages
  <2>5. Apart(FreeBlocks)
    <3> SUFFICES ASSUME NEW b \in FreeBlocks, NEW c \in FreeBlocks, b # c,
                        NEW p \in Pages(b[1], b[2]), p \in Pages(c[1], c[2])
                 PROVE  FALSE
      BY DEF Apart
    <3>1. PICK i \in 1 .. BlockCount : b[1] = G(i)
      BY <2>1
    <3>2. PICK j \in 1 .. BlockCount : c[1] = G(j)
      BY <2>1
    <3>3. p \in Nat /\ b[2] = TopOrder /\ c[2] = TopOrder
      BY <2>1, <2>4
    <3>4. i = j
      BY <2>3, <3>1, <3>2, <3>3
    <3> QED BY <1>12, <3>1, <3>2, <3>3, <3>4
  <2>6. ASSUME NEW p \in Nat
        PROVE  (\E i \in 1 .. BlockCount : p \in Pages(G(i), TopOrder)) <=> p < BlockCount * n
    <3> DEFINE q == p \div n
    <3> DEFINE m == p % n
    <3>1. q \in Nat /\ m \in 0 .. n - 1 /\ p = q * n + m
      BY <1>2, DivMod
    <3>2. \A i \in 1 .. BlockCount : p \in Pages(G(i), TopOrder) <=> i = q + 1
      BY <2>3
    <3> HIDE DEF q, m, n
    <3>3. (\E i \in 1 .. BlockCount : p \in Pages(G(i), TopOrder)) <=> q < BlockCount
      BY <1>2, <3>1, <3>2
    <3> DEFINE x == q * n
    <3> DEFINE y == BlockCount * n
    <3>4. x \in Nat /\ y \in Nat
      BY <1>2, <3>1
    <3>5. CASE q < BlockCount
      <4>1. q + 1 \in Int /\ BlockCount \in Int /\ q + 1 <= BlockCount
        BY <1>2, <3>1, <3>5
      <4>2. (q + 1) * n <= y
        BY <1>2, <4>1, MulMonotone
      <4>3. (q + 1) * n = x + n
        BY <1>2, <3>1
      <4> HIDE DEF x, y
      <4>4. p = x + m
        BY <3>1 DEF x
      <4>5. p < y
        BY <1>2, <3>1, <3>4, <4>2, <4>3, <4>4
      <4> QED BY <3>3, <3>5, <4>5 DEF y
    <3>6. CASE ~(q < BlockCount)
      <4>1. q \in Int /\ BlockCount \in Int /\ BlockCount <= q
        BY <1>2, <3>1, <3>6
      <4>2. y <= x
        BY <1>2, <4>1, MulMonotone
      <4>3. p = x + m
        BY <3>1
      <4> HIDE DEF x, y
      <4>4. ~(p < y)
        BY <1>2, <3>1, <3>4, <4>2, <4>3
      <4> QED BY <3>3, <3>6, <4>4 DEF y
    <3> QED BY <3>5, <3>6
  <2>7. Covered(FreeBlocks) = 0 .. MemoryPages - 1
    <3>1. MemoryPages = BlockCount * n /\ MemoryPages \in Nat
      BY <1>2 DEF MemoryPages
    <3>2. \A p : p \in Covered(FreeBlocks) <=> \E b \in FreeBlocks : p \in Pages(b[1], b[2])
      BY DEF Covered
    <3>3. \A i \in 1 .. BlockCount : <<G(i), TopOrder>> \in FreeBlocks
      BY <1>11
    <3>4. \A p : p \in Covered(FreeBlocks) <=>
                     \E i \in 1 .. BlockCount : p \in Pages(G(i), TopOrder)
      BY <2>1, <3>2, <3>3
    <3>5. \A p : p \in Covered(FreeBlocks) => p \in Nat
      BY <2>4, <3>2
    <3>6. \A p : p \in Covered(FreeBlocks) <=> p \in Nat /\ p < BlockCount * n
      BY <2>6, <3>4, <3>5
    <3>7. \A p : p \in 0 .. MemoryPages - 1 <=> p \in Nat /\ p < MemoryPages
      BY <3>1
    <3>8. \A p : p \in Covered(FreeBlocks) <=> p \in 0 .. MemoryPages - 1
      BY <3>1, <3>6, <3>7
    <3> QED BY <3>8
  <2> QED BY <2>1, <2>2, <2>5, <2>7 DEF Tiling
<1>16. Bits(FreeBlocks, buddy_map)
  <2>1. \A o \in 0 .. FRAME_ORDERS - 2 : o # TopOrder /\ buddy_map[o] = {}
    BY <1>4, OrdersAssumption DEF TopOrder
  <2> QED BY <1>11, <2>1 DEF Bits
<1>17. \A o \in Orders : IsInjective(g_free_lists[o])
  BY <1>7, <1>9, <1>10
<1>18. \A l \in {1, 2} : HandOK(call[l])
  BY <1>4, NewFrameHand DEF NoFrame
<1> QED BY <1>1, <1>4, <1>13, <1>14, <1>15, <1>16, <1>17, <1>18 DEF PartitionInv

\* Every step moves blocks between their owners, splits one or joins two.
LEMMA NextPartition == PartitionInv /\ [Next]_vars => PartitionInv'
<1> SUFFICES ASSUME PartitionInv, [Next]_vars PROVE PartitionInv'
  OBVIOUS
<1>1. ControlOK'
  BY NextControlOK DEF PartitionInv
<1>2. CASE Environment
  BY <1>1, <1>2, EnvironmentPartition
<1>3. CASE \/ PickOrder \/ SearchHigher \/ UseSmaller \/ GiveUp
           \/ FreeGetEntry \/ MergeDone \/ RemovePick \/ RemoveSearchLower
  BY <1>1, <1>3, SearchPartition
<1>4. CASE TakeBlock \/ SplitBegin \/ SplitEnd \/ ContiguousTake \/ RemoveUnlink
  BY <1>1, <1>4, TakeBlockPartition, SplitBeginPartition, SplitEndPartition,
     ContiguousTakePartition, RemoveUnlinkPartition
<1>5. CASE RefillEntryPool \/ RefillPagePool \/ RefillDone
  BY <1>1, <1>5, RefillEntryPoolPartition, RefillPagePoolPartition, RefillDonePartition
<1>6. CASE AllocReturn \/ ReturnNothing \/ ContiguousFails
  BY <1>1, <1>6, ReturnsPartition
<1>7. CASE FreeBlock \/ MergeBuddies
  BY <1>1, <1>7, FreeBlockPartition, MergeBuddiesPartition
<1>8. CASE ReadPastLists \/ RefillFails \/ ContiguousNullEntry
  <2>1. UNCHANGED <<g_free_lists, buddy_map, held, pinned, call, depth>>
    BY <1>8 DEF ReadPastLists, RefillFails, ContiguousNullEntry, Stop
  <2> QED BY <1>1, <2>1, PartitionStill
<1>9. CASE UNCHANGED vars
  <2>1. UNCHANGED <<g_free_lists, buddy_map, held, pinned, call, depth>>
    BY <1>9 DEF vars
  <2> QED BY <1>1, <2>1, PartitionStill
<1> QED BY <1>2, <1>3, <1>4, <1>5, <1>6, <1>7, <1>8, <1>9 DEF Next, Step, Halted

-----------------------------------------------------------------------------
(* The theorems.                                                           *)

\* The invariant is inductive, hence it always holds.
LEMMA PartitionAlways == Spec => []PartitionInv
BY InitPartition, NextPartition, PTL DEF Spec

\* No frame has two owners and none is lost: the blocks in the free lists, with
\* the callers, reserved, and in the hands of the running calls do not overlap
\* and cover the memory, whatever refill interrupts whatever split, and when
\* alloc_frames fails half way.
THEOREM FramesNeverShared == Spec => []FramesPartitioned
<1>1. PartitionInv => FramesPartitioned
  <2> SUFFICES ASSUME PartitionInv PROVE FramesPartitioned
    OBVIOUS
  <2>1. ControlOK /\ depth \in {0, 1, 2}
    <3>1. ControlOK /\ depth \in 0 .. 2
      BY DEF PartitionInv, ControlOK, TypeOK
    <3> QED BY <3>1
  <2>2. InHand(NoFrame) = {}
    BY NewFrameHand DEF NoFrame
  <2>3. \/ InHand(call[1]) = Running /\ InHand(call[2]) = Suspended
        \/ InHand(call[1]) = Suspended /\ InHand(call[2]) = Running
    <3>1. CASE depth = 0
      BY <2>1, <2>2, <3>1 DEF ControlOK, StackOK, Running, Suspended
    <3>2. CASE depth = 1
      BY <2>1, <2>2, <3>2 DEF ControlOK, StackOK, Running, Suspended
    <3>3. CASE depth = 2
      BY <3>3 DEF Running, Suspended
    <3> QED BY <2>1, <3>1, <3>2, <3>3
  <2>4. /\ Separate(FreeBlocks, held, pinned, Running, Suspended)
        /\ Tiling(Tiles) /\ \A o \in Orders : IsInjective(g_free_lists[o])
    BY DEF PartitionInv
  <2>5. FreeBlocks \cup InUse = Tiles
    BY <2>3 DEF InUse, Tiles
  <2>6. /\ FreeBlocks \cap InUse = {} /\ held \cap pinned = {}
        /\ (held \cup pinned) \cap (InHand(call[1]) \cup InHand(call[2])) = {}
        /\ InHand(call[1]) \cap InHand(call[2]) = {}
    BY <2>3, <2>4 DEF InUse, Separate
  <2> QED BY <2>4, <2>5, <2>6 DEF FramesPartitioned, Tiling, Apart, Covered
<1> QED BY <1>1, PartitionAlways, PTL

\* The bit of a pair is the exclusive or of "this half is a free block", at
\* every moment of a split, a merge or a removal that somebody else can observe.
THEOREM BuddyBitsAlwaysExact == Spec => []BuddyBitsExact
<1>1. PartitionInv => BuddyBitsExact
  <2> SUFFICES ASSUME PartitionInv,
                      NEW o \in 0 .. FRAME_ORDERS - 2,
                      NEW k \in 0 .. (MemoryPages \div Size(o + 1)) - 1
               PROVE  k \in buddy_map[o] <=>
                          ~(<<k * Size(o + 1), o>> \in FreeBlocks
                                <=> <<k * Size(o + 1) + Size(o), o>> \in FreeBlocks)
    BY DEF BuddyBitsExact
  <2>1. k \in Nat
    <3>1. o \in Nat /\ o + 1 \in Orders
      BY OrdersAssumption DEF Orders
    <3>2. Size(o + 1) \in Nat \ {0} /\ MemoryPages \in Nat
      BY <3>1, SizePositive, MemoryAssumption, OrdersAssumption DEF MemoryPages, Orders, TopOrder
    <3>3. MemoryPages \div Size(o + 1) \in Nat
      BY <3>2, DivMod
    <3> QED BY <3>3
  <2> QED BY <2>1 DEF PartitionInv, Bits
<1> QED BY <1>1, PartitionAlways, PTL


-----------------------------------------------------------------------------
(* What remove_range relies on: the ranges do not overlap, and a block is  *)
(* only ever split on the way to a chunk that is removed.                  *)

\* The pages of a range of the memory map.
RangePages(r) == {p \in Nat : r.addr <= p /\ p < r.addr + r.pages}

\* The ranges of the memory map lie in the memory and do not overlap.
RangesApart ==
    /\ \A i \in 1 .. Len(Unusable) : RangePages(Unusable[i]) \subseteq 0 .. MemoryPages - 1
    /\ \A i, j \in 1 .. Len(Unusable) :
           i # j => RangePages(Unusable[i]) \cap RangePages(Unusable[j]) = {}

\* What the call f still has to remove.
Left(f) == {p \in Nat : f.op = "remove" /\ f.addr <= p /\ p < f.addr + f.size}

\* What is still to be removed, now or later, does not overlap, and none of it
\* has an owner.
RangesOK(L, ranges, C) ==
    /\ L \subseteq (0 .. MemoryPages - 1) \ C
    /\ \A i \in 1 .. Len(ranges) :
           RangePages(ranges[i]) \subseteq (0 .. MemoryPages - 1) \ (C \cup L)
    /\ \A i, j \in 1 .. Len(ranges) :
           i # j => RangePages(ranges[i]) \cap RangePages(ranges[j]) = {}

\* The call f is on its way to the chunk at f.addr, and is done with the orders
\* above f.order.
OnTheWay(f, k, o) ==
    /\ f.op = "remove" /\ f.pc \in {"search", "get_entry"}
    /\ f.order <= o
    /\ f.addr \in Pages(k, o + 1)

\* A block that is split has an owner for one of its pages, or gets one.
SplitsOK(f, F, C) ==
    \A o \in 0 .. FRAME_ORDERS - 2 : \A k \in Nat :
        k % Size(o + 1) = 0 /\ (<<k, o>> \in F \/ <<k + Size(o), o>> \in F)
            => Pages(k, o + 1) \cap C # {} \/ OnTheWay(f, k, o)

\* The search goes down towards the block that contains the chunk.
PathOK(f, F) ==
    f.op = "remove" =>
        /\ f.pc \in {"pick", "search", "get_entry"}
        /\ f.pc # "pick" => f.addr % Size(f.order_to_alloc) = 0
        /\ f.pc = "search" => \A b \in F : f.addr \in Pages(b[1], b[2]) => b[2] <= f.order
        /\ f.pc = "get_entry" => f.addr \in Pages(f.entry, f.order)

\* The unusable ranges are being removed.
Booting == boot # <<>> \/ call[1].op = "remove"
\* The pages that have an owner.
Owned == Covered(held \cup pinned)

\* While they are, nothing else runs, and what is still to be removed is free.
RemoveInv ==
    Booting =>
        /\ depth \in {0, 1} /\ (depth = 1 => call[1].op = "remove")
        /\ RangesOK(Left(call[1]), boot, Owned)
        /\ SplitsOK(call[1], FreeOf(g_free_lists), Owned)
        /\ PathOK(call[1], FreeOf(g_free_lists))

-----------------------------------------------------------------------------
(* Alignment.                                                              *)

\* What is aligned to a large size is aligned to the smaller ones.
LEMMA AlignedDown ==
    ASSUME NEW a \in Nat, NEW w \in Orders, a % Size(w) = 0
    PROVE  \A o \in Orders : o <= w => a % Size(o) = 0
<1>1. \A o \in Orders : o \in Nat /\ o < FRAME_ORDERS
  BY OrdersAssumption DEF Orders
<1> DEFINE S == {n \in Nat : n <= w => a % Size(w - n) = 0}
<1>2. 0 \in S
  <2>1. w - 0 = w
    BY <1>1
  <2> QED BY <2>1
<1>3. ASSUME NEW n \in Nat, n \in S PROVE n + 1 \in S
  <2> SUFFICES ASSUME n + 1 <= w PROVE a % Size(w - (n + 1)) = 0
    OBVIOUS
  <2> DEFINE o == w - (n + 1)
  <2>1. /\ o \in Orders /\ o + 1 = w - n /\ w - n \in Orders /\ n <= w
    BY <1>1, OrdersAssumption DEF Orders
  <2>2. a % Size(o + 1) = 0
    BY <1>3, <2>1
  <2> HIDE DEF o
  <2>3. Size(o) \in Nat \ {0} /\ Size(o + 1) = 2 * Size(o)
    BY <2>1, Halves
  <2>4. a % Size(o) = 0
    BY <2>2, <2>3, AlignedHalves
  <2> QED BY <2>4 DEF o
<1>4. Nat \subseteq S
  <2> HIDE DEF S
  <2> QED BY <1>2, <1>3, NatSetInduction
<1>5. ASSUME NEW o \in Orders, o <= w PROVE a % Size(o) = 0
  <2>1. w - o \in Nat /\ w - o <= w /\ w - (w - o) = o
    BY <1>1, <1>5
  <2> QED BY <1>4, <2>1
<1> QED BY <1>5

\* The block that contains an aligned address starts there.
LEMMA BlockStart ==
    ASSUME NEW a \in Nat, NEW o \in Orders, a % Size(o) = 0,
           NEW x \in Nat, x % Size(o) = 0, x \in Pages(a, o)
    PROVE  x = a
<1> DEFINE n == Size(o)
<1>1. n \in Nat \ {0}
  BY SizePositive
<1>2. a <= x /\ x <= a + n - 1
  BY DEF Pages
<1>3. a % n = 0 /\ x % n = 0
  OBVIOUS
<1> HIDE DEF n
<1> DEFINE p == a \div n
<1> DEFINE q == x \div n
<1>4. p \in Nat /\ a = p * n /\ q \in Nat /\ x = q * n
  BY <1>1, <1>3, AlignedMultiple
<1> HIDE DEF p, q
<1>5. x - a \in 0 .. n - 1 /\ 0 \in 0 .. n - 1
  BY <1>1, <1>2
<1>6. p * n + (x - a) = q * n + 0
  BY <1>1, <1>4
<1>7. p = q
  BY <1>1, <1>4, <1>5, <1>6, QuotientUnique
<1> QED BY <1>4, <1>7

\* An order below the last has one above it.
LEMMA OrderAbove ==
    ASSUME NEW o \in 0 .. FRAME_ORDERS - 2
    PROVE  o \in Orders /\ o + 1 \in Orders /\ Size(o) \in Nat \ {0}
           /\ Size(o + 1) = 2 * Size(o)
<1>1. o \in Orders /\ o + 1 \in Orders
  BY OrdersAssumption DEF Orders
<1>2. o \in Nat
  OBVIOUS
<1> QED BY <1>1, <1>2, SizePositive, Halves

-----------------------------------------------------------------------------
(* The steps of boot.                                                      *)

\* Only calls take steps.
LEMMA StepsInCalls == ASSUME depth = 0 PROVE ~Step
<1>1. \A op, pc : ~At(op, pc)
  BY DEF At
<1>2. ~SplitEnd
  BY DEF SplitEnd
<1>3. ~(PickOrder \/ SearchHigher \/ UseSmaller \/ GiveUp \/ TakeBlock \/ SplitBegin
        \/ ReadPastLists \/ RefillEntryPool \/ RefillPagePool \/ RefillDone \/ RefillFails)
  BY <1>1 DEF PickOrder, SearchHigher, UseSmaller, GiveUp, TakeBlock, SplitBegin,
     ReadPastLists, RefillEntryPool, RefillPagePool, RefillDone, RefillFails
<1>4. ~(AllocReturn \/ ReturnNothing \/ ContiguousTake \/ ContiguousFails
        \/ ContiguousNullEntry \/ FreeGetEntry \/ FreeBlock \/ MergeBuddies \/ MergeDone
        \/ RemovePick \/ RemoveSearchLower \/ RemoveUnlink)
  BY <1>1 DEF AllocReturn, ReturnNothing, ContiguousTake, ContiguousFails,
     ContiguousNullEntry, FreeGetEntry, FreeBlock, MergeBuddies, MergeDone, Merging,
     RemovePick, RemoveSearchLower, RemoveUnlink
<1> QED BY <1>2, <1>3, <1>4 DEF Step

\* While boot removes ranges nothing else runs.
LEMMA BootSteps ==
    ASSUME ControlOK, RemoveInv, Booting, [Next]_vars
    PROVE  \/ UNCHANGED vars
           \/ depth = 0 /\ remove_range
           \/ /\ depth = 1 /\ Top = call[1] /\ Top.op = "remove"
              /\ RemovePick \/ RemoveSearchLower \/ RemoveUnlink \/ SplitEnd \/ ReturnNothing
<1>1. depth \in {0, 1} /\ (depth = 1 => Top = call[1] /\ Top.op = "remove")
  BY DEF RemoveInv, Top
<1>2. CASE depth = 0
  <2>1. boot # <<>>
    <3>1. NoFrame.op = "none"
      BY DEF NoFrame, NewFrame
    <3>2. call[1] = NoFrame
      BY <1>2 DEF ControlOK, StackOK
    <3> QED BY <3>1, <3>2 DEF Booting
  <2>2. Environment => remove_range
    BY <2>1 DEF Environment, alloc_frames, alloc_frames_contiguos, ContiguousTooLarge,
                free_frames_contiguos
  <2>4. ~Step
    BY <1>2, StepsInCalls
  <2> QED BY <1>2, <2>2, <2>4 DEF Next, Halted
<1>3. CASE depth = 1
  <2>1. ~Environment
    BY <1>3 DEF Environment, alloc_frames, alloc_frames_contiguos, ContiguousTooLarge,
                free_frames_contiguos, remove_range, Call, Idle
  <2>2. \A op, pc : At(op, pc) => op = "remove"
    BY <1>1, <1>3 DEF At
  <2>3. Step => RemovePick \/ RemoveSearchLower \/ RemoveUnlink \/ SplitEnd \/ ReturnNothing
    BY <2>2 DEF Step, PickOrder, SearchHigher, UseSmaller, GiveUp, TakeBlock, SplitBegin,
       ReadPastLists, RefillEntryPool, RefillPagePool, RefillDone, RefillFails,
       AllocReturn, ContiguousTake, ContiguousFails, ContiguousNullEntry,
       FreeGetEntry, FreeBlock, MergeBuddies, MergeDone, Merging
  <2> QED BY <1>1, <1>3, <2>1, <2>3 DEF Next, Halted
<1> QED BY <1>1, <1>2, <1>3

\* A removal goes on with frame f.
LEMMA RemoveContinue ==
    ASSUME ControlOK, depth = 1, NEW f, Continue(f), f.op = "remove",
           RangesOK(Left(f), boot', Owned'),
           SplitsOK(f, FreeOf(g_free_lists'), Owned'),
           PathOK(f, FreeOf(g_free_lists'))
    PROVE  RemoveInv'
<1>1. depth' = 1 /\ call'[1] = f
  BY ContinueTop
<1> QED BY <1>1 DEF RemoveInv

\* What the removal knows of its chunk.
LEMMA RemoveFacts ==
    ASSUME PartitionInv, RemoveInv, depth = 1, Top = call[1], Top.op = "remove"
    PROVE  /\ Top \in Frame /\ LocalsOK(Top, g_free_lists) /\ HandOK(Top) /\ Top.chain = <<>>
           /\ g_free_lists \in [Orders -> Seq(Nat)]
           /\ RangesOK(Left(Top), boot, Owned)
           /\ SplitsOK(Top, FreeOf(g_free_lists), Owned)
           /\ PathOK(Top, FreeOf(g_free_lists))
           /\ Tiling(FreeOf(g_free_lists) \cup held \cup pinned \cup InHand(Top))
           /\ held \cup pinned \subseteq Block
<1>1. depth > 0 /\ Suspended = {}
  BY DEF Suspended
<1>2. /\ Top \in Frame /\ LocalsOK(Top, g_free_lists) /\ HandOK(Top)
      /\ g_free_lists \in [Orders -> Seq(Nat)]
      /\ Tiling(FreeOf(g_free_lists) \cup held \cup pinned \cup InHand(Top) \cup Suspended)
  BY <1>1, PartitionFacts
<1>3. Tiling(FreeOf(g_free_lists) \cup held \cup pinned \cup InHand(Top))
  <2>1. FreeOf(g_free_lists) \cup held \cup pinned \cup InHand(Top) \cup Suspended
            = FreeOf(g_free_lists) \cup held \cup pinned \cup InHand(Top)
    BY <1>1
  <2> QED BY <1>2, <2>1
<1>4. held \cup pinned \subseteq Block
  BY DEF PartitionInv, ControlOK, TypeOK
<1>5. Top.chain = <<>>
  BY <1>2 DEF HandOK
<1> QED BY <1>2, <1>3, <1>4, <1>5 DEF RemoveInv, Booting

\* What f is on its way to, g is as well.
LEMMA SplitsFurther ==
    ASSUME NEW F, NEW C, NEW f, NEW g, SplitsOK(f, F, C),
           \A o \in 0 .. FRAME_ORDERS - 2 : \A k \in Nat :
               OnTheWay(f, k, o) => OnTheWay(g, k, o)
    PROVE  SplitsOK(g, F, C)
BY DEF SplitsOK

\* A chunk is chosen: its address is a multiple of its size, and the search begins
\* above every block.
LEMMA RemovePickRemoves ==
    ASSUME PartitionInv, RemoveInv, depth = 1, Top = call[1], Top.op = "remove", RemovePick
    PROVE  RemoveInv'
<1>1. /\ Top \in Frame /\ RangesOK(Left(Top), boot, Owned)
      /\ SplitsOK(Top, FreeOf(g_free_lists), Owned)
      /\ g_free_lists \in [Orders -> Seq(Nat)]
  BY RemoveFacts
<1>2. PICK w \in Orders : /\ RangeOrder(w, Top.addr, Top.size)
                          /\ Continue([Top EXCEPT !.pc = "search", !.order_to_alloc = w,
                                                  !.order = TopOrder])
  BY DEF RemovePick
<1> DEFINE f == [Top EXCEPT !.pc = "search", !.order_to_alloc = w, !.order = TopOrder]
<1>3. /\ f.op = "remove" /\ f.pc = "search" /\ f.order_to_alloc = w /\ f.order = TopOrder
      /\ f.addr = Top.addr /\ f.size = Top.size /\ Top.pc = "pick" /\ Top.addr \in Nat
  BY <1>1 DEF Frame, RemovePick, At
<1>4. g_free_lists' = g_free_lists /\ held' = held /\ pinned' = pinned /\ boot' = boot
  BY DEF RemovePick, UnchangedLists, UnchangedOwners
<1> HIDE DEF f
<1>5. Owned' = Owned
  BY <1>4 DEF Owned
<1>6. Left(f) = Left(Top)
  BY <1>3 DEF Left
<1>7. SplitsOK(f, FreeOf(g_free_lists), Owned)
  <2>1. \A o, k : ~OnTheWay(Top, k, o)
    BY <1>3 DEF OnTheWay
  <2> QED BY <1>1, <2>1, SplitsFurther
<1>8. PathOK(f, FreeOf(g_free_lists))
  <2>1. Top.addr % Size(w) = 0
    <3>1. CASE w = 0
      BY <1>3, <3>1, SizesAssumption DEF Size
    <3>2. CASE w # 0
      BY <1>2, <3>2 DEF RangeOrder
    <3> QED BY <3>1, <3>2
  <2>2. \A b \in FreeOf(g_free_lists) : b[2] <= TopOrder
    <3>1. \A b \in FreeOf(g_free_lists) : b[2] \in Orders
      BY <1>1, FreeType
    <3>2. \A o \in Orders : o <= TopOrder
      BY OrdersAssumption DEF Orders, TopOrder
    <3> QED BY <3>1, <3>2
  <2> QED BY <1>3, <2>1, <2>2 DEF PathOK
<1>9. ControlOK
  BY DEF PartitionInv
<1>10. RemoveInv'
  <2>1. Continue(f)
    BY <1>2 DEF f
  <2>2. FreeOf(g_free_lists') = FreeOf(g_free_lists)
    BY <1>4
  <2> QED BY <1>1, <1>3, <1>4, <1>5, <1>6, <1>7, <1>8, <1>9, <2>1, <2>2, RemoveContinue
<1> QED BY <1>10

\* No block of this order contains the chunk.
LEMMA RemoveSearchLowerRemoves ==
    ASSUME PartitionInv, RemoveInv, depth = 1, Top = call[1], Top.op = "remove", RemoveSearchLower
    PROVE  RemoveInv'
<1> DEFINE f == [Top EXCEPT !.order = @ - 1]
<1>1. /\ Top \in Frame /\ RangesOK(Left(Top), boot, Owned)
      /\ SplitsOK(Top, FreeOf(g_free_lists), Owned)
      /\ PathOK(Top, FreeOf(g_free_lists))
      /\ g_free_lists \in [Orders -> Seq(Nat)] /\ LocalsOK(Top, g_free_lists)
  BY RemoveFacts
<1>2. /\ Continue(f) /\ Top.pc = "search" /\ Containing = {} /\ Top.order # Top.order_to_alloc
      /\ g_free_lists' = g_free_lists /\ held' = held /\ pinned' = pinned /\ boot' = boot
  BY DEF RemoveSearchLower, At, UnchangedLists, UnchangedOwners
<1>3. /\ f.op = "remove" /\ f.pc = "search" /\ f.order_to_alloc = Top.order_to_alloc
      /\ f.order = Top.order - 1
      /\ f.addr = Top.addr /\ f.size = Top.size /\ Top.addr \in Nat
  BY <1>1, <1>2 DEF Frame
<1>4. Top.order \in Orders /\ Top.order \in Nat
  BY <1>1, <1>2 DEF LocalsOK, Orders
<1> HIDE DEF f
<1>5. Owned' = Owned /\ Left(f) = Left(Top)
  BY <1>2, <1>3 DEF Owned, Left
<1>7. SplitsOK(f, FreeOf(g_free_lists), Owned)
  <2>1. ASSUME NEW o \in 0 .. FRAME_ORDERS - 2, NEW k \in Nat, OnTheWay(Top, k, o)
        PROVE  OnTheWay(f, k, o)
    <3>1. Top.order <= o /\ f.addr \in Pages(k, o + 1)
      BY <1>3, <2>1 DEF OnTheWay
    <3>2. f.order <= o
      BY <1>3, <1>4, <3>1
    <3> QED BY <1>3, <3>1, <3>2 DEF OnTheWay
  <2> QED BY <1>1, <2>1, SplitsFurther
<1>8. PathOK(f, FreeOf(g_free_lists))
  <2>1. ASSUME NEW b \in FreeOf(g_free_lists), f.addr \in Pages(b[1], b[2])
        PROVE  b[2] <= f.order
    <3>1. b[2] <= Top.order /\ b[2] \in Orders /\ b = <<b[1], b[2]>>
      BY <1>1, <1>2, <1>3, <2>1, FreeType DEF PathOK
    <3>2. b[2] # Top.order
      <4> SUFFICES ASSUME b[2] = Top.order PROVE FALSE
        OBVIOUS
      <4>1. b[1] \in ToSet(g_free_lists[Top.order])
        BY <1>4, <3>1, FreeElement
      <4>2. PICK i \in 1 .. Len(g_free_lists[Top.order]) : g_free_lists[Top.order][i] = b[1]
        BY <1>1, <1>4, <4>1, ToSetElement
      <4>3. i \in DOMAIN g_free_lists[Top.order]
        BY <1>1, <1>4
      <4>4. i \in Containing
        BY <1>3, <2>1, <4>2, <4>3 DEF Containing
      <4> QED BY <1>2, <4>4
    <3>3. b[2] \in Nat
      BY <3>1 DEF Orders
    <3> QED BY <1>3, <1>4, <3>1, <3>2, <3>3
  <2>2. f.addr % Size(f.order_to_alloc) = 0
    BY <1>1, <1>2, <1>3 DEF PathOK
  <2> QED BY <1>3, <2>1, <2>2 DEF PathOK
<1>9. ControlOK
  BY DEF PartitionInv
<1>10. FreeOf(g_free_lists') = FreeOf(g_free_lists)
  BY <1>2
<1> QED BY <1>1, <1>2, <1>3, <1>5, <1>7, <1>8, <1>9, <1>10, RemoveContinue

\* The halves of the block that contains the chunk are the only blocks of their
\* pair, and no smaller block contains it.
LEMMA SplitEndRemoves ==
    ASSUME PartitionInv, RemoveInv, depth = 1, Top = call[1], Top.op = "remove", SplitEnd
    PROVE  RemoveInv'
<1> DEFINE o == Top.order - 1
<1> DEFINE l == Top.entry
<1> DEFINE r == l + Size(o)
<1> DEFINE f == [Top EXCEPT !.pc = "search", !.order = o]
<1> DEFINE F == FreeOf(g_free_lists)
<1> DEFINE G == FreeOf(g_free_lists')
<1>1. /\ Top \in Frame /\ RangesOK(Left(Top), boot, Owned)
      /\ SplitsOK(Top, F, Owned) /\ PathOK(Top, F)
      /\ g_free_lists \in [Orders -> Seq(Nat)] /\ LocalsOK(Top, g_free_lists)
      /\ Tiling(F \cup held \cup pinned \cup InHand(Top))
  BY RemoveFacts
<1>2. Splitting(Top) /\ Top.pc = "get_entry"
  BY <1>1 DEF SplitEnd, Splitting, PathOK
<1>3. /\ Continue(f) /\ held' = held /\ pinned' = pinned /\ boot' = boot
      /\ g_free_lists' = [g_free_lists EXCEPT ![o] = <<l, r>> \o @]
  BY DEF SplitEnd, UnchangedOwners
<1>4. /\ Top.order \in Orders /\ Top.order \in Nat /\ Top.order # 0
      /\ o \in 0 .. FRAME_ORDERS - 2 /\ o + 1 = Top.order
      /\ l \in Nat /\ Top.addr \in Nat
  <2>1. Top.order \in Orders /\ Top.order_to_alloc < Top.order /\ Top.order_to_alloc \in Orders
    BY <1>1, <1>2 DEF LocalsOK, Frame
  <2>2. Top.entry \in Nat /\ Top.addr \in Nat
    BY <1>1 DEF Frame
  <2> DEFINE q == Top.order
  <2> DEFINE w == Top.order_to_alloc
  <2>3. q \in Orders /\ w < q /\ w \in Orders
    BY <2>1
  <2> HIDE DEF q, w
  <2>4. q \in Nat /\ q # 0 /\ q - 1 \in 0 .. FRAME_ORDERS - 2 /\ (q - 1) + 1 = q
    BY <2>3, OrdersAssumption DEF Orders
  <2> QED BY <2>1, <2>2, <2>4 DEF q
<1>5. /\ f.op = "remove" /\ f.pc = "search" /\ f.order_to_alloc = Top.order_to_alloc
      /\ f.order = o /\ f.addr = Top.addr /\ f.size = Top.size
  BY <1>1 DEF Frame
<1>6. o \in Orders /\ o + 1 \in Orders /\ Size(o) \in Nat \ {0} /\ Size(o + 1) = 2 * Size(o)
  BY <1>4, OrderAbove
<1>7. <<l, o + 1>> \in InHand(Top)
  BY <1>2, <1>4 DEF InHand
<1>8. l % Size(o + 1) = 0 /\ \A b \in F : b # <<l, o + 1>> => Pages(b[1], b[2]) \cap Pages(l, o + 1) = {}
  <2> DEFINE b == <<l, o + 1>>
  <2>1. b[1] = l /\ b[2] = o + 1
    OBVIOUS
  <2> HIDE DEF b, l, o
  <2>2. b[1] % Size(b[2]) = 0
    BY <1>1, <1>7 DEF Tiling, b
  <2>3. \A c \in F : c # b => Pages(c[1], c[2]) \cap Pages(b[1], b[2]) = {}
    BY <1>1, <1>7 DEF Tiling, Apart, b
  <2> QED BY <2>1, <2>2, <2>3 DEF b
<1>9. l + Size(o) \in Nat /\ <<l, o + 1>> \notin F
  <2>1. Separate(FreeOf(g_free_lists), held, pinned, InHand(Top), Suspended)
    BY depth > 0, PartitionFacts
  <2> QED BY <1>4, <1>6, <1>7, <2>1 DEF Separate
<1> HIDE DEF f, l, o
<1>10. \A b : b \in G => b \in F \/ b = <<l, o>> \/ b = <<r, o>>
  <2> DEFINE s == g_free_lists[o]
  <2> DEFINE t == <<r>> \o s
  <2>1. s \in Seq(Nat) /\ r \in Nat
    BY <1>1, <1>6, <1>9
  <2> HIDE DEF s, r
  <2>2. <<l, r>> \o s = <<l>> \o t
    BY <1>4, <2>1, ConsTwice
  <2>3. ToSet(t) = ToSet(s) \cup {r} /\ t \in Seq(Nat)
    BY <2>1, ToSetCons
  <2>4. ToSet(<<l>> \o t) = ToSet(t) \cup {l} /\ <<l>> \o t \in Seq(Nat)
    <3> HIDE DEF t
    <3>1. <<l>> \in Seq(Nat) /\ l \in Nat
      BY <1>4
    <3> QED BY <2>3, <3>1, ToSetCons
  <2> HIDE DEF t
  <2>5. /\ g_free_lists' \in [Orders -> Seq(Nat)]
        /\ ToSet(g_free_lists'[o]) = ToSet(s) \cup {l, r}
        /\ \A q \in Orders : q # o => g_free_lists'[q] = g_free_lists[q]
    <3>1. g_free_lists' = [g_free_lists EXCEPT ![o] = <<l>> \o t]
      BY <1>3, <2>2 DEF s, r
    <3> QED BY <1>1, <1>6, <2>3, <2>4, <3>1
  <2>6. ASSUME NEW x, NEW q \in Orders, <<x, q>> \in G
        PROVE  <<x, q>> \in F \/ <<x, q>> = <<l, o>> \/ <<x, q>> = <<r, o>>
    <3>1. x \in ToSet(g_free_lists'[q])
      BY <2>6, FreeElement
    <3>2. CASE q = o
      BY <2>5, <3>1, <3>2, FreeElement DEF s
    <3>3. CASE q # o
      BY <2>5, <3>1, <3>3, FreeElement
    <3> QED BY <3>2, <3>3
  <2>7. \A b \in G : b = <<b[1], b[2]>> /\ b[2] \in Orders
    BY <2>5, FreeType
  <2> QED BY <2>6, <2>7
<1>11. Owned' = Owned /\ Left(f) = Left(Top)
  BY <1>3, <1>5 DEF Owned, Left
<1>12. Top.addr \in Pages(l, o + 1)
  BY <1>1, <1>2, <1>4 DEF PathOK, l
<1>13. SplitsOK(f, G, Owned)
  <2> SUFFICES ASSUME NEW q \in 0 .. FRAME_ORDERS - 2, NEW k \in Nat, k % Size(q + 1) = 0,
                      <<k, q>> \in G \/ <<k + Size(q), q>> \in G
               PROVE  Pages(k, q + 1) \cap Owned # {} \/ OnTheWay(f, k, q)
    BY DEF SplitsOK
  <2>1. CASE <<k, q>> \in F \/ <<k + Size(q), q>> \in F
    <3>1. Pages(k, q + 1) \cap Owned # {} \/ OnTheWay(Top, k, q)
      BY <1>1, <2>1 DEF SplitsOK
    <3>2. ASSUME OnTheWay(Top, k, q) PROVE OnTheWay(f, k, q)
      <4>1. Top.order <= q /\ Top.addr \in Pages(k, q + 1)
        BY <3>2 DEF OnTheWay
      <4>2. o <= q
        BY <1>4, <4>1
      <4> QED BY <1>5, <4>1, <4>2 DEF OnTheWay
    <3> QED BY <3>1, <3>2
  <2>2. CASE ~(<<k, q>> \in F \/ <<k + Size(q), q>> \in F)
    <3>1. q = o /\ (k = l \/ k = r \/ k + Size(o) = l \/ k + Size(o) = r)
      BY <1>10, <2>2
    <3> DEFINE n == Size(o)
    <3>2. /\ n \in Nat \ {0} /\ k % (2 * n) = 0 /\ l % (2 * n) = 0 /\ l \in Nat /\ r = l + n
      BY <1>4, <1>6, <1>8, <3>1
    <3>3. k = l \/ k = l + n \/ k + n = l \/ k + n = l + n
      BY <3>1
    <3> HIDE DEF n
    <3> DEFINE i == k \div (2 * n)
    <3> DEFINE j == l \div (2 * n)
    <3>4. 2 * n \in Nat \ {0}
      BY <3>2
    <3>5. i \in Nat /\ k = i * (2 * n) /\ j \in Nat /\ l = j * (2 * n)
      BY <3>2, <3>4, AlignedMultiple
    <3> HIDE DEF i, j
    <3>6. k # l + n /\ l # k + n
      BY <3>2, <3>5, PairsApart
    <3>7. k = l
      BY <3>2, <3>3, <3>6
    <3>8. OnTheWay(f, k, q)
      <4>1. o <= o /\ f.addr \in Pages(k, o + 1)
        BY <1>4, <1>5, <1>12, <3>7
      <4> QED BY <1>5, <3>1, <4>1 DEF OnTheWay
    <3> QED BY <3>8
  <2> QED BY <2>1, <2>2
<1>14. PathOK(f, G)
  <2>1. ASSUME NEW b \in G, f.addr \in Pages(b[1], b[2]) PROVE b[2] <= f.order
    <3>1. b \notin F
      BY <1>5, <1>8, <1>9, <1>12, <2>1
    <3>2. b[2] = o
      BY <1>10, <3>1
    <3> QED BY <1>4, <1>5, <3>2
  <2>2. f.addr % Size(f.order_to_alloc) = 0
    BY <1>1, <1>2, <1>5 DEF PathOK
  <2> QED BY <1>5, <2>1, <2>2 DEF PathOK
<1>15. ControlOK
  BY DEF PartitionInv
<1> QED BY <1>1, <1>3, <1>5, <1>11, <1>13, <1>14, <1>15, RemoveContinue

\* The block that contains the chunk is split further, or it is the chunk.
LEMMA RemoveUnlinkRemoves ==
    ASSUME PartitionInv, RemoveInv, depth = 1, Top = call[1], Top.op = "remove", RemoveUnlink
    PROVE  RemoveInv'
<1> DEFINE o == Top.order
<1> DEFINE F1(a) == [Top EXCEPT !.pc = "get_entry", !.entry = a]
<1> DEFINE F2 == [Top EXCEPT !.pc = "pick", !.size = @ - Size(o), !.addr = @ + Size(o)]
<1>1. /\ Top \in Frame /\ RangesOK(Left(Top), boot, Owned)
      /\ SplitsOK(Top, FreeOf(g_free_lists), Owned) /\ PathOK(Top, FreeOf(g_free_lists))
      /\ g_free_lists \in [Orders -> Seq(Nat)] /\ LocalsOK(Top, g_free_lists)
      /\ Tiling(FreeOf(g_free_lists) \cup held \cup pinned \cup InHand(Top))
  BY RemoveFacts
<1>2. PICK i \in Containing :
          LET a == g_free_lists[o][i]
          IN  /\ g_free_lists' = [g_free_lists EXCEPT ![o] = RemoveAt(@, i)]
              /\ buddy_map' = toggle_buddy_bit(buddy_map, a, o)
              /\ \/ /\ o # Top.order_to_alloc
                    /\ Continue(F1(a))
                    /\ UNCHANGED <<held, pinned>>
                 \/ /\ o = Top.order_to_alloc
                    /\ Continue(F2)
                    /\ pinned' = IF Top.keep THEN pinned \cup {<<a, o>>} ELSE pinned
                    /\ held' = IF Top.keep THEN held ELSE held \cup {<<a, o>>}
  BY DEF RemoveUnlink
<1> DEFINE a == g_free_lists[o][i]
<1> DEFINE F == FreeOf(g_free_lists)
<1> DEFINE G == FreeOf(g_free_lists')
<1>3. boot' = boot /\ Top.pc = "search" /\ ControlOK /\ depth > 0
  BY DEF RemoveUnlink, At, PartitionInv
<1>4. /\ o \in Orders /\ o \in Nat /\ Top.addr \in Nat /\ Top.size \in Nat
      /\ Top.order_to_alloc \in Orders /\ Size(Top.order_to_alloc) <= Top.size
  BY <1>1, <1>3 DEF LocalsOK, Frame, Orders
<1>5. i \in 1 .. Len(g_free_lists[o]) /\ Top.addr \in Pages(a, o)
  <2>1. i \in DOMAIN g_free_lists[o] /\ Top.addr \in Pages(a, o)
    BY DEF Containing
  <2> QED BY <1>1, <1>4, <2>1
<1>6. Taken(a, o) /\ a \in Nat
  BY <1>2, <1>3, <1>4, <1>5, ElementTaken
<1>7. <<a, o>> \in F /\ G = F \ {<<a, o>>}
  BY <1>6 DEF Taken
<1>8. a % Size(o) = 0
  <2> DEFINE b == <<a, o>>
  <2>1. b[1] = a /\ b[2] = o /\ b \in F
    BY <1>7
  <2> HIDE DEF b, F, a, o
  <2>2. b[1] % Size(b[2]) = 0
    BY <1>1, <2>1 DEF Tiling, F
  <2> QED BY <2>1, <2>2
<1>9. CASE o # Top.order_to_alloc
  <2> DEFINE f == F1(a)
  <2>1. Continue(f) /\ held' = held /\ pinned' = pinned
    BY <1>2, <1>9
  <2>2. /\ f.op = "remove" /\ f.pc = "get_entry" /\ f.entry = a /\ f.order = o
        /\ f.addr = Top.addr /\ f.size = Top.size /\ f.order_to_alloc = Top.order_to_alloc
    BY <1>1, <1>3 DEF Frame
  <2> HIDE DEF f, a, F, G
  <2>3. Owned' = Owned /\ Left(f) = Left(Top)
    BY <2>1, <2>2 DEF Owned, Left
  <2>4. SplitsOK(f, F, Owned)
    <3>1. \A q, k : OnTheWay(Top, k, q) => OnTheWay(f, k, q)
      BY <2>2 DEF OnTheWay
    <3> QED BY <1>1, <3>1, SplitsFurther DEF F
  <2>5. SplitsOK(f, G, Owned)
    BY <1>7, <2>4 DEF SplitsOK
  <2>6. PathOK(f, G)
    <3>1. f.addr % Size(f.order_to_alloc) = 0
      BY <1>1, <1>3, <2>2 DEF PathOK
    <3>2. f.addr \in Pages(f.entry, f.order)
      BY <1>5, <2>2 DEF a
    <3> QED BY <2>2, <3>1, <3>2 DEF PathOK
  <2> QED BY <1>1, <1>3, <2>1, <2>2, <2>3, <2>5, <2>6, RemoveContinue DEF G
<1>10. CASE o = Top.order_to_alloc
  <2> DEFINE n == Size(o)
  <2> DEFINE U == held \cup pinned
  <2>1. /\ Continue(F2)
        /\ pinned' = IF Top.keep THEN pinned \cup {<<a, o>>} ELSE pinned
        /\ held' = IF Top.keep THEN held ELSE held \cup {<<a, o>>}
    BY <1>2, <1>10
  <2>2. /\ F2.op = "remove" /\ F2.pc = "pick"
        /\ F2.addr = Top.addr + n /\ F2.size = Top.size - n
    BY <1>1 DEF Frame
  <2>3. n \in Nat \ {0} /\ n <= Top.size
    BY <1>4, <1>10, SizePositive
  <2>4. Top.addr = a
    <3>1. Top.addr % Size(o) = 0
      BY <1>1, <1>3, <1>10 DEF PathOK
    <3> HIDE DEF a, o
    <3> QED BY <1>4, <1>5, <1>6, <1>8, <3>1, BlockStart DEF a, o
  <2>5. (held \cup pinned)' = U \cup {<<a, o>>}
    <3> HIDE DEF a, o
    <3>1. CASE Top.keep
      BY <2>1, <3>1 DEF a, o
    <3>2. CASE ~Top.keep
      BY <2>1, <3>2 DEF a, o
    <3> QED BY <3>1, <3>2
  <2>6. Owned' = Owned \cup Pages(a, o)
    <3> HIDE DEF a, o, U
    <3> DEFINE b == <<a, o>>
    <3>1. Covered(U \cup {b}) = Covered(U) \cup Pages(a, o)
      <4>1. b[1] = a /\ b[2] = o
        OBVIOUS
      <4> HIDE DEF b
      <4>2. \A p : p \in Covered(U \cup {b}) <=> p \in Covered(U) \/ p \in Pages(b[1], b[2])
        BY CoveredPage
      <4> QED BY <4>1, <4>2
    <3>2. Owned' = Covered((held \cup pinned)') /\ Owned = Covered(U)
      BY DEF Owned, U, Covered
    <3> QED BY <2>5, <3>1, <3>2
  <2> HIDE DEF F2, n, U
  <2>7. Left(F2) = Left(Top) \ Pages(a, o) /\ Pages(a, o) \subseteq Left(Top)
    <3>1. Pages(a, o) = {p \in Nat : Top.addr <= p /\ p < Top.addr + n}
      BY <1>4, <2>3, <2>4 DEF Pages, n
    <3>2. Left(Top) = {p \in Nat : Top.addr <= p /\ p < Top.addr + Top.size}
      BY DEF Left
    <3>3. Left(F2) = {p \in Nat : Top.addr + n <= p /\ p < Top.addr + Top.size}
      <4>1. (Top.addr + n) + (Top.size - n) = Top.addr + Top.size
        BY <1>4, <2>3
      <4> QED BY <2>2, <4>1 DEF Left
    <3> HIDE DEF a, o
    <3> DEFINE x == Top.addr
    <3> DEFINE y == Top.size
    <3>4. x \in Nat /\ y \in Nat /\ n \in Nat /\ n <= y
      BY <1>4, <2>3
    <3> HIDE DEF x, y
    <3>5. {p \in Nat : x + n <= p /\ p < x + y}
              = {p \in Nat : x <= p /\ p < x + y} \ {p \in Nat : x <= p /\ p < x + n}
      BY <3>4
    <3>6. {p \in Nat : x <= p /\ p < x + n} \subseteq {p \in Nat : x <= p /\ p < x + y}
      BY <3>4
    <3> QED BY <3>1, <3>2, <3>3, <3>5, <3>6 DEF x, y
  <2>8. RangesOK(Left(F2), boot, Owned')
    <3> HIDE DEF a, o
    <3>1. Left(F2) \subseteq Left(Top) /\ Left(F2) \cap Pages(a, o) = {}
      BY <2>7
    <3>2. Owned' \cup Left(F2) \subseteq Owned \cup Left(Top)
      BY <2>6, <2>7
    <3>3. Left(F2) \subseteq (0 .. MemoryPages - 1) \ Owned'
      BY <1>1, <2>6, <3>1 DEF RangesOK
    <3>4. ASSUME NEW j \in 1 .. Len(boot)
          PROVE RangePages(boot[j]) \subseteq (0 .. MemoryPages - 1) \ (Owned' \cup Left(F2))
      <4>1. RangePages(boot[j]) \subseteq (0 .. MemoryPages - 1) \ (Owned \cup Left(Top))
        BY <1>1 DEF RangesOK
      <4> QED BY <3>2, <4>1
    <3> QED BY <1>1, <3>3, <3>4 DEF RangesOK
  <2>9. SplitsOK(F2, G, Owned')
    <3> SUFFICES ASSUME NEW q \in 0 .. FRAME_ORDERS - 2, NEW k \in Nat, k % Size(q + 1) = 0,
                        <<k, q>> \in G \/ <<k + Size(q), q>> \in G
                 PROVE  Pages(k, q + 1) \cap Owned' # {}
      BY DEF SplitsOK
    <3>1. Pages(k, q + 1) \cap Owned # {} \/ OnTheWay(Top, k, q)
      BY <1>1, <1>7 DEF SplitsOK
    <3>2. ASSUME OnTheWay(Top, k, q) PROVE Pages(k, q + 1) \cap Owned' # {}
      BY <1>5, <2>6, <3>2 DEF OnTheWay
    <3> QED BY <2>6, <3>1, <3>2
  <2>10. PathOK(F2, G)
    BY <2>2 DEF PathOK
  <2> QED BY <1>3, <2>1, <2>2, <2>8, <2>9, <2>10, RemoveContinue
<1> QED BY <1>9, <1>10

\* The next range begins.
LEMMA RemoveRangeRemoves ==
    ASSUME PartitionInv, RemoveInv, Booting, depth = 0, remove_range
    PROVE  RemoveInv'
<1> DEFINE n == NewFrame("remove", "pick", Head(boot).pages)
<1> DEFINE f == [n EXCEPT !.addr = Head(boot).addr, !.keep = ~Head(boot).reclaim]
<1>1. /\ boot # <<>> /\ boot \in Seq(UnusableRange) /\ ControlOK
      /\ call \in [{1, 2} -> Frame] /\ StackOK
  BY DEF remove_range, PartitionInv, ControlOK, TypeOK
<1>2. Call(f) /\ boot' = Tail(boot) /\ held' = held
  BY DEF remove_range
<1>3. Head(boot) \in UnusableRange
  BY <1>1
<1>4. /\ Head(boot).pages \in Nat /\ Head(boot).addr \in Nat
      /\ (~Head(boot).reclaim) \in BOOLEAN
  BY <1>3 DEF UnusableRange
<1>5. n \in Frame /\ n.op = "remove" /\ n.pc = "pick" /\ n.size = Head(boot).pages
  <2>1. n \in Frame
    BY <1>4, NewFrameType DEF Ops, Pcs
  <2> QED BY <2>1 DEF NewFrame
<1>6. f.op = "remove" /\ f.pc = "pick" /\ f.addr = Head(boot).addr /\ f.size = Head(boot).pages
  <2> HIDE DEF n
  <2> QED BY <1>5 DEF Frame
<1> HIDE DEF f
<1>7. /\ call'[1] = f /\ depth' = 1 /\ g_free_lists' = g_free_lists
      /\ held' = held /\ pinned' = pinned
  BY <1>1, <1>2 DEF Call, UnchangedLists
<1>8. Owned' = Owned /\ FreeOf(g_free_lists') = FreeOf(g_free_lists)
  BY <1>7 DEF Owned
<1>9. Left(f) = RangePages(Head(boot)) /\ Head(boot) = boot[1]
  BY <1>1, <1>6 DEF Left, RangePages
<1>10. call[1].op = "none"
  <2>1. call[1] = NoFrame
    BY <1>1 DEF StackOK
  <2> QED BY <2>1 DEF NoFrame, NewFrame
<1>11. /\ RangesOK(Left(call[1]), boot, Owned)
       /\ SplitsOK(call[1], FreeOf(g_free_lists), Owned)
  BY DEF RemoveInv
<1>12. RangesOK(Left(f), Tail(boot), Owned)
  <2> DEFINE t == Tail(boot)
  <2>1. /\ Len(t) \in Nat /\ 1 \in 1 .. Len(boot)
        /\ \A i \in 1 .. Len(t) : t[i] = boot[i + 1] /\ i + 1 \in 1 .. Len(boot) /\ i + 1 # 1
    BY <1>1
  <2>2. \A i, j \in 1 .. Len(t) : i # j => i + 1 # j + 1
    BY <2>1
  <2> HIDE DEF t
  <2>3. Left(f) \subseteq (0 .. MemoryPages - 1) \ Owned
    BY <1>9, <1>11, <2>1 DEF RangesOK
  <2>4. ASSUME NEW i \in 1 .. Len(t)
        PROVE  RangePages(t[i]) \subseteq (0 .. MemoryPages - 1) \ (Owned \cup Left(f))
    <3>1. RangePages(t[i]) \subseteq (0 .. MemoryPages - 1) \ Owned
      BY <1>11, <2>1 DEF RangesOK
    <3>2. RangePages(t[i]) \cap RangePages(boot[1]) = {}
      BY <1>11, <2>1 DEF RangesOK
    <3> QED BY <1>9, <3>1, <3>2
  <2>5. ASSUME NEW i \in 1 .. Len(t), NEW j \in 1 .. Len(t), i # j
        PROVE  RangePages(t[i]) \cap RangePages(t[j]) = {}
    BY <1>11, <2>1, <2>2, <2>5 DEF RangesOK
  <2>6. RangesOK(Left(f), t, Owned)
    BY <2>3, <2>4, <2>5 DEF RangesOK
  <2> QED BY <2>6 DEF t
<1>13. SplitsOK(f, FreeOf(g_free_lists), Owned)
  <2>1. \A o, k : ~OnTheWay(call[1], k, o)
    BY <1>10 DEF OnTheWay
  <2> QED BY <1>11, <2>1, SplitsFurther
<1>14. PathOK(f, FreeOf(g_free_lists))
  BY <1>6 DEF PathOK
<1> QED BY <1>2, <1>6, <1>7, <1>8, <1>12, <1>13, <1>14 DEF RemoveInv

\* The range is done.
LEMMA ReturnNothingRemoves ==
    ASSUME PartitionInv, RemoveInv, depth = 1, Top = call[1], Top.op = "remove", ReturnNothing
    PROVE  RemoveInv'
<1>1. /\ RangesOK(Left(Top), boot, Owned) /\ SplitsOK(Top, FreeOf(g_free_lists), Owned)
  BY RemoveFacts
<1>2. call \in [{1, 2} -> Frame]
  BY DEF PartitionInv, ControlOK, TypeOK
<1>3. /\ call'[1] = NoFrame /\ depth' = 0 /\ g_free_lists' = g_free_lists
      /\ held' = held /\ pinned' = pinned /\ boot' = boot /\ Top.pc = "pick"
  BY <1>2 DEF ReturnNothing, Return, At, UnchangedLists, UnchangedOwners
<1>4. NoFrame.op = "none"
  BY DEF NoFrame, NewFrame
<1>5. Owned' = Owned /\ FreeOf(g_free_lists') = FreeOf(g_free_lists)
  BY <1>3 DEF Owned
<1>6. RangesOK(Left(NoFrame), boot, Owned)
  <2>1. Left(NoFrame) = {}
    BY <1>4 DEF Left
  <2> QED BY <1>1, <2>1 DEF RangesOK
<1>7. SplitsOK(NoFrame, FreeOf(g_free_lists), Owned)
  <2>1. \A o, k : ~OnTheWay(Top, k, o)
    BY <1>3 DEF OnTheWay
  <2> QED BY <1>1, <2>1, SplitsFurther
<1>8. PathOK(NoFrame, FreeOf(g_free_lists))
  BY <1>4 DEF PathOK
<1> QED BY <1>3, <1>5, <1>6, <1>7, <1>8 DEF RemoveInv

\* Once boot is over it does not begin again.
LEMMA BootOver ==
    ASSUME SearchInv, ~Booting, [Next]_vars
    PROVE  ~Booting'
<1>1. boot = <<>> /\ call[1].op # "remove" /\ ControlOK
  BY DEF Booting, SearchInv
<1>2. call \in [{1, 2} -> Frame]
  BY <1>1 DEF ControlOK, TypeOK
<1>3. CASE Environment
  <2>1. ASSUME NEW f, Call(f), f.op # "remove", boot' = boot PROVE ~Booting'
    BY <1>1, <1>2, <2>1 DEF Call, Booting
  <2>2. ASSUME NEW pages \in Requests, alloc_frames(pages) PROVE ~Booting'
    BY <2>1, <2>2 DEF alloc_frames, NewFrame
  <2>3. ASSUME NEW pages \in Requests, alloc_frames_contiguos(pages) PROVE ~Booting'
    <3> DEFINE n == NewFrame("contig", "search", pages)
    <3>1. PICK o \in Orders : Call([n EXCEPT !.order_to_alloc = o, !.order = o + 1])
      BY <2>3 DEF alloc_frames_contiguos
    <3>2. n \in Frame /\ n.op = "contig"
      <4>1. n \in Frame
        BY NewFrameType, RequestsAssumption DEF Ops, Pcs
      <4> QED BY <4>1 DEF NewFrame
    <3> DEFINE f == [n EXCEPT !.order_to_alloc = o, !.order = o + 1]
    <3> HIDE DEF n
    <3>3. f.op = "contig"
      BY <3>2 DEF Frame
    <3> QED BY <2>1, <2>3, <3>1, <3>3 DEF alloc_frames_contiguos
  <2>4. ASSUME NEW pages \in Requests, ContiguousTooLarge(pages) PROVE ~Booting'
    BY <1>1, <2>4 DEF ContiguousTooLarge, Stop, Booting
  <2>5. ASSUME NEW b \in held, free_frames_contiguos(b) PROVE ~Booting'
    <3> DEFINE n == NewFrame("free", "get_entry", Size(b[2]))
    <3> DEFINE f == [n EXCEPT !.chain = <<b>>]
    <3>2. f.op = "free"
      BY DEF NewFrame
    <3> QED BY <2>1, <2>5, <3>2 DEF free_frames_contiguos
  <2>6. ~remove_range
    BY <1>1 DEF remove_range
  <2> QED BY <1>3, <2>2, <2>3, <2>4, <2>5, <2>6 DEF Environment
<1>4. CASE ~Environment
  <2>1. boot' = boot
    <3>1. CASE \/ PickOrder \/ SearchHigher \/ UseSmaller \/ GiveUp \/ TakeBlock \/ SplitBegin
               \/ SplitEnd \/ RefillEntryPool \/ RefillPagePool \/ RefillDone
      BY <3>1 DEF PickOrder, SearchHigher, UseSmaller, GiveUp, TakeBlock, SplitBegin,
         SplitEnd, RefillEntryPool, RefillPagePool, RefillDone, UnchangedOwners
    <3>2. CASE \/ AllocReturn \/ ReturnNothing \/ ContiguousTake \/ ContiguousFails
               \/ FreeGetEntry \/ FreeBlock \/ MergeBuddies \/ MergeDone
               \/ RemovePick \/ RemoveSearchLower \/ RemoveUnlink
      BY <3>2 DEF AllocReturn, ReturnNothing, ContiguousTake, ContiguousFails,
         FreeGetEntry, FreeBlock, MergeBuddies, MergeDone, RemovePick, RemoveSearchLower,
         RemoveUnlink, UnchangedOwners
    <3>3. CASE ReadPastLists \/ RefillFails \/ ContiguousNullEntry
      BY <3>3 DEF ReadPastLists, RefillFails, ContiguousNullEntry, Stop
    <3>4. CASE UNCHANGED vars
      BY <3>4 DEF vars
    <3> QED BY <1>4, <3>1, <3>2, <3>3, <3>4 DEF Next, Step, Halted
  <2>2. call'[1].op # "remove"
    <3>1. CASE UNCHANGED <<call, depth, g_free_lists>>
      BY <1>1, <3>1
    <3>2. CASE depth = 0
      <4>1. UNCHANGED vars
        BY <1>4, <3>2, StepsInCalls DEF Next, Halted
      <4> QED BY <1>1, <4>1 DEF vars
    <3>3. CASE depth' = 0 /\ call'[1] = NoFrame /\ call'[2] = call[2]
      BY <3>3 DEF NoFrame, NewFrame
    <3>4. CASE RefillEntryPool
      <4> DEFINE f == [Top EXCEPT !.pc = "got_entry"]
      <4>1. Top = call[1] /\ Top \in Frame /\ call'[1] = f
        BY <1>2, <3>4 DEF RefillEntryPool, Top
      <4>2. f.op = Top.op
        BY <4>1 DEF Frame
      <4> QED BY <1>1, <4>1, <4>2
    <3>5. CASE RefillPagePool
      <4>1. depth = 2 /\ \E f : Continue(f)
        BY <3>5 DEF RefillPagePool
      <4>2. call'[1] = call[1]
        BY <1>2, <4>1 DEF Continue
      <4> QED BY <1>1, <4>2
    <3>6. CASE RefillDone
      BY <1>1, <1>2, <3>6 DEF RefillDone
    <3>7. ASSUME NEW f, depth > 0, Continue(f), f.op = Top.op \/ f.op = "rollback"
          PROVE  call'[1].op # "remove"
      <4>1. \A l \in {1, 2} : call'[l] = IF l = depth THEN f ELSE call[l]
        BY <1>1, <3>7, ContinueTop
      <4>2. CASE depth = 1
        BY <1>1, <3>7, <4>1, <4>2 DEF Top
      <4>3. CASE depth # 1
        BY <1>1, <4>1, <4>3
      <4> QED BY <4>2, <4>3
    <3>8. CASE GiveUp
      <4> DEFINE f == [Top EXCEPT !.op = "rollback", !.pc = "free"]
      <4>1. depth > 0 /\ Continue(f)
        BY <3>8 DEF GiveUp, At
      <4>2. Top \in Frame
        BY <1>1, <4>1, TopOK
      <4>3. f.op = "rollback"
        BY <4>2 DEF Frame
      <4> QED BY <3>7, <4>1, <4>3
    <3> QED BY <3>1, <3>2, <3>3, <3>4, <3>5, <3>6, <3>7, <3>8, StepCases
  <2> QED BY <1>1, <2>1, <2>2 DEF Booting
<1> QED BY <1>3, <1>4

\* Boot begins with the memory map, and every step keeps what it relies on.
LEMMA RemoveAlways == ASSUME RangesApart PROVE Spec => []RemoveInv
<1>1. Init => RemoveInv
  <2> SUFFICES ASSUME Init PROVE RemoveInv
    OBVIOUS
  <2>1. /\ boot = Unusable /\ depth = 0 /\ call[1] = NoFrame /\ held = {} /\ pinned = {}
        /\ NoFrame.op = "none"
    BY DEF Init, NoFrame, NewFrame
  <2>2. Owned = {} /\ Left(call[1]) = {}
    BY <2>1 DEF Owned, Covered, Left
  <2>3. RangesOK(Left(call[1]), boot, Owned)
    BY <2>1, <2>2 DEF RangesOK, RangesApart
  <2>4. \A o \in 0 .. FRAME_ORDERS - 2 : \A a : <<a, o>> \notin FreeOf(g_free_lists)
    <3> SUFFICES ASSUME NEW o \in 0 .. FRAME_ORDERS - 2, NEW a
                 PROVE  <<a, o>> \notin FreeOf(g_free_lists)
      OBVIOUS
    <3>1. o \in Orders /\ o # TopOrder
      BY OrdersAssumption DEF Orders, TopOrder
    <3>2. g_free_lists[o] = <<>>
      BY <3>1 DEF Init
    <3>3. ToSet(<<>>) = {}
      BY DEF ToSet
    <3> QED BY <3>1, <3>2, <3>3, FreeElement
  <2>5. SplitsOK(call[1], FreeOf(g_free_lists), Owned)
    BY <2>4 DEF SplitsOK
  <2>6. PathOK(call[1], FreeOf(g_free_lists))
    BY <2>1 DEF PathOK
  <2> QED BY <2>1, <2>3, <2>5, <2>6 DEF RemoveInv
<1>2. PartitionInv /\ SearchInv /\ RemoveInv /\ [Next]_vars => RemoveInv'
  <2> SUFFICES ASSUME PartitionInv, SearchInv, RemoveInv, [Next]_vars PROVE RemoveInv'
    OBVIOUS
  <2>1. CASE ~Booting
    BY <2>1, BootOver DEF RemoveInv
  <2>2. CASE Booting
    <3>1. ControlOK
      BY DEF PartitionInv
    <3>2. CASE UNCHANGED vars
      <4>1. Owned' = Owned
        BY <3>2 DEF vars, Owned
      <4> QED BY <3>2, <4>1 DEF vars, RemoveInv, Booting
    <3>3. CASE depth = 0 /\ remove_range
      BY <2>2, <3>3, RemoveRangeRemoves
    <3>4. CASE depth = 1 /\ Top = call[1] /\ Top.op = "remove"
               /\ (RemovePick \/ RemoveSearchLower \/ RemoveUnlink \/ SplitEnd \/ ReturnNothing)
      BY <3>4, RemovePickRemoves, RemoveSearchLowerRemoves, RemoveUnlinkRemoves,
         SplitEndRemoves, ReturnNothingRemoves
    <3> QED BY <2>2, <3>1, <3>2, <3>3, <3>4, BootSteps
  <2> QED BY <2>1, <2>2
<1> QED BY <1>1, <1>2, PartitionAlways, SearchAlways, PTL DEF Spec

\* The chunk to be removed lies in a free block of its own order: a smaller one
\* would have been split although none of its pages had an owner.
LEMMA ChunkFound ==
    ASSUME PartitionInv, RemoveInv, At("remove", "search"), Top.order = Top.order_to_alloc
    PROVE  Containing # {}
<1> DEFINE w == Top.order
<1> DEFINE x == Top.addr
<1> DEFINE F == FreeOf(g_free_lists)
<1>1. depth = 1 /\ Top = call[1] /\ Top.op = "remove" /\ Top.pc = "search"
  <2>1. depth > 0 /\ Top.op = "remove" /\ Top.pc = "search"
    BY DEF At
  <2>2. depth # 2
    BY <2>1, PartitionFacts
  <2>3. depth \in 0 .. 2
    BY DEF PartitionInv, ControlOK, TypeOK
  <2>4. depth = 1
    BY <2>1, <2>2, <2>3
  <2> QED BY <2>1, <2>4 DEF Top
<1>2. /\ Top \in Frame /\ RangesOK(Left(Top), boot, Owned)
      /\ SplitsOK(Top, F, Owned) /\ PathOK(Top, F)
      /\ g_free_lists \in [Orders -> Seq(Nat)] /\ LocalsOK(Top, g_free_lists)
      /\ Tiling(F \cup held \cup pinned \cup InHand(Top)) /\ Top.chain = <<>>
  BY <1>1, RemoveFacts
<1>3. /\ w \in Orders /\ w \in Nat /\ x \in Nat /\ Top.size \in Nat /\ Size(w) <= Top.size
      /\ x % Size(w) = 0
  <2>1. /\ w \in Orders /\ x \in Nat /\ Top.size \in Nat /\ Size(w) <= Top.size
    BY <1>1, <1>2 DEF LocalsOK, Frame
  <2>2. x % Size(w) = 0
    BY <1>1, <1>2 DEF PathOK
  <2> QED BY <2>1, <2>2 DEF Orders
<1>4. Size(w) \in Nat \ {0}
  BY <1>3, SizePositive
<1>5. Pages(x, w) \subseteq Left(Top) /\ x \in Left(Top)
  <2> DEFINE n == Size(w)
  <2> DEFINE y == Top.size
  <2>1. x \in Nat /\ n \in Nat \ {0} /\ y \in Nat /\ n <= y
    BY <1>3, <1>4
  <2>2. Left(Top) = {p \in Nat : x <= p /\ p < x + y} /\ Pages(x, w) = x .. x + n - 1
    BY <1>1 DEF Left, Pages
  <2> HIDE DEF x, y, n, w
  <2> QED BY <2>1, <2>2
<1>6. InHand(Top) = {}
  <2>1. ToSet(<<>>) = {}
    BY DEF ToSet
  <2> QED BY <1>1, <1>2, <2>1 DEF InHand, Splitting
<1>7. x \in 0 .. MemoryPages - 1 /\ x \notin Owned
  BY <1>2, <1>5 DEF RangesOK
<1>8. PICK b \in F : x \in Pages(b[1], b[2])
  <2> DEFINE T == F \cup held \cup pinned \cup InHand(Top)
  <2> HIDE DEF x, F
  <2>1. x \in Covered(T)
    BY <1>2, <1>7 DEF Tiling, F
  <2>2. PICK b \in T : x \in Pages(b[1], b[2])
    BY <2>1, CoveredPage
  <2>3. b \notin held \cup pinned
    BY <1>7, <2>2, CoveredPage DEF Owned
  <2> QED BY <1>6, <2>2, <2>3
<1> DEFINE o == b[2]
<1>9. /\ o \in Orders /\ o \in Nat /\ b = <<b[1], o>> /\ b[1] \in Nat /\ b[1] % Size(o) = 0
      /\ o <= w
  <2>1. o \in Orders /\ b = <<b[1], o>> /\ b \in Block
    BY <1>2, FreeType
  <2>2. b[1] % Size(o) = 0
    BY <1>2 DEF Tiling
  <2>3. o <= w
    BY <1>1, <1>2, <1>8 DEF PathOK
  <2>4. b[1] \in Nat
    BY <2>1, BlockPair
  <2> QED BY <2>1, <2>2, <2>3, <2>4 DEF Orders
<1>10. CASE o = w
  <2>1. b[1] \in ToSet(g_free_lists[w])
    BY <1>8, <1>9, <1>10, FreeElement
  <2>2. PICK i \in 1 .. Len(g_free_lists[w]) : g_free_lists[w][i] = b[1]
    BY <1>2, <1>3, <2>1, ToSetElement
  <2>3. i \in DOMAIN g_free_lists[w]
    BY <1>2, <1>3
  <2>4. i \in Containing
    BY <1>8, <1>10, <2>2, <2>3 DEF Containing
  <2> QED BY <2>4
<1>11. CASE o # w
  <2> HIDE DEF w, x, o, F
  <2>1. o < w /\ o \in 0 .. FRAME_ORDERS - 2 /\ o + 1 \in Orders /\ o + 1 <= w
    BY <1>3, <1>9, <1>11, OrdersAssumption DEF Orders
  <2>2. x % Size(o) = 0 /\ x % Size(o + 1) = 0
    BY <1>3, <1>9, <2>1, AlignedDown
  <2>3. x = b[1]
    BY <1>3, <1>8, <1>9, <2>2, BlockStart DEF o
  <2>4. <<x, o>> \in F
    BY <1>8, <1>9, <2>3
  <2>5. Pages(x, o + 1) \cap Owned # {} \/ OnTheWay(Top, x, o)
    BY <1>2, <1>3, <2>1, <2>2, <2>4 DEF SplitsOK, F
  <2>6. ~OnTheWay(Top, x, o)
    BY <1>3, <1>9, <2>1 DEF OnTheWay, w
  <2>7. Pages(x, o + 1) \subseteq Pages(x, w)
    <3>1. Size(o + 1) <= Size(w) /\ Size(o + 1) \in Nat
      BY <1>3, <2>1, SizesMonotone, SizePositive
    <3> QED BY <1>3, <1>4, <3>1 DEF Pages
  <2>8. Pages(x, w) \cap Owned = {}
    BY <1>2, <1>5 DEF RangesOK, x, w
  <2> QED BY <2>5, <2>6, <2>7, <2>8
<1> QED BY <1>10, <1>11

\* The block that is merged heads its list, and the bit that is clear says that
\* its buddy is in the same list.
LEMMA BuddyFound ==
    ASSUME PartitionInv, Merging, MayMerge
    PROVE  /\ g_free_lists[Top.order] # <<>>
           /\ Head(g_free_lists[Top.order]) = Top.entry
           /\ BuddyOf(Top.entry, Top.order) \in ToSet(Tail(g_free_lists[Top.order]))
<1> DEFINE o == Top.order
<1> DEFINE a == Top.entry
<1> DEFINE s == g_free_lists[o]
<1> DEFINE F == FreeOf(g_free_lists)
<1>1. depth > 0 /\ Top.pc = "merge" /\ o < TopOrder /\ ~get_buddy_bit(a, o)
  BY DEF Merging, MayMerge, At
<1>2. /\ Top \in Frame /\ LocalsOK(Top, g_free_lists)
      /\ MergeOK(Top, g_free_lists)
      /\ g_free_lists \in [Orders -> Seq(Nat)]
      /\ \A q \in Orders : IsInjective(g_free_lists[q])
      /\ Bits(F, buddy_map)
      /\ Tiling(F \cup held \cup pinned \cup InHand(Top) \cup Suspended)
  BY <1>1, PartitionFacts
<1>3. o \in 0 .. FRAME_ORDERS - 2 /\ a \in Nat
  <2>1. Top.order \in Orders /\ Top.entry \in Nat
    BY <1>1, <1>2 DEF LocalsOK, Frame
  <2> QED BY <1>1, <2>1, OrdersAssumption DEF Orders, TopOrder
<1>4. o \in Orders /\ o + 1 \in Orders /\ Size(o) \in Nat \ {0} /\ Size(o + 1) = 2 * Size(o)
  BY <1>3, OrderAbove
<1>5. s \in Seq(Nat) /\ s # <<>> /\ Head(s) = a /\ IsInjective(s)
  BY <1>1, <1>2, <1>4 DEF MergeOK
<1> HIDE DEF o, a, F
<1>6. a \in ToSet(s) /\ ToSet(Tail(s)) = ToSet(s) \ {a}
  <2> HIDE DEF s
  <2> QED BY <1>5, ToSetTail
<1>7. <<a, o>> \in F
  BY <1>4, <1>6, FreeElement DEF F
<1>8. a % Size(o) = 0
  <2> DEFINE b == <<a, o>>
  <2>1. b[1] = a /\ b[2] = o
    OBVIOUS
  <2> HIDE DEF b
  <2>2. b[1] % Size(b[2]) = 0
    BY <1>2, <1>7 DEF Tiling, b
  <2> QED BY <2>1, <2>2
<1> DEFINE other == BuddyOf(a, o)
<1> DEFINE left == IF other < a THEN other ELSE a
<1>9. /\ left \in Nat /\ left % Size(o + 1) = 0 /\ other \in Nat
      /\ \/ a = left /\ other = left + Size(o)
         \/ a = left + Size(o) /\ other = left
  BY <1>3, <1>4, <1>8, LeftBuddy
<1> DEFINE k == calc_buddy_index(a, o)
<1>10. k \notin buddy_map[o]
  BY <1>1 DEF get_buddy_bit, a, o
<1> HIDE DEF other, left
<1>11. k \in Nat /\ left = k * Size(o + 1)
  <2> DEFINE n == Size(o)
  <2>1. n \in Nat \ {0} /\ a % n = 0 /\ Size(o + 1) = 2 * n
    BY <1>4, <1>8
  <2>2. k = (a \div n) \div 2
    BY DEF calc_buddy_index
  <2>3. left % (2 * n) = 0 /\ (a = left \/ a = left + n)
    BY <1>9, <2>1
  <2> HIDE DEF n, k
  <2>4. 2 * n \in Nat \ {0}
    BY <2>1
  <2> DEFINE j == left \div (2 * n)
  <2>5. j \in Nat /\ left = j * (2 * n)
    BY <1>9, <2>3, <2>4, AlignedMultiple
  <2> HIDE DEF j
  <2>6. j = (a \div n) \div 2
    BY <1>3, <2>1, <2>3, <2>5, PairIndex
  <2> QED BY <2>1, <2>2, <2>5, <2>6
<1> HIDE DEF k
<1>12. <<left, o>> \in F <=> <<left + Size(o), o>> \in F
  BY <1>2, <1>3, <1>10, <1>11 DEF Bits
<1>13. <<other, o>> \in F /\ other # a
  <2>1. left # left + Size(o)
    BY <1>4, <1>9
  <2> QED BY <1>7, <1>9, <1>12, <2>1
<1>14. other \in ToSet(Tail(s))
  BY <1>4, <1>6, <1>13, FreeElement DEF F
<1> QED BY <1>5, <1>14 DEF other, a, o

\* Both assertions of the frame allocator hold on every memory map whose
\* unusable ranges lie in the memory and do not overlap: the buddy of a block
\* that is merged is in its list, whatever was allocated and freed before, and
\* remove_range finds a block for every chunk of every range.
THEOREM AssertionsAlwaysHold == RangesApart => (Spec => []AssertionsHold)
<1> SUFFICES ASSUME RangesApart PROVE Spec => []AssertionsHold
  OBVIOUS
<1>1. PartitionInv /\ RemoveInv => AssertionsHold
  BY ChunkFound, BuddyFound DEF AssertionsHold
<1> QED BY <1>1, PartitionAlways, RemoveAlways, PTL
=============================================================================
