------------------------ MODULE SlabAllocatorProofs ------------------------
(***************************************************************************)
(* The kernel heap never hands out an object twice and never loses one,    *)
(* finds every pointer it has returned and gives every page back: for      *)
(* every number of ranges, caches and objects per slab and every sequence  *)
(* of kalloc and kfree.                                                    *)
(*                                                                         *)
(* The argument goes from the bottom up: what pushing and dropping a node  *)
(* does to a linked list, what the list operations of the code do to the   *)
(* lists of all caches, what taking and freeing does to the chain of free  *)
(* objects of a slab, and last what kalloc and kfree, with the calls they  *)
(* make of themselves for descriptors, do to the heap as a whole.          *)
(***************************************************************************)
EXTENDS SlabAllocator, Lemmas, FiniteSetTheorems, TLAPS

-----------------------------------------------------------------------------
(* Lists, as the sets of their nodes.                                      *)

Arrays == UNION {[0 .. n - 1 -> Nat] : n \in Nat}
Object == Link \X Nat
Node == [kind : Kinds \cup {"reserved"}, next : Link, prev : Link, allocated : Nat,
         next_free : Nat, free : Arrays, desc : Object]
Heap == [part : [Orders -> Link], full : [Orders -> Link], node : [Mem -> Node]]

\* S is the set of nodes of the list with this head.
IsList(h, head, S) ==
    /\ S \subseteq Mem
    /\ head \in S \cup {Null}
    /\ head = Null => S = {}
    /\ \A m \in S : h.node[m].next \in S \cup {Null}
    /\ \A T \in SUBSET S : head \in T /\ (\A m \in T : h.node[m].next \in T \cup {Null}) => T = S

\* No node is the next of two nodes, and the head of none.
Single(h, head, S) ==
    /\ \A m \in S : h.node[m].next # Null => h.node[m].next # head
    /\ \A m, n \in S : h.node[m].next = h.node[n].next /\ h.node[m].next # Null => m = n

\* prev leads back.
BackLinks(h, head, S) ==
    /\ head # Null => h.node[head].prev = Null
    /\ \A m \in S : h.node[m].next # Null => h.node[h.node[m].next].prev = m

\* What kfree walks through is the list.
LEMMA WalkIs ==
    ASSUME NEW h, NEW head, NEW S, IsList(h, head, S)
    PROVE  Walk(h, head) = S
<1>1. CASE head = Null
  BY <1>1 DEF Walk, IsList
<1>2. CASE head # Null
  <2>1. ASSUME NEW m \in Walk(h, head) PROVE m \in S
    BY <1>2, <2>1 DEF Walk, IsList
  <2>2. ASSUME NEW m \in S PROVE m \in Walk(h, head)
    <3> SUFFICES ASSUME NEW T \in SUBSET Mem, head \in T,
                        \A n \in T : h.node[n].next \in T \cup {Null}
                 PROVE  m \in T
      BY <1>2 DEF Walk, IsList
    <3>1. \A n \in T \cap S : h.node[n].next \in (T \cap S) \cup {Null}
      BY DEF IsList
    <3>2. head \in T \cap S /\ T \cap S \in SUBSET S
      BY <1>2 DEF IsList
    <3>3. T \cap S = S
      BY <3>1, <3>2 DEF IsList
    <3> QED BY <3>3
  <2> QED BY <2>1, <2>2
<1> QED BY <1>1, <1>2

\* Links that lead back are links that no two nodes share.
LEMMA BackSingle ==
    ASSUME NEW h, NEW head, NEW S, IsList(h, head, S), BackLinks(h, head, S), Null \notin S
    PROVE  Single(h, head, S)
<1>1. ASSUME NEW m \in S, h.node[m].next # Null, h.node[m].next = head PROVE FALSE
  BY <1>1 DEF IsList, BackLinks
<1>2. ASSUME NEW m \in S, NEW n \in S, h.node[m].next = h.node[n].next, h.node[m].next # Null PROVE m = n
  BY <1>2 DEF BackLinks
<1> QED BY <1>1, <1>2 DEF Single

\* Every node but the head is the next of one.
LEMMA HasPrevious ==
    ASSUME NEW h, NEW head, NEW S, IsList(h, head, S), NEW m \in S, m # head, head # Null
    PROVE  \E p \in S : h.node[p].next = m
<1> SUFFICES ASSUME \A p \in S : h.node[p].next # m PROVE FALSE
  OBVIOUS
<1> DEFINE T == S \ {m}
<1>1. head \in T /\ T \in SUBSET S
  BY DEF IsList
<1>2. \A n \in T : h.node[n].next \in T \cup {Null}
  BY DEF IsList
<1>3. T = S
  BY <1>1, <1>2 DEF IsList
<1> QED BY <1>3

\* A list only depends on the links of its nodes.
LEMMA ListFrame ==
    ASSUME NEW h, NEW g, NEW head, NEW S, IsList(h, head, S),
           \A x \in S : g.node[x].next = h.node[x].next
    PROVE  IsList(g, head, S)
<1>1. \A T \in SUBSET S : \A m \in T : g.node[m].next = h.node[m].next
  OBVIOUS
<1> QED BY <1>1 DEF IsList

LEMMA BackFrame ==
    ASSUME NEW h, NEW g, NEW head, NEW S, IsList(h, head, S), BackLinks(h, head, S), Null \notin S,
           \A x \in S : g.node[x].next = h.node[x].next /\ g.node[x].prev = h.node[x].prev
    PROVE  BackLinks(g, head, S)
BY DEF IsList, BackLinks

LEMMA SingleFrame ==
    ASSUME NEW h, NEW g, NEW head, NEW S, Single(h, head, S),
           \A x \in S : g.node[x].next = h.node[x].next
    PROVE  Single(g, head, S)
BY DEF Single

\* A node in front of a list.
LEMMA ListPush ==
    ASSUME NEW h, NEW g, NEW head, NEW S, IsList(h, head, S), NEW m \in Mem, m \notin S, Null \notin Mem,
           g.node[m].next = head, \A x \in S : g.node[x].next = h.node[x].next
    PROVE  IsList(g, m, S \cup {m})
<1> DEFINE S2 == S \cup {m}
<1>1. S2 \subseteq Mem /\ m \in S2 /\ m # Null
  BY DEF IsList
<1>2. \A x \in S2 : g.node[x].next \in S2 \cup {Null}
  BY DEF IsList
<1>3. ASSUME NEW T \in SUBSET S2, m \in T, \A x \in T : g.node[x].next \in T \cup {Null}
      PROVE  T = S2
  <2>1. CASE head = Null
    BY <1>3, <2>1 DEF IsList
  <2>2. CASE head # Null
    <3> DEFINE R == T \cap S
    <3>1. head \in R /\ R \in SUBSET S
      BY <1>3, <2>2 DEF IsList
    <3>2. \A x \in R : h.node[x].next \in R \cup {Null}
      BY <1>3 DEF IsList
    <3>3. R = S
      BY <3>1, <3>2 DEF IsList
    <3> QED BY <1>3, <3>3
  <2> QED BY <2>1, <2>2
<1> HIDE DEF S2
<1>4. IsList(g, m, S2)
  BY <1>1, <1>2, <1>3 DEF IsList
<1> QED BY <1>4 DEF S2

LEMMA BackPush ==
    ASSUME NEW h, NEW g, NEW head, NEW S, IsList(h, head, S), BackLinks(h, head, S),
           NEW m \in Mem, m \notin S, Null \notin Mem,
           g.node[m].next = head, g.node[m].prev = Null,
           \A x \in S : /\ g.node[x].next = h.node[x].next
                        /\ g.node[x].prev = IF x = head THEN m ELSE h.node[x].prev
    PROVE  BackLinks(g, m, S \cup {m})
<1>1. ASSUME NEW x \in S, g.node[x].next # Null PROVE g.node[g.node[x].next].prev = x
  <2> DEFINE y == h.node[x].next
  <2>1. y \in S /\ y = g.node[x].next /\ h.node[y].prev = x
    BY <1>1 DEF IsList, BackLinks
  <2>2. y # head
    BY <2>1 DEF IsList, BackLinks
  <2> QED BY <2>1, <2>2
<1>2. head # Null => g.node[head].prev = m
  BY DEF IsList
<1> QED BY <1>1, <1>2 DEF BackLinks

\* The links in g are those in h, except that m is passed by.
Bypassed(h, g, S, m) ==
    \A x \in S \ {m} : g.node[x].next = IF h.node[x].next = m THEN h.node[m].next ELSE h.node[x].next
BypassedBack(h, g, S, m) ==
    \A x \in S \ {m} : g.node[x].prev = IF x = h.node[m].next THEN h.node[m].prev ELSE h.node[x].prev
HeadWithout(h, head, m) == IF head = m THEN h.node[m].next ELSE head

\* A node leaves a list, and the one before it goes on to the one after it.
LEMMA ListDrop ==
    ASSUME NEW h, NEW g, NEW head, NEW S, IsList(h, head, S), Single(h, head, S), NEW m \in S, Null \notin S,
           NEW first, first = HeadWithout(h, head, m), Bypassed(h, g, S, m)
    PROVE  IsList(g, first, S \ {m}) /\ Single(g, first, S \ {m})
<1> DEFINE S2 == S \ {m}
           after == h.node[m].next
<1> USE DEF Bypassed, HeadWithout
<1>1. head # Null /\ head \in S /\ S \subseteq Mem
  BY DEF IsList
<1>2. after \in S \cup {Null}
  BY DEF IsList
<1>3. after # m
  <2> SUFFICES ASSUME after = m PROVE FALSE
    OBVIOUS
  <2>1. CASE m = head
    BY <2>1 DEF Single
  <2>2. CASE m # head
    <3>1. PICK p \in S : h.node[p].next = m
      BY <1>1, <2>2, HasPrevious
    <3>2. p = m
      BY <3>1 DEF Single
    <3> DEFINE T == S \ {m}
    <3>3. head \in T /\ T \in SUBSET S
      BY <1>1, <2>2
    <3>4. \A x \in T : h.node[x].next # m
      BY <3>1, <3>2 DEF Single
    <3>5. \A x \in T : h.node[x].next \in T \cup {Null}
      BY <3>4 DEF IsList
    <3>6. T = S
      BY <3>3, <3>5 DEF IsList
    <3> QED BY <3>6
  <2> QED BY <2>1, <2>2
<1>4. first \in S2 \cup {Null}
  BY <1>1, <1>2, <1>3
<1>5. \A x \in S2 : g.node[x].next \in S2 \cup {Null}
  BY <1>2, <1>3 DEF IsList
<1>6. first = Null => S2 = {}
  <2> SUFFICES ASSUME first = Null PROVE S2 = {}
    OBVIOUS
  <2>1. head = m /\ after = Null
    BY <1>1
  <2>2. {m} \in SUBSET S /\ head \in {m} /\ \A x \in {m} : h.node[x].next \in {m} \cup {Null}
    BY <2>1
  <2>3. {m} = S
    BY <2>2 DEF IsList
  <2> QED BY <2>3
<1>7. ASSUME NEW T \in SUBSET S2, first \in T, \A x \in T : g.node[x].next \in T \cup {Null}
      PROVE  T = S2
  <2> DEFINE R == T \cup {m}
  <2>1. R \in SUBSET S /\ m \notin T
    OBVIOUS
  <2>2. \A x \in T : h.node[x].next = m \/ h.node[x].next = g.node[x].next
    OBVIOUS
  <2>3. \A x \in T : h.node[x].next \in R \cup {Null}
    BY <1>7, <2>2
  <2>4. CASE head = m
    <3>1. after \in R \cup {Null} /\ head \in R
      BY <1>7, <2>4
    <3>2. R = S
      BY <2>1, <2>3, <3>1 DEF IsList
    <3> QED BY <3>2, <2>1
  <2>5. CASE head # m
    <3>1. head \in T
      BY <1>7, <2>5
    <3>2. CASE \E p \in T : h.node[p].next = m
      <4>1. after \in R \cup {Null}
        BY <1>7, <3>2
      <4>2. R = S
        BY <2>1, <2>3, <3>1, <4>1 DEF IsList
      <4> QED BY <4>2, <2>1
    <3>3. CASE \A p \in T : h.node[p].next # m
      <4>1. \A x \in T : h.node[x].next \in T \cup {Null}
        BY <1>7, <2>2, <3>3
      <4>2. T = S
        BY <2>1, <3>1, <4>1 DEF IsList
      <4> QED BY <4>2, <2>1
    <3> QED BY <3>2, <3>3
  <2> QED BY <2>4, <2>5
<1>8. \A x \in S2 : g.node[x].next # Null => g.node[x].next # first
  <2> SUFFICES ASSUME NEW x \in S2, g.node[x].next # Null, g.node[x].next = first PROVE FALSE
    OBVIOUS
  <2>1. CASE h.node[x].next = m
    <3>1. g.node[x].next = after
      BY <2>1
    <3>2. head # m
      BY <2>1, <1>1 DEF Single
    <3>3. after = head
      BY <3>1, <3>2
    <3> QED BY <3>3, <1>1 DEF Single
  <2>2. CASE h.node[x].next # m
    <3>1. g.node[x].next = h.node[x].next
      BY <2>2
    <3>2. head = m /\ h.node[x].next = after
      BY <3>1 DEF Single
    <3>3. x = m
      BY <3>1, <3>2 DEF Single
    <3> QED BY <3>3
  <2> QED BY <2>1, <2>2
<1>9. ASSUME NEW x \in S2, NEW y \in S2, g.node[x].next = g.node[y].next, g.node[x].next # Null PROVE x = y
  <2>1. CASE h.node[x].next = m /\ h.node[y].next = m
    BY <2>1, <1>1 DEF Single
  <2>2. CASE h.node[x].next = m /\ h.node[y].next # m
    <3>1. h.node[y].next = after /\ after # Null
      BY <1>9, <2>2
    <3>2. y = m
      BY <3>1 DEF Single
    <3> QED BY <3>2
  <2>3. CASE h.node[x].next # m /\ h.node[y].next = m
    <3>1. h.node[x].next = after /\ after # Null
      BY <1>9, <2>3
    <3>2. x = m
      BY <3>1 DEF Single
    <3> QED BY <3>2
  <2>4. CASE h.node[x].next # m /\ h.node[y].next # m
    BY <1>9, <2>4 DEF Single
  <2> QED BY <2>1, <2>2, <2>3, <2>4
<1>10. S2 \subseteq Mem
  BY <1>1
<1> HIDE DEF S2
<1>11. IsList(g, first, S2) /\ Single(g, first, S2)
  BY <1>4, <1>5, <1>6, <1>7, <1>8, <1>9, <1>10 DEF IsList, Single
<1> QED BY <1>11 DEF S2

\* And the one after it leads back to the one before it.
LEMMA BackDrop ==
    ASSUME NEW h, NEW g, NEW head, NEW S, IsList(h, head, S), BackLinks(h, head, S), NEW m \in S, Null \notin S,
           NEW first, first = HeadWithout(h, head, m), Bypassed(h, g, S, m), BypassedBack(h, g, S, m)
    PROVE  BackLinks(g, first, S \ {m})
<1> DEFINE after == h.node[m].next
<1>1. Single(h, head, S)
  BY BackSingle
<1>2. IsList(g, first, S \ {m}) /\ Single(g, first, S \ {m})
  BY <1>1, ListDrop
<1> USE DEF Bypassed, BypassedBack, HeadWithout
<1>3. head # Null /\ head \in S
  BY DEF IsList
<1>4. first # Null => g.node[first].prev = Null
  <2> SUFFICES ASSUME first # Null PROVE g.node[first].prev = Null
    OBVIOUS
  <2>1. first \in S \ {m}
    BY <1>2 DEF IsList
  <2>2. CASE head = m
    <3>1. first = after /\ h.node[m].prev = Null
      BY <2>2, <1>3 DEF BackLinks
    <3> QED BY <2>1, <3>1
  <2>3. CASE head # m
    <3>1. first = head /\ h.node[head].prev = Null /\ head # after
      BY <2>3, <1>3, <1>1 DEF BackLinks, Single
    <3> QED BY <2>1, <3>1
  <2> QED BY <2>2, <2>3
<1>5. ASSUME NEW x \in S \ {m}, g.node[x].next # Null PROVE g.node[g.node[x].next].prev = x
  <2>1. g.node[x].next \in S \ {m}
    BY <1>2, <1>5 DEF IsList
  <2>2. CASE h.node[x].next = m
    <3>1. g.node[x].next = after /\ h.node[m].prev = x
      BY <2>2, <1>3 DEF BackLinks, IsList
    <3> QED BY <2>1, <3>1
  <2>3. CASE h.node[x].next # m
    <3>1. g.node[x].next = h.node[x].next
      BY <2>3
    <3>2. h.node[x].next # after
      BY <1>1, <1>5, <3>1 DEF Single
    <3>3. h.node[h.node[x].next].prev = x
      BY <1>5, <3>1 DEF BackLinks
    <3> QED BY <2>1, <3>1, <3>2, <3>3
  <2> QED BY <2>2, <2>3
<1> QED BY <1>4, <1>5 DEF BackLinks

\* The node before another is the one that prev names.
LEMMA PreviousIs ==
    ASSUME NEW h, NEW head, NEW S, IsList(h, head, S), BackLinks(h, head, S), NEW m \in S, Null \notin S
    PROVE  /\ h.node[m].prev \in S \cup {Null}
           /\ \A x \in S : h.node[x].next = m <=> x = h.node[m].prev
<1>1. head # Null /\ head \in S
  BY DEF IsList
<1>2. \A x \in S : h.node[x].next = m => x = h.node[m].prev
  BY DEF BackLinks
<1>3. CASE m = head
  <2>1. h.node[m].prev = Null
    BY <1>1, <1>3 DEF BackLinks
  <2> QED BY <1>2, <2>1
<1>4. CASE m # head
  <2>1. PICK p \in S : h.node[p].next = m
    BY <1>1, <1>4, HasPrevious
  <2>2. p = h.node[m].prev
    BY <1>2, <2>1
  <2> QED BY <1>2, <2>1, <2>2
<1> QED BY <1>3, <1>4

-----------------------------------------------------------------------------
(* What the operations on lists do to the nodes.                           *)

\* Everything but the links.
SameContent(h, g) ==
    \A x \in Mem : /\ g.node[x].kind = h.node[x].kind
                   /\ g.node[x].allocated = h.node[x].allocated
                   /\ g.node[x].next_free = h.node[x].next_free
                   /\ g.node[x].free = h.node[x].free
                   /\ g.node[x].desc = h.node[x].desc
LinksAre(g, next, prev) == \A x \in Mem : g.node[x].next = next[x] /\ g.node[x].prev = prev[x]

\* The links of AddPart, and of AddFull, which leaves the prev of m as it is.
Next1(h, old, m) == [x \in Mem |-> IF x = m THEN old ELSE h.node[x].next]
Prev1(h, old, m, p) == [x \in Mem |-> IF x = m THEN p ELSE IF x = old THEN m ELSE h.node[x].prev]

LEMMA AddPartIs ==
    ASSUME NEW h \in Heap, NEW o \in Orders, NEW m \in Mem, h.part[o] # m, Null \notin Mem
    PROVE  LET g == AddPart(h, o, m)
           IN  /\ g \in Heap /\ g.part = [h.part EXCEPT ![o] = m] /\ g.full = h.full
               /\ SameContent(h, g)
               /\ LinksAre(g, Next1(h, h.part[o], m), Prev1(h, h.part[o], m, Null))
<1> DEFINE old == h.part[o]
           node == [h.node EXCEPT ![m].next = old, ![m].prev = Null]
           nodes == IF old = Null THEN node ELSE [node EXCEPT ![old].prev = m]
           g == AddPart(h, o, m)
<1>1. h.part \in [Orders -> Link] /\ h.full \in [Orders -> Link] /\ h.node \in [Mem -> Node] /\ old \in Link
  BY DEF Heap
<1>2. g.part = [h.part EXCEPT ![o] = m] /\ g.full = h.full /\ g.node = nodes
      /\ g = [part |-> [h.part EXCEPT ![o] = m], full |-> h.full, node |-> nodes]
  <2>1. g = [h EXCEPT !.part[o] = m, !.node = nodes]
    BY DEF AddPart
  <2> HIDE DEF nodes, g
  <2> QED BY <2>1 DEF Heap
<1>3. node \in [Mem -> Node]
  BY <1>1 DEF Node, Link
<1>4. \A x \in Mem : /\ node[x].next = (IF x = m THEN old ELSE h.node[x].next)
                     /\ node[x].prev = (IF x = m THEN Null ELSE h.node[x].prev)
                     /\ node[x].kind = h.node[x].kind
                     /\ node[x].allocated = h.node[x].allocated
                     /\ node[x].next_free = h.node[x].next_free
                     /\ node[x].free = h.node[x].free
                     /\ node[x].desc = h.node[x].desc
  BY <1>1 DEF Node
<1> HIDE DEF node
<1>5. nodes \in [Mem -> Node]
  BY <1>1, <1>3 DEF Node, Link
<1>6. \A x \in Mem : /\ nodes[x].next = node[x].next
                     /\ nodes[x].prev = (IF x = old THEN m ELSE node[x].prev)
                     /\ nodes[x].kind = node[x].kind
                     /\ nodes[x].allocated = node[x].allocated
                     /\ nodes[x].next_free = node[x].next_free
                     /\ nodes[x].free = node[x].free
                     /\ nodes[x].desc = node[x].desc
  BY <1>1, <1>3 DEF Node, Link
<1> HIDE DEF nodes, g
<1>7. g \in Heap
  BY <1>1, <1>2, <1>5 DEF Heap, Link
<1>8. SameContent(h, g)
  BY <1>2, <1>4, <1>6 DEF SameContent
<1>9. LinksAre(g, Next1(h, old, m), Prev1(h, old, m, Null))
  BY <1>2, <1>4, <1>6 DEF LinksAre, Next1, Prev1
<1> QED BY <1>2, <1>7, <1>8, <1>9 DEF g

LEMMA AddFullIs ==
    ASSUME NEW h \in Heap, NEW o \in Orders, NEW m \in Mem, h.full[o] # m, Null \notin Mem
    PROVE  LET g == AddFull(h, o, m)
           IN  /\ g \in Heap /\ g.full = [h.full EXCEPT ![o] = m] /\ g.part = h.part
               /\ SameContent(h, g)
               /\ LinksAre(g, Next1(h, h.full[o], m), Prev1(h, h.full[o], m, h.node[m].prev))
<1> DEFINE old == h.full[o]
           node == [h.node EXCEPT ![m].next = old]
           nodes == IF old = Null THEN node ELSE [node EXCEPT ![old].prev = m]
           g == AddFull(h, o, m)
<1>1. h.part \in [Orders -> Link] /\ h.full \in [Orders -> Link] /\ h.node \in [Mem -> Node] /\ old \in Link
  BY DEF Heap
<1>2. g.full = [h.full EXCEPT ![o] = m] /\ g.part = h.part /\ g.node = nodes
      /\ g = [part |-> h.part, full |-> [h.full EXCEPT ![o] = m], node |-> nodes]
  <2>1. g = [h EXCEPT !.full[o] = m, !.node = nodes]
    BY DEF AddFull
  <2> HIDE DEF nodes, g
  <2> QED BY <2>1 DEF Heap
<1>3. node \in [Mem -> Node]
  BY <1>1 DEF Node, Link
<1>4. \A x \in Mem : /\ node[x].next = (IF x = m THEN old ELSE h.node[x].next)
                     /\ node[x].prev = h.node[x].prev
                     /\ node[x].kind = h.node[x].kind
                     /\ node[x].allocated = h.node[x].allocated
                     /\ node[x].next_free = h.node[x].next_free
                     /\ node[x].free = h.node[x].free
                     /\ node[x].desc = h.node[x].desc
  BY <1>1 DEF Node
<1> HIDE DEF node
<1>5. nodes \in [Mem -> Node]
  BY <1>1, <1>3 DEF Node, Link
<1>6. \A x \in Mem : /\ nodes[x].next = node[x].next
                     /\ nodes[x].prev = (IF x = old THEN m ELSE node[x].prev)
                     /\ nodes[x].kind = node[x].kind
                     /\ nodes[x].allocated = node[x].allocated
                     /\ nodes[x].next_free = node[x].next_free
                     /\ nodes[x].free = node[x].free
                     /\ nodes[x].desc = node[x].desc
  BY <1>1, <1>3 DEF Node, Link
<1> HIDE DEF nodes, g
<1>7. g \in Heap
  BY <1>1, <1>2, <1>5 DEF Heap, Link
<1>8. SameContent(h, g)
  BY <1>2, <1>4, <1>6 DEF SameContent
<1>9. LinksAre(g, Next1(h, old, m), Prev1(h, old, m, h.node[m].prev))
  BY <1>2, <1>4, <1>6 DEF LinksAre, Next1, Prev1
<1> QED BY <1>2, <1>7, <1>8, <1>9 DEF g

\* The links once the neighbours of m are linked to each other.
Next2(h, m) == [x \in Mem |-> IF x = h.node[m].prev THEN h.node[m].next ELSE h.node[x].next]
Prev2(h, m) == [x \in Mem |-> IF x = h.node[m].next THEN h.node[m].prev ELSE h.node[x].prev]

\* What Unlinked makes of the nodes.
NodesWithout(h, node, m) ==
    /\ node \in [Mem -> Node]
    /\ \A x \in Mem : /\ node[x].next = Next2(h, m)[x]
                      /\ node[x].prev = Prev2(h, m)[x]
                      /\ node[x].kind = h.node[x].kind
                      /\ node[x].allocated = h.node[x].allocated
                      /\ node[x].next_free = h.node[x].next_free
                      /\ node[x].free = h.node[x].free
                      /\ node[x].desc = h.node[x].desc

LEMMA UnlinkedIs ==
    ASSUME NEW h \in Heap, NEW m \in Mem, Null \notin Mem
    PROVE  NodesWithout(h, Unlinked(h, m), m)
<1> DEFINE next == h.node[m].next
           prev == h.node[m].prev
           node == IF next = Null THEN h.node ELSE [h.node EXCEPT ![next].prev = prev]
           nodes == IF prev = Null THEN node ELSE [node EXCEPT ![prev].next = next]
<1>1. h.node \in [Mem -> Node] /\ next \in Link /\ prev \in Link
  BY DEF Heap, Node
<1> HIDE DEF next, prev
<1>2. node \in [Mem -> Node]
  BY <1>1 DEF Node, Link
<1>3. \A x \in Mem : /\ node[x].next = h.node[x].next
                     /\ node[x].prev = (IF x = next THEN prev ELSE h.node[x].prev)
                     /\ node[x].kind = h.node[x].kind
                     /\ node[x].allocated = h.node[x].allocated
                     /\ node[x].next_free = h.node[x].next_free
                     /\ node[x].free = h.node[x].free
                     /\ node[x].desc = h.node[x].desc
  BY <1>1 DEF Node, Link
<1> HIDE DEF node
<1>4. nodes \in [Mem -> Node]
  BY <1>1, <1>2 DEF Node, Link
<1>5. \A x \in Mem : /\ nodes[x].next = (IF x = prev THEN next ELSE node[x].next)
                     /\ nodes[x].prev = node[x].prev
                     /\ nodes[x].kind = node[x].kind
                     /\ nodes[x].allocated = node[x].allocated
                     /\ nodes[x].next_free = node[x].next_free
                     /\ nodes[x].free = node[x].free
                     /\ nodes[x].desc = node[x].desc
  BY <1>1, <1>2 DEF Node, Link
<1>6. nodes = Unlinked(h, m)
  BY DEF nodes, node, next, prev, Unlinked
<1> HIDE DEF nodes
<1>7. NodesWithout(h, nodes, m)
  BY <1>3, <1>4, <1>5 DEF NodesWithout, Next2, Prev2, next, prev
<1> QED BY <1>6, <1>7

LEMMA RemovePartIs ==
    ASSUME NEW h \in Heap, NEW o \in Orders, NEW m \in Mem, Null \notin Mem
    PROVE  LET g == remove_slab_from_list(h, "part", o, m)
           IN  /\ g \in Heap /\ g.full = h.full
               /\ g.part = [h.part EXCEPT ![o] = HeadWithout(h, h.part[o], m)]
               /\ SameContent(h, g)
               /\ LinksAre(g, Next2(h, m), Prev2(h, m))
<1> DEFINE g == remove_slab_from_list(h, "part", o, m)
           node == Unlinked(h, m)
           part == [h.part EXCEPT ![o] = HeadWithout(h, h.part[o], m)]
<1>1. h.part \in [Orders -> Link] /\ h.full \in [Orders -> Link] /\ h.node \in [Mem -> Node]
      /\ HeadWithout(h, h.part[o], m) \in Link
  BY DEF Heap, Node, HeadWithout
<1>2. NodesWithout(h, node, m)
  BY UnlinkedIs
<1> HIDE DEF node
<1>3. g.part = part /\ g.full = h.full /\ g.node = node /\ g = [part |-> part, full |-> h.full, node |-> node]
  BY DEF remove_slab_from_list, Heap, HeadWithout, node
<1>4. part \in [Orders -> Link]
  BY <1>1
<1> HIDE DEF part, g
<1>5. g \in Heap
  BY <1>1, <1>2, <1>3, <1>4 DEF Heap, NodesWithout
<1>6. SameContent(h, g) /\ LinksAre(g, Next2(h, m), Prev2(h, m))
  BY <1>2, <1>3 DEF SameContent, LinksAre, NodesWithout
<1> QED BY <1>3, <1>5, <1>6 DEF g, part

LEMMA RemoveFullIs ==
    ASSUME NEW h \in Heap, NEW o \in Orders, NEW m \in Mem, Null \notin Mem
    PROVE  LET g == remove_slab_from_list(h, "full", o, m)
           IN  /\ g \in Heap /\ g.part = h.part
               /\ g.full = [h.full EXCEPT ![o] = HeadWithout(h, h.full[o], m)]
               /\ SameContent(h, g)
               /\ LinksAre(g, Next2(h, m), Prev2(h, m))
<1> DEFINE g == remove_slab_from_list(h, "full", o, m)
           node == Unlinked(h, m)
           full == [h.full EXCEPT ![o] = HeadWithout(h, h.full[o], m)]
<1>1. h.part \in [Orders -> Link] /\ h.full \in [Orders -> Link] /\ h.node \in [Mem -> Node]
      /\ HeadWithout(h, h.full[o], m) \in Link
  BY DEF Heap, Node, HeadWithout
<1>2. NodesWithout(h, node, m)
  BY UnlinkedIs
<1> HIDE DEF node
<1>3. g.full = full /\ g.part = h.part /\ g.node = node /\ g = [part |-> h.part, full |-> full, node |-> node]
  BY DEF remove_slab_from_list, Heap, HeadWithout, node
<1>4. full \in [Orders -> Link]
  BY <1>1
<1> HIDE DEF full, g
<1>5. g \in Heap
  BY <1>1, <1>2, <1>3, <1>4 DEF Heap, NodesWithout
<1>6. SameContent(h, g) /\ LinksAre(g, Next2(h, m), Prev2(h, m))
  BY <1>2, <1>3 DEF SameContent, LinksAre, NodesWithout
<1> QED BY <1>3, <1>5, <1>6 DEF g, full

\* The head of a list without the node before it is what remains of the list.
LEMMA DropPartHeadIs ==
    ASSUME NEW h \in Heap, NEW o \in Orders, h.part[o] # Null, h.node[h.part[o]].prev = Null, Null \notin Mem
    PROVE  LET g == DropPartHead(h, o)
               m == h.part[o]
           IN  /\ g \in Heap /\ g.full = h.full
               /\ g.part = [h.part EXCEPT ![o] = HeadWithout(h, h.part[o], m)]
               /\ SameContent(h, g)
               /\ LinksAre(g, Next2(h, m), Prev2(h, m))
<1> DEFINE g == DropPartHead(h, o)
           m == h.part[o]
           next == h.node[m].next
           node == IF next = Null THEN h.node ELSE [h.node EXCEPT ![next].prev = Null]
           part == [h.part EXCEPT ![o] = next]
<1>1. h.part \in [Orders -> Link] /\ h.full \in [Orders -> Link] /\ h.node \in [Mem -> Node]
      /\ m \in Mem /\ next \in Link /\ h.node[m].prev = Null
  BY DEF Heap, Node, Link
<1>2. g.part = part /\ g.full = h.full /\ g.node = node /\ g = [part |-> part, full |-> h.full, node |-> node]
  <2>1. g = [h EXCEPT !.part[o] = next, !.node = IF next = Null THEN @ ELSE [@ EXCEPT ![next].prev = Null]]
    BY DEF DropPartHead
  <2>2. g = [h EXCEPT !.part[o] = next, !.node = node]
    BY <2>1 DEF Heap
  <2> HIDE DEF node, g
  <2> QED BY <2>2 DEF Heap
<1>3. HeadWithout(h, h.part[o], m) = next
  BY DEF HeadWithout
<1> HIDE DEF m, next
<1>4. node \in [Mem -> Node]
  BY <1>1 DEF Node, Link
<1>5. \A x \in Mem : /\ node[x].next = h.node[x].next
                     /\ node[x].prev = (IF x = next THEN Null ELSE h.node[x].prev)
                     /\ node[x].kind = h.node[x].kind
                     /\ node[x].allocated = h.node[x].allocated
                     /\ node[x].next_free = h.node[x].next_free
                     /\ node[x].free = h.node[x].free
                     /\ node[x].desc = h.node[x].desc
  BY <1>1 DEF Node, Link
<1>6. part \in [Orders -> Link]
  BY <1>1
<1>7. part = [h.part EXCEPT ![o] = HeadWithout(h, h.part[o], m)]
  BY <1>3
<1> HIDE DEF node, part, g
<1>8. g \in Heap
  BY <1>1, <1>2, <1>4, <1>6 DEF Heap
<1>9. SameContent(h, g)
  BY <1>2, <1>5 DEF SameContent
<1>10. LinksAre(g, Next2(h, m), Prev2(h, m))
  <2>1. \A x \in Mem : x # h.node[m].prev
    BY <1>1
  <2> QED BY <1>1, <1>2, <1>5, <2>1 DEF LinksAre, Next2, Prev2, next
<1> QED BY <1>2, <1>7, <1>8, <1>9, <1>10 DEF g, m

-----------------------------------------------------------------------------
(* All the lists of a heap.                                                *)

SlabList(h, head, S) ==
    IsList(h, head, S) /\ BackLinks(h, head, S) /\ \A m \in S : h.node[m].kind = "slab"
PageList(h, head, S) ==
    IsList(h, head, S) /\ Single(h, head, S) /\ \A m \in S : h.node[m].kind = "pages"

\* The lists of all caches have no node in common.
Apart(P, F) ==
    /\ P \in [Orders -> SUBSET Mem] /\ F \in [Orders -> SUBSET Mem]
    /\ \A o, q \in Orders : P[o] \cap F[q] = {}
    /\ \A o, q \in Orders : o # q => P[o] \cap P[q] = {} /\ F[o] \cap F[q] = {}
Listed(P, F) == UNION {P[o] \cup F[o] : o \in Orders}

\* P has the partly used and F the full slabs of every cache; the list that is
\* shared holds slabs or page allocations.
Lists(h, P, F) ==
    /\ h \in Heap
    /\ Apart(P, F)
    /\ \A o \in Orders : SlabList(h, h.full[o], F[o])
    /\ \A o \in Orders : \/ SlabList(h, h.part[o], P[o])
                         \/ o = CACHE_END_ORDER /\ PageList(h, h.part[o], P[o])

SameNodes(h, g, S) ==
    \A x \in S : /\ g.node[x].next = h.node[x].next
                 /\ g.node[x].prev = h.node[x].prev
                 /\ g.node[x].kind = h.node[x].kind

LEMMA SlabListFrame ==
    ASSUME NEW h, NEW g, NEW head, NEW S, SlabList(h, head, S), SameNodes(h, g, S), Null \notin Mem
    PROVE  SlabList(g, head, S)
<1>1. IsList(h, head, S) /\ BackLinks(h, head, S) /\ Null \notin S
  BY DEF SlabList, IsList
<1>2. \A x \in S : g.node[x].next = h.node[x].next
  BY DEF SameNodes
<1>3. \A x \in S : g.node[x].next = h.node[x].next /\ g.node[x].prev = h.node[x].prev
  BY DEF SameNodes
<1>4. IsList(g, head, S)
  BY <1>1, <1>2, ListFrame
<1>5. BackLinks(g, head, S)
  BY <1>1, <1>3, BackFrame
<1> QED BY <1>4, <1>5 DEF SlabList, SameNodes

LEMMA PageListFrame ==
    ASSUME NEW h, NEW g, NEW head, NEW S, PageList(h, head, S), SameNodes(h, g, S)
    PROVE  PageList(g, head, S)
<1>1. IsList(h, head, S) /\ Single(h, head, S)
  BY DEF PageList
<1>2. \A x \in S : g.node[x].next = h.node[x].next
  BY DEF SameNodes
<1>3. IsList(g, head, S)
  BY <1>1, <1>2, ListFrame
<1>4. Single(g, head, S)
  BY <1>1, <1>2, SingleFrame
<1> QED BY <1>3, <1>4 DEF PageList, SameNodes

\* The lists only depend on the nodes that are in them.
LEMMA ListsFrame ==
    ASSUME NEW h, NEW g \in Heap, NEW P, NEW F, Lists(h, P, F), Null \notin Mem,
           g.part = h.part, g.full = h.full, SameNodes(h, g, Listed(P, F))
    PROVE  Lists(g, P, F)
<1>1. \A o \in Orders : SameNodes(h, g, P[o]) /\ SameNodes(h, g, F[o])
  BY DEF SameNodes, Listed
<1>2. \A o \in Orders : SlabList(g, g.full[o], F[o])
  BY <1>1, SlabListFrame DEF Lists
<1>3. \A o \in Orders : \/ SlabList(g, g.part[o], P[o])
                        \/ o = CACHE_END_ORDER /\ PageList(g, g.part[o], P[o])
  BY <1>1, SlabListFrame, PageListFrame DEF Lists
<1> QED BY <1>2, <1>3 DEF Lists

With(P, o, m) == [P EXCEPT ![o] = @ \cup {m}]
Less(P, o, m) == [P EXCEPT ![o] = @ \ {m}]

\* A slab in front of a list of slabs.
LEMMA SlabListPush ==
    ASSUME NEW h \in Heap, NEW g, NEW head, NEW S, SlabList(h, head, S), NEW m \in Mem, m \notin S, Null \notin Mem,
           SameContent(h, g), LinksAre(g, Next1(h, head, m), Prev1(h, head, m, Null)), h.node[m].kind = "slab"
    PROVE  SlabList(g, m, S \cup {m})
<1>1. IsList(h, head, S) /\ BackLinks(h, head, S) /\ S \subseteq Mem
  BY DEF SlabList, IsList
<1>2. g.node[m].next = head /\ g.node[m].prev = Null
  BY DEF LinksAre, Next1, Prev1
<1>3. \A x \in S : g.node[x].next = h.node[x].next
  BY <1>1 DEF LinksAre, Next1
<1>4. \A x \in S : /\ g.node[x].next = h.node[x].next
                   /\ g.node[x].prev = IF x = head THEN m ELSE h.node[x].prev
  BY <1>1 DEF LinksAre, Next1, Prev1
<1>5. IsList(g, m, S \cup {m})
  BY <1>1, <1>2, <1>3, ListPush
<1>6. BackLinks(g, m, S \cup {m})
  BY <1>1, <1>2, <1>4, BackPush
<1>7. \A x \in S \cup {m} : g.node[x].kind = "slab"
  BY <1>1 DEF SlabList, SameContent
<1> QED BY <1>5, <1>6, <1>7 DEF SlabList

\* A slab leaves a list of slabs.
LEMMA SlabListDrop ==
    ASSUME NEW h \in Heap, NEW g, NEW head, NEW S, SlabList(h, head, S), NEW m \in S, Null \notin Mem,
           SameContent(h, g), LinksAre(g, Next2(h, m), Prev2(h, m))
    PROVE  SlabList(g, HeadWithout(h, head, m), S \ {m})
<1>1. IsList(h, head, S) /\ BackLinks(h, head, S) /\ S \subseteq Mem /\ Null \notin S
  BY DEF SlabList, IsList
<1>2. \A x \in S : h.node[x].next = m <=> x = h.node[m].prev
  BY <1>1, PreviousIs
<1>3. Bypassed(h, g, S, m)
  BY <1>1, <1>2 DEF Bypassed, LinksAre, Next2
<1>4. BypassedBack(h, g, S, m)
  BY <1>1 DEF BypassedBack, LinksAre, Prev2
<1>5. Single(h, head, S)
  BY <1>1, BackSingle
<1>6. IsList(g, HeadWithout(h, head, m), S \ {m})
  BY <1>1, <1>3, <1>5, ListDrop
<1>7. BackLinks(g, HeadWithout(h, head, m), S \ {m})
  BY <1>1, <1>3, <1>4, BackDrop
<1>8. \A x \in S \ {m} : g.node[x].kind = "slab"
  BY <1>1 DEF SlabList, SameContent
<1> QED BY <1>6, <1>7, <1>8 DEF SlabList

\* Neither changes a list that m is not in.
LEMMA PushElsewhere ==
    ASSUME NEW h \in Heap, NEW g, NEW old \in Link, NEW m \in Mem, NEW p, NEW S \in SUBSET Mem,
           m \notin S, old \notin S, SameContent(h, g), LinksAre(g, Next1(h, old, m), Prev1(h, old, m, p))
    PROVE  SameNodes(h, g, S)
BY DEF SameNodes, SameContent, LinksAre, Next1, Prev1

LEMMA DropElsewhere ==
    ASSUME NEW h \in Heap, NEW g, NEW head, NEW S, SlabList(h, head, S), NEW m \in S, Null \notin Mem,
           SameContent(h, g), LinksAre(g, Next2(h, m), Prev2(h, m)),
           NEW R \in SUBSET Mem, R \cap S = {}
    PROVE  SameNodes(h, g, R)
<1>1. IsList(h, head, S) /\ BackLinks(h, head, S) /\ S \subseteq Mem /\ Null \notin S
  BY DEF SlabList, IsList
<1>2. h.node[m].prev \in S \cup {Null}
  BY <1>1, PreviousIs
<1>3. h.node[m].next \in S \cup {Null}
  BY <1>1 DEF IsList
<1>4. \A x \in R : x \in Mem /\ x # h.node[m].prev /\ x # h.node[m].next
  BY <1>1, <1>2, <1>3
<1> QED BY <1>4 DEF SameNodes, SameContent, LinksAre, Next2, Prev2

LEMMA WithApart ==
    ASSUME NEW P, NEW F, Apart(P, F), NEW o \in Orders, NEW m \in Mem, m \notin Listed(P, F)
    PROVE  Apart(With(P, o, m), F) /\ Apart(P, With(F, o, m))
<1>1. \A q \in Orders : m \notin P[q] /\ m \notin F[q]
  BY DEF Listed
<1>2. With(P, o, m) \in [Orders -> SUBSET Mem] /\ With(F, o, m) \in [Orders -> SUBSET Mem]
  BY DEF Apart, With
<1>3. \A q \in Orders : With(P, o, m)[q] = IF q = o THEN P[o] \cup {m} ELSE P[q]
  BY DEF Apart, With
<1>4. \A q \in Orders : With(F, o, m)[q] = IF q = o THEN F[o] \cup {m} ELSE F[q]
  BY DEF Apart, With
<1> QED BY <1>1, <1>2, <1>3, <1>4 DEF Apart

LEMMA LessApart ==
    ASSUME NEW P, NEW F, Apart(P, F), NEW o \in Orders, NEW m
    PROVE  Apart(Less(P, o, m), F) /\ Apart(P, Less(F, o, m))
<1>1. Less(P, o, m) \in [Orders -> SUBSET Mem] /\ Less(F, o, m) \in [Orders -> SUBSET Mem]
  BY DEF Apart, Less
<1>2. \A q \in Orders : Less(P, o, m)[q] = IF q = o THEN P[o] \ {m} ELSE P[q]
  BY DEF Apart, Less
<1>3. \A q \in Orders : Less(F, o, m)[q] = IF q = o THEN F[o] \ {m} ELSE F[q]
  BY DEF Apart, Less
<1> QED BY <1>1, <1>2, <1>3 DEF Apart

\* The heads are in their lists.
LEMMA HeadListed ==
    ASSUME NEW h, NEW P, NEW F, Lists(h, P, F), NEW o \in Orders
    PROVE  /\ h.part[o] \in P[o] \cup {Null} /\ h.full[o] \in F[o] \cup {Null}
           /\ P[o] \in SUBSET Mem /\ F[o] \in SUBSET Mem
           /\ h.part[o] \in Link /\ h.full[o] \in Link
BY DEF Lists, SlabList, PageList, IsList, Apart, Heap

LEMMA AddPartLists ==
    ASSUME NEW h, NEW P, NEW F, Lists(h, P, F), NEW o \in Orders, NEW m \in Mem, m \notin Listed(P, F),
           h.node[m].kind = "slab", SlabList(h, h.part[o], P[o]), Null \notin Mem
    PROVE  Lists(AddPart(h, o, m), With(P, o, m), F) /\ SameContent(h, AddPart(h, o, m))
<1> DEFINE g == AddPart(h, o, m)
           old == h.part[o]
<1>1. h \in Heap /\ Apart(P, F)
  BY DEF Lists
<1>2. \A q \in Orders : m \notin P[q] /\ m \notin F[q]
  BY DEF Listed
<1>3. old \in P[o] \cup {Null} /\ old \in Link /\ old # m
  BY <1>2, HeadListed
<1>4. g \in Heap /\ g.part = [h.part EXCEPT ![o] = m] /\ g.full = h.full /\ SameContent(h, g)
      /\ LinksAre(g, Next1(h, old, m), Prev1(h, old, m, Null))
  BY <1>1, <1>3, AddPartIs
<1> HIDE DEF g, old
<1>5. \A q \in Orders : SameNodes(h, g, F[q])
  <2> SUFFICES ASSUME NEW q \in Orders PROVE SameNodes(h, g, F[q])
    OBVIOUS
  <2>1. old \notin F[q] /\ F[q] \in SUBSET Mem /\ m \notin F[q]
    BY <1>1, <1>2, <1>3 DEF Apart
  <2> QED BY <1>1, <1>3, <1>4, <2>1, PushElsewhere
<1>6. \A q \in Orders \ {o} : SameNodes(h, g, P[q])
  <2> SUFFICES ASSUME NEW q \in Orders \ {o} PROVE SameNodes(h, g, P[q])
    OBVIOUS
  <2>1. old \notin P[q] /\ P[q] \in SUBSET Mem /\ m \notin P[q]
    BY <1>1, <1>2, <1>3 DEF Apart
  <2> QED BY <1>1, <1>3, <1>4, <2>1, PushElsewhere
<1>7. SlabList(g, m, P[o] \cup {m})
  BY <1>1, <1>2, <1>4, SlabListPush DEF old
<1>8. Apart(With(P, o, m), F)
  BY <1>1, WithApart
<1>9. \A q \in Orders : /\ With(P, o, m)[q] = (IF q = o THEN P[o] \cup {m} ELSE P[q])
                        /\ g.part[q] = (IF q = o THEN m ELSE h.part[q])
  BY <1>1, <1>4 DEF Apart, With, Heap
<1>10. \A q \in Orders : SlabList(g, g.full[q], F[q])
  BY <1>4, <1>5, SlabListFrame DEF Lists
<1>11. \A q \in Orders : \/ SlabList(g, g.part[q], With(P, o, m)[q])
                         \/ q = CACHE_END_ORDER /\ PageList(g, g.part[q], With(P, o, m)[q])
  <2> SUFFICES ASSUME NEW q \in Orders
               PROVE  \/ SlabList(g, g.part[q], With(P, o, m)[q])
                      \/ q = CACHE_END_ORDER /\ PageList(g, g.part[q], With(P, o, m)[q])
    OBVIOUS
  <2>1. CASE q = o
    BY <1>7, <1>9, <2>1
  <2>2. CASE q # o
    <3>1. SameNodes(h, g, P[q]) /\ g.part[q] = h.part[q] /\ With(P, o, m)[q] = P[q]
      BY <1>6, <1>9, <2>2
    <3>2. SlabList(h, h.part[q], P[q]) \/ (q = CACHE_END_ORDER /\ PageList(h, h.part[q], P[q]))
      BY DEF Lists
    <3> QED BY <3>1, <3>2, SlabListFrame, PageListFrame
  <2> QED BY <2>1, <2>2
<1>12. Lists(g, With(P, o, m), F)
  BY <1>4, <1>8, <1>10, <1>11 DEF Lists
<1> QED BY <1>4, <1>12 DEF g

LEMMA AddFullLists ==
    ASSUME NEW h, NEW P, NEW F, Lists(h, P, F), NEW o \in Orders, NEW m \in Mem, m \notin Listed(P, F),
           h.node[m].kind = "slab", h.node[m].prev = Null, Null \notin Mem
    PROVE  Lists(AddFull(h, o, m), P, With(F, o, m)) /\ SameContent(h, AddFull(h, o, m))
<1> DEFINE g == AddFull(h, o, m)
           old == h.full[o]
<1>1. h \in Heap /\ Apart(P, F) /\ SlabList(h, old, F[o])
  BY DEF Lists
<1>2. \A q \in Orders : m \notin P[q] /\ m \notin F[q]
  BY DEF Listed
<1>3. old \in F[o] \cup {Null} /\ old \in Link /\ old # m
  BY <1>2, HeadListed
<1>4. g \in Heap /\ g.full = [h.full EXCEPT ![o] = m] /\ g.part = h.part /\ SameContent(h, g)
      /\ LinksAre(g, Next1(h, old, m), Prev1(h, old, m, Null))
  BY <1>1, <1>3, AddFullIs
<1> HIDE DEF g, old
<1>5. \A q \in Orders : SameNodes(h, g, P[q])
  <2> SUFFICES ASSUME NEW q \in Orders PROVE SameNodes(h, g, P[q])
    OBVIOUS
  <2>1. old \notin P[q] /\ P[q] \in SUBSET Mem /\ m \notin P[q]
    BY <1>1, <1>2, <1>3 DEF Apart
  <2> QED BY <1>1, <1>3, <1>4, <2>1, PushElsewhere
<1>6. \A q \in Orders \ {o} : SameNodes(h, g, F[q])
  <2> SUFFICES ASSUME NEW q \in Orders \ {o} PROVE SameNodes(h, g, F[q])
    OBVIOUS
  <2>1. old \notin F[q] /\ F[q] \in SUBSET Mem /\ m \notin F[q]
    BY <1>1, <1>2, <1>3 DEF Apart
  <2> QED BY <1>1, <1>3, <1>4, <2>1, PushElsewhere
<1>7. SlabList(g, m, F[o] \cup {m})
  BY <1>1, <1>2, <1>4, SlabListPush DEF old
<1>8. Apart(P, With(F, o, m))
  BY <1>1, WithApart
<1>9. \A q \in Orders : /\ With(F, o, m)[q] = (IF q = o THEN F[o] \cup {m} ELSE F[q])
                        /\ g.full[q] = (IF q = o THEN m ELSE h.full[q])
  BY <1>1, <1>4 DEF Apart, With, Heap
<1>10. \A q \in Orders : \/ SlabList(g, g.part[q], P[q])
                         \/ q = CACHE_END_ORDER /\ PageList(g, g.part[q], P[q])
  BY <1>4, <1>5, SlabListFrame, PageListFrame DEF Lists
<1>11. \A q \in Orders : SlabList(g, g.full[q], With(F, o, m)[q])
  <2> SUFFICES ASSUME NEW q \in Orders PROVE SlabList(g, g.full[q], With(F, o, m)[q])
    OBVIOUS
  <2>1. CASE q = o
    BY <1>7, <1>9, <2>1
  <2>2. CASE q # o
    <3>1. SameNodes(h, g, F[q]) /\ g.full[q] = h.full[q] /\ With(F, o, m)[q] = F[q]
      BY <1>6, <1>9, <2>2
    <3>2. SlabList(h, h.full[q], F[q])
      BY DEF Lists
    <3> QED BY <3>1, <3>2, SlabListFrame
  <2> QED BY <2>1, <2>2
<1>12. Lists(g, P, With(F, o, m))
  BY <1>4, <1>8, <1>10, <1>11 DEF Lists
<1> QED BY <1>4, <1>12 DEF g

\* A slab leaves the list of partly used slabs, whichever way it is taken out.
LEMMA PartDropLists ==
    ASSUME NEW h, NEW P, NEW F, Lists(h, P, F), NEW o \in Orders, NEW m \in P[o],
           SlabList(h, h.part[o], P[o]), Null \notin Mem,
           NEW g \in Heap, g.full = h.full, g.part = [h.part EXCEPT ![o] = HeadWithout(h, h.part[o], m)],
           SameContent(h, g), LinksAre(g, Next2(h, m), Prev2(h, m))
    PROVE  Lists(g, Less(P, o, m), F)
<1>1. h \in Heap /\ Apart(P, F)
  BY DEF Lists
<1>2. \A q \in Orders : SameNodes(h, g, F[q])
  <2> SUFFICES ASSUME NEW q \in Orders PROVE SameNodes(h, g, F[q])
    OBVIOUS
  <2>1. F[q] \in SUBSET Mem /\ F[q] \cap P[o] = {}
    BY <1>1 DEF Apart
  <2> QED BY <1>1, <2>1, DropElsewhere
<1>3. \A q \in Orders \ {o} : SameNodes(h, g, P[q])
  <2> SUFFICES ASSUME NEW q \in Orders \ {o} PROVE SameNodes(h, g, P[q])
    OBVIOUS
  <2>1. P[q] \in SUBSET Mem /\ P[q] \cap P[o] = {}
    BY <1>1 DEF Apart
  <2> QED BY <1>1, <2>1, DropElsewhere
<1>4. SlabList(g, HeadWithout(h, h.part[o], m), P[o] \ {m})
  BY <1>1, SlabListDrop
<1>5. Apart(Less(P, o, m), F)
  BY <1>1, LessApart
<1>6. \A q \in Orders : /\ Less(P, o, m)[q] = (IF q = o THEN P[o] \ {m} ELSE P[q])
                        /\ g.part[q] = (IF q = o THEN HeadWithout(h, h.part[o], m) ELSE h.part[q])
  BY <1>1 DEF Apart, Less, Heap
<1>7. \A q \in Orders : SlabList(g, g.full[q], F[q])
  BY <1>2, SlabListFrame DEF Lists
<1>8. \A q \in Orders : \/ SlabList(g, g.part[q], Less(P, o, m)[q])
                        \/ q = CACHE_END_ORDER /\ PageList(g, g.part[q], Less(P, o, m)[q])
  <2> SUFFICES ASSUME NEW q \in Orders
               PROVE  \/ SlabList(g, g.part[q], Less(P, o, m)[q])
                      \/ q = CACHE_END_ORDER /\ PageList(g, g.part[q], Less(P, o, m)[q])
    OBVIOUS
  <2>1. CASE q = o
    BY <1>4, <1>6, <2>1
  <2>2. CASE q # o
    <3>1. SameNodes(h, g, P[q]) /\ g.part[q] = h.part[q] /\ Less(P, o, m)[q] = P[q]
      BY <1>3, <1>6, <2>2
    <3>2. SlabList(h, h.part[q], P[q]) \/ (q = CACHE_END_ORDER /\ PageList(h, h.part[q], P[q]))
      BY DEF Lists
    <3> QED BY <3>1, <3>2, SlabListFrame, PageListFrame
  <2> QED BY <2>1, <2>2
<1> QED BY <1>5, <1>7, <1>8 DEF Lists

LEMMA RemovePartLists ==
    ASSUME NEW h, NEW P, NEW F, Lists(h, P, F), NEW o \in Orders, NEW m \in P[o],
           SlabList(h, h.part[o], P[o]), Null \notin Mem
    PROVE  LET g == remove_slab_from_list(h, "part", o, m)
           IN  Lists(g, Less(P, o, m), F) /\ SameContent(h, g)
<1> DEFINE g == remove_slab_from_list(h, "part", o, m)
<1>1. h \in Heap /\ m \in Mem
  BY HeadListed DEF Lists
<1>2. g \in Heap /\ g.full = h.full /\ g.part = [h.part EXCEPT ![o] = HeadWithout(h, h.part[o], m)]
      /\ SameContent(h, g) /\ LinksAre(g, Next2(h, m), Prev2(h, m))
  BY <1>1, RemovePartIs
<1> HIDE DEF g
<1>3. Lists(g, Less(P, o, m), F)
  BY <1>2, PartDropLists
<1> QED BY <1>2, <1>3 DEF g

LEMMA DropPartHeadLists ==
    ASSUME NEW h, NEW P, NEW F, Lists(h, P, F), NEW o \in Orders, h.part[o] # Null,
           SlabList(h, h.part[o], P[o]), Null \notin Mem
    PROVE  LET g == DropPartHead(h, o)
               m == h.part[o]
           IN  Lists(g, Less(P, o, m), F) /\ SameContent(h, g) /\ g.node[m].prev = Null
<1> DEFINE g == DropPartHead(h, o)
           m == h.part[o]
<1>1. h \in Heap /\ m \in Mem /\ m \in P[o]
  BY HeadListed DEF Lists
<1>2. h.node[m].prev = Null
  BY DEF SlabList, BackLinks
<1>3. g \in Heap /\ g.full = h.full /\ g.part = [h.part EXCEPT ![o] = HeadWithout(h, h.part[o], m)]
      /\ SameContent(h, g) /\ LinksAre(g, Next2(h, m), Prev2(h, m))
  BY <1>1, <1>2, DropPartHeadIs
<1> HIDE DEF g
<1>4. Lists(g, Less(P, o, m), F)
  BY <1>1, <1>3, PartDropLists
<1>5. g.node[m].prev = Null
  BY <1>1, <1>2, <1>3 DEF LinksAre, Prev2
<1> QED BY <1>3, <1>4, <1>5 DEF g

LEMMA RemoveFullLists ==
    ASSUME NEW h, NEW P, NEW F, Lists(h, P, F), NEW o \in Orders, NEW m \in F[o], Null \notin Mem
    PROVE  LET g == remove_slab_from_list(h, "full", o, m)
           IN  Lists(g, P, Less(F, o, m)) /\ SameContent(h, g) /\ g.part = h.part
<1> DEFINE g == remove_slab_from_list(h, "full", o, m)
<1>1. h \in Heap /\ Apart(P, F) /\ m \in Mem /\ SlabList(h, h.full[o], F[o])
  BY HeadListed DEF Lists
<1>2. g \in Heap /\ g.part = h.part /\ g.full = [h.full EXCEPT ![o] = HeadWithout(h, h.full[o], m)]
      /\ SameContent(h, g) /\ LinksAre(g, Next2(h, m), Prev2(h, m))
  BY <1>1, RemoveFullIs
<1> HIDE DEF g
<1>3. \A q \in Orders : SameNodes(h, g, P[q])
  <2> SUFFICES ASSUME NEW q \in Orders PROVE SameNodes(h, g, P[q])
    OBVIOUS
  <2>1. P[q] \in SUBSET Mem /\ P[q] \cap F[o] = {}
    BY <1>1 DEF Apart
  <2> QED BY <1>1, <1>2, <2>1, DropElsewhere
<1>4. \A q \in Orders \ {o} : SameNodes(h, g, F[q])
  <2> SUFFICES ASSUME NEW q \in Orders \ {o} PROVE SameNodes(h, g, F[q])
    OBVIOUS
  <2>1. F[q] \in SUBSET Mem /\ F[q] \cap F[o] = {}
    BY <1>1 DEF Apart
  <2> QED BY <1>1, <1>2, <2>1, DropElsewhere
<1>5. SlabList(g, HeadWithout(h, h.full[o], m), F[o] \ {m})
  BY <1>1, <1>2, SlabListDrop
<1>6. Apart(P, Less(F, o, m))
  BY <1>1, LessApart
<1>7. \A q \in Orders : /\ Less(F, o, m)[q] = (IF q = o THEN F[o] \ {m} ELSE F[q])
                        /\ g.full[q] = (IF q = o THEN HeadWithout(h, h.full[o], m) ELSE h.full[q])
  BY <1>1, <1>2 DEF Apart, Less, Heap
<1>8. \A q \in Orders : \/ SlabList(g, g.part[q], P[q])
                        \/ q = CACHE_END_ORDER /\ PageList(g, g.part[q], P[q])
  BY <1>2, <1>3, SlabListFrame, PageListFrame DEF Lists
<1>9. \A q \in Orders : SlabList(g, g.full[q], Less(F, o, m)[q])
  <2> SUFFICES ASSUME NEW q \in Orders PROVE SlabList(g, g.full[q], Less(F, o, m)[q])
    OBVIOUS
  <2>1. CASE q = o
    BY <1>5, <1>7, <2>1
  <2>2. CASE q # o
    <3>1. SameNodes(h, g, F[q]) /\ g.full[q] = h.full[q] /\ Less(F, o, m)[q] = F[q]
      BY <1>4, <1>7, <2>2
    <3>2. SlabList(h, h.full[q], F[q])
      BY DEF Lists
    <3> QED BY <3>1, <3>2, SlabListFrame
  <2> QED BY <2>1, <2>2
<1>10. Lists(g, P, Less(F, o, m))
  BY <1>2, <1>6, <1>8, <1>9 DEF Lists
<1> QED BY <1>2, <1>10 DEF g

-----------------------------------------------------------------------------
(* The objects of a slab.                                                  *)

\* c runs without repetition through the free objects.
FreeObjects(s, n, u, c) ==
    /\ c \in [1 .. n - s.allocated -> 0 .. n - 1]
    /\ FreeChain(s, c)
    /\ \A j, k \in DOMAIN c : c[j] = c[k] => j = k
    /\ \A i \in 0 .. n - 1 : i \notin u <=> \E k \in DOMAIN c : c[k] = i

\* A slab of n objects, of which those in u are used.
SlabOK(s, n, u) ==
    /\ s.allocated \in 0 .. n
    /\ s.next_free \in Nat
    /\ s.free \in [0 .. n - 1 -> Nat]
    /\ u \subseteq 0 .. n - 1
    /\ Cardinality(u) = s.allocated
    /\ \E c : FreeObjects(s, n, u, c)

LEMMA NewSlabOK ==
    ASSUME NEW s, NEW n \in Nat, s.allocated = 0, s.next_free = 0, s.free = [i \in 0 .. n - 1 |-> i + 1]
    PROVE  SlabOK(s, n, {})
<1> DEFINE c == [k \in 1 .. n |-> k - 1]
<1>1. n - s.allocated = n
  OBVIOUS
<1>2. c \in [1 .. n - s.allocated -> 0 .. n - 1]
  BY <1>1
<1>3. FreeChain(s, c)
  BY DEF FreeChain
<1>4. \A j, k \in DOMAIN c : c[j] = c[k] => j = k
  OBVIOUS
<1>5. \A i \in 0 .. n - 1 : \E k \in DOMAIN c : c[k] = i
  <2> TAKE i \in 0 .. n - 1
  <2>1. i + 1 \in DOMAIN c /\ c[i + 1] = i
    OBVIOUS
  <2> QED BY <2>1
<1> HIDE DEF c
<1>6. FreeObjects(s, n, {}, c)
  BY <1>2, <1>3, <1>4, <1>5 DEF FreeObjects
<1>7. s.free \in [0 .. n - 1 -> Nat]
  OBVIOUS
<1>8. Cardinality({}) = 0
  BY FS_EmptySet
<1> QED BY <1>6, <1>7, <1>8 DEF SlabOK

LEMMA TakeSlabOK ==
    ASSUME NEW s, NEW t, NEW n \in Nat, NEW u, SlabOK(s, n, u), s.allocated < n,
           t.allocated = s.allocated + 1, t.next_free = s.free[s.next_free], t.free = s.free
    PROVE  /\ s.next_free \in 0 .. n - 1 /\ s.next_free \notin u
           /\ SlabOK(t, n, u \cup {s.next_free})
<1>1. PICK c : FreeObjects(s, n, u, c)
  BY DEF SlabOK
<1> DEFINE r == n - s.allocated
           i == s.next_free
           v == u \cup {i}
           d == [k \in 1 .. r - 1 |-> c[k + 1]]
<1>2. r \in Nat \ {0} /\ n - t.allocated = r - 1 /\ s.allocated \in Nat
  <2>1. s.allocated \in 0 .. n
    BY DEF SlabOK
  <2> QED BY <2>1
<1>3. c \in [1 .. r -> 0 .. n - 1] /\ DOMAIN c = 1 .. r /\ 1 \in DOMAIN c
  BY <1>1, <1>2 DEF FreeObjects
<1>4. c[1] = i /\ i \in 0 .. n - 1
  BY <1>1, <1>3 DEF FreeObjects, FreeChain
<1>5. i \notin u
  BY <1>1, <1>3, <1>4 DEF FreeObjects
<1>6. \A k \in 1 .. r - 1 : k + 1 \in 1 .. r /\ k \in 1 .. r /\ k + 1 # 1 /\ d[k] = c[k + 1]
                             /\ s.free[c[k]] = c[k + 1]
  <2>1. \A k \in 1 .. r - 1 : k + 1 \in 1 .. r /\ k \in 1 .. r /\ k + 1 # 1
    BY <1>2
  <2>2. \A k \in 1 .. r - 1 : s.free[c[k]] = c[k + 1]
    BY <1>1, <1>3, <2>1 DEF FreeObjects, FreeChain
  <2> QED BY <2>1, <2>2
<1> HIDE DEF r, i
<1>7. d \in [1 .. n - t.allocated -> 0 .. n - 1] /\ DOMAIN d = 1 .. r - 1
  BY <1>2, <1>3, <1>6
<1>8. FreeChain(t, d)
  <2>1. 1 \in DOMAIN d => d[1] = t.next_free
    <3> SUFFICES ASSUME 1 \in 1 .. r - 1 PROVE d[1] = t.next_free
      BY <1>7
    <3>1. d[1] = c[1 + 1] /\ s.free[c[1]] = c[1 + 1]
      BY <1>6
    <3> QED BY <1>4, <3>1 DEF i
  <2>2. ASSUME NEW k \in DOMAIN d, k + 1 \in DOMAIN d PROVE t.free[d[k]] = d[k + 1]
    <3>1. k \in 1 .. r - 1 /\ k + 1 \in 1 .. r - 1
      BY <1>7, <2>2
    <3>2. d[k] = c[k + 1] /\ d[k + 1] = c[(k + 1) + 1] /\ s.free[c[k + 1]] = c[(k + 1) + 1]
      BY <1>6, <3>1
    <3> QED BY <3>2
  <2> QED BY <2>1, <2>2 DEF FreeChain
<1>9. \A j, k \in DOMAIN d : d[j] = d[k] => j = k
  <2> SUFFICES ASSUME NEW j \in 1 .. r - 1, NEW k \in 1 .. r - 1, d[j] = d[k] PROVE j = k
    BY <1>7
  <2>1. j + 1 \in DOMAIN c /\ k + 1 \in DOMAIN c /\ c[j + 1] = c[k + 1]
    BY <1>3, <1>6
  <2>2. j + 1 = k + 1
    BY <1>1, <2>1 DEF FreeObjects
  <2> QED BY <1>2, <2>2
<1>10. \A x \in 0 .. n - 1 : x \notin v <=> \E k \in DOMAIN d : d[k] = x
  <2> TAKE x \in 0 .. n - 1
  <2>1. ASSUME x \notin v PROVE \E k \in DOMAIN d : d[k] = x
    <3>1. PICK k \in DOMAIN c : c[k] = x
      BY <1>1, <2>1 DEF FreeObjects
    <3>2. k # 1 /\ k \in 1 .. r
      BY <1>3, <1>4, <2>1, <3>1
    <3>3. k - 1 \in 1 .. r - 1 /\ (k - 1) + 1 = k
      BY <1>2, <3>2
    <3>4. d[k - 1] = x
      BY <1>6, <3>1, <3>3
    <3> QED BY <1>7, <3>3, <3>4
  <2>2. ASSUME NEW k \in DOMAIN d, d[k] = x PROVE x \notin v
    <3>1. k \in 1 .. r - 1
      BY <1>7
    <3>2. c[k + 1] = x /\ k + 1 \in DOMAIN c /\ k + 1 # 1
      BY <1>3, <1>6, <2>2, <3>1
    <3>3. x \notin u
      BY <1>1, <3>2 DEF FreeObjects
    <3>4. x # i
      BY <1>1, <1>3, <1>4, <3>2 DEF FreeObjects
    <3> QED BY <3>3, <3>4
  <2> QED BY <2>1, <2>2
<1> HIDE DEF d, v
<1>11. FreeObjects(t, n, v, d)
  BY <1>7, <1>8, <1>9, <1>10 DEF FreeObjects
<1>12. IsFiniteSet(u) /\ u \subseteq 0 .. n - 1 /\ Cardinality(u) = s.allocated
  <2>1. IsFiniteSet(0 .. n - 1)
    BY FS_Interval
  <2> QED BY <2>1, FS_Subset DEF SlabOK
<1>13. Cardinality(v) = t.allocated
  <2>1. Cardinality(u \cup {i}) = IF i \in u THEN Cardinality(u) ELSE Cardinality(u) + 1
    BY <1>12, FS_AddElement
  <2>2. Cardinality(v) = s.allocated + 1
    BY <1>5, <1>12, <2>1 DEF v
  <2> QED BY <2>2
<1>14. v \subseteq 0 .. n - 1
  BY <1>4, <1>12 DEF v
<1>15. t.allocated \in 0 .. n /\ t.free \in [0 .. n - 1 -> Nat] /\ t.next_free \in Nat
  <2>1. s.free \in [0 .. n - 1 -> Nat]
    BY DEF SlabOK
  <2>2. s.free[i] \in Nat
    BY <1>4, <2>1
  <2>3. s.allocated + 1 \in 0 .. n
    BY <1>2 DEF r
  <2> QED BY <2>1, <2>2, <2>3 DEF i
<1>16. SlabOK(t, n, v)
  BY <1>11, <1>13, <1>14, <1>15 DEF SlabOK
<1> QED BY <1>4, <1>5, <1>16 DEF i, v

LEMMA FreeSlabOK ==
    ASSUME NEW s, NEW t, NEW n \in Nat, NEW u, SlabOK(s, n, u), NEW i \in u,
           t.allocated = s.allocated - 1, t.next_free = i, t.free = [s.free EXCEPT ![i] = s.next_free]
    PROVE  s.allocated >= 1 /\ SlabOK(t, n, u \ {i})
<1>1. PICK c : FreeObjects(s, n, u, c)
  BY DEF SlabOK
<1> DEFINE r == n - s.allocated
           v == u \ {i}
           d == [k \in 1 .. r + 1 |-> IF k = 1 THEN i ELSE c[k - 1]]
<1>2. IsFiniteSet(u) /\ u \subseteq 0 .. n - 1 /\ Cardinality(u) = s.allocated /\ i \in 0 .. n - 1
  <2>1. IsFiniteSet(0 .. n - 1)
    BY FS_Interval
  <2> QED BY <2>1, FS_Subset DEF SlabOK
<1>3. Cardinality(v) = s.allocated - 1 /\ Cardinality(v) \in Nat
  BY <1>2, FS_RemoveElement, FS_CardinalityType DEF v
<1>4. s.allocated \in 0 .. n /\ s.next_free \in Nat /\ s.free \in [0 .. n - 1 -> Nat]
  BY DEF SlabOK
<1> HIDE DEF v
<1>5. s.allocated >= 1 /\ r \in Nat /\ n - t.allocated = r + 1 /\ t.allocated \in 0 .. n
  BY <1>3, <1>4
<1>6. c \in [1 .. r -> 0 .. n - 1] /\ DOMAIN c = 1 .. r
  BY <1>1 DEF FreeObjects
<1> HIDE DEF r
<1>7. \A k \in 1 .. r + 1 : k # 1 => k - 1 \in 1 .. r /\ d[k] = c[k - 1] /\ d[k] \in 0 .. n - 1 /\ d[k] \notin u
  <2>1. \A k \in 1 .. r + 1 : k # 1 => k - 1 \in 1 .. r
    BY <1>5
  <2>2. \A k \in 1 .. r : c[k] \in 0 .. n - 1 /\ c[k] \notin u
    BY <1>1, <1>6 DEF FreeObjects
  <2> QED BY <2>1, <2>2
<1>8. d[1] = i /\ 1 \in 1 .. r + 1
  BY <1>5
<1>9. d \in [1 .. n - t.allocated -> 0 .. n - 1] /\ DOMAIN d = 1 .. r + 1
  BY <1>2, <1>5, <1>7, <1>8
<1>10. FreeChain(t, d)
  <2>1. d[1] = t.next_free
    BY <1>8
  <2>2. ASSUME NEW k \in DOMAIN d, k + 1 \in DOMAIN d PROVE t.free[d[k]] = d[k + 1]
    <3>1. k \in 1 .. r + 1 /\ k + 1 \in 1 .. r + 1 /\ k \in 1 .. r /\ k + 1 # 1 /\ (k + 1) - 1 = k
      BY <1>5, <1>9, <2>2
    <3>2. d[k + 1] = c[k]
      BY <1>7, <3>1
    <3>3. CASE k = 1
      <4>1. c[1] = s.next_free
        BY <1>1, <1>6, <3>1, <3>3 DEF FreeObjects, FreeChain
      <4>2. t.free[i] = s.next_free
        BY <1>2, <1>4
      <4> QED BY <1>8, <3>2, <3>3, <4>1, <4>2
    <3>4. CASE k # 1
      <4> DEFINE l == k - 1
      <4>1. l \in 1 .. r /\ l + 1 = k /\ d[k] = c[l] /\ d[k] # i /\ d[k] \in 0 .. n - 1
        BY <1>7, <3>1, <3>4
      <4> HIDE DEF l
      <4>2. s.free[c[l]] = c[k]
        BY <1>1, <1>6, <3>1, <4>1 DEF FreeObjects, FreeChain
      <4>3. t.free[d[k]] = s.free[d[k]]
        BY <1>4, <4>1
      <4> QED BY <3>2, <4>1, <4>2, <4>3
    <3> QED BY <3>3, <3>4
  <2> QED BY <2>1, <2>2 DEF FreeChain
<1>11. \A j, k \in DOMAIN d : d[j] = d[k] => j = k
  <2> SUFFICES ASSUME NEW j \in 1 .. r + 1, NEW k \in 1 .. r + 1, d[j] = d[k] PROVE j = k
    BY <1>9
  <2>1. CASE j = 1 \/ k = 1
    BY <1>7, <1>8, <2>1
  <2>2. CASE j # 1 /\ k # 1
    <3>1. j - 1 \in DOMAIN c /\ k - 1 \in DOMAIN c /\ c[j - 1] = c[k - 1]
      BY <1>6, <1>7, <2>2
    <3>2. j - 1 = k - 1
      BY <1>1, <3>1 DEF FreeObjects
    <3> QED BY <1>5, <3>2
  <2> QED BY <2>1, <2>2
<1>12. \A x \in 0 .. n - 1 : x \notin v <=> \E k \in DOMAIN d : d[k] = x
  <2> TAKE x \in 0 .. n - 1
  <2>1. ASSUME x \notin v PROVE \E k \in DOMAIN d : d[k] = x
    <3>1. CASE x = i
      BY <1>8, <1>9, <3>1
    <3>2. CASE x # i
      <4>1. PICK k \in DOMAIN c : c[k] = x
        BY <1>1, <2>1, <3>2 DEF FreeObjects, v
      <4>2. k + 1 \in 1 .. r + 1 /\ k + 1 # 1 /\ (k + 1) - 1 = k
        BY <1>5, <1>6
      <4>3. d[k + 1] = x
        BY <1>7, <4>1, <4>2
      <4> QED BY <1>9, <4>2, <4>3
    <3> QED BY <3>1, <3>2
  <2>2. ASSUME NEW k \in DOMAIN d, d[k] = x PROVE x \notin v
    <3>1. k \in 1 .. r + 1
      BY <1>9
    <3> QED BY <1>7, <1>8, <2>2, <3>1 DEF v
  <2> QED BY <2>1, <2>2
<1> HIDE DEF d
<1>13. FreeObjects(t, n, v, d)
  BY <1>9, <1>10, <1>11, <1>12 DEF FreeObjects
<1>14. v \subseteq 0 .. n - 1
  BY <1>2 DEF v
<1>15. t.free \in [0 .. n - 1 -> Nat] /\ t.next_free \in Nat
  BY <1>2, <1>4
<1>16. SlabOK(t, n, v)
  BY <1>3, <1>5, <1>13, <1>14, <1>15 DEF SlabOK
<1> QED BY <1>5, <1>16 DEF v

\* Only these fields matter.
LEMMA SlabFrame ==
    ASSUME NEW s, NEW t, NEW n, NEW u, SlabOK(s, n, u),
           t.allocated = s.allocated, t.next_free = s.next_free, t.free = s.free
    PROVE  SlabOK(t, n, u)
<1>1. PICK c : FreeObjects(s, n, u, c)
  BY DEF SlabOK
<1>2. FreeObjects(t, n, u, c)
  BY <1>1 DEF FreeObjects, FreeChain
<1> QED BY <1>2 DEF SlabOK

-----------------------------------------------------------------------------
(* A heap in which exactly the objects in U are used.                      *)

Used(U, m) == {i \in Nat : <<m, i>> \in U}

PartlyUsed(h, U, m, o) ==
    SlabOK(h.node[m], Count[o], Used(U, m)) /\ h.node[m].allocated < Count[o]
FullyUsed(h, U, m, o) ==
    SlabOK(h.node[m], Count[o], Used(U, m)) /\ h.node[m].allocated = Count[o]

Content(h, P, F, U) ==
    /\ \A o \in Orders : \A m \in P[o] : h.node[m].kind = "slab" => PartlyUsed(h, U, m, o)
    /\ \A o \in Orders : \A m \in F[o] : FullyUsed(h, U, m, o)

\* Every range in use is in a list, and every object in a slab.
Members(h, P, F, U) ==
    /\ \A m \in Mem : h.node[m].kind \in {"slab", "pages"} => m \in Listed(P, F)
    /\ U \subseteq Mem \X Nat
    /\ \A p \in U : h.node[p[1]].kind = "slab"

Sound(h, P, F, U) == Lists(h, P, F) /\ Content(h, P, F, U) /\ Members(h, P, F, U)

\* What the assumptions say.
LEMMA Facts ==
    /\ Null \notin Mem
    /\ CACHE_END_ORDER \in Orders
    /\ SlabOrder \in Orders /\ SlabOrder # CACHE_END_ORDER /\ OnSlab(SlabOrder)
    /\ PageAllocationOrder \in Orders /\ PageAllocationOrder # CACHE_END_ORDER /\ OnSlab(PageAllocationOrder)
    /\ ~OnSlab(CACHE_END_ORDER)
    /\ \A o \in Orders : Count[o] \in Nat \ {0}
<1>1. CACHE_END_ORDER \in Orders
  BY OrderAssumption DEF Orders
<1>2. \A o \in Orders : Count[o] \in Nat \ {0}
  BY CountAssumption
<1>3. Null \notin Mem
  BY MemAssumption
<1>4. SlabOrder # CACHE_END_ORDER /\ PageAllocationOrder # CACHE_END_ORDER
  BY DescriptorAssumption
<1> QED BY <1>1, <1>2, <1>3, <1>4, DescriptorAssumption

\* A list without page allocations is a list of slabs.
LEMMA PartIs ==
    ASSUME NEW h, NEW P, NEW F, Lists(h, P, F), NEW o \in Orders,
           o # CACHE_END_ORDER \/ \A m \in P[o] : h.node[m].kind # "pages"
    PROVE  SlabList(h, h.part[o], P[o])
<1>1. CASE SlabList(h, h.part[o], P[o])
  BY <1>1
<1>2. CASE o = CACHE_END_ORDER /\ PageList(h, h.part[o], P[o])
  <2>1. P[o] = {}
    BY <1>2 DEF PageList
  <2>2. IsList(h, h.part[o], P[o])
    BY <1>2 DEF PageList
  <2>3. h.part[o] = Null
    BY <2>1, <2>2 DEF IsList
  <2> QED BY <2>1, <2>2, <2>3 DEF SlabList, BackLinks
<1> QED BY <1>1, <1>2 DEF Lists

\* Only the range m, and the objects in it, differ.
SameBut(h, g, m) ==
    \A x \in Mem \ {m} : /\ g.node[x].kind = h.node[x].kind
                         /\ g.node[x].allocated = h.node[x].allocated
                         /\ g.node[x].next_free = h.node[x].next_free
                         /\ g.node[x].free = h.node[x].free
                         /\ g.node[x].desc = h.node[x].desc
ObjectsBut(U, V, m) == \A p \in Mem \X Nat : p[1] # m => (p \in U <=> p \in V)
ListsBut(P, P2, m) == \A o \in Orders : \A x \in Mem \ {m} : x \in P2[o] <=> x \in P[o]

PartlyOK(g, V, m, P) == \A o \in Orders : m \in P[o] /\ g.node[m].kind = "slab" => PartlyUsed(g, V, m, o)
FullyOK(g, V, m, F) == \A o \in Orders : m \in F[o] => FullyUsed(g, V, m, o)

LEMMA ContentBut ==
    ASSUME NEW h, NEW g, NEW P, NEW F, NEW P2, NEW F2, NEW U, NEW V, NEW m \in Mem,
           Content(h, P, F, U), Apart(P2, F2), SameBut(h, g, m), ObjectsBut(U, V, m),
           ListsBut(P, P2, m), ListsBut(F, F2, m),
           PartlyOK(g, V, m, P2), FullyOK(g, V, m, F2)
    PROVE  Content(g, P2, F2, V)
<1>1. \A x \in Mem \ {m} : Used(V, x) = Used(U, x)
  <2>1. \A x \in Mem \ {m} : \A i \in Nat : <<x, i>> \in U <=> <<x, i>> \in V
    BY DEF ObjectsBut
  <2> QED BY <2>1 DEF Used
<1>2. ASSUME NEW o \in Orders, NEW x \in P2[o], g.node[x].kind = "slab", x # m
      PROVE  PartlyUsed(g, V, x, o)
  <2>1. x \in Mem \ {m} /\ x \in P[o]
    BY <1>2 DEF Apart, ListsBut
  <2>2. h.node[x].kind = "slab" /\ g.node[x].allocated = h.node[x].allocated
        /\ g.node[x].next_free = h.node[x].next_free /\ g.node[x].free = h.node[x].free
    BY <1>2, <2>1 DEF SameBut
  <2>3. PartlyUsed(h, U, x, o)
    BY <2>1, <2>2 DEF Content
  <2>4. SlabOK(g.node[x], Count[o], Used(U, x))
    BY <2>2, <2>3, SlabFrame DEF PartlyUsed
  <2> QED BY <1>1, <2>1, <2>2, <2>3, <2>4 DEF PartlyUsed
<1>3. ASSUME NEW o \in Orders, NEW x \in F2[o], x # m PROVE FullyUsed(g, V, x, o)
  <2>1. x \in Mem \ {m} /\ x \in F[o]
    BY <1>3 DEF Apart, ListsBut
  <2>2. g.node[x].allocated = h.node[x].allocated
        /\ g.node[x].next_free = h.node[x].next_free /\ g.node[x].free = h.node[x].free
    BY <2>1 DEF SameBut
  <2>3. FullyUsed(h, U, x, o)
    BY <2>1 DEF Content
  <2>4. SlabOK(g.node[x], Count[o], Used(U, x))
    BY <2>2, <2>3, SlabFrame DEF FullyUsed
  <2> QED BY <1>1, <2>1, <2>2, <2>3, <2>4 DEF FullyUsed
<1> QED BY <1>2, <1>3 DEF Content, PartlyOK, FullyOK

LEMMA MembersBut ==
    ASSUME NEW h, NEW g, NEW P, NEW F, NEW P2, NEW F2, NEW U, NEW V, NEW m \in Mem,
           Members(h, P, F, U), SameBut(h, g, m), ObjectsBut(U, V, m), V \subseteq Mem \X Nat,
           ListsBut(P, P2, m), ListsBut(F, F2, m),
           g.node[m].kind \in {"slab", "pages"} => m \in Listed(P2, F2),
           \A p \in V : p[1] = m => g.node[m].kind = "slab"
    PROVE  Members(g, P2, F2, V)
<1>1. ASSUME NEW x \in Mem, x # m, g.node[x].kind \in {"slab", "pages"} PROVE x \in Listed(P2, F2)
  <2>1. x \in Listed(P, F)
    BY <1>1 DEF Members, SameBut
  <2> QED BY <1>1, <2>1 DEF Listed, ListsBut
<1>2. ASSUME NEW p \in V, p[1] # m PROVE g.node[p[1]].kind = "slab"
  <2>1. p \in Mem \X Nat /\ p[1] \in Mem \ {m}
    BY <1>2
  <2>2. p \in U
    BY <1>2, <2>1 DEF ObjectsBut
  <2> QED BY <2>1, <2>2 DEF Members, SameBut
<1> QED BY <1>1, <1>2 DEF Members

\* What an operation on the cache o leaves alone.
SameUse(h, g) == \A x \in Mem : g.node[x].kind = h.node[x].kind /\ g.node[x].desc = h.node[x].desc
OtherCaches(h, P, F, g, P2, F2, o) ==
    \A q \in Orders \ {o} : P2[q] = P[q] /\ F2[q] = F[q] /\ g.part[q] = h.part[q]

\* One node is written.
Written(h, g, m, n) ==
    g \in Heap /\ g.part = h.part /\ g.full = h.full /\ g.node = [h.node EXCEPT ![m] = n]

LEMMA WriteNode ==
    ASSUME NEW h \in Heap, NEW m \in Mem, NEW n \in Node
    PROVE  Written(h, [h EXCEPT !.node[m] = n], m, n)
BY DEF Written, Heap

LEMMA WrittenIs ==
    ASSUME NEW h \in Heap, NEW g, NEW m \in Mem, NEW n, Written(h, g, m, n)
    PROVE  /\ g.node[m] = n /\ \A x \in Mem \ {m} : g.node[x] = h.node[x]
           /\ SameBut(h, g, m)
<1>1. h.node \in [Mem -> Node]
  BY DEF Heap
<1>2. g.node[m] = n /\ \A x \in Mem \ {m} : g.node[x] = h.node[x]
  BY <1>1 DEF Written
<1> QED BY <1>2 DEF SameBut

LEMMA SameContentBut ==
    ASSUME NEW h, NEW g, NEW k, NEW m \in Mem, SameBut(h, g, m), SameContent(g, k)
    PROVE  SameBut(h, k, m)
BY DEF SameBut, SameContent

LEMMA SameContentTwice ==
    ASSUME NEW h, NEW g, NEW k, SameContent(h, g), SameContent(g, k)
    PROVE  SameContent(h, k)
BY DEF SameContent

LEMMA FullyUsedFrame ==
    ASSUME NEW h, NEW g, NEW U, NEW m \in Mem, NEW o, SlabOK(h.node[m], Count[o], Used(U, m)), SameContent(h, g)
    PROVE  SlabOK(g.node[m], Count[o], Used(U, m)) /\ g.node[m].allocated = h.node[m].allocated
<1>1. g.node[m].allocated = h.node[m].allocated /\ g.node[m].next_free = h.node[m].next_free
      /\ g.node[m].free = h.node[m].free
  BY DEF SameContent
<1> QED BY <1>1, SlabFrame

\* Moving a slab of a cache between its lists leaves the others as they are.
LEMMA WithIs ==
    ASSUME NEW P \in [Orders -> SUBSET Mem], NEW o \in Orders, NEW m \in Mem
    PROVE  /\ ListsBut(P, With(P, o, m), m)
           /\ \A q \in Orders : With(P, o, m)[q] = IF q = o THEN P[o] \cup {m} ELSE P[q]
<1>1. \A q \in Orders : With(P, o, m)[q] = IF q = o THEN P[o] \cup {m} ELSE P[q]
  BY DEF With
<1> QED BY <1>1 DEF ListsBut

LEMMA LessIs ==
    ASSUME NEW P \in [Orders -> SUBSET Mem], NEW o \in Orders, NEW m \in Mem
    PROVE  /\ ListsBut(P, Less(P, o, m), m)
           /\ \A q \in Orders : Less(P, o, m)[q] = IF q = o THEN P[o] \ {m} ELSE P[q]
<1>1. \A q \in Orders : Less(P, o, m)[q] = IF q = o THEN P[o] \ {m} ELSE P[q]
  BY DEF Less
<1> QED BY <1>1 DEF ListsBut

LEMMA InOneList ==
    ASSUME NEW P, NEW F, Apart(P, F), NEW o \in Orders, NEW m \in P[o]
    PROVE  /\ m \notin Listed(Less(P, o, m), F)
           /\ \A q \in Orders : m \in P[q] => q = o
           /\ \A q \in Orders : m \notin F[q]
<1>1. m \in Mem
  BY DEF Apart
<1>2. \A q \in Orders : Less(P, o, m)[q] = IF q = o THEN P[o] \ {m} ELSE P[q]
  <2>1. P \in [Orders -> SUBSET Mem]
    BY DEF Apart
  <2> QED BY <1>1, <2>1, LessIs
<1>3. (\A q \in Orders : m \in P[q] => q = o) /\ (\A q \in Orders : m \notin F[q])
  BY DEF Apart
<1> QED BY <1>2, <1>3 DEF Listed

LEMMA InOneFullList ==
    ASSUME NEW P, NEW F, Apart(P, F), NEW o \in Orders, NEW m \in F[o]
    PROVE  /\ m \notin Listed(P, Less(F, o, m))
           /\ \A q \in Orders : m \in F[q] => q = o
           /\ \A q \in Orders : m \notin P[q]
<1>1. m \in Mem
  BY DEF Apart
<1>2. \A q \in Orders : Less(F, o, m)[q] = IF q = o THEN F[o] \ {m} ELSE F[q]
  <2>1. F \in [Orders -> SUBSET Mem]
    BY DEF Apart
  <2> QED BY <1>1, <2>1, LessIs
<1>3. (\A q \in Orders : m \in F[q] => q = o) /\ (\A q \in Orders : m \notin P[q])
  BY DEF Apart
<1> QED BY <1>2, <1>3 DEF Listed

\* How the caches stand after an operation on the cache o that takes or frees an object.
After(h, P, F, g, P2, F2, o) ==
    /\ OtherCaches(h, P, F, g, P2, F2, o)
    /\ \A q \in Orders : P2[q] \cup F2[q] = P[q] \cup F[q]
    /\ SameUse(h, g)

\* One more object of m is allocated.
OneMore(h, g, m) ==
    \A x \in Mem : g.node[x].allocated = h.node[x].allocated + (IF x = m THEN 1 ELSE 0)

\* The object that Take returns was not used.
Taken(h, P, F, U, o, r) ==
    /\ r.obj \in Mem \X Nat /\ r.obj \notin U /\ r.obj[1] = h.part[o]
    /\ OneMore(h, r.heap, h.part[o])
    /\ \E P2, F2 : Sound(r.heap, P2, F2, U \cup {r.obj}) /\ After(h, P, F, r.heap, P2, F2, o)

LEMMA TakeSound ==
    ASSUME NEW h, NEW P, NEW F, NEW U, Sound(h, P, F, U), NEW o \in Orders, h.part[o] # Null,
           SlabList(h, h.part[o], P[o])
    PROVE  Taken(h, P, F, U, o, Take(h, o))
<1> DEFINE m == h.part[o]
           s == h.node[m]
           i == s.next_free
           t == [s EXCEPT !.next_free = s.free[i], !.allocated = s.allocated + 1]
           g == [h EXCEPT !.node[m].next_free = s.free[i], !.node[m].allocated = s.allocated + 1]
           V == U \cup {<<m, i>>}
           r == Take(h, o)
<1>1. Lists(h, P, F) /\ Content(h, P, F, U) /\ Members(h, P, F, U) /\ h \in Heap /\ Apart(P, F) /\ Null \notin Mem
  BY Facts DEF Sound, Lists
<1>2. m \in P[o] /\ m \in Mem
  BY <1>1, HeadListed
<1>3. s \in Node /\ s.kind = "slab" /\ h.node \in [Mem -> Node]
  BY <1>1, <1>2 DEF Heap, SlabList
<1>4. SlabOK(s, Count[o], Used(U, m)) /\ s.allocated < Count[o] /\ Count[o] \in Nat
  BY <1>1, <1>2, <1>3, Facts DEF Content, PartlyUsed
<1>5. r.obj = <<m, i>> /\ r.heap = IF s.allocated + 1 = Count[o] THEN AddFull(DropPartHead(g, o), o, m) ELSE g
  BY DEF Take
<1>6. t.allocated = s.allocated + 1 /\ t.next_free = s.free[i] /\ t.free = s.free /\ t.kind = s.kind
      /\ t.desc = s.desc /\ t.next = s.next /\ t.prev = s.prev
  BY <1>3 DEF Node
<1> HIDE DEF r
<1>7. i \in 0 .. Count[o] - 1 /\ i \notin Used(U, m) /\ SlabOK(t, Count[o], Used(U, m) \cup {i})
  <2> HIDE DEF t, s, m
  <2> QED BY <1>4, <1>6, TakeSlabOK
<1>8. i \in Nat /\ s.free[i] \in Nat /\ s.allocated \in Nat
  <2>1. s.free \in [0 .. Count[o] - 1 -> Nat] /\ s.allocated \in 0 .. Count[o]
    BY <1>4 DEF SlabOK
  <2> HIDE DEF s, i
  <2> QED BY <1>4, <1>7, <2>1
<1>9. t \in Node
  <2>1. s.allocated + 1 \in Nat
    BY <1>8
  <2> QED BY <1>3, <1>8, <2>1 DEF Node
<1>10. g = [h EXCEPT !.node[m] = t]
  BY <1>1, <1>2, <1>3 DEF Heap, Node
<1> HIDE DEF g
<1>11. Written(h, g, m, t)
  BY <1>1, <1>2, <1>9, <1>10, WriteNode
<1>12. g.node[m] = t /\ (\A x \in Mem \ {m} : g.node[x] = h.node[x]) /\ SameBut(h, g, m)
  BY <1>1, <1>2, <1>11, WrittenIs
<1> HIDE DEF t
<1>13. SameNodes(h, g, Mem) /\ g \in Heap /\ g.part = h.part /\ g.full = h.full
  BY <1>6, <1>11, <1>12 DEF SameNodes, Written
<1>14. Lists(g, P, F)
  <2>1. Listed(P, F) \subseteq Mem
    BY <1>1 DEF Listed, Apart
  <2>2. SameNodes(h, g, Listed(P, F))
    BY <1>13, <2>1 DEF SameNodes
  <2> QED BY <1>1, <1>13, <2>2, ListsFrame
<1>15. SlabList(g, g.part[o], P[o])
  <2>1. SameNodes(h, g, P[o])
    BY <1>1, <1>13 DEF SameNodes, Apart
  <2> QED BY <1>1, <1>13, <2>1, SlabListFrame
<1>16. Used(V, m) = Used(U, m) \cup {i} /\ <<m, i>> \notin U /\ <<m, i>> \in Mem \X Nat
  BY <1>2, <1>7, <1>8 DEF Used
<1>17. ObjectsBut(U, V, m) /\ V \subseteq Mem \X Nat
  BY <1>1, <1>16 DEF ObjectsBut, Members
<1>18. SlabOK(g.node[m], Count[o], Used(V, m)) /\ g.node[m].allocated = s.allocated + 1 /\ g.node[m].kind = "slab"
       /\ g.node[m].desc = s.desc
  BY <1>3, <1>6, <1>7, <1>12, <1>16
<1>19. SameUse(h, g)
  <2>1. g.node[m].kind = h.node[m].kind /\ g.node[m].desc = h.node[m].desc
    BY <1>3, <1>18
  <2>2. \A x \in Mem \ {m} : g.node[x].kind = h.node[x].kind /\ g.node[x].desc = h.node[x].desc
    BY <1>12 DEF SameBut
  <2> HIDE DEF m
  <2> QED BY <2>1, <2>2 DEF SameUse
<1>20. OneMore(h, g, m)
  <2>1. \A x \in Mem : h.node[x].allocated \in Nat
    BY <1>3 DEF Node
  <2> QED BY <1>12, <1>18, <2>1 DEF OneMore
<1>21. CASE s.allocated + 1 # Count[o]
  <2>1. r.heap = g /\ r.obj = <<m, i>>
    BY <1>5, <1>21
  <2>2. s.allocated + 1 < Count[o]
    BY <1>4, <1>8, <1>21
  <2>3. PartlyOK(g, V, m, P)
    BY <1>1, <1>2, <1>18, <2>2, InOneList DEF PartlyUsed, PartlyOK
  <2>4. FullyOK(g, V, m, F)
    BY <1>1, <1>2, InOneList DEF FullyOK
  <2>5. ListsBut(P, P, m) /\ ListsBut(F, F, m)
    BY DEF ListsBut
  <2>6. Content(g, P, F, V)
    BY <1>1, <1>2, <1>12, <1>17, <2>3, <2>4, <2>5, ContentBut
  <2>7. m \in Listed(P, F)
    BY <1>2 DEF Listed
  <2>8. Members(g, P, F, V)
    BY <1>1, <1>2, <1>12, <1>17, <1>18, <2>5, <2>7, MembersBut
  <2>9. Sound(g, P, F, V)
    BY <1>14, <2>6, <2>8 DEF Sound
  <2>10. After(h, P, F, g, P, F, o)
    BY <1>13, <1>19 DEF After, OtherCaches
  <2>11. r.obj \in Mem \X Nat /\ r.obj \notin U /\ r.obj[1] = m /\ V = U \cup {r.obj}
    BY <1>16, <2>1
  <2> HIDE DEF V, i
  <2>12. Sound(r.heap, P, F, U \cup {r.obj}) /\ After(h, P, F, r.heap, P, F, o) /\ OneMore(h, r.heap, m)
    BY <1>20, <2>1, <2>9, <2>10, <2>11
  <2> HIDE DEF m
  <2>13. \E X, Y : Sound(r.heap, X, Y, U \cup {r.obj}) /\ After(h, P, F, r.heap, X, Y, o)
    BY <2>12
  <2>14. Taken(h, P, F, U, o, r)
    BY <2>11, <2>12, <2>13, Zenon DEF Taken, m
  <2> QED BY <2>14 DEF r
<1>22. CASE s.allocated + 1 = Count[o]
  <2> DEFINE d == DropPartHead(g, o)
             k == AddFull(d, o, m)
             P2 == Less(P, o, m)
             F2 == With(F, o, m)
  <2>1. r.heap = k /\ r.obj = <<m, i>>
    BY <1>5, <1>22
  <2>2. g.part[o] = m /\ g.part[o] # Null
    BY <1>13
  <2>3. Lists(d, P2, F) /\ SameContent(g, d) /\ d.node[m].prev = Null
    BY <1>1, <1>14, <1>15, <2>2, DropPartHeadLists
  <2> HIDE DEF d
  <2>4. m \notin Listed(P2, F) /\ d.node[m].kind = "slab"
    BY <1>1, <1>2, <1>18, <2>3, InOneList DEF SameContent
  <2>5. Lists(k, P2, F2) /\ SameContent(d, k)
    BY <1>1, <1>2, <2>3, <2>4, AddFullLists
  <2>6. SameContent(g, k)
    BY <2>3, <2>5, SameContentTwice
  <2> HIDE DEF k
  <2>7. SameBut(h, k, m)
    BY <1>2, <1>12, <2>6, SameContentBut
  <2>8. /\ ListsBut(P, P2, m) /\ ListsBut(F, F2, m)
        /\ \A q \in Orders : P2[q] = IF q = o THEN P[o] \ {m} ELSE P[q]
        /\ \A q \in Orders : F2[q] = IF q = o THEN F[o] \cup {m} ELSE F[q]
    <3>1. P \in [Orders -> SUBSET Mem] /\ F \in [Orders -> SUBSET Mem]
      BY <1>1 DEF Apart
    <3>2. ListsBut(P, P2, m) /\ \A q \in Orders : P2[q] = IF q = o THEN P[o] \ {m} ELSE P[q]
      BY <1>2, <3>1, LessIs
    <3>3. ListsBut(F, F2, m) /\ \A q \in Orders : F2[q] = IF q = o THEN F[o] \cup {m} ELSE F[q]
      BY <1>2, <3>1, WithIs
    <3> QED BY <3>2, <3>3
  <2> HIDE DEF P2, F2
  <2>9. \A q \in Orders : m \notin P2[q]
    BY <1>1, <1>2, <2>8, InOneList
  <2>10. \A q \in Orders : m \in F2[q] => q = o
    BY <1>1, <1>2, <2>8, InOneList
  <2>11. SlabOK(k.node[m], Count[o], Used(V, m)) /\ k.node[m].allocated = Count[o] /\ k.node[m].kind = "slab"
    <3>1. SlabOK(k.node[m], Count[o], Used(V, m)) /\ k.node[m].allocated = g.node[m].allocated
      BY <1>2, <1>18, <2>6, FullyUsedFrame
    <3>2. k.node[m].kind = "slab"
      BY <1>2, <1>18, <2>6 DEF SameContent
    <3> QED BY <1>18, <1>22, <3>1, <3>2
  <2>12. PartlyOK(k, V, m, P2) /\ FullyOK(k, V, m, F2)
    BY <2>9, <2>10, <2>11 DEF FullyUsed, FullyOK, PartlyOK
  <2>13. Apart(P2, F2)
    BY <2>5 DEF Lists
  <2>14. Content(k, P2, F2, V)
    BY <1>1, <1>2, <1>17, <2>7, <2>8, <2>12, <2>13, ContentBut
  <2>15. m \in Listed(P2, F2)
    BY <1>2, <2>8 DEF Listed
  <2>16. Members(k, P2, F2, V)
    BY <1>1, <1>2, <1>17, <2>7, <2>8, <2>11, <2>15, MembersBut
  <2>17. Sound(k, P2, F2, V)
    BY <2>5, <2>14, <2>16 DEF Sound
  <2>18. \A q \in Orders \ {o} : k.part[q] = h.part[q]
    <3>1. d.part = [g.part EXCEPT ![o] = HeadWithout(g, g.part[o], m)] /\ g.part \in [Orders -> Link]
      <4>1. g.node[m].prev = Null
        BY <1>15, <2>2 DEF SlabList, BackLinks
      <4> QED BY <1>1, <1>13, <2>2, <4>1, DropPartHeadIs DEF d, Heap
    <3>2. d.full[o] # m /\ d \in Heap
      <4>1. d \in Heap /\ d.full[o] \in F[o] \cup {Null}
        BY <2>3, HeadListed DEF Lists
      <4>2. m \notin F[o]
        BY <1>1, <1>2, InOneList
      <4> QED BY <1>1, <1>2, <4>1, <4>2
    <3>3. k.part = d.part
      BY <1>1, <1>2, <3>2, AddFullIs DEF k
    <3> QED BY <1>13, <3>1, <3>3
  <2>19. SameUse(h, k)
    BY <1>19, <2>6 DEF SameUse, SameContent
  <2>20. After(h, P, F, k, P2, F2, o)
    BY <1>2, <2>8, <2>18, <2>19 DEF After, OtherCaches
  <2>21. OneMore(h, k, m)
    BY <1>20, <2>6 DEF SameContent, OneMore
  <2>22. r.obj \in Mem \X Nat /\ r.obj \notin U /\ r.obj[1] = m /\ V = U \cup {r.obj}
    BY <1>16, <2>1
  <2> HIDE DEF V, i
  <2>23. Sound(r.heap, P2, F2, U \cup {r.obj}) /\ After(h, P, F, r.heap, P2, F2, o) /\ OneMore(h, r.heap, m)
    BY <2>1, <2>17, <2>20, <2>21, <2>22
  <2> HIDE DEF m
  <2>24. \E X, Y : Sound(r.heap, X, Y, U \cup {r.obj}) /\ After(h, P, F, r.heap, X, Y, o)
    BY <2>23
  <2>25. Taken(h, P, F, U, o, r)
    BY <2>22, <2>23, <2>24, Zenon DEF Taken, m
  <2> QED BY <2>25 DEF r
<1> QED BY <1>21, <1>22

LEMMA ListedKind ==
    ASSUME NEW h, NEW P, NEW F, Lists(h, P, F), NEW m \in Listed(P, F)
    PROVE  h.node[m].kind \in {"slab", "pages"} /\ m \in Mem
<1>1. PICK o \in Orders : m \in P[o] \cup F[o]
  BY DEF Listed
<1>2. m \in Mem
  BY <1>1 DEF Lists, Apart
<1>3. m \in F[o] => h.node[m].kind = "slab"
  BY DEF Lists, SlabList
<1>4. m \in P[o] => h.node[m].kind \in {"slab", "pages"}
  BY DEF Lists, SlabList, PageList
<1> QED BY <1>1, <1>2, <1>3, <1>4

\* Only the last cache's partial list can hold page allocations.
LEMMA SlabsOf ==
    ASSUME NEW h, NEW P, NEW F, Lists(h, P, F), NEW o \in Orders, o # CACHE_END_ORDER, NEW m \in P[o] \cup F[o]
    PROVE  h.node[m].kind = "slab" /\ m \in Mem
<1>1. SlabList(h, h.part[o], P[o]) /\ SlabList(h, h.full[o], F[o])
  BY DEF Lists
<1>2. m \in Mem
  BY DEF Lists, Apart
<1> QED BY <1>1, <1>2 DEF SlabList

FreshSlab(o, desc) ==
    [Unused EXCEPT !.kind = "slab", !.desc = desc, !.free = [i \in 0 .. Count[o] - 1 |-> i + 1]]

LEMMA FreshSlabIs ==
    ASSUME NEW o \in Orders, NEW desc \in Object
    PROVE  LET t == FreshSlab(o, desc)
           IN  /\ t \in Node /\ t.kind = "slab" /\ t.desc = desc /\ t.allocated = 0 /\ t.next_free = 0
               /\ t.free = [i \in 0 .. Count[o] - 1 |-> i + 1]
<1> DEFINE t == FreshSlab(o, desc)
           a == [i \in 0 .. Count[o] - 1 |-> i + 1]
<1>1. t = [kind |-> "slab", next |-> Null, prev |-> Null, allocated |-> 0, next_free |-> 0, free |-> a, desc |-> desc]
  <2>1. t = [Unused EXCEPT !.kind = "slab", !.desc = desc, !.free = a]
    BY DEF FreshSlab
  <2> HIDE DEF t, a
  <2> QED BY <2>1 DEF Unused
<1>2. Count[o] \in Nat
  BY Facts
<1>3. a \in [0 .. Count[o] - 1 -> Nat]
  BY <1>2
<1>4. a \in Arrays
  BY <1>2, <1>3 DEF Arrays
<1> HIDE DEF t, a
<1>5. t \in Node
  BY <1>1, <1>4 DEF Node, Link, Kinds
<1> QED BY <1>1, <1>5 DEF t, a

\* A new slab is the first partly used one of its cache.
Added(h, P, F, U, o, m, desc, g) ==
    /\ Sound(g, With(P, o, m), F, U)
    /\ g.part[o] = m /\ SlabList(g, m, With(P, o, m)[o])
    /\ \A q \in Orders \ {o} : g.part[q] = h.part[q]
    /\ SameBut(h, g, m)
    /\ g.node[m].kind = "slab" /\ g.node[m].desc = desc /\ g.node[m].allocated = 0

LEMMA NewSlabSound ==
    ASSUME NEW h, NEW P, NEW F, NEW U, Sound(h, P, F, U), NEW o \in Orders, NEW m \in Mem,
           h.node[m].kind \notin {"slab", "pages"}, NEW desc \in Object, SlabList(h, h.part[o], P[o])
    PROVE  Added(h, P, F, U, o, m, desc, NewSlab(h, o, m, desc))
<1> DEFINE t == FreshSlab(o, desc)
           k == [h EXCEPT !.node[m] = t]
           g == AddPart(k, o, m)
           P2 == With(P, o, m)
<1>1. Lists(h, P, F) /\ Content(h, P, F, U) /\ Members(h, P, F, U) /\ h \in Heap /\ Apart(P, F) /\ Null \notin Mem
  BY Facts DEF Sound, Lists
<1>2. t \in Node /\ t.kind = "slab" /\ t.desc = desc /\ t.allocated = 0 /\ t.next_free = 0
      /\ t.free = [i \in 0 .. Count[o] - 1 |-> i + 1]
  BY FreshSlabIs
<1>3. NewSlab(h, o, m, desc) = g
  BY DEF NewSlab, FreshSlab
<1> HIDE DEF t
<1>4. Written(h, k, m, t)
  BY <1>1, <1>2, WriteNode
<1>5. k.node[m] = t /\ (\A x \in Mem \ {m} : k.node[x] = h.node[x]) /\ SameBut(h, k, m)
  BY <1>1, <1>4, WrittenIs
<1> HIDE DEF k
<1>6. k \in Heap /\ k.part = h.part /\ k.full = h.full
  BY <1>4 DEF Written
<1>7. m \notin Listed(P, F) /\ Listed(P, F) \subseteq Mem
  BY <1>1, ListedKind
<1>8. SameNodes(h, k, Listed(P, F))
  BY <1>5, <1>7 DEF SameNodes
<1>9. Lists(k, P, F)
  BY <1>1, <1>6, <1>8, ListsFrame
<1>10. SlabList(k, k.part[o], P[o])
  <2>1. SameNodes(h, k, P[o])
    BY <1>8 DEF SameNodes, Listed
  <2> QED BY <1>1, <1>6, <2>1, SlabListFrame
<1>11. k.node[m].kind = "slab"
  BY <1>2, <1>5
<1>12. Lists(g, P2, F) /\ SameContent(k, g)
  BY <1>1, <1>7, <1>9, <1>10, <1>11, AddPartLists
<1>13. g.part = [k.part EXCEPT ![o] = m]
  <2>1. k.part[o] # m
    <3>1. k.part[o] \in P[o] \cup {Null} /\ m \notin P[o]
      BY <1>7, <1>9, HeadListed DEF Listed
    <3> QED BY <1>1, <3>1
  <2> QED BY <1>1, <1>6, <2>1, AddPartIs
<1> HIDE DEF g
<1>14. SameBut(h, g, m)
  BY <1>5, <1>12, SameContentBut
<1>15. g.node[m].kind = "slab" /\ g.node[m].desc = desc /\ g.node[m].allocated = 0
       /\ g.node[m].next_free = 0 /\ g.node[m].free = [i \in 0 .. Count[o] - 1 |-> i + 1]
  BY <1>2, <1>5, <1>12 DEF SameContent
<1>16. g.part[o] = m /\ \A q \in Orders \ {o} : g.part[q] = h.part[q]
  <2>1. h.part \in [Orders -> Link]
    BY <1>1 DEF Heap
  <2> QED BY <1>6, <1>13, <2>1
<1>17. Used(U, m) = {}
  <2>1. \A i \in Nat : <<m, i>> \notin U
    BY <1>1 DEF Members
  <2> QED BY <2>1 DEF Used
<1>18. Count[o] \in Nat \ {0}
  BY Facts
<1>19. SlabOK(g.node[m], Count[o], Used(U, m))
  BY <1>15, <1>17, <1>18, NewSlabOK
<1>20. ListsBut(P, P2, m) /\ \A q \in Orders : P2[q] = IF q = o THEN P[o] \cup {m} ELSE P[q]
  <2>1. P \in [Orders -> SUBSET Mem]
    BY <1>1 DEF Apart
  <2> QED BY <2>1, WithIs
<1> HIDE DEF P2
<1>21. \A q \in Orders : m \notin F[q] /\ (m \in P2[q] => q = o)
  BY <1>7, <1>20 DEF Listed
<1>22. PartlyOK(g, U, m, P2) /\ FullyOK(g, U, m, F)
  BY <1>15, <1>18, <1>19, <1>21 DEF PartlyOK, FullyOK, PartlyUsed
<1>23. ListsBut(F, F, m) /\ ObjectsBut(U, U, m) /\ Apart(P2, F) /\ U \subseteq Mem \X Nat
  BY <1>1, <1>12 DEF ListsBut, ObjectsBut, Lists, Members
<1>24. Content(g, P2, F, U)
  BY <1>1, <1>14, <1>20, <1>22, <1>23, ContentBut
<1>25. m \in Listed(P2, F)
  BY <1>20 DEF Listed
<1>26. Members(g, P2, F, U)
  BY <1>1, <1>14, <1>15, <1>20, <1>23, <1>25, MembersBut
<1>27. Sound(g, P2, F, U)
  BY <1>12, <1>24, <1>26 DEF Sound
<1>28. SlabList(g, m, P2[o])
  <2>1. SlabList(g, g.part[o], P2[o]) \/ (o = CACHE_END_ORDER /\ PageList(g, g.part[o], P2[o]))
    BY <1>12 DEF Lists
  <2>2. m \in P2[o]
    BY <1>20
  <2> QED BY <1>15, <1>16, <2>1, <2>2 DEF PageList
<1> QED BY <1>3, <1>14, <1>15, <1>16, <1>27, <1>28 DEF Added, P2

\* No slab is empty.
Busy(h) == \A x \in Mem : h.node[x].kind = "slab" => h.node[x].allocated >= 1

\* A range is used as before, or is a new slab of the cache o.
Kept(h, P, F, g, P2, F2, o, x) ==
    /\ g.node[x].kind = h.node[x].kind /\ g.node[x].desc = h.node[x].desc
    /\ x \in P2[o] \cup F2[o] => x \in P[o] \cup F[o]
NewIn(h, g, P2, F2, o, x) ==
    /\ h.part[o] = Null
    /\ h.node[x].kind = "unused" /\ g.node[x].kind = "slab" /\ g.node[x].desc = NoObject
    /\ x \in P2[o] \cup F2[o]
Grew(h, P, F, g, P2, F2, o) ==
    /\ OtherCaches(h, P, F, g, P2, F2, o)
    /\ \A q \in Orders : P[q] \cup F[q] \subseteq P2[q] \cup F2[q]
    /\ \A x \in Mem : Kept(h, P, F, g, P2, F2, o, x) \/ NewIn(h, g, P2, F2, o, x)

Got(h, P, F, U, o, r) ==
    /\ r.obj \in Mem \X Nat /\ r.obj \notin U
    /\ Busy(h) => Busy(r.heap)
    /\ \E P2, F2 : /\ Sound(r.heap, P2, F2, U \cup {r.obj})
                   /\ Grew(h, P, F, r.heap, P2, F2, o)
                   /\ r.obj[1] \in P2[o] \cup F2[o]

LEMMA OneMoreBusy ==
    ASSUME NEW h \in Heap, NEW g, NEW m, OneMore(h, g, m), SameUse(h, g),
           \A x \in Mem \ {m} : h.node[x].kind = "slab" => h.node[x].allocated >= 1
    PROVE  Busy(g)
<1>1. \A x \in Mem : h.node[x].allocated \in Nat
  BY DEF Heap, Node
<1>2. ASSUME NEW x \in Mem, g.node[x].kind = "slab" PROVE g.node[x].allocated >= 1
  <2>1. h.node[x].allocated \in Nat /\ h.node[x].kind = "slab"
        /\ g.node[x].allocated = h.node[x].allocated + (IF x = m THEN 1 ELSE 0)
    BY <1>1, <1>2 DEF OneMore, SameUse
  <2> QED BY <2>1
<1> QED BY <1>2 DEF Busy

LEMMA KallocOnSlabSound ==
    ASSUME NEW h, NEW P, NEW F, NEW U, Sound(h, P, F, U), NEW o \in Orders,
           SlabList(h, h.part[o], P[o]), NEW r \in KallocOnSlab(h, o)
    PROVE  Got(h, P, F, U, o, r)
<1>1. Lists(h, P, F) /\ h \in Heap /\ Apart(P, F) /\ Null \notin Mem
  BY Facts DEF Sound, Lists
<1>2. CASE h.part[o] # Null
  <2> DEFINE m == h.part[o]
  <2>1. r = Take(h, o)
    BY <1>2 DEF KallocOnSlab
  <2>2. Taken(h, P, F, U, o, r)
    BY <1>2, <2>1, TakeSound
  <2>3. m \in P[o] /\ m \in Mem
    BY <1>1, <1>2, HeadListed
  <2>4. PICK P2, F2 : Sound(r.heap, P2, F2, U \cup {r.obj}) /\ After(h, P, F, r.heap, P2, F2, o)
    BY <2>2 DEF Taken
  <2>5. r.obj \in Mem \X Nat /\ r.obj \notin U /\ r.obj[1] = m /\ OneMore(h, r.heap, m)
    BY <2>2 DEF Taken
  <2>6. r.obj[1] \in P2[o] \cup F2[o]
    BY <2>3, <2>4, <2>5 DEF After
  <2>7. \A x \in Mem : Kept(h, P, F, r.heap, P2, F2, o, x)
    BY <2>4 DEF After, Kept, SameUse
  <2>8. Grew(h, P, F, r.heap, P2, F2, o)
    BY <2>4, <2>7 DEF Grew, After
  <2>9. Busy(h) => Busy(r.heap)
    <3> SUFFICES ASSUME Busy(h) PROVE Busy(r.heap)
      OBVIOUS
    <3>1. SameUse(h, r.heap)
      BY <2>4 DEF After
    <3>2. \A x \in Mem \ {m} : h.node[x].kind = "slab" => h.node[x].allocated >= 1
      BY DEF Busy
    <3> HIDE DEF m
    <3> QED BY <1>1, <2>5, <3>1, <3>2, OneMoreBusy
  <2> QED BY <2>4, <2>5, <2>6, <2>8, <2>9 DEF Got
<1>3. CASE h.part[o] = Null
  <2>1. PICK m \in UnusedMem(h) : r = Take(NewSlab(h, o, m, NoObject), o)
    BY <1>3 DEF KallocOnSlab
  <2>2. m \in Mem /\ h.node[m].kind = "unused"
    BY DEF UnusedMem
  <2> DEFINE k == NewSlab(h, o, m, NoObject)
             Q == With(P, o, m)
  <2>3. NoObject \in Object
    BY DEF NoObject, Object, Link
  <2>4. Added(h, P, F, U, o, m, NoObject, k)
    BY <2>2, <2>3, NewSlabSound
  <2>5. Sound(k, Q, F, U) /\ k.part[o] = m /\ SlabList(k, k.part[o], Q[o]) /\ SameBut(h, k, m)
        /\ k.node[m].kind = "slab" /\ k.node[m].desc = NoObject
        /\ \A q \in Orders \ {o} : k.part[q] = h.part[q]
    BY <2>4 DEF Added
  <2> HIDE DEF k
  <2>6. Taken(k, Q, F, U, o, r)
    BY <1>1, <2>1, <2>2, <2>5, TakeSound DEF k
  <2>7. PICK P2, F2 : Sound(r.heap, P2, F2, U \cup {r.obj}) /\ After(k, Q, F, r.heap, P2, F2, o)
    BY <2>6 DEF Taken
  <2>8. r.obj \in Mem \X Nat /\ r.obj \notin U /\ r.obj[1] = m /\ OneMore(k, r.heap, m) /\ SameUse(k, r.heap)
    BY <2>5, <2>6, <2>7 DEF Taken, After
  <2>9. \A q \in Orders : Q[q] = IF q = o THEN P[o] \cup {m} ELSE P[q]
    <3>1. P \in [Orders -> SUBSET Mem]
      BY <1>1 DEF Apart
    <3> QED BY <2>2, <3>1, WithIs
  <2> HIDE DEF Q
  <2>10. r.obj[1] \in P2[o] \cup F2[o]
    BY <2>7, <2>8, <2>9 DEF After
  <2>11. OtherCaches(h, P, F, r.heap, P2, F2, o)
    BY <2>5, <2>7, <2>9 DEF After, OtherCaches
  <2>12. \A q \in Orders : P[q] \cup F[q] \subseteq P2[q] \cup F2[q]
    BY <2>7, <2>9 DEF After
  <2>13. \A x \in Mem \ {m} : Kept(h, P, F, r.heap, P2, F2, o, x)
    <3> SUFFICES ASSUME NEW x \in Mem \ {m} PROVE Kept(h, P, F, r.heap, P2, F2, o, x)
      OBVIOUS
    <3>1. r.heap.node[x].kind = h.node[x].kind /\ r.heap.node[x].desc = h.node[x].desc
      BY <2>5, <2>8 DEF SameUse, SameBut
    <3>2. P2[o] \cup F2[o] = Q[o] \cup F[o]
      BY <2>7 DEF After
    <3>3. x \in P2[o] \cup F2[o] => x \in P[o] \cup F[o]
      BY <2>9, <3>2
    <3> QED BY <3>1, <3>3 DEF Kept
  <2>14. NewIn(h, r.heap, P2, F2, o, m)
    BY <1>3, <2>2, <2>5, <2>8, <2>10 DEF NewIn, SameUse
  <2>15. Grew(h, P, F, r.heap, P2, F2, o)
    BY <2>11, <2>12, <2>13, <2>14 DEF Grew
  <2>16. Busy(h) => Busy(r.heap)
    <3> SUFFICES ASSUME Busy(h) PROVE Busy(r.heap)
      OBVIOUS
    <3>1. \A x \in Mem \ {m} : k.node[x].kind = "slab" => k.node[x].allocated >= 1
      BY <2>5 DEF Busy, SameBut
    <3>2. k \in Heap
      BY <2>5 DEF Sound, Lists
    <3> QED BY <2>8, <3>1, <3>2, OneMoreBusy
  <2> QED BY <2>7, <2>8, <2>10, <2>15, <2>16 DEF Got
<1> QED BY <1>2, <1>3

\* The slab m is in the list of partly used slabs, and the heap otherwise as it was.
InPart(h, P, F, o, m, g, P2, F2) ==
    /\ Lists(g, P2, F2) /\ SlabList(g, g.part[o], P2[o])
    /\ SameContent(h, g)
    /\ m \in P2[o]
    /\ ListsBut(P, P2, m) /\ ListsBut(F, F2, m)
    /\ OtherCaches(h, P, F, g, P2, F2, o)

\* The first partly used slab of a list of slabs is one.
LEMMA SlabPart ==
    ASSUME NEW h, NEW P, NEW F, Lists(h, P, F), NEW o \in Orders, NEW m \in P[o], h.node[m].kind = "slab"
    PROVE  SlabList(h, h.part[o], P[o])
BY DEF Lists, PageList

\* A full slab goes to the list of partly used slabs.
LEMMA Relinked ==
    ASSUME NEW h, NEW P, NEW F, Lists(h, P, F), NEW o \in Orders, NEW m \in F[o], SlabList(h, h.part[o], P[o])
    PROVE  InPart(h, P, F, o, m, AddPart(remove_slab_from_list(h, "full", o, m), o, m),
                  With(P, o, m), Less(F, o, m))
<1> DEFINE k == remove_slab_from_list(h, "full", o, m)
           g == AddPart(k, o, m)
           P2 == With(P, o, m)
           F2 == Less(F, o, m)
<1>1. Null \notin Mem /\ h \in Heap /\ Apart(P, F) /\ m \in Mem /\ h.node[m].kind = "slab"
  BY Facts DEF Lists, Apart, SlabList
<1>2. Lists(k, P, F2) /\ SameContent(h, k) /\ k.part = h.part
  BY <1>1, RemoveFullLists
<1>3. k \in Heap /\ LinksAre(k, Next2(h, m), Prev2(h, m))
  BY <1>1, RemoveFullIs
<1> HIDE DEF k
<1>4. m \notin Listed(P, F2) /\ \A q \in Orders : m \notin P[q]
  BY <1>1, InOneFullList
<1>5. SameNodes(h, k, P[o])
  <2>1. P[o] \in SUBSET Mem /\ P[o] \cap F[o] = {} /\ SlabList(h, h.full[o], F[o])
    BY <1>1 DEF Apart, Lists
  <2> QED BY <1>1, <1>2, <1>3, <2>1, DropElsewhere
<1>6. SlabList(k, k.part[o], P[o])
  BY <1>1, <1>2, <1>5, SlabListFrame
<1>7. k.node[m].kind = "slab"
  BY <1>1, <1>2 DEF SameContent
<1>8. Lists(g, P2, F2) /\ SameContent(k, g)
  BY <1>1, <1>2, <1>4, <1>6, <1>7, AddPartLists
<1>9. g.part = [k.part EXCEPT ![o] = m]
  <2>1. k.part[o] # m
    <3>1. k.part[o] \in P[o] \cup {Null}
      BY <1>2, HeadListed
    <3> QED BY <1>1, <1>4, <3>1
  <2> QED BY <1>1, <1>3, <2>1, AddPartIs
<1> HIDE DEF g
<1>10. ListsBut(P, P2, m) /\ \A q \in Orders : P2[q] = IF q = o THEN P[o] \cup {m} ELSE P[q]
  <2>1. P \in [Orders -> SUBSET Mem]
    BY <1>1 DEF Apart
  <2> QED BY <1>1, <2>1, WithIs
<1>11. ListsBut(F, F2, m) /\ \A q \in Orders : F2[q] = IF q = o THEN F[o] \ {m} ELSE F[q]
  <2>1. F \in [Orders -> SUBSET Mem] /\ m \in Mem
    BY <1>1 DEF Apart
  <2>2. ListsBut(F, F2, m)
    BY <2>1, LessIs
  <2>3. \A q \in Orders : F2[q] = IF q = o THEN F[o] \ {m} ELSE F[q]
    BY <2>1, LessIs
  <2> QED BY <2>2, <2>3
<1> HIDE DEF P2, F2
<1>12. m \in P2[o]
  BY <1>10
<1>13. SameContent(h, g)
  BY <1>2, <1>8, SameContentTwice
<1>14. g.node[m].kind = "slab"
  BY <1>1, <1>13 DEF SameContent
<1>15. SlabList(g, g.part[o], P2[o])
  BY <1>8, <1>12, <1>14, SlabPart
<1>16. OtherCaches(h, P, F, g, P2, F2, o)
  <2>1. h.part \in [Orders -> Link]
    BY <1>1 DEF Heap
  <2>2. \A q \in Orders \ {o} : g.part[q] = h.part[q]
    BY <1>2, <1>9, <2>1
  <2> QED BY <1>10, <1>11, <2>2 DEF OtherCaches
<1>17. InPart(h, P, F, o, m, g, P2, F2)
  BY <1>8, <1>10, <1>11, <1>12, <1>13, <1>15, <1>16 DEF InPart
<1> QED BY <1>17 DEF g, k, P2, F2

\* A slab without objects is given back.
Dropped(h, P, F, o, m, g, P2, F2) ==
    /\ Lists(g, P2, F2)
    /\ SameBut(h, g, m) /\ g.node[m] = Unused
    /\ m \notin Listed(P2, F2)
    /\ ListsBut(P, P2, m) /\ ListsBut(F, F2, m)
    /\ OtherCaches(h, P, F, g, P2, F2, o)

LEMMA UnusedNode == Unused \in Node
<1>1. <<>> \in Arrays
  <2>1. <<>> \in [0 .. 0 - 1 -> Nat]
    OBVIOUS
  <2> QED BY <2>1 DEF Arrays
<1>2. NoObject \in Object
  BY DEF NoObject, Object, Link
<1> QED BY <1>1, <1>2 DEF Unused, Node, Kinds, Link

LEMMA DropEmpty ==
    ASSUME NEW h, NEW P, NEW F, Lists(h, P, F), NEW o \in Orders, NEW m \in P[o], SlabList(h, h.part[o], P[o])
    PROVE  Dropped(h, P, F, o, m, [remove_slab_from_list(h, "part", o, m) EXCEPT !.node[m] = Unused],
                   Less(P, o, m), F)
<1> DEFINE k == remove_slab_from_list(h, "part", o, m)
           g == [k EXCEPT !.node[m] = Unused]
           P2 == Less(P, o, m)
<1>1. Null \notin Mem /\ h \in Heap /\ Apart(P, F) /\ m \in Mem
  BY Facts DEF Lists, Apart
<1>2. Lists(k, P2, F) /\ SameContent(h, k)
  BY <1>1, RemovePartLists
<1>3. k.part = [h.part EXCEPT ![o] = HeadWithout(h, h.part[o], m)] /\ k \in Heap
  BY <1>1, RemovePartIs
<1> HIDE DEF k
<1>4. m \notin Listed(P2, F)
  BY <1>1, InOneList
<1>5. Written(k, g, m, Unused)
  BY <1>1, <1>3, UnusedNode, WriteNode
<1>6. g.node[m] = Unused /\ (\A x \in Mem \ {m} : g.node[x] = k.node[x]) /\ SameBut(k, g, m)
  BY <1>1, <1>3, <1>5, WrittenIs
<1>7. g \in Heap /\ g.part = k.part /\ g.full = k.full
  BY <1>5 DEF Written
<1> HIDE DEF g
<1>8. Listed(P2, F) \subseteq Mem
  BY <1>2, ListedKind
<1>9. SameNodes(k, g, Listed(P2, F))
  BY <1>4, <1>6, <1>8 DEF SameNodes
<1>10. Lists(g, P2, F)
  BY <1>1, <1>2, <1>7, <1>9, ListsFrame
<1>11. SameBut(h, g, m)
  BY <1>2, <1>6 DEF SameBut, SameContent
<1>12. ListsBut(P, P2, m) /\ \A q \in Orders : P2[q] = IF q = o THEN P[o] \ {m} ELSE P[q]
  <2>1. P \in [Orders -> SUBSET Mem] /\ m \in Mem
    BY <1>1 DEF Apart
  <2>2. ListsBut(P, P2, m)
    BY <2>1, LessIs
  <2>3. \A q \in Orders : P2[q] = IF q = o THEN P[o] \ {m} ELSE P[q]
    BY <2>1, LessIs
  <2> QED BY <2>2, <2>3
<1> HIDE DEF P2
<1>13. OtherCaches(h, P, F, g, P2, F, o)
  <2>1. h.part \in [Orders -> Link]
    BY <1>1 DEF Heap
  <2>2. \A q \in Orders \ {o} : g.part[q] = h.part[q]
    BY <1>3, <1>7, <2>1
  <2> QED BY <1>12, <2>2 DEF OtherCaches
<1>14. ListsBut(F, F, m)
  BY DEF ListsBut
<1>15. Dropped(h, P, F, o, m, g, P2, F)
  BY <1>4, <1>6, <1>10, <1>11, <1>12, <1>13, <1>14 DEF Dropped
<1> QED BY <1>15 DEF g, k, P2

\* An object of m, in the cache o, is free again.
Freed(h, P, F, U, o, m, i, g) ==
    \E P2, F2 :
        /\ Sound(g, P2, F2, U \ {<<m, i>>})
        /\ ListsBut(P, P2, m) /\ ListsBut(F, F2, m)
        /\ OtherCaches(h, P, F, g, P2, F2, o)
        /\ SameBut(h, g, m)
        /\ IF h.node[m].allocated = 1 THEN g.node[m] = Unused
           ELSE /\ g.node[m].kind = "slab" /\ g.node[m].desc = h.node[m].desc
                /\ g.node[m].allocated >= 1 /\ m \in P2[o] \cup F2[o]

LEMMA FreeObjectSound ==
    ASSUME NEW h, NEW P, NEW F, NEW U, Sound(h, P, F, U), NEW o \in Orders, NEW m \in P[o] \cup F[o],
           h.node[m].kind = "slab", NEW i \in Nat, <<m, i>> \in U,
           m \in F[o] => SlabList(h, h.part[o], P[o])
    PROVE  Freed(h, P, F, U, o, m, i, FreeObject(h, o, m, i))
<1> DEFINE s == h.node[m]
           n == Count[o]
           V == U \ {<<m, i>>}
           u == Used(U, m)
           a == [s.free EXCEPT ![i] = s.next_free]
           t1 == [s EXCEPT !.free = a, !.next_free = i]
           h1 == [h EXCEPT !.node[m].free[i] = s.next_free, !.node[m].next_free = i]
           h2 == IF s.allocated = n THEN AddPart(remove_slab_from_list(h1, "full", o, m), o, m) ELSE h1
           h3 == [h2 EXCEPT !.node[m].allocated = @ - 1]
           h4 == [remove_slab_from_list(h3, "part", o, m) EXCEPT !.node[m] = Unused]
<1>1. Lists(h, P, F) /\ Content(h, P, F, U) /\ Members(h, P, F, U) /\ h \in Heap /\ Apart(P, F)
      /\ Null \notin Mem /\ n \in Nat \ {0}
  BY Facts DEF Sound, Lists
<1>2. m \in Mem /\ s \in Node /\ s.kind = "slab"
  BY <1>1 DEF Apart, Heap
<1>3. FreeObject(h, o, m, i) = IF s.allocated = 1 THEN h4 ELSE h3
  BY DEF FreeObject
<1>4. SlabOK(s, n, u) /\ (m \in P[o] => s.allocated < n) /\ (m \in F[o] => s.allocated = n)
  BY <1>1, <1>2 DEF Content, PartlyUsed, FullyUsed
<1>5. i \in u /\ u \subseteq 0 .. n - 1 /\ s.free \in [0 .. n - 1 -> Nat] /\ s.next_free \in Nat
      /\ s.allocated \in 0 .. n
  BY <1>4 DEF SlabOK, Used
<1>6. a \in [0 .. n - 1 -> Nat] /\ a \in Arrays
  <2>1. a \in [0 .. n - 1 -> Nat]
    BY <1>5
  <2> QED BY <1>1, <2>1 DEF Arrays
<1>7. h1 = [h EXCEPT !.node[m] = t1]
  BY <1>1, <1>2 DEF Heap, Node
<1> HIDE DEF a
<1>8. t1 \in Node /\ t1.free = a /\ t1.next_free = i /\ t1.allocated = s.allocated /\ t1.kind = "slab"
      /\ t1.desc = s.desc /\ t1.next = s.next /\ t1.prev = s.prev
  BY <1>2, <1>6 DEF Node
<1> HIDE DEF t1, h1
<1>9. Written(h, h1, m, t1)
  BY <1>1, <1>2, <1>7, <1>8, WriteNode
<1>10. h1.node[m] = t1 /\ (\A x \in Mem \ {m} : h1.node[x] = h.node[x]) /\ SameBut(h, h1, m)
  BY <1>1, <1>2, <1>9, WrittenIs
<1>11. h1 \in Heap /\ h1.part = h.part /\ h1.full = h.full
  BY <1>9 DEF Written
<1>12. SameNodes(h, h1, Mem)
  BY <1>2, <1>8, <1>10 DEF SameNodes
<1>13. Lists(h1, P, F) /\ (SlabList(h, h.part[o], P[o]) => SlabList(h1, h1.part[o], P[o]))
  <2>1. SameNodes(h, h1, Listed(P, F)) /\ SameNodes(h, h1, P[o])
    BY <1>1, <1>12 DEF SameNodes, Listed, Apart
  <2> QED BY <1>1, <1>11, <2>1, ListsFrame, SlabListFrame
<1>14. \E P2, F2 : InPart(h1, P, F, o, m, h2, P2, F2)
  <2>1. CASE s.allocated = n
    <3>1. m \in F[o]
      BY <1>4, <1>5, <2>1
    <3>2. SlabList(h1, h1.part[o], P[o])
      BY <1>13, <3>1
    <3>3. InPart(h1, P, F, o, m, h2, With(P, o, m), Less(F, o, m))
      BY <1>13, <2>1, <3>1, <3>2, Relinked
    <3> QED BY <3>3
  <2>2. CASE s.allocated # n
    <3>1. m \in P[o]
      BY <1>4, <2>2
    <3>2. SlabList(h, h.part[o], P[o])
      BY <1>1, <1>2, <3>1, SlabPart
    <3>3. h2 = h1
      BY <2>2
    <3>4. InPart(h1, P, F, o, m, h1, P, F)
      BY <1>13, <3>1, <3>2 DEF InPart, SameContent, ListsBut, OtherCaches
    <3> QED BY <3>3, <3>4
  <2> QED BY <2>1, <2>2
<1>15. PICK P2, F2 : InPart(h1, P, F, o, m, h2, P2, F2)
  BY <1>14
<1>16. Lists(h2, P2, F2) /\ SlabList(h2, h2.part[o], P2[o]) /\ SameContent(h1, h2) /\ m \in P2[o]
       /\ ListsBut(P, P2, m) /\ ListsBut(F, F2, m) /\ OtherCaches(h1, P, F, h2, P2, F2, o) /\ h2 \in Heap
  BY <1>15 DEF InPart, Lists
<1> HIDE DEF h2
<1> DEFINE s2 == h2.node[m]
           t3 == [s2 EXCEPT !.allocated = s.allocated - 1]
<1>17. s2 \in Node /\ s2.kind = "slab" /\ s2.desc = s.desc /\ s2.free = a /\ s2.next_free = i
       /\ s2.allocated = s.allocated
  BY <1>2, <1>8, <1>10, <1>16 DEF SameContent, Heap
<1>18. s.allocated >= 1
  <2> DEFINE t == [allocated |-> s.allocated - 1, next_free |-> i, free |-> [s.free EXCEPT ![i] = s.next_free]]
  <2>1. t.allocated = s.allocated - 1 /\ t.next_free = i /\ t.free = [s.free EXCEPT ![i] = s.next_free]
    OBVIOUS
  <2> HIDE DEF t, u, s
  <2> QED BY <1>1, <1>4, <1>5, <2>1, FreeSlabOK
<1>19. s.allocated - 1 \in Nat
  BY <1>5, <1>18
<1>20. t3 \in Node /\ t3.kind = "slab" /\ t3.desc = s.desc /\ t3.free = a /\ t3.next_free = i
       /\ t3.allocated = s.allocated - 1 /\ t3.next = s2.next /\ t3.prev = s2.prev
  BY <1>17, <1>19 DEF Node
<1>21. h3 = [h2 EXCEPT !.node[m] = t3]
  BY <1>2, <1>16, <1>17 DEF Heap, Node
<1> HIDE DEF t3, h3
<1>22. Written(h2, h3, m, t3)
  BY <1>2, <1>16, <1>20, <1>21, WriteNode
<1>23. h3.node[m] = t3 /\ (\A x \in Mem \ {m} : h3.node[x] = h2.node[x]) /\ SameBut(h2, h3, m)
  BY <1>2, <1>16, <1>22, WrittenIs
<1>24. h3 \in Heap /\ h3.part = h2.part /\ h3.full = h2.full
  BY <1>22 DEF Written
<1>25. SameNodes(h2, h3, Mem)
  BY <1>17, <1>20, <1>23 DEF SameNodes
<1>26. Lists(h3, P2, F2) /\ SlabList(h3, h3.part[o], P2[o]) /\ Apart(P2, F2)
  <2>1. SameNodes(h2, h3, Listed(P2, F2)) /\ SameNodes(h2, h3, P2[o]) /\ Apart(P2, F2)
    BY <1>16, <1>25 DEF SameNodes, Listed, Apart, Lists
  <2> QED BY <1>1, <1>16, <1>24, <2>1, ListsFrame, SlabListFrame
<1>27. SameBut(h, h3, m)
  BY <1>10, <1>16, <1>23 DEF SameBut, SameContent
<1>28. SlabOK(h3.node[m], n, u \ {i})
  <2>1. h3.node[m].allocated = s.allocated - 1 /\ h3.node[m].next_free = i
        /\ h3.node[m].free = [s.free EXCEPT ![i] = s.next_free]
    BY <1>20, <1>23 DEF a
  <2> HIDE DEF u, s
  <2> QED BY <1>1, <1>4, <1>5, <2>1, FreeSlabOK
<1>29. Used(V, m) = u \ {i} /\ ObjectsBut(U, V, m) /\ V \subseteq Mem \X Nat
  BY <1>1, <1>2 DEF Used, ObjectsBut, Members
<1>30. \A q \in Orders \ {o} : h3.part[q] = h.part[q]
  BY <1>11, <1>16, <1>24 DEF OtherCaches
<1>31. OtherCaches(h, P, F, h3, P2, F2, o)
  BY <1>16, <1>30 DEF OtherCaches
<1> HIDE DEF V, u
<1>32. CASE s.allocated # 1
  <2>1. FreeObject(h, o, m, i) = h3
    BY <1>3, <1>32
  <2>2. h3.node[m].allocated >= 1 /\ h3.node[m].allocated < n /\ h3.node[m].kind = "slab" /\ h3.node[m].desc = s.desc
    BY <1>1, <1>5, <1>18, <1>20, <1>23, <1>32
  <2>3. (\A q \in Orders : m \in P2[q] => q = o) /\ (\A q \in Orders : m \notin F2[q])
    BY <1>16, <1>26, InOneList
  <2>4. PartlyOK(h3, V, m, P2) /\ FullyOK(h3, V, m, F2)
    BY <1>28, <1>29, <2>2, <2>3 DEF PartlyOK, FullyOK, PartlyUsed
  <2>5. Content(h3, P2, F2, V)
    BY <1>1, <1>2, <1>16, <1>26, <1>27, <1>29, <2>4, ContentBut
  <2>6. m \in Listed(P2, F2)
    BY <1>16 DEF Listed
  <2>7. Members(h3, P2, F2, V)
    BY <1>1, <1>2, <1>16, <1>27, <1>29, <2>2, <2>6, MembersBut
  <2>8. Sound(h3, P2, F2, V)
    BY <1>26, <2>5, <2>7 DEF Sound
  <2>9. IF h.node[m].allocated = 1 THEN h3.node[m] = Unused
        ELSE /\ h3.node[m].kind = "slab" /\ h3.node[m].desc = h.node[m].desc
             /\ h3.node[m].allocated >= 1 /\ m \in P2[o] \cup F2[o]
    BY <1>16, <1>32, <2>2
  <2> QED BY <1>16, <1>27, <1>31, <2>1, <2>8, <2>9 DEF Freed, V
<1>33. CASE s.allocated = 1
  <2> DEFINE P3 == Less(P2, o, m)
  <2>1. FreeObject(h, o, m, i) = h4
    BY <1>3, <1>33
  <2>2. Dropped(h3, P2, F2, o, m, h4, P3, F2)
    BY <1>16, <1>26, DropEmpty
  <2> HIDE DEF h4, P3
  <2>3. Lists(h4, P3, F2) /\ SameBut(h3, h4, m) /\ h4.node[m] = Unused /\ m \notin Listed(P3, F2)
        /\ ListsBut(P2, P3, m) /\ OtherCaches(h3, P2, F2, h4, P3, F2, o) /\ Apart(P3, F2)
    BY <2>2 DEF Dropped, Lists
  <2>4. SameBut(h, h4, m)
    BY <1>27, <2>3 DEF SameBut
  <2>5. ListsBut(P, P3, m)
    BY <1>16, <2>3 DEF ListsBut
  <2>6. OtherCaches(h, P, F, h4, P3, F2, o)
    BY <1>31, <2>3 DEF OtherCaches
  <2>7. \A q \in Orders : m \notin P3[q] /\ m \notin F2[q]
    BY <2>3 DEF Listed
  <2>8. PartlyOK(h4, V, m, P3) /\ FullyOK(h4, V, m, F2)
    BY <2>7 DEF PartlyOK, FullyOK
  <2>9. Content(h4, P3, F2, V)
    BY <1>1, <1>2, <1>16, <1>29, <2>3, <2>4, <2>5, <2>8, ContentBut
  <2>10. h4.node[m].kind = "unused"
    BY <2>3 DEF Unused
  <2>11. \A p \in V : p[1] # m
    <3>1. Cardinality(Used(V, m)) = 0 /\ Used(V, m) \subseteq 0 .. n - 1
      BY <1>20, <1>23, <1>28, <1>29, <1>33 DEF SlabOK
    <3>2. IsFiniteSet(0 .. n - 1)
      BY <1>1, FS_Interval
    <3>3. IsFiniteSet(Used(V, m))
      BY <3>1, <3>2, FS_Subset
    <3>4. Used(V, m) = {}
      BY <3>1, <3>3, FS_EmptySet
    <3>5. ASSUME NEW p \in V, p[1] = m PROVE FALSE
      <4>1. p \in Mem \X Nat
        BY <1>29
      <4>2. p[2] \in Nat /\ <<m, p[2]>> \in V
        BY <3>5, <4>1
      <4> QED BY <3>4, <4>2 DEF Used
    <3> QED BY <3>5
  <2>12. Members(h4, P3, F2, V)
    BY <1>1, <1>2, <1>16, <1>29, <2>4, <2>5, <2>10, <2>11, MembersBut
  <2>13. Sound(h4, P3, F2, V)
    BY <2>3, <2>9, <2>12 DEF Sound
  <2>14. IF h.node[m].allocated = 1 THEN h4.node[m] = Unused
         ELSE /\ h4.node[m].kind = "slab" /\ h4.node[m].desc = h.node[m].desc
              /\ h4.node[m].allocated >= 1 /\ m \in P3[o] \cup F2[o]
    BY <1>33, <2>3
  <2> QED BY <1>16, <2>1, <2>4, <2>5, <2>6, <2>13, <2>14 DEF Freed, V
<1> QED BY <1>32, <1>33

-----------------------------------------------------------------------------
(* Page allocations.                                                       *)

\* Whether the shared list is one of slabs or one of page allocations.
LEMMA SharedSlabs ==
    ASSUME NEW h, NEW P, NEW F, Lists(h, P, F), ~SharedHeadIs(h, "pages")
    PROVE  SlabList(h, h.part[CACHE_END_ORDER], P[CACHE_END_ORDER])
<1> DEFINE o == CACHE_END_ORDER
           S == P[o]
<1>1. o \in Orders /\ (SlabList(h, h.part[o], S) \/ PageList(h, h.part[o], S))
  BY Facts DEF Lists
<1>2. CASE PageList(h, h.part[o], S)
  <2>1. IsList(h, h.part[o], S)
    BY <1>2 DEF PageList
  <2>2. h.part[o] = Null
    BY <1>2, <2>1 DEF PageList, IsList, SharedHeadIs, page_allocation_list
  <2>3. S = {}
    BY <2>1, <2>2 DEF IsList
  <2> HIDE DEF S
  <2> QED BY <2>1, <2>2, <2>3 DEF SlabList, BackLinks, S
<1> QED BY <1>1, <1>2

LEMMA SharedPages ==
    ASSUME NEW h, NEW P, NEW F, Lists(h, P, F), ~SharedHeadIs(h, "slab")
    PROVE  PageList(h, h.part[CACHE_END_ORDER], P[CACHE_END_ORDER])
<1> DEFINE o == CACHE_END_ORDER
           S == P[o]
<1>1. o \in Orders /\ (SlabList(h, h.part[o], S) \/ PageList(h, h.part[o], S))
  BY Facts DEF Lists
<1>2. CASE SlabList(h, h.part[o], S)
  <2>1. IsList(h, h.part[o], S)
    BY <1>2 DEF SlabList
  <2>2. h.part[o] = Null
    BY <1>2, <2>1 DEF SlabList, IsList, SharedHeadIs, page_allocation_list
  <2>3. S = {}
    BY <2>1, <2>2 DEF IsList
  <2> HIDE DEF S
  <2> QED BY <2>1, <2>2, <2>3 DEF PageList, Single, S
<1> QED BY <1>1, <1>2

\* A range is set aside for a slab or for pages.
LEMMA ReserveSound ==
    ASSUME NEW h, NEW P, NEW F, NEW U, Sound(h, P, F, U), NEW m \in UnusedMem(h)
    PROVE  LET g == Reserve(h, m)
           IN  /\ Sound(g, P, F, U) /\ SameBut(h, g, m) /\ m \in Mem
               /\ g.part = h.part /\ g.full = h.full
               /\ g.node[m].kind = "reserved" /\ g.node[m].desc = h.node[m].desc
               /\ \A o \in Orders : SlabList(h, h.part[o], P[o]) => SlabList(g, g.part[o], P[o])
<1> DEFINE s == h.node[m]
           t == [s EXCEPT !.kind = "reserved"]
           g == Reserve(h, m)
<1>1. Lists(h, P, F) /\ Content(h, P, F, U) /\ Members(h, P, F, U) /\ h \in Heap /\ Apart(P, F) /\ Null \notin Mem
  BY Facts DEF Sound, Lists
<1>2. m \in Mem /\ s.kind = "unused" /\ s \in Node
  BY <1>1 DEF UnusedMem, Heap
<1>3. t \in Node /\ t.kind = "reserved" /\ t.desc = s.desc
  BY <1>2 DEF Node
<1>4. g = [h EXCEPT !.node[m] = t]
  BY <1>1, <1>2 DEF Reserve, Heap, Node
<1> HIDE DEF t, g
<1>5. Written(h, g, m, t)
  BY <1>1, <1>2, <1>3, <1>4, WriteNode
<1>6. g.node[m] = t /\ (\A x \in Mem \ {m} : g.node[x] = h.node[x]) /\ SameBut(h, g, m)
  BY <1>1, <1>2, <1>5, WrittenIs
<1>7. g \in Heap /\ g.part = h.part /\ g.full = h.full
  BY <1>5 DEF Written
<1>8. m \notin Listed(P, F) /\ Listed(P, F) \subseteq Mem
  BY <1>1, <1>2, ListedKind
<1>9. SameNodes(h, g, Listed(P, F))
  BY <1>6, <1>8 DEF SameNodes
<1>10. Lists(g, P, F)
  BY <1>1, <1>7, <1>9, ListsFrame
<1>11. \A o \in Orders : SlabList(h, h.part[o], P[o]) => SlabList(g, g.part[o], P[o])
  <2> SUFFICES ASSUME NEW o \in Orders, SlabList(h, h.part[o], P[o]) PROVE SlabList(g, g.part[o], P[o])
    OBVIOUS
  <2>1. SameNodes(h, g, P[o])
    BY <1>9 DEF SameNodes, Listed
  <2> QED BY <1>1, <1>7, <2>1, SlabListFrame
<1>12. ListsBut(P, P, m) /\ ListsBut(F, F, m) /\ ObjectsBut(U, U, m) /\ U \subseteq Mem \X Nat
  BY <1>1 DEF ListsBut, ObjectsBut, Members
<1>13. PartlyOK(g, U, m, P) /\ FullyOK(g, U, m, F)
  BY <1>8 DEF PartlyOK, FullyOK, Listed
<1>14. Content(g, P, F, U)
  BY <1>1, <1>2, <1>6, <1>12, <1>13, ContentBut
<1>15. \A p \in U : p[1] # m
  BY <1>1, <1>2 DEF Members
<1>16. Members(g, P, F, U)
  BY <1>1, <1>2, <1>3, <1>6, <1>12, <1>15, MembersBut
<1>17. Sound(g, P, F, U)
  BY <1>10, <1>14, <1>16 DEF Sound
<1> QED BY <1>2, <1>3, <1>6, <1>7, <1>11, <1>17 DEF g

\* The shared list changes.
LEMMA SharedList ==
    ASSUME NEW h, NEW P, NEW F, NEW U, Sound(h, P, F, U), NEW g \in Heap, NEW Q, NEW m \in Mem,
           Apart(Q, F), ListsBut(P, Q, m),
           h.node[m].kind # "slab", g.node[m].kind # "slab",
           g.full = h.full, SameBut(h, g, m),
           \A q \in Orders \ {CACHE_END_ORDER} : Q[q] = P[q] /\ g.part[q] = h.part[q],
           \A x \in Mem \ {m} : h.node[x].kind = "slab" => g.node[x] = h.node[x],
           PageList(g, g.part[CACHE_END_ORDER], Q[CACHE_END_ORDER]),
           g.node[m].kind = "pages" => m \in Q[CACHE_END_ORDER]
    PROVE  Sound(g, Q, F, U)
<1> DEFINE E == CACHE_END_ORDER
<1>1. Lists(h, P, F) /\ Content(h, P, F, U) /\ Members(h, P, F, U) /\ h \in Heap /\ Apart(P, F)
      /\ Null \notin Mem /\ E \in Orders
  BY Facts DEF Sound, Lists
<1>2. \A x \in Mem : h.node[x].kind = "slab" => g.node[x] = h.node[x]
  OBVIOUS
<1>3. \A q \in Orders : SlabList(g, g.full[q], F[q])
  <2> SUFFICES ASSUME NEW q \in Orders PROVE SlabList(g, g.full[q], F[q])
    OBVIOUS
  <2>1. SlabList(h, h.full[q], F[q]) /\ F[q] \subseteq Mem
    BY <1>1 DEF Lists, Apart
  <2>2. SameNodes(h, g, F[q])
    BY <1>2, <2>1 DEF SameNodes, SlabList
  <2> QED BY <1>1, <2>1, <2>2, SlabListFrame
<1>4. ASSUME NEW q \in Orders
      PROVE  \/ SlabList(g, g.part[q], Q[q])
             \/ q = CACHE_END_ORDER /\ PageList(g, g.part[q], Q[q])
  <2>1. CASE q = CACHE_END_ORDER
    BY <2>1
  <2>2. CASE q # CACHE_END_ORDER
    <3>1. SlabList(h, h.part[q], P[q]) /\ P[q] \subseteq Mem
      BY <1>1, <2>2 DEF Lists, Apart
    <3>2. SameNodes(h, g, P[q])
      BY <1>2, <3>1 DEF SameNodes, SlabList
    <3>3. SlabList(g, h.part[q], P[q])
      BY <1>1, <3>1, <3>2, SlabListFrame
    <3> QED BY <2>2, <3>3
  <2> QED BY <2>1, <2>2
<1>5. Lists(g, Q, F)
  BY <1>3, <1>4 DEF Lists
<1>6. \A q \in Orders : m \notin F[q]
  BY <1>1 DEF Lists, SlabList
<1>7. PartlyOK(g, U, m, Q) /\ FullyOK(g, U, m, F)
  BY <1>6 DEF PartlyOK, FullyOK
<1>8. ListsBut(F, F, m) /\ ObjectsBut(U, U, m) /\ U \subseteq Mem \X Nat
  BY <1>1 DEF ListsBut, ObjectsBut, Members
<1>9. Content(g, Q, F, U)
  BY <1>1, <1>7, <1>8, ContentBut
<1>10. \A p \in U : p[1] # m
  BY <1>1 DEF Members
<1>11. g.node[m].kind \in {"slab", "pages"} => m \in Listed(Q, F)
  BY <1>1 DEF Listed
<1>12. Members(g, Q, F, U)
  BY <1>1, <1>8, <1>10, <1>11, MembersBut
<1> QED BY <1>5, <1>9, <1>12 DEF Sound

-----------------------------------------------------------------------------
(* The heap, the pointers callers hold and the descriptors.                *)

\* The objects in use when callers hold the pointers in H.
Objects(h, H) ==
    {p \in H : h.node[p[1]].kind = "slab"} \cup ({h.node[m].desc : m \in Mem} \ {NoObject})
Reserved(h) == {x \in Mem : h.node[x].kind = "reserved"}

\* Where descriptors are: none for a slab that holds its own, and no two in the same object.
Described(h, P, F) ==
    /\ \A x \in Mem : h.node[x].kind \notin {"slab", "pages"} => h.node[x].desc = NoObject
    /\ \A x \in Mem : h.node[x].kind = "pages" =>
           h.node[x].desc[1] \in P[PageAllocationOrder] \cup F[PageAllocationOrder]
    /\ \A o \in Orders : \A x \in P[o] \cup F[o] : h.node[x].kind = "slab" =>
           IF OnSlab(o) THEN h.node[x].desc = NoObject
           ELSE h.node[x].desc[1] \in P[SlabOrder] \cup F[SlabOrder]
    /\ \A x, y \in Mem : h.node[x].desc = h.node[y].desc /\ h.node[x].desc # NoObject => x = y

\* Callers hold objects of slabs and the whole of page allocations, and no descriptor.
HeldOK(h, H) ==
    /\ H \subseteq Mem \X Nat
    /\ \A p \in H : h.node[p[1]].kind = "slab" \/ (h.node[p[1]].kind = "pages" /\ p[2] = 0)
    /\ \A x \in Mem : h.node[x].kind = "pages" => <<x, 0>> \in H
    /\ \A x \in Mem : h.node[x].desc \notin H

Good(h, P, F, U, H, R) ==
    /\ Sound(h, P, F, U) /\ Busy(h) /\ Described(h, P, F) /\ HeldOK(h, H)
    /\ Reserved(h) = R

\* The object e of the cache o is allocated, and nobody has it yet, or any more.
Extra(h, P, F, H, R, o, e) ==
    /\ e \in Mem \X Nat /\ e[1] \in P[o] \cup F[o] /\ h.node[e[1]].kind = "slab"
    /\ e \notin Objects(h, H)
    /\ Good(h, P, F, Objects(h, H) \cup {e}, H, R)

Top(h, H) == \E P, F : Good(h, P, F, Objects(h, H), H, {})

\* A caller gets the object.
LEMMA HoldOne ==
    ASSUME NEW h, NEW P, NEW F, NEW H, NEW o, NEW e, Extra(h, P, F, H, {}, o, e)
    PROVE  Top(h, H \cup {e})
<1>1. /\ e \in Mem \X Nat /\ h.node[e[1]].kind = "slab" /\ e \notin Objects(h, H)
      /\ Sound(h, P, F, Objects(h, H) \cup {e}) /\ Busy(h) /\ Described(h, P, F) /\ HeldOK(h, H)
      /\ Reserved(h) = {}
  BY DEF Extra, Good
<1>2. e # NoObject
  BY <1>1, Facts DEF NoObject
<1>3. \A x \in Mem : h.node[x].desc # e
  BY <1>1, <1>2 DEF Objects
<1>4. HeldOK(h, H \cup {e})
  <2>1. H \cup {e} \subseteq Mem \X Nat
    BY <1>1 DEF HeldOK
  <2>2. \A p \in H \cup {e} : h.node[p[1]].kind = "slab" \/ (h.node[p[1]].kind = "pages" /\ p[2] = 0)
    BY <1>1 DEF HeldOK
  <2>3. \A x \in Mem : h.node[x].kind = "pages" => <<x, 0>> \in H \cup {e}
    BY <1>1 DEF HeldOK
  <2>4. \A x \in Mem : h.node[x].desc \notin H \cup {e}
    BY <1>1, <1>3 DEF HeldOK
  <2> QED BY <2>1, <2>2, <2>3, <2>4 DEF HeldOK
<1>5. Objects(h, H \cup {e}) = Objects(h, H) \cup {e}
  BY <1>1 DEF Objects
<1>6. Good(h, P, F, Objects(h, H \cup {e}), H \cup {e}, {})
  BY <1>1, <1>4, <1>5 DEF Good
<1> QED BY <1>6 DEF Top

\* The order of a slab is the order of the lists it is in.
LEMMA OneOrder ==
    ASSUME NEW P, NEW F, Apart(P, F), NEW o \in Orders, NEW q \in Orders,
           NEW x, x \in P[o] \cup F[o], x \in P[q] \cup F[q]
    PROVE  o = q
BY DEF Apart

\* kalloc from a cache with a partly used slab, or whose slabs hold their own descriptor.
LEMMA GetOne ==
    ASSUME NEW h, NEW P, NEW F, NEW H, NEW R, Good(h, P, F, Objects(h, H), H, R), NEW o \in Orders,
           OnSlab(o) \/ h.part[o] # Null, SlabList(h, h.part[o], P[o]), NEW r \in KallocOnSlab(h, o)
    PROVE  \E P2, F2 : /\ Extra(r.heap, P2, F2, H, R, o, r.obj)
                       /\ Grew(h, P, F, r.heap, P2, F2, o)
<1> DEFINE U == Objects(h, H)
           g == r.heap
<1>1. Sound(h, P, F, U) /\ Busy(h) /\ Described(h, P, F) /\ HeldOK(h, H) /\ Reserved(h) = R
  BY DEF Good
<1>2. Lists(h, P, F) /\ Members(h, P, F, U) /\ h \in Heap /\ Apart(P, F)
  BY <1>1 DEF Sound, Lists
<1> HIDE DEF U
<1>3. Got(h, P, F, U, o, r)
  BY <1>1, KallocOnSlabSound
<1> HIDE DEF g
<1>4. PICK P2, F2 : /\ Sound(g, P2, F2, U \cup {r.obj})
                    /\ Grew(h, P, F, g, P2, F2, o)
                    /\ r.obj[1] \in P2[o] \cup F2[o]
  BY <1>3 DEF Got, g
<1>5. r.obj \in Mem \X Nat /\ r.obj \notin U /\ Busy(g)
  BY <1>1, <1>3 DEF Got, g
<1>6. Lists(g, P2, F2) /\ Members(g, P2, F2, U \cup {r.obj}) /\ g \in Heap /\ Apart(P2, F2)
  BY <1>4 DEF Sound, Lists
<1>7. g.node[r.obj[1]].kind = "slab"
  BY <1>6 DEF Members
<1>8. \A x \in Mem : \/ g.node[x].kind = h.node[x].kind /\ g.node[x].desc = h.node[x].desc
                     \/ h.node[x].kind = "unused" /\ g.node[x].kind = "slab" /\ g.node[x].desc = NoObject
  BY <1>4 DEF Grew, Kept, NewIn
<1>9. \A x \in Mem : g.node[x].desc = h.node[x].desc
  BY <1>1, <1>8 DEF Described
<1>10. \A p \in H : p[1] \in Mem /\ h.node[p[1]].kind \in {"slab", "pages"}
  BY <1>1 DEF HeldOK
<1>11. \A p \in H : g.node[p[1]].kind = h.node[p[1]].kind
  BY <1>8, <1>10
<1>12. Objects(g, H) = U
  BY <1>9, <1>11 DEF Objects, U
<1>13. HeldOK(g, H)
  <2>1. \A x \in Mem : g.node[x].kind = "pages" => h.node[x].kind = "pages"
    BY <1>8
  <2> QED BY <1>1, <1>9, <1>11, <2>1 DEF HeldOK
<1>14. Reserved(g) = R
  BY <1>1, <1>8 DEF Reserved
<1>15. \A q \in Orders : P[q] \cup F[q] \subseteq P2[q] \cup F2[q]
  BY <1>4 DEF Grew
<1>16. ASSUME NEW q \in Orders, NEW x \in P2[q] \cup F2[q], g.node[x].kind = "slab"
       PROVE  IF OnSlab(q) THEN g.node[x].desc = NoObject
              ELSE g.node[x].desc[1] \in P2[SlabOrder] \cup F2[SlabOrder]
  <2>1. x \in Mem
    BY <1>6 DEF Apart
  <2>2. CASE x \in P[q] \cup F[q]
    <3>1. h.node[x].kind = "slab"
      <4>1. h.node[x].kind \in {"slab", "pages"}
        BY <1>2, <2>2, ListedKind DEF Listed
      <4> QED BY <1>8, <1>16, <2>1, <4>1
    <3>2. IF OnSlab(q) THEN h.node[x].desc = NoObject
          ELSE h.node[x].desc[1] \in P[SlabOrder] \cup F[SlabOrder]
      BY <1>1, <2>2, <3>1 DEF Described
    <3> QED BY <1>9, <1>15, <2>1, <3>2, Facts
  <2>3. CASE x \notin P[q] \cup F[q]
    <3>1. q = o
      BY <1>4, <1>16, <2>3 DEF Grew, OtherCaches
    <3>2. NewIn(h, g, P2, F2, o, x)
      BY <1>4, <1>16, <2>1, <2>3, <3>1 DEF Grew, Kept
    <3> QED BY <3>1, <3>2 DEF NewIn
  <2> QED BY <2>2, <2>3
<1>17. Described(g, P2, F2)
  <2>1. \A x \in Mem : g.node[x].kind \notin {"slab", "pages"} => g.node[x].desc = NoObject
    BY <1>1, <1>8 DEF Described
  <2>2. \A x \in Mem : g.node[x].kind = "pages" =>
           g.node[x].desc[1] \in P2[PageAllocationOrder] \cup F2[PageAllocationOrder]
    BY <1>1, <1>8, <1>15, Facts DEF Described
  <2>3. \A x, y \in Mem : g.node[x].desc = g.node[y].desc /\ g.node[x].desc # NoObject => x = y
    BY <1>1, <1>9 DEF Described
  <2> QED BY <1>16, <2>1, <2>2, <2>3 DEF Described
<1>18. Extra(g, P2, F2, H, R, o, r.obj)
  BY <1>4, <1>5, <1>7, <1>12, <1>13, <1>14, <1>17 DEF Extra, Good
<1> QED BY <1>4, <1>18 DEF g

\* What is left once an object is free: nothing, or the descriptor of its slab.
FreedOne(h, H, o, e, g) ==
    IF h.node[e[1]].allocated = 1 /\ h.node[e[1]].desc # NoObject
    THEN \E P2, F2 : Extra(g, P2, F2, H, {}, SlabOrder, h.node[e[1]].desc)
    ELSE Top(g, H)

\* The descriptor of a slab, if it has one, is an object of the heap.
LEMMA DescriptorOf ==
    ASSUME NEW h, NEW P, NEW F, NEW H, NEW U, NEW R, Good(h, P, F, U, H, R), NEW x \in Mem,
           h.node[x].desc # NoObject
    PROVE  /\ h.node[x].desc \in Mem \X Nat /\ h.node[x].desc \in Objects(h, H)
           /\ h.node[x].desc \notin H
           /\ h.node[x].kind \in {"slab", "pages"}
<1>1. Sound(h, P, F, U) /\ Described(h, P, F) /\ HeldOK(h, H)
  BY DEF Good
<1>2. Lists(h, P, F) /\ Members(h, P, F, U) /\ h \in Heap /\ Apart(P, F)
  BY <1>1 DEF Sound, Lists
<1>3. h.node[x].desc \in Link \X Nat
  BY <1>2 DEF Heap, Node, Object
<1>4. h.node[x].kind \in {"slab", "pages"}
  BY <1>1 DEF Described
<1>5. h.node[x].desc[1] \in Mem
  <2>1. CASE h.node[x].kind = "pages"
    BY <1>1, <1>2, <2>1, Facts DEF Described, Apart
  <2>2. CASE h.node[x].kind = "slab"
    <3>1. x \in Listed(P, F)
      BY <1>2, <2>2 DEF Members
    <3>2. PICK q \in Orders : x \in P[q] \cup F[q]
      BY <3>1 DEF Listed
    <3>3. h.node[x].desc[1] \in P[SlabOrder] \cup F[SlabOrder]
      BY <1>1, <2>2, <3>2 DEF Described
    <3> QED BY <1>2, <3>3, Facts DEF Apart
  <2> QED BY <1>4, <2>1, <2>2
<1> QED BY <1>1, <1>3, <1>4, <1>5 DEF Objects, HeldOK

LEMMA FreeOne ==
    ASSUME NEW h, NEW P, NEW F, NEW H, NEW o \in Orders, NEW e, Extra(h, P, F, H, {}, o, e),
           e[1] \in F[o] => SlabList(h, h.part[o], P[o])
    PROVE  FreedOne(h, H, o, e, FreeObject(h, o, e[1], e[2]))
<1> DEFINE m == e[1]
           d == h.node[m].desc
           g == FreeObject(h, o, e[1], e[2])
           V == Objects(h, H)
<1>1. /\ e \in Mem \X Nat /\ m \in P[o] \cup F[o] /\ h.node[m].kind = "slab" /\ e \notin V
      /\ Good(h, P, F, V \cup {e}, H, {})
  BY DEF Extra
<1>2. Sound(h, P, F, V \cup {e}) /\ Busy(h) /\ Described(h, P, F) /\ HeldOK(h, H) /\ Reserved(h) = {}
  BY <1>1 DEF Good
<1>3. Lists(h, P, F) /\ Members(h, P, F, V \cup {e}) /\ h \in Heap /\ Apart(P, F)
  BY <1>2 DEF Sound, Lists
<1>4. e[2] \in Nat /\ e = <<m, e[2]>> /\ m \in Mem
  BY <1>1
<1> HIDE DEF V
<1>5. (V \cup {e}) \ {<<m, e[2]>>} = V /\ <<m, e[2]>> \in V \cup {e}
  BY <1>1, <1>4
<1>6. Freed(h, P, F, V \cup {e}, o, m, e[2], g)
  BY <1>1, <1>2, <1>4, <1>5, FreeObjectSound
<1> HIDE DEF g, m
<1>7. PICK P2, F2 :
        /\ Sound(g, P2, F2, V)
        /\ ListsBut(P, P2, m) /\ ListsBut(F, F2, m)
        /\ OtherCaches(h, P, F, g, P2, F2, o)
        /\ SameBut(h, g, m)
        /\ IF h.node[m].allocated = 1 THEN g.node[m] = Unused
           ELSE /\ g.node[m].kind = "slab" /\ g.node[m].desc = h.node[m].desc
                /\ g.node[m].allocated >= 1 /\ m \in P2[o] \cup F2[o]
  BY <1>5, <1>6 DEF Freed
<1>8. Lists(g, P2, F2) /\ Members(g, P2, F2, V) /\ g \in Heap /\ Apart(P2, F2)
  BY <1>7 DEF Sound, Lists
<1>9. \A x \in Mem \ {m} : g.node[x].kind = h.node[x].kind /\ g.node[x].desc = h.node[x].desc
                           /\ g.node[x].allocated = h.node[x].allocated
  BY <1>7 DEF SameBut
<1>10. \A q \in Orders : \A x \in Mem \ {m} : x \in P2[q] \cup F2[q] <=> x \in P[q] \cup F[q]
  BY <1>7 DEF ListsBut
<1>12. CASE h.node[m].allocated # 1
  <2>1. g.node[m].kind = "slab" /\ g.node[m].desc = h.node[m].desc
        /\ g.node[m].allocated >= 1 /\ m \in P2[o] \cup F2[o]
    BY <1>7, <1>12
  <2>2. \A x \in Mem : g.node[x].kind = h.node[x].kind /\ g.node[x].desc = h.node[x].desc
    BY <1>1, <1>9, <2>1 DEF m
  <2>3. Objects(g, H) = V /\ HeldOK(g, H) /\ Reserved(g) = {}
    <3>1. \A p \in H : p[1] \in Mem
      BY <1>2 DEF HeldOK
    <3>2. Objects(g, H) = V
      BY <2>2, <3>1 DEF Objects, V
    <3>3. HeldOK(g, H)
      BY <1>2, <2>2, <3>1 DEF HeldOK
    <3> QED BY <1>2, <2>2, <3>2, <3>3 DEF Reserved
  <2>4. Busy(g)
    BY <1>2, <1>9, <2>1 DEF Busy
  <2>5. \A q \in Orders : P2[q] \cup F2[q] = P[q] \cup F[q]
    <3> SUFFICES ASSUME NEW q \in Orders PROVE P2[q] \cup F2[q] = P[q] \cup F[q]
      OBVIOUS
    <3>1. P2[q] \cup F2[q] \subseteq Mem /\ P[q] \cup F[q] \subseteq Mem
      BY <1>3, <1>8 DEF Apart
    <3>2. m \in P2[q] \cup F2[q] <=> m \in P[q] \cup F[q]
      BY <1>1, <1>7, <2>1 DEF OtherCaches, m
    <3> QED BY <1>10, <3>1, <3>2
  <2>6. Described(g, P2, F2)
    <3>1. \A q \in Orders : \A x \in P2[q] \cup F2[q] : x \in Mem
      BY <1>8 DEF Apart
    <3> QED BY <1>2, <2>2, <2>5, <3>1, Facts DEF Described
  <2>7. Good(g, P2, F2, Objects(g, H), H, {})
    BY <1>7, <2>3, <2>4, <2>6 DEF Good
  <2>8. Top(g, H)
    BY <2>7 DEF Top
  <2> QED BY <1>12, <2>8 DEF FreedOne, g, m
<1>13. CASE h.node[m].allocated = 1
  <2>1. g.node[m].kind = "unused" /\ g.node[m].desc = NoObject
    BY <1>7, <1>13 DEF Unused
  <2>2. \A p \in V : p[1] # m
    BY <1>8, <2>1 DEF Members
  <2>3. \A p \in H : p[1] \in Mem \ {m}
    <3> SUFFICES ASSUME NEW p \in H, p[1] = m PROVE FALSE
      BY <1>2 DEF HeldOK
    <3>1. p \in V
      BY <1>1 DEF V, Objects, m
    <3> QED BY <2>2, <3>1
  <2>4. \A x \in Mem : h.node[x].desc # NoObject => h.node[x].desc \in V /\ h.node[x].desc \notin H
    BY <1>1, DescriptorOf DEF V
  <2>5. HeldOK(g, H)
    <3>1. NoObject \notin H
      BY <1>2, Facts DEF HeldOK, NoObject
    <3>2. \A p \in H : g.node[p[1]].kind = h.node[p[1]].kind
      BY <1>9, <2>3
    <3>3. \A x \in Mem : g.node[x].kind = "pages" => <<x, 0>> \in H
      BY <1>2, <1>9, <2>1 DEF HeldOK
    <3>4. \A x \in Mem : g.node[x].desc \notin H
      BY <1>2, <1>9, <2>1, <3>1 DEF HeldOK
    <3> QED BY <1>2, <3>2, <3>3, <3>4 DEF HeldOK
  <2>6. Reserved(g) = {}
    BY <1>2, <1>9, <2>1 DEF Reserved
  <2>7. Busy(g)
    BY <1>2, <1>9, <2>1 DEF Busy
  <2>8. Described(g, P2, F2)
    <3>1. \A x \in Mem : g.node[x].kind \notin {"slab", "pages"} => g.node[x].desc = NoObject
      BY <1>2, <1>9, <2>1 DEF Described
    <3>2. \A x, y \in Mem : g.node[x].desc = g.node[y].desc /\ g.node[x].desc # NoObject => x = y
      BY <1>2, <1>9, <2>1 DEF Described
    <3>3. ASSUME NEW x \in Mem, NEW q \in Orders, h.node[x].desc[1] \in P[q] \cup F[q], h.node[x].desc # NoObject
          PROVE  h.node[x].desc[1] \in P2[q] \cup F2[q]
      <4>1. h.node[x].desc[1] \in Mem \ {m}
        BY <1>3, <2>2, <2>4, <3>3 DEF Apart
      <4> QED BY <1>10, <3>3, <4>1
    <3>5. ASSUME NEW x \in Mem, NEW q \in Orders, h.node[x].desc[1] \in P[q] \cup F[q]
          PROVE  h.node[x].desc # NoObject
      <4>1. h.node[x].desc[1] \in Mem
        BY <1>3, <3>5 DEF Apart
      <4> QED BY <4>1, Facts DEF NoObject
    <3>6. ASSUME NEW x \in Mem, g.node[x].kind = "pages"
          PROVE  g.node[x].desc[1] \in P2[PageAllocationOrder] \cup F2[PageAllocationOrder]
      <4>1. x \in Mem \ {m} /\ h.node[x].kind = "pages" /\ g.node[x].desc = h.node[x].desc
        BY <1>9, <2>1, <3>6
      <4>2. h.node[x].desc[1] \in P[PageAllocationOrder] \cup F[PageAllocationOrder]
        BY <1>2, <4>1 DEF Described
      <4> QED BY <3>3, <3>5, <4>1, <4>2, Facts
    <3>7. ASSUME NEW q \in Orders, NEW x \in P2[q] \cup F2[q], g.node[x].kind = "slab"
          PROVE  IF OnSlab(q) THEN g.node[x].desc = NoObject
                 ELSE g.node[x].desc[1] \in P2[SlabOrder] \cup F2[SlabOrder]
      <4>1. x \in Mem
        BY <1>8 DEF Apart
      <4>2. x \in Mem \ {m} /\ h.node[x].kind = "slab" /\ g.node[x].desc = h.node[x].desc
        BY <1>9, <2>1, <3>7, <4>1
      <4>3. x \in P[q] \cup F[q]
        BY <1>10, <4>2
      <4>4. IF OnSlab(q) THEN h.node[x].desc = NoObject
            ELSE h.node[x].desc[1] \in P[SlabOrder] \cup F[SlabOrder]
        BY <1>2, <4>2, <4>3 DEF Described
      <4> QED BY <3>3, <3>5, <4>2, <4>4, Facts
    <3> QED BY <3>1, <3>2, <3>6, <3>7 DEF Described
  <2>9. CASE d = NoObject
    <3>1. \A x \in Mem : g.node[x].desc = h.node[x].desc
      BY <1>9, <2>1, <2>9 DEF d
    <3>2. Objects(g, H) = V
      <4>1. \A p \in H : g.node[p[1]].kind = h.node[p[1]].kind
        BY <1>9, <2>3
      <4> QED BY <3>1, <4>1 DEF Objects, V
    <3>3. Good(g, P2, F2, Objects(g, H), H, {})
      BY <1>7, <2>5, <2>6, <2>7, <2>8, <3>2 DEF Good
    <3>4. Top(g, H)
      BY <3>3 DEF Top
    <3> QED BY <2>9, <3>4 DEF FreedOne, g, m
  <2>10. CASE d # NoObject
    <3>1. d \in Mem \X Nat /\ d \in V /\ d \notin H
      BY <1>1, <1>4, <2>10, DescriptorOf DEF V, m
    <3>2. d[1] \in P[SlabOrder] \cup F[SlabOrder]
      BY <1>1, <1>2, <2>10 DEF Described, m
    <3>3. d[1] \in P2[SlabOrder] \cup F2[SlabOrder] /\ g.node[d[1]].kind = "slab"
      BY <1>8, <1>10, <2>2, <3>1, <3>2, Facts DEF Members
    <3>4. Objects(g, H) = V \ {d}
      <4>1. \A p \in H : g.node[p[1]].kind = h.node[p[1]].kind
        BY <1>9, <2>3
      <4>2. {g.node[x].desc : x \in Mem} \ {NoObject} = ({h.node[x].desc : x \in Mem} \ {NoObject}) \ {d}
        <5>1. \A x \in Mem \ {m} : h.node[x].desc # d
          BY <1>2, <1>4, <2>10 DEF Described, m
        <5> QED BY <1>9, <2>1, <5>1 DEF d
      <4> HIDE DEF d
      <4> QED BY <3>1, <4>1, <4>2 DEF Objects, V
    <3>5. Objects(g, H) \cup {d} = V /\ d \notin Objects(g, H)
      BY <3>1, <3>4
    <3>6. Good(g, P2, F2, Objects(g, H) \cup {d}, H, {})
      BY <1>7, <2>5, <2>6, <2>7, <2>8, <3>5 DEF Good
    <3>7. Extra(g, P2, F2, H, {}, SlabOrder, d)
      BY <3>1, <3>3, <3>5, <3>6 DEF Extra
    <3> QED BY <1>13, <2>10, <3>7 DEF FreedOne, g, m
  <2> QED BY <2>9, <2>10
<1> QED BY <1>12, <1>13

\* kfree finds a slab in the lists of its cache.
LEMMA CachesAre ==
    ASSUME NEW h, NEW P, NEW F, Lists(h, P, F), NEW m
    PROVE  CachesOf(h, m) = {o \in Orders : m \in P[o] \cup F[o] /\ h.node[m].kind = "slab"}
<1>1. ASSUME NEW o \in Orders PROVE Walk(h, h.part[o]) = P[o] /\ Walk(h, h.full[o]) = F[o]
  <2>1. IsList(h, h.part[o], P[o]) /\ IsList(h, h.full[o], F[o])
    BY DEF Lists, SlabList, PageList
  <2> QED BY <2>1, WalkIs
<1> QED BY <1>1 DEF CachesOf

\* A list of a cache whose slabs hold their own descriptor is one of slabs.
LEMMA OnSlabPart ==
    ASSUME NEW h, NEW P, NEW F, Lists(h, P, F), NEW o \in Orders, OnSlab(o)
    PROVE  SlabList(h, h.part[o], P[o])
BY PartIs, Facts

\* Freeing a descriptor, which is in a slab that holds its own.
LEMMA FreeDescriptor ==
    ASSUME NEW h, NEW P, NEW F, NEW H, NEW o \in Orders, OnSlab(o), NEW e, Extra(h, P, F, H, {}, o, e)
    PROVE  Top(FreeObject(h, o, e[1], e[2]), H)
<1>1. e[1] \in P[o] \cup F[o] /\ h.node[e[1]].kind = "slab" /\ Described(h, P, F) /\ Lists(h, P, F)
  BY DEF Extra, Good, Sound
<1>2. SlabList(h, h.part[o], P[o])
  BY <1>1, OnSlabPart
<1>3. FreedOne(h, H, o, e, FreeObject(h, o, e[1], e[2]))
  BY <1>2, FreeOne
<1>4. h.node[e[1]].desc = NoObject
  BY <1>1 DEF Described
<1> QED BY <1>3, <1>4 DEF FreedOne

LEMMA KfreeTop ==
    ASSUME NEW h, NEW H, Top(h, H), NEW p \in H, NEW o \in CachesOf(h, p[1]),
           ~ (o = CACHE_END_ORDER /\ h.node[p[1]].allocated = Count[o] /\ SharedHeadIs(h, "pages"))
    PROVE  Top(Kfree(h, o, p), H \ {p})
<1> DEFINE m == p[1]
           K == H \ {p}
           d == h.node[m].desc
           g == FreeObject(h, o, p[1], p[2])
<1>1. PICK P, F : Good(h, P, F, Objects(h, H), H, {})
  BY DEF Top
<1>2. Sound(h, P, F, Objects(h, H)) /\ Busy(h) /\ Described(h, P, F) /\ HeldOK(h, H) /\ Reserved(h) = {}
  BY <1>1 DEF Good
<1>3. Lists(h, P, F) /\ Content(h, P, F, Objects(h, H))
  BY <1>2 DEF Sound
<1>4. o \in Orders /\ m \in P[o] \cup F[o] /\ h.node[m].kind = "slab"
  BY <1>3, CachesAre
<1>5. p \in Mem \X Nat /\ \A x \in Mem : h.node[x].desc # p
  BY <1>2 DEF HeldOK
<1>6. Objects(h, K) \cup {p} = Objects(h, H) /\ p \notin Objects(h, K)
  BY <1>4, <1>5 DEF Objects
<1>7. HeldOK(h, K)
  <2>1. \A x \in Mem : h.node[x].kind = "pages" => <<x, 0>> # p
    BY <1>4
  <2> QED BY <1>2, <2>1 DEF HeldOK
<1>8. Good(h, P, F, Objects(h, K) \cup {p}, K, {})
  BY <1>2, <1>6, <1>7 DEF Good
<1>9. Extra(h, P, F, K, {}, o, p)
  BY <1>4, <1>5, <1>6, <1>8 DEF Extra
<1>10. m \in F[o] => SlabList(h, h.part[o], P[o])
  <2> SUFFICES ASSUME m \in F[o] PROVE SlabList(h, h.part[o], P[o])
    OBVIOUS
  <2>1. h.node[m].allocated = Count[o]
    BY <1>3, <1>4 DEF Content, FullyUsed
  <2>2. CASE o = CACHE_END_ORDER
    BY <1>3, <2>1, <2>2, SharedSlabs
  <2>3. CASE o # CACHE_END_ORDER
    BY <1>3, <1>4, <2>3, PartIs
  <2> QED BY <2>2, <2>3
<1>11. FreedOne(h, K, o, p, g)
  BY <1>4, <1>9, <1>10, FreeOne
<1> HIDE DEF K, g
<1>12. CASE h.node[m].allocated = 1 /\ d # NoObject
  <2>1. PICK P2, F2 : Extra(g, P2, F2, K, {}, SlabOrder, d)
    BY <1>11, <1>12 DEF FreedOne
  <2>2. Top(FreeObject(g, SlabOrder, d[1], d[2]), K)
    BY <2>1, FreeDescriptor, Facts
  <2> QED BY <1>12, <2>2 DEF Kfree, g, K
<1>13. CASE ~ (h.node[m].allocated = 1 /\ d # NoObject)
  <2>1. Top(g, K)
    BY <1>11, <1>13 DEF FreedOne
  <2> QED BY <1>13, <2>1 DEF Kfree, g, K
<1> QED BY <1>12, <1>13

\* A page allocation leaves its list.
LEMMA UnlinkIs ==
    ASSUME NEW h \in Heap, NEW m \in Mem
    PROVE  LET g == UnlinkPages(h, m)
           IN  /\ g \in Heap /\ g.full = h.full
               /\ g.part = [h.part EXCEPT ![CACHE_END_ORDER] = HeadWithout(h, h.part[CACHE_END_ORDER], m)]
               /\ g.node[m] = Unused /\ SameBut(h, g, m)
               /\ \A x \in Mem \ {m} : h.node[x].kind = "slab" => g.node[x] = h.node[x]
               /\ \A x \in Mem \ {m} : h.node[x].kind = "pages" =>
                      g.node[x].next = IF h.node[x].next = m THEN h.node[m].next ELSE h.node[x].next
<1> DEFINE g == UnlinkPages(h, m)
           E == CACHE_END_ORDER
           first == HeadWithout(h, h.part[E], m)
           node == [n \in Mem |->
                  IF n = m THEN Unused
                  ELSE IF h.node[n].kind = "pages" /\ h.node[n].next = m
                       THEN [h.node[n] EXCEPT !.next = h.node[m].next]
                       ELSE h.node[n]]
<1>1. h.node \in [Mem -> Node] /\ h.part \in [Orders -> Link] /\ E \in Orders /\ h.part[E] \in Link
      /\ h.node[m].next \in Link /\ first \in Link
  BY Facts DEF Heap, Node, HeadWithout
<1>2. ASSUME NEW x \in Mem \ {m}
      PROVE  /\ node[x] \in Node /\ node[x].kind = h.node[x].kind
             /\ node[x].allocated = h.node[x].allocated /\ node[x].next_free = h.node[x].next_free
             /\ node[x].free = h.node[x].free /\ node[x].desc = h.node[x].desc
             /\ h.node[x].kind = "slab" => node[x] = h.node[x]
             /\ h.node[x].kind = "pages" =>
                      node[x].next = IF h.node[x].next = m THEN h.node[m].next ELSE h.node[x].next
  <2>1. h.node[x] \in Node
    BY <1>1
  <2>2. CASE h.node[x].kind = "pages" /\ h.node[x].next = m
    <3>1. node[x] = [h.node[x] EXCEPT !.next = h.node[m].next]
      BY <2>2
    <3> HIDE DEF node
    <3> QED BY <1>1, <2>1, <2>2, <3>1 DEF Node
  <2>3. CASE ~ (h.node[x].kind = "pages" /\ h.node[x].next = m)
    <3>1. node[x] = h.node[x]
      BY <2>3
    <3> HIDE DEF node
    <3> QED BY <2>1, <2>3, <3>1
  <2> QED BY <2>2, <2>3
<1>3. node[m] = Unused /\ node \in [Mem -> Node]
  <2>1. node[m] = Unused
    OBVIOUS
  <2>2. \A x \in Mem : node[x] \in Node
    BY <1>2, <2>1, UnusedNode
  <2> QED BY <2>1, <2>2
<1>4. g = [h EXCEPT !.part[E] = first, !.node = node]
  BY <1>1 DEF UnlinkPages, HeadWithout, Heap
<1> HIDE DEF node, first, E
<1>5. g = [h EXCEPT !.part = [h.part EXCEPT ![E] = first], !.node = node]
  BY <1>1, <1>4 DEF Heap
<1> HIDE DEF g
<1>6. g \in Heap /\ g.full = h.full /\ g.part = [h.part EXCEPT ![E] = first] /\ g.node = node
  BY <1>1, <1>3, <1>5 DEF Heap
<1> QED BY <1>2, <1>3, <1>6 DEF g, E, first, SameBut

LEMMA UnlinkSound ==
    ASSUME NEW h, NEW P, NEW F, NEW U, Sound(h, P, F, U), NEW m \in P[CACHE_END_ORDER], h.node[m].kind = "pages"
    PROVE  Sound(UnlinkPages(h, m), Less(P, CACHE_END_ORDER, m), F, U)
<1> DEFINE g == UnlinkPages(h, m)
           E == CACHE_END_ORDER
           Q == Less(P, E, m)
           first == HeadWithout(h, h.part[E], m)
<1>1. Lists(h, P, F) /\ h \in Heap /\ Apart(P, F) /\ Null \notin Mem /\ E \in Orders /\ m \in Mem
      /\ P \in [Orders -> SUBSET Mem]
  BY Facts DEF Sound, Lists, Apart
<1>2. PageList(h, h.part[E], P[E])
  BY <1>1 DEF Lists, SlabList
<1>3. /\ g \in Heap /\ g.full = h.full /\ g.part = [h.part EXCEPT ![E] = first]
      /\ g.node[m] = Unused /\ SameBut(h, g, m)
      /\ \A x \in Mem \ {m} : h.node[x].kind = "slab" => g.node[x] = h.node[x]
      /\ \A x \in Mem \ {m} : h.node[x].kind = "pages" =>
             g.node[x].next = IF h.node[x].next = m THEN h.node[m].next ELSE h.node[x].next
  BY <1>1, UnlinkIs
<1>4. Apart(Q, F)
  BY <1>1, LessApart
<1>5. ListsBut(P, Q, m) /\ \A q \in Orders : Q[q] = IF q = E THEN P[E] \ {m} ELSE P[q]
  BY <1>1, LessIs
<1> HIDE DEF g, Q, first
<1>6. g.part[E] = first /\ \A q \in Orders \ {E} : Q[q] = P[q] /\ g.part[q] = h.part[q]
  BY <1>1, <1>3, <1>5 DEF Heap
<1>7. PageList(g, g.part[E], Q[E])
  <2>1. IsList(h, h.part[E], P[E]) /\ Single(h, h.part[E], P[E]) /\ (\A x \in P[E] : h.node[x].kind = "pages")
    BY <1>2 DEF PageList
  <2>2. P[E] \subseteq Mem /\ Null \notin P[E]
    BY <1>1
  <2>3. Bypassed(h, g, P[E], m)
    BY <1>3, <2>1, <2>2 DEF Bypassed
  <2>4. IsList(g, first, P[E] \ {m}) /\ Single(g, first, P[E] \ {m})
    BY <2>1, <2>2, <2>3, ListDrop DEF first
  <2>5. \A x \in P[E] \ {m} : g.node[x].kind = "pages"
    BY <1>3, <2>1, <2>2 DEF SameBut
  <2> QED BY <1>1, <1>5, <1>6, <2>4, <2>5 DEF PageList
<1>8. g.node[m].kind = "unused"
  BY <1>3 DEF Unused
<1>9. h.node[m].kind # "slab" /\ g.node[m].kind # "slab" /\ g.node[m].kind # "pages"
  BY <1>8
<1>10. Sound(g, Q, F, U)
  BY <1>1, <1>3, <1>4, <1>5, <1>6, <1>7, <1>9, SharedList
<1> QED BY <1>10 DEF g, Q

LEMMA KfreePagesTop ==
    ASSUME NEW h, NEW H, Top(h, H), NEW p \in H, InPageList(h, p[1])
    PROVE  LET d == h.node[p[1]].desc
           IN  Top(FreeObject(UnlinkPages(h, p[1]), PageAllocationOrder, d[1], d[2]), H \ {p})
<1> DEFINE m == p[1]
           K == H \ {p}
           E == CACHE_END_ORDER
           d == h.node[m].desc
           g == UnlinkPages(h, m)
<1>1. PICK P, F : Good(h, P, F, Objects(h, H), H, {})
  BY DEF Top
<1> DEFINE U == Objects(h, H)
           Q == Less(P, E, m)
<1>2. Sound(h, P, F, U) /\ Busy(h) /\ Described(h, P, F) /\ HeldOK(h, H) /\ Reserved(h) = {}
  BY <1>1 DEF Good
<1>3. Lists(h, P, F) /\ h \in Heap /\ Apart(P, F) /\ P \in [Orders -> SUBSET Mem] /\ E \in Orders
  BY <1>2, Facts DEF Sound, Lists, Apart
<1>4. h.node[m].kind = "pages" /\ m \in P[E]
  <2>1. IsList(h, h.part[E], P[E])
    BY <1>3 DEF Lists, SlabList, PageList
  <2> QED BY <2>1, WalkIs DEF InPageList, page_allocation_list
<1>5. p \in Mem \X Nat /\ p[2] = 0 /\ m \in Mem
  BY <1>2, <1>4 DEF HeldOK
<1>6. p = <<m, 0>>
  BY <1>5
<1>7. d[1] \in P[PageAllocationOrder] \cup F[PageAllocationOrder]
  BY <1>2, <1>4, <1>5 DEF Described
<1>8. d # NoObject
  <2>1. d[1] \in Mem
    BY <1>3, <1>7, Facts DEF Apart
  <2> QED BY <2>1, Facts DEF NoObject
<1>9. d \in Mem \X Nat /\ d \in U /\ d \notin H
  BY <1>1, <1>5, <1>8, DescriptorOf
<1>10. Sound(g, Q, F, U)
  BY <1>2, <1>4, UnlinkSound
<1>11. g.node[m] = Unused /\ SameBut(h, g, m)
  BY <1>3, <1>5, UnlinkIs
<1>12. \A q \in Orders : Q[q] = IF q = E THEN P[E] \ {m} ELSE P[q]
  <2> HIDE DEF m, E
  <2>1. P \in [Orders -> SUBSET Mem] /\ E \in Orders /\ m \in Mem
    BY <1>3, <1>5
  <2> QED BY <2>1, LessIs
<1> HIDE DEF g, Q, m
<1>13. g.node[m].kind = "unused" /\ g.node[m].desc = NoObject
  BY <1>11 DEF Unused
<1>14. \A x \in Mem \ {m} : g.node[x].kind = h.node[x].kind /\ g.node[x].desc = h.node[x].desc
                            /\ g.node[x].allocated = h.node[x].allocated
  BY <1>11 DEF SameBut
<1>15. \A x \in Mem \ {m} : h.node[x].desc # d
  BY <1>2, <1>5, <1>8 DEF Described
<1>16. \A q \in K : q[1] \in Mem \ {m}
  <2> SUFFICES ASSUME NEW q \in K, q[1] = m PROVE FALSE
    BY <1>2 DEF HeldOK
  <2>1. q \in Mem \X Nat /\ q[2] = 0
    BY <1>2, <1>4 DEF HeldOK, m
  <2> QED BY <1>6, <2>1
<1>17. Objects(g, K) = U \ {d}
  <2>1. {q \in K : g.node[q[1]].kind = "slab"} = {q \in H : h.node[q[1]].kind = "slab"}
    <3>1. \A q \in K : g.node[q[1]].kind = h.node[q[1]].kind
      BY <1>14, <1>16
    <3> QED BY <1>4, <3>1 DEF m
  <2>2. {g.node[x].desc : x \in Mem} \ {NoObject} = ({h.node[x].desc : x \in Mem} \ {NoObject}) \ {d}
    BY <1>13, <1>14, <1>15 DEF d
  <2> HIDE DEF K, d
  <2> QED BY <1>9, <2>1, <2>2 DEF Objects
<1>18. Objects(g, K) \cup {d} = U /\ d \notin Objects(g, K)
  BY <1>9, <1>17
<1>19. HeldOK(g, K)
  <2>1. NoObject \notin H
    BY <1>2, Facts DEF HeldOK, NoObject
  <2>2. \A q \in K : g.node[q[1]].kind = h.node[q[1]].kind
    BY <1>14, <1>16
  <2>3. \A x \in Mem : g.node[x].kind = "pages" => <<x, 0>> \in K
    BY <1>2, <1>6, <1>13, <1>14 DEF HeldOK
  <2>4. \A x \in Mem : g.node[x].desc \notin K
    BY <1>2, <1>13, <1>14, <2>1 DEF HeldOK
  <2> QED BY <1>2, <2>2, <2>3, <2>4 DEF HeldOK
<1>20. Busy(g) /\ Reserved(g) = {}
  BY <1>2, <1>13, <1>14 DEF Busy, Reserved
<1>21. Described(g, Q, F)
  <2>1. \A x \in Mem : g.node[x].kind \notin {"slab", "pages"} => g.node[x].desc = NoObject
    BY <1>2, <1>13, <1>14 DEF Described
  <2>2. \A x, y \in Mem : g.node[x].desc = g.node[y].desc /\ g.node[x].desc # NoObject => x = y
    BY <1>2, <1>13, <1>14 DEF Described
  <2>3. Q[PageAllocationOrder] = P[PageAllocationOrder] /\ Q[SlabOrder] = P[SlabOrder]
    BY <1>12, Facts
  <2>4. \A x \in Mem : g.node[x].kind = "pages" =>
           g.node[x].desc[1] \in Q[PageAllocationOrder] \cup F[PageAllocationOrder]
    BY <1>2, <1>13, <1>14, <2>3 DEF Described
  <2>5. ASSUME NEW q \in Orders, NEW x \in Q[q] \cup F[q], g.node[x].kind = "slab"
        PROVE  IF OnSlab(q) THEN g.node[x].desc = NoObject
               ELSE g.node[x].desc[1] \in Q[SlabOrder] \cup F[SlabOrder]
    <3>1. x \in P[q] \cup F[q] /\ x \in Mem
      BY <1>3, <1>12 DEF Apart
    <3>2. x \in Mem \ {m} /\ h.node[x].kind = "slab" /\ g.node[x].desc = h.node[x].desc
      BY <1>13, <1>14, <2>5, <3>1
    <3> QED BY <1>2, <2>3, <3>1, <3>2 DEF Described
  <2> QED BY <2>1, <2>2, <2>4, <2>5 DEF Described
<1>22. d[1] \in Q[PageAllocationOrder] \cup F[PageAllocationOrder] /\ g.node[d[1]].kind = "slab"
  BY <1>7, <1>9, <1>10, <1>12, Facts DEF Sound, Members
<1>23. Extra(g, Q, F, K, {}, PageAllocationOrder, d)
  BY <1>9, <1>10, <1>18, <1>19, <1>20, <1>21, <1>22 DEF Extra, Good
<1>24. Top(FreeObject(g, PageAllocationOrder, d[1], d[2]), K)
  BY <1>23, FreeDescriptor, Facts
<1> QED BY <1>24 DEF g, m

\* A range is set aside.
LEMMA ReserveGood ==
    ASSUME NEW h, NEW P, NEW F, NEW H, Good(h, P, F, Objects(h, H), H, {}), NEW m \in UnusedMem(h)
    PROVE  LET g == Reserve(h, m)
           IN  /\ Good(g, P, F, Objects(g, H), H, {m}) /\ m \in Mem
               /\ g.part = h.part
               /\ \A x \in Mem \ {m} : g.node[x].kind = h.node[x].kind
               /\ \A o \in Orders : SlabList(h, h.part[o], P[o]) => SlabList(g, g.part[o], P[o])
<1> DEFINE g == Reserve(h, m)
           U == Objects(h, H)
<1>1. Sound(h, P, F, U) /\ Busy(h) /\ Described(h, P, F) /\ HeldOK(h, H) /\ Reserved(h) = {}
  BY DEF Good
<1>2. /\ Sound(g, P, F, U) /\ SameBut(h, g, m) /\ m \in Mem
      /\ g.part = h.part
      /\ g.node[m].kind = "reserved" /\ g.node[m].desc = h.node[m].desc
      /\ \A o \in Orders : SlabList(h, h.part[o], P[o]) => SlabList(g, g.part[o], P[o])
  BY <1>1, ReserveSound
<1>3. h.node[m].kind = "unused"
  BY DEF UnusedMem
<1> HIDE DEF g
<1>4. \A x \in Mem : g.node[x].desc = h.node[x].desc
  BY <1>2 DEF SameBut
<1>5. \A x \in Mem \ {m} : g.node[x].kind = h.node[x].kind /\ g.node[x].allocated = h.node[x].allocated
  BY <1>2 DEF SameBut
<1>6. \A q \in H : q[1] \in Mem \ {m}
  BY <1>1, <1>3 DEF HeldOK
<1>7. \A q \in H : g.node[q[1]].kind = h.node[q[1]].kind
  BY <1>5, <1>6
<1>8. Objects(g, H) = U
  BY <1>4, <1>7 DEF Objects
<1>9. HeldOK(g, H)
  <2>1. \A x \in Mem : g.node[x].kind = "pages" => h.node[x].kind = "pages"
    BY <1>2, <1>5
  <2> QED BY <1>1, <1>4, <1>7, <2>1 DEF HeldOK
<1>10. Busy(g) /\ Reserved(g) = {m}
  BY <1>1, <1>2, <1>5 DEF Busy, Reserved
<1>11. Described(g, P, F)
  <2>1. \A x \in Mem : g.node[x].kind \notin {"slab", "pages"} => g.node[x].desc = NoObject
    BY <1>1, <1>2, <1>3, <1>4, <1>5 DEF Described
  <2>2. \A x, y \in Mem : g.node[x].desc = g.node[y].desc /\ g.node[x].desc # NoObject => x = y
    BY <1>1, <1>4 DEF Described
  <2>3. \A x \in Mem : g.node[x].kind \in {"slab", "pages"} => g.node[x].kind = h.node[x].kind
    BY <1>2, <1>5
  <2>4. \A x \in Mem : g.node[x].kind = "pages" =>
           g.node[x].desc[1] \in P[PageAllocationOrder] \cup F[PageAllocationOrder]
    BY <1>1, <1>4, <2>3 DEF Described
  <2>5. ASSUME NEW q \in Orders, NEW x \in P[q] \cup F[q], g.node[x].kind = "slab"
        PROVE  IF OnSlab(q) THEN g.node[x].desc = NoObject
               ELSE g.node[x].desc[1] \in P[SlabOrder] \cup F[SlabOrder]
    <3>1. x \in Mem
      BY <1>1 DEF Sound, Lists, Apart
    <3> QED BY <1>1, <1>4, <2>3, <2>5, <3>1 DEF Described
  <2> QED BY <2>1, <2>2, <2>4, <2>5 DEF Described
<1>12. Good(g, P, F, Objects(g, H), H, {m})
  BY <1>2, <1>8, <1>9, <1>10, <1>11 DEF Good
<1> QED BY <1>2, <1>5, <1>12 DEF g

\* A new descriptor d, for the range m that was set aside.
Attached(k, g, H, m, d) ==
    /\ Objects(g, H) = Objects(k, H) \cup {d}
    /\ Reserved(g) = {}
    /\ \A x \in Mem : g.node[x].desc \notin H /\ g.node[x].desc[1] # m
    /\ \A x, y \in Mem : g.node[x].desc = g.node[y].desc /\ g.node[x].desc # NoObject => x = y
    /\ \A x \in Mem : g.node[x].kind \notin {"slab", "pages"} => g.node[x].desc = NoObject
    /\ \A p \in H : p[1] \in Mem \ {m} /\ g.node[p[1]].kind = k.node[p[1]].kind

LEMMA Attach ==
    ASSUME NEW k, NEW P, NEW F, NEW H, NEW m \in Mem, NEW q, NEW d, Extra(k, P, F, H, {m}, q, d), NEW g,
           \A x \in Mem \ {m} : g.node[x].kind = k.node[x].kind /\ g.node[x].desc = k.node[x].desc,
           g.node[m].kind \in {"slab", "pages"}, g.node[m].desc = d
    PROVE  Attached(k, g, H, m, d)
<1> DEFINE U == Objects(k, H)
<1>1. /\ d \in Mem \X Nat /\ k.node[d[1]].kind = "slab" /\ d \notin U
      /\ Sound(k, P, F, U \cup {d}) /\ Described(k, P, F) /\ HeldOK(k, H) /\ Reserved(k) = {m}
      /\ Good(k, P, F, U \cup {d}, H, {m})
  BY DEF Extra, Good
<1>2. k.node[m].kind = "reserved" /\ \A x \in Mem \ {m} : k.node[x].kind # "reserved"
  BY <1>1 DEF Reserved
<1>3. k.node[m].desc = NoObject
  BY <1>1, <1>2 DEF Described
<1>4. d # NoObject /\ NoObject[1] # m /\ NoObject \notin H
  BY <1>1, Facts DEF NoObject, HeldOK
<1>5. \A x \in Mem : k.node[x].desc # d
  BY <1>1, <1>4 DEF Objects
<1>6. \A p \in H : p[1] \in Mem \ {m}
  BY <1>1, <1>2 DEF HeldOK
<1>7. \A p \in H : g.node[p[1]].kind = k.node[p[1]].kind
  BY <1>6
<1>8. d \notin H /\ d[1] # m
  BY <1>1, <1>2 DEF Objects
<1>9. {g.node[x].desc : x \in Mem} \ {NoObject} = ({k.node[x].desc : x \in Mem} \ {NoObject}) \cup {d}
  BY <1>3, <1>4
<1>10. Objects(g, H) = Objects(k, H) \cup {d}
  BY <1>7, <1>9 DEF Objects
<1>11. \A x \in Mem : k.node[x].desc # NoObject => k.node[x].desc[1] # m
  <2> SUFFICES ASSUME NEW x \in Mem, k.node[x].desc # NoObject PROVE k.node[x].desc[1] # m
    OBVIOUS
  <2>1. k.node[x].desc \in U
    BY <1>1, DescriptorOf
  <2>2. k.node[k.node[x].desc[1]].kind = "slab"
    BY <1>1, <2>1 DEF Sound, Members
  <2> QED BY <1>2, <2>2
<1>12. \A x \in Mem : g.node[x].desc \notin H /\ g.node[x].desc[1] # m
  <2>1. \A x \in Mem : k.node[x].desc \notin H /\ k.node[x].desc[1] # m
    BY <1>1, <1>4, <1>11 DEF HeldOK
  <2> QED BY <1>8, <2>1
<1>13. \A x, y \in Mem : g.node[x].desc = g.node[y].desc /\ g.node[x].desc # NoObject => x = y
  BY <1>1, <1>5 DEF Described
<1>14. \A x \in Mem : g.node[x].kind \notin {"slab", "pages"} => g.node[x].desc = NoObject
  BY <1>1 DEF Described
<1>15. Reserved(g) = {}
  BY <1>2 DEF Reserved
<1> QED BY <1>6, <1>7, <1>10, <1>12, <1>13, <1>14, <1>15 DEF Attached

\* An empty list is a list of slabs.
LEMMA NullList ==
    ASSUME NEW h, NEW P, NEW F, Lists(h, P, F), NEW o \in Orders, h.part[o] = Null
    PROVE  SlabList(h, h.part[o], P[o])
<1>1. CASE o = CACHE_END_ORDER
  BY <1>1, SharedSlabs DEF SharedHeadIs, page_allocation_list
<1>2. CASE o # CACHE_END_ORDER
  BY <1>2, PartIs
<1> QED BY <1>1, <1>2

\* kalloc from any cache.
LEMMA KallocTop ==
    ASSUME NEW h, NEW H, Top(h, H), NEW o \in Orders, o = CACHE_END_ORDER => ~SharedHeadIs(h, "pages"),
           NEW r \in Kalloc(h, o)
    PROVE  Top(r.heap, H \cup {r.obj})
<1>1. PICK P, F : Good(h, P, F, Objects(h, H), H, {})
  BY DEF Top
<1>2. Lists(h, P, F)
  BY <1>1 DEF Good, Sound
<1>3. SlabList(h, h.part[o], P[o])
  BY <1>2, SharedSlabs, PartIs
<1>4. CASE OnSlab(o) \/ h.part[o] # Null
  <2>1. r \in KallocOnSlab(h, o)
    BY <1>4 DEF Kalloc
  <2>2. PICK P2, F2 : Extra(r.heap, P2, F2, H, {}, o, r.obj)
    BY <1>1, <1>3, <1>4, <2>1, GetOne
  <2> QED BY <2>2, HoldOne
<1>5. CASE ~OnSlab(o) /\ h.part[o] = Null
  <2>0. PICK m \in UnusedMem(h) : r \in {Take(NewSlab(s.heap, o, m, s.obj), o) :
                                              s \in KallocOnSlab(Reserve(h, m), SlabOrder)}
    BY <1>5 DEF Kalloc
  <2>1. PICK s \in KallocOnSlab(Reserve(h, m), SlabOrder) : r = Take(NewSlab(s.heap, o, m, s.obj), o)
    BY <2>0
  <2> DEFINE h1 == Reserve(h, m)
             k == s.heap
             d == s.obj
             n == NewSlab(k, o, m, d)
             g == r.heap
             e == r.obj
  <2>2. /\ Good(h1, P, F, Objects(h1, H), H, {m}) /\ m \in Mem /\ h1.part = h.part
    BY <1>1, ReserveGood
  <2> HIDE DEF h1
  <2>3. Lists(h1, P, F) /\ h1 \in Heap
    BY <2>2 DEF Good, Sound, Lists
  <2>4. SlabOrder \in Orders /\ OnSlab(SlabOrder) /\ SlabList(h1, h1.part[SlabOrder], P[SlabOrder]) /\ o # SlabOrder
    BY <1>5, <2>3, OnSlabPart, Facts
  <2>5. PICK P2, F2 : Extra(k, P2, F2, H, {m}, SlabOrder, d) /\ Grew(h1, P, F, k, P2, F2, SlabOrder)
    BY <2>1, <2>2, <2>4, GetOne DEF h1
  <2> DEFINE U == Objects(k, H) \cup {d}
             Q == With(P2, o, m)
  <2> HIDE DEF k, d
  <2>6. /\ d \in Mem \X Nat /\ d[1] \in P2[SlabOrder] \cup F2[SlabOrder]
        /\ Sound(k, P2, F2, U) /\ Busy(k) /\ Described(k, P2, F2) /\ HeldOK(k, H) /\ Reserved(k) = {m}
    BY <2>5 DEF Extra, Good
  <2>7. Lists(k, P2, F2) /\ Members(k, P2, F2, U) /\ Apart(P2, F2) /\ P2 \in [Orders -> SUBSET Mem]
    BY <2>6 DEF Sound, Lists, Apart
  <2>8. k.part[o] = Null
    BY <1>5, <2>2, <2>4, <2>5 DEF Grew, OtherCaches
  <2>9. SlabList(k, k.part[o], P2[o])
    BY <2>7, <2>8, NullList
  <2>10. k.node[m].kind = "reserved" /\ d \in Object
    BY <2>6 DEF Reserved, Object, Link
  <2> HIDE DEF U
  <2>11. Added(k, P2, F2, U, o, m, d, n)
    BY <2>2, <2>6, <2>9, <2>10, NewSlabSound
  <2>12. /\ Sound(n, Q, F2, U) /\ n.part[o] = m /\ SlabList(n, n.part[o], Q[o]) /\ SameBut(k, n, m)
         /\ n.node[m].kind = "slab" /\ n.node[m].desc = d /\ n.node[m].allocated = 0
    BY <2>11 DEF Added
  <2>13. \A q \in Orders : Q[q] = IF q = o THEN P2[o] \cup {m} ELSE P2[q]
    BY <2>2, <2>7, WithIs
  <2>14. r = Take(n, o)
    BY <2>1 DEF n, k, d
  <2> HIDE DEF n, Q
  <2>15. Taken(n, Q, F2, U, o, r)
    BY <2>2, <2>12, <2>14, TakeSound, Facts
  <2>16. PICK P3, F3 : Sound(g, P3, F3, U \cup {e}) /\ After(n, Q, F2, g, P3, F3, o)
    BY <2>15 DEF Taken
  <2>17. e \in Mem \X Nat /\ e \notin U /\ e[1] = m /\ OneMore(n, g, m) /\ SameUse(n, g)
    BY <2>12, <2>15, <2>16 DEF Taken, After
  <2> HIDE DEF g, e
  <2>18. \A x \in Mem \ {m} : g.node[x].kind = k.node[x].kind /\ g.node[x].desc = k.node[x].desc
    BY <2>12, <2>17 DEF SameUse, SameBut
  <2>19. g.node[m].kind = "slab" /\ g.node[m].desc = d
    BY <2>2, <2>12, <2>17 DEF SameUse
  <2>20. Attached(k, g, H, m, d)
    BY <2>2, <2>5, <2>18, <2>19, Attach
  <2>21. Objects(g, H) = U
    BY <2>20 DEF Attached, U
  <2>22. \A q \in Orders : P3[q] \cup F3[q] = (IF q = o THEN P2[o] \cup F2[o] \cup {m} ELSE P2[q] \cup F2[q])
    BY <2>13, <2>16 DEF After
  <2>23. Busy(g)
    <3>1. n \in Heap
      BY <2>12 DEF Sound, Lists
    <3>2. \A x \in Mem \ {m} : n.node[x].kind = "slab" => n.node[x].allocated >= 1
      BY <2>6, <2>12 DEF Busy, SameBut
    <3> QED BY <2>17, <3>1, <3>2, OneMoreBusy
  <2>24. HeldOK(g, H)
    <3>1. \A x \in Mem : g.node[x].kind = "pages" => <<x, 0>> \in H
      BY <2>6, <2>18, <2>19 DEF HeldOK
    <3> QED BY <2>6, <2>20, <3>1 DEF HeldOK, Attached
  <2>25. Described(g, P3, F3)
    <3>1. P3[SlabOrder] \cup F3[SlabOrder] = P2[SlabOrder] \cup F2[SlabOrder]
      BY <2>4, <2>22
    <3>2. P2[PageAllocationOrder] \cup F2[PageAllocationOrder]
              \subseteq P3[PageAllocationOrder] \cup F3[PageAllocationOrder]
      BY <2>22, Facts
    <3>3. \A x \in Mem : g.node[x].kind = "pages" =>
             g.node[x].desc[1] \in P3[PageAllocationOrder] \cup F3[PageAllocationOrder]
      BY <2>6, <2>18, <2>19, <3>2 DEF Described
    <3>4. ASSUME NEW q \in Orders, NEW x \in P3[q] \cup F3[q], g.node[x].kind = "slab"
          PROVE  IF OnSlab(q) THEN g.node[x].desc = NoObject
                 ELSE g.node[x].desc[1] \in P3[SlabOrder] \cup F3[SlabOrder]
      <4>1. CASE x = m
        <5>1. q = o
          <6>1. m \in P3[o] \cup F3[o] /\ Apart(P3, F3)
            BY <2>16, <2>22 DEF Sound, Lists
          <6> QED BY <3>4, <4>1, <6>1, OneOrder
        <5> QED BY <1>5, <2>6, <2>19, <3>1, <4>1, <5>1
      <4>2. CASE x # m
        <5>1. x \in P2[q] \cup F2[q] /\ x \in Mem
          <6>1. x \in P2[q] \cup F2[q]
            BY <2>22, <4>2
          <6> QED BY <2>7, <6>1 DEF Apart
        <5>2. k.node[x].kind = "slab" /\ g.node[x].desc = k.node[x].desc
          BY <2>18, <3>4, <4>2, <5>1
        <5> QED BY <2>6, <3>1, <5>1, <5>2 DEF Described
      <4> QED BY <4>1, <4>2
    <3> QED BY <2>20, <3>3, <3>4 DEF Described, Attached
  <2>26. e[1] \in P3[o] \cup F3[o] /\ g.node[e[1]].kind = "slab" /\ Reserved(g) = {}
    BY <2>17, <2>19, <2>20, <2>22 DEF Attached
  <2>27. Extra(g, P3, F3, H, {}, o, e)
    BY <2>16, <2>17, <2>21, <2>23, <2>24, <2>25, <2>26 DEF Extra, Good
  <2> QED BY <2>27, HoldOne DEF g, e
<1> QED BY <1>4, <1>5

\* The node of a new page allocation, in front of the list of them.
NewPages(k, m, d, next) ==
    [k EXCEPT !.node[m] = [Unused EXCEPT !.kind = "pages", !.desc = d, !.next = next],
              !.part[CACHE_END_ORDER] = m]

LEMMA NewPagesIs ==
    ASSUME NEW k \in Heap, NEW m \in Mem, NEW d \in Object, NEW next \in Link
    PROVE  LET g == NewPages(k, m, d, next)
           IN  /\ g \in Heap /\ g.full = k.full /\ g.part = [k.part EXCEPT ![CACHE_END_ORDER] = m]
               /\ \A x \in Mem \ {m} : g.node[x] = k.node[x]
               /\ SameBut(k, g, m)
               /\ g.node[m].kind = "pages" /\ g.node[m].desc = d /\ g.node[m].next = next
<1> DEFINE t == [Unused EXCEPT !.kind = "pages", !.desc = d, !.next = next]
           g == NewPages(k, m, d, next)
           E == CACHE_END_ORDER
<1>1. t \in Node /\ t.kind = "pages" /\ t.desc = d /\ t.next = next
  <2> DEFINE u == Unused
  <2>1. u \in Node /\ t = [u EXCEPT !.kind = "pages", !.desc = d, !.next = next]
    BY UnusedNode
  <2> HIDE DEF u, t
  <2> QED BY <2>1 DEF Node, Kinds
<1> HIDE DEF t
<1>2. k.node \in [Mem -> Node] /\ k.part \in [Orders -> Link] /\ E \in Orders /\ m \in Link
  BY Facts DEF Heap, Link
<1>3. g = [k EXCEPT !.node = [k.node EXCEPT ![m] = t], !.part = [k.part EXCEPT ![E] = m]]
  BY <1>2 DEF NewPages, Heap, t
<1> HIDE DEF g, E
<1>4. g \in Heap /\ g.full = k.full /\ g.part = [k.part EXCEPT ![E] = m] /\ g.node = [k.node EXCEPT ![m] = t]
  BY <1>1, <1>2, <1>3 DEF Heap
<1>5. g.node[m] = t /\ \A x \in Mem \ {m} : g.node[x] = k.node[x]
  BY <1>2, <1>4
<1> QED BY <1>1, <1>4, <1>5 DEF g, E, SameBut

\* A page allocation in front of the list.
LEMMA PageListPush ==
    ASSUME NEW h, NEW g, NEW head, NEW S, PageList(h, head, S), NEW m \in Mem, m \notin S, Null \notin Mem,
           g.node[m].next = head, g.node[m].kind = "pages", \A x \in S : g.node[x] = h.node[x]
    PROVE  PageList(g, m, S \cup {m})
<1>1. IsList(h, head, S) /\ Single(h, head, S) /\ (\A x \in S : h.node[x].kind = "pages")
  BY DEF PageList
<1>2. IsList(g, m, S \cup {m})
  BY <1>1, ListPush
<1>3. \A x \in S : h.node[x].next \in S \cup {Null}
  BY <1>1 DEF IsList
<1>4. Single(g, m, S \cup {m})
  <2>1. \A x \in S : g.node[x].next # m /\ (g.node[x].next # Null => g.node[x].next # head)
    BY <1>1, <1>3 DEF Single
  <2>2. head # m
    BY <1>1 DEF IsList
  <2>3. \A x, y \in S : g.node[x].next = g.node[y].next /\ g.node[x].next # Null => x = y
    BY <1>1 DEF Single
  <2>4. \A x \in S \cup {m} : g.node[x].next # Null => g.node[x].next # m
    BY <2>1, <2>2
  <2>5. \A x, y \in S \cup {m} : g.node[x].next = g.node[y].next /\ g.node[x].next # Null => x = y
    BY <2>1, <2>3
  <2> QED BY <2>4, <2>5 DEF Single
<1> QED BY <1>1, <1>2, <1>4 DEF PageList

LEMMA KallocPagesTop ==
    ASSUME NEW h, NEW H, Top(h, H), ~SharedHeadIs(h, "slab"), NEW m \in UnusedMem(h),
           NEW r \in KallocOnSlab(Reserve(h, m), PageAllocationOrder)
    PROVE  Top(NewPages(r.heap, m, r.obj, page_allocation_list(h)), H \cup {<<m, 0>>})
<1> DEFINE E == CACHE_END_ORDER
           O == PageAllocationOrder
           h1 == Reserve(h, m)
           k == r.heap
           d == r.obj
           head == page_allocation_list(h)
           g == NewPages(k, m, d, head)
           p == <<m, 0>>
           K == H \cup {p}
<1>1. PICK P, F : Good(h, P, F, Objects(h, H), H, {})
  BY DEF Top
<1>2. Lists(h, P, F) /\ h \in Heap
  BY <1>1 DEF Good, Sound, Lists
<1>3. PageList(h, head, P[E]) /\ head = h.part[E] /\ head \in Link
  BY <1>2, SharedPages, Facts DEF page_allocation_list, Heap
<1>4. /\ Good(h1, P, F, Objects(h1, H), H, {m}) /\ m \in Mem /\ h1.part = h.part
      /\ \A x \in Mem \ {m} : h1.node[x].kind = h.node[x].kind
  BY <1>1, ReserveGood
<1> HIDE DEF h1
<1>5. Lists(h1, P, F) /\ h1 \in Heap
  BY <1>4 DEF Good, Sound, Lists
<1>6. O \in Orders /\ OnSlab(O) /\ O # E /\ E \in Orders /\ SlabList(h1, h1.part[O], P[O]) /\ Null \notin Mem
  BY <1>5, OnSlabPart, Facts
<1>7. PICK P2, F2 : Extra(k, P2, F2, H, {m}, O, d) /\ Grew(h1, P, F, k, P2, F2, O)
  BY <1>4, <1>6, GetOne DEF h1
<1> DEFINE U == Objects(k, H) \cup {d}
           Q == With(P2, E, m)
<1> HIDE DEF k, d, head
<1>8. /\ d \in Mem \X Nat /\ d[1] \in P2[O] \cup F2[O]
      /\ Sound(k, P2, F2, U) /\ Busy(k) /\ Described(k, P2, F2) /\ HeldOK(k, H) /\ Reserved(k) = {m}
  BY <1>7 DEF Extra, Good
<1>9. Lists(k, P2, F2) /\ Members(k, P2, F2, U) /\ Apart(P2, F2) /\ P2 \in [Orders -> SUBSET Mem] /\ k \in Heap
  BY <1>8 DEF Sound, Lists, Apart
<1>10. k.part[E] = head /\ P2[E] = P[E]
  BY <1>3, <1>4, <1>6, <1>7 DEF Grew, OtherCaches
<1>11. k.node[m].kind = "reserved" /\ d \in Object /\ m \notin Listed(P2, F2)
  <2>1. k.node[m].kind = "reserved"
    BY <1>8 DEF Reserved
  <2>2. m \notin Listed(P2, F2)
    BY <1>9, <2>1, ListedKind
  <2> QED BY <1>8, <2>1, <2>2 DEF Object, Link
<1>12. PageList(k, head, P2[E])
  <2>1. ~SharedHeadIs(k, "slab")
    <3> SUFFICES ASSUME head # Null, k.node[head].kind = "slab" PROVE FALSE
      BY <1>10 DEF SharedHeadIs, page_allocation_list
    <3>1. head \in P[E] /\ head \in Mem /\ h.node[head].kind = "pages"
      BY <1>3 DEF PageList, IsList
    <3>2. head # m
      BY <3>1 DEF UnusedMem
    <3>3. h1.node[head].kind = "pages"
      BY <1>4, <3>1, <3>2
    <3>4. k.node[head].kind = h1.node[head].kind \/ h1.node[head].kind = "unused"
      BY <1>7, <3>1 DEF Grew, Kept, NewIn
    <3> QED BY <3>3, <3>4
  <2> QED BY <1>9, <1>10, <2>1, SharedPages
<1>13. /\ g \in Heap /\ g.full = k.full /\ g.part = [k.part EXCEPT ![E] = m]
       /\ \A x \in Mem \ {m} : g.node[x] = k.node[x]
       /\ SameBut(k, g, m)
       /\ g.node[m].kind = "pages" /\ g.node[m].desc = d /\ g.node[m].next = head
  BY <1>3, <1>4, <1>9, <1>11, NewPagesIs
<1>14. Apart(Q, F2)
  BY <1>4, <1>6, <1>9, <1>11, WithApart
<1>15. ListsBut(P2, Q, m) /\ \A q \in Orders : Q[q] = IF q = E THEN P2[E] \cup {m} ELSE P2[q]
  <2>1. P2 \in [Orders -> SUBSET Mem] /\ E \in Orders /\ m \in Mem
    BY <1>4, <1>6, <1>9
  <2> HIDE DEF E
  <2> QED BY <2>1, WithIs
<1> HIDE DEF g, Q, U
<1>16. g.part[E] = m /\ \A q \in Orders \ {E} : Q[q] = P2[q] /\ g.part[q] = k.part[q]
  BY <1>6, <1>9, <1>13, <1>15 DEF Heap
<1>17. PageList(g, g.part[E], Q[E])
  <2>1. m \notin P2[E] /\ P2[E] \subseteq Mem
    BY <1>6, <1>9, <1>11 DEF Listed
  <2>2. \A x \in P2[E] : g.node[x] = k.node[x]
    BY <1>13, <2>1
  <2>3. PageList(g, m, P2[E] \cup {m})
    BY <1>4, <1>6, <1>12, <1>13, <2>1, <2>2, PageListPush
  <2> QED BY <1>6, <1>15, <1>16, <2>3
<1>18. k.node[m].kind # "slab" /\ g.node[m].kind # "slab" /\ m \in Q[E]
       /\ \A x \in Mem \ {m} : k.node[x].kind = "slab" => g.node[x] = k.node[x]
  BY <1>6, <1>11, <1>13, <1>15
<1>19. Sound(g, Q, F2, U)
  <2>1. m \in Mem /\ g \in Heap /\ g.full = k.full /\ SameBut(k, g, m) /\ Sound(k, P2, F2, U)
        /\ Apart(Q, F2) /\ ListsBut(P2, Q, m) /\ PageList(g, g.part[CACHE_END_ORDER], Q[CACHE_END_ORDER])
    BY <1>4, <1>8, <1>13, <1>14, <1>15, <1>17
  <2>2. \A q \in Orders \ {CACHE_END_ORDER} : Q[q] = P2[q] /\ g.part[q] = k.part[q]
    BY <1>16
  <2>3. k.node[m].kind # "slab" /\ g.node[m].kind # "slab" /\ m \in Q[CACHE_END_ORDER]
        /\ \A x \in Mem \ {m} : k.node[x].kind = "slab" => g.node[x] = k.node[x]
    BY <1>18
  <2> QED BY <2>1, <2>2, <2>3, SharedList
<1>20. \A x \in Mem \ {m} : g.node[x].kind = k.node[x].kind /\ g.node[x].desc = k.node[x].desc
                            /\ g.node[x].allocated = k.node[x].allocated
  BY <1>13
<1>21. Attached(k, g, H, m, d)
  BY <1>4, <1>7, <1>13, <1>20, Attach
<1>22. Objects(g, K) = U
  <2>1. {q \in K : g.node[q[1]].kind = "slab"} = {q \in H : g.node[q[1]].kind = "slab"}
    BY <1>13
  <2>2. Objects(g, K) = Objects(g, H)
    BY <2>1 DEF Objects
  <2> QED BY <1>21, <2>2 DEF Attached, U
<1>23. HeldOK(g, K)
  <2>1. K \subseteq Mem \X Nat
    BY <1>4, <1>8 DEF HeldOK
  <2>2. \A q \in K : g.node[q[1]].kind = "slab" \/ (g.node[q[1]].kind = "pages" /\ q[2] = 0)
    <3>1. \A q \in H : g.node[q[1]].kind = "slab" \/ (g.node[q[1]].kind = "pages" /\ q[2] = 0)
      BY <1>8, <1>21 DEF HeldOK, Attached
    <3>2. g.node[p[1]].kind = "pages" /\ p[2] = 0
      BY <1>13
    <3> HIDE DEF p
    <3> QED BY <3>1, <3>2
  <2>3. \A x \in Mem : g.node[x].kind = "pages" => <<x, 0>> \in K
    BY <1>8, <1>20 DEF HeldOK
  <2>4. \A x \in Mem : g.node[x].desc \notin K
    BY <1>21 DEF Attached
  <2> QED BY <2>1, <2>2, <2>3, <2>4 DEF HeldOK
<1>24. Busy(g)
  BY <1>8, <1>13, <1>20 DEF Busy
<1>25. Described(g, Q, F2)
  <2>1. Q[SlabOrder] = P2[SlabOrder] /\ Q[O] = P2[O]
    BY <1>6, <1>15, Facts
  <2>2. \A x \in Mem : g.node[x].kind = "pages" => g.node[x].desc[1] \in Q[O] \cup F2[O]
    BY <1>8, <1>13, <1>20, <2>1 DEF Described
  <2>3. ASSUME NEW q \in Orders, NEW x \in Q[q] \cup F2[q], g.node[x].kind = "slab"
        PROVE  IF OnSlab(q) THEN g.node[x].desc = NoObject
               ELSE g.node[x].desc[1] \in Q[SlabOrder] \cup F2[SlabOrder]
    <3>1. x \in Mem /\ x # m
      BY <1>13, <1>14, <2>3 DEF Apart
    <3>2. x \in P2[q] \cup F2[q]
      BY <1>15, <3>1
    <3>3. k.node[x].kind = "slab" /\ g.node[x].desc = k.node[x].desc
      BY <1>20, <2>3, <3>1
    <3> QED BY <1>8, <2>1, <3>2, <3>3 DEF Described
  <2> QED BY <1>21, <2>2, <2>3 DEF Described, Attached
<1>26. Good(g, Q, F2, Objects(g, K), K, {})
  BY <1>19, <1>21, <1>22, <1>23, <1>24, <1>25 DEF Good, Attached
<1>27. Top(g, K)
  BY <1>26 DEF Top
<1> QED BY <1>27 DEF g, k, d, head

\* The smallest order whose objects are large enough, or one past the last.
LEMMA MinOrder ==
    ASSUME NEW size
    PROVE  get_min_cache_order(size) \in CACHE_START_ORDER .. CACHE_END_ORDER + 1
<1> DEFINE A == CACHE_START_ORDER
           B == CACHE_END_ORDER
           Small(q) == 2 ^ q < size
           T == {q \in A .. B : ~Small(q)}
           Fits(o) == (o <= B => ~Small(o)) /\ \A q \in A .. o - 1 : Small(q)
<1>1. A \in Nat /\ B \in Nat /\ A <= B
  BY OrderAssumption
<1>2. \E o \in A .. B + 1 : Fits(o)
  <2> HIDE DEF A, B, Small
  <2>1. CASE T = {}
    <3>1. B + 1 \in A .. B + 1 /\ ~(B + 1 <= B) /\ \A q \in A .. (B + 1) - 1 : q \in A .. B
      BY <1>1
    <3>2. \A q \in A .. (B + 1) - 1 : Small(q)
      BY <2>1, <3>1
    <3> QED BY <3>1, <3>2
  <2>2. CASE T # {}
    <3>1. T \subseteq Nat
      BY <1>1
    <3> HIDE DEF T
    <3>2. PICK o \in T : \A q \in T : o <= q
      BY <2>2, <3>1, MinOf
    <3>3. o \in A .. B /\ ~Small(o)
      BY DEF T
    <3>4. \A q \in A .. o - 1 : q \in A .. B /\ ~(o <= q)
      BY <1>1, <3>3
    <3>5. \A q \in A .. o - 1 : Small(q)
      BY <3>2, <3>4 DEF T
    <3>6. o \in A .. B + 1
      BY <1>1, <3>3
    <3> QED BY <3>3, <3>5, <3>6
  <2> QED BY <2>1, <2>2
<1>3. get_min_cache_order(size) = CHOOSE o \in A .. B + 1 : Fits(o)
  BY DEF get_min_cache_order
<1> QED BY <1>2, <1>3

LEMMA OrderOf ==
    ASSUME NEW size, get_min_cache_order(size) <= CACHE_END_ORDER
    PROVE  get_min_cache_order(size) \in Orders
<1> DEFINE o == get_min_cache_order(size)
<1>1. o \in CACHE_START_ORDER .. CACHE_END_ORDER + 1
  BY MinOrder
<1> HIDE DEF o
<1> QED BY <1>1, OrderAssumption DEF Orders, o

-----------------------------------------------------------------------------
(* The invariant of the specification.                                     *)

HeapInv ==
    /\ Top(heap, held)
    /\ kernel \in {"running", "null page allocation", "shared list"}

LEMMA InitHeap == Init => HeapInv
<1> SUFFICES ASSUME Init PROVE Top(heap, held)
  BY DEF HeapInv, Init
<1> DEFINE P == [o \in Orders |-> {}]
           N == [o \in Orders |-> Null]
<1>1. heap.part = N /\ heap.full = N /\ heap.node = [m \in Mem |-> Unused] /\ held = {} /\ heap \in Heap
  <2>1. heap = [part |-> N, full |-> N, node |-> [m \in Mem |-> Unused]] /\ held = {}
    BY DEF Init
  <2>2. N \in [Orders -> Link] /\ [m \in Mem |-> Unused] \in [Mem -> Node]
    BY UnusedNode DEF Link
  <2> HIDE DEF N
  <2> QED BY <2>1, <2>2 DEF Heap
<1>2. \A m \in Mem : heap.node[m].kind = "unused" /\ heap.node[m].desc = NoObject
  BY <1>1 DEF Unused
<1>3. \A o \in Orders : P[o] = {} /\ heap.part[o] = Null /\ heap.full[o] = Null
  BY <1>1
<1>4. P \in [Orders -> SUBSET Mem] /\ Apart(P, P) /\ Listed(P, P) = {}
  BY DEF Apart, Listed
<1> HIDE DEF P
<1>5. \A o \in Orders : SlabList(heap, heap.part[o], P[o]) /\ SlabList(heap, heap.full[o], P[o])
  BY <1>3 DEF SlabList, IsList, BackLinks
<1>6. Lists(heap, P, P)
  BY <1>1, <1>4, <1>5 DEF Lists
<1>7. Objects(heap, held) = {}
  BY <1>1, <1>2 DEF Objects
<1>8. Content(heap, P, P, {}) /\ Members(heap, P, P, {})
  BY <1>2, <1>3 DEF Content, Members
<1>9. Described(heap, P, P)
  BY <1>2, <1>3 DEF Described
<1>10. HeldOK(heap, held) /\ Busy(heap) /\ Reserved(heap) = {}
  BY <1>1, <1>2 DEF HeldOK, Busy, Reserved
<1>11. Good(heap, P, P, Objects(heap, held), held, {})
  BY <1>6, <1>7, <1>8, <1>9, <1>10 DEF Good, Sound
<1> QED BY <1>11 DEF Top

LEMMA NextHeap == HeapInv /\ [Next]_vars => HeapInv'
<1> SUFFICES ASSUME HeapInv, [Next]_vars PROVE HeapInv'
  OBVIOUS
<1>1. Top(heap, held) /\ kernel \in {"running", "null page allocation", "shared list"}
  BY DEF HeapInv
<1>2. ASSUME NEW size \in Sizes, kalloc(size) PROVE HeapInv'
  <2> DEFINE o == get_min_cache_order(size)
  <2>1. /\ o <= CACHE_END_ORDER /\ (o = CACHE_END_ORDER => ~SharedHeadIs(heap, "pages"))
        /\ kernel' = kernel
        /\ \E r \in Kalloc(heap, o) : heap' = r.heap /\ held' = held \cup {r.obj}
    BY <1>2 DEF kalloc
  <2>2. o \in Orders
    BY <2>1, OrderOf
  <2> HIDE DEF o
  <2>3. PICK r \in Kalloc(heap, o) : heap' = r.heap /\ held' = held \cup {r.obj}
    BY <2>1
  <2>4. Top(r.heap, held \cup {r.obj})
    BY <1>1, <2>1, <2>2, KallocTop
  <2> QED BY <1>1, <2>1, <2>3, <2>4 DEF HeapInv
<1>3. ASSUME NEW size \in Sizes, KallocPages(size) PROVE HeapInv'
  <2>1. /\ ~SharedHeadIs(heap, "slab") /\ kernel' = kernel
        /\ \E m \in UnusedMem(heap) : \E r \in KallocOnSlab(Reserve(heap, m), PageAllocationOrder) :
               /\ heap' = NewPages(r.heap, m, r.obj, page_allocation_list(heap))
               /\ held' = held \cup {<<m, 0>>}
    BY <1>3 DEF KallocPages, NewPages
  <2>2. PICK m \in UnusedMem(heap) :
            \E r \in KallocOnSlab(Reserve(heap, m), PageAllocationOrder) :
               /\ heap' = NewPages(r.heap, m, r.obj, page_allocation_list(heap))
               /\ held' = held \cup {<<m, 0>>}
    BY <2>1
  <2>3. PICK r \in KallocOnSlab(Reserve(heap, m), PageAllocationOrder) :
               /\ heap' = NewPages(r.heap, m, r.obj, page_allocation_list(heap))
               /\ held' = held \cup {<<m, 0>>}
    BY <2>2
  <2>4. Top(NewPages(r.heap, m, r.obj, page_allocation_list(heap)), held \cup {<<m, 0>>})
    BY <1>1, <2>1, KallocPagesTop
  <2> QED BY <1>1, <2>1, <2>3, <2>4 DEF HeapInv
<1>4. ASSUME NEW p \in held, kfree(p) PROVE HeapInv'
  <2>1. PICK o \in CachesOf(heap, p[1]) :
            /\ ~ (o = CACHE_END_ORDER /\ heap.node[p[1]].allocated = Count[o] /\ SharedHeadIs(heap, "pages"))
            /\ heap' = Kfree(heap, o, p)
    BY <1>4 DEF kfree
  <2>2. Top(Kfree(heap, o, p), held \ {p})
    BY <1>1, <2>1, KfreeTop
  <2>3. held' = held \ {p} /\ kernel' = kernel
    BY <1>4 DEF kfree
  <2> QED BY <1>1, <2>1, <2>2, <2>3 DEF HeapInv
<1>5. ASSUME NEW p \in held, KfreePages(p) PROVE HeapInv'
  <2> DEFINE d == heap.node[p[1]].desc
  <2>1. /\ InPageList(heap, p[1])
        /\ heap' = FreeObject(UnlinkPages(heap, p[1]), PageAllocationOrder, d[1], d[2])
        /\ held' = held \ {p} /\ kernel' = kernel
    BY <1>5 DEF KfreePages
  <2>2. Top(FreeObject(UnlinkPages(heap, p[1]), PageAllocationOrder, d[1], d[2]), held \ {p})
    BY <1>1, <2>1, KfreePagesTop
  <2> QED BY <1>1, <2>1, <2>2 DEF HeapInv
<1>6. ASSUME UNCHANGED <<heap, held>>, kernel' \in {"running", "null page allocation", "shared list"}
      PROVE  HeapInv'
  BY <1>1, <1>6 DEF HeapInv
<1>7. ASSUME NEW size \in Sizes, KallocFails(size) \/ KallocPagesNull(size) PROVE HeapInv'
  BY <1>1, <1>6, <1>7 DEF KallocFails, KallocPagesNull, Stop, vars
<1>8. CASE SharedListUsed
  BY <1>6, <1>8 DEF SharedListUsed, Stop
<1>9. CASE Halted \/ UNCHANGED vars
  BY <1>1, <1>6, <1>9 DEF Halted, vars
<1> QED BY <1>2, <1>3, <1>4, <1>5, <1>7, <1>8, <1>9 DEF Next

LEMMA HeapAlways == Spec => []HeapInv
BY InitHeap, NextHeap, PTL DEF Spec

-----------------------------------------------------------------------------
(* What it says about the heap.                                            *)

LEMMA HeapTyped == HeapInv => TypeOK
<1> SUFFICES ASSUME HeapInv PROVE TypeOK
  OBVIOUS
<1>1. PICK P, F : Good(heap, P, F, Objects(heap, held), held, {})
  BY DEF HeapInv, Top
<1>2. heap \in Heap /\ held \subseteq Mem \X Nat /\ Reserved(heap) = {}
  BY <1>1 DEF Good, Sound, Lists, HeldOK
<1>3. heap.node \in [Mem -> Node] /\ heap.part \in [Orders -> Link] /\ heap.full \in [Orders -> Link]
  BY <1>2 DEF Heap
<1>4. ASSUME NEW m \in Mem
      PROVE  LET s == heap.node[m]
             IN  /\ s.kind \in Kinds /\ s.next \in Link /\ s.prev \in Link
                 /\ s.allocated \in Nat /\ s.next_free \in Nat
  <2>1. heap.node[m] \in Node /\ heap.node[m].kind # "reserved"
    BY <1>2, <1>3 DEF Reserved
  <2> QED BY <2>1 DEF Node
<1> QED BY <1>2, <1>3, <1>4 DEF TypeOK, HeapInv

LEMMA UseIs == HeapInv => InUse = Objects(heap, held)
<1> SUFFICES ASSUME HeapInv PROVE InUse = Objects(heap, held)
  OBVIOUS
<1>1. held \subseteq Mem \X Nat
  BY DEF HeapInv, Top, Good, HeldOK
<1>2. {p \in held : p[1] \in Slabs} = {p \in held : heap.node[p[1]].kind = "slab"}
  BY <1>1 DEF Slabs
<1> QED BY <1>2 DEF InUse, Objects

LEMMA HeapFreeable == HeapInv => EveryPointerFreeable
<1> SUFFICES ASSUME HeapInv, NEW p \in held PROVE CachesOf(heap, p[1]) # {} \/ InPageList(heap, p[1])
  BY DEF EveryPointerFreeable
<1>1. PICK P, F : Good(heap, P, F, Objects(heap, held), held, {})
  BY DEF HeapInv, Top
<1>2. Lists(heap, P, F) /\ Members(heap, P, F, Objects(heap, held)) /\ HeldOK(heap, held)
  BY <1>1 DEF Good, Sound
<1>3. p[1] \in Mem /\ heap.node[p[1]].kind \in {"slab", "pages"}
  BY <1>2 DEF HeldOK
<1>4. PICK o \in Orders : p[1] \in P[o] \cup F[o]
  BY <1>2, <1>3 DEF Members, Listed
<1>5. CASE heap.node[p[1]].kind = "slab"
  <2>1. o \in CachesOf(heap, p[1])
    BY <1>2, <1>4, <1>5, CachesAre
  <2> QED BY <2>1
<1>6. CASE heap.node[p[1]].kind = "pages"
  <2>1. o = CACHE_END_ORDER /\ PageList(heap, heap.part[o], P[o]) /\ p[1] \in P[o]
    BY <1>2, <1>4, <1>6 DEF Lists, SlabList
  <2>2. Walk(heap, heap.part[o]) = P[o]
    BY <2>1, WalkIs DEF PageList
  <2> QED BY <1>6, <2>1, <2>2 DEF InPageList, page_allocation_list
<1> QED BY <1>3, <1>5, <1>6

ObjectsExact(m, o) ==
    LET s == heap.node[m]
        used == {p[2] : p \in {q \in InUse : q[1] = m}}
    IN  /\ used = Used(InUse, m)
        /\ Cardinality(used) = s.allocated
        /\ \E c \in [1 .. Count[o] - s.allocated -> 0 .. Count[o] - 1] :
               /\ FreeChain(s, c)
               /\ {c[k] : k \in DOMAIN c} = (0 .. Count[o] - 1) \ used

\* A slab has as many objects in use as it counts, and a chain through the others.
LEMMA SlabObjects ==
    ASSUME HeapInv, NEW P, NEW F, Good(heap, P, F, Objects(heap, held), held, {}),
           NEW o \in Orders, NEW m \in P[o] \cup F[o], heap.node[m].kind = "slab"
    PROVE  ObjectsExact(m, o)
<1> DEFINE s == heap.node[m]
           used == {p[2] : p \in {q \in InUse : q[1] = m}}
           n == Count[o]
<1>1. Content(heap, P, F, InUse) /\ InUse \subseteq Mem \X Nat
  BY UseIs DEF Good, Sound, Members
<1>2. used = Used(InUse, m)
  <2>1. ASSUME NEW i \in used PROVE i \in Used(InUse, m)
    <3>1. PICK p \in InUse : p[1] = m /\ i = p[2]
      BY <2>1
    <3>2. p = <<m, i>> /\ i \in Nat
      BY <1>1, <3>1
    <3> QED BY <3>1, <3>2 DEF Used
  <2>2. ASSUME NEW i \in Used(InUse, m) PROVE i \in used
    <3>1. <<m, i>> \in InUse
      BY DEF Used
    <3>2. <<m, i>> \in {q \in InUse : q[1] = m}
      BY <3>1
    <3>3. <<m, i>>[2] = i
      OBVIOUS
    <3> QED BY <3>2, <3>3
  <2> QED BY <2>1, <2>2
<1>3. SlabOK(s, n, Used(InUse, m))
  BY <1>1 DEF Content, PartlyUsed, FullyUsed
<1> HIDE DEF used
<1>4. SlabOK(s, n, used)
  BY <1>2, <1>3
<1>5. PICK c : FreeObjects(s, n, used, c)
  BY <1>4 DEF SlabOK
<1>6. c \in [1 .. n - s.allocated -> 0 .. n - 1] /\ FreeChain(s, c)
  BY <1>5 DEF FreeObjects
<1>7. {c[k] : k \in DOMAIN c} = (0 .. n - 1) \ used
  <2>1. \A i \in 0 .. n - 1 : i \notin used <=> \E k \in DOMAIN c : c[k] = i
    BY <1>5 DEF FreeObjects
  <2>2. \A k \in DOMAIN c : c[k] \in 0 .. n - 1
    BY <1>6
  <2> QED BY <2>1, <2>2
<1>8. Cardinality(used) = s.allocated
  BY <1>4 DEF SlabOK
<1> QED BY <1>2, <1>6, <1>7, <1>8 DEF used, ObjectsExact

LEMMA HeapExact == HeapInv => SlabsExact
<1> SUFFICES ASSUME HeapInv PROVE SlabsExact
  OBVIOUS
<1>1. PICK P, F : Good(heap, P, F, Objects(heap, held), held, {})
  BY DEF HeapInv, Top
<1>2. /\ Lists(heap, P, F) /\ Content(heap, P, F, Objects(heap, held)) /\ Apart(P, F)
      /\ Members(heap, P, F, Objects(heap, held))
  BY <1>1 DEF Good, Sound, Lists
<1>3. ASSUME NEW o \in Orders
      PROVE  /\ Walk(heap, heap.part[o]) = P[o] /\ Walk(heap, heap.full[o]) = F[o]
             /\ P[o] \subseteq Mem /\ F[o] \subseteq Mem
  <2>1. IsList(heap, heap.part[o], P[o]) /\ IsList(heap, heap.full[o], F[o])
    BY <1>2 DEF Lists, SlabList, PageList
  <2> QED BY <1>2, <2>1, WalkIs DEF Apart
<1>4. ASSUME NEW m \in Slabs
      PROVE  /\ Cardinality(CachesOf(heap, m)) = 1
             /\ \A o \in CachesOf(heap, m) :
                  LET s == heap.node[m]
                      used == {p[2] : p \in {q \in InUse : q[1] = m}}
                  IN  /\ Cardinality(used) = s.allocated
                      /\ \E c \in [1 .. Count[o] - s.allocated -> 0 .. Count[o] - 1] :
                             /\ FreeChain(s, c)
                             /\ {c[k] : k \in DOMAIN c} = (0 .. Count[o] - 1) \ used
  <2>1. m \in Mem /\ heap.node[m].kind = "slab"
    BY DEF Slabs
  <2>2. PICK q \in Orders : m \in P[q] \cup F[q]
    BY <1>2, <2>1 DEF Members, Listed
  <2>3. CachesOf(heap, m) = {o \in Orders : m \in P[o] \cup F[o]}
    BY <1>2, <2>1, CachesAre
  <2>4. CachesOf(heap, m) = {q}
    <3>1. \A o \in Orders : m \in P[o] \cup F[o] => o = q
      BY <1>2, <2>2, OneOrder
    <3> QED BY <2>2, <2>3, <3>1
  <2>5. Cardinality(CachesOf(heap, m)) = 1
    BY <2>4, FS_Singleton
  <2>6. ASSUME NEW o \in CachesOf(heap, m)
        PROVE  LET s == heap.node[m]
                   used == {p[2] : p \in {r \in InUse : r[1] = m}}
               IN  /\ Cardinality(used) = s.allocated
                   /\ \E c \in [1 .. Count[o] - s.allocated -> 0 .. Count[o] - 1] :
                          /\ FreeChain(s, c)
                          /\ {c[k] : k \in DOMAIN c} = (0 .. Count[o] - 1) \ used
    <3>1. o \in Orders /\ m \in P[o] \cup F[o]
      BY <2>3
    <3>2. ObjectsExact(m, o)
      BY <1>1, <2>1, <3>1, SlabObjects
    <3> QED BY <3>2 DEF ObjectsExact
  <2> QED BY <2>5, <2>6
<1>5. ASSUME NEW o \in Orders
      PROVE  /\ \A m \in Walk(heap, heap.full[o]) \cap Slabs : heap.node[m].allocated = Count[o]
             /\ \A m \in Walk(heap, heap.part[o]) \cap Slabs : heap.node[m].allocated < Count[o]
             /\ \A head \in {heap.part[o], heap.full[o]} :
                  /\ head \in Slabs => heap.node[head].prev = Null
                  /\ \A m \in Walk(heap, head) \cap Slabs :
                         LET next == heap.node[m].next
                         IN  next # Null => next \in Slabs /\ heap.node[next].prev = m
  <2>1. \A m \in Walk(heap, heap.full[o]) \cap Slabs : heap.node[m].allocated = Count[o]
    BY <1>2, <1>3 DEF Content, FullyUsed
  <2>2. \A m \in Walk(heap, heap.part[o]) \cap Slabs : heap.node[m].allocated < Count[o]
    BY <1>2, <1>3 DEF Content, PartlyUsed, Slabs
  <2>3. ASSUME NEW head, NEW S \in SUBSET Mem, SlabList(heap, head, S), Walk(heap, head) = S
        PROVE  /\ head \in Slabs => heap.node[head].prev = Null
               /\ \A m \in Walk(heap, head) \cap Slabs :
                      LET next == heap.node[m].next
                      IN  next # Null => next \in Slabs /\ heap.node[next].prev = m
    <3>1. head \in Slabs => head # Null
      BY Facts DEF Slabs
    <3> QED BY <2>3, <3>1 DEF SlabList, BackLinks, IsList, Slabs
  <2>4. ASSUME NEW head, NEW S \in SUBSET Mem, PageList(heap, head, S), Walk(heap, head) = S
        PROVE  head \notin Slabs /\ Walk(heap, head) \cap Slabs = {}
    <3>1. head \in Slabs => head # Null
      BY Facts DEF Slabs
    <3> QED BY <2>4, <3>1 DEF PageList, IsList, Slabs
  <2>5. SlabList(heap, heap.full[o], F[o])
        /\ (SlabList(heap, heap.part[o], P[o]) \/ PageList(heap, heap.part[o], P[o]))
    BY <1>2 DEF Lists
  <2>6. ASSUME NEW head \in {heap.part[o], heap.full[o]}
        PROVE  /\ head \in Slabs => heap.node[head].prev = Null
               /\ \A m \in Walk(heap, head) \cap Slabs :
                      LET next == heap.node[m].next
                      IN  next # Null => next \in Slabs /\ heap.node[next].prev = m
    <3>1. CASE head = heap.full[o]
      BY <1>3, <2>3, <2>5, <3>1
    <3>2. CASE head = heap.part[o] /\ SlabList(heap, heap.part[o], P[o])
      BY <1>3, <2>3, <3>2
    <3>3. CASE head = heap.part[o] /\ PageList(heap, heap.part[o], P[o])
      <4>1. head \notin Slabs /\ Walk(heap, head) \cap Slabs = {}
        BY <1>3, <2>4, <3>3
      <4> QED BY <4>1
    <3> QED BY <2>5, <3>1, <3>2, <3>3
  <2> QED BY <2>1, <2>2, <2>6
<1> QED BY <1>4, <1>5, HeapTyped DEF SlabsExact

\* A slab has an object in use.
LEMMA SlabInUse ==
    ASSUME HeapInv, NEW P, NEW F, Good(heap, P, F, Objects(heap, held), held, {}),
           NEW m \in Mem, heap.node[m].kind = "slab"
    PROVE  \E p \in InUse : p[1] = m
<1>1. Members(heap, P, F, InUse) /\ Busy(heap)
  BY UseIs DEF Good, Sound
<1>2. PICK o \in Orders : m \in P[o] \cup F[o]
  BY <1>1 DEF Members, Listed
<1>3. Cardinality(Used(InUse, m)) = heap.node[m].allocated
  <2>1. ObjectsExact(m, o)
    BY <1>2, SlabObjects
  <2> QED BY <2>1 DEF ObjectsExact
<1>4. heap.node[m].allocated >= 1
  BY <1>1 DEF Busy
<1>5. Used(InUse, m) # {}
  <2> SUFFICES ASSUME Used(InUse, m) = {} PROVE FALSE
    OBVIOUS
  <2>1. Cardinality(Used(InUse, m)) = 0
    BY FS_EmptySet
  <2> QED BY <1>3, <1>4, <2>1
<1>6. PICK i : <<m, i>> \in InUse
  BY <1>5 DEF Used
<1>7. <<m, i>>[1] = m
  OBVIOUS
<1> QED BY <1>6, <1>7

LEMMA HeapNothingLost == HeapInv => NoPagesLost
<1> SUFFICES ASSUME HeapInv PROVE NoPagesLost
  OBVIOUS
<1>1. PICK P, F : Good(heap, P, F, Objects(heap, held), held, {})
  BY DEF HeapInv, Top
<1>2. /\ Lists(heap, P, F) /\ Members(heap, P, F, InUse) /\ Apart(P, F) /\ HeldOK(heap, held)
      /\ Described(heap, P, F)
  BY <1>1, UseIs DEF Good, Sound, Lists
<1>3. \A m \in Mem : heap.node[m].kind \in {"unused", "slab", "pages"}
  BY HeapTyped DEF TypeOK, Kinds
<1>4. ASSUME NEW m \in Mem, heap.node[m].kind # "unused" PROVE \E p \in InUse \cup held : p[1] = m
  <2>1. CASE heap.node[m].kind = "slab"
    BY <1>1, <2>1, SlabInUse
  <2>2. CASE heap.node[m].kind = "pages"
    <3>1. <<m, 0>> \in held /\ <<m, 0>>[1] = m
      BY <1>2, <2>2 DEF HeldOK
    <3> QED BY <3>1
  <2> QED BY <1>3, <1>4, <2>1, <2>2
<1>5. ASSUME held = {} PROVE UnusedMem(heap) = Mem
  <2>1. \A m \in Mem : heap.node[m].kind # "pages"
    BY <1>2, <1>5 DEF HeldOK
  <2>2. ASSUME NEW m \in Mem, heap.node[m].kind = "slab"
        PROVE  \E y \in Mem : heap.node[y].kind = "slab" /\ heap.node[y].desc # NoObject /\ heap.node[y].desc[1] = m
    <3>1. PICK p \in InUse : p[1] = m
      BY <1>1, <2>2, SlabInUse
    <3>2. PICK y \in Mem : p = heap.node[y].desc /\ p # NoObject
      BY <1>5 DEF InUse
    <3>3. heap.node[y].kind \in {"slab", "pages"}
      BY <1>2, <3>2 DEF Described
    <3> QED BY <2>1, <3>1, <3>2, <3>3
  <2>3. ASSUME NEW y \in Mem, heap.node[y].kind = "slab", heap.node[y].desc # NoObject
        PROVE  /\ heap.node[y].desc[1] \in P[SlabOrder] \cup F[SlabOrder]
               /\ y \notin P[SlabOrder] \cup F[SlabOrder]
    <3>1. PICK o \in Orders : y \in P[o] \cup F[o]
      BY <1>2, <2>3 DEF Members, Listed
    <3>2. ~OnSlab(o) /\ heap.node[y].desc[1] \in P[SlabOrder] \cup F[SlabOrder]
      BY <1>2, <2>3, <3>1 DEF Described
    <3>3. o # SlabOrder /\ SlabOrder \in Orders
      BY <3>2, Facts
    <3> QED BY <1>2, <3>1, <3>2, <3>3, OneOrder
  <2>4. ASSUME NEW m \in Mem, heap.node[m].kind = "slab" PROVE FALSE
    <3>1. PICK y \in Mem : heap.node[y].kind = "slab" /\ heap.node[y].desc # NoObject
      BY <2>2, <2>4
    <3>2. PICK z \in Mem : heap.node[z].kind = "slab" /\ heap.node[z].desc # NoObject /\ heap.node[z].desc[1] = y
      BY <2>2, <3>1
    <3> QED BY <2>3, <3>1, <3>2
  <2>5. \A m \in Mem : heap.node[m].kind = "unused"
    BY <1>3, <2>1, <2>4
  <2> QED BY <2>5 DEF UnusedMem
<1> QED BY <1>4, <1>5 DEF NoPagesLost

THEOREM SlabsAlwaysExact == Spec => []SlabsExact
BY HeapAlways, HeapExact, PTL

THEOREM PointersAlwaysFreeable == Spec => []EveryPointerFreeable
BY HeapAlways, HeapFreeable, PTL

THEOREM PagesNeverLost == Spec => []NoPagesLost
BY HeapAlways, HeapNothingLost, PTL
=============================================================================
