------------------------ MODULE ProcessSystemProofs ------------------------
(***************************************************************************)
(* Theorems about the process system, for every number of processes, every *)
(* set of ELF files and every interleaving of ticks, starts, programs and  *)
(* system calls: processes take turns, and the memory of each is what its  *)
(* file describes, until a range that was split is used again.             *)
(***************************************************************************)
EXTENDS ProcessSystem, Lemmas, FiniteSetTheorems, TLAPS

-----------------------------------------------------------------------------
(* The queue behind the pointers.                                          *)

\* The pointers of a queue of processes hold the sequence q.
Linked(q, h, t, nx) ==
    /\ q \in Seq(Proc)
    /\ Len(q) <= Cardinality(Proc)
    /\ \A i, j \in 1 .. Len(q) : q[i] = q[j] => i = j
    /\ h = IF Len(q) = 0 THEN 0 ELSE q[1]
    /\ t = IF Len(q) = 0 THEN 0 ELSE q[Len(q)]
    /\ \A i \in 1 .. Len(q) : nx[q[i]] = IF i < Len(q) THEN q[i + 1] ELSE 0

\* Walk and Queue, with the pointers as parameters.
WalkOf(h, nx) ==
    CHOOSE f : f = [n \in Nat |-> IF n = 0 THEN h ELSE IF f[n - 1] = 0 THEN 0 ELSE nx[f[n - 1]]]
LengthOf(w) ==
    CHOOSE n \in 0 .. 2 * Cardinality(Proc) :
        /\ w[n] = 0 \/ n = 2 * Cardinality(Proc)
        /\ \A i \in 0 .. n - 1 : w[i] # 0
QueueOf(w) == [i \in 1 .. LengthOf(w) |-> w[i - 1]]

\* The queue of the model is the one of this walk.
LEMMA QueueIsQueueOf == Queue = QueueOf(WalkOf(head, next))
<1>1. Walk = WalkOf(head, next)
  BY DEF Walk, WalkOf
<1>2. QueueLength = LengthOf(Walk)
  BY DEF QueueLength, LengthOf
<1> QED BY <1>1, <1>2 DEF Queue, QueueOf

\* Processes are numbers, and there are finitely many.
LEMMA ProcFacts ==
    /\ Cardinality(Proc) \in Nat /\ 0 \notin Proc
    /\ \A p : p \in Proc <=> p \in 1 .. Cardinality(Proc)
<1>1. Cardinality(Proc) \in Nat
  BY ProcAssumption, FS_CardinalityType
<1> QED BY <1>1, ProcAssumption

\* A walk along the pointers meets the elements of q and then 0 for ever.
LEMMA WalkLinked ==
    ASSUME NEW q, NEW h, NEW t, NEW nx, Linked(q, h, t, nx)
    PROVE  \A n \in Nat : WalkOf(h, nx)[n] = IF n < Len(q) THEN q[n + 1] ELSE 0
<1> DEFINE G == [n \in Nat |-> IF n < Len(q) THEN q[n + 1] ELSE 0]
<1> DEFINE Step(f) == [n \in Nat |-> IF n = 0 THEN h ELSE IF f[n - 1] = 0 THEN 0 ELSE nx[f[n - 1]]]
<1>1. /\ Len(q) \in Nat /\ \A i \in 1 .. Len(q) : q[i] \in Proc /\ q[i] # 0
      /\ h = IF Len(q) = 0 THEN 0 ELSE q[1]
      /\ \A i \in 1 .. Len(q) : nx[q[i]] = IF i < Len(q) THEN q[i + 1] ELSE 0
  BY ProcFacts DEF Linked
<1>2. G = Step(G)
  <2>1. ASSUME NEW n \in Nat PROVE G[n] = Step(G)[n]
    <3>1. CASE n = 0
      BY <1>1, <3>1
    <3>2. CASE n # 0
      <4>1. n - 1 \in Nat /\ (n - 1) + 1 = n
        BY <3>2
      <4>2. G[n - 1] = IF n - 1 < Len(q) THEN q[n] ELSE 0
        BY <4>1
      <4>3. CASE n - 1 < Len(q)
        <5>1. n \in 1 .. Len(q)
          BY <1>1, <3>2, <4>3
        <5> QED BY <1>1, <3>2, <4>2, <4>3, <5>1
      <4>4. CASE ~(n - 1 < Len(q))
        BY <1>1, <3>2, <4>2, <4>4
      <4> QED BY <4>3, <4>4
    <3> QED BY <3>1, <3>2
  <2> QED BY <2>1
<1> DEFINE W == WalkOf(h, nx)
<1>3. W = Step(W)
  <2>1. \E f : f = Step(f)
    BY <1>2
  <2> QED BY <2>1 DEF WalkOf
<1> HIDE DEF W
<1> DEFINE S == {n \in Nat : W[n] = G[n]}
<1>4. 0 \in S
  BY <1>2, <1>3
<1>5. ASSUME NEW n \in Nat, n \in S PROVE n + 1 \in S
  <2>1. n + 1 \in Nat /\ n + 1 # 0 /\ (n + 1) - 1 = n
    OBVIOUS
  <2>2. W[n + 1] = IF W[n] = 0 THEN 0 ELSE nx[W[n]]
    BY <1>3, <2>1
  <2> HIDE DEF G
  <2>3. G[n + 1] = IF G[n] = 0 THEN 0 ELSE nx[G[n]]
    BY <1>2, <2>1
  <2> QED BY <1>5, <2>1, <2>2, <2>3
<1>6. Nat \subseteq S
  <2> HIDE DEF S
  <2> QED BY <1>4, <1>5, NatSetInduction
<1> QED BY <1>6 DEF W

\* The sequence the pointers hold is what Queue reads.
LEMMA QueueLinked ==
    ASSUME NEW q, NEW h, NEW t, NEW nx, Linked(q, h, t, nx)
    PROVE  QueueOf(WalkOf(h, nx)) = q
<1> DEFINE w == WalkOf(h, nx)
<1>a. /\ q \in Seq(Proc) /\ Len(q) \in Nat /\ Len(q) <= Cardinality(Proc)
      /\ \A i \in 1 .. Len(q) : q[i] # 0
  BY ProcFacts DEF Linked
<1>b. \A n \in Nat : w[n] = IF n < Len(q) THEN q[n + 1] ELSE 0
  BY WalkLinked
<1> HIDE DEF w
<1>1. /\ q \in Seq(Proc) /\ Len(q) \in Nat /\ Len(q) <= Cardinality(Proc)
      /\ \A i \in 1 .. Len(q) : q[i] # 0
      /\ \A n \in Nat : w[n] = IF n < Len(q) THEN q[n + 1] ELSE 0
  BY <1>a, <1>b
<1>2. /\ Len(q) \in 0 .. 2 * Cardinality(Proc) /\ w[Len(q)] = 0
      /\ \A i \in 0 .. Len(q) - 1 : w[i] # 0
  <2>1. \A i \in 0 .. Len(q) - 1 : w[i] = q[i + 1] /\ i + 1 \in 1 .. Len(q)
    BY <1>1
  <2>2. \A i \in 0 .. Len(q) - 1 : w[i] # 0
    BY <1>1, <2>1
  <2>3. w[Len(q)] = 0
    BY <1>1
  <2>4. Len(q) \in 0 .. 2 * Cardinality(Proc)
    BY <1>1, ProcFacts
  <2> QED BY <2>2, <2>3, <2>4
<1>3. LengthOf(w) = Len(q)
  <2> DEFINE P(n) == /\ w[n] = 0 \/ n = 2 * Cardinality(Proc)
                     /\ \A i \in 0 .. n - 1 : w[i] # 0
  <2> DEFINE L == CHOOSE n \in 0 .. 2 * Cardinality(Proc) : P(n)
  <2>1. L \in 0 .. 2 * Cardinality(Proc) /\ P(L)
    BY <1>2
  <2>2. L = LengthOf(w)
    BY DEF LengthOf
  <2> HIDE DEF L
  <2>3. ~(L < Len(q))
    <3> SUFFICES ASSUME L < Len(q) PROVE FALSE
      OBVIOUS
    <3>1. w[L] # 0 /\ L # 2 * Cardinality(Proc)
      BY <1>1, <1>2, <2>1, ProcFacts
    <3> QED BY <2>1, <3>1
  <2>4. ~(Len(q) < L)
    <3> SUFFICES ASSUME Len(q) < L PROVE FALSE
      OBVIOUS
    <3>1. Len(q) \in 0 .. L - 1
      BY <1>1, <2>1, ProcFacts
    <3> QED BY <1>2, <2>1, <3>1
  <2> QED BY <1>1, <2>1, <2>2, <2>3, <2>4, ProcFacts
<1>4. \A i \in 1 .. Len(q) : w[i - 1] = q[i]
  <2> TAKE i \in 1 .. Len(q)
  <2>1. i - 1 \in Nat /\ i - 1 < Len(q) /\ (i - 1) + 1 = i
    BY <1>1
  <2> QED BY <1>1, <2>1
<1>5. QueueOf(w) = [i \in 1 .. Len(q) |-> q[i]]
  BY <1>3, <1>4 DEF QueueOf
<1>6. q = [i \in 1 .. Len(q) |-> q[i]]
  BY <1>1
<1> QED BY <1>5, <1>6 DEF w

\* The first process.
LEMMA LinkFirst ==
    ASSUME NEW p \in Proc, NEW nx, nx[p] = 0
    PROVE  Linked(<<p>>, p, p, nx)
<1>1. /\ <<p>> \in Seq(Proc) /\ Len(<<p>>) = 1 /\ <<p>>[1] = p
  OBVIOUS
<1>2. 1 <= Cardinality(Proc)
  BY ProcFacts
<1> QED BY <1>1, <1>2 DEF Linked

\* Another one joins at the end.
LEMMA LinkLast ==
    ASSUME NEW q, NEW h, NEW t, NEW nx \in [Proc -> Proc \cup {0}], Linked(q, h, t, nx),
           Len(q) # 0, Len(q) < Cardinality(Proc),
           NEW p \in Proc, \A i \in 1 .. Len(q) : q[i] # p, nx[p] = 0
    PROVE  Linked(Append(q, p), h, p, [nx EXCEPT ![t] = p])
<1> DEFINE r == Append(q, p)
<1> DEFINE m == [nx EXCEPT ![t] = p]
<1>1. /\ q \in Seq(Proc) /\ Len(q) \in Nat /\ \A i \in 1 .. Len(q) : q[i] \in Proc
      /\ h = q[1] /\ t = q[Len(q)] /\ t \in Proc
      /\ \A i, j \in 1 .. Len(q) : q[i] = q[j] => i = j
      /\ \A i \in 1 .. Len(q) : nx[q[i]] = IF i < Len(q) THEN q[i + 1] ELSE 0
  <2>1. q \in Seq(Proc) /\ Len(q) \in Nat /\ \A i \in 1 .. Len(q) : q[i] \in Proc
    BY DEF Linked
  <2>2. Len(q) \in 1 .. Len(q)
    BY <2>1
  <2> QED BY <2>1, <2>2 DEF Linked
<1>2. /\ r \in Seq(Proc) /\ Len(r) = Len(q) + 1 /\ r[Len(q) + 1] = p
      /\ \A i \in 1 .. Len(q) : r[i] = q[i]
  BY <1>1
<1>3. m \in [Proc -> Proc \cup {0}] /\ m[t] = p /\ \A x \in Proc : x # t => m[x] = nx[x]
  BY <1>1
<1> HIDE DEF r, m
<1>4. Len(r) <= Cardinality(Proc) /\ Len(r) # 0
  BY <1>1, <1>2, ProcFacts
<1>5. \A i, j \in 1 .. Len(r) : r[i] = r[j] => i = j
  <2> TAKE i, j \in 1 .. Len(r)
  <2>1. /\ i \in 1 .. Len(q) \/ i = Len(q) + 1
        /\ j \in 1 .. Len(q) \/ j = Len(q) + 1
    BY <1>1, <1>2
  <2> QED BY <1>1, <1>2, <2>1
<1>6. ASSUME NEW i \in 1 .. Len(r)
      PROVE  m[r[i]] = IF i < Len(r) THEN r[i + 1] ELSE 0
  <2>1. CASE i = Len(q) + 1
    <3>1. r[i] = p /\ p # t /\ ~(i < Len(r))
      <4>1. Len(q) \in 1 .. Len(q)
        BY <1>1
      <4> QED BY <1>1, <1>2, <2>1, <4>1
    <3> QED BY <1>3, <3>1
  <2>2. CASE i = Len(q)
    <3>1. i \in 1 .. Len(q) /\ i + 1 = Len(q) + 1
      BY <1>1, <2>2
    <3>2. r[i] = t /\ r[i + 1] = p /\ i < Len(r)
      BY <1>1, <1>2, <2>2, <3>1
    <3> QED BY <1>3, <3>2
  <2>3. CASE i # Len(q) /\ i # Len(q) + 1
    <3>1. i \in 1 .. Len(q) /\ i < Len(q) /\ i + 1 \in 1 .. Len(q) /\ Len(q) \in 1 .. Len(q)
      BY <1>1, <1>2, <2>3
    <3>2. r[i] = q[i] /\ r[i + 1] = q[i + 1] /\ i < Len(r)
      BY <1>1, <1>2, <3>1
    <3>3. q[i] # t /\ q[i] \in Proc
      BY <1>1, <2>3, <3>1
    <3> QED BY <1>1, <1>3, <3>1, <3>2, <3>3
  <2> QED BY <2>1, <2>2, <2>3
<1>7. h = r[1] /\ p = r[Len(r)]
  <2>1. 1 \in 1 .. Len(q)
    BY <1>1
  <2> QED BY <1>1, <1>2, <2>1
<1>8. Linked(r, h, p, m)
  BY <1>2, <1>4, <1>5, <1>6, <1>7 DEF Linked
<1> QED BY <1>8 DEF r, m

\* The head goes to the end: what context_switch does to the pointers.
LEMMA LinkRotate ==
    ASSUME NEW q, NEW h, NEW t, NEW nx \in [Proc -> Proc \cup {0}], Linked(q, h, t, nx),
           Len(q) # 0
    PROVE  /\ nx[h] = 0 => Append(Tail(q), Head(q)) = q
           /\ nx[h] # 0 => Linked(Append(Tail(q), Head(q)), nx[h], h,
                                  [nx EXCEPT ![h] = 0, ![t] = h])
<1> DEFINE n == Len(q)
<1> DEFINE r == Append(Tail(q), Head(q))
<1> DEFINE m == [nx EXCEPT ![h] = 0, ![t] = h]
<1>1. /\ q \in Seq(Proc) /\ n \in Nat \ {0} /\ \A i \in 1 .. n : q[i] \in Proc /\ q[i] # 0
      /\ h = q[1] /\ t = q[n] /\ t \in Proc /\ h \in Proc /\ n <= Cardinality(Proc)
      /\ \A i, j \in 1 .. n : q[i] = q[j] => i = j
      /\ \A i \in 1 .. n : nx[q[i]] = IF i < n THEN q[i + 1] ELSE 0
  <2>1. q \in Seq(Proc) /\ n \in Nat \ {0} /\ \A i \in 1 .. n : q[i] \in Proc
    BY DEF Linked
  <2>2. n \in 1 .. n /\ 1 \in 1 .. n
    BY <2>1
  <2> QED BY <2>1, <2>2, ProcFacts DEF Linked
<1>2. /\ r \in Seq(Proc) /\ Len(r) = n /\ r[n] = q[1]
      /\ \A i \in 1 .. n : i < n => r[i] = q[i + 1]
  <2>1. /\ Tail(q) \in Seq(Proc) /\ Len(Tail(q)) = n - 1 /\ Head(q) = q[1] /\ Head(q) \in Proc
        /\ \A i \in 1 .. n - 1 : Tail(q)[i] = q[i + 1]
    BY <1>1
  <2> DEFINE z == Tail(q)
  <2> DEFINE e == Head(q)
  <2> HIDE DEF z, e
  <2>2. /\ Append(z, e) \in Seq(Proc) /\ Len(Append(z, e)) = n /\ Append(z, e)[n] = e
        /\ \A i \in 1 .. n - 1 : Append(z, e)[i] = z[i]
    <3>1. z \in Seq(Proc) /\ e \in Proc /\ Len(z) = n - 1
      BY <2>1 DEF z, e
    <3> QED BY <1>1, <3>1
  <2>3. r = Append(z, e)
    BY DEF z, e
  <2>4. \A i \in 1 .. n : i < n => i \in 1 .. n - 1
    BY <1>1
  <2> HIDE DEF r, n
  <2> QED BY <2>1, <2>2, <2>3, <2>4 DEF z, e
<1> HIDE DEF r, n
<1>3. ASSUME nx[h] = 0 PROVE r = q
  <2>1. n = 1
    <3> SUFFICES ASSUME n # 1 PROVE FALSE
      OBVIOUS
    <3>1. 1 \in 1 .. n /\ 1 < n /\ 2 \in 1 .. n
      BY <1>1
    <3>2. nx[h] = q[2] /\ q[2] # 0
      BY <1>1, <3>1
    <3> QED BY <1>3, <3>2
  <2>2. \A i \in 1 .. n : r[i] = q[i]
    BY <1>2, <2>1
  <2> QED BY <1>1, <1>2, <2>2 DEF n
<1>4. ASSUME nx[h] # 0 PROVE Linked(r, nx[h], h, m)
  <2>1. n # 1
    BY <1>1, <1>4
  <2>2. 1 \in 1 .. n /\ 1 < n /\ 2 \in 1 .. n /\ n \in 1 .. n /\ 1 + 1 = 2
    BY <1>1, <2>1
  <2>3. nx[h] = q[2] /\ h # t
    BY <1>1, <2>1, <2>2
  <2>4. m[h] = 0 /\ m[t] = h /\ \A x \in Proc : x # t /\ x # h => m[x] = nx[x]
    BY <1>1, <2>3
  <2> HIDE DEF m
  <2>5. \A i, j \in 1 .. n : r[i] = r[j] => i = j
    <3> SUFFICES ASSUME NEW i \in 1 .. n, NEW j \in 1 .. n, r[i] = r[j] PROVE i = j
      OBVIOUS
    <3>1. \A k \in 1 .. n : k < n => k + 1 \in 1 .. n /\ k + 1 # 1
      BY <1>1
    <3>2. CASE i < n /\ j < n
      <4>1. q[i + 1] = q[j + 1]
        BY <1>2, <3>2
      <4>2. i + 1 = j + 1
        BY <1>1, <3>1, <3>2, <4>1
      <4> QED BY <4>2
    <3>3. CASE i < n /\ j = n
      <4>1. q[i + 1] = q[1]
        BY <1>2, <3>3
      <4> QED BY <1>1, <2>2, <3>1, <3>3, <4>1
    <3>4. CASE i = n /\ j < n
      <4>1. q[j + 1] = q[1]
        BY <1>2, <3>4
      <4> QED BY <1>1, <2>2, <3>1, <3>4, <4>1
    <3> QED BY <1>1, <3>2, <3>3, <3>4
  <2>6. ASSUME NEW i \in 1 .. n PROVE m[r[i]] = IF i < n THEN r[i + 1] ELSE 0
    <3>1. CASE i = n
      BY <1>1, <1>2, <2>4, <3>1
    <3>2. CASE i < n /\ i + 1 = n
      <4>1. r[i] = t /\ r[i + 1] = h
        BY <1>1, <1>2, <3>2
      <4> QED BY <2>4, <3>2, <4>1
    <3>3. CASE i < n /\ i + 1 # n
      <4>1. i + 1 \in 1 .. n /\ i + 1 < n /\ i + 1 # 1 /\ i + 1 # n
        BY <1>1, <3>3
      <4>2. r[i] = q[i + 1] /\ r[i + 1] = q[(i + 1) + 1]
        BY <1>2, <3>3, <4>1
      <4>3. q[i + 1] # h /\ q[i + 1] # t /\ q[i + 1] \in Proc
        BY <1>1, <2>2, <4>1
      <4>4. nx[q[i + 1]] = q[(i + 1) + 1]
        BY <1>1, <4>1
      <4> QED BY <2>4, <3>3, <4>2, <4>3, <4>4
    <3> QED BY <1>1, <3>1, <3>2, <3>3
  <2>7. nx[h] = r[1] /\ h = r[n]
    BY <1>1, <1>2, <2>2, <2>3
  <2> QED BY <1>1, <1>2, <2>5, <2>6, <2>7 DEF Linked
<1> QED BY <1>3, <1>4 DEF r, m

-----------------------------------------------------------------------------
(* load_elf_from_buff goes through the program headers one after the other *)
(* (FoldLeft).  What holds before the first and is kept by LoadSegment     *)
(* holds after the last.                                                   *)

\* The equation of the fold, for the headers 1 .. n.
Iterated(f, base, seq, n) ==
    f = [s \in SUBSET (1 .. n) |->
            IF s = {} THEN base ELSE LoadSegment(f[s \ {Max(s)}], seq[Max(s)])]

\* It has a solution, by induction on the number of headers.
LEMMA FoldExists ==
    ASSUME NEW base, NEW seq
    PROVE  \A n \in Nat : \E f : Iterated(f, base, seq, n)
<1> DEFINE S == {n \in Nat : \E f : Iterated(f, base, seq, n)}
<1>1. 0 \in S
  <2> DEFINE f == [s \in SUBSET (1 .. 0) |-> base]
  <2>1. \A s \in SUBSET (1 .. 0) : s = {}
    OBVIOUS
  <2>2. Iterated(f, base, seq, 0)
    BY <2>1 DEF Iterated
  <2> QED BY <2>2
<1>2. ASSUME NEW n \in Nat, n \in S PROVE n + 1 \in S
  <2>1. PICK f : Iterated(f, base, seq, n)
    BY <1>2
  <2> DEFINE e == n + 1
  <2> DEFINE T == SUBSET (1 .. n)
  <2> DEFINE U == SUBSET (1 .. e)
  <2> DEFINE g == [s \in U |-> IF e \in s THEN LoadSegment(f[s \ {e}], seq[e]) ELSE f[s]]
  <2>2. /\ \A s \in U : e \notin s => s \in T
        /\ \A s \in U : s \ {e} \in T
        /\ \A s \in T : s \in U /\ e \notin s
        /\ \A s \in U : e \in s => s # {} /\ \A x \in s : x \in Int /\ x <= e
    OBVIOUS
  <2>3. ASSUME NEW s \in U, e \in s PROVE Max(s) = e
    <3>1. e \in Int /\ \A x \in s : x \in Int /\ e >= x
      BY <2>2, <2>3
    <3>2. \A y \in s : (\A x \in s : y >= x) => y = e
      BY <2>3, <3>1
    <3> HIDE DEF e, U
    <3> QED BY <2>3, <3>1, <3>2 DEF Max
  <2>4. f = [s \in T |-> IF s = {} THEN base ELSE LoadSegment(f[s \ {Max(s)}], seq[Max(s)])]
    BY <2>1 DEF Iterated
  <2> HIDE DEF T, U, e
  <2>5. ASSUME NEW s \in U
        PROVE  g[s] = IF s = {} THEN base ELSE LoadSegment(g[s \ {Max(s)}], seq[Max(s)])
    <3>1. CASE e \in s
      <4>1. Max(s) = e /\ s # {} /\ s \ {e} \in T
        BY <2>2, <2>3, <3>1
      <4>2. g[s \ {e}] = f[s \ {e}]
        BY <2>2, <4>1
      <4>3. g[s] = LoadSegment(f[s \ {e}], seq[e])
        BY <3>1
      <4> QED BY <4>1, <4>2, <4>3
    <3>2. CASE e \notin s
      <4>1. s \in T /\ g[s] = f[s]
        BY <2>2, <3>2
      <4>2. s \ {Max(s)} \in T
        BY <4>1 DEF T
      <4>3. g[s \ {Max(s)}] = f[s \ {Max(s)}]
        BY <2>2, <4>2
      <4> QED BY <2>4, <4>1, <4>3
    <3> QED BY <3>1, <3>2
  <2>6. g = [s \in U |-> IF s = {} THEN base ELSE LoadSegment(g[s \ {Max(s)}], seq[Max(s)])]
    BY <2>5
  <2>7. Iterated(g, base, seq, n + 1)
    BY <2>6 DEF Iterated, U, e
  <2> QED BY <2>7
<1>3. Nat \subseteq S
  <2> HIDE DEF S
  <2> QED BY <1>1, <1>2, NatSetInduction
<1> QED BY <1>3

\* The fold over the headers of seq.
LEMMA FoldIsIterated ==
    ASSUME NEW base, NEW seq \in Seq(Elf64Phdr)
    PROVE  \E f : /\ Iterated(f, base, seq, Len(seq))
                  /\ FoldLeft(LoadSegment, base, seq) = f[1 .. Len(seq)]
<1> DEFINE W == CHOOSE f : Iterated(f, base, seq, Len(seq))
<1>1. Len(seq) \in Nat /\ DOMAIN seq = 1 .. Len(seq)
  OBVIOUS
<1>2. Iterated(W, base, seq, Len(seq))
  BY <1>1, FoldExists
<1>3. FoldLeft(LoadSegment, base, seq) = W[1 .. Len(seq)]
  BY <1>1 DEF FoldLeft, MapThenFoldSet, Iterated
<1> QED BY <1>2, <1>3

\* Induction over the headers: S holds the states of the load by the number of
\* headers that are through.
LEMMA LoadInduction ==
    ASSUME NEW base, NEW seq \in Seq(Elf64Phdr), NEW S, <<0, base>> \in S,
           \A n \in 0 .. Len(seq) - 1 : \A l :
               <<n, l>> \in S => <<n + 1, LoadSegment(l, seq[n + 1])>> \in S
    PROVE  <<Len(seq), FoldLeft(LoadSegment, base, seq)>> \in S
<1> DEFINE N == Len(seq)
<1>1. N \in Nat
  OBVIOUS
<1> HIDE DEF N
<1>2. PICK f : /\ Iterated(f, base, seq, N)
               /\ FoldLeft(LoadSegment, base, seq) = f[1 .. N]
  BY FoldIsIterated DEF N
<1> DEFINE T == {n \in Nat : n <= N => <<n, f[1 .. n]>> \in S}
<1>3. 0 \in T
  <2>1. 1 .. 0 = {} /\ {} \in SUBSET (1 .. N)
    OBVIOUS
  <2>2. f[{}] = base
    BY <1>2, <2>1 DEF Iterated
  <2> QED BY <2>1, <2>2
<1>4. ASSUME NEW n \in Nat, n \in T PROVE n + 1 \in T
  <2> SUFFICES ASSUME n + 1 <= N PROVE <<n + 1, f[1 .. n + 1]>> \in S
    OBVIOUS
  <2> DEFINE s == 1 .. n + 1
  <2>0. n + 1 \in s /\ n + 1 \in Int /\ \A x \in s : x \in Int /\ n + 1 >= x
    OBVIOUS
  <2>1. s \in SUBSET (1 .. N) /\ s # {} /\ s \ {n + 1} = 1 .. n /\ n \in 0 .. N - 1 /\ n <= N
    <3>1. \A x : x \in s \ {n + 1} <=> x \in 1 .. n
      OBVIOUS
    <3>2. n \in 0 .. N - 1 /\ n <= N /\ s \in SUBSET (1 .. N)
      BY <1>1
    <3> HIDE DEF s
    <3> QED BY <2>0, <3>1, <3>2
  <2>2. Max(s) = n + 1
    <3>1. n + 1 \in s /\ \A x \in s : n + 1 >= x
      BY <2>0
    <3> HIDE DEF s
    <3>2. \A y \in s : (\A x \in s : y >= x) => y = n + 1
      BY <2>0
    <3> QED BY <3>1, <3>2 DEF Max
  <2> HIDE DEF s
  <2>3. f[s] = LoadSegment(f[1 .. n], seq[n + 1])
    BY <1>2, <2>1, <2>2 DEF Iterated
  <2>4. <<n, f[1 .. n]>> \in S
    BY <1>4, <2>1
  <2> QED BY <2>1, <2>3, <2>4 DEF s, N
<1>5. N \in T
  <2>1. Nat \subseteq T
    <3> HIDE DEF T
    <3> QED BY <1>3, <1>4, NatSetInduction
  <2> QED BY <1>1, <2>1
<1> QED BY <1>1, <1>2, <1>5 DEF N

-----------------------------------------------------------------------------
(* What loading a segment does.                                            *)

\* The used pages and the free ranges that were never split lie below current,
\* apart from each other.
EndOf(e) == e.addr + e.pages
BelowCurrent(s) ==
    /\ \A v \in VirtPages : s.table[v].present => v < s.current
    /\ \A i \in DOMAIN s.free_list :
           s.free_list[i].cuts = 0 => EndOf(s.free_list[i]) <= s.current
NotInUse(s) ==
    \A i \in DOMAIN s.free_list : s.free_list[i].cuts = 0 =>
        \A v \in VirtPages :
            s.free_list[i].addr <= v /\ v < EndOf(s.free_list[i]) => ~s.table[v].present
RangesApart(s) ==
    \A i, j \in DOMAIN s.free_list :
        i # j /\ s.free_list[i].cuts = 0 /\ s.free_list[j].cuts = 0 =>
            \/ EndOf(s.free_list[i]) <= s.free_list[j].addr
            \/ EndOf(s.free_list[j]) <= s.free_list[i].addr

\* A space in order: it is, as long as no range that was split is used again.
Good(s) ==
    /\ s \in AddressSpace
    /\ ~s.reused => BelowCurrent(s) /\ NotInUse(s) /\ RangesApart(s)

Loads == [ok : BOOLEAN, space : AddressSpace, frames : Nat]

SegmentAt(h) == h.vaddr \div PageSize
SegmentPages(h) == (h.memsz + PageSize - 1) \div PageSize

\* The pages of the segment, and the table with them.
SegmentPage(h, v) ==
    Page(SegmentFlags(h),
         [b \in Bytes |-> SegmentBytes(h, SegmentPages(h))[(v - SegmentAt(h)) * PageSize + b]])
WithSegment(h, table) ==
    [v \in VirtPages |->
        IF v \in SegmentAt(h) .. SegmentAt(h) + SegmentPages(h) - 1
        THEN SegmentPage(h, v) ELSE table[v]]

\* The space with the segment: the gap below it is the first free range.
SegmentSpace(h, s) ==
    [current |-> SegmentAt(h) + SegmentPages(h), table |-> WithSegment(h, s.table),
     free_list |-> <<Extent(s.current, SegmentAt(h) - s.current)>> \o s.free_list,
     head_canonical |-> TRUE, reused |-> s.reused]

\* The cases of LoadSegment: the header is skipped, loading fails, or the pages
\* of the segment are put behind those that are in use.
LEMMA LoadSegmentCases ==
    ASSUME NEW l \in Loads, NEW h \in Elf64Phdr
    PROVE  LET m == LoadSegment(l, h) IN
           \/ m = l /\ (~l.ok \/ ~h.load)
           \/ m \in Loads /\ ~m.ok /\ m.space = l.space
           \/ /\ l.ok /\ h.load /\ h.vaddr % PageSize = 0
              /\ l.space.current <= SegmentAt(h)
              /\ SegmentAt(h) + SegmentPages(h) <= Limit
              /\ m.ok /\ m.frames \in Nat
              /\ m = [ok |-> l.ok, frames |-> l.frames - SegmentPages(h),
                      space |-> SegmentSpace(h, l.space)]
<1> DEFINE at == SegmentAt(h)
<1> DEFINE pages == SegmentPages(h)
<1> DEFINE m == LoadSegment(l, h)
<1>1. at \in Nat /\ pages \in Nat
  <2>1. h.vaddr \in Nat /\ h.memsz + PageSize - 1 \in Nat /\ PageSize \in Nat \ {0}
    BY PageAssumption DEF Elf64Phdr
  <2> QED BY <2>1, DivMod DEF SegmentAt, SegmentPages
<1>2. l.frames \in Nat /\ l.ok \in BOOLEAN /\ l.space \in AddressSpace
  BY DEF Loads
<1>3. ASSUME NEW k \in Nat
      PROVE  Failed(l, k) \in Loads /\ ~Failed(l, k).ok /\ Failed(l, k).space = l.space
  <2>1. Failed(l, k) \in Loads
    BY <1>3 DEF Failed, Loads
  <2>2. Failed(l, k).space = l.space
    BY DEF Failed, Loads
  <2>3. Failed(l, k).ok = FALSE
    BY Zenon DEF Failed, Loads
  <2> QED BY <2>1, <2>2, <2>3
<1>4. CASE ~l.ok \/ ~h.load
  BY <1>4 DEF LoadSegment
<1>5. CASE /\ l.ok /\ h.load
           /\ \/ h.vaddr % PageSize # 0
              \/ pages = 0 \/ pages > l.frames
              \/ ~Claimable(l.space, at, pages)
  <2>1. m = Failed(l, l.frames) \/ (m = Failed(l, l.frames - pages) /\ ~(pages > l.frames))
    <3>1. CASE h.vaddr % PageSize # 0 \/ pages = 0 \/ pages > l.frames
      BY <1>5, <3>1 DEF LoadSegment, SegmentAt, SegmentPages
    <3>2. CASE /\ ~(h.vaddr % PageSize # 0 \/ pages = 0 \/ pages > l.frames)
               /\ ~Claimable(l.space, at, pages)
      BY <1>5, <3>2 DEF LoadSegment, SegmentAt, SegmentPages
    <3> QED BY <1>5, <3>1, <3>2
  <2>2. ~(pages > l.frames) => l.frames - pages \in Nat
    BY <1>1, <1>2
  <2> QED BY <1>2, <1>3, <2>1, <2>2
<1>6. CASE /\ l.ok /\ h.load /\ h.vaddr % PageSize = 0 /\ pages # 0 /\ ~(pages > l.frames)
           /\ Claimable(l.space, at, pages)
  <2>1. l.space.current <= at /\ at + pages <= Limit
    BY <1>6 DEF Claimable
  <2>2. l.frames - pages \in Nat
    BY <1>1, <1>2, <1>6
  <2> DEFINE s == l.space
  <2> DEFINE c == claim_virt_range(s, at, pages)
  <2>s. s \in AddressSpace
    BY <1>2
  <2> DEFINE f == <<Extent(s.current, at - s.current)>> \o s.free_list
  <2> DEFINE yes == TRUE
  <2> DEFINE end == at + pages
  <2>c. c = [s EXCEPT !.free_list = f, !.head_canonical = yes, !.current = end]
    BY DEF claim_virt_range
  <2>3. m = [l EXCEPT !.frames = @ - pages,
                      !.space = [c EXCEPT !.table = WithSegment(h, c.table)]]
    BY <1>6 DEF LoadSegment, SegmentAt, SegmentPages, WithSegment, SegmentPage
  <2> HIDE DEF at, pages, m, c, s
  <2>d. [c EXCEPT !.table = WithSegment(h, c.table)] = SegmentSpace(h, s)
    <3> DEFINE w == WithSegment(h, c.table)
    <3> HIDE DEF f, w, yes, end
    <3>1. c.table = s.table
      BY <2>s, <2>c DEF AddressSpace
    <3>e. c = [current |-> end, table |-> s.table, free_list |-> f,
               head_canonical |-> yes, reused |-> s.reused]
      BY <2>s, <2>c DEF AddressSpace
    <3>2. [c EXCEPT !.table = w] =
              [current |-> end, table |-> w, free_list |-> f,
               head_canonical |-> yes, reused |-> s.reused]
      BY <3>e
    <3>3. SegmentSpace(h, s) = [current |-> end, table |-> w, free_list |-> f,
                                head_canonical |-> yes, reused |-> s.reused]
      BY <3>1 DEF SegmentSpace, at, pages, w, f, yes, end
    <3> QED BY <3>2, <3>3 DEF w
  <2>4. m = [ok |-> l.ok, frames |-> l.frames - pages, space |-> SegmentSpace(h, s)]
    BY <2>3, <2>d DEF Loads
  <2>5. m.ok = l.ok /\ m.frames = l.frames - pages
    BY <2>4
  <2>6. m.ok /\ m.frames \in Nat
    BY <1>6, <2>2, <2>5
  <2> QED BY <1>6, <2>1, <2>4, <2>6 DEF at, pages, m, s
<1> QED BY <1>4, <1>5, <1>6

\* Where byte n of memory that begins at an aligned address lies.
LEMMA BytePosition ==
    ASSUME NEW a \in Nat, NEW n \in Nat, NEW P \in Nat \ {0}, a % P = 0
    PROVE  /\ (a + n) \div P = (a \div P) + (n \div P)
           /\ (a + n) % P = n % P
<1> DEFINE at == a \div P
<1> DEFINE j == n \div P
<1> DEFINE b == n % P
<1> DEFINE d == (a + n) \div P
<1> DEFINE r == (a + n) % P
<1>1. at \in Nat /\ a = at * P
  BY AlignedMultiple
<1>2. j \in Nat /\ b \in 0 .. P - 1 /\ n = j * P + b
  BY DivMod
<1>3. d \in Nat /\ r \in 0 .. P - 1 /\ a + n = d * P + r
  <2>1. a + n \in Nat
    OBVIOUS
  <2> QED BY <2>1, DivMod
<1> HIDE DEF at, j, b, d, r
<1>4. a + n = (at + j) * P + b
  BY <1>1, <1>2
<1>5. at + j \in Int /\ d \in Int /\ (at + j) * P + b = d * P + r
  BY <1>1, <1>2, <1>3, <1>4
<1> DEFINE c == at + j
<1> HIDE DEF c
<1>6. c = d /\ b = r
  <2>1. c \in Int /\ d \in Int /\ c * P + b = d * P + r
    BY <1>5 DEF c
  <2> QED BY <1>2, <1>3, <2>1, QuotientUnique
<1> QED BY <1>6 DEF c, at, j, b, d, r

\* Rounding the size of a segment up to pages makes room for every byte of it.
LEMMA RoundedUp ==
    ASSUME NEW size \in Nat, NEW P \in Nat \ {0}, NEW n \in Nat, n < size
    PROVE  n \div P < (size + P - 1) \div P
<1> DEFINE k == (size + P - 1) \div P
<1> DEFINE r == (size + P - 1) % P
<1> DEFINE j == n \div P
<1> DEFINE b == n % P
<1>1. k \in Nat /\ r \in 0 .. P - 1 /\ size + P - 1 = k * P + r
  <2>1. size + P - 1 \in Nat
    OBVIOUS
  <2> QED BY <2>1, DivMod
<1>2. j \in Nat /\ b \in 0 .. P - 1 /\ n = j * P + b
  BY DivMod
<1> HIDE DEF k, r, j, b
<1>3. j < k
  <2> SUFFICES ASSUME k <= j PROVE FALSE
    BY <1>1, <1>2
  <2>1. k \in Int /\ j \in Int /\ k * P <= j * P
    BY <1>1, <1>2, MulMonotone
  <2> DEFINE x == k * P
  <2> DEFINE y == j * P
  <2>2. x \in Nat /\ y \in Nat /\ x <= y /\ size + P - 1 = x + r /\ n = y + b
    BY <1>1, <1>2, <2>1
  <2> HIDE DEF x, y
  <2> QED BY <1>1, <1>2, <2>2
<1> QED BY <1>3 DEF j, k

\* The bytes of a segment, inside its pages.
LEMMA SegmentByte ==
    ASSUME NEW h \in Elf64Phdr, NEW pages \in Nat, NEW j \in 0 .. pages - 1, NEW b \in Bytes
    PROVE  SegmentBytes(h, pages)[j * PageSize + b] =
               (IF j * PageSize + b < h.filesz THEN h.offset + (j * PageSize + b) ELSE 0)
<1> DEFINE P == PageSize
<1> DEFINE i == j * P + b
<1>1. P \in Nat \ {0} /\ b \in 0 .. P - 1 /\ j \in Nat
  BY PageAssumption DEF Bytes
<1>2. i \in 0 .. pages * P - 1
  <2>1. j + 1 \in Int /\ pages \in Int /\ j + 1 <= pages
    OBVIOUS
  <2>2. (j + 1) * P <= pages * P
    BY <1>1, <2>1, MulMonotone
  <2>3. (j + 1) * P = j * P + P
    BY <1>1
  <2> DEFINE x == j * P
  <2> DEFINE y == pages * P
  <2>4. x \in Nat /\ y \in Nat /\ x + P <= y /\ i = x + b
    BY <1>1, <2>2, <2>3
  <2> HIDE DEF x, y, i, P
  <2>5. i \in 0 .. y - 1
    BY <1>1, <2>4
  <2> QED BY <2>5 DEF y
<1> DEFINE D == 0 .. pages * P - 1
<1> DEFINE f == FreshBytes(pages)
<1>3. DOMAIN f = D
  BY DEF FreshBytes
<1> DEFINE g == memset(f, 0, pages * P)
<1>4. DOMAIN g = D /\ g[i] = 0
  <2>1. i < pages * P
    BY <1>1, <1>2
  <2> HIDE DEF i, f
  <2> QED BY <1>2, <1>3, <2>1 DEF memset
<1> HIDE DEF g, i, D
<1>5. memcpy(g, h.offset, h.filesz)[i] = (IF i < h.filesz THEN h.offset + i ELSE 0)
  BY <1>2, <1>4 DEF memcpy, D
<1> QED BY <1>5 DEF SegmentBytes, g, i

\* The flags of the pages say what the header says.
FlagsMatch(h, flags) == (("writable" \in flags) = h.w) /\ (("executable" \in flags) = h.x)

\* The flags load_elf computes for a segment match its header.
LEMMA SegmentFlagsMatch ==
    ASSUME NEW h \in Elf64Phdr PROVE FlagsMatch(h, SegmentFlags(h))
<1>1. h.w \in BOOLEAN /\ h.x \in BOOLEAN
  BY DEF Elf64Phdr
<1>2. "writable" \in SegmentFlags(h) <=> h.w = TRUE
  BY <1>1 DEF SegmentFlags
<1>3. "executable" \in SegmentFlags(h) <=> h.x = TRUE
  BY <1>1 DEF SegmentFlags
<1>4. ("writable" \in SegmentFlags(h)) = h.w
  BY <1>1, <1>2
<1>5. ("executable" \in SegmentFlags(h)) = h.x
  BY <1>1, <1>3
<1> QED BY <1>4, <1>5 DEF FlagsMatch

\* Byte n of the segment is in the memory of the space.
ByteIn(h, s, n) ==
    LET x == (h.vaddr + n) \div PageSize
    IN  /\ x \in VirtPages
        /\ s.table[x].present
        /\ s.table[x].bytes[(h.vaddr + n) % PageSize] = (IF n < h.filesz THEN h.offset + n ELSE 0)
        /\ FlagsMatch(h, s.table[x].flags)
SegmentIn(h, s) == h.load => \A n \in 0 .. h.memsz - 1 : ByteIn(h, s, n)

\* A space in which the used pages are as they were still has the segment.
LEMMA SegmentKept ==
    ASSUME NEW s, NEW t, NEW h, SegmentIn(h, s),
           \A x \in VirtPages : s.table[x].present => t.table[x] = s.table[x]
    PROVE  SegmentIn(h, t)
<1> SUFFICES ASSUME h.load, NEW n \in 0 .. h.memsz - 1 PROVE ByteIn(h, t, n)
  BY DEF SegmentIn
<1> DEFINE x == (h.vaddr + n) \div PageSize
<1>1. ByteIn(h, s, n)
  BY DEF SegmentIn
<1>2. x \in VirtPages /\ s.table[x].present
  BY <1>1 DEF ByteIn
<1>3. t.table[x] = s.table[x]
  BY <1>2
<1> QED BY <1>1, <1>3 DEF ByteIn

\* The space after a segment was put behind the used pages.
LEMMA SegmentLoaded ==
    ASSUME NEW s, Good(s), ~s.reused, NEW h \in Elf64Phdr, h.vaddr % PageSize = 0,
           s.current <= SegmentAt(h), SegmentAt(h) + SegmentPages(h) <= Limit,
           NEW t, t = SegmentSpace(h, s)
    PROVE  /\ Good(t) /\ ~t.reused /\ SegmentIn(h, t)
           /\ \A x \in VirtPages : s.table[x].present => t.table[x] = s.table[x]
<1> DEFINE at == SegmentAt(h)
<1> DEFINE pages == SegmentPages(h)
<1>1. /\ PageSize \in Nat \ {0} /\ Limit \in Nat \ {0} /\ h.vaddr \in Nat /\ h.memsz \in Nat
      /\ h.filesz \in Nat /\ h.offset \in Nat
  BY PageAssumption DEF Elf64Phdr
<1>2. at \in Nat /\ pages \in Nat
  <2>1. h.memsz + PageSize - 1 \in Nat
    BY <1>1
  <2> QED BY <1>1, <2>1, DivMod DEF SegmentAt, SegmentPages
<1>3. /\ s.current \in 1 .. Limit /\ s.table \in [VirtPages -> PageEntry]
      /\ s.free_list \in Seq(FreeListEntry) /\ s.reused = FALSE
      /\ \A v \in VirtPages : s.table[v].present => v < s.current
  BY DEF Good, BelowCurrent, AddressSpace
<1> DEFINE gap == Extent(s.current, at - s.current)
<1>4. /\ t.current = at + pages /\ t.table = WithSegment(h, s.table)
      /\ t.free_list = <<gap>> \o s.free_list /\ t.head_canonical = TRUE
      /\ t.reused = s.reused
      /\ t = [current |-> t.current, table |-> t.table, free_list |-> t.free_list,
              head_canonical |-> t.head_canonical, reused |-> t.reused]
  BY DEF SegmentSpace
<1> HIDE DEF at, pages
<1>g. gap \in FreeListEntry /\ gap.addr = s.current /\ EndOf(gap) = at /\ gap.cuts = 0
  <2>1. at - s.current \in Nat /\ s.current \in Nat /\ s.current + (at - s.current) = at
    BY <1>2, <1>3 DEF at
  <2> QED BY <2>1 DEF Extent, FreeListEntry, EndOf
<1> HIDE DEF gap
<1> DEFINE fl == s.free_list
<1> DEFINE gl == t.free_list
<1>f. /\ gl \in Seq(FreeListEntry) /\ DOMAIN fl = 1 .. Len(fl) /\ Len(fl) \in Nat
      /\ DOMAIN gl = 1 .. Len(fl) + 1 /\ gl[1] = gap
      /\ \A i \in 1 .. Len(fl) + 1 : i # 1 => gl[i] = fl[i - 1] /\ i - 1 \in DOMAIN fl
  <2> HIDE DEF fl, gl
  <2>1. fl \in Seq(FreeListEntry) /\ gl = <<gap>> \o fl
    BY <1>3, <1>4 DEF fl, gl
  <2>2. Len(<<gap>>) = 1 /\ <<gap>>[1] = gap /\ <<gap>> \in Seq(FreeListEntry)
    BY <1>g
  <2>3. Len(gl) = Len(fl) + 1 /\ gl \in Seq(FreeListEntry)
    BY <2>1, <2>2
  <2> QED BY <2>1, <2>2, <2>3
<1>5. \A v \in VirtPages :
          t.table[v] = IF v \in at .. at + pages - 1 THEN SegmentPage(h, v) ELSE s.table[v]
  BY <1>4 DEF WithSegment, at, pages
<1>6. ASSUME NEW v \in at .. at + pages - 1, NEW b \in Bytes
      PROVE  /\ SegmentBytes(h, pages)[(v - at) * PageSize + b] \in Int
             /\ SegmentPage(h, v).bytes[b] =
                    (IF (v - at) * PageSize + b < h.filesz
                     THEN h.offset + ((v - at) * PageSize + b) ELSE 0)
  <2> DEFINE j == v - at
  <2>1. j \in 0 .. pages - 1
    BY <1>2
  <2> HIDE DEF j
  <2>2. SegmentBytes(h, pages)[j * PageSize + b] =
            (IF j * PageSize + b < h.filesz THEN h.offset + (j * PageSize + b) ELSE 0)
    BY <1>2, <2>1, SegmentByte
  <2>3. j * PageSize + b \in Int
    BY <1>1, <2>1, <1>2 DEF Bytes
  <2>4. SegmentBytes(h, pages)[j * PageSize + b] \in Int
    BY <1>1, <2>2, <2>3
  <2>5. SegmentPage(h, v).bytes[b] = SegmentBytes(h, pages)[j * PageSize + b]
    BY DEF SegmentPage, Page, j, at, pages
  <2> QED BY <2>2, <2>4, <2>5 DEF j
<1>7. ASSUME NEW v \in at .. at + pages - 1 PROVE SegmentPage(h, v) \in PageEntry
  <2> DEFINE bytes == [b \in Bytes |-> SegmentBytes(h, pages)[(v - at) * PageSize + b]]
  <2>1. bytes \in [Bytes -> Int]
    BY <1>6
  <2>2. SegmentFlags(h) \in SUBSET {"writable", "executable"}
    BY DEF SegmentFlags
  <2>3. SegmentPage(h, v) = Page(SegmentFlags(h), bytes)
    BY DEF SegmentPage, at, pages
  <2> HIDE DEF bytes
  <2> QED BY <2>1, <2>2, <2>3 DEF Page, PageEntry
<1>8. Good(t)
  <2>1. t.table \in [VirtPages -> PageEntry]
    <3>1. \A v \in VirtPages : t.table[v] \in PageEntry
      BY <1>3, <1>5, <1>7
    <3>2. t.table = [v \in VirtPages |-> t.table[v]]
      BY <1>4 DEF WithSegment
    <3> QED BY <3>1, <3>2
  <2>2. at + pages \in 1 .. Limit
    BY <1>1, <1>2, <1>3 DEF at, pages
  <2>3. t \in AddressSpace
    BY <1>3, <1>4, <1>f, <2>1, <2>2 DEF AddressSpace
  <2>e. ASSUME NEW i \in DOMAIN fl, fl[i].cuts = 0
        PROVE  /\ fl[i].addr \in Nat /\ fl[i].pages \in Nat /\ EndOf(fl[i]) \in Nat
               /\ fl[i].addr <= EndOf(fl[i]) /\ EndOf(fl[i]) <= s.current
    <3>1. fl[i] \in FreeListEntry
      BY <1>3
    <3>2. EndOf(fl[i]) <= s.current
      BY <2>e DEF Good, BelowCurrent
    <3> QED BY <3>1, <3>2 DEF FreeListEntry, EndOf
  <2> HIDE DEF fl, gl
  <2>4. ASSUME NEW v \in VirtPages, t.table[v].present PROVE v < t.current
    <3>1. v \in Int
      BY DEF VirtPages
    <3>2. CASE v \in at .. at + pages - 1
      BY <1>2, <1>4, <3>2
    <3>3. CASE v \notin at .. at + pages - 1
      <4>1. v < s.current
        BY <1>3, <1>5, <2>4, <3>3
      <4> QED BY <1>2, <1>3, <1>4, <3>1, <4>1 DEF at
    <3> QED BY <3>2, <3>3
  <2>5. ASSUME NEW i \in DOMAIN gl, gl[i].cuts = 0 PROVE EndOf(gl[i]) <= t.current
    <3>1. CASE i = 1
      BY <1>2, <1>4, <1>f, <1>g, <3>1
    <3>2. CASE i # 1
      <4>1. i - 1 \in DOMAIN fl /\ gl[i] = fl[i - 1]
        BY <1>f, <3>2
      <4>2. EndOf(gl[i]) <= s.current /\ EndOf(gl[i]) \in Nat
        BY <2>5, <2>e, <4>1
      <4> QED BY <1>2, <1>3, <1>4, <4>2 DEF at
    <3> QED BY <3>1, <3>2
  <2>6. ASSUME NEW i \in DOMAIN gl, gl[i].cuts = 0, NEW v \in VirtPages,
               gl[i].addr <= v, v < EndOf(gl[i])
        PROVE  ~t.table[v].present
    <3>1. v \in Int
      BY DEF VirtPages
    <3>2. v \notin at .. at + pages - 1 /\ ~s.table[v].present
      <4>1. CASE i = 1
        <5>1. s.current <= v /\ v < at
          BY <1>f, <1>g, <2>6, <4>1
        <5> QED BY <1>2, <1>3, <3>1, <5>1
      <4>2. CASE i # 1
        <5>1. i - 1 \in DOMAIN fl /\ gl[i] = fl[i - 1]
          BY <1>f, <4>2
        <5>2. ~s.table[v].present
          BY <2>6, <5>1 DEF Good, NotInUse, fl
        <5>3. EndOf(gl[i]) <= s.current /\ EndOf(gl[i]) \in Nat
          BY <2>6, <2>e, <5>1
        <5>4. v < at
          BY <1>2, <1>3, <2>6, <3>1, <5>3 DEF at
        <5> QED BY <1>2, <3>1, <5>2, <5>4
      <4> QED BY <4>1, <4>2
    <3> QED BY <1>5, <3>2
  <2>7. ASSUME NEW i \in DOMAIN gl, NEW j \in DOMAIN gl, i # j, gl[i].cuts = 0, gl[j].cuts = 0
        PROVE  EndOf(gl[i]) <= gl[j].addr \/ EndOf(gl[j]) <= gl[i].addr
    <3>1. CASE i = 1
      <4>1. j - 1 \in DOMAIN fl /\ gl[j] = fl[j - 1] /\ gl[i] = gap
        BY <1>f, <2>7, <3>1
      <4> QED BY <1>g, <2>7, <2>e, <4>1
    <3>2. CASE j = 1
      <4>1. i - 1 \in DOMAIN fl /\ gl[i] = fl[i - 1] /\ gl[j] = gap
        BY <1>f, <2>7, <3>2
      <4> QED BY <1>g, <2>7, <2>e, <4>1
    <3>3. CASE i # 1 /\ j # 1
      <4>1. /\ i - 1 \in DOMAIN fl /\ gl[i] = fl[i - 1]
            /\ j - 1 \in DOMAIN fl /\ gl[j] = fl[j - 1] /\ i - 1 # j - 1
        BY <1>f, <2>7, <3>3
      <4> QED BY <2>7, <4>1 DEF Good, RangesApart, fl
    <3> QED BY <3>1, <3>2, <3>3
  <2>8. BelowCurrent(t)
    BY <2>4, <2>5 DEF BelowCurrent, gl
  <2>9. NotInUse(t)
    BY <2>6 DEF NotInUse, gl
  <2>10. RangesApart(t)
    BY <2>7 DEF RangesApart, gl
  <2> QED BY <2>3, <2>8, <2>9, <2>10 DEF Good
<1>9. ASSUME NEW x \in VirtPages, s.table[x].present PROVE t.table[x] = s.table[x]
  <2>1. x < s.current /\ x \in Int
    BY <1>3, <1>9 DEF VirtPages
  <2>2. x \notin at .. at + pages - 1
    BY <1>2, <1>3, <2>1 DEF at
  <2> QED BY <1>5, <2>2
<1>10. ASSUME NEW n \in 0 .. h.memsz - 1 PROVE ByteIn(h, t, n)
  <2> DEFINE x == (h.vaddr + n) \div PageSize
  <2> DEFINE j == n \div PageSize
  <2> DEFINE b == n % PageSize
  <2>1. n \in Nat /\ n < h.memsz
    BY <1>1
  <2>2. j \in Nat /\ b \in 0 .. PageSize - 1 /\ n = j * PageSize + b
    BY <1>1, <2>1, DivMod
  <2>3. x = at + j /\ (h.vaddr + n) % PageSize = b
    BY <1>1, <2>1, BytePosition DEF at, SegmentAt
  <2>4. j < pages
    BY <1>1, <2>1, RoundedUp DEF pages, SegmentPages
  <2> HIDE DEF x, j, b
  <2>5. x \in at .. at + pages - 1 /\ x - at = j
    BY <1>2, <2>2, <2>3, <2>4
  <2>6. x \in VirtPages
    <3>1. at + pages <= Limit
      BY DEF at, pages
    <3> QED BY <1>1, <1>2, <2>5, <3>1 DEF VirtPages
  <2>7. t.table[x] = SegmentPage(h, x)
    BY <1>5, <2>5, <2>6
  <2>8. SegmentPage(h, x).present /\ SegmentPage(h, x).flags = SegmentFlags(h)
    BY DEF SegmentPage, Page
  <2>9. SegmentPage(h, x).bytes[b] = (IF n < h.filesz THEN h.offset + n ELSE 0)
    <3>1. b \in Bytes
      BY <2>2 DEF Bytes
    <3> QED BY <1>6, <2>2, <2>5, <3>1
  <2>10. FlagsMatch(h, t.table[x].flags)
    BY <2>7, <2>8, SegmentFlagsMatch
  <2> QED BY <2>3, <2>6, <2>7, <2>8, <2>9, <2>10 DEF ByteIn, x
<1> QED BY <1>3, <1>4, <1>8, <1>9, <1>10 DEF SegmentIn

\* The state of a load when n headers are through.
LoadOK(e, n, l) ==
    /\ l \in Loads /\ Good(l.space) /\ ~l.space.reused
    /\ l.ok => e.valid /\ \A i \in 1 .. n : SegmentIn(e.segments[i], l.space)

\* LoadSegment keeps it.
LEMMA LoadSegmentOK ==
    ASSUME NEW e \in Elf64Ehdr, NEW n \in 0 .. Len(e.segments) - 1, NEW l, LoadOK(e, n, l)
    PROVE  LoadOK(e, n + 1, LoadSegment(l, e.segments[n + 1]))
<1> DEFINE h == e.segments[n + 1]
<1> DEFINE m == LoadSegment(l, h)
<1>1. e.segments \in Seq(Elf64Phdr) /\ Len(e.segments) \in Nat
  BY DEF Elf64Ehdr
<1>2. h \in Elf64Phdr /\ n \in Nat
  BY <1>1
<1>3. l \in Loads /\ Good(l.space) /\ ~l.space.reused
  BY DEF LoadOK
<1>4. \A i \in 1 .. n + 1 : i \in 1 .. n \/ i = n + 1
  BY <1>2
<1> HIDE DEF h, m
<1>5. CASE m = l /\ (~l.ok \/ ~h.load)
  <2>1. ~h.load => SegmentIn(h, l.space)
    BY DEF SegmentIn
  <2> QED BY <1>3, <1>4, <1>5, <2>1 DEF LoadOK, h, m
<1>6. CASE m \in Loads /\ ~m.ok /\ m.space = l.space
  BY <1>3, <1>6 DEF LoadOK, h, m
<1>7. CASE /\ l.ok /\ h.load /\ h.vaddr % PageSize = 0
           /\ l.space.current <= SegmentAt(h)
           /\ SegmentAt(h) + SegmentPages(h) <= Limit
           /\ m.ok /\ m.frames \in Nat
           /\ m = [ok |-> l.ok, frames |-> l.frames - SegmentPages(h),
                   space |-> SegmentSpace(h, l.space)]
  <2> DEFINE s == l.space
  <2> DEFINE t == m.space
  <2>1. t = SegmentSpace(h, s)
    BY <1>7
  <2> HIDE DEF s, t
  <2>2. Good(s) /\ ~s.reused
    BY <1>3 DEF s
  <2>3. s.current <= SegmentAt(h)
    BY <1>7 DEF s
  <2>4. /\ Good(t) /\ ~t.reused /\ SegmentIn(h, t)
        /\ \A x \in VirtPages : s.table[x].present => t.table[x] = s.table[x]
    BY <1>2, <1>7, <2>1, <2>2, <2>3, SegmentLoaded
  <2>5. e.valid /\ \A i \in 1 .. n : SegmentIn(e.segments[i], s)
    BY <1>7 DEF LoadOK, s
  <2>6. \A i \in 1 .. n : SegmentIn(e.segments[i], t)
    BY <2>4, <2>5, SegmentKept
  <2>7. m \in Loads
    <3>1. t \in AddressSpace
      BY <2>4 DEF Good
    <3>2. m = [ok |-> l.ok, frames |-> m.frames, space |-> t] /\ l.ok \in BOOLEAN
      BY <1>3, <1>7, <2>1 DEF Loads, s
    <3> QED BY <1>7, <3>1, <3>2 DEF Loads
  <2>8. \A i \in 1 .. n + 1 : SegmentIn(e.segments[i], t)
    BY <1>4, <2>4, <2>6 DEF h
  <2> QED BY <2>4, <2>5, <2>7, <2>8 DEF LoadOK, t, h, m
<1> QED BY <1>2, <1>3, <1>5, <1>6, <1>7, LoadSegmentCases DEF m

\* A new address space.
LEMMA EmptySpaceGood == Good(EmptySpace) /\ ~EmptySpace.reused
<1>1. NotPresent \in PageEntry /\ ~NotPresent.present
  BY DEF PageEntry, NotPresent
<1>2. /\ EmptySpace.current = 1 /\ EmptySpace.table = [v \in VirtPages |-> NotPresent]
      /\ EmptySpace.free_list = <<>> /\ EmptySpace.reused = FALSE
  BY DEF EmptySpace
<1>3. EmptySpace \in AddressSpace
  <2>1. 1 \in 1 .. Limit
    BY PageAssumption
  <2>2. <<>> \in Seq(FreeListEntry)
    OBVIOUS
  <2> QED BY <1>1, <2>1, <2>2 DEF EmptySpace, AddressSpace
<1>4. DOMAIN EmptySpace.free_list = {}
  BY <1>2
<1> QED BY <1>1, <1>2, <1>3, <1>4 DEF Good, BelowCurrent, NotInUse, RangesApart

\* load_elf_from_buff, when it succeeds, leaves a space with every segment.
LEMMA LoadDescribes ==
    ASSUME NEW e \in Elf64Ehdr, NEW f \in Nat, NEW l, l = load_elf_from_buff(EmptySpace, e, f)
    PROVE  LoadOK(e, Len(e.segments), l)
<1> DEFINE base == [ok |-> e.valid, space |-> EmptySpace, frames |-> f]
<1> DEFINE seq == e.segments
<1> DEFINE S == {x \in Nat \X Loads : LoadOK(e, x[1], x[2])}
<1>1. seq \in Seq(Elf64Phdr) /\ e.valid \in BOOLEAN
  BY DEF Elf64Ehdr
<1>2. <<0, base>> \in S
  <2>1. base \in Loads
    BY <1>1, EmptySpaceGood DEF Loads, Good
  <2>2. LoadOK(e, 0, base)
    <3>1. base.space = EmptySpace /\ base.ok = e.valid
      OBVIOUS
    <3>2. \A i \in 1 .. 0 : FALSE
      OBVIOUS
    <3> HIDE DEF base
    <3> QED BY <2>1, <3>1, <3>2, EmptySpaceGood DEF LoadOK
  <2> HIDE DEF base
  <2> QED BY <2>1, <2>2
<1>3. ASSUME NEW n \in 0 .. Len(seq) - 1, NEW m, <<n, m>> \in S
      PROVE  <<n + 1, LoadSegment(m, seq[n + 1])>> \in S
  <2>1. LoadOK(e, n, m)
    BY <1>3
  <2>2. LoadOK(e, n + 1, LoadSegment(m, seq[n + 1]))
    BY <2>1, LoadSegmentOK
  <2>3. n + 1 \in Nat /\ LoadSegment(m, seq[n + 1]) \in Loads
    BY <1>1, <2>2 DEF LoadOK
  <2> QED BY <2>2, <2>3
<1> HIDE DEF S, base, seq
<1>4. <<Len(seq), FoldLeft(LoadSegment, base, seq)>> \in S
  BY <1>1, <1>2, <1>3, LoadInduction
<1>5. l = FoldLeft(LoadSegment, base, seq)
  BY DEF load_elf_from_buff, base, seq
<1> QED BY <1>4, <1>5 DEF S, seq

\* The pages that are mapped, when they lie inside the space.
LEMMA MappedIs ==
    ASSUME NEW s, NEW pages \in Nat \ {0}, AllocatedAt(s, pages) \in Nat,
           AllocatedAt(s, pages) + pages <= Limit
    PROVE  Mapped(s, pages) = AllocatedAt(s, pages) .. AllocatedAt(s, pages) + pages - 1
<1> DEFINE at == AllocatedAt(s, pages)
<1>1. at \in Nat /\ at + pages <= Limit /\ Limit \in Nat \ {0}
  BY PageAssumption
<1> HIDE DEF at
<1>2. ASSUME NEW v \in at .. at + pages - 1 PROVE v % Limit = v
  <2>1. v \in 0 .. Limit - 1
    BY <1>1
  <2>2. 0 \in Nat /\ 0 * Limit + v = v
    BY <1>1, <2>1
  <2> QED BY <1>1, <2>1, <2>2, DivIs
<1>3. Mapped(s, pages) = {v % Limit : v \in at .. at + pages - 1}
  BY DEF Mapped, at
<1>4. \A x : x \in Mapped(s, pages) <=> x \in at .. at + pages - 1
  BY <1>2, <1>3
<1> QED BY <1>4 DEF at

\* The entry at which the walk ends.
LEMMA FirstFitIs ==
    ASSUME NEW s \in AddressSpace, NEW pages \in Nat \ {0}, Fits(s, pages) # {}
    PROVE  /\ FirstFit(s, pages) \in 1 .. Len(s.free_list)
           /\ pages <= s.free_list[FirstFit(s, pages)].pages
           /\ s.free_list[FirstFit(s, pages)] \in FreeListEntry
<1> DEFINE F == Fits(s, pages)
<1>1. s.free_list \in Seq(FreeListEntry)
  BY DEF AddressSpace
<1>2. F \subseteq Nat /\ F \subseteq 1 .. Len(s.free_list)
  BY <1>1 DEF Fits
<1>3. \E i \in F : \A j \in F : i <= j
  <2>1. F # {} /\ F \in SUBSET Nat
    BY <1>2
  <2> HIDE DEF F
  <2>2. Min(F) \in F /\ \A y \in F : Min(F) <= y
    BY <2>1, MinOf
  <2> QED BY <2>2
<1>4. FirstFit(s, pages) \in F
  <2> HIDE DEF F
  <2>1. FirstFit(s, pages) = CHOOSE i \in F : \A j \in F : i <= j
    BY DEF FirstFit, F
  <2> QED BY <1>3, <2>1
<1>5. FirstFit(s, pages) \in 1 .. Len(s.free_list)
  BY <1>2, <1>4
<1>6. pages <= s.free_list[FirstFit(s, pages)].pages
  BY <1>4 DEF Fits
<1> QED BY <1>1, <1>5, <1>6

\* A page that is mapped by a system call, and a table with such pages.
NewPage == Page({"writable"}, [b \in Bytes |-> Junk])
NewTable(s, pages) ==
    [v \in VirtPages |-> IF v \in Mapped(s, pages) THEN NewPage ELSE s.table[v]]

\* It is a table.
LEMMA NewTableType ==
    ASSUME NEW s \in AddressSpace, NEW pages
    PROVE  NewTable(s, pages) \in [VirtPages -> PageEntry]
<1>1. NewPage \in PageEntry
  <2> DEFINE bytes == [b \in Bytes |-> Junk]
  <2>1. bytes \in [Bytes -> Int]
    BY DEF Junk
  <2> HIDE DEF bytes
  <2>2. Page({"writable"}, bytes) \in PageEntry
    BY <2>1 DEF Page, PageEntry
  <2> QED BY <2>2 DEF bytes, NewPage
<1>2. s.table \in [VirtPages -> PageEntry]
  BY DEF AddressSpace
<1> HIDE DEF NewPage
<1> QED BY <1>1, <1>2 DEF NewTable

\* Nothing fits: the pages are put behind those that are in use.
LEMMA ExtendGood ==
    ASSUME NEW s, Good(s), NEW pages \in Nat \ {0}, Mappable(s, pages), Fits(s, pages) = {},
           NEW t, t = WithPages(s, pages)
    PROVE  /\ Good(t) /\ t.reused = s.reused /\ t.current = s.current + pages
           /\ AllocatedAt(s, pages) = s.current
           /\ ~t.reused => \A x \in VirtPages : s.table[x].present => t.table[x] = s.table[x]
<1>1. /\ s \in AddressSpace /\ s.current \in 1 .. Limit /\ s.table \in [VirtPages -> PageEntry]
      /\ s.free_list \in Seq(FreeListEntry) /\ s.head_canonical \in BOOLEAN
      /\ s.reused \in BOOLEAN /\ Limit \in Nat \ {0}
  BY PageAssumption DEF Good, AddressSpace
<1> DEFINE T == NewTable(s, pages)
<1>2. T \in [VirtPages -> PageEntry]
  BY <1>1, NewTableType
<1>3. t = [current |-> s.current + pages, table |-> T, free_list |-> s.free_list,
           head_canonical |-> s.head_canonical, reused |-> s.reused]
  <2>1. t = [[s EXCEPT !.current = s.current + pages] EXCEPT !.table = T]
    BY DEF WithPages, alloc_addr_space, NewTable, NewPage
  <2> HIDE DEF T
  <2> QED BY <1>1, <2>1 DEF AddressSpace
<1>4. AllocatedAt(s, pages) = s.current
  BY DEF AllocatedAt
<1>5. s.current + pages < Limit
  BY <1>1 DEF Mappable, OutOfSpace
<1>6. Mapped(s, pages) = s.current .. s.current + pages - 1
  BY <1>1, <1>4, <1>5, MappedIs
<1>7. \A v \in VirtPages :
          T[v] = IF v \in s.current .. s.current + pages - 1 THEN NewPage ELSE s.table[v]
  BY <1>6 DEF NewTable
<1> HIDE DEF T
<1>8. /\ t.current = s.current + pages /\ t.table = T /\ t.free_list = s.free_list
      /\ t.reused = s.reused
  BY <1>3
<1>9. t \in AddressSpace
  <2>1. s.current + pages \in 1 .. Limit
    BY <1>1, <1>5
  <2> QED BY <1>1, <1>2, <1>3, <2>1 DEF AddressSpace
<1>10. ASSUME ~s.reused
       PROVE  BelowCurrent(t) /\ NotInUse(t) /\ RangesApart(t)
              /\ \A x \in VirtPages : s.table[x].present => t.table[x] = s.table[x]
  <2>1. BelowCurrent(s) /\ NotInUse(s) /\ RangesApart(s)
    BY <1>10 DEF Good
  <2>2. VirtPages \subseteq Int
    BY DEF VirtPages
  <2>3. ASSUME NEW v \in VirtPages, t.table[v].present PROVE v < t.current
    <3>1. CASE v \in s.current .. s.current + pages - 1
      BY <1>1, <1>8, <2>2, <3>1
    <3>2. CASE v \notin s.current .. s.current + pages - 1
      <4>1. v < s.current
        BY <1>7, <1>8, <2>1, <2>3, <3>2 DEF BelowCurrent
      <4> QED BY <1>1, <1>8, <2>2, <4>1
    <3> QED BY <3>1, <3>2
  <2>4. ASSUME NEW i \in DOMAIN s.free_list, s.free_list[i].cuts = 0
        PROVE  EndOf(s.free_list[i]) <= s.current /\ EndOf(s.free_list[i]) \in Nat
    <3>1. s.free_list[i] \in FreeListEntry
      BY <1>1
    <3> QED BY <2>1, <2>4, <3>1 DEF BelowCurrent, EndOf, FreeListEntry
  <2>5. BelowCurrent(t)
    <3>1. \A i \in DOMAIN s.free_list :
              s.free_list[i].cuts = 0 => EndOf(s.free_list[i]) <= s.current + pages
      BY <1>1, <2>4
    <3> QED BY <1>8, <2>3, <3>1 DEF BelowCurrent
  <2>6. ASSUME NEW i \in DOMAIN s.free_list, s.free_list[i].cuts = 0, NEW v \in VirtPages,
               s.free_list[i].addr <= v, v < EndOf(s.free_list[i])
        PROVE  ~T[v].present
    <3>1. ~s.table[v].present
      BY <2>1, <2>6 DEF NotInUse
    <3>2. v \notin s.current .. s.current + pages - 1
      BY <1>1, <2>2, <2>4, <2>6
    <3> QED BY <1>7, <3>1, <3>2
  <2>7. NotInUse(t)
    BY <1>8, <2>6 DEF NotInUse
  <2>8. RangesApart(t)
    BY <1>8, <2>1 DEF RangesApart
  <2>9. ASSUME NEW x \in VirtPages, s.table[x].present PROVE t.table[x] = s.table[x]
    <3>1. x < s.current /\ x \in Int
      BY <2>1, <2>2, <2>9 DEF BelowCurrent
    <3>2. x \notin s.current .. s.current + pages - 1
      BY <1>1, <3>1
    <3> QED BY <1>7, <1>8, <3>2
  <2> QED BY <2>5, <2>7, <2>8, <2>9
<1> QED BY <1>4, <1>8, <1>9, <1>10 DEF Good

\* The free list after a free range was used, as a list gl of which every entry
\* that was never split is one of the old list fl, at another place each, and
\* none of them the entry i.
Fewer(fl, gl, i) ==
    \E f \in [DOMAIN gl -> DOMAIN fl] :
        /\ \A j \in DOMAIN gl : gl[j].cuts = 0 => gl[j] = fl[f[j]] /\ f[j] # i
        /\ \A j, k \in DOMAIN gl : j # k => f[j] # f[k]

\* A range that was never split is used.
LEMMA UseGood ==
    ASSUME NEW s, Good(s), ~s.reused, NEW pages \in Nat \ {0}, NEW i \in DOMAIN s.free_list,
           s.free_list[i].cuts = 0, pages <= s.free_list[i].pages,
           AllocatedAt(s, pages) = s.free_list[i].addr,
           NEW t, t.current = s.current, t.table = NewTable(s, pages),
           Fewer(s.free_list, t.free_list, i)
    PROVE  /\ BelowCurrent(t) /\ NotInUse(t) /\ RangesApart(t)
           /\ \A x \in VirtPages : s.table[x].present => t.table[x] = s.table[x]
<1> DEFINE fl == s.free_list
<1> DEFINE gl == t.free_list
<1> DEFINE at == fl[i].addr
<1>1. /\ s.current \in 1 .. Limit /\ s.table \in [VirtPages -> PageEntry]
      /\ fl \in Seq(FreeListEntry) /\ Limit \in Nat \ {0}
      /\ BelowCurrent(s) /\ NotInUse(s) /\ RangesApart(s)
  BY PageAssumption DEF Good, AddressSpace
<1>2. \A j \in DOMAIN fl : fl[j].addr \in Nat /\ fl[j].pages \in Nat /\ EndOf(fl[j]) \in Nat
                           /\ EndOf(fl[j]) = fl[j].addr + fl[j].pages
  <2> TAKE j \in DOMAIN fl
  <2>1. fl[j] \in FreeListEntry
    BY <1>1
  <2> QED BY <2>1 DEF FreeListEntry, EndOf
<1>3. EndOf(fl[i]) <= s.current
  BY <1>1 DEF BelowCurrent
<1>4. at \in Nat /\ at + pages <= EndOf(fl[i]) /\ at + pages <= Limit
  BY <1>1, <1>2, <1>3
<1>5. Mapped(s, pages) = at .. at + pages - 1
  BY <1>4, MappedIs
<1>6. \A v \in VirtPages :
          t.table[v] = IF v \in at .. at + pages - 1 THEN NewPage ELSE s.table[v]
  BY <1>5 DEF NewTable
<1>7. PICK f \in [DOMAIN gl -> DOMAIN fl] :
          /\ \A j \in DOMAIN gl : gl[j].cuts = 0 => gl[j] = fl[f[j]] /\ f[j] # i
          /\ \A j, k \in DOMAIN gl : j # k => f[j] # f[k]
  BY DEF Fewer
<1>8. VirtPages \subseteq Int
  BY DEF VirtPages
<1>9. ASSUME NEW v \in VirtPages, t.table[v].present PROVE v < t.current
  <2>1. CASE v \in at .. at + pages - 1
    BY <1>1, <1>2, <1>3, <1>4, <1>8, <2>1
  <2>2. CASE v \notin at .. at + pages - 1
    BY <1>1, <1>6, <1>9, <2>2 DEF BelowCurrent
  <2> QED BY <2>1, <2>2
<1>10. ASSUME NEW j \in DOMAIN gl, gl[j].cuts = 0 PROVE EndOf(gl[j]) <= t.current
  <2>1. f[j] \in DOMAIN fl /\ gl[j] = fl[f[j]]
    BY <1>7, <1>10
  <2> QED BY <1>1, <1>10, <2>1 DEF BelowCurrent
<1>11. ASSUME NEW j \in DOMAIN gl, gl[j].cuts = 0, NEW v \in VirtPages,
              gl[j].addr <= v, v < EndOf(gl[j])
       PROVE  ~t.table[v].present
  <2>1. f[j] \in DOMAIN fl /\ gl[j] = fl[f[j]] /\ f[j] # i
    BY <1>7, <1>11
  <2>2. ~s.table[v].present
    BY <1>1, <1>11, <2>1 DEF NotInUse
  <2>3. EndOf(fl[i]) <= fl[f[j]].addr \/ EndOf(fl[f[j]]) <= at
    BY <1>1, <1>11, <2>1 DEF RangesApart
  <2>4. v \notin at .. at + pages - 1
    <3> HIDE DEF fl, gl, at
    <3>1. /\ fl[f[j]].addr <= v /\ v < EndOf(fl[f[j]]) /\ v \in Int /\ i \in DOMAIN fl
          /\ fl[f[j]].addr \in Nat /\ EndOf(fl[f[j]]) \in Nat /\ EndOf(fl[i]) \in Nat
      BY <1>2, <1>8, <1>11, <2>1 DEF fl
    <3> QED BY <1>4, <2>3, <3>1
  <2> QED BY <1>6, <2>2, <2>4
<1>12. ASSUME NEW j \in DOMAIN gl, NEW k \in DOMAIN gl, j # k, gl[j].cuts = 0, gl[k].cuts = 0
       PROVE  EndOf(gl[j]) <= gl[k].addr \/ EndOf(gl[k]) <= gl[j].addr
  <2>1. /\ f[j] \in DOMAIN fl /\ gl[j] = fl[f[j]]
        /\ f[k] \in DOMAIN fl /\ gl[k] = fl[f[k]] /\ f[j] # f[k]
    BY <1>7, <1>12
  <2> QED BY <1>1, <1>12, <2>1 DEF RangesApart
<1>13. ASSUME NEW x \in VirtPages, s.table[x].present PROVE t.table[x] = s.table[x]
  <2>1. x \notin at .. at + pages - 1
    <3> SUFFICES ASSUME x \in at .. at + pages - 1 PROVE FALSE
      OBVIOUS
    <3>1. at <= x /\ x < EndOf(fl[i])
      BY <1>2, <1>4, <1>8
    <3> QED BY <1>1, <1>13, <3>1 DEF NotInUse
  <2> QED BY <1>6, <2>1
<1> QED BY <1>9, <1>10, <1>11, <1>12, <1>13 DEF BelowCurrent, NotInUse, RangesApart

\* Splitting an entry: it is no longer one that was never split.
LEMMA CutGood ==
    ASSUME NEW s, Good(s), NEW pages \in Nat \ {0}, Fits(s, pages) # {},
           pages < s.free_list[FirstFit(s, pages)].pages, NEW t, t = WithPages(s, pages)
    PROVE  /\ Good(t) /\ t.current = s.current
           /\ ~t.reused => /\ ~s.reused
                           /\ \A x \in VirtPages : s.table[x].present => t.table[x] = s.table[x]
<1> DEFINE i == FirstFit(s, pages)
<1> DEFINE fl == s.free_list
<1> DEFINE e == [addr |-> fl[i].addr + pages, pages |-> fl[i].pages + pages,
                 cuts |-> fl[i].cuts + 1]
<1>1. /\ s \in AddressSpace /\ s.current \in 1 .. Limit /\ s.table \in [VirtPages -> PageEntry]
      /\ fl \in Seq(FreeListEntry) /\ s.head_canonical \in BOOLEAN
      /\ s.reused \in BOOLEAN
  BY DEF Good, AddressSpace
<1>2. i \in DOMAIN fl /\ i \in 1 .. Len(fl) /\ pages <= fl[i].pages /\ fl[i] \in FreeListEntry
  BY <1>1, FirstFitIs
<1> DEFINE T == NewTable(s, pages)
<1>3. T \in [VirtPages -> PageEntry]
  BY <1>1, NewTableType
<1> DEFINE gl == [fl EXCEPT ![i] = e]
<1> DEFINE again == s.reused \/ fl[i].cuts > 0
<1>4. t = [current |-> s.current, table |-> T, free_list |-> gl,
           head_canonical |-> s.head_canonical, reused |-> again]
  <2>1. t = [CutEntry(s, i, pages) EXCEPT !.table = T]
    BY DEF WithPages, alloc_addr_space, NewTable, NewPage
  <2>2. CutEntry(s, i, pages) =
            [current |-> s.current, table |-> s.table, free_list |-> gl,
             head_canonical |-> s.head_canonical, reused |-> again]
    <3>1. CutEntry(s, i, pages) = [s EXCEPT !.free_list = gl, !.reused = again]
      BY <1>1, <1>2 DEF CutEntry, AddressSpace
    <3> HIDE DEF gl, again, fl, e
    <3> QED BY <1>1, <3>1 DEF AddressSpace
  <2> HIDE DEF T, gl, again, fl, e, i
  <2> QED BY <2>1, <2>2
<1>5. e \in FreeListEntry /\ e.cuts # 0
  BY <1>2 DEF FreeListEntry
<1>6. again \in BOOLEAN /\ (~again => ~s.reused /\ fl[i].cuts = 0)
  <2>1. fl[i].cuts \in Nat
    BY <1>2 DEF FreeListEntry
  <2> QED BY <1>1, <2>1
<1> HIDE DEF e
<1>7. /\ gl \in Seq(FreeListEntry) /\ DOMAIN gl = DOMAIN fl /\ gl[i] = e
      /\ \A j \in DOMAIN fl : j # i => gl[j] = fl[j]
  BY <1>1, <1>2, <1>5
<1>8. AllocatedAt(s, pages) = fl[i].addr
  BY DEF AllocatedAt
<1> HIDE DEF T, gl, again, i
<1>9. /\ t.current = s.current /\ t.table = T /\ t.free_list = gl /\ t.reused = again
  BY <1>4
<1>10. t \in AddressSpace
  BY <1>1, <1>3, <1>4, <1>6, <1>7 DEF AddressSpace
<1>11. Fewer(fl, gl, i)
  <2> DEFINE f == [j \in DOMAIN gl |-> j]
  <2>1. f \in [DOMAIN gl -> DOMAIN fl]
    BY <1>7
  <2>2. \A j \in DOMAIN gl : gl[j].cuts = 0 => gl[j] = fl[f[j]] /\ f[j] # i
    BY <1>5, <1>7
  <2>3. \A j, k \in DOMAIN gl : j # k => f[j] # f[k]
    OBVIOUS
  <2> HIDE DEF f
  <2> QED BY <2>1, <2>2, <2>3 DEF Fewer
<1>12. ASSUME ~t.reused
       PROVE  /\ ~s.reused /\ BelowCurrent(t) /\ NotInUse(t) /\ RangesApart(t)
              /\ \A x \in VirtPages : s.table[x].present => t.table[x] = s.table[x]
  BY <1>2, <1>6, <1>8, <1>9, <1>11, <1>12, UseGood DEF T
<1> QED BY <1>9, <1>10, <1>12 DEF Good

\* Unlinking an entry of the right size.
LEMMA UnlinkGood ==
    ASSUME NEW s, Good(s), NEW pages \in Nat \ {0}, Fits(s, pages) # {},
           ~(pages < s.free_list[FirstFit(s, pages)].pages), NEW t, t = WithPages(s, pages)
    PROVE  /\ Good(t) /\ t.current = s.current
           /\ ~t.reused => /\ ~s.reused
                           /\ \A x \in VirtPages : s.table[x].present => t.table[x] = s.table[x]
<1> DEFINE i == FirstFit(s, pages)
<1> DEFINE fl == s.free_list
<1>1. /\ s \in AddressSpace /\ s.current \in 1 .. Limit /\ s.table \in [VirtPages -> PageEntry]
      /\ fl \in Seq(FreeListEntry) /\ s.head_canonical \in BOOLEAN
      /\ s.reused \in BOOLEAN
  BY DEF Good, AddressSpace
<1>2. i \in DOMAIN fl /\ i \in 1 .. Len(fl) /\ pages <= fl[i].pages /\ fl[i] \in FreeListEntry
  BY <1>1, FirstFitIs
<1> DEFINE T == NewTable(s, pages)
<1>3. T \in [VirtPages -> PageEntry]
  BY <1>1, NewTableType
<1> DEFINE gl == RemoveAt(fl, i)
<1> DEFINE again == s.reused \/ fl[i].cuts > 0
<1> DEFINE canonical == i = 1 => Len(fl) = 1
<1>4. t = [current |-> s.current, table |-> T, free_list |-> gl,
           head_canonical |-> canonical, reused |-> again]
  <2>1. t = [UseEntry(s, i) EXCEPT !.table = T]
    BY DEF WithPages, alloc_addr_space, NewTable, NewPage
  <2>2. UseEntry(s, i) = [s EXCEPT !.free_list = gl, !.head_canonical = canonical,
                                   !.reused = again]
    BY DEF UseEntry
  <2> HIDE DEF T, gl, again, canonical, i
  <2> QED BY <1>1, <2>1, <2>2 DEF AddressSpace
<1>5. canonical \in BOOLEAN
  OBVIOUS
<1>6. again \in BOOLEAN /\ (~again => ~s.reused /\ fl[i].cuts = 0)
  <2>1. fl[i].cuts \in Nat
    BY <1>2 DEF FreeListEntry
  <2> QED BY <1>1, <2>1
<1> HIDE DEF i, fl
<1>7. /\ gl \in Seq(FreeListEntry) /\ Len(gl) = Len(fl) - 1
      /\ \A j \in 1 .. Len(fl) - 1 : gl[j] = IF j < i THEN fl[j] ELSE fl[j + 1]
  BY <1>1, <1>2, RemoveAtElements
<1>8. AllocatedAt(s, pages) = fl[i].addr
  BY DEF AllocatedAt, i, fl
<1> HIDE DEF T, gl, again, canonical
<1>9. /\ t.current = s.current /\ t.table = T /\ t.free_list = gl /\ t.reused = again
  BY <1>4
<1>10. t \in AddressSpace
  BY <1>1, <1>3, <1>4, <1>5, <1>6, <1>7 DEF AddressSpace
<1>11. Fewer(fl, gl, i)
  <2> DEFINE f == [j \in DOMAIN gl |-> IF j < i THEN j ELSE j + 1]
  <2>1. DOMAIN gl = 1 .. Len(fl) - 1 /\ DOMAIN fl = 1 .. Len(fl) /\ Len(fl) \in Nat
    BY <1>1, <1>7
  <2>2. f \in [DOMAIN gl -> DOMAIN fl]
    BY <1>2, <2>1
  <2>3. \A j \in DOMAIN gl : gl[j].cuts = 0 => gl[j] = fl[f[j]] /\ f[j] # i
    BY <1>2, <1>7, <2>1
  <2>4. \A j, k \in DOMAIN gl : j # k => f[j] # f[k]
    BY <1>2, <2>1
  <2> HIDE DEF f
  <2> QED BY <2>2, <2>3, <2>4 DEF Fewer
<1>12. ASSUME ~t.reused
       PROVE  /\ ~s.reused /\ BelowCurrent(t) /\ NotInUse(t) /\ RangesApart(t)
              /\ \A x \in VirtPages : s.table[x].present => t.table[x] = s.table[x]
  <2>1. /\ ~s.reused /\ fl[i].cuts = 0 /\ Fewer(s.free_list, t.free_list, i)
        /\ t.table = NewTable(s, pages) /\ i \in DOMAIN s.free_list
        /\ s.free_list[i].cuts = 0 /\ pages <= s.free_list[i].pages
        /\ AllocatedAt(s, pages) = s.free_list[i].addr
    BY <1>2, <1>6, <1>8, <1>9, <1>11, <1>12 DEF T, fl
  <2> QED BY <1>9, <2>1, UseGood
<1> QED BY <1>9, <1>10, <1>12 DEF Good

\* Pages more, as a system call maps them: unless a range that was split is used
\* again, they were not in use.
LEMMA WithPagesGood ==
    ASSUME NEW s, Good(s), NEW pages \in Nat \ {0}, Mappable(s, pages),
           NEW t, t = WithPages(s, pages)
    PROVE  /\ Good(t)
           /\ ~t.reused => /\ ~s.reused
                           /\ \A x \in VirtPages : s.table[x].present => t.table[x] = s.table[x]
           /\ \/ t.current = s.current
              \/ t.current = s.current + pages /\ AllocatedAt(s, pages) = s.current
<1>1. CASE Fits(s, pages) = {}
  BY <1>1, ExtendGood
<1>2. CASE Fits(s, pages) # {} /\ pages < s.free_list[FirstFit(s, pages)].pages
  BY <1>2, CutGood
<1>3. CASE Fits(s, pages) # {} /\ ~(pages < s.free_list[FirstFit(s, pages)].pages)
  BY <1>3, UnlinkGood
<1> QED BY <1>1, <1>2, <1>3

\* What a process may start with: a space with every segment of its file, in
\* which no range was used twice.
LEMMA LoadedSpaces ==
    ASSUME NEW e \in Elf64Ehdr, NEW s \in Loaded(e)
    PROVE  /\ Good(s) /\ e # NoImage
           /\ ~s.reused => \A i \in DOMAIN e.segments : SegmentIn(e.segments[i], s)
<1>1. PICK r \in WithImage(e) : Mappable(r, StackPages) /\ s = WithPages(r, StackPages)
  BY DEF Loaded
<1>2. PICK f \in Frames : LET l == load_elf_from_buff(EmptySpace, e, f)
                          IN  l.ok /\ r = l.space
  BY DEF WithImage
<1> DEFINE l == load_elf_from_buff(EmptySpace, e, f)
<1>3. LoadOK(e, Len(e.segments), l) /\ l.ok /\ r = l.space
  BY <1>2, EnvironmentAssumption, LoadDescribes
<1> HIDE DEF l
<1>4. Good(r) /\ e.valid /\ \A i \in 1 .. Len(e.segments) : SegmentIn(e.segments[i], r)
  BY <1>3 DEF LoadOK
<1>5. StackPages \in Nat \ {0}
  BY EnvironmentAssumption
<1>6. Good(s) /\ (~s.reused => \A x \in VirtPages : r.table[x].present => s.table[x] = r.table[x])
  BY <1>1, <1>4, <1>5, WithPagesGood
<1>7. ~s.reused => \A i \in 1 .. Len(e.segments) : SegmentIn(e.segments[i], s)
  BY <1>4, <1>6, SegmentKept
<1>8. DOMAIN e.segments = 1 .. Len(e.segments)
  BY DEF Elf64Ehdr
<1>9. e # NoImage
  <2>1. NoImage.valid = FALSE
    BY DEF NoImage
  <2> QED BY <1>4, <2>1
<1> QED BY <1>6, <1>7, <1>8, <1>9

\* A space with every segment of a file is as the file describes.
LEMMA AllDescribed ==
    ASSUME NEW e \in Elf64Ehdr, NEW s, \A i \in DOMAIN e.segments : SegmentIn(e.segments[i], s)
    PROVE  Describes(e, s)
<1> SUFFICES ASSUME NEW i \in DOMAIN e.segments, e.segments[i].load,
                    NEW n \in 0 .. e.segments[i].memsz - 1
             PROVE  LET h == e.segments[i]
                        page == s.table[(h.vaddr + n) \div PageSize]
                    IN  /\ page.present
                        /\ page.bytes[(h.vaddr + n) % PageSize] =
                               (IF n < h.filesz THEN h.offset + n ELSE 0)
                        /\ ("writable" \in page.flags) = h.w
                        /\ ("executable" \in page.flags) = h.x
  BY DEF Describes
<1> DEFINE h == e.segments[i]
<1>1. ByteIn(h, s, n)
  BY DEF SegmentIn
<1> HIDE DEF h
<1>2. LET page == s.table[(h.vaddr + n) \div PageSize]
      IN  /\ page.present
          /\ page.bytes[(h.vaddr + n) % PageSize] =
                 (IF n < h.filesz THEN h.offset + n ELSE 0)
          /\ ("writable" \in page.flags) = h.w
          /\ ("executable" \in page.flags) = h.x
  BY <1>1 DEF ByteIn, FlagsMatch
<1> QED BY <1>2 DEF h

-----------------------------------------------------------------------------
(* The queue and the memory of the processes.                              *)

\* The queue holds every started process once; processes start in order.
QueueHolds(q) ==
    /\ Linked(q, head, tail, next)
    /\ next \in [Proc -> Proc \cup {0}]
    /\ image \in [Proc -> Images \cup {NoImage}]
    /\ \A p : p \in Started <=> p \in 1 .. Len(q)
    /\ \A p : p \in Started <=> \E i \in 1 .. Len(q) : q[i] = p
    /\ \A p \in Proc \ Started : next[p] = 0
    /\ mode \in {"boot", "idle", "user", "syscall"}
    /\ mode \in {"boot", "idle"} <=> Len(q) = 0

\* Some sequence of processes is what the pointers describe.
QueueInv == \E q : QueueHolds(q)

\* Every space is in order, and has the segments of its process's file unless a
\* range that was split is used again.
MemoryInv ==
    /\ space \in [Proc -> AddressSpace]
    /\ \A p \in Proc : Good(space[p])
    /\ \A p \in Started : ~space[p].reused => \A i \in DOMAIN image[p].segments :
           SegmentIn(image[p].segments[i], space[p])

\* The next process to start is one that has not started.
LEMMA FreshFacts ==
    ASSUME NEW q, QueueHolds(q), Fresh \in Proc
    PROVE  /\ Fresh = Len(q) + 1 /\ Fresh \notin Started /\ next[Fresh] = 0
           /\ Len(q) < Cardinality(Proc) /\ Len(q) \in Nat
           /\ \A i \in 1 .. Len(q) : q[i] # Fresh
<1>1. Len(q) \in Nat
  BY DEF QueueHolds, Linked
<1>2. Started = 1 .. Len(q)
  BY DEF QueueHolds
<1>3. Cardinality(Started) = Len(q)
  <2>1. Cardinality(1 .. Len(q)) = IF 1 > Len(q) THEN 0 ELSE Len(q) - 1 + 1
    BY <1>1, FS_Interval
  <2> QED BY <1>1, <1>2, <2>1
<1>4. Fresh = Len(q) + 1
  BY <1>1, <1>3 DEF Fresh
<1>5. Fresh \notin Started
  BY <1>1, <1>2, <1>4
<1>6. next[Fresh] = 0
  BY <1>5 DEF QueueHolds
<1>7. Len(q) < Cardinality(Proc)
  BY <1>1, <1>4, ProcFacts
<1> QED BY <1>1, <1>4, <1>5, <1>6, <1>7 DEF QueueHolds

\* A started process is a process; the head is one unless the queue is empty.
LEMMA HeadFacts ==
    ASSUME NEW q, QueueHolds(q)
    PROVE  /\ Len(q) \in Nat /\ Started \subseteq Proc
           /\ mode \in {"user", "syscall"} => Len(q) # 0 /\ head \in Proc /\ head \in Started
           /\ mode \in {"boot", "idle"} => head = 0 /\ tail = 0 /\ Started = {}
<1>1. q \in Seq(Proc) /\ Len(q) \in Nat /\ Started \subseteq Proc
  BY DEF QueueHolds, Linked, Started
<1>2. ASSUME mode \in {"user", "syscall"} PROVE Len(q) # 0 /\ head \in Proc /\ head \in Started
  <2>1. Len(q) # 0
    BY <1>2 DEF QueueHolds
  <2>2. 1 \in 1 .. Len(q) /\ head = q[1]
    BY <1>1, <2>1 DEF QueueHolds, Linked
  <2> QED BY <1>1, <2>1, <2>2 DEF QueueHolds
<1>3. ASSUME mode \in {"boot", "idle"} PROVE head = 0 /\ tail = 0 /\ Started = {}
  <2>1. Len(q) = 0
    BY <1>3 DEF QueueHolds
  <2> QED BY <2>1 DEF QueueHolds, Linked
<1> QED BY <1>1, <1>2, <1>3

\* A process that starts is started, with a file that is one.
LEMMA StartedGrows ==
    ASSUME NEW p \in Proc, NEW e \in Images, Loaded(e) # {},
           image \in [Proc -> Images \cup {NoImage}], image' = [image EXCEPT ![p] = e]
    PROVE  /\ image' \in [Proc -> Images \cup {NoImage}] /\ image'[p] = e
           /\ \A x \in Proc : x # p => image'[x] = image[x]
           /\ Started' = Started \cup {p}
<1>1. e # NoImage
  BY ImageAssumption, LoadedSpaces
<1>2. image' \in [Proc -> Images \cup {NoImage}] /\ image'[p] = e
  OBVIOUS
<1>3. \A x \in Proc : x # p => image'[x] = image[x]
  OBVIOUS
<1>4. \A x : x \in Started' <=> x \in Started \/ x = p
  BY <1>1, <1>2, <1>3 DEF Started
<1> QED BY <1>2, <1>3, <1>4

\* What a step does to the queue q.
Moves(q, r) ==
    \/ r = q
    \/ \E p \in Proc : r = Append(q, p) /\ \A i \in 1 .. Len(q) : q[i] # p
    \/ Len(q) # 0 /\ r = Append(Tail(q), Head(q))

\* The first process.
LEMMA InitializeQueue ==
    ASSUME NEW q, QueueHolds(q), NEW p \in Proc, NEW e \in Images, NEW built \in Builds,
           initialize_process_system(p, e, built)
    PROVE  \E r : QueueHolds(r)' /\ Moves(q, r)
<1>1. mode = "boot" /\ p = Fresh
  BY DEF initialize_process_system
<1>2. Len(q) = 0 /\ q \in Seq(Proc) /\ q = <<>>
  BY <1>1 DEF QueueHolds, Linked
<1>3. CASE ~built
  <2>1. mode' = "idle" /\ UNCHANGED <<head, tail, next, image>>
    BY <1>3 DEF initialize_process_system, queueVars
  <2>2. Started' = Started
    BY <2>1 DEF Started
  <2>3. QueueHolds(q)'
    BY <1>2, <2>1, <2>2 DEF QueueHolds
  <2> QED BY <2>3 DEF Moves
<1>4. CASE built
  <2>1. /\ head' = p /\ tail' = p /\ next' = next /\ mode' = "user"
        /\ image' = [image EXCEPT ![p] = e] /\ Loaded(e) # {}
    BY <1>4 DEF initialize_process_system
  <2>2. /\ p = Len(q) + 1 /\ p \notin Started /\ next[p] = 0
    BY <1>1, FreshFacts
  <2>3. image' \in [Proc -> Images \cup {NoImage}] /\ Started' = Started \cup {p}
    BY <2>1, StartedGrows DEF QueueHolds
  <2>4. Started = {}
    BY <1>1, HeadFacts
  <2> DEFINE r == <<p>>
  <2>5. Linked(r, head', tail', next')
    BY <2>1, <2>2, LinkFirst
  <2>6. Len(r) = 1 /\ r[1] = p /\ p = 1
    BY <1>2, <2>2
  <2> HIDE DEF r
  <2>7. /\ \A x : x \in Started' <=> x \in 1 .. Len(r)
        /\ \A x : x \in Started' <=> \E i \in 1 .. Len(r) : r[i] = x
    BY <2>3, <2>4, <2>6
  <2>8. QueueHolds(r)'
    BY <2>1, <2>3, <2>5, <2>6, <2>7 DEF QueueHolds
  <2>9. r = Append(q, p) /\ \A i \in 1 .. Len(q) : q[i] # p
    BY <1>2 DEF r
  <2> QED BY <2>8, <2>9 DEF Moves
<1> QED BY <1>3, <1>4

\* Another one.
LEMMA StartQueue ==
    ASSUME NEW q, QueueHolds(q), NEW p \in Proc, NEW e \in Images, start_user_process(p, e)
    PROVE  \E r : QueueHolds(r)' /\ Moves(q, r)
<1>1. /\ mode = "user" /\ mode' = mode /\ p = Fresh /\ head' = head /\ tail' = p
      /\ next' = [next EXCEPT ![tail] = p]
      /\ image' = [image EXCEPT ![p] = e] /\ Loaded(e) # {}
  BY DEF start_user_process
<1>2. /\ p = Len(q) + 1 /\ p \notin Started /\ next[p] = 0
      /\ Len(q) < Cardinality(Proc) /\ Len(q) \in Nat
      /\ \A i \in 1 .. Len(q) : q[i] # p
  BY <1>1, FreshFacts
<1>3. image' \in [Proc -> Images \cup {NoImage}] /\ Started' = Started \cup {p}
  BY <1>1, StartedGrows DEF QueueHolds
<1>4. Len(q) # 0 /\ q \in Seq(Proc) /\ next \in [Proc -> Proc \cup {0}]
  BY <1>1, HeadFacts DEF QueueHolds, Linked
<1> DEFINE r == Append(q, p)
<1>5. Linked(r, head', tail', next')
  <2>1. Linked(q, head, tail, next)
    BY DEF QueueHolds
  <2>2. Linked(r, head, p, [next EXCEPT ![tail] = p])
    BY <1>2, <1>4, <2>1, LinkLast
  <2> QED BY <1>1, <2>2
<1>6. /\ Len(r) = Len(q) + 1 /\ r[Len(q) + 1] = p
      /\ \A i \in 1 .. Len(q) : r[i] = q[i]
  BY <1>4
<1> HIDE DEF r
<1>7. \A i : i \in 1 .. Len(r) <=> i \in 1 .. Len(q) \/ i = Len(q) + 1
  BY <1>2, <1>6
<1>8. /\ \A x : x \in Started' <=> x \in 1 .. Len(r)
      /\ \A x : x \in Started' <=> \E i \in 1 .. Len(r) : r[i] = x
  BY <1>2, <1>3, <1>6, <1>7 DEF QueueHolds
<1>9. next' \in [Proc -> Proc \cup {0}]
  BY <1>1, <1>4
<1>10. \A x \in Proc \ Started' : next'[x] = 0
  <2> TAKE x \in Proc \ Started'
  <2>1. x \notin Started /\ next[x] = 0
    BY <1>3 DEF QueueHolds
  <2>2. tail \in Started
    <3>1. Len(q) \in 1 .. Len(q) /\ tail = q[Len(q)]
      BY <1>2, <1>4 DEF QueueHolds, Linked
    <3> QED BY <3>1 DEF QueueHolds
  <2> QED BY <1>1, <1>4, <2>1, <2>2
<1>11. mode \notin {"boot", "idle"} /\ Len(r) # 0
  BY <1>1, <1>2, <1>6
<1>12. QueueHolds(r)'
  BY <1>1, <1>3, <1>5, <1>8, <1>9, <1>10, <1>11 DEF QueueHolds
<1> QED BY <1>2, <1>12 DEF Moves, r

\* A tick.
LEMMA TickQueue ==
    ASSUME NEW q, QueueHolds(q), Tick
    PROVE  \E r : QueueHolds(r)' /\ Moves(q, r)
<1>1. /\ mode = "user" /\ mode' = mode /\ image' = image
      /\ head' = Rotated.head /\ tail' = Rotated.tail /\ next' = Rotated.next
  BY DEF Tick, context_switch
<1>2. Len(q) \in Nat /\ Len(q) # 0 /\ head \in Proc /\ head \in Started
  BY <1>1, HeadFacts
<1>3. Linked(q, head, tail, next) /\ next \in [Proc -> Proc \cup {0}] /\ q \in Seq(Proc)
  BY DEF QueueHolds, Linked
<1>4. Started' = Started
  BY <1>1 DEF Started
<1>5. CASE next[head] = 0
  <2>1. head' = head /\ tail' = tail /\ next' = next
    BY <1>1, <1>5 DEF Rotated
  <2>2. QueueHolds(q)'
    BY <1>1, <1>4, <2>1 DEF QueueHolds
  <2> QED BY <2>2 DEF Moves
<1>6. CASE next[head] # 0
  <2> DEFINE r == Append(Tail(q), Head(q))
  <2>1. head' = next[head] /\ tail' = head /\ next' = [next EXCEPT ![head] = 0, ![tail] = head]
    BY <1>1, <1>6 DEF Rotated
  <2>2. Linked(r, head', tail', next')
    BY <1>2, <1>3, <1>6, <2>1, LinkRotate
  <2>3. /\ Len(r) = Len(q) /\ r[Len(q)] = q[1]
        /\ \A i \in 1 .. Len(q) : i # Len(q) => r[i] = q[i + 1]
    <3>1. /\ Tail(q) \in Seq(Proc) /\ Len(Tail(q)) = Len(q) - 1
          /\ Head(q) = q[1] /\ Head(q) \in Proc
          /\ \A i \in 1 .. Len(q) - 1 : Tail(q)[i] = q[i + 1]
      BY <1>2, <1>3
    <3> DEFINE z == Tail(q)
    <3> DEFINE y == Head(q)
    <3>2. z \in Seq(Proc) /\ y \in Proc /\ Len(z) = Len(q) - 1
      BY <3>1
    <3> HIDE DEF z, y
    <3>3. /\ Len(Append(z, y)) = Len(q) /\ Append(z, y)[Len(q)] = y
          /\ \A i \in 1 .. Len(q) - 1 : Append(z, y)[i] = z[i]
      BY <1>2, <3>2
    <3>4. \A i \in 1 .. Len(q) : i # Len(q) => i \in 1 .. Len(q) - 1
      BY <1>2
    <3> QED BY <3>1, <3>3, <3>4 DEF z, y
  <2> HIDE DEF r
  <2>4. \A x : (\E i \in 1 .. Len(r) : r[i] = x) <=> (\E i \in 1 .. Len(q) : q[i] = x)
    <3> TAKE x
    <3>1. ASSUME NEW i \in 1 .. Len(r), r[i] = x PROVE \E j \in 1 .. Len(q) : q[j] = x
      <4>1. CASE i = Len(q)
        <5>1. 1 \in 1 .. Len(q)
          BY <1>2
        <5> QED BY <2>3, <3>1, <4>1, <5>1
      <4>2. CASE i # Len(q)
        <5>1. i + 1 \in 1 .. Len(q)
          BY <1>2, <2>3, <4>2
        <5> QED BY <2>3, <3>1, <4>2, <5>1
      <4> QED BY <4>1, <4>2
    <3>2. ASSUME NEW j \in 1 .. Len(q), q[j] = x PROVE \E i \in 1 .. Len(r) : r[i] = x
      <4>1. CASE j = 1
        <5>1. Len(q) \in 1 .. Len(r)
          BY <1>2, <2>3
        <5> QED BY <2>3, <3>2, <4>1, <5>1
      <4>2. CASE j # 1
        <5>1. j - 1 \in 1 .. Len(q) /\ j - 1 # Len(q) /\ (j - 1) + 1 = j
          BY <1>2, <4>2
        <5> QED BY <2>3, <3>2, <5>1
      <4> QED BY <4>1, <4>2
    <3> QED BY <3>1, <3>2
  <2>5. next' \in [Proc -> Proc \cup {0}]
    BY <1>2, <1>3, <2>1
  <2>6. \A x \in Proc \ Started' : next'[x] = 0
    <3> TAKE x \in Proc \ Started'
    <3>1. x \notin Started /\ next[x] = 0
      BY <1>4 DEF QueueHolds
    <3>2. tail \in Started
      <4>1. Len(q) \in 1 .. Len(q) /\ tail = q[Len(q)]
        BY <1>2, <1>3 DEF Linked
      <4> QED BY <4>1 DEF QueueHolds
    <3> QED BY <1>2, <1>3, <2>1, <3>1, <3>2
  <2>7. \A x : x \in Started' <=> \E i \in 1 .. Len(r) : r[i] = x
    BY <1>4, <2>4 DEF QueueHolds
  <2>8. QueueHolds(r)'
    BY <1>1, <1>4, <2>2, <2>3, <2>5, <2>6, <2>7 DEF QueueHolds
  <2> QED BY <1>2, <2>8 DEF Moves, r
<1> QED BY <1>5, <1>6

\* The steps in which the kernel stops and nothing else happens.
Stopping ==
    \/ \E e \in Images : ImageRefused(e) \/ NoRoomForStack(e)
    \/ OutOfMemory \/ NoProcessRunning \/ TickInSyscall \/ Derailed
    \/ \E n \in Requests : OutOfAddressSpace(n)
    \/ WalkFaults \/ NoFrameForTable

\* They do.
LEMMA StoppingStops == ASSUME Stopping PROVE \E reason \in Stops : Stop(reason)
<1>1. \/ Stop("failed to load ELF file") \/ Stop("out of address space") \/ Stop("page fault")
      \/ Stop("no previously running process") \/ Stop("triple fault")
      \/ Stop("general protection fault") \/ Stop("out of memory")
  BY DEF Stopping, ImageRefused, NoRoomForStack, OutOfMemory, NoProcessRunning, TickInSyscall,
         Derailed, OutOfAddressSpace, WalkFaults, NoFrameForTable
<1> QED BY <1>1 DEF Stops

\* Every step moves the queue as the abstract scheduler may.
LEMMA NextQueue ==
    ASSUME NEW q, QueueHolds(q), [Next]_vars
    PROVE  \E r : QueueHolds(r)' /\ Moves(q, r)
<1>1. ASSUME NEW p \in Proc, NEW e \in Images,
             \/ \E built \in Builds : initialize_process_system(p, e, built)
             \/ start_user_process(p, e)
      PROVE  \E r : QueueHolds(r)' /\ Moves(q, r)
  BY <1>1, InitializeQueue, StartQueue
<1>2. CASE Tick
  BY <1>2, TickQueue
<1>3. CASE /\ UNCHANGED <<head, tail, next, image>>
           /\ \/ mode' = mode
              \/ mode = "user" /\ mode' = "syscall"
              \/ mode = "syscall" /\ mode' = "user"
  <2>1. Started' = Started
    BY <1>3 DEF Started
  <2>2. QueueHolds(q)'
    BY <1>3, <2>1 DEF QueueHolds
  <2> QED BY <2>2 DEF Moves
<1>4. ASSUME NEW reason, Stop(reason) PROVE \E r : QueueHolds(r)' /\ Moves(q, r)
  <2>1. UNCHANGED <<head, tail, next, image, mode>>
    BY <1>4 DEF Stop, queueVars
  <2> QED BY <1>3, <2>1
<1>5. CASE Stopping
  <2>1. PICK reason \in Stops : Stop(reason)
    BY <1>5, StoppingStops
  <2> QED BY <1>4, <2>1
<1>6. CASE UserStep \/ (\E v \in Touched : Touch(v))
  <2>1. UNCHANGED <<head, tail, next, image, mode>>
    BY <1>6 DEF UserStep, Touch, queueVars
  <2> QED BY <1>3, <2>1
<1>7. CASE \/ \E n \in Calls : syscall_dispatcher(n)
           \/ SyscallReturns
           \/ \E n \in Requests : SyscallMaps(n)
  <2>1. ASSUME NEW n \in Calls, syscall_dispatcher(n)
        PROVE  UNCHANGED <<head, tail, next, image>> /\ mode = "user" /\ mode' = "syscall"
    BY <2>1 DEF syscall_dispatcher, queueVars
  <2>2. ASSUME SyscallReturns
        PROVE  UNCHANGED <<head, tail, next, image>> /\ mode = "syscall" /\ mode' = "user"
    BY <2>2 DEF SyscallReturns, queueVars
  <2>3. ASSUME NEW n \in Requests, SyscallMaps(n)
        PROVE  UNCHANGED <<head, tail, next, image>> /\ mode = "syscall" /\ mode' = "user"
    BY <2>3 DEF SyscallMaps, MapsPages, queueVars
  <2> QED BY <1>3, <1>7, <2>1, <2>2, <2>3
<1>8. CASE SyscallWaits \/ Halted \/ UNCHANGED vars
  <2>1. UNCHANGED <<head, tail, next, image, mode>>
    BY <1>8 DEF SyscallWaits, Halted, vars, queueVars
  <2> QED BY <1>3, <2>1
<1> QED BY <1>1, <1>2, <1>5, <1>6, <1>7, <1>8 DEF Next, Stopping

\* Initially the queue is empty.
LEMMA InitQueue == Init => QueueHolds(<<>>)
<1> SUFFICES ASSUME Init PROVE QueueHolds(<<>>)
  OBVIOUS
<1>1. /\ head = 0 /\ tail = 0 /\ next = [p \in Proc |-> 0] /\ mode = "boot"
      /\ image = [p \in Proc |-> NoImage]
  BY DEF Init
<1>2. Started = {}
  BY <1>1 DEF Started
<1>3. Linked(<<>>, head, tail, next)
  <2>1. <<>> \in Seq(Proc) /\ Len(<<>>) = 0 /\ 1 .. 0 = {}
    OBVIOUS
  <2> QED BY <1>1, <2>1, ProcFacts DEF Linked
<1> QED BY <1>1, <1>2, <1>3 DEF QueueHolds

\* The queue is in order in every state.
LEMMA QueueAlways == Spec => []QueueInv
<1>1. Init => QueueInv
  BY InitQueue DEF QueueInv
<1>2. QueueInv /\ [Next]_vars => QueueInv'
  BY NextQueue DEF QueueInv
<1> QED BY <1>1, <1>2, PTL DEF Spec

\* The pointers of g_process_queue implement a queue in which processes take
\* turns: no tick and no start loses, repeats or overtakes a process, however
\* many there are.
THEOREM ProcessesTakeTurns == Spec => TakesTurns
<1>1. Init => TurnTaking!Init
  <2> SUFFICES ASSUME Init PROVE Queue = <<>>
    BY DEF TurnTaking!Init
  <2>1. Linked(<<>>, head, tail, next)
    BY InitQueue DEF QueueHolds
  <2> QED BY <2>1, QueueIsQueueOf, QueueLinked
<1>2. QueueInv /\ [Next]_vars => [TurnTaking!Next]_Queue
  <2> SUFFICES ASSUME QueueInv, [Next]_vars PROVE [TurnTaking!Next]_Queue
    OBVIOUS
  <2>1. PICK q : QueueHolds(q)
    BY DEF QueueInv
  <2>2. PICK r : QueueHolds(r)' /\ Moves(q, r)
    BY <2>1, NextQueue
  <2>3. Queue = q
    <3>1. Linked(q, head, tail, next)
      BY <2>1 DEF QueueHolds
    <3> QED BY <3>1, QueueIsQueueOf, QueueLinked
  <2>4. Queue' = r
    <3>1. Linked(r, head', tail', next')
      BY <2>2 DEF QueueHolds
    <3>2. Queue' = QueueOf(WalkOf(head', next'))
      BY DEF Queue, QueueLength, QueueOf, LengthOf, WalkOf, Walk
    <3> QED BY <3>1, <3>2, QueueLinked
  <2>5. q \in Seq(Proc)
    BY <2>1 DEF QueueHolds, Linked
  <2>6. CASE r = q
    BY <2>3, <2>4, <2>6
  <2>7. ASSUME NEW p \in Proc, r = Append(q, p), \A i \in 1 .. Len(q) : q[i] # p
        PROVE  TurnTaking!Next
    <3>1. p \notin ToSet(q)
      BY <2>5, <2>7, ToSetElement
    <3>2. TurnTaking!Start(p)
      BY <2>3, <2>4, <2>7, <3>1 DEF TurnTaking!Start, TurnTaking!ToSet, ToSet
    <3> QED BY <3>2 DEF TurnTaking!Next
  <2>8. CASE Len(q) # 0 /\ r = Append(Tail(q), Head(q))
    <3>1. q # <<>>
      BY <2>5, <2>8
    <3>2. TurnTaking!Rotate
      BY <2>3, <2>4, <2>8, <3>1 DEF TurnTaking!Rotate
    <3> QED BY <3>2 DEF TurnTaking!Next
  <2> QED BY <2>2, <2>6, <2>7, <2>8 DEF Moves
<1> QED BY <1>1, <1>2, QueueAlways, PTL DEF Spec, TakesTurns, TurnTaking!Spec

-----------------------------------------------------------------------------
(* The memory of the processes.                                            *)

\* A process that starts leaves the memory in order.
LEMMA StartMemory ==
    ASSUME MemoryInv, NEW p \in Proc, NEW e \in Images, NEW s \in Loaded(e),
           image \in [Proc -> Images \cup {NoImage}],
           space' = [space EXCEPT ![p] = s], image' = [image EXCEPT ![p] = e]
    PROVE  MemoryInv'
<1>1. e \in Elf64Ehdr
  BY ImageAssumption
<1>2. /\ Good(s) /\ s \in AddressSpace
      /\ ~s.reused => \A i \in DOMAIN e.segments : SegmentIn(e.segments[i], s)
  BY <1>1, LoadedSpaces DEF Good
<1>3. /\ space \in [Proc -> AddressSpace] /\ \A x \in Proc : Good(space[x])
      /\ \A x \in Started : ~space[x].reused => \A i \in DOMAIN image[x].segments :
             SegmentIn(image[x].segments[i], space[x])
  BY DEF MemoryInv
<1>4. image'[p] = e /\ Started' = Started \cup {p} /\ Started \subseteq Proc
      /\ \A x \in Proc : x # p => image'[x] = image[x]
  BY StartedGrows DEF Started
<1>5. /\ space' \in [Proc -> AddressSpace] /\ space'[p] = s
      /\ \A x \in Proc : x # p => space'[x] = space[x]
  BY <1>2, <1>3
<1>6. \A x \in Proc : Good(space'[x])
  BY <1>2, <1>3, <1>5
<1>7. ASSUME NEW x \in Started', ~space'[x].reused, NEW i \in DOMAIN image'[x].segments
      PROVE  SegmentIn(image'[x].segments[i], space'[x])
  <2>1. CASE x = p
    BY <1>2, <1>4, <1>5, <1>7, <2>1
  <2>2. CASE x # p
    BY <1>3, <1>4, <1>5, <1>7, <2>2
  <2> QED BY <2>1, <2>2
<1> QED BY <1>5, <1>6, <1>7 DEF MemoryInv

\* So does a system call that maps pages for the running process.
LEMMA MapMemory ==
    ASSUME MemoryInv, head \in Proc, NEW pages \in Nat \ {0}, Mappable(space[head], pages),
           space' = [space EXCEPT ![head] = WithPages(space[head], pages)], image' = image
    PROVE  MemoryInv'
<1> DEFINE t == WithPages(space[head], pages)
<1>1. /\ space \in [Proc -> AddressSpace] /\ \A x \in Proc : Good(space[x])
      /\ \A x \in Started : ~space[x].reused => \A i \in DOMAIN image[x].segments :
             SegmentIn(image[x].segments[i], space[x])
  BY DEF MemoryInv
<1>2. /\ Good(t) /\ t \in AddressSpace
      /\ ~t.reused =>
             /\ ~space[head].reused
             /\ \A x \in VirtPages : space[head].table[x].present => t.table[x] = space[head].table[x]
  BY <1>1, WithPagesGood DEF Good
<1>3. space' = [space EXCEPT ![head] = t]
  OBVIOUS
<1> HIDE DEF t
<1>4. /\ space' \in [Proc -> AddressSpace] /\ space'[head] = t
      /\ \A x \in Proc : x # head => space'[x] = space[x]
  BY <1>1, <1>2, <1>3
<1>5. Started' = Started /\ Started \subseteq Proc
  BY DEF Started
<1>6. \A x \in Proc : Good(space'[x])
  BY <1>1, <1>2, <1>4
<1>7. ASSUME NEW x \in Started, ~space'[x].reused, NEW i \in DOMAIN image[x].segments
      PROVE  SegmentIn(image[x].segments[i], space'[x])
  <2>1. CASE x = head
    <3>1. ~t.reused /\ ~space[head].reused
      BY <1>2, <1>4, <1>7, <2>1
    <3>2. SegmentIn(image[x].segments[i], space[head])
      BY <1>1, <1>7, <2>1, <3>1
    <3> QED BY <1>2, <1>4, <2>1, <3>1, <3>2, SegmentKept
  <2>2. CASE x # head
    BY <1>1, <1>4, <1>5, <1>7, <2>2
  <2> QED BY <2>1, <2>2
<1> QED BY <1>4, <1>5, <1>6, <1>7 DEF MemoryInv

\* Every step leaves the memory in order.
LEMMA NextMemory ==
    ASSUME QueueInv, MemoryInv, [Next]_vars
    PROVE  MemoryInv'
<1>1. PICK q : QueueHolds(q)
  BY DEF QueueInv
<1>2. image \in [Proc -> Images \cup {NoImage}]
  BY <1>1 DEF QueueHolds
<1>3. CASE UNCHANGED <<space, image>>
  BY <1>3 DEF MemoryInv, Started
<1>4. ASSUME NEW p \in Proc, NEW e \in Images, NEW built \in Builds,
             initialize_process_system(p, e, built)
      PROVE  MemoryInv'
  <2>1. CASE ~built
    BY <1>3, <1>4, <2>1 DEF initialize_process_system, spaceVars
  <2>2. CASE built
    <3>1. /\ \E s \in Loaded(e) : space' = [space EXCEPT ![p] = s]
          /\ image' = [image EXCEPT ![p] = e]
      BY <1>4, <2>2 DEF initialize_process_system
    <3> QED BY <1>2, <3>1, StartMemory
  <2> QED BY <2>1, <2>2
<1>5. ASSUME NEW p \in Proc, NEW e \in Images, start_user_process(p, e)
      PROVE  MemoryInv'
  <2>1. /\ \E s \in Loaded(e) : space' = [space EXCEPT ![p] = s]
        /\ image' = [image EXCEPT ![p] = e]
    BY <1>5 DEF start_user_process
  <2> QED BY <1>2, <2>1, StartMemory
<1>6. ASSUME NEW n \in Requests, SyscallMaps(n) PROVE MemoryInv'
  <2>1. /\ Mappable(space[head], n) /\ mode = "syscall" /\ image' = image
        /\ space' = [space EXCEPT ![head] = WithPages(space[head], n)]
    BY <1>6 DEF SyscallMaps, MapsPages
  <2>2. head \in Proc /\ n \in Nat \ {0}
    BY <1>1, <2>1, HeadFacts, EnvironmentAssumption
  <2> QED BY <2>1, <2>2, MapMemory
<1>7. CASE Stopping
  <2>1. PICK reason \in Stops : Stop(reason)
    BY <1>7, StoppingStops
  <2> QED BY <1>3, <2>1 DEF Stop, spaceVars
<1>8. CASE \/ UserStep
           \/ \E v \in Touched : Touch(v)
           \/ \E n \in Calls : syscall_dispatcher(n)
           \/ Tick \/ SyscallReturns
  <2>1. UNCHANGED <<space, image>>
    BY <1>8 DEF UserStep, Touch, syscall_dispatcher, Tick, context_switch, SyscallReturns,
                spaceVars
  <2> QED BY <1>3, <2>1
<1>9. CASE SyscallWaits \/ Halted \/ UNCHANGED vars
  <2>1. UNCHANGED <<space, image>>
    BY <1>9 DEF SyscallWaits, Halted, vars, spaceVars
  <2> QED BY <1>3, <2>1
<1> QED BY <1>4, <1>5, <1>6, <1>7, <1>8, <1>9 DEF Next, Stopping

\* The memory is in order in every state.
LEMMA MemoryAlways == Spec => []MemoryInv
<1>1. Init => MemoryInv
  <2> SUFFICES ASSUME Init PROVE MemoryInv
    OBVIOUS
  <2>1. space = [p \in Proc |-> EmptySpace] /\ Started = {}
    BY DEF Init, Started
  <2>2. EmptySpace \in AddressSpace
    BY EmptySpaceGood DEF Good
  <2> QED BY <2>1, <2>2, EmptySpaceGood DEF MemoryInv
<1>2. QueueInv /\ MemoryInv /\ [Next]_vars => MemoryInv'
  BY NextMemory
<1> QED BY <1>1, <1>2, QueueAlways, PTL DEF Spec

\* The memory of a started process is what its ELF file says, byte by byte and
\* with its permissions, whatever the file, and stays so when system calls map
\* more, until a free range that alloc_addr_space had split is used again.
THEOREM MemoryAlwaysAsDescribed == Spec => []LoadedAsDescribed
<1>1. QueueInv /\ MemoryInv => LoadedAsDescribed
  <2> SUFFICES ASSUME QueueInv, MemoryInv, NEW p \in Started, ~space[p].reused
               PROVE  Describes(image[p], space[p])
    BY DEF LoadedAsDescribed
  <2>1. image[p] \in Elf64Ehdr
    BY ImageAssumption DEF QueueInv, QueueHolds, Started
  <2> QED BY <2>1, AllDescribed DEF MemoryInv
<1> QED BY <1>1, QueueAlways, MemoryAlways, PTL

-----------------------------------------------------------------------------
(* What the processor has cached.                                          *)

\* The types of what the invariants above do not speak of, and the translations
\* of a program that runs in its own space.
CacheInv ==
    /\ {pml4, cpu} \subseteq Proc \cup {0}
    /\ mode \in {"user", "syscall"} => pml4 \in Proc
    /\ mode = "boot" => \A v \in Touched : tlb[v] = 0
    /\ saved \in [Proc -> Proc \cup {Nobody}]
    /\ tlb \in [Touched -> Proc \cup {0}]
    /\ call \in Calls \cup {NoCall}
    /\ kernel \in {"running"} \cup Stops
    /\ mode \in {"user", "syscall"} /\ pml4 = head =>
           \A v \in Touched : v < space[head].current => tlb[v] \in {0, head}

\* Steps that change none of it.
LEMMA QuietCache ==
    ASSUME CacheInv, UNCHANGED <<head, pml4, cpu, tlb, space>>,
           mode' = mode \/ (mode \in {"user", "syscall"} /\ mode' \in {"user", "syscall"}),
           saved' \in [Proc -> Proc \cup {Nobody}], call' \in Calls \cup {NoCall},
           kernel' \in {"running"} \cup Stops
    PROVE  CacheInv'
BY DEF CacheInv

\* The process whose turn is next has started.
LEMMA NextHead ==
    ASSUME NEW q, QueueHolds(q), mode = "user"
    PROVE  Rotated.head \in Started
<1>1. Len(q) \in Nat /\ Len(q) # 0 /\ head \in Started
  BY HeadFacts
<1>2. CASE next[head] = 0
  BY <1>1, <1>2 DEF Rotated
<1>3. CASE next[head] # 0
  <2>1. 1 \in 1 .. Len(q) /\ head = q[1]
    BY <1>1 DEF QueueHolds, Linked
  <2>2. next[head] = IF 1 < Len(q) THEN q[1 + 1] ELSE 0
    BY <2>1 DEF QueueHolds, Linked
  <2>3. 2 \in 1 .. Len(q) /\ next[head] = q[2]
    BY <1>1, <1>3, <2>2
  <2>4. Rotated.head = next[head]
    BY <1>3 DEF Rotated
  <2> QED BY <2>3, <2>4 DEF QueueHolds
<1> QED BY <1>2, <1>3

\* A tick invalidates every page of the space it maps.
LEMMA TickCache ==
    ASSUME NEW q, QueueHolds(q), CacheInv, Tick
    PROVE  CacheInv'
<1> DEFINE to == Rotated.head
<1>1. mode = "user" /\ mode' = mode /\ call' = call /\ space' = space
  BY DEF Tick, context_switch
<1>2. to \in Started /\ to \in Proc /\ head \in Proc
  BY <1>1, NextHead, HeadFacts DEF Started
<1> HIDE DEF to
<1>3. /\ pml4' = to /\ head' = to
      /\ tlb' = Invalidate(Invalidate(tlb, space[head]), space[to])
      /\ cpu' = saved'[to] /\ SaveRegisters
      /\ kernel' = (IF cpu' = Nobody THEN "registers lost" ELSE kernel)
  BY DEF Tick, context_switch, map_address_space, unmap_address_space, to
<1>4. /\ saved \in [Proc -> Proc \cup {Nobody}] /\ tlb \in [Touched -> Proc \cup {0}]
      /\ cpu \in Proc \cup {0} /\ pml4 \in Proc /\ Nobody = 0
      /\ call \in Calls \cup {NoCall} /\ kernel \in {"running"} \cup Stops
  BY <1>1 DEF CacheInv, Nobody
<1>5. saved' \in [Proc -> Proc \cup {Nobody}]
  <2>1. CASE pml4 = head
    <3>1. saved' = [saved EXCEPT ![head] = cpu]
      BY <1>3, <2>1 DEF SaveRegisters
    <3> QED BY <1>2, <1>4, <3>1
  <2>2. CASE pml4 # head
    <3>1. PICK hit \in {cpu, saved[pml4]}, old \in {Nobody, saved[head]} :
              saved' = [saved EXCEPT ![pml4] = hit, ![head] = old]
      BY <1>3, <2>2 DEF SaveRegisters
    <3>2. hit \in Proc \cup {Nobody} /\ old \in Proc \cup {Nobody}
      BY <1>2, <1>4
    <3> QED BY <1>2, <1>4, <3>1, <3>2
  <2> QED BY <2>1, <2>2
<1>6. cpu' \in Proc \cup {0}
  BY <1>2, <1>3, <1>4, <1>5
<1>7. kernel' \in {"running"} \cup Stops
  BY <1>3, <1>4 DEF Stops
<1>8. /\ tlb' \in [Touched -> Proc \cup {0}]
      /\ \A v \in Touched : v < space[to].current => tlb'[v] = 0
  <2> DEFINE c == Invalidate(tlb, space[head])
  <2>1. c \in [Touched -> Proc \cup {0}]
    BY <1>4 DEF Invalidate
  <2>2. tlb' = Invalidate(c, space[to])
    BY <1>3
  <2> HIDE DEF c
  <2> QED BY <2>1, <2>2 DEF Invalidate
<1> QED BY <1>1, <1>2, <1>3, <1>4, <1>5, <1>6, <1>7, <1>8 DEF CacheInv

\* A start leaves the space of the new process mapped.
LEMMA StartCache ==
    ASSUME NEW q, QueueHolds(q), CacheInv, NEW p \in Proc, NEW e \in Images,
           start_user_process(p, e)
    PROVE  CacheInv'
<1>1. /\ mode = "user" /\ mode' = mode /\ pml4' = p /\ head' = head /\ p = Fresh
      /\ saved' = [saved EXCEPT ![p] = p] /\ UNCHANGED <<cpu, call, kernel>>
  BY DEF start_user_process
<1>2. p # head
  BY <1>1, FreshFacts, HeadFacts
<1>3. tlb' \in [Touched -> Proc \cup {0}]
  <2>1. PICK s \in Loaded(e) :
            tlb' = [v \in Touched |-> IF v = 0 \/ s.table[v].present THEN 0 ELSE tlb[v]]
    BY DEF start_user_process
  <2>2. tlb \in [Touched -> Proc \cup {0}]
    BY DEF CacheInv
  <2> QED BY <2>1, <2>2
<1>4. saved' \in [Proc -> Proc \cup {Nobody}]
  BY <1>1 DEF CacheInv
<1> QED BY <1>1, <1>2, <1>3, <1>4 DEF CacheInv

\* A page that a system call maps is invalidated.
LEMMA MapCache ==
    ASSUME NEW q, QueueHolds(q), MemoryInv, CacheInv, NEW n \in Requests, SyscallMaps(n)
    PROVE  CacheInv'
<1> DEFINE s == space[head]
<1> DEFINE at == AllocatedAt(s, n)
<1>1. /\ mode = "syscall" /\ mode' = "user" /\ call' = NoCall /\ Mappable(s, n)
      /\ space' = [space EXCEPT ![head] = WithPages(s, n)]
      /\ tlb' = [v \in Touched |-> IF v \in at .. at + n - 1 THEN 0 ELSE tlb[v]]
      /\ UNCHANGED <<head, pml4, cpu, saved, kernel>>
  BY DEF SyscallMaps, MapsPages, queueVars, contextVars
<1>2. head \in Proc /\ n \in Nat \ {0} /\ space \in [Proc -> AddressSpace] /\ Good(s)
  BY <1>1, HeadFacts, EnvironmentAssumption DEF MemoryInv
<1>3. space'[head] = WithPages(s, n)
  BY <1>1, <1>2
<1>4. \/ space'[head].current = s.current
      \/ space'[head].current = s.current + n /\ at = s.current
  BY <1>1, <1>2, <1>3, WithPagesGood
<1>5. s.current \in Nat /\ Touched \subseteq Int /\ tlb \in [Touched -> Proc \cup {0}]
  BY <1>2, PageAssumption, EnvironmentAssumption DEF AddressSpace, VirtPages, CacheInv
<1> HIDE DEF s, at
<1>6. tlb' \in [Touched -> Proc \cup {0}]
  BY <1>1, <1>5
<1>7. ASSUME pml4 = head, NEW v \in Touched, v < space'[head].current
      PROVE  tlb'[v] \in {0, head}
  <2>1. CASE v \in at .. at + n - 1
    BY <1>1, <2>1
  <2>2. CASE v \notin at .. at + n - 1
    <3>1. v < s.current
      BY <1>2, <1>4, <1>5, <1>7, <2>2
    <3>2. tlb[v] \in {0, head}
      BY <1>1, <1>7, <3>1 DEF CacheInv, s
    <3> QED BY <1>1, <2>2, <3>2
  <2> QED BY <2>1, <2>2
<1> QED BY <1>1, <1>6, <1>7 DEF CacheInv

\* Every step keeps it.
LEMMA NextCache ==
    ASSUME QueueInv, MemoryInv, CacheInv, [Next]_vars
    PROVE  CacheInv'
<1>1. PICK q : QueueHolds(q)
  BY DEF QueueInv
<1>2. /\ saved \in [Proc -> Proc \cup {Nobody}] /\ call \in Calls \cup {NoCall}
      /\ kernel \in {"running"} \cup Stops
  BY DEF CacheInv
<1>3. ASSUME NEW p \in Proc, NEW e \in Images, NEW built \in Builds,
             initialize_process_system(p, e, built)
      PROVE  CacheInv'
  <2>1. mode = "boot" /\ head = 0 /\ 0 \notin Proc
    BY <1>1, <1>3, HeadFacts, ProcFacts DEF initialize_process_system
  <2>2. CASE ~built
    <3>1. /\ UNCHANGED <<pml4, cpu, tlb, saved, call, kernel>> /\ mode' = "idle"
      BY <1>3, <2>2 DEF initialize_process_system, spaceVars, contextVars
    <3> QED BY <3>1 DEF CacheInv
  <2>3. CASE built
    <3>1. /\ pml4' = p /\ head' = p /\ cpu' = p /\ UNCHANGED <<saved, tlb, call, kernel>>
      BY <1>3, <2>3 DEF initialize_process_system
    <3>2. tlb \in [Touched -> Proc \cup {0}] /\ \A v \in Touched : tlb[v] = 0
      BY <2>1 DEF CacheInv
    <3>3. mode' = "user" /\ tlb' = tlb /\ {pml4', cpu'} \subseteq Proc \cup {0} /\ pml4' \in Proc
      BY <1>3, <2>3, <3>1 DEF initialize_process_system
    <3>4. \A v \in Touched : tlb'[v] = 0
      BY <3>2, <3>3
    <3> QED BY <1>2, <3>1, <3>2, <3>3, <3>4 DEF CacheInv
  <2> QED BY <2>2, <2>3
<1>4. ASSUME NEW p \in Proc, NEW e \in Images, start_user_process(p, e) PROVE CacheInv'
  BY <1>1, <1>4, StartCache
<1>5. CASE Tick
  BY <1>1, <1>5, TickCache
<1>6. ASSUME NEW n \in Requests, SyscallMaps(n) PROVE CacheInv'
  BY <1>1, <1>6, MapCache
<1>7. CASE Stopping
  <2>1. PICK reason \in Stops : Stop(reason)
    BY <1>7, StoppingStops
  <2>2. /\ UNCHANGED <<head, pml4, cpu, tlb, space, mode, saved, call>> /\ kernel' \in Stops
    BY <2>1 DEF Stop, queueVars, spaceVars, contextVars
  <2> QED BY <1>2, <2>2, QuietCache
<1>8. CASE UserStep
  <2>1. /\ saved' = [saved EXCEPT ![pml4] = Nobody]
        /\ UNCHANGED <<head, pml4, cpu, tlb, space, mode, call, kernel>>
    BY <1>8 DEF UserStep, queueVars, spaceVars
  <2>2. saved' \in [Proc -> Proc \cup {Nobody}]
    BY <1>2, <2>1
  <2> QED BY <1>2, <2>1, <2>2, QuietCache
<1>9. ASSUME NEW v \in Touched, Touch(v) PROVE CacheInv'
  <2>1. /\ mode = "user" /\ tlb' = [tlb EXCEPT ![v] = IF @ = 0 THEN pml4 ELSE @]
        /\ UNCHANGED <<head, space, pml4, cpu, saved, mode, call, kernel>>
    BY <1>9 DEF Touch, queueVars, contextVars
  <2>2. tlb \in [Touched -> Proc \cup {0}] /\ pml4 \in Proc
    BY <2>1 DEF CacheInv
  <2>3. /\ tlb' \in [Touched -> Proc \cup {0}]
        /\ \A x \in Touched : tlb'[x] = tlb[x] \/ tlb'[x] = pml4
    BY <2>1, <2>2
  <2> QED BY <2>1, <2>2, <2>3 DEF CacheInv
<1>10. CASE SyscallReturns \/ \E n \in Calls : syscall_dispatcher(n)
  <2>1. /\ UNCHANGED <<head, pml4, cpu, tlb, space, saved, kernel>>
        /\ mode \in {"user", "syscall"} /\ mode' \in {"user", "syscall"}
        /\ call' \in Calls \cup {NoCall}
    BY <1>10 DEF SyscallReturns, syscall_dispatcher, queueVars, spaceVars, contextVars
  <2> QED BY <1>2, <2>1, QuietCache
<1>11. CASE SyscallWaits \/ Halted \/ UNCHANGED vars
  <2>1. UNCHANGED <<head, pml4, cpu, tlb, space, mode, saved, call, kernel>>
    BY <1>11 DEF SyscallWaits, Halted, vars, queueVars, spaceVars, contextVars
  <2> QED BY <1>2, <2>1, QuietCache
<1> QED BY <1>3, <1>4, <1>5, <1>6, <1>7, <1>8, <1>9, <1>10, <1>11 DEF Next, Stopping

\* It holds in every state.
LEMMA CacheAlways == Spec => []CacheInv
<1>1. Init => CacheInv
  BY ProcFacts DEF Init, CacheInv, Nobody
<1>2. QueueInv /\ MemoryInv /\ CacheInv /\ [Next]_vars => CacheInv'
  BY NextCache
<1> QED BY <1>1, <1>2, QueueAlways, MemoryAlways, PTL DEF Spec

\* A program that runs in its own space never reaches the page of another
\* process through a translation the processor has cached: the invalidations of
\* map_address_space, of unmap_address_space and of the mapping calls suffice
\* for any number of processes, also across start_user_process, which leaves
\* another space mapped.
THEOREM OwnPagesAlwaysCached == Spec => []OwnPagesCached
<1>1. QueueInv /\ MemoryInv /\ CacheInv => OwnPagesCached
  <2> SUFFICES ASSUME QueueInv, MemoryInv, CacheInv PROVE OwnPagesCached
    OBVIOUS
  <2>1. PICK q : QueueHolds(q)
    BY DEF QueueInv
  <2>2. {head, tail} \subseteq Proc \cup {0} /\ mode \in {"boot", "idle", "user", "syscall"}
    <3>1. q \in Seq(Proc) /\ Len(q) \in Nat
      BY <2>1 DEF QueueHolds, Linked
    <3>2. Len(q) # 0 => q[1] \in Proc /\ q[Len(q)] \in Proc
      BY <3>1
    <3> QED BY <2>1, <3>2 DEF QueueHolds, Linked
  <2>3. TypeOK
    BY <2>1, <2>2 DEF TypeOK, QueueHolds, MemoryInv, CacheInv
  <2> QED BY <2>3 DEF OwnPagesCached, CacheInv
<1> QED BY <1>1, QueueAlways, MemoryAlways, CacheAlways, PTL
=============================================================================
