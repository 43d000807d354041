------------------------------- MODULE Lemmas -------------------------------
(***************************************************************************)
(* Facts about numbers and about lists without repetition that the proofs  *)
(* of several components share.                                            *)
(***************************************************************************)
EXTENDS Integers, Sequences, SequencesExt, SequenceTheorems, WellFoundedInduction, TLAPS

-----------------------------------------------------------------------------
(* Induction over the natural numbers, for a set of numbers.               *)

Below == {p \in Nat \X Nat : p[1] < p[2]}

\* A set that holds 0 and the successors of its elements holds every number.
LEMMA NatSetInduction ==
    ASSUME NEW S, 0 \in S, \A n \in Nat : n \in S => n + 1 \in S
    PROVE  Nat \subseteq S
<1> DEFINE T == Nat \ S
<1>1. SUFFICES ASSUME T # {} PROVE FALSE
  OBVIOUS
<1>2. IsWellFoundedOn(Below, Nat)
  BY NatLessThanWellFounded DEF OpToRel, Below
<1>3. PICK x \in T : \A y \in T : ~(<<y, x>> \in Below)
  BY <1>1, <1>2, WFMin
<1>4. x - 1 \in T /\ x \in Nat /\ x # 0
  BY x - 1 + 1 = x
<1>5. <<x - 1, x>> \in Below
  BY <1>4 DEF Below
<1> QED BY <1>3, <1>4, <1>5

-----------------------------------------------------------------------------
(* Division.                                                               *)

\* Multiplication by a natural number keeps the order.
LEMMA MulMonotone ==
    ASSUME NEW n \in Nat, NEW p \in Int, NEW q \in Int, p <= q PROVE p * n <= q * n
OBVIOUS

\* Quotient and remainder are unique.
LEMMA QuotientUnique ==
    ASSUME NEW n \in Nat \ {0}, NEW p \in Int, NEW q \in Int, NEW r \in 0 .. n - 1, NEW s \in 0 .. n - 1,
           p * n + r = q * n + s
    PROVE  p = q /\ r = s
<1>1. ~(p < q)
  <2> SUFFICES ASSUME p < q PROVE FALSE
    OBVIOUS
  <2>1. (p + 1) * n <= q * n
    BY MulMonotone
  <2>2. (p + 1) * n = p * n + n
    OBVIOUS
  <2> QED BY <2>1, <2>2
<1>2. ~(q < p)
  <2> SUFFICES ASSUME q < p PROVE FALSE
    OBVIOUS
  <2>1. (q + 1) * n <= p * n
    BY MulMonotone
  <2>2. (q + 1) * n = q * n + n
    OBVIOUS
  <2> QED BY <2>1, <2>2
<1>3. p = q
  BY <1>1, <1>2
<1> QED BY <1>3

\* \div and % give them.
LEMMA DivMod ==
    ASSUME NEW a \in Nat, NEW n \in Nat \ {0}
    PROVE  /\ a \div n \in Nat /\ a % n \in 0 .. n - 1
           /\ a = (a \div n) * n + (a % n)
OBVIOUS

\* Dividing a multiple.
LEMMA MultipleDiv ==
    ASSUME NEW j \in Nat, NEW n \in Nat \ {0}
    PROVE  j * n \in Nat /\ (j * n) \div n = j /\ (j * n) % n = 0
<1> DEFINE a == j * n
<1>1. a \in Nat /\ 0 \in 0 .. n - 1 /\ j * n + 0 = a
  OBVIOUS
<1> HIDE DEF a
<1>2. a \div n \in Nat /\ a % n \in 0 .. n - 1 /\ a = (a \div n) * n + (a % n)
  BY <1>1, DivMod
<1>3. j * n + 0 = (a \div n) * n + (a % n)
  BY <1>1, <1>2
<1>4. j = a \div n /\ 0 = a % n
  BY <1>1, <1>2, <1>3, QuotientUnique
<1> QED BY <1>1, <1>4 DEF a

\* An aligned address is a multiple.
LEMMA AlignedMultiple ==
    ASSUME NEW a \in Nat, NEW n \in Nat \ {0}, a % n = 0
    PROVE  a \div n \in Nat /\ a = (a \div n) * n
BY DivMod

\* Dividing in two steps.
LEMMA DivTwice ==
    ASSUME NEW a \in Nat, NEW b \in Nat \ {0}, NEW c \in Nat \ {0}
    PROVE  /\ a \div (b * c) = (a \div b) \div c
           /\ a % (b * c) = (a % b) + ((a \div b) % c) * b
<1> DEFINE q == a \div b
           r == a % b
           p == q \div c
           s == q % c
<1>1. q \in Nat /\ r \in 0 .. b - 1 /\ a = q * b + r
  BY DivMod
<1>2. p \in Nat /\ s \in 0 .. c - 1 /\ q = p * c + s
  BY <1>1, DivMod
<1> HIDE DEF q, r, p, s
<1> DEFINE n == b * c
           t == s * b + r
<1>3. n \in Nat \ {0}
  OBVIOUS
<1>4. t \in 0 .. n - 1
  <2>1. s + 1 <= c /\ s + 1 \in Int
    BY <1>2
  <2>2. (s + 1) * b <= c * b
    BY <2>1, MulMonotone
  <2>3. (s + 1) * b = s * b + b /\ c * b = n /\ s * b \in Nat
    BY <1>2
  <2> QED BY <1>1, <2>2, <2>3
<1>5. a = p * n + t
  <2>1. q * b = (p * c) * b + s * b
    BY <1>2
  <2>2. (p * c) * b = p * n
    BY <1>2
  <2> QED BY <1>1, <1>2, <2>1, <2>2
<1> HIDE DEF n, t
<1>6. a \div n \in Nat /\ a % n \in 0 .. n - 1 /\ a = (a \div n) * n + (a % n)
  BY <1>3, DivMod
<1>7. p * n + t = (a \div n) * n + (a % n)
  BY <1>5, <1>6
<1>8. p = a \div n /\ t = a % n
  BY <1>2, <1>3, <1>4, <1>6, <1>7, QuotientUnique
<1> QED BY <1>8 DEF n, t, q, r, p, s

\* What division gives for a multiple and a rest.
LEMMA DivIs ==
    ASSUME NEW n \in Nat \ {0}, NEW q \in Nat, NEW r \in 0 .. n - 1
    PROVE  (q * n + r) \div n = q /\ (q * n + r) % n = r
<1> DEFINE a == q * n + r
           p == a \div n
           s == a % n
<1>1. a \in Nat
  OBVIOUS
<1>2. q * n + r = a
  OBVIOUS
<1> HIDE DEF a
<1>3. p \in Nat /\ s \in 0 .. n - 1 /\ a = p * n + s
  BY <1>1, DivMod
<1> HIDE DEF p, s
<1>4. q * n + r = p * n + s
  BY <1>2, <1>3, Zenon
<1>5. q \in Int /\ p \in Int /\ s \in 0 .. n - 1
  BY <1>3
<1>6. q = p /\ r = s
  BY <1>4, <1>5, QuotientUnique
<1> QED BY <1>6 DEF p, s, a

\* Two halves of an aligned block are aligned.
LEMMA AlignedHalves ==
    ASSUME NEW a \in Nat, NEW n \in Nat \ {0}, a % (2 * n) = 0
    PROVE  a % n = 0 /\ (a + n) % n = 0
<1> DEFINE j == a \div (2 * n)
<1>1. 2 * n \in Nat \ {0}
  OBVIOUS
<1>2. j \in Nat /\ a = j * (2 * n)
  BY <1>1, AlignedMultiple
<1> HIDE DEF j
<1>3. a = (2 * j) * n /\ a + n = (2 * j + 1) * n /\ 2 * j \in Nat /\ 2 * j + 1 \in Nat
  BY <1>2
<1> QED BY <1>3, MultipleDiv

\* Of two buddies the left one is aligned to their common size.
LEMMA AlignedPair ==
    ASSUME NEW a \in Nat, NEW n \in Nat \ {0}, a % n = 0, a % (2 * n) # 0
    PROVE  a - n \in Nat /\ (a - n) % (2 * n) = 0
<1> DEFINE j == a \div n
<1>1. j \in Nat /\ a = j * n
  BY AlignedMultiple
<1> HIDE DEF j
<1>2. PICK k \in Nat : j = 2 * k \/ j = 2 * k + 1
  <2>1. j \div 2 \in Nat /\ (j = 2 * (j \div 2) \/ j = 2 * (j \div 2) + 1)
    BY <1>1
  <2> QED BY <2>1
<1>3. 2 * n \in Nat \ {0}
  OBVIOUS
<1>4. CASE j = 2 * k
  <2>1. a = k * (2 * n)
    BY <1>1, <1>4
  <2> QED BY <1>3, <2>1, MultipleDiv
<1>5. CASE j = 2 * k + 1
  <2>1. a - n = k * (2 * n)
    BY <1>1, <1>5
  <2> QED BY <1>3, <2>1, MultipleDiv
<1> QED BY <1>2, <1>4, <1>5

\* The number of the pair an aligned block belongs to.
LEMMA PairIndex ==
    ASSUME NEW a \in Nat, NEW n \in Nat \ {0}, a % n = 0, NEW k \in Nat
    PROVE  k = (a \div n) \div 2 <=> a = k * (2 * n) \/ a = k * (2 * n) + n
<1> DEFINE j == a \div n
<1>1. j \in Nat /\ a = j * n
  BY AlignedMultiple
<1> HIDE DEF j
<1>2. k * (2 * n) = (2 * k) * n /\ k * (2 * n) + n = (2 * k + 1) * n
  OBVIOUS
<1>3. a = (2 * k) * n <=> j = 2 * k
  <2>1. j * n + 0 = (2 * k) * n + 0 /\ 0 \in 0 .. n - 1 => j = 2 * k
    BY <1>1, QuotientUnique
  <2> QED BY <1>1, <2>1
<1>4. a = (2 * k + 1) * n <=> j = 2 * k + 1
  <2>1. j * n + 0 = (2 * k + 1) * n + 0 /\ 0 \in 0 .. n - 1 => j = 2 * k + 1
    BY <1>1, QuotientUnique
  <2> QED BY <1>1, <2>1
<1>5. k = j \div 2 <=> j = 2 * k \/ j = 2 * k + 1
  BY <1>1
<1> QED BY <1>2, <1>3, <1>4, <1>5 DEF j

\* Two pairs have no half in common.
LEMMA PairsApart ==
    ASSUME NEW n \in Nat \ {0}, NEW k \in Nat, NEW j \in Nat
    PROVE  /\ k * (2 * n) # j * (2 * n) + n
           /\ k * (2 * n) = j * (2 * n) => k = j
<1>1. 2 * n \in Nat \ {0} /\ n \in 0 .. 2 * n - 1 /\ 0 \in 0 .. 2 * n - 1 /\ n # 0
  OBVIOUS
<1>2. k * (2 * n) + 0 = j * (2 * n) + n => 0 = n
  BY <1>1, QuotientUnique
<1>3. k * (2 * n) + 0 = j * (2 * n) + 0 => k = j
  BY <1>1, QuotientUnique
<1>4. k * (2 * n) \in Nat /\ j * (2 * n) \in Nat
  OBVIOUS
<1> QED BY <1>1, <1>2, <1>3, <1>4

-----------------------------------------------------------------------------
(* Lists: their elements, and that no element occurs twice.                *)

\* The elements of a list.
LEMMA ToSetElement ==
    ASSUME NEW S, NEW s \in Seq(S)
    PROVE  \A x : x \in ToSet(s) <=> \E i \in 1 .. Len(s) : s[i] = x
BY DEF ToSet

\* Without its head.
LEMMA ToSetTail ==
    ASSUME NEW S, NEW s \in Seq(S), s # <<>>, IsInjective(s)
    PROVE  /\ Head(s) \in ToSet(s)
           /\ ToSet(Tail(s)) = ToSet(s) \ {Head(s)}
           /\ IsInjective(Tail(s))
<1>1. /\ Len(s) \in Nat \ {0} /\ Head(s) = s[1] /\ Tail(s) \in Seq(S)
      /\ Len(Tail(s)) = Len(s) - 1
      /\ \A i \in 1 .. Len(s) - 1 : Tail(s)[i] = s[i + 1]
  OBVIOUS
<1>2. \A i, j \in 1 .. Len(s) : s[i] = s[j] => i = j
  BY DEF IsInjective
<1>3. Head(s) \in ToSet(s)
  BY <1>1, ToSetElement
<1>4. \A x : x \in ToSet(Tail(s)) => x \in ToSet(s) \ {Head(s)}
  <2> SUFFICES ASSUME NEW x \in ToSet(Tail(s)) PROVE x \in ToSet(s) \ {Head(s)}
    OBVIOUS
  <2>1. PICK i \in 1 .. Len(Tail(s)) : Tail(s)[i] = x
    <3> DEFINE t == Tail(s)
    <3>1. t \in Seq(S) /\ x \in ToSet(t)
      BY <1>1
    <3> HIDE DEF t
    <3>2. \E i \in 1 .. Len(t) : t[i] = x
      BY <3>1, ToSetElement
    <3> QED BY <3>2 DEF t
  <2>2. i + 1 \in 1 .. Len(s) /\ s[i + 1] = x /\ i + 1 # 1
    BY <1>1, <2>1
  <2> QED BY <1>1, <1>2, <2>2, ToSetElement
<1>5. \A x : x \in ToSet(s) \ {Head(s)} => x \in ToSet(Tail(s))
  <2> SUFFICES ASSUME NEW x \in ToSet(s) \ {Head(s)} PROVE x \in ToSet(Tail(s))
    OBVIOUS
  <2>1. PICK i \in 1 .. Len(s) : s[i] = x
    BY ToSetElement
  <2>2. i # 1
    BY <1>1, <2>1
  <2>3. i - 1 \in 1 .. Len(s) - 1 /\ Tail(s)[i - 1] = x
    BY <1>1, <2>1, <2>2
  <2> QED BY <1>1, <2>3, ToSetElement
<1>6. IsInjective(Tail(s))
  <2>1. DOMAIN Tail(s) = 1 .. Len(s) - 1
    BY <1>1
  <2>2. \A i, j \in 1 .. Len(s) - 1 : Tail(s)[i] = Tail(s)[j] => i = j
    <3> SUFFICES ASSUME NEW i \in 1 .. Len(s) - 1, NEW j \in 1 .. Len(s) - 1,
                        Tail(s)[i] = Tail(s)[j]
                 PROVE  i = j
      OBVIOUS
    <3>1. i + 1 \in 1 .. Len(s) /\ j + 1 \in 1 .. Len(s) /\ s[i + 1] = s[j + 1]
      BY <1>1
    <3> QED BY <1>2, <3>1
  <2> QED BY <2>1, <2>2 DEF IsInjective
<1> QED BY <1>3, <1>4, <1>5, <1>6

\* With another element in front.
LEMMA ToSetCons ==
    ASSUME NEW S, NEW s \in Seq(S), NEW a \in S
    PROVE  /\ ToSet(<<a>> \o s) = ToSet(s) \cup {a}
           /\ Head(<<a>> \o s) = a /\ <<a>> \o s # <<>>
           /\ Tail(<<a>> \o s) = s
           /\ a \notin ToSet(s) /\ IsInjective(s) => IsInjective(<<a>> \o s)
<1> DEFINE t == <<a>> \o s
<1>1. /\ <<a>> \in Seq(S) /\ Len(<<a>>) = 1 /\ <<a>>[1] = a
      /\ Len(s) \in Nat
  OBVIOUS
<1>2. /\ t \in Seq(S) /\ Len(t) = Len(s) + 1 /\ t[1] = a
      /\ \A i \in 2 .. Len(s) + 1 : t[i] = s[i - 1]
  BY <1>1, ConcatProperties
<1>3. Head(t) = a /\ t # <<>> /\ Tail(t) = s
  <2>1. Head(t) = a /\ t # <<>>
    BY <1>1, <1>2
  <2>2. Tail(t) \in Seq(S) /\ Len(Tail(t)) = Len(s) /\ \A i \in 1 .. Len(s) : Tail(t)[i] = t[i + 1]
    BY <1>1, <1>2, <2>1, HeadTailProperties
  <2>3. \A i \in 1 .. Len(s) : Tail(t)[i] = s[i]
    BY <1>1, <1>2, <2>2
  <2> QED BY <2>1, <2>2, <2>3, SeqEqual
<1> HIDE DEF t
<1>4. ASSUME NEW x PROVE x \in ToSet(t) <=> x \in ToSet(s) \cup {a}
  <2>1. ASSUME x \in ToSet(t) PROVE x \in ToSet(s) \cup {a}
    <3>1. PICK i \in 1 .. Len(s) + 1 : t[i] = x
      BY <1>2, <2>1, ToSetElement
    <3>2. CASE i = 1
      BY <1>2, <3>1, <3>2
    <3>3. CASE i # 1
      <4>1. i - 1 \in 1 .. Len(s) /\ s[i - 1] = x
        BY <1>1, <1>2, <3>1, <3>3
      <4> QED BY <4>1, ToSetElement
    <3> QED BY <3>2, <3>3
  <2>2. ASSUME x = a PROVE x \in ToSet(t)
    <3>1. 1 \in 1 .. Len(t) /\ t[1] = x
      BY <1>1, <1>2, <2>2
    <3> QED BY <1>2, <3>1, ToSetElement
  <2>3. ASSUME x \in ToSet(s) PROVE x \in ToSet(t)
    <3>1. PICK i \in 1 .. Len(s) : s[i] = x
      BY <2>3, ToSetElement
    <3>2. i + 1 \in 1 .. Len(t) /\ t[i + 1] = x
      BY <1>1, <1>2, <3>1
    <3> QED BY <1>2, <3>2, ToSetElement
  <2> QED BY <2>1, <2>2, <2>3
<1>5. ASSUME a \notin ToSet(s), IsInjective(s) PROVE IsInjective(t)
  <2>1. DOMAIN t = 1 .. Len(s) + 1 /\ DOMAIN s = 1 .. Len(s)
    BY <1>2
  <2>2. \A i \in 2 .. Len(s) + 1 : i - 1 \in 1 .. Len(s) /\ t[i] # a
    BY <1>1, <1>2, <1>5, ToSetElement
  <2>3. \A i, j \in 2 .. Len(s) + 1 : t[i] = t[j] => i = j
    <3> SUFFICES ASSUME NEW i \in 2 .. Len(s) + 1, NEW j \in 2 .. Len(s) + 1, t[i] = t[j]
                 PROVE  i = j
      OBVIOUS
    <3>1. i - 1 \in DOMAIN s /\ j - 1 \in DOMAIN s /\ s[i - 1] = s[j - 1]
      BY <1>2, <2>1, <2>2
    <3>2. i - 1 = j - 1
      BY <1>5, <3>1 DEF IsInjective
    <3> QED BY <3>2
  <2>4. \A i \in 1 .. Len(s) + 1 : i = 1 \/ i \in 2 .. Len(s) + 1
    BY <1>1
  <2> QED BY <1>2, <2>1, <2>2, <2>3, <2>4 DEF IsInjective
<1> QED BY <1>3, <1>4, <1>5 DEF t

\* With another element at the end.
LEMMA ToSetAppend ==
    ASSUME NEW S, NEW s \in Seq(S), NEW a \in S
    PROVE  /\ ToSet(Append(s, a)) = ToSet(s) \cup {a}
           /\ a \notin ToSet(s) /\ IsInjective(s) => IsInjective(Append(s, a))
<1> DEFINE t == Append(s, a)
<1>1. /\ t \in Seq(S) /\ Len(s) \in Nat /\ Len(t) = Len(s) + 1 /\ t[Len(s) + 1] = a
      /\ \A i \in 1 .. Len(s) : t[i] = s[i]
  OBVIOUS
<1> HIDE DEF t
<1>2. \A x : x \in ToSet(t) <=> \E i \in 1 .. Len(s) + 1 : t[i] = x
  BY <1>1, ToSetElement
<1>3. \A i \in 1 .. Len(s) + 1 : i = Len(s) + 1 \/ i \in 1 .. Len(s)
  BY <1>1
<1>4. \A i \in 1 .. Len(s) : i \in 1 .. Len(s) + 1
  BY <1>1
<1>5. Len(s) + 1 \in 1 .. Len(s) + 1 /\ Len(s) + 1 \notin 1 .. Len(s)
  BY <1>1
<1>6. ToSet(t) = ToSet(s) \cup {a}
  BY <1>1, <1>2, <1>3, <1>4, <1>5, ToSetElement
<1>7. ASSUME a \notin ToSet(s), IsInjective(s) PROVE IsInjective(t)
  <2>1. DOMAIN t = 1 .. Len(s) + 1 /\ DOMAIN s = 1 .. Len(s)
    BY <1>1
  <2>2. \A i \in 1 .. Len(s) : t[i] # a
    BY <1>1, <1>7, ToSetElement
  <2>3. \A i, j \in 1 .. Len(s) : t[i] = t[j] => i = j
    BY <1>1, <1>7, <2>1 DEF IsInjective
  <2> QED BY <1>1, <1>3, <2>1, <2>2, <2>3 DEF IsInjective
<1> QED BY <1>6, <1>7 DEF t

\* What RemoveAt leaves, element by element.
LEMMA RemoveAtElements ==
    ASSUME NEW S, NEW s \in Seq(S), NEW i \in 1 .. Len(s)
    PROVE  /\ RemoveAt(s, i) \in Seq(S)
           /\ Len(RemoveAt(s, i)) = Len(s) - 1
           /\ \A j \in 1 .. Len(s) - 1 : RemoveAt(s, i)[j] = IF j < i THEN s[j] ELSE s[j + 1]
<1> DEFINE front == SubSeq(s, 1, i - 1)
<1> DEFINE back == SubSeq(s, i + 1, Len(s))
<1>1. Len(s) \in Nat /\ i \in Nat /\ 1 <= i /\ i <= Len(s) /\ \A j \in 1 .. Len(s) : s[j] \in S
  OBVIOUS
<1>2. front \in Seq(S) /\ Len(front) = i - 1 /\ \A j \in 1 .. i - 1 : front[j] = s[j]
  BY <1>1
<1>3. back \in Seq(S) /\ Len(back) = Len(s) - i /\ \A j \in 1 .. Len(s) - i : back[j] = s[j + i]
  BY <1>1
<1>4. RemoveAt(s, i) = front \o back
  BY DEF RemoveAt
<1> HIDE DEF front, back
<1>5. /\ front \o back \in Seq(S)
      /\ Len(front \o back) = Len(front) + Len(back)
      /\ \A j \in 1 .. Len(front) + Len(back) :
             (front \o back)[j] = IF j <= Len(front) THEN front[j] ELSE back[j - Len(front)]
  BY <1>2, <1>3, ConcatProperties
<1>6. Len(front) + Len(back) = Len(s) - 1
  BY <1>1, <1>2, <1>3
<1>7. ASSUME NEW j \in 1 .. Len(s) - 1
      PROVE  (front \o back)[j] = IF j < i THEN s[j] ELSE s[j + 1]
  <2>1. CASE j < i
    BY <1>1, <1>2, <1>5, <1>6, <2>1
  <2>2. CASE ~(j < i)
    <3>1. j - (i - 1) \in 1 .. Len(s) - i /\ (j - (i - 1)) + i = j + 1
      BY <1>1, <2>2
    <3>2. (front \o back)[j] = back[j - (i - 1)]
      BY <1>1, <1>2, <1>5, <1>6, <2>2
    <3> QED BY <1>3, <2>2, <3>1, <3>2
  <2> QED BY <2>1, <2>2
<1> QED BY <1>4, <1>5, <1>6, <1>7

\* Without the element at a position.
LEMMA ToSetRemoveAt ==
    ASSUME NEW S, NEW s \in Seq(S), NEW i \in 1 .. Len(s), IsInjective(s)
    PROVE  /\ ToSet(RemoveAt(s, i)) = ToSet(s) \ {s[i]}
           /\ s[i] \in ToSet(s)
           /\ IsInjective(RemoveAt(s, i))
<1> DEFINE r == RemoveAt(s, i)
<1>1. /\ r \in Seq(S) /\ Len(r) = Len(s) - 1
      /\ \A j \in 1 .. Len(s) - 1 : r[j] = IF j < i THEN s[j] ELSE s[j + 1]
  BY RemoveAtElements
<1>2. Len(s) \in Nat /\ i \in Nat /\ DOMAIN s = 1 .. Len(s) /\ DOMAIN r = 1 .. Len(s) - 1
  BY <1>1
<1> HIDE DEF r
<1> DEFINE old(j) == IF j < i THEN j ELSE j + 1
<1>3. \A j \in 1 .. Len(s) - 1 : old(j) \in 1 .. Len(s) /\ old(j) # i /\ r[j] = s[old(j)]
  BY <1>1, <1>2
<1>4. \A j, k \in 1 .. Len(s) - 1 : old(j) = old(k) => j = k
  BY <1>2
<1>5. \A j \in 1 .. Len(s) : j # i => \E k \in 1 .. Len(s) - 1 : old(k) = j
  <2> SUFFICES ASSUME NEW j \in 1 .. Len(s), j # i PROVE \E k \in 1 .. Len(s) - 1 : old(k) = j
    OBVIOUS
  <2>1. CASE j < i
    <3>1. j \in 1 .. Len(s) - 1 /\ old(j) = j
      BY <1>2, <2>1
    <3> QED BY <3>1
  <2>2. CASE j > i
    <3>1. j - 1 \in 1 .. Len(s) - 1 /\ old(j - 1) = j
      BY <1>2, <2>2
    <3> QED BY <3>1
  <2> QED BY <1>2, <2>1, <2>2
<1> HIDE DEF old
<1>6. \A j, k \in 1 .. Len(s) : s[j] = s[k] => j = k
  BY <1>2 DEF IsInjective
<1>7. \A x : x \in ToSet(r) => x \in ToSet(s) \ {s[i]}
  <2> SUFFICES ASSUME NEW x \in ToSet(r) PROVE x \in ToSet(s) \ {s[i]}
    OBVIOUS
  <2>1. PICK j \in 1 .. Len(s) - 1 : r[j] = x
    BY <1>1, ToSetElement
  <2> QED BY <1>3, <1>6, <2>1, ToSetElement
<1>8. \A x : x \in ToSet(s) \ {s[i]} => x \in ToSet(r)
  <2> SUFFICES ASSUME NEW x \in ToSet(s) \ {s[i]} PROVE x \in ToSet(r)
    OBVIOUS
  <2>1. PICK j \in 1 .. Len(s) : s[j] = x
    BY ToSetElement
  <2>2. PICK k \in 1 .. Len(s) - 1 : old(k) = j
    BY <1>5, <2>1
  <2>3. k \in 1 .. Len(r) /\ r[k] = x
    BY <1>1, <1>3, <2>1, <2>2
  <2> QED BY <1>1, <2>3, ToSetElement
<1>9. IsInjective(r)
  <2>1. \A j, k \in 1 .. Len(s) - 1 : r[j] = r[k] => j = k
    BY <1>3, <1>4, <1>6
  <2> QED BY <1>2, <2>1 DEF IsInjective
<1>10. s[i] \in ToSet(s)
  BY ToSetElement
<1> QED BY <1>7, <1>8, <1>9, <1>10 DEF r

\* Two elements in front are one and then another.
LEMMA ConsTwice ==
    ASSUME NEW S, NEW s \in Seq(S), NEW a \in S, NEW b \in S
    PROVE  <<a, b>> \o s = <<a>> \o (<<b>> \o s)
<1>1. <<a>> \in Seq(S) /\ <<b>> \in Seq(S) /\ <<a>> \o <<b>> = <<a, b>>
  <2> DEFINE t == <<a>> \o <<b>>
  <2>1. <<a>> \in Seq(S) /\ <<b>> \in Seq(S) /\ <<a, b>> \in Seq(S)
    OBVIOUS
  <2>2. t \in Seq(S) /\ Len(t) = 2 /\ t[1] = a /\ t[2] = b
    BY <2>1, ConcatProperties
  <2>3. Len(<<a, b>>) = 2 /\ <<a, b>>[1] = a /\ <<a, b>>[2] = b
    OBVIOUS
  <2> HIDE DEF t
  <2>4. \A i \in 1 .. Len(t) : t[i] = <<a, b>>[i]
    BY <2>2, <2>3
  <2>5. t = <<a, b>>
    BY <2>1, <2>2, <2>3, <2>4, SeqEqual
  <2> QED BY <2>1, <2>5 DEF t
<1>2. (<<a>> \o <<b>>) \o s = <<a>> \o (<<b>> \o s)
  BY <1>1, ConcatAssociative
<1> QED BY <1>1, <1>2

\* The largest of the numbers up to one of them.
LEMMA MaxIs ==
    ASSUME NEW s, NEW e \in Int, e \in s, \A x \in s : x \in Int /\ x <= e
    PROVE  Max(s) = e
<1>1. e \in s /\ \A x \in s : e >= x
  OBVIOUS
<1>2. \A y \in s : (\A x \in s : y >= x) => y = e
  OBVIOUS
<1> QED BY <1>1, <1>2 DEF Max

\* A set of natural numbers that is not empty has a smallest element.
LEMMA MinOf ==
    ASSUME NEW S \in SUBSET Nat, S # {}
    PROVE  Min(S) \in S /\ \A y \in S : Min(S) <= y
<1>1. IsWellFoundedOn(Below, Nat)
  BY NatLessThanWellFounded DEF OpToRel, Below
<1>2. PICK x \in S : \A y \in S : ~(<<y, x>> \in Below)
  BY <1>1, WFMin
<1>3. ASSUME NEW y \in S PROVE x <= y
  <2>1. x \in Nat /\ y \in Nat /\ ~(<<y, x>> \in Below)
    BY <1>2, <1>3
  <2> QED BY <2>1 DEF Below
<1> QED BY <1>2, <1>3 DEF Min
=============================================================================
