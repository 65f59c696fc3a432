--------------------------- MODULE Monitor_proofs ---------------------------
(***************************************************************************)
(* Proofs about the capacity monitor, for any number of resources, any     *)
(* readings and weights and a sample of any size: the steps of heap.up and *)
(* heap.down keep a heap, it is always one of the lightest elements that   *)
(* leaves, and the hook is given the percentile of what the samples hold.  *)
(***************************************************************************)
EXTENDS Monitor, FiniteSetTheorems, SequenceTheorems, TLAPS

-----------------------------------------------------------------------------
(* Sequences *)

\* Where the element at i of a sequence comes from when those at a and b are swapped.
Turn(a, b, i) == IF i = b THEN a ELSE IF i = a THEN b ELSE i

LEMMA Turned ==
    ASSUME NEW n \in Nat, NEW a \in 1..n, NEW b \in 1..n
    PROVE  \A i \in 1..n : Turn(a, b, i) \in 1..n /\ Turn(a, b, Turn(a, b, i)) = i
  BY DEF Turn

LEMMA Swapped ==
    ASSUME NEW S, NEW s \in Seq(S), NEW a \in 1..Len(s), NEW b \in 1..Len(s)
    PROVE  /\ Swap(s, a, b) \in Seq(S) /\ Len(Swap(s, a, b)) = Len(s)
           /\ \A i \in 1..Len(s) : Swap(s, a, b)[i] = s[Turn(a, b, i)]
<1> DEFINE t == [s EXCEPT ![a] = s[b]]
<1>1. s[a] \in S /\ s[b] \in S
  BY ElementOfSeq
<1>2. t \in Seq(S) /\ Len(t) = Len(s) /\ \A i \in 1..Len(s) : t[i] = IF i = a THEN s[b] ELSE s[i]
  BY <1>1, ExceptSeq
<1> HIDE DEF t
<1>3. LET u == [t EXCEPT ![b] = s[a]]
      IN  /\ u \in Seq(S) /\ Len(u) = Len(s)
          /\ \A i \in 1..Len(s) : u[i] = IF i = b THEN s[a] ELSE t[i]
  BY <1>1, <1>2, ExceptSeq
<1>4. Swap(s, a, b) = [t EXCEPT ![b] = s[a]]
  BY DEF Swap, t
<1>5. /\ Swap(s, a, b) \in Seq(S) /\ Len(Swap(s, a, b)) = Len(s)
      /\ \A i \in 1..Len(s) : Swap(s, a, b)[i] = IF i = b THEN s[a] ELSE t[i]
  BY <1>3, <1>4, Zenon
<1> QED
  BY <1>2, <1>5 DEF Turn

LEMMA Fronts ==
    ASSUME NEW S, NEW s \in Seq(S), NEW n \in Nat \ {0}, Len(s) = n
    PROVE  /\ Front(s) \in Seq(S) /\ Len(Front(s)) = n - 1
           /\ \A i \in 1..(n - 1) : Front(s)[i] = s[i]
<1>1. \A i \in 1..(n - 1) : s[i] \in S
  BY ElementOfSeq
<1>2. /\ SubSeq(s, 1, n - 1) \in Seq(S)
      /\ Len(SubSeq(s, 1, n - 1)) = IF 1 <= n - 1 THEN (n - 1) - 1 + 1 ELSE 0
      /\ \A i \in 1..((n - 1) - 1 + 1) : SubSeq(s, 1, n - 1)[i] = s[1 + i - 1]
  <2>1. 1 \in Int /\ n - 1 \in Int
    OBVIOUS
  <2> QED
    BY <1>1, <2>1, SubSeqProperties
<1>3. /\ (IF 1 <= n - 1 THEN (n - 1) - 1 + 1 ELSE 0) = n - 1 /\ (n - 1) - 1 + 1 = n - 1
      /\ \A i \in 1..(n - 1) : 1 + i - 1 = i
  OBVIOUS
<1> QED
  BY <1>2, <1>3 DEF Front

-----------------------------------------------------------------------------
(* Heaps *)

\* The elements next to i in a heap.
LEMMA Parents ==
    \A i \in Nat : i >= 2 =>
        /\ Parent(i) \in Nat /\ 1 <= Parent(i) /\ Parent(i) < i
        /\ \A a \in Nat : Parent(i) = a <=> (i = 2 * a \/ i = 2 * a + 1)
  BY DEF Parent

\* Samples of n elements.
Sample(n) == {s \in Seq(ElementType) : Len(s) = n}

LEMMA Positions ==
    ASSUME NEW n \in Nat, NEW s \in Sample(n)
    PROVE  /\ s \in Seq(ElementType) /\ DOMAIN s = 1..n /\ Len(s) = n
           /\ \A i \in 1..n : s[i] \in ElementType /\ s[i].pos \in Int
<1>1. s \in Seq(ElementType) /\ Len(s) = n
  BY DEF Sample
<1>2. DOMAIN s = 1..n /\ \A i \in 1..n : s[i] \in ElementType
  BY <1>1, LenProperties, ElementOfSeq
<1> QED
  BY <1>1, <1>2 DEF ElementType

LEMMA SampleSwapped ==
    \A n \in Nat : \A s \in Sample(n) : \A a, b \in 1..n :
        /\ Swap(s, a, b) \in Sample(n)
        /\ \A i \in 1..n : Turn(a, b, i) \in 1..n /\ Swap(s, a, b)[i] = s[Turn(a, b, i)]
<1> SUFFICES ASSUME NEW n \in Nat, NEW s \in Sample(n), NEW a \in 1..n, NEW b \in 1..n
             PROVE  /\ Swap(s, a, b) \in Sample(n)
                    /\ \A i \in 1..n : /\ Turn(a, b, i) \in 1..n
                                        /\ Swap(s, a, b)[i] = s[Turn(a, b, i)]
  OBVIOUS
<1>1. \A i \in 1..n : Turn(a, b, i) \in 1..n
  BY Turned
<1>2. s \in Seq(ElementType) /\ Len(s) = n /\ a \in 1..Len(s) /\ b \in 1..Len(s)
  BY DEF Sample
<1>3. /\ Swap(s, a, b) \in Seq(ElementType) /\ Len(Swap(s, a, b)) = Len(s)
      /\ \A i \in 1..Len(s) : Swap(s, a, b)[i] = s[Turn(a, b, i)]
  BY <1>2, Swapped, ZenonT(30)
<1> QED
  BY <1>1, <1>2, <1>3 DEF Sample

\* t is s with the elements at a and b swapped.
Exchanged(s, t, n, a, b) == \A i \in 1..n : t[i] = s[Turn(a, b, i)]

LEMMA SwapsTo ==
    \A n \in Nat : \A s \in Sample(n) : \A a, b \in 1..n :
        \E t \in Sample(n) : t = Swap(s, a, b) /\ Exchanged(s, t, n, a, b)
<1> SUFFICES ASSUME NEW n \in Nat, NEW s \in Sample(n), NEW a \in 1..n, NEW b \in 1..n
             PROVE  /\ Swap(s, a, b) \in Sample(n)
                    /\ \A i \in 1..n : Swap(s, a, b)[i] = s[Turn(a, b, i)]
  BY DEF Exchanged
<1> QED
  BY SampleSwapped

\* The first element of a heap is a lightest one: an element that is lighter, and of
\* those the first, has one above it that is as light.
LEMMA RootLightest ==
    ASSUME NEW n \in Nat, NEW s \in Sample(n), Heap(s, n, {})
    PROVE  \A i \in 1..n : s[1].pos <= s[i].pos
<1> DEFINE Lighter == {i \in 1..n : s[i].pos < s[1].pos}
<1>1. SUFFICES ASSUME Lighter # {} PROVE FALSE
  BY Positions
<1>2. Lighter \subseteq Nat
  OBVIOUS
<1>3. PICK i \in Lighter : \A j \in Lighter : ~(j < i)
  <2>1. PICK i \in Lighter : \A j \in Lighter : <<j, i>> \notin OpToRel(<, Nat)
    BY <1>1, <1>2, NatLessThanWellFounded, WFMin, Zenon
  <2> QED
    BY <1>2, <2>1 DEF OpToRel
<1>4. i \in 1..n /\ s[i].pos < s[1].pos /\ s[i].pos \in Int /\ s[1].pos \in Int
  BY Positions
<1>5. i \in 2..n
  BY <1>4
<1>6. Parent(i) \in 1..n /\ Parent(i) < i /\ s[Parent(i)].pos <= s[i].pos
  BY <1>5, Parents DEF Heap
<1>7. s[Parent(i)].pos \in Int
  BY <1>6, Positions
<1>8. Parent(i) \in Lighter
  BY <1>4, <1>6, <1>7
<1> QED
  BY <1>3, <1>6, <1>8

\* heap.Pop puts the last element at the root, from where it will sink.
LEMMA ReadHeap ==
    ASSUME NEW n \in Nat \ {0}, NEW s \in Sample(n), Heap(s, n, {}),
           NEW t \in Sample(n), \A i \in 1..n : t[i] = s[Turn(1, n, i)]
    PROVE  /\ \A i \in 1..n : t[n].pos <= t[i].pos
           /\ Heap(t, n - 1, Below(1, n)) /\ Around(t, n - 1, 1)
<1>0. n \in Nat /\ 1 \in 1..n /\ n \in 1..n
  OBVIOUS
<1>1. \A i \in 1..n : t[i] = s[Turn(1, n, i)]
  OBVIOUS
<1>2. \A i \in 1..n : s[1].pos <= s[i].pos
  BY RootLightest
<1>3. t[n] = s[1]
  <2>1. n \in 1..n /\ Turn(1, n, n) = 1
    BY DEF Turn
  <2> QED
    BY <1>1, <2>1, Zenon
<1>4. \A i \in 1..n : Turn(1, n, i) \in 1..n
  BY <1>0, Turned, Zenon
<1>5. \A i \in 1..n : t[n].pos <= t[i].pos
  BY <1>1, <1>2, <1>3, <1>4
<1>6. ASSUME NEW i \in 2..(n - 1), Parent(i) # 1
      PROVE  t[Parent(i)].pos <= t[i].pos
  <2>1. i \in 2..n /\ Parent(i) \in 2..(n - 1)
    BY <1>6, Parents
  <2>2. t[i] = s[i] /\ t[Parent(i)] = s[Parent(i)]
    BY <1>1, <2>1 DEF Turn
  <2> QED
    BY <2>1, <2>2 DEF Heap
<1> QED
  BY <1>5, <1>6 DEF Heap, Around, Below

\* Of the elements below a, Child is a lightest one.
LEMMA ChildLightest ==
    ASSUME NEW n \in Nat, NEW m \in 0..n, NEW s \in Sample(n), NEW a \in Nat \ {0},
           NEW i \in 2..m, Parent(i) = a
    PROVE  Child(s, a, m) \in 2..m /\ s[Child(s, a, m)].pos <= s[i].pos
<1>1. i = 2 * a \/ i = 2 * a + 1
  BY Parents
<1>2. CASE 2 * a + 1 <= m
  <2>1. 2 * a \in 1..n /\ 2 * a + 1 \in 1..n
    BY <1>2
  <2>2. s[2 * a].pos \in Int /\ s[2 * a + 1].pos \in Int
    BY <2>1, Positions
  <2>3. CASE s[2 * a + 1].pos < s[2 * a].pos
    <3>1. Child(s, a, m) = 2 * a + 1
      BY <1>2, <2>3 DEF Child, Less
    <3> QED
      BY <1>1, <1>2, <2>2, <2>3, <3>1
  <2>4. CASE ~(s[2 * a + 1].pos < s[2 * a].pos)
    <3>1. Child(s, a, m) = 2 * a
      BY <2>4 DEF Child, Less
    <3> QED
      BY <1>1, <1>2, <2>2, <2>4, <3>1
  <2> QED
    BY <2>3, <2>4
<1>3. CASE ~(2 * a + 1 <= m)
  <2>1. i = 2 * a /\ i \in 1..n
    BY <1>1, <1>3
  <2>2. Child(s, a, m) = i
    BY <1>3, <2>1 DEF Child
  <2>3. s[i].pos \in Int
    BY <2>1, Positions
  <2> QED
    BY <2>2, <2>3
<1> QED
  BY <1>2, <1>3

LEMMA SinkHeap ==
    ASSUME NEW n \in Nat \ {0}, NEW s \in Sample(n), NEW a \in 1..n,
           \A i \in 1..n : s[n].pos <= s[i].pos,
           Heap(s, n - 1, Below(a, n)), Around(s, n - 1, a),
           Sinks(s, a, n - 1),
           NEW c, c = Child(s, a, n - 1), NEW t \in Sample(n),
           \A i \in 1..n : t[i] = s[Turn(c, a, i)]
    PROVE  /\ c \in 1..n /\ \A i \in 1..n : t[n].pos <= t[i].pos
           /\ Heap(t, n - 1, Below(c, n)) /\ Around(t, n - 1, c)
<1>1. /\ c \in 2..(n - 1) /\ Parent(c) = a /\ a < c /\ s[c].pos < s[a].pos
      /\ a \in 1..(n - 1) /\ a \in 1..n /\ c \in 1..n
  <2>1. c = 2 * a \/ c = 2 * a + 1
    BY DEF Child
  <2>2. c <= n - 1 /\ s[c].pos < s[a].pos
    BY DEF Sinks, Less
  <2>3. c \in 2..(n - 1) /\ a < c
    BY <2>1, <2>2
  <2> QED
    BY <2>1, <2>2, <2>3, Parents
<1>0. /\ \A i \in 1..n : t[i] = s[Turn(c, a, i)] /\ Turn(c, a, i) \in 1..n
      /\ Turn(c, a, a) = c /\ Turn(c, a, c) = a
      /\ \A i \in 1..n : i # a /\ i # c => Turn(c, a, i) = i
  <2>0. n \in Nat
    OBVIOUS
  <2>1. \A i \in 1..n : t[i] = s[Turn(c, a, i)]
    OBVIOUS
  <2>2. \A i \in 1..n : Turn(c, a, i) \in 1..n
    BY <1>1, <2>0, Turned, Zenon
  <2> QED
    BY <2>1, <2>2 DEF Turn
<1>2. /\ \A i \in 1..n : t[i] = s[Turn(c, a, i)] /\ Turn(c, a, i) \in 1..n
      /\ t[a] = s[c] /\ t[c] = s[a]
      /\ \A i \in 1..n : i # a /\ i # c => t[i] = s[i]
  BY <1>0, <1>1, Zenon
<1>3. \A i \in 1..n : t[n].pos <= t[i].pos
  <2>1. t[n] = s[n]
    BY <1>1, <1>2
  <2> QED
    BY <1>2, <2>1
<1>4. \A i \in 1..n : s[i].pos \in Int
  BY Positions
<1>5. \A i \in 2..(n - 1) : Parent(i) = a => s[c].pos <= s[i].pos
  <2>1. n - 1 \in 0..n /\ a \in Nat \ {0}
    OBVIOUS
  <2> QED
    BY <2>1, ChildLightest
<1>6. \A i \in 2..(n - 1) : /\ i \in 2..n /\ i \in 1..n /\ Parent(i) \in 1..n /\ Parent(i) < i
                            /\ Parent(i) # a => s[Parent(i)].pos <= s[i].pos
  BY Parents DEF Heap, Below
<1>7. ASSUME NEW i \in 2..(n - 1), Parent(i) # c
      PROVE  t[Parent(i)].pos <= t[i].pos
  <2>1. CASE i = c
    BY <1>1, <1>2, <1>4, <2>1
  <2>2. CASE i = a
    <3>1. Parent(a) \in 1..n /\ Parent(a) # a /\ Parent(a) # c /\ a > 1
      BY <1>1, <1>6, <2>2
    <3>2. s[Parent(a)].pos <= s[c].pos
      BY <1>1, <3>1 DEF Around, Below
    <3> QED
      BY <1>2, <2>2, <3>1, <3>2
  <2>3. CASE i # c /\ i # a /\ Parent(i) = a
    BY <1>2, <1>5, <1>6, <2>3
  <2>4. CASE i # c /\ i # a /\ Parent(i) # a
    BY <1>2, <1>6, <1>7, <2>4
  <2> QED
    BY <2>1, <2>2, <2>3, <2>4
<1>8. ASSUME NEW i \in 2..(n - 1), Parent(i) = c
      PROVE  t[Parent(c)].pos <= t[i].pos
  <2>1. i # a /\ i # c /\ Parent(i) # a
    BY <1>1, <1>6, <1>8
  <2> QED
    BY <1>1, <1>2, <1>6, <1>8, <2>1
<1> QED
  BY <1>1, <1>3, <1>7, <1>8 DEF Heap, Around, Below

\* An element that need not sink any more leaves a heap in front of the last one.
LEMMA PopHeap ==
    ASSUME NEW n \in Nat \ {0}, NEW s \in Sample(n), NEW a \in 1..n,
           Heap(s, n - 1, Below(a, n)), ~Sinks(s, a, n - 1),
           NEW t \in Sample(n - 1), \A i \in 1..(n - 1) : t[i] = s[i]
    PROVE  Heap(t, n - 1, {})
<1>1. n - 1 \in Nat /\ n - 1 \in 0..n /\ a \in Nat \ {0}
  OBVIOUS
<1>2. \A i \in 1..n : s[i].pos \in Int
  BY Positions
<1>3. ASSUME NEW i \in 2..(n - 1)
      PROVE  s[Parent(i)].pos <= s[i].pos
  <2>1. CASE Parent(i) = a
    <3>1. Child(s, a, n - 1) \in 2..(n - 1) /\ s[Child(s, a, n - 1)].pos <= s[i].pos
      BY <1>1, <2>1, ChildLightest
    <3>2. ~(s[Child(s, a, n - 1)].pos < s[a].pos)
      BY <3>1 DEF Sinks, Less
    <3>3. PICK c : c = Child(s, a, n - 1)
      OBVIOUS
    <3>4. c \in 1..n /\ s[c].pos <= s[i].pos /\ ~(s[c].pos < s[a].pos) /\ i \in 1..n
      BY <3>1, <3>2, <3>3
    <3>5. s[c].pos \in Int /\ s[a].pos \in Int /\ s[i].pos \in Int
      BY <1>2, <3>4
    <3> QED
      BY <2>1, <3>4, <3>5
  <2>2. CASE Parent(i) # a
    BY <2>2 DEF Heap, Below
  <2> QED
    BY <2>1, <2>2
<1>4. ASSUME NEW i \in 2..(n - 1)
      PROVE  t[Parent(i)].pos <= t[i].pos
  <2>1. i \in 1..(n - 1) /\ Parent(i) \in 1..(n - 1)
    BY Parents
  <2> QED
    BY <1>3, <2>1
<1> QED
  BY <1>4 DEF Heap

\* A new last element leaves a heap in front of it.
LEMMA PushHeap ==
    ASSUME NEW n \in Nat, NEW s \in Sample(n), Heap(s, n, {}),
           NEW t \in Sample(n + 1), \A i \in 1..n : t[i].pos = s[i].pos
    PROVE  Heap(t, n + 1, {n + 1}) /\ Around(t, n + 1, n + 1)
<1>1. ASSUME NEW i \in 2..(n + 1), i # n + 1
      PROVE  t[Parent(i)].pos <= t[i].pos
  <2>1. i \in 2..n /\ i \in 1..n /\ Parent(i) \in 1..n
    BY <1>1, Parents
  <2> QED
    BY <2>1 DEF Heap
<1>2. \A i \in 2..(n + 1) : Parent(i) # n + 1
  BY Parents
<1> QED
  BY <1>1, <1>2 DEF Heap, Around, Below

LEMMA RiseHeap ==
    ASSUME NEW n \in Nat \ {0}, NEW s \in Sample(n), NEW a \in 1..n,
           Heap(s, n, {a}), Around(s, n, a), Rises(s, a),
           NEW q, q = Parent(a), NEW t \in Sample(n), Exchanged(s, t, n, a, q)
    PROVE  q \in 1..n /\ Heap(t, n, {q}) /\ Around(t, n, q)
<1>1. a \in 2..n /\ q \in 1..n /\ q < a /\ s[a].pos < s[q].pos
  <2>1. a > 1 /\ s[a].pos < s[q].pos
    BY DEF Rises, Less
  <2> QED
    BY <2>1, Parents
<1>2. /\ t[a] = s[q] /\ t[q] = s[a]
      /\ \A i \in 1..n : i # a /\ i # q => t[i] = s[i]
  BY <1>1 DEF Turn, Exchanged
<1>3. \A i \in 1..n : s[i].pos \in Int
  BY Positions
<1>4. \A i \in 2..n : /\ i \in 1..n /\ Parent(i) \in 1..n /\ Parent(i) < i
                      /\ i # a => s[Parent(i)].pos <= s[i].pos
                      /\ Parent(i) = a => s[q].pos <= s[i].pos
  BY <1>1, Parents DEF Heap, Around, Below
<1>5. ASSUME NEW i \in 2..n, i # q
      PROVE  t[Parent(i)].pos <= t[i].pos
  <2>1. CASE i = a
    <3>1. s[a].pos \in Int /\ s[q].pos \in Int /\ Parent(i) = q
      BY <1>1, <1>3, <2>1
    <3> QED
      BY <1>1, <1>2, <2>1, <3>1
  <2>2. CASE i # a /\ Parent(i) = a
    BY <1>2, <1>4, <1>5, <2>2
  <2>3. CASE i # a /\ Parent(i) = q
    <3>1. s[q].pos <= s[i].pos /\ t[i] = s[i] /\ t[Parent(i)] = s[a]
      BY <1>2, <1>4, <1>5, <2>3
    <3>2. s[q].pos \in Int /\ s[i].pos \in Int /\ s[a].pos \in Int
      BY <1>1, <1>3, <1>4
    <3> QED
      BY <1>1, <3>1, <3>2
  <2>4. CASE i # a /\ Parent(i) # a /\ Parent(i) # q
    BY <1>2, <1>4, <1>5, <2>4
  <2> QED
    BY <2>1, <2>2, <2>3, <2>4
<1>6. ASSUME NEW i \in 2..n, Parent(i) = q, q > 1
      PROVE  t[Parent(q)].pos <= t[i].pos
  <2>1. /\ q \in 2..n /\ Parent(q) \in 1..n /\ Parent(q) # q /\ Parent(q) # a
        /\ s[Parent(q)].pos <= s[q].pos
    BY <1>1, <1>4, <1>6
  <2>2. t[Parent(q)] = s[Parent(q)]
    BY <1>2, <2>1
  <2>3. CASE i = a
    BY <1>2, <2>1, <2>2, <2>3
  <2>4. CASE i # a
    <3>1. i # q /\ t[i] = s[i] /\ s[q].pos <= s[i].pos
      BY <1>2, <1>4, <1>6, <2>4
    <3>2. s[q].pos \in Int /\ s[i].pos \in Int /\ s[Parent(q)].pos \in Int
      BY <1>1, <1>3, <1>4, <2>1
    <3> QED
      BY <2>1, <2>2, <3>1, <3>2
  <2> QED
    BY <2>3, <2>4
<1> QED
  BY <1>1, <1>5, <1>6 DEF Heap, Around, Below

LEMMA UpdatedHeap ==
    ASSUME NEW n \in Nat \ {0}, NEW s \in Sample(n), NEW a \in 1..n,
           Heap(s, n, {a}), ~Rises(s, a),
           NEW t \in Sample(n), \A i \in 1..n : t[i].pos = s[i].pos
    PROVE  Heap(t, n, {})
<1>1. ASSUME NEW i \in 2..n
      PROVE  t[Parent(i)].pos <= t[i].pos
  <2>1. i \in 1..n /\ Parent(i) \in 1..n
    BY Parents
  <2>2. t[i].pos = s[i].pos /\ t[Parent(i)].pos = s[Parent(i)].pos
    BY <2>1
  <2>3. s[i].pos \in Int /\ s[Parent(i)].pos \in Int
    BY <2>1, Positions
  <2>4. CASE i = a
    <3>1. ~(s[i].pos < s[Parent(i)].pos)
      BY <2>4 DEF Rises, Less
    <3> QED
      BY <2>2, <2>3, <3>1
  <2>5. CASE i # a
    BY <2>2, <2>5 DEF Heap
  <2> QED
    BY <2>4, <2>5
<1> QED
  BY <1>1 DEF Heap

-----------------------------------------------------------------------------
(* What is known of the elements of a sample, in whatever order they are *)

Heavier(s, p) == {j \in DOMAIN s : p < s[j].pos}
OutweighedIn(s) == \A i \in DOMAIN s : s[i].behind <= Cardinality(Heavier(s, s[i].pos))
Distinct(s) == \A i, j \in DOMAIN s : s[i].born = s[j].born => i = j
KeptOf(s) == {Strip(e) : e \in ToSet(s)}

LEMMA HeavierCount ==
    ASSUME NEW n \in Nat, NEW s \in Sample(n), NEW p
    PROVE  /\ IsFiniteSet(Heavier(s, p)) /\ Heavier(s, p) \subseteq 1..n
           /\ Cardinality(Heavier(s, p)) \in Nat
           /\ \A i \in 1..n : i \notin Heavier(s, p) => Cardinality(Heavier(s, p)) < n
<1>1. DOMAIN s = 1..n
  BY Positions
<1>2. IsFiniteSet(1..n) /\ Cardinality(1..n) = n
  BY FS_Interval
<1>3. Heavier(s, p) \in SUBSET (1..n)
  BY <1>1 DEF Heavier
<1>4. /\ IsFiniteSet(Heavier(s, p)) /\ Cardinality(Heavier(s, p)) <= n
      /\ n = Cardinality(Heavier(s, p)) => 1..n = Heavier(s, p)
  BY <1>2, <1>3, FS_Subset
<1>5. Cardinality(Heavier(s, p)) \in Nat
  BY <1>4, FS_CardinalityType
<1> QED
  BY <1>3, <1>4, <1>5

LEMMA SwapHeavier ==
    ASSUME NEW n \in Nat, NEW s \in Sample(n), NEW a \in 1..n, NEW b \in 1..n,
           NEW t \in Sample(n), \A i \in 1..n : t[i] = s[Turn(a, b, i)], NEW p
    PROVE  Cardinality(Heavier(t, p)) = Cardinality(Heavier(s, p))
<1> DEFINE f == [i \in Heavier(s, p) |-> Turn(a, b, i)]
<1>1. \A i \in 1..n : Turn(a, b, i) \in 1..n /\ Turn(a, b, Turn(a, b, i)) = i
  BY Turned
<1>2. DOMAIN s = 1..n /\ DOMAIN t = 1..n
  BY Positions
<1>3. \A i \in Heavier(s, p) : i \in 1..n /\ Turn(a, b, i) \in Heavier(t, p)
  BY <1>1, <1>2 DEF Heavier
<1>4. \A i \in Heavier(t, p) : i \in 1..n /\ Turn(a, b, i) \in Heavier(s, p)
  BY <1>1, <1>2 DEF Heavier
<1>5. f \in [Heavier(s, p) -> Heavier(t, p)]
  BY <1>3
<1>6. IsInjective(f)
  BY <1>1, <1>3 DEF IsInjective
<1>7. \A i \in Heavier(t, p) : \E j \in Heavier(s, p) : f[j] = i
  BY <1>1, <1>4
<1>8. f \in Bijection(Heavier(s, p), Heavier(t, p))
  BY <1>5, <1>6, <1>7 DEF Bijection, Injection, Surjection
<1>9. ExistsBijection(Heavier(s, p), Heavier(t, p))
  BY <1>8 DEF ExistsBijection
<1>10. IsFiniteSet(Heavier(s, p))
  BY HeavierCount
<1> QED
  BY <1>9, <1>10, FS_Bijection

\* Swapping two elements changes nothing of the sample but their places.
LEMMA SwapKeeps ==
    ASSUME NEW n \in Nat, NEW s \in Sample(n), NEW a \in 1..n, NEW b \in 1..n,
           NEW t \in Sample(n), Exchanged(s, t, n, a, b)
    PROVE  /\ KeptOf(t) = KeptOf(s)
           /\ Distinct(s) => Distinct(t)
           /\ OutweighedIn(s) => OutweighedIn(t)
           /\ \A i \in 1..n : \E j \in 1..n : t[i] = s[j]
<1>0. \A i \in 1..n : t[i] = s[Turn(a, b, i)]
  BY DEF Exchanged
<1>1. \A i \in 1..n : Turn(a, b, i) \in 1..n /\ Turn(a, b, Turn(a, b, i)) = i
  BY Turned
<1>2. DOMAIN s = 1..n /\ DOMAIN t = 1..n
  BY Positions
<1>3. \A i \in 1..n : \E j \in 1..n : t[i] = s[j]
  BY <1>0, <1>1
<1>4. \A i \in 1..n : \E j \in 1..n : s[i] = t[j]
  BY <1>0, <1>1
<1>5. ToSet(t) = ToSet(s)
  <2>1. \A e : e \in ToSet(t) <=> \E i \in 1..n : e = t[i]
    BY <1>2 DEF ToSet
  <2>2. \A e : e \in ToSet(s) <=> \E i \in 1..n : e = s[i]
    BY <1>2 DEF ToSet
  <2>3. \A e : e \in ToSet(t) <=> e \in ToSet(s)
    BY <1>3, <1>4, <2>1, <2>2, SMT
  <2> QED
    BY <2>3
<1>6. ASSUME Distinct(s) PROVE Distinct(t)
  <2>1. ASSUME NEW i \in 1..n, NEW j \in 1..n, t[i].born = t[j].born PROVE i = j
    <3>1. Turn(a, b, i) = Turn(a, b, j)
      BY <1>0, <1>1, <1>2, <1>6, <2>1 DEF Distinct
    <3> QED
      BY <1>1, <3>1
  <2> QED
    BY <1>2, <2>1 DEF Distinct
<1>7. ASSUME OutweighedIn(s) PROVE OutweighedIn(t)
  <2>1. ASSUME NEW i \in 1..n
        PROVE  t[i].behind <= Cardinality(Heavier(t, t[i].pos))
    <3>1. PICK j \in 1..n : t[i] = s[j]
      BY <1>3
    <3>2. s[j].behind <= Cardinality(Heavier(s, s[j].pos))
      BY <1>2, <1>7 DEF OutweighedIn
    <3>3. Cardinality(Heavier(t, s[j].pos)) = Cardinality(Heavier(s, s[j].pos))
      BY <1>0, SwapHeavier
    <3> QED
      BY <3>1, <3>2, <3>3
  <2> QED
    BY <1>2, <2>1 DEF OutweighedIn
<1> QED
  BY <1>3, <1>5, <1>6, <1>7 DEF KeptOf

\* A lightest element goes: no other one is outweighed by it.
LEMMA FrontKeeps ==
    ASSUME NEW n \in Nat \ {0}, NEW s \in Sample(n), \A i \in 1..n : s[n].pos <= s[i].pos,
           NEW t \in Sample(n - 1), \A i \in 1..(n - 1) : t[i] = s[i]
    PROVE  /\ Distinct(s) => Distinct(t) /\ KeptOf(t) = KeptOf(s) \ {Strip(s[n])}
           /\ Strip(s[n]) \in KeptOf(s)
           /\ \A l \in KeptOf(s) : Strip(s[n]).pos <= l.pos
           /\ OutweighedIn(s) => OutweighedIn(t)
           /\ \A i \in 1..(n - 1) : \E j \in 1..n : t[i] = s[j]
<1>1. /\ DOMAIN s = 1..n /\ DOMAIN t = 1..(n - 1) /\ n \in 1..n
      /\ \A i \in 1..(n - 1) : i \in 1..n /\ i # n
      /\ \A i \in 1..n : i # n => i \in 1..(n - 1)
  <2>1. n \in Nat /\ n - 1 \in Nat
    OBVIOUS
  <2>2. DOMAIN s = 1..n /\ DOMAIN t = 1..(n - 1)
    BY <2>1, Positions
  <2> QED
    BY <2>1, <2>2
<1>2. ASSUME Distinct(s) PROVE Distinct(t)
  BY <1>1, <1>2 DEF Distinct
<1>3. /\ \A l : l \in KeptOf(s) <=> \E i \in 1..n : l = Strip(s[i])
      /\ \A l : l \in KeptOf(t) <=> \E i \in 1..(n - 1) : l = Strip(s[i])
  BY <1>1 DEF KeptOf, ToSet
<1>4. \A i \in 1..n : Strip(s[i]).born = s[i].born /\ Strip(s[i]).pos = s[i].pos
  BY DEF Strip
<1>5. ASSUME Distinct(s) PROVE KeptOf(t) = KeptOf(s) \ {Strip(s[n])}
  <2>1. \A i \in 1..(n - 1) : Strip(s[i]) # Strip(s[n])
    BY <1>1, <1>4, <1>5 DEF Distinct
  <2>2. \A l : l \in KeptOf(t) <=> l \in KeptOf(s) /\ l # Strip(s[n])
    BY <1>1, <1>3, <2>1
  <2> QED
    BY <2>2
<1>6. Strip(s[n]) \in KeptOf(s) /\ \A l \in KeptOf(s) : Strip(s[n]).pos <= l.pos
  BY <1>1, <1>3, <1>4
<1>7. ASSUME OutweighedIn(s) PROVE OutweighedIn(t)
  <2>1. ASSUME NEW i \in 1..(n - 1)
        PROVE  t[i].behind <= Cardinality(Heavier(t, t[i].pos))
    <3>1. t[i] = s[i] /\ i \in 1..n
      BY <1>1
    <3>2. s[i].pos \in Int /\ s[n].pos \in Int /\ s[n].pos <= s[i].pos
      BY <1>1, <3>1, Positions
    <3>3. \A j : j \in Heavier(t, s[i].pos) <=> j \in Heavier(s, s[i].pos)
      BY <1>1, <3>2 DEF Heavier
    <3>4. Heavier(t, s[i].pos) = Heavier(s, s[i].pos)
      BY <3>3
    <3>5. s[i].behind <= Cardinality(Heavier(s, s[i].pos))
      BY <1>1, <1>7, <3>1 DEF OutweighedIn
    <3> QED
      BY <3>1, <3>4, <3>5
  <2> QED
    BY <1>1, <2>1 DEF OutweighedIn
<1> QED
  BY <1>1, <1>2, <1>5, <1>6, <1>7

\* As many samples are kept as there are elements.
LEMMA KeptCount ==
    ASSUME NEW n \in Nat, NEW s \in Sample(n), Distinct(s)
    PROVE  Cardinality(KeptOf(s)) = n
<1> DEFINE f == [i \in 1..n |-> Strip(s[i])]
<1>1. DOMAIN s = 1..n
  BY Positions
<1>2. \A l : l \in KeptOf(s) <=> \E i \in 1..n : l = Strip(s[i])
  BY <1>1 DEF KeptOf, ToSet
<1>3. f \in [1..n -> KeptOf(s)] /\ \A l \in KeptOf(s) : \E i \in 1..n : f[i] = l
  BY <1>2
<1>4. \A i \in 1..n : f[i].born = s[i].born
  BY DEF Strip
<1>5. IsInjective(f)
  <2>1. DOMAIN f = 1..n
    OBVIOUS
  <2>2. ASSUME NEW i \in 1..n, NEW j \in 1..n, f[i] = f[j] PROVE i = j
    BY <1>1, <1>4, <2>2 DEF Distinct
  <2> HIDE DEF f
  <2> QED
    BY <2>1, <2>2 DEF IsInjective
<1>6. f \in Bijection(1..n, KeptOf(s))
  BY <1>3, <1>5 DEF Bijection, Injection, Surjection
<1>7. ExistsBijection(1..n, KeptOf(s))
  BY <1>6 DEF ExistsBijection
<1> QED
  BY <1>7, FS_CountingElements

-----------------------------------------------------------------------------
(* Updates *)

HistType == [sample : Seq(ElementType), start : Nat, horizon : Nat]

\* What an update at the time t weighs at the least.
Least(h, t) == (t - h.start) * Decay

LEMMA LeastType ==
    \A h \in HistType : \A t \in Nat : Least(h, t) \in Int
  BY HistogramAssumption DEF HistType, Least

LEMMA Aged ==
    ASSUME NEW h \in HistType, NEW t \in Nat, NEW e \in ElementType
    PROVE  /\ Age(h, t, e) \in ElementType /\ Strip(Age(h, t, e)) = Strip(e)
           /\ Age(h, t, e).pos = e.pos /\ Age(h, t, e).born = e.born
           /\ \/ Age(h, t, e).behind = e.behind
              \/ e.pos < Least(h, t) /\ Age(h, t, e).behind = e.behind + 1
<1>1. PICK w \in Int : w = Least(h, t)
  BY LeastType
<1>2. Age(h, t, e) = [e EXCEPT !.behind = IF @ # -1 /\ e.pos < w THEN @ + 1 ELSE @]
  BY <1>1 DEF Age, Least
<1>3. CASE e.behind # -1 /\ e.pos < w
  <2>1. Age(h, t, e) = [e EXCEPT !.behind = e.behind + 1] /\ e.behind + 1 \in Nat
    BY <1>2, <1>3 DEF ElementType
  <2> QED
    BY <1>1, <1>3, <2>1 DEF ElementType, Strip
<1>4. CASE ~(e.behind # -1 /\ e.pos < w)
  <2>1. Age(h, t, e) = [e EXCEPT !.behind = e.behind]
    BY <1>2, <1>4
  <2> QED
    BY <2>1 DEF ElementType, Strip
<1> QED
  BY <1>3, <1>4

LEMMA NewElement ==
    ASSUME NEW h \in HistType, NEW t \in Nat, NEW v \in Nat, NEW draw \in Nat
    PROVE  /\ Element(h, t, v, draw) \in ElementType
           /\ Strip(Element(h, t, v, draw)) = [pos |-> Least(h, t) + draw, value |-> v, born |-> t]
           /\ Element(h, t, v, draw).born = t /\ Element(h, t, v, draw).behind = 0
           /\ Element(h, t, v, draw).pos = Least(h, t) + draw
<1>1. PICK w \in Int : w = Least(h, t)
  BY LeastType
<1>2. Element(h, t, v, draw) = [pos |-> w + draw, value |-> v, born |-> t, behind |-> 0]
  BY <1>1 DEF Element, Weight, Least
<1> QED
  BY <1>1, <1>2 DEF ElementType, Strip

LEMMA Pushed ==
    ASSUME NEW h \in HistType, NEW n \in Nat, h.sample \in Sample(n),
           NEW t \in Nat, NEW v \in Nat, NEW draw \in Nat
    PROVE  LET u == Push(h, t, v, draw)
           IN  /\ u \in HistType /\ u.start = h.start /\ u.horizon = h.horizon
               /\ u.sample \in Sample(n + 1)
               /\ \A i \in 1..n : u.sample[i] = Age(h, t, h.sample[i])
               /\ u.sample[n + 1] = Element(h, t, v, draw)
<1> DEFINE s == h.sample
           aged == [i \in DOMAIN s |-> Age(h, t, s[i])]
           e == Element(h, t, v, draw)
<1>1. DOMAIN s = 1..n /\ \A i \in 1..n : s[i] \in ElementType
  BY Positions
<1>2. \A i \in 1..n : Age(h, t, s[i]) \in ElementType
  BY <1>1, Aged
<1>3. aged \in Seq(ElementType) /\ Len(aged) = n /\ \A i \in 1..n : aged[i] = Age(h, t, s[i])
  <2>1. aged = [i \in 1..n |-> Age(h, t, s[i])]
    BY <1>1
  <2>2. [i \in 1..n |-> Age(h, t, s[i])] \in Seq(ElementType)
    BY <1>2, IsASeq
  <2>3. Len(aged) = n
    BY <2>1, <2>2, LenProperties
  <2> QED
    BY <2>1, <2>2, <2>3
<1>4. e \in ElementType
  BY NewElement
<1> HIDE DEF aged, e
<1>5. /\ Append(aged, e) \in Seq(ElementType) /\ Len(Append(aged, e)) = n + 1
      /\ \A i \in 1..n : Append(aged, e)[i] = aged[i]
      /\ Append(aged, e)[n + 1] = e
  BY <1>3, <1>4, AppendProperties
<1>6. Push(h, t, v, draw) = [h EXCEPT !.sample = Append(aged, e)]
  BY DEF Push, aged, e
<1>7. /\ Push(h, t, v, draw).sample = Append(aged, e) /\ Push(h, t, v, draw) \in HistType
      /\ Push(h, t, v, draw).start = h.start /\ Push(h, t, v, draw).horizon = h.horizon
  BY <1>5, <1>6 DEF HistType
<1> QED
  BY <1>3, <1>5, <1>7 DEF Sample, e

\* A new element is counted by those that its time alone outweighs.
LEMMA PushKeeps ==
    ASSUME NEW h \in HistType, NEW n \in Nat, NEW s \in Sample(n),
           NEW t \in Nat, NEW draw \in Nat,
           NEW e, e.pos = Least(h, t) + draw, e.born = t, e.behind = 0,
           NEW u \in Sample(n + 1), \A i \in 1..n : u[i] = Age(h, t, s[i]), u[n + 1] = e
    PROVE  /\ Distinct(s) /\ (\A i \in 1..n : s[i].born < t) => Distinct(u)
           /\ KeptOf(u) = KeptOf(s) \cup {Strip(e)}
           /\ OutweighedIn(s) => OutweighedIn(u)
           /\ \A i \in 1..n : u[i].pos = s[i].pos /\ u[i].born = s[i].born
           /\ e.born = t
<1>1. /\ DOMAIN s = 1..n /\ DOMAIN u = 1..(n + 1) /\ n + 1 \in 1..(n + 1)
      /\ \A i \in 1..n : i \in 1..(n + 1) /\ i # n + 1
      /\ \A i \in 1..(n + 1) : i # n + 1 => i \in 1..n
  BY Positions
<1>2. \A i \in 1..n :
        /\ s[i] \in ElementType /\ u[i].pos = s[i].pos /\ u[i].born = s[i].born
        /\ Strip(u[i]) = Strip(s[i])
        /\ \/ u[i].behind = s[i].behind
           \/ s[i].pos < Least(h, t) /\ u[i].behind = s[i].behind + 1
  <2>1. ASSUME NEW i \in 1..n PROVE s[i] \in ElementType
    BY Positions
  <2>2. ASSUME NEW i \in 1..n
        PROVE  /\ u[i].pos = s[i].pos /\ u[i].born = s[i].born
               /\ Strip(u[i]) = Strip(s[i])
               /\ \/ u[i].behind = s[i].behind
                  \/ s[i].pos < Least(h, t) /\ u[i].behind = s[i].behind + 1
    <3>1. u[i] = Age(h, t, s[i]) /\ s[i] \in ElementType
      BY <2>1
    <3>2. LET a == Age(h, t, s[i])
          IN  /\ a.pos = s[i].pos /\ a.born = s[i].born /\ Strip(a) = Strip(s[i])
              /\ \/ a.behind = s[i].behind
                 \/ s[i].pos < Least(h, t) /\ a.behind = s[i].behind + 1
      BY <2>1, Aged, Zenon
    <3> QED
      BY <3>1, <3>2, Zenon
  <2> QED
    BY <2>1, <2>2
<1>3. /\ e.pos = Least(h, t) + draw /\ e.born = t /\ e.behind = 0 /\ Least(h, t) \in Int
  BY LeastType
<1>4. ASSUME Distinct(s), \A i \in 1..n : s[i].born < t PROVE Distinct(u)
  <2>1. \A i \in 1..n : u[i].born # u[n + 1].born
    <3>1. \A i \in 1..n : s[i].born \in Nat
      BY <1>2 DEF ElementType
    <3> QED
      BY <1>2, <1>3, <1>4, <3>1
  <2>2. \A i, j \in 1..n : u[i].born = u[j].born => i = j
    BY <1>1, <1>2, <1>4 DEF Distinct
  <2> QED
    BY <1>1, <2>1, <2>2 DEF Distinct
<1>5. KeptOf(u) = KeptOf(s) \cup {Strip(e)}
  <2>1. \A l : l \in KeptOf(s) <=> \E i \in 1..n : l = Strip(s[i])
    BY <1>1 DEF KeptOf, ToSet
  <2>2. \A l : l \in KeptOf(u) <=> \E i \in 1..(n + 1) : l = Strip(u[i])
    BY <1>1 DEF KeptOf, ToSet
  <2>3. ASSUME NEW l \in KeptOf(u) PROVE l \in KeptOf(s) \cup {Strip(e)}
    <3>1. PICK i \in 1..(n + 1) : l = Strip(u[i])
      BY <2>2
    <3>2. CASE i = n + 1
      BY <3>1, <3>2
    <3>3. CASE i # n + 1
      <4>1. i \in 1..n /\ Strip(u[i]) = Strip(s[i])
        BY <1>1, <1>2, <3>3
      <4> QED
        BY <2>1, <3>1, <4>1
    <3> QED
      BY <3>2, <3>3
  <2>4. ASSUME NEW l \in KeptOf(s) PROVE l \in KeptOf(u)
    BY <1>1, <1>2, <2>1, <2>2
  <2>5. Strip(e) \in KeptOf(u)
    BY <1>1, <2>2
  <2> QED
    BY <2>3, <2>4, <2>5
<1>6. ASSUME OutweighedIn(s) PROVE OutweighedIn(u)
  <2>1. ASSUME NEW i \in 1..n
        PROVE  u[i].behind <= Cardinality(Heavier(u, u[i].pos))
    <3> DEFINE p == s[i].pos
               H == Heavier(s, p)
               K == Heavier(u, p)
    <3>1. /\ p \in Int /\ u[i].pos = p /\ s[i].behind \in Int
          /\ s[i].behind <= Cardinality(H)
      BY <1>1, <1>2, <1>6 DEF OutweighedIn, ElementType
    <3>2. H \subseteq K /\ n + 1 \notin H /\ (p < e.pos => n + 1 \in K)
      BY <1>1, <1>2 DEF Heavier
    <3>3. IsFiniteSet(H) /\ Cardinality(H) \in Nat
      BY HeavierCount
    <3>4. IsFiniteSet(K) /\ Cardinality(K) \in Nat
      <4>1. n + 1 \in Nat
        OBVIOUS
      <4> QED
        BY <4>1, HeavierCount
    <3> HIDE DEF H, K, p
    <3>5. Cardinality(H) <= Cardinality(K)
      BY <3>2, <3>4, FS_Subset
    <3>6. CASE u[i].behind = s[i].behind
      BY <3>1, <3>3, <3>4, <3>5, <3>6 DEF K
    <3>7. CASE p < Least(h, t) /\ u[i].behind = s[i].behind + 1
      <4>1. n + 1 \in K
        BY <1>3, <3>1, <3>2, <3>7
      <4>2. Cardinality(H \cup {n + 1}) = Cardinality(H) + 1
        BY <3>2, <3>3, FS_AddElement
      <4>3. Cardinality(H \cup {n + 1}) <= Cardinality(K)
        <5>1. H \cup {n + 1} \in SUBSET K
          BY <3>2, <4>1
        <5> QED
          BY <3>4, <5>1, FS_Subset
      <4> QED
        BY <3>1, <3>3, <3>4, <3>7, <4>2, <4>3 DEF K
    <3> QED
      BY <1>2, <3>6, <3>7 DEF p
  <2>2. u[n + 1].behind <= Cardinality(Heavier(u, u[n + 1].pos))
    <3>1. n + 1 \in Nat
      OBVIOUS
    <3>2. Cardinality(Heavier(u, u[n + 1].pos)) \in Nat
      BY <3>1, HeavierCount
    <3> QED
      BY <1>3, <3>2
  <2> QED
    BY <1>1, <2>1, <2>2 DEF OutweighedIn
<1> QED
  BY <1>2, <1>3, <1>4, <1>5, <1>6

\* A rescaling changes neither the weights nor which samples there are.
LEMMA RescaledKeeps ==
    ASSUME NEW h \in HistType, NEW n \in Nat, h.sample \in Sample(n),
           NEW t \in Nat, h.start <= t, h.start <= h.horizon
    PROVE  LET u == Rescaled(h, t)
           IN  /\ u \in HistType /\ u.start <= t /\ u.start <= u.horizon
               /\ u.sample \in Sample(n)
               /\ \A i \in 1..n : /\ u.sample[i].pos = h.sample[i].pos
                                  /\ u.sample[i].born = h.sample[i].born
               /\ KeptOf(u.sample) = KeptOf(h.sample)
               /\ Distinct(h.sample) => Distinct(u.sample)
               /\ OutweighedIn(h.sample) => OutweighedIn(u.sample)
<1> DEFINE s == h.sample
           x == [i \in DOMAIN s |-> [s[i] EXCEPT !.behind = -1]]
<1>1. DOMAIN s = 1..n /\ \A i \in 1..n : s[i] \in ElementType
  BY Positions
<1>2. CASE ~(t > h.horizon)
  BY <1>2 DEF Rescaled
<1>3. CASE t > h.horizon
  <2>1. \A i \in 1..n : [s[i] EXCEPT !.behind = -1] \in ElementType
    BY <1>1 DEF ElementType
  <2>2. x = [i \in 1..n |-> [s[i] EXCEPT !.behind = -1]]
    BY <1>1
  <2>3. [i \in 1..n |-> [s[i] EXCEPT !.behind = -1]] \in Seq(ElementType)
    BY <2>1, IsASeq
  <2>4. x \in Seq(ElementType) /\ Len(x) = n
    <3>1. x \in Seq(ElementType) /\ DOMAIN x = 1..n
      BY <2>2, <2>3
    <3> HIDE DEF x
    <3>2. Len(x) \in Nat /\ DOMAIN x = 1..Len(x)
      BY <3>1, LenProperties
    <3> QED
      BY <3>1, <3>2
  <2>5. \A i \in 1..n : /\ x[i].pos = s[i].pos /\ x[i].born = s[i].born
                        /\ x[i].behind = -1 /\ Strip(x[i]) = Strip(s[i])
    BY <1>1, <2>2 DEF ElementType, Strip
  <2> HIDE DEF x
  <2>6. x \in Sample(n) /\ DOMAIN x = 1..n
    BY <2>4, Positions DEF Sample
  <2>7. KeptOf(x) = KeptOf(s)
    <3>1. \A l : l \in KeptOf(s) <=> \E i \in 1..n : l = Strip(s[i])
      BY <1>1 DEF KeptOf, ToSet
    <3>2. \A l : l \in KeptOf(x) <=> \E i \in 1..n : l = Strip(x[i])
      BY <2>6 DEF KeptOf, ToSet
    <3>3. \A l : l \in KeptOf(x) <=> l \in KeptOf(s)
      BY <2>5, <3>1, <3>2
    <3> QED
      BY <3>3
  <2>8. Distinct(s) => Distinct(x)
    BY <1>1, <2>5, <2>6 DEF Distinct
  <2>9. OutweighedIn(x)
    <3>1. ASSUME NEW i \in 1..n PROVE x[i].behind <= Cardinality(Heavier(x, x[i].pos))
      <4>1. Cardinality(Heavier(x, x[i].pos)) \in Nat
        BY <2>6, HeavierCount
      <4> QED
        BY <2>5, <4>1
    <3> QED
      BY <2>6, <3>1 DEF OutweighedIn
  <2>10. Rescaled(h, t) = [sample |-> x, start |-> t, horizon |-> t + Resample]
    BY <1>3 DEF Rescaled, x
  <2>11. t + Resample \in Nat /\ t <= t + Resample
    BY HistogramAssumption
  <2>12. Rescaled(h, t) \in HistType
    BY <2>4, <2>10, <2>11 DEF HistType
  <2> QED
    BY <2>5, <2>6, <2>7, <2>8, <2>9, <2>10, <2>11, <2>12
<1> QED
  BY <1>2, <1>3

-----------------------------------------------------------------------------
(* Sorting and percentiles *)

\* p puts the elements of s in order.
Sorts(p, s) ==
    /\ \A i, j \in DOMAIN s : i <= j => s[p[i]] <= s[p[j]]
    /\ IsInjective(p)

\* Every sequence of numbers can be sorted: the place of an element is how many there
\* are up to it.
LEMMA Sortable ==
    ASSUME NEW n \in Nat, NEW s \in [1..n -> Nat]
    PROVE  \E p \in [1..n -> 1..n] : Sorts(p, s)
<1> DEFINE Before(i, j) == s[i] < s[j] \/ (s[i] = s[j] /\ i <= j)
           UpTo(j) == {i \in 1..n : Before(i, j)}
           rank == [j \in 1..n |-> Cardinality(UpTo(j))]
<1>1. \A i \in 1..n : s[i] \in Nat
  OBVIOUS
<1>2. /\ \A i \in 1..n : Before(i, i)
      /\ \A i, j \in 1..n : Before(i, j) \/ Before(j, i)
      /\ \A i, j \in 1..n : Before(i, j) /\ Before(j, i) => i = j
      /\ \A i, j \in 1..n : Before(i, j) => s[i] <= s[j]
  BY <1>1
<1>3. \A i, j, k \in 1..n : Before(i, j) /\ Before(j, k) => Before(i, k)
  BY <1>1
<1> HIDE DEF Before
<1>4. IsFiniteSet(1..n) /\ Cardinality(1..n) = n
  BY FS_Interval
<1>5. \A j \in 1..n : /\ IsFiniteSet(UpTo(j)) /\ Cardinality(UpTo(j)) \in 1..n
  <2>1. SUFFICES ASSUME NEW j \in 1..n
                 PROVE  IsFiniteSet(UpTo(j)) /\ Cardinality(UpTo(j)) \in 1..n
    OBVIOUS
  <2>2. UpTo(j) \in SUBSET (1..n) /\ j \in UpTo(j)
    BY <1>2
  <2> HIDE DEF UpTo
  <2>3. IsFiniteSet(UpTo(j)) /\ Cardinality(UpTo(j)) <= n
    BY <1>4, <2>2, FS_Subset
  <2>4. Cardinality(UpTo(j)) \in Nat /\ Cardinality(UpTo(j)) # 0
    BY <2>2, <2>3, FS_CardinalityType, FS_EmptySet
  <2> QED
    BY <2>3, <2>4
<1>6. ASSUME NEW i \in 1..n, NEW j \in 1..n, Before(i, j), i # j
      PROVE  rank[i] < rank[j]
  <2>1. UpTo(i) \in SUBSET UpTo(j) /\ j \in UpTo(j) /\ j \notin UpTo(i)
    BY <1>2, <1>3, <1>6
  <2> HIDE DEF UpTo
  <2>2. IsFiniteSet(UpTo(j)) /\ Cardinality(UpTo(i)) \in Int /\ Cardinality(UpTo(j)) \in Int
    BY <1>5
  <2>3. /\ Cardinality(UpTo(i)) <= Cardinality(UpTo(j))
        /\ Cardinality(UpTo(j)) = Cardinality(UpTo(i)) => UpTo(j) = UpTo(i)
    BY <2>1, <2>2, FS_Subset
  <2> QED
    BY <2>1, <2>2, <2>3
<1>7. rank \in [1..n -> 1..n]
  BY <1>5
<1> HIDE DEF rank
<1>8. \A i \in 1..n : rank[i] \in 1..n
  BY <1>7
<1>9. \A i, j \in 1..n : rank[i] <= rank[j] => Before(i, j)
  <2>1. SUFFICES ASSUME NEW i \in 1..n, NEW j \in 1..n, rank[i] <= rank[j], ~Before(i, j)
                 PROVE  FALSE
    OBVIOUS
  <2>2. rank[j] < rank[i]
    BY <1>2, <1>6, <2>1
  <2> QED
    BY <1>8, <2>1, <2>2
<1>10. \A i, j \in 1..n : rank[i] = rank[j] => i = j
  BY <1>2, <1>8, <1>9
<1>11. rank \in Injection(1..n, 1..n)
  BY <1>7, <1>10 DEF Injection, IsInjective
<1>12. rank \in Surjection(1..n, 1..n)
  BY <1>4, <1>11, FS_Injection
<1>13. \A k \in 1..n : \E i \in 1..n : rank[i] = k
  BY <1>12 DEF Surjection
<1> DEFINE p == [k \in 1..n |-> CHOOSE i \in 1..n : rank[i] = k]
<1>14. p \in [1..n -> 1..n] /\ \A k \in 1..n : p[k] \in 1..n /\ rank[p[k]] = k
  BY <1>13
<1> HIDE DEF p
<1>15. \A i, j \in 1..n : i <= j => s[p[i]] <= s[p[j]]
  <2>1. ASSUME NEW i \in 1..n, NEW j \in 1..n, i <= j
        PROVE  s[p[i]] <= s[p[j]]
    <3>1. PICK x \in 1..n, y \in 1..n : x = p[i] /\ y = p[j]
      BY <1>14
    <3>2. rank[x] <= rank[y]
      BY <1>14, <2>1, <3>1
    <3>3. s[x] <= s[y]
      BY <1>2, <1>9, <3>2
    <3> QED
      BY <3>1, <3>3
  <2> QED
    BY <2>1
<1>16. \A i, j \in 1..n : p[i] = p[j] => i = j
  BY <1>14
<1>17. Sorts(p, s)
  BY <1>14, <1>15, <1>16 DEF Sorts, IsInjective
<1> QED
  BY <1>14, <1>17

\* p puts the n elements of s in the order of l.
Arranges(p, s, l, n) ==
    /\ \A k \in 1..n : l[k] = s[p[k]] /\ l[k] \in Nat
    /\ \A i, j \in 1..n : i <= j => s[p[i]] <= s[p[j]]
    /\ \A i, j \in 1..n : p[i] = p[j] => i = j
    /\ \A i \in 1..n : \E k \in 1..n : p[k] = i

\* What the sorted values are.
LEMMA SortedValues ==
    ASSUME NEW n \in Nat, NEW s \in [1..n -> Nat]
    PROVE  \E p \in [1..n -> 1..n] : Arranges(p, s, Sorted(s), n)
<1> DEFINE p == CHOOSE q \in [DOMAIN s -> DOMAIN s] :
                  /\ \A i, j \in DOMAIN s : i <= j => s[q[i]] <= s[q[j]]
                  /\ IsInjective(q)
<1>1. DOMAIN s = 1..n
  OBVIOUS
<1>2. \E q \in [DOMAIN s -> DOMAIN s] :
        /\ \A i, j \in DOMAIN s : i <= j => s[q[i]] <= s[q[j]]
        /\ IsInjective(q)
  BY <1>1, Sortable DEF Sorts
<1>3. p \in [1..n -> 1..n] /\ IsInjective(p) /\ \A i, j \in 1..n : i <= j => s[p[i]] <= s[p[j]]
  BY <1>1, <1>2
<1>4. Sorted(s) = [i \in 1..n |-> s[p[i]]]
  BY <1>1 DEF Sorted
<1> HIDE DEF p
<1>5. \A k \in 1..n : Sorted(s)[k] = s[p[k]] /\ Sorted(s)[k] \in Nat
  BY <1>3, <1>4
<1>6. \A i, j \in 1..n : p[i] = p[j] => i = j
  BY <1>3 DEF IsInjective
<1>7. IsFiniteSet(1..n) /\ p \in Injection(1..n, 1..n)
  <2>1. IsFiniteSet(1..n)
    BY FS_Interval
  <2>2. p \in Injection(1..n, 1..n)
    BY <1>3 DEF Injection
  <2> QED
    BY <2>1, <2>2
<1>8. p \in Surjection(1..n, 1..n)
  BY <1>7, FS_Injection
<1>9. \A i \in 1..n : \E k \in 1..n : p[k] = i
  BY <1>8 DEF Surjection
<1>10. Arranges(p, s, Sorted(s), n)
  BY <1>3, <1>5, <1>6, <1>9 DEF Arranges
<1> QED
  BY <1>3, <1>10

\* How many places the first m of the sorted values have.
LEMMA Images ==
    ASSUME NEW n \in Nat, NEW p \in [1..n -> 1..n], NEW m \in 0..n,
           \A i, j \in 1..n : p[i] = p[j] => i = j
    PROVE  /\ IsFiniteSet({p[j] : j \in 1..m}) /\ {p[j] : j \in 1..m} \subseteq 1..n
           /\ Cardinality({p[j] : j \in 1..m}) = m
<1> DEFINE T == {p[j] : j \in 1..m}
           f == [j \in 1..m |-> p[j]]
<1>1. \A j \in 1..m : j \in 1..n
  OBVIOUS
<1>2. f \in [1..m -> T] /\ \A l \in T : \E j \in 1..m : f[j] = l
  OBVIOUS
<1>3. \A i, j \in 1..m : f[i] = f[j] => i = j
  BY <1>1
<1>4. f \in Bijection(1..m, T)
  BY <1>2, <1>3 DEF Bijection, Injection, Surjection, IsInjective
<1>5. ExistsBijection(1..m, T)
  BY <1>4 DEF ExistsBijection
<1>6. m \in Nat /\ T \subseteq 1..n
  BY <1>1
<1> HIDE DEF T
<1>7. Cardinality(T) = m
  BY <1>5, <1>6, FS_CountingElements
<1>8. IsFiniteSet(T)
  BY <1>5, <1>6, FS_NatBijection
<1> QED
  BY <1>6, <1>7, <1>8 DEF T

\* Counting finds the sorted value at a position.
LEMMA RankIsSorted ==
    ASSUME NEW n \in Nat, NEW s \in [1..n -> Nat], NEW k \in 0..(n - 1)
    PROVE  Ranked(s, k) = Sorted(s)[k + 1] /\ Sorted(s)[k + 1] \in Nat
<1> DEFINE Smaller(v) == {i \in 1..n : s[i] < v}
           Upto(v) == {i \in 1..n : s[i] <= v}
           Is(v) == Cardinality(Smaller(v)) <= k /\ k < Cardinality(Upto(v))
<1>p. PICK p \in [1..n -> 1..n] : Arranges(p, s, Sorted(s), n)
  BY SortedValues
<1>1. /\ \A j \in 1..n : Sorted(s)[j] = s[p[j]] /\ Sorted(s)[j] \in Nat
      /\ \A i, j \in 1..n : i <= j => s[p[i]] <= s[p[j]]
      /\ \A i, j \in 1..n : p[i] = p[j] => i = j
      /\ \A i \in 1..n : \E j \in 1..n : p[j] = i
  BY <1>p DEF Arranges
<1>0. \A i, j \in 1..n : p[i] = p[j] => i = j
  BY <1>1
<1>2. k + 1 \in 1..n /\ k \in 0..n /\ k + 1 \in 0..n /\ k \in Nat
  OBVIOUS
<1>3. PICK v \in Nat : v = s[p[k + 1]] /\ v = Sorted(s)[k + 1]
  BY <1>1, <1>2
<1>4. \A i \in 1..n : s[i] \in Nat /\ p[i] \in 1..n
  OBVIOUS
<1>5. \A w : /\ IsFiniteSet(Smaller(w)) /\ IsFiniteSet(Upto(w))
             /\ Cardinality(Smaller(w)) \in Nat /\ Cardinality(Upto(w)) \in Nat
  <2>1. SUFFICES ASSUME NEW w
                 PROVE  /\ IsFiniteSet(Smaller(w)) /\ IsFiniteSet(Upto(w))
                        /\ Cardinality(Smaller(w)) \in Nat /\ Cardinality(Upto(w)) \in Nat
    OBVIOUS
  <2>2. Smaller(w) \in SUBSET (1..n) /\ Upto(w) \in SUBSET (1..n)
    OBVIOUS
  <2> HIDE DEF Smaller, Upto
  <2>3. IsFiniteSet(1..n)
    BY FS_Interval
  <2>4. IsFiniteSet(Smaller(w)) /\ IsFiniteSet(Upto(w))
    BY <2>2, <2>3, FS_Subset
  <2> QED
    BY <2>4, FS_CardinalityType
<1>6. Cardinality(Smaller(v)) <= k
  <2> DEFINE T == {p[j] : j \in 1..k}
  <2>1. IsFiniteSet(T) /\ Cardinality(T) = k
    BY <1>0, <1>2, Images, Zenon
  <2>2. ASSUME NEW i \in Smaller(v) PROVE i \in T
    <3>1. PICK j \in 1..n : p[j] = i
      BY <1>1
    <3>2. s[p[j]] < s[p[k + 1]] /\ s[p[j]] \in Nat /\ s[p[k + 1]] \in Nat
      BY <1>2, <1>3, <1>4, <3>1
    <3>3. k + 1 <= j => s[p[k + 1]] <= s[p[j]]
      BY <1>1, <1>2, Zenon
    <3>5. PICK x \in Nat, y \in Nat : x = s[p[j]] /\ y = s[p[k + 1]]
      BY <3>2
    <3>6. x < y /\ (k + 1 <= j => y <= x)
      BY <3>2, <3>3, <3>5, Zenon
    <3>4. j \in 1..k
      BY <1>2, <3>6
    <3> QED
      BY <3>1, <3>4
  <2>3. Smaller(v) \in SUBSET T
    BY <2>2
  <2> HIDE DEF T, Smaller
  <2> QED
    BY <2>1, <2>3, FS_Subset
<1>7. k < Cardinality(Upto(v))
  <2> DEFINE T == {p[j] : j \in 1..(k + 1)}
  <2>1. IsFiniteSet(T) /\ Cardinality(T) = k + 1
    BY <1>0, <1>2, Images, ZenonT(30)
  <2>2. ASSUME NEW j \in 1..(k + 1) PROVE p[j] \in Upto(v)
    <3>1. j \in 1..n /\ j <= k + 1
      BY <1>2
    <3>2. s[p[j]] <= s[p[k + 1]] /\ p[j] \in 1..n
      BY <1>1, <1>2, <3>1
    <3> QED
      BY <1>3, <3>2
  <2>5. Cardinality(Upto(v)) \in Nat
    BY <1>5
  <2>3. T \in SUBSET Upto(v)
    BY <2>2
  <2> HIDE DEF T, Upto
  <2>4. Cardinality(T) <= Cardinality(Upto(v))
    BY <1>5, <2>3, FS_Subset
  <2> QED
    BY <1>2, <2>1, <2>4, <2>5
<1>8. ASSUME NEW u \in Nat, NEW w \in Nat, Is(u), Is(w), u < w PROVE FALSE
  <2>1. Upto(u) \in SUBSET Smaller(w)
    BY <1>4, <1>8
  <2>2. /\ Cardinality(Smaller(w)) <= k /\ k < Cardinality(Upto(u))
    BY <1>8
  <2> HIDE DEF Upto, Smaller
  <2>3. Cardinality(Upto(u)) <= Cardinality(Smaller(w))
    BY <1>5, <2>1, FS_Subset
  <2> QED
    BY <1>2, <1>5, <2>2, <2>3
<1>9. Is(v)
  BY <1>6, <1>7
<1>10. v \in ToSet(s) /\ ToSet(s) \subseteq Nat
  BY <1>2, <1>3, <1>4 DEF ToSet
<1>11. /\ \A w : Cardinality({i \in DOMAIN s : s[i] < w}) = Cardinality(Smaller(w))
       /\ \A w : Cardinality({i \in DOMAIN s : s[i] <= w}) = Cardinality(Upto(w))
  OBVIOUS
<1> HIDE DEF Smaller, Upto
<1>12. Ranked(s, k) = CHOOSE w \in ToSet(s) : Is(w)
  BY <1>11 DEF Ranked
<1> HIDE DEF Is
<1>13. \A w \in ToSet(s) : Is(w) => w = v
  BY <1>8, <1>9, <1>10
<1>14. (CHOOSE w \in ToSet(s) : Is(w)) = v
  BY <1>9, <1>10, <1>13
<1> QED
  BY <1>3, <1>12, <1>14

\* The position of the percentile asked for is one in the sequence of the values.
LEMMA Divided ==
    ASSUME NEW a \in Nat, NEW w \in Nat \ {0}
    PROVE  /\ a \div w \in Nat /\ a % w \in Nat /\ a % w < w
           /\ a = w * (a \div w) + (a % w)
<1>1. a \div w \in Nat
  OBVIOUS
<1>2. a % w \in 0..(w - 1)
  OBVIOUS
<1>3. a = w * (a \div w) + (a % w)
  OBVIOUS
<1>4. \A o \in 0..(w - 1) : o \in Nat /\ o < w
  OBVIOUS
<1> QED
  BY <1>1, <1>2, <1>3, <1>4, Zenon

LEMMA Scaled ==
    ASSUME NEW w \in Nat \ {0}, NEW x \in Nat, NEW y \in Nat
    PROVE  /\ w * x <= w * y => x <= y
           /\ w * x < w * y => x < y
  OBVIOUS

LEMMA PositionBounds ==
    ASSUME NEW n \in Nat \ {0}
    PROVE  LET asked == Percent * (n - 1)
           IN  /\ asked \in Nat /\ asked % Whole \in Nat /\ asked % Whole < Whole
               /\ asked \div Whole \in 0..(n - 1)
               /\ asked % Whole # 0 => (asked \div Whole) + 1 \in 0..(n - 1)
<1>1. /\ Whole \in Nat \ {0} /\ Percent \in Nat /\ Percent <= Whole
  BY HistogramAssumption
<1>2. PICK m \in Nat : m = n - 1
  OBVIOUS
<1>3. PICK a : a = Percent * (n - 1)
  OBVIOUS
<1>4. a \in Nat /\ a <= Whole * m
  <2>1. a = Percent * m
    BY <1>2, <1>3
  <2>2. \A x, y, z \in Nat : x <= y => x * z \in Nat /\ x * z <= y * z
    OBVIOUS
  <2> QED
    BY <1>1, <1>2, <2>1, <2>2
<1>5. /\ a \div Whole \in Nat /\ a % Whole \in Nat /\ a % Whole < Whole
      /\ a = Whole * (a \div Whole) + (a % Whole)
  BY <1>1, <1>4, Divided
<1>6. PICK k \in Nat, o \in Nat : k = a \div Whole /\ o = a % Whole
  BY <1>5
<1>7. o < Whole /\ a = Whole * k + o
  BY <1>5, <1>6, Zenon
<1>8. Whole * k <= Whole * m /\ (o # 0 => Whole * k < Whole * m)
  <2>1. Whole * k \in Nat /\ Whole * m \in Nat
    BY <1>1
  <2> QED
    BY <1>4, <1>7, <2>1
<1>9. k <= m /\ (o # 0 => k < m)
  BY <1>1, <1>8, Scaled
<1>10. k \in 0..(n - 1) /\ (o # 0 => k + 1 \in 0..(n - 1))
  BY <1>2, <1>9
<1> QED
  BY <1>3, <1>4, <1>5, <1>6, <1>10

\* Percentile interpolates between the two values that counting finds: fewer values of
\* the sample are smaller than the position asked for, and more are not larger
\* (stats.go:39-59).
THEOREM PercentileIsRank ==
    ASSUME NEW h \in HistType
    PROVE  Percentile(h) = PercentileByRank(h) /\ Percentile(h) \in Nat
<1> DEFINE n == Len(h.sample)
           s == Values(h)
           asked == Percent * (n - 1)
           k == asked \div Whole
           o == asked % Whole
<1>1. h.sample \in Seq(ElementType) /\ n \in Nat /\ DOMAIN h.sample = 1..n
  BY LenProperties DEF HistType
<1>2. \A i \in 1..n : h.sample[i].value \in Nat
  <2> HIDE DEF n
  <2>1. \A i \in 1..n : h.sample[i] \in ElementType
    BY <1>1, ElementOfSeq DEF n
  <2> QED
    BY <2>1 DEF ElementType
<1>3. s = [i \in 1..n |-> h.sample[i].value]
  BY <1>1 DEF Values
<1>4. s \in [1..n -> Nat] /\ s \in Seq(Nat)
  BY <1>1, <1>2, <1>3, IsASeq
<1>5. Len(s) = n
  <2> HIDE DEF n, s
  <2>1. Len(s) \in Nat /\ DOMAIN s = 1..Len(s) /\ DOMAIN s = 1..n
    BY <1>4, LenProperties
  <2>2. \A a, b \in Nat : 1..a = 1..b => a = b
    OBVIOUS
  <2> QED
    BY <1>1, <2>1, <2>2
<1>6. s = <<>> <=> n = 0
  BY <1>4, <1>5, EmptySeq
<1>7. CASE n = 0
  BY <1>6, <1>7 DEF Percentile, PercentileByRank
<1>8. CASE n # 0
  <2> DEFINE x == Sorted(s)[k + 1]
             y == Sorted(s)[k + 2]
  <2>1. /\ asked \in Nat /\ o \in Nat /\ o < Whole /\ k \in 0..(n - 1)
        /\ o # 0 => k + 1 \in 0..(n - 1)
    BY <1>1, <1>8, PositionBounds
  <2>2. Ranked(s, k) = x /\ x \in Nat
    BY <1>1, <1>4, <2>1, RankIsSorted
  <2>3. o # 0 => Ranked(s, k + 1) = y /\ y \in Nat
    <3>1. SUFFICES ASSUME o # 0 PROVE Ranked(s, k + 1) = y /\ y \in Nat
      OBVIOUS
    <3>2. Ranked(s, k + 1) = Sorted(s)[(k + 1) + 1] /\ Sorted(s)[(k + 1) + 1] \in Nat
      BY <1>1, <1>4, <2>1, <3>1, RankIsSorted
    <3>3. (k + 1) + 1 = k + 2
      BY <2>1
    <3> QED
      BY <3>2, <3>3
  <2>4. Percentile(h) = IF o = 0 THEN x * Whole ELSE x * (Whole - o) + y * o
    BY <1>8 DEF Percentile
  <2>5. PercentileByRank(h) = Ranked(s, k) * Whole
                              + (IF o = 0 THEN 0 ELSE (Ranked(s, k + 1) - Ranked(s, k)) * o)
    BY <1>5, <1>6, <1>8 DEF PercentileByRank
  <2>6. Whole \in Nat
    BY HistogramAssumption
  <2> HIDE DEF x, y, o, k, s
  <2>7. CASE o = 0
    <3>1. x * Whole \in Nat /\ x * Whole + 0 = x * Whole
      BY <2>2, <2>6
    <3> QED
      BY <2>2, <2>4, <2>5, <2>7, <3>1
  <2>8. CASE o # 0
    <3>1. \A a, b, c, d \in Nat : d < c =>
            /\ a * (c - d) + b * d = a * c + (b - a) * d
            /\ a * (c - d) + b * d \in Nat
      OBVIOUS
    <3>2. /\ x * (Whole - o) + y * o = x * Whole + (y - x) * o
          /\ x * (Whole - o) + y * o \in Nat
      BY <2>1, <2>2, <2>3, <2>6, <2>8, <3>1
    <3> QED
      BY <2>2, <2>3, <2>4, <2>5, <2>8, <3>2
  <2> QED
    BY <2>7, <2>8
<1> QED
  BY <1>7, <1>8

-----------------------------------------------------------------------------
(* The invariant *)

\* The heap that heap.up and heap.down keep, of a sample of n elements, with Update at st.
HeapsIn(s, n, st, a) ==
    IF st = "sink"
    THEN /\ n = Size /\ a \in 1..n /\ \A i \in 1..n : s[n].pos <= s[i].pos
         /\ Heap(s, n - 1, Below(a, n)) /\ Around(s, n - 1, a)
    ELSE IF st = "rise"
    THEN a \in 1..n /\ Heap(s, n, {a}) /\ Around(s, n, a)
    ELSE Heap(s, n, {}) /\ (st = "push" => n < Size)

\* No element is outweighed by more others than there is room for.
LEMMA LeavesInTime ==
    \A n \in 0..Size : \A s \in Sample(n) :
        OutweighedIn(s) => \A i \in DOMAIN s : s[i].behind < Size
<1> SUFFICES ASSUME NEW n \in 0..Size, NEW s \in Sample(n), OutweighedIn(s), NEW i \in DOMAIN s
             PROVE  s[i].behind < Size
  OBVIOUS
<1>1. Size \in Nat /\ n \in Nat /\ n <= Size
  BY HistogramAssumption
<1>2. DOMAIN s = 1..n /\ i \in 1..n /\ s[i] \in ElementType
  BY <1>1, Positions
<1>3. i \notin Heavier(s, s[i].pos)
  BY <1>2 DEF Heavier, ElementType
<1>4. /\ Cardinality(Heavier(s, s[i].pos)) \in Nat
      /\ Cardinality(Heavier(s, s[i].pos)) < n
  BY <1>1, <1>2, <1>3, HeavierCount
<1>5. s[i].behind <= Cardinality(Heavier(s, s[i].pos)) /\ s[i].behind \in Int
  BY <1>2 DEF OutweighedIn, ElementType
<1> QED
  BY <1>1, <1>4, <1>5

LEMMA ResourceNumbers ==
    /\ Len(Resources) \in Nat
    /\ \A k \in 1..Len(Resources) : Resources[k] \in ResourceSet
    /\ \A j, k \in 1..Len(Resources) : Resources[j] = Resources[k] => j = k
<1>1. Resources \in Seq(ResourceSet) /\ IsInjective(Resources)
  BY MonitorAssumption
<1>2. Len(Resources) \in Nat /\ DOMAIN Resources = 1..Len(Resources)
  BY <1>1, LenProperties
<1> QED
  BY <1>1, <1>2, ElementOfSeq DEF IsInjective

\* What the invariant says of the histogram of r.
LEMMA Known ==
    ASSUME MonitorInv, NEW r \in ResourceSet
    PROVE  LET s == hist[r].sample
               n == Len(s)
           IN  /\ hist[r] \in HistType /\ n \in 0..Size /\ n \in Nat /\ s \in Sample(n)
               /\ hist[r].start <= now /\ hist[r].start <= hist[r].horizon
               /\ OutweighedIn(s) /\ Distinct(s)
               /\ \A i \in 1..n : s[i].born <= now /\ (Ahead(r) => s[i].born < now)
               /\ At(r, step) => HeapsIn(s, n, step, at)
               /\ ~At(r, step) => Heap(s, n, {})
<1>1. TypeOK /\ Heaps /\ Births /\ Outweighed
  BY DEF MonitorInv
<1>2. hist[r] \in HistType /\ hist[r].start <= now /\ hist[r].start <= hist[r].horizon
  BY <1>1 DEF TypeOK, HistType
<1>3. PICK s : s = hist[r].sample
  OBVIOUS
<1>4. s \in Seq(ElementType) /\ Len(s) <= Size
  BY <1>1, <1>2, <1>3 DEF TypeOK, HistType
<1>5. Len(s) \in Nat /\ DOMAIN s = 1..Len(s) /\ s \in Sample(Len(s))
  BY <1>4, LenProperties DEF Sample
<1>6. Len(s) \in 0..Size
  BY <1>4, <1>5, HistogramAssumption
<1>7. OutweighedIn(s) /\ Distinct(s)
  BY <1>1, <1>3 DEF Outweighed, OutweighedIn, Heavier, Births, Distinct
<1>8. \A i \in 1..Len(s) : s[i].born <= now /\ (Ahead(r) => s[i].born < now)
  BY <1>1, <1>3, <1>5 DEF Births
<1>9. /\ At(r, step) => HeapsIn(s, Len(s), step, at)
      /\ ~At(r, step) => Heap(s, Len(s), {})
  <2>1. IF At(r, "sink")
        THEN /\ Len(s) = Size /\ at \in 1..Len(s) /\ \A i \in 1..Len(s) : s[Len(s)].pos <= s[i].pos
             /\ Heap(s, Len(s) - 1, Below(at, Len(s)))
             /\ Around(s, Len(s) - 1, at)
        ELSE IF At(r, "rise")
        THEN at \in 1..Len(s) /\ Heap(s, Len(s), {at}) /\ Around(s, Len(s), at)
        ELSE Heap(s, Len(s), {}) /\ (At(r, "push") => Len(s) < Size)
    BY <1>1, <1>3 DEF Heaps
  <2>2. \A x : At(r, x) <=> At(r, step) /\ step = x
    BY DEF At
  <2>3. step \in {"read", "sink", "push", "rise"}
    BY <1>1 DEF TypeOK
  <2> QED
    BY <2>1, <2>2, <2>3 DEF HeapsIn
<1> QED
  BY <1>2, <1>3, <1>5, <1>6, <1>7, <1>8, <1>9

\* Another histogram is not in an update while this one is.
LEMMA OthersWait ==
    ASSUME MonitorInv, NEW r \in ResourceSet, NEW q \in ResourceSet, q # r, At(r, step),
           pc' = pc \/ (pc' = pc + 1 /\ step' = "read")
    PROVE  /\ \A x : ~At(q, x)
           /\ ~At(q, "sink")' /\ ~At(q, "rise")' /\ ~At(q, "push")'
           /\ Ahead(q)' => Ahead(q)
<1>1. pc \in Nat /\ Len(Resources) \in Nat
  BY ResourceNumbers DEF MonitorInv, TypeOK
<1>2. pc < Len(Resources) /\ Resources[pc + 1] = r
  BY DEF At
<1>3. \A x : ~At(q, x)
  BY <1>2 DEF At
<1>4. ~At(q, "sink")' /\ ~At(q, "rise")' /\ ~At(q, "push")'
  BY <1>2 DEF At
<1>5. ASSUME Ahead(q)' PROVE Ahead(q)
  <2>1. PICK k \in 1..Len(Resources) :
          Resources[k] = q /\ (k > pc' + 1 \/ (k = pc' + 1 /\ step' # "rise"))
    BY <1>5 DEF Ahead
  <2>2. k # pc + 1
    BY <1>2, <2>1
  <2>3. k > pc + 1
    BY <1>1, <2>1, <2>2
  <2> QED
    BY <2>1, <2>3 DEF Ahead
<1> QED
  BY <1>3, <1>4, <1>5

\* This histogram is not due again when its element has been pushed.
LEMMA OncePerRound ==
    ASSUME MonitorInv, NEW r \in ResourceSet, At(r, step),
           \/ pc' = pc /\ step' = "rise"
           \/ pc' = pc + 1
    PROVE  ~Ahead(r)'
<1>1. pc \in Nat /\ Len(Resources) \in Nat
  BY ResourceNumbers DEF MonitorInv, TypeOK
<1>2. pc < Len(Resources) /\ Resources[pc + 1] = r /\ pc + 1 \in 1..Len(Resources)
  BY <1>1 DEF At
<1>3. \A k \in 1..Len(Resources) : Resources[k] = r => k = pc + 1
  BY <1>2, ResourceNumbers
<1>4. ASSUME NEW k \in 1..Len(Resources), Resources[k] = r
      PROVE  ~(k > pc' + 1 \/ (k = pc' + 1 /\ step' # "rise"))
  <2>1. k = pc + 1
    BY <1>3, <1>4
  <2> QED
    BY <1>1, <2>1
<1> QED
  BY <1>4 DEF Ahead

\* A step of the update of r keeps the invariant when it keeps what is known of the
\* histogram: h is what it becomes.
LEMMA UpdateStep ==
    ASSUME MonitorInv, NEW r \in ResourceSet, At(r, step),
           NEW h \in HistType, NEW n \in 0..Size, h.sample \in Sample(n),
           h.start <= now, h.start <= h.horizon,
           OutweighedIn(h.sample), Distinct(h.sample),
           \A i \in 1..n : h.sample[i].born <= now /\ (Ahead(r)' => h.sample[i].born < now),
           HeapsIn(h.sample, n, step', at'),
           hist' = [hist EXCEPT ![r] = h], now' = now, value' \in Nat, at' \in Nat,
           \/ /\ step' \in {"sink", "push", "rise"} /\ value' \in Measured(r)
              /\ pc' = pc /\ last' = last
           \/ /\ step' = "read" /\ pc' = pc + 1 /\ last' \in [ResourceSet -> Nat]
              /\ last'[r] = Percentile(h) /\ \A q \in ResourceSet : q # r => last'[q] = last[q]
    PROVE  MonitorInv'
<1>1. TypeOK /\ Heaps /\ Births /\ Outweighed /\ Reported
  BY DEF MonitorInv
<1>2. /\ pc \in Nat /\ Len(Resources) \in Nat /\ pc < Len(Resources) /\ Resources[pc + 1] = r
      /\ Size \in Nat /\ n \in Nat
  BY <1>1, ResourceNumbers, HistogramAssumption DEF TypeOK, At
<1>3. /\ hist \in [ResourceSet -> HistType] /\ last \in [ResourceSet -> Nat]
      /\ now \in 0..MaxTime
  BY <1>1 DEF TypeOK, HistType
<1>4. hist'[r] = h /\ \A q \in ResourceSet : q # r => hist'[q] = hist[q]
  BY <1>3
<1>5. pc' = pc \/ (pc' = pc + 1 /\ step' = "read")
  OBVIOUS
<1>6. DOMAIN h.sample = 1..n /\ Len(h.sample) = n
  BY <1>2, Positions
<1>7. \A q \in ResourceSet : q # r =>
        /\ \A x : ~At(q, x)
        /\ ~At(q, "sink")' /\ ~At(q, "rise")' /\ ~At(q, "push")'
        /\ Ahead(q)' => Ahead(q)
  BY <1>5, OthersWait
<1>8. TypeOK'
  <2>1. /\ now' \in 0..MaxTime /\ pc' \in 0..Len(Resources)
        /\ step' \in {"read", "sink", "push", "rise"}
        /\ pc' = Len(Resources) => step' = "read"
        /\ value' \in Nat /\ at' \in Nat
        /\ last' \in [ResourceSet -> Nat]
    BY <1>2, <1>3
  <2>2. hist' \in [ResourceSet -> HistType]
    BY <1>3
  <2>3. ASSUME NEW q \in ResourceSet
        PROVE  /\ Len(hist'[q].sample) <= Size
               /\ hist'[q].start <= now' /\ hist'[q].start <= hist'[q].horizon
               /\ At(q, step)' /\ step' # "read" => value' \in Measured(q)
    <3>1. CASE q = r
      <4>1. Len(hist'[q].sample) <= Size
        BY <1>4, <1>6, <3>1
      <4>2. hist'[q].start <= now' /\ hist'[q].start <= hist'[q].horizon
        BY <1>4, <3>1
      <4> QED
        BY <3>1, <4>1, <4>2
    <3>2. CASE q # r
      <4>1. hist'[q] = hist[q] /\ Len(hist[q].sample) <= Size
        BY <1>1, <1>4, <3>2 DEF TypeOK
      <4>2. hist[q].start <= now /\ hist[q].start <= hist[q].horizon
        BY <1>1 DEF TypeOK
      <4>3. At(q, step)' => step' = "read"
        BY <1>7, <3>2 DEF At
      <4> QED
        BY <4>1, <4>2, <4>3
    <3> QED
      BY <3>1, <3>2
  <2> QED
    BY <2>1, <2>2, <2>3 DEF TypeOK, HistType
<1>9. Heaps'
  <2>1. ASSUME NEW q \in ResourceSet
        PROVE  LET s == hist'[q].sample
                   m == Len(s)
               IN  IF At(q, "sink")'
                   THEN /\ m = Size /\ at' \in 1..m /\ \A i \in 1..m : s[m].pos <= s[i].pos
                        /\ Heap(s, m - 1, Below(at', m))
                        /\ Around(s, m - 1, at')
                   ELSE IF At(q, "rise")'
                   THEN at' \in 1..m /\ Heap(s, m, {at'}) /\ Around(s, m, at')
                   ELSE Heap(s, m, {}) /\ (At(q, "push")' => m < Size)
    <3>1. CASE q = r
      <4>1. At(r, "sink")' => step' = "sink"
        BY DEF At
      <4>2. At(r, "rise")' => step' = "rise"
        BY DEF At
      <4>3. At(r, "push")' => step' = "push"
        BY DEF At
      <4>4. /\ step' = "sink" => At(r, "sink")'
            /\ step' = "rise" => At(r, "rise")'
        BY <1>2, <1>5 DEF At
      <4> QED
        BY <1>4, <1>6, <3>1, <4>1, <4>2, <4>3, <4>4 DEF HeapsIn
    <3>2. CASE q # r
      <4>1. Heap(hist[q].sample, Len(hist[q].sample), {})
        BY <1>7, <3>2, Known
      <4> QED
        BY <1>4, <1>7, <3>2, <4>1
    <3> QED
      BY <3>1, <3>2
  <2> QED
    BY <2>1 DEF Heaps
<1>10. Births'
  <2>1. ASSUME NEW q \in ResourceSet
        PROVE  LET s == hist'[q].sample
               IN  /\ \A i, j \in DOMAIN s : s[i].born = s[j].born => i = j
                   /\ \A i \in DOMAIN s : s[i].born <= now' /\ (Ahead(q)' => s[i].born < now')
    <3>1. CASE q = r
      BY <1>4, <1>6, <3>1, SMTT(30) DEF Distinct
    <3>2. CASE q # r
      BY <1>1, <1>4, <1>7, <3>2 DEF Births
    <3> QED
      BY <3>1, <3>2
  <2> QED
    BY <2>1 DEF Births
<1>11. \A q \in ResourceSet : OutweighedIn(hist'[q].sample)
  <2>1. \A q \in ResourceSet : OutweighedIn(hist[q].sample)
    BY <1>1 DEF Outweighed, OutweighedIn, Heavier
  <2> QED
    BY <1>4, <2>1
<1>12. Outweighed'
  BY <1>11 DEF Outweighed, OutweighedIn, Heavier
<1>13. OldSamplesLeave'
  <2>1. ASSUME NEW q \in ResourceSet
        PROVE  \A i \in DOMAIN hist'[q].sample : hist'[q].sample[i].behind < Size
    <3>1. PICK s : s = hist'[q].sample
      OBVIOUS
    <3>2. s \in Seq(ElementType) /\ Len(s) <= Size /\ OutweighedIn(s)
      BY <1>8, <1>11, <3>1 DEF TypeOK
    <3>3. Len(s) \in 0..Size /\ s \in Sample(Len(s))
      BY <1>2, <3>2, LenProperties DEF Sample
    <3> QED
      BY <3>1, <3>2, <3>3, LeavesInTime
  <2> QED
    BY <2>1 DEF OldSamplesLeave
<1>14. Reported'
  <2>1. ASSUME NEW q \in ResourceSet
        PROVE  (step' # "read" /\ At(q, step)') \/ last'[q] = Percentile(hist'[q])
    <3>1. CASE q = r
      <4>1. step' # "read" => At(r, step)'
        BY <1>2, <1>5 DEF At
      <4> QED
        BY <1>4, <3>1, <4>1
    <3>2. CASE q # r
      <4>1. last[q] = Percentile(hist[q])
        BY <1>1, <1>7, <3>2 DEF Reported
      <4> QED
        BY <1>4, <3>2, <4>1
    <3> QED
      BY <3>1, <3>2
  <2> QED
    BY <2>1 DEF Reported, Percentile
<1> QED
  BY <1>8, <1>9, <1>10, <1>12, <1>13, <1>14 DEF MonitorInv

-----------------------------------------------------------------------------
(* The steps of an update *)

\* The histogram with another sample.
LEMMA Becomes ==
    ASSUME MonitorInv, NEW r \in ResourceSet, NEW n \in Nat, NEW s \in Sample(n),
           NEW h, h = [hist[r] EXCEPT !.sample = s], Become(r, s)
    PROVE  /\ h \in HistType /\ h.sample = s /\ h.start = hist[r].start
           /\ h.horizon = hist[r].horizon /\ hist' = [hist EXCEPT ![r] = h]
<1>1. hist[r] \in HistType /\ s \in Seq(ElementType)
  BY Known DEF Sample
<1>2. hist' = [hist EXCEPT ![r].sample = s]
  BY DEF Become
<1> QED
  BY <1>1, <1>2 DEF HistType

LEMMA SizeNumber == Size \in Nat /\ Size # 0 /\ Size \in 0..Size
  BY HistogramAssumption

LEMMA ReadKeepsInv ==
    ASSUME MonitorInv, NEW r \in ResourceSet, Read(r)
    PROVE  MonitorInv'
<1>1. TypeOK
  BY DEF MonitorInv
<1>2. /\ At(r, "read") /\ step = "read" /\ At(r, step)
      /\ now' = now /\ last' = last /\ pc' = pc
  BY DEF Read, At
<1>3. value' \in Measured(r) /\ value' \in Nat
  <2>1. PICK v \in Readings[r] : value' = v \div NumCPU[r]
    BY DEF Read
  <2>2. v \in Nat /\ NumCPU[r] \in Nat \ {0}
    BY MonitorAssumption
  <2>3. v \div NumCPU[r] \in Nat
    BY <2>2, Divided, Zenon
  <2> QED
    BY <2>1, <2>3 DEF Measured
<1>4. PICK s, n : s = hist[r].sample /\ n = Len(s)
  OBVIOUS
<1>5. /\ hist[r] \in HistType /\ n \in 0..Size /\ n \in Nat /\ s \in Sample(n)
      /\ hist[r].start <= now /\ hist[r].start <= hist[r].horizon
      /\ OutweighedIn(s) /\ Distinct(s) /\ HeapsIn(s, n, "read", at)
      /\ \A i \in 1..n : s[i].born <= now /\ (Ahead(r) => s[i].born < now)
  BY <1>2, <1>4, Known
<1>6. Heap(s, n, {})
  BY <1>5 DEF HeapsIn
<1>7. Ahead(r)' => Ahead(r)
  BY <1>2 DEF Ahead
<1>8. CASE n = Size
  <2>1. Become(r, Swap(s, 1, Size)) /\ step' = "sink" /\ at' = 1
    BY <1>4, <1>8 DEF Read
  <2>2. n \in Nat \ {0} /\ 1 \in 1..n /\ n \in 1..n
    BY <1>5, <1>8, SizeNumber
  <2>3. PICK t \in Sample(n) : t = Swap(s, 1, n) /\ Exchanged(s, t, n, 1, n)
    BY <1>5, <2>2, SwapsTo
  <2>4. \A i \in 1..n : t[i] = s[Turn(1, n, i)]
    BY <2>3 DEF Exchanged
  <2>5. /\ \A i \in 1..n : t[n].pos <= t[i].pos
        /\ Heap(t, n - 1, Below(1, n)) /\ Around(t, n - 1, 1)
    BY <1>5, <1>6, <2>2, <2>4, ReadHeap
  <2>6. /\ OutweighedIn(t) /\ Distinct(t)
        /\ \A i \in 1..n : \E j \in 1..n : t[i] = s[j]
    BY <1>5, <2>2, <2>3, SwapKeeps
  <2>7. PICK h : h = [hist[r] EXCEPT !.sample = t]
    OBVIOUS
  <2>8. /\ h \in HistType /\ h.sample = t /\ h.start = hist[r].start
        /\ h.horizon = hist[r].horizon /\ hist' = [hist EXCEPT ![r] = h]
    BY <1>5, <1>8, <2>1, <2>3, <2>4, <2>7, Becomes
  <2>9. HeapsIn(t, n, "sink", 1)
    BY <1>8, <2>2, <2>5 DEF HeapsIn
  <2>10. \A i \in 1..n : t[i].born <= now /\ (Ahead(r)' => t[i].born < now)
    BY <1>5, <1>7, <2>6
  <2> QED
    BY <1>2, <1>3, <1>5, <2>1, <2>4, <2>6, <2>8, <2>9, <2>10, UpdateStep
<1>9. CASE n # Size
  <2>1. step' = "push" /\ hist' = hist /\ at' = at
    BY <1>4, <1>9 DEF Read
  <2>2. hist' = [hist EXCEPT ![r] = hist[r]]
    BY <1>1, <2>1 DEF TypeOK
  <2>3. HeapsIn(s, n, "push", at)
    BY <1>5, <1>6, <1>9, SizeNumber DEF HeapsIn
  <2>4. at' \in Nat
    BY <1>1, <2>1 DEF TypeOK
  <2> QED
    BY <1>2, <1>3, <1>4, <1>5, <1>7, <2>1, <2>2, <2>3, <2>4, UpdateStep
<1> QED
  BY <1>8, <1>9

\* When an element has moved within the sample, all but the heap is as before.
LEMMA MoveKeepsInv ==
    ASSUME MonitorInv, NEW r \in ResourceSet, At(r, step), step \in {"sink", "rise"},
           NEW n \in Nat, hist[r].sample \in Sample(n), NEW a \in 1..n, NEW b \in 1..n,
           NEW t \in Sample(n), Exchanged(hist[r].sample, t, n, a, b), Become(r, t),
           HeapsIn(t, n, step, at'), at' \in Nat, UNCHANGED <<now, last, pc, step, value>>
    PROVE  MonitorInv'
<1>1. PICK s \in Sample(n) : s = hist[r].sample /\ n = Len(s)
  BY Positions
<1>2. /\ hist[r] \in HistType /\ n \in 0..Size /\ n \in Nat /\ s \in Sample(n)
      /\ hist[r].start <= now /\ hist[r].start <= hist[r].horizon
      /\ OutweighedIn(s) /\ Distinct(s)
      /\ \A i \in 1..n : s[i].born <= now /\ (Ahead(r) => s[i].born < now)
  BY <1>1, Known
<1>3. Exchanged(s, t, n, a, b)
  BY <1>1
<1>4. /\ OutweighedIn(t) /\ Distinct(t)
      /\ \A i \in 1..n : \E j \in 1..n : t[i] = s[j]
  BY <1>2, <1>3, SwapKeeps
<1>5. PICK h : h = [hist[r] EXCEPT !.sample = t]
  OBVIOUS
<1>6. /\ h \in HistType /\ h.sample = t /\ h.start = hist[r].start
      /\ h.horizon = hist[r].horizon /\ hist' = [hist EXCEPT ![r] = h]
  BY <1>2, <1>5, Becomes
<1>7. Ahead(r)' => Ahead(r)
  BY DEF Ahead
<1>8. \A i \in 1..n : t[i].born <= now /\ (Ahead(r)' => t[i].born < now)
  BY <1>2, <1>4, <1>7
<1>9. value \in Nat /\ value \in Measured(r)
  BY DEF MonitorInv, TypeOK
<1>10. /\ now' = now /\ last' = last /\ pc' = pc /\ step' = step /\ value' = value
  OBVIOUS
<1>11. HeapsIn(t, n, step', at') /\ value' \in Nat /\ value' \in Measured(r)
       /\ step' \in {"sink", "push", "rise"}
  BY <1>9, <1>10
<1> QED
  BY <1>2, <1>4, <1>6, <1>8, <1>10, <1>11, UpdateStep

\* An element sinks and rises to a place in the sample.
LEMMA SinkPlaces ==
    ASSUME MonitorInv, NEW r \in ResourceSet, Sink(r)
    PROVE  LET s == hist[r].sample
           IN  /\ at \in 1..Len(s) /\ Child(s, at, Size - 1) \in 1..Len(s)
               /\ Len(s) = Size /\ s \in Sample(Len(s))
<1>1. PICK s, n, c : s = hist[r].sample /\ n = Len(s) /\ c = Child(s, at, Size - 1)
  OBVIOUS
<1>2. At(r, "sink") /\ step = "sink" /\ At(r, step) /\ Sinks(s, at, Size - 1)
  BY <1>1 DEF Sink, At
<1>3. /\ n \in Nat /\ s \in Sample(n) /\ HeapsIn(s, n, "sink", at)
  BY <1>1, <1>2, Known
<1>4. n = Size /\ at \in 1..n
  BY <1>3, SizeNumber DEF HeapsIn
<1>5. c \in 1..n
  <2>1. c = 2 * at \/ c = 2 * at + 1
    BY <1>1 DEF Child
  <2>2. c <= n - 1
    BY <1>1, <1>2, <1>4 DEF Sinks
  <2> QED
    BY <1>3, <1>4, <2>1, <2>2
<1> QED
  BY <1>1, <1>3, <1>4, <1>5

LEMMA RisePlaces ==
    ASSUME MonitorInv, NEW r \in ResourceSet, Rise(r)
    PROVE  LET s == hist[r].sample
           IN  /\ at \in 1..Len(s) /\ Parent(at) \in 1..Len(s) /\ s \in Sample(Len(s))
               /\ Len(s) \in Nat
<1>1. PICK s, n : s = hist[r].sample /\ n = Len(s)
  OBVIOUS
<1>2. At(r, "rise") /\ step = "rise" /\ At(r, step) /\ Rises(s, at)
  BY <1>1 DEF Rise, At
<1>3. n \in Nat /\ s \in Sample(n) /\ HeapsIn(s, n, "rise", at)
  BY <1>1, <1>2, Known
<1>4. at \in 1..n /\ at > 1
  BY <1>2, <1>3 DEF HeapsIn, Rises
<1>5. Parent(at) \in 1..n
  BY <1>3, <1>4, Parents
<1> QED
  BY <1>1, <1>3, <1>4, <1>5

LEMMA SinkKeepsInv ==
    ASSUME MonitorInv, NEW r \in ResourceSet, Sink(r)
    PROVE  MonitorInv'
<1>1. /\ At(r, "sink") /\ step = "sink" /\ At(r, step)
      /\ UNCHANGED <<now, last, pc, step, value>>
  BY DEF Sink, At
<1>2. PICK s, n, c : s = hist[r].sample /\ n = Len(s) /\ c = Child(s, at, Size - 1)
  OBVIOUS
<1>3. /\ n \in Nat /\ s \in Sample(n) /\ HeapsIn(s, n, "sink", at)
  BY <1>1, <1>2, Known
<1>4. /\ n = Size /\ at \in 1..n /\ \A i \in 1..n : s[n].pos <= s[i].pos
      /\ Heap(s, n - 1, Below(at, n)) /\ Around(s, n - 1, at)
      /\ n \in Nat \ {0}
  BY <1>3, SizeNumber DEF HeapsIn
<1>5. /\ Sinks(s, at, n - 1) /\ c = Child(s, at, n - 1)
      /\ Become(r, Swap(s, c, at)) /\ at' = c
  BY <1>2, <1>4 DEF Sink
<1>6. c \in 1..n
  BY <1>2, SinkPlaces
<1>7. PICK t \in Sample(n) : t = Swap(s, c, at) /\ Exchanged(s, t, n, c, at)
  BY <1>3, <1>4, <1>6, SwapsTo
<1>8. \A i \in 1..n : t[i] = s[Turn(c, at, i)]
  BY <1>7 DEF Exchanged
<1>9. /\ \A i \in 1..n : t[n].pos <= t[i].pos
      /\ Heap(t, n - 1, Below(c, n)) /\ Around(t, n - 1, c)
  BY <1>3, <1>4, <1>5, <1>8, SinkHeap, SMTT(30)
<1>10. HeapsIn(t, n, step, at') /\ at' \in Nat
  BY <1>1, <1>4, <1>5, <1>6, <1>9 DEF HeapsIn
<1>11. Become(r, t)
  BY <1>5, <1>7
<1> QED
  BY <1>1, <1>2, <1>3, <1>4, <1>6, <1>7, <1>10, <1>11, MoveKeepsInv

LEMMA RiseKeepsInv ==
    ASSUME MonitorInv, NEW r \in ResourceSet, Rise(r)
    PROVE  MonitorInv'
<1>1. /\ At(r, "rise") /\ step = "rise" /\ At(r, step)
      /\ UNCHANGED <<now, last, pc, step, value>>
  BY DEF Rise, At
<1>2. PICK s, n, q : s = hist[r].sample /\ n = Len(s) /\ q = Parent(at)
  OBVIOUS
<1>3. /\ n \in Nat /\ s \in Sample(n) /\ HeapsIn(s, n, "rise", at)
  BY <1>1, <1>2, Known
<1>4. at \in 1..n /\ Heap(s, n, {at}) /\ Around(s, n, at) /\ n \in Nat \ {0}
  BY <1>3 DEF HeapsIn
<1>5. /\ Rises(s, at) /\ Become(r, Swap(s, at, q)) /\ at' = q
  BY <1>2 DEF Rise
<1>6. q \in 1..n
  BY <1>2, RisePlaces
<1>7. PICK t \in Sample(n) : t = Swap(s, at, q) /\ Exchanged(s, t, n, at, q)
  BY <1>3, <1>4, <1>6, SwapsTo
<1>9. Heap(t, n, {q}) /\ Around(t, n, q)
  BY <1>2, <1>3, <1>4, <1>5, <1>7, RiseHeap
<1>10. HeapsIn(t, n, step, at') /\ at' \in Nat
  BY <1>1, <1>5, <1>6, <1>9 DEF HeapsIn
<1>11. Become(r, t)
  BY <1>5, <1>7
<1> QED
  BY <1>1, <1>2, <1>3, <1>4, <1>6, <1>7, <1>10, <1>11, MoveKeepsInv

LEMMA PopKeepsInv ==
    ASSUME MonitorInv, NEW r \in ResourceSet, Pop(r)
    PROVE  MonitorInv'
<1>1. /\ At(r, "sink") /\ step = "sink" /\ At(r, step) /\ step' = "push"
      /\ now' = now /\ last' = last /\ pc' = pc /\ value' = value /\ at' = at
  BY DEF Pop, At
<1>2. PICK s, n : s = hist[r].sample /\ n = Len(s)
  OBVIOUS
<1>3. /\ hist[r] \in HistType /\ n \in Nat /\ s \in Sample(n) /\ HeapsIn(s, n, "sink", at)
      /\ hist[r].start <= now /\ hist[r].start <= hist[r].horizon
      /\ OutweighedIn(s) /\ Distinct(s)
      /\ \A i \in 1..n : s[i].born <= now /\ (Ahead(r) => s[i].born < now)
  BY <1>1, <1>2, Known
<1>4. /\ n = Size /\ at \in 1..n /\ \A i \in 1..n : s[n].pos <= s[i].pos
      /\ Heap(s, n - 1, Below(at, n))
      /\ n \in Nat \ {0} /\ n - 1 \in Nat /\ n - 1 \in 0..Size /\ n - 1 < Size
  BY <1>3, SizeNumber DEF HeapsIn
<1>5. ~Sinks(s, at, n - 1) /\ Become(r, Front(s))
  BY <1>2, <1>4 DEF Pop
<1>6. PICK t \in Sample(n - 1) : t = Front(s) /\ \A i \in 1..(n - 1) : t[i] = s[i]
  BY <1>3, <1>4, Fronts DEF Sample
<1>7. Heap(t, n - 1, {})
  BY <1>3, <1>4, <1>5, <1>6, PopHeap
<1>8. /\ OutweighedIn(t) /\ Distinct(t)
      /\ \A i \in 1..(n - 1) : \E j \in 1..n : t[i] = s[j]
  BY <1>3, <1>4, <1>6, FrontKeeps
<1>9. PICK h : h = [hist[r] EXCEPT !.sample = t]
  OBVIOUS
<1>10. /\ h \in HistType /\ h.sample = t /\ h.start = hist[r].start
       /\ h.horizon = hist[r].horizon /\ hist' = [hist EXCEPT ![r] = h]
  BY <1>4, <1>5, <1>6, <1>9, Becomes
<1>11. Ahead(r)' => Ahead(r)
  BY <1>1 DEF Ahead
<1>12. \A i \in 1..(n - 1) : t[i].born <= now /\ (Ahead(r)' => t[i].born < now)
  BY <1>3, <1>8, <1>11
<1>13. value \in Nat /\ value \in Measured(r) /\ at \in Nat
  BY <1>1 DEF MonitorInv, TypeOK
<1>14. HeapsIn(t, n - 1, step', at')
  BY <1>1, <1>4, <1>7 DEF HeapsIn
<1>15. PICK m : m = n - 1
  OBVIOUS
<1>16. /\ m \in 0..Size /\ h.sample \in Sample(m)
       /\ OutweighedIn(h.sample) /\ Distinct(h.sample)
       /\ \A i \in 1..m : h.sample[i].born <= now /\ (Ahead(r)' => h.sample[i].born < now)
       /\ HeapsIn(h.sample, m, step', at')
  BY <1>3, <1>4, <1>6, <1>8, <1>10, <1>12, <1>14, <1>15
<1>17. /\ h \in HistType /\ h.start <= now /\ h.start <= h.horizon
       /\ value' \in Nat /\ at' \in Nat /\ value' \in Measured(r)
       /\ step' \in {"sink", "push", "rise"}
  BY <1>1, <1>3, <1>10, <1>13
<1> QED
  BY <1>1, <1>10, <1>16, <1>17, UpdateStep

\* Until its element is pushed this histogram holds older ones only.
LEMMA DueNow ==
    ASSUME MonitorInv, NEW r \in ResourceSet, At(r, step), step # "rise"
    PROVE  Ahead(r)
<1>1. pc \in Nat /\ Len(Resources) \in Nat
  BY ResourceNumbers DEF MonitorInv, TypeOK
<1>2. pc + 1 \in 1..Len(Resources) /\ Resources[pc + 1] = r
  BY <1>1 DEF At
<1> QED
  BY <1>2 DEF Ahead

\* The histogram g is h with an element e more.
Grown(h, g, n, t, e) ==
    /\ g.start = h.start /\ g.horizon = h.horizon /\ g.sample \in Sample(n + 1)
    /\ \A i \in 1..n : g.sample[i] = Age(h, t, h.sample[i])
    /\ g.sample[n + 1] = e

LEMMA PushesTo ==
    \A h \in HistType : \A n, t, v, draw \in Nat : h.sample \in Sample(n) =>
        \E g \in HistType : g = Push(h, t, v, draw) /\ Grown(h, g, n, t, Element(h, t, v, draw))
<1>1. TAKE h \in HistType
<1>2. TAKE n, t, v, draw \in Nat
<1>3. HAVE h.sample \in Sample(n)
<1>4. Push(h, t, v, draw) \in HistType
  BY <1>3, Pushed
<1>5. Grown(h, Push(h, t, v, draw), n, t, Element(h, t, v, draw))
  BY <1>3, Pushed, SMTT(30) DEF Grown
<1> QED
  BY <1>4, <1>5

LEMMA PushNewKeepsInv ==
    ASSUME MonitorInv, NEW r \in ResourceSet, PushNew(r)
    PROVE  MonitorInv'
<1>1. TypeOK
  BY DEF MonitorInv
<1>2. /\ At(r, "push") /\ step = "push" /\ At(r, step) /\ step' = "rise"
      /\ now' = now /\ last' = last /\ pc' = pc /\ value' = value
  BY DEF PushNew, At
<1>3. PICK s, n : s = hist[r].sample /\ n = Len(s)
  OBVIOUS
<1>4. /\ hist[r] \in HistType /\ n \in Nat /\ s \in Sample(n) /\ HeapsIn(s, n, "push", at)
      /\ hist[r].start <= now /\ hist[r].start <= hist[r].horizon
      /\ OutweighedIn(s) /\ Distinct(s)
      /\ \A i \in 1..n : s[i].born <= now /\ (Ahead(r) => s[i].born < now)
  BY <1>2, <1>3, Known
<1>5. Heap(s, n, {}) /\ n < Size /\ n + 1 \in 0..Size /\ n + 1 \in Nat
  BY <1>4, SizeNumber DEF HeapsIn
<1>6. now \in Nat /\ value \in Nat /\ value \in Measured(r)
  BY <1>1, <1>2 DEF TypeOK
<1>7. PICK draw \in Draws[r] : hist' = [hist EXCEPT ![r] = Push(hist[r], now, value, draw)]
  BY DEF PushNew
<1>8. draw \in Nat
  BY MonitorAssumption
<1>9. PICK h : h = Push(hist[r], now, value, draw)
  OBVIOUS
<1>10. PICK u, e : u = h.sample /\ e = Element(hist[r], now, value, draw)
  OBVIOUS
<1>11. /\ h \in HistType /\ h.start = hist[r].start /\ h.horizon = hist[r].horizon
       /\ u \in Sample(n + 1) /\ u[n + 1] = e
       /\ \A i \in 1..n : u[i] = Age(hist[r], now, s[i])
  <2>1. hist[r].sample \in Sample(n)
    BY <1>3, <1>4
  <2>2. PICK g \in HistType :
            /\ g = Push(hist[r], now, value, draw)
            /\ Grown(hist[r], g, n, now, Element(hist[r], now, value, draw))
    BY <1>4, <1>6, <1>8, <2>1, PushesTo
  <2>3. g = h /\ Grown(hist[r], h, n, now, e)
    BY <1>9, <1>10, <2>2
  <2> QED
    BY <1>3, <1>10, <2>2, <2>3 DEF Grown
<1>12. e.pos = Least(hist[r], now) + draw /\ e.born = now /\ e.behind = 0
  BY <1>4, <1>6, <1>8, <1>10, NewElement
<1>13. \A i \in 1..n : s[i].born < now
  BY <1>2, <1>4, DueNow
<1>14. /\ Distinct(u) /\ OutweighedIn(u)
       /\ \A i \in 1..n : u[i].pos = s[i].pos /\ u[i].born = s[i].born
  BY <1>4, <1>6, <1>8, <1>11, <1>12, <1>13, PushKeeps
<1>15. Heap(u, n + 1, {n + 1}) /\ Around(u, n + 1, n + 1)
  BY <1>4, <1>5, <1>11, <1>14, PushHeap
<1>16. at' = n + 1
  BY <1>3 DEF PushNew
<1>17. HeapsIn(u, n + 1, step', at')
  BY <1>2, <1>4, <1>15, <1>16 DEF HeapsIn
<1>18. ~Ahead(r)'
  BY <1>2, OncePerRound
<1>19. \A i \in 1..(n + 1) : u[i].born <= now
  <2>1. SUFFICES ASSUME NEW i \in 1..(n + 1) PROVE u[i].born <= now
    OBVIOUS
  <2>2. CASE i = n + 1
    BY <1>6, <1>11, <1>12, <2>2
  <2>3. CASE i # n + 1
    <3>1. i \in 1..n
      BY <1>4, <2>3
    <3> QED
      BY <1>4, <1>14, <3>1
  <2> QED
    BY <2>2, <2>3
<1>20. hist' = [hist EXCEPT ![r] = h] /\ h.sample = u
  BY <1>7, <1>9, <1>10
<1>21. /\ h.start <= now /\ h.start <= h.horizon /\ value' \in Nat /\ at' \in Nat
       /\ value' \in Measured(r) /\ step' \in {"sink", "push", "rise"}
       /\ \A i \in 1..(n + 1) : u[i].born <= now /\ (Ahead(r)' => u[i].born < now)
  BY <1>2, <1>4, <1>5, <1>6, <1>11, <1>16, <1>18, <1>19
<1> QED
  BY <1>2, <1>5, <1>11, <1>14, <1>17, <1>20, <1>21, UpdateStep

LEMMA UpdatedKeepsInv ==
    ASSUME MonitorInv, NEW r \in ResourceSet, Updated(r)
    PROVE  MonitorInv'
<1>1. TypeOK
  BY DEF MonitorInv
<1>2. /\ At(r, "rise") /\ step = "rise" /\ At(r, step) /\ step' = "read"
      /\ now' = now /\ pc' = pc + 1 /\ value' = 0 /\ at' = 0
  BY DEF Updated, At
<1>3. PICK s, n : s = hist[r].sample /\ n = Len(s)
  OBVIOUS
<1>4. /\ hist[r] \in HistType /\ n \in Nat /\ n \in 0..Size /\ s \in Sample(n)
      /\ HeapsIn(s, n, "rise", at)
      /\ hist[r].start <= now /\ hist[r].start <= hist[r].horizon
      /\ OutweighedIn(s) /\ Distinct(s)
      /\ \A i \in 1..n : s[i].born <= now
  BY <1>2, <1>3, Known
<1>5. at \in 1..n /\ Heap(s, n, {at}) /\ n \in Nat \ {0}
  BY <1>4 DEF HeapsIn
<1>6. ~Rises(s, at) /\ now \in Nat
  BY <1>1, <1>3 DEF Updated, TypeOK
<1>7. PICK h, u : h = Rescaled(hist[r], now) /\ u = h.sample
  OBVIOUS
<1>8. /\ h \in HistType /\ h.start <= now /\ h.start <= h.horizon
      /\ u \in Sample(n) /\ Distinct(u) /\ OutweighedIn(u)
      /\ \A i \in 1..n : u[i].pos = s[i].pos /\ u[i].born = s[i].born
  BY <1>3, <1>4, <1>6, <1>7, RescaledKeeps, SMTT(30)
<1>9. Heap(u, n, {})
  BY <1>4, <1>5, <1>6, <1>8, UpdatedHeap
<1>10. HeapsIn(u, n, step', at')
  BY <1>2, <1>9 DEF HeapsIn
<1>11. ~Ahead(r)'
  BY <1>2, OncePerRound
<1>12. \A i \in 1..n : u[i].born <= now /\ (Ahead(r)' => u[i].born < now)
  BY <1>4, <1>8, <1>11
<1>13. hist' = [hist EXCEPT ![r] = h] /\ h.sample = u
  BY <1>7 DEF Updated
<1>14. hist'[r] = h
  BY <1>1, <1>13 DEF TypeOK
<1>15. last' = [last EXCEPT ![r] = Percentile(h)]
  <2>1. last' = [last EXCEPT ![r] = Percentile(hist'[r])]
    BY DEF Updated
  <2> QED
    BY <1>14, <2>1
<1>16. /\ last' \in [ResourceSet -> Nat] /\ last'[r] = Percentile(h)
       /\ \A q \in ResourceSet : q # r => last'[q] = last[q]
  <2>1. Percentile(h) \in Nat
    BY <1>8, PercentileIsRank
  <2> QED
    BY <1>1, <1>15, <2>1 DEF TypeOK
<1>17. value' \in Nat /\ at' \in Nat
  BY <1>2
<1> QED
  BY <1>2, <1>4, <1>8, <1>10, <1>12, <1>13, <1>16, <1>17, UpdateStep

LEMMA ReadFailsKeepsInv ==
    ASSUME MonitorInv, NEW r \in ResourceSet, ReadFails(r)
    PROVE  MonitorInv'
<1>1. TypeOK /\ Reported
  BY DEF MonitorInv
<1>2. /\ step = "read" /\ At(r, step) /\ pc' = pc + 1
      /\ now' = now /\ hist' = hist /\ last' = last /\ step' = "read"
      /\ value' = value /\ at' = at
  BY DEF ReadFails, At, update
<1>3. PICK h, s, n : h = hist[r] /\ s = hist[r].sample /\ n = Len(s)
  OBVIOUS
<1>4. /\ h \in HistType /\ n \in 0..Size /\ s \in Sample(n) /\ h.sample = s
      /\ HeapsIn(s, n, "read", at)
      /\ h.start <= now /\ h.start <= h.horizon
      /\ OutweighedIn(s) /\ Distinct(s)
      /\ \A i \in 1..n : s[i].born <= now
  BY <1>2, <1>3, Known
<1>5. ~Ahead(r)'
  BY <1>2, OncePerRound
<1>6. HeapsIn(s, n, step', at')
  BY <1>2, <1>4 DEF HeapsIn
<1>7. hist' = [hist EXCEPT ![r] = h]
  BY <1>1, <1>2, <1>3 DEF TypeOK
<1>8. /\ last' \in [ResourceSet -> Nat] /\ last'[r] = Percentile(h)
      /\ \A q \in ResourceSet : q # r => last'[q] = last[q]
  BY <1>1, <1>2, <1>3 DEF TypeOK, Reported
<1>9. /\ value' \in Nat /\ at' \in Nat
      /\ \A i \in 1..n : s[i].born <= now /\ (Ahead(r)' => s[i].born < now)
  BY <1>1, <1>2, <1>4, <1>5 DEF TypeOK
<1> QED
  BY <1>2, <1>4, <1>6, <1>7, <1>8, <1>9, UpdateStep

\* After the round no histogram is in an update, and time has passed.
LEMMA CallHookKeepsInv ==
    ASSUME MonitorInv, CallHook
    PROVE  MonitorInv'
<1>1. TypeOK /\ OldSamplesLeave /\ Heaps /\ Births /\ Outweighed /\ Reported
  BY DEF MonitorInv
<1>2. /\ pc = Len(Resources) /\ pc' = 0 /\ step = "read" /\ step' = "read"
      /\ hist' = hist /\ last' = last /\ value' = value /\ at' = at /\ now' <= MaxTime
  BY <1>1 DEF CallHook, update, TypeOK
<1>3. now \in Nat /\ MaxTime \in Nat /\ Len(Resources) \in Nat /\ pc \in Nat
  BY <1>1, MonitorAssumption, ResourceNumbers DEF TypeOK
<1>4. now' \in 0..MaxTime /\ now < now'
  <2>1. PICK d \in Interval : now' = now + d
    BY DEF CallHook
  <2>2. d \in Nat \ {0}
    BY MonitorAssumption
  <2> QED
    BY <1>2, <1>3, <2>1, <2>2
<1>5. \A q \in ResourceSet, x \in {"read", "sink", "push", "rise"} :
        ~At(q, x) /\ (At(q, x)' => x = "read")
  BY <1>2, <1>3 DEF At
<1>6. TypeOK'
  <2>1. /\ hist' \in [ResourceSet -> HistType] /\ last' \in [ResourceSet -> Nat]
        /\ value' \in Nat /\ at' \in Nat
    BY <1>1, <1>2 DEF TypeOK, HistType
  <2>2. pc' \in 0..Len(Resources)
    BY <1>2, <1>3
  <2>3. \A q \in ResourceSet :
          /\ Len(hist'[q].sample) <= Size
          /\ hist'[q].start <= now' /\ hist'[q].start <= hist'[q].horizon
    <3>1. SUFFICES ASSUME NEW q \in ResourceSet
                   PROVE  /\ Len(hist[q].sample) <= Size
                          /\ hist[q].start <= now' /\ hist[q].start <= hist[q].horizon
      BY <1>2
    <3>2. hist[q] \in HistType
      BY <1>1 DEF TypeOK, HistType
    <3>3. /\ hist[q].start \in Nat /\ Len(hist[q].sample) <= Size
          /\ hist[q].start <= now /\ hist[q].start <= hist[q].horizon
      BY <1>1, <3>2 DEF TypeOK, HistType
    <3> QED
      BY <1>3, <1>4, <3>3
  <2> QED
    BY <1>2, <1>4, <2>1, <2>2, <2>3 DEF TypeOK, HistType
<1>7. Heaps'
  <2>1. SUFFICES ASSUME NEW q \in ResourceSet
                 PROVE  /\ ~At(q, "sink")' /\ ~At(q, "rise")' /\ ~At(q, "push")'
                        /\ Heap(hist[q].sample, Len(hist[q].sample), {})
    BY <1>2 DEF Heaps
  <2>2. ~At(q, step)
    BY <1>2, <1>5
  <2> QED
    BY <1>5, <2>2, Known
<1>8. Births'
  <2>1. SUFFICES ASSUME NEW q \in ResourceSet, NEW i \in DOMAIN hist[q].sample
                 PROVE  hist[q].sample[i].born < now'
    <3>1. ASSUME NEW q \in ResourceSet
          PROVE  /\ \A i, j \in DOMAIN hist[q].sample :
                      hist[q].sample[i].born = hist[q].sample[j].born => i = j
                 /\ \A i \in DOMAIN hist[q].sample :
                      /\ hist[q].sample[i].born <= now'
                      /\ Ahead(q)' => hist[q].sample[i].born < now'
      <4>1. \A i \in DOMAIN hist[q].sample : hist[q].sample[i].born <= now'
        <5>1. SUFFICES ASSUME NEW i \in DOMAIN hist[q].sample
                       PROVE  hist[q].sample[i].born <= now'
          OBVIOUS
        <5>2. hist[q].sample[i].born < now'
          BY <2>1
        <5>3. hist[q].sample \in Sample(Len(hist[q].sample)) /\ Len(hist[q].sample) \in Nat
          BY Known
        <5>4. hist[q].sample[i].born \in Nat
          BY <5>3, Positions DEF ElementType
        <5> QED
          BY <1>3, <1>4, <5>2, <5>4
      <4> QED
        BY <1>1, <2>1, <4>1 DEF Births
    <3> QED
      BY <1>2, <3>1 DEF Births
  <2>2. hist[q].sample \in Sample(Len(hist[q].sample)) /\ Len(hist[q].sample) \in Nat
    BY Known
  <2>3. hist[q].sample[i].born \in Nat
    BY <2>2, Positions DEF ElementType
  <2>4. hist[q].sample[i].born <= now
    BY <1>1 DEF Births
  <2> QED
    BY <1>3, <1>4, <2>3, <2>4
<1>9. Outweighed' /\ OldSamplesLeave'
  BY <1>1, <1>2 DEF Outweighed, OldSamplesLeave
<1>10. Reported'
  <2>1. \A q \in ResourceSet : last[q] = Percentile(hist[q])
    BY <1>1, <1>2 DEF Reported
  <2> QED
    BY <1>2, <2>1 DEF Reported
<1> QED
  BY <1>6, <1>7, <1>8, <1>9, <1>10 DEF MonitorInv

LEMMA UnchangedKeepsInv ==
    ASSUME MonitorInv, UNCHANGED vars
    PROVE  MonitorInv'
<1>1. /\ now' = now /\ hist' = hist /\ last' = last /\ pc' = pc
      /\ step' = step /\ value' = value /\ at' = at
  BY DEF vars, update
<1>2. TypeOK' /\ OldSamplesLeave' /\ Outweighed'
  BY <1>1 DEF MonitorInv, TypeOK, OldSamplesLeave, Outweighed, At
<1>3. Heaps'
  BY <1>1 DEF MonitorInv, Heaps, At
<1>4. Births'
  BY <1>1 DEF MonitorInv, Births, Ahead
<1>5. Reported'
  BY <1>1 DEF MonitorInv, Reported, At
<1> QED
  BY <1>2, <1>3, <1>4, <1>5 DEF MonitorInv

-----------------------------------------------------------------------------
(* The theorems *)

LEMMA InitInv == Init => MonitorInv
<1> SUFFICES ASSUME Init PROVE MonitorInv
  OBVIOUS
<1>1. /\ now = 0 /\ pc = 0 /\ step = "read" /\ value = 0 /\ at = 0
      /\ hist = [r \in ResourceSet |-> New(0)] /\ last = [r \in ResourceSet |-> 0]
  BY DEF Init
<1>2. /\ Len(Resources) \in Nat /\ MaxTime \in Nat /\ Size \in Nat \ {0} /\ Resample \in Nat
  BY ResourceNumbers, MonitorAssumption, HistogramAssumption
<1>3. /\ New(0) \in HistType /\ New(0).sample = <<>> /\ New(0).start = 0
      /\ New(0).horizon = Resample
  BY <1>2 DEF New, HistType
<1>4. /\ Len(<<>>) = 0 /\ DOMAIN <<>> = {}
  OBVIOUS
<1>5. \A r \in ResourceSet : hist[r] = New(0) /\ last[r] = 0
  BY <1>1
<1>6. TypeOK
  <2>1. hist \in [ResourceSet -> HistType] /\ last \in [ResourceSet -> Nat]
    BY <1>1, <1>3
  <2> QED
    BY <1>1, <1>2, <1>3, <1>4, <1>5, <2>1 DEF TypeOK, HistType
<1>7. Heaps
  <2>1. \A r \in ResourceSet : ~At(r, "sink") /\ ~At(r, "rise") /\ ~At(r, "push")
    BY <1>1 DEF At
  <2> QED
    BY <1>3, <1>4, <1>5, <2>1 DEF Heaps, Heap
<1>8. Births /\ Outweighed /\ OldSamplesLeave
  BY <1>3, <1>4, <1>5 DEF Births, Outweighed, OldSamplesLeave
<1>9. Reported
  <2>1. Percentile(New(0)) = 0
    BY <1>3, <1>4 DEF Percentile
  <2> QED
    BY <1>5, <2>1 DEF Reported
<1> QED
  BY <1>6, <1>7, <1>8, <1>9 DEF MonitorInv

LEMMA NextKeepsInv == MonitorInv /\ [Next]_vars => MonitorInv'
<1> SUFFICES ASSUME MonitorInv, [Next]_vars PROVE MonitorInv'
  OBVIOUS
<1>1. ASSUME NEW r \in ResourceSet, Read(r) PROVE MonitorInv'
  BY <1>1, ReadKeepsInv
<1>2. ASSUME NEW r \in ResourceSet, ReadFails(r) PROVE MonitorInv'
  BY <1>2, ReadFailsKeepsInv
<1>3. ASSUME NEW r \in ResourceSet, Sink(r) PROVE MonitorInv'
  BY <1>3, SinkKeepsInv
<1>4. ASSUME NEW r \in ResourceSet, Pop(r) PROVE MonitorInv'
  BY <1>4, PopKeepsInv
<1>5. ASSUME NEW r \in ResourceSet, PushNew(r) PROVE MonitorInv'
  BY <1>5, PushNewKeepsInv
<1>6. ASSUME NEW r \in ResourceSet, Rise(r) PROVE MonitorInv'
  BY <1>6, RiseKeepsInv
<1>7. ASSUME NEW r \in ResourceSet, Updated(r) PROVE MonitorInv'
  BY <1>7, UpdatedKeepsInv
<1>8. CASE CallHook
  BY <1>8, CallHookKeepsInv
<1>9. CASE UNCHANGED vars
  BY <1>9, UnchangedKeepsInv
<1> QED
  BY <1>1, <1>2, <1>3, <1>4, <1>5, <1>6, <1>7, <1>8, <1>9 DEF Next

\* Whatever is read and whatever numbers are drawn: between the swaps of heap.up and
\* heap.down the sample is a heap but where its element moves, its elements are of
\* different updates, the value reported last is the percentile of the sample, and a
\* sample has left before Size others have come that outweigh it by their time alone,
\* but for a rescaling (stats.go:68-84, capacity.go:30-48).
THEOREM MonitorInvariant == Spec => []MonitorInv
<1>1. Init => MonitorInv
  BY InitInv
<1>2. MonitorInv /\ [Next]_vars => MonitorInv'
  BY NextKeepsInv
<1> QED
  BY <1>1, <1>2, PTL DEF Spec

\* The hook is called with the percentile of each sample as it is at the time, found by
\* counting, also after readings that failed (capacity.go:32-48).
THEOREM HookGetsPercentile == Spec => HookCurrent
<1>1. ASSUME MonitorInv, CallHook
      PROVE  \A r \in ResourceSet : last[r] = PercentileByRank(hist[r])
  <2>1. SUFFICES ASSUME NEW r \in ResourceSet PROVE last[r] = PercentileByRank(hist[r])
    OBVIOUS
  <2>2. TypeOK /\ Reported /\ step = "read"
    BY <1>1 DEF MonitorInv, CallHook, TypeOK
  <2>3. last[r] = Percentile(hist[r])
    BY <2>2 DEF Reported
  <2>4. hist[r] \in HistType
    BY <1>1, Known
  <2> QED
    BY <2>3, <2>4, PercentileIsRank
<1>2. MonitorInv /\ [Next]_vars
      => [CallHook => \A r \in ResourceSet : last[r] = PercentileByRank(hist[r])]_vars
  BY <1>1
<1> QED
  BY <1>2, MonitorInvariant, PTL DEF Spec, HookCurrent

-----------------------------------------------------------------------------
(* The heap implements the sampling *)

Kept == [r \in ResourceSet |-> KeptOf(hist[r].sample)]

LEMMA KeptSame ==
    ASSUME MonitorInv, NEW r \in ResourceSet, NEW h, hist' = [hist EXCEPT ![r] = h],
           KeptOf(h.sample) = KeptOf(hist[r].sample)
    PROVE  Kept' = Kept
<1>1. hist \in [ResourceSet -> HistType]
  BY DEF MonitorInv, TypeOK, HistType
<1>2. \A q \in ResourceSet : KeptOf(hist'[q].sample) = KeptOf(hist[q].sample)
  BY <1>1
<1> QED
  BY <1>2 DEF Kept, KeptOf, ToSet

\* The swaps of heap.up and heap.down lose nothing.
LEMMA SwapStutters ==
    ASSUME MonitorInv, NEW r \in ResourceSet, NEW n \in Nat, hist[r].sample \in Sample(n),
           NEW a \in 1..n, NEW b \in 1..n, Become(r, Swap(hist[r].sample, a, b))
    PROVE  Kept' = Kept
<1>1. PICK t \in Sample(n) :
        t = Swap(hist[r].sample, a, b) /\ Exchanged(hist[r].sample, t, n, a, b)
  BY SwapsTo
<1>2. KeptOf(t) = KeptOf(hist[r].sample)
  BY <1>1, SwapKeeps
<1>3. PICK h : h = [hist[r] EXCEPT !.sample = t]
  OBVIOUS
<1>4. Become(r, t)
  BY <1>1
<1>5. h.sample = t /\ hist' = [hist EXCEPT ![r] = h]
  BY <1>3, <1>4, Becomes
<1> QED
  BY <1>2, <1>5, KeptSame

LEMMA ReadStutters ==
    ASSUME MonitorInv, NEW r \in ResourceSet, Read(r)
    PROVE  Kept' = Kept
<1>1. CASE Len(hist[r].sample) = Size
  <2>1. Become(r, Swap(hist[r].sample, 1, Size))
    BY <1>1 DEF Read
  <2>2. hist[r].sample \in Sample(Size) /\ Size \in Nat /\ 1 \in 1..Size /\ Size \in 1..Size
    BY <1>1, Known, SizeNumber
  <2> QED
    BY <2>1, <2>2, SwapStutters
<1>2. CASE Len(hist[r].sample) # Size
  BY <1>2 DEF Read, Kept, KeptOf, ToSet
<1> QED
  BY <1>1, <1>2

LEMMA SinkStutters ==
    ASSUME MonitorInv, NEW r \in ResourceSet, Sink(r)
    PROVE  Kept' = Kept
<1>1. /\ Size \in Nat /\ at \in 1..Size /\ Child(hist[r].sample, at, Size - 1) \in 1..Size
      /\ hist[r].sample \in Sample(Size)
  BY SinkPlaces, SizeNumber
<1>2. Become(r, Swap(hist[r].sample, Child(hist[r].sample, at, Size - 1), at))
  BY DEF Sink
<1> QED
  BY <1>1, <1>2, SwapStutters

LEMMA RiseStutters ==
    ASSUME MonitorInv, NEW r \in ResourceSet, Rise(r)
    PROVE  Kept' = Kept
<1>1. Become(r, Swap(hist[r].sample, at, Parent(at)))
  BY DEF Rise
<1> QED
  BY <1>1, RisePlaces, SwapStutters

LEMMA UpdatedStutters ==
    ASSUME MonitorInv, NEW r \in ResourceSet, Updated(r)
    PROVE  Kept' = Kept
<1>1. /\ hist[r] \in HistType /\ Len(hist[r].sample) \in Nat
      /\ hist[r].sample \in Sample(Len(hist[r].sample))
      /\ hist[r].start <= now /\ hist[r].start <= hist[r].horizon
  BY Known
<1>2. now \in Nat
  BY DEF MonitorInv, TypeOK
<1>3. KeptOf(Rescaled(hist[r], now).sample) = KeptOf(hist[r].sample)
  BY <1>1, <1>2, RescaledKeeps
<1>4. hist' = [hist EXCEPT ![r] = Rescaled(hist[r], now)]
  BY DEF Updated
<1> QED
  BY <1>3, <1>4, KeptSame

LEMMA KeptChanges ==
    ASSUME MonitorInv, NEW r \in ResourceSet, NEW h, hist' = [hist EXCEPT ![r] = h],
           NEW K, KeptOf(h.sample) = K
    PROVE  Kept' = [Kept EXCEPT ![r] = K]
<1>1. hist \in [ResourceSet -> HistType]
  BY DEF MonitorInv, TypeOK, HistType
<1>2. hist'[r] = h /\ \A q \in ResourceSet : q # r => hist'[q] = hist[q]
  BY <1>1
<1>3. \A q \in ResourceSet : KeptOf(hist'[q].sample) = IF q = r THEN K ELSE KeptOf(hist[q].sample)
  BY <1>2
<1>4. /\ Kept = [q \in ResourceSet |-> KeptOf(hist[q].sample)]
      /\ Kept' = [q \in ResourceSet |-> KeptOf(hist'[q].sample)]
  BY DEF Kept, KeptOf, ToSet
<1> QED
  BY <1>3, <1>4

\* The element that is cut off is one of the lightest of a full sample.
LEMMA PopDrops ==
    ASSUME MonitorInv, NEW r \in ResourceSet, Pop(r)
    PROVE  /\ Cardinality(Kept[r]) = Size
           /\ \E l \in Kept[r] : /\ \A k \in Kept[r] : l.pos <= k.pos
                                 /\ Kept' = [Kept EXCEPT ![r] = Kept[r] \ {l}]
<1>1. At(r, "sink") /\ step = "sink" /\ At(r, step)
  BY DEF Pop, At
<1>2. PICK s, n : s = hist[r].sample /\ n = Len(s)
  OBVIOUS
<1>3. n \in Nat /\ s \in Sample(n) /\ HeapsIn(s, n, "sink", at) /\ Distinct(s)
  BY <1>1, <1>2, Known
<1>4. n = Size /\ n \in Nat \ {0} /\ n - 1 \in Nat /\ \A i \in 1..n : s[n].pos <= s[i].pos
  BY <1>3, SizeNumber DEF HeapsIn
<1>5. PICK t \in Sample(n - 1) : t = Front(s) /\ \A i \in 1..(n - 1) : t[i] = s[i]
  BY <1>3, <1>4, Fronts DEF Sample
<1>6. /\ KeptOf(t) = KeptOf(s) \ {Strip(s[n])} /\ Strip(s[n]) \in KeptOf(s)
      /\ \A k \in KeptOf(s) : Strip(s[n]).pos <= k.pos
  BY <1>3, <1>4, <1>5, FrontKeeps
<1>7. Cardinality(KeptOf(s)) = Size
  BY <1>3, <1>4, KeptCount
<1>8. PICK h : h = [hist[r] EXCEPT !.sample = t]
  OBVIOUS
<1>9. Become(r, t)
  BY <1>2, <1>5 DEF Pop
<1>10. h.sample = t /\ hist' = [hist EXCEPT ![r] = h]
  BY <1>4, <1>8, <1>9, Becomes
<1>11. Kept' = [Kept EXCEPT ![r] = KeptOf(s) \ {Strip(s[n])}]
  BY <1>6, <1>10, KeptChanges
<1>12. Kept[r] = KeptOf(s)
  BY <1>2 DEF Kept
<1> QED
  BY <1>6, <1>7, <1>11, <1>12

\* The element that is pushed is newer than the others, and there is room for it.
LEMMA PushNewAdds ==
    ASSUME MonitorInv, NEW r \in ResourceSet, PushNew(r)
    PROVE  /\ Cardinality(Kept[r]) < Size
           /\ \E e \in SamplesOf(r) : /\ \A k \in Kept[r] : k.born < e.born
                                      /\ Kept' = [Kept EXCEPT ![r] = Kept[r] \cup {e}]
<1>1. TypeOK
  BY DEF MonitorInv
<1>2. At(r, "push") /\ step = "push" /\ At(r, step)
  BY DEF PushNew, At
<1>3. PICK s, n : s = hist[r].sample /\ n = Len(s)
  OBVIOUS
<1>4. /\ hist[r] \in HistType /\ n \in Nat /\ s \in Sample(n) /\ HeapsIn(s, n, "push", at)
      /\ hist[r].start <= now /\ hist[r].start \in Nat /\ Distinct(s)
      /\ \A i \in 1..n : Ahead(r) => s[i].born < now
  BY <1>2, <1>3, Known DEF HistType
<1>5. n < Size
  BY <1>4 DEF HeapsIn
<1>6. /\ now \in Nat /\ now \in 0..MaxTime /\ MaxTime \in Nat
      /\ value \in Nat /\ value \in Measured(r)
  BY <1>1, <1>2, MonitorAssumption DEF TypeOK
<1>7. PICK draw \in Draws[r] : hist' = [hist EXCEPT ![r] = Push(hist[r], now, value, draw)]
  BY DEF PushNew
<1>8. draw \in Nat
  BY MonitorAssumption
<1>9. PICK e : e = Element(hist[r], now, value, draw)
  OBVIOUS
<1>10. /\ Strip(e) = [pos |-> Least(hist[r], now) + draw, value |-> value, born |-> now]
       /\ e.pos = Least(hist[r], now) + draw /\ e.born = now /\ e.behind = 0
  <2> DEFINE f == Element(hist[r], now, value, draw)
  <2>1. /\ Strip(f) = [pos |-> Least(hist[r], now) + draw, value |-> value, born |-> now]
        /\ f.pos = Least(hist[r], now) + draw /\ f.born = now /\ f.behind = 0
    BY <1>4, <1>6, <1>8, NewElement
  <2> QED
    BY <1>9, <2>1
<1>11. hist[r].sample \in Sample(n)
  BY <1>3, <1>4
<1>12. PICK h \in HistType :
         /\ h = Push(hist[r], now, value, draw)
         /\ Grown(hist[r], h, n, now, Element(hist[r], now, value, draw))
  BY <1>4, <1>6, <1>8, <1>11, PushesTo
<1>13. /\ h.sample \in Sample(n + 1) /\ h.sample[n + 1] = e
       /\ \A i \in 1..n : h.sample[i] = Age(hist[r], now, s[i])
  BY <1>3, <1>9, <1>12 DEF Grown
<1>14. KeptOf(h.sample) = KeptOf(s) \cup {Strip(e)}
  BY <1>4, <1>6, <1>8, <1>10, <1>13, PushKeeps, SMTT(30)
<1>15. Kept' = [Kept EXCEPT ![r] = KeptOf(s) \cup {Strip(e)}]
  BY <1>7, <1>12, <1>14, KeptChanges
<1>16. Kept[r] = KeptOf(s) /\ Cardinality(KeptOf(s)) < Size
  BY <1>3, <1>4, <1>5, KeptCount DEF Kept
<1>17. \A k \in KeptOf(s) : k.born < Strip(e).born
  <2>1. \A i \in 1..n : s[i].born < now
    BY <1>2, <1>4, DueNow
  <2>2. DOMAIN s = 1..n
    BY <1>4, Positions
  <2> QED
    BY <1>10, <2>1, <2>2 DEF KeptOf, ToSet, Strip
<1>18. Strip(e) \in SamplesOf(r)
  <2>1. Least(hist[r], now) = (now - hist[r].start) * Decay
    BY DEF Least
  <2>2. now - hist[r].start \in 0..MaxTime
    BY <1>4, <1>6
  <2>3. Least(hist[r], now) + draw \in {t * Decay + d : t \in 0..MaxTime, d \in Draws[r]}
    BY <2>1, <2>2
  <2> QED
    BY <1>6, <1>10, <2>3 DEF SamplesOf
<1> QED
  BY <1>15, <1>16, <1>17, <1>18

\* The cardinality that Sampling speaks of.
LEMMA SameCardinality == \A S : Histograms!Cardinality(S) = Cardinality(S)
  BY DEF Histograms!Cardinality, Cardinality

\* The heap of stats.go implements the sampling: whatever the order of its elements,
\* all but one of the lightest stay when a full sample makes room (stats.go:68-75).
THEOREM HeapImplementsSampling == Spec => SamplingSpec
<1> DEFINE kept == [r \in ResourceSet |-> {Strip(e) : e \in ToSet(hist[r].sample)}]
<1>1. Kept = kept /\ Kept' = kept'
  BY DEF Kept, KeptOf
<1>2. Init => Histograms!Init
  <2>1. SUFFICES ASSUME Init PROVE kept = [r \in ResourceSet |-> {}]
    BY DEF Histograms!Init
  <2>2. \A r \in ResourceSet : hist[r].sample = <<>>
    BY <2>1 DEF Init, New
  <2> QED
    BY <2>2 DEF ToSet
<1>3. MonitorInv /\ [Next]_vars => [Histograms!Next]_kept
  <2> SUFFICES ASSUME MonitorInv, [Next]_vars PROVE [Histograms!Next]_Kept
    BY <1>1
  <2>1. ASSUME NEW r \in ResourceSet, Read(r) \/ Sink(r) \/ Rise(r) \/ Updated(r)
        PROVE  Kept' = Kept
    BY <2>1, ReadStutters, SinkStutters, RiseStutters, UpdatedStutters
  <2>2. ASSUME NEW r \in ResourceSet, ReadFails(r) PROVE Kept' = Kept
    BY <2>2 DEF ReadFails, Kept, KeptOf, ToSet
  <2>3. ASSUME NEW r \in ResourceSet, Pop(r) PROVE Histograms!Next
    <3>1. Histograms!Drops(r)
      BY <1>1, <2>3, PopDrops, SameCardinality DEF Histograms!Drops
    <3> QED
      BY <3>1 DEF Histograms!Next
  <2>4. ASSUME NEW r \in ResourceSet, PushNew(r) PROVE Histograms!Next
    <3>1. Histograms!Adds(r)
      BY <1>1, <2>4, PushNewAdds, SameCardinality DEF Histograms!Adds
    <3> QED
      BY <3>1 DEF Histograms!Next
  <2>5. CASE CallHook \/ UNCHANGED vars
    BY <2>5 DEF CallHook, vars, Kept, KeptOf, ToSet
  <2> QED
    BY <2>1, <2>2, <2>3, <2>4, <2>5 DEF Next
<1> QED
  BY <1>2, <1>3, MonitorInvariant, PTL DEF Spec, SamplingSpec, Histograms!Spec
=============================================================================
