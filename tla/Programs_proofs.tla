--------------------------- MODULE Programs_proofs ---------------------------
(***************************************************************************)
(* Proofs about the programs that nobody else meets, for any values of     *)
(* their constants.  PriorityQueue: top() is the greatest value between    *)
(* two calls, and the vector is, as a multiset, the abstract queue.        *)
(* ChildProcess: a regular end of main means that all is done.             *)
(* Permutation: every order comes out, and comes out once.  Transcoder:    *)
(* the file is in step with the frames decoded, and lacks but the tail.    *)
(* Postfix: an expression is worth what its grammar says, by induction on  *)
(* its parts.                                                              *)
(***************************************************************************)
EXTENDS Programs, TLAPS, FiniteSetTheorems, WellFoundedInduction

\* Where something is wrong, it is wrong first somewhere.
LEMMA LeastIn ==
    ASSUME NEW S \in SUBSET Nat, S # {}
    PROVE  \E n \in S : \A m \in S : n <= m
<1>1. PICK n \in S : \A m \in S : ~ (<<m, n>> \in OpToRel(<, Nat))
  BY NatLessThanWellFounded, WFMin
<1>2. ASSUME NEW m \in S, m < n  PROVE FALSE
  <2>. DEFINE p == <<m, n>>
  <2>1. p \in Nat \X Nat /\ p[1] < p[2]
    BY <1>2
  <2>2. p \in OpToRel(<, Nat)
    BY <2>1, Zenon DEF OpToRel
  <2>. QED BY <1>1, <2>2
<1>. QED BY <1>2

-----------------------------------------------------------------------------
(* PriorityQueue *)

\* The entries i and j are in order when i's value is no smaller.
InOrder(i, j) == m_heap[j] <= m_heap[i]

\* The heap is in order everywhere but at the position of the loop: swim may
\* find it smaller than pos, sink smaller children; around pos it is in order.
Heap ==
    /\ \A j \in 1..(size - 1) :
          (pc = "swim" => j # pos) /\ (pc = "sink" => Parent(j) # pos)
             => InOrder(Parent(j), j)
    /\ pc # "idle" /\ pos > 0 =>
          \A j \in 1..(size - 1) : Parent(j) = pos => InOrder(Parent(pos), j)

HeapInv == TypeOK /\ Heap

\* The parent comes before its children, 2p + 1 and 2p + 2.
LEMMA Parents ==
    ASSUME NEW j \in Nat, j > 0
    PROVE  /\ Parent(j) \in Nat /\ Parent(j) < j
           /\ \A p \in Nat : Parent(j) = p <=> (j = 2 * p + 1 \/ j = 2 * p + 2)
  BY DEF Parent

LEMMA Entries == TypeOK => size \in Nat /\ \A l \in 0..(size - 1) : m_heap[l] \in Int
<1>1. TypeOK => size \in Nat
  BY PriorityQueueAssumption DEF TypeOK
<1>2. ASSUME TypeOK, NEW l \in 0..(size - 1)  PROVE m_heap[l] \in Int
  <2>1. m_heap[l] \in Values
    BY <1>2 DEF TypeOK
  <2>. QED BY <2>1, PriorityQueueAssumption
<1>. QED BY <1>1, <1>2

LEMMA InitHeap == Init => HeapInv
  BY PriorityQueueAssumption DEF Init, HeapInv, TypeOK, Heap

LEMMA StepPush ==
    ASSUME HeapInv, NEW k \in Values, Push(k)
    PROVE  HeapInv'
<1>. USE PriorityQueueAssumption DEF HeapInv
<1>1. TypeOK'
  BY DEF TypeOK, Push
<1>2. Heap'
  <2>1. ASSUME NEW j \in 1..(size' - 1), j # pos'
        PROVE  InOrder(Parent(j), j)'
    BY <2>1, Parents DEF TypeOK, Push, Heap, InOrder
  <2>2. \A j \in 1..(size' - 1) : Parent(j) # pos'
    BY Parents DEF TypeOK, Push
  <2>. QED BY <2>1, <2>2 DEF Push, Heap, Parent
<1>. QED BY <1>1, <1>2

LEMMA StepPop ==
    ASSUME HeapInv, Pop
    PROVE  HeapInv'
<1>. USE PriorityQueueAssumption DEF HeapInv
<1>1. TypeOK'
  BY DEF TypeOK, Pop
<1>2. Heap'
  <2>1. ASSUME NEW j \in 1..(size' - 1), Parent(j) # 0
        PROVE  InOrder(Parent(j), j)'
    BY <2>1, Parents DEF TypeOK, Pop, Heap, InOrder
  <2>. QED BY <2>1 DEF Pop, Heap, Parent
<1>. QED BY <1>1, <1>2

\* What a swap leaves in the vector.
LEMMA Swapped ==
    ASSUME TypeOK, NEW j \in 0..(size - 1), pos < size, SwapWith(j)
    PROVE  /\ m_heap' \in [0..(size - 1) -> Values] /\ size' = size
           /\ m_heap'[j] = m_heap[pos] /\ m_heap'[pos] = m_heap[j]
           /\ \A l \in 0..(size - 1) \ {j, pos} : m_heap'[l] = m_heap[l]
           /\ pos' = j /\ pc' = pc
  BY DEF TypeOK, SwapWith

LEMMA StepSwimUp ==
    ASSUME HeapInv, SwimUp
    PROVE  HeapInv'
<1>. USE PriorityQueueAssumption
<1>. DEFINE q == Parent(pos)
<1>1. TypeOK /\ Heap /\ pc = "swim" /\ pos > 0 /\ pos < size /\ size \in Nat /\ pos \in Nat
  BY DEF HeapInv, SwimUp, TypeOK
<1>2. q \in 0..(size - 1) /\ q < pos
  BY <1>1, Parents
<1>3. /\ m_heap' \in [0..(size - 1) -> Values] /\ size' = size
      /\ m_heap'[q] = m_heap[pos] /\ m_heap'[pos] = m_heap[q]
      /\ \A l \in 0..(size - 1) \ {q, pos} : m_heap'[l] = m_heap[l]
      /\ pos' = q /\ pc' = "swim"
  <2>1. SwapWith(q)
    BY DEF SwimUp
  <2>. QED BY <1>1, <1>2, <2>1, Swapped
<1>4. m_heap[q] < m_heap[pos]
  BY DEF SwimUp
<1>5. \A l \in 0..(size - 1) : m_heap[l] \in Int
  BY <1>1 DEF TypeOK
<1>6. TypeOK'
  BY <1>1, <1>2, <1>3 DEF TypeOK
<1>7. ASSUME NEW j \in 1..(size - 1), j # q
      PROVE  m_heap'[j] <= m_heap'[Parent(j)]
  <2>1. Parent(j) \in 0..(size - 1) /\ Parent(j) < j
    BY <1>1, Parents
  <2>2. CASE j = pos
    BY <2>2, <1>1, <1>2, <1>3, <1>4, <1>5
  <2>3. CASE j # pos /\ Parent(j) = pos
    <3>1. m_heap[j] <= m_heap[q]
      BY <2>3, <1>1 DEF Heap, InOrder
    <3>. QED BY <2>3, <3>1, <1>3, <1>7
  <2>4. CASE j # pos /\ Parent(j) # pos
    <3>1. m_heap[j] <= m_heap[Parent(j)]
      BY <2>4, <1>1 DEF Heap, InOrder
    <3>. QED BY <2>1, <2>4, <3>1, <1>1, <1>2, <1>3, <1>4, <1>5, <1>7
  <2>. QED BY <2>2, <2>3, <2>4
<1>8. ASSUME NEW j \in 1..(size - 1), q > 0, Parent(j) = q
      PROVE  m_heap'[j] <= m_heap'[Parent(q)]
  <2>1. Parent(q) \in 0..(size - 1) /\ Parent(q) < q
    BY <1>1, <1>2, <1>8, Parents
  <2>2. m_heap[q] <= m_heap[Parent(q)]
    BY <1>1, <1>2, <1>8 DEF Heap, InOrder
  <2>3. j = pos \/ m_heap[j] <= m_heap[q]
    BY <1>1, <1>8 DEF Heap, InOrder
  <2>4. j # q
    BY <1>1, <1>8, Parents
  <2>. QED BY <2>1, <2>2, <2>3, <2>4, <1>1, <1>2, <1>3, <1>5
<1>9. Heap'
  <2>. HIDE DEF q
  <2>. QED BY <1>3, <1>7, <1>8 DEF Heap, InOrder, Parent
<1>. QED BY <1>6, <1>9 DEF HeapInv

LEMMA StepSwimEnd ==
    ASSUME HeapInv, SwimEnd
    PROVE  HeapInv'
<1>. USE PriorityQueueAssumption DEF HeapInv
<1>1. TypeOK'
  BY DEF TypeOK, SwimEnd, Return
<1>2. ASSUME NEW j \in 1..(size - 1)
      PROVE  InOrder(Parent(j), j)
  <2>1. CASE j # pos
    BY <2>1 DEF SwimEnd, Return, Heap
  <2>2. CASE j = pos
    <3>1. Parent(j) \in 0..(size - 1)
      <4>1. size \in Nat /\ j \in Nat /\ j > 0
        BY DEF TypeOK
      <4>. QED BY <4>1, Parents
    <3>2. ~ (m_heap[Parent(j)] < m_heap[j])
      BY <2>2 DEF SwimEnd
    <3>3. m_heap[Parent(j)] \in Int /\ m_heap[j] \in Int
      BY <3>1, Entries
    <3>. QED BY <3>2, <3>3 DEF InOrder
  <2>. QED BY <2>1, <2>2
<1>3. Heap'
  BY <1>2 DEF SwimEnd, Return, Heap, InOrder, Parent
<1>. QED BY <1>1, <1>3

\* Child chooses a child, and the other one, if any, is no greater.
LEMMA Children ==
    ASSUME TypeOK, pos \in Nat, 2 * pos + 1 < size
    PROVE  /\ Child(pos) \in 1..(size - 1) /\ Parent(Child(pos)) = pos
           /\ \A j \in 1..(size - 1) : Parent(j) = pos => InOrder(Child(pos), j)
<1>. USE PriorityQueueAssumption DEF TypeOK
<1>1. Child(pos) \in {2 * pos + 1, 2 * pos + 2} /\ Child(pos) < size
  BY DEF Child
<1>2. Child(pos) \in 1..(size - 1) /\ Parent(Child(pos)) = pos
  BY <1>1, Parents
<1>3. ASSUME NEW j \in 1..(size - 1), Parent(j) = pos
      PROVE  InOrder(Child(pos), j)
  <2>1. j = 2 * pos + 1 \/ j = 2 * pos + 2
    BY <1>3, Parents
  <2>2. m_heap[j] \in Int /\ m_heap[Child(pos)] \in Int
    BY <1>2, <1>3, Entries
  <2>3. size \in Nat
    OBVIOUS
  <2>4. CASE j = Child(pos)
    BY <2>2, <2>4 DEF InOrder
  <2>5. CASE j # Child(pos) /\ j = 2 * pos + 1
    BY <2>2, <2>3, <2>5, <1>3 DEF Child, InOrder
  <2>6. CASE j # Child(pos) /\ j = 2 * pos + 2
    <3>1. j - 1 = 2 * pos + 1 /\ j - 1 < size - 1
      BY <2>3, <2>6, <1>3
    <3>2. ~ (m_heap[j - 1] < m_heap[j]) /\ Child(pos) = j - 1
      BY <3>1, <2>6 DEF Child
    <3>. QED BY <2>2, <3>2 DEF InOrder
  <2>. QED BY <2>1, <2>4, <2>5, <2>6
<1>. QED BY <1>2, <1>3

LEMMA StepSinkDown ==
    ASSUME HeapInv, SinkDown
    PROVE  HeapInv'
<1>. USE PriorityQueueAssumption
<1>. DEFINE c == Child(pos)
<1>1. TypeOK /\ Heap /\ pc = "sink" /\ pos < size /\ size \in Nat /\ pos \in Nat
  BY DEF HeapInv, SinkDown, TypeOK
<1>2. /\ c \in 1..(size - 1) /\ Parent(c) = pos
      /\ \A j \in 1..(size - 1) : Parent(j) = pos => InOrder(c, j)
  BY <1>1, Children DEF SinkDown
<1>3. /\ m_heap' \in [0..(size - 1) -> Values] /\ size' = size
      /\ m_heap'[c] = m_heap[pos] /\ m_heap'[pos] = m_heap[c]
      /\ \A l \in 0..(size - 1) \ {c, pos} : m_heap'[l] = m_heap[l]
      /\ pos' = c /\ pc' = "sink"
  <2>1. SwapWith(c)
    BY DEF SinkDown
  <2>. QED BY <1>1, <1>2, <2>1, Swapped
<1>4. m_heap[pos] < m_heap[c]
  BY DEF SinkDown
<1>5. \A l \in 0..(size - 1) : m_heap[l] \in Int
  BY <1>1 DEF TypeOK
<1>6. TypeOK'
  BY <1>1, <1>2, <1>3 DEF TypeOK
<1>7. ASSUME NEW j \in 1..(size - 1), Parent(j) # c
      PROVE  m_heap'[j] <= m_heap'[Parent(j)]
  <2>1. Parent(j) \in 0..(size - 1) /\ Parent(j) < j
    BY <1>1, Parents
  <2>2. CASE j = c
    BY <2>2, <1>1, <1>2, <1>3, <1>4, <1>5
  <2>3. CASE j # c /\ Parent(j) = pos
    <3>1. m_heap[j] <= m_heap[c]
      BY <2>3, <1>2 DEF InOrder
    <3>. QED BY <2>1, <2>3, <3>1, <1>3
  <2>4. CASE j = pos
    <3>1. m_heap[c] <= m_heap[Parent(pos)]
      BY <2>4, <1>1, <1>2 DEF Heap, InOrder
    <3>. QED BY <2>1, <2>4, <3>1, <1>3, <1>7
  <2>5. CASE j \notin {c, pos} /\ Parent(j) # pos
    <3>1. m_heap[j] <= m_heap[Parent(j)]
      BY <2>5, <1>1 DEF Heap, InOrder
    <3>. QED BY <2>1, <2>5, <3>1, <1>3, <1>7
  <2>. QED BY <2>2, <2>3, <2>4, <2>5
<1>8. ASSUME NEW j \in 1..(size - 1), Parent(j) = c
      PROVE  m_heap'[j] <= m_heap'[Parent(c)]
  <2>1. Parent(j) < j /\ c > pos /\ j # pos
    BY <1>1, <1>2, <1>8, Parents
  <2>2. m_heap[j] <= m_heap[c]
    BY <1>1, <1>2, <1>8, <2>1 DEF Heap, InOrder
  <2>. QED BY <2>1, <2>2, <1>2, <1>3, <1>8
<1>9. Heap'
  <2>. HIDE DEF c
  <2>. QED BY <1>3, <1>7, <1>8 DEF Heap, InOrder, Parent
<1>. QED BY <1>6, <1>9 DEF HeapInv

LEMMA StepSinkEnd ==
    ASSUME HeapInv, SinkEnd
    PROVE  HeapInv'
<1>. USE PriorityQueueAssumption DEF HeapInv
<1>1. TypeOK'
  BY DEF TypeOK, SinkEnd, Return
<1>2. ASSUME NEW j \in 1..(size - 1)
      PROVE  InOrder(Parent(j), j)
  <2>1. CASE Parent(j) # pos
    BY <2>1 DEF SinkEnd, Return, Heap
  <2>2. CASE Parent(j) = pos
    <3>1. size \in Nat /\ pos \in Nat /\ j \in Nat /\ j > 0
      BY DEF TypeOK
    <3>2. 2 * pos + 1 < size /\ pos \in 0..(size - 1)
      BY <2>2, <3>1, Parents
    <3>3. Child(pos) \in 1..(size - 1) /\ InOrder(Child(pos), j)
      BY <2>2, <3>1, <3>2, Children
    <3>4. ~ (m_heap[pos] < m_heap[Child(pos)])
      BY <3>2 DEF SinkEnd
    <3>5. m_heap[pos] \in Int /\ m_heap[Child(pos)] \in Int /\ m_heap[j] \in Int
      BY <3>2, <3>3, Entries
    <3>. QED BY <2>2, <3>3, <3>4, <3>5 DEF InOrder
  <2>. QED BY <2>1, <2>2
<1>3. Heap'
  BY <1>2 DEF SinkEnd, Return, Heap, InOrder, Parent
<1>. QED BY <1>1, <1>3

LEMMA NextHeap == HeapInv /\ [Next]_vars => HeapInv'
<1>. SUFFICES ASSUME HeapInv, [Next]_vars PROVE HeapInv'
  OBVIOUS
<1>1. CASE UNCHANGED vars
  BY <1>1 DEF vars, HeapInv, TypeOK, Heap, InOrder, Parent
<1>2. CASE Next
  BY <1>2, StepPush, StepPop, StepSwimUp, StepSwimEnd, StepSinkDown, StepSinkEnd DEF Next, Loop
<1>. QED BY <1>1, <1>2

-----------------------------------------------------------------------------
\* In a heap that is in order no entry is greater than the first: the first
\* entry that were would have a parent that is not.
LEMMA FirstIsGreatest == HeapInv => TopIsMax
<1>. SUFFICES ASSUME HeapInv, pc = "idle", NEW k \in 0..(size - 1), ~ (m_heap[k] <= m_heap[0])
              PROVE  FALSE
  BY DEF TopIsMax
<1>0. size \in Nat /\ \A l \in 0..(size - 1) : m_heap[l] \in Int
  BY Entries DEF HeapInv
<1>. DEFINE Greater == {j \in 0..(size - 1) : m_heap[j] > m_heap[0]}
<1>1. k \in Greater /\ Greater \subseteq Nat
  BY <1>0
<1>2. PICK m \in Greater : \A x \in Greater : m <= x
  BY <1>1, LeastIn
<1>3. m \in 0..(size - 1) /\ m > 0
  BY <1>0
<1>4. Parent(m) \in 0..(size - 1) /\ Parent(m) < m
  BY <1>0, <1>3, Parents
<1>5. m_heap[m] <= m_heap[Parent(m)]
  BY <1>3 DEF HeapInv, Heap, InOrder
<1>6. m_heap[m] \in Int /\ m_heap[Parent(m)] \in Int /\ m_heap[0] \in Int
  BY <1>0, <1>3, <1>4
<1>7. Parent(m) \in Greater
  BY <1>4, <1>5, <1>6
<1>. QED BY <1>2, <1>3, <1>4, <1>7

\* The vector keeps its shape, and swim and sink stay inside it
\* (priority_queue.cpp:28-45).
THEOREM TypeCorrect == Spec => []TypeOK
<1>1. HeapInv => TypeOK
  BY DEF HeapInv
<1>. QED BY <1>1, InitHeap, NextHeap, PTL DEF Spec

\* Between two calls top() is the greatest value (priority_queue.cpp:7-10).
THEOREM TopCorrect == Spec => []TopIsMax
  BY InitHeap, NextHeap, FirstIsGreatest, PTL DEF Spec

-----------------------------------------------------------------------------
(* The multiset *)

Where(v) == {j \in 0..(size - 1) : m_heap[j] = v}

LEMMA WhereFinite ==
    ASSUME size \in Nat, NEW v
    PROVE  IsFiniteSet(Where(v)) /\ TimesIn(v) = Cardinality(Where(v)) /\ TimesIn(v) \in Nat
<1>1. IsFiniteSet(0..(size - 1))
  BY FS_Interval
<1>2. Where(v) \in SUBSET (0..(size - 1))
  BY DEF Where
<1>3. IsFiniteSet(Where(v)) /\ Cardinality(Where(v)) \in Nat
  BY <1>1, <1>2, FS_Subset, FS_CardinalityType
<1>. QED BY <1>3 DEF Where, TimesIn

\* A set that loses one element and gains another keeps its size.
LEMMA Exchange ==
    ASSUME NEW S, IsFiniteSet(S), NEW a \in S, NEW b, b \notin S
    PROVE  Cardinality((S \ {a}) \cup {b}) = Cardinality(S)
<1>1. IsFiniteSet(S \ {a}) /\ Cardinality(S \ {a}) = Cardinality(S) - 1
  BY FS_RemoveElement
<1>2. Cardinality((S \ {a}) \cup {b}) = Cardinality(S \ {a}) + 1
  BY <1>1, FS_AddElement
<1>3. Cardinality(S) \in Nat
  BY FS_CardinalityType
<1>. QED BY <1>1, <1>2, <1>3

LEMMA SwapKeeps ==
    ASSUME TypeOK, NEW j \in 0..(size - 1), pos < size, j # pos, SwapWith(j), NEW v \in Values
    PROVE  TimesIn(v)' = TimesIn(v)
<1>1. /\ size \in Nat /\ pos \in 0..(size - 1) /\ size' = size
      /\ m_heap'[j] = m_heap[pos] /\ m_heap'[pos] = m_heap[j]
      /\ \A l \in 0..(size - 1) \ {j, pos} : m_heap'[l] = m_heap[l]
  BY Swapped, Entries DEF TypeOK
<1>2. TimesIn(v)' = Cardinality(Where(v)')
  BY <1>1 DEF TimesIn, Where
<1>3. IsFiniteSet(Where(v)) /\ TimesIn(v) = Cardinality(Where(v))
  BY <1>1, WhereFinite
<1>4. CASE (m_heap[j] = v) = (m_heap[pos] = v)
  <2>1. Where(v)' = Where(v)
    BY <1>1, <1>4 DEF Where
  <2>. QED BY <1>2, <1>3, <2>1
<1>5. CASE m_heap[j] = v /\ m_heap[pos] # v
  <2>1. Where(v)' = (Where(v) \ {j}) \cup {pos}
    BY <1>1, <1>5 DEF Where
  <2>2. j \in Where(v) /\ pos \notin Where(v)
    BY <1>5 DEF Where
  <2>. QED BY <1>2, <1>3, <2>1, <2>2, Exchange
<1>6. CASE m_heap[j] # v /\ m_heap[pos] = v
  <2>1. Where(v)' = (Where(v) \ {pos}) \cup {j}
    BY <1>1, <1>6 DEF Where
  <2>2. pos \in Where(v) /\ j \notin Where(v)
    BY <1>1, <1>6 DEF Where
  <2>. QED BY <1>2, <1>3, <2>1, <2>2, Exchange
<1>. QED BY <1>4, <1>5, <1>6

LEMMA PushAdds ==
    ASSUME TypeOK, NEW k \in Values, Push(k), NEW v \in Values
    PROVE  TimesIn(v)' = IF v = k THEN TimesIn(v) + 1 ELSE TimesIn(v)
<1>1. /\ size \in Nat /\ size' = size + 1 /\ m_heap'[size] = k
      /\ \A l \in 0..(size - 1) : m_heap'[l] = m_heap[l]
  BY Entries DEF Push
<1>2. TimesIn(v)' = Cardinality(Where(v)')
  BY <1>1 DEF TimesIn, Where
<1>3. IsFiniteSet(Where(v)) /\ TimesIn(v) = Cardinality(Where(v))
  BY <1>1, WhereFinite
<1>4. CASE v = k
  <2>1. Where(v)' = Where(v) \cup {size} /\ size \notin Where(v)
    BY <1>1, <1>4 DEF Where
  <2>. QED BY <1>2, <1>3, <1>4, <2>1, FS_AddElement
<1>5. CASE v # k
  <2>1. Where(v)' = Where(v)
    BY <1>1, <1>5 DEF Where
  <2>. QED BY <1>2, <1>3, <1>5, <2>1
<1>. QED BY <1>4, <1>5

LEMMA PopRemoves ==
    ASSUME TypeOK, Pop, NEW v \in Values
    PROVE  TimesIn(v)' = IF v = m_heap[0] THEN TimesIn(v) - 1 ELSE TimesIn(v)
<1>. DEFINE last == size - 1
<1>1. /\ size \in Nat /\ last \in 0..(size - 1) /\ size' = size - 1
      /\ last > 0 => m_heap'[0] = m_heap[last]
      /\ \A l \in 1..(last - 1) : m_heap'[l] = m_heap[l]
  BY Entries DEF Pop
<1>2. TimesIn(v)' = Cardinality(Where(v)')
  BY <1>1 DEF TimesIn, Where
<1>3. IsFiniteSet(Where(v)) /\ TimesIn(v) = Cardinality(Where(v))
  BY <1>1, WhereFinite
<1>4. CASE v = m_heap[0] /\ m_heap[last] = v
  <2>1. Where(v)' = Where(v) \ {last} /\ last \in Where(v)
    BY <1>1, <1>4 DEF Where
  <2>. QED BY <1>2, <1>3, <1>4, <2>1, FS_RemoveElement
<1>5. CASE v = m_heap[0] /\ m_heap[last] # v
  <2>1. Where(v)' = Where(v) \ {0} /\ 0 \in Where(v)
    BY <1>1, <1>5 DEF Where
  <2>. QED BY <1>2, <1>3, <1>5, <2>1, FS_RemoveElement
<1>6. CASE v # m_heap[0] /\ m_heap[last] = v
  <2>1. /\ Where(v)' = (Where(v) \ {last}) \cup {0}
        /\ last \in Where(v) /\ 0 \notin Where(v)
    BY <1>1, <1>6 DEF Where
  <2>. QED BY <1>2, <1>3, <1>6, <2>1, Exchange
<1>7. CASE v # m_heap[0] /\ m_heap[last] # v
  <2>1. Where(v)' = Where(v)
    BY <1>1, <1>7 DEF Where
  <2>. QED BY <1>2, <1>3, <1>7, <2>1
<1>. QED BY <1>4, <1>5, <1>6, <1>7

\* As a multiset the vector is the abstract queue: push adds its argument, pop
\* removes one greatest value, and the loops change nothing.
THEOREM Implements == Spec => IsMaxQueue
<1>. DEFINE times == [v \in Values |-> TimesIn(v)]
<1>1. Init => Multiset!Init
  <2>. SUFFICES ASSUME Init, NEW v \in Values PROVE TimesIn(v) = 0
    BY DEF Multiset!Init
  <2>1. {j \in 0..(size - 1) : m_heap[j] = v} = {}
    BY DEF Init
  <2>. QED BY <2>1, FS_EmptySet DEF TimesIn
<1>2. HeapInv /\ [Next]_vars => [Multiset!Next]_times
  <2>. SUFFICES ASSUME HeapInv, [Next]_vars PROVE [Multiset!Next]_times
    OBVIOUS
  <2>1. TypeOK /\ size \in Nat /\ pos \in Nat
    BY Entries DEF HeapInv, TypeOK
  <2>2. CASE UNCHANGED <<size, m_heap>>
    BY <2>2 DEF TimesIn
  <2>3. ASSUME NEW k \in Values, Push(k) PROVE Multiset!Push(k)
    <3>1. \A v \in Values : TimesIn(v)' = IF v = k THEN TimesIn(v) + 1 ELSE TimesIn(v)
      BY <2>1, <2>3, PushAdds
    <3>. QED BY <3>1 DEF Multiset!Push
  <2>4. CASE Pop
    <3>. DEFINE k == m_heap[0]
    <3>1. k \in Values /\ 0 \in Where(k)
      BY <2>1, <2>4 DEF Pop, TypeOK, Where
    <3>2. TimesIn(k) > 0
      <4>1. IsFiniteSet(Where(k)) /\ TimesIn(k) = Cardinality(Where(k)) /\ TimesIn(k) \in Nat
        BY <2>1, WhereFinite
      <4>2. Cardinality(Where(k)) # 0
        BY <3>1, <4>1, FS_EmptySet
      <4>. QED BY <4>1, <4>2
    <3>3. ASSUME NEW v \in Values, TimesIn(v) > 0 PROVE v <= k
      <4>1. TimesIn(v) = Cardinality(Where(v))
        BY <2>1, WhereFinite
      <4>2. Where(v) # {}
        BY <3>3, <4>1, FS_EmptySet
      <4>3. PICK j \in 0..(size - 1) : m_heap[j] = v
        BY <4>2 DEF Where
      <4>. QED BY <4>3, <2>4, FirstIsGreatest DEF Pop, TopIsMax
    <3>4. \A v \in Values : TimesIn(v)' = IF v = k THEN TimesIn(v) - 1 ELSE TimesIn(v)
      BY <2>1, <2>4, PopRemoves
    <3>5. Multiset!Pop(k)
      <4>. HIDE DEF k
      <4>. QED BY <3>1, <3>2, <3>3, <3>4 DEF Multiset!Pop
    <3>. QED BY <3>1, <3>5 DEF Multiset!Next
  <2>5. CASE SwimUp
    <3>1. pos > 0 /\ pos < size /\ SwapWith(Parent(pos))
      BY <2>1, <2>5 DEF SwimUp, TypeOK
    <3>2. Parent(pos) \in 0..(size - 1) /\ Parent(pos) # pos
      BY <2>1, <3>1, Parents
    <3>3. \A v \in Values : TimesIn(v)' = TimesIn(v)
      BY <2>1, <3>1, <3>2, SwapKeeps
    <3>. QED BY <3>3
  <2>6. CASE SinkDown
    <3>1. 2 * pos + 1 < size /\ SwapWith(Child(pos)) /\ pos < size
      BY <2>1, <2>6 DEF SinkDown
    <3>2. Child(pos) \in 1..(size - 1) /\ Parent(Child(pos)) = pos
      BY <2>1, <3>1, Children
    <3>3. Child(pos) \in 0..(size - 1) /\ Child(pos) # pos
      BY <2>1, <3>2, Parents
    <3>4. \A v \in Values : TimesIn(v)' = TimesIn(v)
      BY <2>1, <3>1, <3>3, SwapKeeps
    <3>. QED BY <3>4
  <2>. QED BY <2>2, <2>3, <2>4, <2>5, <2>6
       DEF Next, Loop, SwimEnd, SinkEnd, Return, vars, Multiset!Next
<1>. QED BY <1>1, <1>2, InitHeap, NextHeap, PTL DEF Spec, IsMaxQueue, Multiset!Spec

-----------------------------------------------------------------------------
(* ChildProcess *)

MainLabels == {"signal", "fork", "kill", "write", "close", "wait", "create", "join",
               "exited", "failed", "killed"}
ChildLabels == {"none", "set_handler", "sleep", "graceful", "close", "read", "exited", "killed"}
ThreadLabels == {"none", "loop", "exited", "killed"}

ProcessTypeOK ==
    /\ child_program \in {"shutdown", "pipeUN", "thread_id"}
    /\ child_pc \in [Processes!Procs -> MainLabels \cup ChildLabels \cup ThreadLabels]
    /\ handled \in BOOLEAN
    /\ ends \in [{"ReadEnd", "WriteEnd"} -> SUBSET Processes!Procs]
    /\ content \in Nat /\ echoed \in Nat /\ kills \in Nat

\* shutdown: a child that had its handler when the signal was sent can only
\* end through it, unless somebody kills it.
Shutdown ==
    child_program = "shutdown" =>
        /\ child_pc["main"] \in {"fork", "kill", "wait", "exited", "failed", "killed"}
        /\ child_pc["child"] \in {"none", "set_handler", "sleep", "graceful", "exited", "killed"}
        /\ \A t \in Processes!Threads : child_pc[t] = "none"
        /\ child_pc["main"] = "fork" => ~ handled
        /\ handled => child_pc["child"] \in {"sleep", "graceful", "exited"} \/ kills > 0
        /\ child_pc["main"] = "exited" => child_pc["child"] \in {"none", "exited", "killed"}

\* pipeUN: every byte is in the pipe or echoed, and the child sees no end of
\* the stream before the parent has written and closed.
PipeUN ==
    child_program = "pipeUN" =>
        /\ child_pc["main"] \in {"fork", "write", "close", "wait", "exited", "failed", "killed"}
        /\ child_pc["child"] \in {"none", "close", "read", "exited", "killed"}
        /\ \A t \in Processes!Threads : child_pc[t] = "none"
        /\ child_pc["main"] = "fork" => child_pc["child"] = "none"
        /\ child_pc["main"] \in {"fork", "write"} => content = 0 /\ echoed = 0
        /\ child_pc["main"] \in {"fork", "write", "close"} => "main" \in ends["WriteEnd"]
        /\ child_pc["main"] \in {"close", "wait", "exited"} => content + echoed = MsgLen
        /\ child_pc["child"] = "exited" =>
               content = 0 /\ child_pc["main"] \notin {"fork", "write", "close"}
        /\ child_pc["main"] = "exited" => child_pc["child"] \in {"none", "exited", "killed"}

\* thread_id: main joins its threads before it ends.
ThreadId ==
    child_program = "thread_id" =>
        /\ child_pc["main"] \in {"signal", "create", "join", "exited", "killed"}
        /\ child_pc["child"] = "none"
        /\ \A t \in Processes!Threads : child_pc[t] \in ThreadLabels
        /\ child_pc["main"] = "exited" => \A t \in Processes!Threads : child_pc[t] = "exited"

ProcessInv == ProcessTypeOK /\ Shutdown /\ PipeUN /\ ThreadId

\* The five that can run are different from each other.
LEMMA ProcNames ==
    /\ Processes!Procs = {"main", "child", "thread_1", "thread_2", "thread_3"}
    /\ Processes!Threads = {"thread_1", "thread_2", "thread_3"}
<1>1. Processes!Threads = {"thread_1", "thread_2", "thread_3"}
  <2>1. /\ Processes!Names[1] = "thread_1" /\ Processes!Names[2] = "thread_2"
        /\ Processes!Names[3] = "thread_3"
    BY DEF Processes!Names
  <2>2. 1..3 = {1, 2, 3}
    OBVIOUS
  <2>. QED BY <2>1, <2>2 DEF Processes!Threads
<1>. QED BY <1>1 DEF Processes!Procs

LEMMA InitProcess == Processes!Init => ProcessInv
<1>. SUFFICES ASSUME Processes!Init PROVE ProcessInv
  OBVIOUS
<1>. USE ProcNames DEF Processes!Init
<1>1. ProcessTypeOK
  BY DEF ProcessTypeOK, MainLabels, ChildLabels, ThreadLabels
<1>. QED BY <1>1 DEF ProcessInv, Shutdown, PipeUN, ThreadId, ThreadLabels

\* The steps of main.
LEMMA StepMain ==
    ASSUME ProcessInv, Processes!Main
    PROVE  ProcessInv'
<1>. USE ProcNames, ChildProcessAssumption
     DEF ProcessInv, ProcessTypeOK, Shutdown, PipeUN, ThreadId, MainLabels, ChildLabels,
         ThreadLabels, Processes!Ended, Processes!Goto, Processes!Step, Processes!Ends,
         Processes!Fork, Processes!signals, Processes!pipe
<1>1. CASE Processes!ForkSleeper
  BY <1>1 DEF Processes!ForkSleeper
<1>2. CASE Processes!ForkEcho
  BY <1>2 DEF Processes!ForkEcho
<1>3. CASE Processes!ForkFails
  BY <1>3 DEF Processes!ForkFails
<1>4. CASE Processes!KillChild
  BY <1>4 DEF Processes!KillChild
<1>5. CASE Processes!Wait
  BY <1>5 DEF Processes!Wait
<1>6. CASE Processes!MainWrite
  BY <1>6 DEF Processes!MainWrite
<1>7. CASE Processes!MainCloseWrite
  BY <1>7 DEF Processes!MainCloseWrite, Processes!CloseWrite
<1>8. CASE Processes!RegisterHandler
  BY <1>8 DEF Processes!RegisterHandler
<1>9. ASSUME NEW n \in 1..3, Processes!CreateThread(n) PROVE ProcessInv'
  BY <1>9 DEF Processes!CreateThread, Processes!Names
<1>10. CASE Processes!JoinThreads
  BY <1>10 DEF Processes!JoinThreads
<1>. QED BY <1>1, <1>2, <1>3, <1>4, <1>5, <1>6, <1>7, <1>8, <1>9, <1>10 DEF Processes!Main

\* The steps of the child.
LEMMA StepChild ==
    ASSUME ProcessInv, Processes!Child
    PROVE  ProcessInv'
<1>. USE ProcNames, ChildProcessAssumption
     DEF ProcessInv, ProcessTypeOK, Shutdown, PipeUN, ThreadId, MainLabels, ChildLabels,
         ThreadLabels, Processes!Ended, Processes!Goto, Processes!Step, Processes!Ends,
         Processes!signals, Processes!pipe
<1>1. CASE Processes!SetHandler
  BY <1>1 DEF Processes!SetHandler
<1>2. CASE Processes!Deliver
  BY <1>2 DEF Processes!Deliver
<1>3. CASE Processes!Graceful
  BY <1>3 DEF Processes!Graceful
<1>4. CASE Processes!ChildCloseWrite
  BY <1>4 DEF Processes!ChildCloseWrite, Processes!CloseWrite
<1>5. CASE Processes!Echo
  BY <1>5 DEF Processes!Echo
<1>6. CASE Processes!EchoEnds
  BY <1>6 DEF Processes!EchoEnds
<1>. QED BY <1>1, <1>2, <1>3, <1>4, <1>5, <1>6 DEF Processes!Child

\* The threads leave their loops, signals come, processes are killed.
LEMMA StepOutside ==
    ASSUME ProcessInv,
           \/ \E t \in Processes!Threads : Processes!LeaveLoop(t)
           \/ \E signum \in {"SIGINT", "SIGQUIT"} : Processes!Signalled(signum)
           \/ \E p \in {"main", "child"} : Processes!Kill(p)
    PROVE  ProcessInv'
<1>. USE ProcNames
     DEF ProcessInv, ProcessTypeOK, Shutdown, PipeUN, ThreadId, MainLabels, ChildLabels,
         ThreadLabels, Processes!Ended, Processes!Goto, Processes!Step, Processes!Ends,
         Processes!signals, Processes!pipe
<1>1. ASSUME NEW t \in Processes!Threads, Processes!LeaveLoop(t) PROVE ProcessInv'
  BY <1>1 DEF Processes!LeaveLoop
<1>2. ASSUME NEW signum \in {"SIGINT", "SIGQUIT"}, Processes!Signalled(signum)
      PROVE  ProcessInv'
  BY <1>2 DEF Processes!Signalled
<1>3. ASSUME NEW p \in {"main", "child"}, Processes!Kill(p) PROVE ProcessInv'
  BY <1>3 DEF Processes!Kill
<1>. QED BY <1>1, <1>2, <1>3

LEMMA WorkIsDone == ProcessInv => WorkDone
  BY ProcNames DEF ProcessInv, ProcessTypeOK, Shutdown, PipeUN, ThreadId, WorkDone,
     Processes!WorkDone, Processes!Ended

\* Whoever is killed and whenever the signal comes, main ends regularly only
\* when its threads have ended, its message was echoed, its child has taken the
\* signal (shutdown.c:43-44, pipeUN.c:39-40, thread_id/main.cpp:41-44).
THEOREM WorkDoneCorrect == Processes!Spec => []WorkDone
<1>1. ProcessInv /\ [Processes!Next]_(Processes!vars) => ProcessInv'
  <2>1. ProcessInv /\ UNCHANGED Processes!vars => ProcessInv'
    BY DEF ProcessInv, ProcessTypeOK, Shutdown, PipeUN, ThreadId, Processes!vars,
       Processes!signals, Processes!pipe
  <2>. QED BY <2>1, StepMain, StepChild, StepOutside DEF Processes!Next
<1>. QED BY <1>1, InitProcess, WorkIsDone, PTL DEF Processes!Spec

-----------------------------------------------------------------------------
(* Permutation *)

Depth == Len(loops)

\* What Permutation's Swapped does.
Swap(list, j, k) == [list EXCEPT ![j] = list[k], ![k] = list[j]]

PermTypeOK ==
    /\ perm_pc \in {"call", "return", "done"}
    /\ given \in Arrays
    /\ input \in Perm!Orders
    /\ loops \in Seq(Nat)
    /\ Depth < Len(given)
    /\ \A l \in 1..Depth : loops[l] \in l..Len(given)
    /\ perm_pc = "done" => loops = << >>

\* base[l] is the array as it was when the call for place l began: each call
\* has swapped one entry to its place, and those below leave that place alone.
Bases(base) ==
    /\ base \in [1..(Depth + 1) -> Perm!Orders]
    /\ base[1] = given
    /\ base[Depth + 1] = input
    /\ \A l \in 1..Depth : base[l + 1] = Swap(base[l], l, loops[l])
    /\ \A l \in 1..Depth : \A k \in 1..l : input[k] = base[l + 1][k]

SameBefore(o, a, l) == \A k \in 1..(l - 1) : o[k] = a[k]

\* The orders put out so far: those that have at some place an entry that the
\* call for it has done with, and, on the return, those that begin like input.
Seen(base) ==
    {o \in Perm!Orders :
        \/ \E l \in 1..Depth : SameBefore(o, base[l], l) /\ \E j \in l..(loops[l] - 1) : o[l] = base[l][j]
        \/ perm_pc # "call" /\ SameBefore(o, input, Depth + 1)}

PutOuts == {perm_output[k] : k \in DOMAIN perm_output}

\* No order was put out twice.
NoneTwice ==
    /\ perm_output \in Seq(Perm!Orders)
    /\ IsFiniteSet(PutOuts) /\ Cardinality(PutOuts) = Len(perm_output)

PermInv ==
    /\ PermTypeOK
    /\ NoneTwice
    /\ \E base : Bases(base) /\ PutOuts = Seen(base)

\* The caller's array is a sequence, and one of its own orders.
LEMMA GivenArray ==
    ASSUME given \in Arrays
    PROVE  /\ Len(given) \in Nat /\ Len(given) > 0 /\ DOMAIN given = 1..Len(given)
           /\ given \in Perm!Orders
           /\ \A o : o \in Perm!Orders <=>
                 /\ o \in [1..Len(given) -> Perm!Entries]
                 /\ \A j, k \in 1..Len(given) : j # k => o[j] # o[k]
<1>1. given \in Seq(Int) /\ given # << >>
  BY PermutationAssumption
<1>2. Len(given) \in Nat /\ Len(given) > 0 /\ DOMAIN given = 1..Len(given)
  BY <1>1
<1>3. given \in [1..Len(given) -> Perm!Entries]
  BY <1>1, <1>2 DEF Perm!Entries
<1>4. \A j, k \in 1..Len(given) : j # k => given[j] # given[k]
  BY <1>2, PermutationAssumption
<1>5. \A o : o \in Perm!Orders <=>
                 /\ o \in [1..Len(given) -> Perm!Entries]
                 /\ \A j, k \in 1..Len(given) : j # k => o[j] # o[k]
  BY <1>2 DEF Perm!Orders
<1>. QED BY <1>2, <1>3, <1>4, <1>5

\* Two entries of an order change places; doing it again undoes it.
LEMMA SwapOrder ==
    ASSUME given \in Arrays, NEW a \in Perm!Orders,
           NEW j \in 1..Len(given), NEW k \in 1..Len(given)
    PROVE  /\ Swap(a, j, k) \in Perm!Orders
           /\ Swap(a, j, k)[j] = a[k] /\ Swap(a, j, k)[k] = a[j]
           /\ \A l \in 1..Len(given) : l # j /\ l # k => Swap(a, j, k)[l] = a[l]
           /\ Swap(Swap(a, j, k), j, k) = a
           /\ j = k => Swap(a, j, k) = a
<1>. DEFINE n == Len(given)
            b == Swap(a, j, k)
<1>1. a \in [1..n -> Perm!Entries] /\ \A x, y \in 1..n : x # y => a[x] # a[y]
  BY GivenArray
<1>2. /\ b \in [1..n -> Perm!Entries]
      /\ b[j] = a[k] /\ b[k] = a[j]
      /\ \A l \in 1..n : l # j /\ l # k => b[l] = a[l]
      /\ j = k => b = a
  BY <1>1 DEF Swap
<1>3. \A x, y \in 1..n : x # y => b[x] # b[y]
  <2>. HIDE DEF b
  <2>. QED BY <1>1, <1>2
<1>4. b \in Perm!Orders
  <2>. HIDE DEF b
  <2>. QED BY <1>2, <1>3, GivenArray
<1>5. Swap(b, j, k) = a
  BY <1>1 DEF Swap
<1>. QED BY <1>2, <1>4, <1>5

LEMMA InitPerm == Perm!Init => PermInv
<1>. SUFFICES ASSUME Perm!Init PROVE PermInv
  OBVIOUS
<1>. USE DEF Perm!Init
<1>1. PermTypeOK
  BY GivenArray DEF PermTypeOK, Depth
<1>2. NoneTwice /\ PutOuts = {}
  <2>1. PutOuts = {}
    BY DEF PutOuts
  <2>. QED BY <2>1, FS_EmptySet DEF NoneTwice
<1>. DEFINE first == [l \in 1..1 |-> given]
<1>3. Bases(first)
  BY GivenArray DEF Bases, Depth
<1>4. Seen(first) = {}
  BY DEF Seen, Depth
<1>. QED BY <1>1, <1>2, <1>3, <1>4 DEF PermInv

LEMMA OrderLength == given \in Arrays => \A o \in Perm!Orders : Len(o) = Len(given)
<1>. SUFFICES ASSUME given \in Arrays, NEW o \in Perm!Orders PROVE Len(o) = Len(given)
  OBVIOUS
<1>1. Len(given) \in Nat /\ o \in [1..Len(given) -> Perm!Entries]
  BY GivenArray
<1>2. o \in Seq(Perm!Entries)
  BY <1>1
<1>. QED BY <1>1, <1>2

\* An order has every entry of the array: none is left out, as none is twice.
LEMMA OrderOnto ==
    ASSUME given \in Arrays, NEW o \in Perm!Orders, NEW e \in Perm!Entries
    PROVE  \E k \in 1..Len(given) : o[k] = e
<1>. DEFINE S == 1..Len(given)
            T == Perm!Entries
<1>1. IsFiniteSet(S)
  BY FS_Interval, GivenArray
<1>2. given \in Surjection(S, T) /\ given \in Injection(S, T) /\ o \in Injection(S, T)
  <2>1. given \in [S -> T] /\ o \in [S -> T]
    BY GivenArray
  <2>2. /\ \A j, k \in S : given[j] = given[k] => j = k
        /\ \A j, k \in S : o[j] = o[k] => j = k
    BY GivenArray
  <2>3. \A x \in T : \E j \in S : given[j] = x
    BY GivenArray DEF Perm!Entries
  <2>. HIDE DEF S, T
  <2>4. given \in Surjection(S, T)
    BY <2>1, <2>3 DEF Surjection
  <2>5. given \in Injection(S, T)
    BY <2>1, <2>2 DEF Injection, IsInjective
  <2>6. o \in Injection(S, T)
    BY <2>1, <2>2 DEF Injection, IsInjective
  <2>. QED BY <2>4, <2>5, <2>6
<1>. HIDE DEF S, T
<1>3. IsFiniteSet(T) /\ Cardinality(T) = Cardinality(S)
  BY <1>1, <1>2, FS_Surjection
<1>4. o \in Surjection(S, T)
  BY <1>2, <1>3, FS_Injection
<1>. QED BY <1>4 DEF Surjection, S, T

\* The last call: one order begins like input up to the last place.
LEMMA LastIsInput ==
    ASSUME given \in Arrays, input \in Perm!Orders, NEW o \in Perm!Orders,
           SameBefore(o, input, Len(given))
    PROVE  o = input
<1>. DEFINE n == Len(given)
<1>1. /\ n \in Nat /\ n > 0
      /\ input \in [1..n -> Perm!Entries] /\ o \in [1..n -> Perm!Entries]
      /\ \A j, k \in 1..n : j # k => o[j] # o[k]
  BY GivenArray
<1>2. PICK k \in 1..n : input[k] = o[n]
  <2>1. o[n] \in Perm!Entries
    BY <1>1
  <2>. QED BY <2>1, OrderOnto
<1>3. k = n
  BY <1>1, <1>2 DEF SameBefore
<1>4. \A j \in 1..n : o[j] = input[j]
  BY <1>1, <1>2, <1>3 DEF SameBefore
<1>. QED BY <1>1, <1>4

\* The parts of a state that satisfies the invariant, with its bases.
LEMMA Standing ==
    ASSUME PermInv
    PROVE  /\ given \in Arrays /\ Len(given) \in Nat /\ Len(given) > 0
           /\ input \in Perm!Orders /\ Perm!right = Len(given) /\ Perm!left = Depth + 1
           /\ Depth \in Nat /\ Depth < Len(given) /\ loops \in [1..Depth -> Nat]
           /\ \A l \in 1..Depth : loops[l] \in l..Len(given)
  BY GivenArray, OrderLength DEF PermInv, PermTypeOK, Depth, Perm!right, Perm!left

LEMMA StepPutOut == PermInv /\ Perm!PutOut => PermInv'
<1>. SUFFICES ASSUME PermInv, Perm!PutOut PROVE PermInv'
  OBVIOUS
<1>1. /\ given \in Arrays /\ Len(given) \in Nat /\ input \in Perm!Orders
      /\ Depth \in Nat /\ Depth + 1 = Len(given)
      /\ \A l \in 1..Depth : loops[l] \in l..Len(given)
  BY Standing DEF Perm!PutOut
<1>2. PICK base : Bases(base) /\ PutOuts = Seen(base)
  BY DEF PermInv
<1>3. /\ perm_pc = "call" /\ perm_pc' = "return" /\ perm_output' = Append(perm_output, input)
      /\ UNCHANGED <<given, input, loops>> /\ Depth' = Depth /\ Perm!Orders' = Perm!Orders
  BY DEF Perm!PutOut, Depth, Perm!Orders, Perm!Entries
<1>4. input \notin Seen(base)
  <2>1. ASSUME NEW l \in 1..Depth, NEW j \in l..(loops[l] - 1)
        PROVE  input[l] # base[l][j]
    <3>1. base[l] \in Perm!Orders /\ l \in 1..Len(given) /\ loops[l] \in 1..Len(given)
          /\ j \in 1..Len(given) /\ j # loops[l]
      BY <1>1, <1>2 DEF Bases
    <3>2. base[l + 1] = Swap(base[l], l, loops[l]) /\ input[l] = base[l + 1][l]
      BY <1>1, <1>2 DEF Bases
    <3>3. Swap(base[l], l, loops[l])[l] = base[l][loops[l]]
      <4>. DEFINE a == base[l]
                  k == loops[l]
      <4>1. given \in Arrays /\ a \in Perm!Orders /\ l \in 1..Len(given) /\ k \in 1..Len(given)
        BY <1>1, <3>1
      <4>. HIDE DEF a, k
      <4>2. Swap(a, l, k)[l] = a[k]
        BY <4>1, SwapOrder
      <4>. QED BY <4>2 DEF a, k
    <3>. QED BY <1>1, <3>1, <3>2, <3>3, GivenArray
  <2>. QED BY <1>3, <2>1 DEF Seen
<1>5. PutOuts' = PutOuts \cup {input}
  <2>1. perm_output \in Seq(Perm!Orders)
    BY DEF PermInv, NoneTwice
  <2>. QED BY <1>3, <2>1 DEF PutOuts
<1>6. PermTypeOK'
  BY <1>3 DEF PermInv, PermTypeOK
<1>7. NoneTwice'
  <2>1. perm_output \in Seq(Perm!Orders) /\ IsFiniteSet(PutOuts)
        /\ Cardinality(PutOuts) = Len(perm_output)
    BY DEF PermInv, NoneTwice
  <2>2. perm_output' \in Seq(Perm!Orders) /\ Len(perm_output') = Len(perm_output) + 1
    BY <1>1, <1>3, <2>1
  <2>3. IsFiniteSet(PutOuts \cup {input})
        /\ Cardinality(PutOuts \cup {input}) = Cardinality(PutOuts) + 1
    BY <1>2, <1>4, <2>1, FS_AddElement
  <2>. QED BY <1>3, <1>5, <2>1, <2>2, <2>3 DEF NoneTwice
<1>8. Bases(base)'
  BY <1>2, <1>3 DEF Bases
<1>9. Seen(base)' = Seen(base) \cup {input}
  <2>1. \A o \in Perm!Orders : SameBefore(o, input, Len(given)) <=> o = input
    BY <1>1, LastIsInput DEF SameBefore
  <2>. QED BY <1>1, <1>3, <2>1 DEF Seen, SameBefore
<1>. QED BY <1>2, <1>5, <1>6, <1>7, <1>8, <1>9 DEF PermInv

LEMMA StepEnter == PermInv /\ Perm!Enter => PermInv'
<1>. SUFFICES ASSUME PermInv, Perm!Enter PROVE PermInv'
  OBVIOUS
<1>. DEFINE d == Depth
<1>1. /\ given \in Arrays /\ Len(given) \in Nat /\ input \in Perm!Orders
      /\ d \in Nat /\ d + 1 < Len(given)
      /\ \A l \in 1..d : loops[l] \in l..Len(given)
  BY Standing DEF Perm!Enter
<1>2. PICK base : Bases(base) /\ PutOuts = Seen(base)
  BY DEF PermInv
<1>3. /\ perm_pc = "call" /\ perm_pc' = "call"
      /\ UNCHANGED <<given, input, perm_output>> /\ Perm!Orders' = Perm!Orders
  BY DEF Perm!Enter, Perm!Orders, Perm!Entries
<1>4. loops \in Seq(Nat) /\ loops' = Append(loops, d + 1)
  BY Standing DEF Perm!Enter, PermInv, PermTypeOK
<1>5. loops' \in Seq(Nat) /\ Depth' = d + 1
  BY <1>4, <1>1 DEF Depth
<1>6. loops'[d + 1] = d + 1 /\ \A l \in 1..d : loops'[l] = loops[l]
  BY <1>4, <1>1 DEF Depth
<1>. HIDE DEF d
<1>7. PermTypeOK'
  <2>1. ASSUME NEW l \in 1..(d + 1) PROVE loops'[l] \in l..Len(given)
    <3>1. CASE l = d + 1
      BY <1>1, <1>6, <3>1
    <3>2. CASE l \in 1..d
      BY <1>1, <1>6, <3>2
    <3>. QED BY <1>1, <3>1, <3>2
  <2>. QED BY <1>1, <1>3, <1>5, <2>1 DEF PermInv, PermTypeOK
<1>8. NoneTwice' /\ PutOuts' = PutOuts
  BY <1>3 DEF PermInv, NoneTwice, PutOuts
<1>9. PICK deeper : deeper = [l \in 1..(d + 2) |-> IF l = d + 2 THEN input ELSE base[l]]
  OBVIOUS
<1>10. /\ base \in [1..(d + 1) -> Perm!Orders] /\ base[1] = given /\ base[d + 1] = input
       /\ \A l \in 1..d : base[l + 1] = Swap(base[l], l, loops[l])
       /\ \A l \in 1..d : \A k \in 1..l : input[k] = base[l + 1][k]
  BY <1>2 DEF Bases, d
<1>11. /\ deeper \in [1..(d + 2) -> Perm!Orders] /\ deeper[d + 2] = input
       /\ \A l \in 1..(d + 1) : deeper[l] = base[l]
  BY <1>1, <1>10, <1>9
<1>12. Bases(deeper)'
  <2>1. Swap(input, d + 1, d + 1) = input
    BY <1>1, SwapOrder
  <2>2. ASSUME NEW l \in 1..(d + 1)
        PROVE  /\ deeper[l + 1] = Swap(deeper[l], l, loops'[l])
               /\ \A k \in 1..l : input[k] = deeper[l + 1][k]
    <3>1. CASE l = d + 1
      <4>1. deeper[l + 1] = input /\ deeper[l] = input /\ loops'[l] = l
        BY <1>1, <1>6, <1>10, <1>11, <3>1
      <4>. QED BY <2>1, <3>1, <4>1
    <3>2. CASE l \in 1..d
      <4>1. deeper[l + 1] = base[l + 1] /\ deeper[l] = base[l] /\ loops'[l] = loops[l]
        BY <1>1, <1>6, <1>11, <3>2
      <4>. QED BY <1>10, <3>2, <4>1
    <3>. QED BY <1>1, <3>1, <3>2
  <2>3. deeper[1] = given
    BY <1>1, <1>10, <1>11
  <2>4. (d + 1) + 1 = d + 2
    BY <1>1
  <2>. QED BY <1>3, <1>5, <1>11, <2>2, <2>3, <2>4 DEF Bases
<1>13. Seen(deeper)' = Seen(base)
  <2>. DEFINE Tried(o, l) == SameBefore(o, base[l], l) /\ \E j \in l..(loops[l] - 1) : o[l] = base[l][j]
  <2>1. Seen(base) = {o \in Perm!Orders : \E l \in 1..d : Tried(o, l)}
    BY <1>3 DEF Seen, d
  <2>. DEFINE TriedNow(o, l) ==
                  SameBefore(o, deeper[l], l) /\ \E j \in l..(loops'[l] - 1) : o[l] = deeper[l][j]
  <2>2. Seen(deeper)' = {o \in Perm!Orders : \E l \in 1..(d + 1) : TriedNow(o, l)}
    BY <1>3, <1>5 DEF Seen, SameBefore
  <2>3. ASSUME NEW o PROVE ~ TriedNow(o, d + 1)
    BY <1>1, <1>6
  <2>4. ASSUME NEW o, NEW l \in 1..d PROVE TriedNow(o, l) <=> Tried(o, l)
    <3>1. deeper[l] = base[l] /\ loops'[l] = loops[l]
      BY <1>1, <1>6, <1>11
    <3>. QED BY <3>1
  <2>. HIDE DEF Tried, TriedNow
  <2>5. ASSUME NEW o
        PROVE  (\E l \in 1..(d + 1) : TriedNow(o, l)) <=> \E l \in 1..d : Tried(o, l)
    BY <1>1, <2>3, <2>4
  <2>. QED BY <2>1, <2>2, <2>5
<1>. QED BY <1>2, <1>7, <1>8, <1>12, <1>13 DEF PermInv

\* On the return from the last call the entry it had is tried as well.
LEMMA SeenOnReturn ==
    ASSUME PermInv, NEW base, Bases(base), perm_pc = "return", Depth > 0
    PROVE  Seen(base) =
             {o \in Perm!Orders :
                \/ \E l \in 1..(Depth - 1) :
                      SameBefore(o, base[l], l) /\ \E j \in l..(loops[l] - 1) : o[l] = base[l][j]
                \/ /\ SameBefore(o, base[Depth], Depth)
                   /\ \E j \in Depth..loops[Depth] : o[Depth] = base[Depth][j]}
<1>. DEFINE d == Depth
            a == base[d]
<1>1. /\ given \in Arrays /\ Len(given) \in Nat /\ d \in Nat /\ d > 0 /\ d < Len(given)
      /\ loops[d] \in d..Len(given)
  BY Standing
<1>2. a \in Perm!Orders /\ input = Swap(a, d, loops[d])
  BY <1>1 DEF Bases
<1>3. input[d] = a[loops[d]] /\ \A k \in 1..(d - 1) : input[k] = a[k]
  <2>. DEFINE m == loops[d]
  <2>1. m \in 1..Len(given) /\ d \in 1..Len(given) /\ m >= d
    BY <1>1
  <2>. HIDE DEF a, d, m
  <2>2. Swap(a, d, m)[d] = a[m]
    BY <1>1, <1>2, <2>1, SwapOrder
  <2>3. \A k \in 1..Len(given) : k # d /\ k # m => Swap(a, d, m)[k] = a[k]
    BY <1>1, <1>2, <2>1, SwapOrder
  <2>. QED BY <1>1, <1>2, <2>1, <2>2, <2>3 DEF m
<1>. DEFINE Tried(o, l) == SameBefore(o, base[l], l) /\ \E j \in l..(loops[l] - 1) : o[l] = base[l][j]
<1>4. Seen(base) = {o \in Perm!Orders : (\E l \in 1..d : Tried(o, l)) \/ SameBefore(o, input, d + 1)}
  BY DEF Seen
<1>5. ASSUME NEW o
      PROVE  Tried(o, d) \/ SameBefore(o, input, d + 1)
               <=> SameBefore(o, a, d) /\ \E j \in d..loops[d] : o[d] = a[j]
  <2>1. SameBefore(o, input, d + 1) <=> SameBefore(o, a, d) /\ o[d] = a[loops[d]]
    <3>. HIDE DEF a
    <3>. QED BY <1>1, <1>3 DEF SameBefore
  <2>2. (\E j \in d..loops[d] : o[d] = a[j]) <=> (\E j \in d..(loops[d] - 1) : o[d] = a[j]) \/ o[d] = a[loops[d]]
    <3>. HIDE DEF a, d
    <3>. QED BY <1>1
  <2>. QED BY <2>1, <2>2
<1>. HIDE DEF Tried
<1>6. ASSUME NEW o
      PROVE  (\E l \in 1..d : Tried(o, l)) <=> (\E l \in 1..(d - 1) : Tried(o, l)) \/ Tried(o, d)
  BY <1>1
<1>7. Seen(base) = {o \in Perm!Orders :
            (\E l \in 1..(d - 1) : Tried(o, l)) \/ (SameBefore(o, a, d) /\ \E j \in d..loops[d] : o[d] = a[j])}
  <2>. HIDE DEF a, d
  <2>. QED BY <1>4, <1>5, <1>6
<1>. QED BY <1>7 DEF Tried

\* The array as it was when the last call began, which swapping back restores.
LEMMA Restored ==
    ASSUME PermInv, NEW base, Bases(base), Depth > 0
    PROVE  /\ base[Depth] \in Perm!Orders
           /\ Swap(input, Depth, loops[Depth]) = base[Depth]
           /\ \A k \in 1..(Depth - 1) : base[Depth][k] = input[k]
<1>. DEFINE d == Depth
            a == base[d]
            m == loops[d]
<1>1. /\ given \in Arrays /\ Len(given) \in Nat /\ d \in Nat /\ d > 0 /\ d < Len(given)
      /\ m \in d..Len(given)
  BY Standing
<1>2. a \in Perm!Orders /\ input = Swap(a, d, m)
  BY <1>1 DEF Bases
<1>3. m \in 1..Len(given) /\ d \in 1..Len(given) /\ m >= d
  BY <1>1
<1>. HIDE DEF a, d, m
<1>4. Swap(Swap(a, d, m), d, m) = a
  BY <1>1, <1>2, <1>3, SwapOrder
<1>5. \A k \in 1..Len(given) : k # d /\ k # m => Swap(a, d, m)[k] = a[k]
  BY <1>1, <1>2, <1>3, SwapOrder
<1>6. \A k \in 1..(d - 1) : a[k] = input[k]
  BY <1>1, <1>2, <1>3, <1>5
<1>. QED BY <1>2, <1>4, <1>6 DEF a, d, m

\* Back from a call, the next entry is swapped to the front.
LEMMA StepTurnOn ==
    ASSUME PermInv, Perm!Turn, loops[Depth] < Len(given)
    PROVE  PermInv'
<1>. DEFINE d == Depth
            m == loops[d]
<1>1. /\ given \in Arrays /\ Len(given) \in Nat /\ d \in Nat /\ d > 0 /\ d < Len(given)
      /\ m \in d..Len(given) /\ m < Len(given) /\ loops \in [1..d -> Nat]
      /\ \A l \in 1..d : loops[l] \in l..Len(given)
  <2>1. d > 0
    BY Standing DEF Perm!Turn, PermInv, PermTypeOK, Depth
  <2>. QED BY <2>1, Standing
<1>2. PICK base : Bases(base) /\ PutOuts = Seen(base)
  BY DEF PermInv
<1>3. /\ base[d] \in Perm!Orders /\ Swap(input, d, m) = base[d]
      /\ \A k \in 1..(d - 1) : base[d][k] = input[k]
  BY <1>1, <1>2, Restored
<1>4. /\ perm_pc = "return" /\ perm_pc' = "call"
      /\ loops' = [loops EXCEPT ![d] = m + 1]
      /\ UNCHANGED <<given, perm_output>> /\ Perm!Orders' = Perm!Orders
  BY Standing DEF Perm!Turn, Perm!Orders, Perm!Entries, Depth
<1>5. input' = Swap(base[d], d, m + 1)
  <2>1. input' = Swap(Swap(input, d, m), d, m + 1)
    BY Standing DEF Perm!Turn, Perm!Swapped, Swap, Depth
  <2>. QED BY <1>3, <2>1
<1>6. loops' \in Seq(Nat) /\ Depth' = d
  <2>1. loops \in Seq(Nat)
    BY DEF PermInv, PermTypeOK
  <2>. QED BY <1>1, <1>4, <2>1 DEF Depth
<1>7. loops'[d] = m + 1 /\ \A l \in 1..(d - 1) : loops'[l] = loops[l]
  BY <1>1, <1>4
<1>8. /\ base \in [1..(d + 1) -> Perm!Orders] /\ base[1] = given
      /\ \A l \in 1..d : base[l + 1] = Swap(base[l], l, loops[l])
      /\ \A l \in 1..d : \A k \in 1..l : input[k] = base[l + 1][k]
  BY <1>2 DEF Bases
<1>9. PICK turned : turned = [l \in 1..(d + 1) |-> IF l = d + 1 THEN input' ELSE base[l]]
  OBVIOUS
<1>. HIDE DEF d, m
<1>10. /\ input' \in Perm!Orders
       /\ \A k \in 1..(d - 1) : input'[k] = base[d][k]
  <2>. DEFINE a == base[d]
              q == m + 1
  <2>1. a \in Perm!Orders /\ q \in 1..Len(given) /\ d \in 1..Len(given) /\ q >= d
    BY <1>1, <1>3
  <2>2. input' = Swap(a, d, q)
    BY <1>5
  <2>. HIDE DEF a, q
  <2>3. Swap(a, d, q) \in Perm!Orders
    BY <1>1, <2>1, SwapOrder
  <2>4. \A k \in 1..Len(given) : k # d /\ k # q => Swap(a, d, q)[k] = a[k]
    BY <1>1, <2>1, SwapOrder
  <2>5. \A k \in 1..(d - 1) : Swap(a, d, q)[k] = a[k]
    BY <1>1, <2>1, <2>4
  <2>. QED BY <2>2, <2>3, <2>5 DEF a
<1>11. /\ turned \in [1..(d + 1) -> Perm!Orders] /\ turned[d + 1] = input'
       /\ \A l \in 1..d : turned[l] = base[l]
  BY <1>1, <1>8, <1>9, <1>10
<1>12. PermTypeOK'
  <2>1. ASSUME NEW l \in 1..d PROVE loops'[l] \in l..Len(given)
    <3>1. CASE l = d
      BY <1>1, <1>7, <3>1
    <3>2. CASE l \in 1..(d - 1)
      BY <1>1, <1>7, <3>2
    <3>. QED BY <1>1, <3>1, <3>2
  <2>. QED BY <1>1, <1>4, <1>6, <1>10, <2>1 DEF PermTypeOK
<1>13. NoneTwice' /\ PutOuts' = PutOuts
  BY <1>4 DEF PermInv, NoneTwice, PutOuts
<1>14. Bases(turned)'
  <2>1. ASSUME NEW l \in 1..d
        PROVE  /\ turned[l + 1] = Swap(turned[l], l, loops'[l])
               /\ \A k \in 1..l : input'[k] = turned[l + 1][k]
    <3>1. CASE l = d
      BY <1>1, <1>5, <1>7, <1>11, <3>1
    <3>2. CASE l \in 1..(d - 1)
      <4>1. turned[l + 1] = base[l + 1] /\ turned[l] = base[l] /\ loops'[l] = loops[l]
        BY <1>1, <1>7, <1>11, <3>2
      <4>2. \A k \in 1..l : input'[k] = input[k]
        BY <1>1, <1>3, <1>10, <3>2
      <4>. QED BY <1>8, <4>1, <4>2
    <3>. QED BY <1>1, <3>1, <3>2
  <2>2. turned[1] = given
    BY <1>1, <1>8, <1>11
  <2>. QED BY <1>4, <1>6, <1>11, <2>1, <2>2 DEF Bases
<1>15. Seen(turned)' = Seen(base)
  <2>. DEFINE Tried(o, l) == SameBefore(o, base[l], l) /\ \E j \in l..(loops[l] - 1) : o[l] = base[l][j]
              TriedLast(o) == SameBefore(o, base[d], d) /\ \E j \in d..m : o[d] = base[d][j]
              TriedNow(o, l) ==
                  SameBefore(o, turned[l], l) /\ \E j \in l..(loops'[l] - 1) : o[l] = turned[l][j]
  <2>1. Seen(base) = {o \in Perm!Orders : (\E l \in 1..(d - 1) : Tried(o, l)) \/ TriedLast(o)}
    BY <1>1, <1>2, <1>4, SeenOnReturn DEF d, m
  <2>2. Seen(turned)' = {o \in Perm!Orders : \E l \in 1..d : TriedNow(o, l)}
    BY <1>4, <1>6 DEF Seen, SameBefore
  <2>3. ASSUME NEW o PROVE TriedNow(o, d) <=> TriedLast(o)
    <3>1. turned[d] = base[d] /\ loops'[d] - 1 = m
      BY <1>1, <1>7, <1>11
    <3>. QED BY <3>1
  <2>4. ASSUME NEW o, NEW l \in 1..(d - 1) PROVE TriedNow(o, l) <=> Tried(o, l)
    <3>1. turned[l] = base[l] /\ loops'[l] = loops[l]
      BY <1>1, <1>7, <1>11
    <3>. QED BY <3>1
  <2>. HIDE DEF Tried, TriedLast, TriedNow
  <2>5. ASSUME NEW o
        PROVE  (\E l \in 1..d : TriedNow(o, l)) <=> (\E l \in 1..(d - 1) : Tried(o, l)) \/ TriedLast(o)
    BY <1>1, <2>3, <2>4
  <2>. QED BY <2>1, <2>2, <2>5
<1>. QED BY <1>2, <1>12, <1>13, <1>14, <1>15 DEF PermInv

\* Back from the last of its calls, a call puts its entry back and returns.
LEMMA StepTurnBack ==
    ASSUME PermInv, Perm!Turn, ~ (loops[Depth] < Len(given))
    PROVE  PermInv'
<1>. DEFINE d == Depth
            m == loops[d]
<1>1. /\ given \in Arrays /\ Len(given) \in Nat /\ d \in Nat /\ d > 0 /\ d < Len(given)
      /\ m = Len(given) /\ loops \in [1..d -> Nat]
      /\ \A l \in 1..d : loops[l] \in l..Len(given)
  <2>1. d > 0
    BY Standing DEF Perm!Turn, PermInv, PermTypeOK, Depth
  <2>. QED BY <2>1, Standing
<1>2. PICK base : Bases(base) /\ PutOuts = Seen(base)
  BY DEF PermInv
<1>3. /\ base[d] \in Perm!Orders /\ Swap(input, d, m) = base[d]
      /\ \A k \in 1..(d - 1) : base[d][k] = input[k]
  BY <1>1, <1>2, Restored
<1>4. /\ perm_pc = "return" /\ perm_pc' = "return"
      /\ loops' = SubSeq(loops, 1, d - 1)
      /\ UNCHANGED <<given, perm_output>> /\ Perm!Orders' = Perm!Orders
  BY Standing DEF Perm!Turn, Perm!Orders, Perm!Entries, Depth
<1>5. input' = base[d]
  <2>1. input' = Swap(input, d, m)
    BY Standing DEF Perm!Turn, Perm!Swapped, Swap, Depth
  <2>. QED BY <1>3, <2>1
<1>6. loops' \in Seq(Nat) /\ Depth' = d - 1 /\ \A l \in 1..(d - 1) : loops'[l] = loops[l]
  <2>1. loops \in Seq(Nat)
    BY DEF PermInv, PermTypeOK
  <2>. QED BY <1>1, <1>4, <2>1 DEF Depth
<1>7. /\ base \in [1..(d + 1) -> Perm!Orders] /\ base[1] = given
      /\ \A l \in 1..d : base[l + 1] = Swap(base[l], l, loops[l])
      /\ \A l \in 1..d : \A k \in 1..l : input[k] = base[l + 1][k]
  BY <1>2 DEF Bases
<1>8. PICK cut : cut = [l \in 1..d |-> base[l]]
  OBVIOUS
<1>. HIDE DEF d, m
<1>9. cut \in [1..d -> Perm!Orders] /\ \A l \in 1..d : cut[l] = base[l]
  BY <1>1, <1>7, <1>8
<1>10. PermTypeOK'
  BY <1>1, <1>3, <1>4, <1>5, <1>6 DEF PermTypeOK
<1>11. NoneTwice' /\ PutOuts' = PutOuts
  BY <1>4 DEF PermInv, NoneTwice, PutOuts
<1>12. Bases(cut)'
  <2>1. ASSUME NEW l \in 1..(d - 1)
        PROVE  /\ cut[l + 1] = Swap(cut[l], l, loops'[l])
               /\ \A k \in 1..l : input'[k] = cut[l + 1][k]
    <3>1. cut[l + 1] = base[l + 1] /\ cut[l] = base[l] /\ loops'[l] = loops[l]
      BY <1>1, <1>6, <1>9
    <3>2. \A k \in 1..l : input'[k] = input[k]
      BY <1>1, <1>3, <1>5
    <3>3. /\ base[l + 1] = Swap(base[l], l, loops[l])
          /\ \A k \in 1..l : input[k] = base[l + 1][k]
      <4>1. l \in 1..d
        BY <1>1
      <4>. QED BY <1>7, <4>1
    <3>. QED BY <3>1, <3>2, <3>3
  <2>2. cut[1] = given /\ cut[d] = input'
    BY <1>1, <1>5, <1>7, <1>9
  <2>3. (d - 1) + 1 = d
    BY <1>1
  <2>. QED BY <1>4, <1>6, <1>9, <2>1, <2>2, <2>3 DEF Bases
<1>13. Seen(cut)' = Seen(base)
  <2>. DEFINE Tried(o, l) == SameBefore(o, base[l], l) /\ \E j \in l..(loops[l] - 1) : o[l] = base[l][j]
              TriedLast(o) == SameBefore(o, base[d], d) /\ \E j \in d..m : o[d] = base[d][j]
              TriedNow(o, l) ==
                  SameBefore(o, cut[l], l) /\ \E j \in l..(loops'[l] - 1) : o[l] = cut[l][j]
  <2>1. Seen(base) = {o \in Perm!Orders : (\E l \in 1..(d - 1) : Tried(o, l)) \/ TriedLast(o)}
    BY <1>1, <1>2, <1>4, SeenOnReturn DEF d, m
  <2>2. (d - 1) + 1 = d
    BY <1>1
  <2>3. Seen(cut)' = {o \in Perm!Orders : (\E l \in 1..(d - 1) : TriedNow(o, l)) \/ SameBefore(o, base[d], d)}
    BY <1>4, <1>5, <1>6, <2>2 DEF Seen, SameBefore
  <2>4. ASSUME NEW o \in Perm!Orders PROVE SameBefore(o, base[d], d) <=> TriedLast(o)
    <3>. DEFINE a == base[d]
                n == Len(given)
    <3>1. o[d] \in Perm!Entries /\ \A j, k \in 1..n : j # k => o[j] # o[k]
      BY <1>1, GivenArray
    <3>2. PICK j \in 1..n : a[j] = o[d]
      BY <1>1, <1>3, <3>1, OrderOnto
    <3>3. ASSUME SameBefore(o, a, d) PROVE j >= d
      <4>1. CASE j < d
        <5>1. o[j] = a[j] /\ j # d /\ d \in 1..n
          BY <1>1, <3>3, <4>1 DEF SameBefore
        <5>. QED BY <3>1, <3>2, <5>1
      <4>. QED BY <1>1, <4>1
    <3>. HIDE DEF a, n
    <3>4. SameBefore(o, a, d) => \E k \in d..m : o[d] = a[k]
      BY <1>1, <3>2, <3>3 DEF n
    <3>. QED BY <3>4 DEF a
  <2>5. ASSUME NEW o, NEW l \in 1..(d - 1) PROVE TriedNow(o, l) <=> Tried(o, l)
    <3>1. cut[l] = base[l] /\ loops'[l] = loops[l]
      BY <1>1, <1>6, <1>9
    <3>. QED BY <3>1
  <2>. HIDE DEF Tried, TriedLast, TriedNow
  <2>6. ASSUME NEW o \in Perm!Orders
        PROVE  (\E l \in 1..(d - 1) : TriedNow(o, l)) \/ SameBefore(o, base[d], d)
                   <=> (\E l \in 1..(d - 1) : Tried(o, l)) \/ TriedLast(o)
    BY <2>4, <2>5
  <2>. QED BY <2>1, <2>3, <2>6
<1>. QED BY <1>2, <1>10, <1>11, <1>12, <1>13 DEF PermInv

LEMMA StepReturn == PermInv /\ Perm!Return => PermInv'
<1>. SUFFICES ASSUME PermInv, Perm!Return PROVE PermInv'
  OBVIOUS
<1>1. /\ perm_pc = "return" /\ perm_pc' = "done" /\ loops = << >>
      /\ UNCHANGED <<given, input, loops, perm_output>>
  BY DEF Perm!Return
<1>2. PermTypeOK' /\ NoneTwice' /\ PutOuts' = PutOuts
  BY <1>1 DEF PermInv, PermTypeOK, NoneTwice, PutOuts, Depth, Perm!Orders, Perm!Entries
<1>3. PICK base : Bases(base) /\ PutOuts = Seen(base)
  BY DEF PermInv
<1>4. Bases(base)' /\ Seen(base)' = Seen(base)
  BY <1>1, <1>3 DEF Bases, Seen, Depth, Perm!Orders, Perm!Entries
<1>. QED BY <1>2, <1>3, <1>4 DEF PermInv

\* Permutation counts as this module does.
LEMMA PermCardinality == \A S : Perm!Cardinality(S) = Cardinality(S)
  BY DEF Perm!Cardinality, Cardinality, Perm!IsFiniteSet, IsFiniteSet

LEMMA AllAreOut == PermInv => AllOrdersOnce
<1>. SUFFICES ASSUME PermInv, perm_pc = "done" PROVE Perm!AllOrdersOnce
  BY DEF AllOrdersOnce, Perm!AllOrdersOnce
<1>1. PICK base : Bases(base) /\ PutOuts = Seen(base)
  BY DEF PermInv
<1>2. Depth = 0
  BY DEF PermInv, PermTypeOK, Depth
<1>3. input = given
  BY <1>1, <1>2 DEF Bases
<1>4. Seen(base) = Perm!Orders
  BY <1>2 DEF Seen, SameBefore
<1>5. PutOuts = Perm!Orders /\ Cardinality(PutOuts) = Len(perm_output)
  BY <1>1, <1>4 DEF PermInv, NoneTwice
<1>6. {perm_output[k] : k \in DOMAIN perm_output} = Perm!Orders
  BY <1>5 DEF PutOuts
<1>7. Len(perm_output) = Cardinality(Perm!Orders)
  BY <1>5
<1>. QED BY <1>3, <1>6, <1>7, PermCardinality DEF Perm!AllOrdersOnce

\* permutation returns every order of any array without a value twice, each of
\* them once, and leaves the array as it was (permutation.cpp:1-2, 22-35).
THEOREM AllOrdersCorrect == Perm!Spec => []AllOrdersOnce
<1>1. PermInv /\ [Perm!Next]_(Perm!vars) => PermInv'
  <2>. SUFFICES ASSUME PermInv, [Perm!Next]_(Perm!vars) PROVE PermInv'
    OBVIOUS
  <2>1. CASE UNCHANGED Perm!vars
    <3>1. UNCHANGED <<perm_pc, given, input, loops, perm_output>>
      BY <2>1 DEF Perm!vars
    <3>2. PermTypeOK' /\ NoneTwice' /\ PutOuts' = PutOuts
      BY <3>1 DEF PermInv, PermTypeOK, NoneTwice, PutOuts, Depth, Perm!Orders, Perm!Entries
    <3>3. PICK base : Bases(base) /\ PutOuts = Seen(base)
      BY DEF PermInv
    <3>4. Bases(base)' /\ Seen(base)' = Seen(base)
      BY <3>1, <3>3 DEF Bases, Seen, Depth, Perm!Orders, Perm!Entries
    <3>. QED BY <3>2, <3>3, <3>4 DEF PermInv
  <2>. QED BY <2>1, StepPutOut, StepEnter, StepTurnOn, StepTurnBack, StepReturn DEF Perm!Next
<1>. QED BY <1>1, InitPerm, AllAreOut, PTL DEF Perm!Spec

-----------------------------------------------------------------------------
(* Transcoder *)

EncodeLabels == {"avcodec_send_frame", "avcodec_receive_packet", "av_interleaved_write_frame"}
AskLabels == EncodeLabels \cup {"avcodec_receive_frame"}
AfterLabels == {"writeTrailer", "returned"}
TransLabels == {"setup", "failed", "av_read_frame", "avcodec_send_packet", "avcodec_receive_frame"}
               \cup EncodeLabels \cup AfterLabels

Numbers ==
    /\ avPacket \in 0..Len(Input)
    /\ packetNum \in Nat /\ picture \in Nat /\ pts \in Nat /\ errors \in Nat /\ frames \in Nat

Stored ==
    /\ codecCtx \in Seq(Nat)
    /\ m_codecCtx \in Seq(Nat \X Nat)
    /\ pkt \in SUBSET (Nat \X Nat)
    /\ file \in Seq(Nat \X Nat)

TransTypeOK == trans_pc \in TransLabels /\ Numbers /\ Stored

\* The packets of the video among the first n.
VideoIn(n) == {k \in 1..n : Input[k].stream = "video"}

\* main counts what it reads, and without an error it reads to the end.
ReadSoFar ==
    /\ packetNum = Cardinality(VideoIn(avPacket))
    /\ trans_pc \in AfterLabels /\ errors = 0 => avPacket = Len(Input)
    /\ trans_pc = "avcodec_send_packet" => avPacket >= 1

\* A codec holds more than its delay only while main has still to ask for it, or
\* has stopped asking at an error.
Delays ==
    /\ lastRet \in {"EAGAIN", "error"}
    /\ trans_pc \notin AskLabels /\ lastRet = "EAGAIN" => Len(codecCtx) <= DecoderDelay
    /\ Len(m_codecCtx) <= EncoderDelay + 1
    /\ trans_pc # "avcodec_receive_packet" => Len(m_codecCtx) <= EncoderDelay
    /\ trans_pc # "av_interleaved_write_frame" => pkt = {}
    /\ trans_pc = "av_interleaved_write_frame" => \E p \in pkt : pkt = {p}

Shape == TransTypeOK /\ ReadSoFar /\ Delays

\* How many of the frames in U come before f.
Below(U, f) == Cardinality({g \in U : g < f})

\* The frames of a packet that the decoder has refused, behind those it holds.
Refused(D) == (D + Len(codecCtx) + 1)..frames

\* The frames up to D have left the decoder, decoded or not; the decoder holds
\* the next ones, in order.  All that was sent has come to it, but for a packet
\* the decoder has refused.
Decoder(D) ==
    /\ \A k \in 1..Len(codecCtx) : codecCtx[k] = D + k
    /\ pts + Below(undecoded, D + 1) = D
    /\ D + Len(codecCtx) <= frames
    /\ trans_pc \notin AfterLabels => D + Len(codecCtx) = frames
    /\ undecoded \subseteq (1..D) \cup Refused(D) /\ Refused(D) \subseteq undecoded

LEMMA TransSizes ==
    /\ Len(Input) \in Nat /\ DOMAIN Input = 1..Len(Input)
    /\ DecoderDelay \in Nat /\ EncoderDelay \in Nat /\ MaxErrors \in Nat
<1>. DEFINE Packets == [stream : {"video", "other"}, holds : Nat]
<1>1. Input \in Seq(Packets)
  BY TranscoderAssumption
<1>. HIDE DEF Packets
<1>. QED BY <1>1, TranscoderAssumption

\* A packet carries the place of its frame among those decoded.
Right(e, D) ==
    /\ e[1] \in 1..D /\ e[1] \notin undecoded
    /\ e[2] \in 0..pts /\ e[2] + Below(undecoded, e[1]) = e[1]

Earlier(e, g) == e[1] < g[1] /\ e[2] < g[2]

\* File, packet at hand and encoder hold packets of decoded frames, in order.
Pipeline(D) ==
    /\ \A k \in 1..Len(file) : Right(file[k], D)
    /\ \A p \in pkt : Right(p, D)
    /\ \A k \in 1..Len(m_codecCtx) : Right(m_codecCtx[k], D)
    /\ \A j, k \in 1..Len(file) : j < k => Earlier(file[j], file[k])
    /\ \A j \in 1..Len(file) : \A p \in pkt : Earlier(file[j], p)
    /\ \A j \in 1..Len(file), k \in 1..Len(m_codecCtx) : Earlier(file[j], m_codecCtx[k])
    /\ \A p \in pkt : \A k \in 1..Len(m_codecCtx) : Earlier(p, m_codecCtx[k])
    /\ \A j, k \in 1..Len(m_codecCtx) : j < k => Earlier(m_codecCtx[j], m_codecCtx[k])

\* The frame just decoded comes after all of them.
Picture(D) ==
    trans_pc = "avcodec_send_frame" =>
        /\ picture = D /\ D > 0 /\ D \notin undecoded
        /\ \A k \in 1..Len(file) : Earlier(file[k], <<D, pts>>)
        /\ \A k \in 1..Len(m_codecCtx) : Earlier(m_codecCtx[k], <<D, pts>>)

\* Where a frame that has left the decoder can be.
Somewhere(f) ==
    \/ f \in undecoded \cup lost
    \/ \E k \in 1..Len(file) : file[k][1] = f
    \/ \E p \in pkt : p[1] = f
    \/ \E k \in 1..Len(m_codecCtx) : m_codecCtx[k][1] = f
    \/ trans_pc = "avcodec_send_frame" /\ picture = f

Accounted(D) == trans_program = "ffmpeg_encoder" => \A f \in 1..D : Somewhere(f)

Flow(D) == Decoder(D) /\ Pipeline(D) /\ Picture(D) /\ Accounted(D)

TransInv == Shape /\ \E D \in Nat : Flow(D)

\* Transcoder counts as this module does.
LEMMA TransCardinality == \A S : Trans!Cardinality(S) = Cardinality(S)
  BY DEF Trans!Cardinality, Cardinality, Trans!IsFiniteSet, IsFiniteSet

\* A packet read adds itself or nothing to those of the video.
LEMMA VideoInNext ==
    ASSUME NEW n \in Nat
    PROVE  /\ IsFiniteSet(VideoIn(n)) /\ Cardinality(VideoIn(n)) \in Nat
           /\ Input[n + 1].stream = "video" => Cardinality(VideoIn(n + 1)) = Cardinality(VideoIn(n)) + 1
           /\ Input[n + 1].stream # "video" => VideoIn(n + 1) = VideoIn(n)
<1>1. IsFiniteSet(VideoIn(n))
  <2>1. IsFiniteSet(1..n) /\ VideoIn(n) \subseteq 1..n
    BY FS_Interval DEF VideoIn
  <2>. QED BY <2>1, FS_Subset
<1>2. Cardinality(VideoIn(n)) \in Nat
  BY <1>1, FS_CardinalityType
<1>3. CASE Input[n + 1].stream = "video"
  <2>1. VideoIn(n + 1) = VideoIn(n) \cup {n + 1} /\ n + 1 \notin VideoIn(n)
    BY <1>3 DEF VideoIn
  <2>. QED BY <1>1, <1>2, <1>3, <2>1, FS_AddElement
<1>4. CASE Input[n + 1].stream # "video"
  <2>1. VideoIn(n + 1) = VideoIn(n)
    BY <1>4 DEF VideoIn
  <2>. QED BY <1>1, <1>2, <1>4, <2>1
<1>. QED BY <1>3, <1>4

\* What putting frames in and taking one out does to a codec.
LEMMA FramesIn ==
    ASSUME NEW s \in Seq(Nat), NEW f \in Nat, NEW n \in Nat
    PROVE  LET u == s \o [k \in 1..n |-> f + k]
           IN  /\ u \in Seq(Nat) /\ Len(s) \in Nat /\ Len(u) = Len(s) + n
               /\ \A k \in 1..Len(s) : u[k] = s[k]
               /\ \A k \in (Len(s) + 1)..(Len(s) + n) : u[k] = f + (k - Len(s))
<1>. DEFINE b == [k \in 1..n |-> f + k]
<1>1. b \in Seq(Nat) /\ Len(b) = n /\ \A k \in 1..n : b[k] = f + k
  OBVIOUS
<1>. HIDE DEF b
<1>0. b \in Seq(Nat) /\ Len(b) = n
  BY <1>1
<1>2. /\ s \o b \in Seq(Nat) /\ Len(s) \in Nat /\ Len(s \o b) = Len(s) + n
      /\ \A k \in 1..Len(s) : (s \o b)[k] = s[k]
      /\ \A k \in (Len(s) + 1)..(Len(s) + n) : (s \o b)[k] = b[k - Len(s)]
  <2>1. s \o b \in Seq(Nat) /\ Len(s) \in Nat /\ Len(s \o b) = Len(s) + n
    <3>1. s \o b \in Seq(Nat)
      BY <1>0
    <3>2. Len(s) \in Nat
      OBVIOUS
    <3>3. Len(s \o b) = Len(s) + Len(b)
      BY <1>0
    <3>. QED BY <1>0, <3>1, <3>2, <3>3
  <2>2. \A k \in 1..Len(s) : (s \o b)[k] = s[k]
    BY <1>0
  <2>3. ASSUME NEW k \in (Len(s) + 1)..(Len(s) + n) PROVE (s \o b)[k] = b[k - Len(s)]
    <3>1. k \in 1..(Len(s) + Len(b)) /\ ~ (k \in 1..Len(s))
      BY <1>0, <2>1
    <3>. QED BY <1>0, <3>1
  <2>. QED BY <2>1, <2>2, <2>3
<1>3. \A k \in (Len(s) + 1)..(Len(s) + n) : k - Len(s) \in 1..n
  BY <1>2
<1>4. \A k \in (Len(s) + 1)..(Len(s) + n) : (s \o b)[k] = f + (k - Len(s))
  BY <1>1, <1>2, <1>3
<1>5. s \o [k \in 1..n |-> f + k] = s \o b
  BY DEF b
<1>. QED BY <1>2, <1>4, <1>5

\* The packet that is sent holds a number of frames.
LEMMA PacketType ==
    ASSUME Shape, trans_pc = "avcodec_send_packet"
    PROVE  Input[avPacket].holds \in Nat
<1>1. avPacket \in 1..Len(Input)
  <2>1. avPacket \in 0..Len(Input) /\ avPacket >= 1
    BY DEF Shape, TransTypeOK, Numbers, ReadSoFar
  <2>. QED BY <2>1, TransSizes
<1>. DEFINE Packets == [stream : {"video", "other"}, holds : Nat]
<1>2. Input \in Seq(Packets)
  BY TranscoderAssumption
<1>. HIDE DEF Packets
<1>3. Input[avPacket] \in Packets
  BY <1>1, <1>2
<1>. QED BY <1>3 DEF Packets

LEMMA FramesOut ==
    ASSUME NEW s \in Seq(Nat), s # << >>
    PROVE  /\ Head(s) = s[1] /\ Head(s) \in Nat
           /\ Tail(s) \in Seq(Nat) /\ Len(s) \in Nat /\ Len(s) >= 1 /\ Len(Tail(s)) = Len(s) - 1
           /\ \A k \in 1..(Len(s) - 1) : Tail(s)[k] = s[k + 1]
  OBVIOUS

LEMMA PacketsIn ==
    ASSUME NEW s \in Seq(Nat \X Nat), NEW e \in Nat \X Nat
    PROVE  /\ Append(s, e) \in Seq(Nat \X Nat) /\ Len(s) \in Nat /\ Len(Append(s, e)) = Len(s) + 1
           /\ \A k \in 1..Len(s) : Append(s, e)[k] = s[k]
           /\ Append(s, e)[Len(s) + 1] = e
  OBVIOUS

LEMMA PacketsOut ==
    ASSUME NEW s \in Seq(Nat \X Nat), s # << >>
    PROVE  /\ Head(s) = s[1] /\ Head(s) \in Nat \X Nat
           /\ Tail(s) \in Seq(Nat \X Nat) /\ Len(s) \in Nat /\ Len(s) >= 1
           /\ Len(Tail(s)) = Len(s) - 1
           /\ \A k \in 1..(Len(s) - 1) : Tail(s)[k] = s[k + 1]
  OBVIOUS

LEMMA InitTrans == Trans!Init => TransInv
<1>. SUFFICES ASSUME Trans!Init PROVE TransInv
  OBVIOUS
<1>1. /\ trans_pc = "setup" /\ avPacket = 0 /\ packetNum = 0 /\ picture = 0 /\ pts = 0 /\ errors = 0
      /\ frames = 0 /\ lastRet = "EAGAIN" /\ codecCtx = << >> /\ m_codecCtx = << >> /\ file = << >>
      /\ pkt = {} /\ undecoded = {}
  BY DEF Trans!Init
<1>2. TransTypeOK
  BY <1>1, TransSizes DEF TransTypeOK, Numbers, Stored, TransLabels
<1>3. ReadSoFar
  <2>1. VideoIn(0) = {}
    BY DEF VideoIn
  <2>. QED BY <1>1, <2>1, FS_EmptySet DEF ReadSoFar, AfterLabels
<1>4. Delays
  BY <1>1, TransSizes DEF Delays
<1>5. Decoder(0)
  <2>1. {g \in undecoded : g < 0 + 1} = {}
    BY <1>1
  <2>2. Below(undecoded, 0 + 1) = 0
    BY <2>1, FS_EmptySet DEF Below
  <2>3. Refused(0) = {}
    BY <1>1 DEF Refused
  <2>. QED BY <1>1, <2>2, <2>3 DEF Decoder
<1>6. Pipeline(0) /\ Picture(0) /\ Accounted(0)
  BY <1>1 DEF Pipeline, Picture, Accounted
<1>. QED BY <1>2, <1>3, <1>4, <1>5, <1>6 DEF TransInv, Shape, Flow

\* Every call keeps the types, the count of what is read and the delays.
LEMMA StepShape == Shape /\ Trans!Next => Shape'
<1>. SUFFICES ASSUME Shape, Trans!Next PROVE Shape'
  OBVIOUS
<1>. USE TransSizes DEF Shape
<1>0. /\ Len(codecCtx) \in Nat /\ Len(m_codecCtx) \in Nat /\ Len(Input) \in Nat
      /\ trans_pc \in TransLabels
      /\ avPacket \in Nat /\ avPacket <= Len(Input)
      /\ packetNum \in Nat /\ picture \in Nat /\ pts \in Nat /\ errors \in Nat /\ frames \in Nat
  BY DEF TransTypeOK, Numbers, Stored
<1>1. ASSUME UNCHANGED <<codecCtx, m_codecCtx, pkt, file>>
      PROVE  Stored'
  BY <1>1 DEF TransTypeOK, Stored
<1>2. ASSUME UNCHANGED <<avPacket, packetNum>>
      PROVE  VideoIn(avPacket)' = VideoIn(avPacket)
  BY <1>2 DEF VideoIn
<1>3. ASSUME trans_pc' \notin AfterLabels \cup {"avcodec_send_packet"}, UNCHANGED <<avPacket, packetNum>>
      PROVE  ReadSoFar'
  BY <1>2, <1>3 DEF ReadSoFar
<1>4. CASE Trans!SetUp \/ Trans!SetUpTest \/ Trans!SetUpFails
  <2>1. /\ UNCHANGED <<avPacket, packetNum, codecCtx, picture, pts, m_codecCtx, pkt, file, frames, lastRet>>
        /\ errors' \in Nat /\ trans_pc = "setup" /\ trans_pc' \in {"av_read_frame", "failed"}
    BY <1>0, <1>4 DEF Trans!SetUp, Trans!SetUpTest, Trans!SetUpFails, Trans!Goto, Trans!Fails,
       Trans!codecs, Trans!sent
  <2>2. trans_pc' \in TransLabels /\ trans_pc' \notin AfterLabels \cup {"avcodec_send_packet"} /\ Numbers'
    BY <1>0, <2>1 DEF Numbers, TransLabels, AfterLabels
  <2>3. Delays'
    BY <2>1 DEF Delays, AskLabels, EncodeLabels
  <2>. QED BY <1>1, <1>3, <2>1, <2>2, <2>3 DEF TransTypeOK
<1>5. CASE Trans!ReadFrame
  <2>1. /\ avPacket < Len(Input) /\ avPacket' = avPacket + 1 /\ trans_pc = "av_read_frame"
        /\ trans_pc' \in {"av_read_frame", "avcodec_send_packet"}
        /\ IF Input[avPacket + 1].stream = "video" THEN packetNum' = packetNum + 1 ELSE packetNum' = packetNum
        /\ UNCHANGED <<codecCtx, picture, pts, m_codecCtx, pkt, file, errors, frames, lastRet>>
    BY <1>5 DEF Trans!ReadFrame, Trans!Goto, Trans!codecs, Trans!sent
  <2>2. trans_pc' \in TransLabels /\ trans_pc' \notin AfterLabels
    BY <2>1 DEF TransLabels, AfterLabels
  <2>3. Numbers'
    BY <1>0, <2>1 DEF Numbers
  <2>4. packetNum' = Cardinality(VideoIn(avPacket + 1))
    BY <1>0, <2>1, VideoInNext DEF ReadSoFar
  <2>5. VideoIn(avPacket)' = VideoIn(avPacket + 1)
    BY <2>1 DEF VideoIn
  <2>6. ReadSoFar'
    BY <1>0, <2>1, <2>2, <2>4, <2>5 DEF ReadSoFar
  <2>7. Delays'
    BY <2>1 DEF Delays, AskLabels, EncodeLabels
  <2>. QED BY <1>1, <2>1, <2>2, <2>3, <2>6, <2>7 DEF TransTypeOK
<1>6. CASE Trans!ReadEnds \/ Trans!ReadFails \/ Trans!ReceiveFrameAgain \/ Trans!WriteTrailer
           \/ Trans!ReceivePacketAgain \/ Trans!SendFrameFails \/ Trans!SendPacketFails
  <2>1. /\ UNCHANGED <<avPacket, packetNum, codecCtx, picture, pts, m_codecCtx, pkt, file>>
        /\ errors' \in {errors, errors + 1}
    BY <1>6 DEF Trans!ReadEnds, Trans!ReadFails, Trans!ReceiveFrameAgain,
       Trans!WriteTrailer, Trans!ReceivePacketAgain, Trans!SendFrameFails, Trans!SendPacketFails,
       Trans!Goto, Trans!Fails, Trans!codecs
  <2>2. /\ trans_pc' \in TransLabels \ {"avcodec_receive_packet", "av_interleaved_write_frame",
                                        "avcodec_send_packet"}
        /\ trans_pc # "av_interleaved_write_frame"
        /\ trans_pc = "avcodec_receive_packet" => Len(m_codecCtx) <= EncoderDelay
        /\ trans_pc' \in AfterLabels /\ errors' = 0 => trans_pc \in AfterLabels \/ avPacket = Len(Input)
    <3>. USE DEF TransLabels, AfterLabels, EncodeLabels, Trans!Goto, Trans!Fails, Trans!AfterLoop
    <3>1. CASE Trans!ReadEnds \/ Trans!WriteTrailer
      BY <1>0, <3>1 DEF Trans!ReadEnds, Trans!WriteTrailer
    <3>2. CASE Trans!ReadFails \/ Trans!SendPacketFails
      <4>1. /\ errors' = errors + 1 /\ trans_pc' \in {"writeTrailer", "returned"}
            /\ trans_pc \in {"av_read_frame", "avcodec_send_packet"}
        BY <3>2 DEF Trans!ReadFails, Trans!SendPacketFails
      <4>2. errors' # 0
        BY <1>0, <4>1
      <4>. QED BY <4>1, <4>2
    <3>3. CASE Trans!ReceiveFrameAgain \/ Trans!ReceivePacketAgain \/ Trans!SendFrameFails
      BY <1>0, <3>3 DEF Trans!ReceiveFrameAgain, Trans!ReceivePacketAgain, Trans!SendFrameFails
    <3>. QED BY <1>6, <3>1, <3>2, <3>3
  <2>3. \/ lastRet' = lastRet /\ trans_pc \notin AskLabels
        \/ lastRet' = lastRet /\ trans_pc' \in AskLabels
        \/ lastRet' = "EAGAIN" /\ Len(codecCtx) <= DecoderDelay
    BY <1>6 DEF AskLabels, EncodeLabels, Trans!ReadEnds, Trans!ReadFails, Trans!ReceiveFrameAgain,
       Trans!WriteTrailer, Trans!ReceivePacketAgain, Trans!SendFrameFails, Trans!SendPacketFails,
       Trans!Goto, Trans!Fails, Trans!sent
  <2>4. frames' \in Nat
    <3>1. CASE Trans!SendPacketFails
      <4>1. trans_pc = "avcodec_send_packet" /\ frames' = frames + Input[avPacket].holds
        BY <3>1 DEF Trans!SendPacketFails, Trans!Fails, Trans!Goto, Trans!FramesSent
      <4>2. Input[avPacket].holds \in Nat
        BY <4>1, PacketType
      <4>. QED BY <1>0, <4>1, <4>2
    <3>2. CASE ~ Trans!SendPacketFails
      BY <1>0, <1>6, <3>2 DEF Trans!ReadEnds, Trans!ReadFails, Trans!ReceiveFrameAgain,
         Trans!WriteTrailer, Trans!ReceivePacketAgain, Trans!SendFrameFails, Trans!sent
    <3>. QED BY <3>1, <3>2
  <2>5. Numbers'
    BY <1>0, <2>1, <2>4 DEF Numbers
  <2>6. errors' = 0 => errors = 0
    BY <1>0, <2>1
  <2>7. ReadSoFar'
    BY <1>2, <2>1, <2>2, <2>6 DEF ReadSoFar
  <2>8. Delays'
    BY <2>1, <2>2, <2>3 DEF Delays
  <2>. QED BY <1>1, <2>1, <2>2, <2>5, <2>7, <2>8 DEF TransTypeOK
<1>7. CASE Trans!SendPacket
  <2>1. /\ trans_pc = "avcodec_send_packet" /\ trans_pc' = "avcodec_receive_frame"
        /\ codecCtx' = codecCtx \o Trans!PacketFrames /\ frames' = Trans!FramesSent
        /\ UNCHANGED <<avPacket, packetNum, picture, pts, m_codecCtx, pkt, file, errors, lastRet>>
    BY <1>7 DEF Trans!SendPacket, Trans!Goto
  <2>2. codecCtx' \in Seq(Nat)
    <3>1. Input[avPacket].holds \in Nat /\ codecCtx \in Seq(Nat)
      BY <2>1, PacketType DEF TransTypeOK, Stored
    <3>2. frames \in Nat
      BY <1>0 DEF TransTypeOK, Numbers
    <3>3. codecCtx \o [k \in 1..Input[avPacket].holds |-> frames + k] \in Seq(Nat)
      BY <3>1, <3>2, FramesIn
    <3>. QED BY <2>1, <3>3 DEF Trans!PacketFrames
  <2>3. trans_pc' \in TransLabels /\ trans_pc' \notin AfterLabels \cup {"avcodec_send_packet"}
    BY <2>1 DEF TransLabels, AfterLabels
  <2>4. frames' \in Nat
    BY <1>0, <2>1, PacketType DEF Trans!FramesSent
  <2>5. Numbers'
    BY <1>0, <2>1, <2>4 DEF Numbers
  <2>6. Stored'
    BY <2>1, <2>2 DEF TransTypeOK, Stored
  <2>7. Delays'
    BY <2>1 DEF Delays, AskLabels
  <2>. QED BY <1>3, <2>1, <2>3, <2>5, <2>6, <2>7 DEF TransTypeOK
<1>8. CASE Trans!ReceiveFrame \/ Trans!CountFrame \/ Trans!ReceiveFrameFails
  <2>1. /\ trans_pc = "avcodec_receive_frame"
        /\ trans_pc' \in {"avcodec_send_frame", "avcodec_receive_frame", "av_read_frame"}
        /\ codecCtx # << >> /\ codecCtx' = Tail(codecCtx)
        /\ picture' \in {picture, Head(codecCtx)} /\ pts' \in {pts, pts + 1}
        /\ errors' \in {errors, errors + 1}
        /\ UNCHANGED <<avPacket, packetNum, m_codecCtx, pkt, file, frames>>
        /\ lastRet' = "error" \/ (lastRet' = lastRet /\ trans_pc' \in AskLabels)
    BY <1>8 DEF Trans!ReceiveFrame, Trans!CountFrame, Trans!ReceiveFrameFails, Trans!Goto, Trans!Fails,
       Trans!sent, AskLabels, EncodeLabels
  <2>2. /\ codecCtx' \in Seq(Nat) /\ Len(codecCtx') = Len(codecCtx) - 1
        /\ Head(codecCtx) \in Nat
    BY <1>0, <2>1, FramesOut DEF TransTypeOK, Stored
  <2>3. trans_pc' \in TransLabels /\ trans_pc' \notin AfterLabels \cup {"avcodec_send_packet"}
    BY <2>1 DEF TransLabels, AfterLabels, EncodeLabels
  <2>4. Numbers'
    BY <1>0, <2>1, <2>2 DEF Numbers
  <2>5. Stored'
    BY <2>1, <2>2 DEF TransTypeOK, Stored
  <2>6. Delays'
    BY <1>0, <2>1, <2>2 DEF Delays, AskLabels
  <2>. QED BY <1>3, <2>1, <2>3, <2>4, <2>5, <2>6 DEF TransTypeOK
<1>9. CASE Trans!SendFrame
  <2>1. /\ trans_pc = "avcodec_send_frame" /\ trans_pc' = "avcodec_receive_packet"
        /\ m_codecCtx' = Append(m_codecCtx, <<picture, pts>>)
        /\ UNCHANGED <<avPacket, packetNum, codecCtx, picture, pts, pkt, file, errors, frames, lastRet>>
    BY <1>9 DEF Trans!SendFrame, Trans!Goto, Trans!sent
  <2>2. m_codecCtx' \in Seq(Nat \X Nat) /\ Len(m_codecCtx') = Len(m_codecCtx) + 1
    BY <1>0, <2>1, PacketsIn DEF TransTypeOK, Stored
  <2>3. trans_pc' \in TransLabels /\ trans_pc' \notin AfterLabels \cup {"avcodec_send_packet"} /\ Numbers'
    BY <1>0, <2>1 DEF Numbers, TransLabels, AfterLabels, EncodeLabels
  <2>4. Stored'
    BY <2>1, <2>2 DEF TransTypeOK, Stored
  <2>5. Delays'
    BY <1>0, <2>1, <2>2 DEF Delays, AskLabels, EncodeLabels
  <2>. QED BY <1>3, <2>1, <2>3, <2>4, <2>5 DEF TransTypeOK
<1>10. CASE Trans!ReceivePacket \/ Trans!ReceivePacketFails
  <2>1. /\ trans_pc = "avcodec_receive_packet" /\ m_codecCtx # << >>
        /\ m_codecCtx' = Tail(m_codecCtx)
        /\ \/ trans_pc' = "av_interleaved_write_frame" /\ pkt' = {Head(m_codecCtx)}
           \/ trans_pc' = "avcodec_receive_frame" /\ pkt' = pkt
        /\ UNCHANGED <<avPacket, packetNum, codecCtx, picture, pts, file, frames, lastRet>>
        /\ errors' \in {errors, errors + 1}
    BY <1>10 DEF Trans!ReceivePacket, Trans!ReceivePacketFails, Trans!Goto, Trans!Fails, Trans!sent
  <2>2. /\ m_codecCtx' \in Seq(Nat \X Nat) /\ Len(m_codecCtx') = Len(m_codecCtx) - 1
        /\ Head(m_codecCtx) \in Nat \X Nat
    BY <1>0, <2>1, PacketsOut DEF TransTypeOK, Stored
  <2>3. trans_pc' \in TransLabels /\ trans_pc' \notin AfterLabels \cup {"avcodec_send_packet"} /\ Numbers'
    BY <1>0, <2>1 DEF Numbers, TransLabels, AfterLabels, EncodeLabels
  <2>4. Stored'
    BY <2>1, <2>2 DEF TransTypeOK, Stored
  <2>5. Len(m_codecCtx') <= EncoderDelay
    BY <1>0, <2>2 DEF Delays, AskLabels, EncodeLabels
  <2>6. Delays'
    <3>1. CASE trans_pc' = "av_interleaved_write_frame" /\ pkt' = {Head(m_codecCtx)}
      BY <1>0, <2>1, <2>5, <3>1 DEF Delays, AskLabels, EncodeLabels
    <3>2. CASE trans_pc' = "avcodec_receive_frame" /\ pkt' = pkt
      BY <1>0, <2>1, <2>5, <3>2 DEF Delays, AskLabels, EncodeLabels
    <3>. QED BY <2>1, <3>1, <3>2
  <2>. QED BY <1>3, <2>1, <2>3, <2>4, <2>6 DEF TransTypeOK
<1>11. CASE Trans!WriteFrame \/ Trans!WriteFrameFails
  <2>1. /\ trans_pc = "av_interleaved_write_frame" /\ pkt' = {}
        /\ trans_pc' \in {"avcodec_receive_packet", "avcodec_receive_frame"}
        /\ file' = file \/ \E p \in pkt : file' = Append(file, p)
        /\ UNCHANGED <<avPacket, packetNum, codecCtx, picture, pts, m_codecCtx, frames, lastRet>>
        /\ errors' \in {errors, errors + 1}
    BY <1>11 DEF Trans!WriteFrame, Trans!WriteFrameFails, Trans!Goto, Trans!Fails, Trans!sent
  <2>2. file' \in Seq(Nat \X Nat)
    <3>1. CASE file' = file
      BY <3>1 DEF TransTypeOK, Stored
    <3>2. ASSUME NEW p \in pkt, file' = Append(file, p) PROVE file' \in Seq(Nat \X Nat)
      <4>1. p \in Nat \X Nat /\ file \in Seq(Nat \X Nat)
        BY <3>2 DEF TransTypeOK, Stored
      <4>. QED BY <3>2, <4>1, PacketsIn
    <3>. QED BY <2>1, <3>1, <3>2
  <2>3. trans_pc' \in TransLabels /\ trans_pc' \notin AfterLabels \cup {"avcodec_send_packet"} /\ Numbers'
    BY <1>0, <2>1 DEF Numbers, TransLabels, AfterLabels, EncodeLabels
  <2>4. Stored'
    BY <2>1, <2>2 DEF TransTypeOK, Stored
  <2>5. Delays'
    BY <1>0, <2>1 DEF Delays, AskLabels, EncodeLabels
  <2>. QED BY <1>3, <2>1, <2>3, <2>4, <2>5 DEF TransTypeOK
<1>. QED
  BY <1>4, <1>5, <1>6, <1>7, <1>8, <1>9, <1>10, <1>11 DEF Trans!Next, Trans!Main, Trans!Encode

\* How the count of frames below another grows.
LEMMA BelowGrows ==
    ASSUME NEW U \in SUBSET Nat, IsFiniteSet(U), NEW x \in Nat, x \notin U, NEW f \in Nat
    PROVE  /\ Below(U, f) \in Nat
           /\ f <= x => Below(U \cup {x}, f) = Below(U, f)
           /\ f > x => Below(U \cup {x}, f) = Below(U, f) + 1
           /\ Below(U, x + 1) = Below(U, x)
<1>. DEFINE B == {g \in U : g < f}
<1>1. IsFiniteSet(B)
  BY FS_Subset
<1>2. Cardinality(B) \in Nat
  BY <1>1, FS_CardinalityType
<1>3. ASSUME f <= x PROVE Below(U \cup {x}, f) = Below(U, f)
  <2>1. {g \in U \cup {x} : g < f} = B
    BY <1>3
  <2>. QED BY <2>1 DEF Below
<1>4. ASSUME f > x PROVE Below(U \cup {x}, f) = Below(U, f) + 1
  <2>1. {g \in U \cup {x} : g < f} = B \cup {x} /\ x \notin B
    BY <1>4
  <2>2. Cardinality(B \cup {x}) = Cardinality(B) + 1
    BY <1>1, <2>1, FS_AddElement
  <2>. QED BY <2>1, <2>2 DEF Below
<1>5. Below(U, x + 1) = Below(U, x)
  <2>1. \A g \in U : g < x + 1 <=> g < x
    OBVIOUS
  <2>2. {g \in U : g < x + 1} = {g \in U : g < x}
    BY <2>1
  <2>. QED BY <2>2 DEF Below
<1>6. Below(U, f) \in Nat
  BY <1>2 DEF Below
<1>. QED BY <1>3, <1>4, <1>5, <1>6

LEMMA BelowSame ==
    ASSUME NEW U \in SUBSET Nat, NEW X \in SUBSET Nat, NEW f \in Nat, \A x \in X : f <= x
    PROVE  Below(U \cup X, f) = Below(U, f)
<1>1. \A x \in X : ~ (x < f)
  OBVIOUS
<1>2. {g \in U \cup X : g < f} = {g \in U : g < f}
  BY <1>1
<1>. QED BY <1>2 DEF Below

LEMMA BelowAll ==
    ASSUME NEW D \in Nat, NEW U \in SUBSET (1..D)
    PROVE  IsFiniteSet(U) /\ Below(U, D + 1) = Cardinality(U)
<1>1. IsFiniteSet(1..D)
  BY FS_Interval
<1>2. {g \in U : g < D + 1} = U
  <2>1. \A g \in U : g < D + 1
    OBVIOUS
  <2>. QED BY <2>1
<1>. QED BY <1>1, <1>2, FS_Subset DEF Below

\* What the actions need of the frames at hand.
LEMMA FrameFacts ==
    ASSUME Shape, NEW D \in Nat, Decoder(D)
    PROVE  /\ IsFiniteSet(undecoded) /\ undecoded \in SUBSET Nat
           /\ Len(codecCtx) \in Nat /\ Len(m_codecCtx) \in Nat /\ Len(file) \in Nat
           /\ pts \in Nat /\ frames \in Nat /\ frames >= D /\ D + Len(codecCtx) <= frames
           /\ trans_pc \notin AfterLabels =>
                 D + Len(codecCtx) = frames /\ Refused(D) = {} /\ undecoded \subseteq 1..D
<1>1. /\ Len(codecCtx) \in Nat /\ Len(m_codecCtx) \in Nat /\ Len(file) \in Nat
      /\ pts \in Nat /\ frames \in Nat
  BY DEF Shape, TransTypeOK, Numbers, Stored
<1>2. D + Len(codecCtx) <= frames /\ frames >= D
  BY <1>1 DEF Decoder
<1>3. undecoded \subseteq 1..frames
  <2>1. (1..D) \cup Refused(D) \subseteq 1..frames
    BY <1>1, <1>2 DEF Refused
  <2>. QED BY <2>1 DEF Decoder
<1>4. IsFiniteSet(1..frames)
  BY <1>1, FS_Interval
<1>5. IsFiniteSet(undecoded) /\ undecoded \in SUBSET Nat
  <2>1. 1..frames \subseteq Nat
    BY <1>1
  <2>. QED BY <1>3, <1>4, <2>1, FS_Subset
<1>6. ASSUME trans_pc \notin AfterLabels
      PROVE  D + Len(codecCtx) = frames /\ Refused(D) = {} /\ undecoded \subseteq 1..D
  <2>1. D + Len(codecCtx) = frames
    BY <1>6 DEF Decoder
  <2>2. Refused(D) = {}
    BY <1>1, <2>1 DEF Refused
  <2>. QED BY <2>1, <2>2 DEF Decoder
<1>. QED BY <1>1, <1>2, <1>5, <1>6

\* A packet that was right stays right while later frames leave the decoder.
LEMMA RightStays ==
    ASSUME Shape, NEW D \in Nat, Decoder(D), NEW E \in Nat, E >= D, pts' \in Nat, pts' >= pts,
           NEW X \in SUBSET Nat, \A x \in X : x > D, undecoded' = undecoded \cup X,
           NEW e, Right(e, D)
    PROVE  e[1] \in 1..E /\ e[1] \notin undecoded' /\ e[2] \in 0..pts'
           /\ e[2] + Below(undecoded', e[1]) = e[1]
<1>1. e[1] \in 1..D /\ e[1] \notin undecoded /\ e[2] \in 0..pts /\ pts \in Nat
      /\ e[2] + Below(undecoded, e[1]) = e[1]
  BY FrameFacts DEF Right
<1>2. e[1] \in Nat /\ e[1] \notin X /\ \A x \in X : e[1] <= x
  BY <1>1
<1>4. undecoded \in SUBSET Nat
  BY FrameFacts
<1>3. Below(undecoded', e[1]) = Below(undecoded, e[1])
  BY <1>2, <1>4, BelowSame
<1>. QED BY <1>1, <1>2, <1>3

LEMMA PipelineStays ==
    ASSUME Shape, NEW D \in Nat, Decoder(D), NEW E \in Nat, E >= D, pts' \in Nat, pts' >= pts,
           undecoded' = undecoded \/
              \E X \in SUBSET Nat : (\A x \in X : x > D) /\ undecoded' = undecoded \cup X,
           UNCHANGED <<file, pkt, m_codecCtx>>, Pipeline(D)
    PROVE  Pipeline(E)'
<1>0. PICK X \in SUBSET Nat : (\A x \in X : x > D) /\ undecoded' = undecoded \cup X
  <2>1. CASE undecoded' = undecoded
    <3>1. undecoded' = undecoded \cup {} /\ {} \in SUBSET Nat
      BY <2>1
    <3>. QED BY <3>1
  <2>. QED BY <2>1
<1>1. ASSUME NEW k \in 1..Len(file) PROVE Right(file[k], E)'
  <2>1. Right(file[k], D)
    BY DEF Pipeline
  <2>. QED BY <1>0, <2>1, RightStays DEF Right
<1>2. ASSUME NEW p \in pkt PROVE Right(p, E)'
  <2>1. Right(p, D)
    BY DEF Pipeline
  <2>. QED BY <1>0, <2>1, RightStays DEF Right
<1>3. ASSUME NEW k \in 1..Len(m_codecCtx) PROVE Right(m_codecCtx[k], E)'
  <2>1. Right(m_codecCtx[k], D)
    BY DEF Pipeline
  <2>. QED BY <1>0, <2>1, RightStays DEF Right
<1>. QED BY <1>1, <1>2, <1>3 DEF Pipeline, Earlier

\* The actions that leave the frames where they are.
LEMMA FlowStill ==
    ASSUME Shape, NEW D \in Nat, Flow(D),
           UNCHANGED <<frames, codecCtx, picture, pts, m_codecCtx, pkt, file, undecoded, lost,
                       trans_program>>,
           {trans_pc, trans_pc'} \cap {"avcodec_send_frame"} = {},
           trans_pc \in AfterLabels => trans_pc' \in AfterLabels
    PROVE  Flow(D)'
<1>1. Decoder(D) /\ Pipeline(D) /\ Accounted(D) /\ pts' \in Nat /\ pts' >= pts
  BY FrameFacts DEF Flow
<1>2. Decoder(D)'
  BY <1>1 DEF Decoder, Refused
<1>3. Pipeline(D)'
  BY <1>1, PipelineStays
<1>4. Picture(D)'
  BY DEF Picture
<1>5. Accounted(D)'
  BY <1>1 DEF Accounted, Somewhere
<1>. QED BY <1>2, <1>3, <1>4, <1>5 DEF Flow

\* The frames of the packet at hand go into the decoder, after all that it holds.
LEMMA FlowSend ==
    ASSUME Shape, NEW D \in Nat, Flow(D), Trans!SendPacket
    PROVE  Flow(D)'
<1>. DEFINE n == Input[avPacket].holds
<1>1. /\ trans_pc = "avcodec_send_packet" /\ trans_pc' = "avcodec_receive_frame"
      /\ trans_pc' \notin AfterLabels
      /\ codecCtx' = codecCtx \o [k \in 1..n |-> frames + k] /\ frames' = frames + n
      /\ UNCHANGED <<picture, pts, m_codecCtx, pkt, file, undecoded, lost, trans_program>>
  BY DEF Trans!SendPacket, Trans!Goto, Trans!PacketFrames, Trans!FramesSent, AfterLabels
<1>2. Decoder(D) /\ Pipeline(D) /\ Accounted(D) /\ pts' \in Nat /\ pts' >= pts
  BY <1>1, FrameFacts DEF Flow
<1>3. n \in Nat /\ frames \in Nat /\ codecCtx \in Seq(Nat)
  BY <1>1, PacketType DEF Shape, TransTypeOK, Numbers, Stored
<1>. HIDE DEF n
<1>4. /\ Len(codecCtx') = Len(codecCtx) + n /\ Len(codecCtx) \in Nat
      /\ \A k \in 1..Len(codecCtx) : codecCtx'[k] = codecCtx[k]
      /\ \A k \in (Len(codecCtx) + 1)..(Len(codecCtx) + n) :
            codecCtx'[k] = frames + (k - Len(codecCtx))
  BY <1>1, <1>3, FramesIn
<1>5. Decoder(D)'
  <2>1. D + Len(codecCtx) = frames /\ undecoded \subseteq 1..D
    BY <1>1, <1>2, FrameFacts DEF AfterLabels
  <2>2. ASSUME NEW k \in 1..(Len(codecCtx) + n) PROVE codecCtx'[k] = D + k
    <3>1. CASE k \in (Len(codecCtx) + 1)..(Len(codecCtx) + n)
      <4>1. codecCtx'[k] = frames + (k - Len(codecCtx))
        BY <1>4, <3>1
      <4>2. k \in Nat /\ Len(codecCtx) \in Nat /\ frames = D + Len(codecCtx)
        BY <1>4, <2>1, <2>2
      <4>. QED BY <4>1, <4>2
    <3>2. CASE k \in 1..Len(codecCtx)
      BY <1>2, <1>4, <3>2 DEF Decoder
    <3>. QED BY <1>3, <1>4, <3>1, <3>2
  <2>3. pts' + Below(undecoded', D + 1) = D
    BY <1>1, <1>2 DEF Decoder
  <2>4. D + Len(codecCtx') = frames' /\ frames' \in Nat
    <3>1. frames' = frames + n /\ Len(codecCtx') = Len(codecCtx) + n
      BY <1>1, <1>4
    <3>. QED BY <1>3, <1>4, <2>1, <3>1
  <2>5. Refused(D)' = {}
    BY <1>4, <2>4 DEF Refused
  <2>6. \A k \in 1..Len(codecCtx') : codecCtx'[k] = D + k
    BY <1>4, <2>2
  <2>7. undecoded' \subseteq (1..D) \cup Refused(D)' /\ Refused(D)' \subseteq undecoded'
    BY <1>1, <2>1, <2>5
  <2>8. D + Len(codecCtx') <= frames'
    BY <2>4
  <2>. QED BY <2>3, <2>4, <2>6, <2>7, <2>8 DEF Decoder
<1>6. Pipeline(D)'
  BY <1>1, <1>2, PipelineStays
<1>7. Picture(D)' /\ Accounted(D)'
  BY <1>1, <1>2 DEF Picture, Accounted, Somewhere
<1>. QED BY <1>5, <1>6, <1>7 DEF Flow

\* A packet that the decoder refuses is the last one sent.
LEMMA FlowSendFails ==
    ASSUME Shape, NEW D \in Nat, Flow(D), Trans!SendPacketFails
    PROVE  Flow(D)'
<1>. DEFINE X == (frames + 1)..frames'
<1>1. /\ trans_pc = "avcodec_send_packet" /\ trans_pc' \in AfterLabels
      /\ undecoded' = undecoded \cup X /\ frames' = frames + Input[avPacket].holds
      /\ UNCHANGED <<codecCtx, picture, pts, m_codecCtx, pkt, file, lost, trans_program>>
  BY DEF Trans!SendPacketFails, Trans!Fails, Trans!Goto, Trans!AfterLoop, Trans!codecs, AfterLabels,
     Trans!FramesSent
<1>2. Decoder(D) /\ Pipeline(D) /\ Accounted(D) /\ pts' \in Nat /\ pts' >= pts
  BY <1>1, FrameFacts DEF Flow
<1>3. /\ D + Len(codecCtx) = frames /\ undecoded \subseteq 1..D /\ Len(codecCtx) \in Nat
      /\ frames \in Nat
  BY <1>1, <1>2, FrameFacts DEF AfterLabels
<1>4. frames' \in Nat /\ frames' >= frames
  <2>1. Input[avPacket].holds \in Nat
    BY <1>1, PacketType
  <2>. QED BY <1>1, <1>3, <2>1
<1>5. X \in SUBSET Nat /\ (\A x \in X : x > D) /\ (\A x \in X : D + 1 <= x)
  <2>1. \A x \in X : x \in Nat /\ x > D /\ D + 1 <= x
    BY <1>3, <1>4
  <2>. QED BY <2>1
<1>6. Refused(D)' = X
  BY <1>1, <1>3 DEF Refused
<1>. HIDE DEF X
<1>7. Decoder(D)'
  <2>1. Below(undecoded', D + 1) = Below(undecoded, D + 1)
    <3>1. D + 1 \in Nat /\ undecoded \in SUBSET Nat
      BY <1>2, FrameFacts
    <3>2. Below(undecoded \cup X, D + 1) = Below(undecoded, D + 1)
      BY <1>5, <3>1, BelowSame
    <3>. QED BY <1>1, <3>2
  <2>2. pts' + Below(undecoded', D + 1) = D /\ \A k \in 1..Len(codecCtx') : codecCtx'[k] = D + k
    BY <1>1, <1>2, <2>1 DEF Decoder
  <2>3. D + Len(codecCtx') <= frames'
    BY <1>1, <1>3, <1>4
  <2>4. undecoded' \subseteq (1..D) \cup Refused(D)' /\ Refused(D)' \subseteq undecoded'
    BY <1>1, <1>3, <1>6
  <2>. QED BY <1>1, <2>2, <2>3, <2>4 DEF Decoder
<1>8. Pipeline(D)'
  <2>1. \E Y \in SUBSET Nat : (\A x \in Y : x > D) /\ undecoded' = undecoded \cup Y
    BY <1>1, <1>5
  <2>. QED BY <1>1, <1>2, <2>1, PipelineStays
<1>9. trans_pc' # "avcodec_send_frame"
  BY <1>1 DEF AfterLabels
<1>10. Picture(D)' /\ Accounted(D)'
  BY <1>1, <1>2, <1>9 DEF Picture, Accounted, Somewhere
<1>. QED BY <1>7, <1>8, <1>10 DEF Flow

\* What taking the next frame out of the decoder does to those it holds.
LEMMA NextFrame ==
    ASSUME Shape, NEW D \in Nat, Decoder(D), codecCtx # << >>, codecCtx' = Tail(codecCtx),
           trans_pc = "avcodec_receive_frame"
    PROVE  /\ Head(codecCtx) = D + 1 /\ D + 1 \notin undecoded /\ undecoded \subseteq 1..D
           /\ Len(codecCtx') \in Nat /\ D + 1 + Len(codecCtx') = frames
           /\ \A k \in 1..Len(codecCtx') : codecCtx'[k] = D + 1 + k
           /\ Below(undecoded, D + 1) \in Nat
           /\ Below(undecoded, D + 2) = Below(undecoded, D + 1)
           /\ Below(undecoded \cup {D + 1}, D + 2) = Below(undecoded, D + 1) + 1
<1>1. /\ codecCtx \in Seq(Nat) /\ Len(codecCtx) \in Nat
      /\ undecoded \subseteq 1..D /\ D + Len(codecCtx) = frames
      /\ undecoded \in SUBSET Nat /\ IsFiniteSet(undecoded)
  BY FrameFacts DEF AfterLabels, Shape, TransTypeOK, Stored
<1>2. /\ Head(codecCtx) = codecCtx[1] /\ Len(codecCtx) >= 1
      /\ Len(codecCtx') = Len(codecCtx) - 1
      /\ \A k \in 1..(Len(codecCtx) - 1) : codecCtx'[k] = codecCtx[k + 1]
  BY <1>1, FramesOut
<1>3. D + 1 \notin undecoded /\ D + 1 \in Nat /\ D + 2 \in Nat /\ D + 2 > D + 1
  BY <1>1
<1>4. /\ Below(undecoded, D + 1) \in Nat
      /\ Below(undecoded, (D + 1) + 1) = Below(undecoded, D + 1)
  BY <1>1, <1>3, BelowGrows
<1>5. Below(undecoded \cup {D + 1}, D + 2) = Below(undecoded, D + 2) + 1
  BY <1>1, <1>3, BelowGrows
<1>6. (D + 1) + 1 = D + 2
  OBVIOUS
<1>7. Head(codecCtx) = D + 1
  BY <1>1, <1>2 DEF Decoder
<1>8. ASSUME NEW k \in 1..Len(codecCtx') PROVE codecCtx'[k] = D + 1 + k
  <2>1. k + 1 \in 1..Len(codecCtx) /\ codecCtx'[k] = codecCtx[k + 1]
    BY <1>1, <1>2
  <2>. QED BY <2>1 DEF Decoder
<1>. QED BY <1>1, <1>2, <1>3, <1>4, <1>5, <1>6, <1>7, <1>8

\* In the loop over the packets all that was sent is in the decoder or past it.
LEMMA AllSent ==
    ASSUME NEW D \in Nat, frames' \in Nat, Len(codecCtx') \in Nat, D + 1 + Len(codecCtx') = frames',
           \A k \in 1..Len(codecCtx') : codecCtx'[k] = D + 1 + k,
           pts' + Below(undecoded', (D + 1) + 1) = D + 1, undecoded' \subseteq 1..(D + 1)
    PROVE  Decoder(D + 1)'
<1>1. Refused(D + 1)' = {}
  BY DEF Refused
<1>. QED BY <1>1 DEF Decoder

\* The next frame is decoded and scaled.
LEMMA FlowReceive ==
    ASSUME Shape, NEW D \in Nat, Flow(D), Trans!ReceiveFrame
    PROVE  Flow(D + 1)'
<1>1. /\ trans_pc = "avcodec_receive_frame" /\ trans_pc' = "avcodec_send_frame"
      /\ codecCtx # << >> /\ codecCtx' = Tail(codecCtx)
      /\ picture' = Head(codecCtx) /\ pts' = pts + 1
      /\ UNCHANGED <<frames, m_codecCtx, pkt, file, undecoded, lost, trans_program>>
  BY DEF Trans!ReceiveFrame, Trans!Goto, Trans!sent
<1>2. Decoder(D) /\ Pipeline(D) /\ Accounted(D) /\ pts \in Nat /\ pts' \in Nat /\ pts' >= pts
  BY <1>1, FrameFacts DEF Flow
<1>3. /\ picture' = D + 1 /\ D + 1 \notin undecoded /\ undecoded \subseteq 1..D
      /\ Len(codecCtx') \in Nat /\ D + 1 + Len(codecCtx') = frames
      /\ \A k \in 1..Len(codecCtx') : codecCtx'[k] = D + 1 + k
      /\ Below(undecoded, D + 1) \in Nat
      /\ Below(undecoded, D + 2) = Below(undecoded, D + 1)
  BY <1>1, <1>2, NextFrame
<1>4. Decoder(D + 1)'
  <2>1. pts' + Below(undecoded', (D + 1) + 1) = D + 1
    <3>1. pts + Below(undecoded, D + 1) = D /\ (D + 1) + 1 = D + 2
      BY <1>2 DEF Decoder
    <3>. QED BY <1>1, <1>2, <1>3, <3>1
  <2>. QED BY <1>1, <1>3, <2>1, AllSent
<1>5. Pipeline(D + 1)'
  BY <1>1, <1>2, PipelineStays
<1>6. Picture(D + 1)'
  <2>1. ASSUME NEW e, Right(e, D) PROVE Earlier(e, <<D + 1, pts + 1>>)
    BY <1>2, <2>1 DEF Right, Earlier
  <2>2. /\ \A k \in 1..Len(file) : Earlier(file[k], <<D + 1, pts + 1>>)
        /\ \A k \in 1..Len(m_codecCtx) : Earlier(m_codecCtx[k], <<D + 1, pts + 1>>)
    BY <1>2, <2>1 DEF Pipeline
  <2>. QED BY <1>1, <1>3, <2>2 DEF Picture, Earlier
<1>7. Accounted(D + 1)'
  <2>1. ASSUME trans_program = "ffmpeg_encoder", NEW f \in 1..D PROVE Somewhere(f)'
    BY <1>1, <1>2, <2>1 DEF Accounted, Somewhere
  <2>2. Somewhere(D + 1)'
    BY <1>1, <1>3 DEF Somewhere
  <2>3. \A f \in 1..(D + 1) : f \in 1..D \/ f = D + 1
    OBVIOUS
  <2>. QED BY <1>1, <2>1, <2>2, <2>3 DEF Accounted
<1>. QED BY <1>4, <1>5, <1>6, <1>7 DEF Flow

\* In the program without an encoder it is only counted.
LEMMA FlowCount ==
    ASSUME Shape, NEW D \in Nat, Flow(D), Trans!CountFrame
    PROVE  Flow(D + 1)'
<1>1. /\ trans_pc = "avcodec_receive_frame" /\ trans_pc' = "avcodec_receive_frame"
      /\ codecCtx # << >> /\ codecCtx' = Tail(codecCtx)
      /\ pts' = pts + 1 /\ trans_program = "ffmpeg_test"
      /\ UNCHANGED <<frames, m_codecCtx, pkt, file, undecoded, lost, trans_program>>
  BY DEF Trans!CountFrame, Trans!Goto, Trans!sent
<1>2. Decoder(D) /\ Pipeline(D) /\ pts \in Nat /\ pts' \in Nat /\ pts' >= pts
  BY <1>1, FrameFacts DEF Flow
<1>3. /\ D + 1 \notin undecoded /\ undecoded \subseteq 1..D
      /\ Len(codecCtx') \in Nat /\ D + 1 + Len(codecCtx') = frames
      /\ \A k \in 1..Len(codecCtx') : codecCtx'[k] = D + 1 + k
      /\ Below(undecoded, D + 1) \in Nat
      /\ Below(undecoded, D + 2) = Below(undecoded, D + 1)
  BY <1>1, <1>2, NextFrame
<1>4. Decoder(D + 1)'
  <2>1. pts' + Below(undecoded', (D + 1) + 1) = D + 1
    <3>1. pts + Below(undecoded, D + 1) = D /\ (D + 1) + 1 = D + 2
      BY <1>2 DEF Decoder
    <3>. QED BY <1>1, <1>2, <1>3, <3>1
  <2>. QED BY <1>1, <1>3, <2>1, AllSent
<1>5. Pipeline(D + 1)'
  BY <1>1, <1>2, PipelineStays
<1>6. Picture(D + 1)' /\ Accounted(D + 1)'
  BY <1>1 DEF Picture, Accounted
<1>. QED BY <1>4, <1>5, <1>6 DEF Flow

\* The next frame cannot be decoded: from here on every pts is one place behind.
LEMMA FlowReceiveFails ==
    ASSUME Shape, NEW D \in Nat, Flow(D), Trans!ReceiveFrameFails
    PROVE  Flow(D + 1)'
<1>1. /\ trans_pc = "avcodec_receive_frame" /\ trans_pc' = "av_read_frame"
      /\ codecCtx # << >> /\ codecCtx' = Tail(codecCtx)
      /\ undecoded' = undecoded \cup {Head(codecCtx)}
      /\ UNCHANGED <<frames, picture, pts, m_codecCtx, pkt, file, lost, trans_program>>
  BY DEF Trans!ReceiveFrameFails, Trans!Fails, Trans!Goto
<1>2. Decoder(D) /\ Pipeline(D) /\ Accounted(D) /\ pts \in Nat /\ pts' \in Nat /\ pts' >= pts
  BY <1>1, FrameFacts DEF Flow
<1>3. /\ undecoded' = undecoded \cup {D + 1} /\ D + 1 \notin undecoded /\ undecoded \subseteq 1..D
      /\ Len(codecCtx') \in Nat /\ D + 1 + Len(codecCtx') = frames
      /\ \A k \in 1..Len(codecCtx') : codecCtx'[k] = D + 1 + k
      /\ Below(undecoded, D + 1) \in Nat
      /\ Below(undecoded \cup {D + 1}, D + 2) = Below(undecoded, D + 1) + 1
  BY <1>1, <1>2, NextFrame
<1>4. Decoder(D + 1)'
  <2>1. pts' + Below(undecoded', (D + 1) + 1) = D + 1
    <3>1. pts + Below(undecoded, D + 1) = D /\ (D + 1) + 1 = D + 2
      BY <1>2 DEF Decoder
    <3>2. Below(undecoded', (D + 1) + 1) = Below(undecoded, D + 1) + 1
      BY <1>3, <3>1
    <3>. QED BY <1>1, <1>2, <1>3, <3>1, <3>2
  <2>2. undecoded' \subseteq 1..(D + 1)
    BY <1>3
  <2>3. frames' \in Nat /\ D + 1 + Len(codecCtx') = frames'
    BY <1>1, <1>2, <1>3, FrameFacts
  <2>. QED BY <1>3, <2>1, <2>2, <2>3, AllSent
<1>5. Pipeline(D + 1)'
  <2>1. D + 1 \in Nat /\ D + 1 >= D /\ {D + 1} \in SUBSET Nat /\ \A x \in {D + 1} : x > D
    OBVIOUS
  <2>2. \E X \in SUBSET Nat : (\A x \in X : x > D) /\ undecoded' = undecoded \cup X
    BY <1>3, <2>1
  <2>. QED BY <1>1, <1>2, <2>1, <2>2, PipelineStays
<1>6. Picture(D + 1)'
  BY <1>1 DEF Picture
<1>7. Accounted(D + 1)'
  <2>1. ASSUME trans_program = "ffmpeg_encoder", NEW f \in 1..D PROVE Somewhere(f)'
    BY <1>1, <1>2, <2>1 DEF Accounted, Somewhere
  <2>2. Somewhere(D + 1)'
    BY <1>3 DEF Somewhere
  <2>3. \A f \in 1..(D + 1) : f \in 1..D \/ f = D + 1
    OBVIOUS
  <2>. QED BY <1>1, <2>1, <2>2, <2>3 DEF Accounted
<1>. QED BY <1>4, <1>5, <1>6, <1>7 DEF Flow

\* The frame just decoded is the last in the encoder.
LEMMA FlowSendFrame ==
    ASSUME Shape, NEW D \in Nat, Flow(D), Trans!SendFrame
    PROVE  Flow(D)'
<1>1. /\ trans_pc = "avcodec_send_frame" /\ trans_pc' = "avcodec_receive_packet"
      /\ m_codecCtx' = Append(m_codecCtx, <<picture, pts>>)
      /\ UNCHANGED <<frames, codecCtx, picture, pts, pkt, file, undecoded, lost, trans_program>>
  BY DEF Trans!SendFrame, Trans!Goto, Trans!sent
<1>2. /\ Decoder(D) /\ Pipeline(D) /\ Picture(D) /\ Accounted(D)
      /\ pts \in Nat /\ undecoded \in SUBSET Nat /\ IsFiniteSet(undecoded)
  BY FrameFacts DEF Flow
<1>3. /\ picture = D /\ D > 0 /\ D \notin undecoded /\ pkt = {}
      /\ \A k \in 1..Len(file) : Earlier(file[k], <<D, pts>>)
      /\ \A k \in 1..Len(m_codecCtx) : Earlier(m_codecCtx[k], <<D, pts>>)
  BY <1>1, <1>2 DEF Picture, Shape, Delays
<1>4. /\ Len(m_codecCtx) \in Nat /\ Len(m_codecCtx') = Len(m_codecCtx) + 1
      /\ \A k \in 1..Len(m_codecCtx) : m_codecCtx'[k] = m_codecCtx[k]
      /\ m_codecCtx'[Len(m_codecCtx) + 1] = <<D, pts>>
  <2>1. m_codecCtx \in Seq(Nat \X Nat) /\ <<D, pts>> \in Nat \X Nat
    BY <1>2 DEF Shape, TransTypeOK, Stored
  <2>. QED BY <1>1, <1>3, <2>1, PacketsIn
<1>5. \A k \in 1..Len(m_codecCtx') : k \in 1..Len(m_codecCtx) \/ k = Len(m_codecCtx) + 1
  BY <1>4
<1>6. Decoder(D)'
  BY <1>1, <1>2 DEF Decoder, Refused, AfterLabels
<1>7. Right(<<D, pts>>, D)
  <2>1. Below(undecoded, D + 1) = Below(undecoded, D)
    BY <1>2, <1>3, BelowGrows
  <2>2. pts + Below(undecoded, D) = D
    BY <1>2, <2>1 DEF Decoder
  <2>. QED BY <1>2, <1>3, <2>2 DEF Right
<1>8. Pipeline(D)'
  <2>1. ASSUME NEW k \in 1..Len(m_codecCtx') PROVE Right(m_codecCtx'[k], D)
    BY <1>2, <1>4, <1>5, <1>7 DEF Pipeline
  <2>2. ASSUME NEW j \in 1..Len(file), NEW k \in 1..Len(m_codecCtx')
        PROVE  Earlier(file[j], m_codecCtx'[k])
    BY <1>2, <1>3, <1>4, <1>5 DEF Pipeline
  <2>3. ASSUME NEW j \in 1..Len(m_codecCtx'), NEW k \in 1..Len(m_codecCtx'), j < k
        PROVE  Earlier(m_codecCtx'[j], m_codecCtx'[k])
    <3>1. j \in 1..Len(m_codecCtx)
      BY <1>4, <2>3
    <3>. QED BY <1>2, <1>3, <1>4, <1>5, <2>3, <3>1 DEF Pipeline
  <2>. QED BY <1>1, <1>2, <1>3, <2>1, <2>2, <2>3 DEF Pipeline, Right, Earlier
<1>9. Accounted(D)'
  <2>1. ASSUME trans_program = "ffmpeg_encoder", NEW f \in 1..D PROVE Somewhere(f)'
    <3>1. CASE f = D
      <4>1. Len(m_codecCtx) + 1 \in 1..Len(m_codecCtx') /\ m_codecCtx'[Len(m_codecCtx) + 1][1] = D
        BY <1>4
      <4>. QED BY <3>1, <4>1 DEF Somewhere
    <3>2. CASE \E k \in 1..Len(m_codecCtx) : m_codecCtx[k][1] = f
      <4>1. PICK k \in 1..Len(m_codecCtx) : m_codecCtx[k][1] = f
        BY <3>2
      <4>2. k \in 1..Len(m_codecCtx') /\ m_codecCtx'[k][1] = f
        BY <1>4, <4>1
      <4>. QED BY <4>2 DEF Somewhere
    <3>3. CASE f \in undecoded \cup lost \/ \E k \in 1..Len(file) : file[k][1] = f
      BY <1>1, <3>3 DEF Somewhere
    <3>. QED BY <1>2, <1>3, <2>1, <3>1, <3>2, <3>3 DEF Accounted, Somewhere
  <2>. QED BY <1>1, <2>1 DEF Accounted
<1>10. Picture(D)'
  BY <1>1 DEF Picture
<1>. QED BY <1>6, <1>8, <1>9, <1>10 DEF Flow

\* A frame that the encoder refuses is lost.
LEMMA FlowSendFrameFails ==
    ASSUME Shape, NEW D \in Nat, Flow(D), Trans!SendFrameFails
    PROVE  Flow(D)'
<1>1. /\ trans_pc = "avcodec_send_frame" /\ trans_pc' = "avcodec_receive_frame"
      /\ lost' = lost \cup {picture}
      /\ UNCHANGED <<frames, codecCtx, picture, pts, m_codecCtx, pkt, file, undecoded, trans_program>>
  BY DEF Trans!SendFrameFails, Trans!Fails, Trans!Goto, Trans!codecs, Trans!sent
<1>2. Decoder(D) /\ Pipeline(D) /\ Accounted(D) /\ pts' \in Nat /\ pts' >= pts
  BY <1>1, FrameFacts DEF Flow
<1>3. Decoder(D)'
  BY <1>1, <1>2 DEF Decoder, Refused, AfterLabels
<1>4. Pipeline(D)'
  BY <1>1, <1>2, PipelineStays
<1>5. Picture(D)' /\ Accounted(D)'
  BY <1>1, <1>2 DEF Picture, Accounted, Somewhere
<1>. QED BY <1>3, <1>4, <1>5 DEF Flow

\* What taking the first packet out of the encoder leaves in it.
LEMMA NextPacket ==
    ASSUME Shape, NEW D \in Nat, Pipeline(D), m_codecCtx # << >>, m_codecCtx' = Tail(m_codecCtx)
    PROVE  /\ Len(m_codecCtx) \in Nat /\ 1 \in 1..Len(m_codecCtx)
           /\ Head(m_codecCtx) = m_codecCtx[1]
           /\ \A k \in 1..Len(m_codecCtx') :
                 /\ k + 1 \in 1..Len(m_codecCtx) /\ m_codecCtx'[k] = m_codecCtx[k + 1]
                 /\ Right(m_codecCtx'[k], D) /\ Earlier(m_codecCtx[1], m_codecCtx'[k])
                 /\ \A j \in 1..Len(file) : Earlier(file[j], m_codecCtx'[k])
           /\ \A j, k \in 1..Len(m_codecCtx') : j < k => Earlier(m_codecCtx'[j], m_codecCtx'[k])
           /\ \A k \in 1..Len(m_codecCtx) :
                 k = 1 \/ (k - 1 \in 1..Len(m_codecCtx') /\ m_codecCtx'[k - 1] = m_codecCtx[k])
<1>1. m_codecCtx \in Seq(Nat \X Nat)
  BY DEF Shape, TransTypeOK, Stored
<1>2. /\ Len(m_codecCtx) \in Nat /\ Len(m_codecCtx) >= 1 /\ Len(m_codecCtx') = Len(m_codecCtx) - 1
      /\ Head(m_codecCtx) = m_codecCtx[1]
      /\ \A k \in 1..(Len(m_codecCtx) - 1) : m_codecCtx'[k] = m_codecCtx[k + 1]
  BY <1>1, PacketsOut
<1>3. /\ 1 \in 1..Len(m_codecCtx)
      /\ \A k \in 1..Len(m_codecCtx') :
            k + 1 \in 1..Len(m_codecCtx) /\ m_codecCtx'[k] = m_codecCtx[k + 1] /\ 1 < k + 1
      /\ \A j, k \in 1..Len(m_codecCtx') : j < k => j + 1 < k + 1
  BY <1>2
<1>4. \A k \in 1..Len(m_codecCtx) :
         k = 1 \/ (k - 1 \in 1..Len(m_codecCtx') /\ m_codecCtx'[k - 1] = m_codecCtx[k])
  BY <1>2
<1>5. ASSUME NEW k \in 1..Len(m_codecCtx')
      PROVE  /\ Right(m_codecCtx'[k], D) /\ Earlier(m_codecCtx[1], m_codecCtx'[k])
             /\ \A j \in 1..Len(file) : Earlier(file[j], m_codecCtx'[k])
  <2>1. k + 1 \in 1..Len(m_codecCtx) /\ m_codecCtx'[k] = m_codecCtx[k + 1] /\ 1 < k + 1
    BY <1>3
  <2>. QED BY <1>3, <2>1 DEF Pipeline
<1>6. ASSUME NEW j \in 1..Len(m_codecCtx'), NEW k \in 1..Len(m_codecCtx'), j < k
      PROVE  Earlier(m_codecCtx'[j], m_codecCtx'[k])
  <2>1. /\ j + 1 \in 1..Len(m_codecCtx) /\ m_codecCtx'[j] = m_codecCtx[j + 1]
        /\ k + 1 \in 1..Len(m_codecCtx) /\ m_codecCtx'[k] = m_codecCtx[k + 1] /\ j + 1 < k + 1
    BY <1>3, <1>6
  <2>. QED BY <2>1 DEF Pipeline
<1>. QED BY <1>2, <1>3, <1>4, <1>5, <1>6

\* The first packet of the encoder is at hand.
LEMMA FlowReceivePacket ==
    ASSUME Shape, NEW D \in Nat, Flow(D), Trans!ReceivePacket
    PROVE  Flow(D)'
<1>1. /\ trans_pc = "avcodec_receive_packet" /\ trans_pc' = "av_interleaved_write_frame"
      /\ m_codecCtx # << >> /\ pkt' = {Head(m_codecCtx)} /\ m_codecCtx' = Tail(m_codecCtx)
      /\ UNCHANGED <<frames, codecCtx, picture, pts, file, undecoded, lost, trans_program>>
  BY DEF Trans!ReceivePacket, Trans!Goto, Trans!sent
<1>2. Decoder(D) /\ Pipeline(D) /\ Accounted(D) /\ pkt = {}
  BY <1>1 DEF Flow, Shape, Delays
<1>3. /\ 1 \in 1..Len(m_codecCtx) /\ pkt' = {m_codecCtx[1]}
      /\ \A k \in 1..Len(m_codecCtx') :
            /\ Right(m_codecCtx'[k], D) /\ Earlier(m_codecCtx[1], m_codecCtx'[k])
            /\ \A j \in 1..Len(file) : Earlier(file[j], m_codecCtx'[k])
      /\ \A j, k \in 1..Len(m_codecCtx') : j < k => Earlier(m_codecCtx'[j], m_codecCtx'[k])
      /\ \A k \in 1..Len(m_codecCtx) :
            k = 1 \/ (k - 1 \in 1..Len(m_codecCtx') /\ m_codecCtx'[k - 1] = m_codecCtx[k])
  BY <1>1, <1>2, NextPacket
<1>4. Decoder(D)'
  BY <1>1, <1>2 DEF Decoder, Refused, AfterLabels
<1>5. Pipeline(D)'
  <2>1. /\ Right(m_codecCtx[1], D)
        /\ \A j \in 1..Len(file) : Earlier(file[j], m_codecCtx[1])
        /\ \A k \in 1..Len(file) : Right(file[k], D)
        /\ \A j, k \in 1..Len(file) : j < k => Earlier(file[j], file[k])
    BY <1>2, <1>3 DEF Pipeline
  <2>2. ASSUME NEW p \in pkt'
        PROVE  /\ Right(p, D) /\ \A j \in 1..Len(file) : Earlier(file[j], p)
               /\ \A k \in 1..Len(m_codecCtx') : Earlier(p, m_codecCtx'[k])
    BY <1>3, <2>1
  <2>3. /\ \A k \in 1..Len(m_codecCtx') : Right(m_codecCtx'[k], D)
        /\ \A j \in 1..Len(file), k \in 1..Len(m_codecCtx') : Earlier(file[j], m_codecCtx'[k])
        /\ \A j, k \in 1..Len(m_codecCtx') : j < k => Earlier(m_codecCtx'[j], m_codecCtx'[k])
    BY <1>3
  <2>. QED BY <1>1, <2>1, <2>2, <2>3 DEF Pipeline, Right, Earlier
<1>6. Accounted(D)'
  <2>1. ASSUME trans_program = "ffmpeg_encoder", NEW f \in 1..D PROVE Somewhere(f)'
    <3>1. Somewhere(f)
      BY <1>2, <2>1 DEF Accounted
    <3>2. CASE \E k \in 1..Len(m_codecCtx) : m_codecCtx[k][1] = f
      <4>1. PICK k \in 1..Len(m_codecCtx) : m_codecCtx[k][1] = f
        BY <3>2
      <4>2. \/ m_codecCtx[1][1] = f
            \/ k - 1 \in 1..Len(m_codecCtx') /\ m_codecCtx'[k - 1][1] = f
        BY <1>3, <4>1
      <4>. QED BY <1>3, <4>2 DEF Somewhere
    <3>. QED BY <1>1, <1>2, <3>1, <3>2 DEF Somewhere
  <2>. QED BY <1>1, <2>1 DEF Accounted
<1>7. Picture(D)'
  BY <1>1 DEF Picture
<1>. QED BY <1>4, <1>5, <1>6, <1>7 DEF Flow

\* The first frame of the encoder is lost.
LEMMA FlowReceivePacketFails ==
    ASSUME Shape, NEW D \in Nat, Flow(D), Trans!ReceivePacketFails
    PROVE  Flow(D)'
<1>1. /\ trans_pc = "avcodec_receive_packet" /\ trans_pc' = "avcodec_receive_frame"
      /\ m_codecCtx # << >> /\ m_codecCtx' = Tail(m_codecCtx)
      /\ lost' = lost \cup {Head(m_codecCtx)[1]}
      /\ UNCHANGED <<frames, codecCtx, picture, pts, pkt, file, undecoded, trans_program>>
  BY DEF Trans!ReceivePacketFails, Trans!Fails, Trans!Goto, Trans!sent
<1>2. Decoder(D) /\ Pipeline(D) /\ Accounted(D) /\ pkt = {}
  BY <1>1 DEF Flow, Shape, Delays
<1>3. /\ lost' = lost \cup {m_codecCtx[1][1]}
      /\ \A k \in 1..Len(m_codecCtx') :
            /\ Right(m_codecCtx'[k], D)
            /\ \A j \in 1..Len(file) : Earlier(file[j], m_codecCtx'[k])
      /\ \A j, k \in 1..Len(m_codecCtx') : j < k => Earlier(m_codecCtx'[j], m_codecCtx'[k])
      /\ \A k \in 1..Len(m_codecCtx) :
            k = 1 \/ (k - 1 \in 1..Len(m_codecCtx') /\ m_codecCtx'[k - 1] = m_codecCtx[k])
  BY <1>1, <1>2, NextPacket
<1>4. Decoder(D)'
  BY <1>1, <1>2 DEF Decoder, Refused, AfterLabels
<1>5. Pipeline(D)'
  <2>1. /\ \A k \in 1..Len(file) : Right(file[k], D)
        /\ \A j, k \in 1..Len(file) : j < k => Earlier(file[j], file[k])
    BY <1>2 DEF Pipeline
  <2>. QED BY <1>1, <1>2, <1>3, <2>1 DEF Pipeline, Right, Earlier
<1>6. Accounted(D)'
  <2>1. ASSUME trans_program = "ffmpeg_encoder", NEW f \in 1..D PROVE Somewhere(f)'
    <3>1. Somewhere(f)
      BY <1>2, <2>1 DEF Accounted
    <3>2. CASE \E k \in 1..Len(m_codecCtx) : m_codecCtx[k][1] = f
      <4>1. PICK k \in 1..Len(m_codecCtx) : m_codecCtx[k][1] = f
        BY <3>2
      <4>2. \/ m_codecCtx[1][1] = f
            \/ k - 1 \in 1..Len(m_codecCtx') /\ m_codecCtx'[k - 1][1] = f
        BY <1>3, <4>1
      <4>. QED BY <1>3, <4>2 DEF Somewhere
    <3>. QED BY <1>1, <1>2, <1>3, <3>1, <3>2 DEF Somewhere
  <2>. QED BY <1>1, <2>1 DEF Accounted
<1>7. Picture(D)'
  BY <1>1 DEF Picture
<1>. QED BY <1>4, <1>5, <1>6, <1>7 DEF Flow

\* The packet at hand is the last in the file.
LEMMA FlowWriteFrame ==
    ASSUME Shape, NEW D \in Nat, Flow(D), Trans!WriteFrame
    PROVE  Flow(D)'
<1>1. /\ trans_pc = "av_interleaved_write_frame" /\ trans_pc' = "avcodec_receive_packet"
      /\ pkt' = {} /\ \E p \in pkt : file' = Append(file, p)
      /\ UNCHANGED <<frames, codecCtx, picture, pts, m_codecCtx, undecoded, lost, trans_program>>
  BY DEF Trans!WriteFrame, Trans!Goto, Trans!sent
<1>2. Decoder(D) /\ Pipeline(D) /\ Accounted(D)
  BY DEF Flow
<1>3. PICK p \in pkt : pkt = {p}
  BY <1>1 DEF Shape, Delays
<1>4. /\ Len(file) \in Nat /\ Len(file') = Len(file) + 1
      /\ \A k \in 1..Len(file) : file'[k] = file[k]
      /\ file'[Len(file) + 1] = p
  <2>1. file \in Seq(Nat \X Nat) /\ p \in Nat \X Nat /\ file' = Append(file, p)
    BY <1>1, <1>3 DEF Shape, TransTypeOK, Stored
  <2>. QED BY <2>1, PacketsIn
<1>5. \A k \in 1..Len(file') : k \in 1..Len(file) \/ k = Len(file) + 1
  BY <1>4
<1>6. Decoder(D)'
  BY <1>1, <1>2 DEF Decoder, Refused, AfterLabels
<1>7. Pipeline(D)'
  <2>1. ASSUME NEW k \in 1..Len(file')
        PROVE  /\ Right(file'[k], D)
               /\ \A l \in 1..Len(m_codecCtx) : Earlier(file'[k], m_codecCtx[l])
    BY <1>2, <1>3, <1>4, <1>5 DEF Pipeline
  <2>2. ASSUME NEW j \in 1..Len(file'), NEW k \in 1..Len(file'), j < k
        PROVE  Earlier(file'[j], file'[k])
    <3>1. j \in 1..Len(file)
      BY <1>4, <2>2
    <3>. QED BY <1>2, <1>3, <1>4, <1>5, <2>2, <3>1 DEF Pipeline
  <2>3. /\ \A k \in 1..Len(m_codecCtx) : Right(m_codecCtx[k], D)
        /\ \A j, k \in 1..Len(m_codecCtx) : j < k => Earlier(m_codecCtx[j], m_codecCtx[k])
    BY <1>2 DEF Pipeline
  <2>. QED BY <1>1, <2>1, <2>2, <2>3 DEF Pipeline, Right, Earlier
<1>8. Accounted(D)'
  <2>1. ASSUME trans_program = "ffmpeg_encoder", NEW f \in 1..D PROVE Somewhere(f)'
    <3>1. Somewhere(f)
      BY <1>2, <2>1 DEF Accounted
    <3>2. CASE \E k \in 1..Len(file) : file[k][1] = f
      <4>1. PICK k \in 1..Len(file) : file[k][1] = f
        BY <3>2
      <4>2. k \in 1..Len(file') /\ file'[k][1] = f
        BY <1>4, <4>1
      <4>. QED BY <4>2 DEF Somewhere
    <3>3. CASE p[1] = f
      <4>1. Len(file) + 1 \in 1..Len(file') /\ file'[Len(file) + 1][1] = f
        BY <1>4, <3>3
      <4>. QED BY <4>1 DEF Somewhere
    <3>. QED BY <1>1, <1>3, <3>1, <3>2, <3>3 DEF Somewhere
  <2>. QED BY <1>1, <2>1 DEF Accounted
<1>9. Picture(D)'
  BY <1>1 DEF Picture
<1>. QED BY <1>6, <1>7, <1>8, <1>9 DEF Flow

\* A packet that cannot be written is lost.
LEMMA FlowWriteFrameFails ==
    ASSUME Shape, NEW D \in Nat, Flow(D), Trans!WriteFrameFails
    PROVE  Flow(D)'
<1>1. /\ trans_pc = "av_interleaved_write_frame" /\ trans_pc' = "avcodec_receive_frame"
      /\ pkt' = {} /\ lost' = lost \cup {p[1] : p \in pkt}
      /\ UNCHANGED <<frames, codecCtx, picture, pts, m_codecCtx, file, undecoded, trans_program>>
  BY DEF Trans!WriteFrameFails, Trans!Fails, Trans!Goto, Trans!sent
<1>2. Decoder(D) /\ Pipeline(D) /\ Accounted(D)
  BY DEF Flow
<1>3. Decoder(D)'
  BY <1>1, <1>2 DEF Decoder, Refused, AfterLabels
<1>4. Pipeline(D)'
  BY <1>1, <1>2 DEF Pipeline, Right, Earlier
<1>5. Picture(D)'
  BY <1>1 DEF Picture
<1>6. Accounted(D)'
  BY <1>1, <1>2 DEF Accounted, Somewhere
<1>. QED BY <1>3, <1>4, <1>5, <1>6 DEF Flow

LEMMA StepTrans == TransInv /\ [Trans!Next]_(Trans!vars) => TransInv'
<1>. SUFFICES ASSUME TransInv, [Trans!Next]_(Trans!vars) PROVE TransInv'
  OBVIOUS
<1>1. Shape
  BY DEF TransInv
<1>2. PICK D \in Nat : Flow(D)
  BY DEF TransInv
<1>3. CASE UNCHANGED Trans!vars
  <2>1. UNCHANGED <<trans_program, trans_pc, avPacket, packetNum, codecCtx, picture, pts,
                    m_codecCtx, pkt, file, frames, lastRet, undecoded, lost, errors>>
    BY <1>3 DEF Trans!vars, Trans!codecs, Trans!sent
  <2>2. Shape'
    BY <1>1, <2>1 DEF Shape, TransTypeOK, Numbers, Stored, ReadSoFar, VideoIn, Delays
  <2>3. Flow(D)'
    BY <1>2, <2>1 DEF Flow, Decoder, Refused, Pipeline, Right, Earlier, Picture, Accounted, Somewhere
  <2>. QED BY <2>2, <2>3 DEF TransInv
<1>4. CASE Trans!Next
  <2>1. Shape'
    BY <1>1, <1>4, StepShape
  <2>2. CASE Trans!ReadFrame
    <3>1. /\ trans_pc = "av_read_frame" /\ trans_pc' \in {"av_read_frame", "avcodec_send_packet"}
          /\ UNCHANGED <<frames, codecCtx, picture, pts, m_codecCtx, pkt, file, undecoded, lost,
                         trans_program>>
      BY <2>2 DEF Trans!ReadFrame, Trans!Goto, Trans!codecs, Trans!sent
    <3>2. /\ {trans_pc, trans_pc'} \cap {"avcodec_send_frame"} = {}
          /\ trans_pc \in AfterLabels => trans_pc' \in AfterLabels
      BY <3>1 DEF AfterLabels
    <3>3. Flow(D)'
      BY <1>1, <1>2, <3>1, <3>2, FlowStill
    <3>. QED BY <2>1, <3>3 DEF TransInv
  <2>3. CASE \/ Trans!SetUp \/ Trans!SetUpTest \/ Trans!SetUpFails \/ Trans!ReadEnds
             \/ Trans!ReadFails \/ Trans!ReceiveFrameAgain \/ Trans!WriteTrailer
             \/ Trans!ReceivePacketAgain
    <3>1. /\ UNCHANGED <<frames, codecCtx, picture, pts, m_codecCtx, pkt, file, undecoded, lost,
                         trans_program>>
          /\ trans_pc \in {"setup", "av_read_frame", "avcodec_receive_frame", "avcodec_receive_packet",
                           "writeTrailer"}
          /\ trans_pc' \in {"av_read_frame", "failed", "avcodec_receive_frame", "writeTrailer", "returned"}
          /\ trans_pc = "writeTrailer" => trans_pc' = "returned"
      BY <2>3 DEF Trans!SetUp, Trans!SetUpTest, Trans!SetUpFails, Trans!ReadEnds, Trans!ReadFails,
         Trans!ReceiveFrameAgain, Trans!WriteTrailer, Trans!ReceivePacketAgain, Trans!Goto, Trans!Fails,
         Trans!AfterLoop, Trans!codecs, Trans!sent
    <3>2. /\ {trans_pc, trans_pc'} \cap {"avcodec_send_frame"} = {}
          /\ trans_pc \in AfterLabels => trans_pc' \in AfterLabels
      BY <3>1 DEF AfterLabels
    <3>3. Flow(D)'
      BY <1>1, <1>2, <3>1, <3>2, FlowStill
    <3>. QED BY <2>1, <3>3 DEF TransInv
  <2>4. CASE \/ Trans!SendPacket \/ Trans!SendPacketFails \/ Trans!SendFrame \/ Trans!SendFrameFails
             \/ Trans!ReceivePacket \/ Trans!ReceivePacketFails \/ Trans!WriteFrame
             \/ Trans!WriteFrameFails
    <3>1. Flow(D)'
      BY <1>1, <1>2, <2>4, FlowSend, FlowSendFails, FlowSendFrame, FlowSendFrameFails,
         FlowReceivePacket, FlowReceivePacketFails, FlowWriteFrame, FlowWriteFrameFails
    <3>. QED BY <2>1, <3>1 DEF TransInv
  <2>5. CASE Trans!ReceiveFrame \/ Trans!CountFrame \/ Trans!ReceiveFrameFails
    <3>1. Flow(D + 1)'
      BY <1>1, <1>2, <2>5, FlowReceive, FlowCount, FlowReceiveFails
    <3>2. D + 1 \in Nat
      OBVIOUS
    <3>. QED BY <2>1, <3>1, <3>2 DEF TransInv
  <2>. QED BY <1>4, <2>2, <2>3, <2>4, <2>5 DEF Trans!Next, Trans!Main, Trans!Encode
<1>. QED BY <1>3, <1>4

\* The packets of the file come in the order of the video, each with the place of
\* its frame among those decoded, for any input and delays and however many
\* calls fail (ffmpeg_encoder.cpp:286-291).
THEOREM InStepCorrect == Trans!Spec => []InStep
<1>1. TransInv => InStep
  <2>. SUFFICES ASSUME TransInv PROVE Trans!InStep
    BY DEF InStep
  <2>1. PICK D \in Nat : Decoder(D) /\ Pipeline(D)
    BY DEF TransInv, Flow
  <2>2. file \in Seq(Nat \X Nat) /\ undecoded \in SUBSET Nat /\ IsFiniteSet(undecoded)
    BY <2>1, FrameFacts DEF TransInv, Shape, TransTypeOK, Stored
  <2>3. DOMAIN file = 1..Len(file)
    BY <2>2
  <2>4. ASSUME NEW i \in DOMAIN file
        PROVE  file[i][2] = file[i][1] - Trans!Cardinality({f \in undecoded : f < file[i][1]})
    <3>1. Right(file[i], D)
      BY <2>1, <2>3 DEF Pipeline
    <3>2. Trans!Cardinality({f \in undecoded : f < file[i][1]}) = Below(undecoded, file[i][1])
      BY TransCardinality DEF Below
    <3>3. file[i][1] \in Nat /\ file[i][1] \notin undecoded /\ file[i][2] \in Nat
      BY <3>1 DEF Right
    <3>4. Below(undecoded, file[i][1]) \in Nat
      BY <2>2, <3>3, BelowGrows
    <3>. QED BY <3>1, <3>2, <3>3, <3>4 DEF Right
  <2>5. \A i, j \in DOMAIN file : i < j => file[i][2] < file[j][2]
    BY <2>1, <2>3 DEF Pipeline, Earlier
  <2>. QED BY <2>4, <2>5 DEF Trans!InStep
<1>. QED BY <1>1, InitTrans, StepTrans, PTL DEF Trans!Spec

\* A list names at most as many frames as it is long.
LEMMA ListCard ==
    ASSUME NEW n \in Nat, NEW g, NEW T \in SUBSET {g[k] : k \in 1..n}
    PROVE  IsFiniteSet(T) /\ Cardinality(T) \in Nat /\ Cardinality(T) <= n
<1>. DEFINE S == 1..n
            R == {g[k] : k \in S}
            h == [k \in S |-> g[k]]
<1>1. IsFiniteSet(S) /\ Cardinality(S) = n
  BY FS_Interval
<1>2. h \in Surjection(S, R)
  BY DEF Surjection
<1>3. IsFiniteSet(R) /\ Cardinality(R) <= Cardinality(S)
  BY <1>1, <1>2, FS_Surjection
<1>4. IsFiniteSet(T) /\ Cardinality(T) <= Cardinality(R)
  BY <1>3, FS_Subset
<1>5. Cardinality(T) \in Nat /\ Cardinality(R) \in Nat
  BY <1>3, <1>4, FS_CardinalityType
<1>. QED BY <1>1, <1>3, <1>4, <1>5

\* At the end the frames missing are those that the codecs still hold.
LEMMA MissingIsHeld ==
    ASSUME TransInv, trans_pc = "returned", trans_program = "ffmpeg_encoder",
           NEW m \in (1..frames) \ (Trans!Written \cup lost \cup undecoded)
    PROVE  /\ \/ \E k \in 1..Len(m_codecCtx) : m_codecCtx[k][1] = m
              \/ \E k \in 1..Len(codecCtx) : codecCtx[k] = m
           /\ \A w \in Trans!Written : w < m
<1>1. PICK D \in Nat : Flow(D)
  BY DEF TransInv
<1>2. Decoder(D) /\ Pipeline(D) /\ Accounted(D) /\ Shape /\ pkt = {}
  BY <1>1 DEF TransInv, Flow, Shape, Delays
<1>3. file \in Seq(Nat \X Nat)
  BY <1>2 DEF Shape, TransTypeOK, Stored
<1>4. Trans!Written = {file[k][1] : k \in 1..Len(file)}
  BY <1>3 DEF Trans!Written
<1>5. m \in 1..frames /\ m \notin lost /\ m \notin undecoded /\ m \notin Trans!Written
  OBVIOUS
<1>6. Len(codecCtx) \in Nat /\ frames \in Nat
  BY <1>2, FrameFacts
<1>7. CASE m \in 1..D
  <2>1. Somewhere(m)
    BY <1>2, <1>7 DEF Accounted
  <2>2. PICK k \in 1..Len(m_codecCtx) : m_codecCtx[k][1] = m
    BY <1>2, <1>4, <1>5, <2>1 DEF Somewhere
  <2>3. \A j \in 1..Len(file) : file[j][1] < m
    BY <1>2, <2>2 DEF Pipeline, Earlier
  <2>. QED BY <1>4, <2>2, <2>3
<1>8. CASE m \notin 1..D
  <2>1. m > D /\ m - D \in 1..Len(codecCtx)
    <3>1. m \notin Refused(D)
      BY <1>2, <1>5 DEF Decoder
    <3>. QED BY <1>5, <1>6, <1>8, <3>1 DEF Refused
  <2>2. codecCtx[m - D] = D + (m - D)
    BY <1>2, <2>1 DEF Decoder
  <2>3. \A j \in 1..Len(file) : file[j][1] \in 1..D
    BY <1>2 DEF Pipeline, Right
  <2>4. codecCtx[m - D] = m
    BY <1>5, <1>6, <2>2
  <2>. QED BY <1>4, <1>5, <1>6, <2>1, <2>3, <2>4
<1>. QED BY <1>7, <1>8

\* What the codecs keep back is all that an end without flushing costs, for any
\* input and delays (ffmpeg_encoder.cpp:298).
THEOREM OnlyTailMissingCorrect == Trans!Spec => []OnlyTailMissing
<1>1. TransInv => OnlyTailMissing
  <2>. SUFFICES ASSUME TransInv, trans_pc = "returned" PROVE Trans!OnlyTailMissing
    BY DEF OnlyTailMissing, Trans!OnlyTailMissing
  <2>. DEFINE missing == (1..frames) \ (Trans!Written \cup lost \cup undecoded)
  <2>1. PICK D \in Nat : Decoder(D)
    BY DEF TransInv, Flow
  <2>2. /\ Len(codecCtx) \in Nat /\ Len(m_codecCtx) \in Nat /\ pts \in Nat /\ frames \in Nat
        /\ undecoded \in SUBSET Nat /\ D + Len(codecCtx) <= frames
        /\ lastRet = "EAGAIN" => Len(codecCtx) <= DecoderDelay
        /\ Len(m_codecCtx) <= EncoderDelay
    BY <2>1, FrameFacts DEF TransInv, Shape, Delays, AskLabels, EncodeLabels
  <2>3. pts + Trans!Cardinality(undecoded) + Len(codecCtx) = frames
    <3>. DEFINE U == undecoded \cap (1..D)
    <3>1. /\ U \in SUBSET (1..D) /\ undecoded = U \cup Refused(D) /\ U \cap Refused(D) = {}
          /\ U \in SUBSET Nat /\ Refused(D) \in SUBSET Nat /\ \A x \in Refused(D) : D + 1 <= x
      <4>1. undecoded \subseteq (1..D) \cup Refused(D) /\ Refused(D) \subseteq undecoded
        BY <2>1 DEF Decoder
      <4>2. \A x \in Refused(D) : x \in Nat /\ D + 1 <= x /\ x \notin 1..D
        BY <2>2 DEF Refused
      <4>. QED BY <2>2, <4>1, <4>2
    <3>. HIDE DEF U
    <3>2. IsFiniteSet(U) /\ Below(U, D + 1) = Cardinality(U) /\ Cardinality(U) \in Nat
      BY <3>1, BelowAll, FS_CardinalityType
    <3>3. IsFiniteSet(Refused(D)) /\ Cardinality(Refused(D)) = frames - (D + Len(codecCtx))
      <4>1. D + Len(codecCtx) + 1 \in Int /\ frames \in Int
        BY <2>2
      <4>2. /\ IsFiniteSet((D + Len(codecCtx) + 1)..frames)
            /\ Cardinality((D + Len(codecCtx) + 1)..frames)
                  = IF D + Len(codecCtx) + 1 > frames THEN 0
                    ELSE frames - (D + Len(codecCtx) + 1) + 1
        BY <4>1, FS_Interval
      <4>. QED BY <2>2, <4>2 DEF Refused
    <3>4. Cardinality(undecoded) = Cardinality(U) + Cardinality(Refused(D))
      <4>1. Cardinality(U \cup Refused(D))
               = Cardinality(U) + Cardinality(Refused(D)) - Cardinality(U \cap Refused(D))
        BY <3>2, <3>3, FS_Union
      <4>2. Cardinality(U \cap Refused(D)) = 0
        BY <3>1, FS_EmptySet
      <4>3. Cardinality(Refused(D)) \in Nat
        BY <3>3, FS_CardinalityType
      <4>. QED BY <3>1, <3>2, <4>1, <4>2, <4>3
    <3>5. pts + Cardinality(U) = D
      <4>1. Below(undecoded, D + 1) = Below(U, D + 1)
        <5>1. D + 1 \in Nat
          OBVIOUS
        <5>. QED BY <3>1, <5>1, BelowSame
      <4>. QED BY <2>1, <3>2, <4>1 DEF Decoder
    <3>6. Trans!Cardinality(undecoded) = Cardinality(U) + (frames - (D + Len(codecCtx)))
      BY <3>3, <3>4, TransCardinality
    <3>. QED BY <2>2, <3>2, <3>5, <3>6
  <2>6. ASSUME lastRet = "EAGAIN" PROVE frames - (pts + Trans!Cardinality(undecoded)) \in 0..DecoderDelay
    <3>. DEFINE c == Trans!Cardinality(undecoded)
    <3>1. c \in Nat
      BY <2>1, FrameFacts, FS_CardinalityType, TransCardinality DEF TransInv
    <3>. HIDE DEF c
    <3>2. pts + c + Len(codecCtx) = frames
      BY <2>3 DEF c
    <3>3. frames - (pts + c) \in 0..DecoderDelay
      BY <2>2, <2>6, <3>1, <3>2, TransSizes
    <3>. QED BY <3>3 DEF c
  <2>4. errors = 0 => packetNum = Trans!VideoPackets
    <3>1. VideoIn(Len(Input)) = {i \in DOMAIN Input : Input[i].stream = "video"}
      BY TransSizes DEF VideoIn
    <3>. QED BY <3>1, TransCardinality DEF TransInv, Shape, ReadSoFar, AfterLabels, Trans!VideoPackets
  <2>5. ASSUME trans_program = "ffmpeg_encoder"
        PROVE  /\ \A m \in missing, w \in Trans!Written : w < m
               /\ lastRet = "EAGAIN" => Trans!Cardinality(missing) <= DecoderDelay + EncoderDelay
    <3>. DEFINE g == [k \in 1..Len(m_codecCtx) |-> m_codecCtx[k][1]]
                E == {m \in missing : \E k \in 1..Len(m_codecCtx) : m_codecCtx[k][1] = m}
                C == {m \in missing : \E k \in 1..Len(codecCtx) : codecCtx[k] = m}
    <3>1. missing = E \cup C /\ \A m \in missing, w \in Trans!Written : w < m
      BY <2>5, MissingIsHeld
    <3>2. E \in SUBSET {g[k] : k \in 1..Len(m_codecCtx)} /\ C \in SUBSET {codecCtx[k] : k \in 1..Len(codecCtx)}
      OBVIOUS
    <3>. HIDE DEF missing, E, C, g
    <3>3. IsFiniteSet(E) /\ Cardinality(E) \in Nat /\ Cardinality(E) <= Len(m_codecCtx)
      BY <2>2, <3>2, ListCard
    <3>4. IsFiniteSet(C) /\ Cardinality(C) \in Nat /\ Cardinality(C) <= Len(codecCtx)
      BY <2>2, <3>2, ListCard
    <3>5. /\ Cardinality(E \cup C) = Cardinality(E) + Cardinality(C) - Cardinality(E \cap C)
          /\ Cardinality(E \cap C) \in Nat
      <4>1. IsFiniteSet(E \cap C)
        BY <3>3, FS_Subset
      <4>. QED BY <3>3, <3>4, <4>1, FS_Union, FS_CardinalityType
    <3>6. Trans!Cardinality(missing) = Cardinality(E \cup C)
      BY <3>1, TransCardinality
    <3>7. lastRet = "EAGAIN" => Cardinality(E \cup C) <= EncoderDelay + DecoderDelay
      BY <2>2, <3>3, <3>4, <3>5, TransSizes
    <3>8. lastRet = "EAGAIN" => Trans!Cardinality(missing) <= DecoderDelay + EncoderDelay
      BY <3>6, <3>7, TransSizes
    <3>. QED BY <3>1, <3>8
  <2>. QED BY <2>4, <2>5, <2>6 DEF Trans!OnlyTailMissing
<1>. QED BY <1>1, InitTrans, StepTrans, PTL DEF Trans!Spec

-----------------------------------------------------------------------------
(* Postfix: what an expression is worth *)

Text == Seq(Post!Characters)

LEMMA AppendIs ==
    ASSUME NEW t \in Text, NEW c \in Post!Characters, NEW w \in Text
    PROVE  Append(t, c) \o w = t \o (<<c>> \o w)
  BY DEF Text

\* The provers take \o apart; what is joined stays whole.
Joined(t, u) == t \o u

LEMMA Associates ==
    ASSUME NEW t \in Text, NEW u \in Text, NEW w \in Text
    PROVE  Joined(t, u) \in Text /\ Joined(Joined(t, u), w) = Joined(t, Joined(u, w))
<1>1. t \o u \in Text
  BY DEF Text
<1>2. (t \o u) \o w = t \o (u \o w)
  BY DEF Text
<1>. QED BY <1>1, <1>2, Zenon DEF Joined

\* The value of e, where f gives those of its parts.
Worth(f, e) ==
    IF Post!Divisions(e) # {}
      THEN LET k == Post!Division(e)
           IN  Post!Combined(e[k], f[SubSeq(e, 1, k - 1)], f[SubSeq(e, k + 1, Len(e))])
    ELSE IF Len(e) = 1 THEN {DigitValue[c] : c \in DOMAIN DigitValue \cap {e[1]}}
    ELSE IF Len(e) > 1 /\ e[1] = "(" /\ e[Len(e)] = ")"
      THEN f[SubSeq(e, 2, Len(e) - 1)]
    ELSE {}

LEMMA DivisionIn ==
    ASSUME NEW e \in Text, Post!Divisions(e) # {}
    PROVE  /\ Post!Division(e) \in Post!Divisions(e)
           /\ \A j \in Post!Divisions(e) : j <= Post!Division(e)
           /\ Post!Divisions(e) \subseteq 1..Len(e)
<1>1. Len(e) \in Nat /\ Post!Divisions(e) \subseteq 1..Len(e)
  BY DEF Post!Divisions, Post!Outside, Text
<1>2. {Len(e) - j : j \in Post!Divisions(e)} \in SUBSET Nat
  BY <1>1
<1>3. PICK k \in Post!Divisions(e) :
        \A m \in {Len(e) - j : j \in Post!Divisions(e)} : Len(e) - k <= m
  BY <1>2, LeastIn
<1>4. \A j \in Post!Divisions(e) : j <= k
  <2>. TAKE j \in Post!Divisions(e)
  <2>1. Len(e) - k <= Len(e) - j
    BY <1>3
  <2>. QED BY <1>1, <2>1
<1>. QED BY <1>1, <1>4, Zenon DEF Post!Division

\* The value of e depends on those of shorter texts only.
LEMMA WorthLocal ==
    ASSUME NEW e \in Text, NEW f, NEW g,
           \A t \in Text : Len(t) < Len(e) => f[t] = g[t]
    PROVE  Worth(f, e) = Worth(g, e)
<1>1. Len(e) \in Nat
  BY DEF Text
<1>2. ASSUME NEW a \in 1..(Len(e) + 1), NEW b \in 0..Len(e), b - a + 1 < Len(e)
      PROVE  f[SubSeq(e, a, b)] = g[SubSeq(e, a, b)]
  <2>1. SubSeq(e, a, b) \in Text
    BY <1>1 DEF Text
  <2>2. Len(SubSeq(e, a, b)) < Len(e)
    <3>1. CASE a <= b
      BY <1>1, <1>2, <3>1 DEF Text
    <3>2. CASE a > b
      <4>1. SubSeq(e, a, b) = << >>
        BY <1>1, <3>2 DEF Text
      <4>2. Len(e) > 0
        BY <1>1, <1>2, <3>2
      <4>. QED BY <4>1, <4>2, <1>1
    <3>. QED BY <3>1, <3>2
  <2>. QED BY <2>1, <2>2
<1>3. CASE Post!Divisions(e) # {}
  <2>. DEFINE k == Post!Division(e)
  <2>1. k \in 1..Len(e)
    BY <1>3, DivisionIn
  <2>. HIDE DEF k
  <2>2. f[SubSeq(e, 1, k - 1)] = g[SubSeq(e, 1, k - 1)]
    BY <1>1, <1>2, <2>1
  <2>3. f[SubSeq(e, k + 1, Len(e))] = g[SubSeq(e, k + 1, Len(e))]
    BY <1>1, <1>2, <2>1
  <2>. QED BY <1>3, <2>2, <2>3, Zenon DEF Worth, k
<1>4. CASE Post!Divisions(e) = {} /\ Len(e) > 1
  <2>1. f[SubSeq(e, 2, Len(e) - 1)] = g[SubSeq(e, 2, Len(e) - 1)]
    BY <1>1, <1>2, <1>4
  <2>. QED BY <1>4, <2>1, Zenon DEF Worth
<1>5. CASE Post!Divisions(e) = {} /\ ~ (Len(e) > 1)
  BY <1>5, Zenon DEF Worth
<1>. QED BY <1>3, <1>4, <1>5

\* f gives the values of all texts of up to n characters.
GivesValues(f, n) == \A e \in Text : Len(e) <= n => f[e] = Worth(f, e)

LEMMA ValuesAgree ==
    ASSUME NEW f, NEW g, NEW n \in Nat, GivesValues(f, n), GivesValues(g, n)
    PROVE  \A e \in Text : Len(e) <= n => f[e] = g[e]
<1>. DEFINE Bad == {Len(e) : e \in {e \in Text : Len(e) <= n /\ f[e] # g[e]}}
<1>1. SUFFICES ASSUME Bad # {}  PROVE FALSE
  OBVIOUS
<1>2. Bad \in SUBSET Nat
  BY DEF Text
<1>3. PICK l \in Bad : \A m \in Bad : l <= m
  BY <1>1, <1>2, LeastIn
<1>4. PICK e \in Text : l = Len(e) /\ Len(e) <= n /\ f[e] # g[e]
  BY <1>3
<1>5. ASSUME NEW t \in Text, Len(t) < Len(e)  PROVE f[t] = g[t]
  <2>1. Len(t) \in Nat /\ Len(e) \in Nat
    BY DEF Text
  <2>2. Len(t) \notin Bad
    BY <1>3, <1>4, <1>5, <2>1
  <2>. QED BY <1>4, <1>5, <2>1, <2>2
<1>6. Worth(f, e) = Worth(g, e)
  BY <1>5, WorthLocal
<1>. QED BY <1>4, <1>6 DEF GivesValues

LEMMA ValuesUpTo == \A n \in Nat : \E f : GivesValues(f, n)
<1>. DEFINE Bad == {n \in Nat : ~ \E f : GivesValues(f, n)}
<1>1. SUFFICES ASSUME Bad # {}  PROVE FALSE
  OBVIOUS
<1>2. PICK n \in Bad : \A m \in Bad : n <= m
  BY <1>1, LeastIn
<1>3. \E g : \A e \in Text : Len(e) < n => g[e] = Worth(g, e)
  <2>1. CASE n = 0
    BY <2>1 DEF Text
  <2>2. CASE n # 0
    <3>1. n - 1 \in Nat /\ n - 1 \notin Bad
      BY <1>2, <2>2
    <3>2. PICK g : GivesValues(g, n - 1)
      BY <3>1
    <3>3. \A e \in Text : Len(e) < n => Len(e) <= n - 1
      BY DEF Text
    <3>. QED BY <3>2, <3>3 DEF GivesValues
  <2>. QED BY <2>1, <2>2
<1>4. PICK g : \A e \in Text : Len(e) < n => g[e] = Worth(g, e)
  BY <1>3
<1>. DEFINE f == [e \in Text |-> IF Len(e) = n THEN Worth(g, e) ELSE g[e]]
<1>5. \A t \in Text : Len(t) < n => f[t] = g[t]
  BY DEF Text
<1>6. \A e \in Text : Len(e) <= n => f[e] = Worth(g, e)
  BY <1>4 DEF Text
<1>. HIDE DEF f
<1>7. ASSUME NEW e \in Text, Len(e) <= n  PROVE f[e] = Worth(f, e)
  <2>1. \A t \in Text : Len(t) < Len(e) => f[t] = g[t]
    BY <1>5, <1>7 DEF Text
  <2>2. Worth(f, e) = Worth(g, e)
    BY <2>1, WorthLocal
  <2>. QED BY <1>6, <1>7, <2>2
<1>8. GivesValues(f, n)
  BY <1>7 DEF GivesValues
<1>. QED BY <1>2, <1>8

\* ValuesOf is what its definition says.
LEMMA ValuesOfDef == \A e \in Text : Post!ValuesOf[e] = Worth(Post!ValuesOf, e)
<1>. DEFINE upTo(n) == CHOOSE f : GivesValues(f, n)
            v == [e \in Text |-> upTo(Len(e))[e]]
<1>1. \A n \in Nat : GivesValues(upTo(n), n)
  BY ValuesUpTo
<1>. HIDE DEF upTo
<1>2. ASSUME NEW e \in Text  PROVE v[e] = Worth(v, e)
  <2>1. Len(e) \in Nat
    BY DEF Text
  <2>2. ASSUME NEW t \in Text, Len(t) <= Len(e)  PROVE v[t] = upTo(Len(e))[t]
    <3>1. Len(t) \in Nat
      BY DEF Text
    <3>2. GivesValues(upTo(Len(t)), Len(t)) /\ GivesValues(upTo(Len(e)), Len(e))
      BY <1>1, <2>1, <3>1
    <3>3. GivesValues(upTo(Len(e)), Len(t))
      BY <3>2, <2>1, <2>2, <3>1 DEF GivesValues, Text
    <3>4. upTo(Len(t))[t] = upTo(Len(e))[t]
      BY <3>1, <3>2, <3>3, ValuesAgree
    <3>. QED BY <3>4
  <2>. HIDE DEF v
  <2>3. \A t \in Text : Len(t) < Len(e) => v[t] = upTo(Len(e))[t]
    BY <2>1, <2>2 DEF Text
  <2>4. Worth(v, e) = Worth(upTo(Len(e)), e)
    BY <2>3, WorthLocal
  <2>5. upTo(Len(e))[e] = Worth(upTo(Len(e)), e)
    BY <1>1, <2>1 DEF GivesValues
  <2>6. v[e] = upTo(Len(e))[e]
    BY <2>1, <2>2
  <2>. QED BY <2>4, <2>5, <2>6
<1>3. v = [e \in Text |-> Worth(v, e)]
  <2>. DEFINE w == [e \in Text |-> Worth(v, e)]
  <2>1. \A e \in Text : v[e] = w[e]
    BY <1>2
  <2>. QED BY <2>1
<1>. HIDE DEF v
<1>4. Post!ValuesOf = [e \in Text |-> Worth(Post!ValuesOf, e)]
  BY <1>3, Zenon DEF Post!ValuesOf, Worth, Text
<1>. QED BY <1>4

-----------------------------------------------------------------------------
(* The parts of an expression *)

LEMMA PostCardinality == \A S : Post!Cardinality(S) = Cardinality(S)
  BY DEF Post!Cardinality, Cardinality

LEMMA DepthStep ==
    ASSUME NEW e \in Text, NEW k \in 1..Len(e)
    PROVE  /\ Post!Depth(e, k) \in Int
           /\ Post!Depth(e, 1) = 0
           /\ Post!Depth(e, k + 1) = Post!Depth(e, k)
                + (CASE e[k] = "(" -> 1 [] e[k] = ")" -> -1 [] OTHER -> 0)
<1>. DEFINE On(c, n) == {j \in 1..(n - 1) : e[j] = c}
<1>0. Len(e) \in Nat /\ k \in 1..(Len(e) + 1) /\ 1 \in 1..(Len(e) + 1)
  BY DEF Text
<1>1. ASSUME NEW c, NEW n \in 1..(Len(e) + 1)
      PROVE  IsFiniteSet(On(c, n)) /\ Cardinality(On(c, n)) \in Nat
  <2>1. IsFiniteSet(1..(n - 1))
    BY <1>0, FS_Interval
  <2>2. IsFiniteSet(On(c, n))
    BY <2>1, FS_Subset
  <2>. QED BY <2>2, FS_CardinalityType
<1>2. ASSUME NEW c
      PROVE  Cardinality(On(c, k + 1)) = Cardinality(On(c, k)) + (IF e[k] = c THEN 1 ELSE 0)
  <2>0. k \notin On(c, k)
    BY <1>0
  <2>1. IsFiniteSet(On(c, k)) /\ Cardinality(On(c, k)) \in Nat
    BY <1>0, <1>1
  <2>2. CASE e[k] = c
    <3>1. On(c, k + 1) = On(c, k) \cup {k}
      BY <2>2, <1>0
    <3>. HIDE DEF On
    <3>. QED BY <2>0, <2>1, <2>2, <3>1, FS_AddElement
  <2>3. CASE e[k] # c
    <3>1. On(c, k + 1) = On(c, k)
      BY <2>3, <1>0
    <3>. HIDE DEF On
    <3>. QED BY <2>1, <2>3, <3>1
  <2>. QED BY <2>2, <2>3
<1>3. \A n : Post!Depth(e, n) = Cardinality(On("(", n)) - Cardinality(On(")", n))
  BY PostCardinality, Zenon DEF Post!Depth
<1>4. On("(", 1) = {} /\ On(")", 1) = {}
  OBVIOUS
<1>. HIDE DEF On
<1>5. /\ Cardinality(On("(", k)) \in Nat /\ Cardinality(On(")", k)) \in Nat
      /\ Cardinality(On("(", 1)) = 0 /\ Cardinality(On(")", 1)) = 0
  BY <1>0, <1>1, <1>4, FS_EmptySet
<1>6. /\ Cardinality(On("(", k + 1)) = Cardinality(On("(", k)) + (IF e[k] = "(" THEN 1 ELSE 0)
      /\ Cardinality(On(")", k + 1)) = Cardinality(On(")", k)) + (IF e[k] = ")" THEN 1 ELSE 0)
  BY <1>2
<1>. HIDE DEF On
<1>. QED BY <1>3, <1>5, <1>6

\* Depth in a part of a text.
LEMMA DepthOfPart ==
    ASSUME NEW e \in Text, NEW a \in 1..Len(e), NEW b \in a..Len(e), NEW k \in a..b
    PROVE  Post!Depth(SubSeq(e, a, b), k - a + 1) = Post!Depth(e, k) - Post!Depth(e, a)
<1>. DEFINE t == SubSeq(e, a, b)
            Bad == {n \in Nat : a + n \in a..b
                      /\ Post!Depth(t, n + 1) # Post!Depth(e, a + n) - Post!Depth(e, a)}
<1>0. Len(e) \in Nat /\ t \in Text /\ Len(t) = b - a + 1
      /\ \A j \in 1..(b - a + 1) : t[j] = e[a + j - 1]
  BY DEF Text
<1>. HIDE DEF t
<1>1. SUFFICES Bad = {}
  <2>. SUFFICES ASSUME Bad = {}
                PROVE  Post!Depth(t, k - a + 1) = Post!Depth(e, k) - Post!Depth(e, a)
    BY DEF t
  <2>1. k - a \in Nat /\ a + (k - a) = k
    OBVIOUS
  <2>2. k - a \notin Bad
    OBVIOUS
  <2>. QED BY <2>1, <2>2
<1>. SUFFICES ASSUME Bad # {}  PROVE FALSE
  OBVIOUS
<1>2. PICK n \in Bad : \A m \in Bad : n <= m
  BY LeastIn
<1>3. n # 0
  <2>1. Post!Depth(t, 1) = 0
    <3>1. 1 \in 1..Len(t)
      BY <1>0
    <3>. QED BY <1>0, <3>1, DepthStep
  <2>2. Post!Depth(e, a) \in Int
    BY DepthStep
  <2>3. a + 0 = a /\ 0 + 1 = 1
    BY <1>0
  <2>4. Post!Depth(e, a) - Post!Depth(e, a) = 0
    BY <2>2
  <2>. QED BY <2>1, <2>3, <2>4
<1>4. n \in 1..Len(t) /\ a + n - 1 \in 1..Len(e) /\ n \in Nat /\ n - 1 \in Nat
      /\ a + (n - 1) \in a..b /\ (n - 1) + 1 = n /\ a + (n - 1) = a + n - 1
  BY <1>0, <1>3
<1>5. n - 1 \notin Bad
  BY <1>2, <1>4
<1>6. Post!Depth(t, n) = Post!Depth(e, a + n - 1) - Post!Depth(e, a)
  BY <1>4, <1>5
<1>7. t[n] = e[a + n - 1]
  BY <1>0, <1>4
<1>8. Post!Depth(t, n + 1) = Post!Depth(t, n)
                + (CASE t[n] = "(" -> 1 [] t[n] = ")" -> -1 [] OTHER -> 0)
  BY <1>0, <1>4, DepthStep
<1>9. /\ Post!Depth(e, (a + n - 1) + 1) = Post!Depth(e, a + n - 1)
                + (CASE e[a + n - 1] = "(" -> 1 [] e[a + n - 1] = ")" -> -1 [] OTHER -> 0)
      /\ Post!Depth(e, a + n - 1) \in Int /\ Post!Depth(e, a) \in Int
  BY <1>0, <1>4, DepthStep
<1>10. (a + n - 1) + 1 = a + n
  BY <1>4
<1>11. Post!Depth(t, n + 1) = Post!Depth(e, a + n) - Post!Depth(e, a)
  <2>. DEFINE d == CASE e[a + n - 1] = "(" -> 1 [] e[a + n - 1] = ")" -> -1 [] OTHER -> 0
  <2>1. Post!Depth(t, n + 1) = Post!Depth(t, n) + d
    BY <1>7, <1>8
  <2>2. Post!Depth(e, a + n) = Post!Depth(e, a + n - 1) + d
    BY <1>9, <1>10
  <2>3. d \in Int
    OBVIOUS
  <2>. HIDE DEF d
  <2>. QED BY <1>6, <1>9, <2>1, <2>2, <2>3
<1>. QED BY <1>2, <1>11

\* The operators of e from a to b that are outside the parentheses opened there.
Outer(e, a, b) ==
    {k \in a..b : e[k] \in Post!Operators /\ Post!Depth(e, k) = Post!Depth(e, a)}

LEMMA OutsideOfPart ==
    ASSUME NEW e \in Text, NEW a \in 1..Len(e), NEW b \in a..Len(e)
    PROVE  \A k \in 1..(b - a + 1) :
             k \in Post!Outside(SubSeq(e, a, b)) <=> a + k - 1 \in Outer(e, a, b)
<1>. TAKE k \in 1..(b - a + 1)
<1>. DEFINE t == SubSeq(e, a, b)
            l == a + k - 1
<1>1. Len(e) \in Nat /\ t \in Text /\ Len(t) = b - a + 1 /\ t[k] = e[l] /\ l \in a..b
      /\ l - a + 1 = k
  BY DEF Text
<1>2. l \in 1..Len(e)
  BY <1>1
<1>. HIDE DEF t, l
<1>3. Post!Depth(t, k) = Post!Depth(e, l) - Post!Depth(e, a)
  <2>1. Post!Depth(t, l - a + 1) = Post!Depth(e, l) - Post!Depth(e, a)
    BY <1>1, DepthOfPart DEF t
  <2>. QED BY <1>1, <2>1
<1>4. Post!Depth(e, l) \in Int /\ Post!Depth(e, a) \in Int
  BY <1>2, DepthStep
<1>5. Post!Depth(t, k) = 0 <=> Post!Depth(e, l) = Post!Depth(e, a)
  BY <1>3, <1>4
<1>6. k \in Post!Outside(t) <=> l \in Outer(e, a, b)
  BY <1>1, <1>5 DEF Post!Outside, Outer
<1>. QED BY <1>6 DEF t, l

ValuesFrom(e, a, b) == Post!ValuesOf[SubSeq(e, a, b)]

LEMMA NoValues ==
    ASSUME NEW e \in Text, NEW a \in Int, NEW b \in Int, a > b
    PROVE  ValuesFrom(e, a, b) = {}
<1>1. SubSeq(e, a, b) = << >> /\ << >> \in Text
  BY DEF Text
<1>2. Post!Divisions(<< >>) = {}
  BY DEF Post!Divisions, Post!Outside
<1>3. Worth(Post!ValuesOf, << >>) = {}
  BY <1>2 DEF Worth
<1>. QED BY <1>1, <1>3, ValuesOfDef DEF ValuesFrom

\* The operator that divides e from a to b: it is the last of those with the
\* least priority.
Divides(e, a, b, k) ==
    /\ k \in Outer(e, a, b)
    /\ a < k /\ k < b
    /\ Outer(e, a, k - 1) \subseteq Outer(e, a, b)
    /\ Outer(e, k + 1, b) \subseteq Outer(e, a, b)
    /\ \A j \in Outer(e, a, k - 1) : Post!prior(e[k]) <= Post!prior(e[j])
    /\ \A j \in Outer(e, k + 1, b) : Post!prior(e[k]) < Post!prior(e[j])

LEMMA DivisionOfPart ==
    ASSUME NEW e \in Text, NEW a \in 1..Len(e), NEW b \in a..Len(e),
           Post!Divisions(SubSeq(e, a, b)) # {},
           NEW k, k = a + Post!Division(SubSeq(e, a, b)) - 1
    PROVE  /\ k \in Outer(e, a, b)
           /\ a < k /\ k < b => Divides(e, a, b, k)
           /\ Post!Division(SubSeq(e, a, b)) \in 1..(b - a + 1)
<1>. DEFINE t == SubSeq(e, a, b)
            d == Post!Division(t)
<1>1. Len(e) \in Nat /\ t \in Text /\ Len(t) = b - a + 1
      /\ \A j \in 1..(b - a + 1) : t[j] = e[a + j - 1]
  BY DEF Text
<1>2. d \in Post!Divisions(t) /\ \A j \in Post!Divisions(t) : j <= d
  BY <1>1, DivisionIn
<1>3. d \in Post!Outside(t)
  BY <1>2 DEF Post!Divisions
<1>4. \A j \in 1..(b - a + 1) : j \in Post!Outside(t) <=> a + j - 1 \in Outer(e, a, b)
  BY OutsideOfPart
<1>5. d \in 1..(b - a + 1)
  BY <1>1, <1>3 DEF Post!Outside
<1>. HIDE DEF d, t
<1>6. k = a + d - 1 /\ k \in a..b /\ t[d] = e[k]
  BY <1>1, <1>5 DEF d, t
<1>7. k \in Outer(e, a, b)
  BY <1>3, <1>4, <1>5, <1>6
<1>8. \A c : Post!prior(c) = 1 \/ Post!prior(c) = 2
  BY DEF Post!prior
<1>9. ASSUME NEW j \in Outer(e, a, b)
      PROVE  /\ Post!prior(e[k]) <= Post!prior(e[j])
             /\ j > k => Post!prior(e[k]) < Post!prior(e[j])
  <2>. DEFINE n == j - a + 1
  <2>1. j \in a..b
    BY DEF Outer
  <2>2. n \in 1..(b - a + 1) /\ a + n - 1 = j
    BY <1>1, <2>1
  <2>. HIDE DEF n
  <2>3. n \in Post!Outside(t) /\ t[n] = e[j]
    BY <1>1, <1>4, <2>2
  <2>4. Post!prior(t[n]) = 1 => n \in Post!Divisions(t) /\ Post!prior(t[d]) = 1
    BY <1>2, <2>3 DEF Post!Divisions
  <2>5. Post!prior(t[d]) = 2 => n \in Post!Divisions(t)
    BY <1>2, <1>8, <2>3 DEF Post!Divisions
  <2>6. n \in Post!Divisions(t) => ~ (j > k)
    <3>1. n \in Post!Divisions(t) => n <= d
      BY <1>2
    <3>. QED BY <3>1, <1>5, <1>6, <2>2
  <2>. QED BY <1>6, <1>8, <2>3, <2>4, <2>5, <2>6
<1>10. ASSUME a < k, k < b  PROVE Divides(e, a, b, k)
  <2>1. Outer(e, a, k - 1) \subseteq Outer(e, a, b)
    BY <1>10, <1>6 DEF Outer
  <2>2. Post!Depth(e, k + 1) = Post!Depth(e, a)
    <3>1. k \in 1..Len(e) /\ e[k] \in Post!Operators /\ Post!Depth(e, k) = Post!Depth(e, a)
      BY <1>6, <1>7, <1>1 DEF Outer
    <3>2. e[k] # "(" /\ e[k] # ")"
      BY <3>1 DEF Post!Operators
    <3>. QED BY <3>1, <3>2, DepthStep
  <2>3. Outer(e, k + 1, b) \subseteq Outer(e, a, b)
    BY <1>10, <1>6, <2>2 DEF Outer
  <2>4. \A j \in Outer(e, k + 1, b) : j > k
    BY <1>6 DEF Outer
  <2>. QED BY <1>7, <1>9, <1>10, <2>1, <2>3, <2>4 DEF Divides
<1>. QED BY <1>5, <1>7, <1>10 DEF d, t

LEMMA PartOfPart ==
    ASSUME NEW e \in Text, NEW a \in 1..Len(e), NEW b \in a..Len(e),
           NEW m \in 1..(b - a + 2), NEW n \in 0..(b - a + 1)
    PROVE  SubSeq(SubSeq(e, a, b), m, n) = SubSeq(e, a + m - 1, a + n - 1)
  BY DEF Text

\* How e from a to b comes to be worth v.
IsDigit(e, a, b, v) == a = b /\ e[a] \in DOMAIN DigitValue /\ v = DigitValue[e[a]]
IsEnclosed(e, a, b, v) ==
    a < b /\ e[a] = "(" /\ e[b] = ")" /\ v \in ValuesFrom(e, a + 1, b - 1)
IsDivided(e, a, b, v) ==
    \E k \in a..b :
        /\ Divides(e, a, b, k)
        /\ \E x \in ValuesFrom(e, a, k - 1), y \in ValuesFrom(e, k + 1, b) :
              v = Post!Apply(e[k], x, y) /\ ~ (e[k] = "/" /\ y = 0)

LEMMA ValueCases ==
    ASSUME NEW e \in Text, NEW a \in 1..Len(e), NEW b \in 1..Len(e),
           NEW v \in ValuesFrom(e, a, b)
    PROVE  a <= b /\ (IsDigit(e, a, b, v) \/ IsEnclosed(e, a, b, v) \/ IsDivided(e, a, b, v))
<1>. DEFINE t == SubSeq(e, a, b)
<1>0. Len(e) \in Nat
  BY DEF Text
<1>1. a <= b
  BY <1>0, NoValues
<1>2. b \in a..Len(e)
  BY <1>0, <1>1
<1>3. t \in Text /\ Len(t) = b - a + 1 /\ \A j \in 1..(b - a + 1) : t[j] = e[a + j - 1]
  BY <1>2 DEF Text
<1>4. v \in Worth(Post!ValuesOf, t)
  BY <1>3, ValuesOfDef DEF ValuesFrom
<1>5. ASSUME Post!Divisions(t) # {}  PROVE IsDivided(e, a, b, v)
  <2>. DEFINE d == Post!Division(t)
              k == a + d - 1
  <2>1. /\ k \in Outer(e, a, b)
        /\ a < k /\ k < b => Divides(e, a, b, k)
        /\ d \in 1..(b - a + 1)
    BY <1>2, <1>5, DivisionOfPart
  <2>2. v \in Post!Combined(t[d], Post!ValuesOf[SubSeq(t, 1, d - 1)],
                                  Post!ValuesOf[SubSeq(t, d + 1, Len(t))])
    BY <1>4, <1>5, Zenon DEF Worth
  <2>. HIDE DEF d, t
  <2>3. /\ SubSeq(t, 1, d - 1) = SubSeq(e, a + 1 - 1, a + (d - 1) - 1)
        /\ SubSeq(t, d + 1, b - a + 1) = SubSeq(e, a + (d + 1) - 1, a + (b - a + 1) - 1)
    <3>1. /\ 1 \in 1..(b - a + 2) /\ d - 1 \in 0..(b - a + 1)
          /\ d + 1 \in 1..(b - a + 2) /\ b - a + 1 \in 0..(b - a + 1)
      BY <1>2, <2>1
    <3>. QED BY <1>2, <3>1, PartOfPart DEF t
  <2>4. /\ a + 1 - 1 = a /\ a + (d - 1) - 1 = k - 1
        /\ a + (d + 1) - 1 = k + 1 /\ a + (b - a + 1) - 1 = b /\ Len(t) = b - a + 1
        /\ t[d] = e[k] /\ k \in a..b
    BY <1>2, <1>3, <2>1
  <2>. HIDE DEF k
  <2>5. v \in Post!Combined(e[k], ValuesFrom(e, a, k - 1), ValuesFrom(e, k + 1, b))
    BY <2>2, <2>3, <2>4 DEF ValuesFrom
  <2>6. PICK x \in ValuesFrom(e, a, k - 1), y \in ValuesFrom(e, k + 1, b) :
             v = Post!Apply(e[k], x, y) /\ ~ (e[k] = "/" /\ y = 0)
    BY <2>5, Zenon DEF Post!Combined
  <2>7. ~ (a > k - 1) /\ ~ (k + 1 > b)
    <3>1. k - 1 \in Int /\ k + 1 \in Int /\ a \in Int /\ b \in Int
      BY <2>4
    <3>. QED BY <2>6, <3>1, NoValues
  <2>8. a < k /\ k < b
    BY <2>4, <2>7
  <2>9. Divides(e, a, b, k)
    BY <2>1, <2>8 DEF k
  <2>. QED BY <2>4, <2>6, <2>9 DEF IsDivided
<1>6. ASSUME Post!Divisions(t) = {}, Len(t) = 1  PROVE IsDigit(e, a, b, v)
  <2>1. v \in {DigitValue[c] : c \in DOMAIN DigitValue \cap {t[1]}}
    BY <1>4, <1>6, Zenon DEF Worth
  <2>. HIDE DEF t
  <2>0. b - a + 1 = 1
    BY <1>3, <1>6 DEF t
  <2>2. a = b /\ 1 \in 1..(b - a + 1) /\ a + 1 - 1 = a
    BY <1>0, <1>2, <2>0
  <2>3. t[1] = e[a]
    BY <1>3, <2>2
  <2>. QED BY <2>1, <2>2, <2>3 DEF IsDigit
<1>7. ASSUME Post!Divisions(t) = {}, Len(t) # 1  PROVE IsEnclosed(e, a, b, v)
  <2>1. /\ Len(t) > 1 /\ t[1] = "(" /\ t[Len(t)] = ")"
        /\ v \in Post!ValuesOf[SubSeq(t, 2, Len(t) - 1)]
    BY <1>4, <1>7, Zenon DEF Worth
  <2>2. SubSeq(t, 2, (b - a + 1) - 1) = SubSeq(e, a + 2 - 1, a + ((b - a + 1) - 1) - 1)
    <3>1. 2 \in 1..(b - a + 2) /\ (b - a + 1) - 1 \in 0..(b - a + 1)
      BY <1>2, <1>3, <2>1
    <3>. QED BY <1>2, <3>1, PartOfPart
  <2>. HIDE DEF t
  <2>3. a + 2 - 1 = a + 1 /\ a + ((b - a + 1) - 1) - 1 = b - 1 /\ a < b
        /\ t[1] = e[a] /\ t[Len(t)] = e[b] /\ Len(t) = b - a + 1
    BY <1>2, <1>3, <2>1
  <2>4. SubSeq(t, 2, Len(t) - 1) = SubSeq(e, a + 1, b - 1)
    BY <2>2, <2>3 DEF t
  <2>. QED BY <2>1, <2>3, <2>4 DEF IsEnclosed, ValuesFrom
<1>. QED BY <1>1, <1>5, <1>6, <1>7

-----------------------------------------------------------------------------
(* expCalculate *)

\* expCalculate makes of the stack x the stack y when it reads c.
Calculates(c, x, y) ==
    \/ /\ c \in Post!Operators
       /\ Len(x) >= 2 /\ ~ (c = "/" /\ x[Len(x)] = 0)
       /\ y = Append(SubSeq(x, 1, Len(x) - 2), Post!Apply(c, x[Len(x) - 1], x[Len(x)]))
    \/ c \in DOMAIN DigitValue /\ y = Append(x, DigitValue[c])

\* h are the stacks while q is read.
Evaluates(q, h) ==
    /\ h \in [0..Len(q) -> Seq(Int)]
    /\ \A j \in 1..Len(q) : Calculates(q[j], h[j - 1], h[j])

\* Whatever is on the stack, q puts v on top of it.
Yields(q, v) ==
    \A x \in Seq(Int) : \E h : Evaluates(q, h) /\ h[0] = x /\ h[Len(q)] = Append(x, v)

LEMMA ApplyInt ==
    ASSUME NEW c \in Post!Operators, NEW x \in Int, NEW y \in Int, ~ (c = "/" /\ y = 0)
    PROVE  Post!Apply(c, x, y) \in Int
<1>1. CASE c = "/"
  <2>1. y # 0
    BY <1>1
  <2>2. Post!Abs(x) \in Int /\ Post!Abs(y) \in Int /\ Post!Abs(y) > 0
    BY <2>1 DEF Post!Abs
  <2>3. Post!Abs(x) \div Post!Abs(y) \in Int
    BY <2>2
  <2>. DEFINE w == Post!Abs(x) \div Post!Abs(y)
  <2>. HIDE DEF w
  <2>4. w \in Int
    BY <2>3 DEF w
  <2>5. (IF (x < 0) = (y < 0) THEN 1 ELSE -1) * w \in Int
    BY <2>4
  <2>6. Post!Apply(c, x, y) = Post!Quotient(x, y)
    BY <1>1 DEF Post!Apply
  <2>. QED BY <2>5, <2>6 DEF Post!Quotient, w
<1>2. CASE c = "+"
  BY <1>2 DEF Post!Apply
<1>3. CASE c = "-"
  BY <1>3 DEF Post!Apply
<1>4. CASE c = "*"
  BY <1>4 DEF Post!Apply
<1>. QED BY <1>1, <1>2, <1>3, <1>4 DEF Post!Operators

LEMMA DigitYields ==
    ASSUME NEW c \in DOMAIN DigitValue
    PROVE  Yields(<<c>>, DigitValue[c])
<1>. SUFFICES ASSUME NEW x \in Seq(Int)
              PROVE  \E h : Evaluates(<<c>>, h) /\ h[0] = x /\ h[1] = Append(x, DigitValue[c])
  BY DEF Yields
<1>. DEFINE h == [j \in 0..1 |-> IF j = 0 THEN x ELSE Append(x, DigitValue[c])]
<1>1. DigitValue[c] \in Int
  BY PostfixAssumption
<1>2. Append(x, DigitValue[c]) \in Seq(Int)
  BY <1>1
<1>3. h \in [0..1 -> Seq(Int)] /\ h[0] = x /\ h[1] = Append(x, DigitValue[c])
  BY <1>2
<1>4. Calculates(c, h[0], h[1])
  BY <1>3 DEF Calculates
<1>. HIDE DEF h
<1>5. Evaluates(<<c>>, h)
  <2>1. Len(<<c>>) = 1 /\ <<c>>[1] = c
    OBVIOUS
  <2>2. \A j \in 1..1 : j = 1 /\ j - 1 = 0
    OBVIOUS
  <2>. QED BY <1>3, <1>4, <2>1, <2>2 DEF Evaluates
<1>. QED BY <1>3, <1>5

LEMMA OperatorYields ==
    ASSUME NEW p \in Text, NEW q \in Text, NEW x \in Int, NEW y \in Int,
           Yields(p, x), Yields(q, y),
           NEW c \in Post!Operators, ~ (c = "/" /\ y = 0)
    PROVE  Yields((p \o q) \o <<c>>, Post!Apply(c, x, y))
<1>. DEFINE r == (p \o q) \o <<c>>
            v == Post!Apply(c, x, y)
<1>0. Len(p) \in Nat /\ Len(q) \in Nat /\ c \in Post!Characters
  BY DEF Text, Post!Characters
<1>1. /\ Len(r) = Len(p) + Len(q) + 1
      /\ \A j \in 1..Len(p) : r[j] = p[j]
      /\ \A j \in 1..Len(q) : r[Len(p) + j] = q[j]
      /\ r[Len(p) + Len(q) + 1] = c
  BY <1>0 DEF Text
<1>. HIDE DEF r
<1>2. v \in Int
  BY ApplyInt
<1>. HIDE DEF v
<1>. SUFFICES ASSUME NEW z \in Seq(Int)
              PROVE  \E h : Evaluates(r, h) /\ h[0] = z /\ h[Len(r)] = Append(z, v)
  BY DEF Yields, r, v
<1>3. PICK f : Evaluates(p, f) /\ f[0] = z /\ f[Len(p)] = Append(z, x)
  BY DEF Yields
<1>4. Append(z, x) \in Seq(Int)
  OBVIOUS
<1>5. PICK g : Evaluates(q, g) /\ g[0] = Append(z, x) /\ g[Len(q)] = Append(Append(z, x), y)
  BY <1>4 DEF Yields
<1>. DEFINE h == [j \in 0..Len(r) |-> IF j <= Len(p) THEN f[j]
                                      ELSE IF j <= Len(p) + Len(q) THEN g[j - Len(p)]
                                      ELSE Append(z, v)]
<1>6. /\ \A j \in 0..Len(p) : h[j] = f[j]
      /\ \A j \in 0..Len(q) : h[Len(p) + j] = g[j]
      /\ h[Len(p) + Len(q) + 1] = Append(z, v)
  <2>1. ASSUME NEW j \in 0..Len(p)  PROVE h[j] = f[j]
    BY <1>0, <1>1
  <2>2. ASSUME NEW j \in 0..Len(q)  PROVE h[Len(p) + j] = g[j]
    <3>1. Len(p) + j \in 0..Len(r) /\ (Len(p) + j) - Len(p) = j /\ Len(p) + j <= Len(p) + Len(q)
      BY <1>0, <1>1
    <3>2. CASE j = 0
      <4>1. Len(p) + j = Len(p)
        BY <1>0, <3>2
      <4>. QED BY <1>3, <1>5, <3>1, <3>2, <4>1
    <3>3. CASE j # 0
      <4>1. ~ (Len(p) + j <= Len(p))
        BY <1>0, <3>3
      <4>. QED BY <3>1, <4>1
    <3>. QED BY <3>2, <3>3
  <2>3. h[Len(p) + Len(q) + 1] = Append(z, v)
    BY <1>0, <1>1
  <2>. QED BY <2>1, <2>2, <2>3
<1>7. Append(z, v) \in Seq(Int)
  BY <1>2
<1>8. h \in [0..Len(r) -> Seq(Int)]
  <2>0. f \in [0..Len(p) -> Seq(Int)] /\ g \in [0..Len(q) -> Seq(Int)]
    BY <1>3, <1>5 DEF Evaluates
  <2>1. ASSUME NEW j \in 0..Len(r)
        PROVE  (IF j <= Len(p) THEN f[j]
                ELSE IF j <= Len(p) + Len(q) THEN g[j - Len(p)] ELSE Append(z, v)) \in Seq(Int)
    <3>1. CASE j <= Len(p)
      <4>1. j \in 0..Len(p)
        BY <1>0, <1>1, <3>1
      <4>. QED BY <2>0, <3>1, <4>1
    <3>2. CASE ~ (j <= Len(p)) /\ j <= Len(p) + Len(q)
      <4>1. j - Len(p) \in 0..Len(q)
        BY <1>0, <1>1, <3>2
      <4>2. g[j - Len(p)] \in Seq(Int)
        BY <2>0, <4>1
      <4>. QED BY <3>2, <4>2
    <3>3. CASE ~ (j <= Len(p)) /\ ~ (j <= Len(p) + Len(q))
      BY <3>3, <1>7
    <3>. QED BY <3>1, <3>2, <3>3
  <2>. QED BY <2>1
<1>. HIDE DEF h
<1>9. ASSUME NEW j \in 1..Len(r)  PROVE Calculates(r[j], h[j - 1], h[j])
  <2>1. CASE j <= Len(p)
    <3>1. j \in 1..Len(p) /\ j - 1 \in 0..Len(p) /\ j \in 0..Len(p)
      BY <1>0, <1>1, <2>1
    <3>2. r[j] = p[j] /\ h[j - 1] = f[j - 1] /\ h[j] = f[j]
      BY <1>1, <1>6, <3>1
    <3>. QED BY <1>3, <3>1, <3>2 DEF Evaluates
  <2>2. CASE j > Len(p) /\ j <= Len(p) + Len(q)
    <3>. DEFINE l == j - Len(p)
    <3>1. l \in 1..Len(q) /\ l - 1 \in 0..Len(q) /\ l \in 0..Len(q)
          /\ Len(p) + l = j /\ Len(p) + (l - 1) = j - 1
      BY <1>0, <1>1, <2>2
    <3>. HIDE DEF l
    <3>2. r[j] = q[l] /\ h[j - 1] = g[l - 1] /\ h[j] = g[l]
      BY <1>1, <1>6, <3>1
    <3>. QED BY <1>5, <3>1, <3>2 DEF Evaluates
  <2>3. CASE j = Len(p) + Len(q) + 1
    <3>1. j - 1 = Len(p) + Len(q) /\ Len(q) \in 0..Len(q)
      BY <1>0, <2>3
    <3>2. r[j] = c /\ h[j - 1] = Append(Append(z, x), y) /\ h[j] = Append(z, v)
      BY <1>1, <1>5, <1>6, <2>3, <3>1
    <3>. DEFINE w == Append(Append(z, x), y)
    <3>3. /\ Len(w) = Len(z) + 2 /\ Len(z) \in Nat
          /\ w[Len(w) - 1] = x /\ w[Len(w)] = y
          /\ SubSeq(w, 1, Len(w) - 2) = z
      OBVIOUS
    <3>. HIDE DEF w
    <3>4. Len(w) >= 2
      BY <3>3
    <3>5. h[j] = Append(SubSeq(w, 1, Len(w) - 2), Post!Apply(c, w[Len(w) - 1], w[Len(w)]))
      BY <3>2, <3>3 DEF v
    <3>6. Calculates(c, w, h[j])
      BY <3>3, <3>4, <3>5 DEF Calculates
    <3>. QED BY <3>2, <3>6 DEF w
  <2>. QED BY <1>0, <1>1, <2>1, <2>2, <2>3
<1>10. h[0] = z /\ h[Len(r)] = Append(z, v)
  <2>1. 0 \in 0..Len(p)
    BY <1>0
  <2>. QED BY <1>1, <1>3, <1>6, <2>1
<1>. QED BY <1>8, <1>9, <1>10 DEF Evaluates

-----------------------------------------------------------------------------
(* getPostfix *)

\* The operators that c leaves on the stack, if they are on top.
Kept(c) == {d \in Post!Operators \cup {"("} : Post!Stays(c, d)}

\* The stack st is popped down to its first n entries, until one of K is on top.
PoppedTo(st, K, n) ==
    /\ n \in 0..Len(st)
    /\ \A k \in (n + 1)..Len(st) : st[k] \notin K
    /\ n = 0 \/ st[n] \in K

Popped(st, n) == Post!Reverse(SubSeq(st, n + 1, Len(st)))

\* getPostfix makes of output o and stack st, reading c, output p and stack su.
Converts(c, o, st, p, su) ==
    \/ /\ c \in Post!Operators
       /\ \E n \in 0..Len(st) : /\ PoppedTo(st, Kept(c), n)
                               /\ p = o \o Popped(st, n)
                               /\ su = Append(SubSeq(st, 1, n), c)
    \/ c = "(" /\ p = o /\ su = Append(st, c)
    \/ /\ c = ")"
       /\ \E n \in 1..Len(st) : /\ PoppedTo(st, {"("}, n)
                               /\ p = o \o Popped(st, n)
                               /\ su = SubSeq(st, 1, n - 1)
    \/ c \in DOMAIN DigitValue /\ p = Append(o, c) /\ su = st

\* Outputs and stacks while the first m characters of e are read.
IsHistory(e, m, os, ss) ==
    /\ os \in [0..m -> Text] /\ ss \in [0..m -> Text]
    /\ os[0] = << >> /\ ss[0] = << >>
    /\ \A j \in 1..m : Converts(e[j], os[j - 1], ss[j - 1], os[j], ss[j])

LEMMA CharacterKinds ==
    /\ Post!Operators \subseteq Post!Characters /\ "(" \in Post!Characters
    /\ "(" \notin Post!Operators /\ ")" \notin Post!Operators
    /\ \A c \in DOMAIN DigitValue :
         c \in Post!Characters /\ c \notin Post!Operators /\ c # "(" /\ c # ")"
  BY PostfixAssumption DEF Post!Operators, Post!Characters

LEMMA ReverseOps ==
    ASSUME NEW u \in Text
    PROVE  /\ Post!Reverse(u) \in Text /\ Len(Post!Reverse(u)) = Len(u)
           /\ Post!Reverse(<< >>) = << >>
           /\ \A c \in Post!Characters : Post!Reverse(<<c>> \o u) = Post!Reverse(u) \o <<c>>
<1>0. Len(u) \in Nat /\ \A j \in 1..Len(u) : u[j] \in Post!Characters
  BY DEF Text
<1>1. Post!Reverse(u) \in Text /\ Len(Post!Reverse(u)) = Len(u)
  BY <1>0 DEF Text, Post!Reverse
<1>2. Post!Reverse(<< >>) = << >>
  BY DEF Post!Reverse
<1>3. ASSUME NEW c \in Post!Characters
      PROVE  Post!Reverse(<<c>> \o u) = Post!Reverse(u) \o <<c>>
  <2>. DEFINE l == Post!Reverse(<<c>> \o u)
              r == Post!Reverse(u) \o <<c>>
              w == <<c>> \o u
  <2>1. Len(w) = Len(u) + 1 /\ w[1] = c /\ \A j \in 1..Len(u) : w[j + 1] = u[j]
    BY <1>0 DEF Text
  <2>. HIDE DEF w
  <2>2. l = [j \in 1..(Len(u) + 1) |-> w[(Len(u) + 1 - j) + 1]]
    BY <2>1 DEF Post!Reverse, w
  <2>3. r \in Seq(Post!Characters) /\ Len(r) = Len(u) + 1 /\ r[Len(u) + 1] = c
        /\ \A j \in 1..Len(u) : r[j] = Post!Reverse(u)[j]
    BY <1>0, <1>1 DEF Text
  <2>4. \A j \in 1..Len(u) : Post!Reverse(u)[j] = u[(Len(u) - j) + 1]
    BY <1>0 DEF Post!Reverse
  <2>. HIDE DEF l, r
  <2>5. ASSUME NEW j \in 1..(Len(u) + 1)  PROVE l[j] = r[j]
    <3>1. l[j] = w[(Len(u) + 1 - j) + 1]
      BY <2>2
    <3>2. CASE j = Len(u) + 1
      <4>1. (Len(u) + 1 - j) + 1 = 1
        BY <1>0, <3>2
      <4>. QED BY <2>1, <2>3, <3>1, <3>2, <4>1
    <3>3. CASE j # Len(u) + 1
      <4>1. j \in 1..Len(u) /\ (Len(u) - j) + 1 \in 1..Len(u)
            /\ (Len(u) + 1 - j) + 1 = ((Len(u) - j) + 1) + 1
        BY <1>0, <3>3
      <4>. QED BY <2>1, <2>3, <2>4, <3>1, <4>1
    <3>. QED BY <3>2, <3>3
  <2>6. DOMAIN l = 1..(Len(u) + 1) /\ DOMAIN r = 1..(Len(u) + 1)
        /\ l = [j \in DOMAIN l |-> l[j]] /\ r = [j \in DOMAIN r |-> r[j]]
    BY <2>2, <2>3, <1>0
  <2>7. l = r
    BY <2>5, <2>6
  <2>. QED BY <2>7 DEF l, r
<1>. QED BY <1>1, <1>2, <1>3

\* What is popped of st \o u, where u has nothing of K and st ends with one.
LEMMA PoppedIs ==
    ASSUME NEW st \in Text, NEW u \in Text, NEW K, NEW n, PoppedTo(st \o u, K, n),
           \A k \in 1..Len(u) : u[k] \notin K,
           Len(st) = 0 \/ st[Len(st)] \in K
    PROVE  /\ n = Len(st)
           /\ Popped(st \o u, n) = Post!Reverse(u)
           /\ SubSeq(st \o u, 1, n) = st
           /\ n > 0 => SubSeq(st \o u, 1, n - 1) = SubSeq(st, 1, n - 1)
<1>. DEFINE w == st \o u
<1>1. /\ Len(st) \in Nat /\ Len(u) \in Nat /\ w \in Text /\ Len(w) = Len(st) + Len(u)
      /\ \A k \in 1..Len(st) : w[k] = st[k]
      /\ \A k \in 1..Len(u) : w[Len(st) + k] = u[k]
      /\ SubSeq(w, 1, Len(st)) = st
      /\ SubSeq(w, Len(st) + 1, Len(w)) = u
  BY DEF Text
<1>2. n \in 0..Len(w) /\ (n = 0 \/ w[n] \in K)
      /\ \A k \in (n + 1)..Len(w) : w[k] \notin K
  BY DEF PoppedTo
<1>. HIDE DEF w
<1>3. ~ (n > Len(st))
  <2>. SUFFICES ASSUME n > Len(st)  PROVE FALSE
    OBVIOUS
  <2>1. n - Len(st) \in 1..Len(u) /\ Len(st) + (n - Len(st)) = n
    BY <1>1, <1>2
  <2>2. w[n] = u[n - Len(st)]
    BY <1>1, <2>1
  <2>. QED BY <1>1, <1>2, <2>1, <2>2
<1>4. ~ (n < Len(st))
  <2>. SUFFICES ASSUME n < Len(st)  PROVE FALSE
    OBVIOUS
  <2>1. Len(st) \in (n + 1)..Len(w) /\ Len(st) \in 1..Len(st)
    BY <1>1, <1>2
  <2>. QED BY <1>1, <1>2, <2>1
<1>5. n = Len(st)
  <2>1. n \in Int /\ Len(st) \in Int
    BY <1>1, <1>2
  <2>. QED BY <1>3, <1>4, <2>1
<1>6. n > 0 => SubSeq(w, 1, n - 1) = SubSeq(st, 1, n - 1)
  BY <1>1, <1>5 DEF Text
<1>. QED BY <1>1, <1>5, <1>6 DEF Popped, w

\* The stack st has nothing on top that an operator of e from a to b, outside
\* the parentheses there, would pop.
StaysUnder(st, e, a, b) ==
    \/ Len(st) = 0
    \/ st[Len(st)] = "("
    \/ /\ st[Len(st)] \in Post!Operators
       /\ \A j \in Outer(e, a, b) : Post!prior(st[Len(st)]) < Post!prior(e[j])

\* Output p and stack su are o and st after a text worth v: u waits on the stack,
\* and would complete the text's postfix form, which yields v.
Converted(e, a, b, v, o, st, p, su) ==
    \E q \in Text, u \in Text :
        /\ Yields(q, v)
        /\ su = st \o u
        /\ p \o Post!Reverse(u) = o \o q
        /\ \A k \in 1..Len(u) : \E j \in Outer(e, a, b) : u[k] = e[j]

LEMMA ConvertsOperator ==
    ASSUME NEW c \in Post!Operators, NEW o \in Text, NEW st \in Text, NEW u \in Text,
           NEW p, NEW su, Converts(c, o, st \o u, p, su),
           \A k \in 1..Len(u) : u[k] \in Post!Operators /\ Post!prior(c) <= Post!prior(u[k]),
           \/ Len(st) = 0 \/ st[Len(st)] = "("
           \/ st[Len(st)] \in Post!Operators /\ Post!prior(st[Len(st)]) < Post!prior(c)
    PROVE  p = o \o Post!Reverse(u) /\ su = Append(st, c)
<1>1. c # "(" /\ c # ")" /\ c \notin DOMAIN DigitValue
  BY CharacterKinds
<1>2. PICK n \in 0..Len(st \o u) : /\ PoppedTo(st \o u, Kept(c), n)
                                   /\ p = o \o Popped(st \o u, n)
                                   /\ su = Append(SubSeq(st \o u, 1, n), c)
  BY <1>1 DEF Converts
<1>3. \A d : Post!prior(d) \in Nat
  BY DEF Post!prior
<1>4. \A k \in 1..Len(u) : u[k] \notin Kept(c)
  BY <1>3, CharacterKinds DEF Kept, Post!Stays
<1>5. Len(st) = 0 \/ st[Len(st)] \in Kept(c)
  BY <1>3, CharacterKinds DEF Kept, Post!Stays
<1>. QED BY <1>2, <1>4, <1>5, PoppedIs

LEMMA ConvertsClosing ==
    ASSUME NEW o \in Text, NEW st \in Text, NEW u \in Text,
           NEW p, NEW su, Converts(")", o, Append(st, "(") \o u, p, su),
           \A k \in 1..Len(u) : u[k] \in Post!Operators
    PROVE  p = o \o Post!Reverse(u) /\ su = st
<1>. DEFINE w == Append(st, "(")
<1>1. w \in Text /\ Len(w) = Len(st) + 1 /\ w[Len(w)] = "(" /\ Len(st) \in Nat
      /\ SubSeq(w, 1, Len(w) - 1) = st
  BY CharacterKinds DEF Text
<1>. HIDE DEF w
<1>2. ")" \notin Post!Operators /\ ")" \notin DOMAIN DigitValue /\ ")" # "("
  BY CharacterKinds
<1>. DEFINE K == {"("}
<1>3. PICK n \in 1..Len(w \o u) : /\ PoppedTo(w \o u, K, n)
                                  /\ p = o \o Popped(w \o u, n)
                                  /\ su = SubSeq(w \o u, 1, n - 1)
  BY <1>2 DEF Converts, w
<1>4. (\A k \in 1..Len(u) : u[k] \notin K) /\ w[Len(w)] \in K
  BY <1>1, CharacterKinds
<1>. HIDE DEF K
<1>5. /\ n = Len(w) /\ Popped(w \o u, n) = Post!Reverse(u)
      /\ n > 0 => SubSeq(w \o u, 1, n - 1) = SubSeq(w, 1, n - 1)
  BY <1>1, <1>3, <1>4, PoppedIs
<1>6. n > 0
  BY <1>1, <1>5
<1>. QED BY <1>1, <1>3, <1>5, <1>6

\* What getPostfix does with a part of the expression that has a value.
Correct(e, a, b, os, ss) ==
    \A v \in ValuesFrom(e, a, b) :
        StaysUnder(ss[a - 1], e, a, b)
            => Converted(e, a, b, v, os[a - 1], ss[a - 1], os[b], ss[b])

\* Text with a character after it, and nothing more.
LEMMA AppendedAlone ==
    ASSUME NEW s \in Text, NEW c \in Post!Characters
    PROVE  Append(s, c) \o << >> = s \o <<c>>
<1>1. Append(s, c) \in Seq(Post!Characters)
  BY DEF Text
<1>2. Append(s, c) \o << >> = Append(s, c)
  BY <1>1
<1>3. Append(s, c) = s \o <<c>>
  BY DEF Text
<1>. QED BY <1>2, <1>3, Zenon

LEMMA DigitCorrect ==
    ASSUME NEW e \in Text, NEW m \in 0..Len(e), NEW os, NEW ss, IsHistory(e, m, os, ss),
           NEW a \in 1..m, NEW v, IsDigit(e, a, a, v)
    PROVE  Converted(e, a, a, v, os[a - 1], ss[a - 1], os[a], ss[a])
<1>1. /\ Len(e) \in Nat /\ a - 1 \in 0..m /\ os[a - 1] \in Text /\ ss[a - 1] \in Text
      /\ Converts(e[a], os[a - 1], ss[a - 1], os[a], ss[a])
  BY DEF IsHistory, Text
<1>2. e[a] \in DOMAIN DigitValue /\ v = DigitValue[e[a]] /\ e[a] \in Post!Characters
      /\ e[a] \notin Post!Operators /\ e[a] # "(" /\ e[a] # ")"
  BY CharacterKinds DEF IsDigit
<1>3. os[a] = Append(os[a - 1], e[a]) /\ ss[a] = ss[a - 1]
  BY <1>1, <1>2 DEF Converts
<1>4. <<e[a]>> \in Text /\ << >> \in Text /\ Len(<< >>) = 0
  BY <1>2 DEF Text
<1>5. ss[a] = ss[a - 1] \o << >>
  BY <1>1, <1>3 DEF Text
<1>6. os[a] \o Post!Reverse(<< >>) = os[a - 1] \o <<e[a]>>
  <2>1. Post!Reverse(<< >>) = << >>
    BY <1>4, ReverseOps
  <2>2. Append(os[a - 1], e[a]) \o << >> = os[a - 1] \o <<e[a]>>
    BY <1>1, <1>2, AppendedAlone, Zenon
  <2>. QED BY <1>3, <2>1, <2>2
<1>7. Yields(<<e[a]>>, v)
  BY <1>2, DigitYields
<1>8. \A k \in 1..Len(<< >>) : \E j \in Outer(e, a, a) : << >>[k] = e[j]
  BY <1>4
<1>. QED BY <1>4, <1>5, <1>6, <1>7, <1>8, Zenon DEF Converted

LEMMA EnclosedCorrect ==
    ASSUME NEW e \in Text, NEW m \in 0..Len(e), NEW os, NEW ss, IsHistory(e, m, os, ss),
           NEW a \in 1..m, NEW b \in 1..m, NEW v, IsEnclosed(e, a, b, v),
           Correct(e, a + 1, b - 1, os, ss)
    PROVE  Converted(e, a, b, v, os[a - 1], ss[a - 1], os[b], ss[b])
<1>1. a < b /\ e[a] = "(" /\ e[b] = ")" /\ v \in ValuesFrom(e, a + 1, b - 1)
  BY DEF IsEnclosed
<1>2. /\ Len(e) \in Nat /\ a - 1 \in 0..m /\ a \in 0..m /\ b - 1 \in 0..m /\ b \in 0..m
      /\ (a + 1) - 1 = a
  BY <1>1 DEF Text
<1>3. /\ os[a - 1] \in Text /\ ss[a - 1] \in Text /\ os[b - 1] \in Text /\ ss[b - 1] \in Text
      /\ Converts("(", os[a - 1], ss[a - 1], os[a], ss[a])
      /\ Converts(")", os[b - 1], ss[b - 1], os[b], ss[b])
  BY <1>1, <1>2 DEF IsHistory
<1>4. os[a] = os[a - 1] /\ ss[a] = Append(ss[a - 1], "(")
  <2>1. "(" # ")"
    OBVIOUS
  <2>. QED BY <1>3, <2>1, CharacterKinds DEF Converts
<1>5. StaysUnder(ss[a], e, a + 1, b - 1)
  BY <1>3, <1>4 DEF StaysUnder, Text
<1>6. Converted(e, a + 1, b - 1, v, os[a], ss[a], os[b - 1], ss[b - 1])
  BY <1>1, <1>2, <1>5 DEF Correct
<1>7. PICK q \in Text, u \in Text :
        /\ Yields(q, v)
        /\ ss[b - 1] = ss[a] \o u
        /\ os[b - 1] \o Post!Reverse(u) = os[a] \o q
        /\ \A k \in 1..Len(u) : \E j \in Outer(e, a + 1, b - 1) : u[k] = e[j]
  BY <1>6 DEF Converted
<1>8. \A k \in 1..Len(u) : u[k] \in Post!Operators
  BY <1>7 DEF Outer
<1>9. os[b] = os[b - 1] \o Post!Reverse(u) /\ ss[b] = ss[a - 1]
  <2>1. Converts(")", os[b - 1], Append(ss[a - 1], "(") \o u, os[b], ss[b])
    BY <1>3, <1>4, <1>7
  <2>. QED BY <1>3, <1>8, <2>1, ConvertsClosing
<1>10. << >> \in Text /\ Len(<< >>) = 0 /\ Post!Reverse(<< >>) = << >>
  BY ReverseOps DEF Text
<1>11. ss[b] = ss[a - 1] \o << >>
  BY <1>3, <1>9 DEF Text
<1>12. os[b] \o Post!Reverse(<< >>) = os[a - 1] \o q
  <2>1. os[b] = os[a - 1] \o q
    BY <1>4, <1>7, <1>9
  <2>2. (os[a - 1] \o q) \o << >> = os[a - 1] \o q
    BY <1>3 DEF Text
  <2>. QED BY <1>10, <2>1, <2>2
<1>13. \A k \in 1..Len(<< >>) : \E j \in Outer(e, a, b) : << >>[k] = e[j]
  BY <1>10
<1>. QED BY <1>7, <1>10, <1>11, <1>12, <1>13, Zenon DEF Converted

LEMMA DividedCorrect ==
    ASSUME NEW e \in Text, NEW m \in 0..Len(e), NEW os, NEW ss, IsHistory(e, m, os, ss),
           NEW a \in 1..m, NEW b \in 1..m, NEW v,
           \A c \in 1..m, d \in 1..m : \A w \in ValuesFrom(e, c, d) : w \in Int,
           NEW k \in a..b, Divides(e, a, b, k),
           NEW x \in ValuesFrom(e, a, k - 1), NEW y \in ValuesFrom(e, k + 1, b),
           v = Post!Apply(e[k], x, y), ~ (e[k] = "/" /\ y = 0),
           Correct(e, a, k - 1, os, ss), Correct(e, k + 1, b, os, ss),
           StaysUnder(ss[a - 1], e, a, b)
    PROVE  Converted(e, a, b, v, os[a - 1], ss[a - 1], os[b], ss[b])
<1>. DEFINE c == e[k]
            out == os[a - 1]
            st == ss[a - 1]
<1>1. a < k /\ k < b /\ c \in Post!Operators /\ k \in Outer(e, a, b)
      /\ Outer(e, a, k - 1) \subseteq Outer(e, a, b)
      /\ Outer(e, k + 1, b) \subseteq Outer(e, a, b)
  BY DEF Divides, Outer
<1>2. /\ Len(e) \in Nat /\ a - 1 \in 0..m /\ k - 1 \in 0..m /\ k \in 0..m /\ b \in 0..m
      /\ k - 1 \in 1..m /\ k + 1 \in 1..m /\ k \in 1..m /\ (k + 1) - 1 = k
  BY <1>1 DEF Text
<1>3. /\ out \in Text /\ st \in Text /\ os[k - 1] \in Text /\ ss[k - 1] \in Text
      /\ os[b] \in Text /\ os[k] \in Text
      /\ Converts(c, os[k - 1], ss[k - 1], os[k], ss[k])
  BY <1>2 DEF IsHistory
<1>4. x \in Int /\ y \in Int
  BY <1>2
<1>5. StaysUnder(st, e, a, k - 1)
  BY <1>1 DEF StaysUnder
<1>6. PICK q \in Text, u \in Text :
        /\ Yields(q, x)
        /\ ss[k - 1] = st \o u
        /\ os[k - 1] \o Post!Reverse(u) = out \o q
        /\ \A l \in 1..Len(u) : \E j \in Outer(e, a, k - 1) : u[l] = e[j]
  BY <1>5 DEF Correct, Converted
<1>7. os[k] = os[k - 1] \o Post!Reverse(u) /\ ss[k] = Append(st, c)
  <2>1. \A l \in 1..Len(u) : u[l] \in Post!Operators /\ Post!prior(c) <= Post!prior(u[l])
    BY <1>6 DEF Divides, Outer
  <2>2. \/ Len(st) = 0 \/ st[Len(st)] = "("
        \/ st[Len(st)] \in Post!Operators /\ Post!prior(st[Len(st)]) < Post!prior(c)
    BY <1>1 DEF StaysUnder
  <2>3. Converts(c, os[k - 1], st \o u, os[k], ss[k])
    BY <1>3, <1>6
  <2>. HIDE DEF c, out, st
  <2>. QED BY <1>1, <1>3, <2>1, <2>2, <2>3, ConvertsOperator
<1>8. StaysUnder(ss[k], e, k + 1, b)
  <2>1. ss[k][Len(ss[k])] = c
    BY <1>3, <1>7 DEF Text
  <2>. QED BY <1>1, <2>1 DEF StaysUnder, Divides
<1>9. PICK r \in Text, w \in Text :
        /\ Yields(r, y)
        /\ ss[b] = ss[k] \o w
        /\ os[b] \o Post!Reverse(w) = os[k] \o r
        /\ \A l \in 1..Len(w) : \E j \in Outer(e, k + 1, b) : w[l] = e[j]
  <2>1. Converted(e, k + 1, b, y, os[k], ss[k], os[b], ss[b])
    BY <1>2, <1>8 DEF Correct
  <2>. QED BY <2>1 DEF Converted
<1>. HIDE DEF c, out, st
<1>10. c \in Post!Characters /\ <<c>> \in Text /\ <<c>> \o w \in Text
      /\ Len(<<c>> \o w) = Len(w) + 1 /\ Len(w) \in Nat
      /\ (<<c>> \o w)[1] = c /\ \A l \in 1..Len(w) : (<<c>> \o w)[l + 1] = w[l]
  <2>1. c \in Post!Characters
    BY <1>1, CharacterKinds
  <2>2. w \in Seq(Post!Characters)
    BY DEF Text
  <2>. QED BY <2>1, <2>2 DEF Text
<1>11. (q \o r) \o <<c>> \in Text
  BY <1>10 DEF Text
<1>12. Yields((q \o r) \o <<c>>, v)
  BY <1>1, <1>4, <1>6, <1>9, OperatorYields DEF c
<1>13. ss[b] = st \o (<<c>> \o w)
  <2>1. st \in Text /\ c \in Post!Characters
    BY <1>3, <1>10
  <2>2. Append(st, c) \o w = st \o (<<c>> \o w)
    BY <2>1, AppendIs
  <2>. QED BY <1>7, <1>9, <2>2
<1>14. os[b] \o Post!Reverse(<<c>> \o w) = out \o ((q \o r) \o <<c>>)
  <2>1. Post!Reverse(<<c>> \o w) = Post!Reverse(w) \o <<c>> /\ Post!Reverse(w) \in Text
    BY <1>10, ReverseOps
  <2>2. out \in Text /\ os[b] \in Text /\ c \in Post!Characters
    BY <1>3, <1>10
  <2>3. os[b] \o Post!Reverse(w) = (out \o q) \o r
    BY <1>6, <1>7, <1>9
  <2>4. Post!Reverse(w) \in Text
    BY <2>1
  <2>. DEFINE rw == Post!Reverse(w)
              d == <<c>>
              p == os[b]
  <2>5. d \in Text /\ rw \in Text /\ p \in Text
    BY <2>2, <2>4, <1>10
  <2>6. Joined(p, rw) = Joined(Joined(out, q), r)
    BY <2>3, Zenon DEF Joined
  <2>. HIDE DEF rw, d, p
  <2>7. Joined(p, Joined(rw, d)) = Joined(out, Joined(Joined(q, r), d))
    <3>1. /\ Joined(out, q) \in Text /\ Joined(q, r) \in Text
          /\ Joined(Joined(out, q), r) = Joined(out, Joined(q, r))
      BY <2>2, Associates
    <3>2. Joined(Joined(out, Joined(q, r)), d) = Joined(out, Joined(Joined(q, r), d))
      BY <2>2, <2>5, <3>1, Associates
    <3>3. Joined(p, Joined(rw, d)) = Joined(Joined(p, rw), d)
      BY <2>5, Associates
    <3>. QED BY <2>6, <3>1, <3>2, <3>3, Zenon
  <2>8. os[b] \o (Post!Reverse(w) \o <<c>>) = out \o ((q \o r) \o <<c>>)
    BY <2>7, Zenon DEF Joined, rw, d, p
  <2>. QED BY <2>1, <2>8
<1>15. ASSUME NEW l \in 1..Len(<<c>> \o w)
       PROVE  \E j \in Outer(e, a, b) : (<<c>> \o w)[l] = e[j]
  <2>1. CASE l = 1
    BY <1>1, <1>10, <2>1 DEF c
  <2>2. CASE l # 1
    <3>1. l - 1 \in 1..Len(w) /\ (l - 1) + 1 = l
      BY <1>10, <2>2
    <3>2. (<<c>> \o w)[l] = w[l - 1]
      BY <1>10, <3>1
    <3>3. PICK j \in Outer(e, k + 1, b) : w[l - 1] = e[j]
      BY <1>9, <3>1
    <3>. QED BY <1>1, <3>2, <3>3
  <2>. QED BY <2>1, <2>2
<1>. QED BY <1>10, <1>11, <1>12, <1>13, <1>14, <1>15 DEF Converted, out, st

\* Values are numbers.
LEMMA ValuesAreInt ==
    ASSUME NEW e \in Text
    PROVE  \A a \in 1..Len(e), b \in 1..Len(e) : \A v \in ValuesFrom(e, a, b) : v \in Int
<1>. DEFINE Bad == {n \in Nat : \E a \in 1..Len(e) : \E b \in 1..Len(e) :
                        b - a = n /\ ~ \A v \in ValuesFrom(e, a, b) : v \in Int}
<1>0. Len(e) \in Nat
  BY DEF Text
<1>1. SUFFICES Bad = {}
  <2>. SUFFICES ASSUME Bad = {}, NEW a \in 1..Len(e), NEW b \in 1..Len(e),
                       NEW v \in ValuesFrom(e, a, b)
                PROVE  v \in Int
    OBVIOUS
  <2>1. a <= b
    BY ValueCases
  <2>2. b - a \in Nat
    BY <1>0, <2>1
  <2>3. b - a \notin Bad
    OBVIOUS
  <2>. QED BY <2>2, <2>3
<1>. SUFFICES ASSUME Bad # {}  PROVE FALSE
  OBVIOUS
<1>2. PICK n \in Bad : \A l \in Bad : n <= l
  BY LeastIn
<1>. PICK a \in 1..Len(e), b \in 1..Len(e) :
        b - a = n /\ ~ \A v \in ValuesFrom(e, a, b) : v \in Int
  BY <1>2
<1>3. PICK v \in ValuesFrom(e, a, b) : b - a = n /\ v \notin Int
  OBVIOUS
<1>4. ASSUME NEW c \in 1..Len(e), NEW d \in 1..Len(e), d - c < b - a,
             NEW w \in ValuesFrom(e, c, d)
      PROVE  w \in Int
  <2>1. c <= d
    BY <1>4, ValueCases
  <2>2. d - c \in Nat /\ ~ (n <= d - c)
    BY <1>0, <1>3, <1>4, <2>1
  <2>3. d - c \notin Bad
    BY <1>2, <2>2
  <2>. QED BY <2>2, <2>3
<1>5. CASE IsDigit(e, a, b, v)
  BY <1>3, <1>5, PostfixAssumption DEF IsDigit
<1>6. CASE IsEnclosed(e, a, b, v)
  <2>1. a < b /\ v \in ValuesFrom(e, a + 1, b - 1)
    BY <1>6 DEF IsEnclosed
  <2>2. a + 1 \in 1..Len(e) /\ b - 1 \in 1..Len(e) /\ (b - 1) - (a + 1) < b - a
    BY <1>0, <2>1
  <2>. QED BY <1>3, <1>4, <2>1, <2>2
<1>7. CASE IsDivided(e, a, b, v)
  <2>1. PICK k \in a..b :
        /\ Divides(e, a, b, k)
        /\ \E x \in ValuesFrom(e, a, k - 1), y \in ValuesFrom(e, k + 1, b) :
              v = Post!Apply(e[k], x, y) /\ ~ (e[k] = "/" /\ y = 0)
    BY <1>7 DEF IsDivided
  <2>2. PICK x \in ValuesFrom(e, a, k - 1), y \in ValuesFrom(e, k + 1, b) :
              v = Post!Apply(e[k], x, y) /\ ~ (e[k] = "/" /\ y = 0)
    BY <2>1
  <2>3. a < k /\ k < b /\ e[k] \in Post!Operators
    BY <2>1 DEF Divides, Outer
  <2>4. /\ k - 1 \in 1..Len(e) /\ (k - 1) - a < b - a
        /\ k + 1 \in 1..Len(e) /\ b - (k + 1) < b - a
    BY <1>0, <2>3
  <2>5. x \in Int /\ y \in Int
    BY <1>4, <2>4
  <2>. QED BY <1>3, <2>2, <2>3, <2>5, ApplyInt
<1>. QED BY <1>3, <1>5, <1>6, <1>7, ValueCases

LEMMA AllCorrect ==
    ASSUME NEW e \in Text, NEW m \in 0..Len(e), NEW os, NEW ss, IsHistory(e, m, os, ss)
    PROVE  \A a \in 1..m, b \in 1..m : Correct(e, a, b, os, ss)
<1>. DEFINE Bad == {n \in Nat : \E a \in 1..m : \E b \in 1..m :
                        b - a = n /\ ~ Correct(e, a, b, os, ss)}
<1>0. Len(e) \in Nat /\ m \in Nat /\ 1..m \subseteq 1..Len(e)
  BY DEF Text
<1>1. SUFFICES Bad = {}
  <2>. SUFFICES ASSUME Bad = {}, NEW a \in 1..m, NEW b \in 1..m, ~ Correct(e, a, b, os, ss)
                PROVE  FALSE
    OBVIOUS
  <2>1. a <= b
    BY <1>0, ValueCases DEF Correct
  <2>2. b - a \in Nat
    BY <1>0, <2>1
  <2>3. b - a \notin Bad
    OBVIOUS
  <2>. QED BY <2>2, <2>3
<1>. SUFFICES ASSUME Bad # {}  PROVE FALSE
  OBVIOUS
<1>2. PICK n \in Bad : \A l \in Bad : n <= l
  BY LeastIn
<1>3. PICK a \in 1..m, b \in 1..m : b - a = n /\ ~ Correct(e, a, b, os, ss)
  BY <1>2
<1>4. PICK v \in ValuesFrom(e, a, b) :
        /\ StaysUnder(ss[a - 1], e, a, b)
        /\ ~ Converted(e, a, b, v, os[a - 1], ss[a - 1], os[b], ss[b])
  BY <1>3 DEF Correct
<1>5. ASSUME NEW c \in 1..m, NEW d \in 1..m, d - c < b - a
      PROVE  Correct(e, c, d, os, ss)
  <2>1. CASE c <= d
    <3>1. d - c \in Nat /\ ~ (n <= d - c)
      BY <1>0, <1>3, <1>5, <2>1
    <3>2. d - c \notin Bad
      BY <1>2, <3>1
    <3>. QED BY <3>1, <3>2
  <2>2. CASE ~ (c <= d)
    BY <1>0, <2>2, ValueCases DEF Correct
  <2>. QED BY <2>1, <2>2
<1>. HIDE DEF Bad
<1>6. a \in 1..Len(e) /\ b \in 1..Len(e) /\ a \in Int /\ b \in Int
  BY <1>0
<1>7. CASE IsDigit(e, a, b, v)
  BY <1>4, <1>7, DigitCorrect DEF IsDigit
<1>8. CASE IsEnclosed(e, a, b, v)
  <2>1. a < b
    BY <1>8 DEF IsEnclosed
  <2>2. a + 1 \in 1..m /\ b - 1 \in 1..m /\ (b - 1) - (a + 1) < b - a
    BY <1>0, <2>1
  <2>3. Correct(e, a + 1, b - 1, os, ss)
    BY <1>5, <2>2
  <2>. QED BY <1>4, <1>8, <2>3, EnclosedCorrect
<1>9. CASE IsDivided(e, a, b, v)
  <2>1. PICK k \in a..b :
        /\ Divides(e, a, b, k)
        /\ \E x \in ValuesFrom(e, a, k - 1), y \in ValuesFrom(e, k + 1, b) :
              v = Post!Apply(e[k], x, y) /\ ~ (e[k] = "/" /\ y = 0)
    BY <1>9 DEF IsDivided
  <2>2. PICK x \in ValuesFrom(e, a, k - 1), y \in ValuesFrom(e, k + 1, b) :
              v = Post!Apply(e[k], x, y) /\ ~ (e[k] = "/" /\ y = 0)
    BY <2>1
  <2>3. a < k /\ k < b
    BY <2>1 DEF Divides
  <2>4. /\ k - 1 \in 1..m /\ (k - 1) - a < b - a
        /\ k + 1 \in 1..m /\ b - (k + 1) < b - a
    BY <1>0, <2>3
  <2>5. Correct(e, a, k - 1, os, ss) /\ Correct(e, k + 1, b, os, ss)
    BY <1>5, <2>4
  <2>6. \A c \in 1..m, d \in 1..m : \A w \in ValuesFrom(e, c, d) : w \in Int
    BY <1>0, ValuesAreInt
  <2>. QED BY <1>4, <2>1, <2>2, <2>5, <2>6, DividedCorrect
<1>. QED BY <1>4, <1>6, <1>7, <1>8, <1>9, ValueCases

\* A closing parenthesis has an expression before it, and that an opening one.
LEMMA Matched ==
    ASSUME NEW e \in Text
    PROVE  \A a \in 1..Len(e), b \in 1..Len(e), j \in 1..Len(e) :
             ValuesFrom(e, a, b) # {} /\ j \in a..b /\ e[j] = ")"
               => \E l \in a..b : /\ l + 1 <= j - 1 /\ e[l] = "("
                                 /\ ValuesFrom(e, l + 1, j - 1) # {}
<1>. DEFINE P(a, b) == \A j \in a..b : e[j] = ")"
               => \E l \in a..b : /\ l + 1 <= j - 1 /\ e[l] = "("
                                 /\ ValuesFrom(e, l + 1, j - 1) # {}
            Bad == {n \in Nat : \E a \in 1..Len(e) : \E b \in 1..Len(e) :
                        b - a = n /\ ValuesFrom(e, a, b) # {} /\ ~ P(a, b)}
<1>. HIDE DEF P
<1>0. Len(e) \in Nat
  BY DEF Text
<1>1. SUFFICES Bad = {}
  <2>. SUFFICES ASSUME Bad = {}, NEW a \in 1..Len(e), NEW b \in 1..Len(e),
                       ValuesFrom(e, a, b) # {}
                PROVE  P(a, b)
    BY DEF P
  <2>1. a <= b
    BY ValueCases
  <2>2. b - a \in Nat
    BY <1>0, <2>1
  <2>3. b - a \notin Bad
    OBVIOUS
  <2>. QED BY <2>2, <2>3
<1>. SUFFICES ASSUME Bad # {}  PROVE FALSE
  OBVIOUS
<1>2. PICK n \in Bad : \A l \in Bad : n <= l
  BY LeastIn
<1>3. PICK a \in 1..Len(e), b \in 1..Len(e) :
        b - a = n /\ ValuesFrom(e, a, b) # {} /\ ~ P(a, b)
  BY <1>2
<1>4. ASSUME NEW c \in 1..Len(e), NEW d \in 1..Len(e), d - c < b - a,
             ValuesFrom(e, c, d) # {}
      PROVE  P(c, d)
  <2>1. c <= d
    BY <1>4, ValueCases
  <2>2. d - c \in Nat /\ ~ (n <= d - c)
    BY <1>0, <1>3, <1>4, <2>1
  <2>3. d - c \notin Bad
    BY <1>2, <2>2
  <2>. QED BY <1>4, <2>2, <2>3
<1>. HIDE DEF Bad
<1>5. PICK v \in ValuesFrom(e, a, b) : TRUE
  BY <1>3
<1>6. PICK j \in a..b : e[j] = ")" /\ ~ \E l \in a..b : /\ l + 1 <= j - 1 /\ e[l] = "("
                                 /\ ValuesFrom(e, l + 1, j - 1) # {}
  BY <1>3 DEF P
<1>7. ASSUME NEW c \in 1..Len(e), NEW d \in 1..Len(e), d - c < b - a,
             c..d \subseteq a..b, ValuesFrom(e, c, d) # {}
      PROVE  j \notin c..d
  <2>1. P(c, d)
    BY <1>4, <1>7
  <2>. QED BY <1>6, <1>7, <2>1 DEF P
<1>8. CASE IsDigit(e, a, b, v)
  <2>1. e[a] \in DOMAIN DigitValue /\ a = b
    BY <1>8 DEF IsDigit
  <2>2. j = a
    BY <2>1
  <2>. QED BY <1>6, <2>1, <2>2, CharacterKinds
<1>9. CASE IsEnclosed(e, a, b, v)
  <2>1. a < b /\ e[a] = "(" /\ e[b] = ")" /\ ValuesFrom(e, a + 1, b - 1) # {}
    BY <1>9 DEF IsEnclosed
  <2>2. a + 1 \in 1..Len(e) /\ b - 1 \in 1..Len(e) /\ (b - 1) - (a + 1) < b - a
        /\ (a + 1)..(b - 1) \subseteq a..b
    BY <1>0, <2>1
  <2>3. a + 1 <= b - 1
    BY <2>1, <2>2, ValueCases
  <2>4. j \notin (a + 1)..(b - 1)
    BY <1>7, <2>1, <2>2
  <2>5. j # a
    BY <1>6, <2>1
  <2>6. j = b
    BY <2>4, <2>5, <1>0
  <2>7. a \in a..b
    BY <1>0, <2>1
  <2>. QED BY <1>6, <2>1, <2>3, <2>6, <2>7
<1>10. CASE IsDivided(e, a, b, v)
  <2>1. PICK k \in a..b :
        Divides(e, a, b, k) /\ ValuesFrom(e, a, k - 1) # {} /\ ValuesFrom(e, k + 1, b) # {}
    BY <1>10 DEF IsDivided
  <2>2. a < k /\ k < b /\ e[k] \in Post!Operators
    BY <2>1 DEF Divides, Outer
  <2>3. /\ k - 1 \in 1..Len(e) /\ (k - 1) - a < b - a /\ a..(k - 1) \subseteq a..b
        /\ k + 1 \in 1..Len(e) /\ b - (k + 1) < b - a /\ (k + 1)..b \subseteq a..b
    BY <1>0, <2>2
  <2>4. j \notin a..(k - 1) /\ j \notin (k + 1)..b
    BY <1>7, <2>1, <2>3
  <2>5. j = k
    BY <1>0, <2>4
  <2>. QED BY <1>6, <2>2, <2>5, CharacterKinds
<1>. QED BY <1>5, <1>8, <1>9, <1>10, ValueCases

-----------------------------------------------------------------------------
(* The two loops *)

\* While the expression is read, the output and the stack are where a history of
\* it ends; while the output is calculated, the stack is where the history ends
\* that comes to the value.
PostInv ==
    /\ expr \in Exprs
    /\ post_pc = "getPostfix" =>
          /\ post_s = << >> /\ post_i \in 1..(Len(expr) + 1)
          /\ \E os, ss : /\ IsHistory(expr, post_i - 1, os, ss)
                         /\ post_output = os[post_i - 1] /\ op_stack = ss[post_i - 1]
    /\ post_pc = "expCalculate" =>
          /\ post_output \in Text /\ post_i \in 1..(Len(post_output) + 1)
          /\ \A v \in Post!ValuesOf[expr] :
                \E h : /\ Evaluates(post_output, h)
                       /\ h[0] = << >> /\ h[Len(post_output)] = <<v>>
                       /\ post_s = h[post_i - 1]
    /\ post_pc = "done" => \A v \in Post!ValuesOf[expr] : post_s = <<v>>

LEMMA ExprIs ==
    ASSUME expr \in Exprs
    PROVE  /\ expr \in Text /\ Len(expr) \in Nat \ {0}
           /\ ValuesFrom(expr, 1, Len(expr)) = Post!ValuesOf[expr]
           /\ Post!ValuesOf[expr] # {}
<1>1. expr \in Text /\ Post!ValuesOf[expr] # {}
  BY PostfixAssumption DEF Text
<1>2. Len(expr) \in Nat /\ SubSeq(expr, 1, Len(expr)) = expr
  BY <1>1 DEF Text
<1>3. ValuesFrom(expr, 1, Len(expr)) = Post!ValuesOf[expr]
  BY <1>2 DEF ValuesFrom
<1>4. Len(expr) # 0
  <2>. SUFFICES ASSUME Len(expr) = 0  PROVE FALSE
    OBVIOUS
  <2>. QED BY <1>1, <1>2, <1>3, NoValues
<1>. QED BY <1>1, <1>2, <1>3, <1>4

\* The code's while loop stops somewhere.
LEMMA LeftIs ==
    ASSUME op_stack \in Text, NEW K
    PROVE  PoppedTo(op_stack, K, Post!Left(K))
<1>. DEFINE L == Len(op_stack)
            S == {n \in 0..L : n = 0 \/ op_stack[n] \in K}
            D == {L - n : n \in S}
<1>0. L \in Nat
  BY DEF Text
<1>1. 0 \in S /\ D \in SUBSET Nat /\ D # {}
  BY <1>0
<1>2. PICK d \in D : \A m \in D : d <= m
  <2>. HIDE DEF D
  <2>. QED BY <1>1, LeastIn
<1>3. PICK n \in S : d = L - n
  OBVIOUS
<1>4. n \in 0..L /\ (n = 0 \/ op_stack[n] \in K)
  OBVIOUS
<1>5. ASSUME NEW k \in (n + 1)..L, op_stack[k] \in K  PROVE FALSE
  <2>1. k \in S /\ L - k \in D
    BY <1>0, <1>4, <1>5
  <2>2. d <= L - k
    BY <1>2, <2>1
  <2>. QED BY <1>0, <1>3, <1>4, <2>2
<1>6. PoppedTo(op_stack, K, n)
  BY <1>4, <1>5 DEF PoppedTo
<1>7. /\ Post!Left(K) \in 0..L
      /\ \A k \in (Post!Left(K) + 1)..L : op_stack[k] \notin K
      /\ Post!Left(K) = 0 \/ op_stack[Post!Left(K)] \in K
  <2>. DEFINE P(l) == /\ \A k \in (l + 1)..L : op_stack[k] \notin K
                      /\ l = 0 \/ op_stack[l] \in K
  <2>1. \E l \in 0..L : P(l)
    BY <1>4, <1>5
  <2>2. Post!Left(K) = CHOOSE l \in 0..L : P(l)
    BY DEF Post!Left
  <2>3. Post!Left(K) \in 0..L /\ P(Post!Left(K))
    <3>. HIDE DEF P
    <3>. QED BY <2>1, <2>2, Zenon
  <2>. QED BY <2>3
<1>. QED BY <1>7 DEF PoppedTo

LEMMA ConvertsIn ==
    ASSUME NEW c \in Post!Characters, NEW o \in Text, NEW st \in Text, NEW p, NEW su,
           Converts(c, o, st, p, su)
    PROVE  p \in Text /\ su \in Text
<1>0. Len(st) \in Nat
  BY DEF Text
<1>1. ASSUME NEW n \in 0..Len(st), p = o \o Popped(st, n)  PROVE p \in Text
  <2>1. SubSeq(st, n + 1, Len(st)) \in Text
    BY <1>0 DEF Text
  <2>2. Popped(st, n) \in Text
    BY <2>1, ReverseOps DEF Popped
  <2>. QED BY <1>1, <2>2 DEF Text
<1>2. CASE c \in Post!Operators
           /\ \E n \in 0..Len(st) : /\ PoppedTo(st, Kept(c), n)
                                   /\ p = o \o Popped(st, n)
                                   /\ su = Append(SubSeq(st, 1, n), c)
  <2>1. PICK n \in 0..Len(st) : p = o \o Popped(st, n) /\ su = Append(SubSeq(st, 1, n), c)
    BY <1>2
  <2>2. su \in Text
    BY <1>0, <2>1 DEF Text
  <2>. QED BY <1>1, <2>1, <2>2
<1>3. CASE c = "(" /\ p = o /\ su = Append(st, c)
  BY <1>3 DEF Text
<1>4. CASE c = ")"
           /\ \E n \in 1..Len(st) : /\ PoppedTo(st, {"("}, n)
                                   /\ p = o \o Popped(st, n)
                                   /\ su = SubSeq(st, 1, n - 1)
  <2>1. PICK n \in 1..Len(st) : p = o \o Popped(st, n) /\ su = SubSeq(st, 1, n - 1)
    BY <1>4
  <2>2. su \in Text
    BY <1>0, <2>1 DEF Text
  <2>3. n \in 0..Len(st)
    BY <1>0
  <2>4. p = o \o Popped(st, n)
    BY <2>1
  <2>. QED BY <1>1, <2>2, <2>3, <2>4
<1>5. CASE c \in DOMAIN DigitValue /\ p = Append(o, c) /\ su = st
  BY <1>5 DEF Text
<1>. QED BY <1>2, <1>3, <1>4, <1>5 DEF Converts

\* A history goes on with the next character.
LEMMA GoesOn ==
    ASSUME NEW e \in Text, NEW m \in Nat, m < Len(e), NEW os, NEW ss,
           IsHistory(e, m, os, ss), NEW p, NEW su,
           Converts(e[m + 1], os[m], ss[m], p, su)
    PROVE  \E ot, st : IsHistory(e, m + 1, ot, st) /\ p = ot[m + 1] /\ su = st[m + 1]
<1>. DEFINE ot == [j \in 0..(m + 1) |-> IF j = m + 1 THEN p ELSE os[j]]
            st == [j \in 0..(m + 1) |-> IF j = m + 1 THEN su ELSE ss[j]]
<1>0. os \in [0..m -> Text] /\ ss \in [0..m -> Text]
      /\ os[0] = << >> /\ ss[0] = << >>
      /\ \A j \in 1..m : Converts(e[j], os[j - 1], ss[j - 1], os[j], ss[j])
  BY DEF IsHistory
<1>1. p \in Text /\ su \in Text
  <2>1. Len(e) \in Nat /\ e[m + 1] \in Post!Characters
    BY DEF Text
  <2>. QED BY <1>0, <2>1, ConvertsIn
<1>2. /\ ot \in [0..(m + 1) -> Text] /\ st \in [0..(m + 1) -> Text]
      /\ ot[m + 1] = p /\ st[m + 1] = su
      /\ \A j \in 0..m : ot[j] = os[j] /\ st[j] = ss[j]
  <2>1. \A j \in 0..(m + 1) : j # m + 1 => j \in 0..m
    OBVIOUS
  <2>. QED BY <1>0, <1>1, <2>1
<1>. HIDE DEF ot, st
<1>3. ASSUME NEW j \in 1..(m + 1)
      PROVE  Converts(e[j], ot[j - 1], st[j - 1], ot[j], st[j])
  <2>1. CASE j = m + 1
    <3>1. j - 1 = m /\ m \in 0..m
      BY <2>1
    <3>. QED BY <1>2, <2>1, <3>1
  <2>2. CASE j # m + 1
    <3>1. j \in 1..m /\ j \in 0..m /\ j - 1 \in 0..m
      BY <2>2
    <3>. QED BY <1>0, <1>2, <3>1
  <2>. QED BY <2>1, <2>2
<1>4. ot[0] = << >> /\ st[0] = << >>
  BY <1>0, <1>2
<1>. QED BY <1>2, <1>3, <1>4 DEF IsHistory

\* What getPostfix does with a character is what Converts says.
LEMMA ConvertSteps ==
    ASSUME NEW c \in Post!Characters, op_stack \in Text,
           \/ Post!Operator(c) \/ Post!OpenParenthesis(c)
           \/ Post!CloseParenthesis(c) \/ Post!Operand(c)
    PROVE  /\ post_pc = "getPostfix" /\ post_i <= Len(expr) /\ c = expr[post_i]
           /\ post_i' = post_i + 1
           /\ Converts(c, post_output, op_stack, post_output', op_stack')
           /\ post_pc' = post_pc /\ expr' = expr /\ post_s' = post_s
<1>0. Len(op_stack) \in Nat
  BY DEF Text
<1>1. CASE Post!Operator(c)
  <2>. DEFINE n == Post!Left(Kept(c))
  <2>1. PoppedTo(op_stack, Kept(c), n)
    BY LeftIs
  <2>2. n \in 0..Len(op_stack)
    BY <2>1 DEF PoppedTo
  <2>3. /\ c \in Post!Operators
        /\ post_output' = post_output \o Popped(op_stack, n)
        /\ op_stack' = Append(SubSeq(op_stack, 1, n), c)
    BY <1>1 DEF Post!Operator, Post!PopTo, Popped, Kept
  <2>4. Converts(c, post_output, op_stack, post_output', op_stack')
    <3>. HIDE DEF n
    <3>. QED BY <2>1, <2>2, <2>3, Zenon DEF Converts
  <2>. QED BY <1>1, <2>4 DEF Post!Operator, Post!At
<1>2. CASE Post!OpenParenthesis(c)
  BY <1>2 DEF Post!OpenParenthesis, Post!At, Converts
<1>3. CASE Post!CloseParenthesis(c)
  <2>. DEFINE n == Post!Left({"("})
  <2>1. PoppedTo(op_stack, {"("}, n)
    BY LeftIs
  <2>2. n \in 0..Len(op_stack) /\ n > 0
    BY <1>3, <2>1 DEF PoppedTo, Post!CloseParenthesis
  <2>3. n \in 1..Len(op_stack)
    <3>. HIDE DEF n
    <3>. QED BY <1>0, <2>2
  <2>4. /\ c = ")"
        /\ post_output' = post_output \o Popped(op_stack, n)
        /\ op_stack' = SubSeq(op_stack, 1, n - 1)
    BY <1>3 DEF Post!CloseParenthesis, Post!PopTo, Popped
  <2>5. Converts(c, post_output, op_stack, post_output', op_stack')
    <3>. HIDE DEF n
    <3>. QED BY <2>1, <2>3, <2>4, Zenon DEF Converts
  <2>. QED BY <1>3, <2>5 DEF Post!CloseParenthesis, Post!At
<1>4. CASE Post!Operand(c)
  BY <1>4 DEF Post!Operand, Post!At, Converts
<1>. QED BY <1>1, <1>2, <1>3, <1>4

LEMMA StepConvert ==
    ASSUME PostInv, Post!Convert
    PROVE  PostInv'
<1>1. PICK c \in Post!Characters : \/ Post!Operator(c) \/ Post!OpenParenthesis(c)
                                   \/ Post!CloseParenthesis(c) \/ Post!Operand(c)
  BY DEF Post!Convert
<1>2. post_pc = "getPostfix"
  BY <1>1 DEF Post!Operator, Post!OpenParenthesis, Post!CloseParenthesis, Post!Operand, Post!At
<1>. DEFINE m == post_i - 1
<1>3. post_s = << >> /\ post_i \in 1..(Len(expr) + 1) /\ expr \in Exprs
  BY <1>2 DEF PostInv
<1>4. PICK os, ss : IsHistory(expr, m, os, ss) /\ post_output = os[m] /\ op_stack = ss[m]
  BY <1>2 DEF PostInv
<1>5. Len(expr) \in Nat /\ m \in Nat /\ m + 1 = post_i /\ expr \in Text
  BY <1>3, ExprIs
<1>6. op_stack \in Text
  BY <1>4, <1>5 DEF IsHistory
<1>7. /\ post_i <= Len(expr) /\ c = expr[post_i] /\ post_i' = post_i + 1
      /\ Converts(c, post_output, op_stack, post_output', op_stack')
      /\ post_pc' = post_pc /\ expr' = expr /\ post_s' = post_s
  BY <1>1, <1>6, ConvertSteps
<1>8. m < Len(expr) /\ post_i' - 1 = m + 1 /\ post_i' \in 1..(Len(expr) + 1)
  BY <1>5, <1>7
<1>. HIDE DEF m
<1>9. \E ot, st : /\ IsHistory(expr, m + 1, ot, st)
                  /\ post_output' = ot[m + 1] /\ op_stack' = st[m + 1]
  BY <1>4, <1>5, <1>7, <1>8, GoesOn
<1>. QED BY <1>2, <1>3, <1>7, <1>8, <1>9 DEF PostInv

LEMMA StepEndOfExpr ==
    ASSUME PostInv, Post!EndOfExpr
    PROVE  PostInv'
<1>. DEFINE L == Len(expr)
<1>1. /\ post_pc = "getPostfix" /\ post_i > L
      /\ post_output' = post_output \o Post!Reverse(SubSeq(op_stack, 0 + 1, Len(op_stack)))
      /\ post_pc' = "expCalculate" /\ post_i' = 1 /\ expr' = expr /\ post_s' = post_s
  BY DEF Post!EndOfExpr, Post!PopTo
<1>2. post_s = << >> /\ post_i \in 1..(L + 1) /\ expr \in Exprs
  BY <1>1 DEF PostInv
<1>3. expr \in Text /\ L \in Nat \ {0} /\ ValuesFrom(expr, 1, L) = Post!ValuesOf[expr]
      /\ Post!ValuesOf[expr] # {}
  BY <1>2, ExprIs
<1>4. post_i - 1 = L
  BY <1>1, <1>2, <1>3
<1>5. PICK os, ss : IsHistory(expr, L, os, ss) /\ post_output = os[L] /\ op_stack = ss[L]
  BY <1>1, <1>4 DEF PostInv
<1>6. os[L] \in Text /\ ss[L] \in Text /\ os[0] = << >> /\ ss[0] = << >>
  BY <1>3, <1>5 DEF IsHistory
<1>. HIDE DEF L
<1>7. post_output' = os[L] \o Post!Reverse(ss[L])
  <2>1. SubSeq(ss[L], 0 + 1, Len(ss[L])) = ss[L]
    BY <1>6 DEF Text
  <2>. QED BY <1>1, <1>5, <2>1
<1>8. Correct(expr, 1, L, os, ss)
  <2>1. L \in 0..L /\ 1 \in 1..L /\ L \in 1..L
    BY <1>3
  <2>2. L \in 0..Len(expr)
    BY <2>1 DEF L
  <2>. QED BY <1>3, <1>5, <2>1, <2>2, AllCorrect
<1>9. ASSUME NEW v \in Post!ValuesOf[expr]
      PROVE  /\ post_output' \in Text
             /\ \E h : /\ Evaluates(post_output', h)
                       /\ h[0] = << >> /\ h[Len(post_output')] = <<v>>
  <2>1. 1 - 1 = 0 /\ StaysUnder(ss[0], expr, 1, L)
    BY <1>6 DEF StaysUnder
  <2>2. Converted(expr, 1, L, v, os[0], ss[0], os[L], ss[L])
    BY <1>3, <1>8, <2>1 DEF Correct
  <2>3. PICK q \in Text, u \in Text : /\ Yields(q, v)
                                      /\ ss[L] = << >> \o u
                                      /\ os[L] \o Post!Reverse(u) = << >> \o q
    BY <1>6, <2>2 DEF Converted
  <2>4. << >> \o u = u /\ << >> \o q = q
    BY DEF Text
  <2>5. post_output' = q
    BY <1>7, <2>3, <2>4
  <2>6. << >> \in Seq(Int) /\ Append(<< >>, v) = <<v>>
    OBVIOUS
  <2>7. PICK h : Evaluates(q, h) /\ h[0] = << >> /\ h[Len(q)] = Append(<< >>, v)
    BY <2>3, <2>6 DEF Yields
  <2>. QED BY <2>5, <2>6, <2>7
<1>10. post_output' \in Text /\ Len(post_output') \in Nat
  <2>1. post_output' \in Text
    BY <1>3, <1>9
  <2>. QED BY <2>1 DEF Text
<1>11. post_i' \in 1..(Len(post_output') + 1) /\ post_i' - 1 = 0
  BY <1>1, <1>10
<1>. QED BY <1>1, <1>2, <1>9, <1>10, <1>11 DEF PostInv

LEMMA CalculatesOnce ==
    ASSUME NEW c, NEW x, NEW y, NEW z, Calculates(c, x, y), Calculates(c, x, z)
    PROVE  y = z
  BY CharacterKinds DEF Calculates

LEMMA StepCalculate ==
    ASSUME PostInv, NEW c, Post!Calculate(c) \/ Post!PushNumber(c)
    PROVE  PostInv'
<1>1. /\ post_pc = "expCalculate" /\ post_i <= Len(post_output) /\ c = post_output[post_i]
      /\ post_i' = post_i + 1 /\ Calculates(c, post_s, post_s')
      /\ post_pc' = post_pc /\ expr' = expr /\ post_output' = post_output
  <2>1. CASE Post!Calculate(c)
    BY <2>1 DEF Post!Calculate, Post!At, Calculates
  <2>2. CASE Post!PushNumber(c)
    BY <2>2 DEF Post!PushNumber, Post!At, Calculates
  <2>. QED BY <2>1, <2>2
<1>2. post_output \in Text /\ post_i \in 1..(Len(post_output) + 1) /\ expr \in Exprs
  BY <1>1 DEF PostInv
<1>3. Len(post_output) \in Nat
  BY <1>2 DEF Text
<1>4. post_i \in 1..Len(post_output) /\ post_i' \in 1..(Len(post_output) + 1)
      /\ post_i' - 1 = post_i
  BY <1>1, <1>2, <1>3
<1>5. ASSUME NEW v \in Post!ValuesOf[expr]
      PROVE  \E h : /\ Evaluates(post_output, h)
                    /\ h[0] = << >> /\ h[Len(post_output)] = <<v>>
                    /\ post_s' = h[post_i]
  <2>1. PICK h : /\ Evaluates(post_output, h)
                 /\ h[0] = << >> /\ h[Len(post_output)] = <<v>>
                 /\ post_s = h[post_i - 1]
    BY <1>1 DEF PostInv
  <2>2. Calculates(c, post_s, h[post_i])
    BY <1>1, <1>4, <2>1 DEF Evaluates
  <2>3. post_s' = h[post_i]
    BY <1>1, <2>2, CalculatesOnce
  <2>. QED BY <2>1, <2>3
<1>. QED BY <1>1, <1>2, <1>4, <1>5 DEF PostInv

LEMMA StepResult ==
    ASSUME PostInv, Post!Result
    PROVE  PostInv'
<1>1. /\ post_pc = "expCalculate" /\ post_i > Len(post_output) /\ post_pc' = "done"
      /\ expr' = expr /\ post_s' = post_s /\ expr \in Exprs
      /\ post_output \in Text /\ post_i \in 1..(Len(post_output) + 1)
  BY DEF Post!Result, PostInv
<1>2. Len(post_output) \in Nat
  BY <1>1 DEF Text
<1>3. post_i - 1 = Len(post_output)
  BY <1>1, <1>2
<1>4. \A v \in Post!ValuesOf[expr] : post_s = <<v>>
  BY <1>1, <1>3 DEF PostInv
<1>. QED BY <1>1, <1>4 DEF PostInv

LEMMA PostInit == Post!Init => PostInv
<1>. SUFFICES ASSUME Post!Init  PROVE PostInv
  OBVIOUS
<1>1. /\ post_pc = "getPostfix" /\ expr \in Exprs /\ post_i = 1
      /\ post_output = << >> /\ op_stack = << >> /\ post_s = << >>
  BY DEF Post!Init
<1>2. Len(expr) \in Nat /\ post_i \in 1..(Len(expr) + 1) /\ post_i - 1 = 0
  BY <1>1, ExprIs
<1>. DEFINE h == [j \in 0..0 |-> << >>]
<1>3. h \in [0..0 -> Text] /\ h[0] = << >>
  BY DEF Text
<1>4. IsHistory(expr, 0, h, h)
  <2>. HIDE DEF h
  <2>1. 1..0 = {}
    OBVIOUS
  <2>. QED BY <1>3, <2>1 DEF IsHistory
<1>5. \E os, ss : IsHistory(expr, 0, os, ss) /\ post_output = os[0] /\ op_stack = ss[0]
  <2>. HIDE DEF h
  <2>. QED BY <1>1, <1>3, <1>4
<1>. QED BY <1>1, <1>2, <1>5 DEF PostInv

LEMMA PostStep ==
    ASSUME PostInv, [Post!Next]_(Post!vars)
    PROVE  PostInv'
<1>1. CASE Post!Convert
  BY <1>1, StepConvert
<1>2. CASE Post!EndOfExpr
  BY <1>2, StepEndOfExpr
<1>3. CASE \E c \in Post!Characters : Post!Calculate(c) \/ Post!PushNumber(c)
  BY <1>3, StepCalculate
<1>4. CASE Post!Result
  BY <1>4, StepResult
<1>5. CASE UNCHANGED Post!vars
  BY <1>5 DEF Post!vars, PostInv
<1>. QED BY <1>1, <1>2, <1>3, <1>4, <1>5 DEF Post!Next

\* A closing parenthesis comes to the opening one that waits for it.
LEMMA ParenthesisWaits ==
    ASSUME PostInv, post_pc = "getPostfix", post_i <= Len(expr), expr[post_i] = ")"
    PROVE  \E j \in DOMAIN op_stack : op_stack[j] = "("
<1>. DEFINE m == post_i - 1
<1>1. post_i \in 1..(Len(expr) + 1) /\ expr \in Exprs
  BY DEF PostInv
<1>2. expr \in Text /\ Len(expr) \in Nat \ {0} /\ ValuesFrom(expr, 1, Len(expr)) # {}
  BY <1>1, ExprIs
<1>3. PICK os, ss : IsHistory(expr, m, os, ss) /\ op_stack = ss[m]
  BY DEF PostInv
<1>4. 1 \in 1..Len(expr) /\ Len(expr) \in 1..Len(expr) /\ post_i \in 1..Len(expr)
  BY <1>1, <1>2
<1>5. PICK l \in 1..Len(expr) : /\ l + 1 <= post_i - 1 /\ expr[l] = "("
                               /\ ValuesFrom(expr, l + 1, post_i - 1) # {}
  BY <1>2, <1>4, Matched
<1>6. /\ m \in 0..Len(expr) /\ l \in 0..m /\ l \in 1..m /\ l - 1 \in 0..m /\ m \in 0..m
      /\ l + 1 \in 1..m /\ m \in 1..m /\ (l + 1) - 1 = l
  BY <1>1, <1>2, <1>4, <1>5
<1>7. ValuesFrom(expr, l + 1, m) # {} /\ expr[l] = "("
  BY <1>5
<1>. HIDE DEF m
<1>8. PICK v \in ValuesFrom(expr, l + 1, m) : TRUE
  BY <1>7
<1>9. /\ ss[l - 1] \in Text /\ ss[l] \in Text /\ ss[m] \in Text
      /\ Converts("(", os[l - 1], ss[l - 1], os[l], ss[l])
  BY <1>3, <1>6, <1>7 DEF IsHistory
<1>10. ss[l] = Append(ss[l - 1], "(")
  <2>1. "(" # ")"
    OBVIOUS
  <2>. QED BY <1>9, <2>1, CharacterKinds DEF Converts
<1>11. Len(ss[l]) \in Nat \ {0} /\ ss[l][Len(ss[l])] = "("
  BY <1>9, <1>10 DEF Text
<1>12. StaysUnder(ss[l], expr, l + 1, m)
  BY <1>11 DEF StaysUnder
<1>13. Correct(expr, l + 1, m, os, ss)
  BY <1>2, <1>3, <1>6, AllCorrect
<1>14. Converted(expr, l + 1, m, v, os[l], ss[l], os[m], ss[m])
  BY <1>6, <1>12, <1>13 DEF Correct
<1>15. PICK u \in Text : ss[m] = ss[l] \o u
  BY <1>14 DEF Converted
<1>16. Len(ss[l]) \in DOMAIN ss[m] /\ ss[m][Len(ss[l])] = "("
  BY <1>9, <1>11, <1>15 DEF Text
<1>. QED BY <1>3, <1>16

\* The numbers that an operator takes are there.
LEMMA NumbersWait ==
    ASSUME PostInv, post_pc = "expCalculate", post_i <= Len(post_output),
           post_output[post_i] \in Post!Operators
    PROVE  Len(post_s) >= 2 /\ ~ (post_output[post_i] = "/" /\ post_s[Len(post_s)] = 0)
<1>1. post_output \in Text /\ post_i \in 1..(Len(post_output) + 1) /\ expr \in Exprs
  BY DEF PostInv
<1>2. Len(post_output) \in Nat
  BY <1>1 DEF Text
<1>3. post_i \in 1..Len(post_output)
  BY <1>1, <1>2
<1>4. PICK v \in Post!ValuesOf[expr] : TRUE
  BY <1>1, ExprIs
<1>5. PICK h : Evaluates(post_output, h) /\ post_s = h[post_i - 1]
  BY <1>4 DEF PostInv
<1>6. Calculates(post_output[post_i], post_s, h[post_i])
  BY <1>3, <1>5 DEF Evaluates
<1>. QED BY <1>6, CharacterKinds DEF Calculates

\* The calculator comes to the value that the grammar gives the expression, and
\* neither of its loops reads below a stack or divides by zero, for any
\* expressions that have values (reverse_polish_notation.cpp:33-43).
THEOREM ValueByGrammarCorrect == Post!Spec => []ValueByGrammar
<1>1. PostInv => ValueByGrammar
  BY ParenthesisWaits, NumbersWait DEF PostInv, ValueByGrammar, Post!ValueByGrammar
<1>. QED BY <1>1, PostInit, PostStep, PTL DEF Post!Spec
=============================================================================
