--------------------------- MODULE PriorityQueue ---------------------------
(***************************************************************************)
(* struct_and_algo/priority_queue.cpp: a binary heap in a vector.  A step  *)
(* is the part of a call before its loop, or one turn of the loop of swim  *)
(* or sink.  Indices start at 0, as in the vector.                         *)
(***************************************************************************)
EXTENDS Integers, FiniteSets

CONSTANTS Values,
          MaxSize       \* bound on the size of the vector

ASSUME PriorityQueueAssumption == Values \subseteq Int /\ MaxSize \in Nat

VARIABLES pc,       \* no call, or the loop the call is in
          size, m_heap,
          pos       \* the argument of swim and sink

vars == <<pc, size, m_heap, pos>>

\* Shape of the state.
TypeOK ==
    /\ pc \in {"idle", "swim", "sink"}
    /\ size \in 0..MaxSize
    /\ m_heap \in [0..(size - 1) -> Values]
    /\ pos \in Nat
    /\ pc = "swim" => pos < size
    /\ pc = "sink" /\ size > 0 => pos < size

Init ==
    /\ pc = "idle"
    /\ size = 0
    /\ m_heap = [j \in 0..(-1) |-> 0]
    /\ pos = 0

\* std::swap of two entries; the position moves to the second.
SwapWith(j) ==
    /\ m_heap' = [m_heap EXCEPT ![pos] = m_heap[j], ![j] = m_heap[pos]]
    /\ pos' = j
    /\ UNCHANGED <<pc, size>>

Return(loop) ==
    /\ pc = loop
    /\ pc' = "idle"
    /\ pos' = 0
    /\ UNCHANGED <<size, m_heap>>

-----------------------------------------------------------------------------
\* Mutant: swim is given the size instead of the last index.
PushPastEnd(k) ==
    /\ pc = "idle" /\ size < MaxSize
    /\ m_heap' = [j \in 0..size |-> IF j = size THEN k ELSE m_heap[j]]
    /\ size' = size + 1
    /\ pos' = size + 1
    /\ pc' = "swim"

\* push, up to its call of swim: the new value comes last.
Push(k) ==
    /\ pc = "idle" /\ size < MaxSize
    /\ m_heap' = [j \in 0..size |-> IF j = size THEN k ELSE m_heap[j]]
    /\ size' = size + 1
    /\ pos' = size
    /\ pc' = "swim"

Parent(j) == (j - 1) \div 2

SwimUp ==
    /\ pc = "swim" /\ pos > 0
    /\ m_heap[Parent(pos)] < m_heap[pos]
    /\ SwapWith(Parent(pos))

SwimEnd ==
    /\ ~ (pos > 0 /\ m_heap[Parent(pos)] < m_heap[pos])
    /\ Return("swim")

-----------------------------------------------------------------------------
\* pop, up to its call of sink: the last value comes first.  The caller has
\* seen that the queue is not empty.
Pop ==
    /\ pc = "idle" /\ size > 0
    /\ m_heap' = [j \in 0..(size - 2) |-> IF j = 0 THEN m_heap[size - 1] ELSE m_heap[j]]
    /\ size' = size - 1
    /\ pos' = 0
    /\ pc' = "sink"

\* Mutant: a right child that is the last entry is not looked at.
ChildShort(j) ==
    LET i == 2 * j + 1 IN
    IF i < size - 2 /\ m_heap[i] < m_heap[i + 1] THEN i + 1 ELSE i

\* The greater child of j.
Child(j) ==
    LET i == 2 * j + 1 IN
    IF i < size - 1 /\ m_heap[i] < m_heap[i + 1] THEN i + 1 ELSE i

SinkDown ==
    /\ pc = "sink" /\ 2 * pos + 1 < size
    /\ m_heap[pos] < m_heap[Child(pos)]
    /\ SwapWith(Child(pos))

SinkEnd ==
    /\ ~ (2 * pos + 1 < size /\ m_heap[pos] < m_heap[Child(pos)])
    /\ Return("sink")

Loop == SwimUp \/ SwimEnd \/ SinkDown \/ SinkEnd

Next == (\E k \in Values : Push(k)) \/ Pop \/ Loop

Spec == Init /\ [][Next]_vars

-----------------------------------------------------------------------------
(* Properties *)

\* Between two calls top() is the greatest value of the queue
\* (priority_queue.cpp:7-10).
TopIsMax == pc = "idle" => \A j \in 0..(size - 1) : m_heap[j] <= m_heap[0]

\* How often v is in the vector.
TimesIn(v) == Cardinality({j \in 0..(size - 1) : m_heap[j] = v})

\* The heap is a multiset from which pop takes the greatest value: no value is
\* lost or made in a swap, whatever the order of the calls.
Multiset == INSTANCE MaxQueue WITH times <- [v \in Values |-> TimesIn(v)]
IsMaxQueue == Multiset!Spec
=============================================================================
