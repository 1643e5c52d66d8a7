------------------------------ MODULE MaxQueue ------------------------------
(***************************************************************************)
(* What struct_and_algo/priority_queue.cpp promises: a multiset to which   *)
(* values are added, and from which the greatest is taken.                 *)
(***************************************************************************)
EXTENDS Integers

CONSTANT Values
VARIABLE times      \* how often each value is in the queue

Init == times = [v \in Values |-> 0]

Push(k) == times' = [times EXCEPT ![k] = @ + 1]

Pop(k) ==
    /\ times[k] > 0
    /\ \A v \in Values : times[v] > 0 => v <= k
    /\ times' = [times EXCEPT ![k] = @ - 1]

Next == \E k \in Values : Push(k) \/ Pop(k)

Spec == Init /\ [][Next]_times
=============================================================================
