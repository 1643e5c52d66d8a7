---------------------------- MODULE Permutation ----------------------------
(***************************************************************************)
(* struct_and_algo/permutation.cpp: all orders of an array, by swapping    *)
(* every entry in turn to the front of what is left, in place, and swapping *)
(* it back.  A step is the part of a call between two recursive calls.     *)
(* perm, which only prints, takes the same steps.                          *)
(***************************************************************************)
EXTENDS Naturals, Sequences, FiniteSets

CONSTANT Arrays     \* the arrays permutation is called with: no value twice

VARIABLES pc,       \* a call begins, a call has returned, or permutation has
          given,    \* the caller's array
          input,    \* the array as it is
          loops,    \* i of every call under way, the outermost first
          output    \* the orders seen so far

vars == <<pc, given, input, loops, output>>

right == Len(input)

Init ==
    /\ pc = "call"
    /\ given \in Arrays /\ input = given
    /\ loops = << >> /\ output = << >>

Swapped(list, j, k) == [list EXCEPT ![j] = list[k], ![k] = list[j]]

\* The left of the call that begins.
left == Len(loops) + 1

\* Nothing is left to choose: the order is put out.
PutOut ==
    /\ pc = "call" /\ left = right
    /\ output' = Append(output, input)
    /\ pc' = "return"
    /\ UNCHANGED <<given, input, loops>>

\* The loop begins with the entry that is in front.
Enter ==
    /\ pc = "call" /\ left < right
    /\ loops' = Append(loops, left)
    /\ UNCHANGED <<pc, given, input, output>>

\* Mutant: the entry is not swapped back.
TurnForward ==
    LET l == Len(loops) IN
    /\ pc = "return" /\ loops # << >>
    /\ IF loops[l] < right
         THEN /\ input' = Swapped(input, l, loops[l] + 1)
              /\ loops' = [loops EXCEPT ![l] = @ + 1]
              /\ pc' = "call"
         ELSE /\ loops' = SubSeq(loops, 1, l - 1)
              /\ UNCHANGED <<pc, input>>
    /\ UNCHANGED <<given, output>>

\* Back from the call for loops[l]: its entry is swapped back, and the next one
\* to the front, or the call returns.
Turn ==
    LET l == Len(loops)
        restored == Swapped(input, l, loops[l]) IN
    /\ pc = "return" /\ loops # << >>
    /\ IF loops[l] < right
         THEN /\ input' = Swapped(restored, l, loops[l] + 1)
              /\ loops' = [loops EXCEPT ![l] = @ + 1]
              /\ pc' = "call"
         ELSE /\ input' = restored
              /\ loops' = SubSeq(loops, 1, l - 1)
              /\ UNCHANGED pc
    /\ UNCHANGED <<given, output>>

\* permutation cuts the output into the arrays it returns.
Return ==
    /\ pc = "return" /\ loops = << >>
    /\ pc' = "done"
    /\ UNCHANGED <<given, input, loops, output>>

Next == PutOut \/ Enter \/ Turn \/ Return

Spec == Init /\ [][Next]_vars

-----------------------------------------------------------------------------
Entries == {given[j] : j \in DOMAIN given}

Orders == {o \in [DOMAIN given -> Entries] : \A j, k \in DOMAIN given : j # k => o[j] # o[k]}

\* permutation returns every order of the array, each of them once, and leaves
\* the array as it was (permutation.cpp:1-2).
AllOrdersOnce ==
    pc = "done" =>
        /\ {output[k] : k \in DOMAIN output} = Orders
        /\ Len(output) = Cardinality(Orders)
        /\ input = given
=============================================================================
