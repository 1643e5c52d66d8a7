----------------------------- MODULE TypedQueue -----------------------------
(***************************************************************************)
(* What the queue of ipcCode/mqueue is to the programs that use it: one    *)
(* sequence of typed messages, which lasts until a receiver removes it.    *)
(* There are no identifiers here.  Who was attached to a queue that was    *)
(* removed is attached to nothing, until the end.                          *)
(***************************************************************************)
EXTENDS Naturals, Sequences

CONSTANTS Senders, Receivers,
          SentTypes, WantedTypes,   \* the types of the messages, in their order
          Nothing                   \* what a call brings that fails

VARIABLES limit,        \* how many messages the queue holds
          attached,     \* who uses the queue
          contents,     \* the messages on it
          offered,      \* how many messages each sender has offered
          got           \* what each receiver's calls have brought

Init ==
    /\ limit \in Nat
    /\ attached = {}
    /\ contents = << >>
    /\ offered = [s \in Senders |-> 0]
    /\ got = [r \in Receivers |-> << >>]

Attach(p) ==
    /\ attached' = attached \cup {p}
    /\ UNCHANGED <<contents, offered, got>>

\* The next message of s is put on the queue or refused, and never comes again.
Offer(s) ==
    LET n == offered[s] + 1 IN
    /\ n <= Len(SentTypes)
    /\ offered' = [offered EXCEPT ![s] = n]
    /\ IF s \in attached /\ Len(contents) < limit
         THEN contents' = Append(contents, <<SentTypes[n], s, n>>)
         ELSE UNCHANGED contents
    /\ UNCHANGED <<attached, got>>

\* The messages r would take now.
Wanted(r) ==
    {k \in DOMAIN contents : r \in attached /\ contents[k][1] = WantedTypes[Len(got[r]) + 1]}

\* r takes the oldest of them, or fails because there is none.
TakeOldest(r, k) ==
    /\ k \in Wanted(r) /\ \A l \in Wanted(r) : k <= l
    /\ got' = [got EXCEPT ![r] = Append(@, contents[k])]
    /\ contents' = SubSeq(contents, 1, k - 1) \o SubSeq(contents, k + 1, Len(contents))

Fail(r) ==
    /\ Wanted(r) = {}
    /\ got' = [got EXCEPT ![r] = Append(@, Nothing)]
    /\ UNCHANGED contents

Call(r) ==
    /\ Len(got[r]) < Len(WantedTypes)
    /\ Fail(r) \/ \E k \in DOMAIN contents : TakeOldest(r, k)
    /\ UNCHANGED <<attached, offered>>

\* The queue goes, when all calls of r are made.
Remove(r) ==
    /\ r \in attached /\ Len(got[r]) = Len(WantedTypes)
    /\ attached' = {} /\ contents' = << >>
    /\ UNCHANGED <<offered, got>>

Next == /\ \/ \E p \in Senders \cup Receivers : Attach(p)
           \/ \E s \in Senders : Offer(s)
           \/ \E r \in Receivers : Call(r) \/ Remove(r)
        /\ UNCHANGED limit

Spec == Init /\ [][Next]_<<limit, attached, contents, offered, got>>
=============================================================================
