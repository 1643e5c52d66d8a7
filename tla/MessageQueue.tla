---------------------------- MODULE MessageQueue ----------------------------
(***************************************************************************)
(* ipcCode/mqueue: a sender puts six typed messages on a System V queue, a *)
(* receiver takes six off by type and removes the queue.  Neither blocks   *)
(* (IPC_NOWAIT), neither gives up when a call fails, and either may run    *)
(* first: msgget creates the queue of the key when there is none.          *)
(***************************************************************************)
EXTENDS Naturals, Sequences, FiniteSets

CONSTANTS Senders, Receivers,
          QueueLimits   \* what msg_qbytes may be, in messages

ASSUME MessageQueueAssumption ==
    /\ Senders \cap Receivers = {} /\ IsFiniteSet(Receivers)
    /\ QueueLimits \subseteq Nat

VARIABLES limit,    \* messages the kernel lets a queue hold
          pc,       \* where each process is
          i,        \* its loop counter
          qid,      \* the queue it got, 0 for none
          last_qid, \* the queues made so far
          live,     \* the queue the key leads to: none or one
          queue,    \* the messages on each queue
          received, \* what each receiver's calls brought: a message or Nothing
          settled,  \* history: receivers that found all senders done
          dropped   \* history: messages the kernel refused or removed

vars == <<limit, pc, i, qid, last_qid, live, queue, received, settled, dropped>>

Procs == Senders \cup Receivers
MsgCount == 6
sent_types == <<1, 1, 2, 2, 3, 3>>
wanted_types == <<3, 1, 2, 1, 3, 2>>

\* A message is its type, its sender and its place among the sender's payloads.
Messages == {<<sent_types[n], s, n>> : s \in Senders, n \in 1..MsgCount}
Nothing == << >>
Qids == 1..(Cardinality(Receivers) + 1)

\* Shape of the state.
TypeOK ==
    /\ limit \in QueueLimits
    /\ pc \in [Procs -> {"msgget", "msgsnd", "msgrcv", "msgctl", "done", "failed"}]
    /\ i \in [Procs -> 1..(MsgCount + 1)]
    /\ qid \in [Procs -> Qids \cup {0}]
    /\ last_qid \in Qids \cup {0}
    /\ live \in SUBSET Qids /\ Cardinality(live) <= 1
    /\ queue \in [Qids -> Seq(Messages)] /\ \A q \in Qids : Len(queue[q]) <= limit
    /\ received \in [Receivers -> Seq(Messages \cup {Nothing})]
    /\ settled \subseteq Receivers
    /\ dropped \subseteq Messages

Init ==
    /\ limit \in QueueLimits
    /\ pc = [p \in Procs |-> "msgget"]
    /\ i = [p \in Procs |-> 1]
    /\ qid = [p \in Procs |-> 0]
    /\ last_qid = 0
    /\ live = {}
    /\ queue = [q \in Qids |-> << >>]
    /\ received = [r \in Receivers |-> << >>]
    /\ settled = {}
    /\ dropped = {}

\* Mutant: a queue of its own for every process (IPC_PRIVATE).
GetPrivate(p, next) ==
    /\ pc[p] = "msgget"
    /\ pc' = [pc EXCEPT ![p] = next]
    /\ last_qid' = last_qid + 1
    /\ live' = live \cup {last_qid'}
    /\ qid' = [qid EXCEPT ![p] = last_qid']
    /\ UNCHANGED <<i, queue, received, dropped>>

\* msgget with IPC_CREAT.
Get(p, next) ==
    /\ pc[p] = "msgget"
    /\ pc' = [pc EXCEPT ![p] = next]
    /\ last_qid' = IF live = {} THEN last_qid + 1 ELSE last_qid
    /\ live' = IF live = {} THEN {last_qid'} ELSE live
    /\ qid' = [qid EXCEPT ![p] = CHOOSE q \in live' : TRUE]
    /\ UNCHANGED <<i, queue, received, dropped>>

SenderGet(s) == Get(s, "msgsnd") /\ UNCHANGED settled

ReceiverGet(r) ==
    /\ Get(r, "msgrcv")
    /\ settled' = IF \A s \in Senders : pc[s] = "done" THEN settled \cup {r} ELSE settled

\* One turn of p's loop, that goes on to last after MsgCount turns.
Turn(p, loop, last) ==
    /\ pc[p] = loop
    /\ i' = [i EXCEPT ![p] = @ + 1]
    /\ pc' = [pc EXCEPT ![p] = IF i[p] = MsgCount THEN last ELSE loop]
    /\ UNCHANGED <<qid, last_qid, live, settled>>

\* msgsnd fails on a full or a removed queue, and the message is dropped.
Send(s) ==
    LET m == <<sent_types[i[s]], s, i[s]>> IN
    /\ Turn(s, "msgsnd", "done")
    /\ IF qid[s] \in live /\ Len(queue[qid[s]]) < limit
         THEN queue' = [queue EXCEPT ![qid[s]] = Append(@, m)] /\ UNCHANGED dropped
         ELSE dropped' = dropped \cup {m} /\ UNCHANGED queue
    /\ UNCHANGED received

\* Mutant: msgrcv without a type.
MatchingAny(r) == {k \in 1..Len(queue[qid[r]]) : qid[r] \in live}

\* The places of the wanted type in r's queue, and the first of them.
Matching(r) ==
    {k \in 1..Len(queue[qid[r]]) :
        qid[r] \in live /\ queue[qid[r]][k][1] = wanted_types[i[r]]}
Oldest(S) == CHOOSE k \in S : \A l \in S : k <= l

Trouble(r) ==
    /\ received' = [received EXCEPT ![r] = Append(@, Nothing)]
    /\ UNCHANGED queue
Take(r, k) ==
    LET q == queue[qid[r]] IN
    /\ received' = [received EXCEPT ![r] = Append(@, q[k])]
    /\ queue' = [queue EXCEPT ![qid[r]] = SubSeq(q, 1, k - 1) \o SubSeq(q, k + 1, Len(q))]

\* Mutants of Receive: only what is at the head of the queue; a look that
\* leaves the message on the queue.
ReceiveHeadOnly(r) ==
    /\ Turn(r, "msgrcv", "msgctl")
    /\ IF 1 \in Matching(r) THEN Take(r, 1) ELSE Trouble(r)
    /\ UNCHANGED dropped
ReceiveCopy(r) ==
    /\ Turn(r, "msgrcv", "msgctl")
    /\ IF Matching(r) = {}
         THEN Trouble(r)
         ELSE /\ received' = [received EXCEPT ![r] =
                                  Append(@, queue[qid[r]][Oldest(Matching(r))])]
              /\ UNCHANGED queue
    /\ UNCHANGED dropped

\* msgrcv takes the first message of the type; with none it fails, and what is
\* printed then is whatever the buffer holds.
Receive(r) ==
    /\ Turn(r, "msgrcv", "msgctl")
    /\ IF Matching(r) = {} THEN Trouble(r) ELSE Take(r, Oldest(Matching(r)))
    /\ UNCHANGED dropped

\* IPC_RMID: the queue goes, and all that is left on it.
Remove(r) ==
    LET q == qid[r] IN
    /\ pc[r] = "msgctl"
    /\ IF q \in live
         THEN /\ pc' = [pc EXCEPT ![r] = "done"]
              /\ queue' = [queue EXCEPT ![q] = << >>]
              /\ dropped' = dropped \cup {queue[q][k] : k \in 1..Len(queue[q])}
         ELSE pc' = [pc EXCEPT ![r] = "failed"] /\ UNCHANGED <<queue, dropped>>
    /\ live' = live \ {q}
    /\ UNCHANGED <<i, qid, last_qid, received, settled>>

Next == /\ \/ \E s \in Senders : SenderGet(s) \/ Send(s)
           \/ \E r \in Receivers : ReceiverGet(r) \/ Receive(r) \/ Remove(r)
        /\ UNCHANGED limit

Spec == Init /\ [][Next]_vars

-----------------------------------------------------------------------------
(* Properties *)

\* Where m is: a place on a queue, a receiver's call, or with the dropped.
Places(m) ==
    {p \in {"queue"} \X Qids \X (1..limit) :
        p[3] <= Len(queue[p[2]]) /\ queue[p[2]][p[3]] = m}
    \cup {p \in {"receiver"} \X Receivers \X (1..MsgCount) :
        p[3] <= Len(received[p[2]]) /\ received[p[2]][p[3]] = m}
    \cup {p \in {<<"dropped">>} : m \in dropped}

\* A message that was handed to msgsnd is at one place: it waits on a queue, or
\* one receiver got it and once, or the kernel has dropped it.  One that was not
\* is nowhere.
MessagesAccounted ==
    \A m \in Messages : Cardinality(Places(m)) = IF m[3] < i[m[2]] THEN 1 ELSE 0

\* The order the programs are meant for: a receiver that starts when every
\* sender is done, and that no other receiver meets, has no trouble unless the
\* queue was full: each type is wanted as often as it is sent (sender.c:21,
\* receiver.c:19).
SettledReceiverServed ==
    \A r \in settled :
        (dropped = {} /\ Senders # {} /\ \A other \in Receivers \ {r} : pc[other] = "msgget")
            => \A k \in 1..Len(received[r]) : received[r][k] # Nothing

\* Whatever queues are made and removed, to the programs there is one, with the
\* messages of the queue that the key leads to: a call brings the oldest message
\* of its type if there is one, and an identifier of a queue that was removed
\* never leads to its successor (sender.c:16-33, receiver.c:14-36).
Current == IF live = {} THEN << >> ELSE queue[CHOOSE q \in live : TRUE]

Typed == INSTANCE TypedQueue
           WITH SentTypes <- sent_types, WantedTypes <- wanted_types,
                attached <- {p \in Procs : qid[p] \in live},
                contents <- Current,
                offered <- [s \in Senders |-> i[s] - 1],
                got <- received
IsTypedQueue == Typed!Spec
=============================================================================
