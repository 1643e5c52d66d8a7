------------------------- MODULE MessageQueue_proofs -------------------------
(***************************************************************************)
(* Proofs about MessageQueue, for any senders, receivers and limits: its   *)
(* type invariant, that every message is at one place, that a receiver     *)
(* nobody meets is served, and that it implements TypedQueue.              *)
(***************************************************************************)
EXTENDS MessageQueue, FiniteSetTheorems, SequenceTheorems, WellFoundedInduction, TLAPS

\* Where a process is, what it has by then, and its loop counter.
InLoop ==
    /\ \A s \in Senders : pc[s] \in {"msgget", "msgsnd", "done"}
    /\ \A r \in Receivers : pc[r] \in {"msgget", "msgrcv", "msgctl", "done", "failed"}
    /\ \A p \in Procs : pc[p] # "msgget" => qid[p] \in Qids
    /\ \A p \in Procs : pc[p] \in {"msgget", "msgsnd", "msgrcv"} => i[p] <= MsgCount
    /\ \A r \in Receivers : Len(received[r]) = i[r] - 1

\* Every queue that was made has been removed by a receiver, but for the live one.
Removers == {r \in Receivers : pc[r] = "done"}
QueuesMade ==
    /\ live = {} \/ \E q \in Qids : live = {q}
    /\ last_qid = Cardinality(Removers) + (IF live = {} THEN 0 ELSE 1)

\* A message has been sent, and is at no two places.
Was(m, n) == m[3] < n[m[2]]
OnQueues ==
    /\ \A q \in Qids : \A k \in 1..Len(queue[q]) : Was(queue[q][k], i) /\ queue[q][k] \notin dropped
    /\ \A p, q \in Qids : \A k \in 1..Len(queue[p]), l \in 1..Len(queue[q]) :
          queue[p][k] = queue[q][l] => p = q /\ k = l
    /\ \A q \in Qids, r \in Receivers : \A k \in 1..Len(queue[q]), l \in 1..Len(received[r]) :
          queue[q][k] # received[r][l]
AtReceivers ==
    /\ \A r \in Receivers : \A k \in 1..Len(received[r]) :
          received[r][k] # Nothing => Was(received[r][k], i) /\ received[r][k] \notin dropped
    /\ \A r, s \in Receivers : \A k \in 1..Len(received[r]), l \in 1..Len(received[s]) :
          received[r][k] # Nothing /\ received[r][k] = received[s][l] => r = s /\ k = l
Dropped == \A m \in dropped : Was(m, i)

\* A message that has been sent is at some place.
Somewhere(m) ==
    \/ m \in dropped
    \/ \E q \in Qids : \E k \in 1..Len(queue[q]) : queue[q][k] = m
    \/ \E r \in Receivers : \E k \in 1..Len(received[r]) : received[r][k] = m
NoneLost == \A m \in Messages : Was(m, i) => Somewhere(m)

\* The inductive invariant.
QueueInv == /\ TypeOK /\ InLoop /\ QueuesMade
            /\ OnQueues /\ AtReceivers /\ Dropped /\ NoneLost

-----------------------------------------------------------------------------
\* A queue of the key is always one of Qids.
LEMMA RoomForQid ==
    ASSUME QueueInv, live = {}
    PROVE  last_qid + 1 \in Qids
<1>1. Removers \in SUBSET Receivers
  BY DEF Removers
<1>2. /\ Cardinality(Removers) \in Nat /\ Cardinality(Receivers) \in Nat
      /\ Cardinality(Removers) <= Cardinality(Receivers)
  BY <1>1, FS_Subset, FS_CardinalityType, MessageQueueAssumption
<1>. QED BY <1>2 DEF QueueInv, QueuesMade, Qids

LEMMA MessagesAre ==
    /\ \A m \in Messages : m[2] \in Senders /\ m[3] \in 1..MsgCount /\ m = <<sent_types[m[3]], m[2], m[3]>>
    /\ \A s \in Senders, n \in 1..MsgCount : <<sent_types[n], s, n>> \in Messages
    /\ Nothing \notin Messages
<1>1. \A s \in Senders, n \in 1..MsgCount : <<sent_types[n], s, n>> # << >>
  OBVIOUS
<1>. QED BY <1>1 DEF Messages, Nothing

\* msgget.
LEMMA GetKeeps ==
    ASSUME QueueInv, NEW p \in Procs, NEW next \in {"msgsnd", "msgrcv"},
           next = IF p \in Senders THEN "msgsnd" ELSE "msgrcv",
           Get(p, next), limit' = limit, settled' \subseteq Receivers
    PROVE  QueueInv'
<1>. USE DEF QueueInv
<1>1. /\ i' = i /\ queue' = queue /\ received' = received /\ dropped' = dropped
      /\ pc[p] = "msgget" /\ pc' = [pc EXCEPT ![p] = next]
  BY DEF Get
<1>2. (\E q \in Qids : live' = {q}) /\ last_qid' \in Qids
      /\ last_qid' = Cardinality(Removers) + 1
  <2>0. Cardinality(Removers) \in Nat
    BY FS_Subset, FS_CardinalityType, MessageQueueAssumption DEF Removers
  <2>1. CASE live = {}
    BY <2>0, <2>1, RoomForQid DEF Get, QueuesMade
  <2>2. CASE live # {}
    <3>1. last_qid \in Qids
      <4>1. last_qid # 0
        BY <2>0, <2>2 DEF QueuesMade
      <4>. QED BY <4>1 DEF TypeOK
    <3>. QED BY <2>2, <3>1 DEF Get, QueuesMade
  <2>. QED BY <2>1, <2>2
<1>3. PICK q \in Qids : live' = {q}
  BY <1>2
<1>4. qid' = [qid EXCEPT ![p] = q]
  <2>1. (CHOOSE x \in live' : TRUE) = q
    BY <1>3
  <2>. QED BY <2>1 DEF Get
<1>5. Cardinality(live') <= 1
  <2>1. Cardinality({q}) = 1
    BY FS_Singleton
  <2>. QED BY <1>3, <2>1
<1>6. TypeOK'
  BY <1>1, <1>2, <1>3, <1>4, <1>5 DEF TypeOK
<1>7. InLoop'
  BY <1>1, <1>4, MessageQueueAssumption DEF TypeOK, InLoop, Procs
<1>8. Removers' = Removers
  BY <1>1 DEF TypeOK, Removers
<1>9. QueuesMade'
  BY <1>2, <1>3, <1>8 DEF QueuesMade
<1>10. OnQueues' /\ AtReceivers' /\ Dropped' /\ NoneLost'
  BY <1>1 DEF OnQueues, AtReceivers, Dropped, NoneLost, Was, Somewhere
<1>. QED BY <1>6, <1>7, <1>9, <1>10

-----------------------------------------------------------------------------
\* A turn of a loop moves the counter, and makes and removes no queue.
LEMMA TurnKeeps ==
    ASSUME QueueInv, NEW p \in Procs, NEW loop, NEW last,
           \/ p \in Senders /\ loop = "msgsnd" /\ last = "done"
           \/ p \in Receivers /\ loop = "msgrcv" /\ last = "msgctl",
           Turn(p, loop, last)
    PROVE  /\ pc' \in [Procs -> {"msgget", "msgsnd", "msgrcv", "msgctl", "done", "failed"}]
           /\ i' \in [Procs -> 1..(MsgCount + 1)]
           /\ i[p] \in 1..MsgCount /\ i'[p] = i[p] + 1 /\ \A q \in Procs : q # p => i'[q] = i[q]
           /\ qid[p] \in Qids
           /\ \A s \in Senders : pc'[s] \in {"msgget", "msgsnd", "done"}
           /\ \A r \in Receivers : pc'[r] \in {"msgget", "msgrcv", "msgctl", "done", "failed"}
           /\ \A q \in Procs : pc'[q] # "msgget" => qid'[q] \in Qids
           /\ \A q \in Procs : pc'[q] \in {"msgget", "msgsnd", "msgrcv"} => i'[q] <= MsgCount
           /\ QueuesMade' /\ qid' = qid /\ last_qid' = last_qid /\ live' = live /\ settled' = settled
<1>. USE MessageQueueAssumption DEF QueueInv
<1>1. /\ pc[p] = loop /\ loop \in {"msgsnd", "msgrcv"} /\ last \in {"done", "msgctl"}
      /\ i' = [i EXCEPT ![p] = i[p] + 1]
      /\ pc' = [pc EXCEPT ![p] = IF i[p] = MsgCount THEN last ELSE loop]
      /\ qid' = qid /\ last_qid' = last_qid /\ live' = live /\ settled' = settled
  BY DEF Turn
<1>2. i[p] \in 1..MsgCount
  BY <1>1 DEF TypeOK, InLoop, MsgCount
<1>3. /\ i' \in [Procs -> 1..(MsgCount + 1)]
      /\ i'[p] = i[p] + 1 /\ \A q \in Procs : q # p => i'[q] = i[q]
  BY <1>1, <1>2 DEF TypeOK, MsgCount
<1>4. /\ pc' \in [Procs -> {"msgget", "msgsnd", "msgrcv", "msgctl", "done", "failed"}]
      /\ pc'[p] = (IF i[p] = MsgCount THEN last ELSE loop)
      /\ \A q \in Procs : q # p => pc'[q] = pc[q]
  BY <1>1 DEF TypeOK
<1>5. /\ \A s \in Senders : pc'[s] \in {"msgget", "msgsnd", "done"}
      /\ \A r \in Receivers : pc'[r] \in {"msgget", "msgrcv", "msgctl", "done", "failed"}
      /\ \A q \in Procs : pc'[q] # "msgget" => qid'[q] \in Qids
      /\ qid[p] \in Qids
  BY <1>1, <1>4 DEF InLoop, Procs
<1>6. \A q \in Procs : pc'[q] \in {"msgget", "msgsnd", "msgrcv"} => i'[q] <= MsgCount
  <2>1. pc'[p] \in {"msgget", "msgsnd", "msgrcv"} => i'[p] <= MsgCount
    BY <1>1, <1>2, <1>3, <1>4 DEF MsgCount
  <2>. QED BY <1>3, <1>4, <2>1 DEF InLoop
<1>7. Removers' = Removers
  BY <1>1, <1>4 DEF Removers, Procs
<1>8. QueuesMade'
  BY <1>1, <1>7 DEF QueuesMade
<1>. QED BY <1>1, <1>2, <1>3, <1>4, <1>5, <1>6, <1>8

\* msgsnd puts a new message on its queue, or drops it.
LEMMA SendKeeps ==
    ASSUME QueueInv, NEW s \in Senders, Send(s), limit' = limit
    PROVE  QueueInv'
<1>. DEFINE m == <<sent_types[i[s]], s, i[s]>>
            q == qid[s]
            room == q \in live /\ Len(queue[q]) < limit
<1>0. /\ s \in Procs /\ Turn(s, "msgsnd", "done") /\ received' = received
      /\ room => queue' = [queue EXCEPT ![q] = Append(queue[q], m)] /\ dropped' = dropped
      /\ ~ room => dropped' = dropped \cup {m} /\ queue' = queue
  BY DEF Send, Procs
<1>1. /\ pc' \in [Procs -> {"msgget", "msgsnd", "msgrcv", "msgctl", "done", "failed"}]
      /\ i' \in [Procs -> 1..(MsgCount + 1)]
      /\ i[s] \in 1..MsgCount /\ i'[s] = i[s] + 1 /\ \A p \in Procs : p # s => i'[p] = i[p]
      /\ q \in Qids
      /\ \A x \in Senders : pc'[x] \in {"msgget", "msgsnd", "done"}
      /\ \A r \in Receivers : pc'[r] \in {"msgget", "msgrcv", "msgctl", "done", "failed"}
      /\ \A p \in Procs : pc'[p] # "msgget" => qid'[p] \in Qids
      /\ \A p \in Procs : pc'[p] \in {"msgget", "msgsnd", "msgrcv"} => i'[p] <= MsgCount
      /\ QueuesMade' /\ qid' = qid /\ last_qid' = last_qid /\ live' = live /\ settled' = settled
  <2>. HIDE DEF m, room
  <2>. QED BY <1>0, TurnKeeps, Zenon
<1>2. /\ m \in Messages /\ m # Nothing /\ m[2] = s /\ m[3] = i[s]
      /\ \A x \in Messages : x[2] = s /\ x[3] = i[s] => x = m
  BY <1>1, MessagesAre
<1>. HIDE DEF m
<1>3. ~ Was(m, i) /\ \A x \in Messages : (Was(x, i') <=> Was(x, i) \/ x = m)
  <2>1. ~ Was(m, i)
    BY <1>1, <1>2 DEF Was, MsgCount
  <2>2. ASSUME NEW x \in Messages PROVE Was(x, i') <=> Was(x, i) \/ x = m
    <3>1. x[2] \in Procs /\ x[3] \in Nat
      BY MessagesAre DEF Procs
    <3>2. CASE x[2] # s
      BY <1>1, <1>2, <3>1, <3>2 DEF Was
    <3>3. CASE x[2] = s
      BY <1>1, <1>2, <3>1, <3>3 DEF Was, MsgCount
    <3>. QED BY <3>2, <3>3
  <2>. QED BY <2>1, <2>2
<1>4. /\ \A x \in Qids : \A k \in 1..Len(queue[x]) : queue[x][k] \in Messages /\ queue[x][k] # m
      /\ \A r \in Receivers : \A k \in 1..Len(received[r]) :
            received[r][k] # Nothing => received[r][k] \in Messages /\ received[r][k] # m
      /\ m \notin dropped /\ dropped \subseteq Messages
  BY <1>2, <1>3 DEF QueueInv, TypeOK, OnQueues, AtReceivers, Dropped
<1>5. InLoop'
  <2>1. \A r \in Receivers : i'[r] = i[r]
    BY <1>1, MessageQueueAssumption DEF Procs
  <2>. QED BY <1>0, <1>1, <2>1 DEF QueueInv, InLoop
<1>6. CASE room
  <2>1. /\ queue'[q] = Append(queue[q], m) /\ \A x \in Qids : x # q => queue'[x] = queue[x]
        /\ queue[q] \in Seq(Messages) /\ Len(queue[q]) \in Nat /\ limit \in Nat
    <3>1. queue \in [Qids -> Seq(Messages)] /\ limit \in Nat
      BY MessageQueueAssumption DEF QueueInv, TypeOK
    <3>. QED BY <1>0, <1>1, <1>6, <3>1
  <2>2. /\ queue'[q] \in Seq(Messages) /\ Len(queue'[q]) = Len(queue[q]) + 1
        /\ \A k \in 1..Len(queue[q]) : queue'[q][k] = queue[q][k]
        /\ queue'[q][Len(queue[q]) + 1] = m
    BY <1>2, <2>1
  <2>3. /\ queue' \in [Qids -> Seq(Messages)]
        /\ \A x \in Qids : Len(queue'[x]) <= limit
    <3>1. queue' \in [Qids -> Seq(Messages)]
      <4>1. queue \in [Qids -> Seq(Messages)] /\ Append(queue[q], m) \in Seq(Messages)
        BY <1>2, <2>1 DEF QueueInv, TypeOK
      <4>. HIDE DEF q
      <4>. QED BY <1>0, <1>6, <4>1
    <3>2. Len(queue'[q]) <= limit
      BY <1>6, <2>1, <2>2
    <3>. QED BY <2>1, <3>1, <3>2 DEF QueueInv, TypeOK
  <2>4. TypeOK'
    BY <1>0, <1>1, <1>6, <2>3 DEF QueueInv, TypeOK
  <2>5. \A x \in Qids : \A k \in 1..Len(queue'[x]) :
           \/ k \in 1..Len(queue[x]) /\ queue'[x][k] = queue[x][k]
           \/ x = q /\ k = Len(queue[q]) + 1 /\ queue'[x][k] = m
    <3>1. \A x \in Qids : x # q => Len(queue'[x]) = Len(queue[x]) /\ queue'[x] = queue[x]
      BY <2>1
    <3>2. \A k \in 1..Len(queue'[q]) : k \in 1..Len(queue[q]) \/ k = Len(queue[q]) + 1
      BY <2>1, <2>2
    <3>. HIDE DEF q
    <3>3. ASSUME NEW x \in Qids, NEW k \in 1..Len(queue'[x])
          PROVE  \/ k \in 1..Len(queue[x]) /\ queue'[x][k] = queue[x][k]
                 \/ x = q /\ k = Len(queue[q]) + 1 /\ queue'[x][k] = m
      <4>1. CASE x # q
        BY <3>1, <4>1
      <4>2. CASE x = q
        BY <2>2, <3>2, <4>2
      <4>. QED BY <4>1, <4>2
    <3>. QED BY <3>3
  <2>6. OnQueues'
    <3>1. \A x \in Qids : \A k \in 1..Len(queue'[x]) :
             Was(queue'[x][k], i') /\ queue'[x][k] \notin dropped'
      BY <1>0, <1>2, <1>3, <1>4, <1>6, <2>5 DEF QueueInv, OnQueues
    <3>2. ASSUME NEW x \in Qids, NEW y \in Qids, NEW k \in 1..Len(queue'[x]),
                 NEW l \in 1..Len(queue'[y]), queue'[x][k] = queue'[y][l]
          PROVE  x = y /\ k = l
      <4>1. CASE k \in 1..Len(queue[x]) /\ queue'[x][k] = queue[x][k]
        <5>1. l \in 1..Len(queue[y]) /\ queue'[y][l] = queue[y][l]
          <6>1. queue'[y][l] # m
            BY <1>4, <3>2, <4>1
          <6>. QED BY <2>5, <6>1
        <5>2. queue[x][k] = queue[y][l]
          BY <3>2, <4>1, <5>1
        <5>. QED BY <4>1, <5>1, <5>2 DEF QueueInv, OnQueues
      <4>2. CASE x = q /\ k = Len(queue[q]) + 1 /\ queue'[x][k] = m
        <5>1. ~ (l \in 1..Len(queue[y]) /\ queue'[y][l] = queue[y][l])
          BY <1>4, <3>2, <4>2
        <5>. QED BY <2>5, <4>2, <5>1
      <4>. QED BY <2>5, <4>1, <4>2
    <3>3. \A x \in Qids, r \in Receivers : \A k \in 1..Len(queue'[x]), l \in 1..Len(received'[r]) :
             queue'[x][k] # received'[r][l]
      BY <1>0, <1>2, <1>4, <2>5 DEF QueueInv, OnQueues
    <3>. QED BY <3>1, <3>2, <3>3 DEF OnQueues
  <2>7. AtReceivers' /\ Dropped'
    BY <1>0, <1>3, <1>4, <1>6 DEF QueueInv, AtReceivers, Dropped
  <2>8. NoneLost'
    <3>1. ASSUME NEW x \in Messages, Was(x, i') PROVE Somewhere(x)'
      <4>1. CASE x = m
        <5>1. Len(queue[q]) + 1 \in 1..Len(queue'[q]) /\ queue'[q][Len(queue[q]) + 1] = m
          BY <2>1, <2>2
        <5>. QED BY <1>1, <4>1, <5>1 DEF Somewhere
      <4>2. CASE Was(x, i)
        <5>1. \A y \in Qids : \A k \in 1..Len(queue[y]) :
                 k \in 1..Len(queue'[y]) /\ queue'[y][k] = queue[y][k]
          <6>1. \A y \in Qids : y # q => Len(queue'[y]) = Len(queue[y]) /\ queue'[y] = queue[y]
            BY <2>1
          <6>2. \A k \in 1..Len(queue[q]) : k \in 1..Len(queue'[q]) /\ queue'[q][k] = queue[q][k]
            BY <2>1, <2>2
          <6>. HIDE DEF q
          <6>. QED BY <6>1, <6>2
        <5>. QED BY <1>0, <1>6, <4>2, <5>1 DEF QueueInv, NoneLost, Somewhere
      <4>. QED BY <1>3, <3>1, <4>1, <4>2
    <3>. QED BY <3>1 DEF NoneLost
  <2>. QED BY <1>1, <1>5, <2>4, <2>6, <2>7, <2>8 DEF QueueInv
<1>7. CASE ~ room
  <2>1. TypeOK'
    BY <1>0, <1>1, <1>2, <1>7 DEF QueueInv, TypeOK
  <2>2. OnQueues' /\ AtReceivers'
    BY <1>0, <1>2, <1>3, <1>4, <1>7 DEF QueueInv, OnQueues, AtReceivers
  <2>3. Dropped'
    BY <1>0, <1>2, <1>3, <1>4, <1>7 DEF QueueInv, Dropped
  <2>4. NoneLost'
    BY <1>0, <1>3, <1>7 DEF QueueInv, NoneLost, Somewhere
  <2>. QED BY <1>1, <1>5, <2>1, <2>2, <2>3, <2>4 DEF QueueInv
<1>. QED BY <1>6, <1>7

-----------------------------------------------------------------------------
\* The places of a sequence that one element was taken from.
LEMMA OneTaken ==
    ASSUME NEW S, NEW q \in Seq(S), NEW k \in 1..Len(q)
    PROVE  LET t == SubSeq(q, 1, k - 1) \o SubSeq(q, k + 1, Len(q)) IN
           /\ t \in Seq(S) /\ Len(t) = Len(q) - 1
           /\ \A j \in 1..(k - 1) : t[j] = q[j]
           /\ \A j \in k..(Len(q) - 1) : t[j] = q[j + 1]
<1>1. /\ SubSeq(q, 1, k - 1) \in Seq(S) /\ Len(SubSeq(q, 1, k - 1)) = k - 1
      /\ \A j \in 1..(k - 1) : SubSeq(q, 1, k - 1)[j] = q[j]
  OBVIOUS
<1>2. /\ SubSeq(q, k + 1, Len(q)) \in Seq(S) /\ Len(SubSeq(q, k + 1, Len(q))) = Len(q) - k
      /\ \A j \in 1..(Len(q) - k) : SubSeq(q, k + 1, Len(q))[j] = q[j + k]
  OBVIOUS
<1>. DEFINE a == SubSeq(q, 1, k - 1)
            b == SubSeq(q, k + 1, Len(q))
<1>3. /\ a \in Seq(S) /\ b \in Seq(S) /\ Len(a) = k - 1 /\ Len(b) = Len(q) - k
      /\ \A j \in 1..(k - 1) : a[j] = q[j]
      /\ \A j \in 1..(Len(q) - k) : b[j] = q[j + k]
  BY <1>1, <1>2
<1>. HIDE DEF a, b
<1>0. Len(q) \in Nat /\ k \in Nat /\ 1 <= k /\ k <= Len(q)
  OBVIOUS
<1>4. /\ a \o b \in Seq(S) /\ Len(a \o b) = Len(a) + Len(b)
      /\ \A j \in 1..(Len(a) + Len(b)) : (a \o b)[j] = IF j <= Len(a) THEN a[j] ELSE b[j - Len(a)]
  BY <1>3, ConcatProperties
<1>5. Len(a) + Len(b) = Len(q) - 1
  BY <1>0, <1>3
<1>6. ASSUME NEW j \in 1..(k - 1) PROVE (a \o b)[j] = q[j]
  <2>1. j \in 1..(Len(q) - 1) /\ j <= Len(a)
    BY <1>0, <1>3
  <2>. QED BY <1>3, <1>4, <1>5, <2>1
<1>7. ASSUME NEW j \in k..(Len(q) - 1) PROVE (a \o b)[j] = q[j + 1]
  <2>1. j \in 1..(Len(q) - 1) /\ ~ j <= Len(a) /\ j - Len(a) \in 1..(Len(q) - k)
        /\ (j - Len(a)) + k = j + 1
    BY <1>0, <1>3
  <2>2. (a \o b)[j] = b[j - Len(a)]
    BY <1>4, <1>5, <2>1
  <2>3. b[j - Len(a)] = q[(j - Len(a)) + k]
    BY <1>3, <2>1
  <2>. QED BY <2>1, <2>2, <2>3
<1>8. Len(a \o b) = Len(q) - 1
  BY <1>4, <1>5
<1>. QED BY <1>4, <1>6, <1>7, <1>8, Zenon DEF a, b

\* The first of some places is one of them, and the others come after it.
LEMMA OldestOf ==
    ASSUME NEW S, S \subseteq Nat, S # {}
    PROVE  Oldest(S) \in S /\ \A x \in S : Oldest(S) <= x
<1>1. PICK m \in S : \A x \in S : ~ (<<x, m>> \in OpToRel(<, Nat))
  BY NatLessThanWellFounded, WFMin
<1>2. ASSUME NEW x \in S, x < m PROVE FALSE
  <2>. DEFINE p == <<x, m>>
  <2>1. p \in Nat \X Nat /\ p[1] < p[2]
    BY <1>2
  <2>2. p \in OpToRel(<, Nat)
    BY <2>1, Zenon DEF OpToRel
  <2>. QED BY <1>1, <2>2
<1>3. \A x \in S : m <= x
  BY <1>2
<1>. QED BY <1>3 DEF Oldest

\* msgrcv takes the message from the queue to the receiver, or brings nothing.
LEMMA ReceiveKeeps ==
    ASSUME QueueInv, NEW r \in Receivers, Receive(r), limit' = limit
    PROVE  QueueInv'
<1>. DEFINE q == qid[r]
            c == queue[q]
            got == received[r]
<1>0. /\ r \in Procs /\ Turn(r, "msgrcv", "msgctl") /\ dropped' = dropped
      /\ IF Matching(r) = {} THEN Trouble(r) ELSE Take(r, Oldest(Matching(r)))
  BY DEF Receive, Procs
<1>1. /\ pc' \in [Procs -> {"msgget", "msgsnd", "msgrcv", "msgctl", "done", "failed"}]
      /\ i' \in [Procs -> 1..(MsgCount + 1)]
      /\ i[r] \in 1..MsgCount /\ i'[r] = i[r] + 1 /\ \A p \in Procs : p # r => i'[p] = i[p]
      /\ q \in Qids
      /\ \A x \in Senders : pc'[x] \in {"msgget", "msgsnd", "done"}
      /\ \A x \in Receivers : pc'[x] \in {"msgget", "msgrcv", "msgctl", "done", "failed"}
      /\ \A p \in Procs : pc'[p] # "msgget" => qid'[p] \in Qids
      /\ \A p \in Procs : pc'[p] \in {"msgget", "msgsnd", "msgrcv"} => i'[p] <= MsgCount
      /\ QueuesMade' /\ qid' = qid /\ last_qid' = last_qid /\ live' = live /\ settled' = settled
  BY <1>0, TurnKeeps, Zenon
<1>2. /\ c \in Seq(Messages) /\ Len(c) \in Nat /\ got \in Seq(Messages \cup {Nothing})
      /\ Len(got) = i[r] - 1 /\ Len(got) \in Nat
  BY <1>1 DEF QueueInv, TypeOK, InLoop
<1>3. \A m \in Messages : Was(m, i') <=> Was(m, i)
  <2>1. \A m \in Messages : m[2] \in Procs /\ m[2] # r
    BY MessagesAre, MessageQueueAssumption DEF Procs
  <2>. QED BY <1>1, <2>1 DEF Was
<1>4. /\ \A x \in Qids : \A k \in 1..Len(queue[x]) : queue[x][k] \in Messages
      /\ \A x \in Receivers : \A k \in 1..Len(received[x]) :
            received[x][k] # Nothing => received[x][k] \in Messages
      /\ Nothing \notin Messages /\ dropped \subseteq Messages
  BY MessagesAre DEF QueueInv, TypeOK
<1>5. ASSUME NEW new \in Messages \cup {Nothing}, received' = [received EXCEPT ![r] = Append(got, new)]
      PROVE  /\ received' \in [Receivers -> Seq(Messages \cup {Nothing})]
             /\ Len(received'[r]) = Len(got) + 1 /\ received'[r][Len(got) + 1] = new
             /\ \A x \in Receivers : \A l \in 1..Len(received[x]) :
                   l \in 1..Len(received'[x]) /\ received'[x][l] = received[x][l]
             /\ \A x \in Receivers : \A l \in 1..Len(received'[x]) :
                   \/ l \in 1..Len(received[x]) /\ received'[x][l] = received[x][l]
                   \/ x = r /\ l = Len(got) + 1 /\ received'[x][l] = new
             /\ InLoop'
  <2>1. received'[r] = Append(got, new) /\ \A x \in Receivers : x # r => received'[x] = received[x]
    BY <1>5 DEF QueueInv, TypeOK
  <2>2. /\ received'[r] \in Seq(Messages \cup {Nothing}) /\ Len(received'[r]) = Len(got) + 1
        /\ \A l \in 1..Len(got) : received'[r][l] = got[l]
        /\ received'[r][Len(got) + 1] = new
    BY <1>2, <2>1
  <2>3. received' \in [Receivers -> Seq(Messages \cup {Nothing})]
    <3>1. received \in [Receivers -> Seq(Messages \cup {Nothing})]
          /\ Append(got, new) \in Seq(Messages \cup {Nothing})
      BY <1>2 DEF QueueInv, TypeOK
    <3>. QED BY <1>5, <3>1
  <2>4. InLoop'
    <3>1. \A x \in Receivers : Len(received'[x]) = i'[x] - 1
      <4>1. Len(received'[r]) = i'[r] - 1
        BY <1>1, <1>2, <2>2
      <4>2. \A x \in Receivers : x # r => Len(received'[x]) = i'[x] - 1
        BY <1>1, <2>1 DEF QueueInv, InLoop, Procs
      <4>. QED BY <4>1, <4>2
    <3>. QED BY <1>1, <3>1 DEF InLoop
  <2>. HIDE DEF got
  <2>5. \A x \in Receivers : x # r => received'[x] = received[x]
    BY <2>1
  <2>6. received[r] = got
    BY DEF got
  <2>7. \A l \in 1..Len(got) : l \in 1..(Len(got) + 1)
    BY <1>2
  <2>8. \A l \in 1..(Len(got) + 1) : l \in 1..Len(got) \/ l = Len(got) + 1
    BY <1>2
  <2>9. \A x \in Receivers : \A l \in 1..Len(received[x]) :
           l \in 1..Len(received'[x]) /\ received'[x][l] = received[x][l]
    BY <2>2, <2>5, <2>6, <2>7
  <2>10. \A x \in Receivers : \A l \in 1..Len(received'[x]) :
            \/ l \in 1..Len(received[x]) /\ received'[x][l] = received[x][l]
            \/ x = r /\ l = Len(got) + 1 /\ received'[x][l] = new
    BY <2>2, <2>5, <2>6, <2>8
  <2>. QED BY <2>2, <2>3, <2>4, <2>9, <2>10
<1>6. CASE Matching(r) = {}
  <2>1. received' = [received EXCEPT ![r] = Append(got, Nothing)] /\ queue' = queue
    BY <1>0, <1>6 DEF Trouble
  <2>2. /\ received' \in [Receivers -> Seq(Messages \cup {Nothing})] /\ InLoop'
        /\ \A x \in Receivers : \A l \in 1..Len(received[x]) :
              l \in 1..Len(received'[x]) /\ received'[x][l] = received[x][l]
        /\ \A x \in Receivers : \A l \in 1..Len(received'[x]) :
              \/ l \in 1..Len(received[x]) /\ received'[x][l] = received[x][l]
              \/ x = r /\ l = Len(got) + 1 /\ received'[x][l] = Nothing
    BY <1>5, <2>1
  <2>3. TypeOK'
    BY <1>0, <1>1, <2>1, <2>2 DEF QueueInv, TypeOK
  <2>4. OnQueues' /\ Dropped'
    BY <1>0, <1>3, <1>4, <2>1, <2>2 DEF QueueInv, OnQueues, Dropped
  <2>5. AtReceivers'
    <3>1. \A x \in Receivers : \A l \in 1..Len(received'[x]) : received'[x][l] # Nothing =>
             l \in 1..Len(received[x]) /\ received'[x][l] = received[x][l]
      BY <2>2
    <3>2. \A x \in Receivers : \A l \in 1..Len(received[x]) : received[x][l] # Nothing =>
             Was(received[x][l], i') /\ received[x][l] \notin dropped'
      BY <1>0, <1>3, <1>4 DEF QueueInv, AtReceivers
    <3>3. \A x \in Receivers : \A l \in 1..Len(received'[x]) : received'[x][l] # Nothing =>
             Was(received'[x][l], i') /\ received'[x][l] \notin dropped'
      BY <3>1, <3>2
    <3>4. \A x, y \in Receivers : \A k \in 1..Len(received'[x]), l \in 1..Len(received'[y]) :
             received'[x][k] # Nothing /\ received'[x][k] = received'[y][l] => x = y /\ k = l
      BY <3>1 DEF QueueInv, AtReceivers
    <3>. QED BY <3>3, <3>4 DEF AtReceivers
  <2>6. NoneLost'
    BY <1>0, <1>3, <2>1, <2>2 DEF QueueInv, NoneLost, Somewhere
  <2>. QED BY <1>1, <2>2, <2>3, <2>4, <2>5, <2>6 DEF QueueInv
<1>7. CASE Matching(r) # {}
  <2>. DEFINE k == Oldest(Matching(r))
              left == SubSeq(c, 1, k - 1) \o SubSeq(c, k + 1, Len(c))
              m == c[k]
  <2>1. k \in 1..Len(c)
    <3>1. Matching(r) \subseteq 1..Len(c) /\ Matching(r) \subseteq Nat
      BY <1>2 DEF Matching
    <3>. QED BY <1>7, <3>1, OldestOf
  <2>2. m \in Messages /\ m # Nothing
    BY <1>1, <1>4, <2>1
  <2>3. received' = [received EXCEPT ![r] = Append(got, m)]
        /\ queue' = [queue EXCEPT ![q] = left]
    BY <1>0, <1>7 DEF Take
  <2>4. /\ left \in Seq(Messages) /\ Len(left) = Len(c) - 1
        /\ \A j \in 1..(k - 1) : left[j] = c[j]
        /\ \A j \in k..(Len(c) - 1) : left[j] = c[j + 1]
    BY <1>2, <2>1, OneTaken, Zenon
  <2>. HIDE DEF k, left
  <2>5. queue' \in [Qids -> Seq(Messages)] /\ queue'[q] = left
        /\ \A x \in Qids : x # q => queue'[x] = queue[x]
    BY <1>1, <2>3, <2>4 DEF QueueInv, TypeOK
  <2>. DEFINE Old(x, j) == IF x = q /\ j >= k THEN j + 1 ELSE j
  <2>6. ASSUME NEW x \in Qids, NEW j \in 1..Len(queue'[x])
        PROVE  /\ Old(x, j) \in 1..Len(queue[x]) /\ queue'[x][j] = queue[x][Old(x, j)]
               /\ x = q => Old(x, j) # k
    <3>1. CASE x # q
      BY <2>5, <3>1
    <3>2. CASE x = q /\ j < k
      BY <1>2, <2>1, <2>4, <2>5, <3>2
    <3>3. CASE x = q /\ j >= k
      BY <1>2, <2>1, <2>4, <2>5, <3>3
    <3>4. j \in Nat /\ k \in Nat
      BY <2>1
    <3>. QED BY <3>1, <3>2, <3>3, <3>4
  <2>7. ASSUME NEW x \in Qids, NEW l \in 1..Len(queue[x])
        PROVE  \/ x = q /\ l = k
               \/ \E j \in 1..Len(queue'[x]) : queue'[x][j] = queue[x][l]
    <3>1. CASE x # q
      BY <2>5, <3>1
    <3>2. CASE x = q /\ l < k
      <4>1. l \in 1..(k - 1) /\ l \in 1..(Len(c) - 1)
        BY <1>2, <2>1, <3>2
      <4>. QED BY <2>4, <2>5, <3>2, <4>1
    <3>3. CASE x = q /\ l > k
      <4>1. l - 1 \in k..(Len(c) - 1) /\ l - 1 \in 1..(Len(c) - 1) /\ (l - 1) + 1 = l
        BY <1>2, <2>1, <3>3
      <4>. QED BY <2>4, <2>5, <3>3, <4>1
    <3>4. l \in Nat /\ k \in Nat
      BY <2>1
    <3>. QED BY <3>1, <3>2, <3>3, <3>4
  <2>8. \A x \in Qids : \A j, l \in Nat : Old(x, j) = Old(x, l) => j = l
    BY <2>1
  <2>. HIDE DEF Old
  <2>9. \A x \in Qids : \A j \in 1..Len(queue'[x]) : j \in Nat
    OBVIOUS
  <2>10. /\ received' \in [Receivers -> Seq(Messages \cup {Nothing})] /\ InLoop'
         /\ Len(received'[r]) = Len(got) + 1 /\ received'[r][Len(got) + 1] = m
         /\ \A x \in Receivers : \A l \in 1..Len(received[x]) :
               l \in 1..Len(received'[x]) /\ received'[x][l] = received[x][l]
         /\ \A x \in Receivers : \A l \in 1..Len(received'[x]) :
               \/ l \in 1..Len(received[x]) /\ received'[x][l] = received[x][l]
               \/ x = r /\ l = Len(got) + 1 /\ received'[x][l] = m
    <3>. HIDE DEF m
    <3>. QED BY <1>5, <2>2, <2>3
  <2>11. TypeOK'
    <3>1. \A x \in Qids : Len(queue'[x]) <= limit
      <4>1. limit \in Nat /\ \A x \in Qids : Len(queue[x]) <= limit
        BY MessageQueueAssumption DEF QueueInv, TypeOK
      <4>2. Len(queue'[q]) <= limit
        BY <1>1, <1>2, <2>4, <2>5, <4>1
      <4>. QED BY <2>5, <4>1, <4>2
    <3>. QED BY <1>0, <1>1, <2>5, <2>10, <3>1 DEF QueueInv, TypeOK
  <2>12. OnQueues'
    <3>1. \A x \in Qids : \A j \in 1..Len(queue'[x]) :
             Was(queue'[x][j], i') /\ queue'[x][j] \notin dropped'
      BY <1>0, <1>3, <1>4, <2>6 DEF QueueInv, OnQueues
    <3>2. ASSUME NEW x \in Qids, NEW y \in Qids, NEW j \in 1..Len(queue'[x]),
                 NEW l \in 1..Len(queue'[y]), queue'[x][j] = queue'[y][l]
          PROVE  x = y /\ j = l
      <4>1. queue[x][Old(x, j)] = queue[y][Old(y, l)]
        BY <2>6, <3>2
      <4>2. x = y /\ Old(x, j) = Old(y, l)
        BY <2>6, <4>1 DEF QueueInv, OnQueues
      <4>. QED BY <2>8, <2>9, <4>2
    <3>3. ASSUME NEW x \in Qids, NEW y \in Receivers, NEW j \in 1..Len(queue'[x]),
                 NEW l \in 1..Len(received'[y]), queue'[x][j] = received'[y][l]
          PROVE  FALSE
      <4>1. CASE l \in 1..Len(received[y]) /\ received'[y][l] = received[y][l]
        <5>1. Old(x, j) \in 1..Len(queue[x]) /\ queue[x][Old(x, j)] = received[y][l]
          BY <2>6, <3>3, <4>1
        <5>. QED BY <4>1, <5>1 DEF QueueInv, OnQueues
      <4>2. CASE received'[y][l] = c[k]
        <5>1. /\ Old(x, j) \in 1..Len(queue[x]) /\ queue[x][Old(x, j)] = queue[q][k]
              /\ x = q => Old(x, j) # k
          BY <2>6, <3>3, <4>2
        <5>2. x = q /\ Old(x, j) = k
          <6>1. q \in Qids /\ k \in 1..Len(queue[q])
            BY <1>1, <2>1
          <6>2. \A u, v \in Qids : \A a \in 1..Len(queue[u]), b \in 1..Len(queue[v]) :
                   queue[u][a] = queue[v][b] => u = v /\ a = b
            BY DEF QueueInv, OnQueues
          <6>. QED BY <5>1, <6>1, <6>2
        <5>. QED BY <5>1, <5>2
      <4>. QED BY <2>10, <4>1, <4>2
    <3>. QED BY <3>1, <3>2, <3>3 DEF OnQueues
  <2>13. AtReceivers' /\ Dropped'
    <3>1. Was(m, i) /\ m \notin dropped
      BY <1>1, <2>1 DEF QueueInv, OnQueues
    <3>2. \A x \in Receivers : \A l \in 1..Len(received[x]) : received[x][l] # m
      BY <1>1, <2>1 DEF QueueInv, OnQueues
    <3>. HIDE DEF m
    <3>3. AtReceivers'
      <4>1. Was(m, i') /\ m \notin dropped'
        BY <1>0, <1>3, <2>2, <3>1
      <4>2. \A x \in Receivers : \A l \in 1..Len(received[x]) : received[x][l] # Nothing =>
               Was(received[x][l], i') /\ received[x][l] \notin dropped'
        BY <1>0, <1>3, <1>4 DEF QueueInv, AtReceivers
      <4>3. \A x \in Receivers : \A l \in 1..Len(received'[x]) : received'[x][l] # Nothing =>
               Was(received'[x][l], i') /\ received'[x][l] \notin dropped'
        BY <2>10, <4>1, <4>2
      <4>4. ASSUME NEW x \in Receivers, NEW y \in Receivers, NEW j \in 1..Len(received'[x]),
                   NEW l \in 1..Len(received'[y]), received'[x][j] # Nothing,
                   received'[x][j] = received'[y][l]
            PROVE  x = y /\ j = l
        <5>1. CASE j \in 1..Len(received[x]) /\ received'[x][j] = received[x][j]
          <6>1. l \in 1..Len(received[y]) /\ received'[y][l] = received[y][l]
            <7>1. received'[y][l] # m
              BY <3>2, <4>4, <5>1
            <7>. QED BY <2>10, <7>1
          <6>2. received[x][j] # Nothing /\ received[x][j] = received[y][l]
            BY <4>4, <5>1, <6>1
          <6>. QED BY <5>1, <6>1, <6>2 DEF QueueInv, AtReceivers
        <5>2. CASE x = r /\ j = Len(got) + 1 /\ received'[x][j] = m
          BY <2>10, <3>2, <4>4, <5>2
        <5>. QED BY <2>10, <5>1, <5>2
      <4>. QED BY <4>3, <4>4 DEF AtReceivers
    <3>4. Dropped'
      BY <1>0, <1>3, <1>4 DEF QueueInv, Dropped
    <3>. QED BY <3>3, <3>4
  <2>14. NoneLost'
    <3>1. ASSUME NEW x \in Messages, Was(x, i') PROVE Somewhere(x)'
      <4>1. CASE x = m
        <5>1. Len(got) + 1 \in 1..Len(received'[r])
          BY <1>2, <2>10
        <5>. QED BY <2>10, <4>1, <5>1 DEF Somewhere
      <4>2. CASE x # m
        <5>1. Somewhere(x)
          BY <1>3, <3>1 DEF QueueInv, NoneLost
        <5>2. CASE x \in dropped
          BY <1>0, <5>2 DEF Somewhere
        <5>3. CASE \E y \in Qids : \E l \in 1..Len(queue[y]) : queue[y][l] = x
          BY <2>7, <4>2, <5>3 DEF Somewhere
        <5>4. CASE \E y \in Receivers : \E l \in 1..Len(received[y]) : received[y][l] = x
          <6>0. PICK y \in Receivers : \E l \in 1..Len(received[y]) : received[y][l] = x
            BY <5>4
          <6>1. PICK l \in 1..Len(received[y]) : received[y][l] = x
            BY <6>0
          <6>2. l \in 1..Len(received'[y]) /\ received'[y][l] = x
            BY <2>10, <6>1
          <6>. QED BY <6>2 DEF Somewhere
        <5>. QED BY <5>1, <5>2, <5>3, <5>4 DEF Somewhere
      <4>. QED BY <4>1, <4>2
    <3>. QED BY <3>1 DEF NoneLost
  <2>. QED BY <1>1, <2>10, <2>11, <2>12, <2>13, <2>14 DEF QueueInv
<1>. QED BY <1>6, <1>7

-----------------------------------------------------------------------------
\* msgctl takes the live queue away with what is on it, or fails.
LEMMA RemoveKeeps ==
    ASSUME QueueInv, NEW r \in Receivers, Remove(r), limit' = limit
    PROVE  QueueInv'
<1>. DEFINE q == qid[r]
            c == queue[q]
<1>0. /\ r \in Procs /\ pc[r] = "msgctl" /\ q \in Qids
      /\ live' = live \ {q}
      /\ i' = i /\ qid' = qid /\ last_qid' = last_qid /\ received' = received /\ settled' = settled
  BY DEF Remove, QueueInv, InLoop, Procs
<1>1. CASE q \notin live
  <2>1. /\ pc' = [pc EXCEPT ![r] = "failed"] /\ queue' = queue /\ dropped' = dropped
        /\ live' = live
    BY <1>0, <1>1 DEF Remove
  <2>2. TypeOK'
    BY <1>0, <2>1 DEF QueueInv, TypeOK
  <2>3. InLoop'
    BY <1>0, <2>1, MessageQueueAssumption DEF QueueInv, TypeOK, InLoop, Procs
  <2>4. Removers' = Removers
    BY <1>0, <2>1 DEF QueueInv, TypeOK, Removers
  <2>5. QueuesMade'
    BY <1>0, <2>1, <2>4 DEF QueueInv, QueuesMade
  <2>6. OnQueues' /\ AtReceivers' /\ Dropped' /\ NoneLost'
    BY <1>0, <2>1 DEF QueueInv, OnQueues, AtReceivers, Dropped, NoneLost, Somewhere
  <2>. QED BY <2>2, <2>3, <2>5, <2>6 DEF QueueInv
<1>2. CASE q \in live
  <2>1. /\ pc' = [pc EXCEPT ![r] = "done"] /\ queue' = [queue EXCEPT ![q] = << >>]
        /\ dropped' = dropped \cup {c[k] : k \in 1..Len(c)}
        /\ live = {q} /\ live' = {}
    BY <1>0, <1>2 DEF Remove, QueueInv, QueuesMade
  <2>2. /\ queue' \in [Qids -> Seq(Messages)] /\ Len(queue'[q]) = 0
        /\ \A x \in Qids : x # q => queue'[x] = queue[x]
    <3>1. queue \in [Qids -> Seq(Messages)] /\ << >> \in Seq(Messages) /\ Len(<< >>) = 0
      BY DEF QueueInv, TypeOK
    <3>. QED BY <1>0, <2>1, <3>1
  <2>3. \A k \in 1..Len(c) : c[k] \in Messages
    BY <1>0 DEF QueueInv, TypeOK
  <2>4. TypeOK'
    <3>1. \A x \in Qids : Len(queue'[x]) <= limit
      <4>1. limit \in Nat /\ \A x \in Qids : Len(queue[x]) <= limit
        BY MessageQueueAssumption DEF QueueInv, TypeOK
      <4>. QED BY <2>2, <4>1
    <3>2. dropped' \subseteq Messages
      BY <2>1, <2>3 DEF QueueInv, TypeOK
    <3>3. live' \in SUBSET Qids /\ Cardinality(live') <= 1
      BY <2>1, FS_EmptySet
    <3>4. pc' \in [Procs -> {"msgget", "msgsnd", "msgrcv", "msgctl", "done", "failed"}]
      BY <2>1 DEF QueueInv, TypeOK
    <3>. QED BY <1>0, <2>2, <3>1, <3>2, <3>3, <3>4 DEF QueueInv, TypeOK
  <2>5. InLoop'
    BY <1>0, <2>1, MessageQueueAssumption DEF QueueInv, TypeOK, InLoop, Procs
  <2>6. QueuesMade'
    <3>1. Removers' = Removers \cup {r} /\ r \notin Removers
      BY <1>0, <2>1 DEF QueueInv, TypeOK, Removers
    <3>2. IsFiniteSet(Removers)
      BY FS_Subset, MessageQueueAssumption DEF Removers
    <3>3. Cardinality(Removers') = Cardinality(Removers) + 1
      BY <3>1, <3>2, FS_AddElement
    <3>4. Cardinality(Removers) \in Nat
      BY <3>2, FS_CardinalityType
    <3>5. live = {q} /\ live # {} /\ live' = {}
      BY <1>0, <2>1
    <3>6. last_qid = Cardinality(Removers) + 1 /\ last_qid' = last_qid
      BY <1>0, <2>1, <3>5 DEF QueueInv, QueuesMade
    <3>. QED BY <3>3, <3>4, <3>5, <3>6 DEF QueuesMade
  <2>7. \A x \in Qids : x # q => \A k \in 1..Len(queue[x]) : queue[x][k] \notin dropped'
    BY <1>0, <2>1 DEF QueueInv, OnQueues
  <2>8. OnQueues'
    <3>1. \A x \in Qids : \A k \in 1..Len(queue'[x]) : x # q /\ queue'[x] = queue[x]
      BY <2>2
    <3>2. \A x \in Qids : \A k \in 1..Len(queue'[x]) :
             Was(queue'[x][k], i') /\ queue'[x][k] \notin dropped'
      BY <1>0, <2>7, <3>1 DEF QueueInv, OnQueues
    <3>3. \A x, y \in Qids : \A k \in 1..Len(queue'[x]), l \in 1..Len(queue'[y]) :
             queue'[x][k] = queue'[y][l] => x = y /\ k = l
      BY <3>1 DEF QueueInv, OnQueues
    <3>4. \A x \in Qids, y \in Receivers : \A k \in 1..Len(queue'[x]), l \in 1..Len(received'[y]) :
             queue'[x][k] # received'[y][l]
      BY <1>0, <3>1 DEF QueueInv, OnQueues
    <3>. QED BY <3>2, <3>3, <3>4 DEF OnQueues
  <2>9. AtReceivers'
    <3>1. \A x \in Receivers : \A l \in 1..Len(received[x]) :
             received[x][l] # Nothing => received[x][l] \notin dropped'
      BY <1>0, <2>1 DEF QueueInv, OnQueues, AtReceivers
    <3>. QED BY <1>0, <3>1 DEF QueueInv, AtReceivers
  <2>10. Dropped'
    BY <1>0, <2>1 DEF QueueInv, OnQueues, Dropped
  <2>11. NoneLost'
    <3>1. ASSUME NEW x \in Messages, Was(x, i) PROVE Somewhere(x)'
      <4>1. Somewhere(x)
        BY <3>1 DEF QueueInv, NoneLost
      <4>2. CASE x \in dropped'
        BY <4>2 DEF Somewhere
      <4>3. CASE x \notin dropped'
        <5>1. \A y \in Qids : \A k \in 1..Len(queue[y]) : queue[y][k] = x =>
                 queue'[y] = queue[y]
          BY <2>1, <2>2, <4>3
        <5>. QED BY <1>0, <2>1, <4>1, <4>3, <5>1 DEF Somewhere
      <4>. QED BY <4>2, <4>3
    <3>. QED BY <1>0, <3>1 DEF NoneLost
  <2>. QED BY <2>4, <2>5, <2>6, <2>8, <2>9, <2>10, <2>11 DEF QueueInv
<1>. QED BY <1>1, <1>2

-----------------------------------------------------------------------------
LEMMA InitGives == Init => QueueInv
<1>. SUFFICES ASSUME Init PROVE QueueInv
  OBVIOUS
<1>1. /\ live = {} /\ last_qid = 0 /\ dropped = {} /\ settled = {}
      /\ \A q \in Qids : Len(queue[q]) = 0
      /\ \A r \in Receivers : Len(received[r]) = 0
      /\ \A p \in Procs : pc[p] = "msgget" /\ i[p] = 1
  BY DEF Init
<1>2. TypeOK
  <2>1. queue \in [Qids -> Seq(Messages)] /\ \A q \in Qids : Len(queue[q]) <= limit
    BY MessageQueueAssumption DEF Init
  <2>2. received \in [Receivers -> Seq(Messages \cup {Nothing})]
    BY DEF Init
  <2>3. Cardinality(live) <= 1
    BY <1>1, FS_EmptySet
  <2>4. /\ limit \in QueueLimits
        /\ pc \in [Procs -> {"msgget", "msgsnd", "msgrcv", "msgctl", "done", "failed"}]
        /\ i \in [Procs -> 1..(MsgCount + 1)] /\ qid \in [Procs -> Qids \cup {0}]
    BY DEF Init, MsgCount
  <2>. QED BY <1>1, <2>1, <2>2, <2>3, <2>4 DEF TypeOK
<1>3. InLoop
  BY <1>1 DEF InLoop, Procs, MsgCount
<1>4. QueuesMade
  <2>1. Removers = {}
    BY <1>1 DEF Removers, Procs
  <2>. QED BY <1>1, <2>1, FS_EmptySet DEF QueuesMade
<1>5. OnQueues /\ AtReceivers /\ Dropped
  BY <1>1 DEF OnQueues, AtReceivers, Dropped
<1>6. NoneLost
  <2>1. \A m \in Messages : m[2] \in Procs /\ m[3] \in 1..MsgCount
    BY MessagesAre DEF Procs
  <2>. QED BY <1>1, <2>1 DEF NoneLost, Was, MsgCount
<1>. QED BY <1>2, <1>3, <1>4, <1>5, <1>6 DEF QueueInv

LEMMA NextKeeps == QueueInv /\ [Next]_vars => QueueInv'
<1>. SUFFICES ASSUME QueueInv, [Next]_vars PROVE QueueInv'
  OBVIOUS
<1>1. CASE UNCHANGED vars
  <2>1. (TypeOK /\ InLoop /\ QueuesMade)'
    BY <1>1 DEF vars, QueueInv, TypeOK, InLoop, QueuesMade, Removers
  <2>2. OnQueues'
    BY <1>1 DEF vars, QueueInv, OnQueues
  <2>3. AtReceivers'
    BY <1>1 DEF vars, QueueInv, AtReceivers
  <2>4. Dropped' /\ NoneLost'
    BY <1>1 DEF vars, QueueInv, Dropped, NoneLost, Somewhere
  <2>. QED BY <2>1, <2>2, <2>3, <2>4 DEF QueueInv
<1>2. ASSUME NEW s \in Senders, SenderGet(s) \/ Send(s), limit' = limit PROVE QueueInv'
  <2>1. CASE SenderGet(s)
    <3>1. Get(s, "msgsnd") /\ settled' = settled /\ settled \subseteq Receivers /\ s \in Procs
      BY <2>1 DEF SenderGet, QueueInv, TypeOK, Procs
    <3>. QED BY <1>2, <3>1, GetKeeps
  <2>2. CASE Send(s)
    BY <1>2, <2>2, SendKeeps
  <2>. QED BY <1>2, <2>1, <2>2
<1>3. ASSUME NEW r \in Receivers, ReceiverGet(r) \/ Receive(r) \/ Remove(r), limit' = limit
      PROVE  QueueInv'
  <2>1. CASE ReceiverGet(r)
    <3>1. Get(r, "msgrcv") /\ settled' \subseteq Receivers /\ r \in Procs /\ r \notin Senders
      BY <2>1, MessageQueueAssumption DEF ReceiverGet, QueueInv, TypeOK, Procs
    <3>. QED BY <1>3, <3>1, GetKeeps
  <2>2. CASE Receive(r)
    BY <1>3, <2>2, ReceiveKeeps
  <2>3. CASE Remove(r)
    BY <1>3, <2>3, RemoveKeeps
  <2>. QED BY <1>3, <2>1, <2>2, <2>3
<1>. QED BY <1>1, <1>2, <1>3 DEF Next

LEMMA QueueInvHolds == Spec => []QueueInv
BY InitGives, NextKeeps, PTL DEF Spec

\* The places of a message are one once it was sent, and none before.
LEMMA OnePlace == QueueInv => MessagesAccounted
<1>. SUFFICES ASSUME QueueInv, NEW m \in Messages
              PROVE  Cardinality(Places(m)) = IF m[3] < i[m[2]] THEN 1 ELSE 0
  BY DEF MessagesAccounted
<1>. USE DEF QueueInv
<1>0. m # Nothing
  BY MessagesAre
<1>. DEFINE Waits(q, k) == q \in Qids /\ k \in 1..Len(queue[q]) /\ queue[q][k] = m
            Came(r, k) == r \in Receivers /\ k \in 1..Len(received[r]) /\ received[r][k] = m
<1>1. ASSUME NEW p \in Places(m)
      PROVE  \/ p = <<"queue", p[2], p[3]>> /\ Waits(p[2], p[3])
             \/ p = <<"receiver", p[2], p[3]>> /\ Came(p[2], p[3])
             \/ p = <<"dropped">> /\ m \in dropped
  BY DEF Places, TypeOK
<1>2. \A q, k, r, l : Waits(q, k) /\ Waits(r, l) => q = r /\ k = l
  BY DEF OnQueues
<1>3. \A q, k, r, l : Came(q, k) /\ Came(r, l) => q = r /\ k = l
  BY <1>0 DEF AtReceivers
<1>4. \A q, k, r, l : ~ (Waits(q, k) /\ Came(r, l))
  BY DEF OnQueues
<1>5. \A q, k : (Waits(q, k) => m \notin dropped /\ Was(m, i))
                /\ (Came(q, k) => m \notin dropped /\ Was(m, i))
  BY <1>0 DEF OnQueues, AtReceivers
<1>6. m \in dropped => Was(m, i)
  BY DEF Dropped
<1>7. Was(m, i) => Places(m) # {}
  <2>1. ASSUME NEW q, NEW k, Waits(q, k) PROVE <<"queue", q, k>> \in Places(m)
    <3>1. limit \in Nat /\ Len(queue[q]) <= limit /\ Len(queue[q]) \in Nat
      BY <2>1, MessageQueueAssumption DEF TypeOK
    <3>2. k \in 1..limit /\ k <= Len(queue[q])
      BY <2>1, <3>1
    <3>. QED BY <2>1, <3>2 DEF Places
  <2>2. ASSUME NEW r, NEW k, Came(r, k) PROVE <<"receiver", r, k>> \in Places(m)
    <3>0. r \in Procs /\ i[r] \in 1..(MsgCount + 1) /\ Len(received[r]) \in Nat
      BY <2>2 DEF TypeOK, Procs
    <3>1. Len(received[r]) <= MsgCount /\ Len(received[r]) \in Nat
      BY <2>2, <3>0 DEF InLoop, MsgCount
    <3>2. k \in 1..MsgCount /\ k <= Len(received[r])
      BY <2>2, <3>1 DEF MsgCount
    <3>. QED BY <2>2, <3>2 DEF Places
  <2>3. m \in dropped => <<"dropped">> \in Places(m)
    BY DEF Places
  <2>4. Was(m, i) => m \in dropped \/ (\E q, k : Waits(q, k)) \/ (\E r, k : Came(r, k))
    BY DEF NoneLost, Somewhere
  <2>. QED BY <2>1, <2>2, <2>3, <2>4
<1>. HIDE DEF Waits, Came
<1>8. CASE Was(m, i)
  <2>1. PICK p \in Places(m) : TRUE
    BY <1>7, <1>8
  <2>2. \A o \in Places(m) : o = p
    BY <1>1, <1>2, <1>3, <1>4, <1>5
  <2>3. Places(m) = {p}
    BY <2>1, <2>2
  <2>4. Cardinality({p}) = 1
    BY FS_Singleton
  <2>. QED BY <1>8, <2>3, <2>4 DEF Was
<1>9. CASE ~ Was(m, i)
  <2>1. Places(m) = {}
    BY <1>1, <1>5, <1>6, <1>9
  <2>. QED BY <1>9, <2>1, FS_EmptySet DEF Was
<1>. QED BY <1>8, <1>9

\* The state has its type; a queue never holds more than the limit.
THEOREM TypeCorrect == Spec => []TypeOK
<1>1. QueueInv => TypeOK
  BY DEF QueueInv
<1>. QED BY <1>1, QueueInvHolds, PTL

\* A message that was sent is at one place, whatever queues come and go while it
\* waits (sender.c:33, receiver.c:27-34).
THEOREM MessagesAccountedCorrect == Spec => []MessagesAccounted
<1>. QED BY OnePlace, QueueInvHolds, PTL

-----------------------------------------------------------------------------
\* What the counters say of where a process is.
Counted ==
    /\ \A p \in Procs : pc[p] = "msgget" => i[p] = 1
    /\ \A s \in Senders : pc[s] = "done" => i[s] = MsgCount + 1

\* No queue is known, and none has messages, that was not made.
Made ==
    /\ \A p \in Procs : qid[p] <= last_qid
    /\ \A q \in live : q <= last_qid
    /\ \A q \in Qids : Len(queue[q]) > 0 => q <= last_qid

\* A call brings the type that was wanted in its turn.
AsWanted ==
    \A r \in Receivers : \A k \in 1..Len(received[r]) :
        received[r][k] # Nothing => received[r][k][1] = wanted_types[k]

\* Who has settled has started, with all senders done.
Settled == \A r \in settled : pc[r] # "msgget" /\ \A s \in Senders : pc[s] = "done"

ServedInv == QueueInv /\ Counted /\ Made /\ AsWanted /\ Settled /\ SettledReceiverServed

\* Each type is wanted twice and sent twice.
LEMMA TypesWanted ==
    ASSUME NEW n \in 1..MsgCount
    PROVE  /\ \E a, b \in 1..MsgCount : a # b /\ sent_types[a] = wanted_types[n]
                                              /\ sent_types[b] = wanted_types[n]
           /\ \A j, k \in 1..(n - 1) :
                 wanted_types[j] = wanted_types[n] /\ wanted_types[k] = wanted_types[n] => j = k
<1>1. n \in {1, 2, 3, 4, 5, 6}
  BY DEF MsgCount
<1>2. \A t \in {1, 2, 3} : \E a, b \in 1..6 : a # b /\ sent_types[a] = t /\ sent_types[b] = t
  <2>1. /\ sent_types[1] = 1 /\ sent_types[2] = 1 /\ sent_types[3] = 2
        /\ sent_types[4] = 2 /\ sent_types[5] = 3 /\ sent_types[6] = 3
    BY DEF sent_types
  <2>. QED BY <2>1
<1>3. /\ wanted_types[1] = 3 /\ wanted_types[2] = 1 /\ wanted_types[3] = 2
      /\ wanted_types[4] = 1 /\ wanted_types[5] = 3 /\ wanted_types[6] = 2
  BY DEF wanted_types
<1>4. \E a, b \in 1..MsgCount : a # b /\ sent_types[a] = wanted_types[n]
                                      /\ sent_types[b] = wanted_types[n]
  <2>1. wanted_types[n] \in {1, 2, 3}
    BY <1>1, <1>3
  <2>. QED BY <1>2, <2>1 DEF MsgCount
<1>5. ASSUME NEW j \in 1..(n - 1), NEW k \in 1..(n - 1),
             wanted_types[j] = wanted_types[n], wanted_types[k] = wanted_types[n]
      PROVE  j = k
  <2>1. j \in {1, 2, 3, 4, 5} /\ k \in {1, 2, 3, 4, 5} /\ j < n /\ k < n
    BY <1>1
  <2>. QED BY <1>1, <1>3, <1>5, <2>1
<1>. QED BY <1>4, <1>5

\* A settled receiver that nobody meets has the one queue there ever was.
LEMMA OnlyQueue ==
    ASSUME ServedInv, NEW r \in Receivers, pc[r] = "msgrcv",
           \A other \in Receivers \ {r} : pc[other] = "msgget"
    PROVE  last_qid = 1 /\ qid[r] = 1 /\ live = {1}
<1>. USE DEF ServedInv, QueueInv
<1>1. Removers = {}
  BY DEF Removers
<1>2. live = {} \/ \E q \in Qids : live = {q}
  BY DEF QueuesMade
<1>3. last_qid = IF live = {} THEN 0 ELSE 1
  BY <1>1, FS_EmptySet DEF QueuesMade
<1>4. r \in Procs /\ qid[r] \in Qids /\ qid[r] <= last_qid
  BY DEF InLoop, Procs, Made
<1>5. Qids \subseteq Nat \ {0}
  BY FS_CardinalityType, MessageQueueAssumption DEF Qids
<1>6. last_qid = 1 /\ qid[r] = 1 /\ live # {}
  <2>. DEFINE x == qid[r]
  <2>1. x \in Nat \ {0} /\ x <= last_qid
    BY <1>4, <1>5
  <2>. HIDE DEF x
  <2>2. live # {}
    BY <1>3, <2>1
  <2>3. last_qid = 1
    BY <1>3, <2>2
  <2>4. x = 1
    BY <2>1, <2>3
  <2>. QED BY <2>2, <2>3, <2>4 DEF x
<1>7. PICK q \in Qids : live = {q}
  BY <1>2, <1>6
<1>8. q = 1
  BY <1>5, <1>6, <1>7 DEF Made
<1>. QED BY <1>6, <1>7, <1>8

\* It finds a message of the type it wants: of two that were sent it has had one
\* at most, and nobody else has had any.
LEMMA FindsOne ==
    ASSUME ServedInv, NEW r \in settled, pc[r] = "msgrcv", dropped = {}, Senders # {},
           \A other \in Receivers \ {r} : pc[other] = "msgget"
    PROVE  Matching(r) # {}
<1>. USE DEF ServedInv, QueueInv
<1>1. r \in Receivers /\ r \in Procs
  BY DEF TypeOK, Procs
<1>2. i[r] \in 1..MsgCount /\ Len(received[r]) = i[r] - 1
  BY <1>1 DEF TypeOK, InLoop, MsgCount
<1>3. PICK s \in Senders : TRUE
  OBVIOUS
<1>4. s \in Procs /\ i[s] = MsgCount + 1
  BY DEF Settled, Counted, Procs
<1>5. \E a, b \in 1..MsgCount : a # b /\ sent_types[a] = wanted_types[i[r]]
                                      /\ sent_types[b] = wanted_types[i[r]]
  BY <1>2, TypesWanted
<1>6. PICK a \in 1..MsgCount, b \in 1..MsgCount :
          a # b /\ sent_types[a] = wanted_types[i[r]] /\ sent_types[b] = wanted_types[i[r]]
  BY <1>5
<1>. DEFINE Mine(n) == <<sent_types[n], s, n>>
<1>7. ASSUME NEW n \in {a, b}
      PROVE  \/ \E k \in 1..Len(queue[1]) : queue[1][k] = Mine(n)
             \/ \E k \in 1..(i[r] - 1) : received[r][k] = Mine(n) /\ wanted_types[k] = wanted_types[i[r]]
  <2>1. Mine(n) \in Messages /\ Mine(n)[2] = s /\ Mine(n)[3] = n /\ Mine(n)[1] = wanted_types[i[r]]
    BY <1>6, MessagesAre
  <2>. HIDE DEF Mine
  <2>2. Was(Mine(n), i)
    BY <1>4, <1>6, <2>1 DEF Was, MsgCount
  <2>3. Somewhere(Mine(n)) /\ Mine(n) # Nothing
    BY <2>1, <2>2, MessagesAre DEF NoneLost
  <2>4. CASE \E q \in Qids : \E k \in 1..Len(queue[q]) : queue[q][k] = Mine(n)
    <3>1. PICK q \in Qids : \E k \in 1..Len(queue[q]) : queue[q][k] = Mine(n)
      BY <2>4
    <3>2. q \in Nat \ {0} /\ Len(queue[q]) \in Nat
      BY FS_CardinalityType, MessageQueueAssumption DEF Qids, TypeOK
    <3>3. q <= 1
      BY <1>1, <3>1, <3>2, OnlyQueue DEF Made
    <3>4. q = 1
      BY <3>2, <3>3
    <3>. QED BY <3>1, <3>4
  <2>5. CASE \E t \in Receivers : \E k \in 1..Len(received[t]) : received[t][k] = Mine(n)
    <3>1. PICK t \in Receivers : \E k \in 1..Len(received[t]) : received[t][k] = Mine(n)
      BY <2>5
    <3>2. PICK k \in 1..Len(received[t]) : received[t][k] = Mine(n)
      BY <3>1
    <3>3. t = r
      <4>1. ASSUME t # r PROVE FALSE
        <5>1. pc[t] = "msgget" /\ t \in Procs
          BY <4>1 DEF Procs
        <5>2. Len(received[t]) = 0
          BY <5>1 DEF Counted, InLoop
        <5>. QED BY <3>2, <5>2
      <4>. QED BY <4>1
    <3>4. k \in 1..(i[r] - 1) /\ received[r][k] = Mine(n)
      BY <1>2, <3>2, <3>3
    <3>5. wanted_types[k] = wanted_types[i[r]]
      BY <2>1, <2>3, <3>2, <3>3 DEF AsWanted
    <3>. QED BY <3>4, <3>5
  <2>. QED BY <2>3, <2>4, <2>5 DEF Somewhere
<1>8. \E n \in {a, b} : \E k \in 1..Len(queue[1]) : queue[1][k] = Mine(n)
  <2>. SUFFICES ASSUME \A n \in {a, b} : ~ \E k \in 1..Len(queue[1]) : queue[1][k] = Mine(n)
                PROVE  FALSE
    OBVIOUS
  <2>. HIDE DEF Mine
  <2>1. PICK j \in 1..(i[r] - 1) : received[r][j] = Mine(a) /\ wanted_types[j] = wanted_types[i[r]]
    BY <1>7
  <2>2. PICK k \in 1..(i[r] - 1) : received[r][k] = Mine(b) /\ wanted_types[k] = wanted_types[i[r]]
    BY <1>7
  <2>3. j = k
    <3>1. \A x, y \in 1..(i[r] - 1) :
             wanted_types[x] = wanted_types[i[r]] /\ wanted_types[y] = wanted_types[i[r]] => x = y
      BY <1>2, TypesWanted
    <3>. QED BY <2>1, <2>2, <3>1
  <2>4. Mine(a) = Mine(b)
    BY <2>1, <2>2, <2>3
  <2>5. Mine(a) # Mine(b)
    BY <1>6 DEF Mine
  <2>. QED BY <2>4, <2>5
<1>9. PICK n \in {a, b} : \E k \in 1..Len(queue[1]) : queue[1][k] = Mine(n)
  BY <1>8
<1>10. PICK k \in 1..Len(queue[1]) : queue[1][k] = Mine(n)
  BY <1>9
<1>11. queue[1][k][1] = wanted_types[i[r]]
  BY <1>6, <1>10
<1>12. qid[r] = 1 /\ live = {1}
  BY <1>1, OnlyQueue
<1>. QED BY <1>11, <1>12 DEF Matching

\* msgget.
LEMMA ServedByGet ==
    ASSUME ServedInv, NEW p \in Procs, NEW next \in {"msgsnd", "msgrcv"}, Get(p, next),
           \/ p \in Senders /\ settled' = settled
           \/ p \in Receivers /\ settled' = IF \A s \in Senders : pc[s] = "done"
                                              THEN settled \cup {p} ELSE settled
    PROVE  Counted' /\ Made' /\ AsWanted' /\ Settled' /\ SettledReceiverServed'
<1>. USE DEF ServedInv, QueueInv
<1>1. /\ i' = i /\ queue' = queue /\ received' = received /\ dropped' = dropped
      /\ pc[p] = "msgget" /\ pc' = [pc EXCEPT ![p] = next]
      /\ last_qid' = IF live = {} THEN last_qid + 1 ELSE last_qid
      /\ live' = IF live = {} THEN {last_qid'} ELSE live
      /\ qid' = [qid EXCEPT ![p] = CHOOSE q \in live' : TRUE]
  BY DEF Get
<1>2. /\ pc'[p] = next /\ next # "msgget" /\ next # "done"
      /\ \A q \in Procs : q # p => pc'[q] = pc[q]
  BY <1>1 DEF TypeOK
<1>3. Counted'
  BY <1>1, <1>2 DEF Counted, Procs
<1>4. Qids \subseteq Nat \ {0} /\ last_qid \in Nat
  BY FS_CardinalityType, MessageQueueAssumption DEF Qids, TypeOK
<1>5. last_qid' \in Nat /\ last_qid <= last_qid' /\ \A q \in live' : q <= last_qid'
  BY <1>1, <1>4 DEF Made
<1>6. \E q \in live' : qid' = [qid EXCEPT ![p] = q]
  <2>1. live' # {}
    BY <1>1
  <2>. QED BY <1>1, <2>1
<1>7. Made'
  <2>1. \A q \in Qids : Len(queue'[q]) > 0 => q <= last_qid'
    BY <1>1, <1>4, <1>5 DEF Made
  <2>2. ASSUME NEW o \in Procs PROVE qid'[o] <= last_qid'
    <3>1. qid[o] \in Nat /\ qid[o] <= last_qid
      <4>1. qid[o] \in Qids \cup {0}
        BY DEF TypeOK
      <4>2. qid[o] <= last_qid
        BY DEF Made
      <4>3. \A x \in Qids \cup {0} : x \in Nat
        BY <1>4
      <4>. QED BY <4>1, <4>2, <4>3
    <3>2. qid'[o] = qid[o] \/ qid'[o] \in live'
      BY <1>6 DEF TypeOK
    <3>. QED BY <1>4, <1>5, <3>1, <3>2
  <2>. QED BY <1>5, <2>1, <2>2 DEF Made
<1>8. AsWanted'
  BY <1>1 DEF AsWanted
<1>9. Settled'
  BY <1>1, <1>2, MessageQueueAssumption DEF Settled, TypeOK, Procs
<1>10. SettledReceiverServed'
  <2>. SUFFICES ASSUME NEW r \in settled', dropped' = {}, Senders # {},
                       \A other \in Receivers \ {r} : pc'[other] = "msgget",
                       NEW k \in 1..Len(received'[r])
                PROVE  received'[r][k] # Nothing
    BY DEF SettledReceiverServed
  <2>1. CASE r \in settled
    <3>1. \A other \in Receivers \ {r} : pc[other] = "msgget"
      BY <1>1, <1>2 DEF Procs
    <3>. QED BY <1>1, <2>1, <3>1 DEF SettledReceiverServed
  <2>2. CASE r \notin settled
    <3>1. r = p /\ r \in Receivers
      BY <2>2
    <3>2. Len(received[r]) = 0
      BY <1>1, <3>1 DEF Counted, InLoop
    <3>. QED BY <1>1, <3>2
  <2>. QED BY <2>1, <2>2
<1>. QED BY <1>3, <1>7, <1>8, <1>9, <1>10

\* Nobody settles while a message is sent.
LEMMA ServedBySend ==
    ASSUME ServedInv, NEW s \in Senders, Send(s)
    PROVE  Counted' /\ Made' /\ AsWanted' /\ Settled' /\ SettledReceiverServed'
<1>. USE DEF ServedInv, QueueInv
<1>1. /\ s \in Procs /\ Turn(s, "msgsnd", "done") /\ received' = received
      /\ \/ queue' = queue
         \/ \E c : queue' = [queue EXCEPT ![qid[s]] = c]
  BY DEF Send, Procs
<1>2. /\ pc[s] = "msgsnd" /\ i' = [i EXCEPT ![s] = i[s] + 1]
      /\ pc' = [pc EXCEPT ![s] = IF i[s] = MsgCount THEN "done" ELSE "msgsnd"]
      /\ qid' = qid /\ last_qid' = last_qid /\ live' = live /\ settled' = settled
  BY <1>1 DEF Turn
<1>3. settled' = {}
  BY <1>2 DEF Settled
<1>4. Counted'
  BY <1>1, <1>2 DEF Counted, TypeOK, Procs
<1>5. Made'
  <2>1. qid[s] <= last_qid
    BY <1>1 DEF Made
  <2>2. \A q \in Qids : queue'[q] = queue[q] \/ q = qid[s]
    BY <1>1 DEF TypeOK
  <2>. QED BY <1>2, <2>1, <2>2 DEF Made
<1>6. AsWanted'
  BY <1>1 DEF AsWanted
<1>. QED BY <1>3, <1>4, <1>5, <1>6 DEF Settled, SettledReceiverServed

\* A settled receiver that nobody meets takes one more message.
LEMMA ServedByReceive ==
    ASSUME ServedInv, NEW r \in Receivers, Receive(r)
    PROVE  Counted' /\ Made' /\ AsWanted' /\ Settled' /\ SettledReceiverServed'
<1>. USE DEF ServedInv, QueueInv
<1>1. /\ r \in Procs /\ Turn(r, "msgrcv", "msgctl") /\ dropped' = dropped
      /\ IF Matching(r) = {} THEN Trouble(r) ELSE Take(r, Oldest(Matching(r)))
  BY DEF Receive, Procs
<1>2. /\ pc[r] = "msgrcv" /\ i' = [i EXCEPT ![r] = i[r] + 1]
      /\ pc' = [pc EXCEPT ![r] = IF i[r] = MsgCount THEN "msgctl" ELSE "msgrcv"]
      /\ qid' = qid /\ last_qid' = last_qid /\ live' = live /\ settled' = settled
  BY <1>1 DEF Turn
<1>3. /\ pc'[r] \in {"msgctl", "msgrcv"} /\ \A p \in Procs : p # r => pc'[p] = pc[p] /\ i'[p] = i[p]
  BY <1>2 DEF TypeOK
<1>4. Counted'
  BY <1>3, MessageQueueAssumption DEF Counted, Procs
<1>5. Settled'
  BY <1>2, <1>3, MessageQueueAssumption DEF Settled, TypeOK, Procs
<1>6. i[r] \in 1..MsgCount /\ Len(received[r]) = i[r] - 1
  BY <1>1, <1>2 DEF TypeOK, InLoop, MsgCount
<1>7. Made'
  <2>1. qid[r] <= last_qid
    BY <1>1 DEF Made
  <2>2. \A q \in Qids : queue'[q] = queue[q] \/ q = qid[r]
    BY <1>1 DEF TypeOK, Trouble, Take
  <2>. QED BY <1>2, <2>1, <2>2 DEF Made
<1>8. \E m : /\ received' = [received EXCEPT ![r] = Append(received[r], m)]
             /\ m \in Messages \cup {Nothing}
             /\ m # Nothing => m[1] = wanted_types[i[r]]
             /\ Matching(r) # {} => m # Nothing
  <2>1. CASE Matching(r) = {}
    BY <1>1, <2>1 DEF Trouble
  <2>2. CASE Matching(r) # {}
    <3>1. Matching(r) \subseteq Nat
      BY DEF Matching
    <3>2. Oldest(Matching(r)) \in Matching(r)
      BY <2>2, <3>1, OldestOf
    <3>3. PICK k \in Matching(r) : received' = [received EXCEPT ![r] = Append(received[r], queue[qid[r]][k])]
      BY <1>1, <2>2, <3>2 DEF Take
    <3>4. /\ k \in 1..Len(queue[qid[r]]) /\ queue[qid[r]][k][1] = wanted_types[i[r]]
      BY <3>3 DEF Matching
    <3>5. queue[qid[r]] \in Seq(Messages)
      BY <1>1, <1>2 DEF TypeOK, InLoop
    <3>6. queue[qid[r]][k] \in Messages
      BY <3>4, <3>5
    <3>. QED BY <3>3, <3>4, <3>6, MessagesAre
  <2>. QED BY <2>1, <2>2
<1>9. PICK m : /\ received' = [received EXCEPT ![r] = Append(received[r], m)]
               /\ m \in Messages \cup {Nothing}
               /\ m # Nothing => m[1] = wanted_types[i[r]]
               /\ Matching(r) # {} => m # Nothing
  BY <1>8
<1>10. /\ Len(received'[r]) = i[r] /\ received'[r][i[r]] = m
       /\ \A k \in 1..(i[r] - 1) : received'[r][k] = received[r][k]
       /\ \A p \in Receivers : p # r => received'[p] = received[p]
  <2>1. received[r] \in Seq(Messages \cup {Nothing}) /\ received'[r] = Append(received[r], m)
        /\ \A p \in Receivers : p # r => received'[p] = received[p]
    BY <1>9 DEF TypeOK
  <2>2. /\ Len(Append(received[r], m)) = Len(received[r]) + 1
        /\ Append(received[r], m)[Len(received[r]) + 1] = m
        /\ \A k \in 1..Len(received[r]) : Append(received[r], m)[k] = received[r][k]
    BY <1>9, <2>1
  <2>3. i[r] \in Nat /\ Len(received[r]) + 1 = i[r]
    BY <1>6
  <2>. QED BY <1>6, <2>1, <2>2, <2>3
<1>11. AsWanted'
  <2>. SUFFICES ASSUME NEW p \in Receivers, NEW k \in 1..Len(received'[p]), received'[p][k] # Nothing
                PROVE  received'[p][k][1] = wanted_types[k]
    BY DEF AsWanted
  <2>1. CASE p # r
    BY <1>10, <2>1 DEF AsWanted
  <2>2. CASE p = r
    <3>1. k \in 1..(i[r] - 1) \/ k = i[r]
      BY <1>6, <1>10, <2>2
    <3>2. CASE k = i[r]
      BY <1>9, <1>10, <2>2, <3>2
    <3>3. CASE k \in 1..(i[r] - 1)
      BY <1>6, <1>10, <2>2, <3>3 DEF AsWanted
    <3>. QED BY <3>1, <3>2, <3>3
  <2>. QED BY <2>1, <2>2
<1>12. SettledReceiverServed'
  <2>. SUFFICES ASSUME NEW t \in settled', dropped' = {}, Senders # {},
                       \A other \in Receivers \ {t} : pc'[other] = "msgget",
                       NEW k \in 1..Len(received'[t])
                PROVE  received'[t][k] # Nothing
    BY DEF SettledReceiverServed
  <2>1. t = r
    BY <1>3
  <2>2. \A other \in Receivers \ {r} : pc[other] = "msgget"
    BY <1>3, <2>1 DEF Procs
  <2>3. r \in settled /\ dropped = {}
    BY <1>1, <1>2, <2>1
  <2>4. m # Nothing
    BY <1>2, <1>9, <2>2, <2>3, FindsOne
  <2>5. k \in 1..(i[r] - 1) \/ k = i[r]
    BY <1>6, <1>10, <2>1
  <2>6. \A j \in 1..(i[r] - 1) : received[r][j] # Nothing
    BY <1>6, <2>2, <2>3 DEF SettledReceiverServed
  <2>. QED BY <1>10, <2>1, <2>4, <2>5, <2>6
<1>. QED BY <1>4, <1>5, <1>7, <1>11, <1>12

\* Removing the queue takes nothing back from who has received.
LEMMA ServedByRemove ==
    ASSUME ServedInv, NEW r \in Receivers, Remove(r)
    PROVE  Counted' /\ Made' /\ AsWanted' /\ Settled' /\ SettledReceiverServed'
<1>. USE DEF ServedInv, QueueInv
<1>1. /\ pc[r] = "msgctl" /\ live' = live \ {qid[r]}
      /\ i' = i /\ qid' = qid /\ last_qid' = last_qid /\ received' = received /\ settled' = settled
      /\ \E end \in {"done", "failed"} : pc' = [pc EXCEPT ![r] = end]
      /\ queue' = queue \/ queue' = [queue EXCEPT ![qid[r]] = << >>]
      /\ dropped \subseteq dropped'
  BY DEF Remove
<1>2. /\ r \in Procs /\ pc'[r] \in {"done", "failed"}
      /\ \A p \in Procs : p # r => pc'[p] = pc[p]
  BY <1>1 DEF TypeOK, Procs
<1>3. Counted'
  BY <1>1, <1>2, MessageQueueAssumption DEF Counted, Procs
<1>4. Settled'
  BY <1>1, <1>2, MessageQueueAssumption DEF Settled, TypeOK, Procs
<1>5. Made'
  <2>1. qid[r] <= last_qid
    BY <1>2 DEF Made
  <2>2. \A q \in Qids : queue'[q] = queue[q] \/ q = qid[r]
    BY <1>1 DEF TypeOK
  <2>. QED BY <1>1, <2>1, <2>2 DEF Made
<1>6. AsWanted'
  BY <1>1 DEF AsWanted
<1>7. SettledReceiverServed'
  <2>. SUFFICES ASSUME NEW t \in settled', dropped' = {}, Senders # {},
                       \A other \in Receivers \ {t} : pc'[other] = "msgget",
                       NEW k \in 1..Len(received'[t])
                PROVE  received'[t][k] # Nothing
    BY DEF SettledReceiverServed
  <2>1. \A other \in Receivers \ {t} : pc[other] = "msgget"
    BY <1>2 DEF Procs
  <2>. QED BY <1>1, <2>1 DEF SettledReceiverServed
<1>. QED BY <1>3, <1>4, <1>5, <1>6, <1>7

\* The invariant holds.
LEMMA ServedInvHolds == Spec => []ServedInv
<1>1. Init => ServedInv
  <2>. SUFFICES ASSUME Init PROVE ServedInv
    OBVIOUS
  <2>1. /\ live = {} /\ last_qid = 0 /\ settled = {}
        /\ \A q \in Qids : Len(queue[q]) = 0
        /\ \A r \in Receivers : Len(received[r]) = 0
        /\ \A p \in Procs : pc[p] = "msgget" /\ i[p] = 1 /\ qid[p] = 0
    BY DEF Init
  <2>2. Counted /\ Made /\ Settled
    BY <2>1 DEF Counted, Made, Settled, Procs
  <2>3. AsWanted /\ SettledReceiverServed
    BY <2>1 DEF AsWanted, SettledReceiverServed
  <2>. QED BY <2>2, <2>3, InitGives DEF ServedInv
<1>2. ServedInv /\ [Next]_vars => ServedInv'
  <2>. SUFFICES ASSUME ServedInv, [Next]_vars PROVE ServedInv'
    OBVIOUS
  <2>1. QueueInv'
    BY NextKeeps DEF ServedInv
  <2>. DEFINE Kept == Counted' /\ Made' /\ AsWanted' /\ Settled' /\ SettledReceiverServed'
  <2>2. CASE UNCHANGED vars
    <3>1. UNCHANGED <<pc, i, qid, last_qid, live, queue, received, settled, dropped>>
      BY <2>2 DEF vars
    <3>2. Counted' /\ Made'
      BY <3>1 DEF ServedInv, Counted, Made
    <3>3. AsWanted' /\ Settled'
      BY <3>1 DEF ServedInv, AsWanted, Settled
    <3>4. SettledReceiverServed'
      BY <3>1 DEF ServedInv, SettledReceiverServed
    <3>. QED BY <2>1, <3>2, <3>3, <3>4 DEF ServedInv
  <2>3. ASSUME NEW s \in Senders, SenderGet(s) PROVE Kept
    BY <2>3, ServedByGet DEF SenderGet, Procs
  <2>4. ASSUME NEW s \in Senders, Send(s) PROVE Kept
    BY <2>4, ServedBySend
  <2>5. ASSUME NEW r \in Receivers, ReceiverGet(r) PROVE Kept
    BY <2>5, ServedByGet DEF ReceiverGet, Procs
  <2>6. ASSUME NEW r \in Receivers, Receive(r) PROVE Kept
    BY <2>6, ServedByReceive
  <2>7. ASSUME NEW r \in Receivers, Remove(r) PROVE Kept
    BY <2>7, ServedByRemove
  <2>. QED BY <2>1, <2>2, <2>3, <2>4, <2>5, <2>6, <2>7 DEF Next, ServedInv
<1>. QED BY <1>1, <1>2, PTL DEF Spec

\* In the order the programs are meant for, a receiver that nobody meets has no
\* trouble with any of its calls (sender.c:21, receiver.c:19).
THEOREM SettledReceiverServedCorrect == Spec => []SettledReceiverServed
<1>1. ServedInv => SettledReceiverServed
  BY DEF ServedInv
<1>. QED BY <1>1, ServedInvHolds, PTL

-----------------------------------------------------------------------------
(* The refinement of TypedQueue *)

\* Only the queue that the key leads to has messages, and a receiver that comes
\* to msgctl has made its calls.
Emptied == \A q \in Qids : q \notin live => queue[q] = << >>
AllCalled == \A r \in Receivers : pc[r] = "msgctl" => i[r] = MsgCount + 1

TypedInv == ServedInv /\ Emptied /\ AllCalled

Attached == {p \in Procs : qid[p] \in live}
Offered == [s \in Senders |-> i[s] - 1]

LEMMA CurrentIs ==
    ASSUME QueueInv
    PROVE  /\ live = {} => Current = << >>
           /\ \A q \in live : live = {q} /\ q \in Qids /\ Current = queue[q]
           /\ Current \in Seq(Messages)
<1>1. live = {} \/ \E q \in Qids : live = {q}
  BY DEF QueueInv, QueuesMade
<1>2. \A q \in Qids : queue[q] \in Seq(Messages)
  BY DEF QueueInv, TypeOK
<1>3. CASE live = {}
  BY <1>3 DEF Current
<1>4. ASSUME NEW q \in Qids, live = {q}
      PROVE  /\ \A x \in live : live = {x} /\ x \in Qids /\ Current = queue[x]
             /\ Current \in Seq(Messages) /\ live # {}
  <2>1. (CHOOSE x \in live : TRUE) = q
    BY <1>4
  <2>. QED BY <1>2, <1>4, <2>1 DEF Current
<1>. QED BY <1>1, <1>3, <1>4

LEMMA GetTyped ==
    ASSUME TypedInv, NEW p \in Procs, NEW next \in {"msgsnd", "msgrcv"}, Get(p, next),
           limit' = limit
    PROVE  /\ Emptied' /\ AllCalled' /\ Typed!Attach(p)
<1>. USE DEF TypedInv, ServedInv
<1>1. /\ i' = i /\ queue' = queue /\ received' = received
      /\ pc' = [pc EXCEPT ![p] = next]
      /\ last_qid' = IF live = {} THEN last_qid + 1 ELSE last_qid
      /\ live' = IF live = {} THEN {last_qid'} ELSE live
      /\ qid' = [qid EXCEPT ![p] = CHOOSE q \in live' : TRUE]
  BY DEF Get
<1>2. AllCalled'
  BY <1>1 DEF AllCalled, QueueInv, TypeOK, Procs
<1>3. Emptied'
  BY <1>1 DEF Emptied
<1>4. PICK n \in Qids : live' = {n} /\ queue'[n] = Current
  <2>1. CASE live = {}
    <3>1. last_qid + 1 \in Qids
      BY <2>1, RoomForQid
    <3>. QED BY <1>1, <2>1, <3>1, CurrentIs DEF Emptied
  <2>2. CASE live # {}
    BY <1>1, <2>2, CurrentIs
  <2>. QED BY <2>1, <2>2
<1>5. Current' = Current
  <2>1. (CHOOSE q \in live' : TRUE) = n
    BY <1>4
  <2>. QED BY <1>4, <2>1 DEF Current
<1>6. qid' = [qid EXCEPT ![p] = n] /\ qid \in [Procs -> Qids \cup {0}]
  <2>1. (CHOOSE q \in live' : TRUE) = n
    BY <1>4
  <2>. QED BY <1>1, <2>1 DEF QueueInv, TypeOK
<1>7. ASSUME NEW o \in Procs, o # p  PROVE qid'[o] \in live' <=> qid[o] \in live
  <2>1. qid'[o] = qid[o]
    BY <1>6, <1>7
  <2>2. CASE live # {}
    BY <1>1, <2>1, <2>2
  <2>3. CASE live = {}
    <3>1. Qids \subseteq Nat /\ last_qid \in Nat
      BY FS_CardinalityType, MessageQueueAssumption DEF Qids, QueueInv, TypeOK
    <3>2. qid[o] \in Nat /\ qid[o] <= last_qid
      <4>1. qid[o] \in Qids \cup {0}
        BY <1>6
      <4>2. qid[o] <= last_qid
        BY DEF Made
      <4>3. \A x \in Qids \cup {0} : x \in Nat
        BY <3>1
      <4>. QED BY <4>1, <4>2, <4>3
    <3>3. qid[o] # last_qid + 1
      BY <3>1, <3>2
    <3>. QED BY <1>1, <2>1, <2>3, <3>3
  <2>. QED BY <2>2, <2>3
<1>8. Attached' = Attached \cup {p}
  <2>1. qid'[p] \in live'
    BY <1>4, <1>6
  <2>. QED BY <1>7, <2>1 DEF Attached
<1>9. Offered' = Offered
  BY <1>1 DEF Offered
<1>. QED BY <1>1, <1>2, <1>3, <1>5, <1>8, <1>9 DEF Typed!Attach, Attached, Offered

LEMMA SendTyped ==
    ASSUME TypedInv, NEW s \in Senders, Send(s), limit' = limit
    PROVE  Emptied' /\ AllCalled' /\ Typed!Offer(s)
<1>. USE DEF TypedInv, ServedInv
<1>. DEFINE m == <<sent_types[i[s]], s, i[s]>>
            q == qid[s]
            room == q \in live /\ Len(queue[q]) < limit
<1>0. /\ s \in Procs /\ Turn(s, "msgsnd", "done") /\ received' = received
      /\ room => queue' = [queue EXCEPT ![q] = Append(queue[q], m)]
      /\ ~ room => queue' = queue
  BY DEF Send, Procs
<1>1. /\ i \in [Procs -> 1..(MsgCount + 1)] /\ i[s] \in 1..MsgCount
      /\ i' = [i EXCEPT ![s] = i[s] + 1]
      /\ \E where \in {"msgsnd", "done"} : pc' = [pc EXCEPT ![s] = where]
      /\ qid' = qid /\ live' = live
  <2>1. i \in [Procs -> 1..(MsgCount + 1)]
    BY DEF QueueInv, TypeOK
  <2>2. i[s] \in 1..MsgCount
    BY <1>0, TurnKeeps
  <2>3. \E where \in {"msgsnd", "done"} : pc' = [pc EXCEPT ![s] = where]
    BY <1>0 DEF Turn
  <2>. QED BY <1>0, <2>1, <2>2, <2>3 DEF Turn
<1>2. AllCalled'
  BY <1>1, MessageQueueAssumption DEF AllCalled, QueueInv, TypeOK, Procs
<1>3. /\ queue \in [Qids -> Seq(Messages)]
      /\ room => q \in Qids /\ live = {q} /\ Current = queue[q]
      /\ q \in live => live = {q} /\ Current = queue[q]
  BY CurrentIs DEF QueueInv, TypeOK
<1>. HIDE DEF m
<1>4. Emptied'
  <2>1. CASE room
    <3>1. \A x \in Qids : x # q => queue'[x] = queue[x]
      BY <1>0, <1>3, <2>1
    <3>. QED BY <1>1, <2>1, <3>1 DEF Emptied
  <2>2. CASE ~ room
    BY <1>0, <1>1, <2>2 DEF Emptied
  <2>. QED BY <2>1, <2>2
<1>5. Attached' = Attached /\ received' = received
  BY <1>0, <1>1 DEF Attached
<1>6. /\ Offered[s] + 1 = i[s] /\ Offered' = [Offered EXCEPT ![s] = i[s]]
      /\ i[s] <= Len(sent_types)
  <2>1. Offered[s] = i[s] - 1 /\ \A x \in Senders : Offered'[x] = i'[x] - 1 /\ Offered[x] = i[x] - 1
    BY DEF Offered
  <2>2. i'[s] - 1 = i[s]
    BY <1>0, <1>1
  <2>3. \A x \in Senders : x # s => i'[x] = i[x]
    BY <1>1 DEF Procs
  <2>4. Offered' = [x \in Senders |-> IF x = s THEN i[s] ELSE Offered[x]]
    BY <2>1, <2>2, <2>3 DEF Offered
  <2>5. Offered' = [Offered EXCEPT ![s] = i[s]]
    BY <2>4 DEF Offered
  <2>6. Len(sent_types) = MsgCount
    BY DEF sent_types, MsgCount
  <2>. QED BY <1>1, <2>1, <2>5, <2>6 DEF MsgCount
<1>7. s \in Attached <=> q \in live
  BY <1>0 DEF Attached
<1>8. CASE room
  <2>1. queue'[q] = Append(queue[q], m)
    BY <1>0, <1>3, <1>8
  <2>2. (CHOOSE x \in live' : TRUE) = q /\ live' # {}
    BY <1>1, <1>3, <1>8
  <2>3. Current' = Append(Current, m)
    BY <1>3, <1>8, <2>1, <2>2 DEF Current
  <2>4. s \in Attached /\ Len(Current) < limit
    BY <1>3, <1>7, <1>8
  <2>. QED BY <1>2, <1>4, <1>5, <1>6, <2>3, <2>4 DEF Typed!Offer, Attached, Offered, m
<1>9. CASE ~ room
  <2>1. Current' = Current
    BY <1>0, <1>1, <1>9 DEF Current
  <2>2. ~ (s \in Attached /\ Len(Current) < limit)
    BY <1>3, <1>7, <1>9
  <2>. QED BY <1>2, <1>4, <1>5, <1>6, <2>1, <2>2 DEF Typed!Offer, Attached, Offered
<1>. QED BY <1>8, <1>9

LEMMA ReceiveTyped ==
    ASSUME TypedInv, NEW r \in Receivers, Receive(r), limit' = limit
    PROVE  Emptied' /\ AllCalled' /\ Typed!Call(r)
<1>. USE DEF TypedInv, ServedInv
<1>. DEFINE q == qid[r]
            k == Oldest(Matching(r))
            none == Matching(r) = {}
<1>0. /\ r \in Procs /\ Turn(r, "msgrcv", "msgctl")
      /\ none => Trouble(r)
      /\ ~ none => Take(r, k)
  BY DEF Receive, Procs
<1>1. /\ i \in [Procs -> 1..(MsgCount + 1)] /\ i[r] \in 1..MsgCount
      /\ i' = [i EXCEPT ![r] = i[r] + 1]
      /\ pc' = [pc EXCEPT ![r] = IF i[r] = MsgCount THEN "msgctl" ELSE "msgrcv"]
      /\ qid' = qid /\ live' = live /\ q \in Qids
      /\ Len(received[r]) = i[r] - 1
  BY <1>0 DEF Turn, QueueInv, TypeOK, InLoop, MsgCount
<1>2. AllCalled'
  <2>1. ASSUME NEW t \in Receivers, pc'[t] = "msgctl"  PROVE i'[t] = MsgCount + 1
    <3>1. t \in Procs /\ pc \in [Procs -> {"msgget", "msgsnd", "msgrcv", "msgctl", "done", "failed"}]
      BY DEF QueueInv, TypeOK, Procs
    <3>2. CASE t = r
      BY <1>0, <1>1, <2>1, <3>1, <3>2
    <3>3. CASE t # r
      BY <1>0, <1>1, <2>1, <3>1, <3>3 DEF AllCalled
    <3>. QED BY <3>2, <3>3
  <2>. QED BY <2>1 DEF AllCalled
<1>3. /\ queue \in [Qids -> Seq(Messages)]
      /\ q \in live => live = {q} /\ Current = queue[q]
      /\ Current \in Seq(Messages)
  BY CurrentIs DEF QueueInv, TypeOK
<1>4. Attached' = Attached /\ Offered' = Offered
  <2>1. Attached' = Attached
    BY <1>1 DEF Attached
  <2>2. \A x \in Senders : i'[x] = i[x]
    BY <1>1, MessageQueueAssumption DEF Procs
  <2>3. Offered' = Offered
    BY <2>2 DEF Offered
  <2>. QED BY <2>1, <2>3
<1>5. r \in Attached <=> q \in live
  BY <1>0 DEF Attached
<1>6. Typed!Wanted(r) = Matching(r)
  <2>1. Len(received[r]) + 1 = i[r]
    BY <1>1
  <2>2. CASE q \in live
    <3>1. DOMAIN Current = 1..Len(queue[q]) /\ Current = queue[q] /\ r \in Attached
      BY <1>3, <1>5, <2>2
    <3>. QED BY <2>1, <2>2, <3>1 DEF Typed!Wanted, Matching, Attached
  <2>3. CASE q \notin live
    BY <1>5, <2>3 DEF Typed!Wanted, Matching, Attached
  <2>. QED BY <2>2, <2>3
<1>7. Len(received[r]) < Len(wanted_types)
  <2>1. Len(wanted_types) = MsgCount
    BY DEF wanted_types, MsgCount
  <2>. QED BY <1>1, <2>1 DEF MsgCount
<1>8. CASE none
  <2>1. queue' = queue /\ received' = [received EXCEPT ![r] = Append(received[r], Nothing)]
    BY <1>0, <1>8 DEF Trouble
  <2>2. Current' = Current
    BY <1>1, <2>1 DEF Current
  <2>3. Emptied'
    BY <1>1, <2>1 DEF Emptied
  <2>4. Typed!Fail(r)
    BY <1>6, <1>8, <2>1, <2>2 DEF Typed!Fail
  <2>. QED BY <1>2, <1>4, <1>7, <2>3, <2>4 DEF Typed!Call, Attached, Offered
<1>9. CASE ~ none
  <2>1. Matching(r) \subseteq Nat
    BY DEF Matching
  <2>2. k \in Matching(r) /\ \A l \in Matching(r) : k <= l
    BY <1>9, <2>1, OldestOf
  <2>3. q \in live /\ k \in 1..Len(queue[q])
    BY <2>2 DEF Matching
  <2>. DEFINE rest == SubSeq(queue[q], 1, k - 1) \o SubSeq(queue[q], k + 1, Len(queue[q]))
  <2>4. /\ received' = [received EXCEPT ![r] = Append(received[r], queue[q][k])]
        /\ queue' = [queue EXCEPT ![q] = rest]
    BY <1>0, <1>9 DEF Take
  <2>. HIDE DEF rest, k
  <2>5. queue'[q] = rest /\ \A x \in Qids : x # q => queue'[x] = queue[x]
    BY <1>1, <1>3, <2>4
  <2>6. (CHOOSE x \in live' : TRUE) = q /\ live' # {}
    BY <1>1, <1>3, <2>3
  <2>7. Current' = rest /\ Current = queue[q]
    BY <1>3, <2>3, <2>5, <2>6 DEF Current
  <2>8. Emptied'
    BY <1>1, <2>3, <2>5 DEF Emptied
  <2>9. Typed!TakeOldest(r, k)
    BY <1>6, <2>2, <2>4, <2>7 DEF Typed!TakeOldest, rest
  <2>10. k \in DOMAIN Current
    BY <1>3, <2>3
  <2>. QED BY <1>2, <1>4, <1>7, <2>8, <2>9, <2>10 DEF Typed!Call, Attached, Offered
<1>. QED BY <1>8, <1>9

\* Without a queue of its own, msgctl does nothing.
LEMMA RemoveTyped ==
    ASSUME TypedInv, NEW r \in Receivers, Remove(r), limit' = limit
    PROVE  /\ Emptied' /\ AllCalled'
           /\ \/ Typed!Remove(r)
              \/ UNCHANGED <<limit, Attached, Current, Offered, received>>
<1>. USE DEF TypedInv, ServedInv
<1>. DEFINE q == qid[r]
<1>1. /\ pc[r] = "msgctl" /\ live' = live \ {q} /\ r \in Procs
      /\ i' = i /\ qid' = qid /\ received' = received
      /\ q \in live => queue' = [queue EXCEPT ![q] = << >>]
      /\ q \notin live => queue' = queue
      /\ \E end \in {"done", "failed"} : pc' = [pc EXCEPT ![r] = end]
  BY DEF Remove, Procs
<1>2. AllCalled'
  BY <1>1 DEF AllCalled, QueueInv, TypeOK, Procs
<1>3. Offered' = Offered
  BY <1>1 DEF Offered
<1>4. CASE q \in live
  <2>1. live = {q} /\ q \in Qids /\ queue \in [Qids -> Seq(Messages)]
    BY <1>4, CurrentIs DEF QueueInv, TypeOK
  <2>2. live' = {} /\ Attached' = {} /\ Current' = << >>
    BY <1>1, <2>1 DEF Attached, Current
  <2>3. Emptied'
    BY <1>1, <1>4, <2>1 DEF Emptied
  <2>4. Len(received[r]) = Len(wanted_types)
    <3>1. Len(received[r]) = i[r] - 1 /\ i[r] = MsgCount + 1
      BY <1>1 DEF AllCalled, QueueInv, InLoop
    <3>2. Len(wanted_types) = MsgCount
      BY DEF wanted_types, MsgCount
    <3>. QED BY <3>1, <3>2 DEF MsgCount
  <2>5. r \in Attached
    BY <1>1, <1>4 DEF Attached
  <2>6. Typed!Remove(r)
    BY <1>1, <1>3, <2>2, <2>4, <2>5 DEF Typed!Remove, Attached, Offered
  <2>. QED BY <1>2, <2>3, <2>6
<1>5. CASE q \notin live
  <2>1. live' = live /\ queue' = queue
    BY <1>1, <1>5
  <2>2. Emptied'
    BY <2>1 DEF Emptied
  <2>3. Attached' = Attached
    BY <1>1, <2>1 DEF Attached
  <2>4. Current' = Current
    BY <2>1 DEF Current
  <2>. QED BY <1>1, <1>2, <1>3, <2>2, <2>3, <2>4
<1>. QED BY <1>4, <1>5

LEMMA NextTyped ==
    ASSUME TypedInv, Next
    PROVE  /\ Emptied' /\ AllCalled'
           /\ Typed!Next \/ UNCHANGED <<limit, Attached, Current, Offered, received>>
<1>0. limit' = limit
  BY DEF Next
<1>1. ASSUME NEW s \in Senders, SenderGet(s)
      PROVE  Emptied' /\ AllCalled' /\ Typed!Next
  <2>1. Emptied' /\ AllCalled' /\ Typed!Attach(s)
    BY <1>0, <1>1, GetTyped DEF SenderGet, Procs
  <2>. QED BY <1>0, <2>1, Zenon DEF Typed!Next
<1>2. ASSUME NEW s \in Senders, Send(s)
      PROVE  Emptied' /\ AllCalled' /\ Typed!Next
  <2>1. Emptied' /\ AllCalled' /\ Typed!Offer(s)
    BY <1>0, <1>2, SendTyped
  <2>. QED BY <1>0, <2>1, Zenon DEF Typed!Next
<1>3. ASSUME NEW r \in Receivers, ReceiverGet(r)
      PROVE  Emptied' /\ AllCalled' /\ Typed!Next
  <2>1. Emptied' /\ AllCalled' /\ Typed!Attach(r)
    BY <1>0, <1>3, GetTyped DEF ReceiverGet, Procs
  <2>. QED BY <1>0, <2>1, Zenon DEF Typed!Next
<1>4. ASSUME NEW r \in Receivers, Receive(r)
      PROVE  Emptied' /\ AllCalled' /\ Typed!Next
  <2>1. Emptied' /\ AllCalled' /\ Typed!Call(r)
    BY <1>0, <1>4, ReceiveTyped
  <2>. QED BY <1>0, <2>1, Zenon DEF Typed!Next
<1>5. ASSUME NEW r \in Receivers, Remove(r)
      PROVE  /\ Emptied' /\ AllCalled'
             /\ Typed!Next \/ UNCHANGED <<limit, Attached, Current, Offered, received>>
  <2>1. /\ Emptied' /\ AllCalled'
        /\ Typed!Remove(r) \/ UNCHANGED <<limit, Attached, Current, Offered, received>>
    BY <1>0, <1>5, RemoveTyped
  <2>. QED BY <1>0, <2>1, Zenon DEF Typed!Next
<1>. QED BY <1>1, <1>2, <1>3, <1>4, <1>5 DEF Next

\* To its users the queues of the key are one: a call brings the oldest message of
\* its type or finds none, and an identifier that is out of date leads nowhere
\* (sender.c:16-33, receiver.c:14-36).
THEOREM ImplementsTypedQueue == Spec => IsTypedQueue
<1>1. Init => Emptied /\ AllCalled /\ Typed!Init
  <2>. SUFFICES ASSUME Init PROVE Emptied /\ AllCalled /\ Typed!Init
    OBVIOUS
  <2>1. Emptied /\ AllCalled
    BY DEF Init, Emptied, AllCalled, Procs
  <2>2. limit \in Nat /\ received = [r \in Receivers |-> << >>]
    BY MessageQueueAssumption DEF Init
  <2>3. {p \in Procs : qid[p] \in live} = {} /\ Current = << >>
    BY DEF Init, Current
  <2>4. [s \in Senders |-> i[s] - 1] = [s \in Senders |-> 0]
    BY DEF Init, Procs
  <2>. QED BY <2>1, <2>2, <2>3, <2>4 DEF Typed!Init
<1>2. TypedInv /\ [Next]_vars
        => /\ (Emptied /\ AllCalled)'
           /\ [Typed!Next]_<<limit, Attached, Current, Offered, received>>
  <2>1. ASSUME TypedInv, UNCHANGED vars
        PROVE  /\ Emptied' /\ AllCalled'
               /\ UNCHANGED <<limit, Attached, Current, Offered, received>>
    BY <2>1 DEF vars, TypedInv, Emptied, AllCalled, Attached, Current, Offered
  <2>. QED BY <2>1, NextTyped
<1>3. ServedInv /\ Emptied /\ AllCalled <=> TypedInv
  BY DEF TypedInv
<1>. QED BY <1>1, <1>2, <1>3, ServedInvHolds, PTL DEF Spec, IsTypedQueue, Typed!Spec, Attached, Offered
=============================================================================
