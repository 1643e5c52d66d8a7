--------------------------- MODULE Python_proofs ---------------------------
(***************************************************************************)
(* Proofs about the two Python programs.  BoxServer, for any tasks,        *)
(* heartbeats and requests: its type invariant, that the entries of a      *)
(* heartbeat are judged by the last one about their task, and that what is *)
(* answered or listed is stored.  AssetLibrary, for any assets and         *)
(* records: a command that ends normally has done its work, and one with   *)
(* --copy repairs what others left.                                        *)
(***************************************************************************)
EXTENDS BoxServer, AssetLibrary, TLAPS

\* The last heartbeat is the one whose entries are kept, and the entries gone
\* through have been come to.
ReceivedInStep ==
    /\ IF received = << >> THEN taskInfo = << >> ELSE taskInfo = received[Len(received)]
    /\ pc = "heartbeat" => received # << >> /\ 1..done \subseteq ComeTo(taskInfo)

\* The places before an entry of the last heartbeat.
Earlier(k) == {p \in Places : Before(p, <<Len(received), k>>)}

\* The places whose entries are recorded by now.
Passed == IF pc = "heartbeat" THEN Earlier(done + 1) ELSE Places

\* A task's recorded time is that of its last entry so far.
MemoryInStep ==
    pc # "stopped" => \A task \in Tasks : IsLastTime(taskUpdateInfo_[task], task, Passed)

\* What the property says, for the entries gone through so far.
ReportedInStep ==
    pc # "stopped" =>
        \A k \in DOMAIN taskInfo :
            k \in reported <=>
              /\ k \in ComeTo(taskInfo)
              /\ pc = "heartbeat" => k <= done
              /\ IsLastTime(taskInfo[k].lastUpdateTime, taskInfo[k].taskId, Earlier(k))

\* What a request has got done by the step the server is at.
RequestInStep ==
    /\ pc \in {"idle", "stopped", "heartbeat"} => request = {}
    /\ pc \in {"store", "write", "answer"} => (\E r \in Stores : request = {r}) /\ requests > 0
    /\ \A r \in request :
         /\ pc = "write" => done < Len(r.files)
         /\ pc = "answer" => done = Len(r.files) /\ r.line \X {requests} \subseteq meta_data
         /\ \A k \in 1..done :
              \/ images[r.files[k]] = requests
              \/ pc = "write" /\ r.files[k] = r.files[done + 1] /\ images[r.files[k]] = Empty

\* No number is ahead of the request at hand.
Numbered == /\ \A a \in answered : a[2] <= requests
            /\ \A line \in meta_data : line[2] <= requests

\* The two halves of the invariant: heartbeats and files.
HeartbeatInv == ReceivedInStep /\ MemoryInStep /\ ReportedInStep
StoreInv == RequestInStep /\ Numbered /\ StoredInOrder

\* The inductive invariant.
BoxInv == TypeOK /\ HeartbeatInv /\ StoreInv

-----------------------------------------------------------------------------
\* The entries of a heartbeat.
LEMMA HeartbeatIs ==
    ASSUME NEW h \in Heartbeats
    PROVE  /\ Len(h) \in Nat /\ DOMAIN h = 1..Len(h)
           /\ \A k \in DOMAIN h : h[k].lastUpdateTime \in 0..MaxTime
           /\ ComeTo(h) \subseteq 1..Len(h)
<1>. DEFINE Entries == [taskId : Tasks \cup Unknown, lastUpdateTime : 0..MaxTime]
<1>1. h \in Seq(Entries)
  BY BoxServerAssumption
<1>2. \A e \in Entries : e.lastUpdateTime \in 0..MaxTime
  OBVIOUS
<1>. HIDE DEF Entries
<1>3. /\ Len(h) \in Nat /\ DOMAIN h = 1..Len(h)
      /\ \A k \in DOMAIN h : h[k].lastUpdateTime \in 0..MaxTime
  BY <1>1, <1>2
<1>. QED BY <1>3 DEF ComeTo

\* The bounds, and what is asked to be stored.
LEMMA BoundsAre ==
    /\ MaxTime \in Nat /\ MaxRequests \in Nat /\ MaxInterrupts \in Nat
    /\ \A r \in Stores : r.files \in Seq(Names) /\ r.fails_after \in Nat
    /\ \A r, s \in Stores : r.line \cap Range(s.files) \subseteq Range(r.files)
BY BoxServerAssumption

\* Places are pairs of a heartbeat and a position in it.
LEMMA PlacesAre ==
    ASSUME TypeOK
    PROVE  /\ Len(received) \in Nat
           /\ \A n \in 1..Len(received) : received[n] \in Heartbeats
           /\ \A p \in Places : /\ p = <<p[1], p[2]>>
                                /\ p[1] \in 1..Len(received) /\ p[2] \in Nat \ {0}
                                /\ p[2] \in ComeTo(received[p[1]])
           /\ \A n \in 1..Len(received) : \A k \in ComeTo(received[n]) : <<n, k>> \in Places
<1>1. /\ Len(received) \in Nat /\ DOMAIN received = 1..Len(received)
      /\ \A n \in 1..Len(received) : received[n] \in Heartbeats
  BY DEF TypeOK
<1>2. ASSUME NEW n \in 1..Len(received), NEW k \in ComeTo(received[n])
      PROVE  k \in Nat \ {0} /\ <<n, k>> \in Places
  <2>1. k \in 1..Len(received[n]) /\ Len(received[n]) \in Nat
    BY <1>1, HeartbeatIs
  <2>2. <<n, k>> \in Places
    BY <1>1 DEF Places
  <2>. QED BY <2>1, <2>2
<1>3. ASSUME NEW p \in Places
      PROVE  /\ p = <<p[1], p[2]>> /\ p[1] \in 1..Len(received)
             /\ p[2] \in ComeTo(received[p[1]])
  BY <1>1 DEF Places
<1>. QED BY <1>1, <1>2, <1>3

\* There is one last time at most.
LEMMA LastTimeIsOne ==
    ASSUME NEW places, \A p \in places : p[1] \in Int /\ p[2] \in Int,
           NEW task, NEW a, NEW b,
           IsLastTime(a, task, places), IsLastTime(b, task, places)
    PROVE  a = b
<1>. DEFINE about == {p \in places : EntryAt(p).taskId = task}
<1>1. CASE about = {}
  BY <1>1 DEF IsLastTime
<1>2. CASE about # {}
  <2>1. PICK p \in about : /\ EntryAt(p).lastUpdateTime = a
                           /\ \A q \in about \ {p} : Before(q, p)
    BY <1>2 DEF IsLastTime
  <2>2. PICK q \in about : /\ EntryAt(q).lastUpdateTime = b
                           /\ \A o \in about \ {q} : Before(o, q)
    BY <1>2 DEF IsLastTime
  <2>3. p = q
    <3>1. SUFFICES ASSUME p # q PROVE FALSE
      OBVIOUS
    <3>2. Before(q, p) /\ Before(p, q)
      BY <2>1, <2>2, <3>1
    <3>3. p[1] \in Int /\ p[2] \in Int /\ q[1] \in Int /\ q[2] \in Int
      OBVIOUS
    <3>. QED BY <3>2, <3>3 DEF Before
  <2>. QED BY <2>1, <2>2, <2>3
<1>. QED BY <1>1, <1>2

\* Places that are not about a task make no difference.
LEMMA LastTimeOfOthers ==
    ASSUME NEW places, NEW here, NEW task, NEW time,
           IsLastTime(time, task, places), EntryAt(here).taskId # task
    PROVE  IsLastTime(time, task, places \cup {here})
<1>1. {p \in places \cup {here} : EntryAt(p).taskId = task}
        = {p \in places : EntryAt(p).taskId = task}
  OBVIOUS
<1>. QED BY <1>1 DEF IsLastTime

\* An entry behind all others is the last one about its task.
LEMMA LastTimeHere ==
    ASSUME NEW places, NEW here, \A p \in places : Before(p, here)
    PROVE  IsLastTime(EntryAt(here).lastUpdateTime, EntryAt(here).taskId, places \cup {here})
<1>. DEFINE about == {p \in places \cup {here} : EntryAt(p).taskId = EntryAt(here).taskId}
<1>1. here \in about /\ \A q \in about \ {here} : Before(q, here)
  OBVIOUS
<1>. QED BY <1>1 DEF IsLastTime

\* The entry a heartbeat is at: what is recorded is all that stands before it.
LEMMA AtEntry ==
    ASSUME TypeOK, ReceivedInStep, pc = "heartbeat"
    PROVE  /\ Len(received) \in Nat \ {0} /\ taskInfo = received[Len(received)]
           /\ taskInfo \in Heartbeats /\ DOMAIN taskInfo = 1..Len(taskInfo)
           /\ Len(taskInfo) \in Nat /\ done \in 0..Len(taskInfo)
           /\ \A p \in Places : p[1] = Len(received) => p[2] \in ComeTo(taskInfo)
<1>1. received # << >> /\ taskInfo = received[Len(received)]
  BY DEF ReceivedInStep
<1>2. Len(received) \in Nat \ {0}
  BY <1>1 DEF TypeOK
<1>3. taskInfo \in Heartbeats /\ done \in 0..Len(taskInfo)
  BY <1>1, <1>2, PlacesAre DEF TypeOK
<1>. QED BY <1>1, <1>2, <1>3, HeartbeatIs, PlacesAre

-----------------------------------------------------------------------------
\* A new heartbeat: nothing of it is recorded or reported yet.
LEMMA HeartbeatKeeps ==
    ASSUME BoxInv, NEW h \in Heartbeats, CheckHeartbeat(h)
    PROVE  BoxInv'
<1>. USE DEF BoxInv, HeartbeatInv
<1>0. /\ pc = "idle" /\ pc' = "heartbeat" /\ done' = 0 /\ reported' = {} /\ taskInfo' = h
      /\ received' = Append(received, h) /\ received \in Seq(Heartbeats)
      /\ taskUpdateInfo_' = taskUpdateInfo_ /\ request' = request
  BY DEF CheckHeartbeat, Arrives, TypeOK
<1>1. TypeOK'
  <2>1. Len(h) \in Nat /\ received' \in Seq(Heartbeats)
    BY <1>0, HeartbeatIs
  <2>. QED BY <1>0, <2>1, BoundsAre DEF TypeOK, CheckHeartbeat, Arrives, disk, RequestInStep, StoreInv
<1>2. /\ Len(received') = Len(received) + 1 /\ Len(received) \in Nat
      /\ received'[Len(received) + 1] = h
      /\ \A n \in 1..Len(received) : received'[n] = received[n]
  BY <1>0
<1>3. Passed' = Places
  <2>1. Passed' = {p \in Places' : Before(p, <<Len(received) + 1, 1>>)}
    BY <1>0, <1>2 DEF Passed, Earlier
  <2>2. ASSUME NEW p \in Places PROVE p \in Passed'
    <3>1. /\ p = <<p[1], p[2]>> /\ p[1] \in 1..Len(received)
          /\ p[2] \in ComeTo(received[p[1]])
      BY PlacesAre
    <3>2. p[1] \in 1..Len(received') /\ p[2] \in ComeTo(received'[p[1]])
      BY <1>2, <3>1
    <3>3. p \in Places'
      <4>1. DOMAIN received' = 1..Len(received')
        BY <1>1 DEF TypeOK
      <4>. QED BY <3>1, <3>2, <4>1 DEF Places, ComeTo
    <3>. QED BY <1>2, <2>1, <3>1, <3>3 DEF Before
  <2>3. ASSUME NEW p \in Passed' PROVE p \in Places
    <3>1. p \in Places' /\ Before(p, <<Len(received) + 1, 1>>)
      BY <2>1
    <3>2. /\ p = <<p[1], p[2]>> /\ p[1] \in 1..(Len(received) + 1) /\ p[2] \in Nat \ {0}
          /\ p[2] \in ComeTo(received'[p[1]])
      <4>1. DOMAIN received' = 1..(Len(received) + 1)
        BY <1>1, <1>2 DEF TypeOK
      <4>2. /\ p = <<p[1], p[2]>> /\ p[1] \in 1..(Len(received) + 1)
            /\ p[2] \in ComeTo(received'[p[1]])
        BY <3>1, <4>1 DEF Places, ComeTo
      <4>3. received'[p[1]] \in Heartbeats
        BY <1>0, <1>2, <4>2
      <4>4. p[2] \in 1..Len(received'[p[1]]) /\ Len(received'[p[1]]) \in Nat
        BY <4>2, <4>3, HeartbeatIs
      <4>. QED BY <4>2, <4>4
    <3>3. p[1] \in 1..Len(received)
      BY <1>2, <3>1, <3>2 DEF Before
    <3>. QED BY <1>2, <3>2, <3>3, PlacesAre
  <2>. QED BY <2>2, <2>3
<1>4. \A p \in Places : EntryAt(p)' = EntryAt(p)
  BY <1>2, PlacesAre DEF EntryAt
<1>5. ReceivedInStep'
  BY <1>0, <1>2 DEF ReceivedInStep
<1>6. MemoryInStep'
  <2>. SUFFICES ASSUME NEW task \in Tasks
                PROVE  IsLastTime(taskUpdateInfo_[task], task, Passed)'
    BY DEF MemoryInStep
  <2>1. IsLastTime(taskUpdateInfo_[task], task, Places)
    BY <1>0 DEF MemoryInStep, Passed
  <2>2. {p \in Passed' : EntryAt(p)'.taskId = task} = {p \in Places : EntryAt(p).taskId = task}
    BY <1>3, <1>4
  <2>. QED BY <1>0, <1>4, <2>1, <2>2 DEF IsLastTime
<1>7. ReportedInStep'
  <2>1. DOMAIN h = 1..Len(h) /\ Len(h) \in Nat
    BY HeartbeatIs
  <2>. QED BY <1>0, <2>1 DEF ReportedInStep
<1>8. StoreInv'
  BY BoundsAre DEF TypeOK, CheckHeartbeat, Arrives, disk, StoreInv, RequestInStep, Numbered,
                   StoredInOrder, Holds
<1>. QED BY <1>1, <1>5, <1>6, <1>7, <1>8

\* The next entry is judged by what is recorded, which is its task's last time,
\* and recorded in its turn.
LEMMA JudgeKeeps ==
    ASSUME BoxInv, NextEntry, JudgeEntry(taskInfo[done + 1])
    PROVE  BoxInv'
<1>. USE DEF BoxInv, HeartbeatInv
<1>. DEFINE here == <<Len(received), done + 1>>
            e == taskInfo[done + 1]
<1>0. /\ pc = "heartbeat" /\ done < Len(taskInfo) /\ pc' = pc /\ done' = done + 1
      /\ e.taskId \in Tasks /\ taskUpdateInfo_' = Record(e)
      /\ reported' = IF e.lastUpdateTime = taskUpdateInfo_[e.taskId]
                       THEN reported \cup {done + 1} ELSE reported
      /\ taskInfo' = taskInfo /\ received' = received
      /\ UNCHANGED <<request, disk, answered, requests, interrupts>>
  BY DEF NextEntry, JudgeEntry
<1>1. /\ Len(received) \in Nat \ {0} /\ taskInfo = received[Len(received)]
      /\ taskInfo \in Heartbeats /\ DOMAIN taskInfo = 1..Len(taskInfo)
      /\ Len(taskInfo) \in Nat /\ done \in 0..Len(taskInfo) /\ done + 1 \in DOMAIN taskInfo
      /\ taskUpdateInfo_ \in [Tasks -> 0..MaxTime]
  BY <1>0, AtEntry DEF TypeOK
<1>2. e.lastUpdateTime \in 0..MaxTime
  BY <1>1, HeartbeatIs
<1>3. EntryAt(here) = e
  BY <1>1 DEF EntryAt
<1>4. 1..(done + 1) \subseteq ComeTo(taskInfo)
  <2>1. \A l \in 1..(done + 1) : l \in DOMAIN taskInfo /\ taskInfo[l].taskId \in Tasks
    <3>1. 1..done \subseteq ComeTo(taskInfo)
      BY <1>0 DEF ReceivedInStep
    <3>2. \A l \in 1..done : l \in DOMAIN taskInfo /\ taskInfo[l].taskId \in Tasks
      <4>1. ASSUME NEW l \in 1..done PROVE l \in DOMAIN taskInfo /\ taskInfo[l].taskId \in Tasks
        <5>1. l \in DOMAIN taskInfo /\ \A j \in 1..l : taskInfo[j].taskId \in Tasks
          BY <3>1 DEF ComeTo
        <5>2. l \in 1..l
          BY <1>1
        <5>. QED BY <5>1, <5>2
      <4>. QED BY <4>1
    <3>3. \A l \in 1..(done + 1) : l \in 1..done \/ l = done + 1
      BY <1>1
    <3>. QED BY <1>0, <1>1, <3>2, <3>3
  <2>2. ASSUME NEW k \in 1..(done + 1) PROVE \A l \in 1..k : l \in 1..(done + 1)
    BY <1>1
  <2>. QED BY <2>1, <2>2 DEF ComeTo
<1>5. here \in Places
  BY <1>1, <1>4, PlacesAre
<1>6. /\ Passed = Earlier(done + 1) /\ Passed \subseteq Places
      /\ \A p \in Passed : Before(p, here) /\ p[1] \in Int /\ p[2] \in Int
  BY <1>0, PlacesAre DEF Passed, Earlier
<1>7. Passed' = Passed \cup {here}
  <2>1. Places' = Places
    BY <1>0 DEF Places
  <2>2. Passed' = {p \in Places : Before(p, <<Len(received), done + 2>>)}
    BY <1>0, <1>1, <2>1 DEF Passed, Earlier
  <2>3. ASSUME NEW p \in Places
        PROVE  Before(p, <<Len(received), done + 2>>) <=> p = here \/ Before(p, here)
    <3>1. p = <<p[1], p[2]>> /\ p[1] \in Nat /\ p[2] \in Nat
      BY PlacesAre
    <3>. QED BY <1>1, <3>1 DEF Before
  <2>. QED BY <1>5, <1>6, <2>2, <2>3 DEF Earlier
<1>8. MemoryInStep'
  <2>. HIDE DEF e, here
  <2>1. ASSUME NEW task \in Tasks
        PROVE  IsLastTime(Record(e)[task], task, Passed \cup {here})
    <3>1. CASE task = e.taskId
      <4>1. Record(e)[task] = e.lastUpdateTime
        BY <1>1, <3>1 DEF Record
      <4>. QED BY <1>3, <1>6, <3>1, <4>1, LastTimeHere
    <3>2. CASE task # e.taskId
      <4>1. Record(e)[task] = taskUpdateInfo_[task]
        BY <1>1, <3>2 DEF Record
      <4>2. IsLastTime(taskUpdateInfo_[task], task, Passed)
        BY <1>0 DEF MemoryInStep
      <4>. QED BY <1>3, <3>2, <4>1, <4>2, LastTimeOfOthers
    <3>. QED BY <3>1, <3>2
  <2>. QED BY <1>0, <1>7, <2>1 DEF MemoryInStep, IsLastTime, EntryAt
<1>9. ReportedInStep'
  <2>. HIDE DEF e, here
  <2>1. ASSUME NEW k \in DOMAIN taskInfo
        PROVE  k \in reported' <=>
                 /\ k \in ComeTo(taskInfo)
                 /\ k <= done + 1
                 /\ IsLastTime(taskInfo[k].lastUpdateTime, taskInfo[k].taskId, Earlier(k))
    <3>0. k \in Nat
      BY <1>1
    <3>1. k \in reported <=>
              /\ k \in ComeTo(taskInfo)
              /\ k <= done
              /\ IsLastTime(taskInfo[k].lastUpdateTime, taskInfo[k].taskId, Earlier(k))
      BY <1>0 DEF ReportedInStep
    <3>2. CASE k # done + 1
      BY <1>0, <1>1, <3>0, <3>1, <3>2
    <3>3. CASE k = done + 1
      <4>1. k \notin reported /\ k \in ComeTo(taskInfo) /\ k \in 1..(done + 1)
        BY <1>1, <1>4, <3>1, <3>3
      <4>2. k \in reported' <=> e.lastUpdateTime = taskUpdateInfo_[e.taskId]
        BY <1>0, <3>3, <4>1
      <4>3. IsLastTime(taskUpdateInfo_[e.taskId], e.taskId, Passed)
        BY <1>0 DEF MemoryInStep
      <4>4. IsLastTime(e.lastUpdateTime, e.taskId, Passed)
              <=> e.lastUpdateTime = taskUpdateInfo_[e.taskId]
        BY <1>6, <4>3, LastTimeIsOne
      <4>. QED BY <1>1, <1>6, <3>3, <4>1, <4>2, <4>4 DEF e
    <3>. QED BY <3>2, <3>3
  <2>2. \A k : Earlier(k)' = Earlier(k)
    BY <1>0 DEF Earlier, Places
  <2>. QED BY <1>0, <2>1, <2>2 DEF ReportedInStep, IsLastTime, EntryAt
<1>10. ReceivedInStep'
  BY <1>0, <1>4 DEF ReceivedInStep, ComeTo
<1>11. TypeOK'
  <2>. HIDE DEF e
  <2>1. Record(e) \in [Tasks -> 0..MaxTime]
    BY <1>1, <1>2 DEF Record
  <2>2. request = {}
    BY <1>0 DEF StoreInv, RequestInStep
  <2>3. reported' \subseteq DOMAIN taskInfo
    BY <1>0, <1>1 DEF TypeOK
  <2>4. done + 1 \in 0..Len(taskInfo)
    BY <1>0, <1>1
  <2>. QED BY <1>0, <2>1, <2>2, <2>3, <2>4 DEF TypeOK, disk
<1>12. StoreInv'
  <2>1. request = {} /\ request' = {}
    BY <1>0 DEF StoreInv, RequestInStep
  <2>. QED BY <1>0, <2>1 DEF StoreInv, RequestInStep, Numbered, StoredInOrder, Holds, disk
<1>. QED BY <1>8, <1>9, <1>10, <1>11, <1>12

\* The end of a heartbeat, and an unknown task: all entries that were come to
\* have been gone through.
LEMMA HeartbeatEndKeeps ==
    ASSUME BoxInv,
           HeartbeatEnds \/ (NextEntry /\ UnknownTask(taskInfo[done + 1]))
    PROVE  BoxInv'
<1>. USE DEF BoxInv, HeartbeatInv
<1>0. /\ pc = "heartbeat" /\ pc' = "idle" /\ done' = done
      /\ \/ done = Len(taskInfo)
         \/ done < Len(taskInfo) /\ taskInfo[done + 1].taskId \notin Tasks
      /\ UNCHANGED <<memory, request, disk, answered, requests, interrupts>>
  BY DEF HeartbeatEnds, NextEntry, UnknownTask, memory
<1>1. /\ Len(received) \in Nat \ {0} /\ taskInfo = received[Len(received)]
      /\ taskInfo \in Heartbeats /\ DOMAIN taskInfo = 1..Len(taskInfo)
      /\ Len(taskInfo) \in Nat /\ done \in 0..Len(taskInfo)
      /\ \A p \in Places : p[1] = Len(received) => p[2] \in ComeTo(taskInfo)
  BY <1>0, AtEntry
<1>2. \A k \in ComeTo(taskInfo) : k \in Nat /\ k <= done
  <2>1. ASSUME NEW k \in ComeTo(taskInfo) PROVE k \in Nat /\ k <= done
    <3>1. k \in 1..Len(taskInfo) /\ \A l \in 1..k : taskInfo[l].taskId \in Tasks
      BY <1>1 DEF ComeTo
    <3>2. k >= done + 1 => done + 1 \in 1..k
      BY <1>1, <3>1
    <3>. QED BY <1>0, <1>1, <3>1, <3>2
  <2>. QED BY <2>1
<1>3. Passed = Places
  <2>1. ASSUME NEW p \in Places PROVE Before(p, <<Len(received), done + 1>>)
    <3>1. p[1] \in 1..Len(received) /\ p[2] \in Nat
      BY PlacesAre
    <3>2. p[1] = Len(received) => p[2] <= done
      BY <1>1, <1>2
    <3>. QED BY <1>1, <3>1, <3>2 DEF Before
  <2>. QED BY <1>0, <2>1 DEF Passed, Earlier
<1>4. ReceivedInStep'
  BY <1>0 DEF ReceivedInStep, memory
<1>5. MemoryInStep'
  <2>1. Passed' = Places
    BY <1>0 DEF Passed, Places, memory, ComeTo
  <2>. QED BY <1>0, <1>3, <2>1 DEF MemoryInStep, IsLastTime, EntryAt, memory
<1>6. ReportedInStep'
  <2>1. \A k : Earlier(k)' = Earlier(k)
    BY <1>0 DEF Earlier, Places, memory
  <2>. QED BY <1>0, <1>2, <2>1 DEF ReportedInStep, IsLastTime, EntryAt, memory
<1>7. TypeOK'
  <2>1. request = {}
    BY <1>0 DEF StoreInv, RequestInStep
  <2>. QED BY <1>0, <2>1 DEF TypeOK, memory, disk
<1>8. StoreInv'
  <2>1. request = {} /\ request' = {}
    BY <1>0 DEF StoreInv, RequestInStep
  <2>. QED BY <1>0, <2>1 DEF StoreInv, RequestInStep, Numbered, StoredInOrder, Holds, disk
<1>. QED BY <1>4, <1>5, <1>6, <1>7, <1>8

\* Steps that are about no heartbeat leave the memory as it is; nothing is
\* claimed of it while the program is stopped.
LEMMA HeartbeatInvStays ==
    ASSUME HeartbeatInv, UNCHANGED memory, pc # "heartbeat", pc' # "heartbeat",
           pc = "stopped" => pc' = "stopped"
    PROVE  HeartbeatInv'
<1>. USE DEF HeartbeatInv
<1>1. ReceivedInStep'
  BY DEF ReceivedInStep, memory
<1>2. MemoryInStep'
  BY DEF MemoryInStep, IsLastTime, EntryAt, Passed, Places, memory
<1>3. ReportedInStep'
  <2>1. \A k : Earlier(k)' = Earlier(k)
    BY DEF Earlier, Places, memory
  <2>. QED BY <2>1 DEF ReportedInStep, IsLastTime, EntryAt, memory
<1>. QED BY <1>1, <1>2, <1>3

-----------------------------------------------------------------------------
\* The files and lines of a request are among the names.
LEMMA NamesOfRequest ==
    ASSUME NEW r \in Stores
    PROVE  /\ r.files \in Seq(Names) /\ Len(r.files) \in Nat /\ r.fails_after \in Nat
           /\ \A k \in 1..Len(r.files) : r.files[k] \in Names
           /\ Range(r.files) \subseteq Names
           /\ r.line \subseteq Names
<1>1. r.files \in Seq(Names) /\ r.fails_after \in Nat
  BY BoundsAre
<1>2. Range(r.files) \cup r.line \subseteq Names
  BY DEF Names
<1>3. Len(r.files) \in Nat /\ \A k \in 1..Len(r.files) : r.files[k] \in Names
  BY <1>1
<1>. QED BY <1>1, <1>2, <1>3

\* A new request finds the server idle and becomes the last one.
LEMMA ReceiveKeeps ==
    ASSUME BoxInv, NEW r \in Stores, Receive(r)
    PROVE  BoxInv'
<1>. USE BoundsAre, NamesOfRequest DEF BoxInv, StoreInv, Receive, Arrives, disk
<1>1. TypeOK'
  BY DEF TypeOK, memory
<1>2. HeartbeatInv'
  BY HeartbeatInvStays
<1>3. RequestInStep' /\ Numbered'
  BY DEF TypeOK, RequestInStep, Numbered
<1>4. StoredInOrder'
  BY DEF StoredInOrder, Holds
<1>. QED BY <1>1, <1>2, <1>3, <1>4

\* The files StoredInOrder speaks of are names, and the numbers are numbers.
LEMMA HoldsOf ==
    ASSUME TypeOK
    PROVE  /\ \A a \in answered : a[2] \in 1..MaxRequests
                                  /\ \A name \in Range(a[1].files) : name \in Names
           /\ \A line \in meta_data : line[1] \in Names /\ line[2] \in 1..MaxRequests
BY NamesOfRequest DEF TypeOK

\* The steps of a storing request.
LEMMA StoreKeeps ==
    ASSUME BoxInv, NEW r \in request, Store(r)
    PROVE  BoxInv'
<1>. USE BoundsAre DEF BoxInv, StoreInv
<1>0. /\ r \in Stores /\ request = {r} /\ done \in 0..Len(r.files) /\ requests \in 1..MaxRequests
      /\ images \in [Names -> NoFile..MaxRequests]
  BY DEF TypeOK, RequestInStep, Store, OpenImage, WriteImage, Written, AppendLine, Raise,
         WriteRaises, Answer
<1>1. /\ r.files \in Seq(Names) /\ Len(r.files) \in Nat /\ r.fails_after \in Nat
      /\ \A k \in 1..Len(r.files) : r.files[k] \in Names
      /\ Range(r.files) \subseteq Names
      /\ r.line \subseteq Names
  BY <1>0, NamesOfRequest
<1>2. HeartbeatInv'
  BY HeartbeatInvStays
     DEF Store, OpenImage, WriteImage, Written, AppendLine, Raise, WriteRaises, Answer
<1>3. CASE OpenImage(r)
  <2>. DEFINE file == r.files[done + 1]
  <2>1. file \in Names
    BY <1>0, <1>1, <1>3 DEF OpenImage
  <2>2. images' = [images EXCEPT ![file] = Empty] /\ pc' = "write"
    BY <1>3 DEF OpenImage
  <2>. HIDE DEF file
  <2>3. TypeOK'
    <3>1. images' \in [Names -> NoFile..MaxRequests]
      BY <1>0, <2>1, <2>2 DEF Empty, NoFile
    <3>. QED BY <2>2, <3>1, <1>3 DEF OpenImage, TypeOK, memory
  <2>4. RequestInStep'
    <3>0. \A n \in Names : images'[n] = IF n = file THEN Empty ELSE images[n]
      BY <1>0, <2>2
    <3>1. \A k \in 1..done : r.files[k] \in Names /\ images[r.files[k]] = requests
      BY <1>0, <1>1, <1>3 DEF OpenImage, RequestInStep
    <3>2. \A k \in 1..done : images'[r.files[k]] = requests \/ (r.files[k] = file /\ images'[r.files[k]] = Empty)
      BY <3>0, <3>1
    <3>3. done < Len(r.files) /\ done' = done /\ request' = request /\ requests' = requests
      BY <1>3 DEF OpenImage
    <3>4. (\E q \in Stores : request' = {q}) /\ requests' > 0
      BY <1>0, <3>3
    <3>. QED BY <1>0, <2>2, <3>2, <3>3, <3>4 DEF RequestInStep, file
  <2>5. ASSUME NEW name \in Names, NEW n, Holds(name, n) PROVE Holds(name, n)'
    <3>1. CASE name = file
      BY <1>0, <2>1, <2>2, <1>3, <3>1 DEF OpenImage, Holds, file
    <3>2. CASE name # file
      BY <1>0, <2>1, <2>2, <1>3, <2>5, <3>2 DEF OpenImage, Holds
    <3>. QED BY <3>1, <3>2
  <2>6. StoredInOrder'
    BY <1>3, <2>5, HoldsOf DEF OpenImage, StoredInOrder
  <2>7. Numbered'
    BY <1>3 DEF OpenImage, Numbered
  <2>. QED BY <1>2, <2>3, <2>4, <2>6, <2>7
<1>4. CASE WriteImage(r)
  <2>. DEFINE file == r.files[done + 1]
  <2>1. file \in Names /\ done + 1 \in 0..Len(r.files)
    BY <1>0, <1>1, <1>4 DEF WriteImage, Written, RequestInStep
  <2>2. /\ images' = [images EXCEPT ![file] = requests]
        /\ pc = "write" /\ pc' = "store" /\ done' = done + 1
    BY <1>4 DEF WriteImage, Written
  <2>. HIDE DEF file
  <2>3. TypeOK'
    <3>1. requests \in NoFile..MaxRequests
      BY <1>0 DEF NoFile
    <3>2. images' \in [Names -> NoFile..MaxRequests]
      BY <1>0, <2>2, <3>1
    <3>3. \A q \in request : done' \in 0..Len(q.files)
      BY <1>0, <2>1, <2>2
    <3>4. UNCHANGED <<taskUpdateInfo_, taskInfo, reported, received,
                      request, meta_data, answered, requests, interrupts>> /\ pc' = "store"
          /\ torn' \subseteq torn
      BY <1>4 DEF WriteImage, Written, memory
    <3>. QED BY <3>2, <3>3, <3>4 DEF TypeOK
  <2>4. RequestInStep'
    <3>1. ASSUME NEW k \in 1..(done + 1) PROVE images'[r.files[k]] = requests
      <4>1. k \in 1..done => images[r.files[k]] = requests \/ r.files[k] = file
        BY <1>0 DEF RequestInStep, file
      <4>2. k \in 1..done \/ k = done + 1
        BY <1>0, <1>1
      <4>3. r.files[k] \in Names
        BY <1>0, <1>1, <2>1
      <4>. QED BY <1>0, <2>1, <2>2, <4>1, <4>2, <4>3 DEF file
    <3>. QED BY <1>0, <2>2, <3>1, <1>4 DEF WriteImage, Written, RequestInStep
  <2>5. /\ torn' = torn \ {file}
        /\ \A name \in Names : name # file => images'[name] = images[name]
    BY <1>0, <2>1, <2>2, <1>4 DEF WriteImage, Written, file
  <2>6. StoredInOrder'
    <3>1. ASSUME NEW name \in Names, NEW n \in 1..MaxRequests, n <= requests, Holds(name, n)
          PROVE  Holds(name, n)'
      <4>1. CASE name = file
        BY <1>0, <2>1, <2>2, <3>1, <4>1 DEF Holds
      <4>2. CASE name # file
        BY <1>0, <2>5, <3>1, <4>2 DEF Holds, file
      <4>. QED BY <4>1, <4>2
    <3>4. answered' = answered /\ meta_data' = meta_data
      BY <1>4 DEF WriteImage, Written
    <3>. QED BY <3>1, <3>4, HoldsOf DEF StoredInOrder, Numbered
  <2>7. Numbered'
    BY <1>4 DEF WriteImage, Written, Numbered
  <2>. QED BY <1>2, <2>3, <2>4, <2>6, <2>7
<1>5. CASE AppendLine(r)
  <2>. USE <1>5 DEF AppendLine
  <2>1. TypeOK'
    BY <1>0, <1>1 DEF TypeOK, memory
  <2>2. RequestInStep'
    BY <1>0, <1>1 DEF RequestInStep
  <2>3. Numbered'
    BY <1>0 DEF Numbered
  <2>4. \A name \in Range(r.files) : Holds(name, requests)'
    BY <1>0, <1>1 DEF RequestInStep, Range, Holds
  <2>5. ASSUME NEW name, NEW n, Holds(name, n) PROVE Holds(name, n)'
    BY <2>5 DEF Holds
  <2>6. \A name \in r.line \cap ImageNames : name \in Range(r.files)
    BY <1>0 DEF ImageNames
  <2>7. StoredInOrder'
    BY <2>4, <2>5, <2>6 DEF StoredInOrder
  <2>. QED BY <1>2, <2>1, <2>2, <2>3, <2>7
<1>6. CASE Raise(r)
  <2>. USE <1>6 DEF Raise
  <2>1. TypeOK' /\ RequestInStep' /\ Numbered'
    BY <1>0 DEF TypeOK, memory, disk, RequestInStep, Numbered
  <2>2. StoredInOrder'
    BY DEF StoredInOrder, Holds, disk
  <2>. QED BY <1>2, <2>1, <2>2
<1>8. CASE WriteRaises(r)
  <2>. USE <1>8 DEF WriteRaises
  <2>0. r.files[done + 1] \in Names
    BY <1>0, <1>1 DEF RequestInStep
  <2>1. TypeOK' /\ RequestInStep' /\ Numbered'
    BY <1>0, <2>0 DEF TypeOK, memory, RequestInStep, Numbered
  <2>2. StoredInOrder'
    BY <1>0 DEF StoredInOrder, Holds
  <2>. QED BY <1>2, <2>1, <2>2
<1>7. CASE Answer(r)
  <2>. USE <1>7 DEF Answer
  <2>2. TypeOK' /\ RequestInStep' /\ Numbered'
    BY <1>0 DEF TypeOK, memory, disk, RequestInStep, Numbered
  <2>3. \A name \in Range(r.files) : Holds(name, requests)'
    <3>1. images' = images /\ requests' = requests /\ requests \in Nat
      BY <1>0 DEF disk
    <3>2. \A k \in 1..Len(r.files) : images[r.files[k]] = requests
      BY <1>0, <1>1 DEF RequestInStep
    <3>3. \A name \in Range(r.files) : images[name] = requests
      BY <3>2 DEF Range
    <3>. QED BY <3>1, <3>3 DEF Holds
  <2>4. StoredInOrder'
    BY <1>0, <2>3 DEF RequestInStep, StoredInOrder, Holds, disk
  <2>. QED BY <1>2, <2>2, <2>4
<1>. QED BY <1>3, <1>4, <1>5, <1>6, <1>7, <1>8 DEF Store
-----------------------------------------------------------------------------
LEMMA InitGives == Init => BoxInv
<1>. SUFFICES ASSUME Init PROVE BoxInv
  OBVIOUS
<1>. USE DEF Init
<1>1. TypeOK
  <2>1. images \in [Names -> NoFile..MaxRequests]
    BY BoundsAre DEF NoFile
  <2>2. /\ answered = {} /\ meta_data = {} /\ request = {} /\ reported = {} /\ torn = {}
        /\ pc = "idle" /\ taskInfo = << >> /\ received \in Seq(Heartbeats)
    OBVIOUS
  <2>3. /\ taskUpdateInfo_ \in [Tasks -> 0..MaxTime]
        /\ requests \in 0..MaxRequests /\ interrupts \in 0..MaxInterrupts
    BY BoundsAre DEF Fresh
  <2>. HIDE DEF Init
  <2>. QED BY <2>1, <2>2, <2>3 DEF TypeOK
<1>2. HeartbeatInv
  <2>1. Places = {}
    BY DEF Places
  <2>. QED BY <2>1 DEF HeartbeatInv, ReceivedInStep, MemoryInStep, ReportedInStep, IsLastTime,
                       Passed, Fresh
<1>3. StoreInv
  BY DEF StoreInv, RequestInStep, Numbered, StoredInOrder, NoFile
<1>. QED BY <1>1, <1>2, <1>3 DEF BoxInv

\* An interruption drops the request at hand and breaks off the file being
\* written; what was on disk stays.
LEMMA InterruptKeeps == BoxInv /\ Interrupt => BoxInv'
<1>. SUFFICES ASSUME BoxInv, Interrupt PROVE BoxInv'
  OBVIOUS
<1>. USE BoundsAre DEF BoxInv, StoreInv, Interrupt
<1>0. \A r \in request : pc = "write" => r.files[done + 1] \in Names
  BY NamesOfRequest DEF TypeOK, RequestInStep
<1>1. TypeOK'
  BY <1>0 DEF TypeOK, memory
<1>2. HeartbeatInv'
  BY DEF HeartbeatInv, ReceivedInStep, MemoryInStep, ReportedInStep, memory
<1>3. RequestInStep' /\ Numbered'
  BY DEF RequestInStep, Numbered
<1>4. ASSUME NEW name, NEW n, Holds(name, n) PROVE Holds(name, n)'
  BY <1>4 DEF Holds
<1>5. StoredInOrder'
  BY <1>4 DEF StoredInOrder
<1>. QED BY <1>1, <1>2, <1>3, <1>5

\* A start forgets every heartbeat.
LEMMA StartKeeps == BoxInv /\ Start => BoxInv'
<1>. SUFFICES ASSUME BoxInv, Start PROVE BoxInv'
  OBVIOUS
<1>. USE BoundsAre DEF BoxInv, StoreInv, Start, disk
<1>0. Fresh \in [Tasks -> 0..MaxTime]
  BY DEF Fresh
<1>1. TypeOK'
  BY <1>0 DEF TypeOK, RequestInStep
<1>2. HeartbeatInv'
  <2>1. Places' = {}
    BY DEF Places
  <2>. QED BY <2>1 DEF HeartbeatInv, ReceivedInStep, MemoryInStep, ReportedInStep, IsLastTime,
                       Passed, Fresh
<1>3. RequestInStep' /\ Numbered'
  BY DEF RequestInStep, Numbered
<1>4. StoredInOrder'
  BY DEF StoredInOrder, Holds
<1>. QED BY <1>1, <1>2, <1>3, <1>4

LEMMA StutterKeeps == BoxInv /\ UNCHANGED vars => BoxInv'
<1>. SUFFICES ASSUME BoxInv, UNCHANGED vars PROVE BoxInv'
  OBVIOUS
<1>. USE DEF BoxInv, StoreInv, HeartbeatInv, vars, memory, disk
<1>1. TypeOK'
  BY DEF TypeOK
<1>2. ReceivedInStep'
  BY DEF ReceivedInStep, ComeTo
<1>3. MemoryInStep'
  BY DEF MemoryInStep, IsLastTime, EntryAt, Passed, Earlier, Places
<1>4. ReportedInStep'
  <2>1. \A k : Earlier(k)' = Earlier(k)
    BY DEF Earlier, Places
  <2>. QED BY <2>1 DEF ReportedInStep, IsLastTime, EntryAt
<1>5. RequestInStep' /\ Numbered' /\ StoredInOrder'
  BY DEF RequestInStep, Numbered, StoredInOrder, Holds
<1>. QED BY <1>1, <1>2, <1>3, <1>4, <1>5

LEMMA NextKeeps == BoxInv /\ [Next]_vars => BoxInv'
<1>. SUFFICES ASSUME BoxInv, [Next]_vars PROVE BoxInv'
  OBVIOUS
<1>1. CASE \E h \in Heartbeats : CheckHeartbeat(h)
  BY <1>1, HeartbeatKeeps
<1>2. CASE NextEntry
  <2>1. CASE JudgeEntry(taskInfo[done + 1])
    BY <1>2, <2>1, JudgeKeeps
  <2>2. CASE UnknownTask(taskInfo[done + 1])
    BY <1>2, <2>2, HeartbeatEndKeeps
  <2>. QED BY <1>2, <2>1, <2>2 DEF NextEntry
<1>3. CASE HeartbeatEnds
  BY <1>3, HeartbeatEndKeeps
<1>4. CASE \E r \in Stores : Receive(r)
  BY <1>4, ReceiveKeeps
<1>5. CASE \E r \in request : Store(r)
  BY <1>5, StoreKeeps
<1>6. CASE Interrupt
  BY <1>6, InterruptKeeps
<1>7. CASE Start
  BY <1>7, StartKeeps
<1>8. CASE UNCHANGED vars
  BY <1>8, StutterKeeps
<1>. QED BY <1>1, <1>2, <1>3, <1>4, <1>5, <1>6, <1>7, <1>8 DEF Next

LEMMA BoxInvHolds == Spec => []BoxInv
<1>. QED BY InitGives, NextKeeps, PTL DEF Spec

\* The state has its type.
THEOREM TypeCorrect == Spec => []TypeOK
<1>1. BoxInv => TypeOK
  BY DEF BoxInv
<1>. QED BY <1>1, BoxInvHolds, PTL

\* Since the server started, an entry is reported as not changing exactly if it
\* was come to and the last entry about its task that was come to before it has
\* the same time, whatever unknown tasks cut off the heartbeats
\* (simple_web_server_boxcallback.py:103-109).
THEOREM JudgedRightCorrect == Spec => []JudgedRight
<1>1. BoxInv => JudgedRight
  BY DEF BoxInv, HeartbeatInv, ReportedInStep, JudgedRight, Earlier
<1>. QED BY <1>1, BoxInvHolds, PTL

\* What was answered is stored and what is listed has its image, across failed
\* requests, interruptions and starts (simple_web_server_boxcallback.py:131-142).
THEOREM StoredInOrderCorrect == Spec => []StoredInOrder
<1>1. BoxInv => StoredInOrder
  BY DEF BoxInv, StoreInv
<1>. QED BY <1>1, BoxInvHolds, PTL

-----------------------------------------------------------------------------
(* AssetLibrary *)

ListedOf(a) == {Records[a][k] : k \in 1..Len(Records[a])}
HasAsset(a) == <<"magic", a, "asset">> \in dirs
HasCopy(a) == <<"target", a, "makeup">> \in dirs
OnlyImages(a) == \A e \in ListedOf(a) \ MissingTex[a] : e[1] = "img"
Running == command \in {"line", "remove", "copy", "scale", "mark"}

\* The list names every asset once, and a command is at one of its records.
ListOK ==
    /\ \A l \in listing :
         /\ l \in Seq(Assets) /\ listing = {l}
         /\ \A j, k \in 1..Len(l) : j # k => l[j] # l[k]
    /\ Running => \E l \in listing :
                     record <= Len(l) + 1 /\ (command # "line" => record <= Len(l))

\* A file that is being written is empty until then.
OpenOK ==
    /\ \A o \in opened :
         /\ opened = {o} /\ files[<<o[1], o[2], o[3]>>] = "empty"
         /\ \E a \in Assets, e \in Commands!Names, c \in Commands!Contents : o = <<args.dst, a, e, c>>
    /\ command \in {"idle", "update", "remove", "mark"} => opened = {}

LibTypeOK ==
    /\ command \in {"idle", "update", "line", "remove", "copy", "scale", "mark"}
    /\ args \in Commands!Args
    /\ record \in Nat \ {0} /\ element \in Nat \ {0}
    /\ dirs \subseteq Commands!Roots \X Assets \X Commands!Parts
    /\ files \in [Commands!Roots \X Assets \X Commands!Names -> Commands!Contents]
    /\ misspelled \in BOOLEAN
    /\ ListOK /\ OpenOK

\* Commands that spell --magic as it was listed leave the assets as they are.
Untouched ==
    /\ args.dst = "target"
    /\ \A a \in Assets : \A e \in Commands!Names :
          files[<<"magic", a, e>>] = IF HasAsset(a) /\ e \in Commands!FilesOf(a) THEN "original" ELSE "absent"

\* An asset is there whole, and the files of a copy are in its directory.
InPlace ==
    /\ \A a \in Assets : <<"magic", a, "makeup">> \in dirs <=> HasAsset(a)
    /\ \A a \in Assets : \A e \in Commands!Names :
          files[<<"target", a, e>>] # "absent" => HasCopy(a)

\* What a file of a copy holds, once it is written if it is open.
WillBe(a, e, c) ==
    \/ files[<<"target", a, e>>] = c /\ \A o \in opened : <<o[2], o[3]>> # <<a, e>>
    \/ <<"target", a, e, c>> \in opened

ScaledAll(a) == \A e \in ListedOf(a) \ MissingTex[a] : WillBe(a, e, "scaled")

\* The work on asset a is done, or it has been passed over.
DoneFor(a) ==
    IF HasCopy(a)
      THEN ScaledAll(a) /\ (args.add_needscale => WillBe(a, Commands!Config, "marked"))
      ELSE ~ args.copy /\ ~ args.add_needscale /\ OnlyImages(a)

\* How many records of list l are done.
Finished(l) ==
    IF Running THEN record - 1 ELSE IF command = "idle" /\ result = "ok" THEN Len(l) ELSE 0

\* What is done of the asset a at hand.
AtHand(a) ==
    /\ command \in {"remove", "copy"} => args.copy /\ element = 1
    /\ command = "copy" =>
          \A e \in Commands!Names :
              files[<<"target", a, e>>] # "absent" => WillBe(a, e, "original")
    /\ command \in {"scale", "mark"} /\ args.copy =>
          HasAsset(a) /\ HasCopy(a) /\ WillBe(a, Commands!Config, "original")
    /\ command = "scale" =>
          /\ element <= Len(Records[a]) + 1
          /\ \A j \in 1..(element - 1) :
                /\ Records[a][j][1] = "img" => HasAsset(a)
                /\ HasAsset(a) /\ HasCopy(a) /\ Records[a][j] \notin MissingTex[a]
                      => WillBe(a, Records[a][j], "scaled")
                /\ HasAsset(a) /\ ~ HasCopy(a) /\ Records[a][j] \notin MissingTex[a]
                      => Records[a][j][1] = "img"
    /\ command = "mark" => IF HasCopy(a) THEN ScaledAll(a) ELSE OnlyImages(a)

Progress ==
    \A l \in listing :
        /\ \A k \in 1..Finished(l) : DoneFor(l[k])
        /\ Running /\ record <= Len(l) => AtHand(l[record])

LibInv == LibTypeOK /\ (~ misspelled => Untouched /\ InPlace /\ Progress /\ CopyRecovers)

\* A command works on the asset its record names.
LEMMA AtRecord ==
    ASSUME ListOK, record \in Nat \ {0}, command \in {"remove", "copy", "scale", "mark"}
    PROVE  \E l \in Seq(Assets) :
              /\ listing = {l} /\ record \in 1..Len(l)
              /\ Commands!Current = l[record] /\ l[record] \in Assets
<1>1. PICK l \in listing : record <= Len(l)
  BY DEF ListOK, Running
<1>2. l \in Seq(Assets) /\ listing = {l}
  BY <1>1 DEF ListOK
<1>3. record \in 1..Len(l) /\ l[record] \in Assets
  BY <1>1, <1>2
<1>4. Commands!Current = l[record]
  BY <1>1, <1>2, <1>3 DEF Commands!Current
<1>. QED BY <1>2, <1>3, <1>4

\* What opening a file does.
LEMMA Opens ==
    ASSUME files \in [Commands!Roots \X Assets \X Commands!Names -> Commands!Contents],
           NEW r \in Commands!Roots, NEW a \in Assets, NEW e \in Commands!Names, NEW c \in Commands!Contents,
           Commands!Write(r, a, e, c)
    PROVE  /\ files' \in [Commands!Roots \X Assets \X Commands!Names -> Commands!Contents]
           /\ opened' = {<<r, a, e, c>>} /\ files'[<<r, a, e>>] = "empty"
           /\ \A s \in Commands!Roots, b \in Assets, x \in Commands!Names :
                 <<s, b, x>> # <<r, a, e>> => files'[<<s, b, x>>] = files[<<s, b, x>>]
  BY DEF Commands!Write, Commands!Contents

LEMMA ConfigIsFile ==
    /\ Commands!Config \in Commands!Names
    /\ \A a \in Assets : Commands!Config \in Commands!FilesOf(a)
  BY DEF Commands!Names, Commands!FilesOf

LEMMA InitLib == Commands!Init => LibInv
<1>. SUFFICES ASSUME Commands!Init PROVE LibInv
  OBVIOUS
<1>1. /\ command = "idle" /\ record = 1 /\ element = 1 /\ opened = {} /\ listing = {}
      /\ args = [copy |-> FALSE, add_needscale |-> FALSE, dst |-> "target"]
      /\ dirs = {"magic"} \X Assets \X Commands!Parts /\ result = "none" /\ misspelled = FALSE
  BY DEF Commands!Init
<1>2. files \in [Commands!Roots \X Assets \X Commands!Names -> Commands!Contents]
  BY DEF Commands!Init, Commands!Contents
<1>3. Untouched
  BY <1>1 DEF Commands!Init, Untouched, HasAsset, Commands!Roots, Commands!Parts
<1>9. InPlace
  BY <1>1 DEF Commands!Init, InPlace, HasAsset, Commands!Roots, Commands!Parts
<1>4. ListOK /\ OpenOK /\ Progress /\ CopyRecovers
  BY <1>1 DEF ListOK, OpenOK, Running, Progress, CopyRecovers, Commands!CopyRecovers
<1>5. dirs \subseteq Commands!Roots \X Assets \X Commands!Parts /\ args \in Commands!Args
  BY <1>1 DEF Commands!Args, Commands!Roots
<1>6. record \in Nat \ {0} /\ element \in Nat \ {0}
  BY <1>1
<1>7. misspelled \in BOOLEAN
  BY <1>1
<1>8. LibTypeOK
  BY <1>1, <1>2, <1>4, <1>5, <1>6, <1>7 DEF LibTypeOK
<1>. QED BY <1>3, <1>4, <1>8, <1>9 DEF LibInv

LEMMA ListStays ==
    ASSUME ListOK, listing' = listing, record' = record,
           Running' => Running /\ (command' # "line" => command # "line")
    PROVE  ListOK'
  BY DEF ListOK, Running

\* What an element of a record is.
LEMMA ElementFacts ==
    ASSUME NEW a \in Assets, NEW k \in 1..Len(Records[a])
    PROVE  /\ Records[a][k] \in Commands!Names /\ Records[a][k] \in ListedOf(a)
           /\ Records[a][k] \in {"img", "tex"} \X Nat
           /\ Records[a][k] # Commands!Config
           /\ Records[a][k][1] = "img" => Records[a][k] \notin MissingTex[a]
<1>1. Records[a] \in Seq({"img", "tex"} \X Nat)
  BY AssetLibraryAssumption
<1>2. Records[a][k] \in {"img", "tex"} \X Nat
  BY <1>1
<1>3. Records[a][k] \in ListedOf(a)
  BY DEF ListedOf
<1>4. Records[a][k] \in Commands!Names
  BY DEF Commands!Names, Commands!Listed
<1>5. Records[a][k] # Commands!Config
  BY <1>2 DEF Commands!Config
<1>6. MissingTex[a] \subseteq {"tex"} \X Nat
  BY AssetLibraryAssumption
<1>. QED BY <1>2, <1>3, <1>4, <1>5, <1>6

\* The commands that only move on.
LEMMA MovesOn ==
    ASSUME LibTypeOK,
           \/ Commands!StartDownsample \/ Commands!StartLine \/ Commands!EndRun \/ Commands!Skip
           \/ Commands!ScaleFails \/ Commands!EndScale \/ Commands!EndUpdate
    PROVE  LibTypeOK' /\ UNCHANGED <<opened, dirs, files, listing>> /\ opened = {}
<1>1. UNCHANGED <<opened, dirs, files, listing>>
  BY DEF Commands!StartDownsample, Commands!StartLine, Commands!EndRun, Commands!Skip,
     Commands!ScaleFails, Commands!EndScale, Commands!ScaledUpTo, Commands!EndUpdate, Commands!tree
<1>2. opened = {}
  BY DEF LibTypeOK, OpenOK, Commands!StartDownsample, Commands!StartLine, Commands!EndRun,
     Commands!Skip, Commands!ScaleFails, Commands!EndScale, Commands!ScaledUpTo, Commands!EndUpdate,
     Commands!At, Commands!AtElement
<1>3. OpenOK'
  BY <1>1, <1>2 DEF OpenOK
<1>4. /\ args \in Commands!Args /\ record \in Nat \ {0} /\ element \in Nat \ {0} /\ ListOK
      /\ command \in {"idle", "update", "line", "remove", "copy", "scale", "mark"}
  BY DEF LibTypeOK
<1>5. dirs' \subseteq Commands!Roots \X Assets \X Commands!Parts
      /\ files' \in [Commands!Roots \X Assets \X Commands!Names -> Commands!Contents]
  BY <1>1 DEF LibTypeOK
<1>6. CASE Commands!StartDownsample
  <2>1. /\ args' \in Commands!Args /\ record' = 1 /\ element' = 1
        /\ command = "idle"
        /\ IF listing = {} THEN command' = "idle" ELSE command' = "line"
    BY <1>6 DEF Commands!StartDownsample, Commands!Exit
  <2>2. misspelled' \in BOOLEAN
    BY <1>6 DEF Commands!StartDownsample, LibTypeOK
  <2>3. ListOK'
    <3>1. ASSUME NEW l \in listing PROVE Len(l) \in Nat /\ 1 <= Len(l) + 1
      BY <1>4 DEF ListOK
    <3>. QED BY <1>1, <1>4, <2>1, <3>1 DEF ListOK, Running
  <2>. QED BY <1>1, <1>2, <1>3, <1>5, <2>1, <2>2, <2>3 DEF LibTypeOK
<1>7. CASE \/ Commands!StartLine \/ Commands!EndRun \/ Commands!Skip \/ Commands!ScaleFails
           \/ Commands!EndUpdate
  <2>1. args' = args /\ misspelled' = misspelled /\ record' = record /\ element' \in {element, 1, element + 1}
    BY <1>7 DEF Commands!StartLine, Commands!EndRun, Commands!Skip, Commands!ScaleFails,
       Commands!EndUpdate, Commands!given, Commands!place
  <2>2. \/ command' = "idle"
        \/ command' = command /\ command = "scale"
        \/ /\ command = "line" /\ command' \in {"remove", "scale"}
           /\ \E l \in listing : ~ record > Len(l)
    BY <1>7 DEF Commands!StartLine, Commands!EndRun, Commands!Skip, Commands!ScaleFails,
       Commands!EndUpdate, Commands!At, Commands!AtElement, Commands!Exit, Commands!AtEnd
  <2>3. ListOK'
    <3>1. CASE \E l \in listing : ~ record > Len(l)
      <4>1. PICK l \in listing : ~ record > Len(l)
        BY <3>1
      <4>2. Len(l) \in Nat /\ record <= Len(l) /\ record <= Len(l) + 1
        BY <1>4, <4>1 DEF ListOK
      <4>. QED BY <1>1, <1>4, <2>1, <4>1, <4>2 DEF ListOK
    <3>. QED BY <1>1, <1>4, <2>1, <2>2, <3>1, ListStays DEF Running
  <2>4. element' \in Nat \ {0}
    BY <1>4, <2>1
  <2>5. command' \in {"idle", "update", "line", "remove", "copy", "scale", "mark"}
    BY <2>2
  <2>6. misspelled' \in BOOLEAN
    BY <2>1 DEF LibTypeOK
  <2>. QED BY <1>1, <1>2, <1>3, <1>4, <1>5, <2>1, <2>3, <2>4, <2>5, <2>6 DEF LibTypeOK
<1>8. CASE Commands!EndScale
  <2>1. /\ args' = args /\ misspelled' = misspelled /\ element' = element
        /\ command = "scale"
        /\ \/ command' = "mark" /\ record' = record
           \/ command' = "line" /\ record' = record + 1
    BY <1>8 DEF Commands!EndScale, Commands!ScaledUpTo, Commands!given, Commands!At
  <2>2. ListOK'
    <3>1. PICK l \in listing : record <= Len(l)
      BY <1>4, <2>1 DEF ListOK, Running
    <3>2. Len(l) \in Nat /\ record + 1 <= Len(l) + 1 /\ record <= Len(l) + 1
      BY <1>4, <3>1 DEF ListOK
    <3>. QED BY <1>1, <1>4, <2>1, <3>1, <3>2 DEF ListOK
  <2>3. record' \in Nat \ {0}
    BY <1>4, <2>1
  <2>4. misspelled' \in BOOLEAN
    BY <2>1 DEF LibTypeOK
  <2>. QED BY <1>1, <1>2, <1>3, <1>4, <1>5, <2>1, <2>2, <2>3, <2>4 DEF LibTypeOK
<1>. QED BY <1>6, <1>7, <1>8

\* A listing is made of each asset once.
LEMMA ListGrows ==
    ASSUME LibTypeOK, \/ Commands!StartUpdate \/ \E a \in Assets : Commands!ListAsset(a)
    PROVE  /\ LibTypeOK' /\ command' = "update"
           /\ UNCHANGED <<args, dirs, files, misspelled>>
<1>1. /\ UNCHANGED <<args, record, element, opened, dirs, files, misspelled>>
      /\ command' = "update" /\ command \in {"idle", "update"}
  BY DEF Commands!StartUpdate, Commands!ListAsset, Commands!place, Commands!tree, Commands!given
<1>2. ListOK'
  <2>1. CASE Commands!StartUpdate
    <3>1. listing' = {<< >>} /\ << >> \in Seq(Assets) /\ Len(<< >>) = 0
      BY <2>1 DEF Commands!StartUpdate
    <3>. QED BY <1>1, <3>1 DEF ListOK, Running
  <2>2. ASSUME NEW a \in Assets, Commands!ListAsset(a) PROVE ListOK'
    <3>1. PICK l \in listing : a \notin Commands!Recorded(l) /\ listing' = {Append(l, a)}
      BY <2>2 DEF Commands!ListAsset
    <3>2. l \in Seq(Assets) /\ \A j, k \in 1..Len(l) : j # k => l[j] # l[k]
      BY <3>1 DEF LibTypeOK, ListOK
    <3>3. \A k \in 1..Len(l) : l[k] # a
      BY <3>1 DEF Commands!Recorded
    <3>4. PICK m : m = Append(l, a)
      OBVIOUS
    <3>5. /\ m \in Seq(Assets) /\ Len(m) = Len(l) + 1 /\ Len(l) \in Nat
          /\ \A k \in 1..Len(l) : m[k] = l[k]
          /\ m[Len(l) + 1] = a
      BY <3>2, <3>4
    <3>6. \A j, k \in 1..Len(m) : j # k => m[j] # m[k]
      BY <3>2, <3>3, <3>5
    <3>7. listing' = {m}
      BY <3>1, <3>4
    <3>. QED BY <1>1, <3>5, <3>6, <3>7 DEF ListOK, Running
  <2>. QED BY <2>1, <2>2
<1>3. OpenOK'
  BY <1>1 DEF LibTypeOK, OpenOK
<1>. QED BY <1>1, <1>2, <1>3 DEF LibTypeOK

LEMMA FillTypes ==
    ASSUME LibTypeOK, Commands!Fill
    PROVE  /\ LibTypeOK' /\ opened' = {}
           /\ UNCHANGED <<command, args, record, element, listing, dirs, result, misspelled>>
           /\ \E a \in Assets, e \in Commands!Names, c \in Commands!Contents :
                 /\ opened = {<<args.dst, a, e, c>>}
                 /\ files' = [files EXCEPT ![<<args.dst, a, e>>] = c]
<1>1. /\ UNCHANGED <<command, args, record, element, listing, dirs, result, misspelled>>
      /\ opened' = {}
  BY DEF Commands!Fill, Commands!place, Commands!given
<1>2. PICK f \in opened : files' = [files EXCEPT ![<<f[1], f[2], f[3]>>] = f[4]]
  BY DEF Commands!Fill
<1>3. opened = {f}
  BY <1>2 DEF LibTypeOK, OpenOK
<1>4. PICK a \in Assets, e \in Commands!Names, c \in Commands!Contents : f = <<args.dst, a, e, c>>
  BY <1>2 DEF LibTypeOK, OpenOK
<1>5. files' = [files EXCEPT ![<<args.dst, a, e>>] = c]
  BY <1>2, <1>4
<1>6. args.dst \in Commands!Roots
  BY DEF LibTypeOK, Commands!Args
<1>7. files' \in [Commands!Roots \X Assets \X Commands!Names -> Commands!Contents]
  BY <1>5, <1>6 DEF LibTypeOK
<1>8. ListOK' /\ OpenOK'
  BY <1>1, ListStays DEF LibTypeOK, OpenOK, Running
<1>9. misspelled' \in BOOLEAN
  BY <1>1 DEF LibTypeOK
<1>. QED BY <1>1, <1>3, <1>4, <1>5, <1>7, <1>8, <1>9 DEF LibTypeOK

LEMMA KillTypes ==
    ASSUME LibTypeOK, Commands!Kill
    PROVE  /\ LibTypeOK' /\ command' = "idle" /\ result' = "killed" /\ opened' = {}
           /\ UNCHANGED <<args, record, element, listing, dirs, files, misspelled>>
<1>1. /\ UNCHANGED <<args, record, element, listing, dirs, files, misspelled>>
      /\ command' = "idle" /\ opened' = {} /\ result' = "killed"
  BY DEF Commands!Kill, Commands!Exit, Commands!place, Commands!given
<1>2. ListOK' /\ OpenOK'
  BY <1>1 DEF LibTypeOK, ListOK, OpenOK, Running
<1>3. misspelled' \in BOOLEAN
  BY <1>1 DEF LibTypeOK
<1>. QED BY <1>1, <1>2, <1>3 DEF LibTypeOK

LEMMA RemoveAssetTypes ==
    ASSUME LibTypeOK, NEW a \in Assets, Commands!RemoveAsset(a)
    PROVE  /\ LibTypeOK' /\ command = "idle" /\ dirs' = dirs \ ({"magic"} \X {a} \X Commands!Parts)
           /\ UNCHANGED <<command, args, record, element, opened, listing, result, misspelled>>
           /\ \A r \in Commands!Roots, b \in Assets, e \in Commands!Names :
                 files'[<<r, b, e>>] =
                    IF r = "magic" /\ b = a THEN "absent" ELSE files[<<r, b, e>>]
<1>1. /\ UNCHANGED <<command, args, record, element, opened, listing, result, misspelled>>
      /\ command = "idle" /\ dirs' = dirs \ ({"magic"} \X {a} \X Commands!Parts)
  BY DEF Commands!RemoveAsset, Commands!place, Commands!given
<1>2. files' = [f \in Commands!Roots \X Assets \X Commands!Names |->
                    IF f[1] = "magic" /\ f[2] = a THEN "absent" ELSE files[f]]
  BY DEF Commands!RemoveAsset, LibTypeOK
<1>3. files' \in [Commands!Roots \X Assets \X Commands!Names -> Commands!Contents]
  BY <1>2 DEF LibTypeOK, Commands!Contents
<1>4. \A r \in Commands!Roots, b \in Assets, e \in Commands!Names :
         files'[<<r, b, e>>] = IF r = "magic" /\ b = a THEN "absent" ELSE files[<<r, b, e>>]
  BY <1>2
<1>5. ListOK' /\ OpenOK'
  BY <1>1, ListStays DEF LibTypeOK, OpenOK, Running
<1>6. misspelled' \in BOOLEAN
  BY <1>1 DEF LibTypeOK
<1>7. dirs' \subseteq Commands!Roots \X Assets \X Commands!Parts
  BY <1>1 DEF LibTypeOK
<1>. QED BY <1>1, <1>3, <1>4, <1>5, <1>6, <1>7 DEF LibTypeOK

\* rmtree removes a file of the copy, or a directory when there is none left.
LEMMA RemoveTreeTypes ==
    ASSUME LibTypeOK, NEW a \in Assets, Commands!Current = a, Commands!RemoveTree
    PROVE  /\ LibTypeOK' /\ command = "remove" /\ opened = {}
           /\ UNCHANGED <<args, record, element, opened, listing, result, misspelled>>
           /\ \/ /\ command' = "remove" /\ dirs' = dirs
                 /\ \A r \in Commands!Roots, b \in Assets, e \in Commands!Names :
                       r # args.dst => files'[<<r, b, e>>] = files[<<r, b, e>>]
                 /\ \A b \in Assets, e \in Commands!Names :
                       b # a => files'[<<args.dst, b, e>>] = files[<<args.dst, b, e>>]
                 /\ \A e \in Commands!Names :
                       files'[<<args.dst, a, e>>] \in {files[<<args.dst, a, e>>], "absent"}
              \/ /\ command' \in {"remove", "copy"} /\ files' = files
                 /\ \E part \in Commands!Parts : dirs' = dirs \ {<<args.dst, a, part>>}
                 /\ \A e \in Commands!Names : files[<<args.dst, a, e>>] = "absent"
<1>1. /\ UNCHANGED <<args, record, element, opened, listing, result, misspelled>>
      /\ command = "remove" /\ opened = {}
  BY DEF Commands!RemoveTree, Commands!At, Commands!place, Commands!given
<1>2. args.dst \in Commands!Roots /\ OpenOK /\ ListOK
  BY DEF LibTypeOK, Commands!Args
<1>3. OpenOK'
  BY <1>1, <1>2 DEF OpenOK
<1>4. misspelled' \in BOOLEAN
  BY <1>1 DEF LibTypeOK
<1>5. CASE Commands!Present(args.dst) # {}
  <2>1. PICK e \in Commands!Present(args.dst) : files' = [files EXCEPT ![<<args.dst, a, e>>] = "absent"]
    BY <1>5 DEF Commands!RemoveTree
  <2>2. command' = "remove" /\ dirs' = dirs
    BY <1>1, <1>5 DEF Commands!RemoveTree
  <2>3. e \in Commands!Names
    BY DEF Commands!Present
  <2>4. files' \in [Commands!Roots \X Assets \X Commands!Names -> Commands!Contents]
    BY <2>1, <2>3, <1>2 DEF LibTypeOK, Commands!Contents
  <2>5. /\ \A r \in Commands!Roots, b \in Assets, x \in Commands!Names :
              r # args.dst => files'[<<r, b, x>>] = files[<<r, b, x>>]
        /\ \A b \in Assets, x \in Commands!Names :
              b # a => files'[<<args.dst, b, x>>] = files[<<args.dst, b, x>>]
        /\ \A x \in Commands!Names :
              files'[<<args.dst, a, x>>] \in {files[<<args.dst, a, x>>], "absent"}
    BY <2>1, <2>3, <1>2 DEF LibTypeOK
  <2>6. ListOK'
    BY <1>1, <1>2, <2>2, ListStays DEF Running
  <2>. QED BY <1>1, <1>3, <1>4, <2>2, <2>4, <2>5, <2>6 DEF LibTypeOK
<1>6. CASE Commands!Present(args.dst) = {}
  <2>1. /\ command' \in {"remove", "copy"} /\ files' = files
        /\ \E part \in Commands!Parts : dirs' = dirs \ {<<args.dst, a, part>>}
    BY <1>1, <1>6 DEF Commands!RemoveTree, Commands!Parts
  <2>2. \A e \in Commands!Names : files[<<args.dst, a, e>>] = "absent"
    BY <1>6 DEF Commands!Present
  <2>3. ListOK'
    BY <1>1, <1>2, <2>1, ListStays DEF Running
  <2>4. dirs' \subseteq Commands!Roots \X Assets \X Commands!Parts
    BY <2>1 DEF LibTypeOK
  <2>. QED BY <1>1, <1>3, <1>4, <2>1, <2>2, <2>3, <2>4 DEF LibTypeOK
<1>. QED BY <1>5, <1>6

\* A file of a copy has been opened.
LEMMA OpensTypes ==
    ASSUME LibTypeOK, NEW a \in Assets, NEW e \in Commands!Names, NEW c \in Commands!Contents,
           Commands!Write(args.dst, a, e, c), args' = args, command' \in {"line", "copy", "scale"}
    PROVE  /\ OpenOK' /\ opened' = {<<args.dst, a, e, c>>}
           /\ files' \in [Commands!Roots \X Assets \X Commands!Names -> Commands!Contents]
           /\ files'[<<args.dst, a, e>>] = "empty"
           /\ \A s \in Commands!Roots, b \in Assets, x \in Commands!Names :
                 <<s, b, x>> # <<args.dst, a, e>> => files'[<<s, b, x>>] = files[<<s, b, x>>]
<1>1. args.dst \in Commands!Roots
  BY DEF LibTypeOK, Commands!Args
<1>2. files \in [Commands!Roots \X Assets \X Commands!Names -> Commands!Contents]
  BY DEF LibTypeOK
<1>3. /\ files' \in [Commands!Roots \X Assets \X Commands!Names -> Commands!Contents]
      /\ opened' = {<<args.dst, a, e, c>>} /\ files'[<<args.dst, a, e>>] = "empty"
      /\ \A s \in Commands!Roots, b \in Assets, x \in Commands!Names :
            <<s, b, x>> # <<args.dst, a, e>> => files'[<<s, b, x>>] = files[<<s, b, x>>]
  BY <1>1, <1>2, Opens
<1>4. OpenOK'
  BY <1>3 DEF OpenOK
<1>. QED BY <1>3, <1>4

\* copytree makes a directory or opens one more file, or is done, or finds no
\* asset.
LEMMA CopyTreeTypes ==
    ASSUME LibTypeOK, NEW a \in Assets, Commands!Current = a, Commands!CopyTree
    PROVE  /\ LibTypeOK' /\ command = "copy" /\ opened = {}
           /\ UNCHANGED <<args, record, element, listing, misspelled>>
           /\ \/ /\ ~ HasAsset(a) /\ command' = "idle" /\ result' = "failed"
                 /\ UNCHANGED <<opened, dirs, files>>
              \/ /\ HasAsset(a) /\ command' = "copy" /\ UNCHANGED <<opened, files>>
                 /\ \E part \in Commands!Parts : dirs' = dirs \cup {<<args.dst, a, part>>}
              \/ /\ HasAsset(a) /\ command' = "scale" /\ UNCHANGED <<opened, dirs, files>>
                 /\ <<"magic", a, "makeup">> \in dirs => <<args.dst, a, "makeup">> \in dirs
                 /\ \A e \in Commands!Names :
                      files[<<"magic", a, e>>] # "absent" => files[<<args.dst, a, e>>] # "absent"
              \/ /\ HasAsset(a) /\ command' = "copy" /\ dirs' = dirs
                 /\ <<"magic", a, "makeup">> \in dirs => <<args.dst, a, "makeup">> \in dirs
                 /\ \E e \in Commands!Names :
                      /\ files[<<"magic", a, e>>] # "absent"
                      /\ opened' = {<<args.dst, a, e, files[<<"magic", a, e>>]>>}
                      /\ files'[<<args.dst, a, e>>] = "empty"
                      /\ \A s \in Commands!Roots, b \in Assets, x \in Commands!Names :
                            <<s, b, x>> # <<args.dst, a, e>> => files'[<<s, b, x>>] = files[<<s, b, x>>]
<1>1. /\ UNCHANGED <<args, record, element, listing, misspelled>>
      /\ command = "copy" /\ opened = {}
  BY DEF Commands!CopyTree, Commands!At, Commands!place, Commands!given
<1>2. args.dst \in Commands!Roots /\ OpenOK /\ ListOK
  BY DEF LibTypeOK, Commands!Args
<1>3. misspelled' \in BOOLEAN
  BY <1>1 DEF LibTypeOK
<1>4. CASE ~ HasAsset(a)
  <2>1. command' = "idle" /\ result' = "failed" /\ UNCHANGED <<opened, dirs, files>>
    BY <1>4 DEF HasAsset, Commands!CopyTree, Commands!Has, Commands!Exit, Commands!tree
  <2>2. ListOK' /\ OpenOK'
    BY <1>1, <1>2, <2>1 DEF ListOK, OpenOK, Running
  <2>. QED BY <1>1, <1>3, <1>4, <2>1, <2>2 DEF LibTypeOK
<1>5. CASE HasAsset(a) /\ Commands!MakeDir
  <2>1. command' = "copy" /\ UNCHANGED <<opened, files>>
    BY <1>1, <1>5 DEF Commands!MakeDir
  <2>2. PICK part \in Commands!Parts : dirs' = dirs \cup {<<args.dst, a, part>>}
    BY <1>5 DEF Commands!MakeDir, Commands!Parts
  <2>3. dirs' \subseteq Commands!Roots \X Assets \X Commands!Parts
    BY <1>2, <2>2 DEF LibTypeOK
  <2>4. ListOK' /\ OpenOK'
    BY <1>1, <1>2, <2>1, ListStays DEF OpenOK, Running
  <2>. QED BY <1>1, <1>3, <1>5, <2>1, <2>2, <2>3, <2>4 DEF LibTypeOK
<1>6. CASE HasAsset(a) /\ Commands!CopyFile
  <2>1. dirs' = dirs
    BY <1>6 DEF Commands!CopyFile
  <2>2. <<"magic", a, "makeup">> \in dirs => <<args.dst, a, "makeup">> \in dirs
    BY <1>6 DEF Commands!CopyFile, Commands!Unmade, Commands!Has, Commands!Parts
  <2>3. CASE Commands!Present("magic") \ Commands!Present(args.dst) = {}
    <3>1. command' = "scale" /\ UNCHANGED <<opened, files>>
      BY <1>6, <2>3 DEF Commands!CopyFile
    <3>2. \A e \in Commands!Names :
              files[<<"magic", a, e>>] # "absent" => files[<<args.dst, a, e>>] # "absent"
      BY <2>3 DEF Commands!Present
    <3>3. ListOK' /\ OpenOK'
      BY <1>1, <1>2, <3>1, ListStays DEF OpenOK, Running
    <3>. QED BY <1>1, <1>3, <1>6, <2>1, <2>2, <3>1, <3>2, <3>3 DEF LibTypeOK
  <2>4. CASE Commands!Present("magic") \ Commands!Present(args.dst) # {}
    <3>1. PICK e \in Commands!Present("magic") \ Commands!Present(args.dst) :
             Commands!Write(args.dst, a, e, files[<<"magic", a, e>>])
      BY <1>6, <2>4 DEF Commands!CopyFile
    <3>2. command' = "copy"
      BY <1>1, <1>6, <2>4 DEF Commands!CopyFile
    <3>3. e \in Commands!Names /\ files[<<"magic", a, e>>] # "absent"
      BY DEF Commands!Present
    <3>4. files[<<"magic", a, e>>] \in Commands!Contents
      BY <3>3 DEF LibTypeOK, Commands!Roots
    <3>5. /\ OpenOK' /\ opened' = {<<args.dst, a, e, files[<<"magic", a, e>>]>>}
          /\ files' \in [Commands!Roots \X Assets \X Commands!Names -> Commands!Contents]
          /\ files'[<<args.dst, a, e>>] = "empty"
          /\ \A s \in Commands!Roots, b \in Assets, x \in Commands!Names :
                <<s, b, x>> # <<args.dst, a, e>> => files'[<<s, b, x>>] = files[<<s, b, x>>]
      BY <1>1, <3>1, <3>2, <3>3, <3>4, OpensTypes
    <3>6. ListOK'
      BY <1>1, <1>2, <3>2, ListStays DEF Running
    <3>7. LibTypeOK'
      BY <1>1, <1>3, <2>1, <3>2, <3>5, <3>6 DEF LibTypeOK
    <3>. QED BY <1>1, <1>6, <2>1, <2>2, <3>2, <3>3, <3>5, <3>7
  <2>. QED BY <2>3, <2>4
<1>7. HasAsset(a) => Commands!MakeDir \/ Commands!CopyFile
  BY DEF HasAsset, Commands!CopyTree, Commands!Has
<1>. QED BY <1>4, <1>5, <1>6, <1>7

LEMMA ScaleTypes ==
    ASSUME LibTypeOK, NEW a \in Assets, Commands!Current = a, Commands!Scale
    PROVE  /\ LibTypeOK' /\ command = "scale" /\ command' = "scale" /\ opened = {}
           /\ element \in 1..Len(Records[a]) /\ element' = element + 1
           /\ UNCHANGED <<args, record, listing, dirs, misspelled>>
           /\ files[<<"magic", a, Records[a][element]>>] # "absent" /\ <<args.dst, a, "makeup">> \in dirs
           /\ opened' = {<<args.dst, a, Records[a][element],
                           Commands!Scaled(files[<<"magic", a, Records[a][element]>>])>>}
           /\ files'[<<args.dst, a, Records[a][element]>>] = "empty"
           /\ \A s \in Commands!Roots, b \in Assets, x \in Commands!Names :
                 <<s, b, x>> # <<args.dst, a, Records[a][element]>> =>
                    files'[<<s, b, x>>] = files[<<s, b, x>>]
<1>1. /\ UNCHANGED <<args, record, listing, dirs, misspelled>> /\ element' = element + 1
      /\ command = "scale" /\ command' = "scale" /\ opened = {}
  BY DEF Commands!Scale, Commands!AtElement, Commands!At, Commands!given
<1>2. PICK e : e = Records[a][element]
  OBVIOUS
<1>3. element \in Nat \ {0} /\ element <= Len(Records[a])
  BY DEF LibTypeOK, Commands!Scale, Commands!AtElement
<1>4. Len(Records[a]) \in Nat
  BY AssetLibraryAssumption
<1>5. element \in 1..Len(Records[a])
  BY <1>3, <1>4
<1>6. e \in Commands!Names
  BY <1>2, <1>5, ElementFacts
<1>7. PICK c : c = Commands!Scaled(files[<<"magic", a, e>>])
  OBVIOUS
<1>8. files[<<"magic", a, e>>] \in Commands!Contents
  BY <1>6 DEF LibTypeOK, Commands!Roots
<1>9. c \in Commands!Contents
  BY <1>7, <1>8 DEF Commands!Scaled, Commands!Contents
<1>10. Commands!Write(args.dst, a, e, c) /\ files[<<"magic", a, e>>] # "absent" /\ <<args.dst, a, "makeup">> \in dirs
  BY <1>2, <1>7 DEF Commands!Scale, Commands!E, Commands!Source, Commands!Readable, Commands!HasDir, Commands!Has
<1>11. /\ OpenOK' /\ opened' = {<<args.dst, a, e, c>>}
       /\ files' \in [Commands!Roots \X Assets \X Commands!Names -> Commands!Contents]
       /\ files'[<<args.dst, a, e>>] = "empty"
       /\ \A s \in Commands!Roots, b \in Assets, x \in Commands!Names :
             <<s, b, x>> # <<args.dst, a, e>> => files'[<<s, b, x>>] = files[<<s, b, x>>]
  BY <1>1, <1>6, <1>9, <1>10, OpensTypes
<1>12. ListOK' /\ element' \in Nat \ {0}
  BY <1>1, <1>3, ListStays DEF LibTypeOK, Running
<1>13. misspelled' \in BOOLEAN
  BY <1>1 DEF LibTypeOK
<1>14. LibTypeOK'
  BY <1>1, <1>11, <1>12, <1>13 DEF LibTypeOK
<1>. QED BY <1>1, <1>2, <1>5, <1>7, <1>10, <1>11, <1>14

LEMMA MarkTypes ==
    ASSUME LibTypeOK, NEW a \in Assets, Commands!Current = a, Commands!Mark
    PROVE  /\ LibTypeOK' /\ command = "mark" /\ opened = {}
           /\ UNCHANGED <<args, listing, dirs, misspelled>>
           /\ \/ /\ command' = "idle" /\ result' = "failed" /\ UNCHANGED <<opened, files, record>>
                 /\ files[<<args.dst, a, Commands!Config>>] \in {"absent", "empty"}
              \/ /\ command' = "line" /\ record' = record + 1
                 /\ files[<<args.dst, a, Commands!Config>>] # "absent"
                 /\ opened' = {<<args.dst, a, Commands!Config, "marked">>}
                 /\ \A s \in Commands!Roots, b \in Assets, x \in Commands!Names :
                       <<s, b, x>> # <<args.dst, a, Commands!Config>> =>
                          files'[<<s, b, x>>] = files[<<s, b, x>>]
<1>1. /\ UNCHANGED <<args, element, listing, dirs, misspelled>>
      /\ command = "mark" /\ opened = {}
  BY DEF Commands!Mark, Commands!At, Commands!given
<1>2. OpenOK /\ ListOK /\ misspelled' \in BOOLEAN /\ record \in Nat \ {0}
  BY <1>1 DEF LibTypeOK
<1>3. CASE files[<<args.dst, a, Commands!Config>>] \in {"absent", "empty"}
  <2>1. command' = "idle" /\ result' = "failed" /\ UNCHANGED <<opened, files, record>>
    BY <1>3 DEF Commands!Mark, Commands!Exit
  <2>2. ListOK' /\ OpenOK'
    BY <1>1, <1>2, <2>1 DEF ListOK, OpenOK, Running
  <2>. QED BY <1>1, <1>2, <1>3, <2>1, <2>2 DEF LibTypeOK
<1>4. CASE files[<<args.dst, a, Commands!Config>>] \notin {"absent", "empty"}
  <2>1. /\ Commands!Write(args.dst, a, Commands!Config, "marked")
        /\ command' = "line" /\ record' = record + 1
    BY <1>4 DEF Commands!Mark
  <2>2. "marked" \in Commands!Contents
    BY DEF Commands!Contents
  <2>3. /\ OpenOK' /\ opened' = {<<args.dst, a, Commands!Config, "marked">>}
        /\ files' \in [Commands!Roots \X Assets \X Commands!Names -> Commands!Contents]
        /\ \A s \in Commands!Roots, b \in Assets, x \in Commands!Names :
              <<s, b, x>> # <<args.dst, a, Commands!Config>> => files'[<<s, b, x>>] = files[<<s, b, x>>]
    BY <1>1, <2>1, <2>2, ConfigIsFile, OpensTypes
  <2>4. ListOK'
    <3>1. PICK l \in listing : record <= Len(l)
      BY <1>1, <1>2 DEF ListOK, Running
    <3>2. Len(l) \in Nat /\ record + 1 <= Len(l) + 1
      BY <1>2, <3>1 DEF ListOK
    <3>. QED BY <1>1, <1>2, <2>1, <3>1, <3>2 DEF ListOK
  <2>5. record' \in Nat \ {0}
    BY <1>2, <2>1
  <2>. QED BY <1>1, <1>2, <1>4, <2>1, <2>3, <2>4, <2>5 DEF LibTypeOK
<1>. QED BY <1>3, <1>4

LEMMA UntouchedStays ==
    ASSUME Untouched, args'.dst = "target",
           \A a \in Assets : HasAsset(a)' <=> HasAsset(a),
           \A a \in Assets, e \in Commands!Names : files'[<<"magic", a, e>>] = files[<<"magic", a, e>>]
    PROVE  Untouched'
  BY DEF Untouched, HasAsset

\* What a file will hold is not changed by work on other files.
LEMMA WillStay ==
    ASSUME NEW b, NEW x, NEW k, WillBe(b, x, k),
           files'[<<"target", b, x>>] = files[<<"target", b, x>>],
           \/ opened' = opened
           \/ opened = {} /\ \A o \in opened' : <<o[2], o[3]>> # <<b, x>>
    PROVE  WillBe(b, x, k)'
  BY DEF WillBe

LEMMA DoneStays ==
    ASSUME NEW b \in Assets, DoneFor(b), args' = args, HasCopy(b)' <=> HasCopy(b),
           \A x \in Commands!Names : \A k \in {"scaled", "marked"} : WillBe(b, x, k) => WillBe(b, x, k)'
    PROVE  DoneFor(b)'
<1>1. ListedOf(b) \subseteq Commands!Names
  BY ElementFacts DEF ListedOf
<1>. QED BY <1>1, ConfigIsFile DEF DoneFor, ScaledAll, OnlyImages, ListedOf

\* When nothing of the copy changes, the records done stay done.
LEMMA NothingUndone ==
    ASSUME ListOK, Progress, UNCHANGED <<args, listing>>,
           \A a \in Assets : HasCopy(a)' <=> HasCopy(a),
           \A b \in Assets : \A x \in Commands!Names : \A k \in {"scaled", "marked"} :
              WillBe(b, x, k) => WillBe(b, x, k)',
           NEW l \in listing, NEW k \in 1..Finished(l), k \in 1..Len(l)
    PROVE  DoneFor(l[k])'
<1>1. DoneFor(l[k]) /\ l[k] \in Assets
  BY DEF Progress, ListOK
<1>. QED BY <1>1, DoneStays

\* Work on the asset at hand undoes no record before it.
LEMMA EarlierStay ==
    ASSUME LibTypeOK, Progress, NEW l \in Seq(Assets), listing = {l}, record \in 1..Len(l), Running,
           UNCHANGED <<args, listing>>, args.dst = "target",
           \A b \in Assets \ {l[record]} : HasCopy(b)' <=> HasCopy(b),
           \A b \in Assets \ {l[record]}, x \in Commands!Names :
              files'[<<"target", b, x>>] = files[<<"target", b, x>>],
           \/ opened' = opened
           \/ opened = {} /\ \A o \in opened' : o[2] = l[record],
           NEW k \in 1..(record - 1)
    PROVE  DoneFor(l[k])'
<1>1. k \in 1..Len(l) /\ k # record
  OBVIOUS
<1>2. l[k] \in Assets \ {l[record]}
  BY <1>1 DEF LibTypeOK, ListOK
<1>3. DoneFor(l[k])
  BY <1>1 DEF Progress, Finished
<1>4. ASSUME NEW x \in Commands!Names, NEW c \in {"scaled", "marked"}, WillBe(l[k], x, c)
      PROVE  WillBe(l[k], x, c)'
  <2>1. files'[<<"target", l[k], x>>] = files[<<"target", l[k], x>>]
    BY <1>2
  <2>2. \/ opened' = opened
        \/ opened = {} /\ \A o \in opened' : <<o[2], o[3]>> # <<l[k], x>>
    BY <1>2
  <2>. QED BY <1>4, <2>1, <2>2, WillStay
<1>. QED BY <1>2, <1>3, <1>4, DoneStays

\* The steps that begin, give up or cut short.
LEMMA NothingDone ==
    ASSUME ~ Running', ~ (command' = "idle" /\ result' = "ok")
    PROVE  Progress'
  BY DEF Progress, Finished

LEMMA StartHolds ==
    ASSUME LibTypeOK, Untouched, Commands!StartDownsample, ~ misspelled'
    PROVE  Untouched' /\ Progress' /\ CopyRecovers'
<1>1. /\ UNCHANGED <<dirs, files, listing>> /\ record' = 1 /\ args' \in Commands!Args
      /\ args'.dst # "magic" /\ command = "idle"
      /\ \/ listing = {} /\ command' = "idle" /\ result' = "failed"
         \/ command' = "line"
  BY DEF Commands!StartDownsample, Commands!tree, Commands!Exit
<1>2. args'.dst = "target"
  BY <1>1 DEF Commands!Args, Commands!Roots
<1>3. Untouched'
  BY <1>1, <1>2, UntouchedStays DEF HasAsset
<1>4. Progress'
  BY <1>1 DEF Progress, Finished, Running, AtHand
<1>5. CopyRecovers'
  BY <1>1 DEF CopyRecovers, Commands!CopyRecovers
<1>. QED BY <1>3, <1>4, <1>5

LEMMA LineHolds ==
    ASSUME LibTypeOK, Untouched, Progress, Commands!StartLine \/ Commands!EndRun
    PROVE  Untouched' /\ Progress' /\ CopyRecovers'
<1>1. /\ UNCHANGED <<args, record, opened, dirs, files, listing>> /\ command = "line"
  BY DEF Commands!StartLine, Commands!EndRun, Commands!tree, Commands!given, Commands!place, Commands!At
<1>2. Untouched'
  BY <1>1, UntouchedStays DEF HasAsset, Untouched
<1>3. ASSUME NEW l \in listing, NEW k \in 1..Finished(l) PROVE DoneFor(l[k])'
  BY <1>1, <1>3 DEF Progress, DoneFor, ScaledAll, WillBe, HasCopy, OnlyImages, ListedOf
<1>4. \A l \in listing : Len(l) \in Nat /\ record <= Len(l) + 1 /\ record \in Nat
  BY <1>1 DEF LibTypeOK, ListOK, Running
<1>5. CASE Commands!StartLine
  <2>1. /\ command' = (IF args.copy THEN "remove" ELSE "scale") /\ element' = 1
    BY <1>5 DEF Commands!StartLine
  <2>2. \A l \in listing : Finished(l)' = Finished(l)
    BY <1>1, <2>1 DEF Finished, Running
  <2>3. ASSUME NEW l \in listing, record <= Len(l) PROVE AtHand(l[record])'
    <3>1. l[record] \in Assets
      BY <2>3, <1>4 DEF LibTypeOK, ListOK
    <3>2. Len(Records[l[record]]) \in Nat
      BY <3>1, AssetLibraryAssumption
    <3>. QED BY <1>1, <2>1, <3>2 DEF AtHand
  <2>4. Progress'
    BY <1>1, <1>3, <2>2, <2>3 DEF Progress
  <2>5. CopyRecovers'
    BY <2>1 DEF CopyRecovers, Commands!CopyRecovers
  <2>. QED BY <1>2, <2>4, <2>5
<1>6. CASE Commands!EndRun
  <2>1. /\ command' = "idle" /\ result' = "ok" /\ \A l \in listing : record > Len(l)
    BY <1>6 DEF Commands!EndRun, Commands!Exit, Commands!AtEnd
  <2>2. \A l \in listing : Finished(l)' = Finished(l)
    BY <1>1, <1>4, <2>1 DEF Finished, Running
  <2>3. Progress'
    BY <1>1, <1>3, <2>1, <2>2 DEF Progress, Running
  <2>4. CopyRecovers'
    BY <2>1 DEF CopyRecovers, Commands!CopyRecovers
  <2>. QED BY <1>2, <2>3, <2>4
<1>. QED BY <1>5, <1>6

\* What is at src_path, by what the library holds.
LEMMA SourceFacts ==
    ASSUME LibTypeOK, Untouched, NEW a \in Assets, NEW e \in ListedOf(a)
    PROVE  /\ files[<<"magic", a, e>>] \in {"original", "absent"}
           /\ HasAsset(a) /\ e \notin MissingTex[a] => files[<<"magic", a, e>>] = "original"
           /\ files[<<"magic", a, e>>] # "absent" => HasAsset(a)
<1>1. e \in Commands!Names
  BY ElementFacts DEF ListedOf
<1>2. e \notin MissingTex[a] => e \in Commands!FilesOf(a)
  BY DEF Commands!FilesOf, Commands!Listed, ListedOf
<1>. QED BY <1>1, <1>2 DEF Untouched

LEMMA SkipHolds ==
    ASSUME LibTypeOK, Untouched, Progress, Commands!Skip
    PROVE  Untouched' /\ Progress' /\ CopyRecovers'
<1>1. /\ UNCHANGED <<args, record, opened, dirs, files, listing>>
      /\ command = "scale" /\ command' = "scale" /\ element' = element + 1 /\ opened = {}
  BY DEF Commands!Skip, Commands!tree, Commands!given, Commands!At, Commands!AtElement
<1>2. PICK l \in Seq(Assets) : /\ listing = {l} /\ record \in 1..Len(l)
                               /\ Commands!Current = l[record] /\ l[record] \in Assets
  BY <1>1, AtRecord DEF LibTypeOK
<1>3. PICK a : a = l[record]
  OBVIOUS
<1>4. element \in 1..Len(Records[a])
  <2>1. element \in Nat \ {0} /\ element <= Len(Records[a])
    BY <1>2, <1>3 DEF LibTypeOK, Commands!Skip, Commands!AtElement
  <2>2. Len(Records[a]) \in Nat
    BY <1>2, <1>3, AssetLibraryAssumption
  <2>. QED BY <2>1, <2>2
<1>5. PICK e : e = Records[a][element]
  OBVIOUS
<1>6. /\ e \in ListedOf(a) /\ e \in {"img", "tex"} \X Nat
      /\ e[1] = "img" => e \notin MissingTex[a]
  BY <1>2, <1>3, <1>4, <1>5, ElementFacts
<1>7. IF e[1] = "img" THEN files[<<"magic", a, e>>] # "absent" /\ ~ HasCopy(a)
                      ELSE files[<<"magic", a, e>>] = "absent"
  <2>1. IF e[1] = "img" THEN files[<<"magic", a, e>>] # "absent" /\ <<args.dst, a, "makeup">> \notin dirs
                        ELSE files[<<"magic", a, e>>] = "absent"
    BY <1>2, <1>3, <1>5 DEF Commands!Skip, Commands!E, Commands!IsImage, Commands!Readable,
       Commands!Source, Commands!HasDir, Commands!Has
  <2>. QED BY <2>1 DEF HasCopy, Untouched
<1>8. Untouched'
  BY <1>1, UntouchedStays DEF HasAsset, Untouched
<1>9. AtHand(a)
  BY <1>1, <1>2, <1>3 DEF Progress, Running
<1>10. AtHand(a)'
  <2>1. \A x \in ListedOf(a) \cup {Commands!Config} : \A k : WillBe(a, x, k)' <=> WillBe(a, x, k)
    BY <1>1 DEF WillBe
  <2>2. HasAsset(a)' = HasAsset(a) /\ HasCopy(a)' = HasCopy(a)
    BY <1>1 DEF HasAsset, HasCopy
  <2>3. element' <= Len(Records[a]) + 1 /\ Len(Records[a]) \in Nat
    BY <1>1, <1>2, <1>3, <1>4, AssetLibraryAssumption
  <2>4. ASSUME NEW j \in 1..(element' - 1)
        PROVE  /\ Records[a][j][1] = "img" => HasAsset(a)
               /\ HasAsset(a) /\ HasCopy(a) /\ Records[a][j] \notin MissingTex[a]
                     => WillBe(a, Records[a][j], "scaled")
               /\ HasAsset(a) /\ ~ HasCopy(a) /\ Records[a][j] \notin MissingTex[a]
                     => Records[a][j][1] = "img"
    <3>1. CASE j = element
      BY <1>2, <1>3, <1>5, <1>6, <1>7, <3>1, SourceFacts
    <3>2. CASE j # element
      <4>1. j \in 1..(element - 1)
        BY <1>1, <1>4, <3>2
      <4>. QED BY <1>1, <1>9, <4>1 DEF AtHand
    <3>. QED BY <3>1, <3>2
  <2>5. ASSUME NEW j \in 1..(element' - 1)
        PROVE  Records[a][j] \in ListedOf(a)
    BY <2>3, <1>1, <1>4 DEF ListedOf
  <2>. QED BY <1>1, <1>9, <2>1, <2>2, <2>3, <2>4, <2>5 DEF AtHand
<1>11. ASSUME NEW k \in 1..(record - 1) PROVE DoneFor(l[k])'
  BY <1>1, <1>2, EarlierStay DEF HasCopy, Running, Untouched
<1>12. Progress'
  BY <1>1, <1>2, <1>3, <1>10, <1>11 DEF Progress, Finished, Running
<1>13. CopyRecovers'
  BY <1>1 DEF CopyRecovers, Commands!CopyRecovers
<1>. QED BY <1>8, <1>12, <1>13

LEMMA ScaleFailsHolds ==
    ASSUME LibTypeOK, Untouched, Progress, Commands!ScaleFails
    PROVE  Untouched' /\ Progress' /\ CopyRecovers'
<1>1. /\ UNCHANGED <<args, record, opened, dirs, files, listing>>
      /\ command = "scale" /\ command' = "idle" /\ result' = "failed" /\ opened = {}
  BY DEF Commands!ScaleFails, Commands!tree, Commands!given, Commands!place, Commands!At,
     Commands!AtElement, Commands!Exit
<1>2. PICK l \in Seq(Assets) : /\ listing = {l} /\ record \in 1..Len(l)
                               /\ Commands!Current = l[record] /\ l[record] \in Assets
  BY <1>1, AtRecord DEF LibTypeOK
<1>3. PICK a : a = l[record]
  OBVIOUS
<1>4. element \in 1..Len(Records[a])
  <2>1. element \in Nat \ {0} /\ element <= Len(Records[a])
    BY <1>2, <1>3 DEF LibTypeOK, Commands!ScaleFails, Commands!AtElement
  <2>2. Len(Records[a]) \in Nat
    BY <1>2, <1>3, AssetLibraryAssumption
  <2>. QED BY <2>1, <2>2
<1>5. PICK e : e = Records[a][element]
  OBVIOUS
<1>6. e \in ListedOf(a) /\ (e[1] = "img" => e \notin MissingTex[a])
  BY <1>2, <1>3, <1>4, <1>5, ElementFacts
<1>7. IF e[1] = "img" THEN files[<<"magic", a, e>>] \in {"absent", "empty"} ELSE <<args.dst, a, "makeup">> \notin dirs
  BY <1>2, <1>3, <1>5 DEF Commands!ScaleFails, Commands!E, Commands!IsImage, Commands!Readable,
     Commands!Source, Commands!HasDir, Commands!Has
<1>8. args.copy => HasAsset(a) /\ HasCopy(a)
  BY <1>1, <1>2, <1>3 DEF Progress, Running, AtHand
<1>9. ~ args.copy
  BY <1>2, <1>3, <1>6, <1>7, <1>8, SourceFacts DEF HasCopy, Untouched
<1>10. Untouched'
  BY <1>1, UntouchedStays DEF HasAsset, Untouched
<1>11. Progress'
  BY <1>1, NothingDone DEF Running
<1>. QED BY <1>1, <1>9, <1>10, <1>11 DEF CopyRecovers, Commands!CopyRecovers

\* The images and tex files of a record are all done.
LEMMA EndScaleHolds ==
    ASSUME LibTypeOK, Untouched, Progress, Commands!EndScale
    PROVE  Untouched' /\ Progress' /\ CopyRecovers'
<1>1. /\ UNCHANGED <<args, element, opened, dirs, files, listing>> /\ command = "scale" /\ opened = {}
      /\ IF args.add_needscale THEN command' = "mark" /\ record' = record
                               ELSE command' = "line" /\ record' = record + 1
  BY DEF Commands!EndScale, Commands!ScaledUpTo, Commands!tree, Commands!given, Commands!At
<1>2. PICK l \in Seq(Assets) : /\ listing = {l} /\ record \in 1..Len(l)
                               /\ Commands!Current = l[record] /\ l[record] \in Assets
  BY <1>1, AtRecord DEF LibTypeOK
<1>3. PICK a : a = l[record]
  OBVIOUS
<1>4. element > Len(Records[a])
  BY <1>2, <1>3 DEF Commands!EndScale, Commands!ScaledUpTo
<1>5. AtHand(a)
  BY <1>1, <1>2, <1>3 DEF Progress, Running
<1>6. Len(Records[a]) \in Nat /\ \E j \in 1..Len(Records[a]) : Records[a][j][1] = "img"
  <2>1. a \in Assets
    BY <1>2, <1>3
  <2>2. Len(Records[a]) \in Nat
    BY <2>1, AssetLibraryAssumption
  <2>3. \E j \in 1..Len(Records[a]) : Records[a][j][1] = "img"
    BY <2>1, AssetLibraryAssumption
  <2>. QED BY <2>2, <2>3
<1>7. \A j \in 1..Len(Records[a]) : j \in 1..(element - 1)
  BY <1>4, <1>6 DEF LibTypeOK
<1>8. HasAsset(a)
  BY <1>1, <1>5, <1>6, <1>7 DEF AtHand
<1>9. IF HasCopy(a) THEN ScaledAll(a) ELSE OnlyImages(a)
  <2>1. ASSUME HasCopy(a), NEW j \in 1..Len(Records[a]), Records[a][j] \notin MissingTex[a]
        PROVE  WillBe(a, Records[a][j], "scaled")
    BY <1>1, <1>5, <1>7, <1>8, <2>1 DEF AtHand
  <2>2. ASSUME ~ HasCopy(a), NEW j \in 1..Len(Records[a]), Records[a][j] \notin MissingTex[a]
        PROVE  Records[a][j][1] = "img"
    BY <1>1, <1>5, <1>7, <1>8, <2>2 DEF AtHand
  <2>. QED BY <2>1, <2>2 DEF ScaledAll, OnlyImages, ListedOf
<1>10. args.copy => HasCopy(a) /\ WillBe(a, Commands!Config, "original")
  BY <1>1, <1>5 DEF AtHand
<1>11. Untouched'
  BY <1>1, UntouchedStays DEF HasAsset, Untouched
<1>12. ASSUME NEW k \in 1..(record - 1) PROVE DoneFor(l[k])'
  BY <1>1, <1>2, EarlierStay DEF HasCopy, Running, Untouched
<1>13. /\ HasCopy(a)' <=> HasCopy(a)
       /\ HasAsset(a)' <=> HasAsset(a)
       /\ ScaledAll(a) => ScaledAll(a)'
       /\ OnlyImages(a) => OnlyImages(a)'
       /\ WillBe(a, Commands!Config, "original") => WillBe(a, Commands!Config, "original")'
  BY <1>1 DEF HasCopy, HasAsset, ScaledAll, OnlyImages, ListedOf, WillBe
<1>14. CASE args.add_needscale
  <2>1. AtHand(a)'
    BY <1>1, <1>8, <1>9, <1>10, <1>13, <1>14 DEF AtHand
  <2>. QED BY <1>1, <1>2, <1>3, <1>11, <1>12, <1>14, <2>1
         DEF Progress, Finished, Running, CopyRecovers, Commands!CopyRecovers
<1>15. CASE ~ args.add_needscale
  <2>1. DoneFor(a)'
    BY <1>1, <1>9, <1>10, <1>13, <1>15 DEF DoneFor
  <2>2. ASSUME NEW k \in 1..record PROVE DoneFor(l[k])'
    <3>1. CASE k = record
      BY <1>3, <2>1, <3>1
    <3>2. CASE k # record
      BY <1>2, <1>12, <3>2
    <3>. QED BY <3>1, <3>2
  <2>3. \A b : AtHand(b)'
    BY <1>1, <1>15 DEF AtHand
  <2>4. Finished(l)' = record
    BY <1>1, <1>2, <1>15 DEF Finished, Running
  <2>5. Progress'
    BY <1>1, <1>2, <2>2, <2>3, <2>4 DEF Progress
  <2>. QED BY <1>1, <1>11, <1>15, <2>5 DEF CopyRecovers, Commands!CopyRecovers
<1>. QED BY <1>14, <1>15

LEMMA UpdateHolds ==
    ASSUME LibTypeOK, Untouched,
           \/ Commands!StartUpdate \/ (\E a \in Assets : Commands!ListAsset(a)) \/ Commands!EndUpdate
    PROVE  Untouched' /\ Progress' /\ CopyRecovers'
<1>1. CASE Commands!StartUpdate \/ \E a \in Assets : Commands!ListAsset(a)
  <2>1. command' = "update" /\ UNCHANGED <<args, dirs, files>>
    BY <1>1, ListGrows
  <2>2. Untouched'
    BY <2>1, UntouchedStays DEF HasAsset, Untouched
  <2>3. Progress'
    BY <2>1, NothingDone DEF Running
  <2>. QED BY <2>1, <2>2, <2>3 DEF CopyRecovers, Commands!CopyRecovers
<1>2. CASE Commands!EndUpdate
  <2>1. /\ UNCHANGED <<args, dirs, files>>
        /\ command' = "idle" /\ result' \in {"unlisted", "listed"}
    BY <1>2 DEF Commands!EndUpdate, Commands!given, Commands!tree, Commands!Exit
  <2>2. Untouched'
    BY <2>1, UntouchedStays DEF HasAsset, Untouched
  <2>3. Progress'
    BY <2>1, NothingDone DEF Running
  <2>. QED BY <2>1, <2>2, <2>3 DEF CopyRecovers, Commands!CopyRecovers
<1>. QED BY <1>1, <1>2

LEMMA KillHolds ==
    ASSUME LibTypeOK, Untouched, Commands!Kill
    PROVE  Untouched' /\ Progress' /\ CopyRecovers'
<1>1. command' = "idle" /\ result' = "killed" /\ UNCHANGED <<args, dirs, files>>
  BY KillTypes
<1>2. Untouched'
  BY <1>1, UntouchedStays DEF HasAsset, Untouched
<1>3. Progress'
  BY <1>1, NothingDone DEF Running
<1>. QED BY <1>1, <1>2, <1>3 DEF CopyRecovers, Commands!CopyRecovers

\* Once it is filled, a file holds what it was opened for.
LEMMA FillHolds ==
    ASSUME LibTypeOK, Untouched, Progress, Commands!Fill
    PROVE  Untouched' /\ Progress' /\ CopyRecovers'
<1>1. UNCHANGED <<command, args, record, element, listing, dirs, result>> /\ opened' = {}
  BY FillTypes
<1>2. PICK a \in Assets, e \in Commands!Names, c \in Commands!Contents :
         opened = {<<args.dst, a, e, c>>} /\ files' = [files EXCEPT ![<<args.dst, a, e>>] = c]
  BY FillTypes
<1>3. args.dst = "target"
  BY DEF Untouched
<1>4. /\ files' \in [Commands!Roots \X Assets \X Commands!Names -> Commands!Contents]
      /\ files'[<<"target", a, e>>] = c
      /\ \A s \in Commands!Roots, b \in Assets, x \in Commands!Names :
            <<s, b, x>> # <<"target", a, e>> => files'[<<s, b, x>>] = files[<<s, b, x>>]
  <2>1. files \in [Commands!Roots \X Assets \X Commands!Names -> Commands!Contents]
    BY DEF LibTypeOK
  <2>2. "target" \in Commands!Roots
    BY DEF Commands!Roots
  <2>. QED BY <1>2, <1>3, <2>1, <2>2
<1>5. command # "idle" /\ command # "update"
  BY <1>2 DEF LibTypeOK, OpenOK
<1>6. Untouched'
  <2>1. \A b \in Assets, x \in Commands!Names : files'[<<"magic", b, x>>] = files[<<"magic", b, x>>]
    BY <1>4 DEF Commands!Roots
  <2>. QED BY <1>1, <1>3, <2>1, UntouchedStays DEF HasAsset
<1>7. ASSUME NEW b \in Assets, NEW x \in Commands!Names, NEW k, WillBe(b, x, k)
      PROVE  WillBe(b, x, k)'
  <2>1. CASE <<b, x>> = <<a, e>>
    <3>1. \A o \in opened : <<o[2], o[3]>> = <<b, x>>
      BY <1>2, <2>1
    <3>2. <<"target", b, x, k>> \in opened
      BY <1>2, <1>7, <3>1 DEF WillBe
    <3>3. k = c
      BY <1>2, <3>2
    <3>. QED BY <1>1, <1>4, <2>1, <3>3 DEF WillBe
  <2>2. CASE <<b, x>> # <<a, e>>
    <3>1. <<"target", b, x, k>> \notin opened
      BY <1>2, <2>2
    <3>2. files[<<"target", b, x>>] = k
      BY <1>7, <3>1 DEF WillBe
    <3>3. files'[<<"target", b, x>>] = files[<<"target", b, x>>]
      BY <1>4, <2>2 DEF Commands!Roots
    <3>. QED BY <1>1, <3>2, <3>3 DEF WillBe
  <2>. QED BY <2>1, <2>2
<1>8. ASSUME NEW b \in Assets, AtHand(b) PROVE AtHand(b)'
  <2>1. HasAsset(b)' = HasAsset(b) /\ HasCopy(b)' = HasCopy(b)
    BY <1>1 DEF HasAsset, HasCopy
  <2>2. command = "copy" =>
           \A x \in Commands!Names : files'[<<"target", b, x>>] # "absent" => WillBe(b, x, "original")'
    <3>1. SUFFICES ASSUME command = "copy", NEW x \in Commands!Names, files'[<<"target", b, x>>] # "absent"
                   PROVE  WillBe(b, x, "original")'
      OBVIOUS
    <3>2. files[<<"target", b, x>>] # "absent"
      <4>1. files[<<"target", a, e>>] = "empty"
        BY <1>2, <1>3 DEF LibTypeOK, OpenOK
      <4>. QED BY <1>4, <3>1, <4>1 DEF Commands!Roots
    <3>3. WillBe(b, x, "original")
      BY <1>8, <3>1, <3>2 DEF AtHand
    <3>. QED BY <1>7, <3>3
  <2>3. WillBe(b, Commands!Config, "original") => WillBe(b, Commands!Config, "original")'
    BY <1>7, ConfigIsFile
  <2>4. ASSUME command = "scale", NEW j \in 1..(element - 1)
        PROVE  Records[b][j] \in Commands!Names
    <3>1. element <= Len(Records[b]) + 1 /\ Len(Records[b]) \in Nat /\ element \in Nat
      BY <1>8, <2>4, AssetLibraryAssumption DEF AtHand, LibTypeOK
    <3>2. j \in 1..Len(Records[b])
      BY <3>1
    <3>. QED BY <3>2, ElementFacts
  <2>5. ASSUME ScaledAll(b) PROVE ScaledAll(b)'
    <3>1. ListedOf(b) \subseteq Commands!Names
      BY ElementFacts DEF ListedOf
    <3>. QED BY <1>7, <2>5, <3>1 DEF ScaledAll
  <2>6. command = "scale" =>
          /\ element <= Len(Records[b]) + 1
          /\ \A j \in 1..(element - 1) :
                /\ Records[b][j][1] = "img" => HasAsset(b)
                /\ HasAsset(b) /\ HasCopy(b) /\ Records[b][j] \notin MissingTex[b]
                      => WillBe(b, Records[b][j], "scaled")'
                /\ HasAsset(b) /\ ~ HasCopy(b) /\ Records[b][j] \notin MissingTex[b]
                      => Records[b][j][1] = "img"
    BY <1>7, <1>8, <2>4 DEF AtHand
  <2>7. command \in {"scale", "mark"} /\ args.copy =>
          HasAsset(b) /\ HasCopy(b) /\ WillBe(b, Commands!Config, "original")'
    BY <1>8, <2>3 DEF AtHand
  <2>8. command = "mark" => IF HasCopy(b) THEN ScaledAll(b)' ELSE OnlyImages(b)'
    BY <1>8, <2>5 DEF AtHand, OnlyImages, ListedOf
  <2>9. command \in {"remove", "copy"} => args.copy /\ element = 1
    BY <1>8 DEF AtHand
  <2>. QED BY <1>1, <2>1, <2>2, <2>6, <2>7, <2>8, <2>9 DEF AtHand
<1>9. ASSUME NEW l \in listing, NEW k \in 1..Finished(l) PROVE DoneFor(l[k])'
  <2>1. Running /\ Finished(l) = record - 1
    BY <1>5 DEF Running, Finished, LibTypeOK
  <2>2. l \in Seq(Assets) /\ Len(l) \in Nat /\ record <= Len(l) + 1
    BY <2>1 DEF LibTypeOK, ListOK
  <2>3. k \in 1..Len(l)
    BY <2>1, <2>2 DEF LibTypeOK
  <2>4. \A b \in Assets : HasCopy(b)' <=> HasCopy(b)
    BY <1>1 DEF HasCopy
  <2>5. l[k] \in Assets /\ DoneFor(l[k])
    BY <1>9, <2>2, <2>3 DEF Progress
  <2>. QED BY <1>1, <1>7, <2>4, <2>5, DoneStays
<1>10. ASSUME NEW l \in listing, Running, record <= Len(l) PROVE AtHand(l[record])'
  <2>1. PICK b \in Assets : b = l[record]
    BY <1>10 DEF LibTypeOK, ListOK
  <2>2. AtHand(b)'
    BY <1>8, <1>10, <2>1 DEF Progress
  <2>3. b = l[record]'
    BY <1>1, <2>1
  <2>. QED BY <2>2, <2>3 DEF AtHand
<1>11. Progress'
  <2>1. \A l \in listing : Finished(l)' = Finished(l)
    BY <1>1 DEF Finished, Running
  <2>. QED BY <1>1, <1>9, <1>10, <2>1 DEF Progress, Running
<1>. QED BY <1>1, <1>5, <1>6, <1>11 DEF CopyRecovers, Commands!CopyRecovers

LEMMA RemoveAssetHolds ==
    ASSUME LibTypeOK, Untouched, Progress, CopyRecovers, NEW a \in Assets, Commands!RemoveAsset(a)
    PROVE  Untouched' /\ Progress' /\ CopyRecovers'
<1>1. /\ UNCHANGED <<command, args, record, element, opened, listing, result, misspelled>>
      /\ command = "idle" /\ dirs' = dirs \ ({"magic"} \X {a} \X Commands!Parts)
      /\ \A r \in Commands!Roots, b \in Assets, e \in Commands!Names :
            files'[<<r, b, e>>] = IF r = "magic" /\ b = a THEN "absent" ELSE files[<<r, b, e>>]
  BY RemoveAssetTypes
<1>2. Untouched'
  BY <1>1 DEF Untouched, HasAsset, Commands!Roots, Commands!Parts
<1>3. \A b \in Assets : HasCopy(b)' <=> HasCopy(b)
  BY <1>1 DEF HasCopy
<1>4. ASSUME NEW b \in Assets, NEW x \in Commands!Names, NEW k, WillBe(b, x, k) PROVE WillBe(b, x, k)'
  <2>1. files'[<<"target", b, x>>] = files[<<"target", b, x>>]
    BY <1>1 DEF Commands!Roots
  <2>. QED BY <1>1, <1>4, <2>1, WillStay
<1>5. ASSUME NEW l \in listing, NEW k \in 1..Finished(l) PROVE DoneFor(l[k])'
  <2>1. k \in 1..Len(l)
    BY <1>1 DEF Finished, Running
  <2>2. l[k] \in Assets /\ DoneFor(l[k])
    BY <1>5, <2>1 DEF Progress, LibTypeOK, ListOK
  <2>. QED BY <1>1, <1>3, <1>4, <2>2, DoneStays
<1>6. Progress'
  <2>1. \A l \in listing : Finished(l)' = Finished(l)
    BY <1>1 DEF Finished, Running
  <2>. QED BY <1>1, <1>5, <2>1 DEF Progress, Running
<1>7. CopyRecovers'
  BY <1>1 DEF CopyRecovers, Commands!CopyRecovers, Commands!Recorded, Commands!Has
<1>. QED BY <1>2, <1>6, <1>7

LEMMA RemoveTreeHolds ==
    ASSUME LibTypeOK, Untouched, Progress, Commands!RemoveTree
    PROVE  Untouched' /\ Progress' /\ CopyRecovers'
<1>1. command = "remove" /\ args.dst = "target"
  BY DEF Commands!RemoveTree, Commands!At, Untouched
<1>2. PICK l \in Seq(Assets) : /\ listing = {l} /\ record \in 1..Len(l)
                               /\ Commands!Current = l[record] /\ l[record] \in Assets
  BY <1>1, AtRecord DEF LibTypeOK
<1>3. PICK a \in Assets : a = l[record]
  BY <1>2
<1>4. /\ UNCHANGED <<args, record, element, opened, listing, result>> /\ opened = {}
      /\ \/ /\ command' = "remove" /\ dirs' = dirs
            /\ \A r \in Commands!Roots, b \in Assets, e \in Commands!Names :
                  r # args.dst => files'[<<r, b, e>>] = files[<<r, b, e>>]
            /\ \A b \in Assets, e \in Commands!Names :
                  b # a => files'[<<args.dst, b, e>>] = files[<<args.dst, b, e>>]
         \/ /\ command' \in {"remove", "copy"} /\ files' = files
            /\ \E part \in Commands!Parts : dirs' = dirs \ {<<args.dst, a, part>>}
            /\ \A e \in Commands!Names : files[<<args.dst, a, e>>] = "absent"
  BY <1>2, <1>3, RemoveTreeTypes
<1>5. /\ \A b \in Assets : HasAsset(b)' <=> HasAsset(b)
      /\ \A b \in Assets \ {a} : HasCopy(b)' <=> HasCopy(b)
  BY <1>1, <1>4 DEF HasAsset, HasCopy
<1>6. /\ \A b \in Assets, e \in Commands!Names : files'[<<"magic", b, e>>] = files[<<"magic", b, e>>]
      /\ \A b \in Assets \ {a}, e \in Commands!Names : files'[<<"target", b, e>>] = files[<<"target", b, e>>]
  BY <1>1, <1>4 DEF Commands!Roots
<1>7. Untouched'
  BY <1>1, <1>4, <1>5, <1>6, UntouchedStays
<1>8. ASSUME NEW k \in 1..(record - 1) PROVE DoneFor(l[k])'
  BY <1>1, <1>2, <1>3, <1>4, <1>5, <1>6, EarlierStay DEF Running
<1>9. AtHand(a)'
  <2>1. args.copy /\ element = 1
    BY <1>1, <1>2, <1>3 DEF Progress, Running, AtHand
  <2>. QED BY <1>1, <1>4, <2>1 DEF AtHand
<1>10. Progress'
  <2>1. Finished(l)' = record - 1 /\ listing' = {l} /\ a = l[record]'
    BY <1>2, <1>3, <1>4 DEF Finished, Running
  <2>. QED BY <1>8, <1>9, <2>1 DEF Progress
<1>. QED BY <1>4, <1>7, <1>10 DEF CopyRecovers, Commands!CopyRecovers

LEMMA CopyTreeHolds ==
    ASSUME LibTypeOK, Untouched, InPlace, Progress, Commands!CopyTree
    PROVE  Untouched' /\ Progress' /\ CopyRecovers'
<1>1. command = "copy" /\ args.dst = "target" /\ opened = {}
  BY DEF Commands!CopyTree, Commands!At, Untouched
<1>2. PICK l \in Seq(Assets) : /\ listing = {l} /\ record \in 1..Len(l)
                               /\ Commands!Current = l[record] /\ l[record] \in Assets
  BY <1>1, AtRecord DEF LibTypeOK
<1>3. PICK a \in Assets : a = l[record]
  BY <1>2
<1>4. UNCHANGED <<args, record, element, listing>>
  BY <1>2, <1>3, CopyTreeTypes
<1>5. /\ args.copy /\ element = 1
      /\ \A x \in Commands!Names : files[<<"target", a, x>>] # "absent" => WillBe(a, x, "original")
  BY <1>1, <1>2, <1>3 DEF Progress, Running, AtHand
<1>6. \A x \in Commands!Names : files[<<"target", a, x>>] # "absent" => files[<<"target", a, x>>] = "original"
  BY <1>1, <1>5 DEF WillBe
<1>7. CASE ~ HasAsset(a) /\ command' = "idle" /\ result' = "failed" /\ UNCHANGED <<opened, dirs, files>>
  <2>1. Untouched'
    BY <1>1, <1>4, <1>7, UntouchedStays DEF HasAsset
  <2>2. Progress'
    BY <1>7, NothingDone DEF Running
  <2>3. CopyRecovers'
    <3>1. a \in Commands!Recorded(l) /\ <<"magic", a, "asset">> \notin dirs'
      BY <1>2, <1>3, <1>7 DEF Commands!Recorded, HasAsset
    <3>2. l \in listing'
      BY <1>2, <1>4
    <3>3. Commands!CopyRecovers'
      BY <3>1, <3>2 DEF Commands!CopyRecovers, Commands!Recorded, Commands!Has
    <3>. QED BY <3>3 DEF CopyRecovers
  <2>. QED BY <2>1, <2>2, <2>3
<1>8. CASE /\ HasAsset(a) /\ command' = "scale" /\ UNCHANGED <<opened, dirs, files>>
           /\ <<"magic", a, "makeup">> \in dirs => <<args.dst, a, "makeup">> \in dirs
           /\ \A e \in Commands!Names :
                 files[<<"magic", a, e>>] # "absent" => files[<<args.dst, a, e>>] # "absent"
  <2>1. /\ \A b \in Assets : HasAsset(b)' <=> HasAsset(b)
        /\ \A b \in Assets \ {a} : HasCopy(b)' <=> HasCopy(b)
        /\ HasCopy(a)'
    BY <1>1, <1>8 DEF HasAsset, HasCopy, InPlace
  <2>2. Untouched'
    BY <1>1, <1>4, <1>8, <2>1, UntouchedStays
  <2>3. ASSUME NEW k \in 1..(record - 1) PROVE DoneFor(l[k])'
    BY <1>1, <1>2, <1>3, <1>4, <1>8, <2>1, EarlierStay DEF Running
  <2>4. AtHand(a)'
    <3>1. files[<<"magic", a, Commands!Config>>] = "original"
      BY <1>8, ConfigIsFile DEF Untouched
    <3>2. files[<<"target", a, Commands!Config>>] = "original"
      BY <1>1, <1>6, <1>8, <3>1, ConfigIsFile
    <3>3. WillBe(a, Commands!Config, "original")'
      BY <1>1, <1>8, <3>2 DEF WillBe
    <3>4. Len(Records[a]) \in Nat
      BY AssetLibraryAssumption
    <3>. QED BY <1>4, <1>5, <1>8, <2>1, <3>3, <3>4 DEF AtHand
  <2>5. Progress'
    <3>1. Finished(l)' = record - 1 /\ listing' = {l} /\ a = l[record]'
      BY <1>2, <1>3, <1>4, <1>8 DEF Finished, Running
    <3>. QED BY <2>3, <2>4, <3>1 DEF Progress
  <2>. QED BY <1>8, <2>2, <2>5 DEF CopyRecovers, Commands!CopyRecovers
<1>9. ASSUME NEW e \in Commands!Names,
             HasAsset(a), command' = "copy", dirs' = dirs,
             files[<<"magic", a, e>>] # "absent",
             opened' = {<<args.dst, a, e, files[<<"magic", a, e>>]>>},
             \A s \in Commands!Roots, b \in Assets, x \in Commands!Names :
                <<s, b, x>> # <<args.dst, a, e>> => files'[<<s, b, x>>] = files[<<s, b, x>>]
      PROVE  Untouched' /\ Progress' /\ CopyRecovers'
  <2>1. opened' = {<<"target", a, e, "original">>}
    BY <1>1, <1>9 DEF Untouched
  <2>2. /\ \A b \in Assets : HasAsset(b)' <=> HasAsset(b)
        /\ \A b \in Assets \ {a} : HasCopy(b)' <=> HasCopy(b)
    BY <1>1, <1>9 DEF HasAsset, HasCopy
  <2>3. /\ \A b \in Assets, x \in Commands!Names : files'[<<"magic", b, x>>] = files[<<"magic", b, x>>]
        /\ \A b \in Assets, x \in Commands!Names :
              <<b, x>> # <<a, e>> => files'[<<"target", b, x>>] = files[<<"target", b, x>>]
    BY <1>1, <1>9 DEF Commands!Roots
  <2>4. Untouched'
    BY <1>1, <1>4, <2>2, <2>3, UntouchedStays
  <2>5. ASSUME NEW k \in 1..(record - 1) PROVE DoneFor(l[k])'
    <3>1. \A o \in opened' : o[2] = l[record]
      BY <1>3, <2>1
    <3>2. \A b \in Assets \ {l[record]}, x \in Commands!Names :
             files'[<<"target", b, x>>] = files[<<"target", b, x>>]
      BY <1>3, <2>3
    <3>. QED BY <1>1, <1>2, <1>3, <1>4, <2>2, <3>1, <3>2, EarlierStay DEF Running
  <2>6. ASSUME NEW x \in Commands!Names, files'[<<"target", a, x>>] # "absent"
        PROVE  WillBe(a, x, "original")'
    <3>1. CASE x = e
      BY <2>1, <3>1 DEF WillBe
    <3>2. CASE x # e
      <4>1. files'[<<"target", a, x>>] = "original"
        BY <1>6, <2>3, <2>6, <3>2
      <4>. QED BY <2>1, <3>2, <4>1 DEF WillBe
    <3>. QED BY <3>1, <3>2
  <2>7. AtHand(a)'
    BY <1>4, <1>5, <1>9, <2>6 DEF AtHand
  <2>8. Progress'
    <3>1. Finished(l)' = record - 1 /\ listing' = {l} /\ a = l[record]'
      BY <1>2, <1>3, <1>4, <1>9 DEF Finished, Running
    <3>. QED BY <2>5, <2>7, <3>1 DEF Progress
  <2>. QED BY <1>9, <2>4, <2>8 DEF CopyRecovers, Commands!CopyRecovers
<1>10. ASSUME HasAsset(a), command' = "copy", UNCHANGED <<opened, files>>,
              NEW part \in Commands!Parts, dirs' = dirs \cup {<<args.dst, a, part>>}
       PROVE  Untouched' /\ Progress' /\ CopyRecovers'
  <2>1. /\ \A b \in Assets : HasAsset(b)' <=> HasAsset(b)
        /\ \A b \in Assets \ {a} : HasCopy(b)' <=> HasCopy(b)
    BY <1>1, <1>10 DEF HasAsset, HasCopy
  <2>2. Untouched'
    BY <1>1, <1>4, <1>10, <2>1, UntouchedStays
  <2>3. ASSUME NEW k \in 1..(record - 1) PROVE DoneFor(l[k])'
    BY <1>1, <1>2, <1>3, <1>4, <1>10, <2>1, EarlierStay DEF Running
  <2>4. AtHand(a)'
    BY <1>4, <1>5, <1>10 DEF AtHand, WillBe
  <2>5. Progress'
    <3>1. Finished(l)' = record - 1 /\ listing' = {l} /\ a = l[record]'
      BY <1>2, <1>3, <1>4, <1>10 DEF Finished, Running
    <3>. QED BY <2>3, <2>4, <3>1 DEF Progress
  <2>. QED BY <1>10, <2>2, <2>5 DEF CopyRecovers, Commands!CopyRecovers
<1>. QED BY <1>2, <1>3, <1>7, <1>8, <1>9, <1>10, CopyTreeTypes

LEMMA ScaleHolds ==
    ASSUME LibTypeOK, Untouched, Progress, Commands!Scale
    PROVE  Untouched' /\ Progress' /\ CopyRecovers'
<1>1. command = "scale" /\ args.dst = "target"
  BY DEF Commands!Scale, Commands!AtElement, Commands!At, Untouched
<1>2. PICK l \in Seq(Assets) : /\ listing = {l} /\ record \in 1..Len(l)
                               /\ Commands!Current = l[record] /\ l[record] \in Assets
  BY <1>1, AtRecord DEF LibTypeOK
<1>3. PICK a \in Assets : a = l[record]
  BY <1>2
<1>4. PICK e : e = Records[a][element]
  OBVIOUS
<1>5. /\ command' = "scale" /\ opened = {}
      /\ element \in 1..Len(Records[a]) /\ element' = element + 1
      /\ UNCHANGED <<args, record, listing, dirs>>
      /\ files[<<"magic", a, e>>] # "absent" /\ HasCopy(a)
      /\ opened' = {<<"target", a, e, Commands!Scaled(files[<<"magic", a, e>>])>>}
      /\ \A s \in Commands!Roots, b \in Assets, x \in Commands!Names :
            <<s, b, x>> # <<"target", a, e>> => files'[<<s, b, x>>] = files[<<s, b, x>>]
  <2>1. Commands!Current = a
    BY <1>2, <1>3
  <2>2. /\ command' = "scale" /\ opened = {}
        /\ element \in 1..Len(Records[a]) /\ element' = element + 1
        /\ UNCHANGED <<args, record, listing, dirs>>
    BY <2>1, ScaleTypes
  <2>3. /\ files[<<"magic", a, Records[a][element]>>] # "absent"
        /\ opened' = {<<args.dst, a, Records[a][element],
                        Commands!Scaled(files[<<"magic", a, Records[a][element]>>])>>}
    BY <2>1, ScaleTypes
  <2>5. HasCopy(a)
    BY <1>1, <2>1, ScaleTypes DEF HasCopy
  <2>4. \A s \in Commands!Roots, b \in Assets, x \in Commands!Names :
           <<s, b, x>> # <<args.dst, a, Records[a][element]>> =>
              files'[<<s, b, x>>] = files[<<s, b, x>>]
    BY <2>1, ScaleTypes
  <2>. QED BY <1>1, <1>4, <2>2, <2>3, <2>4, <2>5
<1>6. e \in Commands!Names /\ e \in ListedOf(a) /\ e # Commands!Config
  BY <1>4, <1>5, ElementFacts
<1>7. HasAsset(a) /\ opened' = {<<"target", a, e, "scaled">>}
  BY <1>5, <1>6, SourceFacts DEF Commands!Scaled
<1>8. /\ \A b \in Assets : HasAsset(b)' <=> HasAsset(b)
      /\ \A b \in Assets : HasCopy(b)' <=> HasCopy(b)
  BY <1>5 DEF HasAsset, HasCopy
<1>9. /\ \A b \in Assets, x \in Commands!Names : files'[<<"magic", b, x>>] = files[<<"magic", b, x>>]
      /\ \A b \in Assets, x \in Commands!Names :
            <<b, x>> # <<a, e>> => files'[<<"target", b, x>>] = files[<<"target", b, x>>]
  BY <1>5 DEF Commands!Roots
<1>10. Untouched'
  BY <1>1, <1>5, <1>8, <1>9, UntouchedStays
<1>11. ASSUME NEW k \in 1..(record - 1) PROVE DoneFor(l[k])'
  <2>1. \A o \in opened' : o[2] = l[record]
    BY <1>3, <1>7
  <2>2. \A b \in Assets \ {l[record]}, x \in Commands!Names :
           files'[<<"target", b, x>>] = files[<<"target", b, x>>]
    BY <1>3, <1>9
  <2>. QED BY <1>1, <1>2, <1>5, <1>8, <2>1, <2>2, EarlierStay DEF Running
<1>12. AtHand(a)
  BY <1>1, <1>2, <1>3 DEF Progress, Running
<1>13. ASSUME NEW x \in Commands!Names, NEW k, x # e, WillBe(a, x, k) PROVE WillBe(a, x, k)'
  <2>1. files'[<<"target", a, x>>] = files[<<"target", a, x>>]
    BY <1>9, <1>13
  <2>2. \A o \in opened' : <<o[2], o[3]>> # <<a, x>>
    BY <1>7, <1>13
  <2>. QED BY <1>5, <1>13, <2>1, <2>2, WillStay
<1>14. WillBe(a, e, "scaled")'
  BY <1>7 DEF WillBe
<1>15. AtHand(a)'
  <2>1. element' <= Len(Records[a]) + 1 /\ Len(Records[a]) \in Nat
    BY <1>5, AssetLibraryAssumption
  <2>2. ASSUME NEW j \in 1..(element' - 1)
        PROVE  /\ Records[a][j][1] = "img" => HasAsset(a)
               /\ HasAsset(a) /\ HasCopy(a) /\ Records[a][j] \notin MissingTex[a]
                     => WillBe(a, Records[a][j], "scaled")'
    <3>1. CASE Records[a][j] = e
      BY <1>7, <1>14, <3>1
    <3>2. CASE Records[a][j] # e
      <4>1. j \in 1..(element - 1) /\ j \in 1..Len(Records[a])
        BY <1>4, <1>5, <2>1, <3>2
      <4>2. Records[a][j] \in Commands!Names
        BY <4>1, ElementFacts
      <4>. QED BY <1>1, <1>7, <1>12, <1>13, <3>2, <4>1, <4>2 DEF AtHand
    <3>. QED BY <3>1, <3>2
  <2>3. args.copy => HasAsset(a) /\ HasCopy(a) /\ WillBe(a, Commands!Config, "original")'
    BY <1>1, <1>6, <1>12, <1>13, ConfigIsFile DEF AtHand
  <2>. QED BY <1>5, <1>8, <2>1, <2>2, <2>3 DEF AtHand
<1>16. Progress'
  <2>1. Finished(l)' = record - 1 /\ listing' = {l} /\ a = l[record]'
    BY <1>2, <1>3, <1>5 DEF Finished, Running
  <2>. QED BY <1>11, <1>15, <2>1 DEF Progress
<1>. QED BY <1>5, <1>10, <1>16 DEF CopyRecovers, Commands!CopyRecovers

LEMMA MarkHolds ==
    ASSUME LibTypeOK, Untouched, InPlace, Progress, Commands!Mark
    PROVE  Untouched' /\ Progress' /\ CopyRecovers'
<1>1. command = "mark" /\ args.dst = "target"
  BY DEF Commands!Mark, Commands!At, Untouched
<1>2. PICK l \in Seq(Assets) : /\ listing = {l} /\ record \in 1..Len(l)
                               /\ Commands!Current = l[record] /\ l[record] \in Assets
  BY <1>1, AtRecord DEF LibTypeOK
<1>3. PICK a \in Assets : a = l[record]
  BY <1>2
<1>4. UNCHANGED <<args, listing, dirs>> /\ opened = {}
  BY <1>2, <1>3, MarkTypes
<1>5. /\ args.copy => HasCopy(a) /\ WillBe(a, Commands!Config, "original")
      /\ IF HasCopy(a) THEN ScaledAll(a) ELSE OnlyImages(a)
  BY <1>1, <1>2, <1>3 DEF Progress, Running, AtHand
<1>6. /\ \A b \in Assets : HasAsset(b)' <=> HasAsset(b)
      /\ \A b \in Assets : HasCopy(b)' <=> HasCopy(b)
  BY <1>4 DEF HasAsset, HasCopy
<1>7. CASE /\ command' = "idle" /\ result' = "failed" /\ UNCHANGED <<opened, files, record>>
           /\ files[<<args.dst, a, Commands!Config>>] \in {"absent", "empty"}
  <2>1. ~ args.copy
    BY <1>1, <1>4, <1>5, <1>7 DEF WillBe
  <2>2. Untouched'
    BY <1>1, <1>4, <1>6, <1>7, UntouchedStays
  <2>3. Progress'
    BY <1>7, NothingDone DEF Running
  <2>. QED BY <1>4, <2>1, <2>2, <2>3 DEF CopyRecovers, Commands!CopyRecovers
<1>8. CASE /\ command' = "line" /\ record' = record + 1
           /\ files[<<args.dst, a, Commands!Config>>] # "absent"
           /\ opened' = {<<args.dst, a, Commands!Config, "marked">>}
           /\ \A s \in Commands!Roots, b \in Assets, x \in Commands!Names :
                 <<s, b, x>> # <<args.dst, a, Commands!Config>> =>
                    files'[<<s, b, x>>] = files[<<s, b, x>>]
  <2>1. /\ \A b \in Assets, x \in Commands!Names : files'[<<"magic", b, x>>] = files[<<"magic", b, x>>]
        /\ \A b \in Assets, x \in Commands!Names :
              <<b, x>> # <<a, Commands!Config>> => files'[<<"target", b, x>>] = files[<<"target", b, x>>]
    BY <1>1, <1>8 DEF Commands!Roots
  <2>2. Untouched'
    BY <1>1, <1>4, <1>6, <2>1, UntouchedStays
  <2>3. ASSUME NEW k \in 1..(record - 1) PROVE DoneFor(l[k])'
    <3>1. \A o \in opened' : o[2] = l[record]
      BY <1>3, <1>8
    <3>2. \A b \in Assets \ {l[record]}, x \in Commands!Names :
             files'[<<"target", b, x>>] = files[<<"target", b, x>>]
      BY <1>3, <2>1
    <3>. QED BY <1>1, <1>2, <1>4, <1>6, <3>1, <3>2, EarlierStay DEF Running
  <2>4. ASSUME ScaledAll(a) PROVE ScaledAll(a)'
    <3>1. ASSUME NEW x \in ListedOf(a), WillBe(a, x, "scaled") PROVE WillBe(a, x, "scaled")'
      <4>1. x \in Commands!Names /\ x # Commands!Config
        BY ElementFacts DEF ListedOf
      <4>2. files'[<<"target", a, x>>] = files[<<"target", a, x>>]
        BY <2>1, <4>1
      <4>3. \A o \in opened' : <<o[2], o[3]>> # <<a, x>>
        BY <1>8, <4>1
      <4>. QED BY <1>4, <3>1, <4>2, <4>3, WillStay
    <3>. QED BY <2>4, <3>1 DEF ScaledAll
  <2>5. WillBe(a, Commands!Config, "marked")'
    BY <1>1, <1>8 DEF WillBe
  <2>6. DoneFor(a)'
    <3>1. HasCopy(a)
      BY <1>1, <1>8, ConfigIsFile DEF InPlace
    <3>. QED BY <1>4, <1>5, <1>6, <2>4, <2>5, <3>1 DEF DoneFor
  <2>7. ASSUME NEW k \in 1..record PROVE DoneFor(l[k])'
    <3>1. CASE k = record
      BY <1>3, <2>6, <3>1
    <3>2. CASE k # record
      BY <1>2, <2>3, <3>2
    <3>. QED BY <3>1, <3>2
  <2>8. \A b : AtHand(b)'
    BY <1>8 DEF AtHand
  <2>9. Finished(l)' = record /\ listing' = {l}
    BY <1>2, <1>4, <1>8 DEF Finished, Running
  <2>10. Progress'
    BY <2>7, <2>8, <2>9 DEF Progress
  <2>. QED BY <1>8, <2>2, <2>10 DEF CopyRecovers, Commands!CopyRecovers
<1>. QED BY <1>2, <1>3, <1>7, <1>8, MarkTypes

\* Every step keeps the work done and the library as it is.
LEMMA StepTypes == LibTypeOK /\ [Commands!Next]_Commands!vars => LibTypeOK'
<1>. SUFFICES ASSUME LibTypeOK, [Commands!Next]_Commands!vars PROVE LibTypeOK'
  OBVIOUS
<1>1. ASSUME command \in {"remove", "copy", "scale", "mark"}
      PROVE  \E a \in Assets : Commands!Current = a
  BY <1>1, AtRecord DEF LibTypeOK
<1>2. CASE \/ Commands!StartDownsample \/ Commands!StartLine \/ Commands!EndRun \/ Commands!Skip
           \/ Commands!ScaleFails \/ Commands!EndScale \/ Commands!EndUpdate
  BY <1>2, MovesOn
<1>3. CASE Commands!StartUpdate \/ \E a \in Assets : Commands!ListAsset(a)
  BY <1>3, ListGrows
<1>4. CASE Commands!RemoveTree
  BY <1>1, <1>4, RemoveTreeTypes DEF Commands!RemoveTree, Commands!At
<1>5. CASE Commands!CopyTree
  BY <1>1, <1>5, CopyTreeTypes DEF Commands!CopyTree, Commands!At
<1>6. CASE Commands!Scale
  BY <1>1, <1>6, ScaleTypes DEF Commands!Scale, Commands!AtElement, Commands!At
<1>7. CASE Commands!Mark
  BY <1>1, <1>7, MarkTypes DEF Commands!Mark, Commands!At
<1>8. CASE Commands!Fill
  BY <1>8, FillTypes
<1>9. CASE Commands!Kill
  BY <1>9, KillTypes
<1>10. CASE \E a \in Assets : Commands!RemoveAsset(a)
  BY <1>10, RemoveAssetTypes
<1>11. CASE UNCHANGED Commands!vars
  BY <1>11 DEF Commands!vars, Commands!given, Commands!place, Commands!tree, LibTypeOK, ListOK,
     OpenOK, Running
<1>. QED BY <1>2, <1>3, <1>4, <1>5, <1>6, <1>7, <1>8, <1>9, <1>10, <1>11
       DEF Commands!Next, Commands!Update, Commands!Downscale

\* No step takes an asset apart or writes where there is no directory.
LEMMA InPlaceHolds ==
    ASSUME LibTypeOK, args.dst = "target", InPlace, [Commands!Next]_Commands!vars
    PROVE  InPlace'
<1>. USE DEF Commands!Roots
<1>1. ASSUME UNCHANGED <<dirs, files>> PROVE InPlace'
  BY <1>1 DEF InPlace, HasAsset, HasCopy
<1>2. ASSUME command \in {"remove", "copy", "scale", "mark"}
      PROVE  \E a \in Assets : Commands!Current = a
  BY <1>2, AtRecord DEF LibTypeOK
<1>3. CASE \/ Commands!StartDownsample \/ Commands!StartLine \/ Commands!EndRun \/ Commands!Skip
           \/ Commands!ScaleFails \/ Commands!EndScale \/ Commands!EndUpdate
  BY <1>1, <1>3, MovesOn
<1>4. CASE Commands!StartUpdate \/ \E a \in Assets : Commands!ListAsset(a)
  BY <1>1, <1>4, ListGrows
<1>5. CASE Commands!Kill
  BY <1>1, <1>5, KillTypes
<1>6. CASE Commands!RemoveTree
  <2>1. PICK a \in Assets : Commands!Current = a
    BY <1>2, <1>6 DEF Commands!RemoveTree, Commands!At
  <2>2. \/ /\ dirs' = dirs
           /\ \A b \in Assets, e \in Commands!Names :
                 b # a => files'[<<"target", b, e>>] = files[<<"target", b, e>>]
           /\ \A e \in Commands!Names :
                 files'[<<"target", a, e>>] \in {files[<<"target", a, e>>], "absent"}
        \/ /\ files' = files
           /\ \E part \in Commands!Parts : dirs' = dirs \ {<<"target", a, part>>}
           /\ \A e \in Commands!Names : files[<<"target", a, e>>] = "absent"
    BY <1>6, <2>1, RemoveTreeTypes
  <2>. QED BY <2>2 DEF InPlace, HasAsset, HasCopy
<1>7. CASE Commands!CopyTree
  <2>1. PICK a \in Assets : Commands!Current = a
    BY <1>2, <1>7 DEF Commands!CopyTree, Commands!At
  <2>2. \/ UNCHANGED <<dirs, files>>
        \/ files' = files /\ \E part \in Commands!Parts : dirs' = dirs \cup {<<"target", a, part>>}
        \/ /\ HasAsset(a) /\ dirs' = dirs
           /\ <<"magic", a, "makeup">> \in dirs => <<"target", a, "makeup">> \in dirs
           /\ \E e \in Commands!Names :
                \A b \in Assets, x \in Commands!Names :
                   <<"target", b, x>> # <<"target", a, e>> =>
                      files'[<<"target", b, x>>] = files[<<"target", b, x>>]
    BY <1>7, <2>1, CopyTreeTypes
  <2>. QED BY <1>1, <2>2 DEF InPlace, HasAsset, HasCopy
<1>8. CASE Commands!Scale
  <2>1. PICK a \in Assets : Commands!Current = a
    BY <1>2, <1>8 DEF Commands!Scale, Commands!AtElement, Commands!At
  <2>2. PICK e : e = Records[a][element]
    OBVIOUS
  <2>3. /\ dirs' = dirs /\ <<"target", a, "makeup">> \in dirs
        /\ \A b \in Assets, x \in Commands!Names :
              <<"target", b, x>> # <<"target", a, e>> =>
                 files'[<<"target", b, x>>] = files[<<"target", b, x>>]
    BY <1>8, <2>1, <2>2, ScaleTypes
  <2>. QED BY <2>3 DEF InPlace, HasAsset, HasCopy
<1>9. CASE Commands!Mark
  <2>1. PICK a \in Assets : Commands!Current = a
    BY <1>2, <1>9 DEF Commands!Mark, Commands!At
  <2>2. /\ dirs' = dirs
        /\ \/ files' = files
           \/ /\ files[<<"target", a, Commands!Config>>] # "absent"
              /\ \A b \in Assets, x \in Commands!Names :
                    <<"target", b, x>> # <<"target", a, Commands!Config>> =>
                       files'[<<"target", b, x>>] = files[<<"target", b, x>>]
    BY <1>9, <2>1, MarkTypes
  <2>. QED BY <1>1, <2>2, ConfigIsFile DEF InPlace, HasAsset, HasCopy
<1>10. CASE Commands!Fill
  <2>1. dirs' = dirs
    BY <1>10, FillTypes
  <2>2. PICK a \in Assets, e \in Commands!Names, c \in Commands!Contents :
           opened = {<<"target", a, e, c>>} /\ files' = [files EXCEPT ![<<"target", a, e>>] = c]
    BY <1>10, FillTypes
  <2>3. files[<<"target", a, e>>] = "empty"
    BY <2>2 DEF LibTypeOK, OpenOK
  <2>4. \A b \in Assets, x \in Commands!Names :
           <<"target", b, x>> # <<"target", a, e>> =>
              files'[<<"target", b, x>>] = files[<<"target", b, x>>]
    BY <2>2 DEF LibTypeOK
  <2>. QED BY <2>1, <2>3, <2>4 DEF InPlace, HasAsset, HasCopy
<1>11. CASE \E a \in Assets : Commands!RemoveAsset(a)
  <2>1. PICK a \in Assets :
           /\ dirs' = dirs \ ({"magic"} \X {a} \X Commands!Parts)
           /\ \A b \in Assets, e \in Commands!Names :
                 files'[<<"target", b, e>>] = files[<<"target", b, e>>]
    BY <1>11, RemoveAssetTypes
  <2>. QED BY <2>1 DEF InPlace, HasAsset, HasCopy, Commands!Parts
<1>12. CASE UNCHANGED Commands!vars
  BY <1>1, <1>12 DEF Commands!vars, Commands!tree
<1>. QED BY <1>3, <1>4, <1>5, <1>6, <1>7, <1>8, <1>9, <1>10, <1>11, <1>12
       DEF Commands!Next, Commands!Update, Commands!Downscale

LEMMA StepHolds == LibInv /\ [Commands!Next]_Commands!vars => LibInv'
<1>. SUFFICES ASSUME LibInv, [Commands!Next]_Commands!vars PROVE LibInv'
  OBVIOUS
<1>1. LibTypeOK /\ LibTypeOK'
  BY StepTypes DEF LibInv
<1>. SUFFICES ASSUME ~ misspelled'
              PROVE  Untouched' /\ InPlace' /\ Progress' /\ CopyRecovers'
  BY <1>1 DEF LibInv
<1>2. ~ misspelled
  BY DEF Commands!Next, Commands!Update, Commands!Downscale, Commands!StartUpdate, Commands!ListAsset,
     Commands!EndUpdate, Commands!StartDownsample, Commands!StartLine, Commands!RemoveTree,
     Commands!CopyTree, Commands!Scale, Commands!Skip, Commands!ScaleFails, Commands!EndScale,
     Commands!ScaledUpTo, Commands!Mark, Commands!EndRun, Commands!Fill, Commands!Kill,
     Commands!RemoveAsset, Commands!given, Commands!vars
<1>3. Untouched /\ InPlace /\ Progress /\ CopyRecovers
  BY <1>2 DEF LibInv
<1>8. InPlace'
  BY <1>1, <1>3, InPlaceHolds DEF Untouched
<1>4. CASE Commands!Update
  BY <1>1, <1>3, <1>4, <1>8, UpdateHolds DEF Commands!Update
<1>5. CASE Commands!Downscale
  BY <1>1, <1>3, <1>5, <1>8, StartHolds, LineHolds, RemoveTreeHolds, CopyTreeHolds, ScaleHolds, SkipHolds,
     ScaleFailsHolds, EndScaleHolds, MarkHolds DEF Commands!Downscale
<1>6. CASE Commands!Fill \/ Commands!Kill \/ \E a \in Assets : Commands!RemoveAsset(a)
  BY <1>1, <1>3, <1>6, <1>8, FillHolds, KillHolds, RemoveAssetHolds
<1>7. CASE UNCHANGED Commands!vars
  <2>1. UNCHANGED <<command, args, record, element, opened, listing, dirs, files, result, misspelled>>
    BY <1>7 DEF Commands!vars, Commands!given, Commands!place, Commands!tree
  <2>2. Untouched' /\ CopyRecovers'
    BY <1>3, <2>1 DEF Untouched, HasAsset, CopyRecovers, Commands!CopyRecovers, Commands!Recorded, Commands!Has
  <2>3. /\ \A b : DoneFor(b)' <=> DoneFor(b)
        /\ \A b : AtHand(b)' <=> AtHand(b)
    BY <2>1 DEF DoneFor, AtHand, ScaledAll, WillBe, HasCopy, HasAsset, OnlyImages, ListedOf
  <2>4. \A l : Finished(l)' = Finished(l)
    BY <2>1 DEF Finished, Running
  <2>5. Progress'
    BY <1>3, <2>1, <2>3, <2>4 DEF Progress, Running
  <2>. QED BY <1>8, <2>2, <2>5
<1>. QED BY <1>4, <1>5, <1>6, <1>7 DEF Commands!Next

LEMMA LibInvHolds == Commands!Spec => []LibInv
<1>. QED BY InitLib, StepHolds, PTL DEF Commands!Spec

\* A --downsample that comes to its end has done its work, whatever earlier
\* commands left behind them, as long as --magic was always spelled alike; an
\* asset is passed over only without --copy, when there is no directory for its
\* images and none of its tex files (downsample.py:107-111, 204-226).
THEOREM OkMeansDoneCorrect == Commands!Spec => []OkMeansDone
<1>1. LibInv => OkMeansDone
  <2>. SUFFICES ASSUME LibInv, command = "idle", result = "ok", ~ misspelled,
                       NEW l \in listing, NEW a \in Commands!Recorded(l)
                PROVE  \/ Commands!PassedOver(a)
                       \/ /\ HasCopy(a)
                          /\ \A e \in Commands!Listed(a) \ MissingTex[a] :
                                files[<<"target", a, e>>] = "scaled"
                          /\ args.add_needscale => files[<<"target", a, Commands!Config>>] = "marked"
    BY DEF OkMeansDone, Commands!OkMeansDone, Commands!Has, HasCopy
  <2>1. opened = {}
    BY DEF LibInv, LibTypeOK, OpenOK
  <2>2. PICK k \in 1..Len(l) : a = l[k]
    BY DEF Commands!Recorded
  <2>3. Finished(l) = Len(l)
    BY DEF Finished, Running
  <2>4. DoneFor(a)
    BY <2>2, <2>3 DEF LibInv, Progress
  <2>5. CASE HasCopy(a)
    BY <2>1, <2>4, <2>5 DEF DoneFor, ScaledAll, WillBe, ListedOf, Commands!Listed
  <2>6. CASE ~ HasCopy(a)
    BY <2>4, <2>6 DEF DoneFor, OnlyImages, HasCopy, ListedOf, Commands!PassedOver, Commands!Has,
       Commands!Listed, Commands!IsImage
  <2>. QED BY <2>5, <2>6
<1>. QED BY <1>1, LibInvHolds, PTL

\* A command with --copy fails only for want of a list file or of an asset that
\* is listed: it gets over whatever earlier ones left (downsample.py:212-215).
THEOREM CopyRecoversCorrect == Commands!Spec => []CopyRecovers
<1>1. LibInv => CopyRecovers
  BY DEF LibInv, CopyRecovers, Commands!CopyRecovers
<1>. QED BY <1>1, LibInvHolds, PTL
=============================================================================
