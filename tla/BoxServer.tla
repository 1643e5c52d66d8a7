----------------------------- MODULE BoxServer -----------------------------
(***************************************************************************)
(* python/simple_web_server_boxcallback.py: an HTTP server of one thread   *)
(* that judges heartbeats by what it remembers of the one before, and      *)
(* stores alarms and face images in files.                                 *)
(*                                                                         *)
(* Requests are handled one at a time, in any order.  What a request asks  *)
(* for is a list of files to write and at most one line for meta_data.txt; *)
(* an exception ends it after some of the files or within one, and then    *)
(* there is no answer.  A heartbeat is a list of tasks with their times,   *)
(* in any order, gone through entry by entry.  The server may be           *)
(* interrupted anywhere and started again.                                 *)
(***************************************************************************)
EXTENDS Integers, Sequences

CONSTANTS Tasks,        \* taskList_
          Unknown,      \* task ids the server was not started with
          Heartbeats,   \* the lists of entries a heartbeat may carry
          Stores,       \* what the requests that store something ask for
          MaxTime,      \* bound on lastUpdateTime
          MaxRequests,  \* bound on the requests
          MaxInterrupts \* bound on the interruptions

Range(s) == {s[k] : k \in 1..Len(s)}
Names == UNION {Range(r.files) \cup r.line : r \in Stores}

ASSUME BoxServerAssumption ==
    /\ Tasks \cap Unknown = {}
    /\ \A h \in Heartbeats :
          h \in Seq([taskId : Tasks \cup Unknown, lastUpdateTime : 0..MaxTime])
    /\ \A r \in Stores : r.files \in Seq(Names) /\ r.fails_after \in Nat
    /\ \A r, s \in Stores : r.line \cap Range(s.files) \subseteq Range(r.files)
    /\ MaxTime \in Nat /\ MaxRequests \in Nat /\ MaxInterrupts \in Nat

VARIABLES
    pc,             \* what the server is doing
    taskUpdateInfo_,    \* the update time of each task, 0 for ''
    taskInfo,       \* the entries of the last heartbeat
    reported,       \* those of them found not to have changed
    request,        \* the storing request at hand: none or one
    done,           \* files of it written, or entries of the heartbeat gone through
    images,         \* the request each image file is from, or NoFile or Empty
    meta_data,      \* the lines: name and request
    answered,       \* storing requests answered with 200
    received,       \* history: the heartbeats since the server started
    torn,           \* history: files whose last writing was broken off
    requests, interrupts

memory == <<taskUpdateInfo_, taskInfo, reported, received>>
disk == <<images, meta_data, torn>>
vars == <<pc, memory, request, done, disk, answered, requests, interrupts>>

NoFile == -1    \* not there
Empty == 0      \* opened and not written

\* Shape of the state.
TypeOK ==
    /\ pc \in {"idle", "heartbeat", "store", "write", "answer", "stopped"}
    /\ taskUpdateInfo_ \in [Tasks -> 0..MaxTime]
    /\ request \subseteq Stores
    /\ \A r \in request : done \in 0..Len(r.files)
    /\ images \in [Names -> NoFile..MaxRequests]
    /\ meta_data \subseteq Names \X (1..MaxRequests)
    /\ answered \subseteq Stores \X (1..MaxRequests)
    /\ received \in Seq(Heartbeats) /\ taskInfo \in Heartbeats \cup {<< >>}
    /\ reported \subseteq DOMAIN taskInfo
    /\ pc = "heartbeat" => done \in 0..Len(taskInfo)
    /\ torn \subseteq Names
    /\ requests \in 0..MaxRequests /\ interrupts \in 0..MaxInterrupts

Fresh == [task \in Tasks |-> 0]

Init ==
    /\ pc = "idle"
    /\ taskUpdateInfo_ = Fresh /\ taskInfo = << >> /\ reported = {} /\ received = << >>
    /\ request = {} /\ done = 0
    /\ images = [name \in Names |-> NoFile]
    /\ meta_data = {} /\ torn = {}
    /\ answered = {}
    /\ requests = 0 /\ interrupts = 0

Arrives == pc = "idle" /\ requests < MaxRequests /\ requests' = requests + 1

-----------------------------------------------------------------------------
(* check_heartbeat *)

CheckHeartbeat(h) ==
    /\ Arrives
    /\ pc' = "heartbeat"
    /\ taskInfo' = h /\ done' = 0 /\ reported' = {}
    /\ received' = Append(received, h)
    /\ UNCHANGED <<taskUpdateInfo_, request, disk, answered, interrupts>>

\* Mutant: only the first time of a task is recorded.
RecordFirst(e) ==
    IF taskUpdateInfo_[e.taskId] = 0
      THEN [taskUpdateInfo_ EXCEPT ![e.taskId] = e.lastUpdateTime] ELSE taskUpdateInfo_

\* taskUpdateInfo_ after an entry.
Record(e) == [taskUpdateInfo_ EXCEPT ![e.taskId] = e.lastUpdateTime]

\* The next entry is about a task the server knows.
JudgeEntry(e) ==
    /\ e.taskId \in Tasks
    /\ reported' = IF e.lastUpdateTime = taskUpdateInfo_[e.taskId]
                     THEN reported \cup {done + 1} ELSE reported
    /\ taskUpdateInfo_' = Record(e)
    /\ done' = done + 1
    /\ UNCHANGED pc

\* It is not: the warning about that names taskList_, which is not defined, and
\* raises.  The entries behind it are not looked at, and there is no answer.
UnknownTask(e) ==
    /\ e.taskId \notin Tasks
    /\ pc' = "idle"
    /\ UNCHANGED <<taskUpdateInfo_, reported, done>>

NextEntry ==
    /\ pc = "heartbeat" /\ done < Len(taskInfo)
    /\ JudgeEntry(taskInfo[done + 1]) \/ UnknownTask(taskInfo[done + 1])
    /\ UNCHANGED <<taskInfo, received, request, disk, answered, requests, interrupts>>

HeartbeatEnds ==
    /\ pc = "heartbeat" /\ done = Len(taskInfo)
    /\ pc' = "idle"
    /\ UNCHANGED <<memory, request, done, disk, answered, requests, interrupts>>

-----------------------------------------------------------------------------
(* store_alarm_info_new, storeFaceVideoStreamResult *)

Receive(r) ==
    /\ Arrives
    /\ pc' = "store"
    /\ request' = {r} /\ done' = 0
    /\ UNCHANGED <<memory, disk, answered, interrupts>>

\* The next file of the request is opened.
OpenImage(r) ==
    /\ pc = "store" /\ done < Len(r.files) /\ done < r.fails_after
    /\ images' = [images EXCEPT ![r.files[done + 1]] = Empty]
    /\ pc' = "write"
    /\ UNCHANGED <<memory, request, done, meta_data, torn, answered, requests, interrupts>>

Written(r, n) ==
    /\ pc = "write"
    /\ torn' = torn \ {r.files[done + 1]}
    /\ images' = [images EXCEPT ![r.files[done + 1]] = requests]
    /\ done' = done + n
    /\ pc' = "store"
    /\ UNCHANGED <<memory, request, meta_data, answered, requests, interrupts>>

\* Mutant: a small image is always followed by its background.
WritePair(r) == Written(r, 2)

WriteImage(r) == Written(r, 1)

\* Mutant: the line is written before the files.
LineFirst(r) ==
    /\ pc = "store" /\ done = 0 /\ done < r.fails_after
    /\ meta_data' = meta_data \cup (r.line \X {requests})
    /\ pc' = "answer"
    /\ UNCHANGED <<memory, request, done, images, torn, answered, requests, interrupts>>

\* The line, once the files are there; for some requests there is none.
AppendLine(r) ==
    /\ pc = "store" /\ done = Len(r.files) /\ done < r.fails_after
    /\ meta_data' = meta_data \cup (r.line \X {requests})
    /\ pc' = "answer"
    /\ UNCHANGED <<memory, request, done, images, torn, answered, requests, interrupts>>

\* A missing key, bad base64, a timestamp that is no number.
Raise(r) ==
    /\ pc = "store" /\ done = r.fails_after
    /\ pc' = "idle" /\ request' = {}
    /\ UNCHANGED <<memory, done, disk, answered, requests, interrupts>>

\* The write fails: the file stays empty.
WriteRaises(r) ==
    /\ pc = "write"
    /\ torn' = torn \cup {r.files[done + 1]}
    /\ pc' = "idle" /\ request' = {}
    /\ UNCHANGED <<memory, done, images, meta_data, answered, requests, interrupts>>

Answer(r) ==
    /\ pc = "answer"
    /\ answered' = answered \cup {<<r, requests>>}
    /\ pc' = "idle" /\ request' = {}
    /\ UNCHANGED <<memory, done, disk, requests, interrupts>>

Store(r) == \/ OpenImage(r) \/ WriteImage(r) \/ AppendLine(r)
            \/ Raise(r) \/ WriteRaises(r) \/ Answer(r)

-----------------------------------------------------------------------------
Interrupt ==
    /\ pc # "stopped" /\ interrupts < MaxInterrupts
    /\ pc' = "stopped" /\ request' = {}
    /\ torn' = torn \cup {r.files[done + 1] : r \in IF pc = "write" THEN request ELSE {}}
    /\ interrupts' = interrupts + 1
    /\ UNCHANGED <<memory, done, images, meta_data, answered, requests>>

\* The program is run again: its memory is fresh, the files are as they were.
Start ==
    /\ pc = "stopped"
    /\ pc' = "idle"
    /\ taskUpdateInfo_' = Fresh /\ taskInfo' = << >> /\ reported' = {} /\ received' = << >>
    /\ UNCHANGED <<request, done, disk, answered, requests, interrupts>>

Next ==
    \/ \E h \in Heartbeats : CheckHeartbeat(h)
    \/ NextEntry \/ HeartbeatEnds
    \/ \E r \in Stores : Receive(r)
    \/ \E r \in request : Store(r)
    \/ Interrupt \/ Start

Spec == Init /\ [][Next]_vars

-----------------------------------------------------------------------------
(* Properties *)

\* The entries of a heartbeat before the first unknown task.
ComeTo(h) == {k \in DOMAIN h : \A l \in 1..k : h[l].taskId \in Tasks}

\* Where the entries that were come to stand: heartbeat and position.
Places == UNION {{n} \X ComeTo(received[n]) : n \in DOMAIN received}
Before(p, q) == p[1] < q[1] \/ (p[1] = q[1] /\ p[2] < q[2])
EntryAt(p) == received[p[1]][p[2]]

\* The time is that of the task's last entry at those places, or that of a
\* server just started.
IsLastTime(time, task, places) ==
    LET about == {p \in places : EntryAt(p).taskId = task}
    IN  IF about = {} THEN time = 0
        ELSE \E p \in about : /\ EntryAt(p).lastUpdateTime = time
                              /\ \A q \in about \ {p} : Before(q, p)

\* Since the server started, an entry is reported as not changing exactly if it
\* was come to and the last entry about its task before it, in that heartbeat
\* or an older one, has the same time.  What stood behind an unknown task,
\* then or now, counts for nothing (simple_web_server_boxcallback.py:103-109).
JudgedRight ==
    pc \notin {"heartbeat", "stopped"} =>
        \A k \in DOMAIN taskInfo :
            LET here == <<Len(received), k>>
                e == taskInfo[k]
            IN  k \in reported <=>
                  /\ k \in ComeTo(taskInfo)
                  /\ IsLastTime(e.lastUpdateTime, e.taskId, {p \in Places : Before(p, here)})

\* The file holds what request n wrote, or something later; it is empty only
\* while it is written again, or if that was broken off.
Holds(name, n) ==
    \/ images[name] >= n
    \/ images[name] = Empty
       /\ (name \in torn \/ (pc = "write" /\ \E r \in request : name = r.files[done + 1]))

ImageNames == UNION {Range(r.files) : r \in Stores}

\* What was answered with 200 is stored, and a line of meta_data.txt that is
\* about an image has its image, whatever requests failed or were cut off in
\* between, unless the same file was being written anew when that happened
\* (simple_web_server_boxcallback.py:131-142).
StoredInOrder ==
    /\ \A a \in answered :
          /\ a[1].line \X {a[2]} \subseteq meta_data
          /\ \A name \in Range(a[1].files) : Holds(name, a[2])
    /\ \A line \in meta_data : line[1] \in ImageNames => Holds(line[1], line[2])
=============================================================================
