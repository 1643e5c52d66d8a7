---------------------------- MODULE SharedMemory ----------------------------
(***************************************************************************)
(* ipcCode/shmem: memwriter copies a text into a POSIX shared memory       *)
(* segment and posts a named semaphore; memreader waits on the semaphore,  *)
(* prints the segment byte by byte and posts the semaphore back.           *)
(*                                                                         *)
(* Writers and Readers are processes, each one run of its program.  The    *)
(* kernel objects are what the programs share: the name BackingFile, the   *)
(* segments it has been linked to, and the semaphore.  No program calls    *)
(* sem_unlink, so the semaphore's count outlives every process.  A         *)
(* segment is known by the writer whose shm_open created it.               *)
(***************************************************************************)
EXTENDS Integers, Sequences, FiniteSets

CONSTANTS Writers, Readers,
          Chunks,      \* MemContents, in pieces copied and printed one by one
          MaxKills     \* bound on the processes killed from outside

ASSUME SharedMemoryAssumption ==
    /\ Writers \cap Readers = {}
    /\ Chunks \in Nat \ {0}
    /\ MaxKills \in Nat

VARIABLES pc,       \* where each process is
          named,    \* the segments BackingFile names: none or one
          sized,    \* the segments that were given ByteSize bytes
          text,     \* the pieces of MemContents each segment holds
          copied,   \* the pieces each writer's strcpy has copied
          mem,      \* the segment each process has opened: none or one
          sem,      \* the value of the semaphore
          shown,    \* what each reader has printed
          kills

vars == <<pc, named, sized, text, copied, mem, sem, shown, kills>>

Procs == Writers \cup Readers
Pieces == 1..Chunks

WriterLabels == {"shm_open", "ftruncate", "mmap", "strcpy", "sem_post",
                 "sleep", "exited", "killed", "killed_owing"}
ReaderLabels == {"shm_open", "mmap", "sem_wait", "write", "sem_post",
                 "cleanup", "exited", "killed", "killed_owing"}
Halted == {"exited", "killed", "killed_owing"}

\* Shape of the state.
TypeOK ==
    /\ pc \in [Procs -> WriterLabels \cup ReaderLabels]
    /\ \A w \in Writers : pc[w] \in WriterLabels
    /\ \A r \in Readers : pc[r] \in ReaderLabels
    /\ named \in SUBSET Writers
    /\ sized \in SUBSET Writers
    /\ text \in [Writers -> SUBSET Pieces]
    /\ copied \in [Writers -> SUBSET Pieces]
    /\ mem \in [Procs -> SUBSET Writers]
    /\ sem \in Nat
    /\ shown \in [Readers -> Seq({"text", "zero", "efault"})]
    /\ kills \in Nat

Init ==
    /\ pc = [p \in Procs |-> "shm_open"]
    /\ named = {}
    /\ sized = {}
    /\ text = [w \in Writers |-> {}]
    /\ copied = [w \in Writers |-> {}]
    /\ mem = [p \in Procs |-> {}]
    /\ sem = 0
    /\ shown = [r \in Readers |-> << >>]
    /\ kills = 0

Goto(p, from, to) == pc[p] = from /\ pc' = [pc EXCEPT ![p] = to]

-----------------------------------------------------------------------------
(* memwriter *)

\* shm_open with O_CREAT: the segment that has the name, or a new, empty one.
WriterOpen(w) ==
    /\ Goto(w, "shm_open", "ftruncate")
    /\ named' = IF named = {} THEN {w} ELSE named
    /\ mem' = [mem EXCEPT ![w] = named']
    /\ UNCHANGED <<sized, text, copied, sem, shown, kills>>

Truncate(w) ==
    /\ Goto(w, "ftruncate", "mmap")
    /\ sized' = sized \cup mem[w]
    /\ UNCHANGED <<named, text, copied, mem, sem, shown, kills>>

\* Mutant: the post before the copy.
AttachAndPost(w) ==
    /\ Goto(w, "mmap", "strcpy")
    /\ sem' = sem + 1
    /\ UNCHANGED <<named, sized, text, copied, mem, shown, kills>>

\* mmap and sem_open: O_CREAT leaves the count of an existing semaphore alone.
WriterAttach(w) ==
    /\ Goto(w, "mmap", "strcpy")
    /\ UNCHANGED <<named, sized, text, copied, mem, sem, shown, kills>>

\* strcpy, in any order of the pieces; the last one returns to the caller.
Copy(w) ==
    /\ pc[w] = "strcpy"
    /\ \E c \in Pieces \ copied[w] :
        /\ copied' = [copied EXCEPT ![w] = @ \cup {c}]
        /\ text' = [s \in Writers |->
                       IF s \in mem[w] THEN text[s] \cup {c} ELSE text[s]]
    /\ pc' = [pc EXCEPT ![w] = IF copied'[w] = Pieces THEN "sem_post" ELSE "strcpy"]
    /\ UNCHANGED <<named, sized, mem, sem, shown, kills>>

WriterPost(w) ==
    /\ Goto(w, "sem_post", "sleep")
    /\ sem' = sem + 1
    /\ UNCHANGED <<named, sized, text, copied, mem, shown, kills>>

\* After the sleep: the mappings go, and shm_unlink removes the name.
WriterCleanup(w) ==
    /\ Goto(w, "sleep", "exited")
    /\ named' = {}
    /\ UNCHANGED <<sized, text, copied, mem, sem, shown, kills>>

-----------------------------------------------------------------------------
(* memreader *)

\* shm_open without O_CREAT: with no segment of that name the reader exits.
ReaderOpen(r) ==
    /\ Goto(r, "shm_open", IF named = {} THEN "exited" ELSE "mmap")
    /\ mem' = [mem EXCEPT ![r] = named]
    /\ UNCHANGED <<named, sized, text, copied, sem, shown, kills>>

ReaderAttach(r) ==
    /\ Goto(r, "mmap", "sem_wait")
    /\ UNCHANGED <<named, sized, text, copied, mem, sem, shown, kills>>

\* Mutant: a wait that never blocks.
WaitWithoutTest(r) ==
    /\ Goto(r, "sem_wait", "write")
    /\ sem' = sem - 1
    /\ UNCHANGED <<named, sized, text, copied, mem, shown, kills>>

\* Mutant: the test of the count without the decrement.
WaitWithoutTake(r) ==
    /\ Goto(r, "sem_wait", "write")
    /\ sem > 0
    /\ UNCHANGED <<named, sized, text, copied, mem, sem, shown, kills>>

Wait(r) ==
    /\ Goto(r, "sem_wait", "write")
    /\ sem > 0
    /\ sem' = sem - 1
    /\ UNCHANGED <<named, sized, text, copied, mem, shown, kills>>

\* One piece to the standard output.  A segment that was never sized has no
\* page to read: write fails with EFAULT, and its result is ignored.
Write(r) ==
    LET i == Len(shown[r]) + 1 IN
    /\ Goto(r, "write", IF i = Chunks THEN "sem_post" ELSE "write")
    /\ shown' = [shown EXCEPT ![r] = Append(@,
                     IF mem[r] \subseteq sized
                       THEN IF \A s \in mem[r] : i \in text[s] THEN "text" ELSE "zero"
                       ELSE "efault")]
    /\ UNCHANGED <<named, sized, text, copied, mem, sem, kills>>

\* Mutant: the token is not handed back.
LeaveWithoutPost(r) ==
    /\ Goto(r, "sem_post", "cleanup")
    /\ UNCHANGED <<named, sized, text, copied, mem, sem, shown, kills>>

ReaderPost(r) ==
    /\ Goto(r, "sem_post", "cleanup")
    /\ sem' = sem + 1
    /\ UNCHANGED <<named, sized, text, copied, mem, shown, kills>>

\* unlink(BackingFile) names a file of the root directory, not the segment.
ReaderCleanup(r) ==
    /\ Goto(r, "cleanup", "exited")
    /\ UNCHANGED <<named, sized, text, copied, mem, sem, shown, kills>>

-----------------------------------------------------------------------------
\* A post others wait for: the writer's, and that of a reader after its wait.
Owes(p) == pc[p] \in IF p \in Writers THEN WriterLabels \ {"sleep"} ELSE {"write", "sem_post"}

\* A process killed from outside, at any point of its program.
Kill(p) ==
    /\ kills < MaxKills
    /\ pc[p] \notin Halted
    /\ pc' = [pc EXCEPT ![p] = IF Owes(p) THEN "killed_owing" ELSE "killed"]
    /\ kills' = kills + 1
    /\ UNCHANGED <<named, sized, text, copied, mem, sem, shown>>

Writer(w) == \/ WriterOpen(w) \/ Truncate(w) \/ WriterAttach(w)
             \/ Copy(w) \/ WriterPost(w) \/ WriterCleanup(w)

Reader(r) == \/ ReaderOpen(r) \/ ReaderAttach(r) \/ Wait(r)
             \/ Write(r) \/ ReaderPost(r) \/ ReaderCleanup(r)

Next == \/ \E w \in Writers : Writer(w)
        \/ \E r \in Readers : Reader(r)
        \/ \E p \in Procs : Kill(p)

Spec == Init /\ [][Next]_vars

\* The scheduler runs every process that can take a step.
FairSpec == /\ Spec
            /\ \A w \in Writers : WF_vars(Writer(w))
            /\ \A r \in Readers : WF_vars(Reader(r))

-----------------------------------------------------------------------------
(* Properties *)

InCritical == {r \in Readers : pc[r] \in {"write", "sem_post"}}

\* The semaphore is a mutex (memreader.c:37): no two readers are between
\* their sem_wait and their sem_post.
MutualExclusion == \A r, s \in InCritical : r = s

\* A reader waits for the writer (memreader.c:37-38): every write it makes puts
\* out what the writer has copied, never zeros and never a failed access.
ReadsText == \A r \in Readers : shown[r] \in Seq({"text"})

\* A reader that blocks on the semaphore is released, since tokens are handed
\* back and one post serves every reader; only a process killed before a post it
\* owes (memreader.c:38-42, memwriter.c:46) may leave the others waiting.
ReaderReleased ==
    \A r \in Readers :
        pc[r] = "sem_wait" ~> (pc[r] \in Halted \/ \E p \in Procs : pc[p] = "killed_owing")
=============================================================================
