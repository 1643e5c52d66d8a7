------------------------------ MODULE FileLock ------------------------------
(***************************************************************************)
(* ipcCode/flock: producers write a text into a file under an exclusive    *)
(* record lock, consumers print the file under a shared one.  Every lock   *)
(* request is non-blocking: a process that is refused reports and exits.   *)
(*                                                                         *)
(* The kernel's state is the lock table and the file; the text is written  *)
(* and read in Pieces steps, between which other processes run.            *)
(***************************************************************************)
EXTENDS Naturals

CONSTANTS Producers, Consumers,
          Pieces,       \* DataString, in pieces
          MaxKills      \* bound on the processes killed from outside

ASSUME FileLockAssumption ==
    /\ Producers \cap Consumers = {}
    /\ Pieces \in Nat \ {0}
    /\ MaxKills \in Nat

VARIABLES pc,       \* where each process is
          lock,     \* the kernel's lock table for the file
          exists,   \* the file exists
          size,     \* pieces in the file
          offset,   \* each process's position in the file
          kills

file == <<exists, size, offset>>
vars == <<pc, lock, file, kills>>

Procs == Producers \cup Consumers

ProducerLabels == {"open", "setlk", "write", "unlock", "done", "refused", "killed"}
ConsumerLabels == {"open", "getlk", "setlk", "read", "unlock",
                   "done", "refused", "nofile", "killed"}
Ended == {"done", "refused", "nofile", "killed"}

\* Shape of the state.
TypeOK ==
    /\ pc \in [Procs -> ProducerLabels \cup ConsumerLabels]
    /\ \A p \in Producers : pc[p] \in ProducerLabels
    /\ \A c \in Consumers : pc[c] \in ConsumerLabels
    /\ lock \in [Procs -> {"none", "read", "write"}]
    /\ exists \in BOOLEAN
    /\ size \in 0..Pieces
    /\ offset \in [Procs -> 0..Pieces]
    /\ kills \in Nat

Init ==
    /\ pc = [p \in Procs |-> "open"]
    /\ lock = [p \in Procs |-> "none"]
    /\ exists = FALSE
    /\ size = 0
    /\ offset = [p \in Procs |-> 0]
    /\ kills = 0

Goto(p, from, to) == pc[p] = from /\ pc' = [pc EXCEPT ![p] = to]

\* Somebody else's lock stands in the way of one of type t.
Conflict(p, t) ==
    \E q \in Procs \ {p} : lock[q] = "write" \/ (lock[q] = "read" /\ t = "write")

\* fcntl(F_SETLK): the lock and the next label, or the refusal.
SetLk(p, t, next) ==
    /\ IF Conflict(p, t)
         THEN Goto(p, "setlk", "refused") /\ UNCHANGED lock
         ELSE Goto(p, "setlk", next) /\ lock' = [lock EXCEPT ![p] = t]
    /\ UNCHANGED <<file, kills>>

-----------------------------------------------------------------------------
(* producer *)

\* Mutant: the producer opens with O_TRUNC.
ProducerOpenTruncating(p) ==
    /\ Goto(p, "open", "setlk")
    /\ exists' = TRUE
    /\ size' = 0
    /\ UNCHANGED <<lock, offset, kills>>

\* open with O_CREAT and without O_TRUNC.
ProducerOpen(p) ==
    /\ Goto(p, "open", "setlk")
    /\ exists' = TRUE
    /\ UNCHANGED <<lock, size, offset, kills>>

\* Mutant: the producer asks for a shared lock.
ProducerLockShared(p) == SetLk(p, "read", "write")

ProducerLock(p) == SetLk(p, "write", "write")

\* Mutant: one piece too many.
WriteTooMuch(p) ==
    /\ Goto(p, "write", IF offset[p] = Pieces THEN "unlock" ELSE "write")
    /\ offset' = [offset EXCEPT ![p] = @ + 1]
    /\ size' = IF offset'[p] > size THEN offset'[p] ELSE size
    /\ UNCHANGED <<lock, exists, kills>>

Write(p) ==
    /\ Goto(p, "write", IF offset[p] + 1 = Pieces THEN "unlock" ELSE "write")
    /\ offset' = [offset EXCEPT ![p] = @ + 1]
    /\ size' = IF offset'[p] > size THEN offset'[p] ELSE size
    /\ UNCHANGED <<lock, exists, kills>>

\* The explicit F_UNLCK, close and exit, of a producer or a consumer.
Unlock(p) ==
    /\ Goto(p, "unlock", "done")
    /\ lock' = [lock EXCEPT ![p] = "none"]
    /\ UNCHANGED <<file, kills>>

-----------------------------------------------------------------------------
(* consumer *)

ConsumerOpen(c) ==
    /\ Goto(c, "open", IF exists THEN "getlk" ELSE "nofile")
    /\ UNCHANGED <<lock, file, kills>>

\* F_GETLK asks about a write lock, so a reader's lock stands in its way too.
TestLock(c) ==
    /\ Goto(c, "getlk", IF Conflict(c, "write") THEN "refused" ELSE "setlk")
    /\ UNCHANGED <<lock, file, kills>>

ConsumerLock(c) == SetLk(c, "read", "read")

\* One read: a piece that is printed, or the end of the file.
Read(c) ==
    /\ Goto(c, "read", IF offset[c] < size THEN "read" ELSE "unlock")
    /\ offset' = [offset EXCEPT ![c] = IF @ < size THEN @ + 1 ELSE @]
    /\ UNCHANGED <<lock, exists, size, kills>>

-----------------------------------------------------------------------------
\* A process killed between two calls: a write that has begun is completed.
\* The kernel takes the locks of the dead away.
Kill(p) ==
    /\ kills < MaxKills
    /\ pc[p] \notin Ended
    /\ pc[p] = "write" => offset[p] = 0
    /\ pc' = [pc EXCEPT ![p] = "killed"]
    /\ lock' = [lock EXCEPT ![p] = "none"]
    /\ kills' = kills + 1
    /\ UNCHANGED file

Producer(p) == ProducerOpen(p) \/ ProducerLock(p) \/ Write(p) \/ Unlock(p)
Consumer(c) == \/ ConsumerOpen(c) \/ TestLock(c) \/ ConsumerLock(c)
               \/ Read(c) \/ Unlock(c)

Next == \/ \E p \in Producers : Producer(p)
        \/ \E c \in Consumers : Consumer(c)
        \/ \E p \in Procs : Kill(p)

Spec == Init /\ [][Next]_vars

-----------------------------------------------------------------------------
(* Properties *)

writing == {p \in Producers : pc[p] \in {"write", "unlock"}}
reading == {c \in Consumers : pc[c] \in {"read", "unlock"}}

\* The programs, taken for what they do to the file, are readers and writers:
\* nobody writes while anybody reads or writes (producer.c:27-30,
\* consumer.c:30), and a killed process is out at once.
RW == INSTANCE ReadersWriter
IsReadersWriter == RW!Spec

\* What a consumer prints is the whole text or nothing, although producers
\* write and consumers read in pieces (consumer.c:35-37).
AllOrNothing ==
    \A c \in Consumers : pc[c] \in {"unlock", "done"} => offset[c] \in {0, Pieces}

\* F_GETLK "sets lock.l_type to F_UNLCK if no write lock" (consumer.c:26): the
\* test refuses a consumer only if somebody holds a write lock.
RefusedByWriteLock ==
    [][\A c \in Consumers :
         pc[c] = "getlk" /\ pc'[c] = "refused" => \E p \in Procs : lock[p] = "write"]_vars

=============================================================================
