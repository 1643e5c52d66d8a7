-------------------------- MODULE FileLock_proofs --------------------------
(***************************************************************************)
(* Proofs about FileLock, for any producers and consumers: the type        *)
(* invariant, that the programs implement ReadersWriter, and that every    *)
(* consumer prints the whole text or nothing.                              *)
(***************************************************************************)
EXTENDS FileLock, TLAPS

\* The lock table says who is where, and a write lock is alone.
LockTable ==
    /\ \A p \in Producers : lock[p] = IF p \in writing THEN "write" ELSE "none"
    /\ \A c \in Consumers : lock[c] = IF c \in reading THEN "read" ELSE "none"
    /\ \A p \in Producers, q \in Procs : lock[p] = "write" /\ q # p => lock[q] = "none"

\* Outside of a write the file is empty or whole; a writer has brought it as
\* far as it has come itself, and a reader has not passed its end.
FileProgress ==
    /\ \A p \in Procs : pc[p] \in {"open", "getlk", "setlk"} => offset[p] = 0
    /\ \A p \in Producers : pc[p] = "write" => /\ size \in {offset[p], Pieces}
                                               /\ offset[p] < Pieces
    /\ (\A p \in Producers : pc[p] # "write") => size \in {0, Pieces}
    /\ \A c \in Consumers : pc[c] = "read" => offset[c] <= size

FileLockInv == TypeOK /\ LockTable /\ FileProgress /\ AllOrNothing

LEMMA InitFileLock == Init => FileLockInv /\ RW!Init
<1>. SUFFICES ASSUME Init PROVE FileLockInv /\ RW!Init
  OBVIOUS
<1>. USE FileLockAssumption DEF Init, Procs
<1>1. TypeOK
  <2>1. exists \in BOOLEAN
    OBVIOUS
  <2>2. /\ pc \in [Procs -> ProducerLabels \cup ConsumerLabels]
        /\ \A p \in Producers : pc[p] \in ProducerLabels
        /\ \A c \in Consumers : pc[c] \in ConsumerLabels
    BY DEF ProducerLabels, ConsumerLabels
  <2>3. /\ lock \in [Procs -> {"none", "read", "write"}]
        /\ size \in 0..Pieces /\ offset \in [Procs -> 0..Pieces] /\ kills \in Nat
    OBVIOUS
  <2>. QED BY <2>1, <2>2, <2>3 DEF TypeOK
<1>2. writing = {} /\ reading = {}
  BY DEF writing, reading
<1>3. LockTable
  BY <1>2 DEF LockTable
<1>4. FileProgress /\ AllOrNothing
  BY DEF FileProgress, AllOrNothing
<1>. QED BY <1>1, <1>2, <1>3, <1>4 DEF FileLockInv, RW!Init

-----------------------------------------------------------------------------
\* A step of a producer: it keeps the invariant and is a step of ReadersWriter.
LEMMA StepProducer ==
    ASSUME FileLockInv, NEW p \in Producers, Producer(p)
    PROVE  FileLockInv' /\ [RW!Next]_<<writing, reading>>
<1>. USE FileLockAssumption DEF FileLockInv, Procs, ProducerLabels, ConsumerLabels, Goto
<1>1. p \in Procs /\ p \notin Consumers
  OBVIOUS
<1>2. CASE ProducerOpen(p)
  <2>1. /\ TypeOK' /\ LockTable' /\ FileProgress' /\ AllOrNothing'
        /\ writing' = writing /\ reading' = reading
    BY <1>1, <1>2 DEF ProducerOpen, TypeOK, LockTable, FileProgress, AllOrNothing,
       writing, reading
  <2>. QED BY <2>1
<1>3. CASE ProducerLock(p)
  <2>1. CASE Conflict(p, "write")
    <3>1. /\ TypeOK' /\ LockTable' /\ FileProgress' /\ AllOrNothing'
          /\ writing' = writing /\ reading' = reading
      BY <1>1, <1>3, <2>1 DEF ProducerLock, SetLk, file, TypeOK, LockTable,
         FileProgress, AllOrNothing, writing, reading
    <3>. QED BY <3>1
  <2>2. CASE ~ Conflict(p, "write")
    <3>1. /\ pc[p] = "setlk" /\ pc' = [pc EXCEPT ![p] = "write"]
          /\ lock' = [lock EXCEPT ![p] = "write"]
          /\ UNCHANGED <<exists, size, offset, kills>>
      BY <1>3, <2>2 DEF ProducerLock, SetLk, file
    <3>2. \A q \in Procs \ {p} : lock[q] = "none"
      BY <2>2 DEF Conflict, TypeOK
    <3>3. writing = {} /\ reading = {} /\ writing' = {p} /\ reading' = {}
      BY <1>1, <3>1, <3>2 DEF LockTable, writing, reading, TypeOK
    <3>4. TypeOK' /\ LockTable'
      BY <1>1, <3>1, <3>2, <3>3 DEF TypeOK, LockTable
    <3>5. FileProgress' /\ AllOrNothing'
      BY <1>1, <3>1, <3>3 DEF TypeOK, FileProgress, AllOrNothing, writing, reading
    <3>6. RW!BeginWrite(p)
      BY <3>3 DEF RW!BeginWrite
    <3>. QED BY <3>4, <3>5, <3>6 DEF RW!Next
  <2>. QED BY <2>1, <2>2
<1>4. CASE Write(p)
  <2>1. pc[p] = "write" /\ UNCHANGED <<lock, exists, kills>>
    BY <1>4 DEF Write
  <2>2. \A q \in Procs \ {p} : lock[q] = "none"
    BY <1>1, <2>1 DEF LockTable, writing
  <2>3. writing = {p} /\ reading = {}
    BY <1>1, <2>1, <2>2 DEF LockTable, writing, reading
  <2>4. writing' = writing /\ reading' = reading
    BY <1>1, <1>4 DEF Write, TypeOK, writing, reading
  <2>5. TypeOK'
    BY <1>1, <1>4 DEF Write, TypeOK, FileProgress
  <2>6. LockTable'
    BY <2>1, <2>4 DEF LockTable
  <2>7. FileProgress' /\ AllOrNothing'
    BY <1>1, <1>4, <2>3 DEF Write, TypeOK, FileProgress, AllOrNothing, writing, reading
  <2>. QED BY <2>4, <2>5, <2>6, <2>7
<1>5. CASE Unlock(p)
  <2>1. /\ pc[p] = "unlock" /\ pc' = [pc EXCEPT ![p] = "done"]
        /\ lock' = [lock EXCEPT ![p] = "none"]
        /\ UNCHANGED <<exists, size, offset, kills>>
    BY <1>5 DEF Unlock, file
  <2>2. TypeOK' /\ FileProgress' /\ AllOrNothing'
    BY <1>1, <2>1 DEF TypeOK, FileProgress, AllOrNothing
  <2>3. p \in writing /\ writing' = writing \ {p} /\ reading' = reading
    BY <1>1, <2>1 DEF TypeOK, writing, reading
  <2>4. LockTable'
    BY <1>1, <2>1, <2>3 DEF TypeOK, LockTable
  <2>5. RW!EndWrite(p)
    BY <2>3 DEF RW!EndWrite
  <2>. QED BY <2>2, <2>4, <2>5 DEF RW!Next
<1>. QED BY <1>2, <1>3, <1>4, <1>5 DEF Producer

\* A step of a consumer: it keeps the invariant and is a step of ReadersWriter.
LEMMA StepConsumer ==
    ASSUME FileLockInv, NEW c \in Consumers, Consumer(c)
    PROVE  FileLockInv' /\ [RW!Next]_<<writing, reading>>
<1>. USE FileLockAssumption DEF FileLockInv, Procs, ProducerLabels, ConsumerLabels, Goto
<1>1. c \in Procs /\ c \notin Producers
  OBVIOUS
<1>2. CASE ConsumerOpen(c) \/ TestLock(c)
  <2>1. /\ TypeOK' /\ LockTable' /\ FileProgress' /\ AllOrNothing'
        /\ writing' = writing /\ reading' = reading
    BY <1>1, <1>2 DEF ConsumerOpen, TestLock, file, TypeOK, LockTable, FileProgress,
       AllOrNothing, writing, reading
  <2>. QED BY <2>1
<1>3. CASE ConsumerLock(c)
  <2>1. CASE Conflict(c, "read")
    <3>1. /\ TypeOK' /\ LockTable' /\ FileProgress' /\ AllOrNothing'
          /\ writing' = writing /\ reading' = reading
      BY <1>1, <1>3, <2>1 DEF ConsumerLock, SetLk, file, TypeOK, LockTable,
         FileProgress, AllOrNothing, writing, reading
    <3>. QED BY <3>1
  <2>2. CASE ~ Conflict(c, "read")
    <3>1. /\ pc[c] = "setlk" /\ pc' = [pc EXCEPT ![c] = "read"]
          /\ lock' = [lock EXCEPT ![c] = "read"]
          /\ UNCHANGED <<exists, size, offset, kills>>
      BY <1>3, <2>2 DEF ConsumerLock, SetLk, file
    <3>2. \A q \in Procs \ {c} : lock[q] # "write"
      BY <2>2 DEF Conflict, TypeOK
    <3>3. writing = {} /\ c \notin reading
      BY <1>1, <3>1, <3>2 DEF LockTable, writing, reading
    <3>4. writing' = {} /\ reading' = reading \cup {c}
      BY <1>1, <3>1, <3>3 DEF TypeOK, writing, reading
    <3>5. TypeOK' /\ LockTable'
      BY <1>1, <3>1, <3>2, <3>3, <3>4 DEF TypeOK, LockTable
    <3>6. FileProgress' /\ AllOrNothing'
      BY <1>1, <3>1, <3>3 DEF TypeOK, FileProgress, AllOrNothing, writing, reading
    <3>7. RW!BeginRead(c)
      BY <3>3, <3>4 DEF RW!BeginRead
    <3>. QED BY <3>5, <3>6, <3>7 DEF RW!Next
  <2>. QED BY <2>1, <2>2
<1>4. CASE Read(c)
  <2>1. pc[c] = "read" /\ UNCHANGED <<lock, exists, size, kills>>
    BY <1>4 DEF Read
  <2>2. \A p \in Producers : pc[p] # "write"
    BY <1>1, <2>1 DEF LockTable, writing, reading
  <2>3. writing' = writing /\ reading' = reading
    BY <1>1, <1>4 DEF Read, TypeOK, writing, reading
  <2>4. TypeOK'
    BY <1>1, <1>4 DEF Read, TypeOK
  <2>5. LockTable'
    BY <2>1, <2>3 DEF LockTable
  <2>6. FileProgress' /\ AllOrNothing'
    BY <1>1, <1>4, <2>2 DEF Read, TypeOK, FileProgress, AllOrNothing
  <2>. QED BY <2>3, <2>4, <2>5, <2>6
<1>5. CASE Unlock(c)
  <2>1. /\ pc[c] = "unlock" /\ pc' = [pc EXCEPT ![c] = "done"]
        /\ lock' = [lock EXCEPT ![c] = "none"]
        /\ UNCHANGED <<exists, size, offset, kills>>
    BY <1>5 DEF Unlock, file
  <2>2. TypeOK' /\ FileProgress' /\ AllOrNothing'
    BY <1>1, <2>1 DEF TypeOK, FileProgress, AllOrNothing
  <2>3. c \in reading /\ reading' = reading \ {c} /\ writing' = writing
    BY <1>1, <2>1 DEF TypeOK, writing, reading
  <2>4. LockTable'
    BY <1>1, <2>1, <2>3 DEF TypeOK, LockTable
  <2>5. RW!EndRead(c)
    BY <2>3 DEF RW!EndRead
  <2>. QED BY <2>2, <2>4, <2>5 DEF RW!Next
<1>. QED BY <1>2, <1>3, <1>4, <1>5 DEF Consumer

\* A death: the holder of a lock leaves.
LEMMA StepKill ==
    ASSUME FileLockInv, NEW p \in Procs, Kill(p)
    PROVE  FileLockInv' /\ [RW!Next]_<<writing, reading>>
<1>. USE FileLockAssumption DEF FileLockInv, Procs, ProducerLabels, ConsumerLabels
<1>1. /\ pc[p] \notin Ended /\ (pc[p] = "write" => offset[p] = 0)
      /\ pc' = [pc EXCEPT ![p] = "killed"]
      /\ lock' = [lock EXCEPT ![p] = "none"]
      /\ kills' = kills + 1 /\ UNCHANGED <<exists, size, offset>>
  BY DEF Kill, file
<1>2. writing' = writing \ {p} /\ reading' = reading \ {p}
  BY <1>1 DEF TypeOK, writing, reading
<1>3. TypeOK' /\ LockTable'
  BY <1>1, <1>2 DEF TypeOK, LockTable
<1>4. size \in {0, Pieces} \/ \E q \in Producers \ {p} : pc[q] = "write"
  BY <1>1 DEF FileProgress
<1>5. FileProgress' /\ AllOrNothing'
  BY <1>1, <1>4 DEF TypeOK, FileProgress, AllOrNothing
<1>6. CASE p \in writing
  BY <1>2, <1>3, <1>5, <1>6 DEF RW!Next, RW!EndWrite, writing, reading
<1>7. CASE p \in reading
  BY <1>2, <1>3, <1>5, <1>7 DEF RW!Next, RW!EndRead, writing, reading
<1>8. CASE p \notin writing /\ p \notin reading
  BY <1>2, <1>3, <1>5, <1>8
<1>. QED BY <1>6, <1>7, <1>8

LEMMA StepFileLock ==
    FileLockInv /\ [Next]_vars => FileLockInv' /\ [RW!Next]_<<writing, reading>>
<1>1. ASSUME FileLockInv, UNCHANGED vars
      PROVE  FileLockInv' /\ UNCHANGED <<writing, reading>>
  BY <1>1 DEF vars, file, FileLockInv, TypeOK, LockTable, FileProgress, AllOrNothing,
     writing, reading
<1>. QED BY <1>1, StepProducer, StepConsumer, StepKill DEF Next

LEMMA InvariantFileLock == Spec => []FileLockInv
  BY InitFileLock, StepFileLock, PTL DEF Spec

\* The shape of the state, for any producers and consumers.
THEOREM TypeCorrect == Spec => []TypeOK
  BY InvariantFileLock, PTL DEF FileLockInv

\* Whatever the interleaving of lock requests, reads, writes and deaths, nobody
\* writes the file while anybody else reads or writes it.
THEOREM Implements == Spec => IsReadersWriter
<1>1. Spec => RW!Init /\ [][RW!Next]_<<writing, reading>>
  BY InvariantFileLock, InitFileLock, StepFileLock, PTL DEF Spec
<1>. QED BY <1>1 DEF IsReadersWriter, RW!Spec

\* A consumer that reaches its end has printed the whole text or nothing.
THEOREM AllOrNothingCorrect == Spec => []AllOrNothing
  BY InvariantFileLock, PTL DEF FileLockInv
=============================================================================
