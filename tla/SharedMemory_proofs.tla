------------------------ MODULE SharedMemory_proofs ------------------------
(***************************************************************************)
(* Proofs about SharedMemory: its type invariant for any writers and       *)
(* readers, and, for one writer since the semaphore was created, mutual    *)
(* exclusion and that readers print only what the writer has copied.       *)
(***************************************************************************)
EXTENDS SharedMemory, TLAPS

\* Every step of any number of writers and readers keeps the shape of the state.
THEOREM TypeCorrect == Spec => []TypeOK
<1>. USE SharedMemoryAssumption DEF TypeOK, Procs, Pieces, WriterLabels,
         ReaderLabels, Halted
<1>1. Init => TypeOK
  BY DEF Init
<1>2. TypeOK /\ [Next]_vars => TypeOK'
  <2>. SUFFICES ASSUME TypeOK, [Next]_vars PROVE TypeOK'
    OBVIOUS
  <2>1. ASSUME NEW w \in Writers, Writer(w) PROVE TypeOK'
    <3>1. CASE WriterOpen(w)
      BY <3>1 DEF WriterOpen, Goto
    <3>2. CASE Truncate(w)
      BY <3>2 DEF Truncate, Goto
    <3>3. CASE WriterAttach(w)
      BY <3>3 DEF WriterAttach, Goto
    <3>4. CASE Copy(w)
      BY <3>4 DEF Copy
    <3>5. CASE WriterPost(w)
      BY <3>5 DEF WriterPost, Goto
    <3>6. CASE WriterCleanup(w)
      BY <3>6 DEF WriterCleanup, Goto
    <3>. QED BY <2>1, <3>1, <3>2, <3>3, <3>4, <3>5, <3>6 DEF Writer
  <2>2. ASSUME NEW r \in Readers, Reader(r) PROVE TypeOK'
    <3>1. CASE ReaderOpen(r)
      BY <3>1 DEF ReaderOpen, Goto
    <3>2. CASE ReaderAttach(r)
      BY <3>2 DEF ReaderAttach, Goto
    <3>3. CASE Wait(r)
      BY <3>3 DEF Wait, Goto
    <3>4. CASE Write(r)
      BY <3>4 DEF Write, Goto
    <3>5. CASE ReaderPost(r)
      BY <3>5 DEF ReaderPost, Goto
    <3>6. CASE ReaderCleanup(r)
      BY <3>6 DEF ReaderCleanup, Goto
    <3>. QED BY <2>2, <3>1, <3>2, <3>3, <3>4, <3>5, <3>6 DEF Reader
  <2>3. ASSUME NEW p \in Procs, Kill(p) PROVE TypeOK'
    BY <2>3 DEF Kill
  <2>4. CASE UNCHANGED vars
    BY <2>4 DEF vars
  <2>. QED BY <2>1, <2>2, <2>3, <2>4 DEF Next
<1>. QED BY <1>1, <1>2, PTL DEF Spec

-----------------------------------------------------------------------------
\* The segment of writer w is sized and holds the whole text.
Ready(w) == w \in sized /\ text[w] = Pieces

\* Before its post, how far the only writer has brought its segment.
WriterProgress(w) ==
    /\ pc[w] \notin {"shm_open", "killed", "killed_owing"} => mem[w] = {w}
    /\ pc[w] \in {"mmap", "strcpy", "sem_post"} => w \in sized
    /\ mem[w] = {w} => copied[w] \subseteq text[w]
    /\ mem[w] # {w} => copied[w] = {}
    /\ pc[w] = "sem_post" => copied[w] = Pieces

\* How many pieces a reader has printed where.
ReaderProgress ==
    \A r \in Readers :
        /\ pc[r] \in {"shm_open", "mmap", "sem_wait"} => shown[r] = << >>
        /\ pc[r] = "write" => Len(shown[r]) < Chunks

\* One token: in the semaphore, or held by one reader, or not yet posted.
OneToken(w) ==
    /\ sem \in {0, 1}
    /\ sem = 1 => InCritical = {}
    /\ MutualExclusion
    /\ pc[w] \in {"shm_open", "ftruncate", "mmap", "strcpy", "sem_post"}
         => sem = 0 /\ InCritical = {}

\* The inductive invariant of a machine on which one writer runs: the token
\* appears only once the segment is ready.
FirstRunInv(w) ==
    /\ TypeOK
    /\ WriterProgress(w)
    /\ ReaderProgress
    /\ OneToken(w)
    /\ sem = 1 \/ InCritical # {} => Ready(w)
    /\ ReadsText

\* With a single writer, the semaphore is a mutex among any number of readers,
\* and every reader prints the text, whoever is killed (memreader.c:37-42).
THEOREM FirstRun ==
    ASSUME NEW w, Writers = {w}
    PROVE  Spec => [](MutualExclusion /\ ReadsText)
<1>. USE SharedMemoryAssumption DEF Procs, Pieces, WriterLabels,
         ReaderLabels, Halted
<1>0. w \in Writers /\ w \in Procs /\ w \notin Readers
  OBVIOUS
<1>1. Init => FirstRunInv(w)
  BY <1>0 DEF Init, FirstRunInv, TypeOK, WriterProgress, ReaderProgress, OneToken, InCritical,
     MutualExclusion, ReadsText
<1>2. TypeOK' /\ FirstRunInv(w) /\ [Next]_vars => FirstRunInv(w)'
  <2>. SUFFICES ASSUME TypeOK', FirstRunInv(w), [Next]_vars
                PROVE  FirstRunInv(w)'
    OBVIOUS
  <2>. USE <1>0 DEF FirstRunInv
  <2>1. ASSUME Writer(w) PROVE FirstRunInv(w)'
    <3>. USE DEF TypeOK, WriterProgress, ReaderProgress, OneToken, InCritical, MutualExclusion,
             Ready, ReadsText
    <3>1. CASE WriterOpen(w)
      BY <3>1 DEF WriterOpen, Goto
    <3>2. CASE Truncate(w)
      BY <3>2 DEF Truncate, Goto
    <3>3. CASE WriterAttach(w)
      BY <3>3 DEF WriterAttach, Goto
    <3>4. CASE Copy(w)
      BY <3>4 DEF Copy
    <3>5. CASE WriterPost(w)
      <4>1. Ready(w) /\ sem = 0 /\ InCritical = {} /\ sem' = 1
        <5>1. pc[w] = "sem_post" /\ sem' = sem + 1
          BY <3>5 DEF WriterPost, Goto
        <5>2. mem[w] = {w} /\ w \in sized /\ copied[w] = Pieces
          BY <5>1
        <5>3. Pieces \subseteq text[w] /\ text[w] \subseteq Pieces
          BY <5>2
        <5>4. text[w] = Pieces
          BY <5>3
        <5>. QED BY <5>1, <5>2, <5>4
      <4>2. InCritical' = InCritical /\ Ready(w)'
        BY <4>1, <3>5 DEF WriterPost, Goto
      <4>3. WriterProgress(w)' /\ ReaderProgress' /\ ReadsText' /\ MutualExclusion'
        BY <4>1, <4>2, <3>5 DEF WriterPost, Goto
      <4>. QED BY <4>1, <4>2, <4>3, <3>5 DEF WriterPost, Goto
    <3>6. CASE WriterCleanup(w)
      BY <3>6 DEF WriterCleanup, Goto
    <3>. QED BY <2>1, <3>1, <3>2, <3>3, <3>4, <3>5, <3>6 DEF Writer
  <2>2. ASSUME NEW r \in Readers, Reader(r) PROVE FirstRunInv(w)'
    <3>. USE DEF TypeOK, WriterProgress, ReaderProgress, OneToken, InCritical, MutualExclusion,
             Ready, ReadsText
    <3>1. CASE ReaderOpen(r)
      BY <3>1 DEF ReaderOpen, Goto
    <3>2. CASE ReaderAttach(r)
      BY <3>2 DEF ReaderAttach, Goto
    <3>3. CASE Wait(r)
      <4>1. Ready(w) /\ sem = 1 /\ InCritical = {} /\ sem' = 0
        BY <3>3 DEF Wait, Goto
      <4>2. InCritical' = {r} /\ Ready(w)'
        BY <4>1, <3>3 DEF Wait, Goto
      <4>3. WriterProgress(w)' /\ ReaderProgress' /\ ReadsText' /\ MutualExclusion'
        BY <4>1, <4>2, <3>3 DEF Wait, Goto
      <4>. QED BY <4>1, <4>2, <4>3, <3>3 DEF Wait, Goto
    <3>4. CASE Write(r)
      <4>1. r \in InCritical /\ Ready(w) /\ sem = 0
        BY <3>4 DEF Write, Goto
      <4>2. Len(shown[r]) + 1 \in Pieces
        BY <3>4 DEF Write, Goto
      <4>3. shown' = [shown EXCEPT ![r] = Append(@, "text")]
        <5>1. mem[r] \subseteq {w}
          OBVIOUS
        <5>2. mem[r] \subseteq sized
          BY <4>1, <5>1
        <5>3. \A s \in mem[r] : Len(shown[r]) + 1 \in text[s]
          BY <4>1, <4>2, <5>1
        <5>. HIDE DEF ReadsText, ReaderProgress, OneToken, WriterProgress,
                  TypeOK, MutualExclusion, FirstRunInv, InCritical, Ready, Pieces
        <5>. QED BY <5>2, <5>3, <3>4 DEF Write
      <4>4. ReadsText'
        <5>1. Append(shown[r], "text") \in Seq({"text"})
          OBVIOUS
        <5>. QED BY <4>3, <5>1
      <4>5. InCritical' = InCritical /\ Ready(w)' /\ sem' = 0
        BY <4>1, <3>4 DEF Write, Goto
      <4>6. WriterProgress(w)' /\ OneToken(w)'
        BY <4>1, <4>5, <3>4 DEF Write, Goto
      <4>7. ReaderProgress'
        <5>1. Len(shown'[r]) = Len(shown[r]) + 1
          BY <4>3
        <5>. QED BY <4>2, <4>3, <5>1, <3>4 DEF Write, Goto
      <4>. QED BY <4>4, <4>5, <4>6, <4>7, <3>4
    <3>5. CASE ReaderPost(r)
      BY <3>5 DEF ReaderPost, Goto
    <3>6. CASE ReaderCleanup(r)
      BY <3>6 DEF ReaderCleanup, Goto
    <3>. QED BY <2>2, <3>1, <3>2, <3>3, <3>4, <3>5, <3>6 DEF Reader
  <2>3. ASSUME NEW p \in Procs, Kill(p) PROVE FirstRunInv(w)'
    BY <2>3 DEF Kill, TypeOK, WriterProgress, ReaderProgress, OneToken, InCritical,
       MutualExclusion, Ready, ReadsText
  <2>4. CASE UNCHANGED vars
    BY <2>4 DEF vars, TypeOK, WriterProgress, ReaderProgress, OneToken, InCritical,
       MutualExclusion, Ready, ReadsText
  <2>5. ASSUME NEW v \in Writers, Writer(v) PROVE v = w
    OBVIOUS
  <2>. QED BY <2>1, <2>2, <2>3, <2>4, <2>5 DEF Next
<1>3. FirstRunInv(w) => MutualExclusion /\ ReadsText
  BY DEF FirstRunInv, OneToken
<1>. QED BY <1>1, <1>2, <1>3, TypeCorrect, PTL DEF Spec

\* The part of it about what is printed (memreader.c:39-41).
THEOREM ReadsTextCorrect ==
    ASSUME NEW w, Writers = {w}
    PROVE  Spec => []ReadsText
BY FirstRun, PTL
=============================================================================
