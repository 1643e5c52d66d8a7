----------------------------- MODULE Fifo_proofs -----------------------------
(***************************************************************************)
(* Proofs about Fifo, for any writers, readers, chunks and pipe: its type  *)
(* invariant; that no reader receives a writer's ints out of order or      *)
(* twice, in pipes and in the regular files that take their place; and     *)
(* that the end of a single writer's stream means that all was received.   *)
(***************************************************************************)
EXTENDS Fifo, TLAPS

\* The last int that w has written.
Last(w) == loops[w] * IntsPerChunk

Starting == {"mkfifo", "open", "opening"}

\* Who has not opened yet has neither written nor read.
NotStarted ==
    /\ \A w \in Writers : pc[w] \in Starting => loops[w] = 0
    /\ \A w \in Writers : pc[w] = "write" => loops[w] < MaxLoops
    /\ \A r \in Readers : pc[r] \in Starting => got[r] = << >>

\* Nothing is anywhere that was not written.
Sent ==
    \A w \in Writers :
        /\ \A o \in Objects : \A k \in 1..Len(content[o]) :
              content[o][k][1] = w => content[o][k][2] <= Last(w)
        /\ \A r \in Readers : \A k \in 1..Len(got[r]) :
              got[r][k][1] = w => got[r][k][2] <= Last(w)

\* In a pipe each writer's ints are in order, and behind what its readers have.
PipesInOrder ==
    \A o \in Objects : IsFifo(o) =>
      /\ \A k, l \in 1..Len(content[o]) :
            k < l /\ content[o][k][1] = content[o][l][1] => content[o][k][2] < content[o][l][2]
      /\ \A r \in Readers : held[r] = {o} =>
            \A k \in 1..Len(got[r]), l \in 1..Len(content[o]) :
                got[r][k][1] = content[o][l][1] => got[r][k][2] < content[o][l][2]

\* In a regular file every int is at its place, whoever wrote there last.
FilesInPlace ==
    \A o \in Objects : ~ IsFifo(o) =>
      /\ \A k \in 1..Len(content[o]) : content[o][k][2] = k
      /\ \A r \in Readers : held[r] = {o} => \A k \in 1..Len(got[r]) : got[r][k][2] = k
      /\ \A w \in Writers : held[w] = {o} => Last(w) <= Len(content[o])

OneOpen == \A p \in Procs : \A o \in held[p] : held[p] = {o}

\* The inductive invariant.
FifoInv == TypeOK /\ OneOpen /\ NotStarted /\ Sent /\ PipesInOrder /\ FilesInPlace /\ OrderKept

-----------------------------------------------------------------------------
\* A chunk more.
LEMMA OneChunk ==
    ASSUME NEW n \in Nat
    PROVE  /\ n * IntsPerChunk \in Nat
           /\ (n + 1) * IntsPerChunk = n * IntsPerChunk + IntsPerChunk
           /\ n < MaxLoops => (n + 1) * IntsPerChunk <= MaxLoops * IntsPerChunk
<1>. IntsPerChunk \in Nat /\ MaxLoops \in Nat
  BY FifoAssumption
<1>1. n * IntsPerChunk \in Nat /\ (n + 1) * IntsPerChunk = n * IntsPerChunk + IntsPerChunk
  BY SMT
<1>2. ASSUME n < MaxLoops PROVE (n + 1) * IntsPerChunk <= MaxLoops * IntsPerChunk
  <2>. DEFINE m == MaxLoops - (n + 1)
  <2>1. m \in Nat /\ MaxLoops = m + (n + 1)
    BY <1>2
  <2>. HIDE DEF m
  <2>2. m * IntsPerChunk \in Nat /\ (n + 1) * IntsPerChunk \in Nat
    BY <2>1, SMT
  <2>3. MaxLoops * IntsPerChunk = m * IntsPerChunk + (n + 1) * IntsPerChunk
    BY <2>1, SMT
  <2>. QED BY <2>2, <2>3
<1>. QED BY <1>1, <1>2

LEMMA LastType == TypeOK => \A w \in Writers : Last(w) \in Nat
BY OneChunk DEF TypeOK, Last

\* A step that opens or closes, and moves no int, but for what a pipe loses.
Quiet ==
    /\ UNCHANGED <<loops, got>>
    /\ \A o \in Objects : content'[o] = content[o] \/ (IsFifo(o) /\ content'[o] = << >>)
    /\ \A p \in Procs : \/ held'[p] \in {held[p], {}}
                        \/ pc[p] = "open" /\ \E o \in Objects : held'[p] = {o}
    /\ \A p \in Procs : pc'[p] \in Starting => pc[p] \in Starting
    /\ \A w \in Writers : pc'[w] = "write" => pc[w] \in {"write", "open", "opening"}

LEMMA QuietKeeps == FifoInv /\ TypeOK' /\ Quiet => FifoInv'
<1>. SUFFICES ASSUME FifoInv, TypeOK', Quiet PROVE FifoInv'
  OBVIOUS
<1>0. loops' = loops /\ got' = got /\ \A w : Last(w)' = Last(w)
  BY DEF Quiet, Last
<1>00. \A o \in Objects : content'[o] = content[o] \/ (IsFifo(o) /\ Len(content'[o]) = 0)
  BY DEF Quiet
<1>1. NotStarted'
  BY <1>0, FifoAssumption DEF FifoInv, Quiet, NotStarted, Starting, Procs
<1>2. Sent' /\ OrderKept' /\ OneOpen'
  <2>1. Sent'
    BY <1>0, <1>00 DEF FifoInv, Sent
  <2>. QED BY <1>0, <2>1 DEF FifoInv, OrderKept, OneOpen, Quiet
<1>3. \A p \in Procs, o \in Objects : held'[p] = {o} => held[p] = {o} \/ pc[p] = "open"
  BY DEF Quiet
<1>4. \A r \in Readers : pc[r] = "open" => got[r] = << >>
  BY DEF FifoInv, NotStarted, Starting
<1>5. \A w \in Writers : pc[w] = "open" => Last(w) = 0
  BY FifoAssumption DEF FifoInv, NotStarted, Starting, Last
<1>6. PipesInOrder'
  <2>. SUFFICES ASSUME NEW o \in Objects, IsFifo(o)
                PROVE  /\ \A k, l \in 1..Len(content'[o]) :
                             k < l /\ content'[o][k][1] = content'[o][l][1]
                               => content'[o][k][2] < content'[o][l][2]
                       /\ \A r \in Readers : held'[r] = {o} =>
                             \A k \in 1..Len(got'[r]), l \in 1..Len(content'[o]) :
                                got'[r][k][1] = content'[o][l][1]
                                  => got'[r][k][2] < content'[o][l][2]
    BY DEF PipesInOrder
  <2>1. CASE Len(content'[o]) = 0
    BY <2>1
  <2>2. CASE content'[o] = content[o]
    BY <1>0, <1>3, <1>4, <2>2 DEF FifoInv, PipesInOrder, Procs
  <2>. QED BY <1>00, <2>1, <2>2
<1>7. FilesInPlace'
  <2>. SUFFICES ASSUME NEW o \in Objects, ~ IsFifo(o)
                PROVE  /\ \A k \in 1..Len(content'[o]) : content'[o][k][2] = k
                       /\ \A r \in Readers : held'[r] = {o} =>
                             \A k \in 1..Len(got'[r]) : got'[r][k][2] = k
                       /\ \A w \in Writers : held'[w] = {o} => Last(w)' <= Len(content'[o])
    BY DEF FilesInPlace
  <2>0. content'[o] = content[o]
    BY <1>00
  <2>1. \A k \in 1..Len(content'[o]) : content'[o][k][2] = k
    BY <2>0 DEF FifoInv, FilesInPlace
  <2>2. \A r \in Readers : held'[r] = {o} => \A k \in 1..Len(got'[r]) : got'[r][k][2] = k
    BY <1>0, <1>3, <1>4 DEF FifoInv, FilesInPlace, Procs
  <2>3. Len(content[o]) \in Nat
    BY DEF FifoInv, TypeOK
  <2>4. \A w \in Writers : held[w] = {o} => Last(w) <= Len(content[o])
    BY DEF FifoInv, FilesInPlace
  <2>5. ASSUME NEW w \in Writers, held'[w] = {o} PROVE Last(w)' <= Len(content'[o])
    <3>1. held[w] = {o} \/ Last(w) = 0
      BY <1>3, <1>5, <2>5 DEF Procs
    <3>. QED BY <1>0, <2>0, <2>3, <2>4, <3>1
  <2>. QED BY <2>1, <2>2, <2>5
<1>. QED BY <1>1, <1>2, <1>6, <1>7 DEF FifoInv

\* What an open does to the processes, p's own next step being next.
LEMMA AttachQuiet ==
    ASSUME TypeOK, NEW p \in Procs, NEW o \in Objects, NEW others \in SUBSET Procs,
           NEW next \in {"read", "write"}, NEW others_next \in {"read", "write"},
           pc[p] = "open",
           Attach(p, o, others, next, others_next)
    PROVE  /\ pc' \in [Procs -> Labels] /\ held' \in [Procs -> SUBSET Objects]
           /\ \A q \in Procs : held'[q] = held[q] \/ (pc[q] = "open" /\ held'[q] = {o})
           /\ \A q \in Procs : pc'[q] \in Starting => pc[q] \in Starting
           /\ \A q \in Procs : pc'[q] = "write" => pc[q] \in {"write", "open", "opening"}
           /\ content' \in [Objects -> Seq(Ints)]
           /\ \A x \in Objects : content'[x] = content[x] \/ (IsFifo(x) /\ content'[x] = << >>)
<1>1. pc' \in [Procs -> Labels]
  BY DEF TypeOK, Attach, Labels
<1>0. /\ content' \in [Objects -> Seq(Ints)]
      /\ \A x \in Objects : content'[x] = content[x] \/ (IsFifo(x) /\ content'[x] = << >>)
  BY DEF TypeOK, Attach
<1>2. held' \in [Procs -> SUBSET Objects] /\ held'[p] = {o} /\ \A q \in Procs : q # p => held'[q] = held[q]
  BY DEF TypeOK, Attach
<1>3. \A q \in Procs : \/ q = p /\ pc[q] = "open"
                       \/ pc'[q] = pc[q]
                       \/ pc[q] = "opening" /\ pc'[q] \in {"read", "write"}
  BY DEF Attach
<1>. QED BY <1>0, <1>1, <1>2, <1>3 DEF Starting

\* The steps that open or close.
LEMMA QuietSteps ==
    ASSUME FifoInv
    PROVE  /\ \A w \in Writers : MkFifo(w) \/ WriterOpen(w) \/ WriteBroken(w) => TypeOK' /\ Quiet
           /\ \A r \in Readers : ReaderOpen(r) \/ ReadEnd(r) => TypeOK' /\ Quiet
           /\ \A p \in Procs : Close(p) \/ Unlink(p) \/ Kill(p) => TypeOK' /\ Quiet
<1>. USE DEF FifoInv
<1>0. /\ \A w \in Writers : <<w, "fifo">> \in Objects /\ <<w, "file">> \in Objects
      /\ Writers \subseteq Procs /\ Readers \subseteq Procs
  BY DEF Objects, Procs
<1>1. ASSUME NEW w \in Writers, MkFifo(w) PROVE TypeOK' /\ Quiet
  <2>1. name' \in SUBSET Objects
    BY <1>0, <1>1 DEF MkFifo, TypeOK
  <2>2. pc' \in [Procs -> Labels]
    BY <1>0, <1>1 DEF MkFifo, TypeOK, Goto, Labels
  <2>3. TypeOK'
    BY <2>1, <2>2, <1>1 DEF MkFifo, TypeOK
  <2>4. Quiet
    BY <1>0, <1>1 DEF MkFifo, Goto, Quiet, Starting, TypeOK
  <2>. QED BY <2>3, <2>4
<1>2. ASSUME NEW w \in Writers, WriterOpen(w) PROVE TypeOK' /\ Quiet
  <2>1. name' \in SUBSET Objects
    BY <1>0, <1>2 DEF WriterOpen, TypeOK
  <2>2. PICK o \in name' : Attach(w, o, ReadersOn(o), "write", "read")
    BY <1>2 DEF WriterOpen
  <2>3. pc[w] = "open" /\ ReadersOn(o) \in SUBSET Procs
    BY <1>0, <1>2 DEF WriterOpen, ReadersOn
  <2>4. /\ pc' \in [Procs -> Labels] /\ held' \in [Procs -> SUBSET Objects]
        /\ \A q \in Procs : held'[q] = held[q] \/ (pc[q] = "open" /\ held'[q] = {o})
        /\ \A q \in Procs : pc'[q] \in Starting => pc[q] \in Starting
        /\ \A q \in Procs : pc'[q] = "write" => pc[q] \in {"write", "open", "opening"}
        /\ content' \in [Objects -> Seq(Ints)]
        /\ \A x \in Objects : content'[x] = content[x] \/ (IsFifo(x) /\ content'[x] = << >>)
    BY <1>0, <2>1, <2>2, <2>3, AttachQuiet
  <2>5. TypeOK'
    <3>1. \A x \in Objects : IsFifo(x) => Len(content'[x]) <= Capacity
      BY <2>4, FifoAssumption DEF TypeOK
    <3>. QED BY <2>1, <2>4, <3>1, <1>2 DEF WriterOpen, TypeOK
  <2>6. Quiet
    BY <1>0, <2>1, <2>4, <1>2 DEF WriterOpen, Quiet
  <2>. QED BY <2>5, <2>6
<1>3. ASSUME NEW w \in Writers, WriteBroken(w) PROVE TypeOK' /\ Quiet
  <2>1. TypeOK'
    BY <1>0, <1>3 DEF WriteBroken, TypeOK, Goto, Labels
  <2>2. Quiet
    BY <1>0, <1>3 DEF WriteBroken, Goto, Quiet, Starting, TypeOK
  <2>. QED BY <2>1, <2>2
<1>4. ASSUME NEW r \in Readers, ReaderOpen(r) PROVE TypeOK' /\ Quiet
  <2>1. CASE name = {}
    <3>1. TypeOK'
      BY <1>0, <1>4, <2>1 DEF ReaderOpen, TypeOK, Goto, Labels
    <3>2. Quiet
      BY <1>0, <1>4, <2>1 DEF ReaderOpen, Goto, Quiet, Starting, TypeOK
    <3>. QED BY <3>1, <3>2
  <2>2. CASE name # {}
    <3>1. PICK o \in name : Attach(r, o, WritersOn(o), "read", "write")
      BY <1>4, <2>2 DEF ReaderOpen
    <3>2. pc[r] = "open" /\ o \in Objects /\ WritersOn(o) \in SUBSET Procs
      BY <1>0, <1>4 DEF ReaderOpen, WritersOn, TypeOK
    <3>3. /\ pc' \in [Procs -> Labels] /\ held' \in [Procs -> SUBSET Objects]
          /\ \A q \in Procs : held'[q] = held[q] \/ (pc[q] = "open" /\ held'[q] = {o})
          /\ \A q \in Procs : pc'[q] \in Starting => pc[q] \in Starting
          /\ \A q \in Procs : pc'[q] = "write" => pc[q] \in {"write", "open", "opening"}
          /\ content' \in [Objects -> Seq(Ints)]
          /\ \A x \in Objects : content'[x] = content[x] \/ (IsFifo(x) /\ content'[x] = << >>)
      BY <1>0, <3>1, <3>2, AttachQuiet
    <3>4. TypeOK'
      <4>1. \A x \in Objects : IsFifo(x) => Len(content'[x]) <= Capacity
        BY <3>3, FifoAssumption DEF TypeOK
      <4>. QED BY <3>3, <4>1, <1>4, <2>2 DEF ReaderOpen, TypeOK
    <3>5. Quiet
      BY <1>0, <3>2, <3>3, <1>4 DEF ReaderOpen, Quiet
    <3>. QED BY <3>4, <3>5
  <2>. QED BY <2>1, <2>2
<1>5. ASSUME NEW r \in Readers, ReadEnd(r) PROVE TypeOK' /\ Quiet
  <2>1. TypeOK'
    BY <1>0, <1>5 DEF ReadEnd, TypeOK, Goto, Labels
  <2>2. Quiet
    BY <1>0, <1>5 DEF ReadEnd, Goto, Quiet, Starting, TypeOK
  <2>. QED BY <2>1, <2>2
<1>6. ASSUME NEW p \in Procs, Close(p) \/ Unlink(p) PROVE TypeOK' /\ Quiet
  <2>1. TypeOK'
    BY <1>0, <1>6 DEF Close, Unlink, TypeOK, Goto, Labels
  <2>2. Quiet
    BY <1>0, <1>6 DEF Close, Unlink, Goto, Quiet, Starting, TypeOK
  <2>. QED BY <2>1, <2>2
<1>7. ASSUME NEW p \in Procs, Kill(p) PROVE TypeOK' /\ Quiet
  <2>1. TypeOK'
    BY <1>0, <1>7, FifoAssumption DEF Kill, TypeOK, Labels
  <2>2. Quiet
    BY <1>0, <1>7 DEF Kill, Quiet, Starting, TypeOK
  <2>. QED BY <2>1, <2>2
<1>. QED BY <1>1, <1>2, <1>3, <1>4, <1>5, <1>6, <1>7

-----------------------------------------------------------------------------
\* A write moves its writer's loop on.
LEMMA WroteMoves ==
    ASSUME FifoInv, NEW w \in Writers, pc[w] = "write", Wrote(w)
    PROVE  /\ loops[w] \in Nat /\ loops[w] < MaxLoops
           /\ loops' \in [Writers -> 0..MaxLoops] /\ pc' \in [Procs -> Labels]
           /\ Last(w) \in Nat /\ Last(w)' = Last(w) + IntsPerChunk
           /\ Last(w)' <= MaxLoops * IntsPerChunk
           /\ \A v \in Writers : v # w => Last(v)' = Last(v)
           /\ \A v \in Writers : Last(v) \in Nat /\ Last(v) <= Last(v)'
           /\ NotStarted' /\ OneOpen'
<1>. USE FifoAssumption DEF FifoInv
<1>1. loops[w] \in Nat /\ loops[w] < MaxLoops /\ w \in Procs
  BY DEF TypeOK, NotStarted, Procs
<1>2. loops' = [loops EXCEPT ![w] = loops[w] + 1]
  BY DEF Wrote
<1>3. loops' \in [Writers -> 0..MaxLoops] /\ loops'[w] = loops[w] + 1
      /\ \A v \in Writers : v # w => loops'[v] = loops[v]
  BY <1>1, <1>2 DEF TypeOK
<1>4. pc' \in [Procs -> Labels]
  BY DEF Wrote, TypeOK, Labels
<1>5. /\ Last(w) \in Nat /\ Last(w)' = Last(w) + IntsPerChunk
      /\ Last(w)' <= MaxLoops * IntsPerChunk
  BY <1>1, <1>3, OneChunk DEF Last
<1>6. \A v \in Writers : v # w => Last(v)' = Last(v)
  BY <1>3 DEF Last
<1>7. \A v \in Writers : Last(v) \in Nat /\ Last(v) <= Last(v)'
  BY <1>5, <1>6, LastType
<1>8. NotStarted'
  <2>1. \A v \in Procs : v # w => pc'[v] = pc[v]
    BY DEF Wrote, TypeOK
  <2>2. pc'[w] \in {"close", "write"} /\ (pc'[w] = "write" => loops'[w] # MaxLoops)
    BY <1>1 DEF Wrote, TypeOK
  <2>3. pc'[w] = "write" => loops'[w] < MaxLoops
    BY <1>1, <1>3, <2>2
  <2>4. got' = got /\ w \notin Readers
    BY DEF Wrote
  <2>. QED BY <1>3, <2>1, <2>2, <2>3, <2>4 DEF NotStarted, Starting, Procs
<1>9. OneOpen'
  BY DEF Wrote, OneOpen
<1>. QED BY <1>1, <1>3, <1>4, <1>5, <1>6, <1>7, <1>8, <1>9

\* What is read stays behind what is sent, and a reader has its order.
LEMMA GotStays ==
    ASSUME FifoInv, NEW w \in Writers, pc[w] = "write", Wrote(w)
    PROVE  /\ \A v \in Writers, r \in Readers : \A k \in 1..Len(got'[r]) :
                 got'[r][k][1] = v => got'[r][k][2] <= Last(v)'
           /\ OrderKept'
<1>1. got' = got
  BY DEF Wrote
<1>2. ASSUME NEW v \in Writers, NEW r \in Readers, NEW k \in 1..Len(got[r]), got[r][k][1] = v
      PROVE  got[r][k][2] <= Last(v)'
  <2>1. got[r] \in Seq(Ints)
    BY DEF FifoInv, TypeOK
  <2>2. got[r][k][2] \in 1..(MaxLoops * IntsPerChunk) /\ MaxLoops * IntsPerChunk \in Nat
    BY <2>1, OneChunk, FifoAssumption DEF Ints
  <2>3. got[r][k][2] <= Last(v)
    BY <1>2 DEF FifoInv, Sent
  <2>4. Last(v) \in Nat /\ Last(v) <= Last(v)' /\ Last(v)' \in Nat
    <3>1. Last(w)' = Last(w) + IntsPerChunk /\ IntsPerChunk \in Nat /\ Last(w) \in Nat
      BY WroteMoves, FifoAssumption
    <3>2. Last(v) \in Nat /\ (v # w => Last(v)' = Last(v))
      BY WroteMoves
    <3>. QED BY <3>1, <3>2
  <2>. QED BY <2>2, <2>3, <2>4
<1>3. OrderKept'
  BY <1>1 DEF FifoInv, OrderKept
<1>. QED BY <1>1, <1>2, <1>3

\* A chunk into a pipe goes behind all that is there or was read.
LEMMA ChunkKeeps ==
    ASSUME FifoInv, NEW w \in Writers, WriteChunk(w)
    PROVE  FifoInv'
<1>. USE DEF FifoInv
<1>0. pc[w] = "write" /\ Wrote(w) /\ w \in Procs
  BY DEF WriteChunk, Procs
<1>1. PICK o \in held[w] :
        /\ IsFifo(o) /\ Len(content[o]) + IntsPerChunk <= Capacity
        /\ content' = [content EXCEPT ![o] = content[o] \o NextChunk(w)]
  BY DEF WriteChunk
<1>2. held[w] = {o} /\ o \in Objects /\ content[o] \in Seq(Ints)
  BY <1>0 DEF OneOpen, TypeOK
<1>. DEFINE old == content[o]
            n == Len(old)
<1>3. n \in Nat /\ IntsPerChunk \in Nat /\ MaxLoops * IntsPerChunk \in Nat
  BY <1>2, FifoAssumption, OneChunk
<1>4. NextChunk(w) = [k \in 1..IntsPerChunk |-> <<w, Last(w) + k>>]
  BY DEF NextChunk, Last
<1>5. NextChunk(w) \in Seq(Ints) /\ Len(NextChunk(w)) = IntsPerChunk
  <2>1. \A k \in 1..IntsPerChunk : <<w, Last(w) + k>> \in Ints
    BY <1>0, <1>3, WroteMoves DEF Ints
  <2>. QED BY <1>3, <1>4, <2>1
<1>6. /\ content'[o] \in Seq(Ints) /\ Len(content'[o]) = n + IntsPerChunk
      /\ \A k \in 1..n : content'[o][k] = old[k]
      /\ \A k \in (n + 1)..(n + IntsPerChunk) :
            content'[o][k][1] = w /\ content'[o][k][2] = Last(w) + (k - n)
  <2>1. content'[o] = old \o NextChunk(w)
    BY <1>1, <1>2 DEF TypeOK
  <2>2. old \o NextChunk(w) \in Seq(Ints) /\ Len(old \o NextChunk(w)) = n + IntsPerChunk
    BY <1>2, <1>5
  <2>3. ASSUME NEW k \in (n + 1)..(n + IntsPerChunk)
        PROVE  content'[o][k][1] = w /\ content'[o][k][2] = Last(w) + (k - n)
    <3>1. (old \o NextChunk(w))[k] = NextChunk(w)[k - n]
      BY <1>2, <1>3, <1>5
    <3>2. k - n \in 1..IntsPerChunk
      BY <1>3
    <3>3. NextChunk(w)[k - n] = <<w, Last(w) + (k - n)>>
      BY <1>4, <3>2
    <3>. QED BY <2>1, <3>1, <3>3
  <2>4. \A k \in 1..n : content'[o][k] = old[k]
    BY <1>2, <1>3, <1>5, <2>1
  <2>. HIDE DEF old, n
  <2>. QED BY <2>1, <2>2, <2>3, <2>4
<1>7. \A q \in Objects : q # o => content'[q] = content[q]
  BY <1>1, <1>2 DEF TypeOK
<1>8. \A k \in 1..n : /\ old[k][1] \in Writers /\ old[k][2] \in 1..(MaxLoops * IntsPerChunk)
                      /\ old[k][2] \in Nat
  BY <1>2, <1>3 DEF Ints
<1>9. /\ name' = name /\ held' = held /\ got' = got /\ kills' = kills
      /\ \A v \in Writers : Last(v) \in Nat /\ Last(v) <= Last(v)'
      /\ Last(w)' = Last(w) + IntsPerChunk
      /\ \A v \in Writers : v # w => Last(v)' = Last(v)
  BY <1>0, WroteMoves DEF Wrote
<1>10. \A q \in Objects : \A k \in 1..Len(content[q]) :
         content[q][k][1] \in Writers /\ content[q][k][2] \in Nat
  <2>1. content \in [Objects -> Seq(Ints)]
    BY <1>3 DEF TypeOK
  <2>2. \A q \in Objects : \A k \in 1..Len(content[q]) : content[q][k] \in Ints
    BY <2>1
  <2>3. \A i \in Ints : i[1] \in Writers /\ i[2] \in Nat
    BY DEF Ints
  <2>. QED BY <2>2, <2>3
<1>11. \A r \in Readers : \A k \in 1..Len(got[r]) :
         got[r][k][1] \in Writers /\ got[r][k][2] \in Nat
  <2>1. got \in [Readers -> Seq(Ints)]
    BY <1>3 DEF TypeOK
  <2>2. \A q \in Readers : \A k \in 1..Len(got[q]) : got[q][k] \in Ints
    BY <2>1
  <2>3. \A i \in Ints : i[1] \in Writers /\ i[2] \in Nat
    BY DEF Ints
  <2>. QED BY <2>2, <2>3
<1>. HIDE DEF FifoInv
<1>12. TypeOK'
  <2>1. content' \in [Objects -> Seq(Ints)]
    BY <1>1, <1>2, <1>5 DEF FifoInv, TypeOK
  <2>2. \A q \in Objects : IsFifo(q) => Len(content'[q]) <= Capacity
    BY <1>1, <1>6, <1>7 DEF FifoInv, TypeOK
  <2>. QED BY <1>0, <1>9, <2>1, <2>2, WroteMoves DEF FifoInv, TypeOK
<1>13. Sent'
  <2>1. ASSUME NEW v \in Writers, NEW q \in Objects, NEW k \in 1..Len(content'[q]),
               content'[q][k][1] = v
        PROVE  content'[q][k][2] <= Last(v)'
    <3>0. Last(v) \in Nat /\ Last(v)' \in Nat /\ Last(v) <= Last(v)'
      BY <1>3, <1>9
    <3>1. CASE q # o
      <4>1. content'[q][k][2] <= Last(v) /\ content'[q][k][2] \in Nat
        BY <1>7, <1>10, <2>1, <3>1 DEF FifoInv, Sent
      <4>. QED BY <3>0, <4>1
    <3>2. CASE q = o /\ k \in 1..n
      <4>1. old[k][2] <= Last(v) /\ old[k][2] \in Nat
        BY <1>2, <1>6, <1>8, <2>1, <3>2 DEF FifoInv, Sent
      <4>. QED BY <1>6, <3>0, <3>2, <4>1
    <3>3. CASE q = o /\ k \in (n + 1)..(n + IntsPerChunk)
      <4>1. v = w /\ content'[q][k][2] = Last(w) + (k - n)
        BY <1>6, <2>1, <3>3
      <4>. QED BY <1>3, <1>9, <3>0, <3>3, <4>1
    <3>4. q = o => k \in 1..n \/ k \in (n + 1)..(n + IntsPerChunk)
      BY <1>3, <1>6
    <3>. QED BY <3>1, <3>2, <3>3, <3>4
  <2>. QED BY <1>0, <2>1, GotStays DEF Sent
<1>14. PipesInOrder'
  <2>0. \A k \in 1..Len(content'[o]) : k \in 1..n \/ k \in (n + 1)..(n + IntsPerChunk)
    BY <1>3, <1>6
  <2>00. \A k \in 1..n : old[k][1] = w => old[k][2] <= Last(w)
    BY <1>2 DEF FifoInv, Sent
  <2>1. ASSUME NEW q \in Objects, IsFifo(q), NEW k \in 1..Len(content'[q]),
               NEW l \in 1..Len(content'[q]), k < l, content'[q][k][1] = content'[q][l][1]
        PROVE  content'[q][k][2] < content'[q][l][2]
    <3>1. CASE q # o
      BY <1>7, <2>1, <3>1 DEF FifoInv, PipesInOrder
    <3>2. CASE q = o /\ l \in 1..n
      <4>1. k \in 1..n
        BY <1>3, <1>6, <2>1, <3>2
      <4>2. old[k][1] = old[l][1] => old[k][2] < old[l][2]
        BY <1>2, <2>1, <3>2, <4>1 DEF FifoInv, PipesInOrder
      <4>. QED BY <1>6, <2>1, <3>2, <4>1, <4>2
    <3>3. CASE q = o /\ k \in 1..n /\ l \in (n + 1)..(n + IntsPerChunk)
      <4>1. content'[q][l][1] = w /\ content'[q][l][2] = Last(w) + (l - n)
        BY <1>6, <3>3
      <4>2. content'[q][k] = old[k] /\ old[k][2] \in Nat /\ old[k][2] <= Last(w)
        BY <1>6, <1>8, <2>00, <2>1, <3>3, <4>1
      <4>3. l > n /\ l \in Nat /\ n \in Nat /\ Last(w) \in Nat
        BY <1>3, <1>9, <3>3
      <4>. QED BY <4>1, <4>2, <4>3
    <3>4. CASE q = o /\ k \in (n + 1)..(n + IntsPerChunk) /\ l \in (n + 1)..(n + IntsPerChunk)
      <4>1. content'[q][k][2] = Last(w) + (k - n) /\ content'[q][l][2] = Last(w) + (l - n)
        BY <1>6, <3>4
      <4>. QED BY <1>3, <1>9, <2>1, <3>4, <4>1
    <3>. QED BY <2>0, <3>1, <3>2, <3>3, <3>4
  <2>2. ASSUME NEW q \in Objects, IsFifo(q), NEW r \in Readers, held[r] = {q},
               NEW k \in 1..Len(got[r]), NEW l \in 1..Len(content'[q]),
               got[r][k][1] = content'[q][l][1]
        PROVE  got[r][k][2] < content'[q][l][2]
    <3>1. CASE q # o
      BY <1>7, <2>2, <3>1 DEF FifoInv, PipesInOrder
    <3>2. CASE q = o /\ l \in 1..n
      <4>1. got[r][k][1] = old[l][1] => got[r][k][2] < old[l][2]
        BY <1>2, <2>2, <3>2 DEF FifoInv, PipesInOrder
      <4>. QED BY <1>6, <2>2, <3>2, <4>1
    <3>3. CASE q = o /\ l \in (n + 1)..(n + IntsPerChunk)
      <4>1. content'[q][l][1] = w /\ content'[q][l][2] = Last(w) + (l - n)
        BY <1>6, <3>3
      <4>2. got[r][k][2] <= Last(w) /\ got[r][k][2] \in Nat
        BY <1>11, <2>2, <4>1 DEF FifoInv, Sent
      <4>3. l > n /\ l \in Nat /\ n \in Nat /\ Last(w) \in Nat
        BY <1>3, <1>9, <3>3
      <4>. QED BY <4>1, <4>2, <4>3
    <3>. QED BY <2>0, <3>1, <3>2, <3>3
  <2>. QED BY <1>9, <2>1, <2>2 DEF PipesInOrder
<1>15. FilesInPlace'
  <2>1. \A q \in Objects : ~ IsFifo(q) => q # o /\ content'[q] = content[q] /\ held[w] # {q}
    BY <1>1, <1>2, <1>7
  <2>2. \A v \in Writers : v # w => Last(v)' = Last(v)
    BY <1>0, WroteMoves
  <2>. QED BY <1>9, <2>1, <2>2 DEF FifoInv, FilesInPlace
<1>. QED BY <1>0, <1>12, <1>13, <1>14, <1>15, WroteMoves, GotStays DEF FifoInv

\* A chunk into a regular file goes to its places, over what is there.
LEMMA FileKeeps ==
    ASSUME FifoInv, NEW w \in Writers, WriteFile(w)
    PROVE  FifoInv'
<1>0. pc[w] = "write" /\ Wrote(w) /\ w \in Procs
  BY DEF WriteFile, Procs
<1>. DEFINE upto == Last(w) + IntsPerChunk
<1>1. PICK o \in held[w] :
        /\ ~ IsFifo(o)
        /\ content' = [content EXCEPT ![o] =
               [k \in 1..(IF upto > Len(content[o]) THEN upto ELSE Len(content[o])) |->
                   IF k \in (Last(w) + 1)..upto THEN <<w, k>> ELSE content[o][k]]]
  BY DEF WriteFile, Last
<1>2. held[w] = {o} /\ o \in Objects /\ content[o] \in Seq(Ints)
  BY <1>0 DEF FifoInv, OneOpen, TypeOK
<1>. DEFINE old == content[o]
            n == Len(old)
            size == IF upto > n THEN upto ELSE n
<1>3. n \in Nat /\ IntsPerChunk \in Nat /\ MaxLoops * IntsPerChunk \in Nat
  BY <1>2, FifoAssumption, OneChunk
<1>4. /\ Last(w) \in Nat /\ upto \in Nat /\ upto <= MaxLoops * IntsPerChunk
      /\ Last(w)' = upto /\ Last(w) <= n
  BY <1>0, <1>1, <1>2, <1>3, WroteMoves DEF FifoInv, FilesInPlace
<1>5. /\ size \in Nat /\ n <= size /\ upto <= size
      /\ \A k \in 1..size : k \in (Last(w) + 1)..upto \/ k \in 1..n
  BY <1>3, <1>4
<1>6. /\ content'[o] = [k \in 1..size |-> IF k \in (Last(w) + 1)..upto THEN <<w, k>> ELSE old[k]]
      /\ \A q \in Objects : q # o => content'[q] = content[q]
  BY <1>1, <1>2 DEF FifoInv, TypeOK
<1>. HIDE DEF upto, size
<1>7. content'[o] \in Seq(Ints) /\ Len(content'[o]) = size
  <2>1. ASSUME NEW k \in 1..size
        PROVE  (IF k \in (Last(w) + 1)..upto THEN <<w, k>> ELSE old[k]) \in Ints
    <3>1. k \in (Last(w) + 1)..upto => <<w, k>> \in Ints
      BY <1>3, <1>4 DEF Ints
    <3>2. k \in 1..n => old[k] \in Ints
      BY <1>2
    <3>. QED BY <1>5, <3>1, <3>2
  <2>. QED BY <1>5, <1>6, <2>1
<1>8. \A k \in 1..size :
        /\ k \in (Last(w) + 1)..upto => content'[o][k] = <<w, k>>
        /\ k \notin (Last(w) + 1)..upto => k \in 1..n /\ content'[o][k] = old[k]
  <2>1. \A k \in 1..size :
            content'[o][k] = IF k \in (Last(w) + 1)..upto THEN <<w, k>> ELSE old[k]
    BY <1>6
  <2>. QED BY <1>5, <2>1
<1>9. /\ name' = name /\ held' = held /\ got' = got /\ kills' = kills
      /\ \A v \in Writers : Last(v) \in Nat /\ Last(v) <= Last(v)'
      /\ \A v \in Writers : v # w => Last(v)' = Last(v)
  BY <1>0, WroteMoves DEF Wrote
<1>10. \A q \in Objects : \A k \in 1..Len(content[q]) :
         content[q][k][1] \in Writers /\ content[q][k][2] \in Nat
  <2>1. content \in [Objects -> Seq(Ints)]
    BY <1>3 DEF FifoInv, TypeOK
  <2>2. \A q \in Objects : \A k \in 1..Len(content[q]) : content[q][k] \in Ints
    BY <2>1
  <2>3. \A i \in Ints : i[1] \in Writers /\ i[2] \in Nat
    BY DEF Ints
  <2>. QED BY <2>2, <2>3
<1>12. TypeOK'
  <2>1. content' \in [Objects -> Seq(Ints)]
    BY <1>1, <1>6, <1>7 DEF FifoInv, TypeOK
  <2>2. \A q \in Objects : IsFifo(q) => Len(content'[q]) <= Capacity
    BY <1>1, <1>6 DEF FifoInv, TypeOK
  <2>. QED BY <1>0, <1>9, <2>1, <2>2, WroteMoves DEF FifoInv, TypeOK
<1>13. Sent'
  <2>1. ASSUME NEW v \in Writers, NEW q \in Objects, NEW k \in 1..Len(content'[q]),
               content'[q][k][1] = v
        PROVE  content'[q][k][2] <= Last(v)'
    <3>0. Last(v) \in Nat /\ Last(v)' \in Nat /\ Last(v) <= Last(v)'
      BY <1>4, <1>9
    <3>1. CASE content'[q][k] = content[q][k] /\ k \in 1..Len(content[q])
      <4>1. content[q][k][2] <= Last(v) /\ content[q][k][2] \in Nat
        BY <1>10, <2>1, <3>1 DEF FifoInv, Sent
      <4>. QED BY <3>0, <3>1, <4>1
    <3>2. CASE q = o /\ k \in (Last(w) + 1)..upto /\ content'[q][k] = <<w, k>>
      BY <1>4, <2>1, <3>2
    <3>. QED BY <1>6, <1>7, <1>8, <3>1, <3>2
  <2>. QED BY <1>0, <2>1, GotStays DEF Sent
<1>14. PipesInOrder'
  BY <1>1, <1>6, <1>9 DEF FifoInv, PipesInOrder
<1>15. FilesInPlace'
  <2>1. ASSUME NEW q \in Objects, ~ IsFifo(q), NEW k \in 1..Len(content'[q])
        PROVE  content'[q][k][2] = k
    <3>1. CASE q # o
      BY <1>6, <2>1, <3>1 DEF FifoInv, FilesInPlace
    <3>2. CASE q = o
      <4>1. \A j \in 1..n : old[j][2] = j
        BY <1>1, <1>2 DEF FifoInv, FilesInPlace
      <4>. QED BY <1>7, <1>8, <3>2, <4>1
    <3>. QED BY <3>1, <3>2
  <2>2. ASSUME NEW q \in Objects, ~ IsFifo(q), NEW v \in Writers, held[v] = {q}
        PROVE  Last(v)' <= Len(content'[q])
    <3>1. CASE q # o
      <4>1. v # w /\ Last(v) <= Len(content[q])
        BY <1>2, <2>2, <3>1 DEF FifoInv, FilesInPlace
      <4>. QED BY <1>6, <1>9, <3>1, <4>1
    <3>2. CASE q = o /\ v # w
      <4>1. Last(v) <= n
        BY <1>1, <1>2, <2>2, <3>2 DEF FifoInv, FilesInPlace
      <4>. QED BY <1>3, <1>5, <1>7, <1>9, <3>2, <4>1
    <3>3. CASE q = o /\ v = w
      BY <1>4, <1>5, <1>7, <3>3
    <3>. QED BY <3>1, <3>2, <3>3
  <2>3. \A q \in Objects : ~ IsFifo(q) => \A r \in Readers : held'[r] = {q} =>
            \A k \in 1..Len(got'[r]) : got'[r][k][2] = k
    BY <1>9 DEF FifoInv, FilesInPlace
  <2>. QED BY <1>9, <2>1, <2>2, <2>3 DEF FilesInPlace
<1>. QED BY <1>0, <1>12, <1>13, <1>14, <1>15, WroteMoves, GotStays DEF FifoInv

-----------------------------------------------------------------------------
\* An int that is read comes after those the reader has.
LEMMA ReadKeeps ==
    ASSUME FifoInv, NEW r \in Readers, ReadInt(r)
    PROVE  FifoInv'
<1>0. /\ pc[r] = "read" /\ r \in Procs
      /\ pc' = pc /\ name' = name /\ held' = held /\ loops' = loops /\ kills' = kills
  BY DEF ReadInt, Procs
<1>1. PICK o \in held[r] :
        IF IsFifo(o)
          THEN /\ content[o] # << >>
               /\ got' = [got EXCEPT ![r] = Append(got[r], Head(content[o]))]
               /\ content' = [content EXCEPT ![o] = Tail(content[o])]
          ELSE /\ Len(got[r]) < Len(content[o])
               /\ got' = [got EXCEPT ![r] = Append(got[r], content[o][Len(got[r]) + 1])]
               /\ content' = content
  BY DEF ReadInt
<1>2. held[r] = {o} /\ o \in Objects /\ content[o] \in Seq(Ints) /\ got[r] \in Seq(Ints)
  BY <1>0 DEF FifoInv, OneOpen, TypeOK
<1>. DEFINE old == content[o]
            n == Len(old)
            m == Len(got[r])
            x == IF IsFifo(o) THEN 1 ELSE m + 1
<1>3. n \in Nat /\ m \in Nat /\ x \in 1..n /\ MaxLoops * IntsPerChunk \in Nat
  BY <1>1, <1>2, FifoAssumption, OneChunk
<1>4. got' = [got EXCEPT ![r] = Append(got[r], old[x])]
  BY <1>1, <1>2
<1>5. /\ got'[r] \in Seq(Ints) /\ Len(got'[r]) = m + 1
      /\ \A k \in 1..m : got'[r][k] = got[r][k]
      /\ got'[r][m + 1] = old[x]
      /\ \A q \in Readers : q # r => got'[q] = got[q]
  BY <1>2, <1>3, <1>4 DEF FifoInv, TypeOK
<1>6. /\ content' \in [Objects -> Seq(Ints)]
      /\ \A q \in Objects : q # o => content'[q] = content[q]
      /\ IsFifo(o) => /\ x = 1 /\ Len(content'[o]) = n - 1
                      /\ \A k \in 1..(n - 1) : content'[o][k] = old[k + 1]
      /\ ~ IsFifo(o) => x = m + 1 /\ content' = content
  <2>1. CASE IsFifo(o)
    <3>1. /\ content' = [content EXCEPT ![o] = Tail(old)]
          /\ Tail(old) \in Seq(Ints) /\ Len(Tail(old)) = n - 1
          /\ \A k \in 1..(n - 1) : Tail(old)[k] = old[k + 1]
      BY <1>1, <1>2, <1>3, <2>1
    <3>2. /\ content'[o] = Tail(old) /\ content' \in [Objects -> Seq(Ints)]
          /\ \A q \in Objects : q # o => content'[q] = content[q]
      BY <1>2, <3>1 DEF FifoInv, TypeOK
    <3>. QED BY <2>1, <3>1, <3>2
  <2>2. CASE ~ IsFifo(o)
    BY <1>1, <2>2 DEF FifoInv, TypeOK
  <2>. QED BY <2>1, <2>2
<1>7. old[x] \in Ints /\ old[x][2] \in Nat /\ \A k \in 1..m : got[r][k][2] \in Nat
  <2>1. old[x] \in Ints /\ \A k \in 1..m : got[r][k] \in Ints
    BY <1>2, <1>3
  <2>. QED BY <2>1 DEF Ints
<1>8. \A k \in 1..(m + 1) : k \in 1..m \/ k = m + 1
  BY <1>3
<1>9. \A v : Last(v)' = Last(v)
  BY <1>0 DEF Last
<1>. HIDE DEF x, m, n
<1>10. TypeOK'
  <2>1. got' \in [Readers -> Seq(Ints)]
    BY <1>4, <1>5 DEF FifoInv, TypeOK
  <2>2. \A q \in Objects : IsFifo(q) => Len(content'[q]) <= Capacity
    <3>1. n <= Capacity \/ ~ IsFifo(o)
      BY <1>2 DEF FifoInv, TypeOK, n
    <3>2. ASSUME NEW q \in Objects, IsFifo(q) PROVE Len(content'[q]) <= Capacity
      <4>1. CASE q = o
        BY <1>3, <1>6, <3>1, <3>2, <4>1, FifoAssumption
      <4>2. CASE q # o
        BY <1>6, <3>2, <4>2 DEF FifoInv, TypeOK
      <4>. QED BY <4>1, <4>2
    <3>. QED BY <3>2
  <2>. QED BY <1>0, <1>6, <2>1, <2>2 DEF FifoInv, TypeOK
<1>11. NotStarted' /\ OneOpen'
  BY <1>0, <1>5 DEF FifoInv, NotStarted, OneOpen, Starting
<1>12. Sent'
  <2>1. ASSUME NEW v \in Writers, NEW q \in Objects, NEW k \in 1..Len(content'[q]),
               content'[q][k][1] = v
        PROVE  content'[q][k][2] <= Last(v)'
    <3>1. PICK j \in 1..Len(content[q]) : content'[q][k] = content[q][j]
      <4>1. CASE q = o /\ IsFifo(o)
        <5>1. k \in 1..(n - 1) /\ k + 1 \in 1..n
          BY <1>3, <1>6, <4>1
        <5>. QED BY <1>6, <4>1, <5>1 DEF n
      <4>2. CASE ~ (q = o /\ IsFifo(o))
        BY <1>6, <4>2
      <4>. QED BY <4>1, <4>2
    <3>. QED BY <1>9, <2>1, <3>1 DEF FifoInv, Sent
  <2>2. ASSUME NEW v \in Writers, NEW q \in Readers, NEW k \in 1..Len(got'[q]),
               got'[q][k][1] = v
        PROVE  got'[q][k][2] <= Last(v)'
    <3>1. CASE q # r
      BY <1>5, <1>9, <2>2, <3>1 DEF FifoInv, Sent
    <3>2. CASE q = r /\ k \in 1..m
      BY <1>5, <1>9, <2>2, <3>2 DEF FifoInv, Sent, m
    <3>3. CASE q = r /\ k = m + 1
      BY <1>2, <1>3, <1>5, <1>9, <2>2, <3>3 DEF FifoInv, Sent, n
    <3>. QED BY <1>5, <1>8, <3>1, <3>2, <3>3
  <2>. QED BY <2>1, <2>2 DEF Sent
<1>13. \A k \in 1..m : got[r][k][1] = old[x][1] => got[r][k][2] < old[x][2]
  <2>1. CASE IsFifo(o)
    BY <1>2, <1>3, <2>1 DEF FifoInv, PipesInOrder, m, n
  <2>2. CASE ~ IsFifo(o)
    <3>1. \A k \in 1..m : got[r][k][2] = k
      BY <1>2, <2>2 DEF FifoInv, FilesInPlace, m
    <3>2. old[x][2] = m + 1
      BY <1>2, <1>3, <1>6, <2>2 DEF FifoInv, FilesInPlace, n
    <3>. QED BY <1>3, <3>1, <3>2
  <2>. QED BY <2>1, <2>2
<1>14. OrderKept'
  <2>. SUFFICES ASSUME NEW q \in Readers, NEW k \in 1..Len(got'[q]), NEW l \in 1..Len(got'[q]),
                       k < l, got'[q][k][1] = got'[q][l][1]
                PROVE  got'[q][k][2] < got'[q][l][2]
    BY DEF OrderKept
  <2>1. CASE q # r
    BY <1>5, <2>1 DEF FifoInv, OrderKept
  <2>2. CASE q = r /\ l \in 1..m
    <3>1. k \in 1..m
      BY <1>3, <1>5, <2>2
    <3>. QED BY <1>5, <2>2, <3>1 DEF FifoInv, OrderKept, m
  <2>3. CASE q = r /\ l = m + 1
    <3>1. k \in 1..m
      BY <1>3, <1>5, <2>3
    <3>. QED BY <1>5, <1>13, <2>3, <3>1
  <2>. QED BY <1>5, <1>8, <2>1, <2>2, <2>3
<1>15. PipesInOrder'
  <2>1. ASSUME NEW q \in Objects, IsFifo(q), NEW k \in 1..Len(content'[q]),
               NEW l \in 1..Len(content'[q]), k < l, content'[q][k][1] = content'[q][l][1]
        PROVE  content'[q][k][2] < content'[q][l][2]
    <3>1. CASE q # o
      BY <1>6, <2>1, <3>1 DEF FifoInv, PipesInOrder
    <3>2. CASE q = o
      <4>1. k + 1 \in 1..n /\ l + 1 \in 1..n /\ k + 1 < l + 1
        BY <1>3, <1>6, <2>1, <3>2
      <4>2. content'[q][k] = old[k + 1] /\ content'[q][l] = old[l + 1]
        BY <1>3, <1>6, <2>1, <3>2
      <4>. QED BY <1>2, <2>1, <3>2, <4>1, <4>2 DEF FifoInv, PipesInOrder, n
    <3>. QED BY <3>1, <3>2
  <2>2. ASSUME NEW q \in Objects, IsFifo(q), NEW s \in Readers, held[s] = {q},
               NEW k \in 1..Len(got'[s]), NEW l \in 1..Len(content'[q]),
               got'[s][k][1] = content'[q][l][1]
        PROVE  got'[s][k][2] < content'[q][l][2]
    <3>1. CASE q # o
      <4>1. s # r
        BY <1>2, <2>2, <3>1
      <4>2. got'[s] = got[s] /\ content'[q] = content[q]
        BY <1>5, <1>6, <3>1, <4>1
      <4>. QED BY <2>2, <4>2 DEF FifoInv, PipesInOrder
    <3>2. CASE q = o
      <4>0. l + 1 \in 1..n /\ content'[q][l] = old[l + 1]
        BY <1>3, <1>6, <2>2, <3>2
      <4>5. \A j \in 1..Len(got[s]) : got[s][j][1] = old[l + 1][1] => got[s][j][2] < old[l + 1][2]
        BY <2>2, <3>2, <4>0 DEF FifoInv, PipesInOrder, n
      <4>1. CASE s # r
        BY <1>5, <2>2, <4>0, <4>1, <4>5
      <4>2. CASE s = r /\ k \in 1..m
        BY <1>5, <2>2, <4>0, <4>2, <4>5 DEF m
      <4>3. CASE s = r /\ k = m + 1
        <5>1. x \in 1..n /\ x < l + 1
          BY <1>3, <1>6, <2>2, <3>2
        <5>2. got'[s][k] = old[x]
          BY <1>5, <4>3
        <5>. QED BY <1>2, <2>2, <3>2, <4>0, <5>1, <5>2 DEF FifoInv, PipesInOrder, n
      <4>. QED BY <1>5, <1>8, <4>1, <4>2, <4>3
    <3>. QED BY <3>1, <3>2
  <2>. QED BY <1>0, <2>1, <2>2 DEF PipesInOrder
<1>16. FilesInPlace'
  <2>1. \A q \in Objects : ~ IsFifo(q) => content'[q] = content[q]
    BY <1>6
  <2>2. ASSUME NEW q \in Objects, ~ IsFifo(q), NEW s \in Readers, held[s] = {q},
               NEW k \in 1..Len(got'[s])
        PROVE  got'[s][k][2] = k
    <3>1. CASE s # r
      BY <1>5, <2>2, <3>1 DEF FifoInv, FilesInPlace
    <3>2. CASE s = r /\ k \in 1..m
      BY <1>5, <2>2, <3>2 DEF FifoInv, FilesInPlace, m
    <3>3. CASE s = r /\ k = m + 1
      <4>1. q = o /\ x = m + 1
        BY <1>2, <1>6, <2>2, <3>3
      <4>2. old[x][2] = x
        BY <1>2, <1>3, <2>2, <4>1 DEF FifoInv, FilesInPlace, n
      <4>. QED BY <1>5, <3>3, <4>1, <4>2
    <3>. QED BY <1>5, <1>8, <3>1, <3>2, <3>3
  <2>. QED BY <1>0, <1>9, <2>1, <2>2 DEF FifoInv, FilesInPlace
<1>. QED BY <1>10, <1>11, <1>12, <1>14, <1>15, <1>16 DEF FifoInv

-----------------------------------------------------------------------------
LEMMA InitGives == Init => FifoInv
<1>. SUFFICES ASSUME Init PROVE FifoInv
  OBVIOUS
<1>. USE FifoAssumption DEF Init
<1>1. TypeOK
  BY DEF TypeOK, Labels
<1>2. NotStarted /\ OneOpen /\ OrderKept
  BY DEF NotStarted, OneOpen, OrderKept, Starting, Procs
<1>3. Sent /\ PipesInOrder
  BY DEF Sent, PipesInOrder
<1>4. FilesInPlace
  BY DEF FilesInPlace, Procs
<1>. QED BY <1>1, <1>2, <1>3, <1>4 DEF FifoInv

LEMMA NextKeeps == FifoInv /\ [Next]_vars => FifoInv'
<1>. SUFFICES ASSUME FifoInv, [Next]_vars PROVE FifoInv'
  OBVIOUS
<1>1. CASE UNCHANGED vars
  BY <1>1 DEF vars, FifoInv, TypeOK, NotStarted, OneOpen, Sent, Last, PipesInOrder,
              FilesInPlace, OrderKept
<1>2. ASSUME NEW w \in Writers, Writer(w) PROVE FifoInv'
  BY <1>2, QuietSteps, QuietKeeps, ChunkKeeps, FileKeeps DEF Writer, Procs
<1>3. ASSUME NEW r \in Readers, Reader(r) PROVE FifoInv'
  BY <1>3, QuietSteps, QuietKeeps, ReadKeeps DEF Reader, Procs
<1>4. ASSUME NEW p \in Procs, Kill(p) PROVE FifoInv'
  BY <1>4, QuietSteps, QuietKeeps
<1>. QED BY <1>1, <1>2, <1>3, <1>4 DEF Next

LEMMA FifoInvHolds == Spec => []FifoInv
BY InitGives, NextKeeps, PTL DEF Spec

\* The state has its type; a pipe never holds more than its capacity.
THEOREM TypeCorrect == Spec => []TypeOK
<1>1. FifoInv => TypeOK
  BY DEF FifoInv
<1>. QED BY <1>1, FifoInvHolds, PTL

\* A reader gets each writer's ints in order and none twice (fifoReader.c:28-32).
THEOREM OrderKeptCorrect == Spec => []OrderKept
<1>1. FifoInv => OrderKept
  BY DEF FifoInv
<1>. QED BY <1>1, FifoInvHolds, PTL
-----------------------------------------------------------------------------
(* The end of the stream *)

\* Who has not opened, or found no name, has nothing open.
Unopened == \A p \in Procs : pc[p] \in {"mkfifo", "open", "noent"} => held[p] = {}

\* Nobody is killed, and no writer but w has come in.
Alone(w) == kills = 0 /\ \A v \in Writers \ {w} : pc[v] \in {"mkfifo", "open"}

ReadersIn(S) == \A r \in Readers : pc[r] \in S
ReadersHold(o) == \A r \in Readers : pc[r] = "read" => held[r] = {o}
Arrived(w, n) == \E s \in Readers : \E k \in 1..Len(got[s]) : got[s][k] = <<w, n>>
Waits(w, n, o) == \E k \in 1..Len(content[o]) : content[o][k] = <<w, n>>

\* What a pair goes through while w is the only writer, with o its pipe.
NotOpen(w) ==
    /\ pc[w] \in {"mkfifo", "open"}
    /\ pc[w] = "open" => name # {}
    /\ ReadersIn({"open", "opening", "noent"})
    /\ \A o \in name : IsFifo(o) /\ name = {o}
    /\ \A r \in Readers : pc[r] = "opening" => name # {} /\ held[r] = name
Opening(w, o) ==
    /\ pc[w] = "opening" /\ held[w] = {o} /\ name = {o}
    /\ ReadersIn({"open", "noent"})
Filling(w, o) ==
    /\ pc[w] \in {"write", "close"} /\ held[w] = {o} /\ name = {o}
    /\ pc[w] = "close" => loops[w] = MaxLoops
    /\ ReadersIn({"open", "noent", "read"}) /\ ReadersHold(o)
    /\ \E r \in Readers : pc[r] = "read"
    /\ \A n \in 1..Last(w) : Arrived(w, n) \/ Waits(w, n, o)
HasLeft(w, o) ==
    /\ pc[w] \in {"unlink", "exited"} /\ held[w] = {}
    /\ \A x \in name : IsFifo(x)
    /\ ReadersHold(o)
    /\ \A n \in 1..(MaxLoops * IntsPerChunk) :
          \/ Arrived(w, n)
          \/ /\ Waits(w, n, o) /\ ReadersIn({"open", "opening", "noent", "read"})
             /\ \E r \in Readers : pc[r] = "read"

Phase(w) == \/ NotOpen(w)
            \/ \E o \in Objects : IsFifo(o) /\ (Opening(w, o) \/ Filling(w, o) \/ HasLeft(w, o))

EndInv == FifoInv /\ Unopened /\ \A w \in Writers : Alone(w) => Phase(w)

\* The phases do not depend on anything else.
LEMMA PhaseStays ==
    ASSUME UNCHANGED vars, NEW w \in Writers, Phase(w)
    PROVE  Phase(w)'
<1>1. NotOpen(w) => NotOpen(w)'
  BY DEF vars, NotOpen, ReadersIn
<1>2. CASE NotOpen(w)
  BY <1>1, <1>2 DEF Phase
<1>3. ASSUME NEW o \in Objects, IsFifo(o), Opening(w, o) \/ Filling(w, o) \/ HasLeft(w, o)
      PROVE  Phase(w)'
  <2>1. (Opening(w, o) => Opening(w, o)') /\ (Filling(w, o) => Filling(w, o)')
    BY DEF vars, Opening, Filling, ReadersIn, ReadersHold, Arrived, Waits, Last
  <2>2. HasLeft(w, o) => HasLeft(w, o)'
    BY DEF vars, HasLeft, ReadersIn, ReadersHold, Arrived, Waits
  <2>3. Opening(w, o)' \/ Filling(w, o)' \/ HasLeft(w, o)'
    BY <1>3, <2>1, <2>2
  <2>. QED BY <1>3, <2>3 DEF Phase
<1>. QED BY <1>2, <1>3 DEF Phase

LEMMA UnopenedKept ==
    ASSUME TypeOK, Unopened, Next
    PROVE  Unopened'
<1>1. ASSUME NEW p \in Procs, NEW o, NEW others, NEW next \in {"read", "write"},
             NEW others_next \in {"read", "write"}, Attach(p, o, others, next, others_next)
      PROVE  Unopened'
  <2>1. /\ \A q \in Procs : q # p => held'[q] = held[q]
        /\ pc'[p] \in {"opening", "read", "write"}
        /\ \A q \in Procs : q # p => pc'[q] = pc[q] \/ pc'[q] \in {"read", "write"}
    BY <1>1 DEF Attach, TypeOK
  <2>. QED BY <2>1 DEF Unopened
<1>2. ASSUME NEW p \in Procs, Close(p) \/ Unlink(p) \/ Kill(p) PROVE Unopened'
  BY <1>2 DEF Close, Unlink, Kill, Goto, Unopened, TypeOK
<1>3. ASSUME NEW w \in Writers, Writer(w) PROVE Unopened'
  <2>1. w \in Procs
    BY DEF Procs
  <2>2. CASE MkFifo(w)
    BY <2>1, <2>2 DEF MkFifo, Goto, Unopened, TypeOK
  <2>3. CASE WriterOpen(w)
    BY <1>1, <2>1, <2>3 DEF WriterOpen
  <2>4. CASE WriteChunk(w) \/ WriteFile(w)
    BY <2>1, <2>4 DEF WriteChunk, WriteFile, Wrote, Unopened, TypeOK
  <2>5. CASE WriteBroken(w)
    BY <2>1, <2>5 DEF WriteBroken, Goto, Unopened, TypeOK
  <2>. QED BY <1>2, <1>3, <2>1, <2>2, <2>3, <2>4, <2>5 DEF Writer
<1>4. ASSUME NEW r \in Readers, Reader(r) PROVE Unopened'
  <2>1. r \in Procs
    BY DEF Procs
  <2>2. CASE ReaderOpen(r)
    <3>1. CASE name = {}
      BY <2>1, <2>2, <3>1 DEF ReaderOpen, Goto, Unopened, TypeOK
    <3>2. CASE name # {}
      BY <1>1, <2>1, <2>2, <3>2 DEF ReaderOpen
    <3>. QED BY <3>1, <3>2
  <2>3. CASE ReadInt(r)
    BY <2>3 DEF ReadInt, Unopened
  <2>4. CASE ReadEnd(r)
    BY <2>1, <2>4 DEF ReadEnd, Goto, Unopened, TypeOK
  <2>. QED BY <1>2, <1>4, <2>1, <2>2, <2>3, <2>4 DEF Reader
<1>. QED BY <1>2, <1>3, <1>4 DEF Next

\* A chunk brings its ints to those that wait, a read takes the first of them.
LEMMA ChunkArrives ==
    ASSUME FifoInv, NEW w \in Writers, NEW o \in Objects, held[w] = {o}, WriteChunk(w),
           \A n \in 1..Last(w) : Arrived(w, n) \/ Waits(w, n, o)
    PROVE  \A n \in 1..(Last(w)') : Arrived(w, n)' \/ Waits(w, n, o)'
<1>1. pc[w] = "write" /\ Wrote(w) /\ got' = got
  BY DEF WriteChunk, Wrote
<1>2. content[o] \in Seq(Ints) /\ content'[o] = content[o] \o NextChunk(w)
  BY DEF WriteChunk, FifoInv, TypeOK
<1>3. NextChunk(w) = [k \in 1..IntsPerChunk |-> <<w, Last(w) + k>>] /\ IntsPerChunk \in Nat
  BY FifoAssumption DEF NextChunk, Last
<1>4. Last(w) \in Nat /\ Last(w)' = Last(w) + IntsPerChunk
  BY <1>1, WroteMoves
<1>5. NextChunk(w) \in Seq(Writers \X Nat) /\ Len(NextChunk(w)) = IntsPerChunk
      /\ content[o] \in Seq(Writers \X Nat)
  <2>1. \A k \in 1..IntsPerChunk : <<w, Last(w) + k>> \in Writers \X Nat
    BY <1>3, <1>4
  <2>2. Ints \subseteq Writers \X Nat
    BY DEF Ints
  <2>3. NextChunk(w) \in Seq(Writers \X Nat) /\ Len(NextChunk(w)) = IntsPerChunk
    BY <1>3, <2>1
  <2>4. content[o] \in Seq(Writers \X Nat)
    BY <1>2, <2>2
  <2>. QED BY <2>3, <2>4
<1>6. /\ Len(content'[o]) = Len(content[o]) + IntsPerChunk /\ Len(content[o]) \in Nat
      /\ \A k \in 1..Len(content[o]) : content'[o][k] = content[o][k]
  BY <1>2, <1>3, <1>5
<1>7. \A k \in 1..IntsPerChunk : content'[o][Len(content[o]) + k] = <<w, Last(w) + k>>
  BY <1>2, <1>3, <1>5
<1>8. ASSUME NEW n \in 1..(Last(w)') PROVE Arrived(w, n)' \/ Waits(w, n, o)'
  <2>1. CASE n \in 1..Last(w)
    <3>1. Arrived(w, n) => Arrived(w, n)'
      BY <1>1 DEF Arrived
    <3>2. Waits(w, n, o) => Waits(w, n, o)'
      <4>1. \A k \in 1..Len(content[o]) : k \in 1..Len(content'[o])
        BY <1>3, <1>6
      <4>. QED BY <1>6, <4>1 DEF Waits
    <3>. QED BY <2>1, <3>1, <3>2
  <2>2. CASE n \notin 1..Last(w)
    <3>. DEFINE k == n - Last(w)
    <3>1. k \in 1..IntsPerChunk /\ Last(w) + k = n
      BY <1>3, <1>4, <1>8, <2>2
    <3>2. Len(content[o]) + k \in 1..Len(content'[o])
      BY <1>3, <1>6, <3>1
    <3>. QED BY <1>7, <3>1, <3>2 DEF Waits
  <2>. QED BY <2>1, <2>2
<1>. QED BY <1>8

LEMMA ReadArrives ==
    ASSUME FifoInv, NEW r \in Readers, ReadInt(r), NEW w \in Writers, NEW o \in Objects,
           held[r] = {o}, IsFifo(o), NEW n \in Nat
    PROVE  /\ Arrived(w, n) => Arrived(w, n)'
           /\ Waits(w, n, o) => Arrived(w, n)' \/ Waits(w, n, o)'
<1>1. /\ content[o] \in Seq(Ints) /\ content[o] # << >> /\ got[r] \in Seq(Ints)
      /\ got' = [got EXCEPT ![r] = Append(got[r], Head(content[o]))]
      /\ content' = [content EXCEPT ![o] = Tail(content[o])]
  BY DEF ReadInt, FifoInv, TypeOK
<1>2. /\ got'[r] = Append(got[r], Head(content[o])) /\ \A s \in Readers : s # r => got'[s] = got[s]
      /\ content'[o] = Tail(content[o])
  BY <1>1 DEF FifoInv, TypeOK
<1>. DEFINE old == content[o]
            mine == got[r]
<1>3. /\ Len(got'[r]) = Len(mine) + 1 /\ Len(mine) \in Nat
      /\ \A k \in 1..Len(mine) : got'[r][k] = mine[k]
      /\ got'[r][Len(mine) + 1] = old[1]
  BY <1>1, <1>2
<1>4. /\ Len(old) \in Nat \ {0} /\ Len(content'[o]) = Len(old) - 1
      /\ \A k \in 1..(Len(old) - 1) : content'[o][k] = old[k + 1]
  <2>1. old \in Seq(Ints) /\ old # << >> /\ content'[o] = Tail(old)
    BY <1>1, <1>2
  <2>. HIDE DEF old
  <2>2. Len(old) \in Nat \ {0} /\ Len(Tail(old)) = Len(old) - 1
    BY <2>1
  <2>3. \A k \in 1..(Len(old) - 1) : Tail(old)[k] = old[k + 1]
    BY <2>1, <2>2
  <2>. QED BY <2>1, <2>2, <2>3
<1>. HIDE DEF old, mine
<1>5. ASSUME NEW s \in Readers, NEW k \in 1..Len(got[s])
      PROVE  k \in 1..Len(got'[s]) /\ got'[s][k] = got[s][k]
  <2>1. CASE s # r
    BY <1>2, <2>1
  <2>2. CASE s = r
    <3>1. k \in 1..Len(mine) /\ got[s][k] = mine[k]
      BY <2>2 DEF mine
    <3>. QED BY <1>3, <2>2, <3>1
  <2>. QED BY <2>1, <2>2
<1>6. Arrived(w, n) => Arrived(w, n)'
  BY <1>5 DEF Arrived
<1>7. ASSUME NEW k \in 1..Len(old), old[k] = <<w, n>> PROVE Arrived(w, n)' \/ Waits(w, n, o)'
  <2>1. CASE k = 1
    <3>1. Len(mine) + 1 \in 1..Len(got'[r]) /\ got'[r][Len(mine) + 1] = <<w, n>>
      BY <1>3, <1>7, <2>1
    <3>. QED BY <3>1 DEF Arrived
  <2>2. CASE k # 1
    <3>1. k - 1 \in 1..(Len(old) - 1) /\ (k - 1) + 1 = k
      BY <1>4, <2>2
    <3>2. content'[o][k - 1] = <<w, n>>
      BY <1>4, <1>7, <3>1
    <3>. QED BY <1>4, <3>1, <3>2 DEF Waits
  <2>. QED BY <2>1, <2>2
<1>. QED BY <1>6, <1>7 DEF Waits, old

\* What can happen while w stays the only writer.
LEMMA AloneWas ==
    ASSUME FifoInv, Next, NEW w \in Writers, Alone(w)'
    PROVE  /\ Alone(w)
           /\ \A p \in Procs : ~ Kill(p)
           /\ \A v \in Writers \ {w} : Writer(v) => MkFifo(v)
<1>. USE DEF FifoInv
<1>1. kills \in Nat /\ kills' = 0
  BY FifoAssumption DEF Alone, TypeOK
<1>2. \A p \in Procs : ~ Kill(p)
  BY <1>1 DEF Kill
<1>3. \A p \in Procs : pc'[p] \in {"mkfifo", "open"} => pc[p] \in {"mkfifo", "open"}
  <2>1. ASSUME NEW p \in Procs, NEW o, NEW others, NEW next \in {"read", "write"},
               NEW others_next \in {"read", "write"}, Attach(p, o, others, next, others_next)
        PROVE  \A q \in Procs : pc'[q] \in {"mkfifo", "open"} => pc[q] \in {"mkfifo", "open"}
    BY <2>1 DEF Attach
  <2>2. ASSUME NEW v \in Writers, Writer(v)
        PROVE  \A q \in Procs : pc'[q] \in {"mkfifo", "open"} => pc[q] \in {"mkfifo", "open"}
    <3>1. v \in Procs
      BY DEF Procs
    <3>2. CASE WriterOpen(v)
      BY <2>1, <3>1, <3>2 DEF WriterOpen
    <3>3. CASE ~ WriterOpen(v)
      BY <2>2, <3>1, <3>3 DEF Writer, MkFifo, WriteChunk, WriteFile, WriteBroken, Wrote, Close, Unlink,
                              Goto, TypeOK
    <3>. QED BY <3>2, <3>3
  <2>3. ASSUME NEW r \in Readers, Reader(r)
        PROVE  \A q \in Procs : pc'[q] \in {"mkfifo", "open"} => pc[q] \in {"mkfifo", "open"}
    <3>1. r \in Procs
      BY DEF Procs
    <3>2. CASE ReaderOpen(r) /\ name # {}
      BY <2>1, <3>1, <3>2 DEF ReaderOpen
    <3>3. CASE ~ (ReaderOpen(r) /\ name # {})
      BY <2>3, <3>1, <3>3 DEF Reader, ReaderOpen, ReadInt, ReadEnd, Close, Unlink, Goto, TypeOK
    <3>. QED BY <3>2, <3>3
  <2>. QED BY <1>2, <2>2, <2>3 DEF Next
<1>4. kills' = kills
  BY <1>2 DEF Next, Writer, Reader, MkFifo, WriterOpen, WriteChunk, WriteFile, WriteBroken, Wrote,
              Close, Unlink, ReaderOpen, ReadInt, ReadEnd
<1>5. Alone(w)
  BY <1>1, <1>3, <1>4 DEF Alone, Procs
<1>6. ASSUME NEW v \in Writers \ {w}, Writer(v) PROVE MkFifo(v)
  <2>1. pc[v] \in {"mkfifo", "open"} /\ pc'[v] \in {"mkfifo", "open"} /\ v \in Procs
    BY <1>5 DEF Alone, Procs
  <2>2. ~ WriterOpen(v)
    BY <2>1 DEF WriterOpen, Attach
  <2>. QED BY <1>6, <2>1, <2>2 DEF Writer, WriteChunk, WriteFile, WriteBroken, Close, Unlink, Goto
<1>. QED BY <1>2, <1>5, <1>6

\* Another writer may make a pipe, if there is no name.
LEMMA MkFifoPhase ==
    ASSUME FifoInv, NEW w \in Writers, Phase(w), NEW v \in Writers, MkFifo(v)
    PROVE  Phase(w)'
<1>1. /\ UNCHANGED <<held, content, loops, got>> /\ v \in Procs /\ w \in Procs
      /\ pc' = [pc EXCEPT ![v] = "open"] /\ pc[v] = "mkfifo"
      /\ name' = IF name = {} THEN {<<v, "fifo">>} ELSE name
  BY DEF MkFifo, Goto, Procs
<1>2. /\ \A r \in Readers : pc'[r] = pc[r]
      /\ pc'[w] = pc[w] \/ (v = w /\ pc[w] = "mkfifo" /\ pc'[w] = "open")
  BY <1>1, FifoAssumption DEF FifoInv, TypeOK, Procs
<1>3. /\ name' # {} /\ (name # {} => name' = name)
      /\ name = {} => name' = {<<v, "fifo">>} /\ IsFifo(<<v, "fifo">>)
  BY <1>1 DEF IsFifo
<1>4. \A S : ReadersIn(S) => ReadersIn(S)'
  BY <1>2 DEF ReadersIn
<1>5. ASSUME NotOpen(w) PROVE NotOpen(w)'
  <2>1. pc'[w] \in {"mkfifo", "open"} /\ ReadersIn({"open", "opening", "noent"})'
    BY <1>2, <1>4, <1>5 DEF NotOpen
  <2>2. \A o \in name' : IsFifo(o) /\ name' = {o}
    BY <1>3, <1>5 DEF NotOpen
  <2>3. \A r \in Readers : pc'[r] = "opening" => name' # {} /\ held'[r] = name'
    BY <1>1, <1>2, <1>3, <1>5 DEF NotOpen
  <2>. QED BY <1>3, <2>1, <2>2, <2>3 DEF NotOpen
<1>6. ASSUME NEW o \in Objects, IsFifo(o), Opening(w, o) \/ Filling(w, o) \/ HasLeft(w, o)
      PROVE  Phase(w)'
  <2>1. pc'[w] = pc[w]
    BY <1>2, <1>6 DEF Opening, Filling, HasLeft
  <2>2. Last(w)' = Last(w) /\ \A n : (Arrived(w, n) => Arrived(w, n)') /\ (Waits(w, n, o) => Waits(w, n, o)')
    BY <1>1 DEF Last, Arrived, Waits
  <2>3. CASE Opening(w, o)
    <3>1. Opening(w, o)'
      BY <1>1, <1>3, <1>4, <2>1, <2>3 DEF Opening
    <3>. QED BY <1>6, <3>1 DEF Phase
  <2>4. CASE Filling(w, o)
    <3>1. Filling(w, o)'
      BY <1>1, <1>2, <1>3, <1>4, <2>1, <2>2, <2>4 DEF Filling, ReadersHold
    <3>. QED BY <1>6, <3>1 DEF Phase
  <2>5. CASE HasLeft(w, o)
    <3>1. \A x \in name' : IsFifo(x)
      BY <1>3, <2>5 DEF HasLeft
    <3>2. HasLeft(w, o)'
      BY <1>1, <1>2, <1>4, <2>1, <2>2, <2>5, <3>1 DEF HasLeft, ReadersHold
    <3>. QED BY <1>6, <3>2 DEF Phase
  <2>. QED BY <1>6, <2>3, <2>4, <2>5
<1>. QED BY <1>5, <1>6 DEF Phase

\* The steps of the only writer.
LEMMA WriterPhase ==
    ASSUME FifoInv, Unopened, NEW w \in Writers, Phase(w), Writer(w)
    PROVE  Phase(w)'
<1>. USE DEF FifoInv
<1>0. w \in Procs /\ w \notin Readers /\ Readers \subseteq Procs
  BY FifoAssumption DEF Procs
<1>1. CASE MkFifo(w)
  BY <1>1, MkFifoPhase
<1>2. CASE WriterOpen(w)
  <2>1. NotOpen(w) /\ pc[w] = "open" /\ name # {}
    <3>1. pc[w] = "open"
      BY <1>2 DEF WriterOpen
    <3>. QED BY <3>1 DEF Phase, NotOpen, Opening, Filling, HasLeft
  <2>2. PICK o \in name : Attach(w, o, ReadersOn(o), "write", "read")
    BY <1>2, <2>1 DEF WriterOpen
  <2>3. IsFifo(o) /\ name = {o} /\ name' = name /\ o \in Objects
        /\ UNCHANGED <<loops, got>>
    BY <1>2, <2>1, <2>2 DEF NotOpen, WriterOpen, TypeOK
  <2>4. \A r \in Readers : r \in ReadersOn(o) <=> pc[r] = "opening"
    BY <1>0, <2>1, <2>3 DEF NotOpen, ReadersOn, Unopened, ReadersIn
  <2>5. ReadersOn(o) \subseteq Readers
    BY DEF ReadersOn
  <2>6. /\ held'[w] = {o} /\ \A r \in Readers : held'[r] = held[r]
        /\ pc'[w] = IF ReadersOn(o) = {} THEN "opening" ELSE "write"
        /\ \A r \in Readers : pc'[r] = IF pc[r] = "opening" THEN "read" ELSE pc[r]
    BY <1>0, <2>2, <2>3, <2>4 DEF Attach, TypeOK
  <2>7. CASE ReadersOn(o) = {}
    <3>1. Opening(w, o)'
      BY <2>1, <2>3, <2>4, <2>6, <2>7 DEF Opening, NotOpen, ReadersIn
    <3>. QED BY <2>3, <3>1 DEF Phase
  <2>8. CASE ReadersOn(o) # {}
    <3>1. Last(w)' = 0
      BY <2>1, <2>3, FifoAssumption DEF NotStarted, Starting, Last
    <3>2. \E r \in Readers : pc'[r] = "read"
      BY <2>4, <2>5, <2>6, <2>8
    <3>3. ReadersIn({"open", "noent", "read"})' /\ ReadersHold(o)'
      BY <2>1, <2>3, <2>6 DEF NotOpen, ReadersIn, ReadersHold
    <3>4. Filling(w, o)'
      BY <2>3, <2>6, <2>8, <3>1, <3>2, <3>3 DEF Filling
    <3>. QED BY <2>3, <3>4 DEF Phase
  <2>. QED BY <2>7, <2>8
<1>3. CASE WriteChunk(w) \/ WriteFile(w) \/ WriteBroken(w) \/ Close(w)
  <2>1. pc[w] \in {"write", "close"}
    BY <1>3 DEF WriteChunk, WriteFile, WriteBroken, Close, Goto
  <2>2. PICK o \in Objects : IsFifo(o) /\ Filling(w, o)
    BY <2>1 DEF Phase, NotOpen, Opening, HasLeft
  <2>3. ~ WriteFile(w) /\ ~ WriteBroken(w)
    BY <2>2 DEF Filling, WriteFile, WriteBroken, ReadersOn, ReadersHold
  <2>4. CASE WriteChunk(w)
    <3>1. /\ pc[w] = "write" /\ Wrote(w) /\ held[w] = {o}
      BY <2>2, <2>4 DEF WriteChunk, Filling
    <3>2. /\ \A r \in Readers : pc'[r] = pc[r]
          /\ pc'[w] \in {"write", "close"} /\ (pc'[w] = "close" => loops'[w] = MaxLoops)
      BY <1>0, <3>1 DEF Wrote, TypeOK
    <3>3. name' = name /\ held' = held
      BY <3>1 DEF Wrote
    <3>4. \A n \in 1..(Last(w)') : Arrived(w, n)' \/ Waits(w, n, o)'
      BY <2>2, <2>4, <3>1, ChunkArrives DEF Filling
    <3>5. Filling(w, o)'
      BY <2>2, <3>2, <3>3, <3>4 DEF Filling, ReadersIn, ReadersHold
    <3>. QED BY <2>2, <3>5 DEF Phase
  <2>5. CASE Close(w)
    <3>1. /\ pc[w] = "close" /\ pc'[w] = "unlink" /\ held'[w] = {}
          /\ \A r \in Readers : pc'[r] = pc[r] /\ held'[r] = held[r]
          /\ UNCHANGED <<name, content, loops, got>>
      BY <1>0, <2>5 DEF Close, Goto, TypeOK
    <3>2. Last(w) = MaxLoops * IntsPerChunk
      BY <2>2, <3>1 DEF Filling, Last
    <3>3. \A n \in 1..(MaxLoops * IntsPerChunk) : Arrived(w, n)' \/ Waits(w, n, o)'
      BY <2>2, <3>1, <3>2 DEF Filling, Arrived, Waits
    <3>4. ReadersIn({"open", "opening", "noent", "read"})' /\ ReadersHold(o)'
      BY <2>2, <3>1 DEF Filling, ReadersIn, ReadersHold
    <3>5. HasLeft(w, o)'
      BY <2>2, <3>1, <3>3, <3>4 DEF Filling, HasLeft
    <3>. QED BY <2>2, <3>5 DEF Phase
  <2>. QED BY <1>3, <2>3, <2>4, <2>5
<1>4. CASE Unlink(w)
  <2>1. /\ pc[w] = "unlink" /\ pc'[w] = "exited" /\ name' = {}
        /\ \A r \in Readers : pc'[r] = pc[r]
        /\ UNCHANGED <<held, content, loops, got>>
    BY <1>0, <1>4 DEF Unlink, Goto, TypeOK
  <2>2. PICK o \in Objects : IsFifo(o) /\ HasLeft(w, o)
    BY <2>1 DEF Phase, NotOpen, Opening, Filling
  <2>3. HasLeft(w, o)'
    BY <2>1, <2>2 DEF HasLeft, ReadersIn, ReadersHold, Arrived, Waits
  <2>. QED BY <2>2, <2>3 DEF Phase
<1>. QED BY <1>1, <1>2, <1>3, <1>4 DEF Writer

\* The steps of a reader while w is the only writer.
LEMMA ReaderPhase ==
    ASSUME FifoInv, Unopened, NEW w \in Writers, Alone(w), Phase(w), NEW r \in Readers, Reader(r)
    PROVE  Phase(w)'
<1>. USE DEF FifoInv
<1>0. w \in Procs /\ w \notin Readers /\ Readers \subseteq Procs /\ r \in Procs /\ r # w
  BY FifoAssumption DEF Procs
<1>1. \A v \in Writers : v # w => held[v] = {}
  BY DEF Alone, Unopened, Procs
<1>2. CASE ReaderOpen(r) /\ name = {}
  <2>1. /\ pc[r] = "open" /\ UNCHANGED <<held, name, content, loops, got>>
        /\ pc' = [pc EXCEPT ![r] = "noent"]
    BY <1>2 DEF ReaderOpen, Goto
  <2>2. pc'[w] = pc[w] /\ pc'[r] = "noent" /\ \A s \in Readers : s # r => pc'[s] = pc[s]
    BY <1>0, <2>1 DEF TypeOK
  <2>3. CASE NotOpen(w)
    <3>1. NotOpen(w)'
      BY <2>1, <2>2, <2>3 DEF NotOpen, ReadersIn
    <3>. QED BY <3>1 DEF Phase
  <2>4. CASE \E o \in Objects : IsFifo(o) /\ HasLeft(w, o)
    <3>1. PICK o \in Objects : IsFifo(o) /\ HasLeft(w, o)
      BY <2>4
    <3>2. HasLeft(w, o)'
      BY <2>1, <2>2, <3>1 DEF HasLeft, ReadersIn, ReadersHold, Arrived, Waits
    <3>. QED BY <3>1, <3>2 DEF Phase
  <2>. QED BY <1>2, <2>3, <2>4 DEF Phase, Opening, Filling
<1>3. CASE ReaderOpen(r) /\ name # {}
  <2>1. PICK o \in name : Attach(r, o, WritersOn(o), "read", "write")
    BY <1>3 DEF ReaderOpen
  <2>2. pc[r] = "open" /\ o \in Objects /\ UNCHANGED <<name, loops, got>>
    BY <1>3, <2>1 DEF ReaderOpen, TypeOK
  <2>3. /\ held'[r] = {o} /\ \A p \in Procs : p # r => held'[p] = held[p]
        /\ pc'[r] = IF IsFifo(o) /\ WritersOn(o) = {} THEN "opening" ELSE "read"
        /\ \A s \in Readers : s # r => pc'[s] = pc[s]
        /\ pc'[w] = IF w \in WritersOn(o) /\ pc[w] = "opening" THEN "write" ELSE pc[w]
    <3>1. \A s \in Readers : s \notin WritersOn(o)
      BY FifoAssumption DEF WritersOn
    <3>. QED BY <1>0, <2>1, <3>1 DEF Attach, TypeOK
  <2>4. WritersOn(o) # {} => held[w] = {o}
    BY <1>1 DEF WritersOn
  <2>5. held[w] = {o} => w \in WritersOn(o)
    BY DEF WritersOn
  <2>10. ASSUME NEW x \in Objects, NEW p \in Procs, held[p] = {x} PROVE content'[x] = content[x]
    BY <2>1, <2>2, <2>10 DEF Attach, TypeOK
  <2>11. \A n : Arrived(w, n)' = Arrived(w, n)
    BY <2>2 DEF Arrived
  <2>6. CASE NotOpen(w)
    <3>1. held[w] = {} /\ IsFifo(o) /\ name = {o}
      BY <1>0, <2>1, <2>6 DEF NotOpen, Unopened
    <3>2. pc'[r] = "opening" /\ pc'[w] = pc[w]
      BY <2>3, <2>4, <2>5, <2>6, <3>1 DEF NotOpen
    <3>3. NotOpen(w)'
      BY <1>0, <2>2, <2>3, <2>6, <3>1, <3>2 DEF NotOpen, ReadersIn
    <3>. QED BY <3>3 DEF Phase
  <2>7. ASSUME NEW x \in Objects, IsFifo(x), Opening(w, x) PROVE Phase(w)'
    <3>1. x = o /\ held[w] = {o} /\ pc[w] = "opening" /\ w \in WritersOn(o)
      BY <2>1, <2>5, <2>7 DEF Opening
    <3>2. pc'[r] = "read" /\ pc'[w] = "write"
      BY <2>3, <3>1
    <3>3. Last(w)' = 0
      BY <2>2, <3>1, FifoAssumption DEF NotStarted, Starting, Last
    <3>4. ReadersIn({"open", "noent", "read"})' /\ ReadersHold(o)'
      BY <2>3, <2>7, <3>2 DEF Opening, ReadersIn, ReadersHold
    <3>5. held'[w] = {o} /\ name' = {o}
      BY <1>0, <2>2, <2>3, <2>7, <3>1 DEF Opening
    <3>6. Filling(w, o)'
      BY <3>2, <3>3, <3>4, <3>5 DEF Filling
    <3>. QED BY <2>2, <2>7, <3>1, <3>6 DEF Phase
  <2>8. ASSUME NEW x \in Objects, IsFifo(x), Filling(w, x) PROVE Phase(w)'
    <3>1. x = o /\ held[w] = {o} /\ pc[w] # "opening" /\ w \in WritersOn(o)
      BY <2>1, <2>5, <2>8 DEF Filling
    <3>2. pc'[r] = "read" /\ pc'[w] = pc[w]
      BY <2>3, <3>1
    <3>3. ReadersIn({"open", "noent", "read"})' /\ ReadersHold(o)'
      BY <1>0, <2>3, <2>8, <3>1, <3>2 DEF Filling, ReadersIn, ReadersHold
    <3>6. content'[o] = content[o]
      BY <1>0, <2>2, <2>10, <3>1
    <3>4. \A n \in 1..(Last(w)') : Arrived(w, n)' \/ Waits(w, n, o)'
      BY <2>2, <2>8, <2>11, <3>1, <3>6 DEF Filling, Last, Waits
    <3>5. Filling(w, o)'
      BY <1>0, <2>2, <2>3, <2>8, <3>1, <3>2, <3>3, <3>4 DEF Filling
    <3>. QED BY <2>2, <2>8, <3>1, <3>5 DEF Phase
  <2>9. ASSUME NEW x \in Objects, IsFifo(x), HasLeft(w, x) PROVE Phase(w)'
    <3>1. IsFifo(o) /\ held[w] = {}
      BY <2>1, <2>9 DEF HasLeft
    <3>2. pc'[r] = "opening" /\ pc'[w] = pc[w]
      BY <2>3, <2>4, <2>9, <3>1 DEF HasLeft
    <3>3. ReadersHold(x)'
      BY <1>0, <2>3, <2>9, <3>2 DEF HasLeft, ReadersHold
    <3>7. (\E s \in Readers : pc[s] = "read") => \A n : Waits(w, n, x)' = Waits(w, n, x)
      <4>1. ASSUME NEW s \in Readers, pc[s] = "read" PROVE content'[x] = content[x]
        BY <1>0, <2>9, <2>10, <4>1 DEF HasLeft, ReadersHold
      <4>. QED BY <4>1 DEF Waits
    <3>8. (\E s \in Readers : pc[s] = "read") => \E s \in Readers : pc'[s] = "read"
      BY <2>2, <2>3
    <3>5. ReadersIn({"open", "opening", "noent", "read"})
             => ReadersIn({"open", "opening", "noent", "read"})'
      BY <2>3, <3>2 DEF ReadersIn
    <3>6. HasLeft(w, x)'
      BY <1>0, <2>2, <2>3, <2>9, <2>11, <3>1, <3>2, <3>3, <3>5, <3>7, <3>8 DEF HasLeft
    <3>. QED BY <2>9, <3>6 DEF Phase
  <2>. QED BY <2>6, <2>7, <2>8, <2>9 DEF Phase
<1>4. CASE ReadInt(r) \/ ReadEnd(r)
  <2>1. pc[r] = "read"
    BY <1>4 DEF ReadInt, ReadEnd, Goto
  <2>2. PICK o \in Objects : IsFifo(o) /\ (Filling(w, o) \/ HasLeft(w, o))
    BY <2>1 DEF Phase, NotOpen, Opening, ReadersIn
  <2>3. held[r] = {o}
    BY <2>1, <2>2 DEF Filling, HasLeft, ReadersHold
  <2>4. CASE ReadInt(r)
    <3>1. UNCHANGED <<pc, name, held, loops>>
      BY <2>4 DEF ReadInt
    <3>2. \A n \in Nat : /\ Arrived(w, n) => Arrived(w, n)'
                         /\ Waits(w, n, o) => Arrived(w, n)' \/ Waits(w, n, o)'
      BY <2>2, <2>3, <2>4, ReadArrives
    <3>3. CASE Filling(w, o)
      <4>1. \A n \in 1..(Last(w)') : Arrived(w, n)' \/ Waits(w, n, o)'
        <5>1. Last(w)' = Last(w) /\ \A n \in 1..Last(w) : n \in Nat
          BY <3>1 DEF Last
        <5>. QED BY <3>2, <3>3, <5>1 DEF Filling
      <4>2. Filling(w, o)'
        BY <3>1, <3>3, <4>1 DEF Filling, ReadersIn, ReadersHold
      <4>. QED BY <2>2, <4>2 DEF Phase
    <3>4. CASE HasLeft(w, o)
      <4>1. ReadersIn({"open", "opening", "noent", "read"})
               => ReadersIn({"open", "opening", "noent", "read"})'
        BY <3>1 DEF ReadersIn
      <4>2. \A n \in 1..(MaxLoops * IntsPerChunk) : n \in Nat
        OBVIOUS
      <4>3. HasLeft(w, o)'
        BY <3>1, <3>2, <3>4, <4>1, <4>2 DEF HasLeft, ReadersHold
      <4>. QED BY <2>2, <4>3 DEF Phase
    <3>. QED BY <2>2, <3>3, <3>4
  <2>5. CASE ReadEnd(r)
    <3>1. content[o] = << >> /\ WritersOn(o) = {}
      BY <2>2, <2>3, <2>5 DEF ReadEnd
    <3>2. HasLeft(w, o)
      BY <2>2, <3>1 DEF Filling, WritersOn
    <3>3. /\ pc'[w] = pc[w] /\ pc'[r] = "close" /\ \A s \in Readers : s # r => pc'[s] = pc[s]
          /\ UNCHANGED <<name, held, content, loops, got>>
      BY <1>0, <2>5 DEF ReadEnd, Goto, TypeOK
    <3>4. \A n : ~ Waits(w, n, o)
      BY <3>1 DEF Waits
    <3>5. HasLeft(w, o)'
      BY <3>2, <3>3, <3>4 DEF HasLeft, ReadersHold, Arrived
    <3>. QED BY <2>2, <3>5 DEF Phase
  <2>. QED BY <1>4, <2>4, <2>5
<1>5. CASE Close(r) \/ Unlink(r)
  <2>1. /\ pc[r] \in {"close", "unlink"} /\ pc'[r] \in {"unlink", "exited"}
        /\ pc'[w] = pc[w] /\ \A s \in Readers : s # r => pc'[s] = pc[s]
        /\ \A p \in Procs : p # r => held'[p] = held[p]
        /\ name' \in {name, {}} /\ UNCHANGED <<content, loops, got>>
    BY <1>0, <1>5 DEF Close, Unlink, Goto, TypeOK
  <2>2. PICK o \in Objects : IsFifo(o) /\ HasLeft(w, o)
    BY <2>1 DEF Phase, NotOpen, Opening, Filling, ReadersIn
  <2>3. ~ ReadersIn({"open", "opening", "noent", "read"})
    BY <2>1 DEF ReadersIn
  <2>4. HasLeft(w, o)'
    BY <1>0, <2>1, <2>2, <2>3 DEF HasLeft, ReadersHold, Arrived
  <2>. QED BY <2>2, <2>4 DEF Phase
<1>. QED BY <1>2, <1>3, <1>4, <1>5 DEF Reader

LEMMA EndInitGives == Init => EndInv
<1>. SUFFICES ASSUME Init PROVE EndInv
  OBVIOUS
<1>1. FifoInv
  BY InitGives
<1>2. Unopened
  BY DEF Init, Unopened
<1>3. ASSUME NEW w \in Writers PROVE NotOpen(w)
  BY FifoAssumption DEF Init, NotOpen, ReadersIn, Procs
<1>. QED BY <1>1, <1>2, <1>3 DEF EndInv, Phase

LEMMA EndKeeps == EndInv /\ [Next]_vars => EndInv'
<1>. SUFFICES ASSUME EndInv, [Next]_vars PROVE EndInv'
  OBVIOUS
<1>. USE DEF EndInv
<1>1. FifoInv'
  BY NextKeeps
<1>2. CASE UNCHANGED vars
  <2>1. Unopened' /\ \A w \in Writers : Alone(w)' => Alone(w)
    BY <1>2 DEF vars, Unopened, Alone
  <2>2. ASSUME NEW w \in Writers, Alone(w)' PROVE Phase(w)'
    BY <1>2, <2>1, <2>2, PhaseStays
  <2>. QED BY <1>1, <2>1, <2>2
<1>3. CASE Next
  <2>1. Unopened'
    BY <1>3, UnopenedKept DEF FifoInv
  <2>2. ASSUME NEW w \in Writers, Alone(w)' PROVE Phase(w)'
    <3>1. /\ Alone(w) /\ \A p \in Procs : ~ Kill(p)
          /\ \A v \in Writers \ {w} : Writer(v) => MkFifo(v)
      BY <1>3, <2>2, AloneWas
    <3>2. Phase(w)
      BY <3>1
    <3>3. ASSUME NEW v \in Writers, Writer(v) PROVE Phase(w)'
      <4>1. CASE v = w
        BY <3>2, <3>3, <4>1, WriterPhase
      <4>2. CASE v # w
        BY <3>1, <3>2, <3>3, <4>2, MkFifoPhase
      <4>. QED BY <4>1, <4>2
    <3>4. ASSUME NEW r \in Readers, Reader(r) PROVE Phase(w)'
      BY <3>1, <3>2, <3>4, ReaderPhase
    <3>. QED BY <1>3, <3>1, <3>3, <3>4 DEF Next
  <2>. QED BY <1>1, <2>1, <2>2
<1>. QED BY <1>2, <1>3

\* A reader that meets the end of the stream of the only writer finds the pipe
\* closed, and all it sent with the readers (fifoReader.c:28-30).
THEOREM EndMeansAllCorrect == Spec => []EndMeansAll
<1>1. Spec => []EndInv
  BY EndInitGives, EndKeeps, PTL DEF Spec
<1>2. ASSUME EndInv PROVE EndMeansAll
  <2>1. ASSUME NEW w \in Writers, NEW r \in Readers, Alone(w), pc[r] \in {"close", "unlink", "exited"}
        PROVE  /\ pc[w] \in {"unlink", "exited"}
               /\ \A n \in 1..(MaxLoops * IntsPerChunk) : Arrived(w, n)
    <3>1. ~ ReadersIn({"open", "opening", "noent"}) /\ ~ ReadersIn({"open", "noent"})
          /\ ~ ReadersIn({"open", "noent", "read"}) /\ ~ ReadersIn({"open", "opening", "noent", "read"})
      BY <2>1 DEF ReadersIn
    <3>2. Phase(w)
      BY <1>2, <2>1 DEF EndInv
    <3>3. \E o \in Objects : HasLeft(w, o)
      BY <3>1, <3>2 DEF Phase, NotOpen, Opening, Filling
    <3>. QED BY <3>1, <3>3 DEF HasLeft
  <2>. QED BY <2>1 DEF EndMeansAll, Alone, Arrived
<1>. QED BY <1>1, <1>2, PTL
=============================================================================
