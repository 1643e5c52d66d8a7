-------------------------------- MODULE Fifo --------------------------------
(***************************************************************************)
(* ipcCode/pipes: fifoWriter makes a named pipe and writes ints to it in   *)
(* chunks, fifoReader reads them one by one until the end of the stream.   *)
(* Both remove the name when they are done.                                *)
(*                                                                         *)
(* The name leads to an object of the kernel: a pipe that some writer's    *)
(* mkfifo made, or the regular file that open(O_CREAT) makes when the name *)
(* is gone by then.  Open on a pipe waits for the other end.  An int is    *)
(* known by its writer and its place in the writer's sequence.             *)
(***************************************************************************)
EXTENDS Naturals, Sequences

CONSTANTS Writers, Readers,
          MaxLoops,         \* chunks a writer writes
          IntsPerChunk,
          Capacity,         \* ints a pipe holds
          MaxKills          \* bound on the processes killed from outside

ASSUME FifoAssumption ==
    /\ Writers \cap Readers = {}
    /\ MaxLoops \in Nat \ {0} /\ IntsPerChunk \in Nat \ {0} /\ MaxKills \in Nat
    /\ Capacity \in Nat /\ Capacity >= IntsPerChunk

VARIABLES pc,       \* where each process is
          name,     \* the object the name leads to: none or one
          held,     \* the object each process has open: none or one
          content,  \* what is in each object
          loops,    \* chunks each writer has written
          got,      \* the ints each reader has received
          kills

vars == <<pc, name, held, content, loops, got, kills>>

Procs == Writers \cup Readers
Objects == Writers \X {"fifo", "file"}
Ints == Writers \X (1..(MaxLoops * IntsPerChunk))
IsFifo(o) == o[2] = "fifo"

Labels == {"mkfifo", "open", "opening", "write", "read", "close", "unlink",
           "exited", "noent", "sigpipe", "killed"}
Ended == {"exited", "noent", "sigpipe", "killed"}

\* Shape of the state.
TypeOK ==
    /\ pc \in [Procs -> Labels]
    /\ name \in SUBSET Objects
    /\ held \in [Procs -> SUBSET Objects]
    /\ content \in [Objects -> Seq(Ints)]
    /\ \A o \in Objects : IsFifo(o) => Len(content[o]) <= Capacity
    /\ loops \in [Writers -> 0..MaxLoops]
    /\ got \in [Readers -> Seq(Ints)]
    /\ kills \in 0..MaxKills

Init ==
    /\ pc = [p \in Procs |-> IF p \in Writers THEN "mkfifo" ELSE "open"]
    /\ name = {}
    /\ held = [p \in Procs |-> {}]
    /\ content = [o \in Objects |-> << >>]
    /\ loops = [w \in Writers |-> 0]
    /\ got = [r \in Readers |-> << >>]
    /\ kills = 0

Goto(p, from, to) == pc[p] = from /\ pc' = [pc EXCEPT ![p] = to]
WritersOn(o) == {w \in Writers : held[w] = {o}}
ReadersOn(o) == {r \in Readers : held[r] = {o}}

\* p opens o.  On a pipe it waits unless the other end is open, and those who
\* waited for its end go on.  A pipe that nobody has open has lost what was in it.
Attach(p, o, others, next, others_next) ==
    /\ held' = [held EXCEPT ![p] = {o}]
    /\ pc' = [q \in Procs |->
                 IF q = p THEN IF IsFifo(o) /\ others = {} THEN "opening" ELSE next
                 ELSE IF q \in others /\ pc[q] = "opening" THEN others_next
                 ELSE pc[q]]
    /\ content' = IF IsFifo(o) /\ \A q \in Procs : held[q] # {o}
                    THEN [content EXCEPT ![o] = << >>] ELSE content

\* The end of p's end of the object.
Close(p) ==
    /\ Goto(p, "close", "unlink")
    /\ held' = [held EXCEPT ![p] = {}]
    /\ UNCHANGED <<name, content, loops, got, kills>>

\* unlink removes the name, whatever it leads to by now.
Unlink(p) ==
    /\ Goto(p, "unlink", "exited")
    /\ name' = {}
    /\ UNCHANGED <<held, content, loops, got, kills>>

-----------------------------------------------------------------------------
(* fifoWriter *)

\* An existing name makes mkfifo fail, which nobody looks at.
MkFifo(w) ==
    /\ Goto(w, "mkfifo", "open")
    /\ name' = IF name = {} THEN {<<w, "fifo">>} ELSE name
    /\ UNCHANGED <<held, content, loops, got, kills>>

WriterOpen(w) ==
    /\ pc[w] = "open"
    /\ name' = IF name = {} THEN {<<w, "file">>} ELSE name
    /\ \E o \in name' : Attach(w, o, ReadersOn(o), "write", "read")
    /\ UNCHANGED <<loops, got, kills>>

\* Mutant: the chunk is not filled anew.
SameChunk(w) == [k \in 1..IntsPerChunk |-> <<w, k>>]

NextChunk(w) == [k \in 1..IntsPerChunk |-> <<w, loops[w] * IntsPerChunk + k>>]

Wrote(w) ==
    /\ loops' = [loops EXCEPT ![w] = @ + 1]
    /\ pc' = [pc EXCEPT ![w] = IF loops'[w] = MaxLoops THEN "close" ELSE "write"]
    /\ UNCHANGED <<name, held, got, kills>>

\* Mutant: a write that does not wait for room.
WriteChunkAnyway(w) ==
    /\ pc[w] = "write"
    /\ \E o \in held[w] :
        /\ IsFifo(o) /\ ReadersOn(o) # {}
        /\ content' = [content EXCEPT ![o] = @ \o NextChunk(w)]
    /\ Wrote(w)

\* A chunk goes into the pipe in one piece, once there is room for all of it.
WriteChunk(w) ==
    /\ pc[w] = "write"
    /\ \E o \in held[w] :
        /\ IsFifo(o) /\ ReadersOn(o) # {}
        /\ Len(content[o]) + IntsPerChunk <= Capacity
        /\ content' = [content EXCEPT ![o] = @ \o NextChunk(w)]
    /\ Wrote(w)

\* In a regular file the chunk goes where the writer's own offset points.
WriteFile(w) ==
    LET from == loops[w] * IntsPerChunk
        upto == from + IntsPerChunk IN
    /\ pc[w] = "write"
    /\ \E o \in held[w] :
        /\ ~ IsFifo(o)
        /\ content' = [content EXCEPT ![o] =
               [k \in 1..(IF upto > Len(@) THEN upto ELSE Len(@)) |->
                   IF k \in (from + 1)..upto THEN <<w, k>> ELSE @[k]]]
    /\ Wrote(w)

\* With no reader left the write raises SIGPIPE.
WriteBroken(w) ==
    /\ \E o \in held[w] : IsFifo(o) /\ ReadersOn(o) = {}
    /\ Goto(w, "write", "sigpipe")
    /\ held' = [held EXCEPT ![w] = {}]
    /\ UNCHANGED <<name, content, loops, got, kills>>

-----------------------------------------------------------------------------
(* fifoReader *)

ReaderOpen(r) ==
    /\ pc[r] = "open"
    /\ IF name = {}
         THEN Goto(r, "open", "noent") /\ UNCHANGED <<held, content>>
         ELSE \E o \in name : Attach(r, o, WritersOn(o), "read", "write")
    /\ UNCHANGED <<name, loops, got, kills>>

\* One int out of the pipe, or at the reader's offset in a regular file.
ReadInt(r) ==
    /\ pc[r] = "read"
    /\ \E o \in held[r] :
        IF IsFifo(o)
          THEN /\ content[o] # << >>
               /\ got' = [got EXCEPT ![r] = Append(@, Head(content[o]))]
               /\ content' = [content EXCEPT ![o] = Tail(@)]
          ELSE /\ Len(got[r]) < Len(content[o])
               /\ got' = [got EXCEPT ![r] = Append(@, content[o][Len(@) + 1])]
               /\ UNCHANGED content
    /\ UNCHANGED <<pc, name, held, loops, kills>>

\* Mutant: an empty pipe taken for the end of the stream.
ReadEndEarly(r) ==
    /\ Goto(r, "read", "close")
    /\ \E o \in held[r] :
        IF IsFifo(o) THEN content[o] = << >> ELSE Len(got[r]) = Len(content[o])
    /\ UNCHANGED <<name, held, content, loops, got, kills>>

\* Mutant: the reader opens the pipe for writing as well and is itself one of
\* those whose close it waits for.
ReadEndWriting(r) ==
    /\ Goto(r, "read", "close")
    /\ \E o \in held[r] :
        IF IsFifo(o) THEN content[o] = << >> /\ WritersOn(o) \cup ReadersOn(o) = {}
                     ELSE Len(got[r]) = Len(content[o])
    /\ UNCHANGED <<name, held, content, loops, got, kills>>

\* read returns 0: an empty pipe that no writer has open, or the file's end.
ReadEnd(r) ==
    /\ Goto(r, "read", "close")
    /\ \E o \in held[r] :
        IF IsFifo(o) THEN content[o] = << >> /\ WritersOn(o) = {}
                     ELSE Len(got[r]) = Len(content[o])
    /\ UNCHANGED <<name, held, content, loops, got, kills>>

-----------------------------------------------------------------------------
Kill(p) ==
    /\ kills < MaxKills
    /\ pc[p] \notin Ended
    /\ pc' = [pc EXCEPT ![p] = "killed"]
    /\ held' = [held EXCEPT ![p] = {}]
    /\ kills' = kills + 1
    /\ UNCHANGED <<name, content, loops, got>>

Writer(w) == \/ MkFifo(w) \/ WriterOpen(w) \/ WriteChunk(w) \/ WriteFile(w)
             \/ WriteBroken(w) \/ Close(w) \/ Unlink(w)
Reader(r) == \/ ReaderOpen(r) \/ ReadInt(r) \/ ReadEnd(r) \/ Close(r) \/ Unlink(r)

Next == \/ \E w \in Writers : Writer(w)
        \/ \E r \in Readers : Reader(r)
        \/ \E p \in Procs : Kill(p)

Spec == Init /\ [][Next]_vars

\* Every process that can go on is scheduled.
FairSpec == /\ Spec
            /\ \A w \in Writers : WF_vars(Writer(w))
            /\ \A r \in Readers : WF_vars(Reader(r))

-----------------------------------------------------------------------------
(* Properties *)

\* A reader receives each writer's ints in the order they were written, and
\* none of them twice, whatever chunks are mixed and whether it reads a pipe or
\* the file in its place.  (Two readers of that file both receive all of it.)
OrderKept ==
    \A r \in Readers : \A k, l \in 1..Len(got[r]) :
        k < l /\ got[r][k][1] = got[r][l][1] => got[r][k][2] < got[r][l][2]

\* While no second writer comes in, the end of the stream means what both
\* programs take it for (fifoReader.c:30, fifoWriter.c:33): the writer has
\* closed the pipe and the readers between them have received all it sent.
EndMeansAll ==
    \A w \in Writers, r \in Readers :
        (/\ kills = 0
         /\ \A v \in Writers \ {w} : pc[v] \in {"mkfifo", "open"}
         /\ pc[r] \in {"close", "unlink", "exited"})
        => /\ pc[w] \in {"unlink", "exited"}
           /\ \A n \in 1..(MaxLoops * IntsPerChunk) :
                 \E s \in Readers : \E k \in 1..Len(got[s]) : got[s][k] = <<w, n>>

\* A process that has the pipe open comes to its end, with the pipe full or
\* empty and whoever dies at the other end.
Finishes == \A p \in Procs : pc[p] \in {"write", "read"} ~> pc[p] \in Ended
=============================================================================
