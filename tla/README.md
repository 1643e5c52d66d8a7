# A verification of the miscellaneous programs

The repository is a collection of small, independent programs: examples of
inter-process communication (`ipcCode/`), socket servers and clients
(`misce_tests/socket/`), a video transcoder (`ffmpeg/`), data structures and
algorithms (`struct_and_algo/`), Python tools and a small web server (`python/`),
and experiments with the C++ language and libraries (`main.cpp`, the rest of
`misce_tests/`). There is no common main program and no library they share. What
holds them together is a way of working: several processes that meet in objects
of the kernel (names in a directory, queues, locks, semaphores, streams), and
loops that keep an invariant over many turns. This directory models the programs
that have such state, in TLA+.

- `*.tla` without a prefix: the models. `MC*.tla` and `*.cfg`: their finite
  instances for TLC. `*_proofs.tla`: theorems, checked by TLAPS.
- `PROJECT.json`: components, runs, mutants, theorems, hazards, and for every
  definition the lines of the source it models.

Contents: [Inventory](#inventory), [Plan](#plan), [The modules](#the-modules),
[The runs](#the-runs), [Fairness](#fairness), [What is proved](#what-is-proved),
[Only model-checked](#what-is-only-model-checked),
[Not modelled](#what-is-not-modelled), [Findings](#findings).

## Inventory

| Part | State | Operations | Who meets whom |
| --- | --- | --- | --- |
| shared memory pair, `ipcCode/shmem` | segment and its name, named semaphore, both outliving the processes | open, size, copy, post; wait, print, post back | one `memwriter`, any number of `memreader`s, all through the semaphore |
| record locks, `ipcCode/flock` | the file, the kernel's lock table | lock exclusively and write; test, lock shared and print | producers and consumers through `fcntl`, nobody waits |
| named pipe, `ipcCode/pipes/fifo*` | the name, the pipe (or a plain file of that name), who has it open | mkfifo, open, chunked writes; reads to the end; both unlink | writers and readers, in any order of starting and dying |
| System V queue, `ipcCode/mqueue` | the queue of the key | `msgsnd` of six typed messages; `msgrcv` by type, `IPC_RMID` | senders and receivers that never block |
| echo server, `ipcCode/sockets/server.c`, `client.c` | one TCP connection at a time, the backlog, a buffer | three turns of read and write per conversation | server and clients through two byte streams |
| chat server, `misce_tests/socket/chat_server.cpp` | descriptor table, `master_set`, `working_set`, `max_sd`, `desc_ready` | `select`, accept all, receive and answer all, close | one thread, any number of clients |
| one-at-a-time socket servers, `ipcCode/sockets/*_unix.c`, `misce_tests/socket/*` | the name (path or port), backlog, one connection | unlink, bind, listen, accept, read/write in turns | servers that fight for one name, clients that wait |
| priority queue, permutations, infix calculator, `struct_and_algo` | a heap in a vector; an array permuted in place; two stacks | push, pop; all orders; convert and calculate | a single thread each |
| heartbeat and alarm server, `python/simple_web_server_boxcallback.py` | the last time of each task (memory), image files and `meta_data.txt` (disk) | `check_heartbeat`, two store handlers | clients through HTTP, one request at a time |
| asset down-sampling, `python/downsample.py` (= `collect_magic_and_downsample.py`) | a library of assets, a target library, the list file | `--update`, `--downsample` with `--copy`, `--add_needscale` | commands given one after another, through the files |
| transcoder, `ffmpeg/ffmpeg_encoder.cpp`, `ffmpeg_test.cpp` | two codecs that keep frames back, counters, the output file | read, decode, scale, encode, write | one thread and the codecs it drives |
| programs that end what they started, `ipcCode/sigs/shutdown.c`, `ipcCode/pipes/pipeUN.c`, `misce_tests/thread_id` | the signal on its way, the ends of a pipe and its bytes, the flag of the handler | fork, kill, handle, wait; write, close, echo; create, signal, join | `main` with its child or its threads, the terminal |

Behaviours that are hard here, and hardly reached by running the programs:

- *interleaving*: several readers and one token; a lock that is tested before it
  is taken; a name that is unlinked and bound by whoever starts next; clients that
  come, send and go between two system calls of a server that works from a
  snapshot of the ready descriptors;
- *what a killed process leaves behind*: a semaphore's count, a name, half a
  text, an empty file that was opened for writing, a peer in mid-conversation;
- *partial failure*: results nobody looks at (`msgsnd`, `write`, `encode`,
  `imwrite`), an exception in the middle of a handler;
- *streams*: what a read brings, the meaning of its end, resets and `SIGPIPE`;
- *signals*: one that comes before its handler is registered, or while the process
  it is for has already ended;
- *limits and boundaries*: a full pipe or queue, no free descriptor, the last
  child of a heap, operators of equal priority.

What makes each part correct, in a sentence: readers exclude one another and
print only the text; a consumer prints all or nothing; a pipe keeps each writer's
order and its end means all was received; every message is on a queue, received
once, or dropped; the chat server's sets describe its descriptors, and no client
starves; a client of a one-at-a-time server gets the answers to its own texts and
comes to its end; the heap is a priority queue, the recursion yields every order
once, the calculator agrees with the grammar; an entry of a heartbeat is
judged by the last one about its task that was come to, and what was answered is on
disk; a command that ends normally has done its work; the output video is in step with what was decoded, up to its tail; a `main`
that ends regularly leaves nothing running that it started.
`PROJECT.json` lists the hazards line by line with the property that watches each.

## Plan

Built, in this order (what many processes share first):

1. `SharedMemory`, `FileLock` with the abstract `ReadersWriter`, `Fifo`,
   `MessageQueue` with the abstract `TypedQueue`: the IPC examples.
2. `ChatServer`, the largest concurrent program, then `EchoServer`.
3. `PriorityQueue` with the abstract `MaxQueue`, `Permutation`, `Postfix` with the
   grammar `Infix`.
4. `BoxServer`, `Downsample`, `Transcoder`: programs whose difficulty is failure
   in the middle.
5. `SocketPairs`: three pairs of programs that differ in a few steps, in one module
   with a variable that says which of them runs.
6. `ChildProcess`: three programs whose `main` waits for what it has started, in the
   same manner. `Programs` brings it together with `PriorityQueue`, `Permutation`,
   `Postfix` and `Transcoder`: none of these programs meets another, and a behaviour of
   `MCPrograms` is a run of one of them.
7. Proofs: `SharedMemory_proofs`, `FileLock_proofs`, `Fifo_proofs`,
   `MessageQueue_proofs`, `EchoServer_proofs`, `Sockets_proofs` (`ChatServer` and
   `SocketPairs`), `Programs_proofs` (all of `Programs`) and `Python_proofs`
   (`BoxServer` and `Downsample`).

The abstract specifications are those of the three components that have a short
promise to the outside: readers and writers for the locks, one queue with types for the
message queues, a multiset with its maximum for the heap. The other components' promises are relations between what
one end has put in and the other has got, and are stated as invariants.

Left: an abstract echo service that `EchoServer` (with uncut reads) and `SocketPairs`
both implement; what it would promise is in their invariants `InStep` and `Answers`.

## The modules

A step is in all modules the code between two points at which something else
can act: system calls for processes, one turn of a loop for the algorithms, one
file for the tools that work on files. `pc` is named after the call that comes
next. Variables that are not in the code are marked `history` where they are
declared; only properties and other history read them. Every process can be killed
where the kernel cleans up after it in a way that others notice (`Kill`), up to a bound.
Definitions marked `Mutant` are not used by the specification: each is a plausible
bug in one definition, and there is one for every property, which finds it.

**SharedMemory** (`memwriter.c`, `memreader.c`). `named` is what `BackingFile`
leads to, a segment is known by the writer that made it, `sized` and `text` say
how far it has been prepared; `sem` is the value of the named semaphore, which no
program unlinks. `strcpy` and the reader's loop of one-byte writes are cut into
`Chunks` steps. Both `WriterOpen` and `ReaderOpen` follow the name as it is at that
moment. `write` on a mapping without pages is the result `efault`, which the code
does not look at. A killed process is `killed_owing` when it had taken the token, or
was the writer before its post (`Owes`): the kernel does not post for it.

**FileLock** (`producer.c`, `consumer.c`), **ReadersWriter**. `lock` is the
kernel's table, `Conflict` its rule. `TestLock` is the consumer's `F_GETLK`, which
asks about a *write* lock, `ConsumerLock` the `F_SETLK` after it. The file is
written and read in `Pieces` steps; the test gives up on any other process's lock,
of either type. Refinement: `writing` and `reading` are the processes between lock and
unlock.

**Fifo** (`fifoWriter.c`, `fifoReader.c`). An object is a pipe some writer made or
the plain file `open(O_CREAT)` makes when the name is gone. `Attach` is the open
that waits for the other end; the end of the stream (`ReadEnd`) is an empty pipe
that no writer has open; a write with no reader raises `SIGPIPE`. A pipe that nobody
has open any more has lost what was in it, which is why a new pair begins with an
empty one.

**MessageQueue** (`sender.c`, `receiver.c`), **TypedQueue**. `sent_types` and `wanted_types` are the
arrays of the code; `limit` is what the kernel lets a queue hold. Failed calls are
part of `Send` and `Receive`, since the code goes on after them. `Places(m)` is where
a message is, of the queues, the receivers and `dropped`; `MessagesAccounted` says that
it is exactly one from the send on. The abstract queue has no identifiers and no loops:
there is one, with whoever is `attached` to it, and `Remove` attaches nobody. The
refinement reads it off the queue the key leads to (`Current`) and the identifiers that
are still good.

**ChatServer** (`chat_server.cpp`, with the clients as it can see them). All
variables of `main` are variables of the module; `files` is the kernel's table of
descriptors, numbered and given out lowest first, so that a number can be
closed and come back inside one pass. `ScanHit` jumps over the turns of the loop
that find nothing. Clients connect, send, close and abort between any two calls
of the server; a reply to one that has closed may bring a reset, and the next one
`SIGPIPE`.

**EchoServer** (`server.c`, `client.c`). Streams are sequences of cells, a book
takes several; a read brings all that has arrived, or, `MaxShorts` times, only
a part of it. `peer` and `host` are the two ends' views of a connection after a
close with and without unread data. The server's turn counts with data or
without, and its whole buffer goes back.

**SocketPairs** (`server_unix.c`/`client_unix.c`, `unix_domain_socket_*.c`,
`socket_server.cpp`/`socket_client.cpp`). `program` says which pair runs, and
which of the steps that differ are there (`ReadEnd`, `ReadNothing`,
`ReadEndReturns`). `name` is where the path or port leads; a path stays when its
server ends, a port does not, though connections of the last server may still
hold it (`BindFails`). A text fits in a buffer and arrives as a whole.

**SocketServers**, **AssetLibrary** and **Programs** add nothing to the models. Each
instantiates models of other programs under variables of its own (`state`, `command`,
`trans_pc`...), holds the assumptions on their constants, and gives their properties a
name, so that programs that have variables of the same name can be checked in one run,
or proved in one module: `SocketServers` stands for `SocketPairs`, `AssetLibrary` for
`Downsample`, and `Programs` for `Permutation`, `Postfix`, `Transcoder` and
`ChildProcess` beside `PriorityQueue`.

**PriorityQueue** (`priority_queue.cpp`), **MaxQueue**. `Push` and `Pop` are the
calls up to `swim` and `sink`, whose turns are `SwimUp` and `SinkDown`. Indices
start at 0. The abstract queue is the number of times each value is in it.

**Permutation** (`permutation.cpp`). The recursion as a stack `loops` of the loop
variables; `Turn` is the part between two recursive calls. **Postfix**
(`reverse_polish_notation.cpp`): one character a step, the operator stack and the
number stack as in the code. **Infix** says what an expression is worth without any
stack: it has an operator that divides it (`Division`), the last of those of the least
priority outside parentheses, and is worth what that operator makes of its two parts
(`ValuesOf`); what is not an expression, or divides by zero, is worth nothing.

**BoxServer** (`simple_web_server_boxcallback.py`). A heartbeat is a list of entries,
with any times in any order and a task in it as often as you like; `NextEntry` is a turn
of the loop, which judges an entry and records it (`JudgeEntry`), or comes to an unknown
task, on which the warning itself raises (`UnknownTask`): what was recorded by then stays,
and the entries behind it are not looked at. The history `received` holds all heartbeats
since the start, and `Places` the entries of them that were come to. A storing request
opens and writes its files one by one, then appends its line; `fails_after` says where an
exception ends it, and `WriteRaises` is the one between the opening of a file and its
last byte. `Interrupt` may come anywhere, `Start` keeps the disk and clears the memory;
`torn` are the files whose last writing one of the two has broken off.

**Downsample** (both scripts, which are the same text line for line). A command
starts at its first file (`StartDownsample`, `StartUpdate`); a file that is opened for
writing is empty until `Fill`. An asset's directory and the `dg_makeup` directory in it,
where everything is that the list names, are there or not by themselves (`dirs`):
`CopyTree` makes the one, then the other, then the files, `RemoveTree` goes the other way,
and a kill may come after each. The steps that write ask for the inner one (`HasDir`): an
image with none to go to is passed over (`Skip`), since nobody looks at what `imwrite`
returns, a tex raises. `args.dst` is where the text replacement of the code
leads: to the target, or, when `--magic` is not spelled as it was for `--update`, back
to the asset itself.

**Transcoder** (`ffmpeg_encoder.cpp`, `ffmpeg_test.cpp`). A packet of the video holds
any number of frames, none included (`PacketFrames`), which is what the inner loop of
both programs is for. A codec is a queue that may keep its last frames back; `Main` and
`Encode` are the steps of the two functions, each call with its failing variant and the
place where the code goes on, which for most calls is as if nothing had happened. An
error of `avcodec_receive_frame` ends the inner loop just as the answer that there are no
more frames does: `lastRet` keeps apart what the code does not.

**ChildProcess** (`shutdown.c`, `pipeUN.c`, `thread_id/main.cpp`). `program` says which
of the three runs. `Deliver` is a pending `SIGTERM` that arrives, before `SetHandler` or
after it: the five seconds the parent sleeps order nothing. `ends` is who has each end
of the pipe open, so that `EchoEnds` depends on both processes' closing the writing end.
`Signalled` is the terminal's signal at any moment: the handler of `thread_id` tests for
two signals and is registered for one of them, so the other one ends the process. The
flag it sets is a plain `bool`; the loop that reads it calls into the library at every
turn, hence every turn is a read of its own.

## The runs

Every passing run explores its state space to the end; the numbers are distinct
states. It checks the type invariant of its module besides the properties named here
(`programs` that of `PriorityQueue`; `downsample` has none: both of its properties
compare the state of every file). Deadlock is not looked for, because all of these
systems stop, or have stopped serving, in a regular way: programs return, are refused
or are killed, and the bounds on texts, requests and kills are used up. That nobody is
left waiting is stated as a liveness property where it matters.

| Run | Instance | What it shows |
| --- | --- | --- |
| `shmem_first_run` (4,872) | one writer, three readers, two pieces of text, one kill | `MutualExclusion`, `ReadsText` (never zeros or a failed access), `ReaderReleased` (a reader that waits is released, unless a process was killed that owed a post) |
| `shmem_rerun` | two writers, two readers | violates `ReadsText`, see [Findings](#findings) |
| `file_lock` (5,327) | two producers, two consumers, two pieces, one kill | `IsReadersWriter` (refinement), `AllOrNothing` |
| `file_lock_refusal` | the same | violates `RefusedByWriteLock`, see [Findings](#findings) |
| `fifo` (54,370) | two writers of two chunks, two readers, a pipe that one chunk fills, one kill | `OrderKept`, `EndMeansAll`, `Finishes` |
| `message_queue` (68,371) | one sender, two receivers, queues of four and six messages | `MessagesAccounted`, `SettledReceiverServed`, `IsTypedQueue` (refinement) |
| `chat_server` (551,872) | three clients with 2, 1 and 1 messages, room for three connections | `Watching`, `NoStaleReady`, `PassComplete`, `ClientServed` |
| `echo_server` (298,703) | two clients, three books of 3, 1 and 1 cells, two partial reads, one kill | `OwnEchoes`, `EchoConfirms`, `ClientEnds` |
| `socket_pairs` (81,896) | each pair with two servers, two clients, two texts each, one kill | `AnsweredInStep`, `ClientsEnd` |
| `programs` (66,410) | heaps of up to six entries over four values; all arrays of up to four numbers; some 3,000 expressions; five video packets of none, one and two frames and one other among them, codec delays of one and two, two failing calls; a child, a pipe of three bytes and three threads, one kill and any signals | `IsMaxQueue` (refinement); `AllOrdersOnce`; `ValueByGrammar`; `InStep`, `OnlyTailMissing`; `WorkDone`, `AllEnd` |
| `box_server` (267,999) | two tasks and an unknown one; six heartbeats with the unknown one first, between and nowhere, a task twice, a time that goes back and the time 0; five storing requests; four requests in all, one interruption | `JudgedRight`, `StoredInOrder` |
| `downsample` (1,583,507) | two assets of two files, one without its tex, four commands, two killed, two assets removed | `OkMeansDone`, `CopyRecovers` |

Why these bounds are enough to be of interest:

- Two processes of a kind are the least that can be in one another's way; the third
  reader of `shmem_first_run` waits while a second one takes over from a first,
  the third client of `chat_server` is the one that takes a descriptor that was
  closed, or finds none (`FdLimit`), while the other two are in the scan.
- One kill leaves a state to be found; two of them would only leave it twice. The
  tool that is run again and again, `Downsample`, gets two, because the second
  command works on what the first left.
- Texts are cut into two pieces so that there is a middle; a pipe that one chunk
  fills, queues smaller than and equal to what is sent, and a descriptor table with
  one free entry less than clients reach every limit in the code.
- A signal may come at each point of a program, and one process may be killed at each:
  three bytes in `pipeUN` leave some read, some waiting and some unsent.
- A heap of six entries has a last parent with one child, and with five, two; four
  values tie. Four numbers make a recursion three calls deep. Expressions have two
  operators with parentheses anywhere, or three without, which is what it takes to tell
  popping an operator of equal priority from not popping it.
- `echo_server`'s first book may arrive in as many reads as the server makes, so
  that a whole conversation is used up by one book.

`ValueByGrammar` compares the two stacks of the code with the value that `Infix`
computes from the expression alone. `EchoConfirms` is stated for conversations whose
reads are not cut (the code takes each read for a whole book), `EndMeansAll` while
no second writer joins, `SettledReceiverServed` for a receiver that starts after
the sender, and `OkMeansDone` and `CopyRecovers` for `--magic` spelled the same
way each time: the runs contain the other behaviours too, in which what these
properties say is not true, and `OwnEchoes`, `OrderKept` and `MessagesAccounted`
hold in them as well. `OrderKept` is a statement about each reader by itself: in the plain
file of a removed name two readers both receive every int. `OkMeansDone` says too what it
may mean that nothing was done: `PassedOver`, without `--copy` and `--add_needscale`, for
an asset with no directory to put its images into and none of its tex files; the second
asset of the run is one. `StoredInOrder` allows an image to be empty if its last writing
was broken off (`torn`), and no other.

For every property there is a mutant: a definition of the model with a plausible
bug, in place of which the property must fail in the same run.

## Fairness

Safety runs need none. Where something must eventually happen, weak fairness is
assumed of each process separately (in `ChatServer` of the single thread), which
is what a scheduler gives: a process that stays able to take a step takes one.
Nothing is assumed of kills, of failing calls, of a client of the chat server
(which may be silent for ever), or of the order in which processes run. Blocking
calls are not enabled while they block, so weak fairness does not make them return.

- `ReaderReleased`: needs the readers inside to print and post, hence their
  fairness, and the writer to reach its post. A kill is no excuse by itself: only one
  between a `sem_wait` and its `sem_post`, or of the writer before its own, is.
- `Finishes` speaks of processes that have the pipe open: an `open` may wait for
  ever for another end that never comes.
- `ClientServed` rests on each client sending finitely often. The inner loop of the
  server receives until nothing is left, so a client that never stops sending would
  keep the others waiting; the bound `MaxSends` is part of the statement.
- `ClientEnds`, `ClientsEnd`: the fairness of `client_unix` includes its user, who
  ends the input after a bounded number of lines. The client of `socket_server`
  never ends and is left out of `ClientsEnd`.
- `AllEnd`: `main` and its child are scheduled, a pending signal arrives, and each
  thread comes back to its test. The threads run until they are signalled, so the
  statement starts from the signal (`ToEnd`); the child of `shutdown` whose parent was
  killed sleeps on for ever and is excepted in `AllEnded`.

## What is proved

The theorems hold for every value of the constants that satisfies the module's
assumptions: kinds of processes are disjoint, bounds are natural numbers, a text has at
least one piece, an array is not empty and has no number twice (`PermutationAssumption`,
without which "each order once" has no meaning), an asset has an image and no missing
element but a tex (`AssetLibraryAssumption`), an expression is worth something by the
grammar and its digits are numbers (`PostfixAssumption`), and, for `EchoServer`, a book fits in the
buffer (`BooksFit`: the titles of `client.c` and the 256 bytes of `sock.h`; only
`EchoConfirms` needs it). Each proof follows one pattern: an inductive invariant, that it
holds initially, that each action keeps it (one lemma or step an action), and that it
implies the property. Every safety invariant, action property and refinement of the passing runs is
stated by a theorem.

- **SharedMemory_proofs**. `TypeCorrect`: the shape of the state, for any writers
  and readers. `FirstRun`: if there is one writer since boot, then
  `MutualExclusion` and `ReadsText` always hold, for any number of readers and
  kills. Invariant `FirstRunInv`: there is at most one token (`OneToken`), which is
  in the semaphore or with one reader, or not yet posted; and wherever it has
  appeared, the segment is ready, since the writer has copied all pieces before
  (`WriterProgress`). `ReadsTextCorrect` states the half of it that `shmem_rerun`
  refutes for two writers. Neither property is inductive alone: nothing in it says that
  the semaphore was zero until the text was there.
- **FileLock_proofs**. `TypeCorrect`; `Implements`: the programs implement
  `ReadersWriter`; `AllOrNothingCorrect`. Invariant `FileLockInv`: the lock table
  says exactly who is between lock and unlock, and a write lock is alone
  (`LockTable`); outside of a write the file is empty or whole, and a writer has
  brought it as far as it has come itself (`FileProgress`).
- **Sockets_proofs**, on `ChatServer`. `TypeCorrect`, `WatchingCorrect`,
  `NoStaleReadyCorrect`, for any clients and any descriptor limit. Invariant `ChatInv`:
  the three of them with `ScanFile`, which says what the descriptor under the scan is
  open on; without it, a close could free the listening socket, and the first clause of
  `Watching` would not survive. The two uses of a greatest or least descriptor rest on
  the well-foundedness of the naturals (`LeastOf`, `GreatestOf`). The argument for
  `NoStaleReady` is that the listening descriptor is the least of all, so that within
  a pass every accept comes before every close. `PassCompleteCorrect` is an action
  property: the loop leaves its pass with no descriptor unserved, since `desc_ready` is
  all along the number of those (`Counted`), and, as long as it is not zero, one of them
  lies between the scan and `max_sd`.
- **Sockets_proofs**, on `SocketPairs`. `PairsTypeCorrect` and `AnsweredInStepCorrect`,
  for any servers that fight for the name, any clients, texts and kills, and each of the
  three pairs. Invariant `PairsInv`: a connection is at one place, in the line of one
  server or served by it (`AtOnePlace`), and open as long as it is (`Connected`); the one
  text or answer of a client is under way to the server or from it (`InTurn`), or with the
  server that is about to write it (`Answers`); once an end was read, the connection is
  closed and nothing of it is left (`Got`). What is said of runs without a kill needs two
  more: why the connection of `unix_domain` never ends before its answer is written
  (`OneText`), and why in the other pairs none is ever cut under its client (`Unbroken`).
- **Programs_proofs**, on `PriorityQueue`. `TypeCorrect` (the loops never leave the
  vector), `TopCorrect` (between two calls `top` is the greatest value), and `Implements`: through the number of times each value is in
  the vector, the heap implements `MaxQueue`. Invariant `HeapInv`: the heap is in order
  everywhere but at the position the loop has reached, and around that position its
  parent and its children are in order. That the first entry is the greatest follows
  by well-founded descent along parents (`FirstIsGreatest`); that a swap keeps the
  multiset, from the cardinality of the set of places where a value is
  (`SwapKeeps`, `PushAdds`, `PopRemoves`).
- **Programs_proofs**, on `Permutation`: `AllOrdersCorrect`, for any arrays. Invariant
  `PermInv`: there is, for each call on the stack, the array as it was when that call
  began (`Bases`); the orders put out are those that have, at the place of some call, an
  entry this call has done with (`Seen`), and none was put out twice (`NoneTwice`). It
  needs no induction over the length of the array, because each step of the recursion, a
  call, a turn or a return, adds at most one order to those seen.
- **Programs_proofs**, on `Postfix`: `ValueByGrammarCorrect`, for any expressions that
  have a value, of any length and depth of parentheses; numbers are integers without a
  width. Two things are shown by induction on the length of a part of the expression,
  written as the absence of a shortest counterexample (`LeastIn`). The grammar's
  recursion is well founded (`ValuesOfDef`), and a part with a value is a digit, or in
  parentheses, or divided (`ValueCases`), since depths and divisions of a part are those
  of the whole (`DepthOfPart`, `OutsideOfPart`). And `getPostfix` is right on every part
  (`AllCorrect`): if nothing under it on the stack can be driven out by its operators
  (`StaysUnder`), then what it has put out, followed by what it has left on the stack, is
  a postfix text that puts the part's value on top of any numbers (`Converted`,
  `Yields`). For an operator this holds because its left part leaves on the stack what it
  drives out, those of no less priority, and its right part what stays, and here equal
  priorities part (`DividedCorrect`). Invariant `PostInv`: outputs and stacks are where
  a history of the characters read so far ends. That a `)` finds its `(` is the same
  statement about the part between them (`Matched`).
- **Programs_proofs**, on `Transcoder`: `InStepCorrect`, `OnlyTailMissingCorrect`, for any
  input, delays and failing calls. Invariant `TransInv`: there is a frame `D` up to which
  all have left the decoder, which holds the next ones in order, and behind them come only
  those of a packet it has refused (`Decoder`, `Refused`); file, packet
  at hand and encoder hold frames up to `D`, in this order and each with the right pts
  (`Pipeline`, `Picture`); and one that is in none of them was lost in a call that failed
  (`Accounted`). Neither property says what the codecs hold, on which both depend.
- **Programs_proofs**, on `ChildProcess`: `WorkDoneCorrect`, for any length of the message
  and any number of kills. Invariant `ProcessInv`, one part for each program: who has
  been signalled and who has ended (`Shutdown`), that every byte is in the pipe or echoed
  and no end is read before the parent has closed (`PipeUN`), and who has been joined
  (`ThreadId`).
- **Python_proofs**, on `BoxServer`. `TypeCorrect`, `JudgedRightCorrect`,
  `StoredInOrderCorrect`, for any tasks, lists of entries and requests. Invariant `BoxInv`:
  what is recorded of a task is the time of its last entry among those gone through
  (`MemoryInStep`), of which there is one at most (`LastTimeIsOne`), and the entries gone
  through are those that stand before the one at hand (`Passed`, `AtEntry`): at the end of
  the list, and at an unknown task, all that will ever be come to
  (`HeartbeatEndKeeps`). A storing request has stored the files before the one it is at
  (`RequestInStep`). The two properties say nothing of a request in its middle.
- **Python_proofs**, on `Downsample` (through `AssetLibrary`): `OkMeansDoneCorrect` and
  `CopyRecoversCorrect`, for any library and any number of commands, kills and removed
  assets, and histories in which `--magic` was always spelled as for `--update`. Invariant
  `LibInv`: the originals are untouched (`Untouched`), no asset is in parts and no file of a
  copy outside its directory (`InPlace`), and the command that runs has done its work on the
  assets before its record, or passed them over, and on the elements before the one at hand
  (`Progress`). What an earlier command left half done, an empty file, a directory without
  all of its files or one without the directory in it, is nowhere assumed away:
  `CopyRecovers` rests on `--copy` removing the asset's directory first.
- **Fifo_proofs**. `TypeCorrect`, `OrderKeptCorrect`, `EndMeansAllCorrect`, for any
  writers, readers, chunks and pipe size. `FifoInv` puts what a reader has got before
  what waits in its pipe, and that before what its writer has still to send
  (`PipesInOrder`, `Sent`); in the plain file that takes a removed name's place, every
  int is at its own position (`FilesInPlace`). For the end of the stream, `EndInv` adds
  the phases a single writer goes through with its pipe (`NotOpen`, `Opening`,
  `Filling`, `HasLeft`): in each one, every int it has written has arrived or waits, and
  some reader keeps the pipe open until the last one has.
- **MessageQueue_proofs**. `TypeCorrect` (a queue stays within its limit, and no call
  uses an identifier `msgget` never gave), `MessagesAccountedCorrect`,
  `SettledReceiverServedCorrect` and `ImplementsTypedQueue`, for any senders, receivers
  and limits. Invariant `QueueInv`: what is on a queue, at a receiver
  or dropped was sent, is nowhere else and not there twice (`OnQueues`, `AtReceivers`,
  `Dropped`), and what was sent is somewhere (`NoneLost`). That a fresh identifier is
  always at hand is a count of the receivers that have removed a queue (`RoomForQid`).
  For the third, `ServedInv` adds that there has been one queue only (`OnlyQueue`) and
  that a call brings the type it asked for (`AsWanted`): each type is sent twice and
  wanted twice, so of two messages of the type one is still waiting (`FindsOne`).
  The refinement needs two facts more (`TypedInv`): a queue that is not live has no
  messages (`Emptied`), so that a new one begins empty, and who comes to `msgctl` has made
  all calls (`AllCalled`). That a process with an old identifier stays outside rests on
  identifiers never coming back: none is above `last_qid` (`Made`), and the next one is.
- **EchoServer_proofs**. `TypeCorrect` and `OwnEchoesCorrect`, for any clients, books,
  buffers, kills and cuts of the streams. Invariant `EchoInv`: for each client, what it
  has sent lies in five places one behind the other, its printed lines, the stream to
  it, the server's buffer, the stream from it, and the books to come, each in order and
  each before the next (`Chain`); the buffer counts for the one client the server has,
  and only between read and write. Every action is a move along the chain: `ChainSends`,
  `ChainReads`, `ChainReplies`, `ChainPrints`, or a loss from it, `ChainDrops`.
  `EchoConfirmsCorrect` takes a second invariant, `ConfirmInv`: while no read was cut, the
  turns of the server and of the client it serves count the same books, and the book of
  this turn is in one place, on its way, in the buffer or on its way back (`Unread`,
  `Buffered`, `Answered`). With a cut, one book may take two turns, and the counts part.

## What is only model-checked

- Liveness: `ReaderReleased`, `Finishes`, `ClientServed`, `ClientEnds`, `ClientsEnd`,
  `AllEnd`. The prover handles neither fairness nor `ENABLED`.

## What is not modelled

Of the components in the models:

- calls that only fail for want of memory, rights or a network (`socket`, `mmap`,
  `sem_open`, `getpeername`, option and address set-up) and the `exit` after them: a
  program that ends there is one that was killed at that point;
- partial reads in `SocketPairs` (its texts are shorter than every buffer; what a
  cut stream does to such a conversation is the subject of `EchoServer`), and text
  that is printed past its end because `read` stores no zero;
- the arithmetic of pictures in `Downsample`, assets with several `dg_makeup`
  directories (one stands for all of them) or with images further down, a list file cut inside a line by a
  kill, and `--update` of a library that a misspelled command has worked on;
- pictures, rate control, the release of what `main` allocated, and a build
  with `NDEBUG` in `Transcoder`, in which the assertions that make the calls would
  be gone with the calls;
- HTTP itself and the bytes of a request in `BoxServer`; overflow of `int` in the
  calculator; ill-formed expressions, for which the code reads below its stacks;
  empty queues, on which `pop` and `top` have no meaning.

- what `thread_id` and `shutdown.c` print, `sleep`s as such (they order nothing, so
  everything may happen in any order), and a failing `pipe`.

Whole components (with reasons in `PROJECT.json`): `main.cpp` and the experiments
with language features, which have no state between their calls; the OpenCV programs,
which are floating-point geometry; the drawing tool, which is a user interface; small
tools that are one loop around another program; the singletons, run by one thread;
sequence ids, whose uniqueness is a matter of probability. What is left of these has
no steps between which anything else could act, so that a model would repeat the code.

## Findings

`memreader.c:37` says of the semaphore "use semaphore as a mutex (lock) by waiting
for writer to increment it". Nobody ever unlinks it, so on a machine on which the
writer has run before, its count is already 1: in `shmem_rerun` a reader of the second
run passes `sem_wait` as soon as the segment exists, and prints bytes that `strcpy`
has not written, or none when `ftruncate` has not come yet. That this cannot
happen in a first run is what `shmem_first_run` and the theorem `FirstRun` show.

`consumer.c:25-28` asks `F_GETLK` under the comment "sets lock.l_type to F_UNLCK if no
write lock" and otherwise says "file is still write locked..." before it gives up. The
lock it asks about is a write lock (`consumer.c:15`), with which another consumer's read
lock is in conflict too: in `file_lock_refusal` a consumer gives up and reports a write
lock that nobody holds. Two consumers read together only if the second one's test comes
before the first one's lock.

Remarks without a run:

- `iou` and `isOverlap` (`misce_tests/OpenCV/iou.cpp:14,23`) take the greater of
  `rect1.tl[0]` and itself for the left edge of the intersection. Where `rect2` begins
  further to the right, the width comes out too large, and rectangles side by side may
  be said to overlap.
- `signal_handler` of `thread_id` (`main.cpp:15`) tests for `SIGINT` and `SIGQUIT`, but
  `main` registers it for `SIGINT` alone; `SIGQUIT` ends the process without a join
  (`Signalled`).
- `downscale_img` of `downsample.py` never looks at what `imwrite` returns (`:107`). Without
  `--copy`, and with the `dg_makeup*` directory missing in the target, an image is not
  written, no message is given, and when the asset has no tex either the command exits 0
  (`Skip`, `PassedOver`).
- `avcodec_receive_frame` (`ffmpeg_encoder.cpp:286`) ends the loop over a packet's frames
  by any negative code: an error is taken for "no more frames".
- `check_heartbeat` (`simple_web_server_boxcallback.py:105`) names `taskList_`, which is
  not defined there: a task nobody registered raises instead of being warned about, and
  the entries after it are not looked at (`UnknownTask`).
