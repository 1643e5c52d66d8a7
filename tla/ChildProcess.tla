---------------------------- MODULE ChildProcess ----------------------------
(***************************************************************************)
(* Three programs whose main waits for what it has started:                *)
(* ipcCode/sigs/shutdown.c ends its child with SIGTERM, ipcCode/pipes/     *)
(* pipeUN.c hands it a message through an unnamed pipe, and                *)
(* misce_tests/thread_id runs three threads until a signal.                *)
(*                                                                         *)
(* Processes may be killed from outside.  A signal that is sent stays      *)
(* pending until it is delivered; without a handler it kills.              *)
(***************************************************************************)
EXTENDS Naturals

CONSTANTS MsgLen,   \* bytes of pipeUN's message, which fit into the pipe
          MaxKills  \* bound on the processes killed from outside

VARIABLES program,      \* which of the three runs
          pc,           \* where each process or thread is
          pending,      \* SIGTERM is on its way to the child
          handled,      \* history: the handler was registered when it was sent
          ends,         \* the processes that have each end of the pipe open
          content,      \* bytes in the pipe
          echoed,       \* bytes the child has written to the standard output
          g_is_running,
          kills

pipe == <<ends, content, echoed>>
signals == <<pending, handled, g_is_running>>
vars == <<program, pc, signals, pipe, kills>>

Names == <<"thread_1", "thread_2", "thread_3">>
Threads == {Names[n] : n \in 1..3}
Procs == {"main", "child"} \cup Threads
Ended == {"none", "exited", "failed", "killed"}

Init ==
    /\ program \in {"shutdown", "pipeUN", "thread_id"}
    /\ pc = [p \in Procs |-> IF p # "main" THEN "none"
                             ELSE IF program = "thread_id" THEN "signal" ELSE "fork"]
    /\ pending = FALSE /\ handled = FALSE
    /\ ends = [e \in {"ReadEnd", "WriteEnd"} |-> {"main"}]
    /\ content = 0 /\ echoed = 0
    /\ g_is_running = TRUE
    /\ kills = 0

Goto(p, from, to) == pc[p] = from /\ pc' = [pc EXCEPT ![p] = to] /\ UNCHANGED program
Step(p, from, to) == Goto(p, from, to) /\ UNCHANGED <<signals, pipe, kills>>

\* The kernel closes what an ended process had open.
Ends(p, how) ==
    /\ pc' = [pc EXCEPT ![p] = how]
    /\ ends' = [e \in DOMAIN ends |-> ends[e] \ {p}]
    /\ UNCHANGED <<program, signals, content, echoed>>

-----------------------------------------------------------------------------
\* The child starts with both ends of the pipe.
Fork(main_next, child_next) ==
    /\ pc["main"] = "fork"
    /\ pc' = [pc EXCEPT !["main"] = main_next, !["child"] = child_next]
    /\ ends' = [e \in DOMAIN ends |-> {"main", "child"}]
    /\ UNCHANGED <<program, signals, content, echoed, kills>>

ForkFails == pc["main"] = "fork" /\ Ends("main", "failed") /\ UNCHANGED kills

\* Mutant: the parent does not wait.
WaitNot == pc["main"] = "wait" /\ Ends("main", "exited") /\ UNCHANGED kills

\* wait returns once the child has ended, however it did.
Wait ==
    /\ pc["main"] = "wait" /\ pc["child"] \in Ended
    /\ Ends("main", "exited") /\ UNCHANGED kills

(* shutdown.c *)

ForkSleeper == program = "shutdown" /\ Fork("kill", "set_handler")

\* After five seconds, in which the child need not have run; one that has
\* ended can still be signalled.
KillChild ==
    /\ Goto("main", "kill", "wait")
    /\ pending' = TRUE /\ handled' = (pc["child"] = "sleep")
    /\ UNCHANGED <<g_is_running, pipe, kills>>

SetHandler == Step("child", "set_handler", "sleep")

\* The signal arrives: in the loop graceful takes it, before that it kills.
Deliver ==
    /\ pending /\ pending' = FALSE
    /\ \/ Goto("child", "sleep", "graceful") \/ Goto("child", "set_handler", "killed")
    /\ UNCHANGED <<handled, g_is_running, pipe, kills>>

Graceful == Step("child", "graceful", "exited")

(* pipeUN.c *)

ForkEcho == program = "pipeUN" /\ Fork("write", "close")

\* The parent closes its reading end; with the child gone, SIGPIPE.
MainWrite ==
    /\ pc["main"] = "write"
    /\ IF "child" \in ends["ReadEnd"]
         THEN /\ Goto("main", "write", "close")
              /\ ends' = [ends EXCEPT !["ReadEnd"] = @ \ {"main"}]
              /\ content' = MsgLen /\ UNCHANGED <<signals, echoed>>
         ELSE Ends("main", "killed")
    /\ UNCHANGED kills

\* The parent after, the child before its use of the pipe.
CloseWrite(p, next) ==
    /\ Goto(p, "close", next)
    /\ ends' = [ends EXCEPT !["WriteEnd"] = @ \ {p}]
    /\ UNCHANGED <<signals, content, echoed, kills>>

MainCloseWrite == CloseWrite("main", "wait")

\* Mutant: the child keeps its copy of the writing end.
ChildKeepWrite == Step("child", "close", "read")

ChildCloseWrite == CloseWrite("child", "read")

\* One byte from the pipe to the standard output.
Echo ==
    /\ Goto("child", "read", "read") /\ content > 0
    /\ content' = content - 1 /\ echoed' = echoed + 1
    /\ UNCHANGED <<signals, ends, kills>>

\* The end of the stream: an empty pipe nobody has open for writing.
EchoEnds ==
    /\ pc["child"] = "read" /\ content = 0 /\ ends["WriteEnd"] = {}
    /\ Ends("child", "exited") /\ UNCHANGED kills

(* thread_id *)

RegisterHandler == Step("main", "signal", "create")

CreateThread(n) ==
    /\ pc["main"] = "create" /\ pc[Names[n]] = "none"
    /\ (n > 1 => pc[Names[n - 1]] # "none")
    /\ pc' = [pc EXCEPT ![Names[n]] = "loop", !["main"] = IF n = 3 THEN "join" ELSE "create"]
    /\ UNCHANGED <<program, signals, pipe, kills>>

\* The loop ends at its test; until then it sleeps and prints.
LeaveLoop(t) == ~ g_is_running /\ Step(t, "loop", "exited")

JoinThreads == (\A t \in Threads : pc[t] = "exited") /\ Step("main", "join", "exited")

\* SIGINT or SIGQUIT from the terminal: signal_handler would take both, but is
\* registered for the first only.  Without a handler all threads end.
Signalled(signum) ==
    /\ program = "thread_id" /\ pc["main"] \notin Ended
    /\ IF signum = "SIGINT" /\ pc["main"] # "signal"
         THEN g_is_running' = FALSE /\ UNCHANGED pc
         ELSE /\ pc' = [p \in Procs |-> IF pc[p] \in Ended THEN pc[p] ELSE "killed"]
              /\ UNCHANGED g_is_running
    /\ UNCHANGED <<program, pending, handled, pipe, kills>>

-----------------------------------------------------------------------------
Kill(p) ==
    /\ program # "thread_id" /\ pc[p] \notin Ended
    /\ kills < MaxKills /\ kills' = kills + 1
    /\ Ends(p, "killed")

Main == \/ ForkSleeper \/ ForkEcho \/ ForkFails \/ KillChild \/ Wait
        \/ MainWrite \/ MainCloseWrite
        \/ RegisterHandler \/ (\E n \in 1..3 : CreateThread(n)) \/ JoinThreads
Child == SetHandler \/ Deliver \/ Graceful \/ ChildCloseWrite \/ Echo \/ EchoEnds

Next == \/ Main \/ Child
        \/ \E t \in Threads : LeaveLoop(t)
        \/ \E signum \in {"SIGINT", "SIGQUIT"} : Signalled(signum)
        \/ \E p \in {"main", "child"} : Kill(p)

Spec == Init /\ [][Next]_vars

-----------------------------------------------------------------------------
(* Properties *)

\* What main reports by ending regularly is so: nothing it has started runs any
\* more (thread_id/main.cpp:41), the message was echoed (pipeUN.c:39) unless its
\* child was killed, and a child that had registered its handler when main sent
\* the signal ended through it (shutdown.c:44), not by the signal.
WorkDone ==
    pc["main"] = "exited" =>
        /\ \A p \in Procs : pc[p] \in Ended
        /\ program = "pipeUN" /\ pc["child"] = "exited" => echoed = MsgLen
        /\ program = "shutdown" /\ handled => pc["child"] = "exited" \/ kills > 0

\* thread_id runs until it is signalled.
ToEnd == program = "thread_id" => ~ g_is_running

\* shutdown's child sleeps for ever if nobody is left to signal it.
AllEnded ==
    /\ pc["main"] \in Ended
    /\ pc["child"] \in Ended \/ (program = "shutdown" /\ pc["main"] = "killed")
    /\ \A t \in Threads : pc[t] \in Ended
=============================================================================
