----------------------------- MODULE ChatServer -----------------------------
(***************************************************************************)
(* misce_tests/socket/chat_server.cpp: one thread that serves every client *)
(* with select() over non-blocking sockets, against clients that connect,  *)
(* send, close and abort at any moment.                                    *)
(*                                                                         *)
(* A step of the server is the code between two system calls: only there   *)
(* can a client come in between.  Descriptors are numbers the kernel gives *)
(* out lowest first; those below ListenFd belong to the standard streams.  *)
(***************************************************************************)
EXTENDS Integers, Sequences, FiniteSets

CONSTANTS Clients,
          ListenFd,     \* the descriptor create_socket1 returned
          FdLimit,      \* the process's limit on open descriptors
          MaxSends,     \* bound on the messages of each client
          Listener, Free

ASSUME ChatServerAssumption ==
    /\ ListenFd \in Nat /\ FdLimit \in Nat /\ ListenFd < FdLimit
    /\ MaxSends \in [Clients -> Nat]
    /\ Listener \notin Clients /\ Free \notin Clients /\ Listener # Free

VARIABLES
    pc,         \* the call the server is about to make
    i,          \* the descriptor its scan has reached
    desc_ready, max_sd, master_set, working_set, end_server,
    files,      \* the kernel's table: what each descriptor is open on
    backlog,    \* connections made and not accepted yet, in order
    peer,       \* each client's end of its connection
    inbox,      \* messages the kernel holds for the server
    sent,       \* messages each client has sent
    accepted    \* history: the descriptors given out since the last select

scan == <<i, desc_ready, working_set>>
sets == <<max_sd, master_set>>
net == <<peer, inbox, sent>>
vars == <<pc, scan, sets, end_server, files, backlog, net, accepted>>

Fds == ListenFd..(FdLimit - 1)
OpenFds == {fd \in Fds : files[fd] # Free}
Down == {"exited", "sigpipe"}

\* open: both ways; fin: the client has closed; broken: it has closed and its
\* host has answered data with a reset; reset: the client aborted.
PeerStates == {"none", "open", "fin", "broken", "reset", "closed"}

\* Shape of the state.
TypeOK ==
    /\ pc \in {"select", "scan", "accept", "recv", "send", "close", "cleanup"} \cup Down
    /\ i \in 0..FdLimit
    /\ desc_ready \in Int
    /\ max_sd \in Fds
    /\ master_set \in SUBSET Fds
    /\ working_set \in SUBSET Fds
    /\ end_server \in BOOLEAN
    /\ files \in [Fds -> Clients \cup {Listener, Free}]
    /\ backlog \in Seq(Clients)
    /\ peer \in [Clients -> PeerStates]
    /\ inbox \in [Clients -> Nat]
    /\ sent \in [Clients -> Nat]
    /\ accepted \in SUBSET Fds

\* create_socket1 has returned; main has put the descriptor in the master set.
Init ==
    /\ pc = "select"
    /\ i = 0
    /\ desc_ready = 0
    /\ max_sd = ListenFd
    /\ master_set = {ListenFd}
    /\ working_set = {}
    /\ end_server = FALSE
    /\ files = [fd \in Fds |-> IF fd = ListenFd THEN Listener ELSE Free]
    /\ backlog = << >>
    /\ peer = [c \in Clients |-> "none"]
    /\ inbox = [c \in Clients |-> 0]
    /\ sent = [c \in Clients |-> 0]
    /\ accepted = {}

Greatest(S) == CHOOSE fd \in S : \A other \in S : other <= fd
Least(S) == CHOOSE fd \in S : \A other \in S : fd <= other

-----------------------------------------------------------------------------
(* The server *)

Readable(fd) ==
    IF files[fd] = Listener
      THEN backlog # << >>
      ELSE inbox[files[fd]] > 0 \/ peer[files[fd]] \in {"fin", "broken", "reset"}

ReadyFds == {fd \in master_set : fd <= max_sd /\ Readable(fd)}

\* Mutant: the working set is not copied afresh from the master set.
SelectAddsTo ==
    /\ pc = "select"
    /\ ReadyFds # {}
    /\ working_set' = working_set \cup ReadyFds
    /\ desc_ready' = Cardinality(ReadyFds)
    /\ i' = 0
    /\ pc' = "scan"
    /\ accepted' = {}
    /\ UNCHANGED <<sets, end_server, files, backlog, net>>

Select ==
    /\ pc = "select"
    /\ ReadyFds # {}
    /\ working_set' = ReadyFds
    /\ desc_ready' = Cardinality(ReadyFds)
    /\ i' = 0
    /\ pc' = "scan"
    /\ accepted' = {}
    /\ UNCHANGED <<sets, end_server, files, backlog, net>>

\* Nothing was ready for five seconds.
SelectTimesOut ==
    /\ pc = "select"
    /\ ReadyFds = {}
    /\ working_set' = {}
    /\ UNCHANGED <<pc, i, desc_ready, sets, end_server, files, backlog, net, accepted>>

SelectFails ==
    /\ pc = "select"
    /\ pc' = "cleanup"
    /\ UNCHANGED <<scan, sets, end_server, files, backlog, net, accepted>>

\* The descriptors the loop has still to visit and will find set.
Ahead == {fd \in working_set : i <= fd /\ fd <= max_sd}

\* The loop moves on to the next descriptor that is set.
ScanHit ==
    /\ pc = "scan" /\ desc_ready > 0 /\ Ahead # {}
    /\ i' = Least(Ahead)
    /\ desc_ready' = desc_ready - 1
    /\ pc' = IF i' = ListenFd THEN "accept" ELSE "recv"
    /\ UNCHANGED <<working_set, sets, end_server, files, backlog, net, accepted>>

\* The loop ends, and with it the pass.
ScanEnd ==
    /\ pc = "scan" /\ (desc_ready <= 0 \/ Ahead = {})
    /\ pc' = IF end_server THEN "cleanup" ELSE "select"
    /\ UNCHANGED <<scan, sets, end_server, files, backlog, net, accepted>>

Accept ==
    /\ pc = "accept" /\ backlog # << >> /\ OpenFds # Fds
    /\ LET new_sd == Least(Fds \ OpenFds) IN
        /\ files' = [files EXCEPT ![new_sd] = Head(backlog)]
        /\ master_set' = master_set \cup {new_sd}
        /\ max_sd' = IF new_sd > max_sd THEN new_sd ELSE max_sd
        /\ accepted' = accepted \cup {new_sd}
    /\ backlog' = Tail(backlog)
    /\ UNCHANGED <<pc, scan, end_server, net>>

\* EWOULDBLOCK with nobody waiting.  With no descriptor free, accept fails
\* with EMFILE before it looks at the queue, and the server is to end.
AcceptFails ==
    /\ pc = "accept" /\ (backlog = << >> \/ OpenFds = Fds)
    /\ end_server' = (end_server \/ OpenFds = Fds)
    /\ i' = i + 1
    /\ pc' = "scan"
    /\ UNCHANGED <<desc_ready, working_set, sets, files, backlog, net, accepted>>

\* One buffer: some of what waits, if anything does.
RecvData ==
    LET c == files[i] IN
    /\ pc = "recv" /\ inbox[c] > 0
    /\ \E n \in 1..inbox[c] : inbox' = [inbox EXCEPT ![c] = @ - n]
    /\ pc' = "send"
    /\ UNCHANGED <<scan, sets, end_server, files, backlog, peer, sent, accepted>>

RecvWouldBlock ==
    /\ pc = "recv" /\ inbox[files[i]] = 0 /\ peer[files[i]] = "open"
    /\ i' = i + 1
    /\ pc' = "scan"
    /\ UNCHANGED <<desc_ready, working_set, sets, end_server, files, backlog, net, accepted>>

\* Mutant: the end of the stream taken for EWOULDBLOCK.
RecvEndIgnored ==
    /\ pc = "recv" /\ inbox[files[i]] = 0 /\ peer[files[i]] # "open"
    /\ i' = i + 1
    /\ pc' = "scan"
    /\ UNCHANGED <<desc_ready, working_set, sets, end_server, files, backlog, net, accepted>>

\* recv returns 0, or fails with something else than EWOULDBLOCK.
RecvEnds ==
    /\ pc = "recv" /\ inbox[files[i]] = 0 /\ peer[files[i]] # "open"
    /\ pc' = "close"
    /\ UNCHANGED <<scan, sets, end_server, files, backlog, net, accepted>>

\* The reply goes out.  A client that has closed may answer it with a reset.
SendReply ==
    LET c == files[i] IN
    /\ pc = "send" /\ peer[c] \in {"open", "fin"}
    /\ \/ peer[c] = "fin" /\ peer' = [peer EXCEPT ![c] = "broken"]
       \/ UNCHANGED peer
    /\ pc' = "recv"
    /\ UNCHANGED <<scan, sets, end_server, files, backlog, inbox, sent, accepted>>

\* ECONNRESET, or EWOULDBLOCK towards a client that does not read.
SendFails ==
    /\ pc = "send" /\ peer[files[i]] \in {"open", "fin", "reset"}
    /\ pc' = "close"
    /\ UNCHANGED <<scan, sets, end_server, files, backlog, net, accepted>>

\* EPIPE comes with SIGPIPE, which nothing handles.
SendKills ==
    /\ pc = "send" /\ peer[files[i]] = "broken"
    /\ pc' = "sigpipe"
    /\ UNCHANGED <<scan, sets, end_server, files, backlog, net, accepted>>

Closing(new_max) ==
    /\ pc = "close"
    /\ peer' = [peer EXCEPT ![files[i]] = "closed"]
    /\ files' = [files EXCEPT ![i] = Free]
    /\ master_set' = master_set \ {i}
    /\ max_sd' = new_max
    /\ i' = i + 1
    /\ pc' = "scan"
    /\ UNCHANGED <<desc_ready, working_set, end_server, backlog, inbox, sent, accepted>>

\* Mutants of Close: max_sd is not lowered, is lowered by any close, is reset.
CloseKeepsMax == Closing(max_sd)
CloseLowersMax == Closing(max_sd - 1)
CloseResetsMax == Closing(IF i = max_sd THEN 0 ELSE max_sd)

\* The descriptor leaves the master set; max_sd falls back to the greatest left.
Close == Closing(IF i = max_sd THEN Greatest(master_set \ {i}) ELSE max_sd)

\* The last loop of main.
Cleanup ==
    /\ pc = "cleanup"
    /\ files' = [fd \in Fds |->
                    IF fd \in master_set /\ fd <= max_sd THEN Free ELSE files[fd]]
    /\ pc' = "exited"
    /\ UNCHANGED <<scan, sets, end_server, backlog, net, accepted>>

Server ==
    \/ Select \/ SelectTimesOut \/ ScanHit \/ ScanEnd \/ Accept \/ AcceptFails
    \/ RecvData \/ RecvWouldBlock \/ RecvEnds \/ SendReply \/ SendFails
    \/ SendKills \/ Close \/ Cleanup

-----------------------------------------------------------------------------
(* The clients, as the server can see them *)

Connect(c) ==
    /\ pc \notin Down /\ peer[c] = "none"
    /\ peer' = [peer EXCEPT ![c] = "open"]
    /\ backlog' = Append(backlog, c)
    /\ UNCHANGED <<pc, scan, sets, end_server, files, inbox, sent, accepted>>

Send(c) ==
    /\ pc \notin Down /\ peer[c] = "open" /\ sent[c] < MaxSends[c]
    /\ inbox' = [inbox EXCEPT ![c] = @ + 1]
    /\ sent' = [sent EXCEPT ![c] = @ + 1]
    /\ UNCHANGED <<pc, scan, sets, end_server, files, backlog, peer, accepted>>

\* An orderly close, or an abort.
Leave(c) ==
    /\ pc \notin Down /\ peer[c] = "open"
    /\ \E how \in {"fin", "reset"} : peer' = [peer EXCEPT ![c] = how]
    /\ UNCHANGED <<pc, scan, sets, end_server, files, backlog, inbox, sent, accepted>>

Next == Server \/ SelectFails \/ \E c \in Clients : Connect(c) \/ Send(c) \/ Leave(c)

Spec == Init /\ [][Next]_vars

\* The server's thread runs; no client has to do anything, and select need
\* not fail.
FairSpec == Spec /\ WF_vars(Server)

-----------------------------------------------------------------------------
(* Properties *)

\* Between two calls the master set holds exactly the open descriptors and
\* max_sd is its greatest: no connection is forgotten, none is polled after
\* its close, and select looks far enough (chat_server.cpp:165-167, 248-255).
Watching ==
    pc \notin Down =>
        /\ master_set = OpenFds
        /\ max_sd \in master_set
        /\ \A fd \in master_set : fd <= max_sd

\* The descriptors of the working set the scan has not served yet.
Unserved == {fd \in working_set : fd > i \/ (fd = i /\ pc = "scan")}

\* What select reported stays true until the scan gets there: a descriptor
\* that is set and not yet served is open, on the connection it was open on,
\* although descriptors are closed and given out during the scan.
NoStaleReady ==
    pc \in {"scan", "accept", "recv", "send", "close"} =>
        \A fd \in Unserved : fd \in OpenFds /\ fd \notin accepted

\* A pass ends only when it has served all that select counted, although it
\* stops at a max_sd that its own closes lower.
PassComplete ==
    [][pc = "scan" /\ pc' \in {"select", "cleanup"} => desc_ready = 0]_vars

\* A client with data or an end of stream to deliver is served, or its
\* connection closed, unless the server ends: no client starves another.
ClientServed ==
    \A c \in Clients :
        (inbox[c] > 0 \/ peer[c] \in {"fin", "reset"})
            ~> (inbox[c] = 0 /\ peer[c] = "open") \/ peer[c] = "closed" \/ pc \in Down
=============================================================================
