---------------------------- MODULE SocketPairs ----------------------------
(***************************************************************************)
(* Three pairs of programs in which a server answers one client at a time: *)
(*   server_unix    ipcCode/sockets/{server,client}_unix.c: any number of  *)
(*                  connections, a line and its upper-case echo in turns;  *)
(*   unix_domain    misce_tests/socket/unix_domain_socket_{server,client}.c: *)
(*                  one connection, one text each way;                     *)
(*   socket_server  misce_tests/socket/socket_{server,client}.cpp: one TCP *)
(*                  connection, a text and "got it" in turns for ever.     *)
(* A text is known by the client that wrote it and its number, and so is   *)
(* its answer; it arrives as a whole, being shorter than every buffer.     *)
(***************************************************************************)
EXTENDS Naturals, Sequences, Functions

CONSTANTS Servers, Clients, None,
          MaxRequests,  \* bound on the texts of a client
          MaxKills      \* bound on the processes killed

VARIABLES
    program,    \* the pair that runs
    pc,
    name,       \* the server whose socket the path or port leads to
    clientName, \* the client whose socket client.socket is
    backlog,    \* of a server: clients connected and not accepted
    serving,    \* of a server: the client it has accepted
    buf,        \* of a server: the text it has read
    conn,       \* of a client: the server's end of its connection
    request,    \* texts under way to the server
    answer,     \* and back
    sent,       \* of a client: texts written
    got,        \* of a client: what its reads brought, None for an end or an error
    kills

server == <<backlog, serving, buf>>
stream == <<request, answer>>
client == <<sent, got>>
vars == <<program, pc, name, clientName, server, conn, stream, client, kills>>

Procs == Servers \cup Clients
Ended == {"done", "exited", "sigpipe", "killed"}
Listening == {"accept", "read", "write"}
Up == {s \in Servers : pc[s] \in Listening}
Texts == Clients \X (1..MaxRequests)
Unix == program # "socket_server"

\* Shape of the state.
TypeOK ==
    /\ program \in {"server_unix", "unix_domain", "socket_server"}
    /\ pc \in [Procs -> {"unlink", "bind", "listen", "connect", "send", "recv"}
                           \cup Listening \cup Ended]
    /\ name \in Servers \cup {None} /\ clientName \in Clients \cup {None}
    /\ backlog \in [Servers -> Seq(Clients)]
    /\ \A s \in Servers : IsInjective(backlog[s])
    /\ serving \in [Servers -> Clients \cup {None}]
    /\ buf \in [Servers -> Texts \cup {None}]
    /\ conn \in [Clients -> {"none", "open", "eof", "reset"}]
    /\ request \in [Clients -> Seq(Texts)] /\ answer \in [Clients -> Seq(Texts)]
    /\ sent \in [Clients -> 0..MaxRequests]
    /\ got \in [Clients -> Seq(Texts \cup {None})]
    /\ \A c \in Clients :
         Len(request[c]) + Len(answer[c]) <= 1 /\ Len(got[c]) <= sent[c]
    /\ kills \in 0..MaxKills

\* Where a process starts: a TCP port is not unlinked, and of the clients only
\* client_unix has a name.
Start(p) == CASE p \in Servers -> IF Unix THEN "unlink" ELSE "bind"
              [] p \in Clients -> IF program = "server_unix" THEN "unlink" ELSE "connect"

Init ==
    /\ program \in {"server_unix", "unix_domain", "socket_server"}
    /\ pc = [p \in Procs |-> Start(p)]
    /\ name = None /\ clientName = None
    /\ backlog = [s \in Servers |-> << >>]
    /\ serving = [s \in Servers |-> None] /\ buf = [s \in Servers |-> None]
    /\ conn = [c \in Clients |-> "none"]
    /\ request = [c \in Clients |-> << >>] /\ answer = [c \in Clients |-> << >>]
    /\ sent = [c \in Clients |-> 0] /\ got = [c \in Clients |-> << >>]
    /\ kills = 0

Goto(p, from, to) == pc[p] = from /\ pc' = [pc EXCEPT ![p] = to] /\ UNCHANGED program

\* The end of server s closes what it has open.  A client whose text was not
\* read, or who was not accepted, finds its connection reset.  A path stays in
\* its directory, a port is free.
Gone(s) ==
    /\ conn' = [c \in Clients |->
                  IF c \in Range(backlog[s]) THEN "reset"
                  ELSE IF c # serving[s] THEN conn[c]
                  ELSE IF request[c] = << >> THEN "eof" ELSE "reset"]
    /\ request' = [c \in Clients |->
                     IF c \in Range(backlog[s]) \cup {serving[s]} THEN << >> ELSE request[c]]
    /\ backlog' = [backlog EXCEPT ![s] = << >>]
    /\ serving' = [serving EXCEPT ![s] = None]
    /\ buf' = [buf EXCEPT ![s] = None]
    /\ name' = IF name = s /\ ~ Unix THEN None ELSE name

-----------------------------------------------------------------------------
(* The servers *)

Unlink(s) ==
    /\ Goto(s, "unlink", "bind")
    /\ name' = None
    /\ UNCHANGED <<clientName, server, conn, stream, client, kills>>

Bind(s) ==
    /\ Goto(s, "bind", "listen")
    /\ name = None /\ name' = s
    /\ UNCHANGED <<clientName, server, conn, stream, client, kills>>

\* The name is in use: another server has bound it since, or connections of a
\* server that was there before still hold the port.
BindFails(s) ==
    /\ Goto(s, "bind", "exited")
    /\ name # None \/ (~ Unix /\ \E other \in Servers : pc[other] \in Ended)
    /\ UNCHANGED <<name, clientName, server, conn, stream, client, kills>>

Listen(s) ==
    /\ Goto(s, "listen", "accept")
    /\ UNCHANGED <<name, clientName, server, conn, stream, client, kills>>

Accept(s) ==
    /\ Goto(s, "accept", "read")
    /\ backlog[s] # << >>
    /\ serving' = [serving EXCEPT ![s] = Head(backlog[s])]
    /\ backlog' = [backlog EXCEPT ![s] = Tail(@)]
    /\ UNCHANGED <<name, clientName, buf, conn, stream, client, kills>>

Read(s) ==
    LET c == serving[s] IN
    /\ Goto(s, "read", "write")
    /\ request[c] # << >>
    /\ buf' = [buf EXCEPT ![s] = Head(request[c])]
    /\ request' = [request EXCEPT ![c] = Tail(@)]
    /\ UNCHANGED <<name, clientName, backlog, serving, conn, answer, client, kills>>

\* The client has closed and nothing of it is left to read.
StreamEnds(s) == pc[s] = "read" /\ request[serving[s]] = << >> /\ pc[serving[s]] \in Ended

\* Mutant: the end of the stream is taken for an empty text.
ReadOn(s) ==
    /\ program = "server_unix"
    /\ StreamEnds(s)
    /\ Goto(s, "read", "read")
    /\ UNCHANGED <<name, clientName, server, conn, stream, client, kills>>

\* server_unix closes the connection and accepts the next.
ReadEnd(s) ==
    /\ program = "server_unix"
    /\ StreamEnds(s)
    /\ Goto(s, "read", "accept")
    /\ serving' = [serving EXCEPT ![s] = None]
    /\ UNCHANGED <<name, clientName, backlog, buf, conn, stream, client, kills>>

\* unix_domain prints what came, nothing, and answers all the same.
ReadNothing(s) ==
    /\ program = "unix_domain"
    /\ StreamEnds(s)
    /\ Goto(s, "read", "write")
    /\ UNCHANGED <<name, clientName, server, conn, stream, client, kills>>

\* socket_server ends.
ReadEndReturns(s) ==
    /\ program = "socket_server"
    /\ StreamEnds(s)
    /\ Goto(s, "read", "done")
    /\ Gone(s)
    /\ UNCHANGED <<clientName, answer, client, kills>>

\* What the client has not read when the server closes stays readable.
Write(s) ==
    LET c == serving[s] IN
    /\ pc[s] = "write" /\ pc[c] \notin Ended
    /\ answer' = [answer EXCEPT ![c] = Append(@, buf[s])]
    /\ IF program = "unix_domain"
         THEN Goto(s, "write", "done") /\ Gone(s)
         ELSE Goto(s, "write", "read") /\ UNCHANGED <<name, server, conn, request>>
    /\ UNCHANGED <<clientName, client, kills>>

\* The client is gone and the signal ends the server.
WriteBroken(s) ==
    /\ Goto(s, "write", "sigpipe")
    /\ pc[serving[s]] \in Ended
    /\ Gone(s)
    /\ UNCHANGED <<clientName, answer, client, kills>>

\* TCP may take a text for a client that is gone before it knows.
WriteLost(s) ==
    /\ ~ Unix
    /\ Goto(s, "write", "read")
    /\ pc[serving[s]] \in Ended
    /\ UNCHANGED <<name, clientName, server, conn, stream, client, kills>>

Server(s) == \/ Unlink(s) \/ Bind(s) \/ BindFails(s) \/ Listen(s) \/ Accept(s)
             \/ Read(s) \/ ReadEnd(s) \/ ReadNothing(s) \/ ReadEndReturns(s)
             \/ Write(s) \/ WriteBroken(s) \/ WriteLost(s)

-----------------------------------------------------------------------------
(* The clients *)

ClientUnlink(c) ==
    /\ Goto(c, "unlink", "bind")
    /\ clientName' = None
    /\ UNCHANGED <<name, server, conn, stream, client, kills>>

\* Another client may have bound the name since.
ClientBind(c) ==
    /\ IF clientName = None
         THEN Goto(c, "bind", "connect") /\ clientName' = c
         ELSE Goto(c, "bind", "exited") /\ UNCHANGED clientName
    /\ UNCHANGED <<name, server, conn, stream, client, kills>>

Connect(c) ==
    /\ name \in Up
    /\ Goto(c, "connect", "send")
    /\ backlog' = [backlog EXCEPT ![name] = Append(@, c)]
    /\ conn' = [conn EXCEPT ![c] = "open"]
    /\ UNCHANGED <<name, clientName, serving, buf, stream, client, kills>>

\* No such name, or nobody listens behind it.
ConnectFails(c) ==
    /\ name \notin Up
    /\ Goto(c, "connect", "exited")
    /\ UNCHANGED <<name, clientName, server, conn, stream, client, kills>>

\* Mutant: the client does not wait for the answer.
SendNext(c) ==
    /\ sent[c] < MaxRequests /\ conn[c] = "open"
    /\ Goto(c, "send", "send")
    /\ sent' = [sent EXCEPT ![c] = @ + 1]
    /\ request' = [request EXCEPT ![c] = Append(@, <<c, sent'[c]>>)]
    /\ UNCHANGED <<name, clientName, server, conn, answer, got, kills>>

Send(c) ==
    /\ sent[c] < MaxRequests /\ conn[c] = "open"
    /\ Goto(c, "send", "recv")
    /\ sent' = [sent EXCEPT ![c] = @ + 1]
    /\ request' = [request EXCEPT ![c] = Append(@, <<c, sent'[c]>>)]
    /\ UNCHANGED <<name, clientName, server, conn, answer, got, kills>>

SendBroken(c) ==
    /\ conn[c] # "open"
    /\ Goto(c, "send", "sigpipe")
    /\ UNCHANGED <<name, clientName, server, conn, stream, client, kills>>

\* TCP may take a text for a server that is gone before it knows, or fail.
SendLost(c) ==
    /\ ~ Unix
    /\ sent[c] < MaxRequests /\ conn[c] # "open"
    /\ Goto(c, "send", "recv")
    /\ sent' = [sent EXCEPT ![c] = @ + 1]
    /\ UNCHANGED <<name, clientName, server, conn, stream, got, kills>>

\* Mutant: the user ends the input, and the client does not wait for the answer.
LeaveEarly(c) ==
    /\ program = "server_unix"
    /\ pc[c] \in {"send", "recv"}
    /\ Goto(c, pc[c], "done")
    /\ UNCHANGED <<name, clientName, server, conn, stream, client, kills>>

\* The user of client_unix ends the input.
EndOfInput(c) ==
    /\ program = "server_unix"
    /\ Goto(c, "send", "done")
    /\ UNCHANGED <<name, clientName, server, conn, stream, client, kills>>

\* Where a client goes on when recv has brought something, or nothing.
AfterRecv == IF program = "unix_domain" THEN "done" ELSE "send"

Recv(c) ==
    /\ answer[c] # << >>
    /\ Goto(c, "recv", AfterRecv)
    /\ got' = [got EXCEPT ![c] = Append(@, Head(answer[c]))]
    /\ answer' = [answer EXCEPT ![c] = Tail(@)]
    /\ UNCHANGED <<name, clientName, server, conn, request, sent, kills>>

\* The end of the stream brings no byte, which no client takes for an end.
RecvEnd(c) ==
    /\ answer[c] = << >> /\ conn[c] = "eof"
    /\ Goto(c, "recv", AfterRecv)
    /\ got' = [got EXCEPT ![c] = Append(@, None)]
    /\ UNCHANGED <<name, clientName, server, conn, stream, sent, kills>>

\* The reset is reported once; TCP may report one where the server has closed.
\* client_unix and the client of socket_server say so and go on; the client of
\* unix_domain exits.
RecvError(c) ==
    /\ answer[c] = << >>
    /\ conn[c] = "reset" \/ (~ Unix /\ conn[c] = "eof")
    /\ Goto(c, "recv", IF program = "unix_domain" THEN "exited" ELSE "send")
    /\ got' = [got EXCEPT ![c] = Append(@, None)]
    /\ conn' = [conn EXCEPT ![c] = "eof"]
    /\ UNCHANGED <<name, clientName, server, stream, sent, kills>>

Client(c) == \/ ClientUnlink(c) \/ ClientBind(c) \/ Connect(c) \/ ConnectFails(c)
             \/ Send(c) \/ SendBroken(c) \/ SendLost(c) \/ EndOfInput(c)
             \/ Recv(c) \/ RecvEnd(c) \/ RecvError(c)

-----------------------------------------------------------------------------
Kill(p) ==
    /\ pc[p] \notin Ended /\ kills < MaxKills
    /\ Goto(p, pc[p], "killed")
    /\ kills' = kills + 1
    /\ IF p \in Servers THEN Gone(p) ELSE UNCHANGED <<name, server, conn, request>>
    /\ UNCHANGED <<clientName, answer, client>>

Next == \/ \E s \in Servers : Server(s)
        \/ \E c \in Clients : Client(c)
        \/ \E p \in Procs : Kill(p)

\* Every process goes on when it can; nobody has to be killed.
Fairness == /\ \A s \in Servers : WF_vars(Server(s))
            /\ \A c \in Clients : WF_vars(Client(c))

Spec == Init /\ [][Next]_vars /\ Fairness

-----------------------------------------------------------------------------
\* What a client reads is the answer to the text it has just written, until the
\* connection is closed and nothing but its end comes.  If nobody is killed, no
\* client of server_unix or socket_server sees an end and no process is ended
\* by a signal, although names are taken away and servers exit; a client of
\* unix_domain is then answered or told so.
AnsweredInStep ==
    /\ \A c \in Clients : \A k \in DOMAIN got[c] :
         /\ got[c][k] \in {<<c, k>>, None}
         /\ k > 1 /\ got[c][k] # None => got[c][k - 1] # None
    /\ kills = 0 =>
         IF program = "unix_domain"
           THEN \A c \in Clients : pc[c] = "done" => got[c] = <<<<c, 1>>>>
           ELSE \A p \in Procs : pc[p] # "sigpipe" /\
                  (p \in Clients => \A k \in DOMAIN got[p] : got[p][k] = <<p, k>>)

\* Every client of the Unix sockets comes to its end, whoever is killed and
\* whichever server has lost its name: a server serves all that have connected
\* to it.  (The client of socket_server runs for ever.)
ClientsEnd == \A c \in Clients : <>(Unix => pc[c] \in Ended)
=============================================================================
