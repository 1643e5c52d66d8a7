----------------------------- MODULE EchoServer -----------------------------
(***************************************************************************)
(* ipcCode/sockets/server.c and client.c: a server that serves one client  *)
(* after another, and clients that send it books and read the echoes.      *)
(*                                                                         *)
(* A connection is two streams of bytes, here of cells: a read brings any  *)
(* prefix of what has arrived, up to the size of its buffer.  A cell is a  *)
(* piece of a book, known by client, book and place, or Nul.  A step is    *)
(* the code between two system calls.                                      *)
(***************************************************************************)
EXTENDS Integers, Sequences

CONSTANTS Clients,
          Pieces,       \* the cells of each of the books
          BuffSize,     \* the cells of a buffer
          MaxShorts,    \* bound on the reads that bring only a part
          MaxKills      \* bound on the clients killed from outside

ConversationLen == Len(Pieces)

ASSUME EchoServerAssumption ==
    /\ "server" \notin Clients
    /\ Pieces \in Seq(Nat \ {0}) /\ Pieces # << >>
    /\ BuffSize \in Nat \ {0} /\ MaxKills \in Nat /\ MaxShorts \in Nat

\* No book is longer than a buffer (sock.h:3, client.c:13-15).
ASSUME BooksFit == \A b \in 1..ConversationLen : Pieces[b] <= BuffSize

VARIABLES
    pc,         \* where each process is
    client_fd,  \* the client the server has accepted: none or one
    i,          \* the loop counter of each process
    buffer,     \* the server's buffer
    backlog,    \* connections made and not accepted yet
    toServer, toClient,     \* the streams of each connection
    peer,       \* what each client's connection is to the server
    host,       \* what each client's connection is to the client
    printed,    \* the lines each client has printed
    shorts,     \* history: reads that brought less than they might have
    kills

server == <<client_fd, buffer>>
net == <<backlog, toServer, toClient, peer, host>>
vars == <<pc, server, i, net, printed, shorts, kills>>

Server == "server"
Procs == Clients \cup {Server}
Nul == << >>
Book(c, b) == [k \in 1..Pieces[b] |-> <<c, b, k>>]
Cells == UNION {{<<c, b, k>> : k \in 1..Pieces[b]} : c \in Clients, b \in 1..ConversationLen}

\* open: the other end is there; fin: it was closed; reset: it was closed with
\* bytes unread, which an error reports once; broken: a reset after that.
ConnectionStates == {"none", "open", "fin", "reset", "broken"}
Ended == {"done", "killed", "sigpipe", "refused"}

\* Shape of the state.
TypeOK ==
    /\ pc \in [Procs -> {"accept", "connect", "read", "write", "close"} \cup Ended]
    /\ client_fd \in SUBSET Clients
    /\ i \in [Procs -> 0..ConversationLen]
    /\ buffer \in Seq(Cells) /\ Len(buffer) <= BuffSize
    /\ backlog \in Seq(Clients)
    /\ toServer \in [Clients -> Seq(Cells)]
    /\ toClient \in [Clients -> Seq(Cells \cup {Nul})]
    /\ peer \in [Clients -> ConnectionStates]
    /\ host \in [Clients -> ConnectionStates]
    /\ printed \in [Clients -> Seq(Seq(Cells))]
    /\ shorts \in 0..MaxShorts
    /\ kills \in 0..MaxKills

Init ==
    /\ pc = [p \in Procs |-> IF p = Server THEN "accept" ELSE "connect"]
    /\ client_fd = {}
    /\ i = [p \in Procs |-> 0]
    /\ buffer = << >>
    /\ backlog = << >>
    /\ toServer = [c \in Clients |-> << >>]
    /\ toClient = [c \in Clients |-> << >>]
    /\ peer = [c \in Clients |-> "none"]
    /\ host = [c \in Clients |-> "none"]
    /\ printed = [c \in Clients |-> << >>]
    /\ shorts = 0
    /\ kills = 0

Goto(p, from, to) == pc[p] = from /\ pc' = [pc EXCEPT ![p] = to]
Smaller(a, b) == IF a < b THEN a ELSE b

\* A read of n cells: all that has arrived and has room, or a part of it.
Reads(n, stream) ==
    /\ n <= Len(stream) /\ n <= BuffSize
    /\ shorts' = IF n = Len(stream) \/ n = BuffSize THEN shorts ELSE shorts + 1
    /\ shorts' <= MaxShorts

Drop(s, n) == SubSeq(s, n + 1, Len(s))

\* What the other end finds when an end is closed over these unread bytes.
Closed(unread) == IF unread = << >> THEN "fin" ELSE "reset"

-----------------------------------------------------------------------------
(* server.c *)

Accept ==
    /\ Goto(Server, "accept", "read")
    /\ backlog # << >>
    /\ client_fd' = {Head(backlog)}
    /\ backlog' = Tail(backlog)
    /\ i' = [i EXCEPT ![Server] = 0]
    /\ UNCHANGED <<buffer, toServer, toClient, peer, host, printed, shorts, kills>>

\* Mutants of NextTurn: the loop is one turn long, or short; a turn without
\* data does not count.
NextTurnLong(counted) ==
    /\ i' = [i EXCEPT ![Server] = @ + 1]
    /\ pc' = [pc EXCEPT ![Server] =
                  IF i'[Server] = ConversationLen + 1 THEN "close" ELSE "read"]
NextTurnShort(counted) ==
    /\ i' = [i EXCEPT ![Server] = @ + 1]
    /\ pc' = [pc EXCEPT ![Server] =
                  IF i'[Server] = ConversationLen - 1 THEN "close" ELSE "read"]
NextTurnCounting(counted) ==
    /\ i' = [i EXCEPT ![Server] = IF counted THEN @ + 1 ELSE @]
    /\ pc' = [pc EXCEPT ![Server] =
                  IF i'[Server] = ConversationLen THEN "close" ELSE "read"]

\* The next turn of the server's loop, or its end: a turn counts with data or
\* without.
NextTurn(counted) ==
    /\ i' = [i EXCEPT ![Server] = @ + 1]
    /\ pc' = [pc EXCEPT ![Server] =
                  IF i'[Server] = ConversationLen THEN "close" ELSE "read"]

\* Mutant: the buffer is not cleared, and keeps what was longer.
Overlaid(new) == new \o Drop(buffer, Smaller(Len(new), Len(buffer)))

\* The buffer after memset and read.
Filled(new) == new

ServerRead(c) ==
    /\ Goto(Server, "read", "write") /\ c \in client_fd
    /\ \E n \in 1..BuffSize :
        /\ Reads(n, toServer[c])
        /\ buffer' = Filled(SubSeq(toServer[c], 1, n))
        /\ toServer' = [toServer EXCEPT ![c] = Drop(@, n)]
    /\ UNCHANGED <<client_fd, i, backlog, toClient, peer, host, printed, kills>>

\* read returns 0 or an error; the turn is over.
ServerReadNothing(c) ==
    /\ pc[Server] = "read" /\ c \in client_fd
    /\ toServer[c] = << >> /\ peer[c] # "open"
    /\ peer' = [peer EXCEPT ![c] = IF @ = "reset" THEN "broken" ELSE @]
    /\ NextTurn(FALSE)
    /\ UNCHANGED <<server, backlog, toServer, toClient, host, printed, shorts, kills>>

\* The whole buffer goes back, with the zeros behind the text.
ServerWrite(c) ==
    /\ pc[Server] = "write" /\ c \in client_fd /\ peer[c] # "broken"
    /\ IF peer[c] = "open"
         THEN /\ toClient' = [toClient EXCEPT ![c] = @ \o
                     [k \in 1..BuffSize |-> IF k <= Len(buffer) THEN buffer[k] ELSE Nul]]
              /\ UNCHANGED peer
         ELSE /\ \E next \in {"fin", "broken"} :
                    /\ peer[c] = "reset" => next = "broken"
                    /\ peer' = [peer EXCEPT ![c] = next]
              /\ UNCHANGED toClient
    /\ NextTurn(TRUE)
    /\ UNCHANGED <<server, backlog, toServer, host, printed, shorts, kills>>

\* A write on a connection that is known to be reset raises SIGPIPE: the server
\* is gone, and the connections it had or was to accept are closed.
ServerDies(c) ==
    /\ Goto(Server, "write", "sigpipe") /\ c \in client_fd /\ peer[c] = "broken"
    /\ host' = [d \in Clients |-> IF host[d] = "open" THEN Closed(toServer[d]) ELSE host[d]]
    /\ client_fd' = {}
    /\ backlog' = << >>
    /\ UNCHANGED <<buffer, i, toServer, toClient, peer, printed, shorts, kills>>

ServerClose(c) ==
    /\ Goto(Server, "close", "accept") /\ c \in client_fd
    /\ host' = [host EXCEPT ![c] = IF @ = "open" THEN Closed(toServer[c]) ELSE @]
    /\ client_fd' = {}
    /\ UNCHANGED <<buffer, i, backlog, toServer, toClient, peer, printed, shorts, kills>>

ServerStep ==
    \/ Accept
    \/ \E c \in Clients : \/ ServerRead(c) \/ ServerReadNothing(c)
                          \/ ServerWrite(c) \/ ServerDies(c) \/ ServerClose(c)

-----------------------------------------------------------------------------
(* client.c *)

Connect(c) ==
    /\ Goto(c, "connect", IF pc[Server] = "sigpipe" THEN "refused" ELSE "write")
    /\ IF pc[Server] = "sigpipe"
         THEN UNCHANGED <<backlog, peer, host>>
         ELSE /\ backlog' = Append(backlog, c)
              /\ peer' = [peer EXCEPT ![c] = "open"]
              /\ host' = [host EXCEPT ![c] = "open"]
    /\ UNCHANGED <<server, i, toServer, toClient, printed, shorts, kills>>

\* The end of a client's connection, as the server will find it.
Leave(c) == peer' = [peer EXCEPT ![c] = Closed(toClient[c])]

\* The next turn of c's loop; after the last it closes its socket.
ClientTurn(c) ==
    /\ i' = [i EXCEPT ![c] = @ + 1]
    /\ IF i'[c] = ConversationLen
         THEN Goto(c, pc[c], "done") /\ peer' = [peer EXCEPT ![c] = Closed(toClient'[c])]
         ELSE Goto(c, pc[c], "write") /\ UNCHANGED peer

\* The book is sent, or lost on a closed connection, which is then reset.
ClientWrite(c) ==
    /\ Goto(c, "write", "read") /\ host[c] \in {"open", "fin"}
    /\ IF host[c] = "open"
         THEN toServer' = [toServer EXCEPT ![c] = @ \o Book(c, i[c] + 1)] /\ UNCHANGED host
         ELSE \E next \in {"fin", "broken"} :
                  host' = [host EXCEPT ![c] = next] /\ UNCHANGED toServer
    /\ UNCHANGED <<server, i, backlog, toClient, peer, printed, shorts, kills>>

\* write returns -1: no read in this turn.
ClientWriteFails(c) ==
    /\ pc[c] = "write" /\ host[c] = "reset"
    /\ host' = [host EXCEPT ![c] = "broken"]
    /\ UNCHANGED toClient
    /\ ClientTurn(c)
    /\ UNCHANGED <<server, backlog, toServer, printed, shorts, kills>>

ClientDies(c) ==
    /\ Goto(c, "write", "sigpipe") /\ host[c] = "broken"
    /\ Leave(c)
    /\ UNCHANGED <<server, i, backlog, toServer, toClient, host, printed, shorts, kills>>

\* puts: the text up to the first zero.
Line(cells) ==
    LET n == CHOOSE m \in 0..Len(cells) :
                 /\ m = Len(cells) \/ cells[m + 1] = Nul
                 /\ \A k \in 1..m : cells[k] # Nul
    IN  SubSeq(cells, 1, n)

ClientRead(c) ==
    /\ pc[c] = "read"
    /\ \E n \in 1..BuffSize :
        /\ Reads(n, toClient[c])
        /\ printed' = [printed EXCEPT ![c] = Append(@, Line(SubSeq(toClient[c], 1, n)))]
        /\ toClient' = [toClient EXCEPT ![c] = Drop(@, n)]
    /\ ClientTurn(c)
    /\ UNCHANGED <<server, backlog, toServer, host, kills>>

\* read returns 0 or an error, and nothing is printed.
ClientReadNothing(c) ==
    /\ pc[c] = "read" /\ toClient[c] = << >> /\ host[c] # "open"
    /\ host' = [host EXCEPT ![c] = IF @ = "reset" THEN "broken" ELSE @]
    /\ UNCHANGED toClient
    /\ ClientTurn(c)
    /\ UNCHANGED <<server, backlog, toServer, printed, shorts, kills>>

ClientStep(c) ==
    \/ Connect(c) \/ ClientWrite(c) \/ ClientWriteFails(c) \/ ClientDies(c)
    \/ ClientRead(c) \/ ClientReadNothing(c)

\* A client killed from outside; the kernel closes its socket.
Kill(c) ==
    /\ kills < MaxKills
    /\ pc[c] \in {"write", "read"}
    /\ pc' = [pc EXCEPT ![c] = "killed"]
    /\ kills' = kills + 1
    /\ Leave(c)
    /\ UNCHANGED <<server, i, backlog, toServer, toClient, host, printed, shorts>>

Next == ServerStep \/ \E c \in Clients : ClientStep(c) \/ Kill(c)

Spec == Init /\ [][Next]_vars

\* The server and every client that can go on are scheduled.
FairSpec == Spec /\ WF_vars(ServerStep) /\ \A c \in Clients : WF_vars(ClientStep(c))

-----------------------------------------------------------------------------
(* Properties *)

\* A cell comes before another in what c writes.
Before(x, y) == x[2] < y[2] \/ (x[2] = y[2] /\ x[3] < y[3])

\* Whatever a client prints are pieces of its own books, in the order it wrote
\* them and none of them twice, however the streams are cut: nothing of
\* another client's conversation is left in the buffer (server.c:51-56).
OwnEchoes ==
    \A c \in Clients :
        LET texts == printed[c] IN
        \A l \in 1..Len(texts) : \A k \in 1..Len(texts[l]) :
            /\ texts[l][k][1] = c
            /\ \A m \in 1..l : \A j \in 1..Len(texts[m]) :
                  m < l \/ j < k => Before(texts[m][j], texts[l][k])

\* The echo is the confirmation both programs take it for (server.c:56,
\* client.c:51) as long as every read brings what has arrived: a client that
\* comes to its end has printed its books one by one, and the server lives,
\* whoever was killed before.
EchoConfirms ==
    shorts = 0 => /\ pc[Server] # "sigpipe"
               /\ \A c \in Clients : pc[c] = "done" =>
                     printed[c] = [b \in 1..ConversationLen |-> Book(c, b)]

\* Every client comes to its end, though the server serves one at a time and
\* the one it serves may be killed, or leave, in mid-conversation.
ClientEnds == \A c \in Clients : <>(pc[c] \in Ended)
=============================================================================
