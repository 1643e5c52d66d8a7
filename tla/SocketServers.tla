--------------------------- MODULE SocketServers ---------------------------
(***************************************************************************)
(* The servers that answer one client at a time: what the pairs of module  *)
(* SocketPairs promise, stated here under names of their own so that it    *)
(* can be proved beside the server that answers many.                      *)
(***************************************************************************)
EXTENDS Naturals, Sequences

CONSTANTS Servers, Callers, None, MaxRequests, MaxKills

VARIABLES program, state, name, clientName, waiting, serving, buf, conn, request,
          answer, asked, got, kills

ASSUME SocketServersAssumption ==
    /\ Servers \cap Callers = {}
    /\ None \notin Servers \cup Callers \cup (Callers \X (1..MaxRequests))
    /\ MaxRequests \in Nat /\ MaxKills \in Nat

Pairs == INSTANCE SocketPairs
           WITH Clients <- Callers, pc <- state, backlog <- waiting, sent <- asked

\* Shape of the state of SocketPairs: a client waits at most once, and of its
\* texts and their answers at most one is under way (client_unix.c:46-53).
PairsTypeOK == Pairs!TypeOK

\* What a client reads is the answer to its last text, or the end
\* (server_unix.c:52-68, socket_client.cpp:62-75).
AnsweredInStep == Pairs!AnsweredInStep

\* A client of a Unix socket comes to its end (server_unix.c:39-69).
ClientsEnd == Pairs!ClientsEnd
=============================================================================
