--------------------------- MODULE MCSocketPairs ---------------------------
(* TLC instance of SocketPairs: two servers that fight for the name, and two *)
(* clients, so that one has to wait while the other is served.               *)
EXTENDS SocketServers
CONSTANTS s1, s2, c1, c2

TwoServers == {s1, s2}
TwoClients == {c1, c2}
PairsSpec == Pairs!Spec
=============================================================================
