---------------------------- MODULE MCEchoServer ----------------------------
(* TLC instance of EchoServer: the first book may arrive in three pieces, as *)
(* many as the server makes reads; a buffer holds all the books and a zero.  *)
EXTENDS EchoServer
CONSTANTS c1, c2

TwoClients == {c1, c2}
Cut == <<3, 1, 1>>
=============================================================================
