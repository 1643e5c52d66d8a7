---------------------------- MODULE MCChatServer ----------------------------
(* TLC instance of ChatServer: two clients may be connected together; the    *)
(* third reuses a descriptor, or finds the table full.                       *)
EXTENDS ChatServer, TLC
CONSTANTS c1, c2, c3

ThreeClients == {c1, c2, c3}
Sends == c1 :> 2 @@ c2 :> 1 @@ c3 :> 1
=============================================================================
