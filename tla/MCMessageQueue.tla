--------------------------- MODULE MCMessageQueue ---------------------------
(* TLC instance of MessageQueue: senders and receivers that may run in any   *)
(* order, and a queue that six messages may overfill.                        *)
EXTENDS MessageQueue, TLC
CONSTANTS s1, r1, r2

OneSender == {s1}
Limits == {4, 6}
TwoReceivers == {r1, r2}
=============================================================================
