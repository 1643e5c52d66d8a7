------------------------------- MODULE MCFifo -------------------------------
(* TLC instance of Fifo: two writers and two readers, and a pipe that one    *)
(* chunk fills.                                                              *)
EXTENDS Fifo, TLC
CONSTANTS w1, w2, r1, r2

TwoWriters == {w1, w2}
TwoReaders == {r1, r2}
=============================================================================
