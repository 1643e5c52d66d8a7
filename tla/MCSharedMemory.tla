--------------------------- MODULE MCSharedMemory ---------------------------
(* TLC instances of SharedMemory: a first run with one writer, and a machine *)
(* on which the writer has run before.                                       *)
EXTENDS SharedMemory, TLC
CONSTANTS w1, w2, r1, r2, r3

ASSUME Cardinality({w1, w2, r1, r2, r3}) = 5

OneWriter == {w1}
TwoWriters == {w1, w2}
TwoReaders == {r1, r2}
ThreeReaders == {r1, r2, r3}
=============================================================================
