----------------------------- MODULE MCFileLock -----------------------------
(* TLC instance of FileLock: two producers and two consumers, so that every *)
(* pair of lock types meets.                                                 *)
EXTENDS FileLock
CONSTANTS p1, p2, c1, c2

TwoProducers == {p1, p2}
TwoConsumers == {c1, c2}
=============================================================================
