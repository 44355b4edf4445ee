---------------------------- MODULE MCSyncLLQueue ----------------------------
(* Small instances of SyncLLQueue for TLC.                                 *)
EXTENDS SyncLLQueue

CONSTANTS t1, t2, t3, t4, v1, v2

FourThreads == {t1, t2, t3, t4}
TwoValues == {v1, v2}
==============================================================================
