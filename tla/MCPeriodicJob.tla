--------------------------- MODULE MCPeriodicJob -----------------------------
(* Small instances of PeriodicJob for TLC.                                 *)
EXTENDS PeriodicJob

CONSTANTS t1, t2

TwoThreads == {t1, t2}
UpToThree == 1 .. 3
==============================================================================
