------------------------------ MODULE MCAlarmJob ------------------------------
(* Small instances of AlarmJob for TLC.                                    *)
EXTENDS AlarmJob

CONSTANTS t1, t2

TwoThreads == {t1, t2}
AtOnceLaterNever == {0, 2, 3, 9}
==============================================================================
