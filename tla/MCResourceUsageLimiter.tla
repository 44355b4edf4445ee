------------------------ MODULE MCResourceUsageLimiter ------------------------
(* Small instances of ResourceUsageLimiter for TLC.                        *)
EXTENDS ResourceUsageLimiter

CONSTANTS t1, t2, t3, b1

ThreeThreads == {t1, t2, t3}
OneFlag == {b1}
==============================================================================
