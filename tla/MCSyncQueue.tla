----------------------------- MODULE MCSyncQueue -----------------------------
(* Small instances of SyncQueue for TLC.                                   *)
EXTENDS SyncQueue, TLC

CONSTANTS t1, t2, t3, t4, v1, v2

ThreeThreads == {t1, t2, t3}
FourThreads == {t1, t2, t3, t4}
OneValue == {v1}
TwoValues == {v1, v2}

(* Capacities callers pass.                                                *)
OneToThree == {1, 2, 3}
OneOrTwo == {1, 2}
TwoOrUnbounded == {2, UNBOUNDED}

(* Outcomes of one expansion of the array list.                            *)
Exact == {1}
Overshooting == {1, 3}
OrFailing == {0, 1}

Symmetry == Permutations(FourThreads) \cup Permutations(TwoValues)
==============================================================================
