------------------------------ MODULE MCExecutor ------------------------------
(* Small instances of Executor for TLC.                                    *)
EXTENDS Executor, TLC

CONSTANTS s1, s2, c1, c2, w1, w2, j1, j2, j3

TwoSubmitters == {s1, s2}
OneController == {c1}
TwoControllers == {c1, c2}
OneWorker == {w1}
TwoWorkers == {w1, w2}
OneOrLinkedList == {0, 1}
TwoOrLinkedList == {0, 2}
ByOne == {1}
FailsOrGrows == {0, 1}
TwoJobs == {j1, j2}
ThreeJobs == {j1, j2, j3}

Symmetry == Permutations({s1, s2}) \cup Permutations({c1, c2}) \cup Permutations({w1, w2}) \cup Permutations({j1, j2, j3})
==============================================================================
