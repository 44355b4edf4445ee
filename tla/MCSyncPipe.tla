------------------------------ MODULE MCSyncPipe ------------------------------
(* Small instances of SyncPipe for TLC.                                    *)
EXTENDS SyncPipe

CONSTANTS t1, t2, t3

ThreeThreads == {t1, t2, t3}
TwoBytes == {"a", "b"}
NothingLittleMuch == {<<>>, <<"a">>, <<"b", "a", "b">>}
NoneOrTwo == {0, 2}
NoneOrFour == {0, 4}
==============================================================================
