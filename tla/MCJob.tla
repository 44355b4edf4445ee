-------------------------------- MODULE MCJob --------------------------------
(* Small instances of Job for TLC.                                         *)
EXTENDS Job

CONSTANTS p1, p2, cb1

TwoPeers == {Owner, Runner, p1, p2}
OutputOrNull == {Output, NULL}
TwoCallbacks == {completion_callback, cb1}
OneSlotOrEnough == {1, 3}
FailsOrGrows == {0, 1}
==============================================================================
