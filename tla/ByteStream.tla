----------------------------- MODULE ByteStream ------------------------------
(***************************************************************************)
(* What a sync_pipe promises to the threads that share it, with no lock    *)
(* and no thread asleep: a stream of bytes, at most Limit of them under    *)
(* way, that can be closed once.  Every call takes effect at one instant.  *)
(***************************************************************************)
EXTENDS Sequences, Naturals

CONSTANTS Threads,
          Data,         \* what writers have to write, sequences of bytes
          Sizes,        \* how many bytes readers ask for
          MayFail,      \* whether the memory of the stream may fail to grow
          NOBODY

VARIABLES stream,       \* the bytes under way, oldest first
          limit, closed,
          event         \* the last call that returned: [by, op, asked, ret]

vars == <<stream, limit, closed, event>>

Returns(t, op, asked, ret) == event' = [by |-> t, op |-> op, asked |-> asked, ret |-> ret]

Init == /\ stream = <<>>
        /\ limit \in Nat
        /\ closed = FALSE
        /\ event = [by |-> NOBODY, op |-> "none", asked |-> 0, ret |-> <<>>]

(* A write appends the first n bytes of its data: at least one, unless     *)
(* there is none or the memory failed.                                     *)
Write(t, data, n) ==
    /\ ~closed
    /\ n = 0 => data = <<>> \/ MayFail
    /\ Len(stream) + n <= limit
    /\ stream' = stream \o SubSeq(data, 1, n)
    /\ Returns(t, "write", Len(data), SubSeq(data, 1, n))
    /\ UNCHANGED <<limit, closed>>

(* A write into a closed stream leaves no trace.                           *)
WriteRefused(t, data) ==
    /\ closed
    /\ Returns(t, "write", Len(data), <<>>)
    /\ UNCHANGED <<stream, limit, closed>>

(* A read takes the n oldest bytes: as many as it asked for or all there   *)
(* are, and there are some unless the stream is closed.                    *)
Read(t, size) ==
    LET n == IF size <= Len(stream) THEN size ELSE Len(stream)
    IN  /\ stream # <<>> \/ closed
        /\ stream' = SubSeq(stream, n + 1, Len(stream))
        /\ Returns(t, "read", size, SubSeq(stream, 1, n))
        /\ UNCHANGED <<limit, closed>>

Close == ~closed /\ closed' = TRUE /\ UNCHANGED <<stream, limit, event>>

Next ==
    \/ \E t \in Threads :
          \/ \E data \in Data : WriteRefused(t, data) \/ \E n \in 0 .. Len(data) : Write(t, data, n)
          \/ \E size \in Sizes : Read(t, size)
    \/ Close

Spec == Init /\ [][Next]_vars
==============================================================================
