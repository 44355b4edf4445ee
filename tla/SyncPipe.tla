------------------------------- MODULE SyncPipe -------------------------------
(***************************************************************************)
(* src/src/sync_pipe.c: a monitor around a buffer of bytes that grows up   *)
(* to max_capacity and shrinks again.  Writes and reads are partial and    *)
(* wait only while not one byte can be moved.  One action is one critical  *)
(* section of sync_pipe_lock, as in SyncQueue; all wake-ups are broadcasts.*)
(*                                                                         *)
(* External, modelled from its use here: the byte buffer (dpipe), which    *)
(* takes what fits, gives what it has, and whose resizing may fail, and    *)
(* pthread condition variables.                                            *)
(***************************************************************************)
EXTENDS Integers, Sequences, FiniteSets

CONSTANTS Threads,
          Bytes,
          Data,           \* what writers have to write, sequences of bytes
          Sizes,          \* how many bytes readers ask for
          MaxCapacities,
          MayFail,        \* whether resize_dpipe may fail
          NOBODY

ASSUME PipeAssumption ==
    /\ Data \subseteq Seq(Bytes)
    /\ Sizes \subseteq Nat /\ MaxCapacities \subseteq Nat
    /\ MayFail \in BOOLEAN

VARIABLES
    pyp,             \* the bytes in the buffer, oldest first
    capacity, max_capacity, is_closed,
    pc,              \* where each thread is in a write or a read
    data, data_size, \* the arguments of each write and of each read in progress
    event            \* the last call that returned: [by, op, asked, ret]

state == <<pyp, capacity, max_capacity, is_closed>>
vars == <<state, pc, data, data_size, event>>

Places == {"idle", "write_asleep", "write_woken", "read_asleep", "read_woken"}
At(l) == {t \in Threads : pc[t] = l}

Init ==
    /\ pyp = <<>> /\ capacity = 0
    /\ max_capacity \in MaxCapacities
    /\ is_closed = FALSE
    /\ pc = [t \in Threads |-> "idle"]
    /\ data = [t \in Threads |-> <<>>]
    /\ data_size = [t \in Threads |-> 0]
    /\ event = [by |-> NOBODY, op |-> "none", asked |-> 0, ret |-> <<>>]

-----------------------------------------------------------------------------
Lesser(m, n) == IF m <= n THEN m ELSE n

(* The capacities an attempt to resize may leave.                          *)
resize_dpipe(new_capacity) == {new_capacity} \cup (IF MayFail THEN {capacity} ELSE {})

GrowUnlimited(size) ==            \* fault: no minimum with max_capacity
    IF capacity < max_capacity /\ capacity - Len(pyp) < size
    THEN resize_dpipe(2 * Len(pyp) + 2 * size) ELSE {capacity}
CapacitiesForWrite(size) ==
    IF capacity < max_capacity /\ capacity - Len(pyp) < size
    THEN resize_dpipe(Lesser(max_capacity, 2 * Len(pyp) + 2 * size)) ELSE {capacity}

CapacitiesAfterRead(left) ==
    IF capacity > 3 * left THEN resize_dpipe(left) ELSE {capacity}

Broadcast(p, asleep, woken) == [u \in Threads |-> IF p[u] = asleep THEN woken ELSE p[u]]

(* A read that got something wakes the writers, a write the readers.       *)
WakeOneWriter ==                  \* fault: pthread_cond_signal
    {[pc EXCEPT ![u] = "write_woken"] : u \in At("write_asleep")}
        \cup (IF At("write_asleep") = {} THEN {pc} ELSE {})
WakeWriters == {Broadcast(pc, "write_asleep", "write_woken")}
WakeReaders == {Broadcast(pc, "read_asleep", "read_woken")}

Return(t, op, asked, ret, p) ==
    /\ pc' = [p EXCEPT ![t] = "idle"]
    /\ data' = [data EXCEPT ![t] = <<>>]
    /\ data_size' = [data_size EXCEPT ![t] = 0]
    /\ event' = [by |-> t, op |-> op, asked |-> asked, ret |-> ret]

Sleep(t, where, d, size) ==
    /\ pc' = [pc EXCEPT ![t] = where]
    /\ data' = [data EXCEPT ![t] = d]
    /\ data_size' = [data_size EXCEPT ![t] = size]
    /\ UNCHANGED <<state, event>>

-----------------------------------------------------------------------------
is_full_dpipe == Len(pyp) >= capacity
WriteMustWait == ~is_closed /\ is_full_dpipe /\ capacity = max_capacity

(* write_to_sync_pipe after its wait loop.                                 *)
FinishWrite(t, d) ==
    \/ /\ is_closed
       /\ Return(t, "write", Len(d), <<>>, pc)
       /\ UNCHANGED state
    \/ /\ ~is_closed
       /\ \E c \in CapacitiesForWrite(Len(d)) :
             LET written == SubSeq(d, 1, Lesser(Len(d), c - Len(pyp)))
             IN  /\ capacity' = c
                 /\ pyp' = pyp \o written
                 /\ \E p \in IF written # <<>> THEN WakeReaders ELSE {pc} :
                       Return(t, "write", Len(d), written, p)
       /\ UNCHANGED <<max_capacity, is_closed>>

write_to_sync_pipe(t, d) ==
    /\ pc[t] = "idle"
    /\ \/ WriteMustWait /\ Sleep(t, "write_asleep", d, 0)
       \/ ~WriteMustWait /\ FinishWrite(t, d)

WriteWithoutLoop(t) ==            \* fault: `if' instead of `while'
    pc[t] = "write_woken" /\ FinishWrite(t, data[t])
resume_write(t) ==
    /\ pc[t] = "write_woken"
    /\ \/ WriteMustWait /\ Sleep(t, "write_asleep", data[t], 0)
       \/ ~WriteMustWait /\ FinishWrite(t, data[t])

-----------------------------------------------------------------------------
ReadMustWait == ~is_closed /\ pyp = <<>>

(* read_from_sync_pipe after its wait loop.                                *)
FinishRead(t, size) ==
    LET n == Lesser(size, Len(pyp))
    IN  /\ pyp' = SubSeq(pyp, n + 1, Len(pyp))
        /\ capacity' \in CapacitiesAfterRead(Len(pyp) - n)
        /\ \E p \in IF ~is_closed /\ n > 0 THEN WakeWriters ELSE {pc} :
              Return(t, "read", size, SubSeq(pyp, 1, n), p)
        /\ UNCHANGED <<max_capacity, is_closed>>

read_from_sync_pipe(t, size) ==
    /\ pc[t] = "idle"
    /\ \/ ReadMustWait /\ Sleep(t, "read_asleep", <<>>, size)
       \/ ~ReadMustWait /\ FinishRead(t, size)

resume_read(t) ==
    /\ pc[t] = "read_woken"
    /\ \/ ReadMustWait /\ Sleep(t, "read_asleep", <<>>, data_size[t])
       \/ ~ReadMustWait /\ FinishRead(t, data_size[t])

-----------------------------------------------------------------------------
CloseWakesWriters ==              \* fault: readers are left asleep
    /\ ~is_closed
    /\ is_closed' = TRUE
    /\ pc' = Broadcast(pc, "write_asleep", "write_woken")
    /\ UNCHANGED <<pyp, capacity, max_capacity, data, data_size, event>>
close_sync_pipe ==
    /\ ~is_closed                 \* closing twice changes nothing
    /\ is_closed' = TRUE
    /\ pc' = Broadcast(Broadcast(pc, "write_asleep", "write_woken"), "read_asleep", "read_woken")
    /\ UNCHANGED <<pyp, capacity, max_capacity, data, data_size, event>>

SpuriousWakeup(t) ==
    /\ \/ pc[t] = "write_asleep" /\ pc' = [pc EXCEPT ![t] = "write_woken"]
       \/ pc[t] = "read_asleep" /\ pc' = [pc EXCEPT ![t] = "read_woken"]
    /\ UNCHANGED <<state, data, data_size, event>>

-----------------------------------------------------------------------------
Next ==
    \/ \E t \in Threads :
          \/ \E d \in Data : write_to_sync_pipe(t, d)
          \/ resume_write(t)
          \/ \E size \in Sizes : read_from_sync_pipe(t, size)
          \/ resume_read(t)
          \/ SpuriousWakeup(t)
    \/ close_sync_pipe

Spec == Init /\ [][Next]_vars

(* Whoever was woken gets sync_pipe_lock in the end.  Nobody has to call.  *)
FairSpec == Spec /\ \A t \in Threads : WF_vars(resume_write(t)) /\ WF_vars(resume_read(t))

-----------------------------------------------------------------------------
(* Types, and the sizes that belong together: "the capacity of pyp at any  *)
(* instance may not exceed max_capacity", nor the bytes the capacity.      *)
TypeOK ==
    /\ pyp \in Seq(Bytes)
    /\ capacity \in Nat /\ max_capacity \in MaxCapacities /\ is_closed \in BOOLEAN
    /\ Len(pyp) <= capacity /\ capacity <= max_capacity
    /\ pc \in [Threads -> Places]
    /\ data \in [Threads -> Data \cup {<<>>}]
    /\ data_size \in [Threads -> Sizes \cup {0}]
    /\ \A t \in At("write_asleep") \cup At("write_woken") : data[t] \in Data
    /\ \A t \in At("read_asleep") \cup At("read_woken") : data_size[t] \in Sizes

(* Nobody is left asleep when there is something for him, however writers, *)
(* readers, growing, shrinking and failures to do so follow one another:   *)
(* a sleeping reader means an open and empty pipe, a sleeping writer an    *)
(* open one that is full and cannot grow.  So, unless max_capacity is 0,   *)
(* readers and writers never sleep at the same time.                       *)
SleepersHaveAReason ==
    /\ At("read_asleep") # {} => ReadMustWait
    /\ At("write_asleep") # {} => WriteMustWait

(* Bytes come out once and in the order they went in, some of each write   *)
(* and never more than max_capacity at a time; a read returns nothing only *)
(* when the pipe is closed and empty.                                      *)
Abstract == INSTANCE ByteStream WITH stream <- pyp, limit <- max_capacity, closed <- is_closed
ImplementsByteStream == Abstract!Spec

(* A write that has something to write and returns 0, which callers take   *)
(* for a closed pipe, has found it closed, or the memory has failed: the   *)
(* pipe is full below max_capacity, where no write waits.                  *)
ZeroMeansClosedOrFailed ==
    [][LET e == event'
       IN  e.op = "write" /\ e.asked > 0 /\ e.ret = <<>> =>
             is_closed \/ (MayFail /\ capacity' = Len(pyp') /\ capacity' < max_capacity)]_event

(* After close everybody who was waiting returns.                          *)
CloseReleasesWaiters ==
    \A t \in Threads : is_closed /\ pc[t] # "idle" ~> pc[t] = "idle"
==============================================================================
