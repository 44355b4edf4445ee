------------------------------ MODULE SyncQueue ------------------------------
(***************************************************************************)
(* src/src/sync_queue.c: a monitor around an array list.  Every function   *)
(* holds q_lock from its first line to its last and gives it up only while *)
(* it sleeps on a condition variable, so one action is one critical        *)
(* section: a call up to its return or its first sleep, or a sleeper from  *)
(* the moment it owns q_lock again up to its return or its next sleep.     *)
(*                                                                         *)
(* External, modelled from its use here: the array list (expanding and     *)
(* shrinking are attempts), and pthread condition variables (a signal      *)
(* wakes one sleeper, sleepers may also wake for no reason, and a bounded  *)
(* wait may time out at any moment).                                       *)
(***************************************************************************)
EXTENDS Integers, Sequences, FiniteSets

CONSTANTS Threads,        \* the threads that may call the queue
          Values,         \* the data pointers that are pushed
          NULL,           \* the null pointer, also "no call in progress"
          UNBOUNDED,      \* UNBOUNDED_SYNC_QUEUE, the largest cy_uint
          MaxCapacities,  \* the max_capacity values callers give the queue
          MayResize,      \* whether anyone calls update_max_capacity_sync_queue
          Growth,         \* by how much one expansion may grow the array list; 0 is a failed one
          MaxItems        \* bound: no push starts with this many items queued

ASSUME QueueAssumption ==
    /\ IsFiniteSet(Threads)
    /\ NULL \notin Values
    /\ UNBOUNDED \in Nat
    /\ MaxCapacities \subseteq Nat /\ MaxCapacities # {}
    /\ MayResize \in BOOLEAN
    /\ Growth \subseteq Nat /\ Growth # {}
    /\ MaxItems \in Nat

BLOCKING     == "BLOCKING"       \* wait for ever
NON_BLOCKING == "NON_BLOCKING"   \* wait never
TIMED        == "TIMED"          \* any timeout in between
Timeouts     == {BLOCKING, TIMED, NON_BLOCKING}

VARIABLES
    qp,                          \* the elements of the array list, oldest first
    capacity,                    \* how many elements its memory can hold
    max_capacity,
    is_closed,
    q_empty_wait_thread_count,   \* the library's own count of waiting consumers
    q_full_wait_thread_count,    \* and of waiting producers
    pc,                          \* where each thread is in push or pop
    arg,                         \* data_p of each push in progress
    timeout,                     \* the timeout of each call in progress
    event                        \* the last call that returned: [by, op, ret]

state == <<qp, capacity, max_capacity, is_closed>>
counts == <<q_empty_wait_thread_count, q_full_wait_thread_count>>
calls == <<arg, timeout>>
vars == <<qp, capacity, max_capacity, is_closed,
          q_empty_wait_thread_count, q_full_wait_thread_count,
          pc, arg, timeout, event>>

(* A sleeper is "_asleep" on its condition variable, then "_woken" or      *)
(* "_timedout" until it owns q_lock again.                                 *)
PushWaits == {"push_asleep", "push_woken", "push_timedout"}
PopWaits  == {"pop_asleep", "pop_woken", "pop_timedout"}
Places    == {"idle"} \cup PushWaits \cup PopWaits
In(L)     == {t \in Threads : pc[t] \in L}
At(l)     == In({l})

Init ==
    /\ qp = <<>>
    /\ capacity = 0
    /\ max_capacity \in MaxCapacities
    /\ is_closed = FALSE
    /\ q_empty_wait_thread_count = 0
    /\ q_full_wait_thread_count = 0
    /\ pc = [t \in Threads |-> "idle"]
    /\ arg = [t \in Threads |-> NULL]
    /\ timeout = [t \in Threads |-> BLOCKING]
    /\ event = [by |-> NULL, op |-> "none", ret |-> NULL]

-----------------------------------------------------------------------------
(* The array list.                                                         *)

is_full_arraylist == Len(qp) >= capacity

CrossedByOne ==                   \* fault: off by one at the limit
    max_capacity # UNBOUNDED /\ capacity > max_capacity

has_sync_queue_capacity_crossed_max_capacity_limits ==
    max_capacity # UNBOUNDED /\ capacity >= max_capacity

(* The capacities push may find after its attempt to expand.               *)
CapacitiesForPush ==
    IF is_full_arraylist /\ ~has_sync_queue_capacity_crossed_max_capacity_limits
    THEN {capacity + g : g \in Growth}
    ELSE {capacity}

(* The capacities pop may leave, n elements being left.                    *)
CapacitiesAfterPop(n) ==
    IF capacity > 3 * n THEN n..capacity ELSE {capacity}

-----------------------------------------------------------------------------
(* Condition variables: the program counters a wake-up may leave.          *)

Signal(asleep, woken) ==
    IF At(asleep) = {} THEN {pc}
    ELSE {[pc EXCEPT ![u] = woken] : u \in At(asleep)}

Broadcast(asleep, woken, p) ==
    [u \in Threads |-> IF p[u] = asleep THEN woken ELSE p[u]]

(* push signals q_empty_wait, pop signals q_full_wait, each only when the  *)
(* library's own count says that somebody is waiting.                      *)
SignalNoConsumer == {pc}          \* fault: push wakes nobody
SignalConsumer ==
    IF q_empty_wait_thread_count > 0 THEN Signal("pop_asleep", "pop_woken") ELSE {pc}

SignalNoProducer == {pc}          \* fault: pop wakes nobody
SignalProducer ==
    IF ~is_closed /\ q_full_wait_thread_count > 0
    THEN Signal("push_asleep", "push_woken") ELSE {pc}

Return(t, op, ret, p) ==
    /\ pc' = [p EXCEPT ![t] = "idle"]
    /\ arg' = [arg EXCEPT ![t] = NULL]
    /\ timeout' = [timeout EXCEPT ![t] = BLOCKING]
    /\ event' = [by |-> t, op |-> op, ret |-> ret]

Sleep(t, where, v, tmo) ==
    /\ pc' = [pc EXCEPT ![t] = where]
    /\ arg' = [arg EXCEPT ![t] = v]
    /\ timeout' = [timeout EXCEPT ![t] = tmo]
    /\ UNCHANGED <<state, event>>

-----------------------------------------------------------------------------
(* push_sync_queue                                                         *)

PushMustWait ==
    /\ ~is_closed
    /\ is_full_arraylist
    /\ has_sync_queue_capacity_crossed_max_capacity_limits

(* Everything after the wait loop.                                         *)
FinishPush(t, v) ==
    \/ /\ is_closed
       /\ Return(t, "push", NULL, pc)
       /\ UNCHANGED state
    \/ /\ ~is_closed
       /\ \E c \in CapacitiesForPush :
             /\ capacity' = c
             /\ \/ /\ Len(qp) < c
                   /\ qp' = Append(qp, v)
                   /\ \E p \in SignalConsumer : Return(t, "push", v, p)
                \/ /\ Len(qp) >= c
                   /\ UNCHANGED qp
                   /\ Return(t, "push", NULL, pc)
       /\ UNCHANGED <<max_capacity, is_closed>>

push_sync_queue(t, v, tmo) ==
    /\ pc[t] = "idle"
    /\ Len(qp) < MaxItems
    /\ UNCHANGED q_empty_wait_thread_count
    /\ \/ /\ PushMustWait /\ tmo # NON_BLOCKING
          /\ Sleep(t, "push_asleep", v, tmo)
          /\ q_full_wait_thread_count' = q_full_wait_thread_count + 1
       \/ /\ ~PushMustWait \/ tmo = NON_BLOCKING
          /\ FinishPush(t, v)
          /\ UNCHANGED q_full_wait_thread_count

(* The same call from its wake-up on.                                      *)
resume_push_counted_once(t) ==    \* fault: counted before the loop, uncounted inside it
    /\ UNCHANGED q_empty_wait_thread_count
    /\ q_full_wait_thread_count' = q_full_wait_thread_count - 1
    /\ \/ /\ pc[t] = "push_woken" /\ PushMustWait
          /\ Sleep(t, "push_asleep", arg[t], timeout[t])
       \/ /\ pc[t] = "push_timedout" \/ (pc[t] = "push_woken" /\ ~PushMustWait)
          /\ FinishPush(t, arg[t])
resume_push(t) ==
    /\ UNCHANGED q_empty_wait_thread_count
    /\ \/ /\ pc[t] = "push_woken" /\ PushMustWait
          /\ Sleep(t, "push_asleep", arg[t], timeout[t])
          /\ UNCHANGED q_full_wait_thread_count
       \/ /\ pc[t] = "push_timedout" \/ (pc[t] = "push_woken" /\ ~PushMustWait)
          /\ FinishPush(t, arg[t])
          /\ q_full_wait_thread_count' = q_full_wait_thread_count - 1

-----------------------------------------------------------------------------
(* pop_sync_queue                                                          *)

PopMustWait == ~is_closed /\ qp = <<>>

(* Everything after the wait loop.                                         *)
FinishPopClosedIsEmpty(t) ==      \* fault: a closed queue is taken for an empty one
    /\ UNCHANGED <<qp, capacity, max_capacity, is_closed>>
    /\ is_closed \/ qp = <<>>
    /\ Return(t, "pop", NULL, pc)
FinishPop(t) ==
    /\ UNCHANGED <<max_capacity, is_closed>>
    /\ \/ /\ qp # <<>>
          /\ qp' = Tail(qp)
          /\ capacity' \in CapacitiesAfterPop(Len(qp) - 1)
          /\ \E p \in SignalProducer : Return(t, "pop", Head(qp), p)
       \/ /\ qp = <<>>
          /\ UNCHANGED qp
          /\ capacity' \in CapacitiesAfterPop(0)
          /\ Return(t, "pop", NULL, pc)

pop_sync_queue(t, tmo) ==
    /\ pc[t] = "idle"
    /\ UNCHANGED q_full_wait_thread_count
    /\ \/ /\ PopMustWait /\ tmo # NON_BLOCKING
          /\ Sleep(t, "pop_asleep", NULL, tmo)
          /\ q_empty_wait_thread_count' = q_empty_wait_thread_count + 1
       \/ /\ ~PopMustWait \/ tmo = NON_BLOCKING
          /\ FinishPop(t)
          /\ UNCHANGED q_empty_wait_thread_count

(* The same call from its wake-up on.                                      *)
resume_pop(t) ==
    /\ UNCHANGED q_full_wait_thread_count
    /\ \/ /\ pc[t] = "pop_woken" /\ PopMustWait
          /\ Sleep(t, "pop_asleep", NULL, timeout[t])
          /\ UNCHANGED q_empty_wait_thread_count
       \/ /\ pc[t] = "pop_timedout" \/ (pc[t] = "pop_woken" /\ ~PopMustWait)
          /\ FinishPop(t)
          /\ q_empty_wait_thread_count' = q_empty_wait_thread_count - 1

-----------------------------------------------------------------------------
(* close_sync_queue, update_max_capacity_sync_queue and the environment    *)

WakeProducers(p) ==
    IF q_full_wait_thread_count > 0 THEN Broadcast("push_asleep", "push_woken", p) ELSE p
WakeConsumers(p) ==
    IF q_empty_wait_thread_count > 0 THEN Broadcast("pop_asleep", "pop_woken", p) ELSE p

CloseWakesProducers ==            \* fault: consumers are left asleep
    /\ ~is_closed
    /\ pc' = WakeProducers(pc)
    /\ is_closed' = TRUE
    /\ UNCHANGED <<qp, capacity, max_capacity, counts, calls, event>>
close_sync_queue ==
    /\ ~is_closed                 \* closing twice changes nothing
    /\ pc' = WakeConsumers(WakeProducers(pc))
    /\ is_closed' = TRUE
    /\ UNCHANGED <<qp, capacity, max_capacity, counts, calls, event>>

update_max_capacity_sync_queue(m) ==
    /\ max_capacity' = m
    /\ pc' = IF is_full_arraylist /\ m > max_capacity THEN WakeProducers(pc) ELSE pc
    /\ UNCHANGED <<qp, capacity, is_closed, counts, calls, event>>

(* A wait with a timeout ends with an error, maybe after it has used up a  *)
(* signal.                                                                 *)
TimeOut(t) ==
    /\ timeout[t] = TIMED
    /\ \/ pc[t] \in {"push_asleep", "push_woken"} /\ pc' = [pc EXCEPT ![t] = "push_timedout"]
       \/ pc[t] \in {"pop_asleep", "pop_woken"} /\ pc' = [pc EXCEPT ![t] = "pop_timedout"]
    /\ UNCHANGED <<state, counts, calls, event>>

(* A wait ends although nobody signalled.                                  *)
SpuriousWakeup(t) ==
    /\ \/ pc[t] = "push_asleep" /\ pc' = [pc EXCEPT ![t] = "push_woken"]
       \/ pc[t] = "pop_asleep" /\ pc' = [pc EXCEPT ![t] = "pop_woken"]
    /\ UNCHANGED <<state, counts, calls, event>>

-----------------------------------------------------------------------------
Call(t) ==
    \E tmo \in Timeouts :
        \/ \E v \in Values : push_sync_queue(t, v, tmo)
        \/ pop_sync_queue(t, tmo)

Resize == MayResize /\ \E m \in MaxCapacities : update_max_capacity_sync_queue(m)

Next ==
    \/ \E t \in Threads : \/ Call(t)
                          \/ resume_push(t)
                          \/ resume_pop(t)
                          \/ TimeOut(t)
                          \/ SpuriousWakeup(t)
    \/ close_sync_queue
    \/ Resize

Spec == Init /\ [][Next]_vars

(* A woken or timed-out sleeper gets q_lock in the end: critical sections  *)
(* are short and end.  Nobody has to call, to close or to resize.          *)
FairSpec == Spec /\ \A t \in Threads : WF_vars(resume_push(t)) /\ WF_vars(resume_pop(t))

-----------------------------------------------------------------------------
(* Every variable has its type: the two counts of waiters, uint64_t in the *)
(* code, never go below zero.                                              *)
TypeOK ==
    /\ qp \in Seq(Values)
    /\ capacity \in Nat
    /\ max_capacity \in MaxCapacities
    /\ is_closed \in BOOLEAN
    /\ q_empty_wait_thread_count \in Nat
    /\ q_full_wait_thread_count \in Nat
    /\ pc \in [Threads -> Places]
    /\ arg \in [Threads -> Values \cup {NULL}]
    /\ \A t \in In(PushWaits) : arg[t] \in Values
    /\ timeout \in [Threads -> Timeouts]

(* The library's counts of waiters are exact whenever q_lock is free, with *)
(* sleepers that were woken or timed out but have not run yet included:    *)
(* executors read them to decide whether to start a worker.                *)
CountsMatchWaiters ==
    /\ q_empty_wait_thread_count = Cardinality(In(PopWaits))
    /\ q_full_wait_thread_count = Cardinality(In(PushWaits))

(* The array list never holds more than it has memory for, and expansion   *)
(* carries the capacity beyond max_capacity by less than one growth step.  *)
CapacityBound ==
    /\ Len(qp) <= capacity
    /\ max_capacity # UNBOUNDED /\ capacity > max_capacity
         => \E g \in Growth : capacity - g < max_capacity

(* No consumer sleeps while there is an element nobody is coming for: if   *)
(* one is asleep the queue is open and has at most as many elements as     *)
(* consumers that are no longer asleep but have not run yet.  One lost or  *)
(* misdirected signal in push, a signal used up by a wait that timed out   *)
(* and then takes nothing, or a close that forgets a waiter, breaks it.    *)
ComingToPop == {"pop_woken", "pop_timedout"}
NoStrandedConsumer ==
    At("pop_asleep") # {} =>
        /\ ~is_closed
        /\ Len(qp) <= Cardinality(In(ComingToPop))

(* The same for producers: if one is asleep then every slot left below     *)
(* max_capacity has a producer already coming for it.  It is the property  *)
(* the single signal of a pop relies on, and holds while nobody raises     *)
(* max_capacity and expansions succeed.                                    *)
ComingToPush == {"push_woken", "push_timedout"}
NoStrandedProducer ==
    At("push_asleep") # {} =>
        /\ ~is_closed
        /\ max_capacity - Len(qp) <= Cardinality(In(ComingToPush))

(* Whatever sleeping, waking and resizing goes on, callers see a closable  *)
(* FIFO: a pop returns the oldest element and to one caller only, a failed *)
(* push leaves nothing behind, a push after close fails, and a pop returns *)
(* nothing only from an empty queue.                                       *)
Abstract == INSTANCE ClosableQueue WITH items <- qp, closed <- is_closed, Distinct <- FALSE
ImplementsClosableQueue == Abstract!Spec

(* After close everybody who was waiting returns.                          *)
CloseReleasesWaiters ==
    \A t \in Threads : is_closed /\ pc[t] # "idle" ~> pc[t] = "idle"

-----------------------------------------------------------------------------
(* What comments of the library say, and the code does not do.             *)

(* "if the max_capacity increased, then we wake up all of the pushers      *)
(* waiting for the queue being full": no producer is left asleep with a    *)
(* slot of the enlarged queue that no other producer is coming for.        *)
IncreaseWakesPushers ==
    [][max_capacity' > max_capacity =>
         At("push_asleep")' = {} \/ max_capacity' - Len(qp') <= Cardinality(In(ComingToPush)')]_vars
==============================================================================
