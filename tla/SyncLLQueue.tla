----------------------------- MODULE SyncLLQueue -----------------------------
(***************************************************************************)
(* src/src/sync_ll_queue.c: the queue of SyncQueue built on a linked list. *)
(* It has no capacity, so a push never waits; the link is part of the      *)
(* element, so an element that is in the list is not inserted again.       *)
(*                                                                         *)
(* External, modelled from its use here: the intrusive list, and pthread   *)
(* condition variables, as in SyncQueue.                                   *)
(***************************************************************************)
EXTENDS Integers, Sequences, FiniteSets

CONSTANTS Threads,        \* the threads that may call the queue
          Values,         \* the elements that are pushed
          NULL            \* the null pointer

ASSUME ListQueueAssumption == IsFiniteSet(Threads) /\ NULL \notin Values

BLOCKING     == "BLOCKING"
NON_BLOCKING == "NON_BLOCKING"
TIMED        == "TIMED"
Timeouts     == {BLOCKING, TIMED, NON_BLOCKING}

VARIABLES
    qp,                          \* the elements of the list, oldest first
    is_closed,
    q_empty_wait_thread_count,
    pc,                          \* where each thread is in pop
    timeout,                     \* the timeout of each pop in progress
    event                        \* the last call that returned: [by, op, ret]

state == <<qp, is_closed>>
vars == <<state, q_empty_wait_thread_count, pc, timeout, event>>

PopWaits == {"asleep", "woken", "timedout"}
Places   == {"idle"} \cup PopWaits
In(L)    == {t \in Threads : pc[t] \in L}

Init ==
    /\ qp = <<>>
    /\ is_closed = FALSE
    /\ q_empty_wait_thread_count = 0
    /\ pc = [t \in Threads |-> "idle"]
    /\ timeout = [t \in Threads |-> BLOCKING]
    /\ event = [by |-> NULL, op |-> "none", ret |-> NULL]

-----------------------------------------------------------------------------
Linked(v) == \E i \in DOMAIN qp : qp[i] = v

SignalIfListWasEmpty ==           \* fault: only the first element wakes a consumer
    IF qp = <<>> /\ In({"asleep"}) # {} THEN {[pc EXCEPT ![u] = "woken"] : u \in In({"asleep"})}
    ELSE {pc}
Signal ==
    IF q_empty_wait_thread_count > 0 /\ In({"asleep"}) # {}
    THEN {[pc EXCEPT ![u] = "woken"] : u \in In({"asleep"})}
    ELSE {pc}

PushUnchecked(t, v) ==            \* fault: an element that is still linked is inserted again
    /\ pc[t] = "idle"
    /\ \/ /\ is_closed
          /\ event' = [by |-> t, op |-> "push", ret |-> NULL]
          /\ UNCHANGED <<qp, pc>>
       \/ /\ ~is_closed
          /\ qp' = Append(qp, v)
          /\ pc' \in Signal
          /\ event' = [by |-> t, op |-> "push", ret |-> v]
    /\ UNCHANGED <<is_closed, q_empty_wait_thread_count, timeout>>
push_sync_ll_queue(t, v) ==
    /\ pc[t] = "idle"
    /\ \/ /\ is_closed \/ Linked(v)
          /\ event' = [by |-> t, op |-> "push", ret |-> NULL]
          /\ UNCHANGED <<qp, pc>>
       \/ /\ ~is_closed /\ ~Linked(v)
          /\ qp' = Append(qp, v)
          /\ pc' \in Signal
          /\ event' = [by |-> t, op |-> "push", ret |-> v]
    /\ UNCHANGED <<is_closed, q_empty_wait_thread_count, timeout>>

-----------------------------------------------------------------------------
PopMustWait == ~is_closed /\ qp = <<>>

Sleep(t, tmo) ==
    /\ pc' = [pc EXCEPT ![t] = "asleep"]
    /\ timeout' = [timeout EXCEPT ![t] = tmo]
    /\ UNCHANGED <<state, event>>

(* Everything after the wait loop.                                         *)
FinishPop(t) ==
    /\ pc' = [pc EXCEPT ![t] = "idle"]
    /\ timeout' = [timeout EXCEPT ![t] = BLOCKING]
    /\ UNCHANGED is_closed
    /\ \/ /\ qp # <<>>
          /\ qp' = Tail(qp)
          /\ event' = [by |-> t, op |-> "pop", ret |-> Head(qp)]
       \/ /\ qp = <<>>
          /\ UNCHANGED qp
          /\ event' = [by |-> t, op |-> "pop", ret |-> NULL]

pop_sync_ll_queue(t, tmo) ==
    /\ pc[t] = "idle"
    /\ \/ /\ PopMustWait /\ tmo # NON_BLOCKING
          /\ Sleep(t, tmo)
          /\ q_empty_wait_thread_count' = q_empty_wait_thread_count + 1
       \/ /\ ~PopMustWait \/ tmo = NON_BLOCKING
          /\ FinishPop(t)
          /\ UNCHANGED q_empty_wait_thread_count

(* The same call from its wake-up on.                                      *)
resume_pop(t) ==
    \/ /\ pc[t] = "woken" /\ PopMustWait
       /\ Sleep(t, timeout[t])
       /\ UNCHANGED q_empty_wait_thread_count
    \/ /\ pc[t] = "timedout" \/ (pc[t] = "woken" /\ ~PopMustWait)
       /\ FinishPop(t)
       /\ q_empty_wait_thread_count' = q_empty_wait_thread_count - 1

-----------------------------------------------------------------------------
close_sync_ll_queue ==
    /\ ~is_closed                 \* closing twice changes nothing
    /\ pc' = IF q_empty_wait_thread_count > 0
             THEN [u \in Threads |-> IF pc[u] = "asleep" THEN "woken" ELSE pc[u]]
             ELSE pc
    /\ is_closed' = TRUE
    /\ UNCHANGED <<qp, q_empty_wait_thread_count, timeout, event>>

(* Any wait ends for no reason; a wait with a timeout ends with an error,  *)
(* maybe after it has used up a signal.                                    *)
WakeUp(t) ==
    /\ \/ /\ pc[t] = "asleep"
          /\ pc' = [pc EXCEPT ![t] = "woken"]
       \/ /\ timeout[t] = TIMED /\ pc[t] \in {"asleep", "woken"}
          /\ pc' = [pc EXCEPT ![t] = "timedout"]
    /\ UNCHANGED <<state, q_empty_wait_thread_count, timeout, event>>

-----------------------------------------------------------------------------
Next ==
    \/ \E t \in Threads : \/ \E v \in Values : push_sync_ll_queue(t, v)
                          \/ \E tmo \in Timeouts : pop_sync_ll_queue(t, tmo)
                          \/ resume_pop(t)
                          \/ WakeUp(t)
    \/ close_sync_ll_queue

Spec == Init /\ [][Next]_vars

-----------------------------------------------------------------------------
(* Types, and the library's count of waiters is exact whenever q_lock is   *)
(* free: executors read it to decide whether to start a worker.            *)
TypeOK ==
    /\ qp \in Seq(Values)
    /\ is_closed \in BOOLEAN
    /\ q_empty_wait_thread_count = Cardinality(In(PopWaits))
    /\ pc \in [Threads -> Places]
    /\ timeout \in [Threads -> Timeouts]

(* No consumer sleeps while there is an element nobody is coming for.      *)
Coming == {"woken", "timedout"}
NoStrandedConsumer ==
    In({"asleep"}) # {} =>
        /\ ~is_closed
        /\ Len(qp) <= Cardinality(In(Coming))

(* Callers see the same closable FIFO the array queue gives them, except   *)
(* that an element is never in it twice: pushing one that is still linked  *)
(* fails and leaves the list as it was.                                    *)
Abstract == INSTANCE ClosableQueue WITH items <- qp, closed <- is_closed, Distinct <- TRUE
ImplementsClosableQueue == Abstract!Spec
==============================================================================
