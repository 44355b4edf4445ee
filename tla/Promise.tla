------------------------------- MODULE Promise -------------------------------
(***************************************************************************)
(* src/src/promise.c: a result that threads wait for, and one callback.    *)
(* Each function is one critical section of promise_lock, up to its sleep  *)
(* on promise_wait; the callback is run after promise_lock was released,   *)
(* by whoever came second: the thread that set the result or the one that  *)
(* set the callback.                                                       *)
(***************************************************************************)
EXTENDS Integers, FiniteSets

CONSTANTS Threads,
          Results,        \* the output pointers, NULL for a cancelled job
          Callbacks,      \* the promise_completion_callbacks
          NULL

ASSUME PromiseAssumption == NULL \notin Callbacks

VARIABLES
    output_result_ready, output_result, promised_callback,
    pc,                   \* where each thread is in a function of the promise
    pcc_to_execute,       \* the callback each thread has decided to run
    runs,                 \* how often each callback was run
    answers               \* what get_promised_result has returned so far

promise == <<output_result_ready, output_result, promised_callback>>
vars == <<promise, pc, pcc_to_execute, runs, answers>>

Init ==
    /\ output_result_ready = FALSE
    /\ output_result = NULL
    /\ promised_callback = NULL
    /\ pc = [t \in Threads |-> "idle"]
    /\ pcc_to_execute = [t \in Threads |-> NULL]
    /\ runs = [cb \in Callbacks |-> 0]
    /\ answers = {}

-----------------------------------------------------------------------------
(* t is about to run callback cb, everybody asleep has been woken.         *)
BroadcastAndRun(t, cb) ==
    pc' = [u \in Threads |-> IF u = t /\ cb # NULL THEN "calling"
                             ELSE IF pc[u] = "asleep" THEN "woken" ELSE pc[u]]
SignalAndRun(t, cb) ==            \* fault: one waiter is woken
    LET asleep == {u \in Threads : pc[u] = "asleep"}
        one == IF asleep = {} THEN t ELSE CHOOSE u \in asleep : TRUE
    IN  pc' = [u \in Threads |-> IF u = t /\ cb # NULL THEN "calling"
                                 ELSE IF u = one /\ u # t THEN "woken" ELSE pc[u]]

SetTwice(t, r) ==                 \* fault: a later result overwrites the first
    /\ pc[t] = "idle"
    /\ output_result' = r
    /\ output_result_ready' = TRUE
    /\ BroadcastAndRun(t, promised_callback)
    /\ pcc_to_execute' = [pcc_to_execute EXCEPT ![t] = promised_callback]
    /\ UNCHANGED <<promised_callback, runs, answers>>
SetAndSignal(t, r) ==
    /\ pc[t] = "idle" /\ ~output_result_ready
    /\ output_result' = r
    /\ output_result_ready' = TRUE
    /\ SignalAndRun(t, promised_callback)
    /\ pcc_to_execute' = [pcc_to_execute EXCEPT ![t] = promised_callback]
    /\ UNCHANGED <<promised_callback, runs, answers>>
set_promised_result(t, r) ==
    /\ pc[t] = "idle"
    /\ ~output_result_ready       \* or the call returns 0 and changes nothing
    /\ output_result' = r
    /\ output_result_ready' = TRUE
    /\ BroadcastAndRun(t, promised_callback)
    /\ pcc_to_execute' = [pcc_to_execute EXCEPT ![t] = promised_callback]
    /\ UNCHANGED <<promised_callback, runs, answers>>

get_promised_result(t) ==
    /\ pc[t] \in {"idle", "woken"}
    /\ \/ /\ ~output_result_ready
          /\ pc' = [pc EXCEPT ![t] = "asleep"]
          /\ UNCHANGED answers
       \/ /\ output_result_ready
          /\ pc' = [pc EXCEPT ![t] = "idle"]
          /\ answers' = answers \cup {output_result}
    /\ UNCHANGED <<promise, pcc_to_execute, runs>>

(* is_result_ready is read under the lock that stores the callback.        *)
CallbackTooLate(t, cb) ==         \* fault: a callback set after the result is not run
    /\ pc[t] = "idle"
    /\ promised_callback = NULL
    /\ promised_callback' = cb
    /\ UNCHANGED <<output_result_ready, output_result, pc, pcc_to_execute, runs, answers>>
set_promised_callback(t, cb) ==
    /\ pc[t] = "idle"
    /\ promised_callback = NULL   \* or the call returns 0 and changes nothing
    /\ promised_callback' = cb
    /\ IF output_result_ready
       THEN /\ pc' = [pc EXCEPT ![t] = "calling"]
            /\ pcc_to_execute' = [pcc_to_execute EXCEPT ![t] = cb]
       ELSE UNCHANGED <<pc, pcc_to_execute>>
    /\ UNCHANGED <<output_result_ready, output_result, runs, answers>>

(* The callback runs to its end, and the function returns.                 *)
RunAndStay(t) ==                  \* fault: the callback is run, and remains to be run
    /\ pc[t] = "calling"
    /\ runs' = [runs EXCEPT ![pcc_to_execute[t]] = @ + 1]
    /\ pc' = [pc EXCEPT ![t] = "idle"]
    /\ UNCHANGED <<promise, pcc_to_execute, answers>>
callback_function(t) ==
    /\ pc[t] = "calling"
    /\ runs' = [runs EXCEPT ![pcc_to_execute[t]] = @ + 1]
    /\ pc' = [pc EXCEPT ![t] = "idle"]
    /\ pcc_to_execute' = [pcc_to_execute EXCEPT ![t] = NULL]
    /\ UNCHANGED <<promise, answers>>

SpuriousWakeup(t) ==
    /\ pc[t] = "asleep"
    /\ pc' = [pc EXCEPT ![t] = "woken"]
    /\ UNCHANGED <<promise, pcc_to_execute, runs, answers>>

-----------------------------------------------------------------------------
Next ==
    \E t \in Threads :
        \/ \E r \in Results : set_promised_result(t, r)
        \/ get_promised_result(t)
        \/ \E cb \in Callbacks : set_promised_callback(t, cb)
        \/ callback_function(t)
        \/ SpuriousWakeup(t)

Spec == Init /\ [][Next]_vars

-----------------------------------------------------------------------------
(* Types; a thread has a callback in hand just when it is about to run it. *)
TypeOK ==
    /\ output_result_ready \in BOOLEAN
    /\ output_result \in Results \cup {NULL}
    /\ promised_callback \in Callbacks \cup {NULL}
    /\ pc \in [Threads -> {"idle", "asleep", "woken", "calling"}]
    /\ pcc_to_execute \in [Threads -> Callbacks \cup {NULL}]
    /\ \A t \in Threads : pcc_to_execute[t] # NULL <=> pc[t] = "calling"
    /\ runs \in [Callbacks -> Nat]
    /\ answers \subseteq Results

(* However the setting of the result and of callbacks race, the callback   *)
(* the promise has, and no other, is run once and by one thread as soon as *)
(* there is a result, and never before.                                    *)
Callers(cb) == {t \in Threads : pcc_to_execute[t] = cb}
CallbackRunsOnce ==
    \A cb \in Callbacks :
        IF output_result_ready /\ promised_callback = cb
        THEN \/ runs[cb] = 0 /\ \E t \in Threads : Callers(cb) = {t}
             \/ runs[cb] = 1 /\ Callers(cb) = {}
        ELSE runs[cb] = 0 /\ Callers(cb) = {}

(* No getter is left asleep when there is a result.                        *)
NobodySleepsOnAResult ==
    output_result_ready => \A t \in Threads : pc[t] # "asleep"

(* To those who share it a promise is a value given once, the same for all *)
(* who ask, with a callback that follows it.                               *)
Abstract == INSTANCE Future WITH
    value <- IF output_result_ready THEN {output_result} ELSE {},
    callback <- promised_callback
ImplementsFuture == Abstract!Spec
==============================================================================
