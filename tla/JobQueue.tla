------------------------------- MODULE JobQueue -------------------------------
(***************************************************************************)
(* src/src/job_queue.c: a queue of jobs that is one of two queues, chosen  *)
(* when it is made.  Made with max_capacity 0 it is a linked list through  *)
(* the jobs (SyncLLQueue), otherwise an array list (SyncQueue); each call  *)
(* is forwarded to the one or the other.                                   *)
(***************************************************************************)
EXTENDS Integers, Sequences, FiniteSets

CONSTANTS Threads, Jobs, NULL,
          UNBOUNDED,
          Capacities,     \* the max_capacity values job queues are made with
          Growth          \* what an expansion of the array list may add, 0 when it fails

JOB_QUEUE_AS_LINKEDLIST == 0

(* The union: the two queues share the variables that mean the same, and   *)
(* the linked list leaves the others as they were made.                    *)
VARIABLES qp, capacity, max_capacity, is_closed, q_empty_wait_thread_count,
          q_full_wait_thread_count, pc, arg, timeout, event

sq == INSTANCE SyncQueue WITH
    Values <- Jobs, MaxCapacities <- Capacities, MayResize <- FALSE,
    MaxItems <- Cardinality(Jobs)
lsq == INSTANCE SyncLLQueue WITH Values <- Jobs

LINKEDLIST_TYPE_JOB_QUEUE == max_capacity = JOB_QUEUE_AS_LINKEDLIST

BLOCKING == sq!BLOCKING
NON_BLOCKING == sq!NON_BLOCKING
TIMED == sq!TIMED
Timeouts == sq!Timeouts

initialize_job_queue == sq!Init   \* lsq!Init initializes its part in the same way

On(linked_list, array_list) ==
    IF LINKEDLIST_TYPE_JOB_QUEUE
    THEN linked_list /\ UNCHANGED <<capacity, max_capacity, q_full_wait_thread_count, arg>>
    ELSE array_list

-----------------------------------------------------------------------------
(* The calls, each from its beginning or from a wake-up on.  A linked list *)
(* takes the job at once, whatever the time limit.                         *)
push_job_queue(t, j, tmo) == On(lsq!push_sync_ll_queue(t, j), sq!push_sync_queue(t, j, tmo))
resume_push(t) == On(FALSE, sq!resume_push(t))

pop_job_queue(t, tmo) == On(lsq!pop_sync_ll_queue(t, tmo), sq!pop_sync_queue(t, tmo))
resume_pop(t) == On(lsq!resume_pop(t), sq!resume_pop(t))

close_job_queue == On(lsq!close_sync_ll_queue, sq!close_sync_queue)

is_empty_job_queue == qp = <<>>
get_threads_waiting_on_empty_job_queue == q_empty_wait_thread_count

WakeUp(t) == On(lsq!WakeUp(t), sq!SpuriousWakeup(t) \/ sq!TimeOut(t))

-----------------------------------------------------------------------------
TypeOK ==
    IF LINKEDLIST_TYPE_JOB_QUEUE THEN lsq!TypeOK /\ max_capacity \in Capacities ELSE sq!TypeOK
==============================================================================
