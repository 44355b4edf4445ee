------------------------------- MODULE Executor -------------------------------
(***************************************************************************)
(* src/src/executor.c with src/src/worker.c: clients submit jobs to a job  *)
(* queue, detached worker threads execute them, controllers shut the       *)
(* executor down, wait for its workers and delete it.                      *)
(*                                                                         *)
(* The job queue is JobQueue.  A step is one critical section of           *)
(* shutdown_mutex, of active_worker_count_mutex or of the queue, or one    *)
(* stretch of a thread's own code between two of them.  The function of a  *)
(* job and the callbacks terminate and do not call the executor.           *)
(***************************************************************************)
EXTENDS Integers, Sequences, FiniteSets

CONSTANTS Submitters,          \* threads that call submit_job_executor
          Controllers,         \* threads that shut down, wait and delete
          Workers,             \* the threads the operating system can start
          Jobs, NULL,
          type,                \* FIXED_THREAD_COUNT_EXECUTOR or CACHED_THREAD_POOL_EXECUTOR
          worker_count_limit,
          QueueCapacities,     \* what max_job_queue_capacity may be, 0 for a linked list
          UNBOUNDED,           \* the capacity that is no limit
          Growth,              \* what an expansion of the job queue may add, 0 when it fails
          MayFail              \* whether new_job and pthread_create may fail

FIXED_THREAD_COUNT_EXECUTOR == "FIXED"
CACHED_THREAD_POOL_EXECUTOR == "CACHED"

Threads == Submitters \cup Controllers \cup Workers

ASSUME ExecutorAssumption ==
    /\ IsFiniteSet(Submitters) /\ IsFiniteSet(Controllers) /\ IsFiniteSet(Workers)
    /\ Submitters \cap Controllers = {}
    /\ (Submitters \cup Controllers) \cap Workers = {}
    /\ IsFiniteSet(Jobs) /\ NULL \notin Jobs
    /\ type \in {FIXED_THREAD_COUNT_EXECUTOR, CACHED_THREAD_POOL_EXECUTOR}
    /\ worker_count_limit \in 1..Cardinality(Workers)
    /\ QueueCapacities \subseteq Nat /\ QueueCapacities # {} /\ UNBOUNDED \in Nat
    /\ Growth \subseteq Nat /\ Growth # {}
    /\ MayFail \in BOOLEAN

VARIABLES
    \* the job queue, see JobQueue
    qp, capacity, max_capacity, is_closed,
    q_empty_wait_thread_count, q_full_wait_thread_count, pc, arg, timeout, event,
    \* struct executor
    active_worker_count, submitters_count, shutdown_requested,
    freed,            \* delete_executor has freed the structure
    \* the jobs
    job_state,        \* "none" before new_job, "REJECTED" when it was not queued
    result,           \* what promise_for_output holds
    \* the threads
    stage,            \* where each thread is in executor.c and worker.c
    holds,            \* the job each thread submits, executes or discards
    call,             \* the call each controller is in
    returned          \* the last call that returned to each controller

queue == <<qp, capacity, max_capacity, is_closed, q_empty_wait_thread_count,
           q_full_wait_thread_count, pc, arg, timeout, event>>
executor == <<active_worker_count, submitters_count, shutdown_requested, freed>>
jobs == <<job_state, result>>
control == <<call, returned>>
vars == <<queue, executor, jobs, stage, holds, control>>

job_q == INSTANCE JobQueue WITH Capacities <- QueueCapacities

(* The worker of a FIXED executor waits for a job for ever, the worker of  *)
(* a CACHED one leaves after a while.                                      *)
empty_job_queue_wait_time_out ==
    IF type = FIXED_THREAD_COUNT_EXECUTOR THEN job_q!BLOCKING ELSE job_q!TIMED

SubmitterStages == {"outside", "submitting", "counting", "looking", "creating",
                    "starting", "undoing", "leaving"}
WorkerStages == {"unborn", "start_up", "dequeuing", "dequeued", "running", "clean_up"}
ControllerStages == {"outside", "submitters_asleep", "submitters_woken",
                     "workers_asleep", "workers_check",
                     "discarding", "discard_pop", "cancelling", "freeing"}
Calls == {"none", "shutdown", "shutdown_immediately", "wait", "delete"}
OnStage(T, S) == {t \in T : stage[t] \in S}

(* The executor new_executor returns: a FIXED one has started its workers, *)
(* all of them unless a thread could not be created.                       *)
Init ==
    /\ job_q!initialize_job_queue
    /\ submitters_count = 0
    /\ shutdown_requested = FALSE
    /\ freed = FALSE
    /\ job_state = [j \in Jobs |-> "none"]
    /\ result = [j \in Jobs |-> "unset"]
    /\ holds = [t \in Threads |-> NULL]
    /\ call = [c \in Controllers |-> "none"]
    /\ returned = [c \in Controllers |-> "none"]
    /\ \E started \in SUBSET Workers :
          /\ type = CACHED_THREAD_POOL_EXECUTOR => started = {}
          /\ type = FIXED_THREAD_COUNT_EXECUTOR =>
                \/ Cardinality(started) = worker_count_limit
                \/ MayFail /\ Cardinality(started) <= worker_count_limit
          /\ active_worker_count = Cardinality(started)
          /\ stage = [t \in Threads |-> IF t \in started THEN "start_up"
                                        ELSE IF t \in Workers THEN "unborn" ELSE "outside"]

-----------------------------------------------------------------------------
(* Moving threads.                                                         *)

Goes(t, s) == stage' = [stage EXCEPT ![t] = s]

(* t goes on to s, and if so told wakes the controllers that are asleep.   *)
WakeNobody(t, s, all_gone, asleep, woken) == \* fault: no broadcast
    Goes(t, s)
GoesAndWakes(t, s, all_gone, asleep, woken) ==
    stage' = [u \in Threads |-> IF u = t THEN s
                                ELSE IF all_gone /\ stage[u] = asleep THEN woken ELSE stage[u]]

(* What the queue returned to t, if it did: a value, or nothing.           *)
QueueReturns(t, with_value, with_nothing) ==
    IF pc'[t] # "idle" THEN UNCHANGED stage
    ELSE Goes(t, IF event'.ret = NULL THEN with_nothing ELSE with_value)

-----------------------------------------------------------------------------
(* submit_job_executor                                                     *)

(* Nobody calls an executor that is being deleted.                         *)
MayBeCalled == ~freed /\ \A c \in Controllers : call[c] # "delete"

submit_job_executor(s, j) ==
    /\ stage[s] = "outside" /\ MayBeCalled
    /\ job_state[j] = "none" /\ \A t \in Threads : holds[t] # j
    /\ ~shutdown_requested        \* or the call returns 0 at once
    /\ submitters_count' = submitters_count + 1
    /\ holds' = [holds EXCEPT ![s] = j]
    /\ Goes(s, "submitting")
    /\ UNCHANGED <<queue, active_worker_count, shutdown_requested, freed, jobs, control>>

(* submit_job_worker deletes a job the queue did not take: it is closed,   *)
(* it is full and the time is over, or it could not be expanded.           *)
submit_job_worker(s) ==
    /\ stage[s] = "submitting"
    /\ \/ \E tmo \in job_q!Timeouts : job_q!push_job_queue(s, holds[s], tmo)
       \/ job_q!resume_push(s)
    /\ QueueReturns(s, IF type = CACHED_THREAD_POOL_EXECUTOR THEN "counting" ELSE "leaving",
                       "leaving")
    /\ job_state' = [job_state EXCEPT ![holds[s]] =
                        IF pc'[s] = "idle" /\ event'.ret = NULL THEN "REJECTED" ELSE "CREATED"]
    /\ holds' = IF pc'[s] = "idle" THEN [holds EXCEPT ![s] = NULL] ELSE holds
    /\ UNCHANGED <<executor, result, control>>
new_job_failed(s) ==
    /\ stage[s] = "submitting" /\ pc[s] = "idle" /\ MayFail
    /\ job_state' = [job_state EXCEPT ![holds[s]] = "REJECTED"]
    /\ holds' = [holds EXCEPT ![s] = NULL]
    /\ Goes(s, "leaving")
    /\ UNCHANGED <<queue, executor, result, control>>

(* get_threads_waiting_on_empty_job_queue, then is_empty_job_queue: two    *)
(* looks at the queue, and others act in between.                          *)
worker_needed(s) ==
    /\ \/ /\ stage[s] = "counting"
          /\ Goes(s, IF job_q!get_threads_waiting_on_empty_job_queue = 0 THEN "looking" ELSE "leaving")
       \/ /\ stage[s] = "looking"
          /\ Goes(s, IF job_q!is_empty_job_queue THEN "leaving" ELSE "creating")
    /\ UNCHANGED <<queue, executor, jobs, holds, control>>

RoomForOneTooMany == active_worker_count <= worker_count_limit \* fault
RoomForWorker == active_worker_count < worker_count_limit

create_worker(s) ==
    /\ stage[s] = "creating"
    /\ \/ /\ RoomForWorker
          /\ active_worker_count' = active_worker_count + 1
          /\ Goes(s, "starting")
       \/ /\ ~RoomForWorker
          /\ Goes(s, "leaving")
          /\ UNCHANGED active_worker_count
    /\ UNCHANGED <<queue, submitters_count, shutdown_requested, freed, jobs, holds, control>>

(* create_worker while it does not hold the mutex.  When the thread was    *)
(* started, taking the mutex again changes nothing.                        *)
start_worker(s) ==
    /\ stage[s] = "starting"
    /\ \/ \E w \in OnStage(Workers, {"unborn"}) :
             stage' = [stage EXCEPT ![w] = "start_up", ![s] = "leaving"]
       \/ MayFail /\ Goes(s, "undoing")
    /\ UNCHANGED <<queue, executor, jobs, holds, control>>

(* One worker less, alive or in creation: the last one is reported.        *)
WorkerGone(t, s) ==
    /\ active_worker_count' = active_worker_count - 1
    /\ GoesAndWakes(t, s, active_worker_count' = 0, "workers_asleep", "workers_check")
    /\ UNCHANGED <<queue, submitters_count, shutdown_requested, freed, jobs, holds, control>>

undo_create_worker(s) == stage[s] = "undoing" /\ WorkerGone(s, "leaving")

submitter_leaves(s) ==
    /\ stage[s] = "leaving"
    /\ submitters_count' = submitters_count - 1
    /\ GoesAndWakes(s, "outside", submitters_count' = 0 /\ shutdown_requested,
                    "submitters_asleep", "submitters_woken")
    /\ UNCHANGED <<queue, active_worker_count, shutdown_requested, freed, jobs, holds, control>>

-----------------------------------------------------------------------------
(* worker_function                                                         *)

start_up(w) ==
    /\ stage[w] = "start_up" /\ Goes(w, "dequeuing")
    /\ UNCHANGED <<queue, executor, jobs, holds, control>>

dequeue(w) ==
    /\ stage[w] = "dequeuing"
    /\ \/ job_q!pop_job_queue(w, empty_job_queue_wait_time_out)
       \/ job_q!resume_pop(w)
    /\ QueueReturns(w, "dequeued", "clean_up")
    /\ holds' = IF pc'[w] = "idle" THEN [holds EXCEPT ![w] = event'.ret] ELSE holds
    /\ UNCHANGED <<executor, jobs, control>>

(* execute_job up to the call of the job's function ...                    *)
execute_job(w) ==
    /\ stage[w] = "dequeued"
    /\ job_state[holds[w]] = "CREATED"
    /\ job_state' = [job_state EXCEPT ![holds[w]] = "RUNNING"]
    /\ Goes(w, "running")
    /\ UNCHANGED <<queue, executor, result, holds, control>>

(* ... and from its return on: the promise, the state and delete_job.      *)
complete_job(w) ==
    /\ stage[w] = "running"
    /\ result' = [result EXCEPT ![holds[w]] = "output"]
    /\ job_state' = [job_state EXCEPT ![holds[w]] = "COMPLETED"]
    /\ holds' = [holds EXCEPT ![w] = NULL]
    /\ Goes(w, "dequeuing")
    /\ UNCHANGED <<queue, executor, control>>

clean_up(w) == stage[w] = "clean_up" /\ WorkerGone(w, "unborn")

-----------------------------------------------------------------------------
(* shutdown_executor                                                       *)

Reply(c, what) ==
    /\ Goes(c, "outside")
    /\ call' = [call EXCEPT ![c] = "none"]
    /\ returned' = [returned EXCEPT ![c] = what]
Proceed(c, s, what) ==
    /\ Goes(c, s)
    /\ call' = [call EXCEPT ![c] = what]
    /\ UNCHANGED returned

SubmittersIgnored(c, what) ==     \* fault: nobody waits for the submitters
    IF what = "shutdown_immediately" THEN Proceed(c, "discarding", what)
    ELSE Reply(c, "shutdown")
(* The wait for the submitters, then the queued jobs are left or discarded.*)
WaitForSubmitters(c, what) ==
    IF submitters_count > 0 THEN Proceed(c, "submitters_asleep", what)
    ELSE IF what = "shutdown_immediately" THEN Proceed(c, "discarding", what)
    ELSE Reply(c, "shutdown")

ShutdownLeavesOpen(c, what) ==    \* fault: the queue is not closed
    /\ stage[c] = "outside" /\ MayBeCalled
    /\ \/ shutdown_requested /\ Reply(c, "already") /\ UNCHANGED shutdown_requested
       \/ ~shutdown_requested /\ shutdown_requested' = TRUE /\ WaitForSubmitters(c, what)
    /\ UNCHANGED <<queue, active_worker_count, submitters_count, freed, jobs, holds>>
shutdown_executor(c, what) ==
    /\ stage[c] = "outside" /\ MayBeCalled
    /\ \/ /\ shutdown_requested    \* it returns at once
          /\ Reply(c, "already")
          /\ UNCHANGED <<queue, shutdown_requested>>
       \/ /\ ~shutdown_requested
          /\ shutdown_requested' = TRUE
          /\ job_q!close_job_queue
          /\ WaitForSubmitters(c, what)
    /\ UNCHANGED <<active_worker_count, submitters_count, freed, jobs, holds>>
resume_shutdown(c) ==
    /\ stage[c] = "submitters_woken"
    /\ WaitForSubmitters(c, call[c])
    /\ UNCHANGED <<queue, executor, jobs, holds>>

-----------------------------------------------------------------------------
(* discard_leftover_jobs: workers may be popping at the same time.         *)

discard_leftover_jobs(c) ==
    /\ stage[c] = "discarding"
    /\ \/ /\ ~job_q!is_empty_job_queue
          /\ Goes(c, "discard_pop") /\ UNCHANGED control
       \/ /\ job_q!is_empty_job_queue /\ call[c] = "delete"
          /\ Goes(c, "freeing") /\ UNCHANGED control
       \/ /\ job_q!is_empty_job_queue /\ call[c] = "shutdown_immediately"
          /\ Reply(c, "shutdown")
    /\ UNCHANGED <<queue, executor, jobs, holds>>
PeekToDiscard(c) ==               \* fault: the job is looked at, not popped
    /\ stage[c] = "discard_pop" /\ qp # <<>>
    /\ holds' = [holds EXCEPT ![c] = Head(qp)]
    /\ Goes(c, "cancelling")
    /\ UNCHANGED <<queue, executor, jobs, control>>
discard_pop(c) ==
    /\ stage[c] = "discard_pop"
    /\ job_q!pop_job_queue(c, job_q!NON_BLOCKING)
    /\ QueueReturns(c, "cancelling", "discarding")
    /\ holds' = [holds EXCEPT ![c] = event'.ret]
    /\ UNCHANGED <<executor, jobs, control>>
cancel_job(c) ==
    /\ stage[c] = "cancelling"
    /\ job_state[holds[c]] = "CREATED"
    /\ result' = [result EXCEPT ![holds[c]] = "null"]
    /\ job_state' = [job_state EXCEPT ![holds[c]] = "CANCELLED"]
    /\ holds' = [holds EXCEPT ![c] = NULL]
    /\ Goes(c, "discarding")
    /\ UNCHANGED <<queue, executor, control>>

-----------------------------------------------------------------------------
(* wait_for_all_executor_workers_to_complete, alone or for delete_executor:*)
(* first the look at shutdown_requested, then the wait.  By convention the *)
(* executor is deleted when no other controller is in a call of it.        *)

OthersAreOut(c) == OnStage(Controllers \ {c}, {"outside"}) = Controllers \ {c}

wait_for_all_executor_workers_to_complete(c, what) ==
    /\ stage[c] = "outside" /\ MayBeCalled
    /\ what = "delete" => OthersAreOut(c)
    /\ \/ shutdown_requested /\ Proceed(c, "workers_check", what)
       \/ ~shutdown_requested /\ Reply(c, "refused")
    /\ UNCHANGED <<queue, executor, jobs, holds>>

WorkersIgnored(c) ==              \* fault: nobody waits for the workers
    /\ stage[c] = "workers_check"
    /\ \/ call[c] = "wait" /\ Reply(c, "waited")
       \/ call[c] = "delete" /\ Proceed(c, "discarding", "delete")
    /\ UNCHANGED <<queue, executor, jobs, holds>>
wait_for_workers(c) ==
    /\ stage[c] = "workers_check"
    /\ IF active_worker_count > 0 THEN Proceed(c, "workers_asleep", call[c])
       ELSE \/ call[c] = "wait" /\ Reply(c, "waited")
            \/ call[c] = "delete" /\ Proceed(c, "discarding", "delete")
    /\ UNCHANGED <<queue, executor, jobs, holds>>

delete_executor(c) ==
    /\ stage[c] = "freeing"
    /\ freed' = TRUE
    /\ Reply(c, "deleted")
    /\ UNCHANGED <<queue, active_worker_count, submitters_count, shutdown_requested, jobs, holds>>

-----------------------------------------------------------------------------
(* A wait of the executor or of its queue may end for no reason, and a     *)
(* bounded wait of the queue may time out.                                 *)
WakeUp(t) ==
    \/ /\ \/ stage[t] = "submitters_asleep" /\ Goes(t, "submitters_woken")
          \/ stage[t] = "workers_asleep" /\ Goes(t, "workers_check")
       /\ UNCHANGED <<queue, executor, jobs, holds, control>>
    \/ /\ job_q!WakeUp(t)
       /\ UNCHANGED <<executor, jobs, stage, holds, control>>

(* The steps a thread inside the executor takes by itself.                 *)
SubmitterStep(s) ==
    \/ submit_job_worker(s) \/ new_job_failed(s) \/ worker_needed(s) \/ create_worker(s)
    \/ start_worker(s) \/ undo_create_worker(s) \/ submitter_leaves(s)
WorkerStep(w) ==
    start_up(w) \/ dequeue(w) \/ execute_job(w) \/ complete_job(w) \/ clean_up(w)
ControllerStep(c) ==
    \/ resume_shutdown(c) \/ discard_leftover_jobs(c) \/ discard_pop(c) \/ cancel_job(c)
    \/ wait_for_workers(c) \/ delete_executor(c)

ControllerCall(c) ==
    \/ \E what \in {"shutdown", "shutdown_immediately"} : shutdown_executor(c, what)
    \/ \E what \in {"wait", "delete"} : wait_for_all_executor_workers_to_complete(c, what)

(* Everything is over once the executor is deleted and everybody has left. *)
Finished ==
    /\ freed /\ OnStage(Threads, {"outside", "unborn"}) = Threads
    /\ UNCHANGED vars

Next ==
    \/ \E s \in Submitters : (\E j \in Jobs : submit_job_executor(s, j)) \/ SubmitterStep(s)
    \/ \E w \in Workers : WorkerStep(w)
    \/ \E c \in Controllers : ControllerCall(c) \/ ControllerStep(c)
    \/ \E t \in Threads : WakeUp(t)
    \/ Finished

Spec == Init /\ [][Next]_vars

(* Threads inside the executor go on: mutexes are held for a moment only,  *)
(* the functions of jobs return.  Nobody has to submit, to shut down or to *)
(* delete.                                                                 *)
FairSpec ==
    /\ Spec
    /\ \A s \in Submitters : WF_vars(SubmitterStep(s))
    /\ \A w \in Workers : WF_vars(WorkerStep(w))
    /\ \A c \in Controllers : WF_vars(ControllerStep(c))

-----------------------------------------------------------------------------
(* Every variable has its type: neither count, uint64_t in the code, goes  *)
(* below zero, and every thread stays in its own part of the code.         *)
TypeOK ==
    /\ job_q!TypeOK
    /\ active_worker_count \in Nat /\ submitters_count \in Nat
    /\ shutdown_requested \in BOOLEAN /\ freed \in BOOLEAN
    /\ job_state \in [Jobs -> {"none", "CREATED", "REJECTED", "RUNNING", "COMPLETED", "CANCELLED"}]
    /\ result \in [Jobs -> {"unset", "output", "null"}]
    /\ stage \in [Threads -> SubmitterStages \cup WorkerStages \cup ControllerStages]
    /\ \A s \in Submitters : stage[s] \in SubmitterStages
    /\ \A w \in Workers : stage[w] \in WorkerStages
    /\ \A c \in Controllers : stage[c] \in ControllerStages
    /\ holds \in [Threads -> Jobs \cup {NULL}]
    /\ call \in [Controllers -> Calls]

(* active_worker_count is the number of workers alive plus those submitters*)
(* are creating, and never exceeds the limit, although create_worker gives *)
(* its mutex up between counting a worker and starting it.                 *)
(* submitters_count is the number of threads inside submit_job_executor.   *)
Inside == OnStage(Submitters, SubmitterStages \ {"outside"})
Alive == OnStage(Workers, WorkerStages \ {"unborn"})
Creating == OnStage(Submitters, {"starting", "undoing"})
CountsAccounted ==
    /\ active_worker_count = Cardinality(Alive) + Cardinality(Creating)
    /\ active_worker_count <= worker_count_limit
    /\ submitters_count = Cardinality(Inside)

(* A job that was created and is not over is in exactly one place: in the  *)
(* queue once, or in the hands of one thread.  So it is executed or        *)
(* discarded once, by one thread, also while a shutdown discards jobs that *)
(* workers are taking; a job that is over or was rejected is nowhere.      *)
Places(j) == Cardinality({i \in DOMAIN qp : qp[i] = j}) + Cardinality({t \in Threads : holds[t] = j})
JobsHaveOneOwner ==
    \A j \in Jobs :
        /\ job_state[j] \in {"CREATED", "RUNNING"} => Places(j) = 1
        /\ job_state[j] \in {"REJECTED", "COMPLETED", "CANCELLED"} => Places(j) = 0

(* "this function only returns after the submitter's count has reached 0": *)
(* once the shutdown_executor that took effect has returned no thread is   *)
(* submitting, none will, and the queue takes no more jobs.  It gets there *)
(* since the queue is closed before it waits: no submitter it waits for is *)
(* asleep in the queue, where only workers that still pop would wake it.   *)
QuietAfterShutdown ==
    \A c \in Controllers :
        /\ returned[c] = "shutdown" => is_closed /\ submitters_count = 0 /\ Inside = {}
        /\ stage[c] \in {"submitters_asleep", "submitters_woken"} =>
              is_closed /\ \A s \in Submitters : pc[s] # "push_asleep"

(* The executor is freed when no other thread is inside it any more.       *)
FreedWhenDeserted ==
    freed => OnStage(Threads, {"outside", "unborn"}) = Threads

(* "a correct calling convention for executor will always have made the    *)
(* job_queue empty by this point": delete_executor finds no job to discard.*)
DeleteFindsNoJobs ==
    \A c \in Controllers :
        call[c] = "delete" /\ stage[c] \in {"discarding", "discard_pop", "cancelling"} => qp = <<>>

(* When the wait for the workers succeeds every job that was accepted has  *)
(* been executed or cancelled, and its promise is fulfilled, unless        *)
(* another controller is still shutting the executor down: it may be       *)
(* discarding a job, or waiting for a submitter that is being refused.     *)
Accepted(j) == job_state[j] \in {"CREATED", "RUNNING", "COMPLETED", "CANCELLED"}
ShutdownInProgress == \E c \in Controllers : call[c] \in {"shutdown", "shutdown_immediately"}
WaitMeansSettled ==
    \A c \in Controllers :
        returned[c] = "waited" /\ ~ShutdownInProgress
            => \A j \in Jobs : Accepted(j) => result[j] # "unset"

(* To those who submit jobs the executor is a service that takes each job  *)
(* it accepted once and in order, to execute it on one of at most          *)
(* worker_count_limit workers or, after a shutdown, to cancel it.          *)
InHandsOf(T) == {holds[t] : t \in T} \ {NULL}
Abstract == INSTANCE JobService WITH
    Limit <- worker_count_limit, backlog <- qp, running <- InHandsOf(Workers),
    cancelling <- InHandsOf(Controllers), outcome <- result, closed <- is_closed
ImplementsJobService == Abstract!Spec

(* A queued job is executed or cancelled in the end.                       *)
QueuedJobsSettle ==
    \A j \in Jobs : (\E i \in DOMAIN qp : qp[i] = j) ~> result[j] # "unset"

(* Every call of the executor returns: submissions with no time limit to a *)
(* full queue, shutdowns that wait for submitters and waits for workers.   *)
CallsReturn ==
    /\ \A s \in Submitters : stage[s] # "outside" ~> stage[s] = "outside"
    /\ \A c \in Controllers : stage[c] # "outside" ~> stage[c] = "outside"
==============================================================================
