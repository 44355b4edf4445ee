--------------------------------- MODULE Job ---------------------------------
(***************************************************************************)
(* src/src/job.c with its promise and the callback of                      *)
(* src/src/promise_completion_default_callback.c: an owner starts a job on *)
(* a thread of its own (execute_job_async), has its promise pushed into a  *)
(* queue of completed promises when it is fulfilled, pops it from there,   *)
(* as src/test/test_job.c does, and frees the queue, the promise and the   *)
(* job.  Peers have promises of their own pushed into the same queue, and  *)
(* also wait for this promise or resolve it early.                         *)
(*                                                                         *)
(* The promise is Promise, step by step; the queue is SyncQueue.           *)
(***************************************************************************)
EXTENDS Promise

CONSTANTS Owner, Runner,          \* the job's owner, and the thread it is executed on
          Output,                 \* what the job's function returns
          completion_callback,    \* pushes the promise into the queue
          QueueSizes, UNBOUNDED,
          Growth,                 \* what an expansion of the queue may add, see SyncQueue
          MayFail                 \* whether pthread_create may fail

ASSUME JobAssumption ==
    /\ IsFiniteSet(Threads) /\ NULL \notin Threads
    /\ {Owner, Runner} \subseteq Threads /\ Owner # Runner
    /\ QueueSizes \subseteq Nat /\ QueueSizes # {} /\ UNBOUNDED \in Nat
    /\ Growth \subseteq Nat /\ Growth # {}
    /\ {NULL, Output} \subseteq Results /\ Output # NULL /\ completion_callback \in Callbacks
    /\ MayFail \in BOOLEAN

Peers == Threads \ {Owner, Runner}

VARIABLES
    job_state,
    runner,        \* where Runner is in execute_job
    owner,         \* what Owner is about to do
    registered,    \* it has set its callback, or tried to
    expected,      \* how many completed promises it has still to pop
    done,          \* the peers whose own promise was completed, its callback returned
    lost,          \* the completed promises whose push was refused
    freed,         \* what Owner has freed
    \* the queue of completed promises, see SyncQueue
    qp, capacity, max_capacity, is_closed, q_empty_wait_thread_count,
    q_full_wait_thread_count, at_queue, arg, timeout, event

life == <<job_state, runner, owner, registered, expected, done, lost, freed>>
queue == <<qp, capacity, max_capacity, is_closed, q_empty_wait_thread_count,
           q_full_wait_thread_count, at_queue, arg, timeout, event>>

(* A promise in the queue goes by the name of the thread that fulfils it.  *)
promise_completed_queue == INSTANCE SyncQueue WITH
    Values <- Threads \ {Owner}, MaxCapacities <- QueueSizes, pc <- at_queue,
    MayResize <- FALSE, MaxItems <- Cardinality(Threads)

JobInit ==
    /\ Init
    /\ promise_completed_queue!Init
    /\ job_state = "CREATED"
    /\ runner = "none" /\ owner = "new"
    /\ registered = FALSE
    /\ expected = Cardinality(Peers)
    /\ done = {} /\ lost = {} /\ freed = {}

Idle(t) == pc[t] = "idle" /\ at_queue[t] = "idle"
Settled == job_state \in {"COMPLETED", "CANCELLED"}

-----------------------------------------------------------------------------
(* t pushes promise p, or goes on doing so.                                *)
push(t, p) ==
    \/ promise_completed_queue!push_sync_queue(t, p, promise_completed_queue!BLOCKING)
    \/ promise_completed_queue!resume_push(t)

(* The result of the push is not looked at: a promise that the queue, out  *)
(* of memory, refused is lost.                                             *)
Lose(t, p) ==
    lost' = IF at_queue'[t] = "idle" /\ event'.ret = NULL THEN lost \cup {p} ELSE lost

run_callback(t) ==
    /\ pc[t] = "calling"
    /\ IF pcc_to_execute[t] = completion_callback
       THEN /\ push(t, Runner) /\ Lose(t, Runner)
            /\ IF at_queue'[t] = "idle" THEN callback_function(t) ELSE UNCHANGED vars
       ELSE callback_function(t) /\ UNCHANGED <<lost, queue>>
    /\ UNCHANGED <<job_state, runner, owner, registered, expected, done, freed>>

(* set_promised_result, by t on behalf of the job: refused if a peer was   *)
(* faster.                                                                 *)
fulfil(t, r) ==
    IF output_result_ready THEN pc[t] = "idle" /\ UNCHANGED vars ELSE set_promised_result(t, r)

-----------------------------------------------------------------------------
(* execute_job, from the start of its thread: the state, the function, the *)
(* promise with its callback, the state again.                             *)
CompletedFirst ==                 \* fault: the state before the promise
    /\ \/ runner = "starting" /\ job_state = "CREATED"
          /\ runner' = "running" /\ job_state' = "RUNNING" /\ UNCHANGED vars
       \/ runner = "running" /\ job_state = "RUNNING"
          /\ job_state' = "COMPLETED" /\ UNCHANGED <<runner, vars>>
       \/ runner = "running" /\ job_state = "COMPLETED"
          /\ fulfil(Runner, Output) /\ runner' = "ended" /\ UNCHANGED job_state
    /\ UNCHANGED <<owner, registered, expected, done, lost, freed, queue>>
execute_job ==
    /\ \/ runner = "starting" /\ job_state = "CREATED"
          /\ runner' = "running" /\ job_state' = "RUNNING" /\ UNCHANGED vars
       \/ runner = "running"
          /\ fulfil(Runner, Output) /\ runner' = "fulfilled" /\ UNCHANGED job_state
       \/ runner = "fulfilled" /\ pc[Runner] = "idle"
          /\ runner' = "ended" /\ job_state' = "COMPLETED" /\ UNCHANGED vars
    /\ UNCHANGED <<owner, registered, expected, done, lost, freed, queue>>

(* The owner cancels the job it could not start.                           *)
execute_job_async ==
    /\ owner = "new" /\ Idle(Owner)
    /\ \/ owner' = "waiting" /\ runner' = "starting"
       \/ MayFail /\ owner' = "cancelling" /\ UNCHANGED runner
    /\ UNCHANGED <<job_state, registered, expected, done, lost, freed, vars, queue>>
cancel_job ==
    /\ Idle(Owner)
    /\ \/ owner = "cancelling"
          /\ fulfil(Owner, NULL) /\ owner' = "cancelled" /\ UNCHANGED job_state
       \/ owner = "cancelled"
          /\ owner' = "waiting" /\ job_state' = "CANCELLED" /\ UNCHANGED vars
    /\ UNCHANGED <<runner, registered, expected, done, lost, freed, queue>>

(* set_promised_callback, before or after the job is started.              *)
register ==
    /\ owner \in {"new", "waiting"} /\ ~registered /\ Idle(Owner)
    /\ registered' = TRUE
    /\ IF promised_callback = NULL
       THEN set_promised_callback(Owner, completion_callback) /\ expected' = expected + 1
       ELSE UNCHANGED <<vars, expected>>
    /\ UNCHANGED <<job_state, runner, owner, done, lost, freed, queue>>

pop_completed ==
    /\ owner = "waiting" /\ expected > 0 /\ pc[Owner] = "idle"
    /\ \/ promise_completed_queue!pop_sync_queue(Owner, promise_completed_queue!BLOCKING)
       \/ promise_completed_queue!resume_pop(Owner)
    /\ expected' = IF at_queue'[Owner] = "idle" THEN expected - 1 ELSE expected
    /\ UNCHANGED <<job_state, runner, owner, registered, done, lost, freed, vars>>

deinitialize_queue ==
    /\ owner = "waiting" /\ registered /\ expected = 0 /\ Idle(Owner)
    /\ owner' = "asking" /\ freed' = freed \cup {"queue"}
    /\ UNCHANGED <<job_state, runner, registered, expected, done, lost, vars, queue>>

get_result ==
    /\ owner = "asking" /\ get_promised_result(Owner)
    /\ owner' = IF pc'[Owner] = "idle" THEN "answered" ELSE owner
    /\ UNCHANGED <<job_state, runner, registered, expected, done, lost, freed, queue>>

(* By convention the owner knows that the job has fulfilled the promise    *)
(* and that its callback is over: it has popped the promise and got the    *)
(* job's result, or it finds the job in its final state.  That peers are   *)
(* out of the promise it knows from their own ones, all popped.            *)
delete_promise ==
    /\ owner = "answered"
    /\ \/ promised_callback = completion_callback /\ output_result = Output
       \/ Settled
    /\ owner' = "leaving" /\ freed' = freed \cup {"promise"}
    /\ UNCHANGED <<job_state, runner, registered, expected, done, lost, vars, queue>>

(* "It is your duty to ensure that the job that you delete is in CANCELLED *)
(* OR COMPLETED state": that it is, and no more, is what the owner ensures.*)
delete_job ==
    /\ Idle(Owner) /\ Settled /\ "job" \notin freed
    /\ freed' = freed \cup {"job"}
    /\ UNCHANGED <<job_state, runner, owner, registered, expected, done, lost, vars, queue>>

-----------------------------------------------------------------------------
(* Peers use this promise before they have completed their own ...         *)
use_promise(t) ==
    /\ t \notin done /\ at_queue[t] = "idle"
    /\ \/ set_promised_result(t, NULL)
       \/ get_promised_result(t)
       \/ \E cb \in Callbacks \ {completion_callback} : set_promised_callback(t, cb)
    /\ UNCHANGED <<life, queue>>

(* ... and have their own completed.                                       *)
complete_other(t) ==
    /\ t \notin done /\ pc[t] = "idle"
    /\ push(t, t) /\ Lose(t, t)
    /\ done' = IF at_queue'[t] = "idle" THEN done \cup {t} ELSE done
    /\ UNCHANGED <<job_state, runner, owner, registered, expected, freed, vars>>

WakeUp(t) ==
    /\ \/ SpuriousWakeup(t) /\ UNCHANGED queue
       \/ promise_completed_queue!SpuriousWakeup(t) /\ UNCHANGED vars
    /\ UNCHANGED life

OwnerStep ==
    \/ execute_job_async \/ cancel_job \/ register \/ pop_completed \/ deinitialize_queue
    \/ get_result \/ delete_promise \/ delete_job

JobNext ==
    \/ execute_job \/ OwnerStep
    \/ \E t \in Peers : use_promise(t) \/ complete_other(t)
    \/ \E t \in Threads : run_callback(t) \/ WakeUp(t)

job_vars == <<vars, life, queue>>
JobSpec == JobInit /\ [][JobNext]_job_vars

(* Threads in the middle of something go on: the job's function returns,   *)
(* peers complete their own jobs, and the owner does its duty.             *)
FairJobSpec ==
    /\ JobSpec
    /\ WF_job_vars(execute_job) /\ WF_job_vars(OwnerStep)
    /\ \A t \in Threads : WF_job_vars(run_callback(t))
    /\ \A t \in Peers : /\ WF_job_vars(complete_other(t))
                        /\ WF_job_vars(pc[t] = "woken" /\ use_promise(t))

-----------------------------------------------------------------------------
(* What the owner has freed nobody uses any more, whatever order things    *)
(* happened in.  The queue has seen its last push when the last completed  *)
(* promise was popped.  The promise is fulfilled for the job, no getter is *)
(* asleep or on its way back from its sleep, and no thread is about to     *)
(* give it to a callback.  A job that is COMPLETED or CANCELLED is not     *)
(* touched again.                                                          *)
NothingUsedAfterFree ==
    /\ "queue" \in freed =>
          /\ \A t \in Threads : at_queue[t] = "idle" /\ pcc_to_execute[t] # completion_callback
          /\ done = Peers
    /\ "promise" \in freed =>
          /\ runner \notin {"starting", "running"} /\ owner # "cancelling"
          /\ \A t \in Threads : pc[t] = "idle"
    /\ "job" \in freed => runner \in {"none", "ended"} /\ owner \notin {"cancelling", "cancelled"}

(* Unless a completed promise was lost for want of memory, the owner gets  *)
(* its result and frees everything, if the queue has a slot for every      *)
(* promise, or if the owner has not to run the callback itself: a push     *)
(* with no time limit into a queue it alone empties.                       *)
EnoughSlots == max_capacity >= Cardinality(Threads \ {Owner})
OwnerIsTold ==
    owner = "waiting" /\ (EnoughSlots \/ (registered /\ pc[Owner] = "idle"))
        ~> freed = {"queue", "promise", "job"} \/ lost # {}
==============================================================================
