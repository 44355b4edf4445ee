# BoomPar in TLA+

A verification project for [BoomPar](../src), a multi-threading library in C on
top of pthread: queues that threads share, promises, an executor (thread pool)
and jobs that run at intervals. The modules here model the library's own
control flow, TLC checks them on small instances, and TLAPS proves the central
safety properties for every value of the constants.

## 1. The system: inventory

| Component | State | Operations | Hard part | What makes it correct |
|---|---|---|---|---|
| `sync_queue` | array list, `max_capacity`, `is_closed`, two counts of waiters, mutex, two condition variables | push and pop with time limit, close, change of `max_capacity` | single signals under changing limits, timeouts racing signals, failed expansions | FIFO, nobody asleep while there is something for him, exact counts, close releases everybody |
| `sync_ll_queue` | intrusive list, `is_closed`, count of waiters | push (never waits), pop with time limit, close | single signals, elements that are still linked | the same, without producers |
| `job_queue` | a tag and one of the two queues | forwards each call | none of its own | forwards to the right queue |
| `worker` | nothing but its parameters | `start_worker`, `submit_job_worker`, worker loop, `discard_leftover_jobs` | ends on a time-out or on close, not on a decision of the executor | each job popped is executed once |
| `executor` | counts of workers and submitters, `shutdown_requested`, job queue | submit, shutdown, wait for workers, delete | the decision to create a worker is taken on stale counts; shutdown races with submitters, thread creation may fail | counts exact, limit kept, nobody inside after shutdown, each job executed or cancelled once |
| `job` | state, input, promise | execute, cancel, `execute_job_async`, delete | the promise is fulfilled before the job has its final state, and its owner may free things in between | one of executed and cancelled; not touched once its state is final |
| `promise` | result, ready flag, callback | set result, set callback, get result | result and callback set at the same time by two threads | one result, callback once and after it, nobody sleeps on a result |
| `promise_completion_default_callbacks` | none | pushes the promise into a queue | pushes with no time limit on a worker | the queue is emptied by somebody who does not wait for that worker |
| `resource_usage_limiter` | counts, shutdown flag | request with time limit and break-out, give back, change the count, shutdown, delete | requests and deletion sleep on one condition variable | never overgranted, no lost wake-up, deletion waits for everything |
| `periodic_job` | state, event vector, period | resume, pause, single shot, change of period, shutdown, waiting for a stop, delete | events accepted by callers and consumed later by the runner; time left recomputed after each wake-up | accepted stops are honoured, no stale timer, waiters released, thread gone before the memory |
| `alarm_job` | state, event vector, period | wake up, pause, shutdown, waiting, delete | the same; the alarm is asked for under the lock, from data that callers change without it | the same, and no change of the alarm is missed |
| `sync_pipe` | byte buffer, `max_capacity`, closed flag | write and read of what fits or is there, close | partial progress, a buffer that grows and shrinks and may fail to | bytes come out in order, nobody asleep beside bytes or room, close releases everybody |

### How the parts interact

- A **client** creates jobs and submits them. `submit_job_executor` counts the
  client as a submitter, pushes the job into the **job queue** (which may make
  it sleep), decides whether a **worker** is to be created, and leaves.
- A **worker** is a detached thread that pops jobs, executes them, fulfils the
  job's **promise** and ends when a pop returns nothing. Only the closing of
  the queue or, in a CACHED executor, the time limit of the pop ends it; the
  executor itself learns of it from `clean_up`, the last thing a worker runs.
- A **controller** closes the queue (`shutdown_executor`), waits for submitters,
  may discard what is queued, waits for workers, and deletes.
- A promise's **callback** is run by the thread that came second: the one that
  set the result or the one that set the callback. The library's own callback
  pushes the promise into a queue.
- A **resource usage limiter** stands alone: its callers share a number.
- A **periodic or alarm job** owns one thread, the runner. Callers leave events
  in a bit vector and wake it; only the runner changes the state.

All locks are monitors held for a few lines, except that a worker's and a
runner's user function runs with no lock, and that a thread sleeping on a
condition variable has given its lock up. So a model step is one critical
section, and the interleavings are those of critical sections, signals,
timeouts and spurious wake-ups.

### What is hard

Wake-ups are single signals chosen by counts (`sync_queue`), so a signal may go
to a thread that finds nothing left, may be consumed by one that fails, or may
be withheld because a count or a flag was read at the wrong moment. Decisions
are taken on state that was read under another lock (`executor.c:151-153`).
Timeouts leave a thread in between: no longer waiting, not yet gone. Shutdowns
race with everything, and memory is freed at the end of them. The full list,
with source lines and the properties that watch each item, is `hazards` in
`PROJECT.json`.

## 2. Modules

| Module | Models | State and actions |
|---|---|---|
| `ClosableQueue` | nothing in the code: what both queues promise | `items`, `closed`, the last call that returned |
| `SyncQueue` | `sync_queue.c` | the struct's fields under their names; `pc` per thread, "asleep" until signalled, then "woken" or "timedout" until it owns the lock. `push_sync_queue` and `pop_sync_queue` are a call up to its return or first sleep, `resume_push` and `resume_pop` a sleeper from its lock to its return or next sleep |
| `SyncLLQueue` | `sync_ll_queue.c` | the same for the intrusive list |
| `JobQueue` | `job_queue.c` | one of the two queues, told by `max_capacity` as the code is; the two share the variables that mean the same |
| `Executor` | `executor.c`, `worker.c`, and what they call of `job.c` | composes with `JobQueue` (`job_q == INSTANCE JobQueue`), whose actions it drives; `stage` says where each submitter, worker and controller is, one step per critical section of `shutdown_mutex`, `active_worker_count_mutex` or the queue |
| `JobService` | nothing in the code: what an executor promises to those who submit | `backlog`, the jobs in execution and in cancellation, the outcome of each job, `closed` |
| `Future` | nothing in the code: what a promise is to those who share it | value, callback, runs, answers |
| `Promise` | `promise.c` | the fields; a callback is decided on under the lock and run after it |
| `Job` | `job.c`, `promise_completion_default_callback.c`, the deletions of promise and queue | extends `Promise` and composes it with a `SyncQueue` of completed promises: `runner` is where the job's thread is in `execute_job`, `owner` what the owner does next (as in `test_job.c`: start or cancel, set the callback, pop, ask for the result, free), `freed` what it has freed; peers use the promise and push promises of their own |
| `ResourceUsageLimiter` | `resource_usage_limiter.c` | the counts, each break-out variable, each request with its arguments, what each thread holds, where the deletion is |
| `PeriodicJob` | `periodic_job.c` | state, event vector, period; the runner's place and its two local times; what each thread waits for; `asked` is a history variable: what the last accepted event asks for |
| `AlarmJob` | `alarm_job.c` | as `PeriodicJob`; `alarm` is what the user's set function would answer, and a caller is at "tell" between changing it and its `wake_up_alarm_job` |
| `ByteStream` | nothing in the code: what a pipe promises | `stream`, `limit`, `closed`, the last call that returned |
| `SyncPipe` | `sync_pipe.c` | the bytes, the capacity of the buffer and its limit; callers as in `SyncQueue` |

`MC<Module>` gives constants their values for TLC, `<Module>Proofs` holds the
theorems (`JobProofs` also those of `Promise`, which `Job` extends). Operators whose comment begins with *fault* are single mistakes such
code might contain (a signal left out, a reset forgotten, one off by one); no
specification uses them. `PROJECT.json` pairs each checked property with one of
them that breaks it, so that no property holds for want of ways to fail.

**External**, modelled from its use: pthread (a signal wakes one sleeper, any
one; a broadcast wakes all; sleepers may wake for no reason; a wait with a time
limit may end at any moment, also when it was signalled: the signal is then used
up, and the thread goes on as one that timed out), the array list of
Cutlery (an expansion or a shrink is an attempt, given by `Growth`; an expansion
may overshoot; the first push needs one, since the array starts with no memory),
its intrusive list (an element that is linked is refused) and its byte pipe (a write takes what fits, a read what is there, a resize may fail), `malloc` and
`pthread_create` (may fail where the code checks), and the user's functions
(they return, and do not call the component that runs them).

## 3. Runs

| Run | Instance | What it shows |
|---|---|---|
| `SyncQueue_bounded` | 4 threads, 1 value, capacity 2 or without limit, expansion by 1 or 3, at most 5 elements; symmetry | counts are exact; nobody sleeps beside an element or a slot no woken thread is coming for; the array list stays within its memory and at most one expansion beyond the limit |
| `SyncQueue_resized` | 3 threads, 2 values, capacities 1 and 2 changed at will, expansions that fail; fair | callers see a closable FIFO (`ClosableQueue`); close releases everybody |
| `SyncQueue_raised` | as above, capacities 1 to 3, 4 threads | *violated*: finding 1 |
| `SyncLLQueue` | 4 threads, 2 values, pushed also while still linked | nobody sleeps beside an element no woken thread is coming for; the same `ClosableQueue`, with `Distinct`: no element is put while it is in |
| `Executor_cached` | CACHED, 2 submitters, 2 controllers, 2 workers, 3 jobs, a queue of one slot or a linked list, failures at will (also of the queue's expansions); symmetry | counts exact and the limit kept; each job has one owner; after a shutdown nobody is inside, and while it waits no submitter sleeps in the queue; nobody is inside what is freed; who submits sees the service `JobService` |
| `Executor_fixed` | FIXED, 2 submitters, 1 controller, 2 workers all started, 2 jobs, a queue of one slot (expansions may fail) or a linked list; fair | when the wait for workers succeeds all accepted jobs are settled; queued jobs are settled in the end; every call returns |
| `Executor_stranded` | CACHED, 1 worker, 2 jobs, a queue of two slots or a linked list | *violated*: finding 2 |
| `Job` | the job's owner and runner, 2 peers, 2 results (one NULL), 2 callbacks, a completion queue of one slot or of three, expansions that may fail; fair | one result and one run of the callback, however they are set; the owner frees nothing that is still used; it is told, and gets everything freed, but for the two exceptions below |
| `PeriodicJob` | periods 1 to 3, 2 threads that wait or delete, events at will; fair | see below |
| `AlarmJob` | alarms after 0, 2, 3 or never, 2 threads that change the alarm, wait or delete, events at will; fair | see below |
| `Limiter` | 3 threads, up to 2 resources, one break-out variable; fair | no lost wake-up, no grant beyond the number, deletion waits for everything and ends |
| `SyncPipe` | 3 threads, writes of 0, 1 and 3 bytes, reads of 0 and 2, limits 0 and 4, resizes that fail; fair | a byte stream; no stranded sleeper; 0 means closed or out of memory; close releases everybody |

**Bounds.** Two consumers and two producers are what a misdirected single signal
needs, hence four threads. Two elements show order. A capacity of one or two,
with an expansion that may overshoot, reaches full, overfull after a lowered
limit, and empty. Two workers and two submitters race for the limit of two (or
one); three jobs leave one queued while two run. Two controllers shut down,
discard and wait at the same time. `MaxItems` bounds what is
queued without limit; `MaxCount` bounds the resources: two allow a request that
is larger than what is left and one that is partly granted. With one break-out
variable two waiting requests share it; a wake-up that is not meant for a
request is covered by spurious ones. Three periods allow a change to a shorter
and a longer one, and a wait begun twice; alarms of 0, 2, 3 and never add the
alarm that rings at once and the one that does not. Three bytes in a pipe of
four make a write partial, two in a read leave some over, and three threads are
two of a kind asleep and one that wakes them. A completion queue of one slot
makes the pushes of three fulfilled promises wait for the owner. The runs under a fair specification
use no symmetry.

**Types** are no run's business: `TypeOK` is proved for every module with a
proof module (of `Job`, the types are conjuncts of its invariant).

**Deadlock** is checked, except in `Limiter`, `PeriodicJob`, `AlarmJob` and
`Job`, where things are freed in the end and nothing happens after that. In
`Job` there is one more end: an owner that sets the callback after the result
runs it itself, and pushes with no time limit into a queue that only it empties;
if the queue is full it sleeps for ever. And a promise whose push is refused for
want of memory is lost without notice, so its owner waits for ever. `OwnerIsTold`
names both, and says that these are the only ways not to be told in the model;
section 6 lists what is outside it.

**Fairness.** Weak fairness of threads that are already inside a call, and no
other: whoever was woken gets the mutex in the end (they are held for a few
lines), user functions return, a waiting thread that was signalled goes on.
Nobody is obliged to call anything. `PeriodicJob` also assumes strong fairness
of the runner's time-out: callers do not wake the runner so often that none of
its waits ever runs to its end; so does `AlarmJob`. In `Job` an owner that
can go on does so, jobs that peers have begun are completed, and callbacks
return when the queue lets them.

**PeriodicJob in detail.** An event is accepted if it fits the current state and
consumed later, several at once. `StoppedIsQuiet` is what a caller relies on
after an accepted pause: if the job is then found paused, and nobody was
granted anything to the contrary, it does not run. It holds because the vector
is cleared as a whole, so that a single shot overtaken by the pause dies with
it. It is *not* true of a pause that was refused: a resume may be pending while
the state is still PAUSED, a pause is then refused, and a wait for the pause
returns at once although the job is about to run. `SleepsForAReason` is the
comment "this surely is positive" of `periodic_job.c:113` and more: the timer
is always what is left of the *current* period.

**AlarmJob in detail.** The alarm is decided by data of the user's, which
callers change without the job's lock; then they call `wake_up_alarm_job`, which
is refused while the job runs. `NoWakeUpMissed` is what the comments on asking
under the lock promise: once all who changed the data have made that call, a
waiting job waits for the alarm of the *current* data, or is about to wake up.
A wake-up accepted while a pause is pending loses to it and is dropped
(`StoppedIsQuiet`), as `alarm_job.h:63` allows: sent is not done. So
`AlarmRings` speaks of a wake-up with nothing else pending, and of alarms that
were set, however often the wait for them is begun again.

**Executor in detail.** `ImplementsJobService` maps the backlog to the job queue,
the jobs in execution and in cancellation to what workers and controllers hold,
and the outcome to the promises. Everything else (waiting, creating workers,
counting, the two looks at the queue) is invisible to who submits. That only a
closed service cancels holds because discarding begins after the close.
A failing expansion of the job queue makes the submission fail, as a failing
allocation of the job does. `QuietAfterShutdown` has two halves: what a shutdown
has reached when it returns, and how it gets there, which is that the queue is
closed before the wait for the submitters. With workers that go on popping the
order would not be seen in what returns in the end; the second half asks for it
directly: no submitter sleeps in the queue while a shutdown waits for them.

**SyncPipe in detail.** A write waits only while the buffer is full *and* has
reached its limit, so a buffer that failed to grow makes a write return 0, which
looks like a closed pipe. `ZeroMeansClosedOrFailed` says that nothing else does:
not a wake-up that finds the room taken, nor a buffer shrunk to nothing.

**Job in detail.** `execute_job` fulfils the promise, and with it runs the
callback, before the state becomes COMPLETED. The owner may thus be told, ask
for the result and free the queue and the promise while the runner is still on
its way. `NothingUsedAfterFree` says what is then over. The queue: nobody is in
it, and nobody holds the callback that pushes into it. The promise: every thread
is out of its functions, which excludes a sleeping getter, a woken one that has
not taken the lock again, and a thread between the lock and a callback that is
given the promise (`promise.c:50`), also a callback of a peer. The job: it is
touched no more once its state is final.

The owner has its part in that. It empties the queue of all it expects, gets
the result, and frees the promise when it knows that the callback for it is
over: because its own callback was the one registered, so that the promise came
out of the queue, and the result is the job's own; or because the job is in its
final state, which comes after the callback. With a peer's callback registered
first, or a result that a peer has set, the first is not enough. That peers are
out of the promise is no guard of the model: each uses the promise before it has
its own completed, and the owner has popped all of those. Deleting the promise
in a callback, as `promise_completion_default_callbacks.h:11` suggests for real
applications, is another protocol and not modelled.

The queue's array has no memory at first, so the first push expands it, and may
fail to. `push_sync_queue` then returns 0, the callback does not look
(`promise_completion_default_callback.c:6`), and the promise is in nobody's
hands; `lost` remembers it, `Lose` says when.

## 4. Findings

1. `sync_queue.c:69`: raising `max_capacity` wakes producers only if the array
   list is full at that moment; with a slot freed for a producer that was woken
   but has not run, the others stay asleep beside new room, against the comment
   on line 68.
2. `executor.c:152`: a CACHED executor at its limit accepts a job while its
   worker has timed out and is ending. The worker is not waiting, but counted,
   so none is created; the job stays queued until deletion discards it, against
   the comment on lines 229-230.

Smaller disagreements of comment and code, met on the way and stated by no run:

- `sync_queue.h:46`: a queue made with size 0 is said to get size 1; it keeps 0
  (`sync_queue.c:25`), and a push into it sleeps although it is empty. A job
  queue never is made so: 0 means a linked list there.
- `executor.h:97`: shutdown is said to return after the submitters' count has
  reached 0; the second of two concurrent shutdowns returns at once
  (`executor.c:173`), while the first still waits, or is discarding jobs. So
  `QuietAfterShutdown` speaks of the shutdown that took effect,
  `WaitMeansSettled` excludes a shutdown that is under way, and deletion comes,
  by convention, when no other controller is in a call.
- `promise_completion_default_callbacks.h:10`: the callback is said to push the
  promise into the queue "so that it can be concurrently popped and processed";
  a push that fails for want of memory is not noticed, and the promise is lost.
- `sync_queue.h:87`: a pop also returns NULL when it was woken by a close.
- `sync_pipe.h:31` and `:34`: transfers are said to be always smaller than
  asked for; they may be equal.
- `resource_usage_limiter.h:22`: the deleting thread itself waits on the
  condition variable after the shutdown.
- `periodic_job.h:100`, `alarm_job.h:95`: deletion waits for the shutdown, not
  for a pause or a shutdown, and must.
- `alarm_job.h:7`: an alarm of BLOCKING is said to pause the job; it stays
  AJ_WAITING, and waits for a pause do not return.

## 5. Theorems

All are invariants or step properties of the specification, for every value of
the constants that satisfies the module's named assumption. Those assume finite
sets of threads where threads are counted, a null pointer that is no value, and
natural numbers for capacities, periods (positive) and bounds.

- **`SyncQueueProofs`** (`QueueAssumption`). The inductive invariant is types,
  exact counts and `NoStrandedConsumer` together: a signal is sent when a count
  is positive, so the third needs the second. Coming for an element is who was
  woken and who timed out, since both look at the queue before they return; so a
  time-out that uses up a signal costs nothing. Each action is reduced to how it
  moves threads between places, and `CountMove` says what that does to the
  number of threads in a place. From it: `TypeCorrect`, `CountsExact`,
  `NoConsumerStranded`, the `Refinement` to `ClosableQueue` (every critical
  section is one abstract call or a stutter), and `CapacityBounded`, which has
  an invariant of its own and holds if nobody changes the limit (`~MayResize`).
  `NoProducerStranded` needs that, and expansions that succeed: raising the limit
  strands producers (finding 1), and so does a woken producer whose expansion
  fails. Its invariant counts: the free slots are no more than the producers
  coming for them, as long as one sleeps. `NextAwake` adds, for the executor,
  that no producer sleeps on a closed queue.
- **`SyncLLQueueProofs`** (`ListQueueAssumption`). The same argument for the
  linked-list queue, where no count of producers is kept: `TypeCorrect` (with an
  exact count of consumers), `NoConsumerStranded`, and the `Refinement` to the same
  `ClosableQueue`, here one that takes no element twice (`Distinct`): an element
  is linked exactly while it is in the list.
- **`ExecutorProofs`** (`ExecutorAssumption`). The inductive invariant has five
  parts. `CountInv`: each kind of thread keeps to its own stages, and the counts
  are exact. `QueueInv`: the invariants of the two queues, as the proofs of the
  queues have them, and that no producer sleeps on a closed one; every step of
  the executor is a step of the queue in use or leaves it alone, so their
  theorems are used, not repeated. `AtQueue`: who is
  inside the queue is a submitter in its push, with its own job, or a worker in
  its pop. `OwnershipInv`: at which stages a thread holds a job, that no job is
  in two places, and what a job's place says of its state. `ShutdownInv`: what
  each controller is in the middle of; one at most waits for submitters and none
  after a shutdown took effect; a deletion is alone, with no submitter left, and
  discards and frees with no worker left. From it: `TypeCorrect`, `CountsExact`,
  `OneOwner`, `ShutdownIsQuiet`, `FreedSafely`, `WorkersAreWoken` (nobody is
  stranded in the queue as the executor uses it) and the `Refinement` to
  `JobService`.

  `SettledAfterWait` and `DeletionFindsNothing` are about a FIXED executor whose
  workers were all started (`~MayFail`); both fail for a CACHED one, which the
  run `Executor_stranded` shows. They need `FixedInv` besides: nobody creates
  workers, workers wait for ever, hence one of them remains until the queue is
  closed *and* empty, and it stays so.
- **`JobProofs`** (`PromiseAssumption`, and `JobAssumption` for what is said of
  `Job`). Of the promise: the callback is run once, nobody sleeps on a result,
  and the promise implements `Future`; the invariant adds that all answers agree
  with the result. Of the job: its steps are steps of the promise
  (`JobUsesPromise`), so all that holds of its promise (`JobPromiseCorrect`), and
  what the owner frees is in nobody's use any more (`FreedForGood`: every thread
  is out of the freed promise, about to run no callback with it). The
  invariant `JobInv` adds to those of promise and queue: `LifeInv`, where runner
  and owner may be together; `PromiseFits`, what they and the peers are doing with
  the promise, peers whose own promise is completed being out of it;
  `AtQueue`, who is inside the queue and why; and `Accounting`: what the owner
  expects is what the queue holds, what was lost, what peers have still to push,
  and its own promise until its callback has pushed it. So when it expects
  nothing, nothing was lost, nobody is in the queue, and no peer in the promise.
- **`ResourceUsageLimiterProofs`** (`LimiterAssumption`). Nobody asleep was
  forgotten (`NoLostWakeUp`), and a grant is covered (`GrantsAreCovered`). The
  invariant needs that a request for nothing never sleeps: otherwise giving back
  while more is granted than exists would seem to strand one. `GrantsExact`: what
  is granted is what the threads hold together. The sum is the cardinality of a
  set with one element per unit held, which grows and shrinks by intervals, so
  that no induction over the threads is needed. Hence `DeletionWaitsForAll`.
- **`PeriodicJobProofs`** (`PeriodAssumption`). The invariant adds `RunnerFits`
  (what the state says of the place of the runner: a runner that wakes up is
  paused or waiting, so a wait is entered anew only with no time spent) and
  `DeletesAlone`. From it: types with pending events that fit the state, timers
  that are not stale, stops that hold, waiters that are told, and a memory freed
  after the runner has ended.
- **`AlarmJobProofs`** (`AlarmAssumption`). The same shape: the places of the
  runner, which events may be pending in which state, and who deletes. The step
  to look at for `NoChangeMissed` is the one that sets the alarm and leaves for
  the wait in one critical section.
- **`SyncPipeProofs`** (`PipeAssumption`). The invariant is the types, which
  hold the sizes together (bytes, capacity, limit), and `SleepersHaveAReason`.
  From it: that nobody is stranded (`NobodyStranded`), the `Refinement` to
  `ByteStream`, and `ZeroIsAnAnswer`, for every number of threads and bytes.

Every safety property that a passing run checks, invariant, step property or
refinement, is stated by one of these theorems.
`WaitersAreTold` of `PeriodicJob`, `NoWorkerStranded` and `GrantsCounted` are
proved and checked by no run of their own.

**Only model-checked**: everything under fairness and every `~>` (liveness is out
of the prover's reach): `CloseReleasesWaiters`, `QueuedJobsSettle`,
`CallsReturn`, `OwnerIsTold`, `StopsAreHonoured`, `WaitersReturn`, `AlarmRings`,
`RequestsAreReleased` and `DeletionEnds`. The two violated runs are TLC's as well.

## 6. Not modelled

- `update_max_capacity_job_queue`: it has no caller in the library and forwards
  to what `SyncQueue` models, or does nothing.
- An owner of a job that closes the completion queue: the callback ignores the
  push that is refused then, as it does when memory runs out, which is modelled.
- A callback that deletes the promise, and an owner that waits for the executor's
  workers before it empties the completion queue: with the queue full the workers
  wait for it in turn.
- Thread cancellation states set by the worker: nothing in the library cancels.
- User functions that call back into the component that runs them (a job that
  submits to its own full executor, a periodic function that waits for its own
  pause): they block for ever, which the documentation leaves to the user.
- Calls on an object that is being freed by another thread: who may still call
  is the callers' convention. In particular the limiter's deletion waits for
  resources, not for requests that were woken and have not returned yet.
- The contents of data, times in microseconds and 64-bit widths: no counter of
  the code can reach its width in practice, and the one unsigned difference that
  could go below zero in `periodic_job.c` is covered by `SleepsForAReason`, the
  one in `resource_usage_limiter.c` by `NeverOvergranted`.
- Test programs and the makefile.

## 7. Plan

What is left:

1. The tagged union `JobQueue` as a closable FIFO of its own: both of its sides
   are proved, and `ExecutorProofs` uses them through it.
2. What is promised to several jobs that share one completion queue, each with
   an owner of its own: `Job` has one job and peers.
3. A queue whose expansions may fail: what can be said of producers then is
   weaker than `NoProducerStranded`, and the code does not say what is meant.
