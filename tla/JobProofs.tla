------------------------------ MODULE JobProofs ------------------------------
(***************************************************************************)
(* Proofs about Promise, for every set of threads, results and callbacks,  *)
(* and about Job, for every set of peers and every size of the queue.      *)
(***************************************************************************)
EXTENDS Job, Sequences, FiniteSetTheorems, TLAPS

(* The inductive invariant: the three invariants support each other, and   *)
(* answers are given only when, and what, there is a result.               *)
AnswersAgree == answers # {} => output_result_ready /\ answers = {output_result}
IInv ==
    /\ TypeOK
    /\ output_result_ready => output_result \in Results
    /\ CallbackRunsOnce
    /\ NobodySleepsOnAResult
    /\ AnswersAgree

LEMMA InitEstablishes == Init => IInv
  <1> SUFFICES ASSUME Init PROVE IInv
    OBVIOUS
  <1>1. TypeOK
    BY PromiseAssumption DEF Init, TypeOK
  <1>2. CallbackRunsOnce
    <2>1. \A cb \in Callbacks : runs[cb] = 0 /\ cb # NULL
      BY PromiseAssumption DEF Init
    <2>2. \A cb \in Callbacks : Callers(cb) = {}
      BY <2>1 DEF Init, Callers
    <2>3. ~output_result_ready
      BY DEF Init
    <2>4. QED
      BY <2>1, <2>2, <2>3 DEF CallbackRunsOnce
  <1>3. QED
    BY <1>1, <1>2 DEF Init, IInv, NobodySleepsOnAResult, AnswersAgree

-----------------------------------------------------------------------------
(* One action each.                                                        *)

LEMMA SetResultPreserves ==
  ASSUME IInv, NEW t \in Threads, NEW r \in Results, set_promised_result(t, r)
  PROVE  IInv'
  <1>1. /\ pc[t] = "idle" /\ ~output_result_ready
        /\ output_result' = r /\ output_result_ready' = TRUE
        /\ pc' = [u \in Threads |-> IF u = t /\ promised_callback # NULL THEN "calling"
                                    ELSE IF pc[u] = "asleep" THEN "woken" ELSE pc[u]]
        /\ pcc_to_execute' = [pcc_to_execute EXCEPT ![t] = promised_callback]
        /\ UNCHANGED <<promised_callback, runs, answers>>
    BY DEF set_promised_result, BroadcastAndRun
  <1>2. pcc_to_execute[t] = NULL
    BY <1>1 DEF IInv, TypeOK
  <1>3. TypeOK'
    <2>1. /\ pc' \in [Threads -> {"idle", "asleep", "woken", "calling"}]
          /\ pcc_to_execute' \in [Threads -> Callbacks \cup {NULL}]
      BY <1>1 DEF IInv, TypeOK
    <2>2. \A u \in Threads : pcc_to_execute'[u] # NULL <=> pc'[u] = "calling"
      BY <1>1, <1>2 DEF IInv, TypeOK
    <2>3. QED
      BY <1>1, <2>1, <2>2 DEF IInv, TypeOK
  <1>4. \A u \in Threads : pc'[u] # "asleep"
    BY <1>1
  <1>5. CallbackRunsOnce'
    <2> SUFFICES ASSUME NEW cb \in Callbacks
                 PROVE  /\ runs[cb] = 0
                        /\ promised_callback = cb => Callers(cb)' = {t}
                        /\ promised_callback # cb => Callers(cb)' = {}
      BY <1>1 DEF CallbackRunsOnce
    <2>1. runs[cb] = 0 /\ Callers(cb) = {} /\ cb # NULL
      BY <1>1, PromiseAssumption DEF IInv, CallbackRunsOnce
    <2>2. \A u \in Threads : pcc_to_execute'[u] = IF u = t THEN promised_callback ELSE pcc_to_execute[u]
      BY <1>1 DEF IInv, TypeOK
    <2>3. QED
      BY <2>1, <2>2 DEF Callers
  <1>6. answers = {}
    BY <1>1 DEF IInv, AnswersAgree
  <1>7. QED
    BY <1>1, <1>3, <1>4, <1>5, <1>6 DEF IInv, NobodySleepsOnAResult, AnswersAgree

LEMMA GetPreserves ==
  ASSUME IInv, NEW t \in Threads, get_promised_result(t)
  PROVE  IInv'
  <1>1. pc[t] # "calling" /\ UNCHANGED <<promise, pcc_to_execute, runs>>
    BY DEF get_promised_result
  <1>2. CASE ~output_result_ready /\ pc' = [pc EXCEPT ![t] = "asleep"] /\ UNCHANGED answers
    BY <1>1, <1>2
    DEF IInv, TypeOK, promise, CallbackRunsOnce, Callers, NobodySleepsOnAResult, AnswersAgree
  <1>3. CASE /\ output_result_ready /\ pc' = [pc EXCEPT ![t] = "idle"]
             /\ answers' = answers \cup {output_result}
    BY <1>1, <1>3
    DEF IInv, TypeOK, promise, CallbackRunsOnce, Callers, NobodySleepsOnAResult, AnswersAgree
  <1>4. QED
    BY <1>2, <1>3 DEF get_promised_result

LEMMA SetCallbackPreserves ==
  ASSUME IInv, NEW t \in Threads, NEW cb \in Callbacks, set_promised_callback(t, cb)
  PROVE  IInv'
  <1>1. /\ pc[t] = "idle" /\ promised_callback = NULL /\ promised_callback' = cb
        /\ UNCHANGED <<output_result_ready, output_result, runs, answers>>
    BY DEF set_promised_callback
  <1>2. \A c \in Callbacks : runs[c] = 0 /\ Callers(c) = {}
    BY <1>1, PromiseAssumption DEF IInv, CallbackRunsOnce
  <1>3. CASE ~output_result_ready /\ UNCHANGED <<pc, pcc_to_execute>>
    BY <1>1, <1>2, <1>3
    DEF IInv, TypeOK, CallbackRunsOnce, Callers, NobodySleepsOnAResult, AnswersAgree
  <1>4. CASE /\ output_result_ready /\ pc' = [pc EXCEPT ![t] = "calling"]
             /\ pcc_to_execute' = [pcc_to_execute EXCEPT ![t] = cb]
    <2>1. \A u \in Threads : /\ pcc_to_execute'[u] = IF u = t THEN cb ELSE pcc_to_execute[u]
                             /\ pc'[u] = IF u = t THEN "calling" ELSE pc[u]
      BY <1>4 DEF IInv, TypeOK
    <2>2. TypeOK'
      BY <1>1, <1>4, <2>1, PromiseAssumption DEF IInv, TypeOK
    <2>3. CallbackRunsOnce'
      <3> SUFFICES ASSUME NEW c \in Callbacks
                   PROVE  /\ runs[c] = 0
                          /\ c = cb => Callers(c)' = {t}
                          /\ c # cb => Callers(c)' = {}
        BY <1>1, <1>4 DEF CallbackRunsOnce
      <3>1. QED
        BY <1>2, <2>1 DEF Callers
    <2>4. QED
      BY <1>1, <1>4, <2>1, <2>2, <2>3 DEF IInv, NobodySleepsOnAResult, AnswersAgree
  <1>5. QED
    BY <1>3, <1>4 DEF set_promised_callback

(* Running the callback: it is the registered one, there is a result, it   *)
(* has not run before, and nobody else is about to run it.                 *)
LEMMA RunIsTheOnlyOne ==
  ASSUME IInv, NEW t \in Threads, pc[t] = "calling"
  PROVE  /\ pcc_to_execute[t] \in Callbacks
         /\ output_result_ready /\ promised_callback = pcc_to_execute[t]
         /\ runs[pcc_to_execute[t]] = 0
         /\ Callers(pcc_to_execute[t]) = {t}
  <1>1. pcc_to_execute[t] \in Callbacks
    BY DEF IInv, TypeOK
  <1>2. t \in Callers(pcc_to_execute[t])
    BY DEF Callers
  <1>3. QED
    BY <1>1, <1>2 DEF IInv, CallbackRunsOnce

LEMMA RunPreserves ==
  ASSUME IInv, NEW t \in Threads, callback_function(t)
  PROVE  IInv'
  <1>1. /\ pc[t] = "calling"
        /\ runs' = [runs EXCEPT ![pcc_to_execute[t]] = @ + 1]
        /\ pc' = [pc EXCEPT ![t] = "idle"]
        /\ pcc_to_execute' = [pcc_to_execute EXCEPT ![t] = NULL]
        /\ UNCHANGED <<output_result_ready, output_result, promised_callback, answers>>
    BY DEF callback_function, promise
  <1>2. PICK cb \in Callbacks :
            /\ cb = pcc_to_execute[t] /\ output_result_ready /\ promised_callback = cb
            /\ runs[cb] = 0 /\ Callers(cb) = {t}
    BY <1>1, RunIsTheOnlyOne
  <1>3. \A u \in Threads : /\ pcc_to_execute'[u] = IF u = t THEN NULL ELSE pcc_to_execute[u]
                           /\ pc'[u] = IF u = t THEN "idle" ELSE pc[u]
    BY <1>1 DEF IInv, TypeOK
  <1>4. runs' \in [Callbacks -> Nat] /\ \A c \in Callbacks : runs'[c] = IF c = cb THEN 1 ELSE runs[c]
    <2>1. runs \in [Callbacks -> Nat]
      BY DEF IInv, TypeOK
    <2>2. runs' = [runs EXCEPT ![cb] = 1]
      BY <1>1, <1>2
    <2>3. QED
      BY <2>1, <2>2
  <1>5. TypeOK'
    BY <1>1, <1>3, <1>4 DEF IInv, TypeOK
  <1>6. CallbackRunsOnce'
    <2>1. \A c \in Callbacks : c # NULL
      BY PromiseAssumption
    <2>2. Callers(cb)' = {}
      BY <1>2, <1>3, <2>1 DEF Callers
    <2>3. \A c \in Callbacks : c # cb => runs[c] = 0 /\ Callers(c) = {}
      BY <1>2 DEF IInv, CallbackRunsOnce
    <2>4. \A c \in Callbacks : c # cb => Callers(c)' = {}
      BY <1>3, <2>1, <2>3 DEF Callers
    <2>5. QED
      BY <1>1, <1>2, <1>4, <2>2, <2>3, <2>4 DEF CallbackRunsOnce
  <1>7. QED
    BY <1>1, <1>3, <1>5, <1>6 DEF IInv, NobodySleepsOnAResult, AnswersAgree

LEMMA StepPreserves == IInv /\ [Next]_vars => IInv'
  <1> SUFFICES ASSUME IInv, [Next]_vars PROVE IInv'
    OBVIOUS
  <1>1. ASSUME NEW t \in Threads, SpuriousWakeup(t) PROVE IInv'
    BY <1>1 DEF SpuriousWakeup, promise, IInv, TypeOK, CallbackRunsOnce, Callers,
                NobodySleepsOnAResult, AnswersAgree
  <1>2. CASE UNCHANGED vars
    BY <1>2 DEF vars, promise, IInv, TypeOK, CallbackRunsOnce, Callers,
                NobodySleepsOnAResult, AnswersAgree
  <1>3. QED
    BY <1>1, <1>2, SetResultPreserves, GetPreserves, SetCallbackPreserves, RunPreserves DEF Next

-----------------------------------------------------------------------------
(* The results.                                                            *)

(* The strengthened invariant holds of every reachable state.              *)
THEOREM Inductive == Spec => []IInv
  BY InitEstablishes, StepPreserves, PTL DEF Spec

(* Types.                                                                  *)
THEOREM TypeCorrect == Spec => []TypeOK
  <1>1. IInv => TypeOK
    BY DEF IInv
  <1>2. QED
    BY <1>1, Inductive, PTL

(* The callback is run once, after the result, whoever comes second.       *)
THEOREM CallbackOnce == Spec => []CallbackRunsOnce
  <1>1. IInv => CallbackRunsOnce
    BY DEF IInv
  <1>2. QED
    BY <1>1, Inductive, PTL

(* No getter sleeps when there is a result.                                *)
THEOREM NoGetterStranded == Spec => []NobodySleepsOnAResult
  <1>1. IInv => NobodySleepsOnAResult
    BY DEF IInv
  <1>2. QED
    BY <1>1, Inductive, PTL

(* The promise implements the future.                                      *)
THEOREM Refinement == Spec => ImplementsFuture
  <1> USE DEF Abstract!Init, Abstract!Resolve, Abstract!Register, Abstract!Deliver,
              Abstract!Answer, Abstract!Next, Abstract!vars
  <1>1. Init => Abstract!Init
    BY DEF Init
  <1>2. IInv /\ [Next]_vars => [Abstract!Next]_Abstract!vars
    <2> SUFFICES ASSUME IInv, [Next]_vars PROVE [Abstract!Next]_Abstract!vars
      OBVIOUS
    <2>1. ASSUME NEW t \in Threads, NEW r \in Results, set_promised_result(t, r)
          PROVE  Abstract!Resolve
      BY <2>1 DEF set_promised_result
    <2>2. ASSUME NEW t \in Threads, get_promised_result(t)
          PROVE  Abstract!Answer \/ UNCHANGED Abstract!vars
      BY <2>2 DEF get_promised_result, promise, IInv, AnswersAgree
    <2>3. ASSUME NEW t \in Threads, NEW cb \in Callbacks, set_promised_callback(t, cb)
          PROVE  Abstract!Register
      BY <2>3 DEF set_promised_callback
    <2>4. ASSUME NEW t \in Threads, callback_function(t)
          PROVE  Abstract!Deliver
      <3>1. /\ pcc_to_execute[t] \in Callbacks /\ output_result_ready
            /\ promised_callback = pcc_to_execute[t] /\ runs[pcc_to_execute[t]] = 0
        BY <2>4, RunIsTheOnlyOne DEF callback_function
      <3>2. QED
        BY <2>4, <3>1, PromiseAssumption DEF callback_function, promise
    <2>5. ASSUME NEW t \in Threads, SpuriousWakeup(t)
          PROVE  UNCHANGED Abstract!vars
      BY <2>5 DEF SpuriousWakeup, promise
    <2>6. CASE UNCHANGED vars
      BY <2>6 DEF vars, promise
    <2>7. QED
      BY <2>1, <2>2, <2>3, <2>4, <2>5, <2>6 DEF Next
  <1>3. QED
    BY <1>1, <1>2, Inductive, PTL DEF Spec, ImplementsFuture, Abstract!Spec

-----------------------------------------------------------------------------
(* The job: its inductive invariant                                        *)

(* The queue of completed promises is the queue of SyncQueueProofs.        *)
PQ == INSTANCE SyncQueueProofs WITH
    Values <- Threads \ {Owner}, MaxCapacities <- QueueSizes, pc <- at_queue,
    MayResize <- FALSE, MaxItems <- Cardinality(Threads)

(* It stays open, and nobody waits in it with a time limit.                *)
TimedOut == {"push_timedout", "pop_timedout"}
QueueInv ==
    /\ PQ!IInv /\ PQ!CapacityBound
    /\ ~is_closed /\ \A t \in Threads : at_queue[t] \notin TimedOut

(* How far the runner and the owner are says what state the job is in, and *)
(* what has been freed.                                                    *)
BeforeTheEnd == {"new", "cancelling", "cancelled"}
AfterTheQueue == {"asking", "answered", "leaving"}
StateOfJob ==
    CASE runner = "starting" -> "CREATED"
      [] runner \in {"running", "fulfilled"} -> "RUNNING"
      [] runner = "ended" -> "COMPLETED"
      [] OTHER -> IF owner \in BeforeTheEnd THEN "CREATED" ELSE "CANCELLED"
LifeInv ==
    /\ runner \in {"none", "starting", "running", "fulfilled", "ended"}
    /\ owner \in BeforeTheEnd \cup {"waiting"} \cup AfterTheQueue
    /\ owner \in BeforeTheEnd => runner = "none"
    /\ job_state = StateOfJob
    /\ done \subseteq Peers
    /\ "queue" \in freed <=> owner \in AfterTheQueue
    /\ "promise" \in freed <=> owner = "leaving"
    /\ "job" \in freed => Settled

(* What owner, runner and peers do with the promise, and when each of them *)
(* is out of it.                                                           *)
PromiseFits ==
    /\ registered => promised_callback # NULL
    /\ output_result = Output => runner \in {"fulfilled", "ended"}
    /\ pc[Runner] \in {"idle", "calling"}
    /\ runner # "fulfilled" => pc[Runner] = "idle"
    /\ pc[Owner] \in {"asleep", "woken"} => owner = "asking"
    /\ owner = "answered" => pc[Owner] = "idle"
    /\ \A t \in done : pc[t] = "idle"
    /\ owner = "leaving" =>
          /\ runner \in {"none", "fulfilled", "ended"}
          /\ \A t \in Threads : pc[t] = "idle"

(* Inside the queue are who runs the callback, peers with a promise of     *)
(* their own, and the owner while it waits.                                *)
InCallback(t) == pc[t] = "calling" /\ pcc_to_execute[t] = completion_callback
AtQueue ==
    \A t \in Threads : at_queue[t] # "idle" =>
        \/ InCallback(t)
        \/ t \in Peers \ done /\ pc[t] = "idle"
        \/ t = Owner /\ owner = "waiting" /\ pc[t] = "idle"

(* The owner expects what is in the queue, what the peers have still to    *)
(* push, its own promise until the callback has pushed it, and for ever    *)
(* what was lost: promises whose push is over.  It frees the queue when it *)
(* expects nothing.                                                        *)
Pending == IF promised_callback = completion_callback /\ runs[completion_callback] = 0 THEN 1 ELSE 0
Accounting ==
    /\ expected = Cardinality(Peers \ done) + Len(qp) + Pending + Cardinality(lost)
    /\ lost \subseteq done \cup {Runner}
    /\ Runner \in lost => runs[completion_callback] # 0
    /\ owner \in AfterTheQueue => registered /\ expected = 0

JobRest == LifeInv /\ PromiseFits /\ AtQueue /\ Accounting
JobInv == IInv /\ QueueInv /\ JobRest

-----------------------------------------------------------------------------
(* Steps of the queue                                                      *)

(* Each instance has its own FiniteSets: they agree.                       *)
LEMMA SameSets ==
  ASSUME NEW S
  PROVE  PQ!IsFiniteSet(S) <=> IsFiniteSet(S)
  BY DEF IsFiniteSet, PQ!IsFiniteSet

LEMMA QueueAssumptions == PQ!QueueAssumption
  <1>1. Cardinality(Threads) \in Nat
    BY JobAssumption, FS_CardinalityType
  <1>2. QED
    BY <1>1, SameSets, JobAssumption DEF PQ!QueueAssumption

(* The queue of the job is the queue of the proofs, operator by operator.  *)
LEMMA SameConditions ==
  /\ PQ!PushMustWait <=> promise_completed_queue!PushMustWait
  /\ PQ!PopMustWait <=> promise_completed_queue!PopMustWait
  /\ PQ!CapacitiesForPush = promise_completed_queue!CapacitiesForPush
  /\ PQ!SignalConsumer = promise_completed_queue!SignalConsumer
  /\ PQ!SignalProducer = promise_completed_queue!SignalProducer
  /\ \A n : PQ!CapacitiesAfterPop(n) = promise_completed_queue!CapacitiesAfterPop(n)
  BY DEF PQ!PushMustWait, promise_completed_queue!PushMustWait,
         PQ!PopMustWait, promise_completed_queue!PopMustWait,
         PQ!CapacitiesForPush, promise_completed_queue!CapacitiesForPush,
         PQ!CapacitiesAfterPop, promise_completed_queue!CapacitiesAfterPop,
         PQ!is_full_arraylist, promise_completed_queue!is_full_arraylist,
         PQ!has_sync_queue_capacity_crossed_max_capacity_limits,
         promise_completed_queue!has_sync_queue_capacity_crossed_max_capacity_limits,
         PQ!SignalConsumer, promise_completed_queue!SignalConsumer,
         PQ!SignalProducer, promise_completed_queue!SignalProducer,
         PQ!Signal, promise_completed_queue!Signal,
         PQ!At, promise_completed_queue!At, PQ!In, promise_completed_queue!In

LEMMA SameEnds ==
  ASSUME NEW t
  PROVE  /\ \A v : PQ!FinishPush(t, v) <=> promise_completed_queue!FinishPush(t, v)
         /\ PQ!FinishPop(t) <=> promise_completed_queue!FinishPop(t)
         /\ \A where, v, tmo : PQ!Sleep(t, where, v, tmo)
                                 <=> promise_completed_queue!Sleep(t, where, v, tmo)
  <1>1. \A op, ret, p : PQ!Return(t, op, ret, p) <=> promise_completed_queue!Return(t, op, ret, p)
    BY DEF PQ!Return, promise_completed_queue!Return, PQ!BLOCKING, promise_completed_queue!BLOCKING
  <1>2. PQ!FinishPop(t) <=> promise_completed_queue!FinishPop(t)
    BY <1>1, SameConditions DEF PQ!FinishPop, promise_completed_queue!FinishPop
  <1>3. ASSUME NEW v
        PROVE  PQ!FinishPush(t, v) <=> promise_completed_queue!FinishPush(t, v)
    BY <1>1, SameConditions
    DEF PQ!FinishPush, promise_completed_queue!FinishPush, PQ!state, promise_completed_queue!state
  <1>4. ASSUME NEW where, NEW v, NEW tmo
        PROVE  PQ!Sleep(t, where, v, tmo) <=> promise_completed_queue!Sleep(t, where, v, tmo)
    BY DEF PQ!Sleep, promise_completed_queue!Sleep, PQ!state, promise_completed_queue!state
  <1>5. QED
    BY <1>2, <1>3, <1>4

LEMMA SameCalls ==
  ASSUME NEW t
  PROVE  /\ \A v, tmo : promise_completed_queue!push_sync_queue(t, v, tmo)
                          <=> PQ!push_sync_queue(t, v, tmo)
         /\ promise_completed_queue!resume_push(t) <=> PQ!resume_push(t)
         /\ \A tmo : promise_completed_queue!pop_sync_queue(t, tmo) <=> PQ!pop_sync_queue(t, tmo)
         /\ promise_completed_queue!resume_pop(t) <=> PQ!resume_pop(t)
         /\ promise_completed_queue!SpuriousWakeup(t) <=> PQ!SpuriousWakeup(t)
         /\ promise_completed_queue!BLOCKING = "BLOCKING"
  <1>1. ASSUME NEW v, NEW tmo
        PROVE  promise_completed_queue!push_sync_queue(t, v, tmo) <=> PQ!push_sync_queue(t, v, tmo)
    BY SameConditions, SameEnds
    DEF PQ!push_sync_queue, promise_completed_queue!push_sync_queue,
        PQ!NON_BLOCKING, promise_completed_queue!NON_BLOCKING
  <1>2. promise_completed_queue!resume_push(t) <=> PQ!resume_push(t)
    BY SameConditions, SameEnds DEF PQ!resume_push, promise_completed_queue!resume_push
  <1>3. ASSUME NEW tmo
        PROVE  promise_completed_queue!pop_sync_queue(t, tmo) <=> PQ!pop_sync_queue(t, tmo)
    BY SameConditions, SameEnds
    DEF PQ!pop_sync_queue, promise_completed_queue!pop_sync_queue,
        PQ!NON_BLOCKING, promise_completed_queue!NON_BLOCKING
  <1>4. promise_completed_queue!resume_pop(t) <=> PQ!resume_pop(t)
    BY SameConditions, SameEnds DEF PQ!resume_pop, promise_completed_queue!resume_pop
  <1>5. promise_completed_queue!SpuriousWakeup(t) <=> PQ!SpuriousWakeup(t)
    BY DEF PQ!SpuriousWakeup, promise_completed_queue!SpuriousWakeup,
           PQ!state, promise_completed_queue!state, PQ!counts, promise_completed_queue!counts,
           PQ!calls, promise_completed_queue!calls
  <1>6. QED
    BY <1>1, <1>2, <1>3, <1>4, <1>5 DEF promise_completed_queue!BLOCKING

LEMMA QueueTypes ==
  ASSUME QueueInv
  PROVE  /\ qp \in Seq(Threads \ {Owner}) /\ Len(qp) \in Nat
         /\ capacity \in Nat /\ max_capacity \in Nat /\ Len(qp) <= capacity
         /\ at_queue \in [Threads -> PQ!Places]
         /\ \A t \in Threads : at_queue[t] \in PQ!PushWaits => arg[t] \in Threads \ {Owner}
  <1>1. PQ!TypeOK /\ PQ!CapacityBound /\ QueueSizes \subseteq Nat
    BY JobAssumption DEF QueueInv, PQ!IInv
  <1>2. QED
    BY <1>1 DEF PQ!TypeOK, PQ!CapacityBound, PQ!In

(* What the proofs about the queue know of a step.                         *)
LEMMA QueueInvKept ==
  ASSUME QueueInv, PQ!Next, UNCHANGED is_closed,
         \A t \in Threads : at_queue'[t] \in TimedOut => at_queue[t] \in TimedOut
  PROVE  QueueInv'
  <1>1. PQ!IInv'
    BY QueueAssumptions, PQ!NextIInv DEF QueueInv
  <1>2. PQ!CapacityBound'
    <2>1. PQ!TypeOK
      BY DEF QueueInv, PQ!IInv
    <2>2. QED
      BY <2>1, QueueAssumptions, PQ!NextCapacity DEF QueueInv
  <1>3. QED
    BY <1>1, <1>2 DEF QueueInv

LEMMA QueueInvRests ==
  ASSUME QueueInv, UNCHANGED queue
  PROVE  QueueInv'
  <1>1. UNCHANGED <<qp, capacity, max_capacity, is_closed, q_empty_wait_thread_count,
                    q_full_wait_thread_count, at_queue, arg, timeout, event>>
    BY DEF queue
  <1>2. PQ!IInv'
    BY <1>1 DEF QueueInv, PQ!IInv, PQ!TypeOK, PQ!CountsMatchWaiters, PQ!NoStrandedConsumer, PQ!In, PQ!At
  <1>3. QED
    BY <1>1, <1>2 DEF QueueInv, PQ!CapacityBound

(* Everybody but t stays where it is in the queue, or is woken.            *)
OthersStay(t) ==
    \A u \in Threads \ {t} :
        /\ at_queue'[u] = "idle" <=> at_queue[u] = "idle"
        /\ at_queue'[u] \in TimedOut => at_queue[u] \in TimedOut

(* A push appends when it returns, for the queue is open, or it says that  *)
(* the queue could not expand.                                             *)
LEMMA PushEffects ==
  ASSUME QueueInv, NEW t \in Threads, NEW v \in Threads \ {Owner}, push(t, v)
  PROVE  /\ QueueInv' /\ OthersStay(t)
         /\ \/ at_queue'[t] # "idle" /\ UNCHANGED qp
            \/ at_queue'[t] = "idle" /\ event'.ret = NULL /\ UNCHANGED qp
            \/ at_queue'[t] = "idle" /\ event'.ret # NULL /\ Len(qp') = Len(qp) + 1
  <1> USE QueueTypes
  <1>1. PQ!push_sync_queue(t, v, "BLOCKING") \/ PQ!resume_push(t)
    BY SameCalls DEF push
  <1>2. PICK x \in Threads \ {Owner} :
           \/ \E tmo : PQ!Sleep(t, "push_asleep", x, tmo)
           \/ PQ!FinishPush(t, x)
    <2>1. CASE PQ!push_sync_queue(t, v, "BLOCKING")
      BY <2>1 DEF PQ!push_sync_queue, PQ!NON_BLOCKING
    <2>2. CASE PQ!resume_push(t)
      <3>1. at_queue[t] \in PQ!PushWaits /\ at_queue[t] # "push_timedout"
        BY <2>2 DEF PQ!resume_push, PQ!PushWaits, QueueInv, TimedOut
      <3>2. QED
        BY <2>2, <3>1 DEF PQ!resume_push
    <2>3. QED
      BY <1>1, <2>1, <2>2
  <1>3. PQ!Next
    BY <1>1 DEF PQ!Next, PQ!Call, PQ!Timeouts, PQ!BLOCKING
  <1>4. CASE \E tmo : PQ!Sleep(t, "push_asleep", x, tmo)
    <2>1. at_queue' = [at_queue EXCEPT ![t] = "push_asleep"] /\ UNCHANGED <<qp, is_closed>>
      BY <1>4 DEF PQ!Sleep, PQ!state
    <2>2. OthersStay(t) /\ at_queue'[t] = "push_asleep"
      BY <2>1 DEF OthersStay
    <2>3. \A u \in Threads : at_queue'[u] \in TimedOut => at_queue[u] \in TimedOut
      BY <2>2 DEF OthersStay, TimedOut
    <2>4. QED
      BY <1>3, <2>1, <2>2, <2>3, QueueInvKept
  <1>5. CASE PQ!FinishPush(t, x)
    <2>1. ~is_closed
      BY DEF QueueInv
    <2>2. CASE UNCHANGED <<qp, is_closed>> /\ PQ!Return(t, "push", NULL, at_queue)
      <3>1. at_queue' = [at_queue EXCEPT ![t] = "idle"] /\ event'.ret = NULL
        BY <2>2 DEF PQ!Return
      <3>2. OthersStay(t) /\ at_queue'[t] = "idle"
        BY <3>1 DEF OthersStay
      <3>3. \A u \in Threads : at_queue'[u] \in TimedOut => at_queue[u] \in TimedOut
        BY <3>2 DEF OthersStay, TimedOut
      <3>4. QED
        BY <1>3, <2>2, <3>1, <3>2, <3>3, QueueInvKept
    <2>3. ASSUME NEW p \in PQ!SignalConsumer, qp' = Append(qp, x), UNCHANGED is_closed,
                 PQ!Return(t, "push", x, p)
          PROVE  /\ QueueInv' /\ OthersStay(t) /\ at_queue'[t] = "idle"
                 /\ event'.ret # NULL /\ Len(qp') = Len(qp) + 1
      <3>1. p = at_queue \/ \E u \in Threads : /\ at_queue[u] = "pop_asleep"
                                               /\ p = [at_queue EXCEPT ![u] = "pop_woken"]
        BY <2>3 DEF PQ!SignalConsumer, PQ!Signal, PQ!At, PQ!In
      <3>2. /\ p \in [Threads -> PQ!Places]
            /\ \A u \in Threads : /\ p[u] = "idle" <=> at_queue[u] = "idle"
                                  /\ p[u] \in TimedOut => at_queue[u] \in TimedOut
        BY <3>1 DEF TimedOut, PQ!Places, PQ!PopWaits
      <3>3. at_queue' = [p EXCEPT ![t] = "idle"] /\ event'.ret = x
        BY <2>3 DEF PQ!Return
      <3>4. OthersStay(t) /\ at_queue'[t] = "idle"
        BY <3>2, <3>3 DEF OthersStay
      <3>5. \A u \in Threads : at_queue'[u] \in TimedOut => at_queue[u] \in TimedOut
        BY <3>4 DEF OthersStay, TimedOut
      <3>6. Len(qp') = Len(qp) + 1 /\ x # NULL
        BY <2>3, JobAssumption
      <3>7. QED
        BY <1>3, <2>3, <3>3, <3>4, <3>5, <3>6, QueueInvKept
    <2>4. QED
      BY <1>5, <2>1, <2>2, <2>3 DEF PQ!FinishPush
  <1>6. QED
    BY <1>2, <1>4, <1>5

(* A pop takes something when it returns: the queue is open, and the pop   *)
(* has no time limit.                                                      *)
LEMMA PopEffects ==
  ASSUME QueueInv, NEW t \in Threads,
         \/ promise_completed_queue!pop_sync_queue(t, promise_completed_queue!BLOCKING)
         \/ promise_completed_queue!resume_pop(t)
  PROVE  /\ QueueInv' /\ OthersStay(t)
         /\ \/ at_queue'[t] # "idle" /\ UNCHANGED qp
            \/ at_queue'[t] = "idle" /\ Len(qp') = Len(qp) - 1
  <1> USE QueueTypes
  <1>1. PQ!pop_sync_queue(t, "BLOCKING") \/ PQ!resume_pop(t)
    BY SameCalls
  <1>2. \/ \E tmo : PQ!Sleep(t, "pop_asleep", NULL, tmo)
        \/ PQ!FinishPop(t) /\ ~PQ!PopMustWait
    <2>1. CASE PQ!pop_sync_queue(t, "BLOCKING")
      BY <2>1 DEF PQ!pop_sync_queue, PQ!NON_BLOCKING
    <2>2. CASE PQ!resume_pop(t)
      BY <2>2 DEF PQ!resume_pop, QueueInv, TimedOut
    <2>3. QED
      BY <1>1, <2>1, <2>2
  <1>3. PQ!Next
    BY <1>1 DEF PQ!Next, PQ!Call, PQ!Timeouts, PQ!BLOCKING
  <1>4. CASE \E tmo : PQ!Sleep(t, "pop_asleep", NULL, tmo)
    <2>1. at_queue' = [at_queue EXCEPT ![t] = "pop_asleep"] /\ UNCHANGED <<qp, is_closed>>
      BY <1>4 DEF PQ!Sleep, PQ!state
    <2>2. OthersStay(t) /\ at_queue'[t] = "pop_asleep"
      BY <2>1 DEF OthersStay
    <2>3. \A u \in Threads : at_queue'[u] \in TimedOut => at_queue[u] \in TimedOut
      BY <2>2 DEF OthersStay, TimedOut
    <2>4. QED
      BY <1>3, <2>1, <2>2, <2>3, QueueInvKept
  <1>5. CASE PQ!FinishPop(t) /\ ~PQ!PopMustWait
    <2>1. qp # <<>>
      BY <1>5 DEF QueueInv, PQ!PopMustWait
    <2>2. PICK p \in PQ!SignalProducer :
            /\ qp' = Tail(qp) /\ UNCHANGED is_closed
            /\ PQ!Return(t, "pop", Head(qp), p)
      BY <1>5, <2>1 DEF PQ!FinishPop
    <2>3. p = at_queue \/ \E u \in Threads : /\ at_queue[u] = "push_asleep"
                                             /\ p = [at_queue EXCEPT ![u] = "push_woken"]
      BY DEF PQ!SignalProducer, PQ!Signal, PQ!At, PQ!In
    <2>4. /\ p \in [Threads -> PQ!Places]
          /\ \A u \in Threads : /\ p[u] = "idle" <=> at_queue[u] = "idle"
                                /\ p[u] \in TimedOut => at_queue[u] \in TimedOut
      BY <2>3 DEF TimedOut, PQ!Places, PQ!PushWaits
    <2>5. at_queue' = [p EXCEPT ![t] = "idle"]
      BY <2>2 DEF PQ!Return
    <2>6. OthersStay(t) /\ at_queue'[t] = "idle"
      BY <2>4, <2>5 DEF OthersStay
    <2>7. \A u \in Threads : at_queue'[u] \in TimedOut => at_queue[u] \in TimedOut
      BY <2>6 DEF OthersStay, TimedOut
    <2>8. Len(qp') = Len(qp) - 1
      BY <2>1, <2>2
    <2>9. QED
      BY <1>3, <2>2, <2>6, <2>7, <2>8, QueueInvKept
  <1>6. QED
    BY <1>2, <1>4, <1>5

LEMMA WakeEffects ==
  ASSUME QueueInv, NEW t \in Threads, promise_completed_queue!SpuriousWakeup(t)
  PROVE  /\ QueueInv' /\ UNCHANGED qp
         /\ \A u \in Threads : at_queue'[u] = "idle" <=> at_queue[u] = "idle"
  <1> USE QueueTypes
  <1>1. PQ!SpuriousWakeup(t)
    BY SameCalls
  <1>2. UNCHANGED <<qp, is_closed>>
    BY <1>1 DEF PQ!SpuriousWakeup, PQ!state
  <1>3. \A u \in Threads : /\ at_queue'[u] = "idle" <=> at_queue[u] = "idle"
                           /\ at_queue'[u] \in TimedOut => at_queue[u] \in TimedOut
    BY <1>1 DEF PQ!SpuriousWakeup, TimedOut
  <1>4. QED
    BY <1>1, <1>2, <1>3, QueueInvKept DEF PQ!Next

-----------------------------------------------------------------------------
(* Every step of the job is one of its promise, or leaves the promise      *)
(* alone.                                                                  *)

LEMMA FulfilIsAStep ==
  ASSUME NEW t \in Threads, NEW r \in Results, fulfil(t, r)
  PROVE  [Next]_vars
  BY DEF fulfil, Next

LEMMA PromiseStep ==
  ASSUME [JobNext]_job_vars
  PROVE  [Next]_vars
  <1> USE JobAssumption
  <1>1. CASE UNCHANGED job_vars
    BY <1>1 DEF job_vars
  <1>2. CASE execute_job
    BY <1>2, FulfilIsAStep DEF execute_job
  <1>3. CASE OwnerStep
    <2>1. CASE execute_job_async \/ pop_completed \/ deinitialize_queue \/ delete_promise \/ delete_job
      BY <2>1 DEF execute_job_async, pop_completed, deinitialize_queue, delete_promise, delete_job
    <2>2. CASE cancel_job
      <3>1. fulfil(Owner, NULL) => [Next]_vars
        BY FulfilIsAStep
      <3>2. QED
        BY <2>2, <3>1 DEF cancel_job
    <2>3. CASE register
      BY <2>3 DEF register, Next
    <2>4. CASE get_result
      BY <2>4 DEF get_result, Next
    <2>5. QED
      BY <1>3, <2>1, <2>2, <2>3, <2>4 DEF OwnerStep
  <1>4. ASSUME NEW t \in Peers, use_promise(t) \/ complete_other(t)
        PROVE  [Next]_vars
    BY <1>4 DEF use_promise, complete_other, Peers, Next
  <1>5. ASSUME NEW t \in Threads, run_callback(t) \/ WakeUp(t)
        PROVE  [Next]_vars
    BY <1>5 DEF run_callback, WakeUp, Next
  <1>6. QED
    BY <1>1, <1>2, <1>3, <1>4, <1>5 DEF JobNext

(* What a function of the promise, called by t, does to everybody else,    *)
(* and to t.                                                               *)
OthersWoken(t) ==
    \A u \in Threads \ {t} :
        /\ pcc_to_execute'[u] = pcc_to_execute[u]
        /\ pc'[u] = pc[u] \/ (pc[u] = "asleep" /\ pc'[u] = "woken")

LEMMA ResultSet ==
  ASSUME IInv, NEW t \in Threads, NEW r, set_promised_result(t, r)
  PROVE  /\ OthersWoken(t) /\ pc[t] = "idle" /\ pc'[t] \in {"idle", "calling"}
         /\ ~output_result_ready /\ output_result' = r
         /\ UNCHANGED <<promised_callback, runs>>
  <1>0. /\ pc \in [Threads -> {"idle", "asleep", "woken", "calling"}]
        /\ pcc_to_execute \in [Threads -> Callbacks \cup {NULL}]
    BY DEF IInv, TypeOK
  <1>1. \A u \in Threads : pc'[u] = IF u = t /\ promised_callback # NULL THEN "calling"
                                   ELSE IF pc[u] = "asleep" THEN "woken" ELSE pc[u]
    BY DEF set_promised_result, BroadcastAndRun
  <1>2. \A u \in Threads \ {t} : pcc_to_execute'[u] = pcc_to_execute[u]
    BY <1>0 DEF set_promised_result
  <1>3. pc[t] = "idle"
    BY DEF set_promised_result
  <1>4. OthersWoken(t)
    BY <1>1, <1>2 DEF OthersWoken
  <1>5. QED
    BY <1>1, <1>3, <1>4 DEF set_promised_result

LEMMA ResultAsked ==
  ASSUME IInv, NEW t \in Threads, get_promised_result(t)
  PROVE  /\ OthersWoken(t) /\ pc[t] \in {"idle", "woken"} /\ pc'[t] \in {"idle", "asleep"}
         /\ UNCHANGED <<promise, pcc_to_execute, runs>>
  <1>0. /\ pc \in [Threads -> {"idle", "asleep", "woken", "calling"}]
        /\ pcc_to_execute \in [Threads -> Callbacks \cup {NULL}]
    BY DEF IInv, TypeOK
  <1>1. OthersWoken(t) /\ pc[t] \in {"idle", "woken"} /\ pc'[t] \in {"idle", "asleep"}
    BY <1>0 DEF get_promised_result, OthersWoken, promise
  <1>2. QED
    BY <1>1 DEF get_promised_result

LEMMA CallbackSet ==
  ASSUME IInv, NEW t \in Threads, NEW cb \in Callbacks, set_promised_callback(t, cb)
  PROVE  /\ OthersWoken(t) /\ pc[t] = "idle" /\ pc'[t] \in {"idle", "calling"}
         /\ promised_callback = NULL /\ promised_callback' = cb
         /\ runs[completion_callback] = 0
         /\ UNCHANGED <<output_result_ready, output_result, runs>>
  <1>0. /\ pc \in [Threads -> {"idle", "asleep", "woken", "calling"}]
        /\ pcc_to_execute \in [Threads -> Callbacks \cup {NULL}]
    BY DEF IInv, TypeOK
  <1>1. /\ OthersWoken(t) /\ pc[t] = "idle" /\ pc'[t] \in {"idle", "calling"}
        /\ promised_callback = NULL /\ promised_callback' = cb
        /\ UNCHANGED <<output_result_ready, output_result, runs>>
    <2>1. pc' = pc \/ pc' = [pc EXCEPT ![t] = "calling"]
      BY DEF set_promised_callback
    <2>2. pcc_to_execute' = pcc_to_execute \/ pcc_to_execute' = [pcc_to_execute EXCEPT ![t] = cb]
      BY DEF set_promised_callback
    <2>3. OthersWoken(t)
      BY <1>0, <2>1, <2>2 DEF OthersWoken
    <2>4. QED
      BY <1>0, <2>1, <2>3 DEF set_promised_callback
  <1>2. runs[completion_callback] = 0
    BY <1>1, JobAssumption, PromiseAssumption DEF IInv, CallbackRunsOnce
  <1>3. QED
    BY <1>1, <1>2

LEMMA CallbackRun ==
  ASSUME IInv, NEW t \in Threads, callback_function(t)
  PROVE  /\ OthersWoken(t) /\ pc[t] = "calling" /\ pc'[t] = "idle"
         /\ pcc_to_execute[t] \in Callbacks
         /\ promised_callback = pcc_to_execute[t] /\ runs[pcc_to_execute[t]] = 0
         /\ runs' = [runs EXCEPT ![pcc_to_execute[t]] = 1]
         /\ UNCHANGED promise
  <1>0. /\ pc \in [Threads -> {"idle", "asleep", "woken", "calling"}]
        /\ pcc_to_execute \in [Threads -> Callbacks \cup {NULL}]
    BY DEF IInv, TypeOK
  <1>1. pc[t] = "calling"
    BY DEF callback_function
  <1>2. /\ pcc_to_execute[t] \in Callbacks
        /\ promised_callback = pcc_to_execute[t] /\ runs[pcc_to_execute[t]] = 0
    BY <1>1, RunIsTheOnlyOne
  <1>3. OthersWoken(t) /\ pc'[t] = "idle" /\ UNCHANGED promise
    BY <1>0, <1>1 DEF callback_function, OthersWoken, promise
  <1>4. runs' = [runs EXCEPT ![pcc_to_execute[t]] = 1]
    BY <1>2 DEF callback_function
  <1>5. QED
    BY <1>1, <1>2, <1>3, <1>4

-----------------------------------------------------------------------------
(* The conjuncts of JobRest, as far as most steps leave them alone.        *)

(* Who is inside the queue and does not move stays entitled to be there.   *)
LEMMA AtQueueKept ==
  ASSUME AtQueue,
         \A u \in Threads : at_queue'[u] # "idle" =>
             /\ at_queue[u] # "idle"
             /\ pcc_to_execute'[u] = pcc_to_execute[u]
             /\ pc'[u] = pc[u] \/ pc[u] \in {"asleep", "woken"}
             /\ u \in done' => u \in done
             /\ u = Owner /\ owner = "waiting" => owner' = "waiting"
  PROVE  AtQueue'
  BY DEF AtQueue, InCallback

LEMMA AccountingKept ==
  ASSUME Accounting, UNCHANGED <<expected, done, lost, qp, promised_callback, runs>>,
         owner' \in AfterTheQueue => owner \in AfterTheQueue /\ registered' = registered
  PROVE  Accounting'
  BY DEF Accounting, Pending

LEMMA PendingIsNat == Pending \in {0, 1}
  BY DEF Pending

LEMMA PeersCounted ==
  ASSUME done \subseteq Peers
  PROVE  /\ IsFiniteSet(Peers \ done) /\ Cardinality(Peers \ done) \in Nat
         /\ Cardinality(Peers \ done) = 0 <=> done = Peers
  <1>1. IsFiniteSet(Peers)
    <2>1. Peers \in SUBSET Threads
      BY DEF Peers
    <2>2. QED
      BY <2>1, JobAssumption, FS_Subset
  <1>2. IsFiniteSet(Peers \ done)
    <2>1. Peers \ done \in SUBSET Peers
      OBVIOUS
    <2>2. QED
      BY <1>1, <2>1, FS_Subset
  <1>3. Cardinality(Peers \ done) \in Nat /\ (Cardinality(Peers \ done) = 0 <=> Peers \ done = {})
    BY <1>2, FS_CardinalityType, FS_EmptySet
  <1>4. QED
    BY <1>2, <1>3

LEMMA LostCounted ==
  ASSUME JobInv
  PROVE  /\ IsFiniteSet(lost) /\ Cardinality(lost) \in Nat
         /\ Cardinality(lost) = 0 <=> lost = {}
         /\ \A p : p \notin lost => Cardinality(lost \cup {p}) = Cardinality(lost) + 1
  <1>1. lost \in SUBSET Threads
    BY JobAssumption DEF JobInv, JobRest, Accounting, LifeInv, Peers
  <1>2. IsFiniteSet(lost)
    BY <1>1, JobAssumption, FS_Subset
  <1>3. QED
    BY <1>2, FS_CardinalityType, FS_EmptySet, FS_AddElement

(* A push leaves one promise more in the queue or among the lost ones, if  *)
(* it returns.                                                             *)
LEMMA PushedOrLost ==
  ASSUME JobInv, NEW t \in Threads, NEW p \in Threads \ {Owner}, push(t, p), Lose(t, p), p \notin lost
  PROVE  /\ OthersStay(t)
         /\ \/ at_queue'[t] # "idle" /\ UNCHANGED <<qp, lost>>
            \/ /\ at_queue'[t] = "idle" /\ lost' \subseteq lost \cup {p}
               /\ Len(qp') + Cardinality(lost') = Len(qp) + Cardinality(lost) + 1
               /\ Len(qp') \in Nat /\ Cardinality(lost') \in Nat
  <1>1. /\ OthersStay(t)
        /\ \/ at_queue'[t] # "idle" /\ UNCHANGED qp
           \/ at_queue'[t] = "idle" /\ event'.ret = NULL /\ UNCHANGED qp
           \/ at_queue'[t] = "idle" /\ event'.ret # NULL /\ Len(qp') = Len(qp) + 1
    BY PushEffects DEF JobInv
  <1>2. /\ Cardinality(lost) \in Nat /\ Cardinality(lost \cup {p}) = Cardinality(lost) + 1
        /\ Len(qp) \in Nat
    BY LostCounted, QueueTypes DEF JobInv
  <1>3. QED
    BY <1>1, <1>2 DEF Lose

(* The owner expects no promise any more: nobody is inside the queue, or   *)
(* about to be, and the peers are out of the promise.                      *)
LEMMA NothingExpected ==
  ASSUME JobInv, owner \in AfterTheQueue
  PROVE  /\ done = Peers /\ lost = {} /\ Pending = 0
         /\ \A t \in Threads : at_queue[t] = "idle" /\ pcc_to_execute[t] # completion_callback
  <1>0. /\ LifeInv /\ AtQueue /\ Accounting /\ CallbackRunsOnce
        /\ Len(qp) \in Nat /\ Cardinality(Peers \ done) \in Nat /\ Cardinality(lost) \in Nat
    BY QueueTypes, PeersCounted, LostCounted DEF JobInv, JobRest, IInv, LifeInv
  <1>1. expected = 0
    BY <1>0 DEF Accounting
  <1>2. Cardinality(Peers \ done) = 0 /\ Pending = 0 /\ Cardinality(lost) = 0
    BY <1>0, <1>1, PendingIsNat DEF Accounting
  <1>3. done = Peers /\ lost = {}
    BY <1>0, <1>2, PeersCounted, LostCounted DEF LifeInv
  <1>4. Callers(completion_callback) = {}
    <2>1. promised_callback = completion_callback => runs[completion_callback] # 0
      BY <1>2 DEF Pending
    <2>2. QED
      BY <1>0, <2>1, JobAssumption DEF CallbackRunsOnce
  <1>5. \A t \in Threads : pcc_to_execute[t] # completion_callback
    BY <1>4 DEF Callers
  <1>6. \A t \in Threads : at_queue[t] = "idle"
    BY <1>0, <1>3, <1>5 DEF AtQueue, InCallback, AfterTheQueue
  <1>7. QED
    BY <1>2, <1>3, <1>5, <1>6

(* Nor is the runner in a callback, if it was the one that pushes.         *)
LEMMA NobodyCalls ==
  ASSUME JobInv, owner \in AfterTheQueue, promised_callback = completion_callback
  PROVE  pc[Runner] = "idle"
  <1>1. /\ TypeOK /\ CallbackRunsOnce /\ pc[Runner] \in {"idle", "calling"} /\ Runner \in Threads
        /\ \A t \in Threads : pcc_to_execute[t] # completion_callback
    BY JobAssumption, NothingExpected DEF JobInv, JobRest, IInv, PromiseFits
  <1>2. \A cb \in Callbacks \ {completion_callback} : Callers(cb) = {}
    BY <1>1, PromiseAssumption DEF CallbackRunsOnce
  <1>3. pcc_to_execute[Runner] \notin Callbacks
    BY <1>1, <1>2 DEF Callers
  <1>4. QED
    BY <1>1, <1>3 DEF TypeOK

(* Who has completed its own promise stays out of this one.                *)
LEMMA DoneStayOut ==
  ASSUME LifeInv, PromiseFits, NEW t, t \notin done, OthersWoken(t)
  PROVE  \A u \in done : pc'[u] = "idle"
  BY DEF LifeInv, PromiseFits, OthersWoken, Peers

-----------------------------------------------------------------------------
(* The runner                                                              *)

LEMMA ExecuteKeeps ==
  ASSUME JobInv, execute_job
  PROVE  JobRest'
  <1> USE JobAssumption
  <1>0. /\ IInv /\ LifeInv /\ PromiseFits /\ AtQueue /\ Accounting
        /\ pc \in [Threads -> {"idle", "asleep", "woken", "calling"}]
    BY DEF JobInv, JobRest, IInv, TypeOK
  <1>1. /\ UNCHANGED <<owner, registered, expected, done, lost, freed, qp, at_queue>>
        /\ runner' \in {"running", "fulfilled", "ended"}
        /\ runner \in {"starting", "running", "fulfilled"}
        /\ runner = "fulfilled" => runner' = "ended" /\ pc[Runner] = "idle"
        /\ Runner \notin done
    BY <1>0 DEF execute_job, LifeInv, queue, Peers
  <1>2. LifeInv'
    BY <1>0, <1>1 DEF execute_job, LifeInv, StateOfJob, Settled, BeforeTheEnd, AfterTheQueue
  <1>3. CASE UNCHANGED vars /\ (runner \in {"running", "fulfilled"} => runner' \in {"fulfilled", "ended"})
    <2>1. UNCHANGED <<pc, pcc_to_execute, promised_callback, runs, output_result>>
      BY <1>3 DEF vars, promise
    <2>2. PromiseFits'
      BY <1>0, <1>1, <1>3, <2>1 DEF PromiseFits
    <2>3. AtQueue' /\ Accounting'
      BY <1>0, <1>1, <2>1, AtQueueKept, AccountingKept
    <2>4. QED
      BY <1>2, <2>2, <2>3 DEF JobRest
  <1>4. CASE set_promised_result(Runner, Output) /\ runner' = "fulfilled"
    <2>1. /\ OthersWoken(Runner) /\ pc[Runner] = "idle" /\ pc'[Runner] \in {"idle", "calling"}
          /\ UNCHANGED <<promised_callback, runs>>
      BY <1>0, <1>4, ResultSet
    <2>2. PromiseFits'
      <3>1. \A u \in done' : pc'[u] = "idle"
        BY <1>0, <1>1, <2>1, DoneStayOut
      <3>2. QED
        BY <1>0, <1>1, <1>4, <2>1, <3>1 DEF PromiseFits, OthersWoken
    <2>3. at_queue[Runner] = "idle"
      BY <1>0, <2>1 DEF AtQueue, InCallback, Peers
    <2>4. AtQueue' /\ Accounting'
      BY <1>0, <1>1, <2>1, <2>3, AtQueueKept, AccountingKept DEF OthersWoken
    <2>5. QED
      BY <1>2, <2>2, <2>4 DEF JobRest
  <1>5. QED
    BY <1>3, <1>4 DEF execute_job, fulfil

-----------------------------------------------------------------------------
(* The owner                                                               *)

LEMMA StartKeeps ==
  ASSUME JobInv, execute_job_async
  PROVE  JobRest'
  <1> USE JobAssumption
  <1>0. LifeInv /\ PromiseFits /\ AtQueue /\ Accounting
    BY DEF JobInv, JobRest
  <1>1. UNCHANGED <<job_state, registered, expected, done, lost, freed, qp, at_queue,
                    pc, pcc_to_execute, promised_callback, runs, output_result>>
    BY DEF execute_job_async, vars, promise, queue
  <1>2. /\ owner = "new"
        /\ \/ owner' = "waiting" /\ runner' = "starting"
           \/ owner' = "cancelling" /\ UNCHANGED runner
    BY DEF execute_job_async
  <1>3. LifeInv'
    BY <1>0, <1>1, <1>2 DEF LifeInv, StateOfJob, Settled, BeforeTheEnd, AfterTheQueue
  <1>4. PromiseFits'
    BY <1>0, <1>1, <1>2 DEF PromiseFits, LifeInv, BeforeTheEnd
  <1>5. AtQueue' /\ Accounting'
    BY <1>0, <1>1, <1>2, AtQueueKept, AccountingKept DEF AfterTheQueue
  <1>6. QED
    BY <1>3, <1>4, <1>5 DEF JobRest

LEMMA CancelKeeps ==
  ASSUME JobInv, cancel_job
  PROVE  JobRest'
  <1> USE JobAssumption
  <1>0. IInv /\ LifeInv /\ PromiseFits /\ AtQueue /\ Accounting
    BY DEF JobInv, JobRest
  <1>1. /\ UNCHANGED <<runner, registered, expected, done, lost, freed, qp, at_queue>>
        /\ at_queue[Owner] = "idle"
        /\ owner \in {"cancelling", "cancelled"} /\ owner' \in {"cancelled", "waiting"}
    BY DEF cancel_job, queue, Idle
  <1>2. LifeInv'
    BY <1>0, <1>1 DEF cancel_job, LifeInv, StateOfJob, Settled, BeforeTheEnd, AfterTheQueue
  <1>3. CASE UNCHANGED vars
    <2>1. UNCHANGED <<pc, pcc_to_execute, promised_callback, runs, output_result>>
      BY <1>3 DEF vars, promise
    <2>2. PromiseFits'
      BY <1>0, <1>1, <2>1 DEF PromiseFits
    <2>3. AtQueue' /\ Accounting'
      BY <1>0, <1>1, <2>1, AtQueueKept, AccountingKept DEF AfterTheQueue
    <2>4. QED
      BY <1>2, <2>2, <2>3 DEF JobRest
  <1>4. CASE set_promised_result(Owner, NULL)
    <2>1. /\ OthersWoken(Owner) /\ pc[Owner] = "idle" /\ pc'[Owner] \in {"idle", "calling"}
          /\ output_result' = NULL /\ UNCHANGED <<promised_callback, runs>>
      BY <1>0, <1>4, ResultSet
    <2>2. PromiseFits'
      <3>1. \A u \in done' : pc'[u] = "idle"
        BY <1>0, <1>1, <2>1, DoneStayOut DEF LifeInv, Peers
      <3>2. QED
        BY <1>0, <1>1, <2>1, <3>1 DEF PromiseFits, OthersWoken, LifeInv, BeforeTheEnd
    <2>3. AtQueue' /\ Accounting'
      BY <1>0, <1>1, <2>1, AtQueueKept, AccountingKept DEF AfterTheQueue, OthersWoken
    <2>4. QED
      BY <1>2, <2>2, <2>3 DEF JobRest
  <1>5. QED
    BY <1>3, <1>4 DEF cancel_job, fulfil

LEMMA RegisterKeeps ==
  ASSUME JobInv, register
  PROVE  JobRest'
  <1> USE JobAssumption, PromiseAssumption
  <1>0. IInv /\ LifeInv /\ PromiseFits /\ AtQueue /\ Accounting /\ Len(qp) \in Nat
    BY QueueTypes DEF JobInv, JobRest
  <1>1. /\ UNCHANGED <<job_state, runner, owner, done, lost, freed, qp, at_queue>>
        /\ at_queue[Owner] = "idle" /\ registered'
        /\ owner \in {"new", "waiting"}
    BY DEF register, queue, Idle
  <1>2. LifeInv'
    BY <1>0, <1>1 DEF LifeInv, StateOfJob, Settled
  <1>3. CASE promised_callback # NULL /\ UNCHANGED <<vars, expected>>
    <2>1. UNCHANGED <<pc, pcc_to_execute, promised_callback, runs, output_result, expected>>
      BY <1>3 DEF vars, promise
    <2>2. PromiseFits'
      BY <1>0, <1>1, <1>3, <2>1 DEF PromiseFits
    <2>3. AtQueue' /\ Accounting'
      BY <1>0, <1>1, <2>1, AtQueueKept, AccountingKept DEF AfterTheQueue
    <2>4. QED
      BY <1>2, <2>2, <2>3 DEF JobRest
  <1>4. CASE set_promised_callback(Owner, completion_callback) /\ expected' = expected + 1
    <2>1. /\ OthersWoken(Owner) /\ pc[Owner] = "idle" /\ pc'[Owner] \in {"idle", "calling"}
          /\ promised_callback = NULL /\ promised_callback' = completion_callback
          /\ runs[completion_callback] = 0
          /\ UNCHANGED <<output_result_ready, output_result, runs>>
      BY <1>0, <1>4, CallbackSet
    <2>2. PromiseFits'
      <3>1. \A u \in done' : pc'[u] = "idle"
        BY <1>0, <1>1, <2>1, DoneStayOut DEF LifeInv, Peers
      <3>2. QED
        BY <1>0, <1>1, <2>1, <3>1 DEF PromiseFits, OthersWoken, LifeInv, BeforeTheEnd
    <2>3. AtQueue'
      BY <1>0, <1>1, <2>1, AtQueueKept DEF OthersWoken
    <2>4. Accounting'
      <3>1. Pending = 0 /\ Pending' = 1
        BY <2>1 DEF Pending
      <3>2. Cardinality(Peers \ done) \in Nat /\ Cardinality(lost) \in Nat
        BY <1>0, PeersCounted, LostCounted DEF LifeInv
      <3>3. QED
        BY <1>0, <1>1, <1>4, <2>1, <3>1, <3>2 DEF Accounting, AfterTheQueue
    <2>5. QED
      BY <1>2, <2>2, <2>3, <2>4 DEF JobRest
  <1>5. QED
    BY <1>3, <1>4 DEF register

LEMMA PopKeeps ==
  ASSUME JobInv, pop_completed
  PROVE  JobRest'
  <1> USE JobAssumption
  <1>0. /\ QueueInv /\ LifeInv /\ PromiseFits /\ AtQueue /\ Accounting
        /\ Len(qp) \in Nat /\ Cardinality(Peers \ done) \in Nat /\ Cardinality(lost) \in Nat
    BY QueueTypes, PeersCounted, LostCounted DEF JobInv, JobRest, LifeInv
  <1>1. UNCHANGED <<job_state, runner, owner, registered, done, lost, freed,
                    pc, pcc_to_execute, promised_callback, runs, output_result>>
    BY DEF pop_completed, vars, promise
  <1>2. owner = "waiting" /\ pc[Owner] = "idle"
    BY DEF pop_completed
  <1>3. /\ OthersStay(Owner)
        /\ \/ at_queue'[Owner] # "idle" /\ UNCHANGED qp
           \/ at_queue'[Owner] = "idle" /\ Len(qp') = Len(qp) - 1
    BY <1>0, PopEffects DEF pop_completed
  <1>4. LifeInv'
    BY <1>0, <1>1 DEF LifeInv, StateOfJob, Settled
  <1>5. PromiseFits'
    BY <1>0, <1>1 DEF PromiseFits
  <1>6. AtQueue'
    BY <1>0, <1>1, <1>2, <1>3 DEF AtQueue, InCallback, OthersStay
  <1>7. Accounting'
    <2>1. UNCHANGED <<Pending, Cardinality(Peers \ done)>>
      BY <1>1 DEF Pending
    <2>2. expected' = IF at_queue'[Owner] = "idle" THEN expected - 1 ELSE expected
      BY DEF pop_completed
    <2>3. owner' \notin AfterTheQueue
      BY <1>1, <1>2 DEF AfterTheQueue
    <2>4. expected' = Cardinality(Peers \ done') + Len(qp') + Pending' + Cardinality(lost')
      <3>1. lost' = lost
        BY <1>1
      <3>2. QED
        BY <1>0, <1>3, <2>1, <2>2, <3>1, PendingIsNat DEF Accounting
    <2>5. QED
      BY <1>0, <1>1, <2>3, <2>4 DEF Accounting
  <1>8. QED
    BY <1>4, <1>5, <1>6, <1>7 DEF JobRest

LEMMA FreeingKeeps ==
  ASSUME JobInv, deinitialize_queue \/ delete_promise \/ delete_job
  PROVE  JobRest'
  <1> USE JobAssumption
  <1>0. LifeInv /\ PromiseFits /\ AtQueue /\ Accounting
    BY DEF JobInv, JobRest
  <1>1. UNCHANGED <<job_state, runner, registered, expected, done, lost, qp, at_queue,
                    pc, pcc_to_execute, promised_callback, runs, output_result>>
    BY DEF deinitialize_queue, delete_promise, delete_job, vars, promise, queue
  <1>2. LifeInv'
    BY <1>0, <1>1
    DEF deinitialize_queue, delete_promise, delete_job, LifeInv, StateOfJob, Settled,
        BeforeTheEnd, AfterTheQueue
  <1>3. PromiseFits'
    <2>1. CASE owner' # "leaving" \/ owner = "leaving"
      BY <1>0, <1>1, <2>1
      DEF deinitialize_queue, delete_promise, delete_job, PromiseFits
    <2>2. CASE owner' = "leaving" /\ owner # "leaving"
      <3>1. /\ owner = "answered"
            /\ \/ promised_callback = completion_callback /\ output_result = Output
               \/ Settled
        BY <2>2 DEF deinitialize_queue, delete_promise, delete_job
      <3>2. runner \in {"none", "fulfilled", "ended"}
        BY <1>0, <3>1 DEF PromiseFits, LifeInv, StateOfJob, Settled
      <3>3. pc[Runner] = "idle"
        <4>1. CASE Settled
          BY <1>0, <4>1 DEF PromiseFits, LifeInv, StateOfJob, Settled
        <4>2. CASE promised_callback = completion_callback
          BY <3>1, <4>2, NobodyCalls DEF AfterTheQueue
        <4>3. QED
          BY <3>1, <4>1, <4>2
      <3>4. \A t \in Threads : pc[t] = "idle"
        BY <1>0, <3>1, <3>3, NothingExpected DEF PromiseFits, Peers, AfterTheQueue
      <3>5. QED
        BY <1>0, <1>1, <2>2, <3>2, <3>4 DEF PromiseFits
    <2>3. QED
      BY <2>1, <2>2
  <1>4. AtQueue'
    <2>1. at_queue[Owner] = "idle" \/ UNCHANGED owner \/ owner # "waiting"
      BY DEF deinitialize_queue, delete_promise, delete_job, Idle
    <2>2. QED
      BY <1>0, <1>1, <2>1, AtQueueKept
  <1>5. Accounting'
    <2>1. owner' \in AfterTheQueue => registered /\ expected = 0
      BY <1>0 DEF deinitialize_queue, delete_promise, delete_job, Accounting, AfterTheQueue
    <2>2. QED
      BY <1>0, <1>1, <2>1 DEF Accounting, Pending
  <1>6. QED
    BY <1>2, <1>3, <1>4, <1>5 DEF JobRest

LEMMA GetKeeps ==
  ASSUME JobInv, get_result
  PROVE  JobRest'
  <1> USE JobAssumption
  <1>0. IInv /\ LifeInv /\ PromiseFits /\ AtQueue /\ Accounting
    BY DEF JobInv, JobRest
  <1>1. /\ UNCHANGED <<job_state, runner, registered, expected, done, lost, freed, qp, at_queue>>
        /\ owner = "asking" /\ owner' = IF pc'[Owner] = "idle" THEN "answered" ELSE owner
    BY DEF get_result, queue
  <1>2. /\ OthersWoken(Owner) /\ pc[Owner] \in {"idle", "woken"} /\ pc'[Owner] \in {"idle", "asleep"}
        /\ UNCHANGED <<output_result, promised_callback, pcc_to_execute, runs>>
    BY <1>0, ResultAsked DEF get_result, promise
  <1>3. LifeInv'
    BY <1>0, <1>1 DEF LifeInv, StateOfJob, Settled, BeforeTheEnd, AfterTheQueue
  <1>4. PromiseFits'
    <2>1. \A u \in done' : pc'[u] = "idle"
      BY <1>0, <1>1, <1>2, DoneStayOut DEF LifeInv, Peers
    <2>2. QED
      BY <1>0, <1>1, <1>2, <2>1 DEF PromiseFits, OthersWoken
  <1>5. AtQueue'
    <2>1. at_queue[Owner] = "idle"
      BY <1>0, <1>1, <1>2 DEF AtQueue, InCallback, Peers
    <2>2. QED
      BY <1>0, <1>1, <1>2, <2>1, AtQueueKept DEF OthersWoken
  <1>6. Accounting'
    BY <1>0, <1>1, <1>2, AccountingKept DEF AfterTheQueue
  <1>7. QED
    BY <1>3, <1>4, <1>5, <1>6 DEF JobRest

-----------------------------------------------------------------------------
(* Peers, callbacks and wake-ups                                           *)

LEMMA UseKeeps ==
  ASSUME JobInv, NEW t \in Peers, use_promise(t)
  PROVE  JobRest'
  <1> USE JobAssumption
  <1>0. IInv /\ LifeInv /\ PromiseFits /\ AtQueue /\ Accounting
    BY DEF JobInv, JobRest
  <1>1. /\ UNCHANGED <<job_state, runner, owner, registered, expected, done, lost, freed, qp, at_queue>>
        /\ t \notin done /\ at_queue[t] = "idle"
        /\ t \in Threads /\ t # Owner /\ t # Runner
    BY DEF use_promise, life, queue, Peers
  <1>8. owner # "leaving"
    BY <1>1, NothingExpected DEF AfterTheQueue
  <1>2. /\ OthersWoken(t)
        /\ UNCHANGED runs
        /\ output_result' \in {output_result, NULL}
        /\ \/ UNCHANGED promised_callback
           \/ /\ promised_callback = NULL
              /\ promised_callback' # NULL /\ promised_callback' # completion_callback
    <2>1. CASE set_promised_result(t, NULL)
      BY <1>0, <1>1, <2>1, ResultSet
    <2>2. CASE get_promised_result(t)
      BY <1>0, <1>1, <2>2, ResultAsked DEF promise
    <2>3. ASSUME NEW cb \in Callbacks \ {completion_callback}, set_promised_callback(t, cb)
          PROVE  /\ OthersWoken(t)
                 /\ UNCHANGED <<runs, output_result>>
                 /\ promised_callback = NULL
                 /\ promised_callback' # NULL /\ promised_callback' # completion_callback
      BY <1>0, <1>1, <2>3, CallbackSet, PromiseAssumption
    <2>4. QED
      BY <2>1, <2>2, <2>3 DEF use_promise
  <1>3. LifeInv'
    BY <1>0, <1>1 DEF LifeInv, StateOfJob, Settled
  <1>4. PromiseFits'
    <2>1. \A u \in done' : pc'[u] = "idle"
      BY <1>0, <1>1, <1>2, DoneStayOut
    <2>2. QED
      BY <1>0, <1>1, <1>2, <1>8, <2>1 DEF PromiseFits, OthersWoken
  <1>5. AtQueue'
    BY <1>0, <1>1, <1>2, AtQueueKept DEF OthersWoken
  <1>6. Accounting'
    <2>1. Pending' = Pending
      BY <1>2, JobAssumption, PromiseAssumption DEF Pending
    <2>2. QED
      BY <1>0, <1>1, <1>2, <2>1 DEF Accounting
  <1>7. QED
    BY <1>3, <1>4, <1>5, <1>6 DEF JobRest

LEMMA CompleteKeeps ==
  ASSUME JobInv, NEW t \in Peers, complete_other(t)
  PROVE  JobRest'
  <1> USE JobAssumption
  <1>0. /\ LifeInv /\ PromiseFits /\ AtQueue /\ Accounting
        /\ IsFiniteSet(Peers \ done) /\ Cardinality(Peers \ done) \in Nat
        /\ Len(qp) \in Nat /\ Cardinality(lost) \in Nat
    BY QueueTypes, PeersCounted, LostCounted DEF JobInv, JobRest, LifeInv
  <1>1. /\ UNCHANGED <<job_state, runner, owner, registered, expected, freed,
                       pc, pcc_to_execute, promised_callback, runs, output_result>>
        /\ t \notin done /\ pc[t] = "idle"
        /\ done' = IF at_queue'[t] = "idle" THEN done \cup {t} ELSE done
    BY DEF complete_other, vars, promise
  <1>2. t \in Threads /\ t # Owner /\ t # Runner
    BY DEF Peers
  <1>3. /\ OthersStay(t)
        /\ \/ at_queue'[t] # "idle" /\ UNCHANGED <<qp, lost>>
           \/ /\ at_queue'[t] = "idle" /\ lost' \subseteq lost \cup {t}
              /\ Len(qp') + Cardinality(lost') = Len(qp) + Cardinality(lost) + 1
              /\ Len(qp') \in Nat /\ Cardinality(lost') \in Nat
    <2>1. t \notin lost
      BY <1>0, <1>1, <1>2 DEF Accounting
    <2>2. QED
      BY <1>2, <2>1, PushedOrLost DEF complete_other
  <1>4. LifeInv'
    BY <1>0, <1>1 DEF LifeInv, StateOfJob, Settled
  <1>5. PromiseFits'
    BY <1>0, <1>1 DEF PromiseFits
  <1>6. AtQueue'
    <2>1. ASSUME NEW u \in Threads, at_queue'[u] # "idle", u # t
          PROVE  /\ at_queue[u] # "idle" /\ (u \in done' <=> u \in done)
      BY <1>1, <1>3, <2>1 DEF OthersStay
    <2>2. at_queue'[t] # "idle" => t \in Peers \ done' /\ pc'[t] = "idle"
      BY <1>1
    <2>3. QED
      BY <1>0, <1>1, <2>1, <2>2 DEF AtQueue, InCallback
  <1>7. Accounting'
    <2>1. Pending' = Pending
      BY <1>1 DEF Pending
    <2>2. CASE at_queue'[t] # "idle" /\ UNCHANGED <<qp, lost>>
      BY <1>0, <1>1, <2>1, <2>2 DEF Accounting
    <2>3. CASE /\ at_queue'[t] = "idle" /\ lost' \subseteq lost \cup {t}
               /\ Len(qp') + Cardinality(lost') = Len(qp) + Cardinality(lost) + 1
               /\ Len(qp') \in Nat /\ Cardinality(lost') \in Nat
      <3>1. Peers \ done' = (Peers \ done) \ {t} /\ done' = done \cup {t}
        BY <1>1, <2>3
      <3>2. Cardinality(Peers \ done') = Cardinality(Peers \ done) - 1
        <4>1. t \in Peers \ done
          BY <1>1
        <4>2. Cardinality((Peers \ done) \ {t}) = Cardinality(Peers \ done) - 1
          BY <1>0, <4>1, FS_RemoveElement
        <4>3. QED
          BY <3>1, <4>2
      <3>3. expected' = Cardinality(Peers \ done') + Len(qp') + Pending' + Cardinality(lost')
        BY <1>0, <1>1, <2>1, <2>3, <3>2, PendingIsNat DEF Accounting
      <3>4. lost' \subseteq done' \cup {Runner} /\ (Runner \in lost' => Runner \in lost)
        BY <1>0, <1>2, <2>3, <3>1 DEF Accounting
      <3>5. QED
        BY <1>0, <1>1, <3>3, <3>4 DEF Accounting
    <2>4. QED
      BY <1>3, <2>2, <2>3
  <1>8. QED
    BY <1>4, <1>5, <1>6, <1>7 DEF JobRest

LEMMA CallbackKeeps ==
  ASSUME JobInv, NEW t \in Threads, run_callback(t)
  PROVE  JobRest'
  <1> USE JobAssumption
  <1>0. /\ IInv /\ QueueInv /\ LifeInv /\ PromiseFits /\ AtQueue /\ Accounting
        /\ Len(qp) \in Nat /\ Cardinality(Peers \ done) \in Nat /\ Cardinality(lost) \in Nat
        /\ runs \in [Callbacks -> Nat]
    BY QueueTypes, PeersCounted, LostCounted DEF JobInv, JobRest, LifeInv, IInv, TypeOK
  <1>1. UNCHANGED <<job_state, runner, owner, registered, expected, done, freed>>
    BY DEF run_callback
  <1>2. pc[t] = "calling"
    BY DEF run_callback
  <1>3. LifeInv'
    BY <1>0, <1>1 DEF LifeInv, StateOfJob, Settled
  <1>4. ASSUME callback_function(t)
        PROVE  /\ PromiseFits' /\ OthersWoken(t)
               /\ Pending' = IF pcc_to_execute[t] = completion_callback THEN Pending - 1 ELSE Pending
               /\ runs[completion_callback] # 0 => runs'[completion_callback] # 0
               /\ pcc_to_execute[t] = completion_callback =>
                     runs[completion_callback] = 0 /\ runs'[completion_callback] # 0
    <2>1. /\ OthersWoken(t) /\ pc'[t] = "idle" /\ pcc_to_execute[t] \in Callbacks
          /\ promised_callback = pcc_to_execute[t] /\ runs[pcc_to_execute[t]] = 0
          /\ runs' = [runs EXCEPT ![pcc_to_execute[t]] = 1]
          /\ UNCHANGED <<output_result, promised_callback>>
      BY <1>0, <1>4, CallbackRun DEF promise
    <2>2. PromiseFits'
      <3>1. t \notin done
        BY <1>0, <1>2 DEF PromiseFits
      <3>2. \A u \in done' : pc'[u] = "idle"
        BY <1>0, <1>1, <2>1, <3>1, DoneStayOut
      <3>3. QED
        BY <1>0, <1>1, <1>2, <2>1, <3>2 DEF PromiseFits, OthersWoken
    <2>3. Pending' = IF pcc_to_execute[t] = completion_callback THEN Pending - 1 ELSE Pending
      BY <1>0, <2>1 DEF Pending
    <2>4. runs'[pcc_to_execute[t]] = 1 /\ \A cb \in Callbacks \ {pcc_to_execute[t]} : runs'[cb] = runs[cb]
      BY <1>0, <2>1
    <2>5. QED
      BY <2>1, <2>2, <2>3, <2>4
  <1>5. CASE pcc_to_execute[t] # completion_callback
    <2>1. callback_function(t) /\ UNCHANGED <<lost, qp, at_queue>>
      BY <1>5 DEF run_callback, queue
    <2>2. /\ PromiseFits' /\ OthersWoken(t) /\ Pending' = Pending
          /\ runs[completion_callback] # 0 => runs'[completion_callback] # 0
      BY <1>4, <1>5, <2>1
    <2>3. AtQueue'
      <3>1. at_queue[t] = "idle"
        BY <1>0, <1>2, <1>5 DEF AtQueue, InCallback
      <3>2. QED
        BY <1>0, <1>1, <2>1, <2>2, <3>1, AtQueueKept DEF OthersWoken
    <2>4. Accounting'
      BY <1>0, <1>1, <2>1, <2>2 DEF Accounting
    <2>5. QED
      BY <1>3, <2>2, <2>3, <2>4 DEF JobRest
  <1>6. CASE pcc_to_execute[t] = completion_callback
    <2>1. push(t, Runner) /\ Lose(t, Runner)
      BY <1>6 DEF run_callback
    <2>2. runs[completion_callback] = 0
      BY <1>0, <1>2, <1>6, RunIsTheOnlyOne
    <2>3. Runner \notin lost
      BY <1>0, <2>2 DEF Accounting
    <2>4. /\ OthersStay(t)
          /\ \/ at_queue'[t] # "idle" /\ UNCHANGED <<qp, lost>>
             \/ /\ at_queue'[t] = "idle" /\ lost' \subseteq lost \cup {Runner}
                /\ Len(qp') + Cardinality(lost') = Len(qp) + Cardinality(lost) + 1
                /\ Len(qp') \in Nat /\ Cardinality(lost') \in Nat
      BY <2>1, <2>3, PushedOrLost
    <2>5. CASE at_queue'[t] # "idle" /\ UNCHANGED <<qp, lost>>
      <3>1. UNCHANGED <<pc, pcc_to_execute, promised_callback, runs, output_result>>
        BY <1>6, <2>5 DEF run_callback, vars, promise
      <3>2. PromiseFits' /\ Accounting'
        BY <1>0, <1>1, <2>5, <3>1, AccountingKept DEF PromiseFits
      <3>3. AtQueue'
        BY <1>0, <1>1, <1>2, <1>6, <2>4, <3>1 DEF AtQueue, InCallback, OthersStay
      <3>4. QED
        BY <1>3, <3>2, <3>3 DEF JobRest
    <2>6. CASE /\ at_queue'[t] = "idle" /\ lost' \subseteq lost \cup {Runner}
               /\ Len(qp') + Cardinality(lost') = Len(qp) + Cardinality(lost) + 1
               /\ Len(qp') \in Nat /\ Cardinality(lost') \in Nat
      <3>1. callback_function(t)
        BY <1>6, <2>6 DEF run_callback
      <3>2. /\ PromiseFits' /\ OthersWoken(t) /\ Pending' = Pending - 1
            /\ runs'[completion_callback] # 0
        BY <1>4, <1>6, <3>1
      <3>3. AtQueue'
        BY <1>0, <1>1, <2>4, <2>6, <3>2, AtQueueKept DEF OthersWoken, OthersStay
      <3>4. expected' = Cardinality(Peers \ done') + Len(qp') + Pending' + Cardinality(lost')
        <4>1. expected = Cardinality(Peers \ done) + Len(qp) + Pending + Cardinality(lost)
          BY <1>0 DEF Accounting
        <4>2. expected' = expected /\ Cardinality(Peers \ done') = Cardinality(Peers \ done)
          BY <1>1
        <4>3. /\ Len(qp) \in Nat /\ Cardinality(Peers \ done) \in Nat
              /\ Cardinality(lost) \in Nat /\ Pending \in Nat
          BY <1>0, PendingIsNat
        <4>4. /\ Len(qp') \in Nat /\ Cardinality(lost') \in Nat
              /\ Len(qp') + Cardinality(lost') = Len(qp) + Cardinality(lost) + 1
          BY <2>6
        <4>5. Pending' = Pending - 1
          BY <3>2
        <4>6. QED
          BY <4>1, <4>2, <4>3, <4>4, <4>5
      <3>5. lost' \subseteq done' \cup {Runner}
        <4>1. lost \subseteq done \cup {Runner}
          BY <1>0 DEF Accounting
        <4>2. done' = done /\ lost' \subseteq lost \cup {Runner}
          BY <1>1, <2>6
        <4>3. QED
          BY <4>1, <4>2, Zenon
      <3>6. owner' \in AfterTheQueue => registered' /\ expected' = 0
        <4>1. owner \in AfterTheQueue => registered /\ expected = 0
          BY <1>0 DEF Accounting
        <4>2. QED
          BY <1>1, <4>1
      <3>7. Accounting'
        BY <3>2, <3>4, <3>5, <3>6 DEF Accounting
      <3>8. QED
        BY <1>3, <3>2, <3>3, <3>7 DEF JobRest
    <2>7. QED
      BY <2>4, <2>5, <2>6
  <1>7. QED
    BY <1>5, <1>6

LEMMA WakeKeeps ==
  ASSUME JobInv, NEW t \in Threads, WakeUp(t)
  PROVE  JobRest'
  <1> USE JobAssumption
  <1>0. /\ IInv /\ QueueInv /\ LifeInv /\ PromiseFits /\ AtQueue /\ Accounting
        /\ pc \in [Threads -> {"idle", "asleep", "woken", "calling"}]
    BY DEF JobInv, JobRest, IInv, TypeOK
  <1>1. UNCHANGED <<job_state, runner, owner, registered, expected, done, lost, freed>>
    BY DEF WakeUp, life
  <1>2. LifeInv'
    BY <1>0, <1>1 DEF LifeInv, StateOfJob, Settled
  <1>3. CASE SpuriousWakeup(t) /\ UNCHANGED queue
    <2>1. /\ pc[t] = "asleep" /\ pc' = [pc EXCEPT ![t] = "woken"]
          /\ UNCHANGED <<pcc_to_execute, promised_callback, runs, output_result, qp, at_queue>>
      BY <1>3 DEF SpuriousWakeup, promise, queue
    <2>2. PromiseFits'
      BY <1>0, <1>1, <2>1 DEF PromiseFits
    <2>3. AtQueue' /\ Accounting'
      BY <1>0, <1>1, <2>1, AtQueueKept, AccountingKept
    <2>4. QED
      BY <1>2, <2>2, <2>3 DEF JobRest
  <1>4. CASE promise_completed_queue!SpuriousWakeup(t) /\ UNCHANGED vars
    <2>1. /\ UNCHANGED <<pc, pcc_to_execute, promised_callback, runs, output_result, qp>>
          /\ \A u \in Threads : at_queue'[u] = "idle" <=> at_queue[u] = "idle"
      BY <1>0, <1>4, WakeEffects DEF vars, promise
    <2>2. PromiseFits'
      BY <1>0, <1>1, <2>1 DEF PromiseFits
    <2>3. AtQueue' /\ Accounting'
      BY <1>0, <1>1, <2>1, AtQueueKept, AccountingKept
    <2>4. QED
      BY <1>2, <2>2, <2>3 DEF JobRest
  <1>5. QED
    BY <1>3, <1>4 DEF WakeUp

-----------------------------------------------------------------------------
(* The results about jobs.                                                 *)

LEMMA JobInitEstablishes ==
  ASSUME JobInit
  PROVE  JobInv
  <1> USE JobAssumption, PromiseAssumption
  <1>1. IInv
    BY InitEstablishes DEF JobInit
  <1>2. PQ!Init
    BY DEF JobInit, promise_completed_queue!Init, PQ!Init,
           promise_completed_queue!BLOCKING, PQ!BLOCKING
  <1>3. QueueInv
    <2>1. PQ!IInv /\ PQ!CapacityBound
      BY <1>2, QueueAssumptions, PQ!InitIInv, PQ!InitCapacity
    <2>2. ~is_closed /\ \A t \in Threads : at_queue[t] \notin TimedOut
      BY <1>2 DEF PQ!Init, TimedOut
    <2>3. QED
      BY <2>1, <2>2 DEF QueueInv
  <1>4. LifeInv
    BY DEF JobInit, LifeInv, StateOfJob, Settled, BeforeTheEnd, AfterTheQueue
  <1>5. PromiseFits
    BY DEF JobInit, Init, PromiseFits
  <1>6. AtQueue
    BY <1>2 DEF PQ!Init, AtQueue
  <1>7. Accounting
    <2>1. /\ expected = Cardinality(Peers) /\ done = {} /\ lost = {} /\ qp = <<>> /\ promised_callback = NULL
          /\ owner = "new"
      BY <1>2 DEF JobInit, Init, PQ!Init
    <2>2. Peers \ done = Peers /\ Len(qp) = 0 /\ Pending = 0
      BY <2>1 DEF Pending
    <2>3. Cardinality(Peers \ done) \in Nat /\ Cardinality(lost) = 0
      BY <2>1, PeersCounted, FS_EmptySet
    <2>4. QED
      BY <2>1, <2>2, <2>3 DEF Accounting, AfterTheQueue
  <1>8. QED
    BY <1>1, <1>3, <1>4, <1>5, <1>6, <1>7 DEF JobInv, JobRest

LEMMA QueuePreserved ==
  ASSUME JobInv, [JobNext]_job_vars
  PROVE  QueueInv'
  <1>0. QueueInv
    BY DEF JobInv
  <1>1. CASE UNCHANGED queue
    BY <1>0, <1>1, QueueInvRests
  <1>2. CASE execute_job \/ UNCHANGED job_vars
    BY <1>1, <1>2 DEF execute_job, job_vars
  <1>3. CASE OwnerStep
    <2>1. CASE pop_completed
      BY <1>0, <2>1, PopEffects, JobAssumption DEF pop_completed
    <2>2. QED
      BY <1>1, <1>3, <2>1
      DEF OwnerStep, execute_job_async, cancel_job, register, deinitialize_queue, get_result,
          delete_promise, delete_job
  <1>4. ASSUME NEW t \in Peers, use_promise(t) \/ complete_other(t)
        PROVE  QueueInv'
    <2>1. t \in Threads \ {Owner}
      BY DEF Peers
    <2>2. QED
      BY <1>0, <1>1, <1>4, <2>1, PushEffects DEF use_promise, complete_other
  <1>5. ASSUME NEW t \in Threads, run_callback(t) \/ WakeUp(t)
        PROVE  QueueInv'
    <2>1. Runner \in Threads \ {Owner}
      BY JobAssumption
    <2>2. QED
      BY <1>0, <1>1, <1>5, <2>1, PushEffects, WakeEffects DEF run_callback, WakeUp
  <1>6. QED
    BY <1>2, <1>3, <1>4, <1>5 DEF JobNext

LEMMA JobStepPreserves ==
  ASSUME JobInv, [JobNext]_job_vars
  PROVE  JobInv'
  <1>1. IInv'
    BY PromiseStep, StepPreserves DEF JobInv
  <1>2. QueueInv'
    BY QueuePreserved
  <1>3. JobRest'
    <2>1. CASE UNCHANGED job_vars
      BY <2>1
      DEF job_vars, vars, promise, life, queue, JobInv, JobRest, LifeInv, PromiseFits, AtQueue,
          Accounting, StateOfJob, Settled, InCallback, Pending
    <2>2. QED
      BY <2>1, ExecuteKeeps, StartKeeps, CancelKeeps, RegisterKeeps, PopKeeps, FreeingKeeps,
         GetKeeps, UseKeeps, CompleteKeeps, CallbackKeeps, WakeKeeps
      DEF JobNext, OwnerStep
  <1>4. QED
    BY <1>1, <1>2, <1>3 DEF JobInv

(* The strengthened invariant of a job, its promise and the queue.         *)
THEOREM JobInductive == JobSpec => []JobInv
  BY JobInitEstablishes, JobStepPreserves, PTL DEF JobSpec

(* A job uses its promise as the promise may be used: what was shown of    *)
(* Promise holds of the promise of a job.                                  *)
THEOREM JobUsesPromise == JobSpec => Spec
  <1>1. JobInit => Init
    BY DEF JobInit
  <1>2. [JobNext]_job_vars => [Next]_vars
    BY PromiseStep
  <1>3. QED
    BY <1>1, <1>2, PTL DEF JobSpec, Spec

(* So while a job runs, its callback runs once, nobody sleeps on its       *)
(* result, and whoever shares its promise sees a future.                   *)
THEOREM JobPromiseCorrect ==
  JobSpec => [](CallbackRunsOnce /\ NobodySleepsOnAResult) /\ ImplementsFuture
  BY JobUsesPromise, CallbackOnce, NoGetterStranded, Refinement, PTL

(* What the owner frees is in nobody's use any more, however many peers    *)
(* share the promise and the queue, and whether expansions fail: no thread *)
(* is inside a function of the freed promise, on its way back into one, or *)
(* about to give it to a callback.                                         *)
THEOREM FreedForGood == JobSpec => []NothingUsedAfterFree
  <1>1. JobInv => NothingUsedAfterFree
    <2> SUFFICES ASSUME JobInv PROVE NothingUsedAfterFree
      OBVIOUS
    <2>0. LifeInv /\ PromiseFits
      BY DEF JobInv, JobRest
    <2>1. ASSUME "promise" \in freed
          PROVE  /\ runner \notin {"starting", "running"} /\ owner # "cancelling"
                 /\ \A t \in Threads : pc[t] = "idle"
      BY <2>0, <2>1 DEF LifeInv, PromiseFits
    <2>2. ASSUME "job" \in freed
          PROVE  runner \in {"none", "ended"} /\ owner \notin {"cancelling", "cancelled"}
      BY <2>0, <2>2 DEF LifeInv, StateOfJob, Settled, BeforeTheEnd
    <2>3. ASSUME "queue" \in freed
          PROVE  /\ \A t \in Threads : at_queue[t] = "idle" /\ pcc_to_execute[t] # completion_callback
                 /\ done = Peers
      BY <2>0, <2>3, NothingExpected DEF LifeInv
    <2>4. QED
      BY <2>1, <2>2, <2>3 DEF NothingUsedAfterFree
  <1>2. QED
    BY <1>1, JobInductive, PTL
=============================================================================
