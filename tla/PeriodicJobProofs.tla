-------------------------- MODULE PeriodicJobProofs --------------------------
(* Proofs about PeriodicJob, for every set of threads and of periods.      *)
EXTENDS PeriodicJob, TLAPS

(* What the state says of the runner, and a deletion of the other calls.   *)
RunnerFits ==
    /\ runner = "ended" <=> state = "SHUTDOWN"
    /\ runner = "starting" => state = "PAUSED"
    /\ runner = "function" =>
          state \in {"RUNNING", "SINGLE_SHOT_ON_PAUSED", "SINGLE_SHOT_ON_WAITING"}
    /\ runner \in {"woken", "timedout"} => state \in {"PAUSED", "WAITING"}
DeletesAlone ==
    /\ \A t \in Threads : call[t] = "delete" => \A u \in Threads \ {t} : call[u] = "none"
    /\ freed => state = "SHUTDOWN" /\ \A t \in Threads : call[t] = "none"

IInv == TypeOK /\ RunnerFits /\ DeletesAlone /\ SleepsForAReason /\ StoppedIsQuiet /\ WaitersAreTold

-----------------------------------------------------------------------------
(* The runner's decision: the next state, and when it is to wait.          *)
LEMMA AfterFits ==
    ASSUME TypeOK, NEW waited \in Nat,
           waited = 0 \/ state \in {"PAUSED", "WAITING"}
    PROVE  /\ After(waited) \in States
           /\ state = "SHUTDOWN" => After(waited) = "SHUTDOWN"
           /\ After(waited) = "WAITING" => waited < period_in_microseconds
  <1>1. period_in_microseconds \in Nat \ {0}
    BY PeriodAssumption DEF TypeOK
  <1>2. state \in States
    BY DEF TypeOK
  <1> QED
    BY <1>1, <1>2 DEF After, Due, States

(* Whatever it decides, the invariant holds again.                         *)
LEMMA ConsumeKeeps ==
    ASSUME IInv, NEW waited \in Nat,
           waited = 0 \/ state \in {"PAUSED", "WAITING"},
           runner # "ended",
           consume_events_and_update_state(waited)
    PROVE  IInv'
  <1> DEFINE s == After(waited)
  <1>1. /\ s \in States
        /\ s = "WAITING" => waited < period_in_microseconds
    BY AfterFits DEF IInv
  <1>2. /\ period_in_microseconds \in Nat \ {0} /\ period_in_microseconds \in Periods
        /\ UNCHANGED <<period_in_microseconds, call, freed, asked>>
    BY PeriodAssumption DEF IInv, TypeOK, consume_events_and_update_state
  <1>3. /\ state' = s
        /\ event_vector' = {}
        /\ asleep' = IF s \in Stopped THEN {} ELSE asleep
        /\ total_time_waited_for' = waited
        /\ time_to_wait_for' = IF s = "WAITING" THEN period_in_microseconds - waited ELSE 0
        /\ runner' = CASE s = "SHUTDOWN" -> "ended"
                       [] s = "PAUSED" -> "paused"
                       [] s = "WAITING" -> "waiting"
                       [] OTHER -> "function"
    BY DEF consume_events_and_update_state, EventsLeft, WakeWaiters
  <1> HIDE DEF s
  <1>4. TypeOK'
    BY <1>1, <1>2, <1>3 DEF IInv, TypeOK, States, RunnerPlaces, Acceptable, Stopped
  <1>5. RunnerFits'
    BY <1>1, <1>3 DEF RunnerFits, States
  <1>6. DeletesAlone'
    BY <1>2, <1>3 DEF IInv, DeletesAlone, RunnerFits
  <1>7. SleepsForAReason'
    BY <1>1, <1>2, <1>3 DEF SleepsForAReason, States
  <1>8. StoppedIsQuiet'
    BY <1>1, <1>3 DEF StoppedIsQuiet, Stopped, States
  <1>9. WaitersAreTold'
    BY <1>1, <1>2, <1>3 DEF IInv, WaitersAreTold, Over, Stopped
  <1> QED
    BY <1>4, <1>5, <1>6, <1>7, <1>8, <1>9 DEF IInv

(* An event that fits the state wakes the runner; one that asks for a stop *)
(* while the job is stopped can only be a shutdown.                        *)
LEMMA SendKeeps ==
    ASSUME IInv, NEW e \in Acceptable(state), NEW what \in {"run", "stop"},
           e \in {"SHUTDOWN_CALLED", "PAUSE_CALLED"} \/ what = "run",
           Send(e, what), UNCHANGED freed
    PROVE  /\ event_vector' \subseteq Acceptable(state)' /\ asked' \in {"run", "stop"}
           /\ runner' \in RunnerPlaces
           /\ UNCHANGED <<state, period_in_microseconds, total_time_waited_for, time_to_wait_for>>
           /\ RunnerFits' /\ SleepsForAReason' /\ StoppedIsQuiet'
  <1>1. /\ event_vector' = event_vector \cup {e}
        /\ runner' = Signalled
        /\ asked' = what
        /\ UNCHANGED <<state, period_in_microseconds, total_time_waited_for, time_to_wait_for>>
    BY DEF Send
  <1>2. event_vector' \subseteq Acceptable(state)' /\ runner' \in RunnerPlaces
    BY <1>1 DEF IInv, TypeOK, Acceptable, Signalled, RunnerPlaces
  <1>3. RunnerFits' /\ SleepsForAReason'
    BY <1>1 DEF IInv, TypeOK, Signalled, RunnerFits, SleepsForAReason, RunnerPlaces
  <1>4. StoppedIsQuiet'
    BY <1>1 DEF IInv, StoppedIsQuiet, Signalled, Acceptable, Events, Stopped, RunnerFits
  <1> QED
    BY <1>1, <1>2, <1>3, <1>4

(* Only the runner moves, from a sleep to the way back to job_lock.        *)
LEMMA WakeKeeps ==
    ASSUME IInv, NEW place \in {"woken", "timedout"},
           runner \in {"paused", "waiting"}, runner' = place,
           UNCHANGED <<job, total_time_waited_for, time_to_wait_for, waiters, freed, asked>>
    PROVE  IInv'
  BY DEF IInv, TypeOK, RunnerFits, DeletesAlone, SleepsForAReason, StoppedIsQuiet, WaitersAreTold,
         Over, Acceptable, RunnerPlaces, job, waiters

-----------------------------------------------------------------------------
LEMMA InitInv == Init => IInv
  <1> SUFFICES ASSUME Init PROVE IInv
    OBVIOUS
  <1>1. TypeOK
    BY DEF Init, TypeOK, States, RunnerPlaces
  <1>2. RunnerFits /\ SleepsForAReason /\ StoppedIsQuiet
    BY DEF Init, RunnerFits, SleepsForAReason, StoppedIsQuiet
  <1>3. DeletesAlone /\ WaitersAreTold
    BY DEF Init, DeletesAlone, WaitersAreTold
  <1> QED
    BY <1>1, <1>2, <1>3 DEF IInv

LEMMA NextInv == IInv /\ [Next]_vars => IInv'
  <1> SUFFICES ASSUME IInv, [Next]_vars PROVE IInv'
    OBVIOUS
  <1>1. CASE periodic_job_runner
    <2>1. runner # "ended" /\ 0 \in Nat
      BY <1>1 DEF periodic_job_runner
    <2> QED
      BY <1>1, <2>1, ConsumeKeeps DEF periodic_job_runner
  <1>2. CASE resume_runner
    <2>1. PICK e \in 0 .. time_to_wait_for :
             consume_events_and_update_state(total_time_waited_for + e)
      BY <1>2 DEF resume_runner
    <2>2. total_time_waited_for + e \in Nat
      BY DEF IInv, TypeOK
    <2>3. state \in {"PAUSED", "WAITING"} /\ runner # "ended"
      BY <1>2 DEF resume_runner, IInv, RunnerFits
    <2> QED
      BY <2>1, <2>2, <2>3, ConsumeKeeps
  <1>3. CASE TimeOut \/ SpuriousWakeup
    BY <1>3, WakeKeeps DEF TimeOut, SpuriousWakeup, Signalled
  <1>4. CASE resume_periodic_job \/ pause_periodic_job
             \/ single_shot_periodic_job \/ shutdown_periodic_job
    <2>1. PICK e \in Acceptable(state), what \in {"run", "stop"} :
             /\ e \in {"SHUTDOWN_CALLED", "PAUSE_CALLED"} \/ what = "run"
             /\ Send(e, what) /\ UNCHANGED <<waiters, freed>>
      BY <1>4 DEF IInv, TypeOK, States, Acceptable, Events, resume_periodic_job,
                  pause_periodic_job, single_shot_periodic_job, shutdown_periodic_job
    <2>2. /\ event_vector' \subseteq Acceptable(state)' /\ asked' \in {"run", "stop"}
          /\ runner' \in RunnerPlaces
          /\ UNCHANGED <<state, period_in_microseconds, total_time_waited_for, time_to_wait_for>>
          /\ RunnerFits' /\ SleepsForAReason' /\ StoppedIsQuiet'
      BY <2>1, SendKeeps
    <2>3. TypeOK' /\ DeletesAlone' /\ WaitersAreTold'
      BY <2>1, <2>2 DEF IInv, TypeOK, DeletesAlone, WaitersAreTold, Over, waiters
    <2> QED
      BY <2>2, <2>3 DEF IInv
  <1>5. ASSUME NEW p \in Periods, update_period_for_periodic_job(p) PROVE IInv'
    BY <1>5 DEF update_period_for_periodic_job, Signalled, IInv, TypeOK, RunnerFits, DeletesAlone,
                SleepsForAReason, StoppedIsQuiet, WaitersAreTold, Over, Acceptable, RunnerPlaces, waiters
  <1>6. ASSUME NEW t \in Threads, NEW what \in {"stop", "shutdown"}, wait_for(t, what) PROVE IInv'
    <2>1. TypeOK' /\ RunnerFits' /\ SleepsForAReason' /\ StoppedIsQuiet'
      BY <1>6 DEF wait_for, IInv, TypeOK, RunnerFits, SleepsForAReason, StoppedIsQuiet,
                  Acceptable, job, thread
    <2>2. DeletesAlone'
      BY <1>6 DEF wait_for, InUse, IInv, TypeOK, DeletesAlone, job
    <2>3. WaitersAreTold'
      BY <1>6 DEF wait_for, IInv, TypeOK, WaitersAreTold, Over, job
    <2> QED
      BY <2>1, <2>2, <2>3 DEF IInv
  <1>7. ASSUME NEW t \in Threads, delete_periodic_job(t) PROVE IInv'
    <2>1. /\ \A u \in Threads : call[u] = "none"
          /\ ~freed
          /\ call' = [call EXCEPT ![t] = "delete"]
          /\ UNCHANGED <<asleep, freed>>
      BY <1>7 DEF delete_periodic_job
    <2>2. asleep = {}
      BY <2>1 DEF IInv, TypeOK
    <2>3. /\ event_vector' \subseteq Acceptable(state)' /\ asked' \in {"run", "stop"}
          /\ runner' \in RunnerPlaces
          /\ UNCHANGED <<state, period_in_microseconds, total_time_waited_for, time_to_wait_for>>
          /\ RunnerFits' /\ SleepsForAReason' /\ StoppedIsQuiet'
      <3>1. CASE state # "SHUTDOWN"
        <4>1. Send("SHUTDOWN_CALLED", "stop")
          BY <1>7, <3>1 DEF delete_periodic_job
        <4>2. "SHUTDOWN_CALLED" \in Acceptable(state)
          BY <3>1 DEF Acceptable, Events
        <4> QED
          BY <4>1, <4>2, <2>1, SendKeeps
      <3>2. CASE state = "SHUTDOWN"
        <4>1. UNCHANGED <<job, thread, asked>>
          BY <1>7, <3>2 DEF delete_periodic_job
        <4> QED
          BY <4>1 DEF IInv, TypeOK, RunnerFits, SleepsForAReason, StoppedIsQuiet, Acceptable,
                      job, thread
      <3> QED
        BY <3>1, <3>2
    <2>4. TypeOK' /\ DeletesAlone' /\ WaitersAreTold'
      BY <2>1, <2>2, <2>3 DEF IInv, TypeOK, DeletesAlone, WaitersAreTold
    <2> QED
      BY <2>3, <2>4 DEF IInv
  <1>8. ASSUME NEW t \in Threads, test(t) PROVE IInv'
    <2>1. UNCHANGED <<job, thread, asked>>
      BY <1>8 DEF test
    <2>2. RunnerFits' /\ SleepsForAReason' /\ StoppedIsQuiet'
      BY <2>1 DEF IInv, RunnerFits, SleepsForAReason, StoppedIsQuiet, job, thread
    <2>3. CASE Over(call[t])
      <3>1. /\ call' = [call EXCEPT ![t] = "none"]
            /\ freed' = (freed \/ call[t] = "delete")
            /\ asleep' = asleep /\ t \notin asleep
        BY <1>8, <2>3 DEF test
      <3>2. TypeOK'
        BY <2>1, <3>1 DEF IInv, TypeOK, Acceptable, job, thread
      <3>3. DeletesAlone'
        BY <2>1, <2>3, <3>1 DEF IInv, TypeOK, DeletesAlone, Over, job
      <3>4. WaitersAreTold'
        BY <2>1, <3>1 DEF IInv, TypeOK, WaitersAreTold, Over, job
      <3> QED
        BY <2>2, <3>2, <3>3, <3>4 DEF IInv
    <2>4. CASE ~Over(call[t])
      <3>1. asleep' = asleep \cup {t} /\ UNCHANGED <<call, freed>> /\ call[t] # "none"
        BY <1>8, <2>4 DEF test
      <3>2. TypeOK' /\ DeletesAlone' /\ WaitersAreTold'
        BY <2>1, <2>4, <3>1 DEF IInv, TypeOK, DeletesAlone, WaitersAreTold, Over, Acceptable,
                                job, thread
      <3> QED
        BY <2>2, <3>2 DEF IInv
    <2> QED
      BY <2>3, <2>4
  <1>9. ASSUME NEW t \in Threads, SpuriousReturn(t) PROVE IInv'
    BY <1>9 DEF SpuriousReturn, IInv, TypeOK, RunnerFits, DeletesAlone, SleepsForAReason,
                StoppedIsQuiet, WaitersAreTold, Over, Acceptable, job, thread
  <1>10. CASE UNCHANGED vars
    BY <1>10 DEF vars, job, thread, waiters, IInv, TypeOK, RunnerFits, DeletesAlone,
                 SleepsForAReason, StoppedIsQuiet, WaitersAreTold, Over, Acceptable
  <1> QED
    BY <1>1, <1>2, <1>3, <1>4, <1>5, <1>6, <1>7, <1>8, <1>9, <1>10 DEF Next

(* The strengthened invariant holds in every reachable state.              *)
THEOREM Inductive == Spec => []IInv
  BY InitInv, NextInv, PTL DEF Spec

(* Every variable has its type, and an event is pending only in a state    *)
(* that accepts it: it is consumed in the state it was sent to.            *)
THEOREM TypeCorrect == Spec => []TypeOK
  <1>1. IInv => TypeOK
    BY DEF IInv
  <1> QED
    BY <1>1, Inductive, PTL

(* The runner never sleeps over an event, and its timer is never stale: it *)
(* runs for what is left of the current period, which is positive.         *)
THEOREM NoStaleTimer == Spec => []SleepsForAReason
  <1>1. IInv => SleepsForAReason
    BY DEF IInv
  <1> QED
    BY <1>1, Inductive, PTL

(* A job that was told to stop, and is found stopped, does not run again   *)
(* before it is told to.                                                   *)
THEOREM StopHolds == Spec => []StoppedIsQuiet
  <1>1. IInv => StoppedIsQuiet
    BY DEF IInv
  <1> QED
    BY <1>1, Inductive, PTL

(* Whoever waits for a stop is woken by the runner when it stops.          *)
THEOREM NoWaiterForgotten == Spec => []WaitersAreTold
  <1>1. IInv => WaitersAreTold
    BY DEF IInv
  <1> QED
    BY <1>1, Inductive, PTL

(* The memory is freed only when the runner and all waiters have left it.  *)
THEOREM FreedSafely == Spec => []FreedWhenEnded
  <1>1. IInv => FreedWhenEnded
    BY DEF IInv, RunnerFits, DeletesAlone, FreedWhenEnded
  <1> QED
    BY <1>1, Inductive, PTL
==============================================================================
