---------------------------- MODULE AlarmJobProofs ----------------------------
(* Proofs about AlarmJob, for every set of threads and of alarms.          *)
EXTENDS AlarmJob, TLAPS

(* What the state says of the runner, and a deletion of the other calls.   *)
RunnerFits ==
    /\ runner = "ended" <=> state = "AJ_SHUTDOWN"
    /\ runner = "starting" => state = "AJ_PAUSED"
    /\ runner = "function" => state = "AJ_RUNNING"
    /\ runner \in {"woken", "timedout"} => state \in {"AJ_PAUSED", "AJ_WAITING"}
DeletesAlone ==
    /\ \A t \in Threads : call[t] = "delete" => \A u \in Threads \ {t} : call[u] = "none"
    /\ freed => state = "AJ_SHUTDOWN" /\ \A t \in Threads : call[t] = "none"

IInv == TypeOK /\ RunnerFits /\ DeletesAlone /\ SleepsForAReason /\ StoppedIsQuiet /\ NoWakeUpMissed

-----------------------------------------------------------------------------
(* The runner's decision: it waits only for an alarm that is not yet due,  *)
(* set just now or still waited for, and with no wake-up pending.          *)
LEMMA AfterFits ==
    ASSUME TypeOK, NEW waited \in Nat,
           waited = 0 \/ state \in {"AJ_PAUSED", "AJ_WAITING"}
    PROVE  /\ After(waited) \in States
           /\ After(waited) = "AJ_WAITING" =>
                 \/ state = "AJ_RUNNING" /\ waited = 0
                 \/ /\ state = "AJ_WAITING" /\ waited < period_in_microseconds
                    /\ "WAKE_UP_CALLED" \notin event_vector
  <1>1. period_in_microseconds \in Nat
    BY AlarmAssumption DEF TypeOK
  <1>2. state \in States
    BY DEF TypeOK
  <1> QED
    BY <1>1, <1>2 DEF After, States

(* Whatever it decides, the invariant holds again.                         *)
LEMMA ConsumeKeeps ==
    ASSUME IInv, NEW waited \in Nat, NEW period \in Alarms \cup {BLOCKING},
           waited = 0 \/ state \in {"AJ_PAUSED", "AJ_WAITING"},
           period = IF state = "AJ_RUNNING" THEN alarm ELSE period_in_microseconds,
           runner # "ended",
           consume_events_and_update_state(waited, period)
    PROVE  IInv'
  <1> DEFINE s == After(waited)
  <1>1. /\ s \in States
        /\ s = "AJ_WAITING" =>
              \/ state = "AJ_RUNNING" /\ waited = 0
              \/ /\ state = "AJ_WAITING" /\ waited < period_in_microseconds
                 /\ "WAKE_UP_CALLED" \notin event_vector
    BY AfterFits DEF IInv
  <1>2. period \in Nat /\ UNCHANGED <<alarm, call, freed, asked>>
    BY AlarmAssumption DEF consume_events_and_update_state
  <1>3. /\ state' = s
        /\ event_vector' = {}
        /\ asleep' = IF s \in Stopped THEN {} ELSE asleep
        /\ period_in_microseconds' = period
        /\ total_time_waited_for' = waited
        /\ time_to_wait_for' = IF s = "AJ_WAITING" THEN period - waited ELSE 0
        /\ runner' = CASE s = "AJ_SHUTDOWN" -> "ended"
                       [] s = "AJ_PAUSED" -> "paused"
                       [] s = "AJ_WAITING" -> "waiting"
                       [] OTHER -> "function"
    BY DEF consume_events_and_update_state, EventsLeft
  <1>4. s = "AJ_WAITING" => waited <= period /\ (waited > 0 => waited < period)
    BY <1>1, <1>2
  <1> HIDE DEF s
  <1>5. TypeOK'
    BY <1>1, <1>2, <1>3, <1>4 DEF IInv, TypeOK, States, RunnerPlaces, Acceptable, Stopped
  <1>6. RunnerFits'
    BY <1>1, <1>3 DEF RunnerFits, States
  <1>7. DeletesAlone'
    BY <1>2, <1>3 DEF IInv, DeletesAlone, RunnerFits
  <1>8. SleepsForAReason'
    BY <1>1, <1>2, <1>3, <1>4 DEF SleepsForAReason, States
  <1>9. StoppedIsQuiet'
    BY <1>1, <1>3 DEF StoppedIsQuiet, Stopped, States
  <1>10. NoWakeUpMissed'
    BY <1>1, <1>2, <1>3 DEF IInv, NoWakeUpMissed
  <1> QED
    BY <1>5, <1>6, <1>7, <1>8, <1>9, <1>10 DEF IInv

(* An event that fits the state wakes the runner; one that asks for a stop *)
(* while the job is stopped can only be a shutdown.                        *)
LEMMA SendKeeps ==
    ASSUME IInv, NEW e \in Acceptable(state), NEW what \in {"run", "stop"},
           e \in {"SHUTDOWN_CALLED", "PAUSE_CALLED"} \/ what = "run",
           Send(e, what)
    PROVE  /\ event_vector' \subseteq Acceptable(state)' /\ asked' \in {"run", "stop"}
           /\ runner' \in RunnerPlaces
           /\ event_vector \cup {e} = event_vector'
           /\ UNCHANGED <<state, period_in_microseconds, total_time_waited_for, time_to_wait_for>>
           /\ RunnerFits' /\ SleepsForAReason' /\ StoppedIsQuiet'
  <1>1. /\ event_vector' = event_vector \cup {e}
        /\ runner' = Signalled
        /\ asked' = what
        /\ UNCHANGED <<state, period_in_microseconds, total_time_waited_for, time_to_wait_for>>
    BY DEF Send
  <1>2. event_vector' \subseteq Acceptable(state)' /\ runner' \in RunnerPlaces
    BY <1>1 DEF IInv, TypeOK, Acceptable, Signalled, RunnerPlaces
  <1>3. RunnerFits' /\ SleepsForAReason'
    BY <1>1 DEF IInv, TypeOK, Signalled, RunnerFits, SleepsForAReason, RunnerPlaces
  <1>4. StoppedIsQuiet'
    BY <1>1 DEF IInv, StoppedIsQuiet, Signalled, Acceptable, Events, Stopped, RunnerFits
  <1> QED
    BY <1>1, <1>2, <1>3, <1>4

(* Only the runner moves, from a sleep to the way back to job_lock.        *)
LEMMA WakeKeeps ==
    ASSUME IInv, NEW place \in {"woken", "timedout"},
           runner \in {"paused", "waiting"}, runner' = place,
           UNCHANGED <<job, alarm, total_time_waited_for, time_to_wait_for, call, asleep, freed, asked>>
    PROVE  IInv'
  BY DEF IInv, TypeOK, RunnerFits, DeletesAlone, SleepsForAReason, StoppedIsQuiet, NoWakeUpMissed,
         Acceptable, RunnerPlaces, job

-----------------------------------------------------------------------------
LEMMA InitInv == Init => IInv
  <1> SUFFICES ASSUME Init PROVE IInv
    OBVIOUS
  <1>1. TypeOK
    BY DEF Init, TypeOK, States, RunnerPlaces
  <1>2. RunnerFits /\ SleepsForAReason /\ StoppedIsQuiet
    BY DEF Init, RunnerFits, SleepsForAReason, StoppedIsQuiet
  <1>3. DeletesAlone /\ NoWakeUpMissed
    BY DEF Init, DeletesAlone, NoWakeUpMissed
  <1> QED
    BY <1>1, <1>2, <1>3 DEF IInv

LEMMA NextInv == IInv /\ [Next]_vars => IInv'
  <1> SUFFICES ASSUME IInv, [Next]_vars PROVE IInv'
    OBVIOUS
  <1>1. CASE alarm_job_runner
    <2> DEFINE period == IF state = "AJ_RUNNING" THEN alarm ELSE period_in_microseconds
    <2>1. /\ runner # "ended" /\ 0 \in Nat
          /\ period \in Alarms \cup {BLOCKING}
          /\ consume_events_and_update_state(0, period)
      BY <1>1 DEF alarm_job_runner, IInv, TypeOK
    <2> HIDE DEF period
    <2>2. period = IF state = "AJ_RUNNING" THEN alarm ELSE period_in_microseconds
      BY DEF period
    <2> QED
      BY <2>1, <2>2, ConsumeKeeps
  <1>2. CASE resume_runner
    <2>1. PICK e \in 0 .. time_to_wait_for :
             consume_events_and_update_state(total_time_waited_for + e, period_in_microseconds)
      BY <1>2 DEF resume_runner
    <2>2. /\ total_time_waited_for + e \in Nat
          /\ period_in_microseconds \in Alarms \cup {BLOCKING}
      BY DEF IInv, TypeOK
    <2>3. state \in {"AJ_PAUSED", "AJ_WAITING"} /\ runner # "ended"
      BY <1>2 DEF resume_runner, IInv, RunnerFits
    <2>4. period_in_microseconds = IF state = "AJ_RUNNING" THEN alarm ELSE period_in_microseconds
      BY <2>3
    <2> QED
      BY <2>1, <2>2, <2>3, <2>4, ConsumeKeeps
  <1>3. CASE TimeOut \/ SpuriousWakeup
    BY <1>3, WakeKeeps DEF TimeOut, SpuriousWakeup
  <1>4. CASE pause_alarm_job \/ shutdown_alarm_job
    <2>1. PICK e \in Acceptable(state) :
             /\ e \in {"SHUTDOWN_CALLED", "PAUSE_CALLED"}
             /\ Send(e, "stop") /\ UNCHANGED <<alarm, call, asleep, freed>>
      BY <1>4 DEF IInv, TypeOK, States, Acceptable, Events, pause_alarm_job, shutdown_alarm_job
    <2>2. /\ event_vector' \subseteq Acceptable(state)' /\ asked' \in {"run", "stop"}
          /\ runner' \in RunnerPlaces
          /\ event_vector \cup {e} = event_vector'
          /\ UNCHANGED <<state, period_in_microseconds, total_time_waited_for, time_to_wait_for>>
          /\ RunnerFits' /\ SleepsForAReason' /\ StoppedIsQuiet'
      BY <2>1, SendKeeps
    <2>3. TypeOK' /\ DeletesAlone' /\ NoWakeUpMissed'
      BY <2>1, <2>2 DEF IInv, TypeOK, DeletesAlone, NoWakeUpMissed
    <2> QED
      BY <2>2, <2>3 DEF IInv
  <1>5. ASSUME NEW t \in Threads, NEW a \in Alarms, reschedule(t, a) PROVE IInv'
    <2>1. /\ UNCHANGED <<job, thread, asleep, freed, asked>>
          /\ alarm' = a /\ call[t] = "none" /\ call' = [call EXCEPT ![t] = "tell"] /\ InUse
      BY <1>5 DEF reschedule
    <2>2. TypeOK' /\ RunnerFits' /\ SleepsForAReason' /\ StoppedIsQuiet'
      BY <2>1 DEF IInv, TypeOK, RunnerFits, SleepsForAReason, StoppedIsQuiet, Acceptable, job, thread
    <2>3. DeletesAlone'
      BY <2>1 DEF InUse, IInv, TypeOK, DeletesAlone, job
    <2>4. NoWakeUpMissed'
      BY <2>1 DEF IInv, TypeOK, NoWakeUpMissed
    <2> QED
      BY <2>2, <2>3, <2>4 DEF IInv
  <1>6. ASSUME NEW t \in Threads, wake_up_alarm_job(t) PROVE IInv'
    <2>1. /\ UNCHANGED <<alarm, asleep, freed>> /\ InUse
          /\ call[t] \in {"none", "tell"} /\ call' = [call EXCEPT ![t] = "none"]
      BY <1>6 DEF wake_up_alarm_job
    <2>2. /\ event_vector' \subseteq Acceptable(state)' /\ asked' \in {"run", "stop"}
          /\ runner' \in RunnerPlaces
          /\ UNCHANGED <<state, period_in_microseconds, total_time_waited_for, time_to_wait_for>>
          /\ RunnerFits' /\ SleepsForAReason' /\ StoppedIsQuiet'
          /\ state = "AJ_WAITING" => "WAKE_UP_CALLED" \in event_vector'
      <3>1. CASE state \in {"AJ_PAUSED", "AJ_WAITING"}
        <4>1. Send("WAKE_UP_CALLED", "run")
          BY <1>6, <3>1 DEF wake_up_alarm_job
        <4>2. "WAKE_UP_CALLED" \in Acceptable(state)
          BY <3>1 DEF Acceptable, Events
        <4>3. "WAKE_UP_CALLED" \in event_vector'
          BY <4>1 DEF Send
        <4> QED
          BY <4>1, <4>2, <4>3, SendKeeps
      <3>2. CASE state \notin {"AJ_PAUSED", "AJ_WAITING"}
        <4>1. UNCHANGED <<job, thread, asked>>
          BY <1>6, <3>2 DEF wake_up_alarm_job
        <4> QED
          BY <3>2, <4>1 DEF IInv, TypeOK, RunnerFits, SleepsForAReason, StoppedIsQuiet, Acceptable,
                            job, thread
      <3> QED
        BY <3>1, <3>2
    <2>3. TypeOK' /\ NoWakeUpMissed'
      BY <2>1, <2>2 DEF IInv, TypeOK, NoWakeUpMissed
    <2>4. DeletesAlone'
      BY <2>1, <2>2 DEF InUse, IInv, TypeOK, DeletesAlone
    <2> QED
      BY <2>2, <2>3, <2>4 DEF IInv
  <1>7. ASSUME NEW t \in Threads, NEW what \in {"stop", "shutdown"}, wait_for(t, what) PROVE IInv'
    <2>1. /\ UNCHANGED <<job, alarm, thread, asleep, freed, asked>>
          /\ call[t] = "none" /\ call' = [call EXCEPT ![t] = what] /\ InUse
      BY <1>7 DEF wait_for
    <2>2. TypeOK' /\ RunnerFits' /\ SleepsForAReason' /\ StoppedIsQuiet'
      BY <2>1 DEF IInv, TypeOK, RunnerFits, SleepsForAReason, StoppedIsQuiet, Acceptable, job, thread
    <2>3. DeletesAlone'
      BY <2>1 DEF InUse, IInv, TypeOK, DeletesAlone, job
    <2>4. NoWakeUpMissed'
      BY <2>1 DEF IInv, TypeOK, NoWakeUpMissed, job
    <2> QED
      BY <2>2, <2>3, <2>4 DEF IInv
  <1>8. ASSUME NEW t \in Threads, delete_alarm_job(t) PROVE IInv'
    <2>1. /\ \A u \in Threads : call[u] = "none"
          /\ ~freed
          /\ call' = [call EXCEPT ![t] = "delete"]
          /\ UNCHANGED <<alarm, asleep, freed>>
      BY <1>8 DEF delete_alarm_job
    <2>2. asleep = {}
      BY <2>1 DEF IInv, TypeOK
    <2>3. /\ event_vector' \subseteq Acceptable(state)' /\ asked' \in {"run", "stop"}
          /\ runner' \in RunnerPlaces
          /\ event_vector \subseteq event_vector'
          /\ UNCHANGED <<state, period_in_microseconds, total_time_waited_for, time_to_wait_for>>
          /\ RunnerFits' /\ SleepsForAReason' /\ StoppedIsQuiet'
      <3>1. CASE state # "AJ_SHUTDOWN"
        <4>1. Send("SHUTDOWN_CALLED", "stop")
          BY <1>8, <3>1 DEF delete_alarm_job
        <4>2. "SHUTDOWN_CALLED" \in Acceptable(state)
          BY <3>1 DEF Acceptable, Events
        <4>3. event_vector \subseteq event_vector'
          BY <4>1 DEF Send
        <4> QED
          BY <4>1, <4>2, <4>3, SendKeeps
      <3>2. CASE state = "AJ_SHUTDOWN"
        <4>1. UNCHANGED <<job, thread, asked>>
          BY <1>8, <3>2 DEF delete_alarm_job
        <4> QED
          BY <4>1 DEF IInv, TypeOK, RunnerFits, SleepsForAReason, StoppedIsQuiet, Acceptable,
                      job, thread
      <3> QED
        BY <3>1, <3>2
    <2>4. TypeOK' /\ DeletesAlone'
      BY <2>1, <2>2, <2>3 DEF IInv, TypeOK, DeletesAlone
    <2>5. NoWakeUpMissed'
      BY <2>1, <2>3 DEF IInv, TypeOK, NoWakeUpMissed
    <2> QED
      BY <2>3, <2>4, <2>5 DEF IInv
  <1>9. ASSUME NEW t \in Threads, test(t) PROVE IInv'
    <2>1. UNCHANGED <<job, alarm, thread, asked>> /\ call[t] \in {"stop", "shutdown", "delete"}
      BY <1>9 DEF test
    <2>2. RunnerFits' /\ SleepsForAReason' /\ StoppedIsQuiet'
      BY <2>1 DEF IInv, RunnerFits, SleepsForAReason, StoppedIsQuiet, job, thread
    <2>3. CASE Over(call[t])
      <3>1. /\ call' = [call EXCEPT ![t] = "none"]
            /\ freed' = (freed \/ call[t] = "delete")
            /\ asleep' = asleep /\ t \notin asleep
        BY <1>9, <2>3 DEF test
      <3>2. TypeOK'
        BY <2>1, <3>1 DEF IInv, TypeOK, Acceptable, job, thread
      <3>3. DeletesAlone'
        BY <2>1, <2>3, <3>1 DEF IInv, TypeOK, DeletesAlone, Over, job
      <3>4. NoWakeUpMissed'
        BY <2>1, <3>1 DEF IInv, TypeOK, NoWakeUpMissed, job
      <3> QED
        BY <2>2, <3>2, <3>3, <3>4 DEF IInv
    <2>4. CASE ~Over(call[t])
      <3>1. asleep' = asleep \cup {t} /\ UNCHANGED <<call, freed>>
        BY <1>9, <2>4 DEF test
      <3>2. TypeOK' /\ DeletesAlone' /\ NoWakeUpMissed'
        BY <2>1, <3>1 DEF IInv, TypeOK, DeletesAlone, NoWakeUpMissed, Acceptable, job, thread
      <3> QED
        BY <2>2, <3>2 DEF IInv
    <2> QED
      BY <2>3, <2>4
  <1>10. ASSUME NEW t \in Threads, SpuriousReturn(t) PROVE IInv'
    BY <1>10 DEF SpuriousReturn, IInv, TypeOK, RunnerFits, DeletesAlone, SleepsForAReason,
                 StoppedIsQuiet, NoWakeUpMissed, Acceptable, job, thread
  <1>11. CASE UNCHANGED vars
    BY <1>11 DEF vars, job, thread, IInv, TypeOK, RunnerFits, DeletesAlone,
                 SleepsForAReason, StoppedIsQuiet, NoWakeUpMissed, Acceptable
  <1> QED
    BY <1>1, <1>2, <1>3, <1>4, <1>5, <1>6, <1>7, <1>8, <1>9, <1>10, <1>11 DEF Next

(* The strengthened invariant holds in every reachable state.              *)
THEOREM Inductive == Spec => []IInv
  BY InitInv, NextInv, PTL DEF Spec

(* Every variable has its type, and an event is pending only in a state    *)
(* that accepts it: it is consumed in the state it was sent to.            *)
THEOREM TypeCorrect == Spec => []TypeOK
  <1>1. IInv => TypeOK
    BY DEF IInv
  <1> QED
    BY <1>1, Inductive, PTL

(* Whoever changed what the alarm is set from, and then called             *)
(* wake_up_alarm_job, has the job wait for nothing older than the change,  *)
(* even if the call was refused.                                           *)
THEOREM NoChangeMissed == Spec => []NoWakeUpMissed
  <1>1. IInv => NoWakeUpMissed
    BY DEF IInv
  <1> QED
    BY <1>1, Inductive, PTL

(* The runner never sleeps over an event, and its timer is what is left    *)
(* until the alarm.                                                        *)
THEOREM NoStaleTimer == Spec => []SleepsForAReason
  <1>1. IInv => SleepsForAReason
    BY DEF IInv
  <1> QED
    BY <1>1, Inductive, PTL

(* A job that was told to stop, and is found stopped, does not run again   *)
(* before it is told to.                                                   *)
THEOREM StopHolds == Spec => []StoppedIsQuiet
  <1>1. IInv => StoppedIsQuiet
    BY DEF IInv
  <1> QED
    BY <1>1, Inductive, PTL

(* The memory is freed only when the runner and all waiters have left it.  *)
THEOREM FreedSafely == Spec => []FreedWhenEnded
  <1>1. IInv => FreedWhenEnded
    BY DEF IInv, RunnerFits, DeletesAlone, FreedWhenEnded
  <1> QED
    BY <1>1, Inductive, PTL
==============================================================================
