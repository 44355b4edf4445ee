------------------------------- MODULE AlarmJob -------------------------------
(***************************************************************************)
(* src/src/alarm_job.c: one thread, the runner, that calls a function      *)
(* whenever an alarm rings.  alarm_set_function, the user's, says after    *)
(* how long; it is asked under job_lock each time the function has run.    *)
(* Users change what it will answer, in data of their own, and then call   *)
(* wake_up_alarm_job.  As in PeriodicJob only the runner changes the       *)
(* state, and one action is one critical section of job_lock.              *)
(*                                                                         *)
(* External, modelled from its use here: pthread condition variables and   *)
(* the bounded wait, as in PeriodicJob; a wait for BLOCKING has no end and *)
(* leaves its argument as it is.                                           *)
(***************************************************************************)
EXTENDS Integers, FiniteSets

CONSTANTS Threads,        \* threads that reschedule, wait for a stop, or delete
          Alarms,         \* what alarm_set_function may answer
          BLOCKING        \* the largest uint64_t: no alarm

ASSUME AlarmAssumption == BLOCKING \in Nat \ {0} /\ Alarms \subseteq 0 .. BLOCKING

States == {"AJ_PAUSED", "AJ_RUNNING", "AJ_WAITING", "AJ_SHUTDOWN"}
Stopped == {"AJ_PAUSED", "AJ_SHUTDOWN"}
Events == {"SHUTDOWN_CALLED", "PAUSE_CALLED", "WAKE_UP_CALLED"}

VARIABLES
    state, event_vector, period_in_microseconds,
    alarm,                   \* what alarm_set_function would answer now
    runner,                  \* where the runner's thread is, as in PeriodicJob
    total_time_waited_for, time_to_wait_for,
    call,                    \* what each thread is in: a wait for a stop, a deletion, or
                             \* "tell", between changing the alarm and its wake_up_alarm_job
    asleep,                  \* the threads asleep on stop_wait
    freed,
    asked                    \* history: what the last accepted event asks for

job == <<state, event_vector, period_in_microseconds>>
thread == <<runner, total_time_waited_for, time_to_wait_for>>
vars == <<job, alarm, thread, call, asleep, freed, asked>>

RunnerPlaces == {"starting", "paused", "waiting", "woken", "timedout", "function", "ended"}

Init ==
    /\ state = "AJ_PAUSED"
    /\ event_vector = {}
    /\ period_in_microseconds = BLOCKING
    /\ alarm \in Alarms
    /\ runner = "starting"
    /\ total_time_waited_for = 0 /\ time_to_wait_for = 0
    /\ call = [t \in Threads |-> "none"]
    /\ asleep = {}
    /\ freed = FALSE
    /\ asked = "stop"

-----------------------------------------------------------------------------
(* The runner.                                                             *)

(* The state after the events, the job having waited for `waited'.         *)
After(waited) ==
    LET called(e) == e \in event_vector
    IN  CASE state = "AJ_SHUTDOWN" \/ called("SHUTDOWN_CALLED") -> "AJ_SHUTDOWN"
          [] state = "AJ_PAUSED" -> IF called("WAKE_UP_CALLED") THEN "AJ_RUNNING" ELSE "AJ_PAUSED"
          [] OTHER -> IF called("PAUSE_CALLED") THEN "AJ_PAUSED"
                      ELSE IF state = "AJ_RUNNING" THEN "AJ_WAITING"
                      ELSE IF called("WAKE_UP_CALLED") \/ waited >= period_in_microseconds
                      THEN "AJ_RUNNING" ELSE "AJ_WAITING"

PausesLeft(s) ==                 \* fault: a wake-up that came with the pause survives it
    IF s = "AJ_PAUSED" THEN event_vector \ {"PAUSE_CALLED"} ELSE {}
EventsLeft(s) == {}

(* With job_lock, after having waited for `waited' since the last alarm    *)
(* was set for `period'.                                                   *)
consume_events_and_update_state(waited, period) ==
    LET s == After(waited)
    IN  /\ state' = s
        /\ event_vector' = EventsLeft(s)
        /\ asleep' = IF s \in Stopped THEN {} ELSE asleep
        /\ period_in_microseconds' = period
        /\ total_time_waited_for' = waited
        /\ time_to_wait_for' = IF s = "AJ_WAITING" THEN period - waited ELSE 0
        /\ runner' = CASE s = "AJ_SHUTDOWN" -> "ended"
                       [] s = "AJ_PAUSED" -> "paused"
                       [] s = "AJ_WAITING" -> "waiting"
                       [] OTHER -> "function"
        /\ UNCHANGED <<alarm, call, freed, asked>>

(* The outer loop: the thread begins, or the function has returned and the *)
(* alarm is set for the next time.                                         *)
AlarmSetOnce ==                  \* fault: the alarm is not set again
    /\ runner \in {"starting", "function"}
    /\ consume_events_and_update_state(0,
           IF state = "AJ_RUNNING" /\ period_in_microseconds = BLOCKING
           THEN alarm ELSE period_in_microseconds)
alarm_job_runner ==
    /\ runner \in {"starting", "function"}
    /\ consume_events_and_update_state(0,
           IF state = "AJ_RUNNING" THEN alarm ELSE period_in_microseconds)

(* The inner loop: a wait is over, of which wait_time_elapsed has passed.  *)
TimeForgotten ==                 \* fault: only the last wait is counted
    /\ runner \in {"woken", "timedout"}
    /\ \E wait_time_elapsed \in 0 .. time_to_wait_for :
          /\ runner = "timedout" => wait_time_elapsed = time_to_wait_for
          /\ time_to_wait_for = BLOCKING => wait_time_elapsed = 0
          /\ consume_events_and_update_state(wait_time_elapsed, period_in_microseconds)
resume_runner ==
    /\ runner \in {"woken", "timedout"}
    /\ \E wait_time_elapsed \in 0 .. time_to_wait_for :
          /\ runner = "timedout" => wait_time_elapsed = time_to_wait_for
          /\ time_to_wait_for = BLOCKING => wait_time_elapsed = 0
          /\ consume_events_and_update_state(total_time_waited_for + wait_time_elapsed,
                                             period_in_microseconds)

PausedSignalled ==               \* fault: only a paused runner is signalled
    IF runner = "paused" THEN "woken" ELSE runner
Signalled == IF runner \in {"paused", "waiting"} THEN "woken" ELSE runner

(* The alarm rings, or job_wait wakes its sleeper for no reason.           *)
TimeOut ==
    /\ runner = "waiting" /\ time_to_wait_for # BLOCKING
    /\ runner' = "timedout"
    /\ UNCHANGED <<job, alarm, total_time_waited_for, time_to_wait_for, call, asleep, freed, asked>>
SpuriousWakeup ==
    /\ runner \in {"paused", "waiting"}
    /\ runner' = "woken"
    /\ UNCHANGED <<job, alarm, total_time_waited_for, time_to_wait_for, call, asleep, freed, asked>>

-----------------------------------------------------------------------------
(* Callers.  By convention nobody calls while the job is being deleted.    *)

InUse == ~freed /\ \A t \in Threads : call[t] # "delete"

Send(e, what) ==
    /\ event_vector' = event_vector \cup {e}
    /\ runner' = Signalled
    /\ asked' = what
    /\ UNCHANGED <<state, period_in_microseconds, total_time_waited_for, time_to_wait_for>>

pause_alarm_job ==
    /\ InUse
    /\ state \in {"AJ_RUNNING", "AJ_WAITING"}
    /\ Send("PAUSE_CALLED", "stop")
    /\ UNCHANGED <<alarm, call, asleep, freed>>

shutdown_alarm_job ==
    /\ InUse
    /\ state # "AJ_SHUTDOWN"
    /\ Send("SHUTDOWN_CALLED", "stop")
    /\ UNCHANGED <<alarm, call, asleep, freed>>

(* t changes its data, so that the alarm is to be set differently ...      *)
reschedule(t, a) ==
    /\ InUse /\ call[t] = "none"
    /\ alarm' = a
    /\ call' = [call EXCEPT ![t] = "tell"]
    /\ UNCHANGED <<job, thread, asleep, freed, asked>>

(* ... and tells the job, whether or not the call is accepted.             *)
wake_up_alarm_job(t) ==
    /\ InUse /\ call[t] \in {"none", "tell"}
    /\ call' = [call EXCEPT ![t] = "none"]
    /\ IF state \in {"AJ_PAUSED", "AJ_WAITING"} THEN Send("WAKE_UP_CALLED", "run")
       ELSE UNCHANGED <<job, thread, asked>>
    /\ UNCHANGED <<alarm, asleep, freed>>

(* wait_for_pause_or_shutdown ("stop") or wait_for_shutdown.               *)
wait_for(t, what) ==
    /\ InUse /\ call[t] = "none"
    /\ call' = [call EXCEPT ![t] = what]
    /\ UNCHANGED <<job, alarm, thread, asleep, freed, asked>>

delete_alarm_job(t) ==
    /\ ~freed /\ \A u \in Threads : call[u] = "none"
    /\ call' = [call EXCEPT ![t] = "delete"]
    /\ IF state # "AJ_SHUTDOWN" THEN Send("SHUTDOWN_CALLED", "stop")
       ELSE UNCHANGED <<job, thread, asked>>
    /\ UNCHANGED <<alarm, asleep, freed>>

(* The condition of the loop in both waits, with job_lock.                 *)
OverWhenPaused(what) == state \in Stopped    \* fault: deletion waits for a pause only
Over(what) == state = "AJ_SHUTDOWN" \/ (what = "stop" /\ state = "AJ_PAUSED")
test(t) ==
    /\ call[t] \in {"stop", "shutdown", "delete"} /\ t \notin asleep
    /\ IF Over(call[t])
       THEN /\ call' = [call EXCEPT ![t] = "none"]
            /\ freed' = (freed \/ call[t] = "delete")
            /\ UNCHANGED asleep
       ELSE asleep' = asleep \cup {t} /\ UNCHANGED <<call, freed>>
    /\ UNCHANGED <<job, alarm, thread, asked>>

SpuriousReturn(t) ==
    /\ t \in asleep
    /\ asleep' = asleep \ {t}
    /\ UNCHANGED <<job, alarm, thread, call, freed, asked>>

-----------------------------------------------------------------------------
Next ==
    \/ alarm_job_runner \/ resume_runner \/ TimeOut \/ SpuriousWakeup
    \/ pause_alarm_job \/ shutdown_alarm_job
    \/ \E t \in Threads :
          \/ \E a \in Alarms : reschedule(t, a)
          \/ wake_up_alarm_job(t)
          \/ \E what \in {"stop", "shutdown"} : wait_for(t, what)
          \/ delete_alarm_job(t)
          \/ test(t)
          \/ SpuriousReturn(t)

Spec == Init /\ [][Next]_vars

(* The function returns, the lock is obtained, and the runner is not woken *)
(* so often that none of its bounded waits times out.  Nobody has to call. *)
FairSpec ==
    /\ Spec
    /\ WF_vars(alarm_job_runner) /\ WF_vars(resume_runner)
    /\ SF_vars(TimeOut)
    /\ \A t \in Threads : WF_vars(test(t))

-----------------------------------------------------------------------------
(* The events a job in state s may have accepted.                          *)
Acceptable(s) ==
    {e \in Events : \/ e = "SHUTDOWN_CALLED" /\ s # "AJ_SHUTDOWN"
                    \/ e = "PAUSE_CALLED" /\ s \in {"AJ_RUNNING", "AJ_WAITING"}
                    \/ e = "WAKE_UP_CALLED" /\ s \in {"AJ_PAUSED", "AJ_WAITING"}}

(* Types; every event is consumed in the state it was accepted in.         *)
TypeOK ==
    /\ state \in States
    /\ event_vector \subseteq Acceptable(state)
    /\ period_in_microseconds \in Alarms \cup {BLOCKING} /\ alarm \in Alarms
    /\ runner \in RunnerPlaces
    /\ total_time_waited_for \in Nat /\ time_to_wait_for \in Nat
    /\ call \in [Threads -> {"none", "tell", "stop", "shutdown", "delete"}]
    /\ asleep \subseteq {t \in Threads : call[t] \in {"stop", "shutdown", "delete"}}
    /\ freed \in BOOLEAN
    /\ asked \in {"run", "stop"}

(* "in order to not miss updates we grab the next alarming microseconds"   *)
(* under the lock: when everybody who changed the data has called          *)
(* wake_up_alarm_job, accepted or refused, the job either waits for the    *)
(* alarm of the current data or is about to be woken for it.               *)
NoWakeUpMissed ==
    state = "AJ_WAITING" /\ (\A t \in Threads : call[t] # "tell") =>
        "WAKE_UP_CALLED" \in event_vector \/ period_in_microseconds = alarm

(* While the runner sleeps there is no event it was not woken for, and its *)
(* timer, "surely non-negative", is what is left of the time to the alarm: *)
(* nothing only if the alarm is to ring at once.                           *)
SleepsForAReason ==
    /\ runner \in {"paused", "waiting"} => event_vector = {}
    /\ runner = "paused" => state = "AJ_PAUSED"
    /\ runner = "waiting" =>
          /\ state = "AJ_WAITING"
          /\ total_time_waited_for + time_to_wait_for = period_in_microseconds
          /\ total_time_waited_for > 0 => time_to_wait_for > 0

(* A job found stopped after a pause or shutdown was accepted, and no      *)
(* wake-up since, is not in its function, and no wake-up that the pause    *)
(* has overtaken is left to make it run.                                   *)
StoppedIsQuiet ==
    asked = "stop" /\ state \in Stopped =>
        /\ runner # "function"
        /\ "SHUTDOWN_CALLED" \in event_vector \/ "WAKE_UP_CALLED" \notin event_vector

(* The memory is freed after the runner has let go of it, and with nobody  *)
(* waiting in it.                                                          *)
FreedWhenEnded == freed => runner = "ended" /\ \A t \in Threads : call[t] = "none"

(* A wake-up that is accepted with no pause or shutdown pending, which     *)
(* would win over it, makes the job run unless one is accepted later; and  *)
(* an alarm that was set rings, however often the wait is begun again.     *)
AlarmRings ==
    /\ event_vector = {"WAKE_UP_CALLED"} ~> runner = "function" \/ asked = "stop"
    /\ state = "AJ_WAITING" /\ period_in_microseconds # BLOCKING ~> state # "AJ_WAITING"
==============================================================================
