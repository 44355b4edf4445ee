----------------------------- MODULE PeriodicJob -----------------------------
(***************************************************************************)
(* src/src/periodic_job.c: one thread, the runner, that calls a function   *)
(* once per period; callers that set bits of an event vector for it; and   *)
(* callers that wait until it has stopped.  The runner is the only one to  *)
(* change the state: it consumes the events whenever it holds job_lock.    *)
(* One action is one critical section of job_lock; the function runs       *)
(* between two of them.                                                    *)
(*                                                                         *)
(* External, modelled from its use here: pthread condition variables, and  *)
(* the bounded wait, which leaves in its argument the part of the time     *)
(* that has not passed: any part when it was woken, none when it timed out.*)
(***************************************************************************)
EXTENDS Integers, FiniteSets

CONSTANTS Threads,        \* threads that wait for the job to stop, or delete it
          Periods         \* the periods callers give, neither BLOCKING nor NON_BLOCKING

ASSUME PeriodAssumption == Periods \subseteq Nat \ {0} /\ Periods # {}

States == {"PAUSED", "SINGLE_SHOT_ON_PAUSED", "RUNNING", "WAITING",
           "SINGLE_SHOT_ON_WAITING", "SHUTDOWN"}
Stopped == {"PAUSED", "SHUTDOWN"}
Events == {"SHUTDOWN_CALLED", "PAUSE_CALLED", "RESUME_CALLED", "SINGLE_SHOT_CALLED"}

VARIABLES
    state, event_vector, period_in_microseconds,
    runner,                  \* where the runner's thread is
    total_time_waited_for, time_to_wait_for,    \* its local variables
    call,                    \* what each thread waits for in a call
    asleep,                  \* the threads asleep on stop_wait
    freed,
    asked                    \* history: what the last accepted event asks for

job == <<state, event_vector, period_in_microseconds>>
thread == <<runner, total_time_waited_for, time_to_wait_for>>
waiters == <<call, asleep>>
vars == <<job, thread, waiters, freed, asked>>

RunnerPlaces == {"starting",     \* before its first lock
                 "paused",       \* asleep on job_wait, with no limit
                 "waiting",      \* asleep on job_wait, for time_to_wait_for
                 "woken", "timedout",   \* until it owns job_lock again
                 "function",     \* in periodic_job_function, or on its way from or to job_lock
                 "ended"}

Init ==
    /\ state = "PAUSED"
    /\ event_vector = {}
    /\ period_in_microseconds \in Periods
    /\ runner = "starting"
    /\ total_time_waited_for = 0
    /\ time_to_wait_for = 0
    /\ call = [t \in Threads |-> "none"]
    /\ asleep = {}
    /\ freed = FALSE
    /\ asked = "stop"

-----------------------------------------------------------------------------
(* The runner.                                                             *)

(* The state after the events, when the job has waited for `waited'.       *)
Due(waited) == waited >= period_in_microseconds
After(waited) ==
    LET called(e) == e \in event_vector
    IN  CASE state = "SHUTDOWN" \/ called("SHUTDOWN_CALLED") -> "SHUTDOWN"
          [] state = "PAUSED" -> IF called("RESUME_CALLED") THEN "RUNNING"
                                 ELSE IF called("SINGLE_SHOT_CALLED") THEN "SINGLE_SHOT_ON_PAUSED"
                                 ELSE "PAUSED"
          [] state = "SINGLE_SHOT_ON_PAUSED" ->
                 IF called("RESUME_CALLED") THEN "WAITING" ELSE "PAUSED"
          [] OTHER -> IF called("PAUSE_CALLED") THEN "PAUSED"
                      ELSE IF state # "WAITING" THEN "WAITING"
                      ELSE IF called("SINGLE_SHOT_CALLED") THEN "SINGLE_SHOT_ON_WAITING"
                      ELSE IF Due(waited) THEN "RUNNING" ELSE "WAITING"

(* fault: only the event that decided is cleared                           *)
OthersLeft(s) == event_vector \ (CASE s = "SHUTDOWN" -> {"SHUTDOWN_CALLED"}
                                   [] s = "PAUSED" -> {"PAUSE_CALLED"}
                                   [] s = "RUNNING" -> {"RESUME_CALLED"}
                                   [] OTHER -> {"SINGLE_SHOT_CALLED"})
EventsLeft(s) == {}

WakeOne(s) ==                    \* fault: pthread_cond_signal
    IF s \in Stopped /\ asleep # {} THEN \E t \in asleep : asleep' = asleep \ {t}
    ELSE UNCHANGED asleep
WakeWaiters(s) == asleep' = IF s \in Stopped THEN {} ELSE asleep

(* With job_lock, after having waited for `waited' since the last run.     *)
consume_events_and_update_state(waited) ==
    LET s == After(waited)
    IN  /\ state' = s
        /\ event_vector' = EventsLeft(s)
        /\ WakeWaiters(s)
        /\ total_time_waited_for' = waited
        /\ time_to_wait_for' = IF s = "WAITING" THEN period_in_microseconds - waited ELSE 0
        /\ runner' = CASE s = "SHUTDOWN" -> "ended"
                       [] s = "PAUSED" -> "paused"
                       [] s = "WAITING" -> "waiting"
                       [] OTHER -> "function"
        /\ UNCHANGED <<period_in_microseconds, call, freed, asked>>

(* The outer loop: the thread begins, or the function has returned.        *)
periodic_job_runner ==
    /\ runner \in {"starting", "function"}
    /\ consume_events_and_update_state(0)

(* The inner loop: a wait is over, of which wait_time_elapsed has passed.  *)
resume_runner ==
    /\ runner \in {"woken", "timedout"}
    /\ \E wait_time_elapsed \in 0 .. time_to_wait_for :
          /\ runner = "timedout" => wait_time_elapsed = time_to_wait_for
          /\ consume_events_and_update_state(total_time_waited_for + wait_time_elapsed)

NotSignalled == runner           \* fault: the event waits for the next wake-up
Signalled == IF runner \in {"paused", "waiting"} THEN "woken" ELSE runner

(* The time is over, or job_wait wakes its sleeper for no reason.          *)
TimeOut ==
    /\ runner = "waiting"
    /\ runner' = "timedout"
    /\ UNCHANGED <<job, total_time_waited_for, time_to_wait_for, waiters, freed, asked>>
SpuriousWakeup ==
    /\ runner # Signalled
    /\ runner' = Signalled
    /\ UNCHANGED <<job, total_time_waited_for, time_to_wait_for, waiters, freed, asked>>

-----------------------------------------------------------------------------
(* Callers.  By convention nobody calls while the job is being deleted.    *)

InUse == ~freed /\ \A t \in Threads : call[t] # "delete"

(* An event that is accepted; one that is not changes nothing.             *)
Send(e, what) ==
    /\ event_vector' = event_vector \cup {e}
    /\ runner' = Signalled
    /\ asked' = what
    /\ UNCHANGED <<state, period_in_microseconds, total_time_waited_for, time_to_wait_for>>

resume_periodic_job ==
    /\ InUse
    /\ state \in {"PAUSED", "SINGLE_SHOT_ON_PAUSED"}
    /\ Send("RESUME_CALLED", "run")
    /\ UNCHANGED <<waiters, freed>>

pause_periodic_job ==
    /\ InUse
    /\ state \in {"RUNNING", "WAITING", "SINGLE_SHOT_ON_WAITING"}
    /\ Send("PAUSE_CALLED", "stop")
    /\ UNCHANGED <<waiters, freed>>

single_shot_periodic_job ==
    /\ InUse
    /\ state \in {"WAITING", "PAUSED"}
    /\ Send("SINGLE_SHOT_CALLED", "run")
    /\ UNCHANGED <<waiters, freed>>

shutdown_periodic_job ==
    /\ InUse
    /\ state # "SHUTDOWN"
    /\ Send("SHUTDOWN_CALLED", "stop")
    /\ UNCHANGED <<waiters, freed>>

UpdateQuietly(p) ==              \* fault: the runner is left with its old timer
    /\ InUse
    /\ period_in_microseconds' = p
    /\ UNCHANGED <<state, event_vector, thread, waiters, freed, asked>>
update_period_for_periodic_job(p) ==
    /\ InUse
    /\ period_in_microseconds' = p
    /\ runner' = Signalled
    /\ UNCHANGED <<state, event_vector, total_time_waited_for, time_to_wait_for,
                   waiters, freed, asked>>

(* t enters wait_for_pause_or_shutdown ("stop") or wait_for_shutdown.      *)
wait_for(t, what) ==
    /\ InUse
    /\ call[t] = "none"
    /\ call' = [call EXCEPT ![t] = what]
    /\ UNCHANGED <<job, thread, asleep, freed, asked>>

delete_periodic_job(t) ==
    /\ \A u \in Threads : call[u] = "none"
    /\ ~freed
    /\ call' = [call EXCEPT ![t] = "delete"]
    /\ IF state # "SHUTDOWN" THEN Send("SHUTDOWN_CALLED", "stop")
       ELSE UNCHANGED <<job, thread, asked>>
    /\ UNCHANGED <<asleep, freed>>

(* The condition of the loop in both waits, with job_lock.                 *)
OverWhenPaused(what) == state \in Stopped    \* fault: deletion waits for a pause only
Over(what) == state = "SHUTDOWN" \/ (what = "stop" /\ state = "PAUSED")
test(t) ==
    /\ call[t] # "none" /\ t \notin asleep
    /\ IF Over(call[t])
       THEN /\ call' = [call EXCEPT ![t] = "none"]
            /\ freed' = (freed \/ call[t] = "delete")
            /\ UNCHANGED asleep
       ELSE /\ asleep' = asleep \cup {t}
            /\ UNCHANGED <<call, freed>>
    /\ UNCHANGED <<job, thread, asked>>

SpuriousReturn(t) ==
    /\ t \in asleep
    /\ asleep' = asleep \ {t}
    /\ UNCHANGED <<job, thread, call, freed, asked>>

-----------------------------------------------------------------------------
Next ==
    \/ periodic_job_runner \/ resume_runner \/ TimeOut \/ SpuriousWakeup
    \/ resume_periodic_job \/ pause_periodic_job
    \/ single_shot_periodic_job \/ shutdown_periodic_job
    \/ \E p \in Periods : update_period_for_periodic_job(p)
    \/ \E t \in Threads :
          \/ \E what \in {"stop", "shutdown"} : wait_for(t, what)
          \/ delete_periodic_job(t)
          \/ test(t)
          \/ SpuriousReturn(t)

Spec == Init /\ [][Next]_vars

(* The function returns, whoever waits for job_lock gets it in the end,    *)
(* and the runner is not woken so often that none of its waits times out.  *)
(* Nobody has to call.                                                     *)
FairSpec ==
    /\ Spec
    /\ WF_vars(periodic_job_runner) /\ WF_vars(resume_runner)
    /\ SF_vars(TimeOut)
    /\ \A t \in Threads : WF_vars(test(t))

-----------------------------------------------------------------------------
(* The events a job in state s may have accepted.                          *)
Acceptable(s) ==
    {e \in Events :
        \/ e = "SHUTDOWN_CALLED" /\ s # "SHUTDOWN"
        \/ e = "PAUSE_CALLED" /\ s \in {"RUNNING", "WAITING", "SINGLE_SHOT_ON_WAITING"}
        \/ e = "RESUME_CALLED" /\ s \in {"PAUSED", "SINGLE_SHOT_ON_PAUSED"}
        \/ e = "SINGLE_SHOT_CALLED" /\ s \in {"PAUSED", "WAITING"}}

(* Types; every event is consumed in the state it was accepted in.         *)
TypeOK ==
    /\ state \in States
    /\ event_vector \subseteq Acceptable(state)
    /\ period_in_microseconds \in Periods
    /\ runner \in RunnerPlaces
    /\ total_time_waited_for \in Nat /\ time_to_wait_for \in Nat
    /\ call \in [Threads -> {"none", "stop", "shutdown", "delete"}]
    /\ asleep \subseteq {t \in Threads : call[t] # "none"}
    /\ freed \in BOOLEAN
    /\ asked \in {"run", "stop"}

(* While the runner sleeps there is no event it was not woken for, and its *)
(* timer is what is left of the current period, "surely positive", however *)
(* often the period was changed and the wait begun again.                  *)
SleepsForAReason ==
    /\ runner \in {"paused", "waiting"} => event_vector = {}
    /\ runner = "paused" => state = "PAUSED"
    /\ runner = "waiting" =>
          /\ state = "WAITING"
          /\ time_to_wait_for > 0
          /\ total_time_waited_for + time_to_wait_for = period_in_microseconds

(* A job found stopped after a pause or shutdown was accepted, and nothing *)
(* to the contrary since, is not in its function and has no accepted event *)
(* that would make it run: neither one that came together with the pause   *)
(* nor one that was overtaken by it.                                       *)
StoppedIsQuiet ==
    asked = "stop" /\ state \in Stopped =>
        /\ runner # "function"
        /\ "SHUTDOWN_CALLED" \in event_vector
           \/ event_vector \cap {"RESUME_CALLED", "SINGLE_SHOT_CALLED"} = {}

(* Nobody sleeps waiting for what the job has already done.                *)
WaitersAreTold == \A t \in asleep : ~Over(call[t])

(* The memory is freed after the runner has let go of it, and with nobody  *)
(* waiting in it.                                                          *)
FreedWhenEnded == freed => runner = "ended" /\ \A t \in Threads : call[t] = "none"

(* An accepted pause or shutdown stops the job, in whatever state it came. *)
StopsAreHonoured ==
    /\ "PAUSE_CALLED" \in event_vector ~> state \in Stopped
    /\ "SHUTDOWN_CALLED" \in event_vector ~> state = "SHUTDOWN"

(* A wait for a stop returns if the job remains stopped, a wait for a      *)
(* shutdown once it was accepted.                                          *)
WaitersReturn ==
    \A t \in Threads :
        /\ <>[](state \in Stopped) => []<>(call[t] # "stop")
        /\ "SHUTDOWN_CALLED" \in event_vector /\ call[t] # "none" ~> call[t] = "none"
==============================================================================
