------------------------ MODULE ResourceUsageLimiter ------------------------
(***************************************************************************)
(* src/src/resource_usage_limiter.c: threads request between min and max   *)
(* of a number of resources, wait while there are fewer than min left, and *)
(* give back what they were granted.  Every function is one critical       *)
(* section of resource_limiter_lock, except that it gives the lock up      *)
(* while it sleeps on resource_limiter_wait, the one condition variable    *)
(* requesters and the deleting thread share.                               *)
(*                                                                         *)
(* A thread gives back what it holds and no more.  Deletion may come while *)
(* others are inside a request; the model ends where the memory is freed.  *)
(***************************************************************************)
EXTENDS Integers, FiniteSets

CONSTANTS Threads,
          BreakOuts,        \* the break_resource_waiting variables
          MaxCount          \* bound: no resource_count given is larger

ASSUME LimiterAssumption ==
    IsFiniteSet(Threads) /\ BreakOuts # {} /\ MaxCount \in Nat \ {0}

VARIABLES
    resource_count, resource_granted_count, shutdown_requested,
    break_out,              \* the value of each break_resource_waiting
    pc,                     \* where each thread is in its request
    request,                \* the arguments of the request each thread is in
    granted,                \* what each thread holds
    deletion                \* where the thread that deletes the limiter is

limiter == <<resource_count, resource_granted_count, shutdown_requested>>
vars == <<limiter, break_out, pc, request, granted, deletion>>

Timeouts == {"BLOCKING", "NON_BLOCKING", "timed"}
Requests == {r \in [min : 0..MaxCount, max : 1..MaxCount, timeout : Timeouts, break : BreakOuts] :
                r.min <= r.max}
NoRequest == [min |-> 0, max |-> 1, timeout |-> "BLOCKING", break |-> CHOOSE b \in BreakOuts : TRUE]
Deletions == {"none", "checking", "asleep", "destroying", "over"}

Init ==
    /\ resource_count \in 1..MaxCount
    /\ resource_granted_count = 0
    /\ shutdown_requested = FALSE
    /\ break_out = [b \in BreakOuts |-> FALSE]
    /\ pc = [t \in Threads |-> "idle"]
    /\ request = [t \in Threads |-> NoRequest]
    /\ granted = [t \in Threads |-> 0]
    /\ deletion = "none"

-----------------------------------------------------------------------------
(* Everybody asleep on resource_limiter_wait wakes up.                     *)
Broadcast ==
    /\ pc' = [t \in Threads |-> IF pc[t] = "asleep" THEN "woken" ELSE pc[t]]
    /\ deletion' = IF deletion = "asleep" THEN "checking" ELSE deletion

LeftWrapsAround ==                \* fault: an unsigned difference below zero is huge
    IF resource_count >= resource_granted_count THEN resource_count - resource_granted_count ELSE MaxCount
get_resources_left ==
    IF resource_count >= resource_granted_count THEN resource_count - resource_granted_count ELSE 0

MustWait(r) ==
    /\ ~shutdown_requested /\ ~break_out[r.break]
    /\ get_resources_left < r.min
    /\ r.min <= resource_count

(* Out of n left a request gets as much as it can use.                     *)
Grant(n, r) == IF n > r.max THEN r.max ELSE n

Leave(t) == pc' = [pc EXCEPT ![t] = "idle"] /\ request' = [request EXCEPT ![t] = NoRequest]

(* A request from its last check on.                                       *)
FinishRequest(t, r) ==
    /\ Leave(t)
    /\ UNCHANGED <<resource_count, shutdown_requested, break_out, deletion>>
    /\ IF ~shutdown_requested /\ ~break_out[r.break] /\ get_resources_left >= r.min
       THEN /\ resource_granted_count' = resource_granted_count + Grant(get_resources_left, r)
            /\ granted' = [granted EXCEPT ![t] = @ + Grant(get_resources_left, r)]
       ELSE UNCHANGED <<resource_granted_count, granted>>

SleepUntilWoken(t, r) ==
    /\ pc' = [pc EXCEPT ![t] = "asleep"]
    /\ request' = [request EXCEPT ![t] = r]
    /\ UNCHANGED <<limiter, break_out, granted, deletion>>

request_resources(t, r) ==
    /\ pc[t] = "idle" /\ deletion # "over"
    /\ \/ /\ MustWait(r) /\ r.timeout # "NON_BLOCKING"
          /\ SleepUntilWoken(t, r)
       \/ /\ ~MustWait(r) \/ r.timeout = "NON_BLOCKING"
          /\ FinishRequest(t, r)

resume_request(t) ==
    /\ deletion # "over"
    /\ \/ /\ pc[t] = "woken" /\ MustWait(request[t])
          /\ SleepUntilWoken(t, request[t])
       \/ /\ pc[t] = "timedout" \/ (pc[t] = "woken" /\ ~MustWait(request[t]))
          /\ FinishRequest(t, request[t])

GiveBackSilently(t, n) ==         \* fault: nobody is woken
    /\ n \in 1..granted[t] /\ pc[t] = "idle" /\ deletion # "over"
    /\ resource_granted_count >= n
    /\ resource_granted_count' = resource_granted_count - n
    /\ granted' = [granted EXCEPT ![t] = @ - n]
    /\ UNCHANGED <<resource_count, shutdown_requested, break_out, pc, request, deletion>>
give_back_resources(t, n) ==
    /\ n \in 1..granted[t] /\ pc[t] = "idle" /\ deletion # "over"
    /\ resource_granted_count >= n
    /\ resource_granted_count' = resource_granted_count - n
    /\ granted' = [granted EXCEPT ![t] = @ - n]
    /\ UNCHANGED <<resource_count, shutdown_requested, break_out, request>>
    /\ IF get_resources_left' > 0 THEN Broadcast ELSE UNCHANGED <<pc, deletion>>

WakeOnlyIfRaised(n) ==            \* fault: no wake-up when the count shrinks
    /\ deletion # "over" /\ n # 0 /\ ~shutdown_requested
    /\ resource_count' = n
    /\ IF n > resource_count THEN Broadcast ELSE UNCHANGED <<pc, deletion>>
    /\ UNCHANGED <<resource_granted_count, shutdown_requested, break_out, request, granted>>
set_resource_count(n) ==
    /\ deletion # "over" /\ n # 0 /\ ~shutdown_requested
    /\ resource_count' = n
    /\ IF n # resource_count THEN Broadcast ELSE UNCHANGED <<pc, deletion>>
    /\ UNCHANGED <<resource_granted_count, shutdown_requested, break_out, request, granted>>

(* Somebody breaks out all that wait with b; its owner sets the variable   *)
(* to INIT_BREAK_OUT again once no request uses it.                        *)
BreakOutUnnoticed(b) ==           \* fault: nobody is woken
    /\ deletion # "over" /\ ~break_out[b]
    /\ break_out' = [break_out EXCEPT ![b] = TRUE]
    /\ UNCHANGED <<limiter, pc, request, granted, deletion>>
break_out_from_resource_usage_limiter(b) ==
    /\ deletion # "over" /\ ~break_out[b]
    /\ break_out' = [break_out EXCEPT ![b] = TRUE]
    /\ Broadcast
    /\ UNCHANGED <<limiter, request, granted>>
init_break_out(b) ==
    /\ break_out[b] /\ \A t \in Threads : pc[t] = "idle" \/ request[t].break # b
    /\ break_out' = [break_out EXCEPT ![b] = FALSE]
    /\ UNCHANGED <<limiter, pc, request, granted, deletion>>

shutdown_resource_usage_limiter ==
    /\ deletion # "over"
    /\ shutdown_requested' = TRUE
    /\ Broadcast
    /\ UNCHANGED <<resource_count, resource_granted_count, break_out, request, granted>>

(* Deletion shuts the limiter down, waits if so asked, and frees it.       *)
delete_resource_usage_limiter(wait_for_resources) ==
    /\ deletion = "none"
    /\ shutdown_requested' = TRUE
    /\ pc' = [t \in Threads |-> IF pc[t] = "asleep" THEN "woken" ELSE pc[t]]
    /\ deletion' = IF wait_for_resources THEN "checking" ELSE "destroying"
    /\ UNCHANGED <<resource_count, resource_granted_count, break_out, request, granted>>
WaitForOneResource ==             \* fault: content with one resource left
    /\ deletion = "checking"
    /\ deletion' = IF get_resources_left = 0 THEN "asleep" ELSE "destroying"
    /\ UNCHANGED <<limiter, break_out, pc, request, granted>>
wait_for_resources_to_be_returned ==
    /\ deletion = "checking"
    /\ deletion' = IF resource_granted_count > 0 THEN "asleep" ELSE "destroying"
    /\ UNCHANGED <<limiter, break_out, pc, request, granted>>
free ==
    /\ deletion = "destroying" /\ deletion' = "over"
    /\ UNCHANGED <<limiter, break_out, pc, request, granted>>

(* A wait ends for no reason, or times out, maybe when it was woken too.   *)
WakeUp(t) ==
    /\ deletion # "over"
    /\ \/ /\ pc[t] = "asleep"
          /\ pc' = [pc EXCEPT ![t] = "woken"]
       \/ /\ request[t].timeout = "timed" /\ pc[t] \in {"asleep", "woken"}
          /\ pc' = [pc EXCEPT ![t] = "timedout"]
    /\ UNCHANGED <<limiter, break_out, request, granted, deletion>>
WakeDeletion ==
    /\ deletion = "asleep" /\ deletion' = "checking"
    /\ UNCHANGED <<limiter, break_out, pc, request, granted>>

-----------------------------------------------------------------------------
Next ==
    \/ \E t \in Threads :
          \/ \E r \in Requests : request_resources(t, r)
          \/ resume_request(t)
          \/ \E n \in 1..MaxCount : give_back_resources(t, n)
          \/ WakeUp(t)
    \/ \E b \in BreakOuts : break_out_from_resource_usage_limiter(b) \/ init_break_out(b)
    \/ \E n \in 0..MaxCount : set_resource_count(n)
    \/ shutdown_resource_usage_limiter
    \/ \E w \in BOOLEAN : delete_resource_usage_limiter(w)
    \/ wait_for_resources_to_be_returned
    \/ free
    \/ WakeDeletion

Spec == Init /\ [][Next]_vars

(* Whoever is awake inside the limiter gets its lock in the end.           *)
FairSpec ==
    /\ Spec
    /\ \A t \in Threads : WF_vars(resume_request(t))
    /\ WF_vars(wait_for_resources_to_be_returned)
    /\ WF_vars(free)

-----------------------------------------------------------------------------
(* Types of the variables; in particular resource_count never becomes 0.   *)
TypeOK ==
    /\ resource_count \in 1..MaxCount
    /\ resource_granted_count \in Nat
    /\ shutdown_requested \in BOOLEAN
    /\ break_out \in [BreakOuts -> BOOLEAN]
    /\ pc \in [Threads -> {"idle", "asleep", "woken", "timedout"}]
    /\ request \in [Threads -> Requests]
    /\ granted \in [Threads -> Nat]
    /\ deletion \in Deletions

(* No wake-up is lost: whoever sleeps on resource_limiter_wait has reason  *)
(* to.  A requester asleep was neither broken out nor shut down, fewer     *)
(* resources are left than it needs, and all of them would be enough; the  *)
(* deleting thread is asleep only while something is still granted.        *)
SleepersHaveAReason ==
    /\ \A t \in Threads : pc[t] = "asleep" =>
          /\ ~shutdown_requested /\ ~break_out[request[t].break]
          /\ resource_count - resource_granted_count < request[t].min
          /\ request[t].min <= resource_count
    /\ deletion = "asleep" => resource_granted_count > 0

(* A grant never takes what is granted beyond the resources there are,     *)
(* although lowering resource_count may have left more granted than that.  *)
NeverOvergranted ==
    [][resource_granted_count' > resource_granted_count =>
         resource_granted_count' <= resource_count]_vars

(* A deletion that was told to wait frees the limiter only when every      *)
(* thread has given back all it held, whoever shut down or requested while *)
(* it waited.                                                              *)
DeletionFindsAllReturned ==
    [][deletion = "checking" /\ deletion' = "destroying" =>
         \A t \in Threads : granted[t] = 0]_vars

(* A break-out or a shutdown ends every request it finds, unless the       *)
(* limiter is freed first.                                                 *)
RequestsAreReleased ==
    \A t \in Threads :
        pc[t] # "idle" /\ (break_out[request[t].break] \/ shutdown_requested)
            ~> pc[t] = "idle" \/ deletion = "over"

(* When the last resource is given back the deletion goes on.              *)
DeletionEnds == deletion # "none" /\ resource_granted_count = 0 ~> deletion = "over"
=============================================================================
