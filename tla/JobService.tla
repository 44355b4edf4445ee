------------------------------ MODULE JobService ------------------------------
(***************************************************************************)
(* What an executor promises to those who submit jobs, with no threads,    *)
(* locks or sleeping: every job that is accepted is taken once, in the     *)
(* order of acceptance, either to be executed, by no more than so many     *)
(* workers at a time, or, after the service was closed, to be cancelled;   *)
(* its outcome is settled once and says which.                             *)
(***************************************************************************)
EXTENDS Naturals, Sequences, FiniteSets

CONSTANTS Jobs,
          Limit         \* how many jobs may be in execution at a time

VARIABLES backlog,      \* the jobs accepted and not taken, oldest first
          running,      \* those taken to be executed
          cancelling,   \* those taken to be cancelled
          outcome,      \* what the promise of each job is fulfilled with
          closed

vars == <<backlog, running, cancelling, outcome, closed>>

Init == /\ backlog = <<>>
        /\ running = {} /\ cancelling = {}
        /\ outcome = [j \in Jobs |-> "unset"]
        /\ closed = FALSE

(* A job is new as long as it is not anywhere and has no outcome.          *)
New(j) == /\ \A i \in DOMAIN backlog : backlog[i] # j
          /\ j \notin running \cup cancelling
          /\ outcome[j] = "unset"

Accept(j) == /\ ~closed /\ New(j)
             /\ backlog' = Append(backlog, j)
             /\ UNCHANGED <<running, cancelling, outcome, closed>>

TakeToExecute == /\ backlog # <<>>
                 /\ Cardinality(running) < Limit
                 /\ running' = running \cup {Head(backlog)}
                 /\ backlog' = Tail(backlog)
                 /\ UNCHANGED <<cancelling, outcome, closed>>

TakeToCancel == /\ backlog # <<>> /\ closed
                /\ cancelling' = cancelling \cup {Head(backlog)}
                /\ backlog' = Tail(backlog)
                /\ UNCHANGED <<running, outcome, closed>>

Execute(j) == /\ j \in running
              /\ running' = running \ {j}
              /\ outcome' = [outcome EXCEPT ![j] = "output"]
              /\ UNCHANGED <<backlog, cancelling, closed>>

Cancel(j) == /\ j \in cancelling
             /\ cancelling' = cancelling \ {j}
             /\ outcome' = [outcome EXCEPT ![j] = "null"]
             /\ UNCHANGED <<backlog, running, closed>>

Close == /\ ~closed /\ closed' = TRUE
         /\ UNCHANGED <<backlog, running, cancelling, outcome>>

Next == \/ \E j \in Jobs : Accept(j) \/ Execute(j) \/ Cancel(j)
        \/ TakeToExecute \/ TakeToCancel \/ Close

Spec == Init /\ [][Next]_vars
==============================================================================
