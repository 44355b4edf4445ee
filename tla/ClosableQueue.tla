---------------------------- MODULE ClosableQueue ----------------------------
(***************************************************************************)
(* What a queue of this library promises to the threads that call it,      *)
(* with no lock, no condition variable and no thread asleep: a FIFO of     *)
(* values that can be closed once, where every call takes effect at one    *)
(* instant and reports what it did in `event'.                             *)
(***************************************************************************)
EXTENDS Sequences

CONSTANTS Threads,   \* the threads that call the queue
          Values,    \* the data pointers that are pushed
          NULL,      \* what a pop returns when it has nothing to return
          Distinct   \* whether a value can be in the queue only once at a time

VARIABLES items,     \* the queued values, oldest first
          closed,    \* close has been called
          event      \* the last call that returned: [by, op, ret]

vars == <<items, closed, event>>

Returns(t, op, ret) == event' = [by |-> t, op |-> op, ret |-> ret]

Init == /\ items = <<>>
        /\ closed = FALSE
        /\ event = [by |-> NULL, op |-> "none", ret |-> NULL]

(* A push that reports success has appended its value to an open queue.    *)
MayBePut(v) == Distinct => \A i \in DOMAIN items : items[i] # v
Put(t) ==
    /\ ~closed
    /\ \E v \in Values : /\ MayBePut(v)
                         /\ items' = Append(items, v)
                         /\ Returns(t, "push", v)
    /\ UNCHANGED closed

(* A push that reports failure leaves no trace.                            *)
PutFails(t) ==
    /\ Returns(t, "push", NULL)
    /\ UNCHANGED <<items, closed>>

(* A pop returns the oldest value, to one caller, open or closed.          *)
Get(t) ==
    /\ items # <<>>
    /\ items' = Tail(items)
    /\ Returns(t, "pop", Head(items))
    /\ UNCHANGED closed

(* A pop reports nothing only when there is nothing.                       *)
GetNothing(t) ==
    /\ items = <<>>
    /\ Returns(t, "pop", NULL)
    /\ UNCHANGED <<items, closed>>

Close == /\ ~closed
         /\ closed' = TRUE
         /\ UNCHANGED <<items, event>>

Next == \/ \E t \in Threads : Put(t) \/ PutFails(t) \/ Get(t) \/ GetNothing(t)
        \/ Close

Spec == Init /\ [][Next]_vars
==============================================================================
