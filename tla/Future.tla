-------------------------------- MODULE Future --------------------------------
(***************************************************************************)
(* What a promise is to those who share it, with no lock and no sleeping:  *)
(* a value that is given once, the same for everybody who asks, and at     *)
(* most one callback that is run once, after the value was given.          *)
(***************************************************************************)
EXTENDS Naturals

CONSTANTS Results,    \* what a promise may be resolved with
          Callbacks,
          NULL        \* no callback

VARIABLES value,      \* {}, or the one value the future has
          callback,   \* the callback registered, or NULL
          runs,       \* how often each callback was run
          answers     \* what those who asked were told

vars == <<value, callback, runs, answers>>

Init == /\ value = {}
        /\ callback = NULL
        /\ runs = [cb \in Callbacks |-> 0]
        /\ answers = {}

Resolve == /\ value = {}
           /\ \E r \in Results : value' = {r}
           /\ UNCHANGED <<callback, runs, answers>>

Register == /\ callback = NULL
            /\ callback' \in Callbacks
            /\ UNCHANGED <<value, runs, answers>>

Deliver == /\ value # {} /\ callback # NULL
           /\ runs[callback] = 0
           /\ runs' = [runs EXCEPT ![callback] = 1]
           /\ UNCHANGED <<value, callback, answers>>

Answer == /\ value # {}
          /\ answers' = value
          /\ UNCHANGED <<value, callback, runs>>

Next == Resolve \/ Register \/ Deliver \/ Answer

Spec == Init /\ [][Next]_vars
==============================================================================
