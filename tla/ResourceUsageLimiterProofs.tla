--------------------- MODULE ResourceUsageLimiterProofs ---------------------
(***************************************************************************)
(* Proofs about ResourceUsageLimiter, for every set of threads, every      *)
(* number of break-out variables and every bound on the resources.         *)
(***************************************************************************)
EXTENDS ResourceUsageLimiter, FiniteSetTheorems, TLAPS

(* The inductive invariant.  A request for nothing never sleeps: without   *)
(* the last conjunct giving resources back would seem to strand one when   *)
(* more had been granted than there are.                                   *)
IInv ==
    /\ TypeOK
    /\ SleepersHaveAReason
    /\ \A t \in Threads : pc[t] = "asleep" => request[t].min > 0

LEMMA NoRequestIsRequest == NoRequest \in Requests
  BY LimiterAssumption DEF NoRequest, Requests, Timeouts

LEMMA InitEstablishes == Init => IInv
  <1> SUFFICES ASSUME Init PROVE IInv
    OBVIOUS
  <1>1. TypeOK
    BY NoRequestIsRequest, LimiterAssumption DEF Init, TypeOK, Deletions
  <1>2. QED
    BY <1>1 DEF Init, IInv, SleepersHaveAReason

(* What get_resources_left returns is what is left, cut off at zero.       *)
LEMMA LeftIsNat ==
  ASSUME TypeOK
  PROVE  /\ get_resources_left \in Nat
         /\ resource_count - resource_granted_count <= get_resources_left
         /\ get_resources_left > 0 =>
              get_resources_left = resource_count - resource_granted_count
  BY LimiterAssumption DEF TypeOK, get_resources_left

(* A grant is a natural number and no more than what is left.              *)
LEMMA GrantIsNat ==
  ASSUME NEW n \in Nat, NEW r \in Requests
  PROVE  Grant(n, r) \in Nat /\ Grant(n, r) <= n
  <1>1. r.max \in Nat
    BY LimiterAssumption DEF Requests
  <1>2. QED
    BY <1>1 DEF Grant

(* The end of a request keeps the types.                                   *)
LEMMA FinishTyped ==
  ASSUME TypeOK, NEW t \in Threads, NEW r \in Requests, FinishRequest(t, r)
  PROVE  TypeOK'
  <1>1. get_resources_left \in Nat
    BY LeftIsNat
  <1>2. Grant(get_resources_left, r) \in Nat
    BY <1>1, GrantIsNat
  <1> DEFINE g == Grant(get_resources_left, r)
  <1>3. resource_granted_count' \in Nat /\ granted' \in [Threads -> Nat]
    <2>1. g \in Nat
      BY <1>2
    <2>2. CASE UNCHANGED <<resource_granted_count, granted>>
      BY <2>2 DEF TypeOK
    <2>3. CASE /\ resource_granted_count' = resource_granted_count + g
               /\ granted' = [granted EXCEPT ![t] = @ + g]
      <3> HIDE DEF g
      <3>1. resource_granted_count \in Nat /\ granted \in [Threads -> Nat]
        BY DEF TypeOK
      <3>2. granted[t] + g \in Nat
        BY <2>1, <3>1
      <3>3. QED
        BY <2>1, <2>3, <3>1, <3>2
    <2>4. QED
      BY <2>2, <2>3 DEF FinishRequest
  <1>4. pc' \in [Threads -> {"idle", "asleep", "woken", "timedout"}] /\ request' \in [Threads -> Requests]
    BY NoRequestIsRequest DEF TypeOK, FinishRequest, Leave
  <1>5. QED
    BY <1>3, <1>4 DEF TypeOK, FinishRequest

LEMMA SleepTyped ==
  ASSUME TypeOK, NEW t \in Threads, NEW r \in Requests, SleepUntilWoken(t, r)
  PROVE  TypeOK'
  BY DEF TypeOK, SleepUntilWoken, limiter

(* A broadcast keeps the types of what it changes, and nobody sleeps on.   *)
LEMMA BroadcastEffect ==
  ASSUME TypeOK, Broadcast
  PROVE  /\ pc' \in [Threads -> {"idle", "asleep", "woken", "timedout"}]
         /\ deletion' \in Deletions
         /\ \A t \in Threads : pc'[t] # "asleep"
         /\ deletion' # "asleep"
  BY DEF TypeOK, Broadcast, Deletions

(* A step after which nobody sleeps keeps the rest of the invariant.       *)
LEMMA NobodySleeps ==
  ASSUME TypeOK', \A t \in Threads : pc'[t] # "asleep", deletion' # "asleep"
  PROVE  IInv'
  BY DEF IInv, SleepersHaveAReason

-----------------------------------------------------------------------------
(* Every action preserves the invariant.                                   *)

(* The end of a request: it takes resources, so whoever sleeps had and has *)
(* a reason to.                                                            *)
LEMMA FinishPreserves ==
  ASSUME IInv, NEW t \in Threads, NEW r \in Requests, FinishRequest(t, r)
  PROVE  IInv'
  <1>1. TypeOK'
    BY FinishTyped DEF IInv
  <1>2. resource_granted_count' >= resource_granted_count
    <2>1. Grant(get_resources_left, r) \in Nat /\ resource_granted_count \in Nat
      BY LeftIsNat, GrantIsNat DEF IInv, TypeOK
    <2>2. QED
      BY <2>1 DEF FinishRequest
  <1>3. ASSUME NEW u \in Threads, pc'[u] = "asleep"
        PROVE  u # t /\ pc[u] = "asleep" /\ request'[u] = request[u] /\ request[u] \in Requests
    BY <1>3 DEF FinishRequest, Leave, IInv, TypeOK
  <1>4. UNCHANGED <<resource_count, shutdown_requested, break_out, deletion>>
    BY DEF FinishRequest
  <1>5. /\ resource_count \in Nat /\ resource_granted_count \in Nat /\ resource_granted_count' \in Nat
        /\ \A q \in Requests : q.min \in Nat
    BY <1>1, LimiterAssumption DEF IInv, TypeOK, Requests
  <1>6. QED
    BY <1>1, <1>2, <1>3, <1>4, <1>5 DEF IInv, SleepersHaveAReason

(* Falling asleep: the condition of the loop is the reason.                *)
LEMMA SleepPreserves ==
  ASSUME IInv, NEW t \in Threads, NEW r \in Requests, MustWait(r), SleepUntilWoken(t, r)
  PROVE  IInv'
  <1>1. TypeOK'
    BY SleepTyped DEF IInv
  <1>2. /\ ~shutdown_requested /\ ~break_out[r.break]
        /\ resource_count - resource_granted_count < r.min
        /\ r.min <= resource_count /\ r.min > 0
    <2>1. r.min \in Nat /\ resource_count \in Nat /\ resource_granted_count \in Nat
      BY LimiterAssumption DEF IInv, TypeOK, Requests
    <2>2. QED
      BY <2>1, LeftIsNat DEF MustWait, IInv
  <1>3. pc' = [pc EXCEPT ![t] = "asleep"] /\ request' = [request EXCEPT ![t] = r]
        /\ UNCHANGED <<resource_count, resource_granted_count, shutdown_requested, break_out, deletion>>
    BY DEF SleepUntilWoken, limiter
  <1>4. ASSUME NEW u \in Threads, pc'[u] = "asleep"
        PROVE  (u = t /\ request'[u] = r) \/ (pc[u] = "asleep" /\ request'[u] = request[u])
    BY <1>3, <1>4 DEF IInv, TypeOK
  <1>5. QED
    BY <1>1, <1>2, <1>3, <1>4 DEF IInv, SleepersHaveAReason

LEMMA GiveBackPreserves ==
  ASSUME IInv, NEW t \in Threads, NEW n \in 1..MaxCount, give_back_resources(t, n)
  PROVE  IInv'
  <1>1. /\ resource_granted_count' = resource_granted_count - n
        /\ n \in Nat \ {0} /\ n <= resource_granted_count
        /\ granted' = [granted EXCEPT ![t] = @ - n]
        /\ UNCHANGED <<resource_count, shutdown_requested, break_out, request>>
    BY LimiterAssumption DEF give_back_resources
  <1>2. resource_granted_count' \in Nat /\ resource_count \in Nat \ {0}
    BY <1>1, LimiterAssumption DEF IInv, TypeOK
  <1>3. granted' \in [Threads -> Nat]
    <2>1. granted \in [Threads -> Nat] /\ n <= granted[t]
      BY DEF IInv, TypeOK, give_back_resources
    <2>2. granted[t] - n \in Nat
      BY <1>1, <2>1
    <2>3. QED
      BY <1>1, <2>1, <2>2
  <1>4. CASE Broadcast
    <2>1. TypeOK'
      BY <1>1, <1>2, <1>3, <1>4, BroadcastEffect DEF IInv, TypeOK
    <2>2. QED
      BY <1>4, <2>1, BroadcastEffect, NobodySleeps DEF IInv
  <1>5. CASE ~(get_resources_left' > 0) /\ UNCHANGED <<pc, deletion>>
    <2>1. TypeOK'
      BY <1>1, <1>2, <1>3, <1>5 DEF IInv, TypeOK
    <2>2. resource_count - resource_granted_count' <= 0 /\ resource_granted_count' > 0
      BY <1>1, <1>2, <1>5 DEF get_resources_left
    <2>3. \A q \in Requests : q.min \in Nat
      BY LimiterAssumption DEF Requests
    <2>4. \A u \in Threads : request[u].min \in Nat
      BY <2>3 DEF IInv, TypeOK
    <2>5. QED
      BY <1>1, <1>2, <1>5, <2>1, <2>2, <2>4 DEF IInv, SleepersHaveAReason
  <1>6. QED
    BY <1>4, <1>5 DEF give_back_resources

LEMMA SetCountPreserves ==
  ASSUME IInv, NEW n \in 0..MaxCount, set_resource_count(n)
  PROVE  IInv'
  <1>1. n \in 1..MaxCount /\ resource_count' = n
        /\ UNCHANGED <<resource_granted_count, shutdown_requested, break_out, request, granted>>
    BY LimiterAssumption DEF set_resource_count
  <1>2. CASE Broadcast
    <2>1. TypeOK'
      BY <1>1, <1>2, BroadcastEffect DEF IInv, TypeOK
    <2>2. QED
      BY <1>2, <2>1, BroadcastEffect, NobodySleeps DEF IInv
  <1>3. CASE n = resource_count /\ UNCHANGED <<pc, deletion>>
    BY <1>1, <1>3 DEF IInv, TypeOK, SleepersHaveAReason
  <1>4. QED
    BY <1>2, <1>3 DEF set_resource_count

(* What wakes everybody: a break-out and a shutdown.                       *)
LEMMA BroadcastsPreserve ==
  ASSUME IInv,
         \/ \E b \in BreakOuts : break_out_from_resource_usage_limiter(b)
         \/ shutdown_resource_usage_limiter
  PROVE  IInv'
  <1>1. TypeOK /\ Broadcast
    BY DEF IInv, break_out_from_resource_usage_limiter, shutdown_resource_usage_limiter
  <1>2. TypeOK'
    BY <1>1, BroadcastEffect
    DEF TypeOK, limiter, break_out_from_resource_usage_limiter, shutdown_resource_usage_limiter
  <1>3. QED
    BY <1>1, <1>2, BroadcastEffect, NobodySleeps

(* The steps of the deletion.                                              *)
LEMMA DeletionPreserves ==
  ASSUME IInv,
         \/ \E w \in BOOLEAN : delete_resource_usage_limiter(w)
         \/ wait_for_resources_to_be_returned
         \/ free
         \/ WakeDeletion
  PROVE  IInv'
  <1>1. CASE \E w \in BOOLEAN : delete_resource_usage_limiter(w)
    <2>1. TypeOK' /\ deletion' # "asleep"
      BY <1>1 DEF IInv, TypeOK, Deletions, delete_resource_usage_limiter
    <2>2. \A t \in Threads : pc'[t] # "asleep"
      BY <1>1 DEF delete_resource_usage_limiter
    <2>3. QED
      BY <2>1, <2>2, NobodySleeps
  <1>2. CASE wait_for_resources_to_be_returned \/ free \/ WakeDeletion
    BY <1>2 DEF IInv, TypeOK, SleepersHaveAReason, Deletions, limiter,
                wait_for_resources_to_be_returned, free, WakeDeletion
  <1>3. QED
    BY <1>1, <1>2

LEMMA StepPreserves == IInv /\ [Next]_vars => IInv'
  <1> SUFFICES ASSUME IInv, [Next]_vars PROVE IInv'
    OBVIOUS
  <1>1. ASSUME NEW t \in Threads, NEW r \in Requests, request_resources(t, r)
        PROVE  IInv'
    BY <1>1, FinishPreserves, SleepPreserves DEF request_resources
  <1>2. ASSUME NEW t \in Threads, resume_request(t) PROVE IInv'
    <2>1. request[t] \in Requests
      BY DEF IInv, TypeOK
    <2>2. QED
      BY <1>2, <2>1, FinishPreserves, SleepPreserves DEF resume_request
  <1>3. ASSUME NEW t \in Threads, WakeUp(t) PROVE IInv'
    BY <1>3 DEF IInv, TypeOK, SleepersHaveAReason, limiter, WakeUp
  <1>4. ASSUME NEW b \in BreakOuts, init_break_out(b) PROVE IInv'
    BY <1>4 DEF IInv, TypeOK, SleepersHaveAReason, limiter, init_break_out
  <1>5. CASE UNCHANGED vars
    BY <1>5 DEF IInv, TypeOK, SleepersHaveAReason, vars, limiter
  <1>6. QED
    BY <1>1, <1>2, <1>3, <1>4, <1>5, GiveBackPreserves, SetCountPreserves,
       BroadcastsPreserve, DeletionPreserves DEF Next

-----------------------------------------------------------------------------
(* The results.                                                            *)

(* The strengthened invariant holds of every reachable state.              *)
THEOREM Inductive == Spec => []IInv
  BY InitEstablishes, StepPreserves, PTL DEF Spec

(* The types, and that the number of resources never becomes 0.            *)
THEOREM TypeCorrect == Spec => []TypeOK
  <1>1. IInv => TypeOK
    BY DEF IInv
  <1>2. QED
    BY <1>1, Inductive, PTL

(* No wake-up is lost, whatever requests, break-outs, changes of the       *)
(* number of resources, shutdowns and deletions come together.             *)
THEOREM NoLostWakeUp == Spec => []SleepersHaveAReason
  <1>1. IInv => SleepersHaveAReason
    BY DEF IInv
  <1>2. QED
    BY <1>1, Inductive, PTL

(* What is granted grows only up to the number of resources.               *)
THEOREM GrantsAreCovered == Spec => NeverOvergranted
  <1> DEFINE A == resource_granted_count' > resource_granted_count =>
                    resource_granted_count' <= resource_count
  <1>1. ASSUME IInv, NEW t \in Threads, NEW r \in Requests, FinishRequest(t, r)
        PROVE  A
    <2>1. /\ get_resources_left \in Nat
          /\ get_resources_left > 0 => get_resources_left = resource_count - resource_granted_count
      BY <1>1, LeftIsNat DEF IInv
    <2>2. Grant(get_resources_left, r) \in Nat /\ Grant(get_resources_left, r) <= get_resources_left
      BY <2>1, GrantIsNat
    <2>3. resource_granted_count \in Nat /\ resource_count \in Nat
      BY <1>1, LimiterAssumption DEF IInv, TypeOK
    <2>4. \/ resource_granted_count' = resource_granted_count + Grant(get_resources_left, r)
          \/ resource_granted_count' = resource_granted_count
      BY <1>1 DEF FinishRequest
    <2>5. QED
      BY <2>1, <2>2, <2>3, <2>4
  <1>2. ASSUME IInv, [Next]_vars PROVE A
    <2>1. resource_granted_count \in Nat /\ \A u \in Threads : request[u] \in Requests
      BY <1>2 DEF IInv, TypeOK
    <2>2. CASE \E t \in Threads, r \in Requests : FinishRequest(t, r)
      BY <1>1, <1>2, <2>2
    <2>3. CASE \E t \in Threads, n \in 1..MaxCount : give_back_resources(t, n)
      BY <2>1, <2>3, LimiterAssumption DEF give_back_resources
    <2>4. CASE UNCHANGED resource_granted_count
      BY <2>1, <2>4
    <2>5. QED
      BY <1>2, <2>1, <2>2, <2>3, <2>4
      DEF Next, vars, limiter, request_resources, resume_request, SleepUntilWoken, set_resource_count,
          break_out_from_resource_usage_limiter, init_break_out, shutdown_resource_usage_limiter,
          delete_resource_usage_limiter, wait_for_resources_to_be_returned, free, WakeUp, WakeDeletion
  <1>3. IInv /\ [Next]_vars => [A]_vars
    BY <1>2
  <1>4. QED
    BY <1>3, Inductive, PTL DEF Spec, NeverOvergranted

-----------------------------------------------------------------------------
(* What is granted is what the threads hold together.  A sum over threads  *)
(* is the number of their units: unit k of t is there while t holds more   *)
(* than k.                                                                 *)
Units(g) == {u \in Threads \X Nat : u[2] < g[u[1]]}

GrantsCounted ==
    /\ IsFiniteSet(Units(granted))
    /\ resource_granted_count = Cardinality(Units(granted))

(* Taking n more adds n units ...                                          *)
LEMMA UnitsGrow ==
  ASSUME NEW g \in [Threads -> Nat], NEW h \in [Threads -> Nat], NEW t \in Threads, NEW n \in Nat,
         h[t] = g[t] + n, \A u \in Threads \ {t} : h[u] = g[u], IsFiniteSet(Units(g))
  PROVE  IsFiniteSet(Units(h)) /\ Cardinality(Units(h)) = Cardinality(Units(g)) + n
  <1> DEFINE a == g[t]
             b == a + n - 1
             more == {t} \X (a..b)
  <1>1. a \in Nat /\ a \in Int /\ b \in Int /\ h[t] = a + n
    OBVIOUS
  <1>2. IsFiniteSet(more) /\ Cardinality(more) = n
    <2>1. IsFiniteSet({t}) /\ Cardinality({t}) = 1
      BY FS_Singleton
    <2>2. IsFiniteSet(a..b) /\ Cardinality(a..b) = n
      <3>1. IsFiniteSet(a..b) /\ Cardinality(a..b) = IF a > b THEN 0 ELSE b - a + 1
        <4> HIDE DEF a, b
        <4>1. QED
          BY <1>1, FS_Interval, Zenon
      <3>2. (IF a > b THEN 0 ELSE b - a + 1) = n
        BY <1>1
      <3>3. QED
        BY <3>1, <3>2
    <2>3. IsFiniteSet(more) /\ Cardinality(more) = Cardinality({t}) * Cardinality(a..b)
      <3> DEFINE I == a..b
      <3> HIDE DEF a, b, I
      <3>1. IsFiniteSet({t}) /\ IsFiniteSet(I)
        BY <2>1, <2>2 DEF I
      <3>2. IsFiniteSet({t} \X I) /\ Cardinality({t} \X I) = Cardinality({t}) * Cardinality(I)
        BY <3>1, FS_Product, Zenon
      <3>3. QED
        BY <3>2 DEF I
    <2>4. QED
      <3> HIDE DEF more, a, b
      <3>1. QED
        BY <2>1, <2>2, <2>3
  <1>3. Units(h) = Units(g) \cup more
    <2>1. \A u \in Threads \X Nat : u \in Units(h) <=> u \in Units(g) \/ u \in more
      <3> SUFFICES ASSUME NEW x \in Threads, NEW k \in Nat
                   PROVE  k < h[x] <=> k < g[x] \/ (x = t /\ k \in a..b)
        BY DEF Units
      <3>1. CASE x = t
        BY <1>1, <3>1
      <3>2. CASE x # t
        BY <3>2
      <3>3. QED
        BY <3>1, <3>2
    <2>2. more \subseteq Threads \X Nat
      BY <1>1
    <2>3. QED
      BY <2>1, <2>2 DEF Units
  <1>4. Units(g) \cap more = {}
    BY <1>1 DEF Units
  <1>5. QED
    <2> HIDE DEF more
    <2>1. Cardinality(Units(g)) \in Nat
      BY FS_CardinalityType
    <2>2. Cardinality(Units(g) \cap more) = 0
      BY <1>4, FS_EmptySet
    <2>3. /\ IsFiniteSet(Units(g) \cup more)
          /\ Cardinality(Units(g) \cup more) =
               Cardinality(Units(g)) + Cardinality(more) - Cardinality(Units(g) \cap more)
      BY <1>2, FS_Union, Zenon
    <2>4. QED
      BY <1>2, <1>3, <2>1, <2>2, <2>3

(* ... and giving n back takes n away.                                     *)
LEMMA UnitsShrink ==
  ASSUME NEW g \in [Threads -> Nat], NEW h \in [Threads -> Nat], NEW t \in Threads, NEW n \in Nat,
         h[t] = g[t] - n, \A u \in Threads \ {t} : h[u] = g[u], IsFiniteSet(Units(g))
  PROVE  IsFiniteSet(Units(h)) /\ Cardinality(Units(h)) = Cardinality(Units(g)) - n
  <1>1. /\ g[t] \in Nat /\ h[t] \in Nat /\ g[t] = h[t] + n
        /\ \A u \in Threads \ {t} : g[u] = h[u]
    OBVIOUS
  <1>2. IsFiniteSet(Units(h))
    <2>1. \A x \in Threads : h[x] \in Nat /\ g[x] \in Nat /\ h[x] <= g[x]
      BY <1>1
    <2>2. Units(h) \subseteq Units(g)
      BY <2>1 DEF Units
    <2>3. QED
      BY <2>2, FS_Subset
  <1>3. Cardinality(Units(g)) = Cardinality(Units(h)) + n
    BY <1>1, <1>2, UnitsGrow
  <1>4. QED
    BY <1>2, <1>3, FS_CardinalityType

LEMMA InitCounted == Init => GrantsCounted
  <1> SUFFICES ASSUME Init PROVE GrantsCounted
    OBVIOUS
  <1>1. Units(granted) = {}
    BY DEF Init, Units
  <1>2. QED
    BY <1>1, FS_EmptySet DEF Init, GrantsCounted

LEMMA StepCounted == IInv /\ GrantsCounted /\ [Next]_vars => GrantsCounted'
  <1> SUFFICES ASSUME IInv, GrantsCounted, [Next]_vars PROVE GrantsCounted'
    OBVIOUS
  <1>1. /\ granted \in [Threads -> Nat] /\ resource_granted_count \in Nat
        /\ \A u \in Threads : request[u] \in Requests
    BY DEF IInv, TypeOK
  <1>2. CASE UNCHANGED <<resource_granted_count, granted>>
    BY <1>2 DEF GrantsCounted
  <1>3. ASSUME NEW t \in Threads, NEW r \in Requests, FinishRequest(t, r)
        PROVE  GrantsCounted'
    <2> DEFINE n == Grant(get_resources_left, r)
    <2>1. n \in Nat
      BY LeftIsNat, GrantIsNat DEF IInv
    <2>2. CASE /\ resource_granted_count' = resource_granted_count + n
               /\ granted' = [granted EXCEPT ![t] = @ + n]
      <3> HIDE DEF n
      <3>1. /\ granted' \in [Threads -> Nat]
            /\ granted'[t] = granted[t] + n
            /\ \A u \in Threads \ {t} : granted'[u] = granted[u]
        BY <1>1, <2>1, <2>2
      <3>2. /\ IsFiniteSet(Units(granted'))
            /\ Cardinality(Units(granted')) = Cardinality(Units(granted)) + n
        BY <1>1, <2>1, <3>1, UnitsGrow DEF GrantsCounted
      <3>3. Units(granted)' = Units(granted')
        BY DEF Units
      <3>4. QED
        BY <2>2, <3>2, <3>3 DEF GrantsCounted
    <2>3. QED
      BY <1>2, <1>3, <2>2 DEF FinishRequest
  <1>4. ASSUME NEW t \in Threads, NEW n \in 1..MaxCount, give_back_resources(t, n)
        PROVE  GrantsCounted'
    <2>1. /\ n \in Nat /\ n <= granted[t]
          /\ resource_granted_count' = resource_granted_count - n
          /\ granted' = [granted EXCEPT ![t] = @ - n]
      BY <1>1, <1>4, LimiterAssumption DEF give_back_resources
    <2>2. /\ granted' \in [Threads -> Nat]
          /\ granted'[t] = granted[t] - n
          /\ \A u \in Threads \ {t} : granted'[u] = granted[u]
      BY <1>1, <2>1
    <2>3. /\ IsFiniteSet(Units(granted'))
          /\ Cardinality(Units(granted')) = Cardinality(Units(granted)) - n
      <3> DEFINE g == granted
                 h == granted'
      <3>1. /\ IsFiniteSet(Units(g)) /\ n \in Nat
            /\ g \in [Threads -> Nat] /\ h \in [Threads -> Nat]
            /\ h[t] = g[t] - n /\ \A u \in Threads \ {t} : h[u] = g[u]
        BY <1>1, <2>1, <2>2 DEF GrantsCounted
      <3> HIDE DEF g, h
      <3>2. IsFiniteSet(Units(h)) /\ Cardinality(Units(h)) = Cardinality(Units(g)) - n
        BY <3>1, UnitsShrink
      <3>3. QED
        BY <3>2 DEF g, h
    <2>4. Units(granted)' = Units(granted')
      BY DEF Units
    <2>5. QED
      BY <2>1, <2>3, <2>4 DEF GrantsCounted
  <1>5. CASE \E t \in Threads, r \in Requests : FinishRequest(t, r)
    BY <1>3, <1>5
  <1>6. CASE \E t \in Threads, n \in 1..MaxCount : give_back_resources(t, n)
    BY <1>4, <1>6
  <1>7. QED
    BY <1>1, <1>2, <1>5, <1>6
    DEF Next, vars, limiter, request_resources, resume_request, SleepUntilWoken, set_resource_count,
        break_out_from_resource_usage_limiter, init_break_out, shutdown_resource_usage_limiter,
        delete_resource_usage_limiter, wait_for_resources_to_be_returned, free, WakeUp, WakeDeletion

(* resource_granted_count is the sum of what the threads hold.             *)
THEOREM GrantsExact == Spec => []GrantsCounted
  <1>1. Spec => [](IInv /\ GrantsCounted)
    BY InitEstablishes, StepPreserves, InitCounted, StepCounted, PTL DEF Spec
  <1>2. QED
    BY <1>1, PTL

(* So a deletion that waits for the resources goes on when nobody holds    *)
(* any, whoever shut the limiter down or requested while it waited.        *)
THEOREM DeletionWaitsForAll == Spec => DeletionFindsAllReturned
  <1> DEFINE A == deletion = "checking" /\ deletion' = "destroying" =>
                    \A t \in Threads : granted[t] = 0
  <1>1. ASSUME IInv, GrantsCounted, [Next]_vars PROVE A
    <2> SUFFICES ASSUME deletion = "checking", deletion' = "destroying", NEW t \in Threads
                 PROVE  granted[t] = 0
      OBVIOUS
    <2>1. wait_for_resources_to_be_returned
      BY <1>1
      DEF Next, vars, limiter, request_resources, resume_request, FinishRequest, SleepUntilWoken,
          give_back_resources, set_resource_count, Broadcast, break_out_from_resource_usage_limiter,
          init_break_out, shutdown_resource_usage_limiter, delete_resource_usage_limiter, free,
          WakeUp, WakeDeletion
    <2>2. resource_granted_count = 0
      BY <1>1, <2>1 DEF wait_for_resources_to_be_returned, IInv, TypeOK
    <2>3. Units(granted) = {}
      BY <1>1, <2>2, FS_EmptySet DEF GrantsCounted
    <2>4. granted[t] \in Nat /\ <<t, 0>> \notin Units(granted)
      BY <1>1, <2>3 DEF IInv, TypeOK
    <2>5. QED
      BY <2>4 DEF Units
  <1>2. IInv /\ GrantsCounted /\ [Next]_vars => [A]_vars
    BY <1>1
  <1>3. QED
    BY <1>2, Inductive, GrantsExact, PTL DEF Spec, DeletionFindsAllReturned
=============================================================================
