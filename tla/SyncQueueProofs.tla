--------------------------- MODULE SyncQueueProofs ---------------------------
(***************************************************************************)
(* Proofs about SyncQueue, for every set of threads, every sequence of     *)
(* capacities and every outcome of the array list's expansions.            *)
(***************************************************************************)
EXTENDS SyncQueue, FiniteSetTheorems, SequenceTheorems, TLAPS

(* How many threads program counters p put in one of the places L.         *)
Count(p, L) == Cardinality({t \in Threads : p[t] \in L})

-----------------------------------------------------------------------------
(* Counting threads                                                        *)

(* A count is a natural number, and zero exactly when nobody is there.     *)
LEMMA CountIsNat ==
  ASSUME NEW p, NEW L
  PROVE  /\ IsFiniteSet({t \in Threads : p[t] \in L})
         /\ Count(p, L) \in Nat
         /\ Count(p, L) = 0 <=> {t \in Threads : p[t] \in L} = {}
  <1> DEFINE S == {t \in Threads : p[t] \in L}
  <1>1. IsFiniteSet(S)
    <2>1. S \in SUBSET Threads
      OBVIOUS
    <2>2. QED
      BY <2>1, QueueAssumption, FS_Subset
  <1>2. Cardinality(S) \in Nat
    BY <1>1, FS_CardinalityType
  <1>3. Cardinality(S) = 0 <=> S = {}
    BY <1>1, FS_EmptySet
  <1>4. QED
    BY <1>1, <1>2, <1>3 DEF Count

(* Moving one thread changes a count by what it leaves and what it enters. *)
LEMMA CountMove ==
  ASSUME NEW p \in [Threads -> Places], NEW t \in Threads, NEW l, NEW L
  PROVE  Count([p EXCEPT ![t] = l], L)
           = Count(p, L) + (IF l \in L THEN 1 ELSE 0) - (IF p[t] \in L THEN 1 ELSE 0)
  <1> DEFINE q == [p EXCEPT ![t] = l]
             S == {u \in Threads : p[u] \in L}
             R == {u \in Threads : q[u] \in L}
             O == S \ {t}
  <1>1. IsFiniteSet(S) /\ Cardinality(S) \in Nat
    BY CountIsNat DEF Count
  <1>2. Cardinality(O) = IF t \in S THEN Cardinality(S) - 1 ELSE Cardinality(S)
    BY <1>1, FS_RemoveElement
  <1>3. IsFiniteSet(O) /\ Cardinality(O) \in Nat
    BY <1>1, FS_RemoveElement, FS_CardinalityType
  <1>4. Cardinality(O \cup {t}) = Cardinality(O) + 1
    BY <1>3, FS_AddElement
  <1>5. R = IF l \in L THEN O \cup {t} ELSE O
    OBVIOUS
  <1>6. t \in S <=> p[t] \in L
    OBVIOUS
  <1>7. Cardinality(R) = Cardinality(S) + (IF l \in L THEN 1 ELSE 0) - (IF p[t] \in L THEN 1 ELSE 0)
    <2> HIDE DEF S, R, O, q
    <2>1. QED
      BY <1>1, <1>2, <1>3, <1>4, <1>5, <1>6
  <1>8. QED
    BY <1>7 DEF Count

(* The library's counts and the sleepers, in terms of Count, before and    *)
(* after a step.                                                           *)
LEMMA CountsAreCounts ==
  /\ \A L : /\ Cardinality(In(L)) = Count(pc, L)
            /\ Cardinality(In(L))' = Count(pc', L)
  /\ \A l : /\ Cardinality(At(l)) = Count(pc, {l})
            /\ Cardinality(At(l))' = Count(pc', {l})
            /\ At(l) = {} <=> Count(pc, {l}) = 0
            /\ At(l)' = {} <=> Count(pc', {l}) = 0
  <1>1. \A l : At(l)' = {t \in Threads : pc'[t] \in {l}}
    BY DEF At, In
  <1>2. \A L : In(L)' = {t \in Threads : pc'[t] \in L}
    BY DEF In
  <1>3. \A l : At(l) = {t \in Threads : pc[t] \in {l}}
    BY DEF At, In
  <1>4. \A L : In(L) = {t \in Threads : pc[t] \in L}
    BY DEF In
  <1>5. QED
    BY <1>1, <1>2, <1>3, <1>4, CountIsNat DEF Count

-----------------------------------------------------------------------------
(* Condition variables                                                     *)

(* A wake-up moves nobody, if nobody is asleep, or one sleeper.            *)
LEMMA SignalEffect ==
  ASSUME pc \in [Threads -> Places],
         NEW asleep, NEW woken \in Places, NEW p \in Signal(asleep, woken)
  PROVE  /\ p \in [Threads -> Places]
         /\ \/ p = pc /\ At(asleep) = {}
            \/ \E u \in Threads : pc[u] = asleep /\ p = [pc EXCEPT ![u] = woken]
  BY DEF Signal, At, In

(* The inductive invariant: types, exact counts, and every element that a  *)
(* sleeping consumer could take has a consumer coming for it.              *)
IInv == TypeOK /\ CountsMatchWaiters /\ NoStrandedConsumer

(* What TypeOK says of everything but the counts.                          *)
Typed ==
    /\ qp \in Seq(Values)
    /\ capacity \in Nat
    /\ max_capacity \in MaxCapacities
    /\ is_closed \in BOOLEAN
    /\ pc \in [Threads -> Places]
    /\ arg \in [Threads -> Values \cup {NULL}]
    /\ \A t \in In(PushWaits) : arg[t] \in Values
    /\ timeout \in [Threads -> Timeouts]

(* NoStrandedConsumer, with the waiters counted.                           *)
Matched ==
    Count(pc, {"pop_asleep"}) # 0 =>
        ~is_closed /\ Len(qp) <= Count(pc, ComingToPop)

(* IInv, with the waiters counted.                                         *)
LEMMA CountedIInv ==
  /\ IInv <=> /\ Typed
              /\ q_empty_wait_thread_count = Count(pc, PopWaits)
              /\ q_full_wait_thread_count = Count(pc, PushWaits)
              /\ Matched
  /\ IInv' <=> /\ Typed'
               /\ q_empty_wait_thread_count' = Count(pc', PopWaits)
               /\ q_full_wait_thread_count' = Count(pc', PushWaits)
               /\ Matched'
  <1>1. \A L : Count(pc, L) \in Nat /\ Count(pc', L) \in Nat
    BY CountIsNat
  <1>2. /\ NoStrandedConsumer <=> Matched
        /\ NoStrandedConsumer' <=> Matched'
    BY CountsAreCounts DEF NoStrandedConsumer, Matched
  <1>3. /\ CountsMatchWaiters <=> /\ q_empty_wait_thread_count = Count(pc, PopWaits)
                                  /\ q_full_wait_thread_count = Count(pc, PushWaits)
        /\ CountsMatchWaiters' <=> /\ q_empty_wait_thread_count' = Count(pc', PopWaits)
                                   /\ q_full_wait_thread_count' = Count(pc', PushWaits)
    BY CountsAreCounts DEF CountsMatchWaiters
  <1>4. /\ TypeOK <=> /\ Typed
                      /\ q_empty_wait_thread_count \in Nat
                      /\ q_full_wait_thread_count \in Nat
        /\ TypeOK' <=> /\ Typed'
                       /\ q_empty_wait_thread_count' \in Nat
                       /\ q_full_wait_thread_count' \in Nat
    BY DEF TypeOK, Typed
  <1>5. QED
    BY <1>1, <1>2, <1>3, <1>4 DEF IInv

(* push's wake-up of a consumer.                                           *)
LEMMA ConsumerSignalled ==
  ASSUME IInv, NEW p \in SignalConsumer
  PROVE  /\ p \in [Threads -> Places]
         /\ Count(p, PopWaits) = Count(pc, PopWaits)
         /\ Count(p, PushWaits) = Count(pc, PushWaits)
         /\ \A t \in Threads : pc[t] # "pop_asleep" => p[t] = pc[t]
         /\ \A t \in Threads : p[t] \in PushWaits => pc[t] \in PushWaits
         /\ \A t \in Threads : pc[t] \in PopWaits <=> p[t] \in PopWaits
         /\ \/ /\ p = pc
               /\ Count(p, {"pop_asleep"}) = 0
            \/ /\ Count(pc, {"pop_asleep"}) # 0
               /\ Count(p, ComingToPop) = Count(pc, ComingToPop) + 1
  <1>0. pc \in [Threads -> Places] /\ q_empty_wait_thread_count = Count(pc, PopWaits)
    BY CountedIInv DEF Typed
  <1>1. CASE p = pc /\ At("pop_asleep") = {}
    BY <1>0, <1>1, CountsAreCounts
  <1>2. CASE \E u \in Threads : pc[u] = "pop_asleep" /\ p = [pc EXCEPT ![u] = "pop_woken"]
    <2>1. PICK u \in Threads : pc[u] = "pop_asleep" /\ p = [pc EXCEPT ![u] = "pop_woken"]
      BY <1>2
    <2>2. \A L : Count(p, L) = Count(pc, L) + (IF "pop_woken" \in L THEN 1 ELSE 0)
                                           - (IF "pop_asleep" \in L THEN 1 ELSE 0)
      <3>1. \A L : Count([pc EXCEPT ![u] = "pop_woken"], L)
                     = Count(pc, L) + (IF "pop_woken" \in L THEN 1 ELSE 0)
                                    - (IF pc[u] \in L THEN 1 ELSE 0)
        BY <1>0, CountMove, Zenon
      <3>2. QED
        BY <2>1, <3>1
    <2>3. /\ Count(p, PopWaits) = Count(pc, PopWaits) + 1 - 1
          /\ Count(p, PushWaits) = Count(pc, PushWaits) + 0 - 0
          /\ Count(p, ComingToPop) = Count(pc, ComingToPop) + 1 - 0
      BY <2>2 DEF PopWaits, PushWaits, ComingToPop
    <2>4. \A L : Count(pc, L) \in Nat
      BY CountIsNat
    <2>5. /\ p \in [Threads -> Places]
          /\ \A t \in Threads : pc[t] # "pop_asleep" => p[t] = pc[t]
          /\ \A t \in Threads : p[t] \in PushWaits => pc[t] \in PushWaits
          /\ \A t \in Threads : pc[t] \in PopWaits <=> p[t] \in PopWaits
      BY <1>0, <2>1 DEF Places, PopWaits, PushWaits
    <2>6. /\ Count(p, PopWaits) = Count(pc, PopWaits)
          /\ Count(p, PushWaits) = Count(pc, PushWaits)
          /\ Count(p, ComingToPop) = Count(pc, ComingToPop) + 1
      BY <2>3, <2>4
    <2>7. Count(pc, {"pop_asleep"}) # 0
      BY <1>0, <2>1, CountIsNat
    <2>8. QED
      BY <2>5, <2>6, <2>7
  <1>3. CASE q_empty_wait_thread_count > 0
    BY <1>0, <1>1, <1>2, <1>3, SignalEffect DEF SignalConsumer, Places, PopWaits
  <1>4. CASE ~(q_empty_wait_thread_count > 0)
    <2>0. Count(pc, PopWaits) \in Nat
      BY CountIsNat
    <2>1. Count(pc, PopWaits) = 0
      BY <1>0, <1>4, <2>0
    <2>2. \A t \in Threads : pc[t] \notin PopWaits
      BY <2>1, CountIsNat
    <2>3. At("pop_asleep") = {}
      BY <2>2 DEF At, In, PopWaits
    <2>4. QED
      BY <1>1, <1>4, <2>3 DEF SignalConsumer
  <1>5. QED
    BY <1>3, <1>4

(* pop's wake-up of a producer.                                            *)
LEMMA ProducerSignalled ==
  ASSUME IInv, NEW p \in SignalProducer
  PROVE  /\ p \in [Threads -> Places]
         /\ \A L : Count(p, L) = Count(pc, L)
                 \/ "push_woken" \in L \/ "push_asleep" \in L
         /\ Count(p, PushWaits) = Count(pc, PushWaits)
         /\ \A t \in Threads : pc[t] # "push_asleep" => p[t] = pc[t]
         /\ \A t \in Threads : p[t] \in PushWaits => pc[t] \in PushWaits
  <1>0. pc \in [Threads -> Places]
    BY DEF IInv, TypeOK
  <1>1. CASE p = pc
    BY <1>0, <1>1
  <1>2. CASE \E u \in Threads : pc[u] = "push_asleep" /\ p = [pc EXCEPT ![u] = "push_woken"]
    <2>1. PICK u \in Threads : pc[u] = "push_asleep" /\ p = [pc EXCEPT ![u] = "push_woken"]
      BY <1>2
    <2>2. \A L : Count(p, L) = Count(pc, L) + (IF "push_woken" \in L THEN 1 ELSE 0)
                                           - (IF "push_asleep" \in L THEN 1 ELSE 0)
      <3>1. \A L : Count([pc EXCEPT ![u] = "push_woken"], L)
                     = Count(pc, L) + (IF "push_woken" \in L THEN 1 ELSE 0)
                                    - (IF pc[u] \in L THEN 1 ELSE 0)
        BY <1>0, CountMove, Zenon DEF Places, PushWaits
      <3>2. QED
        BY <2>1, <3>1
    <2>3. \A L : Count(pc, L) \in Nat
      BY CountIsNat
    <2>4. /\ \A L : Count(p, L) = Count(pc, L)
                  \/ "push_woken" \in L \/ "push_asleep" \in L
          /\ Count(p, PushWaits) = Count(pc, PushWaits)
      BY <2>2, <2>3 DEF PushWaits
    <2>5. QED
      BY <1>0, <2>1, <2>4 DEF Places, PushWaits
  <1>3. "push_woken" \in Places
    BY DEF Places, PushWaits
  <1>4. QED
    BY <1>0, <1>1, <1>2, <1>3, SignalEffect DEF SignalProducer

-----------------------------------------------------------------------------
(* The two ways a thread leaves its critical section                       *)

(* CountMove, for the thread that returns.                                 *)
LEMMA CountReturn ==
  ASSUME NEW p \in [Threads -> Places], NEW t \in Threads
  PROVE  \A L : Count([p EXCEPT ![t] = "idle"], L)
                  = Count(p, L) + (IF "idle" \in L THEN 1 ELSE 0) - (IF p[t] \in L THEN 1 ELSE 0)
  BY CountMove, Zenon

LEMMA ReturnEffect ==
  ASSUME TypeOK, NEW p \in [Threads -> Places], NEW t \in Threads, NEW op, NEW ret,
         \A u \in Threads : p[u] \in PushWaits => pc[u] \in PushWaits,
         Return(t, op, ret, p)
  PROVE  /\ pc' \in [Threads -> Places]
         /\ arg' \in [Threads -> Values \cup {NULL}]
         /\ \A u \in In(PushWaits)' : arg'[u] \in Values
         /\ timeout' \in [Threads -> Timeouts]
         /\ \A L : "idle" \notin L =>
                 Count(pc', L) = Count(p, L) - (IF p[t] \in L THEN 1 ELSE 0)
  <1>1. \A L : Count([p EXCEPT ![t] = "idle"], L)
                 = Count(p, L) + (IF "idle" \in L THEN 1 ELSE 0) - (IF p[t] \in L THEN 1 ELSE 0)
    BY CountReturn, Zenon
  <1>2. \A L : Count(p, L) \in Nat
    BY CountIsNat
  <1>3. \A L : "idle" \notin L =>
               Count(pc', L) = Count(p, L) - (IF p[t] \in L THEN 1 ELSE 0)
    <2>1. pc' = [p EXCEPT ![t] = "idle"]
      BY DEF Return
    <2>2. \A L : Count(pc', L) = Count(p, L) + (IF "idle" \in L THEN 1 ELSE 0)
                                          - (IF p[t] \in L THEN 1 ELSE 0)
      BY <1>1, <2>1, Zenon
    <2>3. QED
      BY <1>2, <2>2
  <1>4. pc' \in [Threads -> Places]
    BY DEF Return, Places
  <1>5. /\ arg' \in [Threads -> Values \cup {NULL}]
        /\ timeout' \in [Threads -> Timeouts]
    BY DEF Return, TypeOK, Timeouts
  <1>6. ASSUME NEW u \in In(PushWaits)'
        PROVE  arg'[u] \in Values
    <2>1. u \in Threads /\ pc'[u] \in PushWaits
      BY DEF In
    <2>2. u # t
      BY <2>1 DEF Return, PushWaits
    <2>3. u \in In(PushWaits)
      BY <2>1, <2>2 DEF Return, In
    <2>4. QED
      BY <2>2, <2>3 DEF Return, TypeOK, In
  <1>7. QED
    BY <1>3, <1>4, <1>5, <1>6

LEMMA SleepEffect ==
  ASSUME TypeOK, NEW t \in Threads, NEW where \in Places,
         NEW v \in Values \cup {NULL}, NEW tmo \in Timeouts,
         where \in PushWaits => v \in Values,
         Sleep(t, where, v, tmo)
  PROVE  /\ pc' \in [Threads -> Places]
         /\ arg' \in [Threads -> Values \cup {NULL}]
         /\ \A u \in In(PushWaits)' : arg'[u] \in Values
         /\ timeout' \in [Threads -> Timeouts]
         /\ \A L : Count(pc', L) = Count(pc, L) + (IF where \in L THEN 1 ELSE 0)
                                              - (IF pc[t] \in L THEN 1 ELSE 0)
  <1>0. pc \in [Threads -> Places]
    BY DEF TypeOK
  <1>1. \A L : Count([pc EXCEPT ![t] = where], L)
                 = Count(pc, L) + (IF where \in L THEN 1 ELSE 0) - (IF pc[t] \in L THEN 1 ELSE 0)
    BY <1>0, CountMove, Zenon
  <1>2. /\ pc' \in [Threads -> Places]
        /\ arg' \in [Threads -> Values \cup {NULL}]
        /\ timeout' \in [Threads -> Timeouts]
    BY <1>0 DEF Sleep, TypeOK
  <1>3. ASSUME NEW u \in In(PushWaits)'
        PROVE  arg'[u] \in Values
    BY <1>0 DEF Sleep, TypeOK, In
  <1>4. QED
    BY <1>1, <1>2, <1>3 DEF Sleep

(* A producer goes to sleep.                                               *)
LEMMA PushSleeps ==
  ASSUME IInv, NEW t \in Threads, NEW v \in Values, NEW tmo \in Timeouts,
         pc[t] \in {"idle", "push_woken"},
         Sleep(t, "push_asleep", v, tmo)
  PROVE  /\ Typed' /\ Matched'
         /\ Count(pc', PopWaits) = Count(pc, PopWaits)
         /\ Count(pc', PushWaits) = Count(pc, PushWaits) + (IF pc[t] \in PushWaits THEN 0 ELSE 1)
  <1>0. TypeOK /\ Typed /\ Matched
    BY CountedIInv DEF IInv
  <1>1. \A L : Count(pc, L) \in Nat
    BY CountIsNat
  <1>2. /\ "push_asleep" \in Places /\ "push_asleep" \in PushWaits
        /\ "push_asleep" \notin PopWaits /\ pc[t] \notin PopWaits
        /\ "push_asleep" \notin ComingToPop /\ pc[t] \notin ComingToPop
        /\ pc[t] # "pop_asleep"
    BY DEF Places, PushWaits, PopWaits, ComingToPop
  <1>3. /\ pc' \in [Threads -> Places]
        /\ arg' \in [Threads -> Values \cup {NULL}]
        /\ \A u \in In(PushWaits)' : arg'[u] \in Values
        /\ timeout' \in [Threads -> Timeouts]
        /\ \A L : Count(pc', L) = Count(pc, L) + (IF "push_asleep" \in L THEN 1 ELSE 0)
                                             - (IF pc[t] \in L THEN 1 ELSE 0)
    BY <1>0, <1>2, SleepEffect
  <1>4. UNCHANGED <<qp, capacity, max_capacity, is_closed>>
    BY DEF Sleep, state
  <1>5. Typed'
    BY <1>0, <1>3, <1>4 DEF Typed
  <1>6. /\ Count(pc', {"pop_asleep"}) = Count(pc, {"pop_asleep"})
        /\ Count(pc', ComingToPop) = Count(pc, ComingToPop)
        /\ Count(pc', PopWaits) = Count(pc, PopWaits)
        /\ Count(pc', PushWaits) = Count(pc, PushWaits) + (IF pc[t] \in PushWaits THEN 0 ELSE 1)
    BY <1>1, <1>2, <1>3
  <1>7. Matched'
    BY <1>0, <1>4, <1>6 DEF Matched
  <1>8. QED
    BY <1>5, <1>6, <1>7

-----------------------------------------------------------------------------
(* push_sync_queue                                                         *)

(* What is left of a push after its wait loop.                             *)
LEMMA FinishPushEffect ==
  ASSUME IInv, NEW t \in Threads, NEW v \in Values,
         pc[t] \in {"idle", "push_woken", "push_timedout"},
         FinishPush(t, v)
  PROVE  /\ Typed' /\ Matched'
         /\ Count(pc', PopWaits) = Count(pc, PopWaits)
         /\ Count(pc', PushWaits) = Count(pc, PushWaits) - (IF pc[t] \in PushWaits THEN 1 ELSE 0)
  <1>0. TypeOK /\ Typed /\ Matched
    BY CountedIInv DEF IInv
  <1>1. pc \in [Threads -> Places]
    BY <1>0 DEF Typed
  <1>2. \A L : Count(pc, L) \in Nat
    BY CountIsNat
  <1>3. pc[t] \notin PopWaits /\ pc[t] # "pop_asleep" /\ pc[t] \notin ComingToPop
    BY DEF PopWaits, ComingToPop
  <1>4. "idle" \notin PushWaits /\ "idle" \notin PopWaits /\ "idle" \notin ComingToPop
    BY DEF PushWaits, PopWaits, ComingToPop
  <1>5. CASE /\ Return(t, "push", NULL, pc)
             /\ UNCHANGED <<qp, max_capacity, is_closed>>
             /\ capacity' \in Nat
    <2>1. /\ pc' \in [Threads -> Places]
          /\ arg' \in [Threads -> Values \cup {NULL}]
          /\ \A u \in In(PushWaits)' : arg'[u] \in Values
          /\ timeout' \in [Threads -> Timeouts]
          /\ \A L : "idle" \notin L =>
                  Count(pc', L) = Count(pc, L) - (IF pc[t] \in L THEN 1 ELSE 0)
      BY <1>0, <1>1, <1>5, ReturnEffect
    <2>2. Typed'
      BY <1>0, <1>5, <2>1 DEF Typed
    <2>3. /\ Count(pc', {"pop_asleep"}) = Count(pc, {"pop_asleep"})
          /\ Count(pc', ComingToPop) = Count(pc, ComingToPop)
          /\ Count(pc', PopWaits) = Count(pc, PopWaits)
          /\ Count(pc', PushWaits) = Count(pc, PushWaits) - (IF pc[t] \in PushWaits THEN 1 ELSE 0)
      BY <1>2, <1>3, <1>4, <2>1
    <2>4. Matched'
      BY <1>0, <1>5, <2>3 DEF Matched
    <2>5. QED
      BY <2>2, <2>3, <2>4
  <1>6. ASSUME NEW p \in SignalConsumer, Return(t, "push", v, p), ~is_closed,
               qp' = Append(qp, v), capacity' \in Nat, UNCHANGED <<max_capacity, is_closed>>
        PROVE  /\ Typed' /\ Matched'
               /\ Count(pc', PopWaits) = Count(pc, PopWaits)
               /\ Count(pc', PushWaits) = Count(pc, PushWaits) - (IF pc[t] \in PushWaits THEN 1 ELSE 0)
    <2>1. /\ p \in [Threads -> Places]
          /\ Count(p, PopWaits) = Count(pc, PopWaits)
          /\ Count(p, PushWaits) = Count(pc, PushWaits)
          /\ p[t] = pc[t]
          /\ \A u \in Threads : p[u] \in PushWaits => pc[u] \in PushWaits
          /\ \/ Count(p, {"pop_asleep"}) = 0
             \/ /\ Count(pc, {"pop_asleep"}) # 0
                /\ Count(p, ComingToPop) = Count(pc, ComingToPop) + 1
      BY <1>3, <1>6, ConsumerSignalled
    <2>2. /\ pc' \in [Threads -> Places]
          /\ arg' \in [Threads -> Values \cup {NULL}]
          /\ \A u \in In(PushWaits)' : arg'[u] \in Values
          /\ timeout' \in [Threads -> Timeouts]
          /\ \A L : "idle" \notin L =>
                  Count(pc', L) = Count(p, L) - (IF p[t] \in L THEN 1 ELSE 0)
      BY <1>0, <1>6, <2>1, ReturnEffect
    <2>3. qp' \in Seq(Values) /\ Len(qp') = Len(qp) + 1 /\ Len(qp) \in Nat
      BY <1>0, <1>6 DEF Typed
    <2>4. Typed'
      BY <1>0, <1>6, <2>2, <2>3 DEF Typed
    <2>5. \A L : Count(p, L) \in Nat
      BY CountIsNat
    <2>6. /\ Count(pc', {"pop_asleep"}) = Count(p, {"pop_asleep"})
          /\ Count(pc', ComingToPop) = Count(p, ComingToPop)
          /\ Count(pc', PopWaits) = Count(pc, PopWaits)
          /\ Count(pc', PushWaits) = Count(pc, PushWaits) - (IF pc[t] \in PushWaits THEN 1 ELSE 0)
      BY <1>3, <1>4, <2>1, <2>2, <2>5
    <2>7. Matched'
      BY <1>0, <1>2, <1>6, <2>1, <2>3, <2>6 DEF Matched
    <2>8. QED
      BY <2>4, <2>6, <2>7
  <1>7. \A c \in CapacitiesForPush : c \in Nat
    <2>1. capacity \in Nat /\ Growth \subseteq Nat
      BY <1>0, QueueAssumption DEF Typed
    <2>2. \A g \in Growth : capacity + g \in Nat
      BY <2>1
    <2>3. CapacitiesForPush \in {{capacity + g : g \in Growth}, {capacity}}
      BY Zenon DEF CapacitiesForPush
    <2>4. QED
      BY <2>1, <2>2, <2>3
  <1>8. CASE is_closed /\ Return(t, "push", NULL, pc) /\ UNCHANGED state
    BY <1>0, <1>5, <1>8 DEF state, Typed
  <1>9. ASSUME NEW c \in CapacitiesForPush, capacity' = c, Len(qp) >= c, UNCHANGED qp,
               Return(t, "push", NULL, pc), UNCHANGED <<max_capacity, is_closed>>
        PROVE  /\ Typed' /\ Matched'
               /\ Count(pc', PopWaits) = Count(pc, PopWaits)
               /\ Count(pc', PushWaits) = Count(pc, PushWaits) - (IF pc[t] \in PushWaits THEN 1 ELSE 0)
    BY <1>5, <1>7, <1>9
  <1>10. QED
    BY <1>6, <1>7, <1>8, <1>9 DEF FinishPush

LEMMA PushKeeps ==
  ASSUME IInv, NEW t \in Threads, NEW v \in Values, NEW tmo \in Timeouts,
         push_sync_queue(t, v, tmo)
  PROVE  IInv'
  <1>0. TypeOK /\ Typed /\ Matched /\ q_empty_wait_thread_count = Count(pc, PopWaits)
                     /\ q_full_wait_thread_count = Count(pc, PushWaits)
    BY CountedIInv DEF IInv
  <1>1. \A L : Count(pc, L) \in Nat
    BY CountIsNat
  <1>2. pc[t] = "idle" /\ UNCHANGED q_empty_wait_thread_count
    BY DEF push_sync_queue
  <1>3. CASE /\ Sleep(t, "push_asleep", v, tmo)
             /\ q_full_wait_thread_count' = q_full_wait_thread_count + 1
    BY <1>0, <1>1, <1>2, <1>3, PushSleeps, CountedIInv DEF PushWaits
  <1>4. CASE FinishPush(t, v) /\ UNCHANGED q_full_wait_thread_count
    <2>1. /\ Typed' /\ Matched'
          /\ Count(pc', PopWaits) = Count(pc, PopWaits)
          /\ Count(pc', PushWaits) = Count(pc, PushWaits) - (IF pc[t] \in PushWaits THEN 1 ELSE 0)
      BY <1>2, <1>4, FinishPushEffect
    <2>2. pc[t] \notin PushWaits
      BY <1>2 DEF PushWaits
    <2>3. QED
      BY <1>0, <1>1, <1>2, <1>4, <2>1, <2>2, CountedIInv
  <1>5. QED
    BY <1>3, <1>4 DEF push_sync_queue

LEMMA ResumePushKeeps ==
  ASSUME IInv, NEW t \in Threads, resume_push(t)
  PROVE  IInv'
  <1>0. TypeOK /\ Typed /\ Matched /\ q_empty_wait_thread_count = Count(pc, PopWaits)
                     /\ q_full_wait_thread_count = Count(pc, PushWaits)
    BY CountedIInv DEF IInv
  <1>1. \A L : Count(pc, L) \in Nat
    BY CountIsNat
  <1>2. pc[t] \in {"push_woken", "push_timedout"} /\ UNCHANGED q_empty_wait_thread_count
    BY DEF resume_push
  <1>3. pc[t] \in PushWaits /\ arg[t] \in Values /\ timeout[t] \in Timeouts
    BY <1>0, <1>2 DEF Typed, PushWaits, In
  <1>4. CASE /\ pc[t] = "push_woken"
             /\ Sleep(t, "push_asleep", arg[t], timeout[t])
             /\ UNCHANGED q_full_wait_thread_count
    BY <1>0, <1>1, <1>2, <1>3, <1>4, PushSleeps, CountedIInv
  <1>5. CASE /\ FinishPush(t, arg[t])
             /\ q_full_wait_thread_count' = q_full_wait_thread_count - 1
    <2>1. /\ Typed' /\ Matched'
          /\ Count(pc', PopWaits) = Count(pc, PopWaits)
          /\ Count(pc', PushWaits) = Count(pc, PushWaits) - (IF pc[t] \in PushWaits THEN 1 ELSE 0)
      BY <1>2, <1>3, <1>5, FinishPushEffect
    <2>2. QED
      BY <1>0, <1>1, <1>2, <1>3, <1>5, <2>1, CountedIInv
  <1>6. QED
    BY <1>4, <1>5 DEF resume_push

-----------------------------------------------------------------------------
(* pop_sync_queue                                                          *)

(* A consumer goes to sleep, on an open and empty queue.                   *)
LEMMA PopSleeps ==
  ASSUME IInv, NEW t \in Threads, NEW tmo \in Timeouts,
         pc[t] \in {"idle", "pop_woken"}, PopMustWait,
         Sleep(t, "pop_asleep", NULL, tmo)
  PROVE  /\ Typed' /\ Matched'
         /\ Count(pc', PushWaits) = Count(pc, PushWaits)
         /\ Count(pc', PopWaits) = Count(pc, PopWaits) + (IF pc[t] \in PopWaits THEN 0 ELSE 1)
  <1>0. TypeOK /\ Typed /\ Matched
    BY CountedIInv DEF IInv
  <1>1. \A L : Count(pc, L) \in Nat /\ Count(pc', L) \in Nat
    BY CountIsNat
  <1>2. /\ "pop_asleep" \in Places /\ "pop_asleep" \in PopWaits
        /\ "pop_asleep" \notin PushWaits /\ pc[t] \notin PushWaits
    BY DEF Places, PushWaits, PopWaits
  <1>3. /\ pc' \in [Threads -> Places]
        /\ arg' \in [Threads -> Values \cup {NULL}]
        /\ \A u \in In(PushWaits)' : arg'[u] \in Values
        /\ timeout' \in [Threads -> Timeouts]
        /\ \A L : Count(pc', L) = Count(pc, L) + (IF "pop_asleep" \in L THEN 1 ELSE 0)
                                             - (IF pc[t] \in L THEN 1 ELSE 0)
    BY <1>0, <1>2, SleepEffect
  <1>4. UNCHANGED <<qp, capacity, max_capacity, is_closed>>
    BY DEF Sleep, state
  <1>5. Typed'
    BY <1>0, <1>3, <1>4 DEF Typed
  <1>6. /\ Count(pc', PushWaits) = Count(pc, PushWaits)
        /\ Count(pc', PopWaits) = Count(pc, PopWaits) + (IF pc[t] \in PopWaits THEN 0 ELSE 1)
    BY <1>1, <1>2, <1>3
  <1>7. ~is_closed' /\ Len(qp') = 0
    BY <1>4 DEF PopMustWait
  <1>8. Matched'
    BY <1>1, <1>7 DEF Matched
  <1>9. QED
    BY <1>5, <1>6, <1>8

(* What is left of a pop after its wait loop.  The element it takes makes  *)
(* up for the coming consumer that returns.                                *)
LEMMA FinishPopEffect ==
  ASSUME IInv, NEW t \in Threads,
         pc[t] \in {"idle", "pop_woken", "pop_timedout"},
         FinishPop(t)
  PROVE  /\ Typed' /\ Matched'
         /\ Count(pc', PushWaits) = Count(pc, PushWaits)
         /\ Count(pc', PopWaits) = Count(pc, PopWaits) - (IF pc[t] \in PopWaits THEN 1 ELSE 0)
  <1>0. TypeOK /\ Typed /\ Matched
    BY CountedIInv DEF IInv
  <1>1. pc \in [Threads -> Places] /\ qp \in Seq(Values)
    BY <1>0 DEF Typed
  <1>2. \A L : Count(pc, L) \in Nat /\ Count(pc', L) \in Nat
    BY CountIsNat
  <1>3. /\ pc[t] \notin PushWaits /\ pc[t] # "push_asleep" /\ pc[t] # "pop_asleep"
        /\ "idle" \notin PushWaits /\ "idle" \notin PopWaits /\ "idle" \notin ComingToPop
        /\ \A l \in {"push_woken", "push_asleep"} :
              l \notin PopWaits /\ l \notin {"pop_asleep"} /\ l \notin ComingToPop
    BY DEF PushWaits, PopWaits, ComingToPop
  <1>4. UNCHANGED <<max_capacity, is_closed>>
    BY DEF FinishPop
  <1>5. ASSUME NEW p \in SignalProducer \cup {pc}, NEW ret, Return(t, "pop", ret, p),
               qp' \in Seq(Values), capacity' \in Nat,
               \/ qp' = <<>>
               \/ Len(qp') = Len(qp) - 1
        PROVE  /\ Typed' /\ Matched'
               /\ Count(pc', PushWaits) = Count(pc, PushWaits)
               /\ Count(pc', PopWaits) = Count(pc, PopWaits) - (IF pc[t] \in PopWaits THEN 1 ELSE 0)
    <2>1. /\ p \in [Threads -> Places]
          /\ \A L : Count(p, L) = Count(pc, L)
                  \/ "push_woken" \in L \/ "push_asleep" \in L
          /\ Count(p, PushWaits) = Count(pc, PushWaits)
          /\ p[t] = pc[t]
          /\ \A u \in Threads : p[u] \in PushWaits => pc[u] \in PushWaits
      BY <1>1, <1>3, ProducerSignalled
    <2>2. /\ pc' \in [Threads -> Places]
          /\ arg' \in [Threads -> Values \cup {NULL}]
          /\ \A u \in In(PushWaits)' : arg'[u] \in Values
          /\ timeout' \in [Threads -> Timeouts]
          /\ \A L : "idle" \notin L =>
                  Count(pc', L) = Count(p, L) - (IF p[t] \in L THEN 1 ELSE 0)
      BY <1>0, <1>5, <2>1, ReturnEffect
    <2>3. Typed'
      BY <1>0, <1>4, <1>5, <2>2 DEF Typed
    <2>4. /\ Count(p, PopWaits) = Count(pc, PopWaits)
          /\ Count(p, {"pop_asleep"}) = Count(pc, {"pop_asleep"})
          /\ Count(p, ComingToPop) = Count(pc, ComingToPop)
      BY <1>3, <2>1
    <2>5. /\ Count(pc', PushWaits) = Count(pc, PushWaits)
          /\ Count(pc', PopWaits) = Count(pc, PopWaits) - (IF pc[t] \in PopWaits THEN 1 ELSE 0)
          /\ Count(pc', {"pop_asleep"}) = Count(pc, {"pop_asleep"})
          /\ Count(pc', ComingToPop) >= Count(pc, ComingToPop) - 1
      BY <1>2, <1>3, <2>1, <2>2, <2>4
    <2>6. Matched'
      <3>1. Len(qp) \in Nat /\ Len(qp') \in Nat /\ (qp' = <<>> => Len(qp') = 0)
        BY <1>1, <1>5
      <3>2. QED
        BY <1>0, <1>2, <1>4, <1>5, <2>5, <3>1 DEF Matched
    <2>7. QED
      BY <2>3, <2>5, <2>6
  <1>6. CASE qp # <<>>
    <2>1. /\ qp' = Tail(qp)
          /\ capacity' \in CapacitiesAfterPop(Len(qp) - 1)
          /\ \E p \in SignalProducer : Return(t, "pop", Head(qp), p)
      BY <1>6 DEF FinishPop
    <2>2. qp' \in Seq(Values) /\ Len(qp') = Len(qp) - 1 /\ Len(qp) - 1 \in Nat
      BY <1>1, <1>6, <2>1
    <2>3. capacity' \in Nat
      BY <1>0, <2>1, <2>2 DEF CapacitiesAfterPop, Typed
    <2>4. QED
      BY <1>5, <2>1, <2>2, <2>3
  <1>7. CASE qp = <<>>
    <2>1. /\ qp' = qp
          /\ capacity' \in CapacitiesAfterPop(0)
          /\ Return(t, "pop", NULL, pc)
      BY <1>7 DEF FinishPop
    <2>2. capacity' \in Nat
      BY <1>0, <2>1 DEF CapacitiesAfterPop, Typed
    <2>3. QED
      BY <1>1, <1>5, <1>7, <2>1, <2>2
  <1>8. QED
    BY <1>6, <1>7

LEMMA PopKeeps ==
  ASSUME IInv, NEW t \in Threads, NEW tmo \in Timeouts, pop_sync_queue(t, tmo)
  PROVE  IInv'
  <1>0. Typed /\ Matched /\ q_empty_wait_thread_count = Count(pc, PopWaits)
              /\ q_full_wait_thread_count = Count(pc, PushWaits)
    BY CountedIInv
  <1>1. \A L : Count(pc, L) \in Nat
    BY CountIsNat
  <1>2. pc[t] = "idle" /\ UNCHANGED q_full_wait_thread_count
    BY DEF pop_sync_queue
  <1>3. pc[t] \notin PopWaits
    BY <1>2 DEF PopWaits
  <1>4. CASE /\ PopMustWait
             /\ Sleep(t, "pop_asleep", NULL, tmo)
             /\ q_empty_wait_thread_count' = q_empty_wait_thread_count + 1
    BY <1>0, <1>1, <1>2, <1>3, <1>4, PopSleeps, CountedIInv
  <1>5. CASE FinishPop(t) /\ UNCHANGED q_empty_wait_thread_count
    BY <1>0, <1>1, <1>2, <1>3, <1>5, FinishPopEffect, CountedIInv
  <1>6. QED
    BY <1>4, <1>5 DEF pop_sync_queue

LEMMA ResumePopKeeps ==
  ASSUME IInv, NEW t \in Threads, resume_pop(t)
  PROVE  IInv'
  <1>0. Typed /\ Matched /\ q_empty_wait_thread_count = Count(pc, PopWaits)
              /\ q_full_wait_thread_count = Count(pc, PushWaits)
    BY CountedIInv
  <1>1. \A L : Count(pc, L) \in Nat
    BY CountIsNat
  <1>2. pc[t] \in {"pop_woken", "pop_timedout"} /\ UNCHANGED q_full_wait_thread_count
    BY DEF resume_pop
  <1>3. pc[t] \in PopWaits /\ timeout[t] \in Timeouts
    BY <1>0, <1>2 DEF Typed, PopWaits
  <1>4. CASE /\ pc[t] = "pop_woken" /\ PopMustWait
             /\ Sleep(t, "pop_asleep", NULL, timeout[t])
             /\ UNCHANGED q_empty_wait_thread_count
    BY <1>0, <1>1, <1>2, <1>3, <1>4, PopSleeps, CountedIInv
  <1>5. CASE /\ FinishPop(t)
             /\ q_empty_wait_thread_count' = q_empty_wait_thread_count - 1
    BY <1>0, <1>1, <1>2, <1>3, <1>5, FinishPopEffect, CountedIInv
  <1>6. QED
    BY <1>4, <1>5 DEF resume_pop

-----------------------------------------------------------------------------
(* close, resize, time-outs and spurious wake-ups                          *)

(* A step that only moves sleepers between the places of one wait.         *)
LEMMA SleepersMove ==
  ASSUME IInv, pc' \in [Threads -> Places],
         \A t \in Threads : pc'[t] \in PushWaits <=> pc[t] \in PushWaits,
         \A t \in Threads : pc'[t] \in PopWaits <=> pc[t] \in PopWaits,
         UNCHANGED <<qp, capacity, counts, calls>>,
         max_capacity' \in MaxCapacities, is_closed' \in BOOLEAN,
         Matched'
  PROVE  IInv'
  <1>1. /\ Typed
        /\ q_empty_wait_thread_count = Count(pc, PopWaits)
        /\ q_full_wait_thread_count = Count(pc, PushWaits)
    BY CountedIInv
  <1>2. /\ Count(pc', PushWaits) = Count(pc, PushWaits)
        /\ Count(pc', PopWaits) = Count(pc, PopWaits)
    <2>1. /\ {t \in Threads : pc'[t] \in PushWaits} = {t \in Threads : pc[t] \in PushWaits}
          /\ {t \in Threads : pc'[t] \in PopWaits} = {t \in Threads : pc[t] \in PopWaits}
      OBVIOUS
    <2>2. QED
      BY <2>1 DEF Count
  <1>3. Typed'
    BY <1>1 DEF Typed, calls, In
  <1>4. QED
    BY <1>1, <1>2, <1>3, CountedIInv DEF counts

(* A broadcast to the producers moves no consumer, and the reverse.        *)
LEMMA WakesEffect ==
  ASSUME NEW p \in [Threads -> Places]
  PROVE  /\ WakeProducers(p) \in [Threads -> Places]
         /\ WakeConsumers(p) \in [Threads -> Places]
         /\ \A t \in Threads :
               /\ WakeProducers(p)[t] \in PushWaits <=> p[t] \in PushWaits
               /\ WakeConsumers(p)[t] \in PopWaits <=> p[t] \in PopWaits
               /\ p[t] \notin PushWaits => WakeProducers(p)[t] = p[t]
               /\ p[t] \notin PopWaits => WakeConsumers(p)[t] = p[t]
  BY DEF WakeProducers, WakeConsumers, Broadcast, Places, PushWaits, PopWaits

LEMMA CloseKeeps ==
  ASSUME IInv, close_sync_queue
  PROVE  IInv'
  <1>0. Typed /\ q_empty_wait_thread_count = Count(pc, PopWaits)
    BY CountedIInv
  <1>1. pc \in [Threads -> Places]
    BY <1>0 DEF Typed
  <1>2. PICK p : p = WakeProducers(pc)
    OBVIOUS
  <1>3. p \in [Threads -> Places] /\ pc' = WakeConsumers(p)
    BY <1>1, <1>2, WakesEffect DEF close_sync_queue
  <1>4. \A t \in Threads : /\ p[t] \in PushWaits <=> pc[t] \in PushWaits
                           /\ p[t] \in PopWaits <=> pc[t] \in PopWaits
    BY <1>1, <1>2, WakesEffect DEF PushWaits, PopWaits
  <1>5. /\ pc' \in [Threads -> Places]
        /\ \A t \in Threads : /\ pc'[t] \in PushWaits <=> p[t] \in PushWaits
                              /\ pc'[t] \in PopWaits <=> p[t] \in PopWaits
    BY <1>3, WakesEffect DEF PushWaits, PopWaits
  <1>6. Matched'
    <2>1. CASE q_empty_wait_thread_count > 0
      <3>1. \A t \in Threads : pc'[t] # "pop_asleep"
        BY <1>3, <2>1 DEF WakeConsumers, Broadcast
      <3>2. QED
        BY <3>1, CountIsNat DEF Matched
    <2>2. CASE ~(q_empty_wait_thread_count > 0)
      <3>1. Count(pc, PopWaits) \in Nat
        BY CountIsNat
      <3>2. Count(pc, PopWaits) = 0
        BY <1>0, <2>2, <3>1
      <3>3. \A t \in Threads : pc[t] \notin PopWaits
        BY <3>2, CountIsNat
      <3>4. \A t \in Threads : pc'[t] # "pop_asleep"
        BY <1>4, <1>5, <3>3 DEF PopWaits
      <3>5. QED
        BY <3>4, CountIsNat DEF Matched
    <2>3. QED
      BY <2>1, <2>2
  <1>7. /\ UNCHANGED <<qp, capacity, counts, calls>>
        /\ max_capacity' \in MaxCapacities /\ is_closed' \in BOOLEAN
    BY <1>0 DEF close_sync_queue, Typed
  <1>8. QED
    BY <1>4, <1>5, <1>6, <1>7, SleepersMove

LEMMA ResizeKeeps ==
  ASSUME IInv, NEW m \in MaxCapacities, update_max_capacity_sync_queue(m)
  PROVE  IInv'
  <1>0. Typed /\ Matched
    BY CountedIInv
  <1>1. pc \in [Threads -> Places]
    BY <1>0 DEF Typed
  <1>2. pc' = pc \/ pc' = WakeProducers(pc)
    BY DEF update_max_capacity_sync_queue
  <1>3. /\ pc' \in [Threads -> Places]
        /\ \A t \in Threads : /\ pc'[t] \in PushWaits <=> pc[t] \in PushWaits
                              /\ pc[t] \notin PushWaits => pc'[t] = pc[t]
    BY <1>1, <1>2, WakesEffect
  <1>4. \A t \in Threads : /\ pc'[t] \in PopWaits <=> pc[t] \in PopWaits
                           /\ pc'[t] = "pop_asleep" <=> pc[t] = "pop_asleep"
                           /\ pc'[t] \in ComingToPop <=> pc[t] \in ComingToPop
    BY <1>3 DEF PushWaits, PopWaits, ComingToPop
  <1>5. /\ {t \in Threads : pc'[t] \in {"pop_asleep"}} = {t \in Threads : pc[t] \in {"pop_asleep"}}
        /\ {t \in Threads : pc'[t] \in ComingToPop} = {t \in Threads : pc[t] \in ComingToPop}
    BY <1>4
  <1>6. UNCHANGED <<qp, capacity, is_closed, counts, calls>> /\ max_capacity' = m
    BY DEF update_max_capacity_sync_queue
  <1>7. Matched'
    BY <1>0, <1>5, <1>6 DEF Matched, Count
  <1>8. is_closed' \in BOOLEAN
    BY <1>0, <1>6 DEF Typed
  <1>9. QED
    BY <1>3, <1>4, <1>6, <1>7, <1>8, SleepersMove

(* One sleeper wakes, by a time-out or for no reason.                      *)
LEMMA WakeUpKeeps ==
  ASSUME IInv, NEW t \in Threads, TimeOut(t) \/ SpuriousWakeup(t)
  PROVE  IInv'
  <1>0. Typed /\ Matched
    BY CountedIInv
  <1>1. pc \in [Threads -> Places]
    BY <1>0 DEF Typed
  <1>2. \A L : Count(pc, L) \in Nat
    BY CountIsNat
  <1>3. UNCHANGED <<qp, capacity, max_capacity, is_closed, counts, calls>>
    BY DEF TimeOut, SpuriousWakeup, state
  <1>4. PICK l \in Places :
          /\ pc' = [pc EXCEPT ![t] = l]
          /\ \/ pc[t] \in {"push_asleep", "push_woken"} /\ l \in {"push_woken", "push_timedout"}
             \/ pc[t] \in {"pop_asleep", "pop_woken"} /\ l \in {"pop_woken", "pop_timedout"}
    BY DEF TimeOut, SpuriousWakeup, Places, PushWaits, PopWaits
  <1>5. \A L : Count(pc', L) = Count(pc, L) + (IF l \in L THEN 1 ELSE 0)
                                          - (IF pc[t] \in L THEN 1 ELSE 0)
    <2>1. \A L : Count([pc EXCEPT ![t] = l], L)
                   = Count(pc, L) + (IF l \in L THEN 1 ELSE 0) - (IF pc[t] \in L THEN 1 ELSE 0)
      BY <1>1, CountMove, Zenon
    <2>2. QED
      BY <1>4, <2>1, Zenon
  <1>6. /\ Count(pc', {"pop_asleep"}) # 0 => Count(pc, {"pop_asleep"}) # 0
        /\ Count(pc', ComingToPop) >= Count(pc, ComingToPop)
    <2>1. /\ l # "pop_asleep"
          /\ pc[t] \in ComingToPop => l \in ComingToPop
          /\ pc[t] = "pop_asleep" => Count(pc, {"pop_asleep"}) # 0
      BY <1>4, CountIsNat DEF ComingToPop
    <2>2. QED
      BY <1>2, <1>5, <2>1
  <1>7. Matched'
    <2>1. Len(qp) \in Nat
      BY <1>0 DEF Typed
    <2>2. Count(pc', ComingToPop) \in Nat
      BY CountIsNat
    <2>3. QED
      BY <1>0, <1>2, <1>3, <1>6, <2>1, <2>2 DEF Matched
  <1>8. /\ pc' \in [Threads -> Places]
        /\ \A u \in Threads : /\ pc'[u] \in PushWaits <=> pc[u] \in PushWaits
                              /\ pc'[u] \in PopWaits <=> pc[u] \in PopWaits
    BY <1>1, <1>4 DEF PushWaits, PopWaits
  <1>9. max_capacity' \in MaxCapacities /\ is_closed' \in BOOLEAN
    BY <1>0, <1>3 DEF Typed
  <1>10. QED
    BY <1>3, <1>7, <1>8, <1>9, SleepersMove

-----------------------------------------------------------------------------
(* The theorems                                                            *)

LEMMA InitIInv ==
  ASSUME Init
  PROVE  IInv
  <1>1. \A L : "idle" \notin L => Count(pc, L) = 0
    BY CountIsNat DEF Init
  <1>2. Count(pc, PopWaits) = 0 /\ Count(pc, PushWaits) = 0 /\ Count(pc, {"pop_asleep"}) = 0
    BY <1>1 DEF PopWaits, PushWaits
  <1>3. Typed
    <2>1. qp = <<>> /\ capacity = 0 /\ max_capacity \in MaxCapacities /\ is_closed = FALSE
      BY DEF Init
    <2>2. /\ pc \in [Threads -> Places]
          /\ arg \in [Threads -> Values \cup {NULL}]
          /\ timeout \in [Threads -> Timeouts]
      BY DEF Init, Places, Timeouts
    <2>3. In(PushWaits) = {}
      BY DEF Init, In, PushWaits
    <2>4. QED
      BY <2>1, <2>2, <2>3, EmptySeq DEF Typed
  <1>4. QED
    BY <1>2, <1>3, CountedIInv DEF Init, Matched

LEMMA NextIInv ==
  ASSUME IInv, [Next]_vars
  PROVE  IInv'
  <1>1. CASE UNCHANGED vars
    BY <1>1 DEF vars, IInv, TypeOK, CountsMatchWaiters, NoStrandedConsumer, In, At
  <1>2. ASSUME NEW t \in Threads, NEW tmo \in Timeouts, NEW v \in Values,
               push_sync_queue(t, v, tmo)
        PROVE  IInv'
    BY <1>2, PushKeeps
  <1>3. ASSUME NEW t \in Threads, NEW tmo \in Timeouts, pop_sync_queue(t, tmo)
        PROVE  IInv'
    BY <1>3, PopKeeps
  <1>4. ASSUME NEW t \in Threads, resume_push(t)
        PROVE  IInv'
    BY <1>4, ResumePushKeeps
  <1>5. ASSUME NEW t \in Threads, resume_pop(t)
        PROVE  IInv'
    BY <1>5, ResumePopKeeps
  <1>6. ASSUME NEW t \in Threads, TimeOut(t) \/ SpuriousWakeup(t)
        PROVE  IInv'
    BY <1>6, WakeUpKeeps
  <1>7. CASE close_sync_queue
    BY <1>7, CloseKeeps
  <1>8. CASE Resize
    BY <1>8, ResizeKeeps DEF Resize
  <1>9. QED
    BY <1>1, <1>2, <1>3, <1>4, <1>5, <1>6, <1>7, <1>8 DEF Next, Call

THEOREM Inductive == Spec => []IInv
  BY InitIInv, NextIInv, PTL DEF Spec

(* Types, with both counts of waiters never below zero.                    *)
THEOREM TypeCorrect == Spec => []TypeOK
  BY Inductive, PTL DEF IInv

(* q_empty_wait_thread_count and q_full_wait_thread_count are exact        *)
(* whenever q_lock is free, for any number of threads.                     *)
THEOREM CountsExact == Spec => []CountsMatchWaiters
  BY Inductive, PTL DEF IInv

(* No push, pop, close or resize ever loses a consumer's wake-up.          *)
THEOREM NoConsumerStranded == Spec => []NoStrandedConsumer
  BY Inductive, PTL DEF IInv

-----------------------------------------------------------------------------
(* SyncQueue implements ClosableQueue                                      *)

LEMMA RefineInit ==
  ASSUME Init
  PROVE  Abstract!Init
  BY DEF Init, Abstract!Init

(* What callers see of the rest of a push, and of a pop.                   *)
LEMMA RefineFinishPush ==
  ASSUME NEW t \in Threads, NEW v \in Values, FinishPush(t, v)
  PROVE  Abstract!Put(t) \/ Abstract!PutFails(t)
  BY DEF FinishPush, Return, state,
         Abstract!Put, Abstract!PutFails, Abstract!Returns, Abstract!MayBePut

LEMMA RefineFinishPop ==
  ASSUME NEW t \in Threads, FinishPop(t)
  PROVE  Abstract!Get(t) \/ Abstract!GetNothing(t)
  BY DEF FinishPop, Return,
         Abstract!Get, Abstract!GetNothing, Abstract!Returns

LEMMA RefineNext ==
  ASSUME TypeOK, [Next]_vars
  PROVE  [Abstract!Next]_(Abstract!vars)
  <1>1. CASE UNCHANGED <<qp, is_closed, event>>
    BY <1>1 DEF Abstract!vars
  <1>2. ASSUME NEW t \in Threads, NEW v \in Values, FinishPush(t, v)
        PROVE  Abstract!Next
    BY <1>2, RefineFinishPush DEF Abstract!Next
  <1>3. ASSUME NEW t \in Threads, FinishPop(t)
        PROVE  Abstract!Next
    BY <1>3, RefineFinishPop DEF Abstract!Next
  <1>4. ASSUME NEW t \in Threads, NEW where, NEW v, NEW tmo, Sleep(t, where, v, tmo)
        PROVE  UNCHANGED <<qp, is_closed, event>>
    BY <1>4 DEF Sleep, state
  <1>5. ASSUME NEW t \in Threads, NEW v \in Values, NEW tmo, push_sync_queue(t, v, tmo)
        PROVE  [Abstract!Next]_(Abstract!vars)
    BY <1>1, <1>2, <1>4, <1>5 DEF push_sync_queue
  <1>6. ASSUME NEW t \in Threads, NEW tmo, pop_sync_queue(t, tmo)
        PROVE  [Abstract!Next]_(Abstract!vars)
    BY <1>1, <1>3, <1>4, <1>6 DEF pop_sync_queue
  <1>7. ASSUME NEW t \in Threads, resume_push(t)
        PROVE  [Abstract!Next]_(Abstract!vars)
    <2>1. arg[t] \in Values
      BY <1>7 DEF resume_push, TypeOK, In, PushWaits
    <2>2. QED
      BY <1>1, <1>2, <1>4, <1>7, <2>1 DEF resume_push
  <1>8. ASSUME NEW t \in Threads, resume_pop(t)
        PROVE  [Abstract!Next]_(Abstract!vars)
    BY <1>1, <1>3, <1>4, <1>8 DEF resume_pop
  <1>9. ASSUME NEW t \in Threads, TimeOut(t) \/ SpuriousWakeup(t)
        PROVE  UNCHANGED <<qp, is_closed, event>>
    BY <1>9 DEF TimeOut, SpuriousWakeup, state
  <1>10. CASE close_sync_queue
    BY <1>10 DEF close_sync_queue, Abstract!Next, Abstract!Close
  <1>11. CASE Resize
    BY <1>1, <1>11 DEF Resize, update_max_capacity_sync_queue
  <1>12. CASE UNCHANGED vars
    BY <1>1, <1>12 DEF vars
  <1>13. QED
    BY <1>1, <1>5, <1>6, <1>7, <1>8, <1>9, <1>10, <1>11, <1>12 DEF Next, Call

(* Whatever the threads, timeouts, capacities and expansions, callers see  *)
(* a FIFO that can be closed.                                              *)
THEOREM Refinement == Spec => ImplementsClosableQueue
  <1>1. Init => Abstract!Init
    BY RefineInit
  <1>2. TypeOK /\ [Next]_vars => [Abstract!Next]_(Abstract!vars)
    BY RefineNext
  <1>3. QED
    BY <1>1, <1>2, TypeCorrect, PTL DEF Spec, Abstract!Spec, ImplementsClosableQueue

-----------------------------------------------------------------------------
(* The array list's memory                                                 *)

(* The second half of CapacityBound, of any capacity c.                    *)
Overshoot(c, m) ==
    m # UNBOUNDED /\ c > m => \E g \in Growth : c - g < m

LEMMA PushCapacity ==
  ASSUME TypeOK, CapacityBound, NEW t \in Threads, NEW v \in Values, FinishPush(t, v)
  PROVE  CapacityBound'
  <1>0. /\ qp \in Seq(Values) /\ capacity \in Nat /\ max_capacity \in Nat
        /\ Growth \subseteq Nat /\ Len(qp) <= capacity /\ Overshoot(capacity, max_capacity)
    BY QueueAssumption DEF TypeOK, CapacityBound, Overshoot
  <1>1. CASE UNCHANGED state
    BY <1>1 DEF state, CapacityBound
  <1>2. ASSUME NEW c \in CapacitiesForPush, capacity' = c, UNCHANGED max_capacity,
               \/ Len(qp) < c /\ qp' = Append(qp, v)
               \/ UNCHANGED qp
        PROVE  CapacityBound'
    <2>1. \/ c = capacity
          \/ \E g \in Growth : c = capacity + g /\ (max_capacity = UNBOUNDED \/ capacity < max_capacity)
      BY <1>0 DEF CapacitiesForPush, has_sync_queue_capacity_crossed_max_capacity_limits
    <2>2. c \in Nat /\ Len(qp) <= c
      BY <1>0, <2>1
    <2>3. Overshoot(c, max_capacity)
      BY <1>0, <2>1 DEF Overshoot
    <2>4. Len(qp') <= c
      BY <1>0, <1>2, <2>2
    <2>5. QED
      BY <1>2, <2>3, <2>4 DEF CapacityBound, Overshoot
  <1>3. QED
    BY <1>1, <1>2 DEF FinishPush

LEMMA PopCapacity ==
  ASSUME TypeOK, CapacityBound, NEW t \in Threads, FinishPop(t)
  PROVE  CapacityBound'
  <1>0. /\ qp \in Seq(Values) /\ capacity \in Nat /\ max_capacity \in Nat
        /\ Growth \subseteq Nat /\ Len(qp) <= capacity /\ Overshoot(capacity, max_capacity)
    BY QueueAssumption DEF TypeOK, CapacityBound, Overshoot
  <1>1. UNCHANGED max_capacity
    BY DEF FinishPop
  <1>2. Len(qp') <= capacity' /\ capacity' <= capacity /\ capacity' \in Nat
    <2>1. CASE qp # <<>>
      <3>1. qp' = Tail(qp) /\ capacity' \in CapacitiesAfterPop(Len(qp) - 1)
        BY <2>1 DEF FinishPop
      <3>2. Len(qp') = Len(qp) - 1 /\ Len(qp) - 1 \in Nat
        BY <1>0, <2>1, <3>1
      <3>3. QED
        BY <1>0, <3>1, <3>2 DEF CapacitiesAfterPop
    <2>2. CASE qp = <<>>
      <3>1. qp' = qp /\ capacity' \in CapacitiesAfterPop(0) /\ Len(qp) = 0
        BY <2>2 DEF FinishPop
      <3>2. QED
        BY <1>0, <3>1 DEF CapacitiesAfterPop
    <2>3. QED
      BY <2>1, <2>2
  <1>3. Overshoot(capacity', max_capacity)
    <2>1. ASSUME max_capacity # UNBOUNDED, capacity' > max_capacity
          PROVE  \E g \in Growth : capacity' - g < max_capacity
      <3>0. capacity > max_capacity
        BY <1>0, <1>2, <2>1
      <3>1. PICK g \in Growth : capacity - g < max_capacity
        BY <1>0, <2>1, <3>0 DEF Overshoot
      <3>2. capacity' - g < max_capacity
        <4>1. g \in Int /\ capacity \in Int /\ capacity' \in Int /\ max_capacity \in Int
          BY <1>0, <1>2
        <4>2. \A a, b, h, m \in Int : a - h < m /\ b <= a => b - h < m
          OBVIOUS
        <4>3. QED
          BY <1>2, <3>1, <4>1, <4>2
      <3>3. QED
        BY <3>2
    <2>2. QED
      BY <2>1 DEF Overshoot
  <1>4. QED
    BY <1>1, <1>2, <1>3 DEF CapacityBound, Overshoot

LEMMA NextCapacity ==
  ASSUME ~MayResize, TypeOK, CapacityBound, [Next]_vars
  PROVE  CapacityBound'
  <1>1. CASE UNCHANGED <<qp, capacity, max_capacity>>
    BY <1>1 DEF CapacityBound
  <1>2. ASSUME NEW t \in Threads, resume_push(t)
        PROVE  CapacityBound'
    <2>1. arg[t] \in Values
      BY <1>2 DEF resume_push, TypeOK, In, PushWaits
    <2>2. QED
      BY <1>1, <1>2, <2>1, PushCapacity DEF resume_push, Sleep, state
  <1>3. ASSUME NEW t \in Threads, resume_pop(t)
        PROVE  CapacityBound'
    BY <1>1, <1>3, PopCapacity DEF resume_pop, Sleep, state
  <1>4. ASSUME NEW t \in Threads, NEW v \in Values, NEW tmo, push_sync_queue(t, v, tmo)
        PROVE  CapacityBound'
    BY <1>1, <1>4, PushCapacity DEF push_sync_queue, Sleep, state
  <1>5. ASSUME NEW t \in Threads, NEW tmo, pop_sync_queue(t, tmo)
        PROVE  CapacityBound'
    BY <1>1, <1>5, PopCapacity DEF pop_sync_queue, Sleep, state
  <1>6. ASSUME NEW t \in Threads, TimeOut(t) \/ SpuriousWakeup(t)
        PROVE  UNCHANGED <<qp, capacity, max_capacity>>
    BY <1>6 DEF TimeOut, SpuriousWakeup, state
  <1>7. CASE close_sync_queue
    BY <1>1, <1>7 DEF close_sync_queue
  <1>8. CASE UNCHANGED vars
    BY <1>1, <1>8 DEF vars
  <1>9. QED
    BY <1>1, <1>2, <1>3, <1>4, <1>5, <1>6, <1>7, <1>8 DEF Next, Call, Resize

LEMMA InitCapacity == Init => CapacityBound
  <1>1. ASSUME Init PROVE Len(qp) = 0 /\ capacity = 0 /\ max_capacity \in Nat
    BY <1>1, QueueAssumption DEF Init
  <1>2. QED
    BY <1>1 DEF CapacityBound

(* While nobody changes max_capacity, the queue never stores more than it  *)
(* has memory for, nor takes memory beyond one growth step past its limit. *)
THEOREM CapacityBounded == ~MayResize => (Spec => []CapacityBound)
  <1> SUFFICES ASSUME ~MayResize PROVE Spec => []CapacityBound
    OBVIOUS
  <1>1. TypeOK /\ CapacityBound /\ [Next]_vars => CapacityBound'
    BY NextCapacity
  <1>2. QED
    BY <1>1, InitCapacity, TypeCorrect, PTL DEF Spec

-----------------------------------------------------------------------------
(* Producers                                                               *)

(* Who stays in L, and who may leave it.                                   *)
LEMMA CountKept ==
  ASSUME NEW p, NEW q, NEW L, \A u \in Threads : p[u] \in L => q[u] \in L
  PROVE  Count(p, L) <= Count(q, L)
  <1> DEFINE S == {u \in Threads : p[u] \in L}
             R == {u \in Threads : q[u] \in L}
  <1>1. IsFiniteSet(R)
    BY CountIsNat
  <1>2. S \in SUBSET R
    OBVIOUS
  <1>3. Cardinality(S) <= Cardinality(R)
    BY <1>1, <1>2, FS_Subset
  <1>4. QED
    BY <1>3 DEF Count

LEMMA CountOneLost ==
  ASSUME NEW p, NEW q, NEW L, NEW t \in Threads,
         \A u \in Threads : u # t /\ p[u] \in L => q[u] \in L
  PROVE  Count(p, L) <= Count(q, L) + 1
  <1> DEFINE S == {u \in Threads : p[u] \in L}
             R == {u \in Threads : q[u] \in L}
             O == S \ {t}
  <1>1. IsFiniteSet(S) /\ IsFiniteSet(R)
    BY CountIsNat
  <1>2. Cardinality(S) \in Nat /\ Cardinality(R) \in Nat
    BY <1>1, FS_CardinalityType
  <1>3. Cardinality(O) = IF t \in S THEN Cardinality(S) - 1 ELSE Cardinality(S)
    BY <1>1, FS_RemoveElement
  <1>4. O \in SUBSET R
    OBVIOUS
  <1>5. Cardinality(O) <= Cardinality(R)
    BY <1>1, <1>4, FS_Subset
  <1>6. Cardinality(S) <= Cardinality(R) + 1
    <2> HIDE DEF S, R, O
    <2>1. QED
      BY <1>2, <1>3, <1>5
  <1>7. QED
    BY <1>6 DEF Count

(* NoStrandedProducer with the waiters counted; and nobody waits for a     *)
(* slot of an unbounded queue.                                             *)
SlotsMatched ==
    Count(pc, {"push_asleep"}) # 0 =>
        /\ ~is_closed
        /\ max_capacity # UNBOUNDED
        /\ max_capacity - Len(qp) <= Count(pc, ComingToPush)

(* All that a step on an open queue must see to: sleepers are no new ones, *)
(* and slots do not outgrow the producers that are coming for them.        *)
LEMMA SlotsKept ==
  ASSUME IInv, SlotsMatched, IInv', UNCHANGED <<max_capacity, is_closed>>,
         \A u \in Threads : pc'[u] = "push_asleep" => pc[u] = "push_asleep",
         \/ Count(pc, {"push_asleep"}) = 0
         \/ Count(pc', ComingToPush) - Count(pc, ComingToPush) >= Len(qp) - Len(qp')
         \/ max_capacity - Len(qp') <= 0
  PROVE  SlotsMatched'
  <1>1. \A L : Count(pc, L) \in Nat /\ Count(pc', L) \in Nat
    BY CountIsNat
  <1>2. Count(pc', {"push_asleep"}) <= Count(pc, {"push_asleep"})
    BY CountKept
  <1>3. Len(qp) \in Nat /\ Len(qp') \in Nat /\ max_capacity \in Nat
    BY QueueAssumption DEF IInv, TypeOK
  <1>4. CASE Count(pc, {"push_asleep"}) = 0
    <2>1. Count(pc', {"push_asleep"}) = 0
      BY <1>1, <1>2, <1>4
    <2>2. QED
      BY <2>1 DEF SlotsMatched
  <1>5. CASE Count(pc, {"push_asleep"}) # 0
    <2>1. ~is_closed' /\ max_capacity' # UNBOUNDED
          /\ max_capacity - Len(qp) <= Count(pc, ComingToPush)
      BY <1>5 DEF SlotsMatched
    <2>2. max_capacity - Len(qp') <= Count(pc', ComingToPush)
      <3>1. Count(pc', ComingToPush) \in Nat /\ Count(pc, ComingToPush) \in Nat
        BY <1>1
      <3>2. QED
        BY <1>3, <1>5, <2>1, <3>1
    <2>3. QED
      BY <2>1, <2>2 DEF SlotsMatched
  <1>6. QED
    BY <1>4, <1>5

(* A producer goes to sleep only when there is no slot at all.             *)
LEMMA ProducerSleeps ==
  ASSUME TypeOK, NEW t, NEW v, NEW tmo, PushMustWait, Sleep(t, "push_asleep", v, tmo)
  PROVE  SlotsMatched'
  <1>1. /\ qp \in Seq(Values) /\ capacity \in Nat /\ max_capacity \in Nat
    BY QueueAssumption DEF TypeOK
  <1>2. /\ ~is_closed /\ max_capacity # UNBOUNDED
        /\ Len(qp) >= capacity /\ capacity >= max_capacity
    BY DEF PushMustWait, is_full_arraylist, has_sync_queue_capacity_crossed_max_capacity_limits
  <1>3. UNCHANGED <<qp, max_capacity, is_closed>>
    BY DEF Sleep, state
  <1>4. Count(pc', ComingToPush) \in Nat
    BY CountIsNat
  <1>5. max_capacity - Len(qp) <= Count(pc', ComingToPush)
    BY <1>1, <1>2, <1>4
  <1>6. QED
    BY <1>2, <1>3, <1>5 DEF SlotsMatched

(* A producer that comes and takes no slot finds none: expansions succeed. *)
LEMMA PushTakesASlot ==
  ASSUME 0 \notin Growth, IInv, CapacityBound, SlotsMatched, IInv',
         NEW t \in Threads, NEW v \in Values,
         pc[t] \in {"idle", "push_woken", "push_timedout"},
         FinishPush(t, v)
  PROVE  SlotsMatched'
  <1>0. /\ pc \in [Threads -> Places] /\ qp \in Seq(Values)
        /\ capacity \in Nat /\ max_capacity \in Nat /\ Growth \subseteq Nat
        /\ Len(qp) \in Nat /\ Len(qp) <= capacity
    BY QueueAssumption DEF IInv, TypeOK, CapacityBound
  <1>1. UNCHANGED <<max_capacity, is_closed>>
    BY DEF FinishPush, state
  <1>2. CASE is_closed /\ Return(t, "push", NULL, pc)
    <2>1. \A u \in Threads : pc'[u] = "push_asleep" => pc[u] = "push_asleep"
      BY <1>0, <1>2 DEF Return
    <2>2. Count(pc, {"push_asleep"}) = 0
      BY <1>2 DEF SlotsMatched
    <2>3. QED
      BY <1>1, <2>1, <2>2, SlotsKept
  <1>3. ASSUME ~is_closed, NEW c \in CapacitiesForPush, Len(qp) >= c,
               UNCHANGED qp, Return(t, "push", NULL, pc)
        PROVE  SlotsMatched'
    <2>1. Len(qp) >= capacity /\ max_capacity <= capacity
      <3>1. CASE is_full_arraylist /\ ~has_sync_queue_capacity_crossed_max_capacity_limits
        <4>1. PICK g \in Growth : c = capacity + g
          BY <3>1 DEF CapacitiesForPush
        <4>2. g \in Nat /\ g # 0
          BY <1>0
        <4>3. QED
          BY <1>0, <1>3, <4>1, <4>2
      <3>2. CASE ~(is_full_arraylist /\ ~has_sync_queue_capacity_crossed_max_capacity_limits)
        <4>1. c = capacity
          BY <3>2 DEF CapacitiesForPush
        <4>2. Len(qp) >= capacity
          BY <1>3, <4>1
        <4>3. QED
          BY <1>0, <3>2, <4>2
          DEF is_full_arraylist, has_sync_queue_capacity_crossed_max_capacity_limits
      <3>3. QED
        BY <3>1, <3>2
    <2>2. max_capacity - Len(qp') <= 0
      BY <1>0, <1>3, <2>1
    <2>3. \A u \in Threads : pc'[u] = "push_asleep" => pc[u] = "push_asleep"
      BY <1>0, <1>3 DEF Return
    <2>4. QED
      BY <1>1, <2>2, <2>3, SlotsKept
  <1>4. ASSUME ~is_closed, qp' = Append(qp, v), NEW p \in SignalConsumer, Return(t, "push", v, p)
        PROVE  SlotsMatched'
    <2>1. p \in [Threads -> Places] /\ \A u \in Threads : pc[u] # "pop_asleep" => p[u] = pc[u]
      BY ConsumerSignalled
    <2>2. \A u \in Threads : p[u] \in PushWaits => pc[u] \in PushWaits
      BY ConsumerSignalled
    <2>3. \A u \in Threads : u # t => pc'[u] = p[u]
      BY <1>4, <2>1 DEF Return
    <2>4. pc'[t] = "idle"
      BY <1>4, <2>1 DEF Return
    <2>5. \A u \in Threads : pc'[u] = "push_asleep" => pc[u] = "push_asleep"
      <3>1. SUFFICES ASSUME NEW u \in Threads, pc'[u] = "push_asleep" PROVE pc[u] = "push_asleep"
        OBVIOUS
      <3>2. p[u] = "push_asleep"
        BY <2>3, <2>4, <3>1
      <3>3. pc[u] \in PushWaits
        BY <2>2, <3>2 DEF PushWaits
      <3>4. pc[u] # "pop_asleep"
        BY <3>3 DEF PushWaits
      <3>5. QED
        BY <2>1, <3>2, <3>4
    <2>6. Count(pc, ComingToPush) <= Count(pc', ComingToPush) + 1
      <3>1. \A u \in Threads : u # t /\ pc[u] \in ComingToPush => pc'[u] \in ComingToPush
        BY <2>1, <2>3 DEF ComingToPush
      <3>2. QED
        BY <3>1, CountOneLost
    <2>7. Len(qp') = Len(qp) + 1
      BY <1>0, <1>4
    <2>8. Count(pc', ComingToPush) - Count(pc, ComingToPush) >= Len(qp) - Len(qp')
      <3>1. Count(pc', ComingToPush) \in Nat /\ Count(pc, ComingToPush) \in Nat
        BY CountIsNat
      <3>2. QED
        BY <1>0, <2>6, <2>7, <3>1
    <2>9. QED
      BY <1>1, <2>5, <2>8, SlotsKept
  <1>5. QED
    BY <1>2, <1>3, <1>4 DEF FinishPush

(* The slot of a popped element goes to one more producer.                 *)
LEMMA PopOffersASlot ==
  ASSUME IInv, SlotsMatched, IInv', NEW t \in Threads,
         pc[t] \in {"idle", "pop_woken", "pop_timedout"},
         FinishPop(t)
  PROVE  SlotsMatched'
  <1>0. /\ pc \in [Threads -> Places] /\ qp \in Seq(Values) /\ Len(qp) \in Nat
    BY DEF IInv, TypeOK
  <1>1. UNCHANGED <<max_capacity, is_closed>>
    BY DEF FinishPop
  <1>2. ASSUME NEW p \in [Threads -> Places], NEW ret, Return(t, "pop", ret, p),
               \A u \in Threads : pc[u] # "push_asleep" => p[u] = pc[u],
               \A u \in Threads : p[u] = "push_asleep" => pc[u] = "push_asleep",
               \/ Count(pc, {"push_asleep"}) = 0
               \/ Count(p, ComingToPush) - Count(pc, ComingToPush) >= Len(qp) - Len(qp')
        PROVE  SlotsMatched'
    <2>1. \A u \in Threads : pc'[u] = "push_asleep" => pc[u] = "push_asleep"
      BY <1>2 DEF Return
    <2>2. \A u \in Threads : p[u] \in ComingToPush => pc'[u] \in ComingToPush
      <3>1. p[t] = pc[t] /\ pc[t] \notin ComingToPush
        BY <1>2 DEF ComingToPush
      <3>2. QED
        BY <1>2, <3>1 DEF Return
    <2>3. Count(p, ComingToPush) <= Count(pc', ComingToPush)
      BY <2>2, CountKept
    <2>4. \/ Count(pc, {"push_asleep"}) = 0
          \/ Count(pc', ComingToPush) - Count(pc, ComingToPush) >= Len(qp) - Len(qp')
      <3>1. /\ Count(pc', ComingToPush) \in Nat /\ Count(pc, ComingToPush) \in Nat
            /\ Count(p, ComingToPush) \in Nat
        BY CountIsNat
      <3>2. Len(qp') \in Nat
        BY DEF IInv, TypeOK
      <3>3. QED
        BY <1>0, <1>2, <2>3, <3>1, <3>2
    <2>5. QED
      BY <1>1, <2>1, <2>4, SlotsKept
  <1>3. CASE qp = <<>> /\ UNCHANGED qp /\ Return(t, "pop", NULL, pc)
    <2>1. Count(pc, ComingToPush) - Count(pc, ComingToPush) >= Len(qp) - Len(qp')
      <3>1. Count(pc, ComingToPush) \in Nat
        BY CountIsNat
      <3>2. QED
        BY <1>0, <1>3, <3>1
    <2>2. QED
      BY <1>0, <1>2, <1>3, <2>1
  <1>4. ASSUME qp # <<>>, qp' = Tail(qp), NEW p \in SignalProducer, Return(t, "pop", Head(qp), p)
        PROVE  SlotsMatched'
    <2>1. Len(qp') = Len(qp) - 1
      BY <1>0, <1>4
    <2>2. CASE p = pc /\ Count(pc, {"push_asleep"}) = 0
      BY <1>0, <1>2, <1>4, <2>2
    <2>3. CASE \E u \in Threads : pc[u] = "push_asleep" /\ p = [pc EXCEPT ![u] = "push_woken"]
      <3>1. PICK u \in Threads : pc[u] = "push_asleep" /\ p = [pc EXCEPT ![u] = "push_woken"]
        BY <2>3
      <3>2. "push_woken" \in Places
        BY DEF Places, PushWaits
      <3>3. \A L : Count([pc EXCEPT ![u] = "push_woken"], L)
                     = Count(pc, L) + (IF "push_woken" \in L THEN 1 ELSE 0)
                                    - (IF pc[u] \in L THEN 1 ELSE 0)
        BY <1>0, CountMove, Zenon
      <3>4. Count(pc, ComingToPush) \in Nat
        BY CountIsNat
      <3>5. Count(p, ComingToPush) = Count(pc, ComingToPush) + 1
        <4>1. \A L : Count(p, L) = Count(pc, L) + (IF "push_woken" \in L THEN 1 ELSE 0)
                                             - (IF "push_asleep" \in L THEN 1 ELSE 0)
          BY <3>1, <3>3
        <4>2. Count(p, ComingToPush) = Count(pc, ComingToPush) + 1 - 0
          BY <4>1 DEF ComingToPush
        <4>3. QED
          BY <3>4, <4>2
      <3>6. Count(p, ComingToPush) - Count(pc, ComingToPush) >= Len(qp) - Len(qp')
        BY <1>0, <2>1, <3>4, <3>5
      <3>7. /\ p \in [Threads -> Places]
            /\ \A x \in Threads : pc[x] # "push_asleep" => p[x] = pc[x]
            /\ \A x \in Threads : p[x] = "push_asleep" => pc[x] = "push_asleep"
        BY <1>0, <3>1, <3>2
      <3>8. QED
        BY <1>2, <1>4, <3>6, <3>7
    <2>4. CASE is_closed
      <3>1. p = pc
        BY <2>4 DEF SignalProducer
      <3>2. QED
        BY <2>2, <2>4, <3>1 DEF SlotsMatched
    <2>5. CASE ~(q_full_wait_thread_count > 0)
      <3>1. Count(pc, PushWaits) \in Nat /\ q_full_wait_thread_count = Count(pc, PushWaits)
        BY CountIsNat, CountedIInv
      <3>2. \A u \in Threads : pc[u] \notin PushWaits
        <4>1. Count(pc, PushWaits) = 0
          BY <2>5, <3>1
        <4>2. QED
          BY <4>1, CountIsNat
      <3>3. Count(pc, {"push_asleep"}) = 0
        BY <3>2, CountIsNat DEF PushWaits
      <3>4. p = pc
        BY <2>5 DEF SignalProducer
      <3>5. QED
        BY <2>2, <3>3, <3>4
    <2>6. CASE ~is_closed /\ q_full_wait_thread_count > 0
      <3>1. p \in Signal("push_asleep", "push_woken")
        BY <2>6 DEF SignalProducer
      <3>2. "push_woken" \in Places
        BY DEF Places, PushWaits
      <3>3. \/ p = pc /\ At("push_asleep") = {}
            \/ \E u \in Threads : pc[u] = "push_asleep" /\ p = [pc EXCEPT ![u] = "push_woken"]
        BY <1>0, <3>1, <3>2, SignalEffect
      <3>4. QED
        BY <2>2, <2>3, <3>3, CountsAreCounts
    <2>7. QED
      BY <2>4, <2>5, <2>6
  <1>5. QED
    BY <1>3, <1>4 DEF FinishPop

(* A close leaves no producer asleep.                                      *)
LEMMA CloseEmpties ==
  ASSUME IInv, close_sync_queue
  PROVE  \A u \in Threads : pc'[u] # "push_asleep"
  <1>1. pc \in [Threads -> Places] /\ q_full_wait_thread_count = Count(pc, PushWaits)
    BY CountedIInv DEF Typed
  <1>2. \A u \in Threads : WakeProducers(pc)[u] # "push_asleep"
    <2>1. CASE q_full_wait_thread_count > 0
      BY <1>1, <2>1 DEF WakeProducers, Broadcast
    <2>2. CASE ~(q_full_wait_thread_count > 0)
      <3>0. Count(pc, PushWaits) \in Nat
        BY CountIsNat
      <3>1. Count(pc, PushWaits) = 0
        BY <1>1, <2>2, <3>0
      <3>2. \A u \in Threads : pc[u] \notin PushWaits
        BY <3>1, CountIsNat
      <3>3. QED
        BY <2>2, <3>2 DEF WakeProducers, PushWaits
    <2>3. QED
      BY <2>1, <2>2
  <1>3. QED
    BY <1>2 DEF close_sync_queue, WakeConsumers, Broadcast

(* And nobody goes to sleep in a push on a closed queue.                   *)
ProducersAwake == is_closed => \A u \in Threads : pc[u] # "push_asleep"

LEMMA NextAwake ==
  ASSUME IInv, ProducersAwake, [Next]_vars
  PROVE  ProducersAwake'
  <1>0. pc \in [Threads -> Places]
    BY DEF IInv, TypeOK
  <1>1. CASE close_sync_queue
    BY <1>1, CloseEmpties DEF ProducersAwake
  <1>2. CASE ~is_closed /\ ~close_sync_queue
    <2>1. ASSUME NEW t \in Threads, NEW v, FinishPush(t, v)
          PROVE  UNCHANGED is_closed
      BY <2>1 DEF FinishPush, state
    <2>2. ASSUME NEW t \in Threads, FinishPop(t)
          PROVE  UNCHANGED is_closed
      BY <2>2 DEF FinishPop
    <2>3. ASSUME NEW t \in Threads, NEW where, NEW v, NEW tmo, Sleep(t, where, v, tmo)
          PROVE  UNCHANGED is_closed
      BY <2>3 DEF Sleep, state
    <2>4. ASSUME NEW t \in Threads, NEW v, NEW tmo, push_sync_queue(t, v, tmo)
          PROVE  UNCHANGED is_closed
      BY <2>1, <2>3, <2>4 DEF push_sync_queue
    <2>5. ASSUME NEW t \in Threads, NEW tmo, pop_sync_queue(t, tmo)
          PROVE  UNCHANGED is_closed
      BY <2>2, <2>3, <2>5 DEF pop_sync_queue
    <2>6. ASSUME NEW t \in Threads, resume_push(t) \/ resume_pop(t)
          PROVE  UNCHANGED is_closed
      BY <2>1, <2>2, <2>3, <2>6 DEF resume_push, resume_pop
    <2>7. ASSUME NEW t \in Threads, TimeOut(t) \/ SpuriousWakeup(t)
          PROVE  UNCHANGED is_closed
      BY <2>7 DEF TimeOut, SpuriousWakeup, state
    <2>8. ASSUME NEW m, update_max_capacity_sync_queue(m)
          PROVE  UNCHANGED is_closed
      BY <2>8 DEF update_max_capacity_sync_queue
    <2>9. ASSUME UNCHANGED vars PROVE UNCHANGED is_closed
      BY <2>9 DEF vars
    <2>10. UNCHANGED is_closed
      BY <1>2, <2>4, <2>5, <2>6, <2>7, <2>8, <2>9 DEF Next, Call, Resize
    <2>11. QED
      BY <1>2, <2>10 DEF ProducersAwake
  <1>3. CASE is_closed
    <2>0. ~PushMustWait /\ \A u \in Threads : pc[u] # "push_asleep"
      BY <1>3 DEF PushMustWait, ProducersAwake
    <2>1. ASSUME NEW t \in Threads, NEW v, FinishPush(t, v)
          PROVE  \A u \in Threads : pc'[u] # "push_asleep"
      BY <1>0, <1>3, <2>0, <2>1 DEF FinishPush, Return
    <2>2. ASSUME NEW t \in Threads, FinishPop(t)
          PROVE  \A u \in Threads : pc'[u] # "push_asleep"
      BY <1>0, <1>3, <2>0, <2>2 DEF FinishPop, SignalProducer, Return
    <2>3. ASSUME NEW t \in Threads, NEW tmo, Sleep(t, "pop_asleep", NULL, tmo)
          PROVE  \A u \in Threads : pc'[u] # "push_asleep"
      BY <1>0, <2>0, <2>3 DEF Sleep
    <2>4. ASSUME NEW t \in Threads, Call(t) \/ resume_push(t) \/ resume_pop(t)
          PROVE  \A u \in Threads : pc'[u] # "push_asleep"
      BY <2>0, <2>1, <2>2, <2>3, <2>4
      DEF Call, push_sync_queue, pop_sync_queue, resume_push, resume_pop
    <2>5. ASSUME NEW t \in Threads, TimeOut(t) \/ SpuriousWakeup(t)
          PROVE  \A u \in Threads : pc'[u] # "push_asleep"
      BY <1>0, <2>0, <2>5 DEF TimeOut, SpuriousWakeup
    <2>6. ASSUME NEW m, update_max_capacity_sync_queue(m)
          PROVE  \A u \in Threads : pc'[u] # "push_asleep"
      BY <1>0, <2>0, <2>6 DEF update_max_capacity_sync_queue, WakeProducers, Broadcast
    <2>7. ASSUME UNCHANGED vars PROVE \A u \in Threads : pc'[u] # "push_asleep"
      BY <2>0, <2>7 DEF vars
    <2>8. QED
      BY <1>1, <2>4, <2>5, <2>6, <2>7 DEF Next, Resize, ProducersAwake
  <1>4. QED
    BY <1>1, <1>2, <1>3

(* Wake-ups, and sleeping consumers: no slot is taken or freed.            *)
LEMMA QuietKeepsSlots ==
  ASSUME IInv, SlotsMatched, IInv', UNCHANGED <<qp, max_capacity, is_closed>>,
         \A u \in Threads : /\ pc'[u] = "push_asleep" => pc[u] = "push_asleep"
                            /\ pc[u] \in ComingToPush => pc'[u] \in ComingToPush
  PROVE  SlotsMatched'
  <1>1. Count(pc, ComingToPush) <= Count(pc', ComingToPush)
    BY CountKept
  <1>2. /\ Count(pc', ComingToPush) \in Nat /\ Count(pc, ComingToPush) \in Nat
        /\ Len(qp) \in Nat
    <2>1. Count(pc', ComingToPush) \in Nat /\ Count(pc, ComingToPush) \in Nat
      BY CountIsNat
    <2>2. Len(qp) \in Nat
      BY DEF IInv, TypeOK
    <2>3. QED
      BY <2>1, <2>2
  <1>3. Count(pc', ComingToPush) - Count(pc, ComingToPush) >= Len(qp) - Len(qp')
    BY <1>1, <1>2
  <1>4. QED
    BY <1>3, SlotsKept

LEMMA NextSlots ==
  ASSUME ~MayResize, 0 \notin Growth, IInv, CapacityBound, SlotsMatched, [Next]_vars
  PROVE  SlotsMatched'
  <1>0. IInv' /\ TypeOK /\ pc \in [Threads -> Places]
    BY NextIInv DEF IInv, TypeOK
  <1>1. CASE UNCHANGED vars
    BY <1>0, <1>1, QuietKeepsSlots DEF vars
  <1>2. ASSUME NEW t \in Threads, NEW tmo \in Timeouts, NEW v \in Values,
               push_sync_queue(t, v, tmo)
        PROVE  SlotsMatched'
    BY <1>0, <1>2, ProducerSleeps, PushTakesASlot DEF push_sync_queue
  <1>3. ASSUME NEW t \in Threads, NEW tmo, Sleep(t, "pop_asleep", NULL, tmo),
               pc[t] \in {"idle", "pop_woken"}
        PROVE  SlotsMatched'
    <2>1. UNCHANGED <<qp, max_capacity, is_closed>>
      BY <1>3 DEF Sleep, state
    <2>2. \A u \in Threads : /\ pc'[u] = "push_asleep" => pc[u] = "push_asleep"
                             /\ pc[u] \in ComingToPush => pc'[u] \in ComingToPush
      BY <1>0, <1>3 DEF Sleep, ComingToPush
    <2>3. QED
      BY <1>0, <2>1, <2>2, QuietKeepsSlots
  <1>4. ASSUME NEW t \in Threads, NEW tmo \in Timeouts, pop_sync_queue(t, tmo)
        PROVE  SlotsMatched'
    BY <1>0, <1>3, <1>4, PopOffersASlot DEF pop_sync_queue
  <1>5. ASSUME NEW t \in Threads, resume_push(t)
        PROVE  SlotsMatched'
    <2>1. arg[t] \in Values
      BY <1>0, <1>5 DEF resume_push, TypeOK, In, PushWaits
    <2>2. QED
      BY <1>0, <1>5, <2>1, ProducerSleeps, PushTakesASlot DEF resume_push
  <1>6. ASSUME NEW t \in Threads, resume_pop(t)
        PROVE  SlotsMatched'
    BY <1>0, <1>3, <1>6, PopOffersASlot DEF resume_pop
  <1>7. ASSUME NEW t \in Threads, TimeOut(t) \/ SpuriousWakeup(t)
        PROVE  SlotsMatched'
    <2>1. UNCHANGED <<qp, max_capacity, is_closed>>
      BY <1>7 DEF TimeOut, SpuriousWakeup, state
    <2>2. \A u \in Threads : /\ pc'[u] = "push_asleep" => pc[u] = "push_asleep"
                             /\ pc[u] \in ComingToPush => pc'[u] \in ComingToPush
      BY <1>0, <1>7 DEF TimeOut, SpuriousWakeup, ComingToPush
    <2>3. QED
      BY <1>0, <2>1, <2>2, QuietKeepsSlots
  <1>8. CASE close_sync_queue
    <2>1. Count(pc', {"push_asleep"}) = 0
      BY <1>8, CloseEmpties, CountIsNat
    <2>2. QED
      BY <2>1 DEF SlotsMatched
  <1>9. QED
    BY <1>1, <1>2, <1>4, <1>5, <1>6, <1>7, <1>8 DEF Next, Call, Resize

(* While nobody changes max_capacity and no expansion fails, no pop, push, *)
(* time-out or close ever loses a producer's wake-up.                      *)
THEOREM NoProducerStranded == ~MayResize /\ 0 \notin Growth => (Spec => []NoStrandedProducer)
  <1> SUFFICES ASSUME ~MayResize, 0 \notin Growth PROVE Spec => []NoStrandedProducer
    OBVIOUS
  <1>1. Init => SlotsMatched
    <2> SUFFICES ASSUME Init PROVE SlotsMatched
      OBVIOUS
    <2>1. \A u \in Threads : pc[u] # "push_asleep"
      BY DEF Init
    <2>2. QED
      BY <2>1, CountIsNat DEF SlotsMatched
  <1>2. IInv /\ CapacityBound /\ SlotsMatched /\ [Next]_vars => SlotsMatched'
    BY NextSlots
  <1>3. SlotsMatched => NoStrandedProducer
    BY CountsAreCounts DEF SlotsMatched, NoStrandedProducer
  <1>4. Spec => []CapacityBound
    BY CapacityBounded
  <1>5. QED
    BY <1>1, <1>2, <1>3, <1>4, Inductive, PTL DEF Spec
=============================================================================
