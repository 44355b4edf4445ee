-------------------------- MODULE SyncLLQueueProofs --------------------------
(***************************************************************************)
(* Proofs about SyncLLQueue, for every set of threads and of elements.     *)
(* Every step moves at most one thread between "idle", "asleep", "woken"   *)
(* and "timedout", except close, which wakes all sleepers.                 *)
(***************************************************************************)
EXTENDS SyncLLQueue, FiniteSetTheorems, SequenceTheorems, TLAPS

(* How many threads program counters p put in one of the places L.         *)
Count(p, L) == Cardinality({t \in Threads : p[t] \in L})

-----------------------------------------------------------------------------
(* Counting threads                                                        *)

LEMMA CountIsNat ==
  ASSUME NEW p, NEW L
  PROVE  /\ IsFiniteSet({t \in Threads : p[t] \in L})
         /\ Count(p, L) \in Nat
         /\ Count(p, L) = 0 <=> {t \in Threads : p[t] \in L} = {}
  <1> DEFINE S == {t \in Threads : p[t] \in L}
  <1>1. IsFiniteSet(S)
    <2>1. S \in SUBSET Threads
      OBVIOUS
    <2>2. QED
      BY <2>1, ListQueueAssumption, FS_Subset
  <1>2. QED
    BY <1>1, FS_CardinalityType, FS_EmptySet DEF Count

(* Moving one thread changes a count by what it leaves and what it enters. *)
LEMMA CountMove ==
  ASSUME NEW p \in [Threads -> Places], NEW t \in Threads, NEW l
  PROVE  \A L : Count([p EXCEPT ![t] = l], L)
                  = Count(p, L) + (IF l \in L THEN 1 ELSE 0) - (IF p[t] \in L THEN 1 ELSE 0)
  <1> SUFFICES ASSUME NEW L
               PROVE  Count([p EXCEPT ![t] = l], L)
                        = Count(p, L) + (IF l \in L THEN 1 ELSE 0) - (IF p[t] \in L THEN 1 ELSE 0)
    OBVIOUS
  <1> DEFINE q == [p EXCEPT ![t] = l]
             S == {u \in Threads : p[u] \in L}
             R == {u \in Threads : q[u] \in L}
             O == S \ {t}
  <1>1. IsFiniteSet(S) /\ Cardinality(S) \in Nat
    BY CountIsNat DEF Count
  <1>2. Cardinality(O) = IF t \in S THEN Cardinality(S) - 1 ELSE Cardinality(S)
    BY <1>1, FS_RemoveElement
  <1>3. IsFiniteSet(O) /\ Cardinality(O) \in Nat
    BY <1>1, FS_RemoveElement, FS_CardinalityType
  <1>4. Cardinality(O \cup {t}) = Cardinality(O) + 1
    BY <1>3, FS_AddElement
  <1>5. R = IF l \in L THEN O \cup {t} ELSE O
    OBVIOUS
  <1>6. t \in S <=> p[t] \in L
    OBVIOUS
  <1>7. Cardinality(R) = Cardinality(S) + (IF l \in L THEN 1 ELSE 0) - (IF p[t] \in L THEN 1 ELSE 0)
    <2> HIDE DEF S, R, O, q
    <2>1. QED
      BY <1>1, <1>2, <1>3, <1>4, <1>5, <1>6
  <1>8. QED
    BY <1>7 DEF Count

-----------------------------------------------------------------------------
(* The inductive invariant: types with the exact count of waiters, and     *)
(* every element a sleeping consumer could take is matched by one that is  *)
(* coming for it.                                                          *)
IInv == TypeOK /\ NoStrandedConsumer

Typed ==
    /\ qp \in Seq(Values)
    /\ is_closed \in BOOLEAN
    /\ pc \in [Threads -> Places]
    /\ timeout \in [Threads -> Timeouts]
Matched ==
    Count(pc, {"asleep"}) # 0 => ~is_closed /\ Len(qp) <= Count(pc, Coming)

(* IInv, with the threads counted, before and after a step.                *)
LEMMA CountedIInv ==
  /\ IInv <=> Typed /\ q_empty_wait_thread_count = Count(pc, PopWaits) /\ Matched
  /\ IInv' <=> Typed' /\ q_empty_wait_thread_count' = Count(pc', PopWaits) /\ Matched'
  <1>1. \A L : Cardinality(In(L)) = Count(pc, L) /\ Cardinality(In(L))' = Count(pc', L)
    BY DEF In, Count
  <1>2. \A L : /\ In(L) = {} <=> Count(pc, L) = 0
               /\ In(L)' = {} <=> Count(pc', L) = 0
    BY CountIsNat DEF In
  <1>3. /\ NoStrandedConsumer <=> Matched
        /\ NoStrandedConsumer' <=> Matched'
    BY <1>1, <1>2 DEF NoStrandedConsumer, Matched
  <1>4. QED
    BY <1>1, <1>3 DEF IInv, TypeOK, Typed

(* One thread goes from where it is to l, and the rest stays.              *)
LEMMA Moved ==
  ASSUME pc \in [Threads -> Places], NEW t \in Threads, NEW l \in Places,
         pc' = [pc EXCEPT ![t] = l]
  PROVE  /\ pc' \in [Threads -> Places]
         /\ \A L : /\ Count(pc, L) \in Nat /\ Count(pc', L) \in Nat
                   /\ Count(pc', L) = Count(pc, L) + (IF l \in L THEN 1 ELSE 0)
                                                  - (IF pc[t] \in L THEN 1 ELSE 0)
                   /\ Count(pc, L) = 0 => pc[t] \notin L
  <1>1. \A L : Count([pc EXCEPT ![t] = l], L)
                 = Count(pc, L) + (IF l \in L THEN 1 ELSE 0) - (IF pc[t] \in L THEN 1 ELSE 0)
    BY CountMove, Zenon
  <1>2. \A L : Count(pc, L) \in Nat /\ Count(pc', L) \in Nat
    BY CountIsNat
  <1>3. \A L : Count(pc, L) = 0 => pc[t] \notin L
    BY CountIsNat
  <1>4. \A L : Count(pc', L) = Count(pc, L) + (IF l \in L THEN 1 ELSE 0)
                                           - (IF pc[t] \in L THEN 1 ELSE 0)
    BY <1>1, Zenon
  <1>5. QED
    BY <1>2, <1>3, <1>4

(* The three counts that matter, for each move a step makes.               *)
LEMMA MovedCounts ==
  ASSUME pc \in [Threads -> Places], NEW t \in Threads, NEW l \in Places,
         pc' = [pc EXCEPT ![t] = l]
  PROVE  /\ Count(pc', PopWaits) = Count(pc, PopWaits) + (IF l = "idle" THEN 0 ELSE 1)
                                                       - (IF pc[t] = "idle" THEN 0 ELSE 1)
         /\ Count(pc', {"asleep"}) = Count(pc, {"asleep"}) + (IF l = "asleep" THEN 1 ELSE 0)
                                                           - (IF pc[t] = "asleep" THEN 1 ELSE 0)
         /\ Count(pc', Coming) = Count(pc, Coming) + (IF l \in Coming THEN 1 ELSE 0)
                                                   - (IF pc[t] \in Coming THEN 1 ELSE 0)
  <1>1. \A L : Count(pc', L) = Count(pc, L) + (IF l \in L THEN 1 ELSE 0)
                                           - (IF pc[t] \in L THEN 1 ELSE 0)
    BY Moved
  <1>2. /\ l \in PopWaits <=> l # "idle"
        /\ pc[t] \in PopWaits <=> pc[t] # "idle"
    BY DEF Places, PopWaits
  <1>3. Count(pc', PopWaits) = Count(pc, PopWaits) + (IF l \in PopWaits THEN 1 ELSE 0)
                                                   - (IF pc[t] \in PopWaits THEN 1 ELSE 0)
    BY <1>1
  <1>4. /\ Count(pc', {"asleep"}) = Count(pc, {"asleep"}) + (IF l \in {"asleep"} THEN 1 ELSE 0)
                                                          - (IF pc[t] \in {"asleep"} THEN 1 ELSE 0)
        /\ Count(pc', Coming) = Count(pc, Coming) + (IF l \in Coming THEN 1 ELSE 0)
                                                  - (IF pc[t] \in Coming THEN 1 ELSE 0)
    BY <1>1
  <1>5. /\ Count(pc', {"asleep"}) = Count(pc, {"asleep"}) + (IF l = "asleep" THEN 1 ELSE 0)
                                                           - (IF pc[t] = "asleep" THEN 1 ELSE 0)
        /\ Count(pc', Coming) = Count(pc, Coming) + (IF l \in Coming THEN 1 ELSE 0)
                                                  - (IF pc[t] \in Coming THEN 1 ELSE 0)
    BY <1>4
  <1>6. Count(pc', PopWaits) = Count(pc, PopWaits) + (IF l = "idle" THEN 0 ELSE 1)
                                                   - (IF pc[t] = "idle" THEN 0 ELSE 1)
    <2>1. (IF l \in PopWaits THEN 1 ELSE 0) = (IF l = "idle" THEN 0 ELSE 1)
      BY <1>2
    <2>2. (IF pc[t] \in PopWaits THEN 1 ELSE 0) = (IF pc[t] = "idle" THEN 0 ELSE 1)
      BY <1>2
    <2>3. QED
      BY <1>3, <2>1, <2>2
  <1>7. QED
    BY <1>5, <1>6

LEMMA CountsNow ==
  /\ Count(pc, PopWaits) \in Nat /\ Count(pc, {"asleep"}) \in Nat /\ Count(pc, Coming) \in Nat
  /\ Count(pc', PopWaits) \in Nat /\ Count(pc', {"asleep"}) \in Nat /\ Count(pc', Coming) \in Nat
  BY CountIsNat

-----------------------------------------------------------------------------
(* Every step keeps the invariant.                                         *)

LEMMA InitIInv ==
  ASSUME Init
  PROVE  IInv
  <1>1. Typed
    <2>1. qp \in Seq(Values) /\ is_closed \in BOOLEAN
      BY EmptySeq DEF Init
    <2>2. pc \in [Threads -> Places] /\ timeout \in [Threads -> Timeouts]
      BY DEF Init, Places, Timeouts
    <2>3. QED
      BY <2>1, <2>2 DEF Typed
  <1>2. In(PopWaits) = {} /\ In({"asleep"}) = {}
    BY DEF Init, In, PopWaits
  <1>3. Cardinality(In(PopWaits)) = 0
    BY <1>2, FS_EmptySet
  <1>4. QED
    BY <1>1, <1>2, <1>3 DEF IInv, TypeOK, Typed, NoStrandedConsumer, Init

LEMMA PushKeeps ==
  ASSUME IInv, NEW t \in Threads, NEW v \in Values, push_sync_ll_queue(t, v)
  PROVE  IInv'
  <1>1. Typed /\ q_empty_wait_thread_count = Count(pc, PopWaits) /\ Matched
    BY CountedIInv
  <1>2. CASE UNCHANGED <<qp, pc>>
    <2>1. Typed' /\ Matched'
      BY <1>1, <1>2 DEF Typed, Matched, push_sync_ll_queue
    <2>2. q_empty_wait_thread_count' = Count(pc', PopWaits)
      BY <1>1, <1>2 DEF push_sync_ll_queue
    <2>3. QED
      BY <2>1, <2>2, CountedIInv
  <1>3. CASE ~is_closed /\ qp' = Append(qp, v) /\ pc' \in Signal
    <2>1. qp' \in Seq(Values) /\ Len(qp') = Len(qp) + 1 /\ Len(qp) \in Nat
      BY <1>1, <1>3 DEF Typed
    <2>2. UNCHANGED <<is_closed, q_empty_wait_thread_count, timeout>>
      BY DEF push_sync_ll_queue
    <2>3. CASE pc' = pc /\ ~(q_empty_wait_thread_count > 0 /\ In({"asleep"}) # {})
      <3>1. Count(pc, {"asleep"}) = 0
        <4>1. CASE In({"asleep"}) = {}
          BY <4>1, CountIsNat DEF In
        <4>2. CASE ~(q_empty_wait_thread_count > 0)
          <5>1. Count(pc, PopWaits) = 0
            BY <1>1, <4>2, CountsNow
          <5>2. \A u \in Threads : pc[u] \notin PopWaits
            BY <5>1, CountIsNat
          <5>3. {u \in Threads : pc[u] \in {"asleep"}} = {}
            BY <5>2 DEF PopWaits
          <5>4. QED
            BY <5>3, CountIsNat
        <4>3. QED
          BY <2>3, <4>1, <4>2
      <3>2. Typed' /\ Matched'
        BY <1>1, <2>1, <2>2, <2>3, <3>1 DEF Typed, Matched
      <3>3. QED
        BY <1>1, <2>2, <2>3, <3>2, CountedIInv
    <2>4. CASE \E u \in In({"asleep"}) : pc' = [pc EXCEPT ![u] = "woken"]
      <3>1. PICK u \in Threads : pc[u] = "asleep" /\ pc' = [pc EXCEPT ![u] = "woken"]
        BY <2>4 DEF In
      <3>2. pc \in [Threads -> Places] /\ "woken" \in Places
        BY <1>1 DEF Typed, Places, PopWaits
      <3>3. pc' \in [Threads -> Places]
        BY <3>1, <3>2
      <3>4. /\ Count(pc', PopWaits) = Count(pc, PopWaits) + 1 - 1
            /\ Count(pc', {"asleep"}) = Count(pc, {"asleep"}) + 0 - 1
            /\ Count(pc', Coming) = Count(pc, Coming) + 1 - 0
        BY <3>1, <3>2, MovedCounts DEF Coming
      <3>5. Matched'
        BY <1>1, <1>3, <2>1, <2>2, <3>4, CountsNow DEF Matched
      <3>6. q_empty_wait_thread_count' = Count(pc', PopWaits)
        BY <1>1, <2>2, <3>4, CountsNow
      <3>7. QED
        BY <1>1, <2>1, <2>2, <3>3, <3>5, <3>6, CountedIInv DEF Typed
    <2>5. QED
      BY <1>3, <2>3, <2>4 DEF Signal
  <1>4. QED
    BY <1>2, <1>3 DEF push_sync_ll_queue

(* A consumer goes to sleep, with nothing in an open queue.                *)
LEMMA SleepKeeps ==
  ASSUME IInv, NEW t \in Threads, NEW tmo \in Timeouts,
         pc[t] \in {"idle", "woken"}, PopMustWait, Sleep(t, tmo),
         q_empty_wait_thread_count' = q_empty_wait_thread_count + (IF pc[t] = "idle" THEN 1 ELSE 0)
  PROVE  IInv'
  <1>1. Typed /\ q_empty_wait_thread_count = Count(pc, PopWaits)
    BY CountedIInv
  <1>2. pc \in [Threads -> Places] /\ "asleep" \in Places
    BY <1>1 DEF Typed, Places, PopWaits
  <1>3. pc' = [pc EXCEPT ![t] = "asleep"] /\ UNCHANGED <<qp, is_closed>>
    BY DEF Sleep, state
  <1>4. Typed'
    BY <1>1, <1>2, <1>3 DEF Typed, Sleep
  <1>5. Count(pc', PopWaits) = Count(pc, PopWaits) + (IF pc[t] = "idle" THEN 1 ELSE 0)
    <2>1. Count(pc', PopWaits) = Count(pc, PopWaits) + 1 - (IF pc[t] = "idle" THEN 0 ELSE 1)
      BY <1>2, <1>3, MovedCounts
    <2>2. QED
      BY <2>1, CountsNow
  <1>6. Matched'
    <2>1. Len(qp') = 0 /\ ~is_closed'
      BY <1>3 DEF PopMustWait
    <2>2. QED
      BY <2>1, CountsNow DEF Matched
  <1>7. QED
    BY <1>1, <1>4, <1>5, <1>6, CountedIInv

(* A consumer leaves with the oldest element, or with nothing.             *)
LEMMA FinishKeeps ==
  ASSUME IInv, NEW t \in Threads, FinishPop(t),
         \/ pc[t] \in {"idle", "timedout"}
         \/ pc[t] = "woken" /\ ~PopMustWait,
         q_empty_wait_thread_count' = q_empty_wait_thread_count - (IF pc[t] = "idle" THEN 0 ELSE 1)
  PROVE  IInv'
  <1>1. Typed /\ q_empty_wait_thread_count = Count(pc, PopWaits) /\ Matched
    BY CountedIInv
  <1>2. pc \in [Threads -> Places] /\ "idle" \in Places /\ pc' = [pc EXCEPT ![t] = "idle"]
    BY <1>1 DEF Typed, Places, FinishPop
  <1>3. UNCHANGED is_closed
    BY DEF FinishPop
  <1>4. /\ qp' \in Seq(Values) /\ Len(qp) \in Nat /\ Len(qp') \in Nat
        /\ \/ qp # <<>> /\ Len(qp') = Len(qp) - 1
           \/ qp = <<>> /\ qp' = qp /\ Len(qp) = 0
    <2>1. qp \in Seq(Values)
      BY <1>1 DEF Typed
    <2>2. CASE qp # <<>>
      <3>1. qp' = Tail(qp)
        BY <2>2 DEF FinishPop
      <3>2. Tail(qp) \in Seq(Values) /\ Len(Tail(qp)) = Len(qp) - 1
        BY <2>1, <2>2
      <3>3. Len(qp) \in Nat /\ Len(Tail(qp)) \in Nat
        BY <2>1, <3>2
      <3>4. QED
        BY <2>2, <3>1, <3>2, <3>3
    <2>3. CASE qp = <<>>
      BY <2>1, <2>3 DEF FinishPop
    <2>4. QED
      BY <2>2, <2>3
  <1>5. Typed'
    BY <1>1, <1>2, <1>3, <1>4 DEF Typed, FinishPop, Timeouts
  <1>6. /\ Count(pc', PopWaits) = Count(pc, PopWaits) - (IF pc[t] = "idle" THEN 0 ELSE 1)
        /\ Count(pc', {"asleep"}) = Count(pc, {"asleep"}) - (IF pc[t] = "asleep" THEN 1 ELSE 0)
        /\ Count(pc', Coming) = Count(pc, Coming) - (IF pc[t] \in Coming THEN 1 ELSE 0)
    <2>1. /\ Count(pc', PopWaits) = Count(pc, PopWaits) + 0 - (IF pc[t] = "idle" THEN 0 ELSE 1)
          /\ Count(pc', {"asleep"}) = Count(pc, {"asleep"}) + 0 - (IF pc[t] = "asleep" THEN 1 ELSE 0)
          /\ Count(pc', Coming) = Count(pc, Coming) + 0 - (IF pc[t] \in Coming THEN 1 ELSE 0)
      BY <1>2, MovedCounts DEF Coming
    <2>2. QED
      BY <2>1, CountsNow
  <1>7. Matched'
    <2> SUFFICES ASSUME Count(pc', {"asleep"}) # 0
                 PROVE  ~is_closed' /\ Len(qp') <= Count(pc', Coming)
      BY DEF Matched
    <2>1. Count(pc, {"asleep"}) # 0
      BY <1>6, CountsNow
    <2>2. ~is_closed /\ Len(qp) <= Count(pc, Coming)
      BY <1>1, <2>1 DEF Matched
    <2>3. CASE pc[t] \in Coming
      BY <1>3, <1>4, <1>6, <2>2, <2>3, CountsNow
    <2>4. CASE pc[t] \notin Coming
      BY <1>3, <1>4, <1>6, <2>2, <2>4, CountsNow
    <2>5. QED
      BY <2>3, <2>4
  <1>8. QED
    BY <1>1, <1>5, <1>6, <1>7, CountedIInv

LEMMA PopKeeps ==
  ASSUME IInv, NEW t \in Threads, NEW tmo \in Timeouts, pop_sync_ll_queue(t, tmo)
  PROVE  IInv'
  <1>0. pc[t] = "idle" /\ q_empty_wait_thread_count \in Nat
    BY CountedIInv, CountsNow DEF pop_sync_ll_queue
  <1>1. CASE PopMustWait /\ Sleep(t, tmo) /\ q_empty_wait_thread_count' = q_empty_wait_thread_count + 1
    BY <1>0, <1>1, SleepKeeps
  <1>2. CASE FinishPop(t) /\ UNCHANGED q_empty_wait_thread_count
    BY <1>0, <1>2, FinishKeeps
  <1>3. QED
    BY <1>1, <1>2 DEF pop_sync_ll_queue

LEMMA ResumeKeeps ==
  ASSUME IInv, NEW t \in Threads, resume_pop(t)
  PROVE  IInv'
  <1>0. timeout[t] \in Timeouts /\ q_empty_wait_thread_count \in Nat
    BY CountedIInv, CountsNow DEF Typed
  <1>1. CASE pc[t] = "woken" /\ PopMustWait /\ Sleep(t, timeout[t]) /\ UNCHANGED q_empty_wait_thread_count
    BY <1>0, <1>1, SleepKeeps
  <1>2. CASE /\ pc[t] = "timedout" \/ (pc[t] = "woken" /\ ~PopMustWait)
             /\ FinishPop(t)
             /\ q_empty_wait_thread_count' = q_empty_wait_thread_count - 1
    BY <1>0, <1>2, FinishKeeps
  <1>3. QED
    BY <1>1, <1>2 DEF resume_pop

(* Close wakes everybody: a sleeper is a waiter, so the count is positive. *)
LEMMA CloseKeeps ==
  ASSUME IInv, close_sync_ll_queue
  PROVE  IInv'
  <1>1. Typed /\ q_empty_wait_thread_count = Count(pc, PopWaits)
    BY CountedIInv
  <1>2. /\ pc' \in [Threads -> Places]
        /\ \A u \in Threads : pc'[u] \in PopWaits <=> pc[u] \in PopWaits
    BY <1>1 DEF close_sync_ll_queue, Typed, Places, PopWaits
  <1>3. \A u \in Threads : pc'[u] # "asleep"
    <2>1. CASE q_empty_wait_thread_count > 0
      BY <1>1, <2>1 DEF close_sync_ll_queue, Typed
    <2>2. CASE ~(q_empty_wait_thread_count > 0)
      <3>1. Count(pc, PopWaits) = 0
        BY <1>1, <2>2, CountsNow
      <3>2. \A u \in Threads : pc[u] \notin PopWaits
        BY <3>1, CountIsNat
      <3>3. QED
        BY <1>2, <3>2 DEF PopWaits
    <2>3. QED
      BY <2>1, <2>2
  <1>4. Count(pc', PopWaits) = Count(pc, PopWaits)
    <2>1. {u \in Threads : pc'[u] \in PopWaits} = {u \in Threads : pc[u] \in PopWaits}
      BY <1>2
    <2>2. QED
      BY <2>1 DEF Count
  <1>5. Count(pc', {"asleep"}) = 0
    <2>1. {u \in Threads : pc'[u] \in {"asleep"}} = {}
      BY <1>3
    <2>2. QED
      BY <2>1, CountIsNat
  <1>6. Typed' /\ Matched' /\ UNCHANGED q_empty_wait_thread_count
    BY <1>1, <1>2, <1>5 DEF Typed, Matched, close_sync_ll_queue
  <1>7. QED
    BY <1>1, <1>4, <1>6, CountedIInv

LEMMA WakeUpKeeps ==
  ASSUME IInv, NEW t \in Threads, WakeUp(t)
  PROVE  IInv'
  <1>1. Typed /\ q_empty_wait_thread_count = Count(pc, PopWaits) /\ Matched
    BY CountedIInv
  <1>2. PICK l \in {"woken", "timedout"} : pc' = [pc EXCEPT ![t] = l]
    BY DEF WakeUp
  <1>3. pc \in [Threads -> Places] /\ l \in Places /\ pc[t] \in {"asleep", "woken"}
    BY <1>1 DEF Typed, Places, PopWaits, WakeUp
  <1>4. UNCHANGED <<qp, is_closed, q_empty_wait_thread_count, timeout>>
    BY DEF WakeUp, state
  <1>5. /\ Count(pc', PopWaits) = Count(pc, PopWaits) + 1 - 1
        /\ Count(pc', {"asleep"}) = Count(pc, {"asleep"}) + 0 - (IF pc[t] = "asleep" THEN 1 ELSE 0)
        /\ Count(pc', Coming) = Count(pc, Coming) + 1 - (IF pc[t] = "woken" THEN 1 ELSE 0)
    BY <1>2, <1>3, MovedCounts DEF Coming
  <1>6. Typed'
    BY <1>1, <1>2, <1>3, <1>4 DEF Typed
  <1>7. Matched'
    <2>1. Len(qp) \in Nat
      BY <1>1 DEF Typed
    <2>2. QED
      BY <1>1, <1>4, <1>5, <2>1, CountsNow DEF Matched
  <1>8. q_empty_wait_thread_count' = Count(pc', PopWaits)
    BY <1>1, <1>4, <1>5, CountsNow
  <1>9. QED
    BY <1>6, <1>7, <1>8, CountedIInv

LEMMA NextIInv ==
  ASSUME IInv, [Next]_vars
  PROVE  IInv'
  <1>1. CASE UNCHANGED vars
    BY <1>1 DEF vars, state, IInv, TypeOK, NoStrandedConsumer, In
  <1>2. CASE Next
    BY <1>2, PushKeeps, PopKeeps, ResumeKeeps, WakeUpKeeps, CloseKeeps DEF Next
  <1>3. QED
    BY <1>1, <1>2

THEOREM Inductive == Spec => []IInv
  <1>1. Init => IInv
    BY InitIInv
  <1>2. IInv /\ [Next]_vars => IInv'
    BY NextIInv
  <1>3. QED
    BY <1>1, <1>2, PTL DEF Spec

-----------------------------------------------------------------------------
(* Types, with a count of waiters that is exact whenever q_lock is free.   *)
THEOREM TypeCorrect == Spec => []TypeOK
  <1>1. IInv => TypeOK
    BY DEF IInv
  <1>2. QED
    BY <1>1, Inductive, PTL

(* push's one signal and close's broadcast, both guarded by the count,     *)
(* never leave a consumer asleep beside an element nobody is coming for.   *)
THEOREM NoConsumerStranded == Spec => []NoStrandedConsumer
  <1>1. IInv => NoStrandedConsumer
    BY DEF IInv
  <1>2. QED
    BY <1>1, Inductive, PTL

(* Every critical section of the list queue is one call of the closable    *)
(* FIFO, or nothing at all.                                                *)
LEMMA RefineNext ==
  ASSUME [Next]_vars
  PROVE  [Abstract!Next]_(Abstract!vars)
  <1>1. CASE UNCHANGED <<qp, is_closed, event>>
    BY <1>1 DEF Abstract!vars
  <1>2. ASSUME NEW t \in Threads, FinishPop(t)
        PROVE  Abstract!Next
    <2>1. Abstract!Get(t) \/ Abstract!GetNothing(t)
      BY <1>2 DEF FinishPop, Abstract!Get, Abstract!GetNothing, Abstract!Returns
    <2>2. QED
      BY <2>1 DEF Abstract!Next
  <1>3. ASSUME NEW t \in Threads, NEW tmo, Sleep(t, tmo)
        PROVE  UNCHANGED <<qp, is_closed, event>>
    BY <1>3 DEF Sleep, state
  <1>4. ASSUME NEW t \in Threads, NEW v \in Values, push_sync_ll_queue(t, v)
        PROVE  Abstract!Next
    <2>1. Abstract!Put(t) \/ Abstract!PutFails(t)
      BY <1>4 DEF push_sync_ll_queue, Linked, Abstract!Put, Abstract!MayBePut, Abstract!PutFails, Abstract!Returns
    <2>2. QED
      BY <2>1 DEF Abstract!Next
  <1>5. ASSUME NEW t \in Threads, NEW tmo, pop_sync_ll_queue(t, tmo)
        PROVE  [Abstract!Next]_(Abstract!vars)
    BY <1>1, <1>2, <1>3, <1>5 DEF pop_sync_ll_queue
  <1>6. ASSUME NEW t \in Threads, resume_pop(t)
        PROVE  [Abstract!Next]_(Abstract!vars)
    BY <1>1, <1>2, <1>3, <1>6 DEF resume_pop
  <1>7. ASSUME NEW t \in Threads, WakeUp(t)
        PROVE  UNCHANGED <<qp, is_closed, event>>
    BY <1>7 DEF WakeUp, state
  <1>8. CASE close_sync_ll_queue
    BY <1>8 DEF close_sync_ll_queue, Abstract!Next, Abstract!Close
  <1>9. CASE UNCHANGED vars
    BY <1>1, <1>9 DEF vars, state
  <1>10. QED
    BY <1>1, <1>4, <1>5, <1>6, <1>7, <1>8, <1>9 DEF Next

(* Callers cannot tell the list queue from a FIFO that can be closed.      *)
THEOREM Refinement == Spec => ImplementsClosableQueue
  <1>1. Init => Abstract!Init
    BY DEF Init, Abstract!Init
  <1>2. [Next]_vars => [Abstract!Next]_(Abstract!vars)
    BY RefineNext
  <1>3. QED
    BY <1>1, <1>2, PTL DEF Spec, Abstract!Spec, ImplementsClosableQueue
==============================================================================
