---------------------------- MODULE ExecutorProofs ----------------------------
(***************************************************************************)
(* Proofs about Executor, for every number of submitters, controllers,     *)
(* workers and jobs, both types of executor and every capacity.            *)
(***************************************************************************)
EXTENDS Executor, FiniteSetTheorems, SequenceTheorems, TLAPS

(* How many threads of T the stages st put in one of the stages L.         *)
Count(T, st, L) == Cardinality({t \in T : st[t] \in L})

(* The part of the type invariant about where threads are.                 *)
StagesTyped ==
    /\ stage \in [Threads -> SubmitterStages \cup WorkerStages \cup ControllerStages]
    /\ \A s \in Submitters : stage[s] \in SubmitterStages
    /\ \A w \in Workers : stage[w] \in WorkerStages
    /\ \A c \in Controllers : stage[c] \in ControllerStages

(* The inductive invariant: the counts are exact only because each kind of *)
(* thread stays in its own stages.                                         *)
CountInv == StagesTyped /\ CountsAccounted

InsideStages == SubmitterStages \ {"outside"}
AliveStages == WorkerStages \ {"unborn"}
CreatingStages == {"starting", "undoing"}

-----------------------------------------------------------------------------
(* Counting threads                                                        *)

LEMMA CountIsNat ==
  ASSUME NEW T, IsFiniteSet(T), NEW st, NEW L
  PROVE  IsFiniteSet({t \in T : st[t] \in L}) /\ Count(T, st, L) \in Nat
  <1> DEFINE S == {t \in T : st[t] \in L}
  <1>1. S \in SUBSET T
    OBVIOUS
  <1>2. IsFiniteSet(S)
    BY <1>1, FS_Subset
  <1>3. QED
    BY <1>2, FS_CardinalityType DEF Count

(* Moving one thread changes a count by what it leaves and what it enters. *)
LEMMA CountMove ==
  ASSUME NEW T, IsFiniteSet(T), NEW st, NEW new, NEW L, NEW t \in T,
         \A u \in T : u # t => (new[u] \in L <=> st[u] \in L)
  PROVE  Count(T, new, L)
           = Count(T, st, L) + (IF new[t] \in L THEN 1 ELSE 0) - (IF st[t] \in L THEN 1 ELSE 0)
  <1> DEFINE S == {u \in T : st[u] \in L}
             R == {u \in T : new[u] \in L}
             O == S \ {t}
  <1>1. IsFiniteSet(S) /\ Cardinality(S) \in Nat
    BY CountIsNat DEF Count
  <1>2. Cardinality(O) = IF t \in S THEN Cardinality(S) - 1 ELSE Cardinality(S)
    BY <1>1, FS_RemoveElement
  <1>3. IsFiniteSet(O) /\ Cardinality(O) \in Nat
    BY <1>1, FS_RemoveElement, FS_CardinalityType
  <1>4. Cardinality(O \cup {t}) = Cardinality(O) + 1
    BY <1>3, FS_AddElement
  <1>5. R = IF new[t] \in L THEN O \cup {t} ELSE O
    OBVIOUS
  <1>6. t \in S <=> st[t] \in L
    OBVIOUS
  <1>7. Cardinality(R) = Cardinality(S) + (IF new[t] \in L THEN 1 ELSE 0)
                                        - (IF st[t] \in L THEN 1 ELSE 0)
    <2> HIDE DEF S, R, O
    <2>1. QED
      BY <1>1, <1>2, <1>3, <1>4, <1>5, <1>6
  <1>8. QED
    BY <1>7 DEF Count

(* Where no thread enters or leaves a set of stages its count stays.       *)
LEMMA CountSame ==
  ASSUME NEW T, NEW st, NEW new, NEW L, \A u \in T : new[u] \in L <=> st[u] \in L
  PROVE  Count(T, new, L) = Count(T, st, L)
  <1>1. {t \in T : new[t] \in L} = {t \in T : st[t] \in L}
    OBVIOUS
  <1>2. QED
    BY <1>1 DEF Count

(* The three sets of CountsAccounted as counts, before and after a step.   *)
LEMMA CountsAreCounts ==
  /\ Cardinality(Inside) = Count(Submitters, stage, InsideStages)
  /\ Cardinality(Alive) = Count(Workers, stage, AliveStages)
  /\ Cardinality(Creating) = Count(Submitters, stage, CreatingStages)
  /\ Cardinality(Inside)' = Count(Submitters, stage', InsideStages)
  /\ Cardinality(Alive)' = Count(Workers, stage', AliveStages)
  /\ Cardinality(Creating)' = Count(Submitters, stage', CreatingStages)
  BY DEF Inside, Alive, Creating, OnStage, Count, InsideStages, AliveStages, CreatingStages

-----------------------------------------------------------------------------
(* Steps of one thread, and what each leaves of the invariant.             *)

(* t goes from its stage to s, and sleeping controllers may wake up.       *)
Moves(t, s) ==
    \E all_gone \in BOOLEAN :
        \/ GoesAndWakes(t, s, all_gone, "workers_asleep", "workers_check")
        \/ GoesAndWakes(t, s, all_gone, "submitters_asleep", "submitters_woken")
        \/ Goes(t, s)

LEMMA MoveTyped ==
  ASSUME StagesTyped, NEW t \in Threads, NEW s, Moves(t, s),
         t \in Submitters => s \in SubmitterStages,
         t \in Workers => s \in WorkerStages,
         t \in Controllers => s \in ControllerStages
  PROVE  /\ StagesTyped'
         /\ stage'[t] = s
         /\ \A u \in (Submitters \cup Workers) \ {t} : stage'[u] = stage[u]
  <1>1. \A u \in Threads \ {t} :
            stage'[u] = stage[u] \/ (u \in Controllers /\ stage'[u] \in ControllerStages)
    BY ExecutorAssumption
    DEF StagesTyped, Moves, Goes, GoesAndWakes, SubmitterStages, WorkerStages, ControllerStages, Threads
  <1>2. stage'[t] = s /\ DOMAIN stage' = Threads /\ stage' = [u \in Threads |-> stage'[u]]
    BY DEF StagesTyped, Moves, Goes, GoesAndWakes
  <1>3. QED
    BY <1>1, <1>2, ExecutorAssumption DEF StagesTyped, Threads

LEMMA CountsPrimed ==
  CountInv' <=> /\ StagesTyped'
            /\ active_worker_count' = Count(Workers, stage', AliveStages)
                                         + Count(Submitters, stage', CreatingStages)
            /\ active_worker_count' <= worker_count_limit
            /\ submitters_count' = Count(Submitters, stage', InsideStages)
  BY CountsAreCounts DEF CountInv, CountsAccounted

LEMMA CountsUnprimed ==
  ASSUME CountInv
  PROVE  /\ StagesTyped
         /\ active_worker_count = Count(Workers, stage, AliveStages)
                                     + Count(Submitters, stage, CreatingStages)
         /\ active_worker_count <= worker_count_limit
         /\ submitters_count = Count(Submitters, stage, InsideStages)
         /\ Count(Workers, stage, AliveStages) \in Nat
         /\ Count(Submitters, stage, CreatingStages) \in Nat
         /\ Count(Submitters, stage, InsideStages) \in Nat
         /\ active_worker_count \in Nat /\ submitters_count \in Nat
         /\ worker_count_limit \in Nat
  <1>1. /\ Count(Workers, stage, AliveStages) \in Nat
        /\ Count(Submitters, stage, CreatingStages) \in Nat
        /\ Count(Submitters, stage, InsideStages) \in Nat
    BY CountIsNat, ExecutorAssumption
  <1>2. worker_count_limit \in Nat
    BY ExecutorAssumption, FS_CardinalityType
  <1>3. QED
    BY <1>1, <1>2, CountsAreCounts DEF CountInv, CountsAccounted

(* A submitter's step keeps the invariant when it counts itself in and out *)
(* of the executor, and the worker it creates in and out of creation.      *)
LEMMA SubmitterMoves ==
  ASSUME CountInv, NEW s \in Submitters, NEW new \in SubmitterStages, Moves(s, new),
         active_worker_count' = active_worker_count
             + (IF new \in CreatingStages THEN 1 ELSE 0)
             - (IF stage[s] \in CreatingStages THEN 1 ELSE 0),
         active_worker_count' <= worker_count_limit,
         submitters_count' = submitters_count
             + (IF new \in InsideStages THEN 1 ELSE 0)
             - (IF stage[s] \in InsideStages THEN 1 ELSE 0)
  PROVE  CountInv'
  <1>1. /\ s \in Threads /\ s \notin Workers /\ s \notin Controllers
        /\ IsFiniteSet(Submitters) /\ IsFiniteSet(Workers)
    BY ExecutorAssumption DEF Threads
  <1>2. /\ StagesTyped' /\ stage'[s] = new
        /\ \A u \in (Submitters \cup Workers) \ {s} : stage'[u] = stage[u]
    BY <1>1, MoveTyped DEF CountInv
  <1>3. Count(Workers, stage', AliveStages) = Count(Workers, stage, AliveStages)
    BY <1>1, <1>2, CountSame
  <1>4. \A L : Count(Submitters, stage', L) = Count(Submitters, stage, L)
                   + (IF new \in L THEN 1 ELSE 0) - (IF stage[s] \in L THEN 1 ELSE 0)
    <2>1. \A u \in Submitters : u # s => stage'[u] = stage[u]
      BY <1>2
    <2>2. TAKE L
    <2>3. \A u \in Submitters : u # s => (stage'[u] \in L <=> stage[u] \in L)
      BY <2>1
    <2>4. Count(Submitters, stage', L) = Count(Submitters, stage, L)
              + (IF stage'[s] \in L THEN 1 ELSE 0) - (IF stage[s] \in L THEN 1 ELSE 0)
      BY <1>1, <2>3, CountMove
    <2>5. QED
      BY <1>2, <2>4
  <1>5. /\ Count(Submitters, stage', CreatingStages) = Count(Submitters, stage, CreatingStages)
              + (IF new \in CreatingStages THEN 1 ELSE 0)
              - (IF stage[s] \in CreatingStages THEN 1 ELSE 0)
        /\ Count(Submitters, stage', InsideStages) = Count(Submitters, stage, InsideStages)
              + (IF new \in InsideStages THEN 1 ELSE 0)
              - (IF stage[s] \in InsideStages THEN 1 ELSE 0)
    BY <1>4
  <1>6. QED
    BY <1>2, <1>3, <1>5, CountsPrimed, CountsUnprimed

(* A worker's step keeps it when the worker that ends counts itself out.   *)
LEMMA WorkerMoves ==
  ASSUME CountInv, NEW w \in Workers, NEW new \in AliveStages \cup {"unborn"}, Moves(w, new),
         stage[w] \in AliveStages,
         active_worker_count' = active_worker_count - (IF new \in AliveStages THEN 0 ELSE 1),
         UNCHANGED submitters_count
  PROVE  CountInv'
  <1>1. /\ w \in Threads /\ w \notin Submitters /\ w \notin Controllers
        /\ new \in WorkerStages
        /\ IsFiniteSet(Submitters) /\ IsFiniteSet(Workers)
    BY ExecutorAssumption DEF Threads, AliveStages, WorkerStages
  <1>2. /\ StagesTyped' /\ stage'[w] = new
        /\ \A u \in (Submitters \cup Workers) \ {w} : stage'[u] = stage[u]
    BY <1>1, MoveTyped DEF CountInv
  <1>3. \A L : Count(Submitters, stage', L) = Count(Submitters, stage, L)
    BY <1>1, <1>2, CountSame
  <1>4. \A L : Count(Workers, stage', L) = Count(Workers, stage, L)
                   + (IF new \in L THEN 1 ELSE 0) - (IF stage[w] \in L THEN 1 ELSE 0)
    <2>1. \A u \in Workers : u # w => stage'[u] = stage[u]
      BY <1>2
    <2>2. TAKE L
    <2>3. \A u \in Workers : u # w => (stage'[u] \in L <=> stage[u] \in L)
      BY <2>1
    <2>4. Count(Workers, stage', L) = Count(Workers, stage, L)
              + (IF stage'[w] \in L THEN 1 ELSE 0) - (IF stage[w] \in L THEN 1 ELSE 0)
      BY <1>1, <2>3, CountMove
    <2>5. QED
      BY <1>2, <2>4
  <1>6. Count(Workers, stage', AliveStages) = Count(Workers, stage, AliveStages)
            + (IF new \in AliveStages THEN 1 ELSE 0) - (IF stage[w] \in AliveStages THEN 1 ELSE 0)
    BY <1>4
  <1>5. /\ Count(Submitters, stage', CreatingStages) = Count(Submitters, stage, CreatingStages)
        /\ Count(Submitters, stage', InsideStages) = Count(Submitters, stage, InsideStages)
    BY <1>3
  <1>7. QED
    BY <1>2, <1>6, <1>5, CountsPrimed, CountsUnprimed

(* A controller's step touches neither count.                              *)
LEMMA ControllerMoves ==
  ASSUME CountInv, NEW c \in Controllers, NEW new \in ControllerStages, Moves(c, new),
         UNCHANGED <<active_worker_count, submitters_count>>
  PROVE  CountInv'
  <1>1. c \in Threads /\ c \notin Submitters /\ c \notin Workers
    BY ExecutorAssumption DEF Threads
  <1>2. /\ StagesTyped'
        /\ \A u \in Submitters \cup Workers : stage'[u] = stage[u]
    BY <1>1, MoveTyped DEF CountInv
  <1>3. /\ Count(Workers, stage', AliveStages) = Count(Workers, stage, AliveStages)
        /\ Count(Submitters, stage', CreatingStages) = Count(Submitters, stage, CreatingStages)
        /\ Count(Submitters, stage', InsideStages) = Count(Submitters, stage, InsideStages)
    BY <1>2, CountSame
  <1>4. QED
    BY <1>2, <1>3, CountsPrimed, CountsUnprimed

LEMMA NobodyMoves ==
  ASSUME CountInv, UNCHANGED <<stage, active_worker_count, submitters_count>>
  PROVE  CountInv'
  BY DEF CountInv, StagesTyped, CountsAccounted, Inside, Alive, Creating, OnStage

-----------------------------------------------------------------------------
(* Initially.                                                              *)

LEMMA InitEstablishes == Init => CountInv
  <1> SUFFICES ASSUME Init PROVE CountInv
    OBVIOUS
  <1>1. PICK started \in SUBSET Workers :
            /\ type = CACHED_THREAD_POOL_EXECUTOR => started = {}
            /\ type = FIXED_THREAD_COUNT_EXECUTOR =>
                  Cardinality(started) = worker_count_limit \/ Cardinality(started) <= worker_count_limit
            /\ active_worker_count = Cardinality(started)
            /\ stage = [t \in Threads |-> IF t \in started THEN "start_up"
                                          ELSE IF t \in Workers THEN "unborn" ELSE "outside"]
    BY DEF Init
  <1>2. StagesTyped
    BY <1>1, ExecutorAssumption
    DEF StagesTyped, Threads, SubmitterStages, WorkerStages, ControllerStages
  <1>3. Alive = started /\ Creating = {} /\ Inside = {}
    BY <1>1, ExecutorAssumption
    DEF Alive, Creating, Inside, OnStage, Threads, SubmitterStages, WorkerStages
  <1>4. Cardinality({}) = 0 /\ Cardinality(started) \in Nat /\ worker_count_limit \in Nat \ {0}
    BY <1>1, ExecutorAssumption, FS_EmptySet, FS_Subset, FS_CardinalityType
  <1>5. Cardinality(started) <= worker_count_limit
    BY <1>1, <1>4, ExecutorAssumption DEF CACHED_THREAD_POOL_EXECUTOR, FIXED_THREAD_COUNT_EXECUTOR
  <1>6. submitters_count = 0
    BY DEF Init
  <1>7. QED
    BY <1>1, <1>2, <1>3, <1>4, <1>5, <1>6 DEF CountInv, CountsAccounted

-----------------------------------------------------------------------------
(* Every action moves a thread as one of these lemmas says.                *)

LEMMA SubmitterSteps ==
  ASSUME CountInv, NEW s \in Submitters,
         SubmitterStep(s) \/ \E j \in Jobs : submit_job_executor(s, j)
  PROVE  CountInv'
  <1> USE DEF executor, CreatingStages, InsideStages, SubmitterStages
  <1>1. /\ active_worker_count \in Nat /\ submitters_count \in Nat
        /\ active_worker_count <= worker_count_limit /\ worker_count_limit \in Nat
    BY CountsUnprimed
  <1>2. CASE \E j \in Jobs : submit_job_executor(s, j)
    <2>1. Moves(s, "submitting") /\ stage[s] = "outside"
      BY <1>2 DEF submit_job_executor, Moves
    <2>2. submitters_count' = submitters_count + 1 /\ UNCHANGED active_worker_count
      BY <1>2 DEF submit_job_executor
    <2>3. QED
      BY <1>1, <2>1, <2>2, SubmitterMoves
  <1>3. CASE submit_job_worker(s)
    <2>1. UNCHANGED <<active_worker_count, submitters_count>> /\ stage[s] = "submitting"
      BY <1>3 DEF submit_job_worker
    <2>2. \/ UNCHANGED stage
          \/ \E new \in {"counting", "leaving"} : Goes(s, new)
      BY <1>3 DEF submit_job_worker, QueueReturns
    <2>3. CASE UNCHANGED stage
      BY <2>1, <2>3, NobodyMoves
    <2>4. CASE \E new \in {"counting", "leaving"} : Goes(s, new)
      <3>1. PICK new \in {"counting", "leaving"} : Moves(s, new)
        BY <2>4 DEF Moves
      <3>2. QED
        BY <1>1, <2>1, <3>1, SubmitterMoves
    <2>5. QED
      BY <2>2, <2>3, <2>4
  <1>4. CASE new_job_failed(s)
    <2>1. UNCHANGED <<active_worker_count, submitters_count>> /\ stage[s] = "submitting"
      BY <1>4 DEF new_job_failed
    <2>2. Moves(s, "leaving")
      BY <1>4 DEF new_job_failed, Moves
    <2>3. QED
      BY <1>1, <2>1, <2>2, SubmitterMoves
  <1>5. CASE worker_needed(s)
    <2>1. /\ UNCHANGED <<active_worker_count, submitters_count>>
          /\ stage[s] \in {"counting", "looking"}
      BY <1>5 DEF worker_needed
    <2>2. PICK new \in {"looking", "creating", "leaving"} : Moves(s, new)
      BY <1>5 DEF worker_needed, Moves
    <2>3. QED
      BY <1>1, <2>1, <2>2, SubmitterMoves
  <1>6. CASE create_worker(s)
    <2>1. stage[s] = "creating" /\ UNCHANGED submitters_count
      BY <1>6 DEF create_worker
    <2>2. CASE RoomForWorker /\ active_worker_count' = active_worker_count + 1 /\ Goes(s, "starting")
      <3>1. Moves(s, "starting")
        BY <2>2, Zenon DEF Moves
      <3>2. active_worker_count' <= worker_count_limit
        BY <1>1, <2>2 DEF RoomForWorker
      <3>3. QED
        BY <1>1, <2>1, <2>2, <3>1, <3>2, SubmitterMoves
    <2>3. CASE Goes(s, "leaving") /\ UNCHANGED active_worker_count
      <3>1. Moves(s, "leaving")
        BY <2>3 DEF Moves
      <3>2. QED
        BY <1>1, <2>1, <2>3, <3>1, SubmitterMoves
    <2>4. QED
      BY <1>6, <2>2, <2>3 DEF create_worker
  <1>7. CASE undo_create_worker(s)
    <2>1. /\ stage[s] = "undoing" /\ UNCHANGED submitters_count
          /\ active_worker_count' = active_worker_count - 1
      BY <1>7 DEF undo_create_worker, WorkerGone
    <2>2. Moves(s, "leaving")
      BY <1>7 DEF undo_create_worker, WorkerGone, Moves
    <2>3. QED
      BY <1>1, <2>1, <2>2, SubmitterMoves
  <1>8. CASE submitter_leaves(s)
    <2>1. /\ stage[s] = "leaving" /\ UNCHANGED active_worker_count
          /\ submitters_count' = submitters_count - 1
      BY <1>8 DEF submitter_leaves
    <2>2. Moves(s, "outside")
      BY <1>8 DEF submitter_leaves, Moves
    <2>3. QED
      BY <1>1, <2>1, <2>2, SubmitterMoves
  <1>9. CASE start_worker(s)
    <2>1. UNCHANGED <<active_worker_count, submitters_count>> /\ stage[s] = "starting"
      BY <1>9 DEF start_worker
    <2>2. CASE Goes(s, "undoing")
      <3>1. Moves(s, "undoing")
        BY <2>2 DEF Moves
      <3>2. QED
        BY <1>1, <2>1, <3>1, SubmitterMoves
    <2>3. CASE \E w \in OnStage(Workers, {"unborn"}) :
                 stage' = [stage EXCEPT ![w] = "start_up", ![s] = "leaving"]
      (* Two threads move: the worker is counted as alive from now on, and *)
      (* no longer as in creation.                                         *)
      <3>1. PICK w \in Workers : /\ stage[w] = "unborn"
                                 /\ stage' = [stage EXCEPT ![w] = "start_up", ![s] = "leaving"]
        BY <2>3 DEF OnStage
      <3>2. /\ s \in Threads /\ w \in Threads /\ s \notin Workers /\ w \notin Submitters
            /\ s # w /\ IsFiniteSet(Submitters) /\ IsFiniteSet(Workers)
            /\ w \notin Controllers /\ s \notin Controllers
        BY ExecutorAssumption DEF Threads
      <3>3. stage'[w] = "start_up" /\ stage'[s] = "leaving"
            /\ \A u \in Threads \ {w, s} : stage'[u] = stage[u]
        BY <3>1, <3>2 DEF CountInv, StagesTyped
      <3>4. StagesTyped'
        BY <3>1, <3>2, <3>3 DEF CountInv, StagesTyped, WorkerStages, Threads
      <3>5. \A L : Count(Workers, stage', L) = Count(Workers, stage, L)
                      + (IF stage'[w] \in L THEN 1 ELSE 0) - (IF stage[w] \in L THEN 1 ELSE 0)
        <4>1. \A u \in Workers : u # w => stage'[u] = stage[u]
          BY <3>2, <3>3 DEF Threads
        <4>2. QED
          BY <3>2, <4>1, CountMove
      <3>6. \A L : Count(Submitters, stage', L) = Count(Submitters, stage, L)
                      + (IF stage'[s] \in L THEN 1 ELSE 0) - (IF stage[s] \in L THEN 1 ELSE 0)
        <4>1. \A u \in Submitters : u # s => stage'[u] = stage[u]
          BY <3>2, <3>3 DEF Threads
        <4>2. QED
          BY <3>2, <4>1, CountMove
      <3>7. Count(Workers, stage', AliveStages) = Count(Workers, stage, AliveStages) + 1
        <4>1. "start_up" \in AliveStages /\ "unborn" \notin AliveStages
          BY DEF AliveStages, WorkerStages
        <4>2. Count(Workers, stage', AliveStages) = Count(Workers, stage, AliveStages) + 1 - 0
          BY <3>1, <3>3, <3>5, <4>1
        <4>3. QED
          BY <4>2, CountsUnprimed
      <3>8. /\ Count(Submitters, stage', CreatingStages) = Count(Submitters, stage, CreatingStages) - 1
            /\ Count(Submitters, stage', InsideStages) = Count(Submitters, stage, InsideStages)
        <4>1. /\ "leaving" \notin CreatingStages /\ "starting" \in CreatingStages
              /\ "leaving" \in InsideStages /\ "starting" \in InsideStages
          OBVIOUS
        <4>2. /\ Count(Submitters, stage', CreatingStages)
                    = Count(Submitters, stage, CreatingStages) + 0 - 1
              /\ Count(Submitters, stage', InsideStages)
                    = Count(Submitters, stage, InsideStages) + 1 - 1
          BY <2>1, <3>3, <3>6, <4>1
        <4>3. QED
          BY <4>2, CountsUnprimed
      <3>9. QED
        BY <2>1, <3>4, <3>7, <3>8, CountsPrimed, CountsUnprimed
    <2>4. QED
      BY <1>9, <2>2, <2>3 DEF start_worker
  <1>10. QED
    BY <1>2, <1>3, <1>4, <1>5, <1>6, <1>7, <1>8, <1>9 DEF SubmitterStep

LEMMA WorkerSteps ==
  ASSUME CountInv, NEW w \in Workers, WorkerStep(w)
  PROVE  CountInv'
  <1> USE DEF executor, AliveStages, WorkerStages
  <1>1. active_worker_count \in Nat
    BY CountsUnprimed
  <1>2. CASE dequeue(w)
    <2>1. UNCHANGED <<active_worker_count, submitters_count>> /\ stage[w] = "dequeuing"
      BY <1>2 DEF dequeue
    <2>2. UNCHANGED stage \/ \E new \in {"dequeued", "clean_up"} : Goes(w, new)
      BY <1>2 DEF dequeue, QueueReturns
    <2>3. CASE UNCHANGED stage
      BY <2>1, <2>3, NobodyMoves
    <2>4. CASE \E new \in {"dequeued", "clean_up"} : Goes(w, new)
      <3>1. PICK new \in {"dequeued", "clean_up"} : Moves(w, new)
        BY <2>4 DEF Moves
      <3>2. QED
        BY <1>1, <2>1, <3>1, WorkerMoves
    <2>5. QED
      BY <2>2, <2>3, <2>4
  <1>3. CASE clean_up(w)
    <2>1. /\ stage[w] = "clean_up" /\ UNCHANGED submitters_count
          /\ active_worker_count' = active_worker_count - 1
      BY <1>3 DEF clean_up, WorkerGone
    <2>2. Moves(w, "unborn")
      BY <1>3 DEF clean_up, WorkerGone, Moves
    <2>3. QED
      BY <1>1, <2>1, <2>2, WorkerMoves
  <1>4. CASE start_up(w) \/ execute_job(w) \/ complete_job(w)
    <2>1. /\ UNCHANGED <<active_worker_count, submitters_count>>
          /\ stage[w] \in {"start_up", "dequeued", "running"}
      BY <1>4 DEF start_up, execute_job, complete_job
    <2>2. PICK new \in {"dequeuing", "running"} : Moves(w, new)
      BY <1>4 DEF start_up, execute_job, complete_job, Moves
    <2>3. QED
      BY <1>1, <2>1, <2>2, WorkerMoves
  <1>5. QED
    BY <1>2, <1>3, <1>4 DEF WorkerStep

LEMMA ControllerSteps ==
  ASSUME CountInv, NEW c \in Controllers, ControllerStep(c) \/ ControllerCall(c)
  PROVE  CountInv'
  <1>1. UNCHANGED <<active_worker_count, submitters_count>>
    BY DEF ControllerStep, ControllerCall, executor, shutdown_executor, resume_shutdown,
           wait_for_all_executor_workers_to_complete, wait_for_workers, discard_leftover_jobs,
           discard_pop, cancel_job, delete_executor
  <1>2. UNCHANGED stage \/ \E new \in ControllerStages : Goes(c, new)
    <2>1. \A what \in Calls : WaitForSubmitters(c, what) => \E new \in ControllerStages : Goes(c, new)
      BY DEF WaitForSubmitters, Proceed, Reply, ControllerStages
    <2>2. CASE \E what \in {"shutdown", "shutdown_immediately"} : shutdown_executor(c, what)
      <3>1. CASE \E what \in Calls : WaitForSubmitters(c, what)
        BY <2>1, <3>1
      <3>2. CASE Reply(c, "already")
        BY <3>2 DEF Reply, ControllerStages
      <3>3. QED
        BY <2>2, <3>1, <3>2 DEF shutdown_executor, Calls
    <2>3. CASE resume_shutdown(c)
      BY <2>3 DEF resume_shutdown, WaitForSubmitters, Proceed, Reply, ControllerStages
    <2>4. CASE \/ \E what \in {"wait", "delete"} : wait_for_all_executor_workers_to_complete(c, what)
               \/ wait_for_workers(c) \/ discard_leftover_jobs(c) \/ cancel_job(c) \/ delete_executor(c)
      BY <2>4 DEF wait_for_all_executor_workers_to_complete, wait_for_workers, discard_leftover_jobs,
                  cancel_job, delete_executor, Proceed, Reply, ControllerStages
    <2>5. CASE discard_pop(c)
      BY <2>5 DEF discard_pop, QueueReturns, ControllerStages
    <2>6. QED
      BY <2>2, <2>3, <2>4, <2>5 DEF ControllerStep, ControllerCall
  <1>3. CASE UNCHANGED stage
    BY <1>1, <1>3, NobodyMoves
  <1>4. CASE \E new \in ControllerStages : Goes(c, new)
    <2>1. PICK new \in ControllerStages : Moves(c, new)
      BY <1>4 DEF Moves
    <2>2. QED
      BY <1>1, <2>1, ControllerMoves
  <1>5. QED
    BY <1>2, <1>3, <1>4

(* Only controllers sleep on condition variables of the executor itself.   *)
LEMMA WakeUps ==
  ASSUME CountInv, NEW t \in Threads, WakeUp(t)
  PROVE  CountInv'
  <1>1. UNCHANGED <<active_worker_count, submitters_count>>
    BY DEF WakeUp, executor
  <1>2. CASE UNCHANGED stage
    BY <1>1, <1>2, NobodyMoves
  <1>3. CASE \/ stage[t] = "submitters_asleep" /\ Goes(t, "submitters_woken")
             \/ stage[t] = "workers_asleep" /\ Goes(t, "workers_check")
    <2>1. t \in Controllers
      BY <1>3 DEF CountInv, StagesTyped, Threads, SubmitterStages, WorkerStages
    <2>2. PICK new \in ControllerStages : Moves(t, new)
      BY <1>3 DEF Moves, ControllerStages
    <2>3. QED
      BY <1>1, <2>1, <2>2, ControllerMoves
  <1>4. QED
    BY <1>2, <1>3 DEF WakeUp

LEMMA StepPreserves == CountInv /\ [Next]_vars => CountInv'
  <1> SUFFICES ASSUME CountInv, [Next]_vars PROVE CountInv'
    OBVIOUS
  <1>1. CASE UNCHANGED vars
    BY <1>1, NobodyMoves DEF vars, executor
  <1>2. CASE Finished
    BY <1>2, NobodyMoves DEF Finished, vars, executor
  <1>3. QED
    BY <1>1, <1>2, SubmitterSteps, WorkerSteps, ControllerSteps, WakeUps DEF Next

-----------------------------------------------------------------------------
(* The inductive invariant                                                 *)

(* The job queue is one of two proved queues.                              *)
SQ == INSTANCE SyncQueueProofs WITH
    Values <- Jobs, MaxCapacities <- QueueCapacities, MayResize <- FALSE,
    MaxItems <- Cardinality(Jobs)
LQ == INSTANCE SyncLLQueueProofs WITH Values <- Jobs

QueueInv ==
    /\ max_capacity \in QueueCapacities
    /\ IF max_capacity = 0 THEN LQ!IInv ELSE SQ!IInv /\ SQ!ProducersAwake

(* Only a submitter in its push and a worker in its pop are inside the     *)
(* queue, and a push that waits has the submitter's job.                   *)
AtQueue ==
    /\ \A t \in Threads : pc[t] # "idle" => stage[t] \in {"submitting", "dequeuing"}
    /\ \A s \in Submitters : pc[s] # "idle" => max_capacity # 0 /\ arg[s] = holds[s]

JobStates == {"none", "CREATED", "REJECTED", "RUNNING", "COMPLETED", "CANCELLED"}
JobsTyped ==
    /\ job_state \in [Jobs -> JobStates]
    /\ result \in [Jobs -> {"unset", "output", "null"}]
    /\ holds \in [Threads -> Jobs \cup {NULL}]

(* A thread holds a job just in these stages.                              *)
HoldingStages == {"submitting", "dequeued", "running", "cancelling"}
HoldsFit == \A t \in Threads : holds[t] # NULL <=> stage[t] \in HoldingStages

(* No job is in two places.                                                *)
Queued(j) == \E i \in DOMAIN qp : qp[i] = j
Held(j) == \E t \in Threads : holds[t] = j
OnePlace ==
    /\ \A i, k \in DOMAIN qp : qp[i] = qp[k] => i = k
    /\ \A t, u \in Threads : holds[t] # NULL /\ holds[t] = holds[u] => t = u
    /\ \A t \in Threads, i \in DOMAIN qp : holds[t] # qp[i]

(* The states of jobs follow from where they are.                          *)
StatesFit ==
    /\ \A j \in Jobs : Queued(j) => job_state[j] = "CREATED"
    /\ \A t \in Threads : holds[t] # NULL =>
          job_state[holds[t]] \in IF t \in Submitters THEN {"none", "CREATED"}
                                  ELSE {"CREATED", "RUNNING"}
    /\ \A j \in Jobs : job_state[j] \in {"CREATED", "RUNNING"} => Queued(j) \/ Held(j)
    /\ \A j \in Jobs : result[j] = "unset" <=> job_state[j] \notin {"COMPLETED", "CANCELLED"}

OwnershipInv == JobsTyped /\ HoldsFit /\ OnePlace /\ StatesFit

(* What each controller is in the middle of, and what has been requested.  *)
Shutdowns == {"shutdown", "shutdown_immediately"}
Waiting == OnStage(Controllers, {"submitters_asleep", "submitters_woken"})
DiscardStages == {"discarding", "discard_pop", "cancelling"}
Replies == {"none", "shutdown", "already", "refused", "waited", "deleted"}
CallsTyped ==
    /\ shutdown_requested \in BOOLEAN /\ freed \in BOOLEAN
    /\ call \in [Controllers -> Calls]
    /\ returned \in [Controllers -> Replies]
CallsFit ==
    \A c \in Controllers :
        /\ stage[c] = "outside" <=> call[c] = "none"
        /\ stage[c] \in {"submitters_asleep", "submitters_woken"} => call[c] \in Shutdowns
        /\ stage[c] \in {"workers_asleep", "workers_check"} => call[c] \in {"wait", "delete"}
        /\ stage[c] \in DiscardStages => call[c] \in {"shutdown_immediately", "delete"}
        /\ stage[c] = "freeing" => call[c] = "delete"
Requested ==
    /\ is_closed = shutdown_requested
    /\ \A c \in Controllers :
          call[c] # "none" \/ returned[c] \in {"shutdown", "waited"} => shutdown_requested

(* One controller at most waits for the submitters, before any shutdown    *)
(* has taken effect; then none is left.                                    *)
WaitsAlone ==
    \A c \in Waiting, d \in Controllers :
        returned[d] # "shutdown" /\ (d # c => call[d] \notin Shutdowns)
SubmittersGone == shutdown_requested /\ Waiting = {} => submitters_count = 0

DeletesAlone ==
    \A c \in Controllers : call[c] = "delete" =>
        /\ ~freed /\ OthersAreOut(c) /\ submitters_count = 0
        /\ stage[c] \in DiscardStages \cup {"freeing"} => active_worker_count = 0

ShutdownInv ==
    /\ CallsTyped /\ CallsFit /\ Requested /\ WaitsAlone /\ SubmittersGone
    /\ DeletesAlone /\ FreedWhenDeserted

(* A FIXED executor that has a worker keeps one until its queue is closed  *)
(* and empty: its workers wait for ever, and nobody starts new ones.  So   *)
(* the queue is empty for good when a wait for the workers is over.        *)
TimedOut == {"pop_timedout", "timedout"}
Drained == is_closed /\ qp = <<>>
OnlySubmits == \A s \in Submitters : stage[s] \in {"outside", "submitting", "leaving"}
WaitsForEver == \A w \in Workers : timeout[w] = "BLOCKING" /\ pc[w] \notin TimedOut
AWorkerRemains ==
    Drained \/ \E w \in Workers : stage[w] \in {"start_up", "dequeuing", "dequeued", "running"}
DrainedInTheEnd ==
    \A c \in Controllers :
        /\ returned[c] = "waited" => Drained /\ active_worker_count = 0
        /\ call[c] = "delete" /\ stage[c] \in DiscardStages => Drained /\ stage[c] = "discarding"
FixedInv == OnlySubmits /\ WaitsForEver /\ AWorkerRemains /\ DrainedInTheEnd

IInv == CountInv /\ QueueInv /\ AtQueue /\ OwnershipInv /\ ShutdownInv


-----------------------------------------------------------------------------
(* Steps of the queue                                                      *)

(* Everybody but t stays where it is in the queue, or is woken.            *)
OthersStay(t) ==
    \A u \in Threads \ {t} :
        /\ pc'[u] = "idle" <=> pc[u] = "idle"
        /\ pc'[u] \in TimedOut => pc[u] \in TimedOut
        /\ timeout'[u] = timeout[u]
        /\ max_capacity # 0 => arg'[u] = arg[u]

(* What t sees of a push of j: it sleeps, or the job was taken or refused. *)
PushEffect(t, j) ==
    \/ pc'[t] # "idle" /\ UNCHANGED qp /\ max_capacity # 0 /\ arg'[t] = j
    \/ pc'[t] = "idle" /\ ~is_closed /\ qp' = Append(qp, j) /\ event'.ret = j
    \/ pc'[t] = "idle" /\ UNCHANGED qp /\ event'.ret = NULL

(* And of a pop.                                                           *)
PopEffect(t) ==
    \/ pc'[t] \notin {"idle"} \cup TimedOut /\ UNCHANGED qp
    \/ pc'[t] = "idle" /\ qp # <<>> /\ qp' = Tail(qp) /\ event'.ret = Head(qp)
    \/ pc'[t] = "idle" /\ qp = <<>> /\ UNCHANGED qp /\ event'.ret = NULL

(* A step of the queue, as the proofs about the two queues know it.        *)
QueueStep ==
    /\ UNCHANGED max_capacity
    /\ IF max_capacity = 0 THEN LQ!Next ELSE SQ!Next

LEMMA QueueTypes ==
  ASSUME QueueInv
  PROVE  /\ qp \in Seq(Jobs) /\ is_closed \in BOOLEAN
         /\ pc \in [Threads -> SQ!Places \cup LQ!Places]
         /\ timeout \in [Threads -> SQ!Timeouts]
         /\ max_capacity # 0 => /\ pc \in [Threads -> SQ!Places]
                                /\ arg \in [Threads -> Jobs \cup {NULL}]
         /\ max_capacity = 0 => pc \in [Threads -> LQ!Places]
  BY DEF QueueInv, SQ!IInv, SQ!TypeOK, LQ!IInv, LQ!TypeOK, SQ!Timeouts, LQ!Timeouts,
         SQ!BLOCKING, SQ!TIMED, SQ!NON_BLOCKING, LQ!BLOCKING, LQ!TIMED, LQ!NON_BLOCKING

(* Each instance has its own FiniteSets: they agree.                       *)
LEMMA SameSets ==
  ASSUME NEW S
  PROVE  /\ SQ!IsFiniteSet(S) <=> IsFiniteSet(S)
         /\ LQ!IsFiniteSet(S) <=> IsFiniteSet(S)
         /\ job_q!Cardinality(S) = Cardinality(S)
  BY DEF IsFiniteSet, SQ!IsFiniteSet, LQ!IsFiniteSet, Cardinality, job_q!Cardinality

(* The parameters the queues are used with are as their proofs assume.     *)
LEMMA QueueAssumptions == SQ!QueueAssumption /\ LQ!ListQueueAssumption
  <1>1. IsFiniteSet(Threads)
    <2>1. IsFiniteSet(Submitters \cup Controllers)
      BY ExecutorAssumption, FS_Union
    <2>2. QED
      BY <2>1, ExecutorAssumption, FS_Union DEF Threads
  <1>2. Cardinality(Jobs) \in Nat
    BY ExecutorAssumption, FS_CardinalityType
  <1>3. QED
    BY <1>1, <1>2, SameSets, ExecutorAssumption DEF SQ!QueueAssumption, LQ!ListQueueAssumption

(* The queue of the executor is the queue of the proofs, operator by       *)
(* operator.                                                               *)
LEMMA SameConditions ==
  /\ SQ!PushMustWait <=> job_q!sq!PushMustWait
  /\ SQ!PopMustWait <=> job_q!sq!PopMustWait
  /\ SQ!CapacitiesForPush = job_q!sq!CapacitiesForPush
  /\ SQ!SignalConsumer = job_q!sq!SignalConsumer
  /\ SQ!SignalProducer = job_q!sq!SignalProducer
  /\ \A n : SQ!CapacitiesAfterPop(n) = job_q!sq!CapacitiesAfterPop(n)
  BY DEF SQ!PushMustWait, job_q!sq!PushMustWait, SQ!PopMustWait, job_q!sq!PopMustWait,
         SQ!CapacitiesForPush, job_q!sq!CapacitiesForPush,
         SQ!CapacitiesAfterPop, job_q!sq!CapacitiesAfterPop,
         SQ!is_full_arraylist, job_q!sq!is_full_arraylist,
         SQ!has_sync_queue_capacity_crossed_max_capacity_limits,
         job_q!sq!has_sync_queue_capacity_crossed_max_capacity_limits,
         SQ!SignalConsumer, job_q!sq!SignalConsumer, SQ!SignalProducer, job_q!sq!SignalProducer,
         SQ!Signal, job_q!sq!Signal, SQ!At, job_q!sq!At, SQ!In, job_q!sq!In

LEMMA SameEnds ==
  ASSUME NEW t
  PROVE  /\ \A v : SQ!FinishPush(t, v) <=> job_q!sq!FinishPush(t, v)
         /\ SQ!FinishPop(t) <=> job_q!sq!FinishPop(t)
         /\ \A where, v, tmo : SQ!Sleep(t, where, v, tmo) <=> job_q!sq!Sleep(t, where, v, tmo)
  <1>1. \A op, ret, p : SQ!Return(t, op, ret, p) <=> job_q!sq!Return(t, op, ret, p)
    BY DEF SQ!Return, job_q!sq!Return, SQ!BLOCKING, job_q!sq!BLOCKING
  <1>2. SQ!state = job_q!sq!state
    BY DEF SQ!state, job_q!sq!state
  <1>3. SQ!FinishPop(t) <=> job_q!sq!FinishPop(t)
    BY <1>1, SameConditions DEF SQ!FinishPop, job_q!sq!FinishPop
  <1>4. ASSUME NEW v
        PROVE  SQ!FinishPush(t, v) <=> job_q!sq!FinishPush(t, v)
    BY <1>1, SameConditions DEF SQ!FinishPush, job_q!sq!FinishPush, SQ!state, job_q!sq!state
  <1>5. ASSUME NEW where, NEW v, NEW tmo
        PROVE  SQ!Sleep(t, where, v, tmo) <=> job_q!sq!Sleep(t, where, v, tmo)
    BY DEF SQ!Sleep, job_q!sq!Sleep, SQ!state, job_q!sq!state
  <1>6. QED
    BY <1>3, <1>4, <1>5

LEMMA SameCalls ==
  ASSUME NEW t, max_capacity # 0
  PROVE  /\ \A j, tmo : job_q!push_job_queue(t, j, tmo) <=> SQ!push_sync_queue(t, j, tmo)
         /\ job_q!resume_push(t) <=> SQ!resume_push(t)
         /\ \A tmo : job_q!pop_job_queue(t, tmo) <=> SQ!pop_sync_queue(t, tmo)
         /\ job_q!resume_pop(t) <=> SQ!resume_pop(t)
         /\ job_q!close_job_queue <=> SQ!close_sync_queue
         /\ job_q!WakeUp(t) <=> SQ!SpuriousWakeup(t) \/ SQ!TimeOut(t)
  <1> USE DEF job_q!On, job_q!LINKEDLIST_TYPE_JOB_QUEUE, job_q!JOB_QUEUE_AS_LINKEDLIST
  <1>1. ASSUME NEW j, NEW tmo
        PROVE  job_q!push_job_queue(t, j, tmo) <=> SQ!push_sync_queue(t, j, tmo)
    BY SameConditions, SameEnds, SameSets
    DEF job_q!push_job_queue, SQ!push_sync_queue, job_q!sq!push_sync_queue,
        SQ!NON_BLOCKING, job_q!sq!NON_BLOCKING
  <1>2. job_q!resume_push(t) <=> SQ!resume_push(t)
    BY SameConditions, SameEnds DEF job_q!resume_push, SQ!resume_push, job_q!sq!resume_push
  <1>3. ASSUME NEW tmo
        PROVE  job_q!pop_job_queue(t, tmo) <=> SQ!pop_sync_queue(t, tmo)
    BY SameConditions, SameEnds
    DEF job_q!pop_job_queue, SQ!pop_sync_queue, job_q!sq!pop_sync_queue,
        SQ!NON_BLOCKING, job_q!sq!NON_BLOCKING
  <1>4. job_q!resume_pop(t) <=> SQ!resume_pop(t)
    BY SameConditions, SameEnds DEF job_q!resume_pop, SQ!resume_pop, job_q!sq!resume_pop
  <1>5. job_q!close_job_queue <=> SQ!close_sync_queue
    BY DEF job_q!close_job_queue, SQ!close_sync_queue, job_q!sq!close_sync_queue,
           SQ!WakeConsumers, job_q!sq!WakeConsumers, SQ!WakeProducers, job_q!sq!WakeProducers,
           SQ!Broadcast, job_q!sq!Broadcast, SQ!counts, job_q!sq!counts, SQ!calls, job_q!sq!calls
  <1>6. job_q!WakeUp(t) <=> SQ!SpuriousWakeup(t) \/ SQ!TimeOut(t)
    BY DEF job_q!WakeUp, SQ!SpuriousWakeup, job_q!sq!SpuriousWakeup, SQ!TimeOut, job_q!sq!TimeOut,
           SQ!state, job_q!sq!state, SQ!counts, job_q!sq!counts, SQ!calls, job_q!sq!calls,
           SQ!TIMED, job_q!sq!TIMED
  <1>7. QED
    BY <1>1, <1>2, <1>3, <1>4, <1>5, <1>6

(* What a linked list leaves alone.                                        *)
ArrayListRests == UNCHANGED <<capacity, max_capacity, q_full_wait_thread_count, arg>>

LEMMA SameListCalls ==
  ASSUME NEW t, max_capacity = 0
  PROVE  /\ \A j, tmo : job_q!push_job_queue(t, j, tmo) <=> LQ!push_sync_ll_queue(t, j) /\ ArrayListRests
         /\ ~job_q!resume_push(t)
         /\ \A tmo : job_q!pop_job_queue(t, tmo) <=> LQ!pop_sync_ll_queue(t, tmo) /\ ArrayListRests
         /\ job_q!resume_pop(t) <=> LQ!resume_pop(t) /\ ArrayListRests
         /\ job_q!close_job_queue <=> LQ!close_sync_ll_queue /\ ArrayListRests
         /\ job_q!WakeUp(t) <=> LQ!WakeUp(t) /\ ArrayListRests
  <1> USE DEF job_q!On, job_q!LINKEDLIST_TYPE_JOB_QUEUE, job_q!JOB_QUEUE_AS_LINKEDLIST, ArrayListRests
  <1>1. LQ!FinishPop(t) <=> job_q!lsq!FinishPop(t)
    BY DEF LQ!FinishPop, job_q!lsq!FinishPop, LQ!BLOCKING, job_q!lsq!BLOCKING
  <1>2. ASSUME NEW tmo
        PROVE  LQ!Sleep(t, tmo) <=> job_q!lsq!Sleep(t, tmo)
    BY DEF LQ!Sleep, job_q!lsq!Sleep, LQ!state, job_q!lsq!state
  <1>3. LQ!PopMustWait <=> job_q!lsq!PopMustWait
    BY DEF LQ!PopMustWait, job_q!lsq!PopMustWait
  <1>4. ASSUME NEW j, NEW tmo
        PROVE  job_q!push_job_queue(t, j, tmo) <=> LQ!push_sync_ll_queue(t, j) /\ ArrayListRests
    BY DEF job_q!push_job_queue, LQ!push_sync_ll_queue, job_q!lsq!push_sync_ll_queue,
           LQ!Linked, job_q!lsq!Linked, LQ!Signal, job_q!lsq!Signal, LQ!In, job_q!lsq!In
  <1>5. ~job_q!resume_push(t)
    BY DEF job_q!resume_push
  <1>6. ASSUME NEW tmo
        PROVE  job_q!pop_job_queue(t, tmo) <=> LQ!pop_sync_ll_queue(t, tmo) /\ ArrayListRests
    BY <1>1, <1>2, <1>3
    DEF job_q!pop_job_queue, LQ!pop_sync_ll_queue, job_q!lsq!pop_sync_ll_queue,
        LQ!NON_BLOCKING, job_q!lsq!NON_BLOCKING
  <1>7. job_q!resume_pop(t) <=> LQ!resume_pop(t) /\ ArrayListRests
    BY <1>1, <1>2, <1>3 DEF job_q!resume_pop, LQ!resume_pop, job_q!lsq!resume_pop
  <1>8. job_q!close_job_queue <=> LQ!close_sync_ll_queue /\ ArrayListRests
    BY DEF job_q!close_job_queue, LQ!close_sync_ll_queue, job_q!lsq!close_sync_ll_queue
  <1>9. job_q!WakeUp(t) <=> LQ!WakeUp(t) /\ ArrayListRests
    BY DEF job_q!WakeUp, LQ!WakeUp, job_q!lsq!WakeUp, LQ!state, job_q!lsq!state, LQ!TIMED, job_q!lsq!TIMED
  <1>10. QED
    BY <1>4, <1>5, <1>6, <1>7, <1>8, <1>9

(* What a call does, whichever queue it is.                                *)
LEMMA PushIsAStep ==
  ASSUME QueueInv, NEW t \in Threads, NEW j \in Jobs,
         \/ \E tmo \in job_q!Timeouts : job_q!push_job_queue(t, j, tmo)
         \/ job_q!resume_push(t)
  PROVE  QueueStep
  <1>1. CASE max_capacity = 0
    <2>1. LQ!push_sync_ll_queue(t, j) /\ ArrayListRests
      BY <1>1, SameListCalls
    <2>2. QED
      BY <1>1, <2>1 DEF QueueStep, LQ!Next, ArrayListRests
  <1>2. CASE max_capacity # 0
    <2>1. (\E tmo \in SQ!Timeouts : SQ!push_sync_queue(t, j, tmo)) \/ SQ!resume_push(t)
      BY <1>2, SameCalls
      DEF SQ!Timeouts, job_q!Timeouts, job_q!sq!Timeouts, SQ!BLOCKING, SQ!TIMED, SQ!NON_BLOCKING,
          job_q!sq!BLOCKING, job_q!sq!TIMED, job_q!sq!NON_BLOCKING
    <2>2. UNCHANGED max_capacity
      BY <2>1 DEF SQ!push_sync_queue, SQ!resume_push, SQ!Sleep, SQ!FinishPush, SQ!state
    <2>3. SQ!Next
      BY <2>1 DEF SQ!Next, SQ!Call
    <2>4. QED
      BY <1>2, <2>2, <2>3 DEF QueueStep
  <1>3. QED
    BY <1>1, <1>2

LEMMA PushEffects ==
  ASSUME QueueInv, NEW t \in Threads, NEW j \in Jobs,
         \/ \E tmo \in job_q!Timeouts : job_q!push_job_queue(t, j, tmo)
         \/ job_q!resume_push(t) /\ arg[t] = j
  PROVE  UNCHANGED is_closed /\ PushEffect(t, j) /\ OthersStay(t)
  <1> USE QueueTypes
  <1>1. CASE max_capacity = 0
    <2>1. LQ!push_sync_ll_queue(t, j) /\ ArrayListRests
      BY <1>1, SameListCalls
    <2>2. pc \in [Threads -> LQ!Places]
      BY <1>1
    <2>3. pc' = pc \/ \E u \in Threads : pc[u] = "asleep" /\ pc' = [pc EXCEPT ![u] = "woken"]
      BY <2>1 DEF LQ!push_sync_ll_queue, LQ!Signal, LQ!In
    <2>4. pc[t] = "idle" /\ UNCHANGED <<is_closed, timeout>>
      BY <2>1 DEF LQ!push_sync_ll_queue
    <2>5. pc'[t] = "idle" /\ OthersStay(t)
      BY <1>1, <2>2, <2>3, <2>4 DEF OthersStay, TimedOut
    <2>6. QED
      BY <2>1, <2>4, <2>5 DEF PushEffect, LQ!push_sync_ll_queue
  <1>2. CASE max_capacity # 0
    <2>1. (\E tmo : SQ!push_sync_queue(t, j, tmo)) \/ (SQ!resume_push(t) /\ arg[t] = j)
      BY <1>2, SameCalls
    <2>2. /\ pc \in [Threads -> SQ!Places] /\ arg \in [Threads -> Jobs \cup {NULL}]
          /\ timeout \in [Threads -> SQ!Timeouts]
      BY <1>2
    <2>3. (\E tmo : SQ!Sleep(t, "push_asleep", j, tmo)) \/ SQ!FinishPush(t, j)
      BY <2>1 DEF SQ!push_sync_queue, SQ!resume_push
    <2>4. CASE \E tmo : SQ!Sleep(t, "push_asleep", j, tmo)
      <3>1. PICK tmo : SQ!Sleep(t, "push_asleep", j, tmo)
        BY <2>4
      <3>2. OthersStay(t) /\ pc'[t] = "push_asleep" /\ arg'[t] = j
        BY <2>2, <3>1 DEF SQ!Sleep, OthersStay
      <3>3. UNCHANGED <<qp, is_closed>>
        BY <3>1 DEF SQ!Sleep, SQ!state
      <3>4. QED
        BY <1>2, <3>2, <3>3 DEF PushEffect
    <2>5. CASE SQ!FinishPush(t, j)
      <3>1. UNCHANGED is_closed
        BY <2>5 DEF SQ!FinishPush, SQ!state
      <3>2. PICK ret, p : /\ SQ!Return(t, "push", ret, p) /\ p \in {pc} \cup SQ!SignalConsumer
                          /\ \/ ~is_closed /\ qp' = Append(qp, j) /\ ret = j
                             \/ UNCHANGED qp /\ ret = NULL
        BY <2>5 DEF SQ!FinishPush, SQ!state
      <3>3. p = pc \/ \E u \in Threads : pc[u] = "pop_asleep" /\ p = [pc EXCEPT ![u] = "pop_woken"]
        BY <3>2 DEF SQ!SignalConsumer, SQ!Signal, SQ!At, SQ!In
      <3>4. /\ p \in [Threads -> SQ!Places]
            /\ \A u \in Threads : /\ p[u] = "idle" <=> pc[u] = "idle"
                                  /\ p[u] \in TimedOut => pc[u] \in TimedOut
        BY <2>2, <3>3 DEF TimedOut, SQ!Places, SQ!PopWaits
      <3>5. /\ pc' = [p EXCEPT ![t] = "idle"] /\ arg' = [arg EXCEPT ![t] = NULL]
            /\ timeout' = [timeout EXCEPT ![t] = "BLOCKING"] /\ event'.ret = ret
        BY <3>2 DEF SQ!Return, SQ!BLOCKING
      <3>6. OthersStay(t) /\ pc'[t] = "idle"
        BY <2>2, <3>4, <3>5 DEF OthersStay
      <3>7. QED
        BY <3>1, <3>2, <3>5, <3>6 DEF PushEffect
    <2>6. QED
      BY <2>3, <2>4, <2>5
  <1>3. QED
    BY <1>1, <1>2

LEMMA PopIsAStep ==
  ASSUME QueueInv, NEW t \in Threads, NEW tmo \in job_q!Timeouts,
         job_q!pop_job_queue(t, tmo) \/ job_q!resume_pop(t)
  PROVE  QueueStep
  <1>1. tmo \in SQ!Timeouts /\ tmo \in LQ!Timeouts
    BY DEF SQ!Timeouts, LQ!Timeouts, job_q!Timeouts, job_q!sq!Timeouts, SQ!BLOCKING, SQ!TIMED,
           SQ!NON_BLOCKING, LQ!BLOCKING, LQ!TIMED, LQ!NON_BLOCKING,
           job_q!sq!BLOCKING, job_q!sq!TIMED, job_q!sq!NON_BLOCKING
  <1>2. CASE max_capacity = 0
    <2>1. (LQ!pop_sync_ll_queue(t, tmo) \/ LQ!resume_pop(t)) /\ ArrayListRests
      BY <1>2, SameListCalls
    <2>2. \E u \in Threads : (\E limit \in LQ!Timeouts : LQ!pop_sync_ll_queue(u, limit)) \/ LQ!resume_pop(u)
      BY <1>1, <2>1
    <2>3. LQ!Next
      BY <2>2 DEF LQ!Next
    <2>4. QED
      BY <1>2, <2>1, <2>3 DEF QueueStep, ArrayListRests
  <1>3. CASE max_capacity # 0
    <2>1. SQ!pop_sync_queue(t, tmo) \/ SQ!resume_pop(t)
      BY <1>3, SameCalls
    <2>2. UNCHANGED max_capacity
      BY <2>1 DEF SQ!pop_sync_queue, SQ!resume_pop, SQ!Sleep, SQ!FinishPop, SQ!state
    <2>3. SQ!Next
      BY <1>1, <2>1 DEF SQ!Next, SQ!Call
    <2>4. QED
      BY <1>3, <2>2, <2>3 DEF QueueStep
  <1>4. QED
    BY <1>2, <1>3

(* A pop that may wait for ever, and has not timed out, returns nothing    *)
(* only when the queue was closed.                                         *)
LEMMA PopEffects ==
  ASSUME QueueInv, NEW t \in Threads, NEW tmo \in job_q!Timeouts,
         job_q!pop_job_queue(t, tmo) \/ job_q!resume_pop(t)
  PROVE  /\ UNCHANGED is_closed /\ PopEffect(t) /\ OthersStay(t)
         /\ tmo = "BLOCKING" /\ timeout[t] = "BLOCKING" /\ pc[t] \notin TimedOut
               => timeout'[t] = "BLOCKING" /\ (pc'[t] = "idle" /\ qp = <<>> => is_closed)
         /\ job_q!pop_job_queue(t, "NON_BLOCKING") => pc'[t] = "idle"
  <1> USE QueueTypes
  <1>1. CASE max_capacity = 0
    <2>1. (LQ!pop_sync_ll_queue(t, tmo) \/ LQ!resume_pop(t)) /\ ArrayListRests
      BY <1>1, SameListCalls
    <2>2. pc \in [Threads -> LQ!Places] /\ timeout \in [Threads -> SQ!Timeouts]
      BY <1>1
    <2>3. \/ LQ!Sleep(t, tmo) \/ (LQ!Sleep(t, timeout[t]) /\ pc[t] = "woken")
          \/ LQ!FinishPop(t)
      BY <2>1 DEF LQ!pop_sync_ll_queue, LQ!resume_pop
    <2>4. UNCHANGED is_closed /\ OthersStay(t)
      BY <1>1, <2>2, <2>3 DEF LQ!Sleep, LQ!FinishPop, LQ!state, OthersStay
    <2>5. PopEffect(t)
      BY <2>2, <2>3 DEF LQ!Sleep, LQ!FinishPop, LQ!state, PopEffect, TimedOut
    <2>6. tmo = "BLOCKING" /\ timeout[t] = "BLOCKING" => timeout'[t] = "BLOCKING"
      BY <2>2, <2>3 DEF LQ!Sleep, LQ!FinishPop, LQ!BLOCKING
    <2>7. tmo = "BLOCKING" /\ pc[t] \notin TimedOut /\ pc'[t] = "idle" /\ qp = <<>> => is_closed
      BY <2>1, <2>2
      DEF LQ!pop_sync_ll_queue, LQ!resume_pop, LQ!Sleep, LQ!PopMustWait, LQ!NON_BLOCKING, TimedOut
    <2>8. job_q!pop_job_queue(t, "NON_BLOCKING") => pc'[t] = "idle"
      <3>1. job_q!pop_job_queue(t, "NON_BLOCKING") => LQ!pop_sync_ll_queue(t, "NON_BLOCKING")
        BY <1>1, SameListCalls
      <3>2. QED
        BY <2>2, <3>1 DEF LQ!pop_sync_ll_queue, LQ!FinishPop, LQ!NON_BLOCKING
    <2>9. QED
      BY <2>4, <2>5, <2>6, <2>7, <2>8
  <1>2. CASE max_capacity # 0
    <2>1. SQ!pop_sync_queue(t, tmo) \/ SQ!resume_pop(t)
      BY <1>2, SameCalls
    <2>2. /\ pc \in [Threads -> SQ!Places] /\ arg \in [Threads -> Jobs \cup {NULL}]
          /\ timeout \in [Threads -> SQ!Timeouts]
      BY <1>2
    <2>3. \/ SQ!Sleep(t, "pop_asleep", NULL, tmo)
          \/ SQ!Sleep(t, "pop_asleep", NULL, timeout[t])
          \/ SQ!FinishPop(t)
      BY <2>1 DEF SQ!pop_sync_queue, SQ!resume_pop
    <2>4. UNCHANGED is_closed
      BY <2>3 DEF SQ!Sleep, SQ!FinishPop, SQ!state
    <2>5. ASSUME SQ!FinishPop(t)
          PROVE  /\ OthersStay(t) /\ PopEffect(t)
                 /\ pc'[t] = "idle" /\ timeout'[t] = "BLOCKING"
      <3>1. PICK ret, p : /\ SQ!Return(t, "pop", ret, p) /\ p \in {pc} \cup SQ!SignalProducer
                          /\ \/ qp # <<>> /\ qp' = Tail(qp) /\ ret = Head(qp)
                             \/ qp = <<>> /\ UNCHANGED qp /\ ret = NULL
        BY <2>5 DEF SQ!FinishPop
      <3>2. p = pc \/ \E u \in Threads : pc[u] = "push_asleep" /\ p = [pc EXCEPT ![u] = "push_woken"]
        BY <3>1 DEF SQ!SignalProducer, SQ!Signal, SQ!At, SQ!In
      <3>3. /\ p \in [Threads -> SQ!Places]
            /\ \A u \in Threads : /\ p[u] = "idle" <=> pc[u] = "idle"
                                  /\ p[u] \in TimedOut => pc[u] \in TimedOut
        BY <2>2, <3>2 DEF TimedOut, SQ!Places, SQ!PushWaits
      <3>4. /\ pc' = [p EXCEPT ![t] = "idle"] /\ arg' = [arg EXCEPT ![t] = NULL]
            /\ timeout' = [timeout EXCEPT ![t] = "BLOCKING"] /\ event'.ret = ret
        BY <3>1 DEF SQ!Return, SQ!BLOCKING
      <3>5. OthersStay(t) /\ pc'[t] = "idle" /\ timeout'[t] = "BLOCKING"
        BY <2>2, <3>3, <3>4 DEF OthersStay
      <3>6. QED
        BY <3>1, <3>4, <3>5 DEF PopEffect
    <2>6. ASSUME NEW limit, SQ!Sleep(t, "pop_asleep", NULL, limit)
          PROVE  /\ OthersStay(t) /\ PopEffect(t)
                 /\ pc'[t] = "pop_asleep" /\ timeout'[t] = limit
      <3>1. OthersStay(t) /\ pc'[t] = "pop_asleep" /\ timeout'[t] = limit
        BY <2>2, <2>6 DEF SQ!Sleep, OthersStay
      <3>2. UNCHANGED qp
        BY <2>6 DEF SQ!Sleep, SQ!state
      <3>3. QED
        BY <3>1, <3>2 DEF PopEffect, TimedOut
    <2>7. tmo = "BLOCKING" /\ pc[t] \notin TimedOut /\ pc'[t] = "idle" /\ qp = <<>> => is_closed
      BY <2>1, <2>6 DEF SQ!pop_sync_queue, SQ!resume_pop, SQ!PopMustWait, SQ!NON_BLOCKING, TimedOut
    <2>8. job_q!pop_job_queue(t, "NON_BLOCKING") => pc'[t] = "idle"
      <3>1. job_q!pop_job_queue(t, "NON_BLOCKING") => SQ!pop_sync_queue(t, "NON_BLOCKING")
        BY <1>2, SameCalls
      <3>2. QED
        BY <2>5, <3>1 DEF SQ!pop_sync_queue, SQ!NON_BLOCKING
    <2>9. OthersStay(t) /\ PopEffect(t)
      BY <2>3, <2>5, <2>6
    <2>10. tmo = "BLOCKING" /\ timeout[t] = "BLOCKING" => timeout'[t] = "BLOCKING"
      BY <2>3, <2>5, <2>6
    <2>11. QED
      BY <2>4, <2>7, <2>8, <2>9, <2>10
  <1>3. QED
    BY <1>1, <1>2

(* A close and a wake-up leave the elements alone.                         *)
AllStay ==
    /\ UNCHANGED qp
    /\ \A u \in Threads :
          /\ pc'[u] = "idle" <=> pc[u] = "idle"
          /\ pc'[u] \in TimedOut => pc[u] \in TimedOut \/ timeout[u] # "BLOCKING"
          /\ timeout'[u] = timeout[u]
          /\ max_capacity # 0 => arg'[u] = arg[u]

LEMMA CloseEffects ==
  ASSUME QueueInv, job_q!close_job_queue
  PROVE  is_closed' = TRUE /\ AllStay /\ QueueStep
  <1> USE QueueTypes
  <1>1. CASE max_capacity = 0
    <2>1. LQ!close_sync_ll_queue /\ ArrayListRests
      BY <1>1, SameListCalls
    <2>2. pc \in [Threads -> LQ!Places]
      BY <1>1
    <2>3. AllStay
      BY <1>1, <2>1, <2>2 DEF LQ!close_sync_ll_queue, AllStay, TimedOut
    <2>4. QED
      BY <1>1, <2>1, <2>3 DEF QueueStep, LQ!Next, LQ!close_sync_ll_queue, ArrayListRests
  <1>2. CASE max_capacity # 0
    <2>1. SQ!close_sync_queue
      BY <1>2, SameCalls
    <2>2. pc \in [Threads -> SQ!Places]
      BY <1>2
    <2>3. UNCHANGED <<qp, arg, timeout, max_capacity>> /\ is_closed' = TRUE
      BY <2>1 DEF SQ!close_sync_queue, SQ!calls
    <2>4. \A u \in Threads : \/ pc'[u] = pc[u]
                             \/ pc[u] = "push_asleep" /\ pc'[u] = "push_woken"
                             \/ pc[u] = "pop_asleep" /\ pc'[u] = "pop_woken"
      BY <2>1, <2>2 DEF SQ!close_sync_queue, SQ!WakeConsumers, SQ!WakeProducers, SQ!Broadcast
    <2>5. AllStay
      BY <2>3, <2>4 DEF AllStay, TimedOut
    <2>6. QED
      BY <1>2, <2>1, <2>3, <2>5 DEF QueueStep, SQ!Next
  <1>3. QED
    BY <1>1, <1>2

LEMMA WakeUpEffects ==
  ASSUME QueueInv, NEW t \in Threads, job_q!WakeUp(t)
  PROVE  UNCHANGED is_closed /\ AllStay /\ QueueStep
  <1> USE QueueTypes
  <1>1. CASE max_capacity = 0
    <2>1. LQ!WakeUp(t) /\ ArrayListRests
      BY <1>1, SameListCalls
    <2>2. pc \in [Threads -> LQ!Places]
      BY <1>1
    <2>3. UNCHANGED <<qp, is_closed, timeout>>
      BY <2>1 DEF LQ!WakeUp, LQ!state
    <2>4. AllStay
      BY <1>1, <2>1, <2>2, <2>3 DEF LQ!WakeUp, AllStay, TimedOut, LQ!TIMED
    <2>5. LQ!Next
      BY <2>1 DEF LQ!Next
    <2>6. QED
      BY <1>1, <2>1, <2>3, <2>4, <2>5 DEF QueueStep, ArrayListRests
  <1>2. CASE max_capacity # 0
    <2>1. SQ!SpuriousWakeup(t) \/ SQ!TimeOut(t)
      BY <1>2, SameCalls
    <2>2. pc \in [Threads -> SQ!Places]
      BY <1>2
    <2>3. UNCHANGED <<qp, is_closed, max_capacity, arg, timeout>>
      BY <2>1 DEF SQ!SpuriousWakeup, SQ!TimeOut, SQ!state, SQ!calls
    <2>4. AllStay
      BY <2>1, <2>2, <2>3 DEF SQ!SpuriousWakeup, SQ!TimeOut, AllStay, TimedOut, SQ!TIMED
    <2>5. QED
      BY <1>2, <2>1, <2>3, <2>4 DEF QueueStep, SQ!Next
  <1>3. QED
    BY <1>1, <1>2

(* So the proved invariants of the queues are the executor's too.          *)
LEMMA QueueInvKept ==
  ASSUME QueueInv, QueueStep \/ UNCHANGED queue
  PROVE  QueueInv'
  <1>1. CASE max_capacity = 0
    <2>1. [LQ!Next]_(LQ!vars) /\ UNCHANGED max_capacity
      BY <1>1 DEF QueueStep, queue, LQ!vars, LQ!state
    <2>2. LQ!IInv'
      BY <1>1, <2>1, QueueAssumptions, LQ!NextIInv DEF QueueInv
    <2>3. QED
      BY <1>1, <2>1, <2>2 DEF QueueInv
  <1>2. CASE max_capacity # 0
    <2>1. [SQ!Next]_(SQ!vars) /\ UNCHANGED max_capacity
      BY <1>2 DEF QueueStep, queue, SQ!vars
    <2>2. SQ!IInv'
      BY <1>2, <2>1, QueueAssumptions, SQ!NextIInv DEF QueueInv
    <2>3. SQ!ProducersAwake'
      BY <1>2, <2>1, QueueAssumptions, SQ!NextAwake DEF QueueInv
    <2>4. QED
      BY <1>2, <2>1, <2>2, <2>3 DEF QueueInv
  <1>3. QED
    BY <1>1, <1>2

LEMMA QueueInvInit ==
  ASSUME Init
  PROVE  QueueInv
  <1>1. SQ!Init
    BY DEF Init, job_q!initialize_job_queue, job_q!sq!Init, SQ!Init, job_q!sq!BLOCKING, SQ!BLOCKING
  <1>2. LQ!Init
    BY <1>1 DEF SQ!Init, LQ!Init, SQ!BLOCKING, LQ!BLOCKING
  <1>3. SQ!IInv /\ LQ!IInv
    BY <1>1, <1>2, QueueAssumptions, SQ!InitIInv, LQ!InitIInv
  <1>4. max_capacity \in QueueCapacities /\ ~is_closed
    BY <1>1 DEF SQ!Init
  <1>5. QED
    BY <1>3, <1>4 DEF QueueInv, SQ!ProducersAwake

-----------------------------------------------------------------------------
(* Steps of the executor, as the queue and the jobs see them               *)

(* t moves, sleeping controllers may be woken, and nobody else moves.      *)
Asleep == [submitters_asleep |-> "submitters_woken", workers_asleep |-> "workers_check"]
OthersRest(t) ==
    \A u \in Threads \ {t} :
        stage'[u] = stage[u] \/ (stage[u] \in DOMAIN Asleep /\ stage'[u] = Asleep[stage[u]])

LEMMA GoesRests ==
  ASSUME StagesTyped, NEW t \in Threads, NEW s, Goes(t, s)
  PROVE  OthersRest(t) /\ stage'[t] = s /\ \A u \in Threads \ {t} : stage'[u] = stage[u]
  BY DEF StagesTyped, Goes, OthersRest

LEMMA GoesAndWakesRests ==
  ASSUME StagesTyped, NEW t \in Threads, NEW s, NEW all_gone,
         \/ GoesAndWakes(t, s, all_gone, "workers_asleep", "workers_check")
         \/ GoesAndWakes(t, s, all_gone, "submitters_asleep", "submitters_woken")
  PROVE  OthersRest(t) /\ stage'[t] = s
  BY DEF StagesTyped, GoesAndWakes, OthersRest, Asleep

(* The step of t, for the jobs: t takes a new one, offers the one it holds *)
(* to the queue, pops one, starts to execute it, is done with it, or       *)
(* closes the queue.                                                       *)
Keeps == UNCHANGED <<qp, is_closed, holds, jobs>>
Closes(c) ==
    /\ c \in Controllers /\ ~is_closed /\ is_closed' = TRUE
    /\ UNCHANGED <<qp, holds, jobs>>
Takes(s, j) ==
    /\ s \in Submitters /\ holds[s] = NULL /\ job_state[j] = "none" /\ ~Held(j)
    /\ holds' = [holds EXCEPT ![s] = j]
    /\ UNCHANGED <<qp, is_closed, jobs>>
Offers(s) ==
    /\ s \in Submitters /\ holds[s] # NULL
    /\ \/ /\ job_state' = [job_state EXCEPT ![holds[s]] = "CREATED"]
          /\ UNCHANGED <<qp, holds>>
       \/ /\ ~is_closed /\ qp' = Append(qp, holds[s])
          /\ job_state' = [job_state EXCEPT ![holds[s]] = "CREATED"]
          /\ holds' = [holds EXCEPT ![s] = NULL]
       \/ /\ job_state' = [job_state EXCEPT ![holds[s]] = "REJECTED"]
          /\ holds' = [holds EXCEPT ![s] = NULL]
          /\ UNCHANGED qp
    /\ UNCHANGED <<is_closed, result>>
Pops(t) ==
    /\ \/ t \in Workers /\ stage[t] = "dequeuing"
       \/ t \in Controllers /\ is_closed
    /\ holds[t] = NULL /\ qp # <<>>
    /\ qp' = Tail(qp) /\ holds' = [holds EXCEPT ![t] = Head(qp)]
    /\ UNCHANGED <<is_closed, jobs>>
Executes(w) ==
    /\ w \in Workers /\ holds[w] # NULL
    /\ job_state' = [job_state EXCEPT ![holds[w]] = "RUNNING"]
    /\ UNCHANGED <<qp, is_closed, holds, result>>
Settles(t, state, output) ==
    /\ \/ t \in Workers /\ state = "COMPLETED" /\ output = "output"
       \/ t \in Controllers /\ state = "CANCELLED" /\ output = "null"
    /\ holds[t] # NULL /\ holds' = [holds EXCEPT ![t] = NULL]
    /\ job_state' = [job_state EXCEPT ![holds[t]] = state]
    /\ result' = [result EXCEPT ![holds[t]] = output]
    /\ UNCHANGED <<qp, is_closed>>

(* The stages go with what is in the threads' hands.                       *)
HandsMove(t) ==
    /\ \A u \in Threads \ {t} : stage'[u] \in HoldingStages <=> stage[u] \in HoldingStages
    /\ holds'[t] # NULL <=> stage'[t] \in HoldingStages
JobStep(t) ==
    /\ HandsMove(t)
    /\ \/ Keeps \/ Closes(t) \/ (\E j \in Jobs : Takes(t, j)) \/ Offers(t) \/ Pops(t) \/ Executes(t)
       \/ \E state, output : Settles(t, state, output)

LEMMA RestMoves ==
  ASSUME NEW t, OthersRest(t), holds'[t] # NULL <=> stage'[t] \in HoldingStages
  PROVE  HandsMove(t)
  BY DEF OthersRest, HandsMove, Asleep, HoldingStages

(* What is true of the job t holds.                                        *)
LEMMA HandsOf ==
  ASSUME OwnershipInv, NEW t \in Threads
  PROVE  /\ holds[t] # NULL <=> stage[t] \in HoldingStages
         /\ holds[t] # NULL => holds[t] \in Jobs
         /\ holds \in [Threads -> Jobs \cup {NULL}]
         /\ NULL \notin Jobs
  BY ExecutorAssumption DEF OwnershipInv, HoldsFit, JobsTyped

-----------------------------------------------------------------------------
(* Each action in these terms, and as a step of the queue.                 *)

(* A submitter pushes the job it holds, also when it resumes a push.       *)
LEMMA PushesItsJob ==
  ASSUME QueueInv, AtQueue, OwnershipInv, NEW s \in Submitters, submit_job_worker(s)
  PROVE  /\ stage[s] = "submitting" /\ holds[s] \in Jobs /\ holds[s] # NULL
         /\ \/ \E tmo \in job_q!Timeouts : job_q!push_job_queue(s, holds[s], tmo)
            \/ job_q!resume_push(s) /\ arg[s] = holds[s]
  <1>1. stage[s] = "submitting" /\ holds[s] \in Jobs /\ holds[s] # NULL
    BY HandsOf DEF submit_job_worker, HoldingStages, Threads
  <1>2. job_q!resume_push(s) => pc[s] # "idle"
    <2>1. CASE max_capacity = 0
      BY <2>1, SameListCalls
    <2>2. CASE max_capacity # 0
      BY <2>2, SameCalls DEF SQ!resume_push
    <2>3. QED
      BY <2>1, <2>2
  <1>3. QED
    BY <1>1, <1>2 DEF submit_job_worker, AtQueue

LEMMA SubmitterOnJobs ==
  ASSUME CountInv, QueueInv, AtQueue, OwnershipInv, NEW s \in Submitters,
         SubmitterStep(s) \/ \E j \in Jobs : submit_job_executor(s, j)
  PROVE  JobStep(s) /\ (QueueStep \/ UNCHANGED queue)
  <1> USE DEF HoldingStages
  <1>1. s \in Threads /\ StagesTyped
    BY DEF CountInv, Threads
  <1>2. CASE \E j \in Jobs : submit_job_executor(s, j)
    <2>1. PICK j \in Jobs : submit_job_executor(s, j)
      BY <1>2
    <2>2. holds[s] = NULL
      BY <1>1, <2>1, HandsOf DEF submit_job_executor
    <2>3. Takes(s, j) /\ UNCHANGED queue
      BY <2>1, <2>2 DEF submit_job_executor, Takes, Held, queue
    <2>4. holds'[s] = j /\ stage'[s] = "submitting" /\ OthersRest(s)
      BY <1>1, <2>1, HandsOf, GoesRests DEF submit_job_executor
    <2>5. HandsMove(s)
      BY <2>4, HandsOf, RestMoves, <1>1
    <2>6. QED
      BY <2>3, <2>5 DEF JobStep
  <1>3. CASE submit_job_worker(s)
    <2>1. stage[s] = "submitting" /\ holds[s] \in Jobs /\ holds[s] # NULL
      BY <1>3, PushesItsJob
    <2>2. \/ \E tmo \in job_q!Timeouts : job_q!push_job_queue(s, holds[s], tmo)
          \/ job_q!resume_push(s) /\ arg[s] = holds[s]
      BY <1>3, PushesItsJob
    <2>3. QueueStep
      BY <1>1, <2>1, <2>2, PushIsAStep
    <2>4. UNCHANGED is_closed /\ PushEffect(s, holds[s])
      BY <1>1, <2>1, <2>2, PushEffects
    <2>5. QueueReturns(s, IF type = CACHED_THREAD_POOL_EXECUTOR THEN "counting" ELSE "leaving", "leaving")
      BY <1>3 DEF submit_job_worker
    <2>6. OthersRest(s) /\ IF pc'[s] = "idle" THEN stage'[s] \in {"counting", "leaving"}
                           ELSE stage'[s] = "submitting"
      BY <1>1, <2>1, <2>5, GoesRests DEF QueueReturns, OthersRest
    <2>7. holds' = IF pc'[s] = "idle" THEN [holds EXCEPT ![s] = NULL] ELSE holds
      BY <1>3 DEF submit_job_worker
    <2>8. HandsMove(s)
      BY <1>1, <2>1, <2>6, <2>7, HandsOf, RestMoves
    <2>9. /\ job_state' = [job_state EXCEPT ![holds[s]] =
                              IF pc'[s] = "idle" /\ event'.ret = NULL THEN "REJECTED" ELSE "CREATED"]
          /\ UNCHANGED result
      BY <1>3 DEF submit_job_worker
    <2>10. Offers(s)
      <3>1. CASE pc'[s] # "idle"
        BY <2>1, <2>4, <2>7, <2>9, <3>1 DEF Offers, PushEffect
      <3>2. CASE pc'[s] = "idle" /\ event'.ret = NULL
        BY <2>1, <2>4, <2>7, <2>9, <3>2 DEF Offers, PushEffect
      <3>3. CASE pc'[s] = "idle" /\ event'.ret # NULL
        BY <2>1, <2>4, <2>7, <2>9, <3>3 DEF Offers, PushEffect
      <3>4. QED
        BY <3>1, <3>2, <3>3
    <2>11. QED
      BY <2>3, <2>8, <2>10 DEF JobStep
  <1>4. CASE new_job_failed(s)
    <2>1. stage[s] = "submitting" /\ holds[s] # NULL
      BY <1>1, <1>4, HandsOf DEF new_job_failed
    <2>2. holds' = [holds EXCEPT ![s] = NULL] /\ stage'[s] = "leaving" /\ OthersRest(s)
      BY <1>1, <1>4, GoesRests DEF new_job_failed
    <2>3. HandsMove(s)
      BY <1>1, <2>2, HandsOf, RestMoves
    <2>4. Offers(s) /\ UNCHANGED queue
      BY <2>1, <1>4 DEF new_job_failed, Offers, queue
    <2>5. QED
      BY <2>3, <2>4 DEF JobStep
  <1>5. CASE worker_needed(s) \/ create_worker(s) \/ undo_create_worker(s) \/ submitter_leaves(s)
    <2>1. UNCHANGED <<queue, holds, jobs>>
      BY <1>5 DEF worker_needed, create_worker, undo_create_worker, submitter_leaves, WorkerGone
    <2>2. PICK new \in SubmitterStages \ HoldingStages : OthersRest(s) /\ stage'[s] = new
      <3>1. CASE worker_needed(s)
        BY <1>1, <3>1, GoesRests DEF worker_needed, SubmitterStages
      <3>2. CASE create_worker(s)
        BY <1>1, <3>2, GoesRests DEF create_worker, SubmitterStages
      <3>3. CASE undo_create_worker(s)
        BY <1>1, <3>3, GoesAndWakesRests DEF undo_create_worker, WorkerGone, SubmitterStages
      <3>4. CASE submitter_leaves(s)
        BY <1>1, <3>4, GoesAndWakesRests DEF submitter_leaves, SubmitterStages
      <3>5. QED
        BY <1>5, <3>1, <3>2, <3>3, <3>4
    <2>3. holds[s] = NULL
      BY <1>1, <1>5, HandsOf
      DEF worker_needed, create_worker, undo_create_worker, submitter_leaves
    <2>4. HandsMove(s)
      BY <2>1, <2>2, <2>3, RestMoves
    <2>5. QED
      BY <2>1, <2>4 DEF JobStep, Keeps, queue
  <1>6. CASE start_worker(s)
    <2>1. UNCHANGED <<queue, holds, jobs>> /\ holds[s] = NULL
      BY <1>1, <1>6, HandsOf DEF start_worker
    <2>2. \A u \in Threads \ {s} : stage'[u] \in HoldingStages <=> stage[u] \in HoldingStages
      BY <1>1, <1>6 DEF start_worker, Goes, OnStage, StagesTyped
    <2>3. stage'[s] \in {"leaving", "undoing"}
      BY <1>1, <1>6, ExecutorAssumption DEF start_worker, Goes, OnStage, StagesTyped
    <2>4. QED
      BY <2>1, <2>2, <2>3 DEF JobStep, HandsMove, Keeps, queue
  <1>7. QED
    BY <1>2, <1>3, <1>4, <1>5, <1>6 DEF SubmitterStep

LEMMA WaitTimes ==
  /\ empty_job_queue_wait_time_out \in job_q!Timeouts /\ "NON_BLOCKING" \in job_q!Timeouts
  /\ job_q!NON_BLOCKING = "NON_BLOCKING"
  /\ type = FIXED_THREAD_COUNT_EXECUTOR => empty_job_queue_wait_time_out = "BLOCKING"
  BY DEF empty_job_queue_wait_time_out, job_q!Timeouts, job_q!sq!Timeouts, job_q!BLOCKING,
         job_q!TIMED, job_q!NON_BLOCKING, job_q!sq!BLOCKING, job_q!sq!TIMED, job_q!sq!NON_BLOCKING

LEMMA WorkerOnJobs ==
  ASSUME CountInv, QueueInv, OwnershipInv, NEW w \in Workers, WorkerStep(w)
  PROVE  JobStep(w) /\ (QueueStep \/ UNCHANGED queue)
  <1> USE DEF HoldingStages
  <1>1. w \in Threads /\ StagesTyped
    BY DEF CountInv, Threads
  <1>2. CASE dequeue(w)
    <2>1. stage[w] = "dequeuing" /\ holds[w] = NULL
      BY <1>1, <1>2, HandsOf DEF dequeue
    <2>2. job_q!pop_job_queue(w, empty_job_queue_wait_time_out) \/ job_q!resume_pop(w)
      BY <1>2 DEF dequeue
    <2>3. QueueStep
      BY <1>1, <2>2, WaitTimes, PopIsAStep
    <2>4. UNCHANGED is_closed /\ PopEffect(w)
      BY <1>1, <2>2, WaitTimes, PopEffects
    <2>5. QueueReturns(w, "dequeued", "clean_up")
      BY <1>2 DEF dequeue
    <2>6. OthersRest(w) /\ stage'[w] = IF pc'[w] # "idle" THEN "dequeuing"
                                       ELSE IF event'.ret = NULL THEN "clean_up" ELSE "dequeued"
      BY <1>1, <2>1, <2>5, GoesRests DEF QueueReturns, OthersRest
    <2>7. holds' = IF pc'[w] = "idle" THEN [holds EXCEPT ![w] = event'.ret] ELSE holds
      BY <1>2 DEF dequeue
    <2>8. HandsMove(w)
      BY <1>1, <2>1, <2>6, <2>7, HandsOf, RestMoves
    <2>9. UNCHANGED jobs
      BY <1>2 DEF dequeue
    <2>10. Keeps \/ Pops(w)
      <3>1. CASE pc'[w] # "idle"
        BY <2>4, <2>7, <2>9, <3>1 DEF Keeps, PopEffect
      <3>2. CASE pc'[w] = "idle" /\ qp = <<>>
        <4>1. holds' = [holds EXCEPT ![w] = NULL] /\ UNCHANGED qp
          BY <2>4, <2>7, <3>2 DEF PopEffect
        <4>2. holds' = holds
          BY <1>1, <2>1, <4>1, HandsOf
        <4>3. QED
          BY <2>4, <2>9, <4>1, <4>2 DEF Keeps
      <3>3. CASE pc'[w] = "idle" /\ qp # <<>>
        BY <2>1, <2>4, <2>7, <2>9, <3>3 DEF Pops, PopEffect
      <3>4. QED
        BY <3>1, <3>2, <3>3
    <2>11. QED
      BY <2>3, <2>8, <2>10 DEF JobStep
  <1>3. CASE execute_job(w)
    <2>1. stage[w] = "dequeued" /\ holds[w] # NULL
      BY <1>1, <1>3, HandsOf DEF execute_job
    <2>2. UNCHANGED holds /\ stage'[w] = "running" /\ OthersRest(w)
      BY <1>1, <1>3, GoesRests DEF execute_job
    <2>3. HandsMove(w)
      BY <2>1, <2>2, RestMoves
    <2>4. QED
      BY <1>3, <2>1, <2>3 DEF JobStep, execute_job, Executes, queue
  <1>4. CASE complete_job(w)
    <2>1. stage[w] = "running" /\ holds[w] # NULL
      BY <1>1, <1>4, HandsOf DEF complete_job
    <2>2. holds' = [holds EXCEPT ![w] = NULL] /\ stage'[w] = "dequeuing" /\ OthersRest(w)
      BY <1>1, <1>4, GoesRests DEF complete_job
    <2>3. HandsMove(w)
      BY <1>1, <2>2, HandsOf, RestMoves
    <2>4. Settles(w, "COMPLETED", "output") /\ UNCHANGED queue
      BY <1>4, <2>1 DEF complete_job, Settles, queue
    <2>5. QED
      BY <2>3, <2>4 DEF JobStep
  <1>5. CASE start_up(w) \/ clean_up(w)
    <2>1. UNCHANGED <<queue, holds, jobs>> /\ holds[w] = NULL
      BY <1>1, <1>5, HandsOf DEF start_up, clean_up, WorkerGone
    <2>2. OthersRest(w) /\ stage'[w] \in {"dequeuing", "unborn"}
      BY <1>1, <1>5, GoesRests, GoesAndWakesRests DEF start_up, clean_up, WorkerGone
    <2>3. HandsMove(w)
      BY <2>1, <2>2, RestMoves
    <2>4. QED
      BY <2>1, <2>3 DEF JobStep, Keeps, queue
  <1>6. QED
    BY <1>2, <1>3, <1>4, <1>5 DEF WorkerStep

(* Where the calls of a controller go on to.                               *)
LEMMA CallMoves ==
  ASSUME StagesTyped, NEW c \in Controllers, NEW what
  PROVE  /\ Reply(c, what) => OthersRest(c) /\ stage'[c] = "outside"
         /\ \A s : Proceed(c, s, what) => OthersRest(c) /\ stage'[c] = s
         /\ WaitForSubmitters(c, what) =>
               OthersRest(c) /\ stage'[c] \in {"outside", "submitters_asleep", "discarding"}
  <1>1. c \in Threads
    BY DEF Threads
  <1>2. \A w : Reply(c, w) => OthersRest(c) /\ stage'[c] = "outside"
    BY <1>1, GoesRests DEF Reply
  <1>3. \A s : Proceed(c, s, what) => OthersRest(c) /\ stage'[c] = s
    BY <1>1, GoesRests DEF Proceed
  <1>4. QED
    BY <1>2, <1>3 DEF WaitForSubmitters

LEMMA ControllerOnJobs ==
  ASSUME CountInv, QueueInv, OwnershipInv, Requested, CallsFit,
         NEW c \in Controllers, ControllerStep(c) \/ ControllerCall(c)
  PROVE  JobStep(c) /\ (QueueStep \/ UNCHANGED queue)
  <1> USE DEF HoldingStages
  <1>1. c \in Threads /\ StagesTyped
    BY DEF CountInv, Threads
  <1>2. CASE \/ ControllerCall(c) \/ resume_shutdown(c) \/ discard_leftover_jobs(c)
             \/ wait_for_workers(c) \/ delete_executor(c)
    <2>1. UNCHANGED <<holds, jobs>> /\ stage[c] \notin HoldingStages
      BY <1>2 DEF ControllerCall, shutdown_executor, wait_for_all_executor_workers_to_complete,
                  resume_shutdown, discard_leftover_jobs, wait_for_workers, delete_executor
    <2>2. UNCHANGED queue \/ (job_q!close_job_queue /\ ~shutdown_requested)
      BY <1>2 DEF ControllerCall, shutdown_executor, wait_for_all_executor_workers_to_complete,
                  resume_shutdown, discard_leftover_jobs, wait_for_workers, delete_executor
    <2>3. (Keeps \/ Closes(c)) /\ (QueueStep \/ UNCHANGED queue)
      <3>1. CASE UNCHANGED queue
        BY <2>1, <3>1 DEF Keeps, queue
      <3>2. CASE job_q!close_job_queue /\ ~shutdown_requested
        BY <2>1, <3>2, CloseEffects DEF Closes, AllStay, Requested
      <3>3. QED
        BY <2>2, <3>1, <3>2
    <2>4. OthersRest(c) /\ stage'[c] \notin HoldingStages
      <3>1. CASE ControllerCall(c)
        BY <1>1, <3>1, CallMoves
        DEF ControllerCall, shutdown_executor, wait_for_all_executor_workers_to_complete
      <3>2. CASE resume_shutdown(c)
        BY <1>1, <3>2, CallMoves DEF resume_shutdown
      <3>3. CASE discard_leftover_jobs(c)
        BY <1>1, <3>3, CallMoves, GoesRests DEF discard_leftover_jobs
      <3>4. CASE wait_for_workers(c)
        BY <1>1, <3>4, CallMoves DEF wait_for_workers
      <3>5. CASE delete_executor(c)
        BY <1>1, <3>5, CallMoves DEF delete_executor
      <3>6. QED
        BY <1>2, <3>1, <3>2, <3>3, <3>4, <3>5
    <2>5. HandsMove(c)
      BY <1>1, <2>1, <2>4, HandsOf, RestMoves
    <2>6. QED
      BY <2>3, <2>5 DEF JobStep
  <1>3. CASE discard_pop(c)
    <2>1. stage[c] = "discard_pop" /\ holds[c] = NULL /\ UNCHANGED jobs
      BY <1>1, <1>3, HandsOf DEF discard_pop
    <2>2. job_q!pop_job_queue(c, "NON_BLOCKING")
      BY <1>3, WaitTimes DEF discard_pop
    <2>3. QueueStep
      BY <1>1, <2>2, WaitTimes, PopIsAStep
    <2>4. UNCHANGED is_closed /\ PopEffect(c) /\ pc'[c] = "idle"
      BY <1>1, <2>2, WaitTimes, PopEffects
    <2>5. /\ OthersRest(c)
          /\ stage'[c] = IF event'.ret = NULL THEN "discarding" ELSE "cancelling"
      <3>1. QueueReturns(c, "cancelling", "discarding")
        BY <1>3 DEF discard_pop
      <3>2. QED
        BY <1>1, <2>4, <3>1, GoesRests DEF QueueReturns
    <2>6. holds' = [holds EXCEPT ![c] = event'.ret]
      BY <1>3 DEF discard_pop
    <2>7. HandsMove(c)
      BY <1>1, <2>5, <2>6, HandsOf, RestMoves
    <2>8. is_closed
      BY <2>1 DEF CallsFit, Requested
    <2>9. Keeps \/ Pops(c)
      <3>1. CASE qp = <<>>
        <4>1. holds' = [holds EXCEPT ![c] = NULL] /\ UNCHANGED qp
          BY <2>4, <2>6, <3>1 DEF PopEffect
        <4>2. holds' = holds
          BY <1>1, <2>1, <4>1, HandsOf
        <4>3. QED
          BY <2>1, <2>4, <4>1, <4>2 DEF Keeps
      <3>2. CASE qp # <<>>
        BY <2>1, <2>4, <2>6, <2>8, <3>2 DEF Pops, PopEffect
      <3>3. QED
        BY <3>1, <3>2
    <2>10. QED
      BY <2>3, <2>7, <2>9 DEF JobStep
  <1>4. CASE cancel_job(c)
    <2>1. stage[c] = "cancelling" /\ holds[c] # NULL
      BY <1>1, <1>4, HandsOf DEF cancel_job
    <2>2. holds' = [holds EXCEPT ![c] = NULL] /\ stage'[c] = "discarding" /\ OthersRest(c)
      BY <1>1, <1>4, GoesRests DEF cancel_job
    <2>3. HandsMove(c)
      BY <1>1, <2>2, HandsOf, RestMoves
    <2>4. Settles(c, "CANCELLED", "null") /\ UNCHANGED queue
      BY <1>4, <2>1 DEF cancel_job, Settles, queue
    <2>5. QED
      BY <2>3, <2>4 DEF JobStep
  <1>5. QED
    BY <1>2, <1>3, <1>4 DEF ControllerStep

LEMMA WakeUpOnJobs ==
  ASSUME CountInv, QueueInv, OwnershipInv, NEW t \in Threads, WakeUp(t)
  PROVE  JobStep(t) /\ (QueueStep \/ UNCHANGED queue)
  <1>1. UNCHANGED <<holds, jobs>>
    BY DEF WakeUp
  <1>2. CASE job_q!WakeUp(t) /\ UNCHANGED stage
    <2>1. UNCHANGED <<qp, is_closed>> /\ QueueStep
      BY <1>2, WakeUpEffects DEF AllStay
    <2>2. HandsMove(t)
      BY <1>1, <1>2, HandsOf DEF HandsMove
    <2>3. QED
      BY <1>1, <2>1, <2>2 DEF JobStep, Keeps
  <1>3. CASE UNCHANGED queue /\ ( \/ stage[t] = "submitters_asleep" /\ Goes(t, "submitters_woken")
                                  \/ stage[t] = "workers_asleep" /\ Goes(t, "workers_check"))
    <2>1. OthersRest(t) /\ stage'[t] \notin HoldingStages /\ holds'[t] = NULL
      BY <1>1, <1>3, GoesRests, HandsOf DEF CountInv, HoldingStages
    <2>2. HandsMove(t)
      BY <2>1, RestMoves
    <2>3. QED
      BY <1>1, <1>3, <2>2 DEF JobStep, Keeps, queue
  <1>4. QED
    BY <1>2, <1>3 DEF WakeUp

-----------------------------------------------------------------------------
(* Every job keeps one owner                                               *)

(* Where the jobs are after a step.                                        *)
LEMMA HoldsFitKept ==
  ASSUME OwnershipInv, NEW t \in Threads, JobStep(t)
  PROVE  HoldsFit'
  <1>1. \A u \in Threads \ {t} : holds'[u] = holds[u]
    BY HandsOf DEF JobStep, Keeps, Closes, Takes, Offers, Pops, Executes, Settles
  <1>2. QED
    BY <1>1 DEF OwnershipInv, HoldsFit, JobStep, HandsMove

LEMMA OwnershipKept ==
  ASSUME OwnershipInv, qp \in Seq(Jobs), NEW t \in Threads, JobStep(t)
  PROVE  OwnershipInv'
  <1> USE DEF JobsTyped, OnePlace, StatesFit, Queued, Held
  <1>1. /\ JobsTyped /\ OnePlace /\ StatesFit /\ NULL \notin Jobs
        /\ Submitters \cap Controllers = {} /\ (Submitters \cup Controllers) \cap Workers = {}
    BY ExecutorAssumption DEF OwnershipInv
  <1>2. CASE Keeps \/ Closes(t)
    <2>1. UNCHANGED <<qp, holds, job_state, result>>
      BY <1>2 DEF Keeps, Closes, jobs
    <2>2. JobsTyped' /\ OnePlace' /\ StatesFit'
      BY <1>1, <2>1
    <2>3. QED
      BY <2>2, HoldsFitKept DEF OwnershipInv
  <1>3. CASE \E j \in Jobs : Takes(t, j)
    <2>1. PICK j \in Jobs : Takes(t, j)
      BY <1>3
    <2>2. /\ t \in Submitters /\ holds[t] = NULL /\ job_state[j] = "none"
          /\ \A u \in Threads : holds[u] # j
          /\ \A u \in Threads : holds'[u] = IF u = t THEN j ELSE holds[u]
          /\ UNCHANGED <<qp, job_state, result>>
      BY <1>1, <2>1 DEF Takes, jobs
    <2>3. \A i \in DOMAIN qp : qp[i] # j /\ qp[i] # NULL /\ qp[i] \in Jobs
      BY <1>1, <2>2
    <2>4. JobsTyped'
      BY <1>1, <2>1 DEF Takes, jobs
    <2>5. OnePlace'
      BY <1>1, <2>2, <2>3
    <2>6. StatesFit'
      BY <1>1, <2>2, <2>3
    <2>7. QED
      BY <2>4, <2>5, <2>6, HoldsFitKept DEF OwnershipInv
  <1>4. CASE Offers(t) \/ Executes(t) \/ \E state, output : Settles(t, state, output)
    (* What becomes of the job t holds; the other jobs stay where they are.  *)
    <2> DEFINE j == holds[t]
    <2>1. /\ j \in Jobs /\ ~Queued(j)
          /\ \A u \in Threads \ {t} : holds[u] # j
          /\ job_state[j] \in IF t \in Submitters THEN {"none", "CREATED"} ELSE {"CREATED", "RUNNING"}
      BY <1>1, <1>4 DEF Offers, Executes, Settles
    <2>2. UNCHANGED holds \/ holds' = [holds EXCEPT ![t] = NULL]
      BY <1>4 DEF Offers, Executes, Settles
    <2>3. \A u \in Threads \ {t} : holds'[u] = holds[u]
      BY <1>1, <2>2
    <2>4. \A k \in Jobs \ {j} : job_state'[k] = job_state[k] /\ result'[k] = result[k]
      BY <1>1, <1>4 DEF Offers, Executes, Settles
    <2>5. /\ \/ /\ holds'[t] = j /\ UNCHANGED qp
                /\ job_state'[j] = IF t \in Submitters THEN "CREATED" ELSE "RUNNING"
             \/ holds'[t] = NULL /\ qp' = Append(qp, j) /\ job_state'[j] = "CREATED"
             \/ holds'[t] = NULL /\ UNCHANGED qp /\ job_state'[j] \in {"REJECTED", "COMPLETED", "CANCELLED"}
          /\ result'[j] = "unset" <=> job_state'[j] \notin {"COMPLETED", "CANCELLED"}
      BY <1>1, <1>4, <2>1 DEF Offers, Executes, Settles
    <2>6. JobsTyped'
      <3>1. /\ job_state' \in [Jobs -> JobStates] /\ result' \in [Jobs -> {"unset", "output", "null"}]
        BY <1>1, <1>4 DEF Offers, Executes, Settles, JobStates
      <3>2. QED
        BY <1>1, <2>2, <3>1
    <2>7. CASE UNCHANGED qp
      <3>1. OnePlace'
        BY <1>1, <2>1, <2>3, <2>5, <2>7
      <3>2. StatesFit'
        BY <1>1, <2>1, <2>3, <2>4, <2>5, <2>7
      <3>3. QED
        BY <2>6, <3>1, <3>2, HoldsFitKept DEF OwnershipInv
    <2>8. CASE qp' = Append(qp, j)
      <3>1. /\ Len(qp') = Len(qp) + 1 /\ qp'[Len(qp) + 1] = j /\ Len(qp) \in Nat
            /\ \A i \in 1..Len(qp) : qp'[i] = qp[i]
            /\ DOMAIN qp = 1..Len(qp) /\ DOMAIN qp' = 1..Len(qp)+1
        BY <2>1, <2>8
      <3>2. holds'[t] = NULL /\ job_state'[j] = "CREATED"
        <4>1. UNCHANGED qp => FALSE
          BY <2>8, <3>1
        <4>2. QED
          BY <2>5, <4>1
      <3>3. OnePlace'
        BY <1>1, <2>1, <2>3, <3>1, <3>2
      <3>4. \A k \in Jobs : Queued(k)' <=> Queued(k) \/ k = j
        BY <3>1
      <3>5. StatesFit'
        <4>1. \A k \in Jobs : Held(k) /\ k # j => Held(k)'
          BY <1>1, <2>3, <2>1
        <4>2. \A k \in Jobs : Queued(k)' => job_state'[k] = "CREATED"
          BY <1>1, <2>4, <3>2, <3>4
        <4>3. \A k \in Jobs : job_state'[k] \in {"CREATED", "RUNNING"} => Queued(k)' \/ Held(k)'
          BY <1>1, <2>4, <3>4, <4>1
        <4>4. \A k \in Jobs : result'[k] = "unset" <=> job_state'[k] \notin {"COMPLETED", "CANCELLED"}
          BY <1>1, <2>4, <2>5
        <4>5. \A u \in Threads : holds'[u] # NULL =>
                 job_state'[holds'[u]] \in IF u \in Submitters THEN {"none", "CREATED"}
                                           ELSE {"CREATED", "RUNNING"}
          BY <1>1, <2>1, <2>3, <2>4, <3>2
        <4>6. QED
          BY <4>2, <4>3, <4>4, <4>5
      <3>6. QED
        BY <2>6, <3>3, <3>5, HoldsFitKept DEF OwnershipInv
    <2>9. QED
      BY <2>5, <2>7, <2>8
  <1>5. CASE Pops(t)
    <2>1. /\ t \notin Submitters /\ holds[t] = NULL /\ qp # <<>>
          /\ qp' = Tail(qp) /\ holds' = [holds EXCEPT ![t] = Head(qp)]
          /\ UNCHANGED <<job_state, result>>
      BY <1>1, <1>5 DEF Pops, jobs
    <2>2. /\ Head(qp) = qp[1] /\ qp[1] \in Jobs /\ Len(qp) \in Nat \ {0}
          /\ DOMAIN qp = 1..Len(qp) /\ DOMAIN qp' = 1..Len(qp) - 1
          /\ \A i \in 1..Len(qp) - 1 : qp'[i] = qp[i + 1]
      BY <2>1
    <2>3. \A u \in Threads : holds'[u] = IF u = t THEN qp[1] ELSE holds[u]
      BY <1>1, <2>1, <2>2
    <2>4. JobsTyped'
      BY <1>1, <2>1, <2>2
    <2>5. OnePlace'
      BY <1>1, <2>1, <2>2, <2>3
    <2>6. \A k \in Jobs : Queued(k) <=> Queued(k)' \/ k = qp[1]
      <3>1. \A i \in 1..Len(qp) : i = 1 \/ (i - 1 \in 1..Len(qp) - 1 /\ qp'[i - 1] = qp[i])
        BY <2>2
      <3>2. \A i \in 1..Len(qp) - 1 : i + 1 \in 1..Len(qp) /\ qp'[i] = qp[i + 1]
        BY <2>2
      <3>3. 1 \in DOMAIN qp
        BY <2>2
      <3>4. QED
        BY <2>2, <3>1, <3>2, <3>3
    <2>7. \A k \in Jobs : Held(k)' <=> Held(k) \/ k = qp[1]
      BY <1>1, <2>1, <2>3
    <2>8. StatesFit'
      BY <1>1, <2>1, <2>2, <2>3, <2>6, <2>7
    <2>9. QED
      BY <2>4, <2>5, <2>8, HoldsFitKept DEF OwnershipInv
  <1>6. QED
    BY <1>2, <1>3, <1>4, <1>5 DEF JobStep

-----------------------------------------------------------------------------
(* Threads in the queue are where they wait for it                         *)

WaitingStages == {"submitting", "dequeuing"}

(* A step outside the queue, of a thread that does not wait in it.         *)
LEMMA AtQueueOutside ==
  ASSUME AtQueue, NEW t \in Threads, UNCHANGED queue, pc[t] = "idle",
         \A u \in Threads \ {t} : /\ stage[u] \in WaitingStages => stage'[u] = stage[u]
                                  /\ holds'[u] = holds[u]
  PROVE  AtQueue'
  BY DEF AtQueue, queue, WaitingStages, Threads

(* A call of the queue.                                                    *)
LEMMA AtQueueCall ==
  ASSUME AtQueue, NEW t \in Threads, OthersStay(t), UNCHANGED max_capacity,
         \A u \in Threads \ {t} : stage'[u] = stage[u] /\ holds'[u] = holds[u],
         pc'[t] # "idle" =>
            /\ stage'[t] \in WaitingStages
            /\ t \in Submitters => max_capacity # 0 /\ arg'[t] = holds'[t]
  PROVE  AtQueue'
  BY DEF AtQueue, OthersStay, WaitingStages, Threads

(* A wake-up, or a close by a thread that is outside.                      *)
LEMMA AtQueueAll ==
  ASSUME AtQueue, NEW t \in Threads, AllStay, UNCHANGED <<max_capacity, holds>>,
         UNCHANGED stage \/ (pc[t] = "idle" /\ \A u \in Threads \ {t} : stage'[u] = stage[u])
  PROVE  AtQueue'
  BY DEF AtQueue, AllStay, Threads

LEMMA AtQueueSubmitter ==
  ASSUME CountInv, QueueInv, AtQueue, OwnershipInv, NEW s \in Submitters,
         SubmitterStep(s) \/ \E j \in Jobs : submit_job_executor(s, j)
  PROVE  AtQueue'
  <1> USE DEF WaitingStages
  <1>1. /\ s \in Threads /\ StagesTyped
        /\ holds \in [Threads -> Jobs \cup {NULL}]
        /\ pc[s] # "idle" => stage[s] \in WaitingStages
    BY HandsOf DEF CountInv, Threads, AtQueue
  <1>2. CASE (\E j \in Jobs : submit_job_executor(s, j)) \/ new_job_failed(s)
    <2>1. /\ UNCHANGED queue /\ pc[s] = "idle"
          /\ \A u \in Threads \ {s} : holds'[u] = holds[u]
      BY <1>1, <1>2 DEF submit_job_executor, new_job_failed
    <2>2. \A u \in Threads \ {s} : stage'[u] = stage[u]
      BY <1>1, <1>2, GoesRests DEF submit_job_executor, new_job_failed
    <2>3. QED
      BY <1>1, <2>1, <2>2, AtQueueOutside
  <1>3. CASE submit_job_worker(s)
    <2>1. stage[s] = "submitting" /\ holds[s] \in Jobs
      BY <1>3, PushesItsJob
    <2>2. \/ \E tmo \in job_q!Timeouts : job_q!push_job_queue(s, holds[s], tmo)
          \/ job_q!resume_push(s) /\ arg[s] = holds[s]
      BY <1>3, PushesItsJob
    <2>3. PushEffect(s, holds[s]) /\ OthersStay(s)
      BY <1>1, <2>1, <2>2, PushEffects
    <2>4. UNCHANGED max_capacity
      BY <1>1, <2>1, <2>2, PushIsAStep DEF QueueStep
    <2>5. \A u \in Threads \ {s} : stage'[u] = stage[u] /\ holds'[u] = holds[u]
      BY <1>1, <1>3, GoesRests DEF submit_job_worker, QueueReturns
    <2>6. pc'[s] # "idle" => /\ stage'[s] = "submitting"
                             /\ max_capacity # 0 /\ arg'[s] = holds'[s]
      BY <1>3, <2>1, <2>3 DEF submit_job_worker, QueueReturns, PushEffect
    <2>7. QED
      BY <1>1, <2>3, <2>4, <2>5, <2>6, AtQueueCall
  <1>4. CASE \/ worker_needed(s) \/ create_worker(s) \/ start_worker(s)
             \/ undo_create_worker(s) \/ submitter_leaves(s)
    <2>1. UNCHANGED <<queue, holds>> /\ pc[s] = "idle"
      BY <1>1, <1>4 DEF worker_needed, create_worker, start_worker, undo_create_worker,
                        submitter_leaves, WorkerGone
    <2>2. \A u \in Threads \ {s} : stage[u] \in WaitingStages => stage'[u] = stage[u]
      BY <1>1, <1>4 DEF worker_needed, create_worker, start_worker, undo_create_worker,
                        submitter_leaves, WorkerGone, GoesAndWakes, Goes, OnStage, StagesTyped
    <2>3. QED
      BY <1>1, <2>1, <2>2, AtQueueOutside
  <1>5. QED
    BY <1>2, <1>3, <1>4 DEF SubmitterStep

LEMMA AtQueueWorker ==
  ASSUME CountInv, QueueInv, AtQueue, OwnershipInv, NEW w \in Workers, WorkerStep(w)
  PROVE  AtQueue'
  <1> USE DEF WaitingStages
  <1>1. /\ w \in Threads /\ w \notin Submitters /\ StagesTyped
        /\ holds \in [Threads -> Jobs \cup {NULL}]
        /\ pc[w] # "idle" => stage[w] \in WaitingStages
    BY HandsOf, ExecutorAssumption DEF CountInv, Threads, AtQueue
  <1>2. CASE dequeue(w)
    <2>1. job_q!pop_job_queue(w, empty_job_queue_wait_time_out) \/ job_q!resume_pop(w)
      BY <1>2 DEF dequeue
    <2>2. OthersStay(w) /\ UNCHANGED max_capacity
      BY <1>1, <2>1, WaitTimes, PopEffects, PopIsAStep DEF QueueStep
    <2>3. \A u \in Threads \ {w} : stage'[u] = stage[u] /\ holds'[u] = holds[u]
      BY <1>1, <1>2, GoesRests DEF dequeue, QueueReturns
    <2>4. pc'[w] # "idle" => stage'[w] = "dequeuing"
      BY <1>2 DEF dequeue, QueueReturns
    <2>5. QED
      BY <1>1, <2>2, <2>3, <2>4, AtQueueCall
  <1>3. CASE start_up(w) \/ execute_job(w) \/ complete_job(w) \/ clean_up(w)
    <2>1. /\ UNCHANGED queue /\ pc[w] = "idle"
          /\ \A u \in Threads \ {w} : holds'[u] = holds[u]
      BY <1>1, <1>3 DEF start_up, execute_job, complete_job, clean_up, WorkerGone
    <2>2. \A u \in Threads \ {w} : stage[u] \in WaitingStages => stage'[u] = stage[u]
      BY <1>1, <1>3 DEF start_up, execute_job, complete_job, clean_up, WorkerGone, GoesAndWakes,
                        Goes, StagesTyped
    <2>3. QED
      BY <1>1, <2>1, <2>2, AtQueueOutside
  <1>4. QED
    BY <1>2, <1>3 DEF WorkerStep

LEMMA AtQueueController ==
  ASSUME CountInv, QueueInv, AtQueue, OwnershipInv,
         NEW c \in Controllers, ControllerStep(c) \/ ControllerCall(c)
  PROVE  AtQueue'
  <1> USE DEF WaitingStages
  <1>1. /\ c \in Threads /\ c \notin Submitters /\ StagesTyped
        /\ holds \in [Threads -> Jobs \cup {NULL}] /\ pc[c] = "idle"
    BY HandsOf, ExecutorAssumption DEF CountInv, StagesTyped, ControllerStages, Threads, AtQueue
  <1>2. \A u \in Threads \ {c} : stage'[u] = stage[u] /\ holds'[u] = holds[u]
    BY <1>1, GoesRests
    DEF ControllerStep, ControllerCall, shutdown_executor, resume_shutdown, WaitForSubmitters,
        wait_for_all_executor_workers_to_complete, wait_for_workers, discard_leftover_jobs,
        discard_pop, QueueReturns, cancel_job, delete_executor, Proceed, Reply
  <1>3. CASE discard_pop(c)
    <2>1. job_q!pop_job_queue(c, "NON_BLOCKING")
      BY <1>3, WaitTimes DEF discard_pop
    <2>2. OthersStay(c) /\ UNCHANGED max_capacity /\ pc'[c] = "idle"
      BY <1>1, <2>1, WaitTimes, PopEffects, PopIsAStep DEF QueueStep
    <2>3. QED
      BY <1>1, <1>2, <2>2, AtQueueCall
  <1>4. CASE UNCHANGED queue
    BY <1>1, <1>2, <1>4, AtQueueOutside
  <1>5. CASE job_q!close_job_queue /\ UNCHANGED holds
    BY <1>1, <1>2, <1>5, CloseEffects, AtQueueAll DEF QueueStep
  <1>6. QED
    BY <1>3, <1>4, <1>5
    DEF ControllerStep, ControllerCall, shutdown_executor, resume_shutdown,
        wait_for_all_executor_workers_to_complete, wait_for_workers, discard_leftover_jobs,
        cancel_job, delete_executor

LEMMA AtQueueWakeUp ==
  ASSUME CountInv, QueueInv, AtQueue, NEW t \in Threads, WakeUp(t)
  PROVE  AtQueue'
  <1>1. CASE job_q!WakeUp(t) /\ UNCHANGED <<stage, holds>>
    BY <1>1, WakeUpEffects, AtQueueAll DEF QueueStep
  <1>2. CASE UNCHANGED <<queue, holds>> /\ ( \/ stage[t] = "submitters_asleep" /\ Goes(t, "submitters_woken")
                                             \/ stage[t] = "workers_asleep" /\ Goes(t, "workers_check"))
    <2>1. pc[t] = "idle"
      BY <1>2 DEF AtQueue
    <2>2. QED
      BY <1>2, <2>1, GoesRests, AtQueueOutside DEF CountInv
  <1>3. QED
    BY <1>1, <1>2 DEF WakeUp

-----------------------------------------------------------------------------
(* A shutdown leaves the executor quiet, a deletion finds nobody in it     *)

LEMMA NobodyCounted ==
  ASSUME CountInv
  PROVE  /\ submitters_count \in Nat /\ active_worker_count \in Nat
         /\ submitters_count = 0 <=> Inside = {}
         /\ active_worker_count = 0 <=> Alive = {} /\ Creating = {}
  <1>1. /\ Alive \subseteq Workers /\ Creating \subseteq Submitters /\ Inside \subseteq Submitters
    BY DEF Alive, Creating, Inside, OnStage
  <1>2. IsFiniteSet(Alive) /\ IsFiniteSet(Creating) /\ IsFiniteSet(Inside)
    BY <1>1, ExecutorAssumption, FS_Subset
  <1>3. \A S : IsFiniteSet(S) => Cardinality(S) \in Nat /\ (Cardinality(S) = 0 <=> S = {})
    BY FS_CardinalityType, FS_EmptySet
  <1>4. /\ active_worker_count = Cardinality(Alive) + Cardinality(Creating)
        /\ submitters_count = Cardinality(Inside)
    BY DEF CountInv, CountsAccounted
  <1>5. QED
    BY <1>2, <1>3, <1>4

(* Steps that change nothing of the calls: controllers may wake up.        *)
LEMMA ShutdownRests ==
  ASSUME ShutdownInv, UNCHANGED <<control, shutdown_requested, freed, is_closed>>,
         submitters_count = 0 => submitters_count' = 0,
         \/ \A c \in Controllers : call[c] # "delete"
         \/ active_worker_count = 0 => active_worker_count' = 0,
         \A c \in Controllers :
            stage'[c] = stage[c] \/ (stage[c] \in DOMAIN Asleep /\ stage'[c] = Asleep[stage[c]]),
         freed => \A t \in Threads : stage'[t] = stage[t]
  PROVE  ShutdownInv'
  <1>1. /\ CallsTyped /\ CallsFit /\ Requested /\ WaitsAlone /\ SubmittersGone
        /\ DeletesAlone /\ FreedWhenDeserted
        /\ UNCHANGED <<call, returned, shutdown_requested, freed, is_closed>>
    BY DEF ShutdownInv, control
  <1>2. \A c \in Controllers :
           \/ stage'[c] = stage[c]
           \/ stage[c] = "submitters_asleep" /\ stage'[c] = "submitters_woken"
           \/ stage[c] = "workers_asleep" /\ stage'[c] = "workers_check"
    BY DEF Asleep
  <1>3. CallsTyped' /\ Requested'
    BY <1>1 DEF CallsTyped, Requested
  <1>4. CallsFit'
    BY <1>1, <1>2 DEF CallsFit, DiscardStages
  <1>5. Waiting' = Waiting
    BY <1>2 DEF Waiting, OnStage
  <1>6. WaitsAlone' /\ SubmittersGone'
    BY <1>1, <1>5 DEF WaitsAlone, SubmittersGone
  <1>7. DeletesAlone'
    <2>1. ASSUME NEW c \in Controllers, OthersAreOut(c)
          PROVE  OthersAreOut(c)'
      BY <1>2, <2>1 DEF OthersAreOut, OnStage
    <2>2. \A c \in Controllers : stage'[c] \in DiscardStages \cup {"freeing"} => stage'[c] = stage[c]
      BY <1>2 DEF DiscardStages
    <2>3. QED
      BY <1>1, <2>1, <2>2 DEF DeletesAlone
  <1>8. FreedWhenDeserted'
    BY <1>1 DEF FreedWhenDeserted, OnStage
  <1>9. QED
    BY <1>3, <1>4, <1>6, <1>7, <1>8 DEF ShutdownInv

LEMMA ShutdownSubmitter ==
  ASSUME CountInv, CountInv', QueueInv, AtQueue, OwnershipInv, ShutdownInv, NEW s \in Submitters,
         SubmitterStep(s) \/ \E j \in Jobs : submit_job_executor(s, j)
  PROVE  ShutdownInv'
  <1>1. s \in Threads /\ s \notin Controllers /\ StagesTyped
    BY ExecutorAssumption DEF CountInv, Threads
  <1>2. CASE \E j \in Jobs : submit_job_executor(s, j)
    (* No call has begun and no shutdown was ever requested.             *)
    <2>1. /\ stage[s] = "outside" /\ ~shutdown_requested /\ ~freed
          /\ UNCHANGED <<call, returned, shutdown_requested, freed, is_closed>>
          /\ \A u \in Threads \ {s} : stage'[u] = stage[u]
      BY <1>1, <1>2, GoesRests DEF submit_job_executor, MayBeCalled, queue, control
    <2>2. \A c \in Controllers : call[c] = "none" /\ stage[c] = "outside" /\ stage'[c] = stage[c]
      BY <1>1, <2>1 DEF ShutdownInv, Requested, CallsFit, Threads
    <2>3. CallsTyped' /\ CallsFit' /\ Requested'
      BY <2>1, <2>2 DEF ShutdownInv, CallsTyped, CallsFit, Requested, DiscardStages
    <2>4. WaitsAlone' /\ SubmittersGone' /\ DeletesAlone' /\ FreedWhenDeserted'
      BY <2>1, <2>2 DEF WaitsAlone, SubmittersGone, DeletesAlone, FreedWhenDeserted, Waiting, OnStage
    <2>5. QED
      BY <2>3, <2>4 DEF ShutdownInv
  <1>3. CASE SubmitterStep(s)
    <2>1. stage[s] \in SubmitterStages \ {"outside"}
      BY <1>1, <1>3
      DEF SubmitterStep, submit_job_worker, new_job_failed, worker_needed, create_worker,
          start_worker, undo_create_worker, submitter_leaves, SubmitterStages
    <2>2. submitters_count # 0 /\ ~freed
      BY <1>1, <2>1, NobodyCounted, ExecutorAssumption
      DEF Inside, OnStage, ShutdownInv, FreedWhenDeserted, CountInv, StagesTyped, SubmitterStages
    <2>3. is_closed' = is_closed
      BY <1>1, SubmitterOnJobs, <1>3
      DEF JobStep, Keeps, Closes, Takes, Offers, Pops, Executes, Settles
    <2>4. UNCHANGED <<control, shutdown_requested, freed>>
      BY <1>3
      DEF SubmitterStep, submit_job_worker, new_job_failed, worker_needed, create_worker,
          start_worker, undo_create_worker, submitter_leaves, WorkerGone, executor
    <2>5. \A c \in Controllers :
            stage'[c] = stage[c] \/ (stage[c] \in DOMAIN Asleep /\ stage'[c] = Asleep[stage[c]])
      BY <1>1, <1>3, ExecutorAssumption
      DEF SubmitterStep, submit_job_worker, QueueReturns, new_job_failed, worker_needed, create_worker,
          start_worker, undo_create_worker, submitter_leaves, WorkerGone, Goes, GoesAndWakes,
          OnStage, StagesTyped, Asleep, Threads
    <2>6. \A c \in Controllers : call[c] # "delete"
      BY <2>2 DEF ShutdownInv, DeletesAlone
    <2>7. QED
      BY <2>2, <2>3, <2>4, <2>5, <2>6, ShutdownRests
  <1>4. QED
    BY <1>2, <1>3

LEMMA ShutdownWorker ==
  ASSUME CountInv, CountInv', QueueInv, OwnershipInv, ShutdownInv, NEW w \in Workers, WorkerStep(w)
  PROVE  ShutdownInv'
  <1>1. /\ w \in Threads /\ w \notin Controllers /\ StagesTyped
        /\ stage[w] \in WorkerStages \ {"unborn"}
    BY ExecutorAssumption
    DEF CountInv, Threads, WorkerStep, start_up, dequeue, execute_job, complete_job, clean_up, WorkerStages
  <1>2. active_worker_count # 0 /\ ~freed
    BY <1>1, NobodyCounted
    DEF Alive, OnStage, ShutdownInv, FreedWhenDeserted, WorkerStages
  <1>3. is_closed' = is_closed
    BY <1>1, WorkerOnJobs DEF JobStep, Keeps, Closes, Takes, Offers, Pops, Executes, Settles
  <1>4. UNCHANGED <<control, shutdown_requested, freed, submitters_count>>
    BY DEF WorkerStep, start_up, dequeue, execute_job, complete_job, clean_up, WorkerGone, executor
  <1>5. \A c \in Controllers :
          stage'[c] = stage[c] \/ (stage[c] \in DOMAIN Asleep /\ stage'[c] = Asleep[stage[c]])
    BY <1>1
    DEF WorkerStep, start_up, dequeue, QueueReturns, execute_job, complete_job, clean_up, WorkerGone,
        Goes, GoesAndWakes, StagesTyped, Asleep, Threads
  <1>6. QED
    BY <1>2, <1>3, <1>4, <1>5, ShutdownRests

LEMMA ShutdownWakeUp ==
  ASSUME CountInv, QueueInv, OwnershipInv, ShutdownInv, NEW t \in Threads, WakeUp(t)
  PROVE  ShutdownInv'
  <1>1. UNCHANGED <<control, shutdown_requested, freed, submitters_count, active_worker_count>>
    BY DEF WakeUp, executor
  <1>2. CASE job_q!WakeUp(t) /\ UNCHANGED stage
    <2>1. UNCHANGED is_closed
      BY <1>2, WakeUpEffects
    <2>2. QED
      BY <1>1, <1>2, <2>1, ShutdownRests
  <1>3. CASE UNCHANGED queue /\ ( \/ stage[t] = "submitters_asleep" /\ Goes(t, "submitters_woken")
                                  \/ stage[t] = "workers_asleep" /\ Goes(t, "workers_check"))
    <2>1. UNCHANGED is_closed /\ ~freed
      BY <1>3 DEF queue, ShutdownInv, FreedWhenDeserted, OnStage
    <2>2. \A c \in Controllers :
            stage'[c] = stage[c] \/ (stage[c] \in DOMAIN Asleep /\ stage'[c] = Asleep[stage[c]])
      BY <1>3 DEF Goes, CountInv, StagesTyped, Asleep, Threads
    <2>3. QED
      BY <1>1, <2>1, <2>2, ShutdownRests
  <1>4. QED
    BY <1>2, <1>3 DEF WakeUp

(* The call c is in goes on, or returns, after the shutdown took effect.   *)
LEMMA ShutdownGoesOn ==
  ASSUME CountInv, ShutdownInv, NEW c \in Controllers, NEW s, NEW k \in Calls, NEW r,
         call[c] # "none" /\ k \in {"none", call[c]},
         stage' = [stage EXCEPT ![c] = s],
         call' = [call EXCEPT ![c] = k],
         returned' = [returned EXCEPT ![c] = r],
         r \in {"shutdown", "waited", "deleted", returned[c]}, r # returned[c] => k = "none",
         UNCHANGED <<submitters_count, active_worker_count, shutdown_requested, freed, is_closed>>,
         s = "outside" <=> k = "none",
         s \in {"submitters_asleep", "submitters_woken"} => k \in Shutdowns /\ c \in Waiting,
         s \in {"workers_asleep", "workers_check"} => k \in {"wait", "delete"},
         s \in DiscardStages => k \in {"shutdown_immediately", "delete"},
         s = "freeing" => k = "delete",
         k = "delete" /\ s \in DiscardStages \cup {"freeing"} => active_worker_count = 0,
         c \in Waiting /\ s \notin {"submitters_asleep", "submitters_woken"} => submitters_count = 0,
         r = "shutdown" => returned[c] = "shutdown" \/ call[c] \in Shutdowns
  PROVE  ShutdownInv'
  <1>1. /\ CallsTyped /\ CallsFit /\ Requested /\ WaitsAlone /\ SubmittersGone
        /\ DeletesAlone /\ FreedWhenDeserted /\ StagesTyped /\ c \in Threads
    BY DEF ShutdownInv, CountInv, Threads
  <1>2. /\ stage'[c] = s /\ call'[c] = k /\ returned'[c] = r
        /\ \A d \in Controllers \ {c} :
              stage'[d] = stage[d] /\ call'[d] = call[d] /\ returned'[d] = returned[d]
        /\ \A t \in Threads \ {c} : stage'[t] = stage[t]
    BY <1>1 DEF CallsTyped, StagesTyped
  <1>3. shutdown_requested /\ ~freed
    <2>1. stage[c] \notin {"outside", "unborn"}
      BY <1>1 DEF CallsFit, StagesTyped, ControllerStages
    <2>2. QED
      BY <1>1, <2>1 DEF Requested, FreedWhenDeserted, OnStage
  <1>4. CallsTyped'
    BY <1>1 DEF CallsTyped, Replies
  <1>5. CallsFit'
    BY <1>1, <1>2 DEF CallsFit, Waiting, OnStage
  <1>6. Requested'
    BY <1>1, <1>2, <1>3 DEF Requested
  <1>7. \A d \in Controllers \ {c} : d \in Waiting' <=> d \in Waiting
    BY <1>2 DEF Waiting, OnStage
  <1>8. c \in Waiting' => c \in Waiting
    BY <1>2 DEF Waiting, OnStage
  <1>9. c \in Waiting => call[c] \in Shutdowns
    BY <1>1 DEF Waiting, OnStage, CallsFit
  <1>10. \A d \in Waiting \ {c} : call[c] \notin Shutdowns
    BY <1>1 DEF WaitsAlone, Waiting, OnStage
  <1>11. WaitsAlone'
    <2>1. ASSUME NEW d \in Waiting', NEW e \in Controllers
          PROVE  returned'[e] # "shutdown" /\ (e # d => call'[e] \notin Shutdowns)
      <3>1. d \in Waiting /\ d \in Controllers
        BY <1>7, <1>8 DEF Waiting, OnStage
      <3>2. returned[e] # "shutdown" /\ (e # d => call[e] \notin Shutdowns)
        BY <1>1, <3>1 DEF WaitsAlone
      <3>3. CASE e # c
        BY <1>2, <3>2, <3>3
      <3>4. CASE e = c
        <4>1. call'[c] = "none" \/ call'[c] = call[c]
          BY <1>2
        <4>2. d # c => call[c] \notin Shutdowns
          BY <3>2, <3>4
        <4>3. d = c => stage'[c] \in {"submitters_asleep", "submitters_woken"}
          BY DEF Waiting, OnStage
        <4>4. d = c => r = returned[c]
          BY <4>3, <1>2, <1>8
        <4>5. QED
          BY <1>2, <3>2, <3>4, <4>1, <4>2, <4>4 DEF Shutdowns
      <3>5. QED
        BY <3>3, <3>4
    <2>2. QED
      BY <2>1 DEF WaitsAlone
  <1>12. SubmittersGone'
    <2>1. CASE c \in Waiting /\ s \notin {"submitters_asleep", "submitters_woken"}
      BY <2>1 DEF SubmittersGone
    <2>2. CASE c \in Waiting /\ s \in {"submitters_asleep", "submitters_woken"}
      BY <1>2, <2>2 DEF SubmittersGone, Waiting, OnStage
    <2>3. CASE c \notin Waiting
      <3>1. Waiting' = {} => Waiting = {}
        BY <1>7, <2>3 DEF Waiting, OnStage
      <3>2. QED
        BY <1>1, <3>1 DEF SubmittersGone
    <2>4. QED
      BY <2>1, <2>2, <2>3
  <1>13. DeletesAlone'
    <2>1. ASSUME NEW d \in Controllers, call'[d] = "delete"
          PROVE  d = c
      <3>1. CASE d # c
        <4>1. call[d] = "delete" /\ OthersAreOut(d)
          BY <1>1, <1>2, <2>1, <3>1 DEF DeletesAlone
        <4>2. stage[c] = "outside"
          BY <3>1, <4>1 DEF OthersAreOut, OnStage
        <4>3. QED
          BY <1>1, <4>2 DEF CallsFit
      <3>2. QED
        BY <3>1
    <2>2. OthersAreOut(c) => OthersAreOut(c)'
      BY <1>2 DEF OthersAreOut, OnStage
    <2>3. call'[c] = "delete" => call[c] = "delete"
      BY <1>2
    <2>4. QED
      BY <1>1, <1>2, <1>3, <2>1, <2>2, <2>3 DEF DeletesAlone
  <1>14. FreedWhenDeserted'
    BY <1>3 DEF FreedWhenDeserted
  <1>15. QED
    BY <1>4, <1>5, <1>6, <1>11, <1>12, <1>13, <1>14 DEF ShutdownInv

LEMMA ShutdownController ==
  ASSUME CountInv, CountInv', QueueInv, OwnershipInv, ShutdownInv, NEW c \in Controllers,
         ControllerStep(c) \/ ControllerCall(c)
  PROVE  ShutdownInv'
  <1> USE DEF DiscardStages, Replies
  <1>1. /\ CallsTyped /\ CallsFit /\ Requested /\ WaitsAlone /\ SubmittersGone
        /\ DeletesAlone /\ FreedWhenDeserted /\ StagesTyped /\ c \in Threads
        /\ stage[c] \in ControllerStages /\ call[c] \in Calls
    BY DEF ShutdownInv, CallsTyped, CountInv, StagesTyped, Threads
  <1>2. CASE resume_shutdown(c)
    <2>1. /\ call[c] \in Shutdowns /\ c \in Waiting /\ submitters_count \in Nat
          /\ UNCHANGED <<submitters_count, active_worker_count, shutdown_requested, freed, is_closed>>
      BY <1>1, <1>2, NobodyCounted DEF resume_shutdown, CallsFit, Waiting, OnStage, queue, executor
    <2>2. CASE submitters_count > 0 /\ Proceed(c, "submitters_asleep", call[c])
      <3>1. returned' = [returned EXCEPT ![c] = returned[c]]
        BY <1>1, <2>2 DEF Proceed, CallsTyped
      <3>2. QED
        BY <1>1, <2>1, <2>2, <3>1, ShutdownGoesOn DEF Proceed, Goes, Shutdowns
    <2>3. CASE submitters_count = 0 /\ call[c] = "shutdown_immediately" /\ Proceed(c, "discarding", call[c])
      <3>1. returned' = [returned EXCEPT ![c] = returned[c]]
        BY <1>1, <2>3 DEF Proceed, CallsTyped
      <3>2. QED
        BY <1>1, <2>1, <2>3, <3>1, ShutdownGoesOn DEF Proceed, Goes
    <2>4. CASE submitters_count = 0 /\ Reply(c, "shutdown")
      BY <1>1, <2>1, <2>4, ShutdownGoesOn DEF Reply, Goes, Shutdowns, Calls
    <2>5. QED
      BY <1>2, <2>1, <2>2, <2>3, <2>4 DEF resume_shutdown, WaitForSubmitters
  <1>3. CASE discard_leftover_jobs(c)
    <2>1. /\ stage[c] = "discarding" /\ call[c] \in {"shutdown_immediately", "delete"}
          /\ UNCHANGED <<submitters_count, active_worker_count, shutdown_requested, freed, is_closed>>
          /\ c \notin Waiting
          /\ call[c] = "delete" => active_worker_count = 0
      BY <1>1, <1>3 DEF discard_leftover_jobs, CallsFit, DeletesAlone, Waiting, OnStage, queue, executor
    <2>2. CASE \/ Goes(c, "discard_pop") /\ UNCHANGED control
               \/ Goes(c, "freeing") /\ UNCHANGED control /\ call[c] = "delete"
      <3>1. /\ returned' = [returned EXCEPT ![c] = returned[c]]
            /\ call' = [call EXCEPT ![c] = call[c]]
        BY <1>1, <2>2 DEF control, CallsTyped
      <3>2. QED
        BY <1>1, <2>1, <2>2, <3>1, ShutdownGoesOn DEF Goes
    <2>3. CASE call[c] = "shutdown_immediately" /\ Reply(c, "shutdown")
      BY <1>1, <2>1, <2>3, ShutdownGoesOn DEF Reply, Goes, Shutdowns, Calls
    <2>4. QED
      BY <1>3, <2>2, <2>3 DEF discard_leftover_jobs
  <1>4. CASE discard_pop(c) \/ cancel_job(c)
    <2>1. /\ stage[c] \in {"discard_pop", "cancelling"}
          /\ call[c] \in {"shutdown_immediately", "delete"}
          /\ UNCHANGED <<submitters_count, active_worker_count, shutdown_requested, freed, control>>
          /\ c \notin Waiting
          /\ call[c] = "delete" => active_worker_count = 0
      BY <1>1, <1>4 DEF discard_pop, cancel_job, CallsFit, DeletesAlone, Waiting, OnStage, executor
    <2>2. is_closed' = is_closed
      <3>1. JobStep(c)
        BY <1>1, <1>4, ControllerOnJobs DEF ControllerStep
      <3>2. is_closed
        BY <1>1, <2>1 DEF Requested
      <3>3. QED
        BY <3>1, <3>2 DEF JobStep, Keeps, Closes, Takes, Offers, Pops, Executes, Settles
    <2>3. PICK s \in {"discarding", "cancelling"} : Goes(c, s)
      <3>1. CASE cancel_job(c)
        BY <3>1 DEF cancel_job
      <3>2. CASE discard_pop(c)
        <4>1. pc'[c] = "idle"
          BY <1>1, <3>2, WaitTimes, PopEffects DEF discard_pop
        <4>2. QED
          BY <3>2, <4>1 DEF discard_pop, QueueReturns
      <3>3. QED
        BY <1>4, <3>1, <3>2
    <2>4. /\ returned' = [returned EXCEPT ![c] = returned[c]]
          /\ call' = [call EXCEPT ![c] = call[c]]
      BY <1>1, <2>1 DEF control, CallsTyped
    <2>5. QED
      BY <1>1, <2>1, <2>2, <2>3, <2>4, ShutdownGoesOn DEF Goes
  <1>5. CASE wait_for_workers(c)
    <2>1. /\ stage[c] = "workers_check" /\ call[c] \in {"wait", "delete"} /\ c \notin Waiting
          /\ UNCHANGED <<submitters_count, active_worker_count, shutdown_requested, freed, is_closed>>
          /\ active_worker_count \in Nat
      BY <1>1, <1>5, NobodyCounted DEF wait_for_workers, CallsFit, Waiting, OnStage, queue, executor
    <2>2. CASE Proceed(c, "workers_asleep", call[c])
      <3>1. returned' = [returned EXCEPT ![c] = returned[c]]
        BY <1>1, <2>2 DEF Proceed, CallsTyped
      <3>2. QED
        BY <1>1, <2>1, <2>2, <3>1, ShutdownGoesOn DEF Proceed, Goes
    <2>3. CASE call[c] = "wait" /\ Reply(c, "waited")
      BY <1>1, <2>1, <2>3, ShutdownGoesOn DEF Reply, Goes, Calls
    <2>4. CASE active_worker_count = 0 /\ call[c] = "delete" /\ Proceed(c, "discarding", "delete")
      <3>1. returned' = [returned EXCEPT ![c] = returned[c]]
        BY <1>1, <2>4 DEF Proceed, CallsTyped
      <3>2. QED
        BY <1>1, <2>1, <2>4, <3>1, ShutdownGoesOn DEF Proceed, Goes
    <2>5. QED
      BY <1>5, <2>1, <2>2, <2>3, <2>4 DEF wait_for_workers
  <1>6. CASE delete_executor(c)
    (* Nobody else is in a call, and both counts are 0.                    *)
    <2>1. /\ call[c] = "delete" /\ OthersAreOut(c) /\ submitters_count = 0 /\ active_worker_count = 0
          /\ shutdown_requested
      BY <1>1, <1>6 DEF delete_executor, CallsFit, DeletesAlone, Requested
    <2>2. /\ \A s \in Submitters : stage[s] = "outside"
          /\ \A w \in Workers : stage[w] = "unborn"
          /\ \A d \in Controllers \ {c} : stage[d] = "outside"
      BY <1>1, <2>1, NobodyCounted DEF Inside, Alive, OthersAreOut, OnStage, StagesTyped
    <2>3. /\ \A t \in Threads : stage'[t] \in {"outside", "unborn"}
          /\ \A d \in Controllers : stage'[d] = "outside"
      BY <1>1, <1>6, <2>2 DEF delete_executor, Reply, Goes, StagesTyped, Threads
    <2>4. /\ \A d \in Controllers : call'[d] = "none"
          /\ call' \in [Controllers -> Calls]
      BY <1>1, <1>6, <2>2 DEF delete_executor, Reply, CallsFit, CallsTyped, Calls
    <2>5. /\ returned' = [returned EXCEPT ![c] = "deleted"] /\ freed' = TRUE
          /\ UNCHANGED <<is_closed, shutdown_requested, submitters_count>>
      BY <1>6 DEF delete_executor, Reply, queue
    <2>6. CallsTyped' /\ CallsFit' /\ FreedWhenDeserted'
      BY <1>1, <2>3, <2>4, <2>5 DEF CallsTyped, CallsFit, FreedWhenDeserted, OnStage
    <2>7. Requested' /\ WaitsAlone' /\ SubmittersGone' /\ DeletesAlone'
      BY <1>1, <2>1, <2>3, <2>4, <2>5
      DEF Requested, WaitsAlone, SubmittersGone, DeletesAlone, Waiting, OnStage, CallsTyped
    <2>8. QED
      BY <2>6, <2>7 DEF ShutdownInv
  <1>7. CASE ControllerCall(c)
    <2>1. /\ stage[c] = "outside" /\ call[c] = "none" /\ c \notin Waiting
          /\ ~freed /\ \A d \in Controllers : call[d] # "delete"
          /\ UNCHANGED <<submitters_count, active_worker_count, freed>>
      BY <1>1, <1>7
      DEF ControllerCall, shutdown_executor, wait_for_all_executor_workers_to_complete, MayBeCalled,
          CallsFit, Waiting, OnStage, executor
    <2>2. PICK s \in ControllerStages, k \in Calls, r \in Replies :
             /\ stage' = [stage EXCEPT ![c] = s]
             /\ call' = [call EXCEPT ![c] = k]
             /\ returned' = [returned EXCEPT ![c] = r]
             /\ \/ /\ s = "outside" /\ k = "none" /\ r \in {"already", "refused"}
                   /\ UNCHANGED <<shutdown_requested, is_closed>>
                \/ /\ s = "workers_check" /\ k \in {"wait", "delete"} /\ r = returned[c]
                   /\ k = "delete" => OthersAreOut(c)
                   /\ shutdown_requested /\ UNCHANGED <<shutdown_requested, is_closed>>
                \/ /\ ~shutdown_requested /\ shutdown_requested' = TRUE /\ is_closed' = TRUE
                   /\ \/ /\ s = "submitters_asleep" /\ k \in Shutdowns
                         /\ r = returned[c] /\ submitters_count # 0
                      \/ /\ s = "discarding" /\ k = "shutdown_immediately"
                         /\ r = returned[c] /\ submitters_count = 0
                      \/ s = "outside" /\ k = "none" /\ r = "shutdown" /\ submitters_count = 0
      <3>1. returned = [returned EXCEPT ![c] = returned[c]] /\ returned[c] \in Replies
        BY <1>1 DEF CallsTyped
      <3>2. CASE \E what \in {"wait", "delete"} : wait_for_all_executor_workers_to_complete(c, what)
        <4>1. UNCHANGED <<shutdown_requested, is_closed>>
          BY <3>2 DEF wait_for_all_executor_workers_to_complete, queue, executor
        <4>2. CASE Reply(c, "refused")
          <5>1. "outside" \in ControllerStages /\ "none" \in Calls
            BY DEF ControllerStages, Calls
          <5>2. QED
            BY <4>1, <4>2, <5>1 DEF Reply, Goes
        <4>3. CASE \E what \in {"wait", "delete"} :
                      /\ Proceed(c, "workers_check", what) /\ shutdown_requested
                      /\ what = "delete" => OthersAreOut(c)
          <5>1. "workers_check" \in ControllerStages /\ {"wait", "delete"} \subseteq Calls
            BY DEF ControllerStages, Calls
          <5>2. QED
            BY <3>1, <4>1, <4>3, <5>1 DEF Proceed, Goes
        <4>4. QED
          BY <3>2, <4>2, <4>3 DEF wait_for_all_executor_workers_to_complete
      <3>3. CASE \E what \in Shutdowns : shutdown_executor(c, what)
        <4>1. CASE Reply(c, "already") /\ UNCHANGED <<queue, shutdown_requested>>
          <5>1. "outside" \in ControllerStages /\ "none" \in Calls
            BY DEF ControllerStages, Calls
          <5>2. QED
            BY <4>1, <5>1 DEF Reply, Goes, queue
        <4>2. CASE \E what \in Shutdowns :
                      /\ ~shutdown_requested /\ shutdown_requested' = TRUE
                      /\ job_q!close_job_queue /\ WaitForSubmitters(c, what)
          <5>1. is_closed' = TRUE
            BY <4>2, CloseEffects
          <5>2. PICK what \in Shutdowns : WaitForSubmitters(c, what)
            BY <4>2
          <5>3. submitters_count \in Nat
            BY NobodyCounted
          <5>4. /\ {"outside", "submitters_asleep", "discarding"} \subseteq ControllerStages
                /\ Shutdowns \cup {"none"} \subseteq Calls
            BY DEF ControllerStages, Calls, Shutdowns
          <5>5. CASE submitters_count > 0 /\ Proceed(c, "submitters_asleep", what)
            <6>1. /\ submitters_count # 0
                  /\ stage' = [stage EXCEPT ![c] = "submitters_asleep"]
                  /\ call' = [call EXCEPT ![c] = what]
                  /\ returned' = [returned EXCEPT ![c] = returned[c]]
              BY <3>1, <5>3, <5>5 DEF Proceed, Goes
            <6>2. ~shutdown_requested /\ shutdown_requested' = TRUE
              BY <4>2
            <6>3. QED
              BY <3>1, <5>1, <5>2, <5>4, <6>1, <6>2
          <5>6. CASE /\ submitters_count = 0 /\ what = "shutdown_immediately"
                     /\ Proceed(c, "discarding", what)
            BY <3>1, <4>2, <5>1, <5>4, <5>6 DEF Proceed, Goes
          <5>7. CASE submitters_count = 0 /\ Reply(c, "shutdown")
            BY <4>2, <5>1, <5>4, <5>7 DEF Reply, Goes
          <5>8. \/ submitters_count > 0 /\ Proceed(c, "submitters_asleep", what)
                \/ /\ submitters_count = 0 /\ what = "shutdown_immediately"
                   /\ Proceed(c, "discarding", what)
                \/ submitters_count = 0 /\ Reply(c, "shutdown")
            BY <5>2, <5>3 DEF WaitForSubmitters
          <5>9. QED
            BY <5>5, <5>6, <5>7, <5>8
        <4>3. QED
          BY <3>3, <4>1, <4>2 DEF shutdown_executor
      <3>4. QED
        BY <1>7, <3>2, <3>3 DEF ControllerCall, Shutdowns
    <2>3. /\ stage'[c] = s /\ call'[c] = k /\ returned'[c] = r
          /\ \A d \in Controllers \ {c} :
                stage'[d] = stage[d] /\ call'[d] = call[d] /\ returned'[d] = returned[d]
      BY <1>1, <2>2 DEF CallsTyped, StagesTyped, Threads
    <2>4. CallsTyped'
      BY <1>1, <2>1, <2>2 DEF CallsTyped
    <2>5. CallsFit'
      BY <1>1, <2>2, <2>3 DEF CallsFit, Shutdowns
    <2>6. Requested'
      <3>1. \/ UNCHANGED <<shutdown_requested, is_closed>>
            \/ shutdown_requested' = TRUE /\ is_closed' = TRUE
        BY <2>2
      <3>2. k # "none" \/ r \in {"shutdown", "waited"} => shutdown_requested'
        BY <1>1, <2>2 DEF Requested
      <3>3. \A d \in Controllers \ {c} :
               call'[d] # "none" \/ returned'[d] \in {"shutdown", "waited"} => shutdown_requested'
        BY <1>1, <2>3, <3>1 DEF Requested
      <3>4. QED
        BY <1>1, <2>3, <3>1, <3>2, <3>3 DEF Requested
    <2>7. ~shutdown_requested =>
             /\ Waiting = {}
             /\ \A d \in Controllers : call[d] = "none" /\ returned[d] # "shutdown"
      BY <1>1 DEF Requested, CallsFit, Waiting, OnStage
    <2>8. Waiting' = IF s = "submitters_asleep" THEN Waiting \cup {c} ELSE Waiting
      BY <1>1, <2>1, <2>2, <2>3 DEF Waiting, OnStage
    <2>9. WaitsAlone'
      <3>1. CASE shutdown_requested
        <4>1. /\ Waiting' = Waiting /\ k \notin Shutdowns
              /\ r # "shutdown" \/ r = returned[c]
          BY <2>2, <2>8, <3>1 DEF Shutdowns
        <4>2. QED
          BY <1>1, <2>3, <4>1 DEF WaitsAlone, Waiting, OnStage
      <3>2. CASE ~shutdown_requested
        <4>1. CASE s = "submitters_asleep"
          <5>1. Waiting' = {c} /\ r = returned[c]
            BY <2>2, <2>7, <2>8, <3>2, <4>1
          <5>2. QED
            BY <2>3, <2>7, <3>2, <5>1 DEF WaitsAlone, Shutdowns
        <4>2. CASE s # "submitters_asleep"
          <5>1. Waiting' = {}
            BY <2>7, <2>8, <3>2, <4>2
          <5>2. QED
            BY <5>1 DEF WaitsAlone
        <4>3. QED
          BY <4>1, <4>2
      <3>3. QED
        BY <1>1, <3>1, <3>2 DEF CallsTyped
    <2>10. SubmittersGone'
      BY <1>1, <2>1, <2>2, <2>8 DEF SubmittersGone
    <2>11. DeletesAlone'
      <3>1. ASSUME NEW d \in Controllers, call'[d] = "delete"
            PROVE  d = c /\ s = "workers_check" /\ OthersAreOut(c) /\ shutdown_requested
        BY <2>1, <2>2, <2>3, <3>1 DEF Shutdowns
      <3>2. OthersAreOut(c) => OthersAreOut(c)'
        BY <2>3 DEF OthersAreOut, OnStage
      <3>3. OthersAreOut(c) => Waiting = {}
        BY <2>1 DEF OthersAreOut, Waiting, OnStage
      <3>4. QED
        BY <1>1, <2>1, <2>3, <3>1, <3>2, <3>3 DEF DeletesAlone, SubmittersGone
    <2>12. FreedWhenDeserted'
      BY <2>1 DEF FreedWhenDeserted
    <2>13. QED
      BY <2>4, <2>5, <2>6, <2>9, <2>10, <2>11, <2>12 DEF ShutdownInv
  <1>8. QED
    BY <1>2, <1>3, <1>4, <1>5, <1>6, <1>7 DEF ControllerStep

-----------------------------------------------------------------------------
(* The inductive invariant: of every executor ...                          *)

LEMMA InitIInv ==
  ASSUME Init
  PROVE  IInv
  <1> USE ExecutorAssumption
  <1>1. CountInv /\ QueueInv
    BY InitEstablishes, QueueInvInit
  <1>2. pc = [t \in Threads |-> "idle"] /\ is_closed = FALSE /\ qp = <<>>
    BY DEF Init, job_q!initialize_job_queue, job_q!sq!Init
  <1>3. /\ job_state = [j \in Jobs |-> "none"] /\ result = [j \in Jobs |-> "unset"]
        /\ holds = [t \in Threads |-> NULL]
        /\ call = [c \in Controllers |-> "none"] /\ returned = [c \in Controllers |-> "none"]
        /\ submitters_count = 0 /\ shutdown_requested = FALSE /\ freed = FALSE
    BY DEF Init
  <1>4. /\ \A t \in Threads : stage[t] \in {"start_up", "unborn", "outside"}
        /\ \A c \in Controllers : stage[c] = "outside"
    BY DEF Init, Threads
  <1>5. AtQueue
    BY <1>2 DEF AtQueue, Threads
  <1>6. OwnershipInv
    BY <1>2, <1>3, <1>4
    DEF OwnershipInv, JobsTyped, JobStates, HoldsFit, HoldingStages, OnePlace, StatesFit, Queued, Held
  <1>7. ShutdownInv
    <2>1. Waiting = {}
      BY <1>4 DEF Waiting, OnStage
    <2>2. CallsTyped /\ CallsFit /\ Requested
      BY <1>2, <1>3, <1>4 DEF CallsTyped, Replies, CallsFit, Requested, Calls, DiscardStages
    <2>3. WaitsAlone /\ SubmittersGone /\ DeletesAlone /\ FreedWhenDeserted
      BY <1>3, <2>1 DEF WaitsAlone, SubmittersGone, DeletesAlone, FreedWhenDeserted
    <2>4. QED
      BY <2>2, <2>3 DEF ShutdownInv
  <1>8. QED
    BY <1>1, <1>5, <1>6, <1>7 DEF IInv

(* Who takes a step.                                                       *)
LEMMA WhoSteps ==
  ASSUME [Next]_vars
  PROVE  \/ UNCHANGED vars
         \/ \E s \in Submitters : SubmitterStep(s) \/ \E j \in Jobs : submit_job_executor(s, j)
         \/ \E w \in Workers : WorkerStep(w)
         \/ \E c \in Controllers : ControllerStep(c) \/ ControllerCall(c)
         \/ \E t \in Threads : WakeUp(t)
  BY DEF Next, Finished

(* Every step is one of the queue, if any, and one of a thread on the jobs.*)
LEMMA OnJobs ==
  ASSUME IInv, [Next]_vars
  PROVE  /\ UNCHANGED vars \/ \E t \in Threads : JobStep(t)
         /\ QueueStep \/ UNCHANGED queue
  <1> USE DEF IInv, ShutdownInv
  <1>1. Submitters \subseteq Threads /\ Workers \subseteq Threads /\ Controllers \subseteq Threads
    BY DEF Threads
  <1>2. UNCHANGED vars => UNCHANGED queue
    BY DEF vars
  <1>3. ASSUME NEW s \in Submitters, SubmitterStep(s) \/ \E j \in Jobs : submit_job_executor(s, j)
        PROVE  JobStep(s) /\ (QueueStep \/ UNCHANGED queue)
    BY <1>3, SubmitterOnJobs
  <1>4. ASSUME NEW w \in Workers, WorkerStep(w)
        PROVE  JobStep(w) /\ (QueueStep \/ UNCHANGED queue)
    BY <1>4, WorkerOnJobs
  <1>5. ASSUME NEW c \in Controllers, ControllerStep(c) \/ ControllerCall(c)
        PROVE  JobStep(c) /\ (QueueStep \/ UNCHANGED queue)
    BY <1>5, ControllerOnJobs
  <1>6. ASSUME NEW t \in Threads, WakeUp(t)
        PROVE  JobStep(t) /\ (QueueStep \/ UNCHANGED queue)
    BY <1>6, WakeUpOnJobs
  <1> HIDE DEF IInv, ShutdownInv
  <1>7. QED
    BY <1>1, <1>2, <1>3, <1>4, <1>5, <1>6, WhoSteps

LEMMA NothingChanges ==
  ASSUME IInv, UNCHANGED vars
  PROVE  AtQueue' /\ OwnershipInv' /\ ShutdownInv'
  <1>1. UNCHANGED <<qp, is_closed, max_capacity, pc, arg, holds, stage, job_state, result, call, returned,
                    active_worker_count, submitters_count, shutdown_requested, freed>>
    BY DEF vars, queue, executor, jobs, control
  <1>2. AtQueue'
    BY <1>1 DEF IInv, AtQueue
  <1>3. OwnershipInv'
    BY <1>1 DEF IInv, OwnershipInv, JobsTyped, HoldsFit, OnePlace, StatesFit, Queued, Held
  <1>4. ShutdownInv'
    BY <1>1, ShutdownRests DEF IInv, control
  <1>5. QED
    BY <1>2, <1>3, <1>4

LEMMA NextIInv ==
  ASSUME IInv, [Next]_vars
  PROVE  IInv'
  <1>1. CountInv /\ QueueInv /\ AtQueue /\ OwnershipInv /\ ShutdownInv /\ Requested /\ CallsFit
    BY DEF IInv, ShutdownInv
  <1>2. CountInv'
    BY <1>1, StepPreserves
  <1>3. QueueInv'
    BY <1>1, OnJobs, QueueInvKept
  <1>4. OwnershipInv'
    <2>1. CASE UNCHANGED vars
      BY <2>1, NothingChanges
    <2>2. CASE \E t \in Threads : JobStep(t)
      BY <1>1, <2>2, OwnershipKept, QueueTypes
    <2>3. QED
      BY <2>1, <2>2, OnJobs
  <1>5. AtQueue' /\ ShutdownInv'
    <2>1. CASE UNCHANGED vars
      BY <2>1, NothingChanges
    <2>2. ASSUME NEW s \in Submitters, SubmitterStep(s) \/ \E j \in Jobs : submit_job_executor(s, j)
          PROVE  AtQueue' /\ ShutdownInv'
      BY <1>1, <1>2, <2>2, AtQueueSubmitter, ShutdownSubmitter
    <2>3. ASSUME NEW w \in Workers, WorkerStep(w)
          PROVE  AtQueue' /\ ShutdownInv'
      BY <1>1, <1>2, <2>3, AtQueueWorker, ShutdownWorker
    <2>4. ASSUME NEW c \in Controllers, ControllerStep(c) \/ ControllerCall(c)
          PROVE  AtQueue' /\ ShutdownInv'
      BY <1>1, <1>2, <2>4, AtQueueController, ShutdownController
    <2>5. ASSUME NEW t \in Threads, WakeUp(t)
          PROVE  AtQueue' /\ ShutdownInv'
      BY <1>1, <2>5, AtQueueWakeUp, ShutdownWakeUp
    <2>6. QED
      BY <2>1, <2>2, <2>3, <2>4, <2>5, WhoSteps
  <1>6. QED
    BY <1>2, <1>3, <1>4, <1>5 DEF IInv

-----------------------------------------------------------------------------
(* ... and of one with a fixed number of threads, all of them started      *)

LEMMA DrainedStays ==
  ASSUME Drained, NEW t, JobStep(t)
  PROVE  Drained'
  BY DEF Drained, JobStep, Keeps, Closes, Takes, Offers, Pops, Executes, Settles

LEMMA InitFixed ==
  ASSUME Init, type = FIXED_THREAD_COUNT_EXECUTOR, ~MayFail
  PROVE  FixedInv
  <1>1. PICK started \in SUBSET Workers :
            /\ Cardinality(started) = worker_count_limit
            /\ stage = [t \in Threads |-> IF t \in started THEN "start_up"
                                          ELSE IF t \in Workers THEN "unborn" ELSE "outside"]
    BY DEF Init
  <1>2. PICK w \in Workers : w \in started
    BY <1>1, ExecutorAssumption, FS_EmptySet
  <1>3. AWorkerRemains
    BY <1>1, <1>2 DEF AWorkerRemains, Threads
  <1>4. OnlySubmits
    BY <1>1, ExecutorAssumption DEF OnlySubmits, Threads
  <1>5. /\ pc = [t \in Threads |-> "idle"] /\ timeout = [t \in Threads |-> "BLOCKING"]
        /\ call = [c \in Controllers |-> "none"] /\ returned = [c \in Controllers |-> "none"]
    BY DEF Init, job_q!initialize_job_queue, job_q!sq!Init, job_q!sq!BLOCKING
  <1>6. WaitsForEver /\ DrainedInTheEnd
    BY <1>5 DEF WaitsForEver, DrainedInTheEnd, TimedOut, Threads
  <1>7. QED
    BY <1>3, <1>4, <1>6 DEF FixedInv

(* Where the workers of a FIXED executor are not concerned.                *)
LEMMA FixedOutside ==
  ASSUME FixedInv, NEW t \in Threads, JobStep(t),
         active_worker_count = 0 => active_worker_count' = 0,
         \A w \in Workers : /\ stage'[w] = stage[w]
                            /\ timeout'[w] = timeout[w] /\ (pc'[w] \in TimedOut => pc[w] \in TimedOut),
         \A c \in Controllers :
            /\ returned'[c] = "waited" => returned[c] = "waited" \/ (active_worker_count = 0 /\ Alive = {})
            /\ call'[c] = "delete" /\ stage'[c] \in DiscardStages =>
                  \/ call[c] = "delete" /\ stage[c] = stage'[c]
                  \/ stage'[c] = "discarding" /\ Alive = {}
  PROVE  WaitsForEver' /\ AWorkerRemains' /\ DrainedInTheEnd'
  <1>1. WaitsForEver'
    BY DEF FixedInv, WaitsForEver
  <1>2. AWorkerRemains'
    BY DrainedStays DEF FixedInv, AWorkerRemains
  <1>3. Alive = {} => Drained
    BY DEF FixedInv, AWorkerRemains, Alive, OnStage, WorkerStages
  <1>4. DrainedInTheEnd'
    BY <1>3, DrainedStays DEF FixedInv, DrainedInTheEnd
  <1>5. QED
    BY <1>1, <1>2, <1>4

LEMMA FixedSubmitter ==
  ASSUME IInv, IInv', FixedInv, type = FIXED_THREAD_COUNT_EXECUTOR, ~MayFail, NEW s \in Submitters,
         SubmitterStep(s) \/ \E j \in Jobs : submit_job_executor(s, j)
  PROVE  FixedInv'
  <1>1. /\ s \in Threads /\ s \notin Workers /\ s \notin Controllers /\ StagesTyped
        /\ CountInv /\ QueueInv /\ AtQueue /\ OwnershipInv
    BY ExecutorAssumption DEF CountInv, IInv, Threads
  <1>2. stage[s] \in {"outside", "submitting", "leaving"}
    BY DEF FixedInv, OnlySubmits
  <1>3. JobStep(s)
    BY <1>1, SubmitterOnJobs
  <1>4. (\E j \in Jobs : submit_job_executor(s, j)) \/ submit_job_worker(s) \/ submitter_leaves(s)
    BY <1>2 DEF SubmitterStep, new_job_failed, worker_needed, create_worker, start_worker, undo_create_worker
  <1>5. UNCHANGED <<active_worker_count, control>>
    BY <1>4 DEF submit_job_executor, submit_job_worker, submitter_leaves, executor
  <1>6. /\ stage'[s] \in {"outside", "submitting", "leaving"}
        /\ OthersRest(s)
    <2>1. CASE \E j \in Jobs : submit_job_executor(s, j)
      BY <1>1, <2>1, GoesRests DEF submit_job_executor
    <2>2. CASE submit_job_worker(s)
      <3>1. QueueReturns(s, "leaving", "leaving")
        BY <2>2 DEF submit_job_worker, FIXED_THREAD_COUNT_EXECUTOR, CACHED_THREAD_POOL_EXECUTOR
      <3>2. UNCHANGED stage \/ Goes(s, "leaving")
        BY <3>1 DEF QueueReturns
      <3>3. QED
        BY <1>1, <1>2, <3>2, GoesRests DEF OthersRest
    <2>3. CASE submitter_leaves(s)
      BY <1>1, <2>3, GoesAndWakesRests DEF submitter_leaves
    <2>4. QED
      BY <1>4, <2>1, <2>2, <2>3
  <1>7. \A t \in Submitters \cup Workers : t # s => stage'[t] = stage[t]
    BY <1>1, <1>6, ExecutorAssumption
    DEF OthersRest, Asleep, StagesTyped, SubmitterStages, WorkerStages, Threads
  <1>8. OnlySubmits'
    BY <1>6, <1>7 DEF FixedInv, OnlySubmits
  <1>9. \A w \in Workers : /\ timeout'[w] = timeout[w] /\ (pc'[w] \in TimedOut => pc[w] \in TimedOut)
    <2>1. CASE submit_job_worker(s)
      <3>1. /\ holds[s] \in Jobs
            /\ \/ \E tmo \in job_q!Timeouts : job_q!push_job_queue(s, holds[s], tmo)
               \/ job_q!resume_push(s) /\ arg[s] = holds[s]
        BY <1>1, <2>1, PushesItsJob
      <3>2. OthersStay(s)
        BY <1>1, <3>1, PushEffects
      <3>3. QED
        BY <1>1, <3>2 DEF OthersStay, Threads
    <2>2. CASE UNCHANGED queue
      BY <2>2 DEF queue
    <2>3. QED
      BY <1>4, <2>1, <2>2 DEF submit_job_executor, submitter_leaves
  <1>10. \A c \in Controllers : stage'[c] \in DiscardStages => stage'[c] = stage[c]
    BY <1>1, <1>6, ExecutorAssumption DEF OthersRest, Asleep, Threads, DiscardStages
  <1>11. \A w \in Workers : stage'[w] = stage[w]
    BY <1>1, <1>7
  <1>12. \A c \in Controllers :
            /\ returned'[c] = "waited" => returned[c] = "waited"
            /\ call'[c] = "delete" /\ stage'[c] \in DiscardStages =>
                  call[c] = "delete" /\ stage[c] = stage'[c]
    BY <1>5, <1>10 DEF control
  <1>13. WaitsForEver' /\ AWorkerRemains' /\ DrainedInTheEnd'
    BY <1>1, <1>3, <1>5, <1>9, <1>11, <1>12, FixedOutside
  <1>14. QED
    BY <1>8, <1>13 DEF FixedInv

LEMMA FixedWorker ==
  ASSUME IInv, FixedInv, type = FIXED_THREAD_COUNT_EXECUTOR, ~MayFail, NEW w \in Workers, WorkerStep(w)
  PROVE  FixedInv'
  <1>1. /\ w \in Threads /\ w \notin Submitters /\ w \notin Controllers /\ StagesTyped
        /\ CountInv /\ QueueInv /\ AtQueue /\ OwnershipInv
    BY ExecutorAssumption DEF CountInv, IInv, Threads
  <1>2. JobStep(w) /\ UNCHANGED control
    BY <1>1, WorkerOnJobs
    DEF WorkerStep, start_up, dequeue, execute_job, complete_job, clean_up, WorkerGone
  <1>3. stage[w] \in WorkerStages \ {"unborn"}
    BY DEF WorkerStep, start_up, dequeue, execute_job, complete_job, clean_up, WorkerStages
  <1>4. active_worker_count # 0
    BY <1>1, <1>3, NobodyCounted DEF Alive, OnStage
  <1>5. OthersRest(w)
    <2>1. UNCHANGED stage => OthersRest(w)
      BY DEF OthersRest
    <2>2. CASE dequeue(w)
      BY <1>1, <2>1, <2>2, GoesRests DEF dequeue, QueueReturns
    <2>3. CASE clean_up(w)
      BY <1>1, <2>3, GoesAndWakesRests DEF clean_up, WorkerGone
    <2>4. CASE start_up(w) \/ execute_job(w) \/ complete_job(w)
      BY <1>1, <2>4, GoesRests DEF start_up, execute_job, complete_job
    <2>5. QED
      BY <2>2, <2>3, <2>4 DEF WorkerStep
  <1>6. /\ \A t \in Submitters \cup Workers : t # w => stage'[t] = stage[t]
        /\ \A c \in Controllers : stage'[c] \in DiscardStages => stage'[c] = stage[c]
    BY <1>1, <1>5, ExecutorAssumption
    DEF OthersRest, Asleep, StagesTyped, SubmitterStages, WorkerStages, DiscardStages, Threads
  <1>7. OnlySubmits'
    BY <1>1, <1>6 DEF FixedInv, OnlySubmits
  <1>8. WaitsForEver' /\ (dequeue(w) /\ pc'[w] = "idle" /\ event'.ret = NULL => Drained')
    <2>1. CASE dequeue(w)
      <3>1. job_q!pop_job_queue(w, "BLOCKING") \/ job_q!resume_pop(w)
        BY <2>1, WaitTimes DEF dequeue
      <3>2. timeout[w] = "BLOCKING" /\ pc[w] \notin TimedOut /\ "BLOCKING" \in job_q!Timeouts
        BY WaitTimes DEF FixedInv, WaitsForEver
      <3>3. /\ UNCHANGED is_closed /\ PopEffect(w) /\ OthersStay(w)
            /\ timeout'[w] = "BLOCKING" /\ (pc'[w] = "idle" /\ qp = <<>> => is_closed)
        BY <1>1, <3>1, <3>2, PopEffects
      <3>4. pc'[w] \notin TimedOut
        BY <3>3 DEF PopEffect, TimedOut
      <3>5. WaitsForEver'
        BY <1>1, <3>3, <3>4 DEF FixedInv, WaitsForEver, OthersStay, Threads
      <3>6. qp # <<>> /\ pc'[w] = "idle" => event'.ret # NULL
        <4>1. qp # <<>> => Head(qp) \in Jobs
          BY <1>1, QueueTypes
        <4>2. QED
          BY <3>3, <4>1, ExecutorAssumption DEF PopEffect
      <3>7. QED
        BY <3>3, <3>5, <3>6 DEF Drained, PopEffect
    <2>2. CASE UNCHANGED queue /\ ~dequeue(w)
      BY <2>2 DEF FixedInv, WaitsForEver, queue
    <2>3. QED
      BY <2>1, <2>2 DEF WorkerStep, start_up, execute_job, complete_job, clean_up, WorkerGone
  <1>9. AWorkerRemains'
    <2>1. CASE Drained
      BY <1>2, <2>1, DrainedStays DEF AWorkerRemains
    <2>2. CASE ~Drained
      <3>1. PICK v \in Workers : stage[v] \in {"start_up", "dequeuing", "dequeued", "running"}
        BY <2>2 DEF FixedInv, AWorkerRemains
      <3>2. CASE v # w
        BY <1>6, <3>1, <3>2 DEF AWorkerRemains
      <3>3. CASE v = w
        <4>1. CASE dequeue(w)
          <5>1. stage[w] = "dequeuing" /\ (stage'[w] = "clean_up" => pc'[w] = "idle" /\ event'.ret = NULL)
                /\ stage'[w] \in {"dequeuing", "dequeued", "clean_up"}
            BY <1>1, <4>1, GoesRests DEF dequeue, QueueReturns
          <5>2. QED
            BY <1>8, <4>1, <5>1 DEF AWorkerRemains
        <4>2. CASE start_up(w) \/ execute_job(w) \/ complete_job(w)
          <5>1. stage'[w] \in {"dequeuing", "running"}
            BY <1>1, <4>2, GoesRests DEF start_up, execute_job, complete_job
          <5>2. QED
            BY <5>1 DEF AWorkerRemains
        <4>3. QED
          BY <3>1, <3>3, <4>1, <4>2 DEF WorkerStep, clean_up
      <3>4. QED
        BY <3>2, <3>3
    <2>3. QED
      BY <2>1, <2>2
  <1>10. DrainedInTheEnd'
    BY <1>2, <1>4, <1>6, DrainedStays DEF FixedInv, DrainedInTheEnd, control
  <1>11. QED
    BY <1>7, <1>8, <1>9, <1>10 DEF FixedInv

LEMMA FixedController ==
  ASSUME IInv, FixedInv, NEW c \in Controllers, ControllerStep(c) \/ ControllerCall(c)
  PROVE  FixedInv'
  <1>1. /\ c \in Threads /\ c \notin Submitters /\ c \notin Workers /\ StagesTyped
        /\ CountInv /\ QueueInv /\ AtQueue /\ OwnershipInv /\ Requested /\ CallsFit /\ CallsTyped
    BY ExecutorAssumption DEF CountInv, IInv, ShutdownInv, Threads
  <1>2. JobStep(c)
    BY <1>1, ControllerOnJobs
  <1>3. UNCHANGED active_worker_count /\ \A t \in Threads \ {c} : stage'[t] = stage[t]
    BY <1>1, GoesRests
    DEF ControllerStep, ControllerCall, shutdown_executor, resume_shutdown, WaitForSubmitters,
        wait_for_all_executor_workers_to_complete, wait_for_workers, discard_leftover_jobs,
        discard_pop, QueueReturns, cancel_job, delete_executor, Proceed, Reply, executor
  <1>4. OnlySubmits' /\ \A w \in Workers : stage'[w] = stage[w]
    BY <1>1, <1>3 DEF FixedInv, OnlySubmits, Threads
  <1>5. \A w \in Workers : timeout'[w] = timeout[w] /\ (pc'[w] \in TimedOut => pc[w] \in TimedOut)
    <2>1. CASE discard_pop(c)
      BY <1>1, <2>1, WaitTimes, PopEffects DEF discard_pop, OthersStay, Threads
    <2>2. CASE job_q!close_job_queue
      BY <1>1, <2>2, CloseEffects DEF AllStay, Threads, FixedInv, WaitsForEver
    <2>3. CASE UNCHANGED queue
      BY <2>3 DEF queue
    <2>4. QED
      BY <2>1, <2>2, <2>3
      DEF ControllerStep, ControllerCall, shutdown_executor, resume_shutdown,
          wait_for_all_executor_workers_to_complete, wait_for_workers, discard_leftover_jobs,
          cancel_job, delete_executor
  <1>6. \A d \in Controllers \ {c} : call'[d] = call[d] /\ returned'[d] = returned[d]
    BY <1>1
    DEF ControllerStep, ControllerCall, shutdown_executor, resume_shutdown, WaitForSubmitters,
        wait_for_all_executor_workers_to_complete, wait_for_workers, discard_leftover_jobs,
        discard_pop, cancel_job, delete_executor, Proceed, Reply, control, CallsTyped
  <1>7. /\ returned'[c] = "waited" => returned[c] = "waited" \/ wait_for_workers(c)
        /\ call'[c] = "delete" /\ stage'[c] \in DiscardStages =>
              \/ wait_for_workers(c)
              \/ call[c] = "delete" /\ (discard_pop(c) \/ cancel_job(c) \/ discard_leftover_jobs(c))
    BY <1>1
    DEF ControllerStep, ControllerCall, shutdown_executor, resume_shutdown, WaitForSubmitters,
        wait_for_all_executor_workers_to_complete, discard_leftover_jobs, DiscardStages,
        discard_pop, cancel_job, delete_executor, Proceed, Reply, Goes, control, CallsTyped, CallsFit,
        StagesTyped, Shutdowns
  <1>8. wait_for_workers(c) => \/ stage'[c] = "workers_asleep" /\ UNCHANGED returned
                               \/ /\ active_worker_count = 0 /\ Alive = {}
                                  /\ stage'[c] \in {"discarding", "outside"}
    BY <1>1, NobodyCounted, CallMoves DEF wait_for_workers, Proceed
  <1>9. call[c] = "delete" /\ stage[c] \in DiscardStages => stage[c] = "discarding" /\ qp = <<>>
    BY DEF FixedInv, DrainedInTheEnd, Drained
  <1>10. call[c] = "delete" => ~discard_pop(c) /\ ~cancel_job(c)
                                /\ (discard_leftover_jobs(c) => stage'[c] = "freeing")
    BY <1>1, <1>9, GoesRests DEF discard_pop, cancel_job, discard_leftover_jobs, DiscardStages,
       job_q!is_empty_job_queue
  <1>11. \A d \in Controllers :
            /\ returned'[d] = "waited" => returned[d] = "waited" \/ (active_worker_count = 0 /\ Alive = {})
            /\ call'[d] = "delete" /\ stage'[d] \in DiscardStages =>
                  \/ call[d] = "delete" /\ stage[d] = stage'[d]
                  \/ stage'[d] = "discarding" /\ Alive = {}
    <2>1. ASSUME NEW d \in Controllers \ {c}
          PROVE  stage'[d] = stage[d] /\ call'[d] = call[d] /\ returned'[d] = returned[d]
      BY <1>3, <1>6 DEF Threads
    <2>2. returned'[c] = "waited" => returned[c] = "waited" \/ (active_worker_count = 0 /\ Alive = {})
      BY <1>7, <1>8
    <2>3. call'[c] = "delete" /\ stage'[c] \in DiscardStages => stage'[c] = "discarding" /\ Alive = {}
      BY <1>7, <1>8, <1>10 DEF DiscardStages
    <2>4. QED
      BY <2>1, <2>2, <2>3
  <1>12. QED
    BY <1>1, <1>2, <1>3, <1>4, <1>5, <1>11, FixedOutside DEF FixedInv

LEMMA FixedWakeUp ==
  ASSUME IInv, FixedInv, NEW t \in Threads, WakeUp(t)
  PROVE  FixedInv'
  <1>1. StagesTyped /\ CountInv /\ QueueInv /\ OwnershipInv
    BY DEF CountInv, IInv
  <1>2. JobStep(t) /\ UNCHANGED <<active_worker_count, control>>
    BY <1>1, WakeUpOnJobs DEF WakeUp, executor
  <1>3. \A u \in Threads : \/ stage'[u] = stage[u]
                           \/ stage[u] \in DOMAIN Asleep /\ stage'[u] = Asleep[stage[u]]
    BY <1>1 DEF WakeUp, Goes, StagesTyped, Asleep
  <1>4. /\ \A u \in Submitters \cup Workers : stage'[u] = stage[u]
        /\ \A c \in Controllers : stage'[c] \in DiscardStages => stage'[c] = stage[c]
    BY <1>1, <1>3 DEF Asleep, StagesTyped, SubmitterStages, WorkerStages, DiscardStages, Threads
  <1>5. \A w \in Workers : timeout'[w] = timeout[w] /\ (pc'[w] \in TimedOut => pc[w] \in TimedOut)
    <2>1. CASE job_q!WakeUp(t)
      BY <1>1, <2>1, WakeUpEffects DEF AllStay, Threads, FixedInv, WaitsForEver
    <2>2. CASE UNCHANGED queue
      BY <2>2 DEF queue
    <2>3. QED
      BY <2>1, <2>2 DEF WakeUp
  <1>6. OnlySubmits'
    BY <1>4 DEF FixedInv, OnlySubmits
  <1>7. \A c \in Controllers :
           /\ returned'[c] = "waited" => returned[c] = "waited"
           /\ call'[c] = "delete" /\ stage'[c] \in DiscardStages =>
                 call[c] = "delete" /\ stage[c] = stage'[c]
    BY <1>2, <1>4 DEF control
  <1>8. WaitsForEver' /\ AWorkerRemains' /\ DrainedInTheEnd'
    BY <1>1, <1>2, <1>4, <1>5, <1>7, FixedOutside
  <1>9. QED
    BY <1>6, <1>8 DEF FixedInv

LEMMA NextFixed ==
  ASSUME IInv, IInv', FixedInv, type = FIXED_THREAD_COUNT_EXECUTOR, ~MayFail, [Next]_vars
  PROVE  FixedInv'
  <1>1. CASE UNCHANGED vars
    BY <1>1
    DEF vars, queue, executor, control, FixedInv, OnlySubmits, WaitsForEver, AWorkerRemains, Drained,
        DrainedInTheEnd
  <1>2. QED
    BY <1>1, WhoSteps, FixedSubmitter, FixedWorker, FixedController, FixedWakeUp

-----------------------------------------------------------------------------
(* The results                                                             *)

(* The strengthened invariants hold of every reachable state.              *)
THEOREM Inductive == Spec => []IInv
  <1>1. Init => IInv
    BY InitIInv
  <1>2. IInv /\ [Next]_vars => IInv'
    BY NextIInv
  <1>3. QED
    BY <1>1, <1>2, PTL DEF Spec

THEOREM InductiveFixed ==
  ASSUME type = FIXED_THREAD_COUNT_EXECUTOR, ~MayFail
  PROVE  Spec => [](IInv /\ FixedInv)
  <1>1. Init => IInv /\ FixedInv
    BY InitIInv, InitFixed
  <1>2. IInv /\ FixedInv /\ [Next]_vars => IInv' /\ FixedInv'
    <2>1. SUFFICES ASSUME IInv, FixedInv, [Next]_vars
                   PROVE  IInv' /\ FixedInv'
      OBVIOUS
    <2>2. IInv'
      BY <2>1, NextIInv
    <2>3. QED
      BY <2>1, <2>2, NextFixed
  <1>3. QED
    BY <1>1, <1>2, PTL DEF Spec

(* Types, those of the queue in use included: no count goes below zero and *)
(* every thread stays in its own part of the code.                         *)
THEOREM TypeCorrect == Spec => []TypeOK
  <1>1. IInv => TypeOK
    <2>1. SUFFICES ASSUME IInv PROVE TypeOK
      OBVIOUS
    <2>2. CountInv /\ QueueInv /\ OwnershipInv /\ ShutdownInv
      BY <2>1 DEF IInv
    <2>3. job_q!TypeOK
      <3>1. CASE max_capacity = 0
        <4>1. LQ!TypeOK /\ max_capacity \in QueueCapacities
          BY <2>2, <3>1 DEF QueueInv, LQ!IInv
        <4>2. job_q!lsq!TypeOK
          <5>1. /\ LQ!Timeouts = job_q!lsq!Timeouts /\ LQ!Places = job_q!lsq!Places
                /\ \A L : job_q!lsq!Cardinality(LQ!In(L)) = LQ!Cardinality(LQ!In(L))
                          /\ LQ!In(L) = job_q!lsq!In(L)
                /\ LQ!PopWaits = job_q!lsq!PopWaits
            BY DEF LQ!Timeouts, job_q!lsq!Timeouts, LQ!BLOCKING, job_q!lsq!BLOCKING, LQ!TIMED,
                   job_q!lsq!TIMED, LQ!NON_BLOCKING, job_q!lsq!NON_BLOCKING, LQ!Places,
                   job_q!lsq!Places, LQ!In, job_q!lsq!In, LQ!PopWaits, job_q!lsq!PopWaits,
                   LQ!Cardinality, job_q!lsq!Cardinality
          <5>2. QED
            BY <4>1, <5>1 DEF LQ!TypeOK, job_q!lsq!TypeOK
        <4>3. QED
          BY <3>1, <4>1, <4>2
          DEF job_q!TypeOK, job_q!LINKEDLIST_TYPE_JOB_QUEUE, job_q!JOB_QUEUE_AS_LINKEDLIST
      <3>2. CASE max_capacity # 0
        <4>1. SQ!TypeOK
          BY <2>2, <3>2 DEF QueueInv, SQ!IInv
        <4>2. SQ!TypeOK => job_q!sq!TypeOK
          BY DEF SQ!TypeOK, job_q!sq!TypeOK, SQ!Timeouts, job_q!sq!Timeouts, SQ!BLOCKING,
                 job_q!sq!BLOCKING, SQ!TIMED, job_q!sq!TIMED, SQ!NON_BLOCKING,
                 job_q!sq!NON_BLOCKING, SQ!Places, job_q!sq!Places, SQ!In, job_q!sq!In,
                 SQ!PushWaits, job_q!sq!PushWaits, SQ!PopWaits, job_q!sq!PopWaits
        <4>3. QED
          BY <3>2, <4>1, <4>2
          DEF job_q!TypeOK, job_q!LINKEDLIST_TYPE_JOB_QUEUE, job_q!JOB_QUEUE_AS_LINKEDLIST
      <3>3. QED
        BY <3>1, <3>2
    <2>4. QED
      BY <2>2, <2>3, NobodyCounted
      DEF TypeOK, CountInv, StagesTyped, OwnershipInv, JobsTyped, JobStates, ShutdownInv, CallsTyped
  <1>2. QED
    BY <1>1, Inductive, PTL

(* The executor's counts are exact and the limit on workers is kept, for   *)
(* every number of threads that submit, create workers, end, shut down,    *)
(* wait and delete.                                                        *)
THEOREM CountsExact == Spec => []CountsAccounted
  <1>1. IInv => CountsAccounted
    BY DEF IInv, CountInv
  <1>2. QED
    BY <1>1, Inductive, PTL

(* Every job is in exactly one place until it is over, then nowhere.       *)
THEOREM OneOwner == Spec => []JobsHaveOneOwner
  <1>1. IInv => JobsHaveOneOwner
    <2> SUFFICES ASSUME IInv, NEW j \in Jobs
                 PROVE  /\ job_state[j] \in {"CREATED", "RUNNING"} => Places(j) = 1
                        /\ job_state[j] \in {"REJECTED", "COMPLETED", "CANCELLED"} => Places(j) = 0
      BY DEF JobsHaveOneOwner
    <2> DEFINE I == {i \in DOMAIN qp : qp[i] = j}
               T == {t \in Threads : holds[t] = j}
    <2>1. OnePlace /\ StatesFit /\ NULL \notin Jobs
      BY ExecutorAssumption DEF IInv, OwnershipInv
    <2>2. Cardinality({}) = 0 /\ \A x : Cardinality({x}) = 1
      BY FS_EmptySet, FS_Singleton
    <2>3. ASSUME Queued(j) PROVE Places(j) = 1
      <3>1. PICK i \in DOMAIN qp : qp[i] = j
        BY <2>3 DEF Queued
      <3>2. I = {i} /\ T = {}
        BY <2>1, <3>1 DEF OnePlace
      <3>3. Cardinality(I) = 1 /\ Cardinality(T) = 0
        BY <2>2, <3>2, Zenon
      <3>4. QED
        BY <3>3 DEF Places
    <2>4. ASSUME Held(j) PROVE Places(j) = 1
      <3>1. PICK t \in Threads : holds[t] = j
        BY <2>4 DEF Held
      <3>2. I = {} /\ T = {t}
        BY <2>1, <3>1 DEF OnePlace
      <3>3. Cardinality(I) = 0 /\ Cardinality(T) = 1
        BY <2>2, <3>2, Zenon
      <3>4. QED
        BY <3>3 DEF Places
    <2>5. ASSUME ~Queued(j), ~Held(j) PROVE Places(j) = 0
      <3>1. I = {} /\ T = {}
        BY <2>5 DEF Queued, Held
      <3>2. QED
        BY <2>2, <3>1 DEF Places
    <2>6. job_state[j] \in {"REJECTED", "COMPLETED", "CANCELLED"} => ~Queued(j) /\ ~Held(j)
      BY <2>1 DEF StatesFit, Held
    <2>7. QED
      BY <2>1, <2>3, <2>4, <2>5, <2>6 DEF StatesFit
  <1>2. QED
    BY <1>1, Inductive, PTL

(* Once the shutdown that took effect has returned nobody is submitting;   *)
(* while it waits the queue is closed and no submitter sleeps in it.       *)
THEOREM ShutdownIsQuiet == Spec => []QuietAfterShutdown
  <1>1. ASSUME IInv, NEW c \in Controllers, returned[c] = "shutdown"
        PROVE  is_closed /\ submitters_count = 0 /\ Inside = {}
    <2>1. CountInv /\ Requested /\ WaitsAlone /\ SubmittersGone
      BY <1>1 DEF IInv, ShutdownInv
    <2>2. shutdown_requested /\ is_closed
      BY <1>1, <2>1 DEF Requested
    <2>3. Waiting = {}
      BY <1>1, <2>1 DEF WaitsAlone
    <2>4. QED
      BY <2>1, <2>2, <2>3, NobodyCounted DEF SubmittersGone
  <1>2. ASSUME IInv, NEW c \in Controllers,
               stage[c] \in {"submitters_asleep", "submitters_woken"}
        PROVE  is_closed /\ \A s \in Submitters : pc[s] # "push_asleep"
    <2>1. Requested /\ CallsFit /\ QueueInv
      BY <1>2 DEF IInv, CountInv, ShutdownInv
    <2>2. call[c] \in Shutdowns
      BY <1>2, <2>1 DEF CallsFit
    <2>3. is_closed
      BY <2>1, <2>2 DEF Requested, Shutdowns
    <2>4. CASE max_capacity = 0
      BY <2>1, <2>3, <2>4, QueueTypes
      DEF QueueInv, LQ!IInv, LQ!TypeOK, LQ!Places, LQ!PopWaits, Threads
    <2>5. CASE max_capacity # 0
      BY <2>1, <2>3, <2>5 DEF QueueInv, SQ!ProducersAwake, Threads
    <2>6. QED
      BY <2>3, <2>4, <2>5
  <1>3. IInv => QuietAfterShutdown
    BY <1>1, <1>2 DEF QuietAfterShutdown
  <1>4. QED
    BY <1>3, Inductive, PTL

(* Nobody is inside the executor when it is freed, or ever after.          *)
THEOREM FreedSafely == Spec => []FreedWhenDeserted
  <1>1. IInv => FreedWhenDeserted
    BY DEF IInv, ShutdownInv
  <1>2. QED
    BY <1>1, Inductive, PTL

(* No thread is left asleep in a pop of the job queue, of either kind,     *)
(* while the queue has more jobs than threads on their way to take one, or *)
(* is closed: the queues' own theorem holds as the executor uses them.     *)
NoWorkerStranded ==
    LET asleep == {t \in Threads : pc[t] \in {"pop_asleep", "asleep"}}
        coming == {t \in Threads : pc[t] \in {"pop_woken", "woken", "pop_timedout", "timedout"}}
    IN  asleep # {} => ~is_closed /\ Len(qp) <= Cardinality(coming)

THEOREM WorkersAreWoken == Spec => []NoWorkerStranded
  <1>1. IInv => NoWorkerStranded
    <2> SUFFICES ASSUME IInv PROVE NoWorkerStranded
      OBVIOUS
    <2>1. QueueInv
      BY DEF IInv
    <2>2. CASE max_capacity = 0
      <3>1. LQ!NoStrandedConsumer /\ pc \in [Threads -> LQ!Places]
        BY <2>1, <2>2, QueueTypes DEF QueueInv, LQ!IInv
      <3>2. /\ LQ!In({"asleep"}) = {t \in Threads : pc[t] \in {"pop_asleep", "asleep"}}
            /\ LQ!In(LQ!Coming) =
                   {t \in Threads : pc[t] \in {"pop_woken", "woken", "pop_timedout", "timedout"}}
        BY <3>1 DEF LQ!In, LQ!Coming, LQ!Places, LQ!PopWaits
      <3>3. \A S : LQ!Cardinality(S) = Cardinality(S)
        BY DEF Cardinality, LQ!Cardinality
      <3>4. QED
        BY <3>1, <3>2, <3>3 DEF LQ!NoStrandedConsumer, NoWorkerStranded
    <2>3. CASE max_capacity # 0
      <3>1. SQ!NoStrandedConsumer /\ pc \in [Threads -> SQ!Places]
        BY <2>1, <2>3, QueueTypes DEF QueueInv, SQ!IInv
      <3>2. /\ SQ!At("pop_asleep") = {t \in Threads : pc[t] \in {"pop_asleep", "asleep"}}
            /\ SQ!In(SQ!ComingToPop) =
                   {t \in Threads : pc[t] \in {"pop_woken", "woken", "pop_timedout", "timedout"}}
        BY <3>1 DEF SQ!At, SQ!In, SQ!ComingToPop, SQ!Places, SQ!PopWaits, SQ!PushWaits
      <3>3. \A S : SQ!Cardinality(S) = Cardinality(S)
        BY DEF Cardinality, SQ!Cardinality
      <3>4. QED
        BY <3>1, <3>2, <3>3 DEF SQ!NoStrandedConsumer, NoWorkerStranded
    <2>4. QED
      BY <2>2, <2>3
  <1>2. QED
    BY <1>1, Inductive, PTL

(* A FIXED executor whose workers were started settles every job it has    *)
(* accepted before a wait for the workers succeeds.                        *)
THEOREM SettledAfterWait ==
  ASSUME type = FIXED_THREAD_COUNT_EXECUTOR, ~MayFail
  PROVE  Spec => []WaitMeansSettled
  <1>1. IInv /\ FixedInv => WaitMeansSettled
    <2> SUFFICES ASSUME IInv, FixedInv, NEW c \in Controllers, returned[c] = "waited",
                        ~ShutdownInProgress, NEW j \in Jobs, Accepted(j)
                 PROVE  result[j] # "unset"
      BY DEF WaitMeansSettled
    <2>1. /\ CountInv /\ StagesTyped /\ Requested /\ CallsFit /\ SubmittersGone
          /\ HoldsFit /\ StatesFit
      BY DEF IInv, CountInv, OwnershipInv, ShutdownInv
    <2>2. qp = <<>> /\ active_worker_count = 0 /\ shutdown_requested
      BY <2>1 DEF FixedInv, DrainedInTheEnd, Drained, Requested
    <2>3. submitters_count = 0
      BY <2>1, <2>2 DEF SubmittersGone, Waiting, OnStage, ShutdownInProgress, CallsFit, Shutdowns
    <2>4. ~Queued(j)
      BY <2>2 DEF Queued
    <2>5. ASSUME NEW t \in Threads
          PROVE  holds[t] = NULL
      <3>1. CASE t \in Submitters
        BY <2>1, <2>3, <3>1, NobodyCounted
        DEF Inside, OnStage, StagesTyped, HoldsFit, HoldingStages, SubmitterStages
      <3>2. CASE t \in Workers
        BY <2>1, <2>2, <3>2, NobodyCounted
        DEF Alive, OnStage, StagesTyped, HoldsFit, HoldingStages, WorkerStages
      <3>3. CASE t \in Controllers
        <4>1. stage[t] # "cancelling"
          BY <2>1, <3>3
          DEF CallsFit, FixedInv, DrainedInTheEnd, DiscardStages, ShutdownInProgress
        <4>2. QED
          BY <2>1, <3>3, <4>1 DEF StagesTyped, HoldsFit, HoldingStages, ControllerStages
      <3>4. QED
        BY <3>1, <3>2, <3>3 DEF Threads
    <2>6. ~Held(j)
      BY <2>5, ExecutorAssumption DEF Held
    <2>7. QED
      BY <2>1, <2>4, <2>6 DEF StatesFit, Accepted
  <1>2. QED
    BY <1>1, InductiveFixed, PTL

(* And leaves nothing to discard to its deletion, as executor.c says of    *)
(* every executor.                                                         *)
THEOREM DeletionFindsNothing ==
  ASSUME type = FIXED_THREAD_COUNT_EXECUTOR, ~MayFail
  PROVE  Spec => []DeleteFindsNoJobs
  <1>1. FixedInv => DeleteFindsNoJobs
    BY DEF FixedInv, DrainedInTheEnd, Drained, DeleteFindsNoJobs, DiscardStages
  <1>2. QED
    BY <1>1, InductiveFixed, PTL

-----------------------------------------------------------------------------
(* The executor implements JobService                                      *)

LEMMA SameServiceSets == \A S : Abstract!Cardinality(S) = Cardinality(S)
  BY DEF Cardinality, Abstract!Cardinality

(* What a change of one thread's hands is to a set of threads.             *)
LEMMA HandsChange ==
  ASSUME OwnershipInv, NEW t \in Threads, NEW x, holds' = [holds EXCEPT ![t] = x],
         NEW T, T \subseteq Threads
  PROVE  /\ t \notin T => InHandsOf(T)' = InHandsOf(T)
         /\ t \in T /\ holds[t] = NULL /\ x # NULL => InHandsOf(T)' = InHandsOf(T) \cup {x}
         /\ t \in T /\ holds[t] # NULL /\ x = NULL => InHandsOf(T)' = InHandsOf(T) \ {holds[t]}
  <1>1. /\ \A u \in Threads : holds'[u] = IF u = t THEN x ELSE holds[u]
        /\ \A u, v \in Threads : holds[u] # NULL /\ holds[u] = holds[v] => u = v
    BY HandsOf DEF OwnershipInv, OnePlace
  <1>2. InHandsOf(T)' = {holds'[u] : u \in T} \ {NULL}
    BY DEF InHandsOf
  <1>3. ASSUME t \notin T
        PROVE  InHandsOf(T)' = InHandsOf(T)
    BY <1>1, <1>2, <1>3 DEF InHandsOf
  <1>4. ASSUME t \in T, holds[t] = NULL, x # NULL
        PROVE  InHandsOf(T)' = InHandsOf(T) \cup {x}
    <2>1. ASSUME NEW y PROVE y \in InHandsOf(T)' <=> y \in InHandsOf(T) \cup {x}
      BY <1>1, <1>2, <1>4 DEF InHandsOf
    <2>2. QED
      BY <2>1
  <1>5. ASSUME t \in T, holds[t] # NULL, x = NULL
        PROVE  InHandsOf(T)' = InHandsOf(T) \ {holds[t]}
    <2>1. ASSUME NEW y PROVE y \in InHandsOf(T)' <=> y \in InHandsOf(T) \ {holds[t]}
      BY <1>1, <1>2, <1>5 DEF InHandsOf
    <2>2. QED
      BY <2>1
  <1>6. QED
    BY <1>3, <1>4, <1>5

(* A worker that waits for a job leaves room for one in execution.         *)
LEMMA RoomToExecute ==
  ASSUME CountInv, OwnershipInv, NEW w \in Workers, stage[w] = "dequeuing"
  PROVE  Cardinality(InHandsOf(Workers)) < worker_count_limit
  <1> DEFINE Holders == {u \in Workers : holds[u] # NULL}
             Busy == Alive \ {w}
             f == [u \in Holders |-> holds[u]]
  <1>1. w \in Alive /\ Alive \subseteq Workers /\ IsFiniteSet(Alive)
    BY ExecutorAssumption, FS_Subset DEF Alive, OnStage, WorkerStages
  <1>2. IsFiniteSet(Busy) /\ Cardinality(Busy) = Cardinality(Alive) - 1
    BY <1>1, FS_RemoveElement
  <1>3. Cardinality(Alive) \in Nat /\ Cardinality(Busy) \in Nat
    BY <1>1, <1>2, FS_CardinalityType
  <1>4. Cardinality(Alive) <= worker_count_limit /\ worker_count_limit \in Nat
    BY CountsUnprimed, CountsAreCounts
  <1>5. Holders \in SUBSET Busy
    <2>1. ASSUME NEW u \in Workers, holds[u] # NULL PROVE u \in Busy
      BY <2>1, HandsOf DEF Alive, OnStage, CountInv, StagesTyped, HoldingStages, WorkerStages, Threads
    <2>2. QED
      BY <2>1
  <1>6. IsFiniteSet(Holders) /\ Cardinality(Holders) <= Cardinality(Busy) /\ Cardinality(Holders) \in Nat
    BY <1>2, <1>5, FS_Subset, FS_CardinalityType
  <1>7. f \in Bijection(Holders, InHandsOf(Workers))
    <2>1. \A u, v \in Holders : holds[u] = holds[v] => u = v
      BY DEF OwnershipInv, OnePlace, Threads
    <2>2. InHandsOf(Workers) = {holds[u] : u \in Holders}
      BY DEF InHandsOf
    <2> HIDE DEF Holders
    <2>3. f \in [Holders -> InHandsOf(Workers)]
      BY <2>2
    <2>4. f \in Injection(Holders, InHandsOf(Workers))
      BY <2>1, <2>3 DEF Injection, IsInjective
    <2>5. f \in Surjection(Holders, InHandsOf(Workers))
      BY <2>2, <2>3 DEF Surjection
    <2>6. QED
      BY <2>4, <2>5 DEF Bijection
  <1>8. Cardinality(InHandsOf(Workers)) = Cardinality(Holders)
    <2> HIDE DEF Holders, f
    <2>1. ExistsBijection(Holders, InHandsOf(Workers))
      BY <1>7 DEF ExistsBijection
    <2>2. QED
      BY <1>6, <2>1, FS_Bijection
  <1> HIDE DEF Busy, Holders
  <1>9. QED
    BY <1>2, <1>3, <1>4, <1>6, <1>8

LEMMA RefineInit ==
  ASSUME Init
  PROVE  Abstract!Init
  <1>1. \A T : T \subseteq Threads => InHandsOf(T) = {}
    BY DEF Init, InHandsOf
  <1>2. InHandsOf(Workers) = {} /\ InHandsOf(Controllers) = {}
    BY <1>1 DEF Threads
  <1>3. QED
    BY <1>2 DEF Init, job_q!initialize_job_queue, job_q!sq!Init, Abstract!Init

LEMMA RefineJobStep ==
  ASSUME CountInv, OwnershipInv, qp \in Seq(Jobs), NEW t \in Threads, JobStep(t)
  PROVE  [Abstract!Next]_(Abstract!vars)
  <1>1. /\ Workers \subseteq Threads /\ Controllers \subseteq Threads
        /\ Submitters \cap Controllers = {} /\ (Submitters \cup Controllers) \cap Workers = {}
        /\ OnePlace /\ StatesFit /\ JobsTyped /\ NULL \notin Jobs
    BY ExecutorAssumption DEF Threads, OwnershipInv
  <1>2. CASE Keeps \/ Closes(t) \/ Executes(t)
    <2>1. /\ InHandsOf(Workers)' = InHandsOf(Workers)
          /\ InHandsOf(Controllers)' = InHandsOf(Controllers)
          /\ UNCHANGED <<qp, result>>
      BY <1>2 DEF Keeps, Closes, Executes, InHandsOf, jobs
    <2>2. CASE UNCHANGED is_closed
      BY <2>1, <2>2 DEF Abstract!vars
    <2>3. CASE Closes(t)
      BY <2>1, <2>3 DEF Closes, Abstract!Next, Abstract!Close
    <2>4. QED
      BY <1>2, <2>2, <2>3 DEF Keeps, Executes
  <1>3. CASE (\E j \in Jobs : Takes(t, j)) \/ Offers(t)
    (* What a submitter has in its hands is not the service's yet.         *)
    <2>1. /\ InHandsOf(Workers)' = InHandsOf(Workers)
          /\ InHandsOf(Controllers)' = InHandsOf(Controllers)
      <3>1. t \notin Workers /\ t \notin Controllers
        BY <1>1, <1>3 DEF Takes, Offers
      <3>2. UNCHANGED holds \/ \E x : holds' = [holds EXCEPT ![t] = x]
        BY <1>3 DEF Takes, Offers
      <3>3. CASE UNCHANGED holds
        BY <3>3 DEF InHandsOf
      <3>4. QED
        BY <1>1, <3>1, <3>2, <3>3, HandsChange
    <2>2. UNCHANGED <<is_closed, result>>
      BY <1>3 DEF Takes, Offers, jobs
    <2>3. CASE UNCHANGED qp
      BY <2>1, <2>2, <2>3 DEF Abstract!vars
    <2>4. CASE Offers(t) /\ ~is_closed /\ qp' = Append(qp, holds[t])
      <3>1. /\ holds[t] \in Jobs /\ holds[t] # NULL
            /\ job_state[holds[t]] \in {"none", "CREATED"}
        BY <1>1, <2>4 DEF Offers, JobsTyped, StatesFit
      <3>2. \A i \in DOMAIN qp : qp[i] # holds[t]
        BY <1>1 DEF OnePlace
      <3>3. holds[t] \notin InHandsOf(Workers) \cup InHandsOf(Controllers)
        <4>1. \A u \in Threads : holds[u] = holds[t] => u = t
          BY <1>1, <3>1 DEF OnePlace
        <4>2. t \notin Workers /\ t \notin Controllers
          BY <1>1, <2>4 DEF Offers
        <4>3. QED
          BY <1>1, <4>1, <4>2 DEF InHandsOf
      <3>4. result[holds[t]] = "unset"
        BY <1>1, <3>1 DEF StatesFit
      <3>5. Abstract!Accept(holds[t])
        BY <2>1, <2>2, <2>4, <3>2, <3>3, <3>4 DEF Abstract!Accept, Abstract!New
      <3>6. QED
        BY <3>1, <3>5 DEF Abstract!Next
    <2>5. QED
      BY <1>3, <2>3, <2>4 DEF Takes, Offers
  <1>4. CASE Pops(t)
    <2>1. /\ holds[t] = NULL /\ qp # <<>> /\ Head(qp) # NULL
          /\ holds' = [holds EXCEPT ![t] = Head(qp)]
          /\ qp' = Tail(qp) /\ UNCHANGED <<is_closed, result>>
      BY <1>1, <1>4 DEF Pops, jobs
    <2>2. CASE t \in Workers /\ stage[t] = "dequeuing"
      <3>1. /\ InHandsOf(Workers)' = InHandsOf(Workers) \cup {Head(qp)}
            /\ InHandsOf(Controllers)' = InHandsOf(Controllers)
        BY <1>1, <2>1, <2>2, HandsChange
      <3>2. Abstract!TakeToExecute
        BY <2>1, <2>2, <3>1, RoomToExecute, SameServiceSets DEF Abstract!TakeToExecute
      <3>3. QED
        BY <3>2 DEF Abstract!Next
    <2>3. CASE t \in Controllers /\ is_closed
      <3>1. /\ InHandsOf(Controllers)' = InHandsOf(Controllers) \cup {Head(qp)}
            /\ InHandsOf(Workers)' = InHandsOf(Workers)
        BY <1>1, <2>1, <2>3, HandsChange
      <3>2. Abstract!TakeToCancel
        BY <2>1, <2>3, <3>1 DEF Abstract!TakeToCancel
      <3>3. QED
        BY <3>2 DEF Abstract!Next
    <2>4. QED
      BY <1>4, <2>2, <2>3 DEF Pops
  <1>5. CASE \E state, output : Settles(t, state, output)
    <2>1. /\ holds[t] \in Jobs /\ holds[t] # NULL /\ holds' = [holds EXCEPT ![t] = NULL]
          /\ UNCHANGED <<qp, is_closed>>
          /\ \/ t \in Workers /\ result' = [result EXCEPT ![holds[t]] = "output"]
             \/ t \in Controllers /\ result' = [result EXCEPT ![holds[t]] = "null"]
      BY <1>1, <1>5 DEF Settles, JobsTyped
    <2>2. CASE t \in Workers /\ result' = [result EXCEPT ![holds[t]] = "output"]
      <3>1. /\ InHandsOf(Workers)' = InHandsOf(Workers) \ {holds[t]}
            /\ InHandsOf(Controllers)' = InHandsOf(Controllers)
            /\ holds[t] \in InHandsOf(Workers)
        BY <1>1, <2>1, <2>2, HandsChange DEF InHandsOf
      <3>2. Abstract!Execute(holds[t])
        BY <2>1, <2>2, <3>1 DEF Abstract!Execute
      <3>3. QED
        BY <2>1, <3>2 DEF Abstract!Next
    <2>3. CASE t \in Controllers /\ result' = [result EXCEPT ![holds[t]] = "null"]
      <3>1. /\ InHandsOf(Controllers)' = InHandsOf(Controllers) \ {holds[t]}
            /\ InHandsOf(Workers)' = InHandsOf(Workers)
            /\ holds[t] \in InHandsOf(Controllers)
        BY <1>1, <2>1, <2>3, HandsChange DEF InHandsOf
      <3>2. Abstract!Cancel(holds[t])
        BY <2>1, <2>3, <3>1 DEF Abstract!Cancel
      <3>3. QED
        BY <2>1, <3>2 DEF Abstract!Next
    <2>4. QED
      BY <2>1, <2>2, <2>3
  <1>6. QED
    BY <1>2, <1>3, <1>4, <1>5 DEF JobStep

(* Whatever the threads, the type, the limit, the capacity and the         *)
(* failures, an executor is a JobService to those who submit jobs.         *)
THEOREM Refinement == Spec => ImplementsJobService
  <1>1. Init => Abstract!Init
    BY RefineInit
  <1>2. IInv /\ [Next]_vars => [Abstract!Next]_(Abstract!vars)
    <2>1. SUFFICES ASSUME IInv, [Next]_vars
                   PROVE  [Abstract!Next]_(Abstract!vars)
      OBVIOUS
    <2>2. CASE UNCHANGED vars
      BY <2>2 DEF vars, queue, jobs, Abstract!vars, InHandsOf
    <2>3. CASE \E t \in Threads : JobStep(t)
      <3>1. CountInv /\ OwnershipInv /\ qp \in Seq(Jobs)
        BY <2>1, QueueTypes DEF IInv
      <3>2. QED
        BY <2>3, <3>1, RefineJobStep
    <2>4. QED
      BY <2>1, <2>2, <2>3, OnJobs
  <1>3. QED
    BY <1>1, <1>2, Inductive, PTL DEF Spec, Abstract!Spec, ImplementsJobService
=============================================================================
