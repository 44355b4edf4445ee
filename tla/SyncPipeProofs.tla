---------------------------- MODULE SyncPipeProofs ----------------------------
(* Proofs about SyncPipe, for every set of threads, of data and of sizes.  *)
EXTENDS SyncPipe, SequenceTheorems, TLAPS

IInv == TypeOK /\ SleepersHaveAReason

-----------------------------------------------------------------------------
(* What a write of d leaves: k bytes of it in a pipe of capacity c.  None  *)
(* at all means none asked for, or a failed expansion of a full buffer.    *)
Wrote(t, d, c, k) ==
    /\ c \in Nat /\ k \in 0 .. Len(d)
    /\ Len(pyp) + k <= c /\ c <= max_capacity
    /\ k = 0 /\ Len(d) > 0 => MayFail /\ c = Len(pyp) /\ c < max_capacity
    /\ capacity' = c
    /\ pyp' = pyp \o SubSeq(d, 1, k)
    /\ pyp' \in Seq(Bytes) /\ Len(pyp') = Len(pyp) + k
    /\ SubSeq(d, 1, k) = <<>> <=> k = 0
    /\ \E p \in IF k > 0 THEN WakeReaders ELSE {pc} : Return(t, "write", Len(d), SubSeq(d, 1, k), p)

LEMMA WriteEffect ==
  ASSUME TypeOK, NEW t \in Threads, NEW d \in Data, FinishWrite(t, d), ~is_closed, ~WriteMustWait
  PROVE  /\ \E c, k : Wrote(t, d, c, k)
         /\ UNCHANGED <<max_capacity, is_closed>>
  <1>1. PICK c \in CapacitiesForWrite(Len(d)) :
           LET written == SubSeq(d, 1, Lesser(Len(d), c - Len(pyp)))
           IN  /\ capacity' = c
               /\ pyp' = pyp \o written
               /\ \E p \in IF written # <<>> THEN WakeReaders ELSE {pc} :
                     Return(t, "write", Len(d), written, p)
    BY DEF FinishWrite
  <1> DEFINE k == Lesser(Len(d), c - Len(pyp))
  <1>2. /\ pyp \in Seq(Bytes) /\ d \in Seq(Bytes) /\ Len(pyp) \in Nat /\ Len(d) \in Nat
        /\ capacity \in Nat /\ max_capacity \in Nat
        /\ Len(pyp) <= capacity /\ capacity <= max_capacity
    BY PipeAssumption DEF TypeOK
  <1>3. \/ c = capacity /\ (capacity < max_capacity => capacity - Len(pyp) >= Len(d))
        \/ MayFail /\ c = capacity /\ capacity < max_capacity
        \/ capacity < max_capacity /\ c = Lesser(max_capacity, 2 * Len(pyp) + 2 * Len(d))
             /\ capacity - Len(pyp) < Len(d)
    BY <1>2 DEF CapacitiesForWrite, resize_dpipe
  <1>4. Len(pyp) < capacity \/ capacity < max_capacity
    BY <1>2 DEF WriteMustWait, is_full_dpipe
  <1>5. c \in Nat /\ Len(pyp) <= c /\ c <= max_capacity
    BY <1>2, <1>3 DEF Lesser
  <1>6. k \in 0 .. Len(d) /\ Len(pyp) + k <= c
    BY <1>2, <1>5 DEF Lesser
  <1>7. k = 0 /\ Len(d) > 0 => MayFail /\ c = Len(pyp) /\ c < max_capacity
    BY <1>2, <1>3, <1>4, <1>5 DEF Lesser
  <1>8. /\ SubSeq(d, 1, k) \in Seq(Bytes) /\ Len(SubSeq(d, 1, k)) = k
    BY <1>2, <1>6, SubSeqProperties, ElementOfSeq
  <1>9. /\ pyp \o SubSeq(d, 1, k) \in Seq(Bytes)
        /\ Len(pyp \o SubSeq(d, 1, k)) = Len(pyp) + k
    BY <1>2, <1>8, ConcatProperties
  <1>10. SubSeq(d, 1, k) = <<>> <=> k = 0
    BY <1>6, <1>8, EmptySeq
  <1>11. /\ capacity' = c /\ pyp' = pyp \o SubSeq(d, 1, k)
         /\ \E p \in IF SubSeq(d, 1, k) # <<>> THEN WakeReaders ELSE {pc} :
               Return(t, "write", Len(d), SubSeq(d, 1, k), p)
    BY <1>1
  <1>12. SubSeq(d, 1, k) # <<>> <=> k > 0
    BY <1>6, <1>10
  <1>13. UNCHANGED <<max_capacity, is_closed>>
    BY DEF FinishWrite
  <1> HIDE DEF k
  <1>14. Wrote(t, d, c, k)
    BY <1>5, <1>6, <1>7, <1>9, <1>10, <1>11, <1>12 DEF Wrote
  <1> QED
    BY <1>13, <1>14

(* What a read of size leaves: n bytes fewer.                              *)
TookOut(t, size, n) ==
    /\ n \in 0 .. Len(pyp) /\ n = Lesser(size, Len(pyp))
    /\ pyp' = SubSeq(pyp, n + 1, Len(pyp))
    /\ pyp' \in Seq(Bytes) /\ Len(pyp') = Len(pyp) - n
    /\ n = 0 => pyp' = pyp /\ (Len(pyp) = capacity => capacity' = capacity)
    /\ capacity' \in Nat /\ Len(pyp') <= capacity' /\ capacity' <= max_capacity
    /\ \E p \in IF ~is_closed /\ n > 0 THEN WakeWriters ELSE {pc} :
          Return(t, "read", size, SubSeq(pyp, 1, n), p)

LEMMA ReadEffect ==
  ASSUME TypeOK, NEW t \in Threads, NEW size \in Sizes, FinishRead(t, size)
  PROVE  /\ \E n : TookOut(t, size, n)
         /\ UNCHANGED <<max_capacity, is_closed>>
  <1> DEFINE n == Lesser(size, Len(pyp))
  <1>1. /\ pyp \in Seq(Bytes) /\ Len(pyp) \in Nat /\ size \in Nat
        /\ capacity \in Nat /\ max_capacity \in Nat
        /\ Len(pyp) <= capacity /\ capacity <= max_capacity
    BY PipeAssumption DEF TypeOK
  <1>2. n \in 0 .. Len(pyp)
    BY <1>1 DEF Lesser
  <1>3. /\ pyp' = SubSeq(pyp, n + 1, Len(pyp))
        /\ capacity' \in CapacitiesAfterRead(Len(pyp) - n)
        /\ UNCHANGED <<max_capacity, is_closed>>
        /\ \E p \in IF ~is_closed /\ n > 0 THEN WakeWriters ELSE {pc} :
              Return(t, "read", size, SubSeq(pyp, 1, n), p)
    BY DEF FinishRead
  <1> HIDE DEF n
  <1>4. /\ SubSeq(pyp, n + 1, Len(pyp)) \in Seq(Bytes)
        /\ Len(SubSeq(pyp, n + 1, Len(pyp))) = Len(pyp) - n
        /\ \A i \in 1 .. Len(pyp) - n : SubSeq(pyp, n + 1, Len(pyp))[i] = pyp[n + i]
    <2>1. n + 1 \in Int /\ Len(pyp) \in Int /\ \A i \in n + 1 .. Len(pyp) : pyp[i] \in Bytes
      BY <1>1, <1>2, ElementOfSeq
    <2>2. /\ SubSeq(pyp, n + 1, Len(pyp)) \in Seq(Bytes)
          /\ Len(SubSeq(pyp, n + 1, Len(pyp))) = IF n + 1 <= Len(pyp) THEN Len(pyp) - (n + 1) + 1 ELSE 0
          /\ \A i \in 1 .. Len(pyp) - (n + 1) + 1 :
                SubSeq(pyp, n + 1, Len(pyp))[i] = pyp[(n + 1) + i - 1]
      BY <2>1, SubSeqProperties
    <2>4. Len(SubSeq(pyp, n + 1, Len(pyp))) = Len(pyp) - n
      BY <1>1, <1>2, <2>2
    <2>5. ASSUME NEW i \in 1 .. Len(pyp) - n PROVE SubSeq(pyp, n + 1, Len(pyp))[i] = pyp[n + i]
      <3>1. i \in 1 .. Len(pyp) - (n + 1) + 1
        BY <1>1, <1>2
      <3>2. SubSeq(pyp, n + 1, Len(pyp))[i] = pyp[(n + 1) + i - 1]
        BY <2>2, <3>1
      <3>3. (n + 1) + i - 1 = n + i
        BY <1>2
      <3> QED
        BY <3>2, <3>3
    <2> QED
      BY <2>2, <2>4, <2>5
  <1>5. n = 0 => pyp' = pyp
    <2>1. ASSUME n = 0 PROVE \A i \in 1 .. Len(pyp) : SubSeq(pyp, n + 1, Len(pyp))[i] = pyp[i]
      BY <1>1, <1>4, <2>1
    <2> QED
      BY <1>1, <1>3, <1>4, <2>1, SeqEqual
  <1>6. \/ capacity' = capacity
        \/ capacity' = Len(pyp) - n /\ capacity > 3 * (Len(pyp) - n)
    BY <1>3 DEF CapacitiesAfterRead, resize_dpipe
  <1>7. /\ n = 0 /\ Len(pyp) = capacity => capacity' = capacity
        /\ capacity' \in Nat /\ Len(pyp) - n <= capacity' /\ capacity' <= max_capacity
    BY <1>1, <1>2, <1>6
  <1>8. TookOut(t, size, n)
    BY <1>2, <1>3, <1>4, <1>5, <1>7 DEF TookOut, n
  <1> QED
    BY <1>3, <1>8

-----------------------------------------------------------------------------
(* Where the threads are when a call returns.                              *)
LEMMA ReturnTyped ==
  ASSUME TypeOK, NEW t \in Threads, NEW op, NEW asked, NEW ret,
         NEW p \in {pc} \cup WakeReaders \cup WakeWriters, Return(t, op, asked, ret, p)
  PROVE  /\ pc' \in [Threads -> Places]
         /\ data' \in [Threads -> Data \cup {<<>>}]
         /\ data_size' \in [Threads -> Sizes \cup {0}]
         /\ \A u \in (At("write_asleep") \cup At("write_woken"))' : data'[u] \in Data
         /\ \A u \in (At("read_asleep") \cup At("read_woken"))' : data_size'[u] \in Sizes
         /\ At("write_asleep")' \subseteq At("write_asleep")
         /\ At("read_asleep")' \subseteq At("read_asleep")
         /\ p \in WakeReaders => At("read_asleep")' = {}
         /\ p \in WakeWriters => At("write_asleep")' = {}
  <1>1. /\ pc \in [Threads -> Places] /\ data \in [Threads -> Data \cup {<<>>}]
        /\ data_size \in [Threads -> Sizes \cup {0}]
        /\ \A u \in Threads : pc[u] \in {"write_asleep", "write_woken"} => data[u] \in Data
        /\ \A u \in Threads : pc[u] \in {"read_asleep", "read_woken"} => data_size[u] \in Sizes
    BY DEF TypeOK, At
  <1>2. /\ p \in [Threads -> Places]
        /\ \A u \in Threads :
              /\ p[u] \in {"write_asleep", "write_woken"} => pc[u] \in {"write_asleep", "write_woken"}
              /\ p[u] \in {"read_asleep", "read_woken"} => pc[u] \in {"read_asleep", "read_woken"}
              /\ p[u] \in {"write_asleep", "read_asleep"} => p[u] = pc[u]
              /\ p \in WakeReaders => p[u] # "read_asleep"
              /\ p \in WakeWriters => p[u] # "write_asleep"
    BY <1>1 DEF WakeReaders, WakeWriters, Broadcast, Places
  <1>3. /\ pc' = [p EXCEPT ![t] = "idle"]
        /\ data' = [data EXCEPT ![t] = <<>>] /\ data_size' = [data_size EXCEPT ![t] = 0]
    BY DEF Return
  <1>4. \A u \in Threads : /\ u # t => pc'[u] = p[u] /\ data'[u] = data[u] /\ data_size'[u] = data_size[u]
                           /\ pc'[t] = "idle"
    BY <1>1, <1>2, <1>3
  <1>5. pc' \in [Threads -> Places]
    BY <1>2, <1>3 DEF Places
  <1>6. data' \in [Threads -> Data \cup {<<>>}] /\ data_size' \in [Threads -> Sizes \cup {0}]
    BY <1>1, <1>3
  <1>7. \A u \in (At("write_asleep") \cup At("write_woken"))' : data'[u] \in Data
    BY <1>1, <1>2, <1>4 DEF At
  <1>8. \A u \in (At("read_asleep") \cup At("read_woken"))' : data_size'[u] \in Sizes
    BY <1>1, <1>2, <1>4 DEF At
  <1>9. /\ At("write_asleep")' \subseteq At("write_asleep")
        /\ At("read_asleep")' \subseteq At("read_asleep")
        /\ p \in WakeReaders => At("read_asleep")' = {}
        /\ p \in WakeWriters => At("write_asleep")' = {}
    BY <1>2, <1>4 DEF At
  <1> QED
    BY <1>5, <1>6, <1>7, <1>8, <1>9

(* Whoever goes to sleep has the reason that he tested.                    *)
LEMMA SleepKeeps ==
  ASSUME IInv, NEW t \in Threads, NEW where, NEW d \in Data \cup {<<>>}, NEW size \in Sizes \cup {0},
         Sleep(t, where, d, size),
         \/ where = "write_asleep" /\ d \in Data /\ WriteMustWait
         \/ where = "read_asleep" /\ size \in Sizes /\ ReadMustWait
  PROVE  IInv'
  <1>1. /\ UNCHANGED <<pyp, capacity, max_capacity, is_closed>>
        /\ pc' = [pc EXCEPT ![t] = where]
        /\ data' = [data EXCEPT ![t] = d] /\ data_size' = [data_size EXCEPT ![t] = size]
    BY DEF Sleep, state
  <1>2. TypeOK'
    BY <1>1 DEF IInv, TypeOK, At, Places
  <1>3. SleepersHaveAReason'
    BY <1>1 DEF IInv, TypeOK, SleepersHaveAReason, At, WriteMustWait, ReadMustWait, is_full_dpipe
  <1> QED
    BY <1>2, <1>3 DEF IInv

LEMMA WriteKeeps ==
  ASSUME IInv, NEW t \in Threads, NEW d \in Data, ~WriteMustWait, FinishWrite(t, d)
  PROVE  IInv'
  <1>1. CASE is_closed
    <2>1. /\ Return(t, "write", Len(d), <<>>, pc)
          /\ UNCHANGED <<pyp, capacity, max_capacity, is_closed>>
      BY <1>1 DEF FinishWrite, state
    <2>2. TypeOK'
      BY <2>1, ReturnTyped DEF IInv, TypeOK
    <2>3. At("write_asleep")' = {} /\ At("read_asleep")' = {}
      BY <1>1, <2>1, ReturnTyped DEF IInv, SleepersHaveAReason, WriteMustWait, ReadMustWait
    <2> QED
      BY <2>2, <2>3 DEF IInv, SleepersHaveAReason
  <1>2. CASE ~is_closed
    <2>1. PICK c, k : Wrote(t, d, c, k)
      BY <1>2, WriteEffect DEF IInv
    <2>2. UNCHANGED <<max_capacity, is_closed>>
      BY <1>2, WriteEffect DEF IInv
    <2>3. PICK p \in IF k > 0 THEN WakeReaders ELSE {pc} :
             Return(t, "write", Len(d), SubSeq(d, 1, k), p)
      BY <2>1 DEF Wrote
    <2>4. p \in {pc} \cup WakeReaders \cup WakeWriters
      BY <2>3
    <2>5. /\ c \in Nat /\ k \in 0 .. Len(d) /\ capacity' = c /\ c <= max_capacity
          /\ pyp' \in Seq(Bytes) /\ Len(pyp') <= c
          /\ pyp' = pyp \o SubSeq(d, 1, k) /\ (SubSeq(d, 1, k) = <<>> <=> k = 0)
      BY <2>1 DEF Wrote
    <2>6. TypeOK'
      BY <2>2, <2>3, <2>4, <2>5, ReturnTyped DEF IInv, TypeOK
    <2>7. At("write_asleep")' = {}
      BY <2>3, <2>4, ReturnTyped DEF IInv, SleepersHaveAReason
    <2>8. At("read_asleep")' # {} => ReadMustWait'
      <3>1. CASE k > 0
        BY <2>3, <2>4, <3>1, ReturnTyped DEF IInv
      <3>2. CASE k = 0
        <4>1. pyp' = pyp
          BY <2>5, <3>2, ConcatEmptySeq DEF IInv, TypeOK
        <4>2. At("read_asleep")' \subseteq At("read_asleep")
          BY <2>3, <2>4, ReturnTyped DEF IInv
        <4> QED
          BY <2>2, <4>1, <4>2 DEF IInv, SleepersHaveAReason, ReadMustWait
      <3> QED
        BY <2>5, <3>1, <3>2
    <2> QED
      BY <2>6, <2>7, <2>8 DEF IInv, SleepersHaveAReason
  <1> QED
    BY <1>1, <1>2

LEMMA ReadKeeps ==
  ASSUME IInv, NEW t \in Threads, NEW size \in Sizes, ~ReadMustWait, FinishRead(t, size)
  PROVE  IInv'
  <1>1. PICK n : TookOut(t, size, n)
    BY ReadEffect DEF IInv
  <1>2. UNCHANGED <<max_capacity, is_closed>>
    BY ReadEffect DEF IInv
  <1>3. PICK p \in IF ~is_closed /\ n > 0 THEN WakeWriters ELSE {pc} :
           Return(t, "read", size, SubSeq(pyp, 1, n), p)
    BY <1>1 DEF TookOut
  <1>4. p \in {pc} \cup WakeReaders \cup WakeWriters
    BY <1>3
  <1>5. /\ capacity' \in Nat /\ capacity' <= max_capacity /\ n \in 0 .. Len(pyp)
        /\ pyp' \in Seq(Bytes) /\ Len(pyp') <= capacity'
        /\ n = 0 => pyp' = pyp /\ (Len(pyp) = capacity => capacity' = capacity)
    BY <1>1 DEF TookOut
  <1>6. TypeOK'
    BY <1>2, <1>3, <1>4, <1>5, ReturnTyped DEF IInv, TypeOK
  <1>7. At("read_asleep")' = {}
    BY <1>3, <1>4, ReturnTyped DEF IInv, SleepersHaveAReason
  <1>8. At("write_asleep")' # {} => WriteMustWait'
    <2>1. CASE ~is_closed /\ n > 0
      BY <1>3, <1>4, <2>1, ReturnTyped DEF IInv
    <2>2. CASE is_closed \/ n = 0
      <3>1. At("write_asleep")' \subseteq At("write_asleep")
        BY <1>3, <1>4, ReturnTyped DEF IInv
      <3>2. ASSUME At("write_asleep")' # {} PROVE WriteMustWait'
        <4>1. ~is_closed /\ is_full_dpipe /\ capacity = max_capacity /\ n = 0
          BY <2>2, <3>1, <3>2 DEF IInv, SleepersHaveAReason, WriteMustWait
        <4>2. Len(pyp) = capacity
          BY <4>1 DEF IInv, TypeOK, is_full_dpipe
        <4> QED
          BY <1>2, <1>5, <4>1, <4>2 DEF WriteMustWait, is_full_dpipe
      <3> QED
        BY <3>2
    <2> QED
      BY <1>5, <2>1, <2>2 DEF IInv, TypeOK
  <1> QED
    BY <1>6, <1>7, <1>8 DEF IInv, SleepersHaveAReason

(* Sleepers leave their condition variables, nothing else changes.         *)
LEMMA WakeKeeps ==
  ASSUME IInv, UNCHANGED <<pyp, capacity, max_capacity, data, data_size>>,
         pc' \in [Threads -> Places],
         \A u \in Threads :
            \/ pc'[u] = pc[u]
            \/ pc[u] = "write_asleep" /\ pc'[u] = "write_woken"
            \/ pc[u] = "read_asleep" /\ pc'[u] = "read_woken",
         \/ is_closed' = is_closed
         \/ is_closed' = TRUE /\ \A u \in Threads : pc'[u] \notin {"write_asleep", "read_asleep"}
  PROVE  IInv'
  <1>1. TypeOK'
    BY DEF IInv, TypeOK, At
  <1>2. SleepersHaveAReason'
    BY DEF IInv, SleepersHaveAReason, At, WriteMustWait, ReadMustWait, is_full_dpipe
  <1> QED
    BY <1>1, <1>2 DEF IInv

-----------------------------------------------------------------------------
LEMMA InitInv == Init => IInv
  <1> SUFFICES ASSUME Init PROVE IInv
    OBVIOUS
  <1>1. TypeOK
    <2>1. /\ pyp \in Seq(Bytes) /\ Len(pyp) = 0 /\ capacity = 0
          /\ max_capacity \in MaxCapacities /\ max_capacity \in Nat
      BY PipeAssumption, EmptySeq DEF Init
    <2>2. At("write_asleep") \cup At("write_woken") \cup At("read_asleep") \cup At("read_woken") = {}
      BY DEF Init, At
    <2> QED
      <3>1. /\ pc \in [Threads -> Places] /\ data \in [Threads -> Data \cup {<<>>}]
            /\ data_size \in [Threads -> Sizes \cup {0}] /\ is_closed \in BOOLEAN
        BY DEF Init, Places
      <3> QED
        BY <2>1, <2>2, <3>1 DEF TypeOK
  <1>2. SleepersHaveAReason
    BY DEF Init, SleepersHaveAReason, At
  <1> QED
    BY <1>1, <1>2 DEF IInv

LEMMA NextInv == IInv /\ [Next]_vars => IInv'
  <1> SUFFICES ASSUME IInv, [Next]_vars PROVE IInv'
    OBVIOUS
  <1>1. ASSUME NEW t \in Threads, NEW d \in Data, write_to_sync_pipe(t, d) PROVE IInv'
    BY <1>1, SleepKeeps, WriteKeeps DEF write_to_sync_pipe
  <1>2. ASSUME NEW t \in Threads, resume_write(t) PROVE IInv'
    <2>1. data[t] \in Data
      BY <1>2 DEF resume_write, IInv, TypeOK, At
    <2> QED
      BY <1>2, <2>1, SleepKeeps, WriteKeeps DEF resume_write
  <1>3. ASSUME NEW t \in Threads, NEW size \in Sizes, read_from_sync_pipe(t, size) PROVE IInv'
    BY <1>3, SleepKeeps, ReadKeeps DEF read_from_sync_pipe
  <1>4. ASSUME NEW t \in Threads, resume_read(t) PROVE IInv'
    <2>1. data_size[t] \in Sizes
      BY <1>4 DEF resume_read, IInv, TypeOK, At
    <2> QED
      BY <1>4, <2>1, SleepKeeps, ReadKeeps DEF resume_read
  <1>5. ASSUME NEW t \in Threads, SpuriousWakeup(t) PROVE IInv'
    <2>1. pc \in [Threads -> Places]
      BY DEF IInv, TypeOK
    <2>2. /\ pc' \in [Threads -> Places]
          /\ \A u \in Threads : \/ pc'[u] = pc[u]
                                \/ pc[u] = "write_asleep" /\ pc'[u] = "write_woken"
                                \/ pc[u] = "read_asleep" /\ pc'[u] = "read_woken"
      BY <1>5, <2>1 DEF SpuriousWakeup, Places
    <2>3. UNCHANGED <<pyp, capacity, max_capacity, is_closed, data, data_size>>
      BY <1>5 DEF SpuriousWakeup, state
    <2> QED
      BY <2>2, <2>3, WakeKeeps
  <1>6. CASE close_sync_pipe
    <2>1. pc \in [Threads -> Places]
      BY DEF IInv, TypeOK
    <2>2. /\ pc' \in [Threads -> Places]
          /\ \A u \in Threads : /\ \/ pc'[u] = pc[u]
                                   \/ pc[u] = "write_asleep" /\ pc'[u] = "write_woken"
                                   \/ pc[u] = "read_asleep" /\ pc'[u] = "read_woken"
                                /\ pc'[u] \notin {"write_asleep", "read_asleep"}
      BY <1>6, <2>1 DEF close_sync_pipe, Broadcast, Places
    <2> QED
      BY <1>6, <2>2, WakeKeeps DEF close_sync_pipe
  <1>7. CASE UNCHANGED vars
    BY <1>7 DEF vars, state, IInv, TypeOK, SleepersHaveAReason, At, WriteMustWait, ReadMustWait,
                is_full_dpipe
  <1> QED
    BY <1>1, <1>2, <1>3, <1>4, <1>5, <1>6, <1>7 DEF Next

(* Every variable has its type, and the pipe never holds more bytes than   *)
(* it has memory for, nor takes memory beyond max_capacity.                *)
THEOREM TypeCorrect == Spec => []TypeOK
  <1>1. IInv => TypeOK
    BY DEF IInv
  <1> QED
    BY <1>1, InitInv, NextInv, PTL DEF Spec

(* No reader or writer is left asleep over something it could do.          *)
THEOREM NobodyStranded == Spec => []SleepersHaveAReason
  <1>1. IInv => SleepersHaveAReason
    BY DEF IInv
  <1> QED
    BY <1>1, InitInv, NextInv, PTL DEF Spec

-----------------------------------------------------------------------------
(* Every critical section that ends a call is that call of the stream.     *)
LEMMA RefineWrite ==
  ASSUME TypeOK, NEW t \in Threads, NEW d \in Data, ~WriteMustWait, FinishWrite(t, d)
  PROVE  /\ Abstract!WriteRefused(t, d) \/ \E n \in 0 .. Len(d) : Abstract!Write(t, d, n)
         /\ Len(d) > 0 /\ event'.ret = <<>> =>
               is_closed \/ (MayFail /\ capacity' = Len(pyp') /\ capacity' < max_capacity)
  <1>1. CASE is_closed
    BY <1>1 DEF FinishWrite, Return, state, Abstract!WriteRefused, Abstract!Returns
  <1>2. CASE ~is_closed
    <2>1. PICK c, k : Wrote(t, d, c, k)
      BY <1>2, WriteEffect
    <2>2. UNCHANGED <<max_capacity, is_closed>>
      BY <1>2, WriteEffect
    <2>3. event' = [by |-> t, op |-> "write", asked |-> Len(d), ret |-> SubSeq(d, 1, k)]
      BY <2>1 DEF Wrote, Return
    <2>4. /\ d \in Seq(Bytes) /\ (Len(d) = 0 <=> d = <<>>) /\ Len(d) \in Nat
          /\ Len(pyp) \in Nat /\ max_capacity \in Nat
      BY PipeAssumption, EmptySeq DEF TypeOK
    <2>5. /\ k \in 0 .. Len(d) /\ Len(pyp) + k <= max_capacity
          /\ k = 0 => d = <<>> \/ MayFail
          /\ pyp' = pyp \o SubSeq(d, 1, k)
      BY <2>1, <2>4 DEF Wrote
    <2>6. Abstract!Write(t, d, k)
      BY <1>2, <2>2, <2>3, <2>5 DEF Abstract!Write, Abstract!Returns
    <2>7. Len(d) > 0 /\ event'.ret = <<>> => MayFail /\ capacity' = Len(pyp') /\ capacity' < max_capacity
      <3>1. event'.ret = SubSeq(d, 1, k)
        BY <2>3
      <3>2. /\ SubSeq(d, 1, k) = <<>> => k = 0
            /\ k = 0 /\ Len(d) > 0 => MayFail /\ c = Len(pyp) /\ c < max_capacity
            /\ capacity' = c /\ Len(pyp') = Len(pyp) + k
        BY <2>1 DEF Wrote
      <3> QED
        <4>1. ASSUME Len(d) > 0, event'.ret = <<>>
              PROVE  MayFail /\ capacity' = Len(pyp') /\ capacity' < max_capacity
          <5>1. k = 0
            BY <3>1, <3>2, <4>1
          <5>2. Len(pyp') = Len(pyp)
            BY <2>4, <3>2, <5>1
          <5> QED
            BY <3>2, <4>1, <5>1, <5>2
        <4> QED
          BY <4>1
    <2> QED
      BY <2>5, <2>6, <2>7
  <1> QED
    BY <1>1, <1>2

LEMMA RefineRead ==
  ASSUME TypeOK, NEW t \in Threads, NEW size \in Sizes, ~ReadMustWait, FinishRead(t, size)
  PROVE  Abstract!Read(t, size) /\ event'.op = "read"
  BY DEF FinishRead, ReadMustWait, Return, Lesser, Abstract!Read, Abstract!Returns

(* What every step does to the callers' view, and what a write returns.    *)
ZeroHasAReason ==
    event'.op = "write" /\ event'.asked > 0 /\ event'.ret = <<>> =>
        is_closed \/ (MayFail /\ capacity' = Len(pyp') /\ capacity' < max_capacity)

LEMMA StepSeen ==
  ASSUME TypeOK, [Next]_vars
  PROVE  /\ [Abstract!Next]_(Abstract!vars)
         /\ event' # event => ZeroHasAReason
  <1>1. ASSUME NEW t \in Threads, NEW d \in Data, ~WriteMustWait, FinishWrite(t, d)
        PROVE  Abstract!Next /\ ZeroHasAReason
    <2>1. event'.asked = Len(d)
      BY <1>1 DEF FinishWrite, Return
    <2> QED
      BY <1>1, <2>1, RefineWrite DEF Abstract!Next, ZeroHasAReason
  <1>2. ASSUME NEW t \in Threads, NEW size \in Sizes, ~ReadMustWait, FinishRead(t, size)
        PROVE  Abstract!Next /\ ZeroHasAReason
    BY <1>2, RefineRead DEF Abstract!Next, ZeroHasAReason
  <1>3. ASSUME NEW t \in Threads, NEW d \in Data, write_to_sync_pipe(t, d)
        PROVE  (Abstract!Next /\ ZeroHasAReason) \/ UNCHANGED <<state, event>>
    BY <1>1, <1>3 DEF write_to_sync_pipe, Sleep
  <1>4. ASSUME NEW t \in Threads, resume_write(t)
        PROVE  (Abstract!Next /\ ZeroHasAReason) \/ UNCHANGED <<state, event>>
    BY <1>1, <1>4 DEF resume_write, Sleep, TypeOK, At
  <1>5. ASSUME NEW t \in Threads, NEW size \in Sizes, read_from_sync_pipe(t, size)
        PROVE  (Abstract!Next /\ ZeroHasAReason) \/ UNCHANGED <<state, event>>
    BY <1>2, <1>5 DEF read_from_sync_pipe, Sleep
  <1>6. ASSUME NEW t \in Threads, resume_read(t)
        PROVE  (Abstract!Next /\ ZeroHasAReason) \/ UNCHANGED <<state, event>>
    BY <1>2, <1>6 DEF resume_read, Sleep, TypeOK, At
  <1>7. ASSUME NEW t \in Threads, SpuriousWakeup(t)
        PROVE  UNCHANGED <<state, event>>
    BY <1>7 DEF SpuriousWakeup
  <1>8. CASE close_sync_pipe
    BY <1>8 DEF close_sync_pipe, Abstract!Next, Abstract!Close
  <1>9. CASE UNCHANGED vars
    BY <1>9 DEF vars, state, Abstract!vars
  <1> QED
    BY <1>3, <1>4, <1>5, <1>6, <1>7, <1>8, <1>9 DEF Next, state, Abstract!vars

(* The pipe implements the stream of bytes.                                *)
THEOREM Refinement == Spec => ImplementsByteStream
  <1>1. Init => Abstract!Init
    BY PipeAssumption DEF Init, Abstract!Init
  <1>2. TypeOK /\ [Next]_vars => [Abstract!Next]_(Abstract!vars)
    BY StepSeen
  <1> QED
    BY <1>1, <1>2, TypeCorrect, PTL DEF Spec, Abstract!Spec, ImplementsByteStream

(* A write that returns 0 has found the pipe closed, or its memory failed. *)
THEOREM ZeroIsAnAnswer == Spec => ZeroMeansClosedOrFailed
  <1>1. TypeOK /\ [Next]_vars => [ZeroHasAReason]_event
    BY StepSeen
  <1> QED
    BY <1>1, TypeCorrect, PTL DEF Spec, ZeroMeansClosedOrFailed, ZeroHasAReason
==============================================================================
