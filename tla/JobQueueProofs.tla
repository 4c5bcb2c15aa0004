--------------------------- MODULE JobQueueProofs ---------------------------
(***************************************************************************)
(* Proofs about JobQueue for every number of threads, pool size, depth and *)
(* set of failing primitives.                                              *)
(***************************************************************************)
EXTENDS JobQueue, FiniteSetTheorems, TLAPS

(* The ring buffer's write position is count slots past its read position. *)
RingAligned == tail = (head + count) % Depth

(* A job that is not enqueued yet has the one reference alloc gave it.     *)
FilledOnce == \A t \in Threads : pc[t] = "filled" => refcnt[job[t]] = 1

(* deinit goes on to destroy only a closed, empty queue.                   *)
DismantleEmpty ==
  \A t \in Threads : pc[t] = "dismantle" => closed /\ count = 0

(* What a dequeuer read of waiter_count outside the lock is a count.       *)
UncountRead == \A t \in Threads : pc[t] = "uncount" => refs[t] \in 0..WaiterMax

(* The inductive invariant behind the safety of the pool and of the ring.  *)
OwnerInv ==
  /\ TypeOK /\ FreeStackExact /\ SingleOwner
  /\ RingAligned /\ FilledOnce /\ DismantleEmpty /\ UncountRead

-----------------------------------------------------------------------------
(* Index arithmetic modulo the depth, for sums below twice the depth, as   *)
(* enqueue and dequeue use it.                                             *)
LEMMA RingStep ==
  ASSUME NEW h \in Slots, NEW k \in 0..Depth
  PROVE  (h + k) % Depth = IF h + k < Depth THEN h + k ELSE h + k - Depth
BY JobQueueAssumption, SMTT(30) DEF Slots

(* The i-th oldest job's slot is a slot, and different jobs have           *)
(* different slots.                                                        *)
LEMMA SlotOfInjective ==
  ASSUME TypeOK
  PROVE  /\ \A i \in 1..count : SlotOf(i) \in Slots
         /\ \A i, k \in 1..count : SlotOf(i) = SlotOf(k) => i = k
         /\ \A i \in 1..count :
              SlotOf(i) = IF head + i - 1 < Depth THEN head + i - 1
                                                  ELSE head + i - 1 - Depth
<1>1. \A i \in 1..count :
        SlotOf(i) = IF head + i - 1 < Depth THEN head + i - 1
                                            ELSE head + i - 1 - Depth
  <2> SUFFICES ASSUME NEW i \in 1..count
               PROVE SlotOf(i) = IF head + i - 1 < Depth THEN head + i - 1
                                                  ELSE head + i - 1 - Depth
    OBVIOUS
  <2>1. head \in Slots /\ i - 1 \in 0..Depth /\ head + i - 1 = head + (i - 1)
    BY JobQueueAssumption DEF TypeOK, QueueTypeOK, Slots
  <2> QED BY <2>1, RingStep DEF SlotOf
<1>2. head \in 0..(Depth - 1) /\ count \in 0..Depth /\ Depth \in Nat
  BY JobQueueAssumption DEF TypeOK, QueueTypeOK, Slots
<1>3. \A i \in 1..count : SlotOf(i) \in Slots
  BY <1>1, <1>2 DEF Slots
<1>4. \A i, k \in 1..count : SlotOf(i) = SlotOf(k) => i = k
  BY <1>1, <1>2
<1> QED BY <1>1, <1>3, <1>4

(* A job that is off the free stack leaves room for itself on it: the push *)
(* in actrust_job_release stays inside free_indices.                       *)
LEMMA FreeStackRoom ==
  ASSUME TypeOK, FreeStackExact, NEW j \in Jobs, refcnt[j] # 0
  PROVE  free_top + 1 \in Jobs
<1> SUFFICES ASSUME free_top = PoolSize - 1 PROVE FALSE
  BY JobQueueAssumption DEF TypeOK, PoolTypeOK, Jobs
<1> DEFINE T == Jobs \ {j}
<1>1. IsFiniteSet(Jobs) /\ Cardinality(Jobs) = PoolSize
  BY FS_Interval, JobQueueAssumption DEF Jobs
<1>2. IsFiniteSet(T) /\ Cardinality(T) = PoolSize - 1
  BY <1>1, FS_RemoveElement
<1>3. free_indices \in [Jobs -> T]
  BY JobQueueAssumption DEF TypeOK, PoolTypeOK, FreeStackExact, Jobs
<1>4. \E x, y \in Jobs : x # y /\ free_indices[x] = free_indices[y]
  <2>1. Cardinality(T) < Cardinality(Jobs)
    BY <1>1, <1>2, JobQueueAssumption
  <2> HIDE DEF T
  <2> QED BY <1>1, <1>2, <1>3, <2>1, FS_PigeonHole
<1> QED BY <1>4 DEF FreeStackExact, Jobs

-----------------------------------------------------------------------------
(* The pool and queue as actrust_job_pool_init and actrust_job_queue_init  *)
(* leave them: every entry free, nothing queued, no thread inside.         *)
LEMMA OwnerInit == Init => OwnerInv
<1> SUFFICES ASSUME Init PROVE OwnerInv
  OBVIOUS
<1> USE JobQueueAssumption DEF Init, Jobs, Slots
<1>1. TypeOK
  <2>1. /\ head \in Slots /\ tail \in Slots /\ count \in 0..Depth
        /\ free_top \in -1..(PoolSize - 1)
        /\ waiter_count \in 0..WaiterMax /\ close_wake_pending \in 0..WaiterMax
    OBVIOUS
  <2>2. /\ refcnt \in [Jobs -> 0..RefMax] /\ free_indices \in [Jobs -> Jobs]
        /\ buf \in [Slots -> Jobs \cup {NoJob}]
    OBVIOUS
  <2>3. /\ pc \in [Threads -> Positions] /\ job \in [Threads -> Jobs \cup {NoJob}]
        /\ refs \in [Threads -> Nat] /\ tokens \in Nat
        /\ closed \in BOOLEAN /\ live \in BOOLEAN
    BY DEF Positions
  <2> QED BY <2>1, <2>2, <2>3 DEF TypeOK, PoolTypeOK, QueueTypeOK, ThreadTypeOK
<1>2. FreeStackExact
  BY DEF FreeStackExact
<1>3. SingleOwner /\ FilledOnce /\ DismantleEmpty /\ UncountRead
  BY DEF SingleOwner, FilledOnce, DismantleEmpty, UncountRead, Holder
<1>4. RingAligned
  <2>1. (0 + 0) % Depth = 0
    BY RingStep
  <2> QED BY <2>1 DEF RingAligned
<1> QED BY <1>1, <1>2, <1>3, <1>4 DEF OwnerInv

(* The type invariant is kept by every step; releasing needs FreeStackRoom *)
(* for the push, and the ring indices need the depth to be positive.       *)
LEMMA TypeNext == OwnerInv /\ [Next]_vars => TypeOK'
<1> SUFFICES ASSUME OwnerInv, [Next]_vars PROVE TypeOK'
  OBVIOUS
<1> USE JobQueueAssumption
<1>0. /\ PoolTypeOK /\ QueueTypeOK /\ ThreadTypeOK
      /\ \A n \in Nat : n % Depth \in Slots
  BY DEF OwnerInv, TypeOK, Slots
<1>1. ASSUME NEW t \in Threads, Alloc(t) PROVE TypeOK'
  <2>a. free_top \in Jobs
    BY <1>0, <1>1 DEF PoolTypeOK, Alloc, Jobs
  <2>0. free_top \in Jobs /\ free_indices[free_top] \in Jobs
    BY <1>0, <2>a DEF PoolTypeOK
  <2>1. PoolTypeOK'
    BY <1>0, <1>1, <2>0 DEF PoolTypeOK, Alloc
  <2>2. QueueTypeOK'
    BY <1>0, <1>1 DEF QueueTypeOK, Alloc, queueVars, ringVars, closeVars
  <2>3. ThreadTypeOK'
    BY <1>0, <1>1, <2>0 DEF ThreadTypeOK, Alloc, Goto, Positions
  <2> QED BY <2>1, <2>2, <2>3 DEF TypeOK
<1>2. ASSUME NEW t \in Threads, Retain(t) PROVE TypeOK'
  <2>1. job[t] \in Jobs /\ refcnt[job[t]] # 0 /\ refs[t] > 0
    BY <1>0, <1>2 DEF Retain, OwnerInv, SingleOwner, Holder, PoolTypeOK, ThreadTypeOK
  <2>2. free_top + 1 \in Jobs
    BY <2>1, FreeStackRoom DEF OwnerInv
  <2>3. PoolTypeOK'
    BY <1>0, <1>2, <2>1, <2>2 DEF PoolTypeOK, Retain
  <2>4. QueueTypeOK'
    BY <1>0, <1>2, <2>1, <2>2 DEF QueueTypeOK, Retain, queueVars, ringVars, closeVars
  <2>5. ThreadTypeOK'
    BY <1>0, <1>2, <2>1, <2>2 DEF ThreadTypeOK, Retain, threadVars
  <2> QED BY <2>3, <2>4, <2>5 DEF TypeOK
<1>3. ASSUME NEW t \in Threads, Release(t) PROVE TypeOK'
  <2>1. job[t] \in Jobs /\ refcnt[job[t]] # 0 /\ refs[t] > 0
    BY <1>0, <1>3 DEF Release, OwnerInv, SingleOwner, Holder, PoolTypeOK, ThreadTypeOK
  <2>2. free_top + 1 \in Jobs
    BY <2>1, FreeStackRoom DEF OwnerInv
  <2>3. PoolTypeOK'
    <3>1. free_top + 1 \in -1..(PoolSize - 1)
      BY <2>2 DEF Jobs
    <3> QED BY <1>0, <1>3, <2>1, <2>2, <3>1
            DEF PoolTypeOK, Release, PoolRelease, poolVars
  <2>4. QueueTypeOK'
    BY <1>0, <1>3, <2>1, <2>2 DEF QueueTypeOK, Release, queueVars, ringVars, closeVars
  <2>5. ThreadTypeOK'
    BY <1>0, <1>3, <2>1, <2>2 DEF ThreadTypeOK, Release, DropRef, Goto, Positions
  <2> QED BY <2>3, <2>4, <2>5 DEF TypeOK
<1>4. ASSUME NEW t \in Threads, ReleaseFails(t) PROVE TypeOK'
  <2>1. job[t] \in Jobs /\ refcnt[job[t]] # 0 /\ refs[t] > 0
    BY <1>0, <1>4 DEF ReleaseFails, OwnerInv, SingleOwner, Holder, PoolTypeOK, ThreadTypeOK
  <2>2. free_top + 1 \in Jobs
    BY <2>1, FreeStackRoom DEF OwnerInv
  <2>3. PoolTypeOK'
    BY <1>0, <1>4, <2>1, <2>2 DEF PoolTypeOK, ReleaseFails, poolVars
  <2>4. QueueTypeOK'
    BY <1>0, <1>4, <2>1, <2>2 DEF QueueTypeOK, ReleaseFails, queueVars, ringVars, closeVars
  <2>5. ThreadTypeOK'
    BY <1>0, <1>4, <2>1, <2>2 DEF ThreadTypeOK, ReleaseFails, DropRef, Goto, Positions
  <2> QED BY <2>3, <2>4, <2>5 DEF TypeOK
<1>5. ASSUME NEW t \in Threads, FillFails(t) PROVE TypeOK'
  <2>1. PoolTypeOK'
    BY <1>0, <1>5 DEF PoolTypeOK, FillFails, poolVars
  <2>2. QueueTypeOK'
    BY <1>0, <1>5 DEF QueueTypeOK, FillFails, queueVars, ringVars, closeVars
  <2>3. ThreadTypeOK'
    BY <1>0, <1>5 DEF ThreadTypeOK, FillFails, Goto, Positions
  <2> QED BY <2>1, <2>2, <2>3 DEF TypeOK
<1>6. ASSUME NEW t \in Threads, EnqueueRefused(t) PROVE TypeOK'
  <2>1. PoolTypeOK'
    BY <1>0, <1>6 DEF PoolTypeOK, EnqueueRefused, poolVars
  <2>2. QueueTypeOK'
    BY <1>0, <1>6 DEF QueueTypeOK, EnqueueRefused, queueVars, ringVars, closeVars
  <2>3. ThreadTypeOK'
    BY <1>0, <1>6 DEF ThreadTypeOK, EnqueueRefused, Goto, Positions
  <2> QED BY <2>1, <2>2, <2>3 DEF TypeOK
<1>7. ASSUME NEW t \in Threads, Enqueue(t) PROVE TypeOK'
  <2>1. PoolTypeOK'
    BY <1>0, <1>7 DEF PoolTypeOK, Enqueue, Store, GiveUp, poolVars
  <2>2. QueueTypeOK'
    <3>0. tail + 1 \in Nat
      BY <1>0 DEF QueueTypeOK, Slots
    <3>1. (tail + 1) % Depth \in Slots
      BY <1>0, <3>0
    <3> QED BY <1>0, <1>7, <3>1 DEF QueueTypeOK, Enqueue, Store, GiveUp, closeVars, ThreadTypeOK
  <2>3. ThreadTypeOK'
    BY <1>0, <1>7 DEF ThreadTypeOK, Enqueue, Store, GiveUp, Goto, Positions
  <2> QED BY <2>1, <2>2, <2>3 DEF TypeOK
<1>8. ASSUME NEW t \in Threads, DequeueEnter(t) PROVE TypeOK'
  <2>1. PoolTypeOK'
    BY <1>0, <1>8 DEF PoolTypeOK, DequeueEnter, poolVars
  <2>2. QueueTypeOK'
    BY <1>0, <1>8 DEF QueueTypeOK, DequeueEnter, ringVars, closeVars
  <2>3. ThreadTypeOK'
    BY <1>0, <1>8 DEF ThreadTypeOK, DequeueEnter, Goto, Positions
  <2> QED BY <2>1, <2>2, <2>3 DEF TypeOK
<1>9. ASSUME NEW t \in Threads, SemTake(t) PROVE TypeOK'
  <2>1. PoolTypeOK'
    BY <1>0, <1>9 DEF PoolTypeOK, SemTake, poolVars
  <2>2. QueueTypeOK'
    BY <1>0, <1>9 DEF QueueTypeOK, SemTake, ringVars, closeVars
  <2>3. ThreadTypeOK'
    BY <1>0, <1>9 DEF ThreadTypeOK, SemTake, Goto, Positions
  <2> QED BY <2>1, <2>2, <2>3 DEF TypeOK
<1>10. ASSUME NEW t \in Threads, SemWaitFails(t) PROVE TypeOK'
  <2>1. PoolTypeOK'
    BY <1>0, <1>10 DEF PoolTypeOK, SemWaitFails, poolVars
  <2>2. QueueTypeOK'
    BY <1>0, <1>10 DEF QueueTypeOK, SemWaitFails, ringVars, closeVars
  <2>3. ThreadTypeOK'
    BY <1>0, <1>10 DEF ThreadTypeOK, SemWaitFails, Goto, Positions
  <2> QED BY <2>1, <2>2, <2>3 DEF TypeOK
<1>11. ASSUME NEW t \in Threads, DequeueTake(t) PROVE TypeOK'
  <2>1. PoolTypeOK'
    BY <1>0, <1>11 DEF PoolTypeOK, DequeueTake, poolVars
  <2>2. QueueTypeOK'
    <3>0. head + 1 \in Nat
      BY <1>0 DEF QueueTypeOK, Slots
    <3>1. (head + 1) % Depth \in Slots
      BY <1>0, <3>0
    <3> QED BY <1>0, <1>11, <3>1 DEF QueueTypeOK, DequeueTake, closeVars
  <2>3. ThreadTypeOK'
    BY <1>0, <1>11 DEF ThreadTypeOK, DequeueTake, QueueTypeOK, Goto, Positions
  <2> QED BY <2>1, <2>2, <2>3 DEF TypeOK
<1>12. ASSUME NEW t \in Threads, DequeueLockFails(t) PROVE TypeOK'
  <2>1. PoolTypeOK'
    BY <1>0, <1>12 DEF PoolTypeOK, DequeueLockFails, poolVars
  <2>2. QueueTypeOK'
    BY <1>0, <1>12 DEF QueueTypeOK, DequeueLockFails, queueVars, ringVars, closeVars
  <2>3. ThreadTypeOK'
    BY <1>0, <1>12 DEF ThreadTypeOK, DequeueLockFails, QueueTypeOK, Goto, Positions
  <2> QED BY <2>1, <2>2, <2>3 DEF TypeOK
<1>13. ASSUME NEW t \in Threads, UncountUnlocked(t) PROVE TypeOK'
  <2>1. PoolTypeOK'
    BY <1>0, <1>13 DEF PoolTypeOK, UncountUnlocked, poolVars
  <2>2. QueueTypeOK'
    BY <1>0, <1>13 DEF QueueTypeOK, UncountUnlocked, ringVars, closeVars, OwnerInv, UncountRead
  <2>3. ThreadTypeOK'
    BY <1>0, <1>13 DEF ThreadTypeOK, UncountUnlocked, Goto, Positions
  <2> QED BY <2>1, <2>2, <2>3 DEF TypeOK
<1>14. ASSUME NEW t \in Threads, Repost(t) PROVE TypeOK'
  <2>1. PoolTypeOK'
    BY <1>0, <1>14 DEF PoolTypeOK, Repost, poolVars
  <2>2. QueueTypeOK'
    BY <1>0, <1>14 DEF QueueTypeOK, Repost, ringVars, closeVars
  <2>3. ThreadTypeOK'
    BY <1>0, <1>14 DEF ThreadTypeOK, Repost, Goto, Positions
  <2> QED BY <2>1, <2>2, <2>3 DEF TypeOK
<1>15. ASSUME NEW t \in Threads, Close(t) PROVE TypeOK'
  <2>1. PoolTypeOK'
    BY <1>0, <1>15 DEF PoolTypeOK, Close, poolVars
  <2>2. QueueTypeOK'
    BY <1>0, <1>15 DEF QueueTypeOK, Close, ringVars, WakeDue
  <2>3. ThreadTypeOK'
    BY <1>0, <1>15 DEF ThreadTypeOK, Close, threadVars
  <2> QED BY <2>1, <2>2, <2>3 DEF TypeOK
<1>16. ASSUME NEW t \in Threads, DeinitReady(t) PROVE TypeOK'
  <2>1. PoolTypeOK'
    BY <1>0, <1>16 DEF PoolTypeOK, DeinitReady, poolVars
  <2>2. QueueTypeOK'
    BY <1>0, <1>16 DEF QueueTypeOK, DeinitReady, queueVars, ringVars, closeVars
  <2>3. ThreadTypeOK'
    BY <1>0, <1>16 DEF ThreadTypeOK, DeinitReady, Goto, Positions
  <2> QED BY <2>1, <2>2, <2>3 DEF TypeOK
<1>17. ASSUME NEW t \in Threads, DeinitDestroy(t) PROVE TypeOK'
  <2>1. PoolTypeOK'
    BY <1>0, <1>17 DEF PoolTypeOK, DeinitDestroy, poolVars
  <2>2. QueueTypeOK'
    <3>1. live' \in BOOLEAN /\ closed' \in BOOLEAN
      BY <1>0, <1>17, Zenon DEF QueueTypeOK, DeinitDestroy
    <3> QED BY <1>0, <1>17, <3>1 DEF QueueTypeOK, DeinitDestroy
  <2>3. ThreadTypeOK'
    BY <1>0, <1>17 DEF ThreadTypeOK, DeinitDestroy, Goto, Positions
  <2> QED BY <2>1, <2>2, <2>3 DEF TypeOK
<1>18. ASSUME NEW t \in Threads, DeinitDestroyFails(t) PROVE TypeOK'
  <2>1. PoolTypeOK'
    BY <1>0, <1>18 DEF PoolTypeOK, DeinitDestroyFails, poolVars
  <2>2. QueueTypeOK'
    BY <1>0, <1>18 DEF QueueTypeOK, DeinitDestroyFails, queueVars, ringVars, closeVars
  <2>3. ThreadTypeOK'
    BY <1>0, <1>18 DEF ThreadTypeOK, DeinitDestroyFails, Goto, Positions
  <2> QED BY <2>1, <2>2, <2>3 DEF TypeOK
<1>19. CASE UNCHANGED vars
  BY <1>0, <1>19 DEF TypeOK, PoolTypeOK, QueueTypeOK, ThreadTypeOK, vars,
     poolVars, queueVars, ringVars, closeVars, threadVars
<1> QED
  BY <1>1, <1>2, <1>3, <1>4, <1>5, <1>6, <1>7, <1>8, <1>9, <1>10, <1>11, <1>12, <1>13, <1>14, <1>15, <1>16, <1>17,
     <1>18, <1>19
     DEF Next, Step

-----------------------------------------------------------------------------
(* A step that leaves the pool and the ring alone, and gives no thread a   *)
(* job or a reference, keeps every ownership fact.                         *)
LEMMA OwnerFrame ==
  ASSUME OwnerInv, UNCHANGED <<poolVars, ringVars>>,
         \A t \in Threads : Holder(t)' =>
           Holder(t) /\ job'[t] = job[t] /\ refs'[t] > 0 /\ refs'[t] <= refs[t],
         TypeOK',
         \A t \in Threads : pc'[t] = "filled" => pc[t] = "filled"
  PROVE  FreeStackExact' /\ SingleOwner' /\ RingAligned' /\ FilledOnce'
<1>1. FreeStackExact' /\ RingAligned'
  BY DEF OwnerInv, FreeStackExact, RingAligned, poolVars, ringVars
<1>2. FilledOnce'
  BY DEF OwnerInv, FilledOnce, poolVars, Holder
<1>3. SingleOwner'
  <2>1. Queued' = Queued /\ \A i : SlotOf(i)' = SlotOf(i)
    BY DEF Queued, SlotOf, ringVars
  <2>2. /\ \A i \in 1..count' : buf'[SlotOf(i)'] \in Jobs /\ refcnt'[buf'[SlotOf(i)']] = 1
        /\ \A i, k \in 1..count' : buf'[SlotOf(i)'] = buf'[SlotOf(k)'] => i = k
    BY <2>1 DEF OwnerInv, SingleOwner, poolVars, ringVars
  <2>3. ASSUME NEW t \in Threads, Holder(t)'
        PROVE  /\ job'[t] \in Jobs \ Queued'
               /\ refs'[t] > 0 /\ refcnt'[job'[t]] >= refs'[t]
    <3>1. job[t] \in Jobs \ Queued /\ refcnt[job[t]] >= refs[t]
      BY <2>3 DEF OwnerInv, SingleOwner
    <3>2. refcnt[job[t]] \in Nat /\ refs[t] \in Nat /\ refs'[t] \in Nat
      BY <3>1 DEF OwnerInv, TypeOK, PoolTypeOK, ThreadTypeOK
    <3> QED BY <2>1, <2>3, <3>1, <3>2 DEF poolVars
  <2>4. \A t, u \in Threads :
          Holder(t)' /\ Holder(u)' /\ job'[t] = job'[u] => t = u
    BY DEF OwnerInv, SingleOwner
  <2> QED BY <2>2, <2>3, <2>4 DEF SingleOwner
<1> QED BY <1>1, <1>2, <1>3

(* deinit's readiness and the count read outside the lock stay what they   *)
(* were found to be, whatever other threads do.                            *)
LEMMA ReadyNext == OwnerInv /\ [Next]_vars => DismantleEmpty' /\ UncountRead'
<1> SUFFICES ASSUME OwnerInv, [Next]_vars PROVE DismantleEmpty' /\ UncountRead'
  OBVIOUS
<1>0. TypeOK /\ DismantleEmpty /\ UncountRead
  BY DEF OwnerInv
<1> USE <1>0 DEF DismantleEmpty, UncountRead, TypeOK, ThreadTypeOK, QueueTypeOK, Goto
<1>1. ASSUME NEW t \in Threads, Alloc(t) PROVE DismantleEmpty' /\ UncountRead'
  BY <1>1 DEF Alloc, queueVars, ringVars, closeVars, threadVars
<1>2. ASSUME NEW t \in Threads, Retain(t) PROVE DismantleEmpty' /\ UncountRead'
  BY <1>2 DEF Retain, queueVars, ringVars, closeVars, threadVars
<1>3. ASSUME NEW t \in Threads, Release(t) PROVE DismantleEmpty' /\ UncountRead'
  BY <1>3 DEF Release, DropRef, queueVars, ringVars, closeVars, threadVars
<1>4. ASSUME NEW t \in Threads, ReleaseFails(t) PROVE DismantleEmpty' /\ UncountRead'
  BY <1>4 DEF ReleaseFails, DropRef, queueVars, ringVars, closeVars, threadVars
<1>5. ASSUME NEW t \in Threads, FillFails(t) PROVE DismantleEmpty' /\ UncountRead'
  BY <1>5 DEF FillFails, queueVars, ringVars, closeVars, threadVars
<1>6. ASSUME NEW t \in Threads, EnqueueRefused(t) PROVE DismantleEmpty' /\ UncountRead'
  BY <1>6 DEF EnqueueRefused, queueVars, ringVars, closeVars, threadVars
<1>7. ASSUME NEW t \in Threads, Enqueue(t) PROVE DismantleEmpty' /\ UncountRead'
  BY <1>7 DEF Enqueue, Store, GiveUp, queueVars, ringVars, closeVars, threadVars
<1>8. ASSUME NEW t \in Threads, DequeueEnter(t) PROVE DismantleEmpty' /\ UncountRead'
  BY <1>8 DEF DequeueEnter, queueVars, ringVars, closeVars, threadVars
<1>9. ASSUME NEW t \in Threads, SemTake(t) PROVE DismantleEmpty' /\ UncountRead'
  BY <1>9 DEF SemTake, queueVars, ringVars, closeVars, threadVars
<1>10. ASSUME NEW t \in Threads, SemWaitFails(t) PROVE DismantleEmpty' /\ UncountRead'
  BY <1>10 DEF SemWaitFails, queueVars, ringVars, closeVars, threadVars
<1>11. ASSUME NEW t \in Threads, DequeueTake(t) PROVE DismantleEmpty' /\ UncountRead'
  BY <1>11 DEF DequeueTake, queueVars, ringVars, closeVars, threadVars
<1>12. ASSUME NEW t \in Threads, DequeueLockFails(t) PROVE DismantleEmpty' /\ UncountRead'
  BY <1>12 DEF DequeueLockFails, queueVars, ringVars, closeVars, threadVars
<1>13. ASSUME NEW t \in Threads, UncountUnlocked(t) PROVE DismantleEmpty' /\ UncountRead'
  BY <1>13 DEF UncountUnlocked, queueVars, ringVars, closeVars, threadVars
<1>14. ASSUME NEW t \in Threads, Repost(t) PROVE DismantleEmpty' /\ UncountRead'
  BY <1>14 DEF Repost, queueVars, ringVars, closeVars, threadVars
<1>15. ASSUME NEW t \in Threads, Close(t) PROVE DismantleEmpty' /\ UncountRead'
  BY <1>15 DEF Close, queueVars, ringVars, closeVars, threadVars
<1>16. ASSUME NEW t \in Threads, DeinitReady(t) PROVE DismantleEmpty' /\ UncountRead'
  BY <1>16 DEF DeinitReady, queueVars, ringVars, closeVars, threadVars
<1>17. ASSUME NEW t \in Threads, DeinitDestroy(t) PROVE DismantleEmpty' /\ UncountRead'
  BY <1>17 DEF DeinitDestroy, queueVars, ringVars, closeVars, threadVars
<1>18. ASSUME NEW t \in Threads, DeinitDestroyFails(t) PROVE DismantleEmpty' /\ UncountRead'
  BY <1>18 DEF DeinitDestroyFails, queueVars, ringVars, closeVars, threadVars
<1>19. CASE UNCHANGED vars
  BY <1>19 DEF vars, queueVars, ringVars, closeVars, threadVars
<1> QED
  BY <1>1, <1>2, <1>3, <1>4, <1>5, <1>6, <1>7, <1>8, <1>9, <1>10, <1>11, <1>12, <1>13, <1>14, <1>15, <1>16, <1>17, <1>18, <1>19 DEF Next, Step

(* Ownership is kept by the steps that move a job: alloc, retain, release, *)
(* enqueue and dequeue.                                                    *)
OwnerFacts == FreeStackExact /\ SingleOwner /\ RingAligned /\ FilledOnce

(* actrust_job_alloc hands out an entry that was free, so it is new to its *)
(* holder and to the queue.                                                *)
LEMMA OwnerAlloc ==
  ASSUME OwnerInv, TypeOK', NEW t \in Threads, Alloc(t)
  PROVE  OwnerFacts'
<1> DEFINE j == free_indices[free_top]
<1>0. TypeOK /\ FreeStackExact /\ SingleOwner /\ RingAligned /\ FilledOnce
  BY DEF OwnerInv
<1>1. free_top \in 0..(PoolSize - 1)
  BY <1>0 DEF TypeOK, PoolTypeOK, Alloc
<1>2. j \in Jobs /\ refcnt[j] = 0
  <2>1. free_top \in Jobs
    BY <1>1 DEF Jobs
  <2>2. j \in Jobs
    BY <1>0, <2>1 DEF TypeOK, PoolTypeOK
  <2>3. \E i \in 0..free_top : free_indices[i] = j
    BY <1>1
  <2> QED BY <1>0, <2>2, <2>3 DEF FreeStackExact
<1>3. /\ refcnt' = [refcnt EXCEPT ![j] = 1] /\ free_top' = free_top - 1
      /\ job' = [job EXCEPT ![t] = j] /\ refs' = [refs EXCEPT ![t] = 1]
      /\ pc' = [pc EXCEPT ![t] = "filled"] /\ pc[t] = "idle"
      /\ UNCHANGED <<free_indices, buf, head, tail, count>>
  BY DEF Alloc, Goto, queueVars, ringVars
<1> HIDE DEF j
<1>4. FreeStackExact'
  <2>1. \A i \in 0..free_top : free_indices[i] = j => i = free_top
    BY <1>0, <1>1 DEF FreeStackExact, j
  <2>2. \A i, k \in 0..free_top' : free_indices'[i] = free_indices'[k] => i = k
    BY <1>0, <1>1, <1>3 DEF FreeStackExact
  <2>3. ASSUME NEW x \in Jobs
        PROVE  refcnt'[x] = 0 <=> \E i \in 0..free_top' : free_indices'[i] = x
    <3>1. CASE x = j
      BY <1>0, <1>1, <1>2, <1>3, <2>1, <3>1 DEF TypeOK, PoolTypeOK
    <3>2. CASE x # j
      <4>1. refcnt'[x] = refcnt[x]
        BY <1>0, <1>2, <1>3, <3>2 DEF TypeOK, PoolTypeOK
      <4>2. \A i \in 0..free_top : free_indices[i] = x => i # free_top
        BY <3>2 DEF j
      <4> QED BY <1>0, <1>1, <1>3, <4>1, <4>2 DEF FreeStackExact
    <3> QED BY <3>1, <3>2
  <2> QED BY <2>2, <2>3 DEF FreeStackExact
<1>5. Queued' = Queued /\ (\A i : SlotOf(i)' = SlotOf(i)) /\ j \notin Queued
  BY <1>0, <1>2, <1>3 DEF Queued, SlotOf, SingleOwner
<1>6. \A u \in Threads : Holder(u) => job[u] \in Jobs /\ job[u] # j
  BY <1>0, <1>2 DEF SingleOwner, TypeOK, PoolTypeOK, ThreadTypeOK
<1>7. SingleOwner'
  <2>1. /\ \A i \in 1..count' : buf'[SlotOf(i)'] \in Jobs /\ refcnt'[buf'[SlotOf(i)']] = 1
        /\ \A i, k \in 1..count' : buf'[SlotOf(i)'] = buf'[SlotOf(k)'] => i = k
    BY <1>0, <1>2, <1>3, <1>5 DEF SingleOwner, TypeOK, PoolTypeOK
  <2>2. \A u \in Threads : Holder(u)' =>
          /\ job'[u] \in Jobs \ Queued'
          /\ refs'[u] > 0 /\ refcnt'[job'[u]] >= refs'[u]
    <3> SUFFICES ASSUME NEW u \in Threads, Holder(u)'
                 PROVE  /\ job'[u] \in Jobs \ Queued'
                        /\ refs'[u] > 0 /\ refcnt'[job'[u]] >= refs'[u]
      OBVIOUS
    <3>1. CASE u = t
      BY <1>0, <1>2, <1>3, <1>5, <3>1 DEF TypeOK, PoolTypeOK, ThreadTypeOK
    <3>2. CASE u # t
      <4>1. Holder(u) /\ job'[u] = job[u] /\ refs'[u] = refs[u]
        BY <1>0, <1>3, <3>2 DEF Holder, TypeOK, ThreadTypeOK
      <4> QED BY <1>0, <1>2, <1>3, <1>5, <1>6, <4>1 DEF SingleOwner, TypeOK, PoolTypeOK
    <3> QED BY <3>1, <3>2
  <2>3. \A u, v \in Threads :
          Holder(u)' /\ Holder(v)' /\ job'[u] = job'[v] => u = v
    BY <1>0, <1>3, <1>6 DEF SingleOwner, Holder, TypeOK, ThreadTypeOK
  <2> QED BY <2>1, <2>2, <2>3 DEF SingleOwner
<1>8. RingAligned' /\ FilledOnce'
  BY <1>0, <1>2, <1>3, <1>6 DEF RingAligned, FilledOnce, Holder, TypeOK, PoolTypeOK, ThreadTypeOK
<1> QED BY <1>4, <1>7, <1>8 DEF OwnerFacts

(* actrust_job_retain adds a reference to the count and to the holder.     *)
LEMMA OwnerRetain ==
  ASSUME OwnerInv, TypeOK', NEW t \in Threads, Retain(t)
  PROVE  OwnerFacts'
<1>0. TypeOK /\ FreeStackExact /\ SingleOwner /\ RingAligned /\ FilledOnce
  BY DEF OwnerInv
<1>1. /\ pc[t] = "owner" /\ refcnt[job[t]] \in 1..(RefMax - 1)
      /\ refcnt' = [refcnt EXCEPT ![job[t]] = @ + 1]
      /\ refs' = [refs EXCEPT ![t] = @ + 1]
      /\ UNCHANGED <<free_indices, free_top, buf, head, tail, count, pc, job>>
  BY DEF Retain, queueVars, ringVars
<1>2. job[t] \in Jobs \ Queued /\ refcnt[job[t]] >= refs[t] /\ Holder(t)
  BY <1>0, <1>1 DEF SingleOwner, Holder
<1>3. FreeStackExact' /\ RingAligned'
  BY <1>0, <1>1, <1>2, JobQueueAssumption DEF FreeStackExact, RingAligned, TypeOK, PoolTypeOK
<1>4. Queued' = Queued /\ (\A i : SlotOf(i)' = SlotOf(i))
      /\ \A i \in 1..count : buf[SlotOf(i)] # job[t]
  BY <1>1, <1>2 DEF Queued, SlotOf
<1>5. \A u \in Threads : Holder(u) /\ u # t => job[u] # job[t]
  BY <1>0, <1>2 DEF SingleOwner
<1>6. SingleOwner'
  <2>1. /\ \A i \in 1..count' : buf'[SlotOf(i)'] \in Jobs /\ refcnt'[buf'[SlotOf(i)']] = 1
        /\ \A i, k \in 1..count' : buf'[SlotOf(i)'] = buf'[SlotOf(k)'] => i = k
    BY <1>0, <1>1, <1>4 DEF SingleOwner, TypeOK, PoolTypeOK
  <2>2. \A u \in Threads : Holder(u)' =>
          /\ job'[u] \in Jobs \ Queued'
          /\ refs'[u] > 0 /\ refcnt'[job'[u]] >= refs'[u]
    BY <1>0, <1>1, <1>2, <1>4, <1>5 DEF SingleOwner, Holder, TypeOK, PoolTypeOK, ThreadTypeOK
  <2>3. \A u, v \in Threads :
          Holder(u)' /\ Holder(v)' /\ job'[u] = job'[v] => u = v
    BY <1>0, <1>1 DEF SingleOwner, Holder
  <2> QED BY <2>1, <2>2, <2>3 DEF SingleOwner
<1>7. FilledOnce'
  BY <1>0, <1>1, <1>5 DEF FilledOnce, Holder, TypeOK, PoolTypeOK
<1> QED BY <1>3, <1>6, <1>7 DEF OwnerFacts

(* actrust_job_release pushes an entry exactly when the holder gives up    *)
(* its last reference.                                                     *)
LEMMA OwnerRelease ==
  ASSUME OwnerInv, TypeOK', NEW t \in Threads, Release(t)
  PROVE  OwnerFacts'
<1> DEFINE j == job[t]
<1>0. TypeOK /\ FreeStackExact /\ SingleOwner /\ RingAligned /\ FilledOnce
  BY DEF OwnerInv
<1>1. /\ pc[t] = "owner" /\ PoolRelease(j) /\ DropRef(t)
      /\ UNCHANGED <<buf, head, tail, count>>
  BY DEF Release, queueVars, ringVars
<1>2. /\ Holder(t) /\ j \in Jobs \ Queued
      /\ refs[t] > 0 /\ refcnt[j] >= refs[t] /\ refcnt[j] \in Nat /\ refs[t] \in Nat
  BY <1>0, <1>1 DEF SingleOwner, Holder, TypeOK, PoolTypeOK, ThreadTypeOK
<1>3. free_top + 1 \in Jobs /\ free_top \in -1..(PoolSize - 1)
  BY <1>0, <1>2, FreeStackRoom DEF TypeOK, PoolTypeOK
<1>4. refcnt' = [refcnt EXCEPT ![j] = refcnt[j] - 1]
  BY <1>0, <1>1, <1>2 DEF PoolRelease, TypeOK, PoolTypeOK
<1>5. /\ refs' = [refs EXCEPT ![t] = refs[t] - 1]
      /\ refs[t] = 1 => pc' = [pc EXCEPT ![t] = "idle"] /\ job' = [job EXCEPT ![t] = NoJob]
      /\ refs[t] # 1 => UNCHANGED <<pc, job>>
  BY <1>1 DEF DropRef, Goto
<1>6. \A u \in Threads : Holder(u) /\ u # t => job[u] # j
  BY <1>0, <1>2 DEF SingleOwner
<1> HIDE DEF j
<1>7. FreeStackExact'
  <2>1. CASE refcnt[j] = 1
    <3>1. /\ free_top' = free_top + 1
          /\ free_indices' = [free_indices EXCEPT ![free_top + 1] = j]
      BY <1>1, <2>1 DEF PoolRelease
    <3>2. \A i \in 0..free_top : free_indices[i] # j
      BY <1>0, <1>2, <2>1 DEF FreeStackExact
    <3>3. /\ free_indices'[free_top + 1] = j
          /\ \A i \in 0..free_top : free_indices'[i] = free_indices[i]
      BY <1>0, <1>3, <3>1 DEF TypeOK, PoolTypeOK, Jobs
    <3>4. \A i, k \in 0..free_top' : free_indices'[i] = free_indices'[k] => i = k
      BY <1>0, <1>3, <3>1, <3>2, <3>3 DEF FreeStackExact
    <3>5. ASSUME NEW x \in Jobs
          PROVE  refcnt'[x] = 0 <=> \E i \in 0..free_top' : free_indices'[i] = x
      <4>1. CASE x = j
        <5>1. free_top + 1 \in 0..free_top'
          BY <1>3, <3>1
        <5> QED BY <1>0, <1>2, <1>4, <2>1, <3>3, <4>1, <5>1 DEF TypeOK, PoolTypeOK
      <4>2. CASE x # j
        <5>1. refcnt'[x] = refcnt[x]
          BY <1>0, <1>4, <4>2 DEF TypeOK, PoolTypeOK
        <5>2. (\E i \in 0..free_top' : free_indices'[i] = x)
                <=> \E i \in 0..free_top : free_indices[i] = x
          BY <1>3, <3>1, <3>3, <4>2
        <5> QED BY <1>0, <5>1, <5>2 DEF FreeStackExact
      <4> QED BY <4>1, <4>2
    <3> QED BY <3>4, <3>5 DEF FreeStackExact
  <2>2. CASE refcnt[j] # 1
    <3>1. UNCHANGED <<free_indices, free_top>> /\ refcnt[j] > 1
      BY <1>1, <1>2, <2>2 DEF PoolRelease, poolVars
    <3>2. \A x \in Jobs : refcnt'[x] = 0 <=> refcnt[x] = 0
      BY <1>0, <1>2, <1>4, <3>1 DEF TypeOK, PoolTypeOK
    <3> QED BY <1>0, <3>1, <3>2 DEF FreeStackExact
  <2> QED BY <2>1, <2>2
<1>8. Queued' = Queued /\ (\A i : SlotOf(i)' = SlotOf(i))
      /\ \A i \in 1..count : buf[SlotOf(i)] # j
  BY <1>1, <1>2 DEF Queued, SlotOf
<1>9. SingleOwner'
  <2>1. /\ \A i \in 1..count' : buf'[SlotOf(i)'] \in Jobs /\ refcnt'[buf'[SlotOf(i)']] = 1
        /\ \A i, k \in 1..count' : buf'[SlotOf(i)'] = buf'[SlotOf(k)'] => i = k
    BY <1>0, <1>1, <1>4, <1>8 DEF SingleOwner, TypeOK, PoolTypeOK
  <2>2. ASSUME NEW u \in Threads, Holder(u)'
        PROVE  /\ Holder(u) /\ job'[u] = job[u]
               /\ refs'[u] > 0 /\ refcnt'[job'[u]] >= refs'[u]
    <3>1. CASE u = t
      <4>1. refs[t] # 1
        BY <1>0, <1>5, <2>2, <3>1 DEF Holder, TypeOK, ThreadTypeOK
      <4> QED BY <1>0, <1>2, <1>4, <1>5, <3>1, <4>1 DEF TypeOK, PoolTypeOK, ThreadTypeOK, j
    <3>2. CASE u # t
      <4>1. Holder(u) /\ job'[u] = job[u] /\ refs'[u] = refs[u]
        BY <1>0, <1>5, <2>2, <3>2 DEF Holder, TypeOK, ThreadTypeOK
      <4> QED BY <1>0, <1>4, <1>6, <3>2, <4>1 DEF SingleOwner, TypeOK, PoolTypeOK
    <3> QED BY <3>1, <3>2
  <2>3. \A u \in Threads : Holder(u)' => job'[u] \in Jobs \ Queued'
    BY <1>0, <1>8, <2>2 DEF SingleOwner
  <2>4. \A u, v \in Threads :
          Holder(u)' /\ Holder(v)' /\ job'[u] = job'[v] => u = v
    BY <1>0, <2>2 DEF SingleOwner
  <2> QED BY <2>1, <2>2, <2>3, <2>4 DEF SingleOwner
<1>10. RingAligned'
  BY <1>0, <1>1 DEF RingAligned
<1>11. FilledOnce'
  <2> SUFFICES ASSUME NEW u \in Threads, pc'[u] = "filled" PROVE refcnt'[job'[u]] = 1
    BY DEF FilledOnce
  <2>1. u # t /\ pc[u] = "filled" /\ job'[u] = job[u]
    BY <1>0, <1>1, <1>5 DEF TypeOK, ThreadTypeOK
  <2> QED BY <1>0, <1>4, <1>6, <2>1 DEF FilledOnce, SingleOwner, Holder, TypeOK, PoolTypeOK
<1> QED BY <1>7, <1>9, <1>10, <1>11 DEF OwnerFacts

(* Enqueue writes the job behind the queued ones, which stay in order.     *)
LEMMA EnqueueRing ==
  ASSUME OwnerInv, NEW t \in Threads, Enqueue(t)
  PROVE  /\ job[t] \in Jobs \ Queued /\ Queued' = Queued \cup {job[t]}
         /\ \A i \in 1..count : buf'[SlotOf(i)'] = buf[SlotOf(i)]
         /\ \A n \in Nat : n = count + 1 =>
              buf'[SlotOf(n)'] = job[t] /\ 1..count' = (1..count) \cup {n}
<1> DEFINE j == job[t]
<1>0. TypeOK /\ FreeStackExact /\ SingleOwner /\ RingAligned /\ FilledOnce
  BY DEF OwnerInv
<1>1. /\ pc[t] = "filled" /\ count < Depth
      /\ buf' = [buf EXCEPT ![tail] = j] /\ tail' = (tail + 1) % Depth
      /\ count' = count + 1 /\ head' = head
      /\ job' = [job EXCEPT ![t] = NoJob] /\ pc' = [pc EXCEPT ![t] = "idle"]
      /\ refs' = [refs EXCEPT ![t] = 0]
      /\ UNCHANGED <<refcnt, free_indices, free_top>>
  BY DEF Enqueue, Store, GiveUp, Goto, poolVars
<1>2. Holder(t) /\ j \in Jobs \ Queued /\ refcnt[j] = 1
  BY <1>0, <1>1 DEF SingleOwner, FilledOnce, Holder
<1>3. head \in 0..(Depth - 1) /\ count \in 0..(Depth - 1) /\ Depth \in Nat
  BY <1>0, <1>1, JobQueueAssumption DEF TypeOK, QueueTypeOK, Slots
<1>4. tail = (IF head + count < Depth THEN head + count ELSE head + count - Depth)
      /\ tail \in Slots
  BY <1>0, <1>3, RingStep DEF RingAligned, TypeOK, QueueTypeOK, Slots
<1>n. PICK n \in Nat : n = count + 1
  BY <1>3
<1> HIDE DEF j
<1>6. /\ SlotOf(n)' = tail
      /\ \A i \in 1..count : SlotOf(i)' = SlotOf(i) /\ SlotOf(i) # tail /\ SlotOf(i) \in Slots
  <2>1. \A i \in 1..count : SlotOf(i)' = SlotOf(i) /\ SlotOf(i) \in Slots
    BY <1>0, <1>1, SlotOfInjective DEF SlotOf
  <2>2. \A i \in 1..count : SlotOf(i) # tail
    <3> SUFFICES ASSUME NEW i \in 1..count PROVE SlotOf(i) # tail
      OBVIOUS
    <3>1. SlotOf(i) = IF head + i - 1 < Depth THEN head + i - 1 ELSE head + i - 1 - Depth
      BY <1>0, SlotOfInjective
    <3> QED BY <1>3, <1>4, <3>1
  <2>3. SlotOf(n)' = tail
    <3>1. head + n - 1 = head + count
      BY <1>3, <1>n
    <3> QED BY <1>0, <1>1, <3>1 DEF SlotOf, RingAligned
  <2> QED BY <2>1, <2>2, <2>3
<1>7. /\ buf'[SlotOf(n)'] = j
      /\ \A i \in 1..count : buf'[SlotOf(i)'] = buf[SlotOf(i)] /\ buf[SlotOf(i)] # j
  BY <1>0, <1>1, <1>2, <1>4, <1>6 DEF TypeOK, QueueTypeOK, Queued
<1>8. 1..count' = (1..count) \cup {n}
  BY <1>1, <1>3, <1>n
<1>9. Queued' = Queued \cup {j}
  BY <1>7, <1>8 DEF Queued
<1> QED BY <1>2, <1>7, <1>8, <1>9, <1>n DEF j

(* actrust_job_queue_enqueue moves the job from its holder to a slot of    *)
(* the ring that held none.                                                *)
LEMMA OwnerEnqueue ==
  ASSUME OwnerInv, TypeOK', NEW t \in Threads, Enqueue(t)
  PROVE  OwnerFacts'
<1> DEFINE j == job[t]
<1>0. TypeOK /\ FreeStackExact /\ SingleOwner /\ RingAligned /\ FilledOnce
  BY DEF OwnerInv
<1>1. /\ pc[t] = "filled" /\ count < Depth
      /\ buf' = [buf EXCEPT ![tail] = j] /\ tail' = (tail + 1) % Depth
      /\ count' = count + 1 /\ head' = head
      /\ job' = [job EXCEPT ![t] = NoJob] /\ pc' = [pc EXCEPT ![t] = "idle"]
      /\ refs' = [refs EXCEPT ![t] = 0]
      /\ UNCHANGED <<refcnt, free_indices, free_top>>
  BY DEF Enqueue, Store, GiveUp, Goto, poolVars
<1>2. Holder(t) /\ j \in Jobs \ Queued /\ refcnt[j] = 1
  BY <1>0, <1>1 DEF SingleOwner, FilledOnce, Holder
<1>3. head \in 0..(Depth - 1) /\ count \in 0..(Depth - 1) /\ Depth \in Nat
  BY <1>0, <1>1, JobQueueAssumption DEF TypeOK, QueueTypeOK, Slots
<1>4. tail = (IF head + count < Depth THEN head + count ELSE head + count - Depth)
      /\ tail \in Slots
  BY <1>0, <1>3, RingStep DEF RingAligned, TypeOK, QueueTypeOK, Slots
<1>5. RingAligned'
  <2>0. tail \in Slots /\ head \in Slots /\ 1 \in 0..Depth /\ count + 1 \in 0..Depth
    BY <1>3, <1>4 DEF Slots
  <2>1. (tail + 1) % Depth = IF tail + 1 < Depth THEN tail + 1 ELSE tail + 1 - Depth
    BY <2>0, RingStep
  <2>2. (head + (count + 1)) % Depth =
          IF head + (count + 1) < Depth THEN head + (count + 1)
                                        ELSE head + (count + 1) - Depth
    BY <2>0, RingStep
  <2> QED BY <1>1, <1>3, <1>4, <2>1, <2>2 DEF RingAligned
<1>n. PICK n \in Nat : n = count + 1
  BY <1>3
<1>6. Queued' = Queued \cup {j} /\ 1..count' = (1..count) \cup {n}
  BY <1>n, EnqueueRing
<1>7. /\ buf'[SlotOf(n)'] = j
      /\ \A i \in 1..count : buf'[SlotOf(i)'] = buf[SlotOf(i)] /\ buf[SlotOf(i)] # j
  BY <1>2, <1>n, EnqueueRing DEF Queued
<1> HIDE DEF j
<1>10. SingleOwner'
  <2>1. \A i \in 1..count' : buf'[SlotOf(i)'] \in Jobs /\ refcnt'[buf'[SlotOf(i)']] = 1
    BY <1>0, <1>1, <1>2, <1>7, <1>6 DEF SingleOwner
  <2>2. \A i, k \in 1..count' : buf'[SlotOf(i)'] = buf'[SlotOf(k)'] => i = k
    BY <1>0, <1>7, <1>6 DEF SingleOwner
  <2>3. \A u \in Threads : Holder(u)' =>
          u # t /\ Holder(u) /\ job'[u] = job[u] /\ refs'[u] = refs[u]
    BY <1>0, <1>1 DEF Holder, TypeOK, ThreadTypeOK
  <2>4. \A u \in Threads : Holder(u)' => job'[u] # j
    BY <1>0, <1>2, <2>3 DEF SingleOwner, j
  <2> QED BY <1>0, <1>1, <1>6, <2>1, <2>2, <2>3, <2>4 DEF SingleOwner
<1>11. FreeStackExact' /\ FilledOnce'
  BY <1>0, <1>1 DEF FreeStackExact, FilledOnce, TypeOK, ThreadTypeOK
<1> QED BY <1>5, <1>10, <1>11 DEF OwnerFacts

(* Dequeue takes the oldest job; the others move up one place.             *)
LEMMA DequeueRing ==
  ASSUME OwnerInv, NEW t \in Threads, DequeueTake(t), count # 0
  PROVE  /\ SlotOf(1) = head /\ 1 \in 1..count
         /\ buf[head] \in Jobs /\ refcnt[buf[head]] = 1 /\ buf[head] \in Queued
         /\ Queued' = Queued \ {buf[head]}
         /\ \A i \in 1..count' : /\ SlotOf(i)' = SlotOf(i + 1) /\ i + 1 \in 2..count
                                  /\ buf'[SlotOf(i)'] = buf[SlotOf(i + 1)]
<1> DEFINE j == buf[head]
<1>0. TypeOK /\ FreeStackExact /\ SingleOwner /\ RingAligned /\ FilledOnce
  BY DEF OwnerInv
<1>1. /\ pc[t] = "granted"
      /\ job' = [job EXCEPT ![t] = j] /\ refs' = [refs EXCEPT ![t] = 1]
      /\ pc' = [pc EXCEPT ![t] = "owner"]
      /\ head' = (head + 1) % Depth /\ count' = count - 1
      /\ UNCHANGED <<refcnt, free_indices, free_top, buf, tail>>
  BY DEF DequeueTake, Goto, poolVars
<1>2. head \in 0..(Depth - 1) /\ count \in 1..Depth /\ Depth \in Nat \ {0}
  BY <1>0, JobQueueAssumption DEF TypeOK, QueueTypeOK, Slots
<1>3. /\ head \in Slots /\ 1 \in 0..Depth /\ count \in 0..Depth
      /\ head' = IF head + 1 < Depth THEN head + 1 ELSE head + 1 - Depth
      /\ tail = IF head + count < Depth THEN head + count ELSE head + count - Depth
  <2>1. head \in Slots /\ 1 \in 0..Depth /\ count \in 0..Depth
    BY <1>2 DEF Slots
  <2> QED BY <1>0, <1>1, <2>1, RingStep DEF RingAligned
<1>4. \A i \in 1..count' : SlotOf(i)' = SlotOf(i + 1) /\ i + 1 \in 2..count
  <2> SUFFICES ASSUME NEW i \in 1..count'
               PROVE  SlotOf(i)' = SlotOf(i + 1) /\ i + 1 \in 2..count
    OBVIOUS
  <2>1. i + 1 \in 2..count /\ i - 1 \in 0..Depth /\ head' \in Slots
    BY <1>1, <1>2, <1>3 DEF Slots
  <2>2. (head' + (i - 1)) % Depth =
          IF head' + (i - 1) < Depth THEN head' + (i - 1) ELSE head' + (i - 1) - Depth
    BY <2>1, RingStep
  <2>3. SlotOf(i)' = (head' + (i - 1)) % Depth
    <3>1. head' + i - 1 = head' + (i - 1)
      BY <2>1 DEF Slots
    <3> QED BY <3>1 DEF SlotOf
  <2>4. SlotOf(i + 1) = IF head + (i + 1) - 1 < Depth THEN head + (i + 1) - 1
                                                     ELSE head + (i + 1) - 1 - Depth
    <3>1. i + 1 \in 1..count
      BY <2>1, <1>2
    <3> QED BY <1>0, <3>1, SlotOfInjective
  <2> QED BY <1>2, <1>3, <2>1, <2>2, <2>3, <2>4
<1>5. SlotOf(1) = head /\ 1 \in 1..count
  <2>1. head + 1 - 1 < Depth /\ head + 1 - 1 = head /\ 1 \in 1..count
    BY <1>2
  <2> QED BY <1>0, <2>1, SlotOfInjective
<1>6. j \in Jobs /\ refcnt[j] = 1 /\ j \in Queued
  BY <1>0, <1>5 DEF SingleOwner, Queued
<1>7. \A i \in 1..count' : buf'[SlotOf(i)'] = buf[SlotOf(i + 1)] /\ i + 1 \in 1..count /\ i + 1 # 1
  BY <1>1, <1>2, <1>4
<1>8. \A i \in 1..count' : buf'[SlotOf(i)'] # j
  BY <1>0, <1>5, <1>7 DEF SingleOwner
<1>9. \A i \in 2..count : i - 1 \in 1..count' /\ (i - 1) + 1 = i
  BY <1>1, <1>2
<1>10. \A i \in 1..count : buf[SlotOf(i)] # j => buf[SlotOf(i)] \in Queued'
  <2> SUFFICES ASSUME NEW i \in 2..count PROVE buf[SlotOf(i)] \in Queued'
    BY <1>2, <1>5
  <2>1. PICK k \in 1..count' : k + 1 = i
    BY <1>9
  <2> QED BY <1>7, <2>1 DEF Queued
<1>11. Queued' = Queued \ {j}
  <2>1. Queued' \subseteq Queued /\ j \notin Queued'
    BY <1>7, <1>8 DEF Queued
  <2>2. Queued \ {j} \subseteq Queued'
    BY <1>10 DEF Queued
  <2> QED BY <2>1, <2>2
<1> QED BY <1>4, <1>5, <1>6, <1>7, <1>11

(* actrust_job_queue_dequeue moves the oldest job from its slot to the     *)
(* dequeuer.                                                               *)
LEMMA OwnerDequeue ==
  ASSUME OwnerInv, TypeOK', NEW t \in Threads, DequeueTake(t), count # 0
  PROVE  OwnerFacts'
<1> DEFINE j == buf[head]
<1>0. TypeOK /\ FreeStackExact /\ SingleOwner /\ RingAligned /\ FilledOnce
  BY DEF OwnerInv
<1>1. /\ pc[t] = "granted"
      /\ job' = [job EXCEPT ![t] = j] /\ refs' = [refs EXCEPT ![t] = 1]
      /\ pc' = [pc EXCEPT ![t] = "owner"]
      /\ head' = (head + 1) % Depth /\ count' = count - 1
      /\ UNCHANGED <<refcnt, free_indices, free_top, buf, tail>>
  BY DEF DequeueTake, Goto, poolVars
<1>2. head \in 0..(Depth - 1) /\ count \in 1..Depth /\ Depth \in Nat \ {0}
  BY <1>0, JobQueueAssumption DEF TypeOK, QueueTypeOK, Slots
<1>3. /\ head \in Slots /\ 1 \in 0..Depth /\ count \in 0..Depth
      /\ head' = IF head + 1 < Depth THEN head + 1 ELSE head + 1 - Depth
      /\ tail = IF head + count < Depth THEN head + count ELSE head + count - Depth
  <2>1. head \in Slots /\ 1 \in 0..Depth /\ count \in 0..Depth
    BY <1>2 DEF Slots
  <2> QED BY <1>0, <1>1, <2>1, RingStep DEF RingAligned
<1>4. \A i \in 1..count' : SlotOf(i)' = SlotOf(i + 1) /\ i + 1 \in 2..count
  BY DequeueRing
<1>6. j \in Jobs /\ refcnt[j] = 1 /\ j \in Queued
  BY DequeueRing
<1>7. Queued' \subseteq Queued /\ j \notin Queued'
  BY DequeueRing
<1>8. RingAligned'
  <2>1. head' \in Slots /\ count - 1 \in 0..Depth
    BY <1>2, <1>3 DEF Slots
  <2>2. (head' + (count - 1)) % Depth =
          IF head' + (count - 1) < Depth THEN head' + (count - 1)
                                         ELSE head' + (count - 1) - Depth
    BY <2>1, RingStep
  <2> QED BY <1>1, <1>2, <1>3, <2>2 DEF RingAligned
<1> HIDE DEF j
<1>9. SingleOwner'
  <2>1. \A i \in 1..count' : buf'[SlotOf(i)'] \in Jobs /\ refcnt'[buf'[SlotOf(i)']] = 1
    <3>1. \A i \in 1..count' : i + 1 \in 1..count
      BY <1>2, <1>4
    <3> QED BY <1>0, <1>1, <1>4, <3>1 DEF SingleOwner
  <2>2. \A i, k \in 1..count' : buf'[SlotOf(i)'] = buf'[SlotOf(k)'] => i = k
    <3> SUFFICES ASSUME NEW i \in 1..count', NEW k \in 1..count',
                        buf'[SlotOf(i)'] = buf'[SlotOf(k)']
                 PROVE i = k
      OBVIOUS
    <3>1. i + 1 \in 1..count /\ k + 1 \in 1..count
      BY <1>2, <1>4
    <3>2. i + 1 = k + 1
      BY <1>0, <1>1, <1>4, <3>1 DEF SingleOwner
    <3> QED BY <1>1, <1>2, <3>2
  <2>3. \A u \in Threads : u # t /\ Holder(u)' =>
          Holder(u) /\ job'[u] = job[u] /\ refs'[u] = refs[u]
    BY <1>0, <1>1 DEF Holder, TypeOK, ThreadTypeOK
  <2>4. job'[t] = j /\ refs'[t] = 1
    BY <1>0, <1>1 DEF TypeOK, ThreadTypeOK
  <2>5. \A u \in Threads : Holder(u)' =>
          /\ job'[u] \in Jobs \ Queued'
          /\ refs'[u] > 0 /\ refcnt'[job'[u]] >= refs'[u]
    BY <1>0, <1>1, <1>6, <1>7, <2>3, <2>4 DEF SingleOwner
  <2>6. \A u, v \in Threads :
          Holder(u)' /\ Holder(v)' /\ job'[u] = job'[v] => u = v
    BY <1>0, <1>6, <2>3, <2>4 DEF SingleOwner
  <2> QED BY <2>1, <2>2, <2>5, <2>6 DEF SingleOwner
<1>10. FreeStackExact' /\ FilledOnce'
  BY <1>0, <1>1 DEF FreeStackExact, FilledOnce, TypeOK, ThreadTypeOK
<1> QED BY <1>8, <1>9, <1>10 DEF OwnerFacts

(* Every step keeps the inductive invariant.                               *)
LEMMA OwnerNext == OwnerInv /\ [Next]_vars => OwnerInv'
<1> SUFFICES ASSUME OwnerInv, [Next]_vars PROVE OwnerInv'
  OBVIOUS
<1>0. TypeOK' /\ DismantleEmpty' /\ UncountRead' /\ TypeOK /\ ThreadTypeOK
  BY TypeNext, ReadyNext DEF OwnerInv, TypeOK
<1> SUFFICES OwnerFacts'
  BY <1>0 DEF OwnerInv, OwnerFacts
<1>1. ASSUME NEW t \in Threads, Alloc(t) PROVE OwnerFacts'
  BY <1>0, <1>1, OwnerAlloc
<1>2. ASSUME NEW t \in Threads, Retain(t) PROVE OwnerFacts'
  BY <1>0, <1>2, OwnerRetain
<1>3. ASSUME NEW t \in Threads, Release(t) PROVE OwnerFacts'
  BY <1>0, <1>3, OwnerRelease
<1>4. ASSUME NEW t \in Threads, Enqueue(t) PROVE OwnerFacts'
  BY <1>0, <1>4, OwnerEnqueue
<1>5. ASSUME NEW t \in Threads, DequeueTake(t) PROVE OwnerFacts'
  <2>1. CASE count # 0
    BY <1>0, <1>5, <2>1, OwnerDequeue
  <2>2. CASE count = 0
    <3>1. UNCHANGED <<poolVars, ringVars, job, refs>> /\ pc' = [pc EXCEPT ![t] = "idle"]
      BY <1>5, <2>2 DEF DequeueTake, Goto, ringVars
    <3>2. \A u \in Threads : Holder(u)' => Holder(u) /\ u # t
      BY <1>0, <3>1 DEF Holder, ThreadTypeOK
    <3>3. \A u \in Threads : pc'[u] = "filled" => pc[u] = "filled"
      BY <1>0, <3>1 DEF ThreadTypeOK
    <3>4. \A u \in Threads : Holder(u) => refs[u] > 0 /\ refs[u] <= refs[u]
      BY DEF OwnerInv, SingleOwner, TypeOK, ThreadTypeOK
    <3> QED BY <1>0, <3>1, <3>2, <3>3, <3>4, OwnerFrame DEF OwnerFacts
  <2> QED BY <2>1, <2>2
<1>6. ASSUME NEW t \in Threads,
             \/ ReleaseFails(t) \/ FillFails(t) \/ EnqueueRefused(t)
             \/ DequeueEnter(t) \/ SemTake(t) \/ SemWaitFails(t)
             \/ DequeueLockFails(t) \/ UncountUnlocked(t) \/ Repost(t)
             \/ Close(t) \/ DeinitReady(t) \/ DeinitDestroy(t) \/ DeinitDestroyFails(t)
      PROVE OwnerFacts'
  <2>1. UNCHANGED <<poolVars, ringVars>>
    BY <1>6 DEF ReleaseFails, FillFails, EnqueueRefused, DequeueEnter, SemTake,
       SemWaitFails, DequeueLockFails, UncountUnlocked, Repost, Close,
       DeinitReady, DeinitDestroy, DeinitDestroyFails, queueVars, ringVars, OwnerInv, DismantleEmpty
  <2>2. \A u \in Threads : Holder(u) => refs[u] > 0 /\ refs[u] \in Nat
    BY DEF OwnerInv, SingleOwner, TypeOK, ThreadTypeOK
  <2>3. \A u \in Threads : Holder(u)' =>
          Holder(u) /\ job'[u] = job[u] /\ refs'[u] > 0 /\ refs'[u] <= refs[u]
    <3>1. CASE ReleaseFails(t)
      BY <1>0, <2>2, <3>1 DEF ReleaseFails, DropRef, Goto, Holder, ThreadTypeOK
    <3>2. CASE FillFails(t) \/ EnqueueRefused(t)
      BY <1>0, <2>2, <3>2 DEF FillFails, EnqueueRefused, Goto, Holder, ThreadTypeOK
    <3>3. CASE DequeueEnter(t) \/ SemTake(t) \/ SemWaitFails(t)
      BY <1>0, <2>2, <3>3 DEF DequeueEnter, SemTake, SemWaitFails, Goto, Holder, ThreadTypeOK
    <3>4. CASE DequeueLockFails(t) \/ UncountUnlocked(t) \/ Repost(t)
      BY <1>0, <2>2, <3>4 DEF DequeueLockFails, UncountUnlocked, Repost, Goto, Holder, ThreadTypeOK
    <3>5. CASE Close(t) \/ DeinitReady(t) \/ DeinitDestroy(t) \/ DeinitDestroyFails(t)
      BY <1>0, <2>2, <3>5 DEF Close, DeinitReady, DeinitDestroy, DeinitDestroyFails, Goto, Holder,
         ThreadTypeOK, threadVars
    <3> QED BY <1>6, <3>1, <3>2, <3>3, <3>4, <3>5
  <2>4. \A u \in Threads : pc'[u] = "filled" => pc[u] = "filled"
    BY <1>0, <1>6 DEF ReleaseFails, FillFails, EnqueueRefused, DequeueEnter, SemTake,
       SemWaitFails, DequeueLockFails, UncountUnlocked, Repost, Close,
       DeinitReady, DeinitDestroy, DeinitDestroyFails, DropRef, Goto, ThreadTypeOK, threadVars
  <2> QED BY <1>0, <2>1, <2>3, <2>4, OwnerFrame DEF OwnerFacts
<1>7. CASE UNCHANGED vars
  <2>1. \A u \in Threads : Holder(u)' =>
          Holder(u) /\ job'[u] = job[u] /\ refs'[u] > 0 /\ refs'[u] <= refs[u]
    BY <1>7 DEF vars, threadVars, Holder, OwnerInv, SingleOwner, TypeOK, ThreadTypeOK
  <2> QED BY <1>0, <1>7, <2>1, OwnerFrame DEF OwnerFacts, vars, queueVars, threadVars
<1> QED BY <1>1, <1>2, <1>3, <1>4, <1>5, <1>6, <1>7 DEF Next, Step

-----------------------------------------------------------------------------
(* The inductive invariant holds in every reachable state.                 *)
LEMMA OwnerAlways == Spec => []OwnerInv
<1> QED BY OwnerInit, OwnerNext, PTL DEF Spec

(* The variables of the pool and the queue keep their types: indices stay  *)
(* inside buf and free_indices, refcnt inside its width.                   *)
THEOREM TypeCorrect == Spec => []TypeOK
<1>1. OwnerInv => TypeOK
  BY DEF OwnerInv
<1> QED BY <1>1, OwnerAlways, PTL

(* actrust_job_alloc never hands out a job in use and actrust_job_release  *)
(* never overruns the free stack.                                          *)
THEOREM FreeStackCorrect == Spec => []FreeStackExact
<1>1. OwnerInv => FreeStackExact
  BY DEF OwnerInv
<1> QED BY <1>1, OwnerAlways, PTL

(* A job is owned by one thread or one queue slot, whichever primitives    *)
(* fail.                                                                   *)
THEOREM OwnershipCorrect == Spec => []SingleOwner
<1>1. OwnerInv => SingleOwner
  BY DEF OwnerInv
<1> QED BY <1>1, OwnerAlways, PTL
=============================================================================
