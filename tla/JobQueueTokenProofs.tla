------------------------ MODULE JobQueueTokenProofs ------------------------
(***************************************************************************)
(* What JobQueueProofs leaves open: jobs are not lost, wake-up tokens      *)
(* match jobs, the queue is destroyed only when nobody is inside, and the  *)
(* ring buffer implements the FIFO of JobChannel.  All of it rests on the  *)
(* ownership invariant OwnerInv.                                           *)
(***************************************************************************)
EXTENDS JobQueueProofs

(* Without lock failures the reference count of a held job is what its     *)
(* holder owes, so that the holder's last release frees the entry.         *)
ExactRefs ==
  "lock" \notin Faults => \A t \in Threads : Holder(t) => refcnt[job[t]] = refs[t]

(* Without lock failures waiter_count is the number of dequeuers inside,   *)
(* and nobody is on the path that gives a token back.                      *)
WaitersExact ==
  "lock" \notin Faults =>
    /\ waiter_count = Cardinality(Inside)
    /\ \A t \in Threads : pc[t] \notin {"uncount", "repost"}

(* A queue that was destroyed is closed and empty.                         *)
GoneEmpty == ~live => closed /\ count = 0

TokenInv ==
  /\ NoJobLeaked /\ ExactRefs /\ TokensMatchJobs
  /\ WaitersExact /\ DestroyOnlyQuiet /\ GoneEmpty

-----------------------------------------------------------------------------
(* Counting threads: a set of threads that one thread joins or leaves.     *)
LEMMA Counting ==
  ASSUME NEW S \in SUBSET Threads, NEW t \in Threads
  PROVE  /\ Cardinality(S) \in Nat
         /\ t \notin S => Cardinality(S \cup {t}) = Cardinality(S) + 1
         /\ t \in S => Cardinality(S) > 0 /\ Cardinality(S \ {t}) = Cardinality(S) - 1
         /\ Cardinality(S) = 0 <=> S = {}
<1>1. IsFiniteSet(S)
  BY JobQueueAssumption, FS_Subset
<1>2. Cardinality(S) \in Nat /\ (Cardinality(S) = 0 <=> S = {})
  BY <1>1, FS_CardinalityType, FS_EmptySet
<1>3. t \notin S => Cardinality(S \cup {t}) = Cardinality(S) + 1
  BY <1>1, FS_AddElement
<1>4. t \in S => Cardinality(S \ {t}) = Cardinality(S) - 1
  BY <1>1, FS_RemoveElement
<1> QED BY <1>2, <1>3, <1>4

(* The queue as actrust_job_queue_init leaves it.                          *)
LEMMA TokenInit == Init => TokenInv
<1> SUFFICES ASSUME Init PROVE TokenInv
  OBVIOUS
<1>1. Claims = {} /\ Inside = {}
  BY DEF Init, Claims, Inside
<1>2. Cardinality({}) = 0
  BY FS_EmptySet
<1> QED
  BY <1>1, <1>2 DEF Init, TokenInv, NoJobLeaked, ExactRefs, TokensMatchJobs,
     WaitersExact, DestroyOnlyQuiet, GoneEmpty, Holder

(* A destroyed queue takes and hands out nothing more.                     *)
LEMMA GoneNext ==
  ASSUME OwnerInv, TokenInv, [Next]_vars PROVE GoneEmpty'
<1>0. GoneEmpty /\ DismantleEmpty /\ TypeOK
  BY DEF TokenInv, OwnerInv
<1> USE <1>0 DEF GoneEmpty, DismantleEmpty, TypeOK, QueueTypeOK
<1>1. ASSUME NEW t \in Threads, Step(t) PROVE GoneEmpty'
  BY <1>1 DEF Step, Alloc, Retain, Release, ReleaseFails, FillFails, Enqueue,
     EnqueueRefused, DequeueEnter, SemTake, SemWaitFails, DequeueTake, DequeueLockFails,
     UncountUnlocked, Repost, Close, DeinitReady, DeinitDestroy, DeinitDestroyFails,
     queueVars, ringVars, closeVars
<1> QED BY <1>1 DEF Next, vars, queueVars, ringVars, closeVars

-----------------------------------------------------------------------------
(* No job is lost, and holders owe exactly what they hold.                 *)
LeakInv == NoJobLeaked /\ ExactRefs

(* A step that moves no job keeps both facts.                              *)
LEMMA LeakFrame ==
  ASSUME LeakInv, UNCHANGED refcnt, Queued' = Queued,
         \A t \in Threads : Holder(t)' = Holder(t),
         \A t \in Threads : Holder(t) => job'[t] = job[t] /\ refs'[t] = refs[t]
  PROVE  LeakInv'
BY DEF LeakInv, NoJobLeaked, ExactRefs

(* actrust_job_alloc: the new job is held by the allocating thread.        *)
LEMMA LeakAlloc ==
  ASSUME OwnerInv, LeakInv, NEW t \in Threads, Alloc(t) PROVE LeakInv'
<1> DEFINE j == free_indices[free_top]
<1>0. TypeOK /\ FreeStackExact /\ SingleOwner
  BY DEF OwnerInv
<1>a. free_top \in Jobs /\ free_top \in 0..free_top
  BY <1>0, JobQueueAssumption DEF Alloc, TypeOK, PoolTypeOK, Jobs
<1>b. j \in Jobs
  BY <1>0, <1>a DEF TypeOK, PoolTypeOK
<1>c. refcnt[j] = 0
  BY <1>0, <1>a, <1>b DEF FreeStackExact
<1>1. /\ refcnt' = [refcnt EXCEPT ![j] = 1] /\ job' = [job EXCEPT ![t] = j]
      /\ refs' = [refs EXCEPT ![t] = 1] /\ pc' = [pc EXCEPT ![t] = "filled"]
      /\ pc[t] = "idle" /\ UNCHANGED <<buf, head, count>>
  BY DEF Alloc, Goto, queueVars, ringVars
<1>2. Queued' = Queued
  BY <1>1 DEF Queued, SlotOf
<1> HIDE DEF j
<1>3. /\ Holder(t)' /\ ~Holder(t) /\ job'[t] = j /\ refs'[t] = 1 /\ refcnt'[j] = 1
      /\ \A k \in Jobs : k # j => refcnt'[k] = refcnt[k]
      /\ \A u \in Threads : u # t =>
           Holder(u)' = Holder(u) /\ job'[u] = job[u] /\ refs'[u] = refs[u]
  BY <1>0, <1>1, <1>b DEF TypeOK, PoolTypeOK, ThreadTypeOK, Holder
<1>4. \A u \in Threads : Holder(u) => job[u] \in Jobs /\ job[u] # j
  BY <1>0, <1>c DEF SingleOwner, TypeOK, PoolTypeOK, ThreadTypeOK
<1>5. NoJobLeaked'
  BY <1>2, <1>3 DEF LeakInv, NoJobLeaked
<1>6. ExactRefs'
  BY <1>3, <1>4 DEF LeakInv, ExactRefs
<1> QED BY <1>5, <1>6 DEF LeakInv

(* actrust_job_retain: the count and what the holder owes grow together.   *)
LEMMA LeakRetain ==
  ASSUME OwnerInv, LeakInv, NEW t \in Threads, Retain(t) PROVE LeakInv'
<1>0. TypeOK /\ SingleOwner
  BY DEF OwnerInv
<1>1. /\ refcnt' = [refcnt EXCEPT ![job[t]] = @ + 1] /\ refs' = [refs EXCEPT ![t] = @ + 1]
      /\ pc[t] = "owner" /\ UNCHANGED <<buf, head, count, pc, job>>
  BY DEF Retain, queueVars, ringVars
<1>2. Queued' = Queued /\ \A u \in Threads : Holder(u)' = Holder(u)
  BY <1>1 DEF Queued, SlotOf, Holder
<1>3. Holder(t) /\ job[t] \in Jobs
  BY <1>0, <1>1 DEF Holder, SingleOwner
<1>4. /\ refcnt'[job[t]] = refcnt[job[t]] + 1 /\ refs'[t] = refs[t] + 1
      /\ \A k \in Jobs : k # job[t] => refcnt'[k] = refcnt[k]
      /\ \A u \in Threads : u # t => refs'[u] = refs[u]
  BY <1>0, <1>1, <1>3 DEF TypeOK, PoolTypeOK, ThreadTypeOK
<1>5. \A u \in Threads : Holder(u) /\ u # t => job[u] \in Jobs /\ job[u] # job[t]
  BY <1>0, <1>3 DEF SingleOwner
<1>6. NoJobLeaked'
  BY <1>1, <1>2, <1>3, <1>4 DEF LeakInv, NoJobLeaked
<1>7. ExactRefs'
  BY <1>1, <1>2, <1>3, <1>4, <1>5 DEF LeakInv, ExactRefs
<1> QED BY <1>6, <1>7 DEF LeakInv

(* actrust_job_release: the holder's last release takes the count to zero. *)
LEMMA LeakRelease ==
  ASSUME OwnerInv, LeakInv, NEW t \in Threads, Release(t) PROVE LeakInv'
<1> SUFFICES ASSUME "lock" \notin Faults PROVE LeakInv'
  BY DEF LeakInv, NoJobLeaked, ExactRefs
<1>0. TypeOK /\ SingleOwner
  BY DEF OwnerInv
<1>1. pc[t] = "owner" /\ UNCHANGED <<buf, head, count>>
  BY DEF Release, queueVars, ringVars
<1>2. Queued' = Queued
  BY <1>1 DEF Queued, SlotOf
<1>3. Holder(t) /\ job[t] \in Jobs /\ refs[t] \in Nat /\ refs[t] > 0 /\ refcnt[job[t]] = refs[t]
  BY <1>0, <1>1 DEF Holder, SingleOwner, LeakInv, ExactRefs, TypeOK, ThreadTypeOK
<1>4. /\ refcnt'[job[t]] = refs[t] - 1 /\ refs'[t] = refs[t] - 1
      /\ \A k \in Jobs : k # job[t] => refcnt'[k] = refcnt[k]
      /\ \A u \in Threads : u # t => refs'[u] = refs[u]
  BY <1>0, <1>3 DEF Release, PoolRelease, DropRef, TypeOK, PoolTypeOK, ThreadTypeOK
<1>5. /\ \A u \in Threads : u # t => Holder(u)' = Holder(u) /\ job'[u] = job[u]
      /\ refs[t] # 1 => Holder(t)' /\ job'[t] = job[t]
      /\ refs[t] = 1 => ~Holder(t)'
  BY <1>0, <1>3 DEF Release, DropRef, Goto, TypeOK, ThreadTypeOK, Holder
<1>6. \A u \in Threads : Holder(u) /\ u # t => job[u] \in Jobs /\ job[u] # job[t]
  BY <1>0, <1>3 DEF SingleOwner
<1>7. NoJobLeaked'
  BY <1>2, <1>3, <1>4, <1>5 DEF LeakInv, NoJobLeaked
<1>8. ExactRefs'
  BY <1>3, <1>4, <1>5, <1>6 DEF LeakInv, ExactRefs
<1> QED BY <1>7, <1>8 DEF LeakInv

(* Enqueue hands the job from the thread to the ring.                      *)
LEMMA LeakEnqueue ==
  ASSUME OwnerInv, LeakInv, NEW t \in Threads, Enqueue(t) PROVE LeakInv'
<1>0. TypeOK
  BY DEF OwnerInv
<1>1. Queued' = Queued \cup {job[t]}
  BY EnqueueRing
<1>2. /\ refcnt' = refcnt /\ ~Holder(t)'
      /\ \A u \in Threads : u # t =>
           Holder(u)' = Holder(u) /\ job'[u] = job[u] /\ refs'[u] = refs[u]
  BY <1>0 DEF Enqueue, GiveUp, Goto, TypeOK, ThreadTypeOK, Holder, poolVars
<1>3. NoJobLeaked'
  BY <1>1, <1>2 DEF LeakInv, NoJobLeaked
<1>4. ExactRefs'
  BY <1>2 DEF LeakInv, ExactRefs
<1> QED BY <1>3, <1>4 DEF LeakInv

(* Dequeue hands the job from the ring to the thread.                      *)
LEMMA LeakDequeue ==
  ASSUME OwnerInv, LeakInv, NEW t \in Threads, DequeueTake(t), count # 0 PROVE LeakInv'
<1>0. TypeOK
  BY DEF OwnerInv
<1>1. Queued' = Queued \ {buf[head]} /\ refcnt[buf[head]] = 1
  BY DequeueRing
<1>2. /\ refcnt' = refcnt /\ ~Holder(t)
      /\ Holder(t)' /\ job'[t] = buf[head] /\ refs'[t] = 1
      /\ \A u \in Threads : u # t =>
           Holder(u)' = Holder(u) /\ job'[u] = job[u] /\ refs'[u] = refs[u]
  BY <1>0 DEF DequeueTake, Goto, TypeOK, ThreadTypeOK, Holder, poolVars
<1>3. NoJobLeaked'
  BY <1>1, <1>2 DEF LeakInv, NoJobLeaked
<1>4. ExactRefs'
  BY <1>1, <1>2 DEF LeakInv, ExactRefs
<1> QED BY <1>3, <1>4 DEF LeakInv

(* Every step keeps track of every job.                                    *)
LEMMA LeakNext ==
  ASSUME OwnerInv, LeakInv, [Next]_vars PROVE LeakInv'
<1>0. TypeOK /\ ThreadTypeOK /\ DismantleEmpty
  BY DEF OwnerInv, TypeOK
<1>1. ASSUME NEW t \in Threads, ReleaseFails(t) PROVE LeakInv'
  BY <1>1 DEF ReleaseFails, LeakInv, NoJobLeaked, ExactRefs
<1>2. ASSUME NEW t \in Threads,
             \/ FillFails(t) \/ EnqueueRefused(t) \/ DequeueEnter(t) \/ SemTake(t)
             \/ SemWaitFails(t) \/ (DequeueTake(t) /\ count = 0) \/ DequeueLockFails(t)
             \/ UncountUnlocked(t) \/ Repost(t) \/ Close(t) \/ DeinitReady(t)
             \/ DeinitDestroy(t) \/ DeinitDestroyFails(t)
      PROVE LeakInv'
  <2>1. UNCHANGED <<refcnt, buf, head, count>>
    BY <1>0, <1>2 DEF FillFails, EnqueueRefused, DequeueEnter, SemTake, SemWaitFails,
       DequeueTake, DequeueLockFails, UncountUnlocked, Repost, Close, DeinitReady,
       DeinitDestroy, DeinitDestroyFails, queueVars, ringVars, poolVars, DismantleEmpty
  <2>2. Queued' = Queued
    BY <2>1 DEF Queued, SlotOf
  <2>3. job' = job /\ \A u \in Threads : Holder(u)' = Holder(u)
    BY <1>0, <1>2 DEF FillFails, EnqueueRefused, DequeueEnter, SemTake, SemWaitFails,
       DequeueTake, DequeueLockFails, UncountUnlocked, Repost, Close, DeinitReady,
       DeinitDestroy, DeinitDestroyFails, threadVars, Goto, ThreadTypeOK, Holder
  <2>4. \A u \in Threads : Holder(u) => refs'[u] = refs[u]
    BY <1>0, <1>2 DEF FillFails, EnqueueRefused, DequeueEnter, SemTake, SemWaitFails,
       DequeueTake, DequeueLockFails, UncountUnlocked, Repost, Close, DeinitReady,
       DeinitDestroy, DeinitDestroyFails, threadVars, ThreadTypeOK, Holder
  <2> QED BY <2>1, <2>2, <2>3, <2>4, LeakFrame
<1>3. CASE UNCHANGED vars
  <2>1. Queued' = Queued /\ UNCHANGED <<refcnt, pc, job, refs>>
    BY <1>3 DEF vars, poolVars, queueVars, ringVars, threadVars, Queued, SlotOf
  <2> QED BY <2>1, LeakFrame DEF Holder
<1>4. ASSUME NEW t \in Threads, DequeueTake(t) PROVE LeakInv'
  <2>1. CASE count = 0
    BY <1>2, <1>4, <2>1
  <2> QED BY <1>4, <2>1, LeakDequeue
<1>5. ASSUME NEW t \in Threads, Alloc(t) \/ Retain(t) \/ Release(t) \/ Enqueue(t)
      PROVE LeakInv'
  BY <1>5, LeakAlloc, LeakRetain, LeakRelease, LeakEnqueue
<1> QED BY <1>1, <1>2, <1>3, <1>4, <1>5 DEF Next, Step

-----------------------------------------------------------------------------
(* Tokens, dequeuers inside and waiter_count.                              *)
WakeInv == TokensMatchJobs /\ WaitersExact

(* A step by a thread that neither enters nor leaves dequeue and moves no  *)
(* job or token keeps the counts.                                          *)
LEMMA WakeFrame ==
  ASSUME WakeInv, UNCHANGED <<tokens, count, closed, waiter_count>>,
         Claims' = Claims, Inside' = Inside,
         \A t \in Threads : pc'[t] \in {"uncount", "repost"} => pc[t] \in {"uncount", "repost"}
  PROVE  WakeInv'
BY DEF WakeInv, TokensMatchJobs, WaitersExact

(* A thread that moves to p leaves the others where they are.              *)
LEMMA PlaceChange ==
  ASSUME ThreadTypeOK, NEW t \in Threads, NEW p, pc' = [pc EXCEPT ![t] = p]
  PROVE  pc'[t] = p /\ \A u \in Threads : u # t => pc'[u] = pc[u]
BY DEF ThreadTypeOK

(* The sums of TokensMatchJobs and the count of WaitersExact, for sets     *)
(* that one thread joins or leaves.                                        *)
LEMMA Sizes ==
  ASSUME NEW t \in Threads
  PROVE  /\ Cardinality(Claims) \in Nat /\ Cardinality(Inside) \in Nat
         /\ t \notin Claims => Cardinality(Claims \cup {t}) = Cardinality(Claims) + 1
         /\ t \notin Inside => Cardinality(Inside \cup {t}) = Cardinality(Inside) + 1
         /\ t \in Claims => /\ Cardinality(Claims) > 0
                            /\ Cardinality(Claims \ {t}) = Cardinality(Claims) - 1
         /\ t \in Inside => /\ Cardinality(Inside) > 0
                            /\ Cardinality(Inside \ {t}) = Cardinality(Inside) - 1
<1>1. Claims \in SUBSET Threads /\ Inside \in SUBSET Threads
  BY DEF Claims, Inside
<1> QED BY <1>1, Counting

(* Tokens stay in balance when a step moves tokens, claims and jobs        *)
(* together; after a failed give-back or after close one side may slip.    *)
LEMMA Balance ==
  ASSUME TokensMatchJobs,
         \/ tokens + Cardinality(Claims) >= count => tokens' + Cardinality(Claims)' >= count'
         \/ {"lock", "post"} \subseteq Faults,
         \/ closed'
         \/ /\ ~closed
            /\ tokens + Cardinality(Claims) <= count => tokens' + Cardinality(Claims)' <= count'
  PROVE  TokensMatchJobs'
BY Zenon DEF TokensMatchJobs

(* Every step keeps tokens and counts in line.                             *)
LEMMA WakeNext ==
  ASSUME OwnerInv, WakeInv, DestroyOnlyQuiet, [Next]_vars PROVE WakeInv'
<1>0. /\ ThreadTypeOK /\ DismantleEmpty
      /\ tokens \in Nat /\ count \in Nat /\ waiter_count \in Nat /\ closed \in BOOLEAN
  BY JobQueueAssumption DEF OwnerInv, TypeOK, QueueTypeOK
<1> USE <1>0
<1>1. ASSUME NEW t \in Threads,
             \/ Alloc(t) \/ Retain(t) \/ Release(t) \/ ReleaseFails(t) \/ FillFails(t)
             \/ EnqueueRefused(t) \/ DeinitReady(t) \/ DeinitDestroyFails(t)
      PROVE WakeInv'
  <2>1. UNCHANGED <<tokens, count, closed, waiter_count>>
    BY <1>1 DEF Alloc, Retain, Release, ReleaseFails, FillFails, EnqueueRefused,
       DeinitReady, DeinitDestroyFails, queueVars, ringVars, closeVars
  <2>2. \/ UNCHANGED pc
        \/ /\ pc[t] \in {"idle", "filled", "owner", "dismantle"}
           /\ \E p \in {"idle", "filled", "owner", "dismantle"} : pc' = [pc EXCEPT ![t] = p]
    BY <1>1 DEF Alloc, Retain, Release, ReleaseFails, FillFails, EnqueueRefused,
       DeinitReady, DeinitDestroyFails, DropRef, Goto
  <2>3. \A u \in Threads : \/ pc'[u] = pc[u]
                           \/ {pc[u], pc'[u]} \subseteq {"idle", "filled", "owner", "dismantle"}
    BY <2>2 DEF ThreadTypeOK
  <2>4. Claims' = Claims /\ Inside' = Inside
    BY <2>3 DEF Claims, Inside
  <2> QED BY <2>1, <2>3, <2>4, WakeFrame
<1>2. ASSUME NEW t \in Threads, Enqueue(t) PROVE WakeInv'
  <2>1. /\ pc[t] = "filled" /\ pc' = [pc EXCEPT ![t] = "idle"]
        /\ tokens' = tokens + 1 /\ count' = count + 1 /\ UNCHANGED <<closed, waiter_count>>
    BY <1>2 DEF Enqueue, Store, GiveUp, Goto, closeVars
  <2>2. Claims' = Claims /\ Inside' = Inside /\ \A u \in Threads : pc'[u] = pc[u] \/ pc'[u] = "idle"
    BY <2>1 DEF ThreadTypeOK, Claims, Inside
  <2>3. TokensMatchJobs'
    <3>0. Cardinality(Claims) \in Nat /\ Cardinality(Claims)' = Cardinality(Claims)
      BY <2>2, Sizes
    <3>1. /\ tokens + Cardinality(Claims) >= count => tokens' + Cardinality(Claims)' >= count'
          /\ tokens + Cardinality(Claims) <= count => tokens' + Cardinality(Claims)' <= count'
      BY <2>1, <3>0
    <3> QED BY <2>1, <3>1, Balance DEF WakeInv
  <2>4. WaitersExact'
    BY <2>1, <2>2, Sizes DEF WakeInv, WaitersExact
  <2> QED BY <2>3, <2>4 DEF WakeInv
<1>3. ASSUME NEW t \in Threads, DequeueEnter(t) PROVE WakeInv'
  <2>1. /\ pc[t] = "idle" /\ pc' = [pc EXCEPT ![t] = "waiting"]
        /\ waiter_count' = waiter_count + 1 /\ UNCHANGED <<tokens, count, closed>>
    BY <1>3 DEF DequeueEnter, Goto, ringVars, closeVars
  <2>2. /\ Claims' = Claims /\ Inside' = Inside \cup {t} /\ t \notin Inside
        /\ \A u \in Threads : pc'[u] = pc[u] \/ pc'[u] = "waiting"
    BY <2>1 DEF ThreadTypeOK, Claims, Inside
  <2>3. TokensMatchJobs'
    <3>0. Cardinality(Claims) \in Nat /\ Cardinality(Claims)' = Cardinality(Claims)
      BY <2>2, Sizes
    <3>1. /\ tokens + Cardinality(Claims) >= count => tokens' + Cardinality(Claims)' >= count'
          /\ tokens + Cardinality(Claims) <= count => tokens' + Cardinality(Claims)' <= count'
      BY <2>1, <3>0
    <3> QED BY <2>1, <3>1, Balance DEF WakeInv
  <2>4. WaitersExact'
    BY <2>1, <2>2, Sizes DEF WakeInv, WaitersExact
  <2> QED BY <2>3, <2>4 DEF WakeInv
<1>4. ASSUME NEW t \in Threads, SemTake(t) PROVE WakeInv'
  <2>1. /\ pc[t] = "waiting" /\ pc' = [pc EXCEPT ![t] = "granted"]
        /\ tokens' = tokens - 1 /\ UNCHANGED <<count, closed, waiter_count>>
    BY <1>4 DEF SemTake, Goto, ringVars, closeVars
  <2>2. /\ Claims' = Claims \cup {t} /\ t \notin Claims /\ Inside' = Inside
        /\ \A u \in Threads : pc'[u] = pc[u] \/ pc'[u] = "granted"
    BY <2>1 DEF ThreadTypeOK, Claims, Inside
  <2>3. TokensMatchJobs'
    <3>0. Cardinality(Claims) \in Nat /\ Cardinality(Claims)' = Cardinality(Claims) + 1
      BY <2>2, Sizes
    <3>1. /\ tokens + Cardinality(Claims) >= count => tokens' + Cardinality(Claims)' >= count'
          /\ tokens + Cardinality(Claims) <= count => tokens' + Cardinality(Claims)' <= count'
      BY <2>1, <3>0
    <3> QED BY <2>1, <3>1, Balance DEF WakeInv
  <2>4. WaitersExact'
    BY <2>1, <2>2, Sizes DEF WakeInv, WaitersExact
  <2> QED BY <2>3, <2>4 DEF WakeInv
<1>5. ASSUME NEW t \in Threads, SemWaitFails(t) PROVE WakeInv'
  <2>1. /\ pc[t] = "waiting" /\ pc' = [pc EXCEPT ![t] = "idle"]
        /\ UNCHANGED <<tokens, count, closed>>
        /\ "lock" \notin Faults /\ waiter_count > 0 => waiter_count' = waiter_count - 1
    BY <1>5 DEF SemWaitFails, Goto, ringVars, closeVars
  <2>2. /\ Claims' = Claims /\ Inside' = Inside \ {t} /\ t \in Inside
        /\ \A u \in Threads : pc'[u] = pc[u] \/ pc'[u] = "idle"
    BY <2>1 DEF ThreadTypeOK, Claims, Inside
  <2>3. TokensMatchJobs'
    <3>0. Cardinality(Claims) \in Nat /\ Cardinality(Claims)' = Cardinality(Claims)
      BY <2>2, Sizes
    <3>1. /\ tokens + Cardinality(Claims) >= count => tokens' + Cardinality(Claims)' >= count'
          /\ tokens + Cardinality(Claims) <= count => tokens' + Cardinality(Claims)' <= count'
      BY <2>1, <3>0
    <3> QED BY <2>1, <3>1, Balance DEF WakeInv
  <2>4. WaitersExact'
    BY <2>1, <2>2, Sizes DEF WakeInv, WaitersExact
  <2> QED BY <2>3, <2>4 DEF WakeInv
<1>6. ASSUME NEW t \in Threads, DequeueTake(t) PROVE WakeInv'
  <2>1. /\ pc[t] = "granted" /\ UNCHANGED <<tokens, closed>>
        /\ \E p \in {"idle", "owner"} : pc' = [pc EXCEPT ![t] = p]
        /\ waiter_count > 0 => waiter_count' = waiter_count - 1
        /\ count' = IF count = 0 THEN count ELSE count - 1
    BY <1>6 DEF DequeueTake, Goto, closeVars
  <2>2. /\ Claims' = Claims \ {t} /\ t \in Claims /\ Inside' = Inside \ {t} /\ t \in Inside
        /\ \A u \in Threads : pc'[u] = pc[u] \/ pc'[u] \in {"idle", "owner"}
    BY <2>1 DEF ThreadTypeOK, Claims, Inside
  <2>3. TokensMatchJobs'
    <3>0. Cardinality(Claims) \in Nat /\ Cardinality(Claims)' = Cardinality(Claims) - 1
          /\ Cardinality(Claims) > 0
      BY <2>2, Sizes
    <3>1. /\ tokens + Cardinality(Claims) >= count => tokens' + Cardinality(Claims)' >= count'
          /\ tokens + Cardinality(Claims) <= count => tokens' + Cardinality(Claims)' <= count'
      BY <2>1, <3>0
    <3> QED BY <2>1, <3>1, Balance DEF WakeInv
  <2>4. WaitersExact'
    BY <2>1, <2>2, Sizes DEF WakeInv, WaitersExact
  <2> QED BY <2>3, <2>4 DEF WakeInv
<1>7. ASSUME NEW t \in Threads, DequeueLockFails(t) \/ UncountUnlocked(t) \/ Repost(t)
      PROVE WakeInv'
  <2>1. "lock" \in Faults
    BY <1>7 DEF DequeueLockFails, UncountUnlocked, Repost, WakeInv, WaitersExact
  <2>2. CASE DequeueLockFails(t) \/ UncountUnlocked(t)
    <3>1. /\ pc[t] \in {"granted", "uncount"} /\ UNCHANGED <<tokens, count, closed>>
          /\ \E p \in {"uncount", "repost"} : pc' = [pc EXCEPT ![t] = p]
      BY <2>2 DEF DequeueLockFails, UncountUnlocked, Goto, queueVars, ringVars, closeVars
    <3>2. Claims' = Claims
      BY <3>1 DEF ThreadTypeOK, Claims, Inside
    <3> QED BY <2>1, <3>1, <3>2 DEF WakeInv, TokensMatchJobs, WaitersExact
  <2>3. CASE Repost(t)
    <3>1. /\ pc[t] = "repost" /\ pc' = [pc EXCEPT ![t] = "idle"] /\ UNCHANGED <<count, closed>>
          /\ tokens' = tokens + 1 \/ ("post" \in Faults /\ tokens' = tokens)
      BY <2>3 DEF Repost, Goto, ringVars, closeVars
    <3>2. Claims' = Claims \ {t} /\ t \in Claims
      BY <3>1 DEF ThreadTypeOK, Claims, Inside
    <3>3. TokensMatchJobs'
      <4>0. Cardinality(Claims) \in Nat /\ Cardinality(Claims)' = Cardinality(Claims) - 1
        BY <3>2, Sizes
      <4>1. /\ \/ tokens + Cardinality(Claims) >= count => tokens' + Cardinality(Claims)' >= count'
               \/ "post" \in Faults
            /\ tokens + Cardinality(Claims) <= count => tokens' + Cardinality(Claims)' <= count'
        BY <3>1, <4>0
      <4> QED BY <2>1, <3>1, <4>1, Balance DEF WakeInv
    <3> QED BY <2>1, <3>3 DEF WakeInv, WaitersExact
  <2> QED BY <1>7, <2>2, <2>3
<1>8. ASSUME NEW t \in Threads, Close(t) PROVE WakeInv'
  <2>1. /\ closed' = TRUE /\ UNCHANGED <<count, waiter_count, pc>>
        /\ tokens' \in Nat /\ tokens' >= tokens
    BY <1>8 DEF Close, ringVars, threadVars, WakeDue, OwnerInv, TypeOK, QueueTypeOK
  <2>2. Claims' = Claims /\ Inside' = Inside
    BY <2>1 DEF Claims, Inside
  <2>3. tokens + Cardinality(Claims) >= count => tokens' + Cardinality(Claims)' >= count'
    <3>1. Cardinality(Claims) \in Nat /\ Cardinality(Claims)' = Cardinality(Claims)
      BY <1>8, <2>2, Sizes
    <3> QED BY <2>1, <3>1
  <2>4. TokensMatchJobs'
    BY <2>1, <2>3, Balance DEF WakeInv
  <2>5. WaitersExact'
    BY <2>1, <2>2 DEF WakeInv, WaitersExact
  <2> QED BY <2>4, <2>5 DEF WakeInv
<1>9. ASSUME NEW t \in Threads, DeinitDestroy(t) PROVE WakeInv'
  <2>1. /\ pc[t] = "dismantle" /\ pc' = [pc EXCEPT ![t] = "idle"] /\ closed
        /\ count' = 0 /\ waiter_count' = 0 /\ UNCHANGED <<tokens, closed>>
    BY <1>9 DEF DeinitDestroy, Goto, DismantleEmpty
  <2>2. /\ Claims' = Claims /\ Inside' = Inside
        /\ \A u \in Threads : pc'[u] = pc[u] \/ pc'[u] = "idle"
    BY <2>1 DEF ThreadTypeOK, Claims, Inside
  <2>3. "lock" \notin Faults => Cardinality(Inside) = 0
    BY <2>1, FS_EmptySet DEF DestroyOnlyQuiet
  <2>4. tokens + Cardinality(Claims) >= count => tokens' + Cardinality(Claims)' >= count'
    <3>1. Cardinality(Claims) \in Nat /\ Cardinality(Claims)' = Cardinality(Claims)
      BY <1>9, <2>2, Sizes
    <3> QED BY <2>1, <3>1
  <2>5. TokensMatchJobs'
    BY <2>1, <2>4, Balance DEF WakeInv
  <2>6. WaitersExact'
    BY <2>1, <2>2, <2>3 DEF WakeInv, WaitersExact
  <2> QED BY <2>5, <2>6 DEF WakeInv
<1>10. CASE UNCHANGED vars
  <2>1. UNCHANGED <<tokens, count, closed, waiter_count, pc>>
    BY <1>10 DEF vars, queueVars, ringVars, closeVars, threadVars
  <2>2. Claims' = Claims /\ Inside' = Inside
    BY <2>1 DEF Claims, Inside
  <2> QED BY <2>1, <2>2, WakeFrame
<1> QED
  BY <1>1, <1>2, <1>3, <1>4, <1>5, <1>6, <1>7, <1>8, <1>9, <1>10 DEF Next, Step

-----------------------------------------------------------------------------
(* The queue has been destroyed or is about to be.                         *)
Doomed == ~live \/ \E t \in Threads : pc[t] = "dismantle"

(* deinit finds waiter_count zero only when nobody is inside, and nobody   *)
(* enters a closed, empty queue afterwards.                                *)
LEMMA QuietNext ==
  ASSUME OwnerInv, OwnerInv', WakeInv, DestroyOnlyQuiet, GoneEmpty', [Next]_vars
  PROVE  DestroyOnlyQuiet'
<1> SUFFICES ASSUME "lock" \notin Faults, Doomed'
             PROVE  closed' /\ count' = 0 /\ Inside' = {} /\ Claims' = {}
  BY DEF DestroyOnlyQuiet, Doomed
<1>0. ThreadTypeOK /\ ThreadTypeOK'
  BY DEF OwnerInv, TypeOK
<1>1. closed' /\ count' = 0
  BY DEF OwnerInv, DismantleEmpty, GoneEmpty, Doomed
<1>2. CASE Doomed
  <2>1. closed /\ count = 0 /\ \A u \in Threads : u \notin Inside /\ u \notin Claims
    BY <1>2 DEF DestroyOnlyQuiet, Doomed
  <2>2. \A u \in Threads : pc[u] \notin {"waiting", "granted", "uncount", "repost"}
    BY <2>1 DEF Inside, Claims
  <2>3. ASSUME NEW t \in Threads, Step(t)
        PROVE \A u \in Threads : pc'[u] \notin {"waiting", "granted", "uncount", "repost"}
    <3>1. \/ UNCHANGED pc
          \/ \E p \in {"idle", "filled", "owner", "dismantle"} : pc' = [pc EXCEPT ![t] = p]
      BY <2>1, <2>2, <2>3 DEF Step, Alloc, Retain, Release, ReleaseFails, FillFails, Enqueue,
         EnqueueRefused, DequeueEnter, SemTake, SemWaitFails, DequeueTake, DequeueLockFails,
         UncountUnlocked, Repost, Close, DeinitReady, DeinitDestroy, DeinitDestroyFails,
         DropRef, GiveUp, Goto, threadVars
    <3> QED BY <1>0, <2>2, <3>1 DEF ThreadTypeOK
  <2>4. \A u \in Threads : pc'[u] \notin {"waiting", "granted", "uncount", "repost"}
    BY <2>2, <2>3 DEF Next, vars, threadVars
  <2> QED BY <1>1, <2>4 DEF Inside, Claims
<1>3. CASE ~Doomed
  <2>1. PICK t \in Threads : DeinitReady(t)
    <3>1. ASSUME NEW t \in Threads, Step(t), ~DeinitReady(t) PROVE FALSE
      <4>1. live' = live
        BY <1>3, <3>1 DEF Step, Alloc, Retain, Release, ReleaseFails, FillFails, Enqueue,
           EnqueueRefused, DequeueEnter, SemTake, SemWaitFails, DequeueTake, DequeueLockFails,
           UncountUnlocked, Repost, Close, DeinitReady, DeinitDestroy, DeinitDestroyFails,
           Doomed, queueVars, closeVars
      <4>2. \/ UNCHANGED pc
            \/ \E p \in Positions \ {"dismantle"} : pc' = [pc EXCEPT ![t] = p]
        BY <3>1 DEF Step, Alloc, Retain, Release, ReleaseFails, FillFails, Enqueue,
           EnqueueRefused, DequeueEnter, SemTake, SemWaitFails, DequeueTake, DequeueLockFails,
           UncountUnlocked, Repost, Close, DeinitReady, DeinitDestroy, DeinitDestroyFails,
           DropRef, GiveUp, Goto, threadVars, Positions
      <4> QED BY <1>0, <1>3, <4>1, <4>2 DEF Doomed, ThreadTypeOK
    <3> QED BY <1>3, <3>1 DEF Next, vars, queueVars, closeVars, threadVars, Doomed
  <2>2. waiter_count = 0 /\ pc[t] = "idle" /\ pc' = [pc EXCEPT ![t] = "dismantle"]
    BY <2>1 DEF DeinitReady, Goto
  <2>3. Inside = {}
    <3>1. Inside \in SUBSET Threads /\ Cardinality(Inside) = 0
      BY <2>2 DEF Inside, WakeInv, WaitersExact
    <3> QED BY <3>1, Counting
  <2>4. \A u \in Threads : pc[u] \notin {"waiting", "granted", "uncount", "repost"}
    BY <2>3 DEF Inside, WakeInv, WaitersExact
  <2> QED BY <1>0, <1>1, <2>2, <2>4 DEF ThreadTypeOK, Inside, Claims
<1> QED BY <1>2, <1>3

-----------------------------------------------------------------------------
(* The whole invariant is inductive relative to OwnerInv.                  *)
LEMMA TokenNext == OwnerInv /\ OwnerInv' /\ TokenInv /\ [Next]_vars => TokenInv'
<1> SUFFICES ASSUME OwnerInv, OwnerInv', TokenInv, [Next]_vars PROVE TokenInv'
  OBVIOUS
<1>1. LeakInv /\ WakeInv /\ DestroyOnlyQuiet
  BY DEF TokenInv, LeakInv, WakeInv
<1>2. LeakInv'
  BY <1>1, LeakNext
<1>3. WakeInv'
  BY <1>1, WakeNext
<1>4. GoneEmpty'
  BY GoneNext
<1>5. DestroyOnlyQuiet'
  BY <1>1, <1>4, QuietNext
<1> QED BY <1>2, <1>3, <1>4, <1>5 DEF TokenInv, LeakInv, WakeInv

(* It holds in every reachable state.                                      *)
LEMMA TokenAlways == Spec => [](OwnerInv /\ TokenInv)
<1> QED BY OwnerInit, OwnerNext, TokenInit, TokenNext, PTL DEF Spec

(* Without lock failures no pool entry is lost: whatever has a reference   *)
(* is queued or held.                                                      *)
THEOREM NoLeak == Spec => []NoJobLeaked
<1>1. TokenInv => NoJobLeaked
  BY DEF TokenInv
<1> QED BY <1>1, TokenAlways, PTL

(* Every queued job has its wake-up and, while the queue is open, nobody   *)
(* is woken for nothing, whichever primitives fail.                        *)
THEOREM TokensCorrect == Spec => []TokensMatchJobs
<1>1. TokenInv => TokensMatchJobs
  BY DEF TokenInv
<1> QED BY <1>1, TokenAlways, PTL

(* deinit destroys the semaphore and the lock under nobody.                *)
THEOREM DestroyQuiet == Spec => []DestroyOnlyQuiet
<1>1. TokenInv => DestroyOnlyQuiet
  BY DEF TokenInv
<1> QED BY <1>1, TokenAlways, PTL

-----------------------------------------------------------------------------
(* The refinement.  Fifo is the sequence of queued jobs, oldest first.     *)
Fifo == [i \in 1..count |-> buf[SlotOf(i)]]

(* It is a sequence of jobs as long as count.                              *)
LEMMA FifoType ==
  ASSUME OwnerInv PROVE Fifo \in Seq(Jobs) /\ Len(Fifo) = count /\ count \in Nat
<1>1. count \in Nat /\ \A i \in 1..count : buf[SlotOf(i)] \in Jobs
  BY JobQueueAssumption DEF OwnerInv, TypeOK, QueueTypeOK, SingleOwner
<1> QED BY <1>1 DEF Fifo

(* A step that leaves the ring alone leaves the sequence alone.            *)
LEMMA FifoFrame ==
  ASSUME UNCHANGED <<buf, head, count>> PROVE Fifo' = Fifo
BY DEF Fifo, SlotOf

(* Enqueue appends to the sequence, dequeue takes its head.                *)
LEMMA FifoMoves ==
  ASSUME OwnerInv, OwnerInv', NEW t \in Threads
  PROVE  /\ Enqueue(t) => Fifo' = Append(Fifo, job[t])
         /\ DequeueTake(t) /\ count # 0 => Fifo' = Tail(Fifo) /\ Fifo # <<>>
<1>0. /\ Fifo \in Seq(Jobs) /\ Len(Fifo) = count /\ count \in Nat
      /\ Fifo' \in Seq(Jobs) /\ Len(Fifo') = count' /\ count' \in Nat
  <2>1. (Fifo \in Seq(Jobs) /\ Len(Fifo) = count /\ count \in Nat)'
    <3>1. count' \in Nat /\ \A i \in 1..count' : buf'[SlotOf(i)'] \in Jobs
      BY JobQueueAssumption DEF OwnerInv, TypeOK, QueueTypeOK, SingleOwner
    <3> QED BY <3>1 DEF Fifo
  <2> QED BY <2>1, FifoType
<1>1. ASSUME Enqueue(t) PROVE Fifo' = Append(Fifo, job[t])
  <2>1. count' = count + 1
    BY <1>1 DEF Enqueue, Store
  <2>n. PICK n \in Nat : n = count + 1
    BY <1>0
  <2>2. job[t] \in Jobs
    BY <1>1, EnqueueRing
  <2>3. /\ \A i \in 1..count : Fifo'[i] = Fifo[i]
        /\ Fifo'[n] = job[t] /\ 1..count' = (1..count) \cup {n}
    <3>1. /\ \A i \in 1..count : buf'[SlotOf(i)'] = buf[SlotOf(i)]
          /\ buf'[SlotOf(n)'] = job[t] /\ 1..count' = (1..count) \cup {n}
      BY <1>1, <2>n, EnqueueRing
    <3> QED BY <3>1 DEF Fifo
  <2> QED BY <1>0, <2>1, <2>n, <2>2, <2>3
<1>2. ASSUME DequeueTake(t), count # 0 PROVE Fifo' = Tail(Fifo) /\ Fifo # <<>>
  <2>1. count' = count - 1
    BY <1>2 DEF DequeueTake
  <2>2. \A i \in 1..count' : Fifo'[i] = Fifo[i + 1]
    <3>1. \A i \in 1..count' : buf'[SlotOf(i)'] = buf[SlotOf(i + 1)] /\ i + 1 \in 2..count
      BY <1>2, DequeueRing
    <3>2. \A i \in 1..count' : i + 1 \in 1..count
      BY <1>0, <3>1
    <3> QED BY <3>1, <3>2 DEF Fifo
  <2> QED BY <1>0, <1>2, <2>1, <2>2
<1> QED BY <1>1, <1>2

(* Every step of the pool and the queue is a step of the channel or leaves *)
(* it alone.                                                               *)
LEMMA ChannelStep ==
  OwnerInv /\ OwnerInv' /\ TokenInv /\ [Next]_vars => [Channel!ChannelNext]_(Channel!cvars)
<1> SUFFICES ASSUME OwnerInv, OwnerInv', TokenInv, [Next]_vars
             PROVE  Channel!ChannelNext \/ UNCHANGED Channel!cvars
  BY DEF Channel!cvars
<1>0. /\ Fifo \in Seq(Jobs) /\ Len(Fifo) = count /\ count \in Nat
      /\ closed \in BOOLEAN /\ live \in BOOLEAN /\ GoneEmpty /\ DismantleEmpty
  BY FifoType DEF OwnerInv, TypeOK, QueueTypeOK, TokenInv
<1>1. ASSUME Fifo' = Fifo, UNCHANGED <<closed, live>> PROVE UNCHANGED Channel!cvars
  BY <1>1 DEF Channel!cvars, Fifo
<1>2. ASSUME NEW t \in Threads, Enqueue(t) PROVE Channel!ChannelNext
  <2>1. /\ Fifo' = Append(Fifo, job[t]) /\ job[t] \in Jobs \ Queued
        /\ ~closed /\ live /\ Len(Fifo) < Depth /\ UNCHANGED <<closed, live>>
    BY <1>0, <1>2, FifoMoves, EnqueueRing DEF Enqueue, closeVars
  <2>2. \A i \in 1..Len(Fifo) : Fifo[i] # job[t]
    BY <1>0, <2>1 DEF Fifo, Queued
  <2>3. Channel!Accept(job[t])
    BY <2>1, <2>2 DEF Channel!Accept, Fifo
  <2> QED BY <2>1, <2>3 DEF Channel!ChannelNext
<1>3. ASSUME NEW t \in Threads, DequeueTake(t), count # 0 PROVE Channel!ChannelNext
  <2>1. Fifo' = Tail(Fifo) /\ Fifo # <<>> /\ live /\ UNCHANGED <<closed, live>>
    BY <1>0, <1>3, FifoMoves DEF DequeueTake, closeVars, GoneEmpty
  <2>2. Channel!Deliver
    BY <2>1 DEF Channel!Deliver, Fifo
  <2> QED BY <2>2 DEF Channel!ChannelNext
<1>4. ASSUME NEW t \in Threads, Close(t) PROVE Channel!ChannelNext \/ UNCHANGED Channel!cvars
  <2>1. closed' = TRUE /\ UNCHANGED live /\ Fifo' = Fifo
    BY <1>4, FifoFrame DEF Close, ringVars
  <2>2. CASE closed
    BY <1>0, <1>1, <2>1, <2>2
  <2>3. CASE ~closed
    <3>1. Channel!Shut
      BY <2>1, <2>3 DEF Channel!Shut, Fifo
    <3> QED BY <3>1 DEF Channel!ChannelNext
  <2> QED BY <2>2, <2>3
<1>5. ASSUME NEW t \in Threads, DeinitDestroy(t)
      PROVE  Channel!ChannelNext \/ UNCHANGED Channel!cvars
  <2>1. closed /\ live' = FALSE /\ UNCHANGED closed /\ count = 0 /\ Fifo' = Fifo
    BY <1>0, <1>5, FifoFrame DEF DeinitDestroy, DismantleEmpty
  <2>2. CASE ~live
    BY <1>0, <1>1, <2>1, <2>2
  <2>3. CASE live
    <3>1. Fifo = <<>>
      BY <1>0, <2>1
    <3>2. Channel!Dismantle
      BY <2>1, <2>3, <3>1 DEF Channel!Dismantle, Fifo
    <3> QED BY <3>2 DEF Channel!ChannelNext
  <2> QED BY <2>2, <2>3
<1>6. ASSUME NEW t \in Threads,
             \/ Alloc(t) \/ Retain(t) \/ Release(t) \/ ReleaseFails(t) \/ FillFails(t)
             \/ EnqueueRefused(t) \/ DequeueEnter(t) \/ SemTake(t) \/ SemWaitFails(t)
             \/ (DequeueTake(t) /\ count = 0) \/ DequeueLockFails(t) \/ UncountUnlocked(t)
             \/ Repost(t) \/ DeinitReady(t) \/ DeinitDestroyFails(t)
      PROVE  UNCHANGED Channel!cvars
  <2>1. UNCHANGED <<buf, head, count, closed, live>>
    BY <1>6 DEF Alloc, Retain, Release, ReleaseFails, FillFails, EnqueueRefused,
       DequeueEnter, SemTake, SemWaitFails, DequeueTake, DequeueLockFails,
       UncountUnlocked, Repost, DeinitReady, DeinitDestroyFails, queueVars, ringVars, closeVars
  <2> QED BY <1>1, <2>1, FifoFrame
<1>7. CASE UNCHANGED vars
  BY <1>1, <1>7, FifoFrame DEF vars, queueVars, ringVars, closeVars
<1> QED BY <1>2, <1>3, <1>4, <1>5, <1>6, <1>7 DEF Next, Step

(* The ring buffer with its semaphore and its failing primitives           *)
(* implements the bounded FIFO that core_job.h promises: for any number of *)
(* threads jobs leave in the order in which they were accepted, none after *)
(* close, and teardown waits for an empty queue.                           *)
THEOREM QueueImplementsChannel == Spec => ImplementsChannel
<1>1. Init => Channel!ChannelInit
  BY DEF Init, Channel!ChannelInit
<1> QED
  BY <1>1, ChannelStep, TokenAlways, PTL DEF Spec, ImplementsChannel, Channel!ChannelSpec
=============================================================================
