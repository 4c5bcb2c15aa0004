------------------------------ MODULE JobQueue ------------------------------
(***************************************************************************)
(* The job pool and the job queue of core_job.c, driven by threads that    *)
(* post jobs (core_post_job), take them (actrust_job_queue_dequeue) and    *)
(* tear the queue down (close, deinit).                                    *)
(*                                                                         *)
(* Code that runs under pool->mutex or q->lock is one step.  A dequeuer    *)
(* gives the lock up while it waits on sem_items, so dequeue is three      *)
(* steps: enter, take a token, take the job.  The synchronisation calls    *)
(* the code checks may fail; Faults says which kinds do:                   *)
(*   "lock"  actrust_mutex_lock returns an error                           *)
(*   "post"  actrust_sem_post returns an error                             *)
(*   "wait"  actrust_sem_wait returns an error other than a timeout        *)
(*   "destroy"  actrust_sem_destroy or actrust_mutex_destroy does          *)
(***************************************************************************)
EXTENDS Integers, FiniteSets, Sequences

CONSTANTS Threads,    \* threads that use the pool and the queue
          Dequeuers,  \* the threads among them that call dequeue
          PoolSize,   \* CONFIG_ACTRUST_CORE_JOB_POOL_SIZE
          Depth,      \* CONFIG_ACTRUST_CORE_JOB_QUEUE_CAPACITY
          RefMax,     \* UINT8_MAX, the limit of job->refcnt
          WaiterMax,  \* bound on waiter_count (UINT16_MAX in the code)
          Faults,     \* the kinds of synchronisation call that may fail
          NoJob       \* a NULL job pointer

ASSUME JobQueueAssumption ==
  /\ PoolSize \in Nat \ {0}
  /\ Depth \in Nat \ {0}
  /\ RefMax \in Nat \ {0}
  /\ WaiterMax \in Nat
  /\ IsFiniteSet(Threads)
  /\ Dequeuers \subseteq Threads
  /\ Faults \subseteq {"lock", "post", "wait", "destroy"}
  /\ NoJob \notin 0..(PoolSize - 1)

Jobs  == 0..(PoolSize - 1)
Slots == 0..(Depth - 1)

VARIABLES
  refcnt,              \* refcnt[j]: reference count of pool entry j
  free_indices,        \* the stack of free pool entries ...
  free_top,            \* ... and the index of its top, -1 when it is empty
  buf, head, tail, count,   \* the ring buffer of queued jobs
  waiter_count,        \* dequeuers between their two critical sections
  close_wake_pending,  \* wake-up tokens close still has to post
  closed,
  tokens,              \* the value of sem_items
  live,                \* q->lock exists: the queue is not deinitialised
  pc, job, refs        \* per thread: position, job held, references held on it

poolVars  == <<refcnt, free_indices, free_top>>
ringVars  == <<buf, head, tail, count>>
closeVars == <<close_wake_pending, closed, live>>
queueVars == <<ringVars, waiter_count, closeVars, tokens>>
threadVars == <<pc, job, refs>>
vars == <<poolVars, queueVars, threadVars>>

(* Positions of a thread:                                                  *)
(*   idle      outside every operation                                     *)
(*   filled    core_post_job has a job it has not enqueued yet             *)
(*   owner     holds a job it must release (dequeued, or refused)          *)
(*   waiting   in actrust_sem_wait                                         *)
(*   granted   took a token, about to lock q->lock again                   *)
(*   uncount   failed to lock q->lock; has read waiter_count without it    *)
(*   repost    about to give the token back                                *)
(*   dismantle deinit found the queue ready and is about to destroy it     *)
Positions == {"idle", "filled", "owner", "waiting", "granted", "uncount",
              "repost", "dismantle"}

Init ==
  /\ refcnt = [j \in Jobs |-> 0]
  /\ free_indices = [i \in Jobs |-> i]
  /\ free_top = PoolSize - 1
  /\ buf = [s \in Slots |-> NoJob]
  /\ head = 0 /\ tail = 0 /\ count = 0
  /\ waiter_count = 0 /\ close_wake_pending = 0
  /\ closed = FALSE /\ tokens = 0 /\ live = TRUE
  /\ pc = [t \in Threads |-> "idle"]
  /\ job = [t \in Threads |-> NoJob]
  /\ refs = [t \in Threads |-> 0]

Goto(t, p) == pc' = [pc EXCEPT ![t] = p]

-----------------------------------------------------------------------------
(* The pool.                                                               *)

(* actrust_job_alloc: pop a free entry and take the first reference.       *)
Alloc(t) ==
  /\ pc[t] = "idle" /\ live
  /\ free_top >= 0
  /\ LET j == free_indices[free_top]
     IN  /\ refcnt' = [refcnt EXCEPT ![j] = 1]
         /\ job' = [job EXCEPT ![t] = j]
  /\ free_top' = free_top - 1
  /\ refs' = [refs EXCEPT ![t] = 1]
  /\ Goto(t, "filled")
  /\ UNCHANGED <<free_indices, queueVars>>

(* actrust_job_retain by the thread that owns the job.                     *)
Retain(t) ==
  /\ pc[t] = "owner"
  /\ refcnt[job[t]] \in 1..(RefMax - 1)
  /\ refcnt' = [refcnt EXCEPT ![job[t]] = @ + 1]
  /\ refs' = [refs EXCEPT ![t] = @ + 1]
  /\ UNCHANGED <<free_indices, free_top, queueVars, pc, job>>

(* Mutation: every release pushes the entry, not only the last one.        *)
PoolReleaseEager(j) ==
  /\ refcnt' = [refcnt EXCEPT ![j] = IF @ > 0 THEN @ - 1 ELSE 0]
  /\ free_top' = free_top + 1
  /\ free_indices' = [free_indices EXCEPT ![free_top + 1] = j]

(* The pool half of actrust_job_release: the last reference pushes the     *)
(* entry on the free stack; an entry with no reference is refused.         *)
PoolRelease(j) ==
  IF refcnt[j] = 1
    THEN /\ refcnt' = [refcnt EXCEPT ![j] = 0]
         /\ free_top' = free_top + 1
         /\ free_indices' = [free_indices EXCEPT ![free_top + 1] = j]
    ELSE /\ refcnt' = [refcnt EXCEPT ![j] = IF @ = 0 THEN 0 ELSE @ - 1]
         /\ UNCHANGED <<free_indices, free_top>>

DropRef(t) ==
  /\ refs' = [refs EXCEPT ![t] = @ - 1]
  /\ IF refs[t] = 1
       THEN Goto(t, "idle") /\ job' = [job EXCEPT ![t] = NoJob]
       ELSE UNCHANGED <<pc, job>>

Release(t) ==
  /\ pc[t] = "owner"
  /\ PoolRelease(job[t])
  /\ DropRef(t)
  /\ UNCHANGED queueVars

(* Every caller ignores a release that could not lock pool->mutex.         *)
ReleaseFails(t) ==
  /\ pc[t] = "owner" /\ "lock" \in Faults
  /\ DropRef(t)
  /\ UNCHANGED <<poolVars, queueVars>>

-----------------------------------------------------------------------------
(* The queue.                                                              *)

(* Mutation: the error path forgets to release the job.                    *)
FillFailsLeaks(t) ==
  /\ pc[t] = "filled"
  /\ Goto(t, "idle")
  /\ job' = [job EXCEPT ![t] = NoJob] /\ refs' = [refs EXCEPT ![t] = 0]
  /\ UNCHANGED <<poolVars, queueVars>>

(* core_post_job could not copy the configuration or the payload.          *)
FillFails(t) ==
  /\ pc[t] = "filled"
  /\ Goto(t, "owner")
  /\ UNCHANGED <<poolVars, queueVars, job, refs>>

(* Storing the job of t at the tail of the ring.                           *)
Store(t) ==
  /\ buf' = [buf EXCEPT ![tail] = job[t]]
  /\ tail' = (tail + 1) % Depth
  /\ count' = count + 1

GiveUp(t) ==
  /\ job' = [job EXCEPT ![t] = NoJob]
  /\ refs' = [refs EXCEPT ![t] = 0]
  /\ Goto(t, "idle")

(* Mutations of enqueue: the capacity check is off by one; the closed flag *)
(* is not checked; no token is posted; the caller releases the job though  *)
(* it was enqueued.                                                        *)
EnqueueOneTooMany(t) ==
  /\ pc[t] = "filled" /\ live /\ ~closed /\ count <= Depth
  /\ tokens' = tokens + 1 /\ Store(t) /\ GiveUp(t)
  /\ UNCHANGED <<poolVars, head, waiter_count, closeVars>>
EnqueueIgnoresClose(t) ==
  /\ pc[t] = "filled" /\ live /\ count < Depth
  /\ tokens' = tokens + 1 /\ Store(t) /\ GiveUp(t)
  /\ UNCHANGED <<poolVars, head, waiter_count, closeVars>>
EnqueueSilently(t) ==
  /\ pc[t] = "filled" /\ live /\ ~closed /\ count < Depth
  /\ Store(t) /\ GiveUp(t)
  /\ UNCHANGED <<poolVars, head, waiter_count, closeVars, tokens>>
EnqueueAndRelease(t) ==
  /\ pc[t] = "filled" /\ live /\ ~closed /\ count < Depth
  /\ tokens' = tokens + 1 /\ Store(t) /\ Goto(t, "owner")
  /\ UNCHANGED <<poolVars, head, waiter_count, closeVars, job, refs>>

(* actrust_job_queue_enqueue: the token is posted before the job is        *)
(* stored, under q->lock, and the queue becomes the owner of the job.      *)
Enqueue(t) ==
  /\ pc[t] = "filled" /\ live
  /\ ~closed
  /\ count < Depth
  /\ tokens' = tokens + 1
  /\ Store(t)
  /\ GiveUp(t)
  /\ UNCHANGED <<poolVars, head, waiter_count, closeVars>>

(* ... or it refuses the job, which core_post_job then releases.           *)
EnqueueRefused(t) ==
  /\ pc[t] = "filled"
  /\ closed \/ count >= Depth \/ Faults \cap {"lock", "post"} # {}
  /\ Goto(t, "owner")
  /\ UNCHANGED <<poolVars, queueVars, job, refs>>

(* actrust_job_queue_dequeue, first critical section.                      *)
DequeueEnter(t) ==
  /\ t \in Dequeuers
  /\ pc[t] = "idle" /\ live
  /\ ~(closed /\ count = 0)
  /\ waiter_count < WaiterMax
  /\ waiter_count' = waiter_count + 1
  /\ Goto(t, "waiting")
  /\ UNCHANGED <<poolVars, ringVars, closeVars, tokens, job, refs>>

SemTake(t) ==
  /\ pc[t] = "waiting"
  /\ tokens > 0
  /\ tokens' = tokens - 1
  /\ Goto(t, "granted")
  /\ UNCHANGED <<poolVars, ringVars, waiter_count, closeVars, job, refs>>

(* The wait expired or failed: the dequeuer counts itself out under the    *)
(* lock, or returns without doing so when the lock fails too.              *)
SemWaitFails(t) ==
  /\ pc[t] = "waiting"
  /\ tokens = 0 \/ "wait" \in Faults
  /\ \/ waiter_count' = IF waiter_count > 0 THEN waiter_count - 1 ELSE 0
     \/ "lock" \in Faults /\ UNCHANGED waiter_count
  /\ Goto(t, "idle")
  /\ UNCHANGED <<poolVars, ringVars, closeVars, tokens, job, refs>>

(* Second critical section: count out, then take the oldest job if any.    *)
DequeueTake(t) ==
  /\ pc[t] = "granted"
  /\ waiter_count' = IF waiter_count > 0 THEN waiter_count - 1 ELSE 0
  /\ IF count = 0
       THEN /\ Goto(t, "idle")
            /\ UNCHANGED <<head, count, job, refs>>
       ELSE /\ job' = [job EXCEPT ![t] = buf[head]]
            /\ refs' = [refs EXCEPT ![t] = 1]
            /\ head' = (head + 1) % Depth
            /\ count' = count - 1
            /\ Goto(t, "owner")
  /\ UNCHANGED <<poolVars, buf, tail, closeVars, tokens>>

(* The lock fails after a token was taken.  waiter_count is then           *)
(* decremented without the lock: the read and the write are two steps.     *)
(* refs carries the value read.                                            *)
DequeueLockFails(t) ==
  /\ pc[t] = "granted" /\ "lock" \in Faults
  /\ refs' = [refs EXCEPT ![t] = waiter_count]
  /\ Goto(t, "uncount")
  /\ UNCHANGED <<poolVars, queueVars, job>>

UncountUnlocked(t) ==
  /\ pc[t] = "uncount"
  /\ waiter_count' = IF refs[t] > 0 THEN refs[t] - 1 ELSE waiter_count
  /\ refs' = [refs EXCEPT ![t] = 0]
  /\ Goto(t, "repost")
  /\ UNCHANGED <<poolVars, ringVars, closeVars, tokens, job>>

(* Mutation: the token is not given back.                                  *)
RepostForgotten(t) ==
  /\ pc[t] = "repost"
  /\ Goto(t, "idle")
  /\ UNCHANGED <<poolVars, queueVars, job, refs>>

(* ... and the token is given back; a failure to do so is ignored.         *)
Repost(t) ==
  /\ pc[t] = "repost"
  /\ \/ tokens' = tokens + 1
     \/ "post" \in Faults /\ UNCHANGED tokens
  /\ Goto(t, "idle")
  /\ UNCHANGED <<poolVars, ringVars, waiter_count, closeVars, job, refs>>

(* actrust_job_queue_close: one token for every dequeuer that was inside   *)
(* when the queue closed.  A failed post leaves the rest for the next call.*)
WakeDue == IF closed THEN close_wake_pending ELSE waiter_count

(* Mutation: close wakes nobody.                                           *)
CloseSilently(t) ==
  /\ pc[t] = "idle" /\ live
  /\ closed' = TRUE /\ close_wake_pending' = WakeDue
  /\ UNCHANGED <<poolVars, ringVars, waiter_count, tokens, live, threadVars>>

Close(t) ==
  /\ pc[t] = "idle" /\ live
  /\ closed' = TRUE
  /\ \E posted \in 0..WakeDue :
       /\ posted = WakeDue \/ "post" \in Faults
       /\ tokens' = tokens + posted
       /\ close_wake_pending' = WakeDue - posted
  /\ UNCHANGED <<poolVars, ringVars, waiter_count, live, threadVars>>

(* Mutation: deinit does not look at waiter_count.                         *)
DeinitReadyEarly(t) ==
  /\ pc[t] = "idle" /\ live /\ closed /\ count = 0
  /\ Goto(t, "dismantle")
  /\ UNCHANGED <<poolVars, queueVars, job, refs>>

(* actrust_job_queue_deinit checks under the lock, destroys outside it.    *)
DeinitReady(t) ==
  /\ pc[t] = "idle" /\ live
  /\ \A u \in Threads : pc[u] # "dismantle"  \* deinit_finalizing admits one
  /\ closed /\ count = 0 /\ waiter_count = 0
  /\ Goto(t, "dismantle")
  /\ UNCHANGED <<poolVars, queueVars, job, refs>>

DeinitDestroy(t) ==
  /\ pc[t] = "dismantle"
  /\ live' = FALSE
  /\ count' = 0 /\ waiter_count' = 0 /\ close_wake_pending' = 0
  /\ Goto(t, "idle")
  /\ UNCHANGED <<poolVars, buf, head, tail, closed, tokens, job, refs>>

(* The semaphore or the lock cannot be destroyed: deinit returns and may   *)
(* be called again, whether or not the semaphore is already gone.          *)
DeinitDestroyFails(t) ==
  /\ pc[t] = "dismantle" /\ "destroy" \in Faults
  /\ Goto(t, "idle")
  /\ UNCHANGED <<poolVars, queueVars, job, refs>>

-----------------------------------------------------------------------------
Step(t) ==
  \/ Alloc(t) \/ Retain(t) \/ Release(t) \/ ReleaseFails(t)
  \/ FillFails(t) \/ Enqueue(t) \/ EnqueueRefused(t)
  \/ DequeueEnter(t) \/ SemTake(t) \/ SemWaitFails(t) \/ DequeueTake(t)
  \/ DequeueLockFails(t) \/ UncountUnlocked(t) \/ Repost(t)
  \/ Close(t) \/ DeinitReady(t) \/ DeinitDestroy(t) \/ DeinitDestroyFails(t)

Next == \E t \in Threads : Step(t)

Spec == Init /\ [][Next]_vars

-----------------------------------------------------------------------------
(* Properties.                                                             *)

(* Type invariant, in three parts: the fields of actrust_job_pool_t and    *)
(* actrust_job_queue_t stay within their arrays and limits.                *)
PoolTypeOK ==
  /\ refcnt \in [Jobs -> 0..RefMax]
  /\ free_indices \in [Jobs -> Jobs]
  /\ free_top \in -1..(PoolSize - 1)

QueueTypeOK ==
  /\ buf \in [Slots -> Jobs \cup {NoJob}]
  /\ head \in Slots /\ tail \in Slots /\ count \in 0..Depth
  /\ waiter_count \in 0..WaiterMax /\ close_wake_pending \in 0..WaiterMax
  /\ closed \in BOOLEAN /\ live \in BOOLEAN
  /\ tokens \in Nat

ThreadTypeOK ==
  /\ pc \in [Threads -> Positions]
  /\ job \in [Threads -> Jobs \cup {NoJob}]
  /\ refs \in [Threads -> Nat]

TypeOK == PoolTypeOK /\ QueueTypeOK /\ ThreadTypeOK

(* The i-th oldest queued job, 1 <= i <= count.                            *)
SlotOf(i) == (head + i - 1) % Depth
Queued    == {buf[SlotOf(i)] : i \in 1..count}

Holder(t) == pc[t] \in {"filled", "owner"}

(* The free stack holds each unreferenced pool entry exactly once, so a    *)
(* job handed out by actrust_job_alloc is never one still in use, and the  *)
(* push in actrust_job_release never runs past the end of free_indices.    *)
FreeStackExact ==
  /\ \A i, k \in 0..free_top : free_indices[i] = free_indices[k] => i = k
  /\ \A j \in Jobs : refcnt[j] = 0 <=> \E i \in 0..free_top : free_indices[i] = j

(* A job has one owner: a thread, or one slot of the queue.  The queue     *)
(* never carries a job that was already released ("a post failure cannot   *)
(* enqueue a dangling job"), and the references of a job are its owner's.  *)
SingleOwner ==
  /\ \A i \in 1..count : buf[SlotOf(i)] \in Jobs /\ refcnt[buf[SlotOf(i)]] = 1
  /\ \A i, k \in 1..count : buf[SlotOf(i)] = buf[SlotOf(k)] => i = k
  /\ \A t \in Threads : Holder(t) =>
       /\ job[t] \in Jobs \ Queued
       /\ refs[t] > 0 /\ refcnt[job[t]] >= refs[t]
  /\ \A t, u \in Threads :
       Holder(t) /\ Holder(u) /\ job[t] = job[u] => t = u

(* No pool entry is lost: unless locking fails, a job with references is   *)
(* queued or held by a thread, so a drained system has its whole pool free.*)
NoJobLeaked ==
  "lock" \notin Faults =>
    \A j \in Jobs : refcnt[j] > 0 =>
      j \in Queued \/ \E t \in Threads : Holder(t) /\ job[t] = j

(* Threads that took a token and have not used it up.                      *)
Claims == {t \in Threads : pc[t] \in {"granted", "uncount", "repost"}}
Inside == {t \in Threads : pc[t] \in {"waiting", "granted"}}

(* No lost and no phantom wake-up: every queued job has a token in the     *)
(* semaphore or in the hands of a dequeuer, also after a dequeuer failed   *)
(* to lock and gave its token back (a repost that fails as well does lose  *)
(* one).  While the queue is open there are no more tokens than jobs, so   *)
(* dequeue never reports NO_RESOURCE, which would end core_service_main.   *)
TokensMatchJobs ==
  /\ ~({"lock", "post"} \subseteq Faults) => tokens + Cardinality(Claims) >= count
  /\ ~closed => tokens + Cardinality(Claims) <= count

(* The semaphore and the lock are destroyed only when no dequeuer can      *)
(* still touch them.                                                       *)
DestroyOnlyQuiet ==
  /\ "lock" \notin Faults
  /\ ~live \/ \E t \in Threads : pc[t] = "dismantle"
  => closed /\ count = 0 /\ Inside = {} /\ Claims = {}

(* The ring buffer implements the abstract FIFO of JobChannel.             *)
Channel == INSTANCE JobChannel WITH
  fifo <- [i \in 1..count |-> buf[SlotOf(i)]], shut <- closed, gone <- ~live
ImplementsChannel == Channel!ChannelSpec

(* What close promises to dequeuers ("blocked dequeue waiters are woken"): *)
(* nobody stays blocked on a closed queue, under a scheduler that runs     *)
(* every thread and a semaphore that does not starve a waiter.  A dequeuer *)
(* that enters a closed queue while jobs are left gets no token of its     *)
(* own, so this needs what the core has: a single consumer.                *)
Fairness ==
  \A t \in Threads : WF_vars(Release(t)) /\ WF_vars(DequeueTake(t)) /\ SF_vars(SemTake(t))
FairSpec == Spec /\ Fairness
ClosedQueueFreesWaiters ==
  \A t \in Threads : (closed /\ pc[t] = "waiting") ~> (pc[t] # "waiting")
=============================================================================
