------------------------ MODULE CoreLifecycleProofs ------------------------
(***************************************************************************)
(* The life cycle of the core, for any number of application threads and   *)
(* any pool: its teardown is safe under every combination of faults; its   *)
(* counts, its retries and its callbacks are right under the faults the    *)
(* theorems name; its states mean what actrust.h says when nothing fails.  *)
(*                                                                         *)
(* The facts about the teardown are not inductive: whether the queue may   *)
(* be dismantled depends on what the DEINIT job did before the service     *)
(* task was joined, and on no other task having been started with that     *)
(* job's outcome still recorded.  CoreInv carries this along, and every    *)
(* later part of the module builds on it.                                  *)
(***************************************************************************)
EXTENDS CoreLifecycle, FiniteSetTheorems, FunctionTheorems, TLAPS

JobKinds == {"init", "connect", "disconnect", "register", "send", "deinit"}

(* The types the argument needs.                                           *)
Shapes ==
  /\ queue \in Seq(JobKinds)
  /\ pc \in [Apps -> {"idle", "post", "start", "join", "settle", "finish"}]
  /\ prev \in [Apps -> {"READY", "INIT_FAILED"}]
  /\ svc \in {"none", "idle", "run", "done", "callback", "exited"}
  /\ phase \in {"JOB", "QUEUE", "POOL", "LOCK"}

HasDeinit(q) == \E i \in DOMAIN q : q[i] = "deinit"

(* service_task is set from the creation of the task to its join, a task   *)
(* between two jobs has none, and one with service_result set has ended.   *)
TaskShape ==
  /\ task <=> svc # "none"
  /\ job = NoJob <=> svc \in {"none", "idle", "exited"}
  /\ svcErr => svc \in {"none", "exited"}

(* Where a deinit call is tells how far the teardown is.                   *)
PhaseShape ==
  \A a \in Apps :
    /\ pc[a] \in {"post", "start", "join", "settle"} => phase = "JOB"
    /\ pc[a] = "finish" => phase # "JOB"
    /\ pc[a] \in {"start", "settle"} => ~task
    /\ pc[a] = "join" => task
    /\ pc[a] \in {"post", "start"} => ~jobDone \/ jobErr

(* A service task with a DEINIT job ahead is being joined: no DEINIT job   *)
(* is left to a service task that serves other calls.                      *)
DeinitAttended ==
  task /\ (HasDeinit(queue) \/ job = "deinit") => \E a \in Apps : pc[a] = "join"

(* A DEINIT job that succeeded has released everything, and nothing is     *)
(* acquired between its end and the end of the service task.               *)
DeinitClean ==
  svc = "done" /\ job = "deinit" /\ ~result => held = {} /\ ~session /\ state = "DEINIT"

(* ... and until the queue and the pool are dismantled.                    *)
SuccessClean ==
  jobDone /\ ~jobErr /\ phase = "JOB" =>
    /\ held = {} /\ ~session /\ state = "DEINIT" /\ ~svcErr /\ pending
    /\ svc \in {"none", "exited"} \/ (svc = "callback" /\ job = "deinit")

PastJob == phase # "JOB" => ~session /\ pending

CoreInv ==
  /\ Shapes /\ OneTeardown /\ UninitQuiet /\ DismantleAfterService
  /\ TaskShape /\ PhaseShape /\ DeinitAttended /\ DeinitClean /\ SuccessClean /\ PastJob


(* A DEINIT job in the head or the tail of a queue was in the queue.       *)
LEMMA QueueTail ==
  ASSUME NEW q \in Seq(JobKinds), q # <<>>
  PROVE  /\ Tail(q) \in Seq(JobKinds) /\ Head(q) \in JobKinds
         /\ HasDeinit(Tail(q)) \/ Head(q) = "deinit" => HasDeinit(q)
BY DEF HasDeinit

(* The same for an append.                                                 *)
LEMMA QueueAppend ==
  ASSUME NEW q \in Seq(JobKinds), NEW x \in JobKinds
  PROVE  /\ Append(q, x) \in Seq(JobKinds) /\ Append(q, x) # <<>>
         /\ HasDeinit(Append(q, x)) <=> HasDeinit(q) \/ x = "deinit"
BY DEF HasDeinit

(* Before actrust_init there is nothing.                                    *)
LEMMA CoreInit == Init => CoreInv
BY DEF Init, CoreInv, Shapes, OneTeardown, UninitQuiet, DismantleAfterService, TaskShape,
   PhaseShape, DeinitAttended, DeinitClean, SuccessClean, PastJob, HasDeinit

(* Every call, every stretch of actrust_deinit and every step of the       *)
(* service task keeps the invariant.  Most of them touch few of its parts, *)
(* so that the definitions suffice; the others move jobs through the queue.*)
LEMMA CoreNext ==
  ASSUME CoreInv, [Next]_vars PROVE CoreInv'
<1> USE CoreAssumption
    DEF CoreInv, Shapes, OneTeardown, UninitQuiet, DismantleAfterService, TaskShape,
        PhaseShape, DeinitAttended, DeinitClean, SuccessClean, PastJob, core,
        service, resources, threads, history, JobKinds
<1>1. CASE ActrustInit
  <2>1. /\ queue' = <<"init">> /\ queue' \in Seq(JobKinds) /\ ~HasDeinit(queue')
    BY <1>1 DEF ActrustInit, HasDeinit
  <2>2. \A a \in Apps : pc[a] = "idle"
    BY <1>1 DEF ActrustInit
  <2>3. phase = "JOB" /\ job = NoJob /\ ~(jobDone /\ ~jobErr)
    BY <1>1 DEF ActrustInit
  <2> QED BY <1>1, <2>1, <2>2, <2>3 DEF ActrustInit, Accepted
<1>2. CASE Dequeue
  <2>1. /\ queue' \in Seq(JobKinds) /\ job' \in JobKinds
        /\ HasDeinit(queue') \/ job' = "deinit" => HasDeinit(queue)
    BY <1>2, QueueTail DEF Dequeue
  <2> QED BY <1>2, <2>1 DEF Dequeue
<1>3. CASE DequeueFails
  BY <1>3 DEF DequeueFails
<1>4. CASE RunInit
  BY <1>4 DEF RunInit, Ran
<1>5. CASE RunInitFails
  BY <1>5 DEF RunInitFails, Ran
<1>6. CASE RunConnect
  <2>1. PICK st \in Connected : Ran("connect", FALSE, st, held \cup Helpers, TRUE)
    BY <1>6 DEF RunConnect, Connected
  <2> QED BY <2>1 DEF Ran, Connected
<1>7. CASE RunConnectRefused
  BY <1>7 DEF RunConnectRefused, Ran
<1>8. CASE RunConnectUndone
  BY <1>8 DEF RunConnectUndone, Ran
<1>9. CASE RunDisconnect
  BY <1>9 DEF RunDisconnect, Ran
<1>10. CASE RunDisconnectFails
  BY <1>10 DEF RunDisconnectFails, Ran
<1>11. CASE RunRegister
  BY <1>11 DEF RunRegister, Ran
<1>12. CASE RunRegisterFails
  BY <1>12 DEF RunRegisterFails, Ran
<1>13. CASE RunSend
  BY <1>13 DEF RunSend, Ran
<1>14. CASE RunDeinit
  BY <1>14 DEF RunDeinit, Ran
<1>15. CASE RunDeinitFails
  BY <1>15 DEF RunDeinitFails, Ran, DeinitStopsShort
<1>16. CASE Complete
  BY <1>16 DEF Complete
<1>17. CASE CallbackReturns
  BY <1>17 DEF CallbackReturns
<1>18. ASSUME NEW a \in Apps, DeinitEnter(a) PROVE CoreInv'
  BY <1>18 DEF DeinitEnter, Claim, Accepted
<1>19. ASSUME NEW a \in Apps, DeinitPost(a) PROVE CoreInv'
  BY <1>19 DEF DeinitPost
<1>20. ASSUME NEW a \in Apps, DeinitPostFails(a) PROVE CoreInv'
  BY <1>20 DEF DeinitPostFails, RestoreState, RestoreLost
<1>21. ASSUME NEW a \in Apps, DeinitStart(a) PROVE CoreInv'
  BY <1>21 DEF DeinitStart
<1>22. ASSUME NEW a \in Apps, DeinitStartFails(a) PROVE CoreInv'
  BY <1>22 DEF DeinitStartFails, RestoreState, RestoreLost, Drain
<1>23. ASSUME NEW a \in Apps, DeinitJoin(a) PROVE CoreInv'
  BY <1>23 DEF DeinitJoin, Cleared
<1>24. ASSUME NEW a \in Apps, DeinitSettle(a) PROVE CoreInv'
  BY <1>24 DEF DeinitSettle
<1>25. ASSUME NEW a \in Apps, DeinitFinish(a) PROVE CoreInv'
  BY <1>25 DEF DeinitFinish, Drain
<1>26. ASSUME NEW a \in Apps, DeinitFinishFails(a) PROVE CoreInv'
  <2>1. phase' \in {"QUEUE", "POOL", "LOCK"}
    <3>1. phase # "JOB"
      BY <1>26 DEF DeinitFinishFails
    <3> QED BY <1>26, <3>1 DEF DeinitFinishFails, Phases, PhaseNo
  <2>2. queue' \in {queue, <<>>} /\ <<>> \in Seq(JobKinds) /\ ~HasDeinit(<<>>)
    BY <1>26 DEF DeinitFinishFails, Drain, HasDeinit
  <2> QED BY <1>26, <2>1, <2>2 DEF DeinitFinishFails
<1>27. ASSUME NEW a \in Apps, DeinitRelockFails(a) PROVE CoreInv'
  BY <1>27 DEF DeinitRelockFails
<1>28. ASSUME NEW op \in Operations, Submit(op) PROVE CoreInv'
  <2>1. /\ queue' \in Seq(JobKinds) /\ queue' # <<>>
        /\ HasDeinit(queue') => HasDeinit(queue)
    BY <1>28, QueueAppend DEF Submit, Operations
  <2> QED BY <1>28, <2>1 DEF Submit, AcceptedIn, Operations
<1>29. CASE UNCHANGED vars
  BY <1>29 DEF vars
<1> QED
  BY <1>1, <1>2, <1>3, <1>4, <1>5, <1>6, <1>7, <1>8, <1>9, <1>10, <1>11,
     <1>12, <1>13, <1>14, <1>15, <1>16, <1>17, <1>18, <1>19, <1>20, <1>21, <1>22,
     <1>23, <1>24, <1>25, <1>26, <1>27, <1>28, <1>29
     DEF Next, ServiceStep, DeinitStep

(* The inductive invariant holds in every reachable state.                 *)
LEMMA CoreAlways == Spec => []CoreInv
<1> QED BY CoreInit, CoreNext, PTL DEF Spec

(* At most one actrust_deinit is past its checks, and it finds the context *)
(* alive and marked until it leaves.                                       *)
THEOREM TeardownExclusive == Spec => []OneTeardown
<1>1. CoreInv => OneTeardown
  BY DEF CoreInv
<1> QED BY <1>1, CoreAlways, PTL

(* When actrust_deinit has destroyed the core lock, no service task, job,  *)
(* handle or cloud session is left, whatever failed on the way.            *)
THEOREM UninitIsQuiet == Spec => []UninitQuiet
<1>1. CoreInv => UninitQuiet
  BY DEF CoreInv
<1> QED BY <1>1, CoreAlways, PTL

(* The job queue and the pool are never dismantled before the service task *)
(* is joined and core_ops_deinit has released every resource.              *)
THEOREM DismantleInOrder == Spec => []DismantleAfterService
<1>1. CoreInv => DismantleAfterService
  BY DEF CoreInv
<1> QED BY <1>1, CoreAlways, PTL

(* core_ops_deinit runs only on behalf of a teardown that is claimed.      *)
THEOREM DeinitJobOnDemand == Spec => []DeinitJobClaimed
<1>1. CoreInv => DeinitJobClaimed
  <2> SUFFICES ASSUME CoreInv, job = "deinit" PROVE pending
    BY DEF DeinitJobClaimed
  <2>1. task
    BY CoreAssumption DEF CoreInv, TaskShape
  <2>2. PICK a \in Apps : pc[a] = "join"
    BY <2>1 DEF CoreInv, DeinitAttended
  <2> QED BY <2>2 DEF CoreInv, OneTeardown
<1> QED BY <1>1, CoreAlways, PTL

-----------------------------------------------------------------------------
(* Types and accounting.  Every accepted operation that is queued or being *)
(* executed has its callback due, so the count of callbacks due never goes *)
(* below zero, whatever fails and whatever a drain throws away.            *)
Others(q) == {i \in DOMAIN q : q[i] # "deinit"}
Executing == IF job \in {NoJob, "deinit"} THEN 0 ELSE 1
Outstanding == Cardinality(Others(queue)) + Executing

Flags ==
  /\ lock \in BOOLEAN /\ pending \in BOOLEAN /\ finalizing \in BOOLEAN
  /\ jobDone \in BOOLEAN /\ jobErr \in BOOLEAN /\ callbackActive \in BOOLEAN
  /\ task \in BOOLEAN /\ result \in BOOLEAN /\ svcErr \in BOOLEAN /\ session \in BOOLEAN

Handles ==
  /\ state \in States /\ job \in JobKinds \cup {NoJob}
  /\ held \subseteq {"ntp_task", "downlink_task", "key", "cloud", "ntp", "crypto"}
  /\ orphans \subseteq Helpers

Fields == Flags /\ Handles

Counts ==
  /\ JobsOut <= PoolSize
  /\ calls \in 0..MaxCalls /\ owed \in Nat /\ owed <= calls
  /\ Outstanding <= owed

(* How many operations a queue holds after an append and after a dequeue.  *)
LEMMA OthersAppend ==
  ASSUME NEW q \in Seq(JobKinds), NEW x \in JobKinds
  PROVE  /\ Cardinality(Others(q)) \in Nat /\ Len(Append(q, x)) = Len(q) + 1
         /\ Cardinality(Others(Append(q, x))) =
              Cardinality(Others(q)) + IF x = "deinit" THEN 0 ELSE 1
<1>n. PICK n \in Nat : n = Len(q)
  OBVIOUS
<1>1. IsFiniteSet(1..n)
  BY FS_Interval
<1>2. Others(q) \subseteq 1..n /\ n + 1 \notin Others(q)
  BY <1>n DEF Others
<1>3. IsFiniteSet(Others(q)) /\ Cardinality(Others(q)) \in Nat
  BY <1>1, <1>2, FS_Subset, FS_CardinalityType
<1>4. /\ DOMAIN Append(q, x) = (1..n) \cup {n + 1} /\ Append(q, x)[n + 1] = x
      /\ \A i \in 1..n : Append(q, x)[i] = q[i]
  BY <1>n
<1>5. CASE x = "deinit"
  <2>1. Others(Append(q, x)) = Others(q)
    BY <1>n, <1>4, <1>5 DEF Others
  <2> QED BY <1>3, <1>5, <2>1
<1>6. CASE x # "deinit"
  <2>1. Others(Append(q, x)) = Others(q) \cup {n + 1}
    BY <1>n, <1>4, <1>6 DEF Others
  <2>2. Cardinality(Others(q) \cup {n + 1}) = Cardinality(Others(q)) + 1
    BY <1>2, <1>3, FS_AddElement
  <2> QED BY <1>3, <1>6, <2>1, <2>2
<1> QED BY <1>3, <1>5, <1>6

(* And after the first job has been taken from the queue.                  *)
LEMMA OthersTail ==
  ASSUME NEW q \in Seq(JobKinds), q # <<>>
  PROVE  /\ Cardinality(Others(q)) \in Nat /\ Len(Tail(q)) = Len(q) - 1
         /\ Cardinality(Others(Tail(q))) =
              Cardinality(Others(q)) - IF Head(q) = "deinit" THEN 0 ELSE 1
<1> DEFINE A == Others(Tail(q))
           B == Others(q) \ {1}
           f == [i \in A |-> i + 1]
<1>n. PICK n \in Nat : n = Len(q) /\ n > 0
  OBVIOUS
<1>1. IsFiniteSet(1..n)
  BY FS_Interval
<1>2. Others(q) \subseteq 1..n
  BY <1>n DEF Others
<1>3. /\ IsFiniteSet(Others(q)) /\ Cardinality(Others(q)) \in Nat
      /\ IsFiniteSet(B)
  BY <1>1, <1>2, FS_Subset, FS_CardinalityType
<1>4. /\ DOMAIN q = 1..n /\ DOMAIN Tail(q) = 1..(n - 1)
      /\ \A i \in 1..(n - 1) : Tail(q)[i] = q[i + 1]
  BY <1>n
<1>5. A \subseteq 1..(n - 1) /\ \A i \in A : i + 1 \in B
  BY <1>4 DEF Others
<1>6. \A k \in B : k - 1 \in A /\ (k - 1) + 1 = k
  BY <1>4 DEF Others
<1>7. f \in Bijection(A, B)
  <2>1. f \in [A -> B]
    BY <1>5
  <2>2. \A i, k \in A : f[i] = f[k] => i = k
    BY <1>5
  <2>3. \A k \in B : \E i \in A : f[i] = k
    BY <1>6
  <2> HIDE DEF f, A, B
  <2> QED BY <2>1, <2>2, <2>3, Fun_IsBij
<1>8. Cardinality(A) = Cardinality(B)
  <2>1. IsFiniteSet(A)
    <3>1. A \subseteq 1..n
      BY <1>5
    <3> QED BY <1>1, <3>1, FS_Subset
  <2>2. ExistsBijection(A, B)
    <3> HIDE DEF f, A, B
    <3> QED BY <1>7, Zenon DEF ExistsBijection
  <2> HIDE DEF f, A, B
  <2> QED BY <2>1, <2>2, FS_Bijection
<1>9. 1 \in Others(q) <=> Head(q) # "deinit"
  BY <1>n DEF Others
<1>10. CASE Head(q) = "deinit"
  <2>1. B = Others(q)
    BY <1>9, <1>10
  <2>2. Cardinality(Others(Tail(q))) = Cardinality(Others(q))
    BY <1>8, <2>1
  <2> QED BY <1>3, <1>10, <2>2
<1>11. CASE Head(q) # "deinit"
  <2>1. Cardinality(B) = Cardinality(Others(q)) - 1
    BY <1>3, <1>9, <1>11, FS_RemoveElement
  <2> QED BY <1>3, <1>8, <1>11, <2>1
<1>12. Len(Tail(q)) = Len(q) - 1
  OBVIOUS
<1> QED BY <1>3, <1>10, <1>11, <1>12

(* A drained queue and the one actrust_init fills.                         *)
LEMMA OthersSmall ==
  /\ Cardinality(Others(<<>>)) = 0 /\ Len(<<>>) = 0
  /\ Cardinality(Others(<<"init">>)) = 1 /\ Len(<<"init">>) = 1
<1>1. Others(<<>>) = {} /\ Others(<<"init">>) = {1}
  BY DEF Others
<1> QED BY <1>1, FS_EmptySet, FS_Singleton

(* Every handler keeps the flags Boolean ...                              *)
LEMMA FlagsNext ==
  ASSUME Flags, [Next]_vars PROVE Flags'
<1> USE DEF Flags, core, service, resources, threads, history
<1>1. CASE ActrustInit
  BY <1>1, Zenon DEF ActrustInit
<1>2. CASE DequeueFails
  BY <1>2, Zenon DEF DequeueFails
<1>3. CASE Complete
  BY <1>3, Zenon DEF Complete
<1>4. CASE CallbackReturns
  BY <1>4, Zenon DEF CallbackReturns
<1>5. CASE UNCHANGED vars
  BY <1>5, Zenon DEF vars
<1>6. CASE Dequeue
  BY <1>6, Zenon DEF Dequeue
<1>7. CASE RunInit
  BY <1>7, Zenon DEF RunInit, Ran
<1>8. CASE RunInitFails
  BY <1>8, Zenon DEF RunInitFails, Ran
<1>9. CASE RunConnect
  BY <1>9, Zenon DEF RunConnect, Ran, Connected
<1>10. CASE RunConnectRefused
  BY <1>10, Zenon DEF RunConnectRefused, Ran
<1>11. CASE RunConnectUndone
  BY <1>11, Zenon DEF RunConnectUndone, Ran, StillRunning
<1>12. CASE RunDisconnect
  BY <1>12, Zenon DEF RunDisconnect, Ran
<1>13. CASE RunDisconnectFails
  BY <1>13, Zenon DEF RunDisconnectFails, Ran, StillRunning
<1>14. CASE RunRegister
  BY <1>14, Zenon DEF RunRegister, Ran
<1>15. CASE RunRegisterFails
  BY <1>15, Zenon DEF RunRegisterFails, Ran
<1>16. CASE RunSend
  BY <1>16, Zenon DEF RunSend, Ran
<1>17. CASE RunDeinit
  BY <1>17, Zenon DEF RunDeinit, Ran
<1>18. CASE RunDeinitFails
  <2>1. PICK left : \E up \in BOOLEAN : Ran("deinit", TRUE, "DEINIT", left, up)
    BY <1>18, Zenon DEF RunDeinitFails, DeinitStopsShort
  <2> QED BY <2>1, Zenon DEF Ran
<1>19. ASSUME NEW a \in Apps, DeinitEnter(a) PROVE Flags'
  BY <1>19, Zenon DEF DeinitEnter, Claim
<1>20. ASSUME NEW a \in Apps, DeinitPost(a) PROVE Flags'
  BY <1>20, Zenon DEF DeinitPost
<1>21. ASSUME NEW a \in Apps, DeinitPostFails(a) PROVE Flags'
  BY <1>21, Zenon DEF DeinitPostFails, RestoreState, RestoreLost
<1>22. ASSUME NEW a \in Apps, DeinitStart(a) PROVE Flags'
  BY <1>22, Zenon DEF DeinitStart
<1>23. ASSUME NEW a \in Apps, DeinitStartFails(a) PROVE Flags'
  BY <1>23, Zenon DEF DeinitStartFails, RestoreState, RestoreLost
<1>24. ASSUME NEW a \in Apps, DeinitJoin(a) PROVE Flags'
  BY <1>24, Zenon DEF DeinitJoin, Cleared
<1>25. ASSUME NEW a \in Apps, DeinitSettle(a) PROVE Flags'
  BY <1>25, Zenon DEF DeinitSettle
<1>26. ASSUME NEW a \in Apps, DeinitFinish(a) PROVE Flags'
  BY <1>26, Zenon DEF DeinitFinish
<1>27. ASSUME NEW a \in Apps, DeinitFinishFails(a) PROVE Flags'
  BY <1>27, Zenon DEF DeinitFinishFails, Cleared
<1>28. ASSUME NEW a \in Apps, DeinitRelockFails(a) PROVE Flags'
  BY <1>28, Zenon DEF DeinitRelockFails
<1>29. ASSUME NEW op \in Operations, Submit(op) PROVE Flags'
  BY <1>29, Zenon DEF Submit
<1> QED
  BY <1>1, <1>2, <1>3, <1>4, <1>5, <1>6, <1>7, <1>8, <1>9, <1>10, <1>11, <1>12, <1>13,
     <1>14, <1>15, <1>16, <1>17, <1>18, <1>19, <1>20, <1>21, <1>22, <1>23, <1>24, <1>25,
     <1>26, <1>27, <1>28, <1>29
     DEF Next, ServiceStep, DeinitStep

(* ... and the state, the job and the handles among their values.         *)
LEMMA HandlesNext ==
  ASSUME Shapes, Handles, [Next]_vars PROVE Handles'
<1> USE DEF Handles, States, Helpers, JobKinds, Operations,
        core, service, resources, threads, history
<1>1. CASE ActrustInit
  BY <1>1 DEF ActrustInit
<1>2. CASE DequeueFails
  BY <1>2 DEF DequeueFails
<1>3. CASE Complete
  BY <1>3 DEF Complete
<1>4. CASE CallbackReturns
  BY <1>4 DEF CallbackReturns
<1>5. CASE UNCHANGED vars
  BY <1>5 DEF vars
<1>6. CASE Dequeue
  <2>1. queue \in Seq(JobKinds) /\ queue # <<>>
    BY <1>6 DEF Dequeue, Shapes
  <2>2. Head(queue) \in JobKinds
    BY <2>1, QueueTail
  <2> QED BY <1>6, <2>2 DEF Dequeue
<1>7. CASE RunInit
  BY <1>7 DEF RunInit, Ran
<1>8. CASE RunInitFails
  BY <1>8 DEF RunInitFails, Ran
<1>9. CASE RunConnect
  BY <1>9 DEF RunConnect, Ran, Connected
<1>10. CASE RunConnectRefused
  BY <1>10 DEF RunConnectRefused, Ran
<1>11. CASE RunConnectUndone
  BY <1>11 DEF RunConnectUndone, Ran, StillRunning
<1>12. CASE RunDisconnect
  BY <1>12 DEF RunDisconnect, Ran
<1>13. CASE RunDisconnectFails
  BY <1>13 DEF RunDisconnectFails, Ran, StillRunning
<1>14. CASE RunRegister
  BY <1>14 DEF RunRegister, Ran
<1>15. CASE RunRegisterFails
  BY <1>15 DEF RunRegisterFails, Ran
<1>16. CASE RunSend
  BY <1>16 DEF RunSend, Ran
<1>17. CASE RunDeinit
  BY <1>17 DEF RunDeinit, Ran
<1>18. CASE RunDeinitFails
  BY <1>18 DEF RunDeinitFails, DeinitStopsShort, Ran
<1>19. ASSUME NEW a \in Apps, DeinitEnter(a) PROVE Handles'
  BY <1>19 DEF DeinitEnter, Claim
<1>20. ASSUME NEW a \in Apps, DeinitPost(a) PROVE Handles'
  BY <1>20 DEF DeinitPost
<1>21. ASSUME NEW a \in Apps, DeinitPostFails(a) PROVE Handles'
  BY <1>21 DEF DeinitPostFails, RestoreState, RestoreLost, Shapes
<1>22. ASSUME NEW a \in Apps, DeinitStart(a) PROVE Handles'
  BY <1>22 DEF DeinitStart
<1>23. ASSUME NEW a \in Apps, DeinitStartFails(a) PROVE Handles'
  BY <1>23 DEF DeinitStartFails, RestoreState, RestoreLost, Shapes
<1>24. ASSUME NEW a \in Apps, DeinitJoin(a) PROVE Handles'
  BY <1>24 DEF DeinitJoin, Cleared
<1>25. ASSUME NEW a \in Apps, DeinitSettle(a) PROVE Handles'
  BY <1>25 DEF DeinitSettle
<1>26. ASSUME NEW a \in Apps, DeinitFinish(a) PROVE Handles'
  BY <1>26 DEF DeinitFinish
<1>27. ASSUME NEW a \in Apps, DeinitFinishFails(a) PROVE Handles'
  BY <1>27 DEF DeinitFinishFails, Cleared
<1>28. ASSUME NEW a \in Apps, DeinitRelockFails(a) PROVE Handles'
  BY <1>28 DEF DeinitRelockFails
<1>29. ASSUME NEW op \in Operations, Submit(op) PROVE Handles'
  BY <1>29 DEF Submit
<1> QED
  BY <1>1, <1>2, <1>3, <1>4, <1>5, <1>6, <1>7, <1>8, <1>9, <1>10, <1>11, <1>12, <1>13,
     <1>14, <1>15, <1>16, <1>17, <1>18, <1>19, <1>20, <1>21, <1>22, <1>23, <1>24, <1>25,
     <1>26, <1>27, <1>28, <1>29
     DEF Next, ServiceStep, DeinitStep

(* A step that does not take an operation away counts nothing twice: the   *)
(* jobs out of the pool stay within it and every one has its callback due. *)
LEMMA CountsNext ==
  ASSUME CoreInv, Fields, Counts, [Next]_vars PROVE Counts'
<1>0. /\ queue \in Seq(JobKinds) /\ Len(queue) \in Nat /\ Cardinality(Others(queue)) \in Nat
      /\ PoolSize \in Nat \ {0} /\ MaxCalls \in Nat /\ owed \in Nat /\ calls \in 0..MaxCalls
      /\ JobsOut <= PoolSize /\ owed <= calls
  BY CoreAssumption, OthersAppend DEF CoreInv, Shapes, Counts, JobKinds
<1>1. ASSUME UNCHANGED <<queue, job, calls, owed>>,
             svc' = svc \/ svc' \notin {"run", "done"} \/ {svc, svc'} \subseteq {"run", "done"}
      PROVE Counts'
  <2>1. JobsOut' <= PoolSize
    BY <1>0, <1>1 DEF JobsOut
  <2>2. Outstanding' = Outstanding
    BY <1>1 DEF Outstanding, Executing
  <2> QED BY <1>0, <1>1, <2>1, <2>2 DEF Counts
<1>2. ASSUME queue' = <<>>, UNCHANGED <<svc, job, calls, owed>> PROVE Counts'
  <2>1. JobsOut' <= PoolSize
    BY <1>0, <1>2, OthersSmall DEF JobsOut
  <2>2. Outstanding' \in Nat /\ Outstanding' <= Outstanding /\ Outstanding \in Nat
    BY <1>0, <1>2, OthersSmall DEF Outstanding, Executing
  <2> QED BY <1>0, <1>2, <2>1, <2>2 DEF Counts
<1>3. CASE ActrustInit
  <2>1. /\ queue' = <<"init">> /\ svc' = "idle" /\ calls' = calls + 1 /\ owed' = owed + 1
        /\ calls < MaxCalls /\ UNCHANGED job /\ job = NoJob
    BY <1>3 DEF ActrustInit, Accepted, CoreInv, UninitQuiet, TaskShape
  <2>2. Cardinality(Others(queue')) = 1 /\ Len(queue') = 1
    BY <2>1, OthersSmall
  <2>3. JobsOut' = 1
    BY <2>1, <2>2 DEF JobsOut
  <2>4. Outstanding' = 1
    BY <2>1, <2>2 DEF Outstanding, Executing
  <2> QED BY <1>0, <2>1, <2>3, <2>4 DEF Counts
<1>4. ASSUME NEW op \in Operations, Submit(op) PROVE Counts'
  <2>1. /\ queue' = Append(queue, op) /\ UNCHANGED <<svc, job>> /\ op \in JobKinds /\ op # "deinit"
        /\ calls' = calls + 1 /\ owed' = owed + 1 /\ calls < MaxCalls /\ JobsOut < PoolSize
    BY <1>4 DEF Submit, Accepted, Room, service, Operations, JobKinds
  <2>2. Cardinality(Others(queue')) = Cardinality(Others(queue)) + 1 /\ Len(queue') = Len(queue) + 1
    BY <1>0, <2>1, OthersAppend
  <2>3. JobsOut' <= PoolSize
    BY <1>0, <2>1, <2>2 DEF JobsOut
  <2>4. Outstanding' = Outstanding + 1 /\ Outstanding \in Nat
    BY <1>0, <2>1, <2>2 DEF Outstanding, Executing
  <2>5. Outstanding' <= owed'
    BY <1>0, <2>1, <2>4 DEF Counts
  <2>6. calls' \in 0..MaxCalls /\ owed' \in Nat /\ owed' <= calls'
    BY <1>0, <2>1
  <2> QED BY <2>3, <2>5, <2>6 DEF Counts
<1>5. ASSUME NEW a \in Apps, DeinitPost(a) PROVE Counts'
  <2>1. queue' = Append(queue, "deinit") /\ UNCHANGED <<svc, job, calls, owed>> /\ JobsOut < PoolSize
    BY <1>5 DEF DeinitPost, Room, service, history
  <2>2. Cardinality(Others(queue')) = Cardinality(Others(queue)) /\ Len(queue') = Len(queue) + 1
    <3>1. "deinit" \in JobKinds
      BY DEF JobKinds
    <3>2. Cardinality(Others(queue')) = Cardinality(Others(queue)) + 0
      BY <1>0, <2>1, <3>1, OthersAppend
    <3> QED BY <1>0, <2>1, <3>1, <3>2, OthersAppend
  <2>3. JobsOut' <= PoolSize
    BY <1>0, <2>1, <2>2 DEF JobsOut
  <2>4. Outstanding' = Outstanding
    BY <2>1, <2>2 DEF Outstanding, Executing
  <2> QED BY <1>0, <2>1, <2>3, <2>4 DEF Counts
<1>6. CASE Dequeue
  <2>1. /\ queue # <<>> /\ queue' = Tail(queue) /\ job' = Head(queue) /\ svc = "idle" /\ svc' = "run"
        /\ job = NoJob /\ UNCHANGED <<calls, owed>>
    BY <1>6 DEF Dequeue, history, CoreInv, TaskShape
  <2>2. Head(queue) \in JobKinds /\ NoJob \notin JobKinds
    BY <1>0, <2>1, CoreAssumption, QueueTail DEF JobKinds
  <2>3. /\ Len(queue') = Len(queue) - 1
        /\ Cardinality(Others(queue')) =
             Cardinality(Others(queue)) - IF Head(queue) = "deinit" THEN 0 ELSE 1
    BY <1>0, <2>1, OthersTail
  <2>4. JobsOut' <= PoolSize
    BY <1>0, <2>1, <2>3 DEF JobsOut
  <2>5. Outstanding' = Outstanding
    BY <1>0, <2>1, <2>2, <2>3 DEF Outstanding, Executing
  <2> QED BY <1>0, <2>1, <2>4, <2>5 DEF Counts
<1>7. CASE CallbackReturns
  <2>1. /\ UNCHANGED <<queue, calls>> /\ svc' \in {"exited", "idle"} /\ job' = NoJob
        /\ owed' = IF job = "deinit" THEN owed ELSE owed - 1
    BY <1>7 DEF CallbackReturns
  <2>2. JobsOut' <= PoolSize
    BY <1>0, <2>1 DEF JobsOut
  <2>3. job \in JobKinds => Outstanding' = Outstanding - IF job = "deinit" THEN 0 ELSE 1
    BY <1>0, <2>1, CoreAssumption DEF Outstanding, Executing, JobKinds
  <2>4. Outstanding' \in Nat /\ Outstanding <= owed
    BY <1>0, <2>1 DEF Outstanding, Executing, Counts
  <2>5. job \in JobKinds
    BY <1>7 DEF CallbackReturns, CoreInv, TaskShape, Fields, Handles
  <2>6. owed' \in Nat /\ owed' <= calls' /\ Outstanding' <= owed'
    <3>1. Outstanding \in Nat
      BY <1>0 DEF Outstanding, Executing
    <3>2. CASE job = "deinit"
      BY <1>0, <2>1, <2>3, <2>4, <2>5, <3>1, <3>2
    <3>3. CASE job # "deinit"
      BY <1>0, <2>1, <2>3, <2>4, <2>5, <3>1, <3>3
    <3> QED BY <3>2, <3>3
  <2> QED BY <1>0, <2>1, <2>2, <2>6 DEF Counts
<1>8. CASE \/ DequeueFails \/ Complete \/ RunInit \/ RunInitFails \/ RunConnect
           \/ RunConnectRefused \/ RunConnectUndone \/ RunDisconnect \/ RunDisconnectFails
           \/ RunRegister \/ RunRegisterFails \/ RunSend \/ RunDeinit \/ RunDeinitFails
           \/ UNCHANGED vars
  BY <1>1, <1>8 DEF DequeueFails, Complete, RunInit, RunInitFails, RunConnect,
     RunConnectRefused, RunConnectUndone, RunDisconnect, RunDisconnectFails, RunRegister,
     RunRegisterFails, RunSend, RunDeinit, RunDeinitFails, DeinitStopsShort, Ran,
     vars, service, history
<1>9. ASSUME NEW a \in Apps, DeinitEnter(a) PROVE Counts'
  <2>1. /\ UNCHANGED <<queue, svc, job, owed>> /\ calls' = calls + 1 /\ calls < MaxCalls
    BY <1>9 DEF DeinitEnter, Claim, Accepted, service
  <2>2. JobsOut' = JobsOut /\ Outstanding' = Outstanding
    BY <2>1 DEF JobsOut, Outstanding, Executing
  <2> QED BY <1>0, <2>1, <2>2 DEF Counts
<1>10. ASSUME NEW a \in Apps,
              \/ DeinitPostFails(a) \/ DeinitStart(a) \/ DeinitStartFails(a) \/ DeinitJoin(a)
              \/ DeinitSettle(a) \/ DeinitFinish(a) \/ DeinitFinishFails(a) \/ DeinitRelockFails(a)
       PROVE Counts'
  BY <1>1, <1>2, <1>10 DEF DeinitPostFails, DeinitStart, DeinitStartFails, DeinitJoin,
     DeinitSettle, DeinitFinish, DeinitFinishFails, DeinitRelockFails, Drain, service, history
<1> QED
  BY <1>3, <1>4, <1>5, <1>6, <1>7, <1>8, <1>9, <1>10 DEF Next, ServiceStep, DeinitStep

(* Types and counts in every reachable state.                              *)
LEMMA CountsAlways == Spec => [](CoreInv /\ Fields /\ Counts)
<1>1. Init => Fields /\ Counts
  <2> SUFFICES ASSUME Init PROVE Fields /\ Counts
    OBVIOUS
  <2>1. Fields
    BY DEF Init, Fields, Flags, Handles, States, Helpers
  <2>2. JobsOut = 0 /\ Outstanding = 0
    BY OthersSmall DEF Init, JobsOut, Outstanding, Executing
  <2> QED BY <2>1, <2>2, CoreAssumption DEF Init, Counts
<1>2. CoreInv /\ Fields /\ Counts /\ [Next]_vars => CoreInv' /\ Fields' /\ Counts'
  BY CoreNext, FlagsNext, HandlesNext, CountsNext DEF Fields, CoreInv
<1> QED BY <1>1, <1>2, CoreInit, PTL DEF Spec

(* Every field of the context keeps its type under any faults; no more     *)
(* jobs are out than the pool has, and no callback is delivered that was   *)
(* not due.                                                                *)
THEOREM CoreTypeCorrect == Spec => []TypeOK
<1>1. CoreInv /\ Fields /\ Counts => TypeOK
  <2> SUFFICES ASSUME CoreInv, Fields, Counts PROVE TypeOK
    OBVIOUS
  <2>1. JobKinds = Operations \cup {"init", "deinit"}
    BY DEF JobKinds, Operations
  <2>2. owed \in 0..MaxCalls
    BY CoreAssumption DEF Counts
  <2>3. queue \in Seq(Operations \cup {"init", "deinit"})
    BY <2>1 DEF CoreInv, Shapes
  <2>4. job \in Operations \cup {"init", "deinit", NoJob}
    BY <2>1 DEF Fields, Handles
  <2> QED BY <2>2, <2>3, <2>4 DEF TypeOK, Fields, Flags, Handles, Counts, CoreInv, Shapes
<1> QED BY <1>1, CountsAlways, PTL

-----------------------------------------------------------------------------
(* Failed attempts.  While the core lock can be taken, deinit_finalizing   *)
(* belongs to a call that is still inside actrust_deinit.                  *)
THEOREM FinalizingBelongs ==
  ASSUME "lock" \notin Faults PROVE Spec => []FinalizingOwned
<1>1. Init => FinalizingOwned
  BY DEF Init, FinalizingOwned
<1>2. FinalizingOwned /\ CoreInv /\ [Next]_vars => FinalizingOwned'
  <2> SUFFICES ASSUME FinalizingOwned, CoreInv, [Next]_vars PROVE FinalizingOwned'
    OBVIOUS
  <2> USE DEF FinalizingOwned, core, threads
  <2>1. pc \in [Apps -> {"idle", "post", "start", "join", "settle", "finish"}]
    BY DEF CoreInv, Shapes
  <2>2. \A a, b \in Apps : pc[a] # "idle" /\ pc[b] # "idle" => a = b
    BY DEF CoreInv, OneTeardown
  <2>3. CASE UNCHANGED <<finalizing, pc>>
    BY <2>3
  <2>4. ASSUME NEW a \in Apps, DeinitEnter(a) PROVE FinalizingOwned'
    BY <2>1, <2>4 DEF DeinitEnter, Claim
  <2>5. ASSUME NEW a \in Apps, DeinitPost(a) \/ DeinitStart(a) PROVE FinalizingOwned'
    BY <2>1, <2>5 DEF DeinitPost, DeinitStart
  <2>6. ASSUME NEW a \in Apps, DeinitPostFails(a) \/ DeinitStartFails(a) PROVE FinalizingOwned'
    BY <2>6 DEF DeinitPostFails, DeinitStartFails, RestoreState, RestoreLost
  <2>7. ASSUME NEW a \in Apps, DeinitJoin(a) \/ DeinitSettle(a) PROVE FinalizingOwned'
    BY <2>1, <2>7 DEF DeinitJoin, DeinitSettle, Cleared
  <2>8. ASSUME NEW a \in Apps, DeinitFinish(a) \/ DeinitFinishFails(a) \/ DeinitRelockFails(a)
        PROVE FinalizingOwned'
    BY <2>8 DEF DeinitFinish, DeinitFinishFails, DeinitRelockFails, Cleared
  <2>9. CASE ServiceStep \/ DequeueFails \/ ActrustInit \/ \E op \in Operations : Submit(op)
    BY <2>3, <2>9 DEF ServiceStep, DequeueFails, ActrustInit, Submit, Dequeue, Complete,
       CallbackReturns, Ran, RunInit, RunInitFails, RunConnect, RunConnectRefused,
       RunConnectUndone, RunDisconnect, RunDisconnectFails, RunRegister, RunRegisterFails,
       RunSend, RunDeinit, RunDeinitFails, DeinitStopsShort
  <2>10. CASE UNCHANGED vars
    BY <2>3, <2>10 DEF vars
  <2> QED BY <2>4, <2>5, <2>6, <2>7, <2>8, <2>9, <2>10 DEF Next, DeinitStep
<1> QED BY <1>1, <1>2, CoreAlways, PTL DEF Spec

(* As long as the service task's waits do not fail, the DEINIT job is the  *)
(* last job of its service task: nothing is queued behind it, and when the *)
(* task has ended nothing is queued at all.                                *)
QueueOrder ==
  /\ \A i \in DOMAIN queue : queue[i] = "deinit" =>
       i = Len(queue) /\ \E a \in Apps : pc[a] \in {"start", "join"}
  /\ job = "deinit" => queue = <<>>
  /\ svc = "exited" => queue = <<>> /\ \E a \in Apps : pc[a] = "join"
  /\ phase # "JOB" \/ (jobDone /\ ~jobErr) => queue = <<>>
  /\ \A a \in Apps : pc[a] \in {"settle", "finish"} => queue = <<>>
  /\ ~svcErr

(* ... so the state it set is the one a later attempt finds.               *)
RetryShape ==
  /\ svc = "exited" \/ (svc \in {"done", "callback"} /\ job = "deinit") => state = "DEINIT"
  /\ \A a \in Apps : pc[a] \in {"settle", "finish"} => state = "DEINIT"
  /\ pending /\ ~finalizing => ~task /\ state = "DEINIT"

(* Every step keeps that state until the next attempt.                     *)
LEMMA RetryNext ==
  ASSUME "dequeue" \notin Faults, CoreInv, QueueOrder, RetryShape, [Next]_vars PROVE RetryShape'
<1> USE CoreAssumption DEF RetryShape, QueueOrder,
        CoreInv, Shapes, OneTeardown, UninitQuiet, DismantleAfterService, TaskShape,
        PhaseShape, DeinitAttended, SuccessClean, PastJob, core,
        service, resources, threads, history, JobKinds
<1>1. CASE ActrustInit
  BY <1>1 DEF ActrustInit
<1>2. CASE DequeueFails
  BY <1>2 DEF DequeueFails
<1>3. CASE Complete
  BY <1>3 DEF Complete
<1>4. CASE CallbackReturns
  BY <1>4 DEF CallbackReturns
<1>5. CASE UNCHANGED vars
  BY <1>5 DEF vars
<1>6. CASE Dequeue
  BY <1>6 DEF Dequeue
<1>7. CASE RunInit
  BY <1>7 DEF RunInit, Ran
<1>8. CASE RunInitFails
  BY <1>8 DEF RunInitFails, Ran
<1>9. CASE RunConnect
  BY <1>9 DEF RunConnect, Ran, Connected
<1>10. CASE RunConnectRefused
  BY <1>10 DEF RunConnectRefused, Ran
<1>11. CASE RunConnectUndone
  BY <1>11 DEF RunConnectUndone, Ran, StillRunning
<1>12. CASE RunDisconnect
  BY <1>12 DEF RunDisconnect, Ran
<1>13. CASE RunDisconnectFails
  BY <1>13 DEF RunDisconnectFails, Ran, StillRunning
<1>14. CASE RunRegister
  BY <1>14 DEF RunRegister, Ran
<1>15. CASE RunRegisterFails
  BY <1>15 DEF RunRegisterFails, Ran
<1>16. CASE RunSend
  BY <1>16 DEF RunSend, Ran
<1>17. CASE RunDeinit
  BY <1>17 DEF RunDeinit, Ran
<1>18. CASE RunDeinitFails
  BY <1>18 DEF RunDeinitFails, DeinitStopsShort, Ran
<1>19. ASSUME NEW a \in Apps, DeinitEnter(a) PROVE RetryShape'
  BY <1>19 DEF DeinitEnter, Claim
<1>20. ASSUME NEW a \in Apps, DeinitPost(a) PROVE RetryShape'
  BY <1>20 DEF DeinitPost
<1>21. ASSUME NEW a \in Apps, DeinitPostFails(a) PROVE RetryShape'
  BY <1>21 DEF DeinitPostFails, RestoreState, RestoreLost
<1>22. ASSUME NEW a \in Apps, DeinitStart(a) PROVE RetryShape'
  BY <1>22 DEF DeinitStart
<1>23. ASSUME NEW a \in Apps, DeinitStartFails(a) PROVE RetryShape'
  BY <1>23 DEF DeinitStartFails, RestoreState, RestoreLost
<1>24. ASSUME NEW a \in Apps, DeinitJoin(a) PROVE RetryShape'
  BY <1>24 DEF DeinitJoin, Cleared
<1>25. ASSUME NEW a \in Apps, DeinitSettle(a) PROVE RetryShape'
  BY <1>25 DEF DeinitSettle
<1>26. ASSUME NEW a \in Apps, DeinitFinish(a) PROVE RetryShape'
  BY <1>26 DEF DeinitFinish
<1>27. ASSUME NEW a \in Apps, DeinitFinishFails(a) PROVE RetryShape'
  BY <1>27 DEF DeinitFinishFails, Cleared
<1>28. ASSUME NEW a \in Apps, DeinitRelockFails(a) PROVE RetryShape'
  BY <1>28 DEF DeinitRelockFails
<1>29. ASSUME NEW op \in Operations, Submit(op) PROVE RetryShape'
  BY <1>29 DEF Submit
<1> QED
  BY <1>1, <1>2, <1>3, <1>4, <1>5, <1>6, <1>7, <1>8, <1>9, <1>10, <1>11, <1>12, <1>13,
     <1>14, <1>15, <1>16, <1>17, <1>18, <1>19, <1>20, <1>21, <1>22, <1>23, <1>24, <1>25,
     <1>26, <1>27, <1>28, <1>29
     DEF Next, ServiceStep, DeinitStep

(* Nothing is queued behind a DEINIT job.                                  *)
LEMMA OrderNext ==
  ASSUME "dequeue" \notin Faults, CoreInv, QueueOrder, [Next]_vars PROVE QueueOrder'
<1> USE CoreAssumption DEF QueueOrder,
        CoreInv, Shapes, OneTeardown, UninitQuiet, DismantleAfterService, TaskShape,
        PhaseShape, DeinitAttended, SuccessClean, PastJob, core,
        service, resources, threads, history, JobKinds
<1>1. CASE ActrustInit
  <2>1. queue' = <<"init">> /\ \A i \in DOMAIN queue' : queue'[i] # "deinit"
    BY <1>1 DEF ActrustInit
  <2>2. phase = "JOB" /\ ~(jobDone /\ ~jobErr) /\ \A a \in Apps : pc[a] = "idle"
    BY <1>1 DEF ActrustInit
  <2>3. job = NoJob
    BY <1>1 DEF ActrustInit
  <2> QED BY <1>1, <2>1, <2>2, <2>3 DEF ActrustInit
<1>2. CASE DequeueFails
  BY <1>2 DEF DequeueFails
<1>3. CASE Complete
  BY <1>3 DEF Complete
<1>4. CASE CallbackReturns
  BY <1>4 DEF CallbackReturns
<1>5. CASE UNCHANGED vars
  BY <1>5 DEF vars
<1>6. CASE Dequeue
  <2>0. queue \in Seq(JobKinds) /\ queue # <<>> /\ queue' = Tail(queue) /\ job' = Head(queue)
    BY <1>6 DEF Dequeue
  <2>1. /\ DOMAIN queue = 1..Len(queue) /\ DOMAIN queue' = 1..Len(queue') /\ Len(queue') = Len(queue) - 1
        /\ Len(queue) \in Nat /\ \A i \in DOMAIN queue' : i + 1 \in DOMAIN queue /\ queue'[i] = queue[i + 1]
        /\ 1 \in DOMAIN queue /\ Head(queue) = queue[1]
    BY <2>0
  <2>2. \A i \in DOMAIN queue' : queue'[i] = "deinit" =>
          i = Len(queue') /\ \E a \in Apps : pc[a] \in {"start", "join"}
    BY <2>1
  <2>3. job' = "deinit" => queue' = <<>>
    <3>1. job' = "deinit" => Len(queue) = 1
      BY <2>0, <2>1
    <3> QED BY <2>0, <3>1
  <2>4. phase = "JOB" /\ ~(jobDone /\ ~jobErr)
    BY <2>0
  <2> QED BY <1>6, <2>2, <2>3, <2>4 DEF Dequeue
<1>7. CASE RunInit
  BY <1>7 DEF RunInit, Ran
<1>8. CASE RunInitFails
  BY <1>8 DEF RunInitFails, Ran
<1>9. CASE RunConnect
  BY <1>9 DEF RunConnect, Ran, Connected
<1>10. CASE RunConnectRefused
  BY <1>10 DEF RunConnectRefused, Ran
<1>11. CASE RunConnectUndone
  BY <1>11 DEF RunConnectUndone, Ran, StillRunning
<1>12. CASE RunDisconnect
  BY <1>12 DEF RunDisconnect, Ran
<1>13. CASE RunDisconnectFails
  BY <1>13 DEF RunDisconnectFails, Ran, StillRunning
<1>14. CASE RunRegister
  BY <1>14 DEF RunRegister, Ran
<1>15. CASE RunRegisterFails
  BY <1>15 DEF RunRegisterFails, Ran
<1>16. CASE RunSend
  BY <1>16 DEF RunSend, Ran
<1>17. CASE RunDeinit
  BY <1>17 DEF RunDeinit, Ran
<1>18. CASE RunDeinitFails
  BY <1>18 DEF RunDeinitFails, DeinitStopsShort, Ran
<1>19. ASSUME NEW a \in Apps, DeinitEnter(a) PROVE QueueOrder'
  BY <1>19 DEF DeinitEnter, Claim
<1>20. ASSUME NEW a \in Apps, DeinitPost(a) PROVE QueueOrder'
  <2>0. queue \in Seq(JobKinds) /\ queue' = Append(queue, "deinit") /\ pc[a] = "post"
    BY <1>20 DEF DeinitPost
  <2>1. \A i \in DOMAIN queue : queue[i] # "deinit"
    BY <2>0
  <2>2. \A i \in DOMAIN queue' : queue'[i] = "deinit" => i = Len(queue')
    BY <2>0, <2>1
  <2>3. job # "deinit" /\ svc # "exited" /\ phase = "JOB" /\ ~(jobDone /\ ~jobErr)
    BY <2>0
  <2>4. pc'[a] \in {"start", "join"} /\ \A b \in Apps : b # a => pc'[b] = "idle"
    BY <1>20, <2>0 DEF DeinitPost
  <2> QED BY <1>20, <2>2, <2>3, <2>4 DEF DeinitPost
<1>21. ASSUME NEW a \in Apps, DeinitPostFails(a) PROVE QueueOrder'
  BY <1>21 DEF DeinitPostFails, RestoreState, RestoreLost
<1>22. ASSUME NEW a \in Apps, DeinitStart(a) PROVE QueueOrder'
  BY <1>22 DEF DeinitStart
<1>23. ASSUME NEW a \in Apps, DeinitStartFails(a) PROVE QueueOrder'
  <2>1. queue' = <<>>
    BY <1>23 DEF DeinitStartFails, RestoreState, RestoreLost, Drain
  <2> QED BY <1>23, <2>1 DEF DeinitStartFails, RestoreState, RestoreLost
<1>24. ASSUME NEW a \in Apps, DeinitJoin(a) PROVE QueueOrder'
  BY <1>24 DEF DeinitJoin, Cleared
<1>25. ASSUME NEW a \in Apps, DeinitSettle(a) PROVE QueueOrder'
  BY <1>25 DEF DeinitSettle
<1>26. ASSUME NEW a \in Apps, DeinitFinish(a) PROVE QueueOrder'
  <2>1. queue' = <<>>
    BY <1>26 DEF DeinitFinish, Drain
  <2> QED BY <1>26, <2>1 DEF DeinitFinish
<1>27. ASSUME NEW a \in Apps, DeinitFinishFails(a) PROVE QueueOrder'
  <2>1. queue = <<>> /\ queue' = <<>> /\ UNCHANGED <<job, svc, jobDone, jobErr, svcErr>>
    BY <1>27 DEF DeinitFinishFails, Drain
  <2>2. \A b \in Apps : pc'[b] = "idle"
    BY <1>27 DEF DeinitFinishFails
  <2>3. svc = "none"
    BY <1>27 DEF DeinitFinishFails
  <2> QED BY <2>1, <2>2, <2>3
<1>28. ASSUME NEW a \in Apps, DeinitRelockFails(a) PROVE QueueOrder'
  BY <1>28 DEF DeinitRelockFails
<1>29. ASSUME NEW op \in Operations, Submit(op) PROVE QueueOrder'
  <2>0. queue \in Seq(JobKinds) /\ op \in JobKinds /\ op # "deinit" /\ queue' = Append(queue, op) /\ ~pending
    BY <1>29 DEF Submit, Operations
  <2>1. \A a \in Apps : pc[a] = "idle"
    BY <2>0
  <2>2. \A i \in DOMAIN queue : queue[i] # "deinit"
    BY <2>1
  <2>3. \A i \in DOMAIN queue' : queue'[i] # "deinit"
    BY <2>0, <2>2
  <2>4. job # "deinit" /\ svc # "exited" /\ phase = "JOB" /\ ~(jobDone /\ ~jobErr)
    BY <2>0, <2>1
  <2> QED BY <1>29, <2>1, <2>3, <2>4 DEF Submit
<1> QED
  BY <1>1, <1>2, <1>3, <1>4, <1>5, <1>6, <1>7, <1>8, <1>9, <1>10, <1>11, <1>12, <1>13,
     <1>14, <1>15, <1>16, <1>17, <1>18, <1>19, <1>20, <1>21, <1>22, <1>23, <1>24, <1>25,
     <1>26, <1>27, <1>28, <1>29
     DEF Next, ServiceStep, DeinitStep

(* Both facts hold in every reachable state.                               *)
LEMMA OrderAlways ==
  ASSUME "dequeue" \notin Faults PROVE Spec => [](QueueOrder /\ RetryShape)
<1>1. Init => QueueOrder /\ RetryShape
  BY CoreAssumption DEF Init, QueueOrder, RetryShape
<1>2. CoreInv /\ QueueOrder /\ RetryShape /\ [Next]_vars => QueueOrder' /\ RetryShape'
  BY OrderNext, RetryNext
<1> QED BY <1>1, <1>2, CoreAlways, PTL DEF Spec

(* A teardown attempt that failed can be tried again, unless the service   *)
(* task ended by itself with other jobs' states in place.                  *)
THEOREM FailedAttemptRetryable ==
  ASSUME "dequeue" \notin Faults PROVE Spec => []PendingRetryable
<1>1. RetryShape => PendingRetryable
  BY DEF RetryShape, PendingRetryable
<1> QED BY <1>1, OrderAlways, PTL

(* No drain throws an accepted operation away, and each is called back     *)
(* once, as long as the service task can be started and its waits work:    *)
(* core_drain_pending_jobs then only ever finds an empty queue.            *)
THEOREM CallbacksExact ==
  ASSUME "dequeue" \notin Faults, "start" \notin Faults
  PROVE  Spec => []EveryJobAccounted
<1> DEFINE Exact == owed = Outstanding
<1>1. Init => Exact
  BY OthersSmall DEF Init, Outstanding, Executing
<1>2. ASSUME CoreInv, Fields, Counts, QueueOrder, Exact, [Next]_vars PROVE Exact'
  <2>0. /\ queue \in Seq(JobKinds) /\ Cardinality(Others(queue)) \in Nat /\ owed \in Nat
        /\ owed = Outstanding /\ NoJob \notin JobKinds /\ "deinit" \in JobKinds
    BY <1>2, CoreAssumption, OthersAppend DEF CoreInv, Shapes, Counts, JobKinds
  <2>1. ASSUME UNCHANGED <<queue, job, owed>> PROVE Exact'
    BY <2>0, <2>1 DEF Outstanding, Executing
  <2>2. CASE ActrustInit
    <3>1. queue' = <<"init">> /\ owed' = owed + 1 /\ job' = job /\ job = NoJob /\ queue = <<>>
      BY <1>2, <2>2 DEF ActrustInit, CoreInv, UninitQuiet, TaskShape
    <3> QED BY <2>0, <3>1, OthersSmall DEF Outstanding, Executing
  <2>3. ASSUME NEW op \in Operations, Submit(op) PROVE Exact'
    <3>1. /\ queue' = Append(queue, op) /\ op \in JobKinds /\ op # "deinit"
          /\ owed' = owed + 1 /\ job' = job
      BY <2>3 DEF Submit, service, Operations, JobKinds
    <3>2. Cardinality(Others(queue')) = Cardinality(Others(queue)) + 1
      BY <2>0, <3>1, OthersAppend
    <3> QED BY <2>0, <3>1, <3>2 DEF Outstanding, Executing
  <2>4. ASSUME NEW a \in Apps, DeinitPost(a) PROVE Exact'
    <3>1. queue' = Append(queue, "deinit") /\ UNCHANGED <<owed, job>>
      BY <2>4 DEF DeinitPost, service, history
    <3>2. Cardinality(Others(queue')) = Cardinality(Others(queue)) + 0
      BY <2>0, <3>1, OthersAppend
    <3> QED BY <2>0, <3>1, <3>2 DEF Outstanding, Executing
  <2>5. CASE Dequeue
    <3>1. /\ queue # <<>> /\ queue' = Tail(queue) /\ job' = Head(queue) /\ job = NoJob
          /\ UNCHANGED owed
      BY <1>2, <2>5 DEF Dequeue, history, CoreInv, TaskShape
    <3>2. /\ Head(queue) \in JobKinds
          /\ Cardinality(Others(queue')) =
               Cardinality(Others(queue)) - IF Head(queue) = "deinit" THEN 0 ELSE 1
      BY <2>0, <3>1, OthersTail, QueueTail
    <3> QED BY <2>0, <3>1, <3>2 DEF Outstanding, Executing
  <2>6. CASE CallbackReturns
    <3>1. /\ UNCHANGED queue /\ job' = NoJob /\ job \in JobKinds
          /\ owed' = IF job = "deinit" THEN owed ELSE owed - 1
      BY <1>2, <2>6 DEF CallbackReturns, CoreInv, TaskShape, Fields, Handles
    <3> QED BY <2>0, <3>1 DEF Outstanding, Executing
  <2>7. ASSUME NEW a \in Apps, DeinitFinish(a) \/ DeinitFinishFails(a) PROVE Exact'
    <3>1. queue = <<>> /\ queue' = <<>> /\ UNCHANGED <<owed, job>>
      BY <1>2, <2>7 DEF DeinitFinish, DeinitFinishFails, Drain, QueueOrder, service, history
    <3> QED BY <2>1, <3>1
  <2>8. ASSUME NEW a \in Apps,
               \/ DeinitEnter(a) \/ DeinitPostFails(a) \/ DeinitStart(a) \/ DeinitStartFails(a)
               \/ DeinitJoin(a) \/ DeinitSettle(a) \/ DeinitRelockFails(a)
        PROVE Exact'
    BY <2>1, <2>8 DEF DeinitEnter, Claim, DeinitPostFails, DeinitStart, DeinitStartFails,
       DeinitJoin, DeinitSettle, DeinitRelockFails, service, history
  <2>9. CASE \/ DequeueFails \/ Complete \/ RunInit \/ RunInitFails \/ RunConnect
             \/ RunConnectRefused \/ RunConnectUndone \/ RunDisconnect \/ RunDisconnectFails
             \/ RunRegister \/ RunRegisterFails \/ RunSend \/ RunDeinit \/ RunDeinitFails
             \/ UNCHANGED vars
    BY <2>1, <2>9 DEF DequeueFails, Complete, RunInit, RunInitFails, RunConnect,
       RunConnectRefused, RunConnectUndone, RunDisconnect, RunDisconnectFails, RunRegister,
       RunRegisterFails, RunSend, RunDeinit, RunDeinitFails, DeinitStopsShort, Ran,
       vars, service, history
  <2> QED
    BY <1>2, <2>2, <2>3, <2>4, <2>5, <2>6, <2>7, <2>8, <2>9 DEF Next, ServiceStep, DeinitStep
<1>3. Exact => EveryJobAccounted
  BY DEF EveryJobAccounted, Outstanding, Executing, Others
<1> QED
  BY <1>1, <1>2, <1>3, CountsAlways, OrderAlways, PTL DEF Spec

-----------------------------------------------------------------------------
(* Without faults.  What the state says about the session and the helper   *)
(* tasks, and that the INIT job runs in state INITING alone.               *)
StateMeans ==
  /\ state = "READY" => "cloud" \in held /\ ~session
  /\ state \in Connected => session /\ (state = "REGISTERED" => "key" \in held)
  /\ IF session THEN Helpers \cup {"cloud"} \subseteq held ELSE held \cap Helpers = {}
  /\ orphans = {}

InitAlone ==
  /\ state = "INITING" =>
       /\ held = {} /\ ~session
       /\ IF job = NoJob THEN queue \in {<<>>, <<"init">>} ELSE job = "init" /\ queue = <<>>
       /\ \A a \in Apps : pc[a] = "idle"
  /\ state # "INITING" =>
       /\ svc = "run" => job # "init"
       /\ \A i \in DOMAIN queue : queue[i] # "init"

(* The pool has an entry for the DEINIT job when actrust_deinit posts it.  *)
DeinitJobPosted == \A a \in Apps : ~DeinitPostFails(a)

(* Nothing else is queued or run before the INIT job is done.              *)
LEMMA InitNext ==
  ASSUME Faults = {}, CoreInv, InitAlone, DeinitJobPosted, [Next]_vars PROVE InitAlone'
<1> USE CoreAssumption DEF InitAlone, DeinitJobPosted,
        CoreInv, Shapes, OneTeardown, UninitQuiet, TaskShape,
        core, service, resources, threads, history, JobKinds
<1>1. CASE ActrustInit
  <2>1. queue' = <<"init">> /\ held = {} /\ ~session /\ job = NoJob
    BY <1>1 DEF ActrustInit
  <2>2. \A a \in Apps : pc[a] = "idle"
    BY <1>1 DEF ActrustInit
  <2> QED BY <1>1, <2>1, <2>2 DEF ActrustInit
<1>2. CASE DequeueFails
  BY <1>2 DEF DequeueFails
<1>3. CASE Complete
  BY <1>3 DEF Complete
<1>4. CASE CallbackReturns
  BY <1>4 DEF CallbackReturns
<1>5. CASE UNCHANGED vars
  BY <1>5 DEF vars
<1>6. CASE Dequeue
  <2>0. queue \in Seq(JobKinds) /\ queue # <<>> /\ queue' = Tail(queue) /\ job' = Head(queue)
        /\ UNCHANGED <<state, held, session, pc>> /\ job = NoJob /\ job' \in JobKinds
    BY <1>6, QueueTail DEF Dequeue
  <2>1. /\ \A i \in DOMAIN queue' : i + 1 \in DOMAIN queue /\ queue'[i] = queue[i + 1]
        /\ 1 \in DOMAIN queue /\ Head(queue) = queue[1]
    BY <2>0
  <2>2. CASE state = "INITING"
    <3>1. queue = <<"init">>
      BY <2>0, <2>2
    <3>2. job' = "init" /\ queue' = <<>>
      BY <2>0, <3>1
    <3> QED BY <2>0, <2>2, <3>2
  <2>3. CASE state # "INITING"
    BY <2>0, <2>1, <2>3
  <2> QED BY <2>2, <2>3
<1>7. CASE RunInit
  BY <1>7 DEF RunInit, Ran
<1>8. CASE RunInitFails
  BY <1>8 DEF RunInitFails, Ran
<1>9. CASE RunConnect
  <2>1. PICK st \in Connected : Ran("connect", FALSE, st, held \cup Helpers, TRUE)
    BY <1>9 DEF RunConnect, Connected
  <2> QED BY <2>1 DEF Ran, Connected
<1>10. CASE RunConnectRefused
  BY <1>10 DEF RunConnectRefused, Ran
<1>11. CASE RunConnectUndone
  BY <1>11 DEF RunConnectUndone, Ran, StillRunning
<1>12. CASE RunDisconnect
  BY <1>12 DEF RunDisconnect, Ran
<1>13. CASE RunDisconnectFails
  BY <1>13 DEF RunDisconnectFails, Ran, StillRunning
<1>14. CASE RunRegister
  BY <1>14 DEF RunRegister, Ran
<1>15. CASE RunRegisterFails
  BY <1>15 DEF RunRegisterFails, Ran
<1>16. CASE RunSend
  BY <1>16 DEF RunSend, Ran
<1>17. CASE RunDeinit
  BY <1>17 DEF RunDeinit, Ran
<1>18. CASE RunDeinitFails
  BY <1>18 DEF RunDeinitFails, DeinitStopsShort, Ran
<1>19. ASSUME NEW a \in Apps, DeinitEnter(a) PROVE InitAlone'
  BY <1>19 DEF DeinitEnter, Claim
<1>20. ASSUME NEW a \in Apps, DeinitPost(a) PROVE InitAlone'
  <2>0. queue \in Seq(JobKinds) /\ queue' = Append(queue, "deinit") /\ state # "INITING"
    BY <1>20 DEF DeinitPost
  <2>1. \A i \in DOMAIN queue' : queue'[i] # "init"
    BY <2>0
  <2> QED BY <1>20, <2>0, <2>1 DEF DeinitPost
<1>21. ASSUME NEW a \in Apps, DeinitPostFails(a) PROVE InitAlone'
  BY <1>21
<1>22. ASSUME NEW a \in Apps, DeinitStart(a) PROVE InitAlone'
  BY <1>22 DEF DeinitStart
<1>23. ASSUME NEW a \in Apps, DeinitStartFails(a) PROVE InitAlone'
  BY <1>23 DEF DeinitStartFails
<1>24. ASSUME NEW a \in Apps, DeinitJoin(a) PROVE InitAlone'
  BY <1>24 DEF DeinitJoin, Cleared
<1>25. ASSUME NEW a \in Apps, DeinitSettle(a) PROVE InitAlone'
  BY <1>25 DEF DeinitSettle
<1>26. ASSUME NEW a \in Apps, DeinitFinish(a) PROVE InitAlone'
  <2>1. queue' = <<>>
    BY <1>26 DEF DeinitFinish, Drain
  <2> QED BY <1>26, <2>1 DEF DeinitFinish
<1>27. ASSUME NEW a \in Apps, DeinitFinishFails(a) PROVE InitAlone'
  BY <1>27 DEF DeinitFinishFails
<1>28. ASSUME NEW a \in Apps, DeinitRelockFails(a) PROVE InitAlone'
  BY <1>28 DEF DeinitRelockFails
<1>29. ASSUME NEW op \in Operations, Submit(op) PROVE InitAlone'
  <2>0. /\ queue \in Seq(JobKinds) /\ op \in JobKinds /\ op # "init" /\ queue' = Append(queue, op)
        /\ state # "INITING"
    BY <1>29 DEF Submit, Operations, AcceptedIn
  <2>1. \A i \in DOMAIN queue' : queue'[i] # "init"
    BY <2>0
  <2> QED BY <1>29, <2>0, <2>1 DEF Submit
<1> QED
  BY <1>1, <1>2, <1>3, <1>4, <1>5, <1>6, <1>7, <1>8, <1>9, <1>10, <1>11, <1>12, <1>13,
     <1>14, <1>15, <1>16, <1>17, <1>18, <1>19, <1>20, <1>21, <1>22, <1>23, <1>24, <1>25,
     <1>26, <1>27, <1>28, <1>29
     DEF Next, ServiceStep, DeinitStep

(* The handlers keep session, helper tasks and state together.             *)
LEMMA StateNext ==
  ASSUME Faults = {}, CoreInv, InitAlone, Fields, StateMeans, DeinitJobPosted, [Next]_vars PROVE StateMeans'
<1> USE CoreAssumption DEF StateMeans, InitAlone, DeinitJobPosted, Connected, Helpers,
        StillRunning, CloudMayFail, CoreInv, Shapes, OneTeardown, UninitQuiet, TaskShape,
        core, service, resources, threads, history, JobKinds
<1>1. CASE ActrustInit
  BY <1>1 DEF ActrustInit
<1>2. CASE DequeueFails
  BY <1>2 DEF DequeueFails
<1>3. CASE Complete
  BY <1>3 DEF Complete
<1>4. CASE CallbackReturns
  BY <1>4 DEF CallbackReturns
<1>5. CASE UNCHANGED vars
  BY <1>5 DEF vars
<1>6. CASE Dequeue
  BY <1>6 DEF Dequeue
<1>7. CASE RunInit
  BY <1>7 DEF RunInit, Ran
<1>8. CASE RunInitFails
  BY <1>8 DEF RunInitFails, Ran
<1>9. CASE RunConnect
  BY <1>9 DEF RunConnect, MayConnect, Ran, Connected
<1>10. CASE RunConnectRefused
  BY <1>10 DEF RunConnectRefused, Ran
<1>11. CASE RunConnectUndone
  BY <1>11 DEF RunConnectUndone, MayConnect, Ran, StillRunning
<1>12. CASE RunDisconnect
  BY <1>12 DEF RunDisconnect, Ran
<1>13. CASE RunDisconnectFails
  BY <1>13 DEF RunDisconnectFails, Ran, StillRunning
<1>14. CASE RunRegister
  BY <1>14 DEF RunRegister, Ran
<1>15. CASE RunRegisterFails
  BY <1>15 DEF RunRegisterFails, Ran
<1>16. CASE RunSend
  BY <1>16 DEF RunSend, Ran
<1>17. CASE RunDeinit
  BY <1>17 DEF RunDeinit, Ran
<1>18. CASE RunDeinitFails
  BY <1>18 DEF RunDeinitFails, DeinitStopsShort, Ran
<1>19. ASSUME NEW a \in Apps, DeinitEnter(a) PROVE StateMeans'
  BY <1>19 DEF DeinitEnter, Claim
<1>20. ASSUME NEW a \in Apps, DeinitPost(a) PROVE StateMeans'
  BY <1>20 DEF DeinitPost
<1>21. ASSUME NEW a \in Apps, DeinitPostFails(a) PROVE StateMeans'
  BY <1>21
<1>22. ASSUME NEW a \in Apps, DeinitStart(a) PROVE StateMeans'
  BY <1>22 DEF DeinitStart
<1>23. ASSUME NEW a \in Apps, DeinitStartFails(a) PROVE StateMeans'
  BY <1>23 DEF DeinitStartFails
<1>24. ASSUME NEW a \in Apps, DeinitJoin(a) PROVE StateMeans'
  BY <1>24 DEF DeinitJoin, Cleared
<1>25. ASSUME NEW a \in Apps, DeinitSettle(a) PROVE StateMeans'
  BY <1>25 DEF DeinitSettle
<1>26. ASSUME NEW a \in Apps, DeinitFinish(a) PROVE StateMeans'
  BY <1>26 DEF DeinitFinish
<1>27. ASSUME NEW a \in Apps, DeinitFinishFails(a) PROVE StateMeans'
  BY <1>27 DEF DeinitFinishFails
<1>28. ASSUME NEW a \in Apps, DeinitRelockFails(a) PROVE StateMeans'
  BY <1>28 DEF DeinitRelockFails
<1>29. ASSUME NEW op \in Operations, Submit(op) PROVE StateMeans'
  BY <1>29 DEF Submit
<1> QED
  BY <1>1, <1>2, <1>3, <1>4, <1>5, <1>6, <1>7, <1>8, <1>9, <1>10, <1>11, <1>12, <1>13,
     <1>14, <1>15, <1>16, <1>17, <1>18, <1>19, <1>20, <1>21, <1>22, <1>23, <1>24, <1>25,
     <1>26, <1>27, <1>28, <1>29
     DEF Next, ServiceStep, DeinitStep

(* Without faults, and as long as the DEINIT job can be posted, the state  *)
(* tells the truth.  Posting fails when the pool is exhausted; what        *)
(* core_deinit_restore_state then does to a state that the queued jobs     *)
(* have moved on is the counterexample of core_stale_restore, so the       *)
(* premise cannot be dropped.                                              *)
LEMMA StateAlways ==
  ASSUME Faults = {} PROVE Spec /\ [][DeinitJobPosted]_vars => []StateMeans
<1>1. Init => InitAlone /\ StateMeans
  BY CoreAssumption DEF Init, InitAlone, StateMeans, Connected
<1>2. ASSUME CoreInv, Fields, InitAlone, StateMeans, [Next]_vars, [DeinitJobPosted]_vars
      PROVE  InitAlone' /\ StateMeans'
  <2>1. CASE DeinitJobPosted
    BY <1>2, <2>1, InitNext, StateNext
  <2>2. CASE UNCHANGED vars
    BY <1>2, <2>2 DEF vars, core, service, resources, threads, history, InitAlone, StateMeans
  <2> QED BY <1>2, <2>1, <2>2
<1> QED BY <1>1, <1>2, CountsAlways, PTL DEF Spec

(* READY means a cloud client without a session.                           *)
THEOREM ReadyIsIdle ==
  ASSUME Faults = {} PROVE Spec /\ [][DeinitJobPosted]_vars => []ReadyMeansIdle
<1>1. StateMeans => ReadyMeansIdle
  BY DEF StateMeans, ReadyMeansIdle
<1> QED BY <1>1, StateAlways, PTL

(* UNREGISTERED and REGISTERED mean a session with both helper tasks, and  *)
(* REGISTERED a signing key.                                               *)
THEOREM ConnectedIsUp ==
  ASSUME Faults = {} PROVE Spec /\ [][DeinitJobPosted]_vars => []ConnectedHasSession
<1>1. StateMeans => ConnectedHasSession
  BY DEF StateMeans, ConnectedHasSession
<1> QED BY <1>1, StateAlways, PTL

(* core_connect never overwrites the handle of a helper task that was not  *)
(* joined.                                                                 *)
THEOREM HelpersAreJoined ==
  ASSUME Faults = {} PROVE Spec /\ [][DeinitJobPosted]_vars => []HelpersJoined
<1>1. StateMeans => HelpersJoined
  BY DEF StateMeans, HelpersJoined
<1> QED BY <1>1, StateAlways, PTL
=============================================================================
