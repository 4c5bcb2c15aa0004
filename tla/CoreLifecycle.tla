---------------------------- MODULE CoreLifecycle ----------------------------
(***************************************************************************)
(* The life cycle of the SDK core: the public calls of actrust.h           *)
(* (core_api.c), the service task that executes their jobs one by one      *)
(* (core_service.c), and what each job does to the lifecycle state and to  *)
(* the resources of the context (core_ops.c).                              *)
(*                                                                         *)
(* A public call holds the lifecycle gate and the core lock from its       *)
(* checks to its last assignment, so it is one step; actrust_deinit gives  *)
(* both up several times and is one step per stretch.  The resources are   *)
(* touched by the service task alone, so a job is a step that ends with    *)
(* its core_set_state.  The job queue is the FIFO of JobChannel.  Calls    *)
(* that are refused change nothing and are stuttering steps.               *)
(***************************************************************************)
EXTENDS Integers, FiniteSets, Sequences

CONSTANTS Apps,      \* application threads
          PoolSize,  \* CONFIG_ACTRUST_CORE_JOB_POOL_SIZE
          MaxCalls,  \* bound on the calls accepted in a behaviour
          Faults,    \* what can fail, see FaultKinds
          NoJob      \* the service task has no job

(* "start": a task cannot be created.  "dequeue": the service task's wait  *)
(* for a job fails.  "stop": the join of a helper task times out.          *)
(* "cloud": the cloud provider fails to disconnect.  "release": freeing a  *)
(* resource fails.  "lock": the core lock cannot be taken again.  "drop":  *)
(* the connection is lost while a second CONNECT job is queued.            *)
FaultKinds == {"start", "dequeue", "stop", "cloud", "release", "lock", "drop"}

ASSUME CoreAssumption ==
  /\ PoolSize \in Nat \ {0} /\ MaxCalls \in Nat /\ Faults \subseteq FaultKinds
  /\ NoJob \notin {"init", "connect", "disconnect", "register", "send", "deinit"}

VARIABLES
  lock,             \* ctx->lock exists
  state,            \* ctx->state
  pending,          \* ctx->deinit_pending
  finalizing,       \* ctx->deinit_finalizing
  jobDone, jobErr,  \* ctx->deinit_job_done; ctx->deinit_result is an error
  phase,            \* ctx->deinit_phase
  callbackActive,   \* ctx->callback_active
  queue,            \* the job queue
  task,             \* ctx->service_task is set
  svc,              \* where the service task is
  job,              \* the job it has dequeued
  result,           \* that job failed
  svcErr,           \* ctx->service_result is an error
  held,             \* the handles of the context that are set
  session,          \* the cloud session is up
  orphans,          \* helper tasks whose handle was overwritten unjoined
  pc, prev,         \* per application thread: position in actrust_deinit,
                    \* and its local previous_state
  calls,            \* number of accepted calls
  owed              \* accepted operations whose callback is still due

core == <<lock, state, pending, finalizing, jobDone, jobErr, phase>>
service == <<callbackActive, task, svc, job, result, svcErr>>
resources == <<held, session, orphans>>
threads == <<pc, prev>>
history == <<calls, owed>>
vars == <<core, queue, service, resources, threads, history>>

States == {"UNINIT", "READY", "UNREGISTERED", "REGISTERED", "DEINIT",
           "INITING", "INIT_FAILED"}
Connected == {"UNREGISTERED", "REGISTERED"}
Operations == {"connect", "disconnect", "register", "send"}
Helpers == {"ntp_task", "downlink_task"}

(* ctx->deinit_phase in the order of the teardown.                         *)
Phases == <<"JOB", "QUEUE", "POOL", "LOCK">>

(* core_ops_deinit gives the handles up in this order.                     *)
ReleaseOrder == <<"ntp_task", "downlink_task", "key", "cloud", "ntp", "crypto">>

Init ==
  /\ lock = FALSE /\ state = "UNINIT" /\ pending = FALSE /\ finalizing = FALSE
  /\ jobDone = FALSE /\ jobErr = FALSE /\ phase = "JOB" /\ callbackActive = FALSE
  /\ queue = <<>> /\ task = FALSE /\ svc = "none" /\ job = NoJob
  /\ result = FALSE /\ svcErr = FALSE
  /\ held = {} /\ session = FALSE /\ orphans = {}
  /\ pc = [a \in Apps |-> "idle"] /\ prev = [a \in Apps |-> "READY"]
  /\ calls = 0 /\ owed = 0

-----------------------------------------------------------------------------
(* Posting a job.                                                          *)

(* A job leaves the pool's free stack when it is posted and comes back     *)
(* when core_service_complete_job releases it.                             *)
JobsOut == Len(queue) + IF svc \in {"run", "done"} THEN 1 ELSE 0
RoomOneTooMany == JobsOut <= PoolSize   \* mutation: off by one
Room == JobsOut < PoolSize

Accepted == calls < MaxCalls /\ calls' = calls + 1

(* actrust_init: context, pool and queue are created, the INIT job is      *)
(* posted and the service task started.  A failure undoes all of it.       *)
ActrustInit ==
  /\ ~lock /\ state = "UNINIT"
  /\ Accepted
  /\ lock' = TRUE /\ state' = "INITING"
  /\ queue' = <<"init">>
  /\ task' = TRUE /\ svc' = "idle" /\ svcErr' = FALSE
  /\ owed' = owed + 1
  /\ UNCHANGED <<pending, finalizing, jobDone, jobErr, phase, callbackActive, job,
                 result, resources, threads>>

(* The states in which core_submit_job takes each operation.               *)
AcceptedIn(op) ==
  CASE op = "connect"    -> {"READY"}
    [] op = "disconnect" -> {"UNREGISTERED", "REGISTERED"}
    [] op = "register"   -> {"UNREGISTERED"}
    [] op = "send"       -> {"REGISTERED"}

(* actrust_connect, _disconnect, _register, _data_publish.                 *)
Submit(op) ==
  /\ lock /\ ~pending
  /\ state \in AcceptedIn(op)
  /\ Room
  /\ Accepted
  /\ queue' = Append(queue, op)
  /\ owed' = owed + 1
  /\ UNCHANGED <<core, service, resources, threads>>

-----------------------------------------------------------------------------
(* actrust_deinit.                                                         *)

(* Up to the first unlock, for a call that starts the teardown in one of   *)
(* the states from, and for one that tries it again.                       *)
Claim(a, from, mark) ==
  LET new    == state \in from
      retry  == state = "DEINIT" /\ pending
      submit == new \/ (phase = "JOB" /\ ~task /\ (~jobDone \/ jobErr))
  IN  /\ pc[a] = "idle" /\ lock /\ ~callbackActive
      /\ new \/ retry
      /\ Accepted
      /\ prev' = [prev EXCEPT ![a] = IF new THEN state ELSE "READY"]
      /\ state' = "DEINIT" /\ pending' = mark /\ finalizing' = TRUE
      /\ jobDone' = (jobDone /\ ~new) /\ jobErr' = (jobErr /\ ~new)
      /\ phase' = IF new THEN "JOB" ELSE phase
      /\ pc' = [pc EXCEPT ![a] = IF submit THEN "post"
                                 ELSE IF phase # "JOB" THEN "finish"
                                 ELSE IF task THEN "join" ELSE "settle"]
      /\ UNCHANGED <<lock, queue, service, resources, owed>>

(* Mutations: deinit_finalizing is not checked; deinit_pending is not set. *)
DeinitEnterTogether(a) == Claim(a, {"READY", "INIT_FAILED"}, TRUE)
DeinitEnterUnmarked(a) == ~finalizing /\ Claim(a, {"READY", "INIT_FAILED"}, FALSE)

DeinitEnter(a) == ~finalizing /\ Claim(a, {"READY", "INIT_FAILED"}, TRUE)

(* Mutations: the queue is emptied first; the job is not posted.           *)
DeinitPostDrains(a) ==
  /\ pc[a] = "post"
  /\ queue' = <<"deinit">>
  /\ pc' = [pc EXCEPT ![a] = IF task THEN "join" ELSE "start"]
  /\ UNCHANGED <<core, service, resources, prev, history>>
DeinitPostForgotten(a) ==
  /\ pc[a] = "post"
  /\ pc' = [pc EXCEPT ![a] = IF task THEN "join" ELSE "start"]
  /\ UNCHANGED <<core, queue, service, resources, prev, history>>

(* core_post_job of the DEINIT job, no lock held.                          *)
DeinitPost(a) ==
  /\ pc[a] = "post" /\ Room
  /\ queue' = Append(queue, "deinit")
  /\ pc' = [pc EXCEPT ![a] = IF task THEN "join" ELSE "start"]
  /\ UNCHANGED <<core, service, resources, prev, history>>

(* core_deinit_restore_state.  Like core_deinit_clear_finalizing it does   *)
(* nothing when the core lock fails.                                       *)
RestoreState(a) ==
  /\ state' = prev[a]
  /\ pending' = FALSE /\ finalizing' = FALSE
  /\ jobDone' = FALSE /\ jobErr' = FALSE /\ phase' = "JOB"
  /\ pc' = [pc EXCEPT ![a] = "idle"]
  /\ UNCHANGED <<lock, prev>>

RestoreLost(a) ==
  /\ "lock" \in Faults
  /\ pc' = [pc EXCEPT ![a] = "idle"]
  /\ UNCHANGED <<core, prev>>

Cleared == IF "lock" \in Faults THEN BOOLEAN ELSE {FALSE}

DeinitPostFails(a) ==
  /\ pc[a] = "post"
  /\ ~Room \/ "lock" \in Faults
  /\ RestoreState(a) \/ RestoreLost(a)
  /\ UNCHANGED <<queue, service, resources, history>>

(* core_service_start for a retry whose service task is gone.              *)
DeinitStart(a) ==
  /\ pc[a] = "start"
  /\ task' = TRUE /\ svc' = "idle" /\ svcErr' = FALSE
  /\ pc' = [pc EXCEPT ![a] = "join"]
  /\ UNCHANGED <<core, queue, callbackActive, job, result, resources, prev, history>>

(* core_drain_pending_jobs: released unexecuted, and without a callback.   *)
Drain == queue' = <<>>

DeinitStartFails(a) ==
  /\ "start" \in Faults
  /\ pc[a] = "start"
  /\ Drain
  /\ RestoreState(a) \/ RestoreLost(a)
  /\ UNCHANGED <<service, resources, history>>

(* Mutation: the join does not wait for the task to end.                   *)
DeinitJoinEarly(a) ==
  /\ pc[a] = "join"
  /\ task' = FALSE
  /\ pc' = [pc EXCEPT ![a] = "settle"]
  /\ UNCHANGED <<core, queue, callbackActive, svc, job, result, svcErr, resources, prev,
                 history>>

(* core_service_stop: join the service task, without a time limit.  Its    *)
(* error ends the attempt.                                                 *)
DeinitJoin(a) ==
  /\ pc[a] = "join" /\ svc = "exited"
  /\ task' = FALSE /\ svc' = "none"
  /\ finalizing' \in IF svcErr THEN Cleared ELSE {finalizing}
  /\ pc' = [pc EXCEPT ![a] = IF svcErr THEN "idle" ELSE "settle"]
  /\ UNCHANGED <<lock, state, pending, jobDone, jobErr, phase, queue, callbackActive,
                 job, result, svcErr, resources, prev, history>>

(* Mutation: the way out of a failed attempt keeps deinit_finalizing set.  *)
DeinitSettleStuck(a) ==
  LET ok == jobDone /\ ~jobErr
  IN  /\ pc[a] = "settle"
      /\ phase' = IF ok THEN "QUEUE" ELSE phase
      /\ pc' = [pc EXCEPT ![a] = IF ok THEN "finish" ELSE "idle"]
      /\ UNCHANGED <<lock, state, pending, finalizing, jobDone, jobErr, queue, service,
                     resources, prev, history>>

(* The outcome of the DEINIT job decides whether the teardown goes on.     *)
DeinitSettle(a) ==
  LET ok == jobDone /\ ~jobErr
  IN  /\ pc[a] = "settle"
      /\ phase' = IF ok THEN "QUEUE" ELSE phase
      /\ finalizing' = ok
      /\ pc' = [pc EXCEPT ![a] = IF ok THEN "finish" ELSE "idle"]
      /\ UNCHANGED <<lock, state, pending, jobDone, jobErr, queue, service, resources,
                     prev, history>>

(* Phases QUEUE, POOL and LOCK under both locks, as far as they succeed.   *)
DeinitFinish(a) ==
  /\ pc[a] = "finish"
  /\ Drain
  /\ lock' = FALSE /\ state' = "UNINIT" /\ pending' = FALSE /\ finalizing' = FALSE
  /\ jobDone' = FALSE /\ jobErr' = FALSE /\ phase' = "JOB"
  /\ pc' = [pc EXCEPT ![a] = "idle"]
  /\ UNCHANGED <<service, resources, prev, history>>

PhaseNo(p) == CHOOSE i \in DOMAIN Phases : Phases[i] = p

DeinitFinishFails(a) ==
  /\ "release" \in Faults
  /\ pc[a] = "finish"
  /\ \E i \in PhaseNo(phase)..Len(Phases) : phase' = Phases[i]
  /\ \/ phase' = "QUEUE" /\ UNCHANGED queue
     \/ Drain
  /\ finalizing' \in IF phase' = "LOCK" THEN Cleared ELSE {FALSE}
  /\ pc' = [pc EXCEPT ![a] = "idle"]
  /\ UNCHANGED <<lock, state, pending, jobDone, jobErr, service, resources, prev,
                 history>>

(* The gate or the core lock cannot be taken for the next stretch: the     *)
(* call returns at once.  Before the last stretch it does not even try to  *)
(* reset deinit_finalizing when it was the core lock that failed.          *)
DeinitRelockFails(a) ==
  /\ "lock" \in Faults
  /\ pc[a] \in {"settle", "finish"}
  /\ finalizing' \in BOOLEAN
  /\ pc' = [pc EXCEPT ![a] = "idle"]
  /\ UNCHANGED <<lock, state, pending, jobDone, jobErr, phase, queue, service, resources,
                 prev, history>>

-----------------------------------------------------------------------------
(* core_service_main.                                                      *)

Dequeue ==
  /\ svc = "idle" /\ queue # <<>>
  /\ job' = Head(queue) /\ queue' = Tail(queue)
  /\ svc' = "run"
  /\ UNCHANGED <<core, callbackActive, task, result, svcErr, resources, threads, history>>

DequeueFails ==
  /\ "dequeue" \in Faults
  /\ svc = "idle"
  /\ svc' = "exited" /\ svcErr' = TRUE
  /\ UNCHANGED <<core, queue, callbackActive, task, job, result, resources, threads,
                 history>>

(* The job's handler is done: its result, the state it leaves (core_set_   *)
(* state), and the handles it leaves set.                                  *)
Ran(op, failed, st, handles, up) ==
  /\ svc = "run" /\ job = op
  /\ svc' = "done" /\ result' = failed
  /\ state' = st /\ held' = handles /\ session' = up
  /\ UNCHANGED <<lock, pending, finalizing, jobDone, jobErr, phase, queue, callbackActive,
                 task, job, svcErr, threads, history>>

(* core_ops_init.  A signing key may be there from an earlier life.        *)
RunInit ==
  \E key \in SUBSET {"key"} :
    /\ Ran("init", FALSE, "READY", {"crypto", "ntp", "cloud"} \cup key, session)
    /\ UNCHANGED orphans

(* Its rollback keeps crypto and key only when the key cannot be closed.   *)
RunInitFails ==
  \E left \in {{}} \cup IF "release" \in Faults THEN {{"crypto", "key"}} ELSE {} :
    /\ Ran("init", TRUE, "INIT_FAILED", left, session)
    /\ UNCHANGED orphans

(* core_ntp_stop and core_downlink_stop, asked to stop hs: the helpers     *)
(* whose join times out keep their handle.                                 *)
StillRunning(hs) == IF "stop" \in Faults THEN SUBSET hs ELSE {{}}
CloudMayFail == "cloud" \in Faults

(* The provider tries to connect: no session, or one whose connection is   *)
(* lost, which set_callbacks does not refuse.                              *)
MayConnect == "cloud" \in held /\ (~session \/ "drop" \in Faults)

(* Mutation: the registered marker alone decides.                          *)
RunConnectByMarker ==
  /\ MayConnect
  /\ \E st \in Connected : Ran("connect", FALSE, st, held \cup Helpers, TRUE)
  /\ orphans' = orphans \cup (held \cap Helpers)

(* core_ops_connect: both helper tasks are started over whatever handles   *)
(* were there.  REGISTERED needs the marker and the signing key.           *)
RunConnect ==
  /\ MayConnect
  /\ \E st \in IF "key" \in held THEN Connected ELSE {"UNREGISTERED"} :
       Ran("connect", FALSE, st, held \cup Helpers, TRUE)
  /\ orphans' = orphans \cup (held \cap Helpers)

(* The provider fails: no cloud, the session is already up, or the broker  *)
(* does not answer.  The last stops the MQTT process, and with it what is  *)
(* left of a session whose connection is lost.                             *)
RunConnectRefused ==
  /\ \E up \in {session} \cup IF "drop" \in Faults THEN {FALSE} ELSE {} :
       Ran("connect", TRUE, state, held, up)
  /\ UNCHANGED orphans

(* Mutation: the cleanup leaves the session up.                            *)
RunConnectLeftUp ==
  /\ MayConnect
  /\ Ran("connect", TRUE, state, held \ Helpers, TRUE)
  /\ UNCHANGED orphans

(* A later step fails; the cleanup ignores its own errors.                 *)
RunConnectUndone ==
  /\ MayConnect
  /\ \E started \in {{}, {"ntp_task"}, Helpers} :
       \E stuck \in StillRunning((held \cap Helpers) \cup started) :
         \E up \in IF CloudMayFail THEN BOOLEAN ELSE {FALSE} :
           /\ Ran("connect", TRUE, state, (held \ Helpers) \cup stuck, up)
           /\ orphans' = orphans \cup (held \cap started)

(* Mutation: the helper tasks are not stopped.                             *)
RunDisconnectCloudOnly ==
  /\ session
  /\ Ran("disconnect", FALSE, "READY", held, FALSE)
  /\ UNCHANGED orphans

(* core_ops_disconnect: all three stops are tried, READY if all succeed.   *)
RunDisconnect ==
  /\ session
  /\ Ran("disconnect", FALSE, "READY", held \ Helpers, FALSE)
  /\ UNCHANGED orphans

RunDisconnectFails ==
  /\ \E stuck \in StillRunning(held \cap Helpers), up \in IF CloudMayFail THEN {session, FALSE} ELSE {FALSE} :
       /\ ~session \/ stuck # {} \/ CloudMayFail
       /\ Ran("disconnect", TRUE, state, (held \ Helpers) \cup stuck, up)
  /\ UNCHANGED orphans

(* core_ops_register: the state is checked again; a failure destroys the   *)
(* signing key, a failure to persist the marker does not.                  *)
RunRegister ==
  /\ state = "UNREGISTERED" /\ session
  /\ Ran("register", FALSE, "REGISTERED", held \cup {"key"}, session)
  /\ UNCHANGED orphans

RunRegisterFails ==
  /\ \E handles \in CASE state # "UNREGISTERED" -> {held}
                       [] state = "UNREGISTERED" /\ session ->
                            {held \ {"key"}, held \cup {"key"}}
                       [] OTHER -> {held \ {"key"}} :
       Ran("register", TRUE, state, handles, session)
  /\ UNCHANGED orphans

(* core_ops_send.                                                          *)
RunSend ==
  /\ \E failed \in IF session THEN BOOLEAN ELSE {TRUE} :
       Ran("send", failed, state, held, session)
  /\ UNCHANGED orphans

(* Mutation: the crypto context is not released.                           *)
RunDeinitPartial ==
  /\ Ran("deinit", FALSE, "DEINIT", held \cap {"crypto"}, FALSE)
  /\ UNCHANGED orphans

(* core_ops_deinit.                                                        *)
RunDeinit ==
  /\ Ran("deinit", FALSE, "DEINIT", {}, FALSE)
  /\ UNCHANGED orphans

(* One of the steps fails: the handles from it on are kept.                *)
DeinitStopsShort(st) ==
  /\ \E i \in DOMAIN ReleaseOrder :
       LET h == ReleaseOrder[i]
       IN  /\ h \in held
           /\ IF h \in Helpers THEN "stop" \in Faults
                               ELSE "release" \in Faults /\ h # "crypto"
           /\ \E up \in CASE i < 4 -> {session} [] i = 4 -> {session, FALSE}
                                               [] OTHER -> {FALSE} :
                Ran("deinit", TRUE, st,
                    held \cap {ReleaseOrder[n] : n \in i..Len(ReleaseOrder)}, up)
  /\ UNCHANGED orphans

RunDeinitFailsUnmarked == DeinitStopsShort(state)   \* mutation: no core_set_state

RunDeinitFails == DeinitStopsShort("DEINIT")

(* core_service_complete_job: up to the callback, and after it.            *)
Complete ==
  /\ svc = "done"
  /\ svc' = "callback" /\ callbackActive' = TRUE
  /\ jobDone' = (jobDone \/ job = "deinit")
  /\ jobErr' = IF job = "deinit" THEN result ELSE jobErr
  /\ UNCHANGED <<lock, state, pending, finalizing, phase, queue, task, job, result, svcErr,
                 resources, threads, history>>

(* Mutation: the service task ends after a job that failed.                *)
CallbackReturnsQuits ==
  /\ svc = "callback"
  /\ callbackActive' = FALSE
  /\ svc' = IF job = "deinit" \/ result THEN "exited" ELSE "idle"
  /\ job' = NoJob /\ result' = FALSE
  /\ owed' = IF job = "deinit" THEN owed ELSE owed - 1
  /\ UNCHANGED <<core, queue, task, svcErr, resources, threads, calls>>

CallbackReturns ==
  /\ svc = "callback"
  /\ callbackActive' = FALSE
  /\ svc' = IF job = "deinit" THEN "exited" ELSE "idle"
  /\ job' = NoJob /\ result' = FALSE
  /\ owed' = IF job = "deinit" THEN owed ELSE owed - 1
  /\ UNCHANGED <<core, queue, task, svcErr, resources, threads, calls>>

ServiceStep ==
  \/ Dequeue
  \/ RunInit \/ RunInitFails \/ RunConnect \/ RunConnectRefused \/ RunConnectUndone
  \/ RunDisconnect \/ RunDisconnectFails \/ RunRegister \/ RunRegisterFails \/ RunSend
  \/ RunDeinit \/ RunDeinitFails
  \/ Complete \/ CallbackReturns

DeinitStep(a) ==
  \/ DeinitPost(a) \/ DeinitPostFails(a) \/ DeinitStart(a) \/ DeinitStartFails(a)
  \/ DeinitJoin(a) \/ DeinitSettle(a) \/ DeinitFinish(a) \/ DeinitFinishFails(a)
  \/ DeinitRelockFails(a)

Next ==
  \/ ActrustInit
  \/ \E op \in Operations : Submit(op)
  \/ \E a \in Apps : DeinitEnter(a) \/ DeinitStep(a)
  \/ ServiceStep
  \/ DequeueFails

Spec == Init /\ [][Next]_vars

(* Tasks are scheduled fairly; nobody has to call the API.                 *)
FairSpec ==
  /\ Spec
  /\ WF_vars(ServiceStep)
  /\ \A a \in Apps : WF_vars(DeinitStep(a))
-----------------------------------------------------------------------------
(* The properties.                                                         *)

(* Type invariant: every field of actrust_core_ctx_t has one of its        *)
(* values, the service task is at one of core_service_main's waits.        *)
TypeOK ==
  /\ lock \in BOOLEAN /\ state \in States
  /\ pending \in BOOLEAN /\ finalizing \in BOOLEAN
  /\ jobDone \in BOOLEAN /\ jobErr \in BOOLEAN
  /\ phase \in {"JOB", "QUEUE", "POOL", "LOCK"}
  /\ queue \in Seq(Operations \cup {"init", "deinit"}) /\ JobsOut <= PoolSize
  /\ callbackActive \in BOOLEAN /\ task \in BOOLEAN
  /\ svc \in {"none", "idle", "run", "done", "callback", "exited"}
  /\ job \in Operations \cup {"init", "deinit", NoJob}
  /\ result \in BOOLEAN /\ svcErr \in BOOLEAN
  /\ held \subseteq {"ntp_task", "downlink_task", "key", "cloud", "ntp", "crypto"}
  /\ session \in BOOLEAN /\ orphans \subseteq Helpers
  /\ pc \in [Apps -> {"idle", "post", "start", "join", "settle", "finish"}]
  /\ prev \in [Apps -> {"READY", "INIT_FAILED"}]
  /\ calls \in 0..MaxCalls /\ owed \in 0..MaxCalls

(* Of the threads that call actrust_deinit together one gets past the      *)
(* checks, and as long as it is inside, deinit_pending and                 *)
(* deinit_finalizing keep every other call out and the context alive.      *)
OneTeardown ==
  /\ \A a, b \in Apps : pc[a] # "idle" /\ pc[b] # "idle" => a = b
  /\ \A a \in Apps : pc[a] # "idle" => lock /\ pending /\ finalizing

(* "A caller owns the current teardown attempt": deinit_finalizing is      *)
(* never left set behind a call that has returned, or no later             *)
(* actrust_deinit could ever finish the teardown.                          *)
FinalizingOwned == finalizing => \E a \in Apps : pc[a] # "idle"

(* Once the core lock is gone core_lock is a no-op, so nothing may be      *)
(* left that could use the context: no service task, no job, no handle.    *)
UninitQuiet ==
  /\ lock <=> state # "UNINIT"
  /\ ~lock => svc = "none" /\ ~task /\ queue = <<>> /\ held = {} /\ ~session

(* The queue and the pool are dismantled only after the DEINIT job has     *)
(* released every resource and the service task that uses them is joined.  *)
DismantleAfterService ==
  phase # "JOB" => svc = "none" /\ ~task /\ held = {} /\ state = "DEINIT"

(* A DEINIT job left behind by an abandoned attempt never runs on its own: *)
(* when the service task executes one, a teardown has been claimed.        *)
DeinitJobClaimed == job = "deinit" => pending

(* A teardown attempt that failed can be tried again: actrust_deinit only  *)
(* accepts a retry in state DEINIT.                                        *)
PendingRetryable == pending /\ ~finalizing => state = "DEINIT"

Settled == svc \in {"none", "idle", "exited"}

(* actrust.h, READY: "Initialised, not connected."  Between two jobs, in   *)
(* READY the cloud handle exists and no session is up: connect can work    *)
(* and deinit tears no active session down.                                *)
ReadyMeansIdle == state = "READY" /\ Settled => "cloud" \in held /\ ~session

(* actrust.h, UNREGISTERED and REGISTERED: "Connected".  Between two jobs  *)
(* the session and its helper tasks are there, and REGISTERED has the key  *)
(* that signs what is published.                                           *)
ConnectedHasSession ==
  state \in Connected /\ Settled =>
    /\ session /\ Helpers \subseteq held
    /\ state = "REGISTERED" => "key" \in held

(* core_internal.h: a helper task "lives between connect and disconnect".  *)
(* Its handle is never overwritten by the next connect before it has been  *)
(* joined.                                                                 *)
HelpersJoined == orphans = {}

(* Every accepted operation is queued or being executed until its callback *)
(* has run, once: none is lost by a drain and none is called back twice.   *)
EveryJobAccounted ==
  owed = Cardinality({i \in DOMAIN queue : queue[i] # "deinit"})
           + IF job \in {NoJob, "deinit"} THEN 0 ELSE 1

(* README: "successfully queued operations produce callbacks".             *)
AcceptedCallsBack == (owed > 0) ~> (owed = 0)

(* actrust_deinit joins the service task without a time limit, yet always  *)
(* returns.                                                                *)
DeinitReturns == \A a \in Apps : pc[a] # "idle" ~> pc[a] = "idle"
=============================================================================
