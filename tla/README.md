# AntChain Trust SDK in TLA+

TLA+ models of the device SDK under `src/`, the TLC runs that check them on
small instances, and TLAPS proofs of the results that matter most for every
instance. `PROJECT.json` maps each definition to the lines it models.

## The system

The SDK connects a device to a trust service: it keeps credentials, holds an
MQTT session with a cloud provider, registers the device with a
challenge/response handshake and publishes signed business data. An application
calls the asynchronous API of `src/include/actrust.h`; a call posts a job and
returns, one service task executes the jobs one by one and reports each through
a callback.

| component | state it keeps | operations | interacts with |
|---|---|---|---|
| Public API, `core_api.c` | lifecycle state, deinit_pending / finalizing / phase, callback | init, deinit, connect, disconnect, register, data_publish | job queue, service task; lifecycle gate and core lock |
| Job pool and queue, `core_job.c` | reference counts, free stack, ring buffer, semaphore, waiter count, closed flag | alloc, retain, release, enqueue, dequeue, close, deinit | API threads and service task |
| Service task, `core_service.c` | the job in hand, callback_active, service_result | main loop, complete, start, stop | operations, application callback |
| Operations, `core_ops.c` | handles of crypto, key, cloud, NTP, helper tasks; registration context | one handler per job | cloud, crypto, NTP, key-value store |
| Registration handshake, `core_ops.c` | session id, nonce, phase, two semaphores | request, challenge, answer, result | downlink task, cloud, key-value store, key |
| Key-value store, `kv.c` | two superblocks, record slots, two journals per namespace; registry of namespaces | init, open, close, set, get, del, exists, recovery | storage adapter |
| MQTT client, `mqtt.c` | connection state, process flags, subscriptions, reconnect back-off | connect, process, publish, subscribe, disconnect, deinit | process task, cloud provider, TLS |
| Cloud client, `cloud.c`, `cloud_aws.c` | provider handle, process task, credentials | init, connect (with provisioning), publish, disconnect, deinit | MQTT, bounded queue, key-value store |
| Bounded queue, `queue.c` | ring buffer, semaphores, active users, closed flag | create, push, pop, close, destroy | MQTT callbacks, downlink task |
| NTP client, `ntp.c` | offset, active users, closing flag | init, sync, now, deinit | NTP helper task, operations |
| Log, `log.c` | sink, active writers, closing flag | init, deinit, write | every component, lifecycle gate |
| Secure store, `crypto.c`, `crypto_sw.c`, `security.c` | key and certificate slots | generate, open, import, migrate, destroy a key; write, read, delete a certificate | core, AWS provider |
| Adapters, TLS, JSON | handles of platform and libraries | wrappers | - |

What is hard here: API threads, the service task, two helper tasks and the MQTT
process task share a context under two locks; deinit gives both locks up three
times and may fail and be repeated at every point; every synchronisation
primitive returns errors the code handles; helper tasks are joined with a time
limit; the key-value store has to survive power loss at any write; messages of
the handshake can be late, duplicated or meant for an earlier attempt. The
hazards are listed with their lines in `PROJECT.json`.

What makes each component correct:

- job queue: FIFO, one owner per job, tokens agree with jobs, no one uses a
  destroyed queue, close wakes everybody;
- life cycle: one teardown at a time, in order, repeatable after a failure;
  nothing left when the core is uninitialised; the state tells the truth about
  the session; every accepted operation is called back once;
- key-value store: each call is atomic and durable, no crash makes a namespace
  unusable;
- registration: every answer belongs to its session, the registered marker
  stands for a key the server accepted;
- AWS provider: an identity that is complete in flash can connect;
- MQTT: one process task serves a connected client, a subscription the client
  holds is one the broker delivers, a stop takes effect, deinit frees only what
  nobody uses;
- bounded queue, NTP, log: no use after destroy, a teardown ends; the locks are
  taken in one order.

## The modules

### JobChannel, JobQueue (`core_job.c`)

`JobChannel` is the promise of `core_job.h`: a bounded FIFO that stops accepting
when shut and is dismantled only when shut and empty. `JobQueue` is the code.
Code under `pool->mutex` or `q->lock` is one step. `actrust_job_queue_dequeue`
gives the lock up around the semaphore wait and is `DequeueEnter`, `SemTake` or
`SemWaitFails`, `DequeueTake`. When the second lock fails the code decrements
`waiter_count` without the lock: `DequeueLockFails` reads, `UncountUnlocked`
writes, `Repost` gives the token back. A thread holds at most one job, as
`core_post_job`, the service task and the drain do. `actrust_job_retain` has no
caller in the repository; it is modelled for the owner of a job. The constant
`Faults` says which primitives fail. Variables have the names of the fields.

`ImplementsChannel` is the refinement: the FIFO is the part of `buf` from `head`
on, the abstract flags are `closed` and `~live`.

### KvAtomic, KvStore (`kv.c`)

`KvAtomic` is the promise of `kv.h`: a map that a call changes once, completely,
while it runs; a call that reports an I/O error or is cut off by a crash has
taken effect or not. `KvStore` is one namespace on its storage region. A cell is
a superblock, a record slot or a journal slot; encodings and CRCs are abstracted
to the decoded content or `Torn`, which is what a CRC tells apart. A call is the
list of storage writes its procedure makes (`Transaction`, `Replay`, `Format`),
carried out one by one, so that a failure or a crash can cut it anywhere,
recovery included. The storage is external: a write that completed is durable
(the adapters sync each one), a write that was cut off leaves each cell of it
old, new or torn. Whether a write inside one 512-byte sector can tear is chosen
per behaviour (`tears`). A call runs under the namespace lock, so there is one
at a time; the lock and the registry of namespaces are left out.

`IsAtomicMap` is the refinement: the map is the records with a durable, newer
journal already applied. The counter-intuitive consequence the abstract module
allows is real: a `set` that reported an I/O error may take effect later. A read
error while `kv_find_free_record` looks for a slot is reported with the code of a
full store; the model tells the two apart ("unread" and "full"), so that the map
still says when the store really is full.

### CoreLifecycle (`core_api.c`, `core_service.c`, `core_ops.c`)

The life cycle with application threads, the service task and the resources.
A call other than deinit holds gate and lock from its checks to its last
assignment and is one step (`ActrustInit`, `Submit`); refused calls change
nothing. `actrust_deinit` is one step per stretch between unlocks: `DeinitEnter`
(checks and marks), `DeinitPost` (posts the job without a lock), `DeinitStart`
(a retry whose service task is gone), `DeinitJoin`, `DeinitSettle` (reads the
job's outcome), `DeinitFinish` (queue, pool and lock phases), each with its
failures. The service task is `Dequeue`, one `Run...` action per handler and
outcome, `Complete` (up to the callback) and `CallbackReturns`. The handles of
the context are the set `held`; a handler's resources belong to the service task
alone, so a handler is one step that ends with its `core_set_state`. The queue is
the FIFO `JobQueue` is shown to implement. Cloud, key, NTP and helper tasks
appear by whether their handle is set and whether an operation on them fails.
An application callback may call the API (any `Submit` can happen then); deinit
is refused while `callback_active` is set. `owed` and `orphans` are history
variables. Failures of primitives come from `Faults`; its "drop" is a connection
lost while a second CONNECT job is queued, which the provider then tries, and
whose failure stops what is left of the session. Not modelled: an error of
the unlimited `pthread_join` on a valid handle, and `actrust_init` attempts that
fail, which undo everything they did.

### MqttClient (`mqtt.c`, and `cloud_aws.c` where it drives the client)

The actors are the service task, which makes every call one after the other
(`svc`, `op`), the process tasks (`pc`), and a network and broker that fail or
answer at any moment. A stretch under `mqtt->lock` is one step. A connect is
`StartProcess` (the provider starts the task first), `BeginConnect`,
`CloneConfig`, `InstallConfig` or `ReleaseReservation`, `OpenTransport`,
`EnqueueConnect`, `AwaitConnect`, then one `Subscribe` per topic; each failure
goes through `Cancel`, `Claim` and `CloseTransport` to stopping and joining the
task. The process task is `Enter`, `Loop`, the command loop of the agent
(`ReleaseClaim`, `Pop...`, `Exec...`, `Tick...`, `Deliver`), `LoopEnded` with the
decision to reconnect, and the reconnection with its back-off (`Retry`,
`Attempt`, `Reopen`, `Reconnect`, `AttemptFails`, `GiveUp`). `Complete` is
`mqtt_agent_command_complete` with its generation and token checks;
`ReplaySubscriptions` enqueues the topics again after a lost session. A join may
time out while its task is inside the API, so several process tasks can exist; so
they do when a second CONNECT job finds the client waiting to reconnect and
overwrites the handle. The way out of a task is `Leave` (the state),
`MarkStopped`, `ApiLeave` (it is no longer counted) and, for one that leaves a
closing client idle, `SignalIdle`: the post of `lifecycle_done_sem` after the
unlock. `MaxPub` bounds the publications in the queue at a time. The results of a
connect and a disconnect are cleared when the call that waits for them ends: the
next call resets them before anyone reads them.
coreMQTT and coreMQTT-Agent are external: they execute a command or fail, and a
failed or ended command loop returns. So is the broker: `broker` is the topics it
holds for the client and `session` what becomes of them when the connection ends.
A connect asks for a clean session, which ends with its connection; a reconnect
asks for the session the broker has kept, and is told whether there was one. The
broker may also have taken a CONNECT whose answer never arrived ("unheard").
`unplayed` is a history variable.

### BoundedQueue, NtpClient, HelperTasks (`queue.c`, `ntp.c`)

`BoundedQueue` is push, pop, close and destroy in the stretches between the
semaphore, `state_lock` and `lock`; a call with time-out 0 gives a token back
when the queue closes, one with a deadline does not, and one whose deadline is
over leaves without trying the semaphore (`Expired`), as in the code. A destroy
that meets a held buffer lock fails ("failed"); its caller may repeat it.
`NtpClient` is the admission of users under `admission_lock`, their turn under
`operation_lock`, and `actrust_ntp_deinit`, which waits for the last one.
`HelperTasks` composes both, as the downlink task, the NTP task and the service
task use them while their owner takes them down.

### SecureStore, AwsProvider, Enrolment (`crypto.c`, `crypto_sw.c`, `security.c`, `cloud_aws.c`, `cloud_aws_callback.c`, `core_ops.c`)

`SecureStore` is what survives a power cut: five slots, the thing name, the
registered marker. A key is the number of its generation, a certificate is named
by its key. A write is the one of `security.c`: a temporary file, a copy of the
old content, a rename, and a roll-back when what follows the rename fails; every
system call in it may fail, the roll-back included, so that a write that reports
an error has taken effect or not. Above it are the software backend
(`crypto_sw.c`) and the dispatch of `crypto.c`, which refuses unknown keys and a
migration between keys of different types.
`AwsProvider` extends it by connect: the runtime connection with the stored
identity, and fleet provisioning, with one action per request, per wait and per
answer; answers come on the process task, late, twice or never. `Enrolment`
extends that by the core: init (signing key, migration from EC_0, claim
credentials), connect, and the registration handshake with the downlink queue
and task, over a server that checks signatures. `Restart` cuts the power
anywhere.

### LockOrder (`log.c`, `core_api.c`, `core_ops.c`)

The lifecycle gate, the core lock and the log's output mutex, with threads
inside `core_submit_job`, the two downlink handlers and `actrust_log_write`, and
threads that initialise and close the log.

The `MC*` modules only add symmetry sets and constant values.

## The runs

| run | checks | bounds |
|---|---|---|
| `job_queue` | types, free stack, ownership, no leak, tokens, destruction, FIFO refinement; waits, posts and destroys may fail | 3 threads in every role, 3 jobs, 2 slots: full queue, empty pool, two dequeuers racing a closer |
| `job_queue_close` | tokens and liveness of close when locks and waits may fail | 1 consumer, 2 more threads, 2 jobs |
| `kv_store` | types, never bricked, clean after recovery, atomic map | 3 keys, 2 values, 2 slots: full store, slot reuse; 4 generations: format and three transactions, so both superblock and journal slots are reused |
| `core_lifecycle` | the state tells the truth about session, key and helpers; a teardown can be repeated; callbacks and deinit progress | 2 threads, 9 accepted calls: two full rounds of init, connect, disconnect, deinit, or a round and repeated teardowns; pool of 8, which never runs dry; releases may fail |
| `core_faults` | types and the safety of the teardown under all faults | 2 threads, pool of 2: the pool runs dry; 8 calls: a teardown and several retries |
| `mqtt` | types, one loop, a connected client is served, subscriptions live, freed only when every task has left, a stop takes effect | 2 process tasks, so that a join times out and a second task starts; 2 generations: a connect, a reconnect or a second connect; 1 topic, 1 publication, 2 queue slots; 0.85 million states. A reconnect after a connect that was cancelled half-way needs 4 generations: the theorems below cover any number |
| `helpers` | types and offset limit, ring and tokens, freed only when quiet, teardowns end | 1 pusher, 1 popper, capacity 2, 3 messages: full, empty and wrapped ring; 2 NTP users; 160 thousand states |
| `enrolment` | types, marker has its key, answers sound, identity usable | 2 keys per slot and 2 sessions: an attempt and a second one that meets the first one's messages; downlink queue of 1: it is full; 4.8 million states |
| `core_locks` | violated: `NoCircularWait` | one thread of each kind |
| `core_stale_restore` | violated: `ReadyMeansIdle` | pool of 2 |
| `core_failed_disconnect` | violated: `ConnectedHasSession` | cloud disconnect may fail |
| `mqtt_deinit` | violated: `ProcessReturned` | as `mqtt`, 3 queue slots |

Deadlock is not checked for the queues, the MQTT and NTP clients and the core:
with the calls used up or the object torn down they rightly stop. It is checked
for the key-value store, which can always be opened again, and for enrolment,
which can always be restarted. Bounds that cut counters: `MaxCalls` (accepted API
calls), `MaxGen` (superblock generation, and connection attempts of the MQTT
client), `WaiterMax`, `RefMax`, `MaxPub`, `MaxPush`, `MaxMint` (keys generated per
slot, sessions).

Fairness. `core_lifecycle` assumes weak fairness of the service task and of each
deinit call in progress: threads of a preemptive scheduler, whose waits are on a
queue with an item or on a thread that ends. Nobody has to call the API.
`job_queue_close` assumes weak fairness of a consumer that holds a token or a
job and strong fairness of taking a token: the semaphore does not starve a
waiter forever. `mqtt` assumes weak fairness of every process task, a thread
none of whose steps waits without a limit; the service task and the network owe
nothing. `helpers` assumes strong fairness of a thread inside a call (it gets a
mutex that is given back again and again) and weak fairness of a teardown in
progress; nobody has to start a call, nor to repeat a destroy that failed. `enrolment` and `core_locks` assume none.

### What the violated runs show

- **Stale restore** (`core_api.c:412`). A CONNECT job is ahead of the DEINIT job
  that deinit wants to post. deinit has marked the core DEINIT and given its
  locks up; the connect runs and sets UNREGISTERED; posting fails because the
  pool is empty; deinit writes READY back. The core is READY with a session up,
  while `actrust.h` says "Initialised, not connected.": connect fails from then
  on, and deinit tears an active session down.
- **Failed disconnect** (`core_ops.c:814`). When the provider fails to
  disconnect, the helper tasks are already stopped and the session may be gone,
  but the state stays UNREGISTERED or REGISTERED. Connect and deinit need READY,
  and a further disconnect fails again if the MQTT client is no longer connected.
- **Circular wait** (`core_ops.c:155`). The downlink task takes the core lock,
  finds a challenge or a result that is late, repeated or of another session, and
  logs that while it holds the lock. The log admits the writer under the
  lifecycle gate (`log.c:89`). An application thread in `core_submit_job` holds
  the gate and waits for the core lock (`core_api.c:166`). Neither wait has a
  limit: the downlink task, the service task and every later call are blocked.
  `log.h` says of the writer "The function is thread-safe.", `system.h` of the
  gate "Use it only to serialize component init/deinit admission, not as a
  component data lock."
- **Client freed under a task** (`mqtt.c:451`). The join of a process task times
  out, and a second connect overwrites its handle. deinit closes the client and
  waits for `process_running` and the counters. The task is the last to leave: in
  `mqtt_api_leave` it takes itself out of `api_inflight`, finds the client idle,
  unlocks, and has `lifecycle_done_sem` still to read and post.
  `mqtt_wait_for_lifecycle_idle` asks the counters before it asks the semaphore,
  so deinit sees an idle client, destroys the semaphore (`mqtt.c:1982`) and frees
  the client (`mqtt.c:2013`) first. `mqtt.h` says that deinit "waits for @ref
  actrust_mqtt_process to return before releasing resources." `FreedOnlyQuiet`
  says what deinit does guarantee: nothing else is left, and in one task at most.

### Limits of the passing properties

The passing runs leave out faults under which TLC finds the property violated:

- `HelpersJoined` needs helper joins that do not time out. If one does in the
  cleanup of a connect, the next connect overwrites the handle.
- `ConnectedHasSession` and `HelpersJoined` need a connection that is not lost
  while a second CONNECT job waits ("drop"): that connect starts helper tasks over
  the handles of the first, or fails and takes the session down while the state
  stays connected.
- `AcceptedCallsBack` and `DeinitReturns` are checked with releases that fail, the
  fault that makes teardowns end half-way; the other faults are in `core_faults`,
  which checks safety.
- `AcceptedCallsBack` needs `core_service_start` to work in a repeated deinit: if
  it fails, deinit restores READY without a service task (`core_api.c:418`); it
  also needs a service task that does not die on a dequeue error.
- `FinalizingOwned` needs a core lock that can be taken: if it fails for the last
  stretch, `deinit_finalizing` stays set (`core_api.c:477`).
- `PendingRetryable` needs a service task that does not die: a CONNECT that ran
  ahead of a lost DEINIT job leaves a connected state no deinit accepts.
- `ClosedQueueFreesWaiters` needs a single consumer: a second one that enters a
  closed queue while a job is left gets no token when the first takes that job.

Some properties of the newer modules name an exception, and the exceptions are
behaviours of the code that TLC finds without them:

- `MarkerHasKey` excepts a marker whose write was reported as failed and took
  effect (`torn`). The core stays UNREGISTERED in memory; a later register that
  fails destroys the accepted key, and the next init then migrates whatever is in
  EC_0, the claim key, into EC_2 and takes the device for registered with it.
- `IdentityUsable` excepts identities that an answer of an earlier attempt was
  applied to, because no handler compares phase, token or request, and those left
  by a delete whose failure `clear_runtime_identity` ignores (`excuse`). Such an
  identity is complete, cannot connect, and is kept by `runtime_connect`.
- `SubscriptionsLive` excepts topics for which the replay found the command queue
  full (`unplayed`): they stay ACTIVE and the broker does not know them. It also
  excepts a session that was started by a reconnect whose answer was lost
  (`session = "unheard"`): the broker has created it without a topic, the next
  attempt is told that a session is present, and `mqtt_try_schedule_connect`
  (`mqtt.c:1746`) replays only when none is. The topics then stay ACTIVE and
  silent until the session ends.
- `FreedOnlyQuiet` of `HelperTasks` allows an NTP deinit that fails: the last user
  posts `idle_sem` before it gives `admission_lock` up, the destroy of a held lock
  fails, and a second deinit is refused ("stuck"). `TeardownsEnd` is about calls
  that return: it counts this one, and an `actrust_queue_destroy` that fails on a
  held lock, as ended.
- `StopTakesEffect` is about a stop the client has accepted. A TERMINATE that
  finds the queue full is lost; the flag then acts only when the command loop ends
  for another reason.

Behaviours the MQTT model shows and no property forbids: a connect that failed in
send or receive may go on reconnecting in the background until it is stopped; a
connect over a client that still holds its subscriptions is refused by the
provider, which takes ALREADY for a failure; a subscription whose SUBACK is
overtaken by a second drop is forgotten; a cancelled disconnect may close the
transport of a connection that has just come back.

## What is proved

Each theorem holds for every value of the constants: any threads, tasks, topics
and users, any sizes and capacities, any number of calls, keys, sessions and
connection attempts, and any faults except those it excludes. Every proof finds
an inductive invariant, of which TLC checked each part on a run before it was
proved, and shows it action by action.

- `JobQueueProofs`: `TypeOK`, `FreeStackExact`, `SingleOwner`. None is inductive
  alone: an index is in range because the free stack is exact, the stack is exact
  because a released job was owned, and a job taken from the ring is owned once
  because the ring holds distinct jobs. `OwnerInv` adds that `tail` is `head +
  count` modulo the depth, that a filled job has one reference, that a queue
  being dismantled is empty, and what the unlocked read of `waiter_count` bounds.
- `JobQueueTokenProofs`: `NoJobLeaked`, `TokensMatchJobs`, `DestroyOnlyQuiet`,
  and that the queue implements `JobChannel` (`ImplementsChannel`). Tokens in the
  semaphore and tokens in hand are counted as cardinalities of sets of threads;
  the ring is mapped to the sequence of its jobs, and every step is a step of the
  channel or leaves that sequence alone.
- `CoreLifecycleProofs`, under any faults: `TypeOK`, `OneTeardown`, `UninitQuiet`,
  `DismantleAfterService`, `DeinitJobClaimed`. `CoreInv` adds where each deinit
  call stands relative to phase and service task, that a service task with a
  DEINIT job ahead is being joined (so no DEINIT job is left to a task that serves
  other calls), and that once a DEINIT job succeeded nothing is acquired until the
  task has ended. With the fault excluded under which TLC finds it violated:
  `FinalizingOwned` (the core lock can be taken), `PendingRetryable` (no dequeue
  error), `EveryJobAccounted` (no dequeue error, no failed restart of the service
  task). `ReadyMeansIdle`, `ConnectedHasSession` and `HelpersJoined` are proved
  for behaviours without faults in which the pool has an entry for the DEINIT job
  (`DeinitJobPosted`): without these premises the two violated runs, and the join
  that times out, refute them.
- `LockOrderProofs`: `LogSinkSafe`, that the log's output mutex exists while an
  admitted writer may lock it, for any number of threads of each kind. The
  invariant adds that a thread between admission and release is counted among the
  writers, that the mutex exists unless the log is UNINIT, and that the log is not
  UNINIT while a writer is counted.
- `HelperTasksProofs`: `TypeOK`, `QueueSound`, `FreedOnlyQuiet`. `QueueInv` says
  that the counters are the numbers of threads at the positions they count, that
  the thread at the buffer holds the lock, that the ring holds the consecutive
  numbers of the messages, and in which order close and destroy go; `NtpInv` the
  same of the NTP client's users and locks.
- `EnrolmentProofs`: `TypeOK`, `AnswersSound`, `MarkerHasKey`, `IdentityUsable`.
  `EnrolInv` adds that every message of the server belongs to a session that was
  opened, that a registration signs with the key it announced, that a good result
  means an accepted key, that init overwrites EC_0 only when a registered device
  no longer needs it, and that nothing AWS has sent is newer than the last key. A
  step of the provider is shown once to leave the core's part alone, and the
  other way round.
- `MqttClientProofs`: `TypeOK`, `SingleLoop`, `ConnectedIsServed`,
  `FreedOnlyQuiet`, `SubscriptionsLive`. `MqttInv` adds that a task that was
  created but does not run yet is the one whose handle the provider has and does
  not outlive the connect that made it (`HandleInv`), that
  deinit reaches the client without a handle, that a CONNECT is executed only
  while the client is not connected, and that a session which is kept has every
  topic that counts as subscribed. `ConnectedIsServed` needs that a task which is
  about to leave has set the state (`MarkInv`). That a created task does not
  outlive its connect rests on `FreshInv`: a connect cannot succeed before its own
  task runs, because the TERMINATE of an older task whose join timed out stands
  before the new CONNECT. `FreedOnlyQuiet` needs that a
  task with the post left to do has left a client that is closing and idle, so
  that no other can come after it (`SignalInv`). The proof of `SubscriptionsLive`
  failed at first: a connect that
  is cancelled while the agent executes it empties the broker's session without a
  replay, and a reconnect may follow. It is safe only because that session was a
  clean one, which ends with its connection; the model now has `session`.
- `KvStoreProofs`: `TypeOK`, `NeverBricked`, `RecoveredConsistent`, and that the
  namespace implements `KvAtomic` (`StoreImplementsMap`). The argument is that the
  region means the same records before and after every write, carried out or cut
  off, but one: the journal write that prepares a transaction. `KvInv` says that
  there is at most one valid journal, for the next generation or for none; that
  the records with that journal applied are readable, as many as are counted, and
  hold no key twice; which writes are still to do at each position of a
  transaction, a replay, a clear or a format; what a region without a superblock
  looks like; and that a running call's effect is either still planned or already
  there. Each kind of write has one lemma, for the write and for its being cut
  off. The refinement maps these records to the map; its size is the recorded
  count because slots in use and present keys correspond one to one.

The assumptions are those of the modules: `JobQueueAssumption`, `CoreAssumption`,
`QueueAssumption`, `NtpAssumption`, `MaxMintAssumption`, `DownlinkCapAssumption`,
`MqttAssumption`, `KvAssumption`. They say that sizes are positive numbers, that
the sets of threads and topics whose members are counted are finite, and that a
null value is not a member of its set.

Only model-checked: liveness (`ClosedQueueFreesWaiters`, `AcceptedCallsBack`,
`DeinitReturns`, `StopTakesEffect`, `TeardownsEnd`), which the prover cannot do.
Every safety invariant and refinement that a passing run checks is
proved, some under the premises named above.

## Plan

1. Done: job queue, key-value store, life cycle, MQTT client, bounded queue, NTP
   client, secure store, AWS provider, registration, locks and log; the proofs
   above.
2. Left: whether `HelpersJoined`, `ReadyMeansIdle` and `ConnectedHasSession` hold
   under weaker premises than the absence of all faults, one fault at a time.

## Not modelled

- TLS, JSON, hashing, signing, AES and CSR generation: sequential wrappers of
  vendored libraries that keep no protocol state.
- Sockets, and the adapters of other platforms than Linux: the primitives the
  models assume.
- `actrust_mqtt_unsubscribe` (no caller in the SDK), the acknowledgements of
  publications, and failures of releasing a primitive in `actrust_mqtt_deinit`.
  The loop of the replay over the topics is one step.
- Failures of locks and posts in `queue.c` and `ntp.c`; the packets and the time
  arithmetic of `ntp.c`.
- In enrolment: joins of the provisioning task that time out (`MqttClient` has
  them), malformed JSON, unknown actions, and the leak of an old signing-key handle
  in `core_register_make_keypair`. A deinit followed by an init is covered by
  `Restart`.
- The registry of namespaces of the key-value store.
- Examples, tools, tests and third-party code.
