----------------------------- MODULE MqttClient -----------------------------
(***************************************************************************)
(* The MQTT client (mqtt.c) with the task that runs it: the AWS provider   *)
(* starts a process task, connects, subscribes, publishes, disconnects and *)
(* joins the task again (cloud_aws.c).                                     *)
(*                                                                         *)
(* Actors: the service task, which makes every API call one after the      *)
(* other; the process tasks, of which there may be several because a join  *)
(* that times out leaves its task running; the network and the broker,     *)
(* which may fail or answer at any moment.  A stretch of code under        *)
(* mqtt->lock is one step; what the code does between two stretches can be *)
(* interleaved.  coreMQTT and coreMQTT-Agent are modelled from their use.  *)
(***************************************************************************)
EXTENDS Integers, FiniteSets, Sequences, SequencesExt

CONSTANTS Tasks,      \* the process tasks that can exist at once, numbers
          Topics,     \* the topics the provider subscribes to
          QueueCap,   \* ACTRUST_MQTT_QUEUE_CAPACITY
          MaxGen,     \* bound on the connection attempts
          MaxPub,     \* bound on the publications in the queue
          NoTask, NoTopic

ASSUME MqttAssumption ==
  /\ Tasks \subseteq Nat /\ Tasks # {} /\ NoTask \notin Tasks
  /\ IsFiniteSet(Topics) /\ NoTopic \notin Topics
  /\ QueueCap \in Nat \ {0} /\ MaxGen \in Nat /\ MaxPub \in Nat

VARIABLES
  life,              \* lifecycle, and "FREED" after actrust_mqtt_deinit
  state,             \* mqtt->state
  gen,               \* connect_generation
  connectResult,     \* connect_result, "none" while it is not valid
  disconnectResult,  \* disconnect_result, likewise
  active,            \* command_active
  running,           \* process_running
  stop,              \* process_stop_requested
  subs, token,       \* subscriptions by topic, next_subscription_token
  unplayed,          \* history: topics the last replay found no room for
  queue,             \* command_queue
  transport, conn,   \* net_ctx has an open handle; coreMQTT's connectStatus
  acks,              \* the agent's operations waiting for an acknowledgement
  broker, session,   \* the broker: topics of this client, and what session it has for it
  svc, op, svcGen,   \* the service task: position, call, its generation
  prev,              \* previous_state of its connect
  todo,              \* topics still to subscribe
  handle, up,        \* mqtt_process_task; the session is up for the core
  pc, cmd            \* the process tasks: position, command in hand

client == <<life, state, gen, connectResult, disconnectResult, active, running, stop>>
subscriptions == <<subs, token, unplayed>>
network == <<transport, conn, acks, broker, session>>
attempt == <<svcGen, prev>>
service == <<svc, op, attempt, todo, handle, up>>
tasks == <<pc, cmd>>
vars == <<client, subscriptions, queue, network, service, tasks>>

States == {"INITIALIZED", "CONNECTED", "CONNECTING", "DISCONNECTED",
           "DISCONNECTING", "WAITING_RECONNECT"}
Outcomes == {"ok", "lost", "error"}
Failures == {"lost", "error"}   \* lost: MQTTSendFailed, RecvFailed, KeepAliveTimeout

Command(type, g, t, k) == [type |-> type, gen |-> g, topic |-> t, token |-> k]
Plain(type) == Command(type, gen, NoTopic, 0)
SubscribeCommand(t, k) == Command("SUBSCRIBE", gen, t, k)
Terminate == Command("TERMINATE", 0, NoTopic, 0)
Empty == [state |-> "EMPTY", token |-> 0]
Waiting(type) == {i \in DOMAIN queue : queue[i].type = type}
RoomOneTooMany == Len(queue) <= QueueCap   \* mutation: off by one
Room == Len(queue) < QueueCap

(* The positions of a process task between mqtt_mark_process_started and   *)
(* mqtt_mark_process_stopped, those inside MQTTAgent_CommandLoop, and those *)
(* that api_inflight counts.                                               *)
CommandLoop == {"release", "pop", "exec", "replay", "tick", "callback"}
Running == CommandLoop \cup Outcomes \cup {"loop", "retire", "retry", "backoff", "reopen",
                             "reconnect", "resume", "leave", "mark"}
InApi(p) == pc[p] \in Running \cup {"stopped"}

Init ==
  /\ life = "OPEN" /\ state = "INITIALIZED" /\ gen = 0
  /\ connectResult = "none" /\ disconnectResult = "none"
  /\ active = FALSE /\ running = FALSE /\ stop = FALSE
  /\ subs = [t \in Topics |-> Empty] /\ token = 0 /\ unplayed = {}
  /\ queue = <<>>
  /\ transport = FALSE /\ conn = FALSE /\ acks = {} /\ broker = {} /\ session = "clean"
  /\ svc = "idle" /\ op = "none" /\ svcGen = 0 /\ prev = "INITIALIZED" /\ todo = {}
  /\ handle = NoTask /\ up = FALSE
  /\ pc = [p \in Tasks |-> "exit"] /\ cmd = [p \in Tasks |-> Terminate]

-----------------------------------------------------------------------------
(* Commands and their completion.                                          *)

Goto(p, l) == pc' = [pc EXCEPT ![p] = l]
Finish(p, l) == Goto(p, l) /\ cmd' = [cmd EXCEPT ![p] = Terminate]

(* mqtt_replay_subscriptions: every ACTIVE topic is subscribed again, as   *)
(* far as the queue has room; the rest stays ACTIVE.                       *)
Replay ==
  LET again == SetToSeq({t \in Topics : subs[t].state = "ACTIVE"})
      fit   == {i \in DOMAIN again : Len(queue) + i <= QueueCap}
      at(t) == CHOOSE i \in DOMAIN again : again[i] = t
  IN  /\ subs' = [t \in Topics |->
                    IF subs[t].state # "ACTIVE" THEN subs[t]
                    ELSE [state |-> IF at(t) \in fit THEN "PENDING" ELSE "ACTIVE",
                          token |-> token + at(t)]]
      /\ token' = token + Len(again)
      /\ unplayed' = {again[i] : i \in DOMAIN again \ fit}
      /\ queue' = queue \o [i \in fit |-> SubscribeCommand(again[i], token + i)]

(* mqtt_agent_command_complete for a SUBSCRIBE: a completion of another    *)
(* generation or of an older reservation of the topic is ignored.          *)
CompleteSubscribe(c, st) ==
  IF c.gen # gen \/ subs[c.topic].token # c.token THEN UNCHANGED subs
  ELSE subs' = [subs EXCEPT ![c.topic] =
                  IF st = "ok" THEN [@ EXCEPT !.state = "ACTIVE"] ELSE Empty]

(* mqtt_agent_command_complete of c, q being the queue it leaves.          *)
Complete(c, st, q) ==
  \/ /\ c.type = "CONNECT" /\ c.gen = gen /\ state = "CONNECTING"
     /\ connectResult' = st
     /\ state' = IF st = "ok" THEN "CONNECTED" ELSE "DISCONNECTED"
     /\ queue' = q
     /\ UNCHANGED <<subscriptions, disconnectResult>>
  \/ /\ c.type = "CONNECT" /\ ~(c.gen = gen /\ state = "CONNECTING")
     /\ queue' = q
     /\ UNCHANGED <<subscriptions, state, connectResult, disconnectResult>>
  \/ /\ c.type = "DISCONNECT"
     /\ IF c.gen = gen /\ state = "DISCONNECTING"
        THEN /\ disconnectResult' = st
             /\ state' = IF st = "ok" THEN "DISCONNECTED" ELSE "CONNECTED"
        ELSE UNCHANGED <<state, disconnectResult>>
     /\ queue' = q
     /\ UNCHANGED <<subscriptions, connectResult>>
  \/ /\ c.type = "SUBSCRIBE"
     /\ CompleteSubscribe(c, st)
     /\ queue' = q
     /\ UNCHANGED <<token, unplayed, state, connectResult, disconnectResult>>
  \/ /\ c.type = "PUBLISH"
     /\ state' = IF st = "lost" /\ c.gen = gen /\ state = "CONNECTED"
                 THEN "WAITING_RECONNECT" ELSE state
     /\ queue' = q
     /\ UNCHANGED <<subscriptions, connectResult, disconnectResult>>

(* mqtt_agent_recv takes a command only in its generation and state.       *)
Valid(c) ==
  \/ c.type = "TERMINATE"
  \/ /\ c.gen = gen
     /\ state = CASE c.type = "CONNECT" -> "CONNECTING"
                  [] c.type = "DISCONNECT" -> "DISCONNECTING"
                  [] OTHER -> "CONNECTED"

-----------------------------------------------------------------------------
(* actrust_mqtt_process, by process task p.                                *)

(* mqtt_api_enter and mqtt_mark_process_started.                           *)
EnterUnchecked(p) ==   \* mutation: process_running is not checked
  /\ pc[p] = "created"
  /\ IF life = "OPEN" THEN running' = TRUE /\ Goto(p, "loop")
                      ELSE UNCHANGED running /\ Goto(p, "exit")
  /\ UNCHANGED <<life, state, gen, connectResult, disconnectResult, active, stop,
                 subscriptions, queue, network, service, cmd>>
Enter(p) ==
  /\ pc[p] = "created"
  /\ IF life = "OPEN" /\ ~running THEN running' = TRUE /\ Goto(p, "loop")
                                  ELSE UNCHANGED running /\ Goto(p, "exit")
  /\ UNCHANGED <<life, state, gen, connectResult, disconnectResult, active, stop,
                 subscriptions, queue, network, service, cmd>>

(* The top of the loop: a requested stop drops the connection.             *)
LoopIgnoresStop(p) ==   \* mutation: the flag is not looked at
  /\ pc[p] = "loop"
  /\ Goto(p, "release")
  /\ UNCHANGED <<client, subscriptions, queue, network, service, cmd>>
Loop(p) ==
  /\ pc[p] = "loop"
  /\ IF stop THEN transport' = FALSE /\ conn' = FALSE /\ Goto(p, "leave")
             ELSE UNCHANGED <<transport, conn>> /\ Goto(p, "release")
  /\ UNCHANGED <<client, subscriptions, queue, acks, broker, session, service, cmd>>

(* mqtt_agent_recv: the claim is released before the queue is looked at.   *)
ReleaseClaim(p) ==
  /\ pc[p] = "release"
  /\ active' = FALSE
  /\ Goto(p, "pop")
  /\ UNCHANGED <<life, state, gen, connectResult, disconnectResult, running, stop,
                 subscriptions, queue, network, service, cmd>>

PopEmpty(p) ==
  /\ pc[p] = "pop" /\ queue = <<>>
  /\ active' = TRUE
  /\ Goto(p, "tick")
  /\ UNCHANGED <<life, state, gen, connectResult, disconnectResult, running, stop,
                 subscriptions, queue, network, service, cmd>>

PopValid(p) ==
  /\ pc[p] = "pop" /\ queue # <<>> /\ Valid(Head(queue))
  /\ active' = TRUE
  /\ cmd' = [cmd EXCEPT ![p] = Head(queue)] /\ queue' = Tail(queue)
  /\ Goto(p, "exec")
  /\ UNCHANGED <<life, state, gen, connectResult, disconnectResult, running, stop,
                 subscriptions, network, service>>

PopStale(p) ==
  /\ pc[p] = "pop" /\ queue # <<>> /\ ~Valid(Head(queue))
  /\ Complete(Head(queue), "lost", Tail(queue))
  /\ UNCHANGED <<life, gen, active, running, stop, network, service, tasks>>

(* The broker takes a CONNECT and starts a new session for it, which ends  *)
(* with its connection ("clean") or is kept beyond it ("kept", or          *)
(* "unheard" when the answer does not reach the client).                   *)
NewSession(s) == broker' = {} /\ session' = s

(* The agent executes the claimed command.  TERMINATE and DISCONNECT end   *)
(* the command loop, and so does every failure.                            *)
ExecTerminate(p) ==
  /\ pc[p] = "exec" /\ cmd[p].type = "TERMINATE"
  /\ Finish(p, "ok")
  /\ UNCHANGED <<client, subscriptions, queue, network, service>>

(* CONNECT with a clean session; older pending operations are concluded,   *)
(* all of earlier generations.  The topics are replayed after the state    *)
(* has changed, if the attempt is still the current one.                   *)
ExecConnect(p) ==
  /\ pc[p] = "exec" /\ cmd[p].type = "CONNECT" /\ transport
  /\ conn' = TRUE /\ acks' = {} /\ NewSession("clean")
  /\ Complete(cmd[p], "ok", queue)
  /\ Finish(p, IF cmd[p].gen = gen /\ state = "CONNECTING" THEN "replay" ELSE "tick")
  /\ UNCHANGED <<life, gen, active, running, stop, transport, service>>

ReplaySubscriptions(p) ==
  /\ pc[p] \in {"replay", "resume"}
  /\ Replay
  /\ Goto(p, IF pc[p] = "replay" THEN "tick" ELSE "loop")
  /\ UNCHANGED <<client, network, service, cmd>>

ExecDisconnect(p) ==
  /\ pc[p] = "exec" /\ cmd[p].type = "DISCONNECT"
  /\ conn' = FALSE
  /\ Complete(cmd[p], "ok", queue)
  /\ Finish(p, "ok")
  /\ UNCHANGED <<life, gen, active, running, stop, transport, acks, broker, session, service>>

(* The SUBSCRIBE is sent: the broker may take it or not.                   *)
ExecSubscribe(p) ==
  /\ pc[p] = "exec" /\ cmd[p].type = "SUBSCRIBE" /\ conn /\ transport
  /\ acks' = acks \cup {cmd[p]}
  /\ broker' \in {broker, broker \cup {cmd[p].topic}}
  /\ Finish(p, "tick")
  /\ UNCHANGED <<client, subscriptions, queue, transport, conn, session, service>>

ExecPublish(p) ==
  /\ pc[p] = "exec" /\ cmd[p].type = "PUBLISH" /\ conn /\ transport
  /\ Complete(cmd[p], "ok", queue)
  /\ Finish(p, "tick")
  /\ UNCHANGED <<life, gen, active, running, stop, network, service>>

ExecFails(p) ==
  /\ pc[p] = "exec" /\ cmd[p].type # "TERMINATE"
  /\ \E st \in Failures : Complete(cmd[p], st, queue) /\ Finish(p, st)
  /\ \/ UNCHANGED <<broker, session>>
     \/ cmd[p].type = "CONNECT" /\ NewSession("clean")
  /\ UNCHANGED <<life, gen, active, running, stop, transport, conn, acks, service>>

(* MQTT_ProcessLoop: nothing arrives, an acknowledgement, a message for    *)
(* the application, or the connection fails.                               *)
Tick(p) ==
  /\ pc[p] = "tick"
  /\ Goto(p, "release")
  /\ UNCHANGED <<client, subscriptions, queue, network, service, cmd>>

TickAck(p) ==
  /\ pc[p] = "tick" /\ conn /\ transport
  /\ \E c \in acks :
       /\ Complete(c, IF c.topic \in broker THEN "ok" ELSE "error", queue)
       /\ acks' = acks \ {c}
  /\ Goto(p, "release")
  /\ UNCHANGED <<life, gen, active, running, stop, transport, conn, broker, session, service,
                 cmd>>

TickFails(p) ==
  /\ pc[p] = "tick" /\ conn
  /\ \E st \in Failures : Goto(p, st)
  /\ UNCHANGED <<client, subscriptions, queue, network, service, cmd>>

(* mqtt_incoming_publish_callback: callback_inflight while it runs.        *)
Deliver(p) ==
  /\ pc[p] = "tick" /\ conn /\ transport /\ life = "OPEN"
  /\ Goto(p, "callback")
  /\ UNCHANGED <<client, subscriptions, queue, network, service, cmd>>

DeliverDone(p) ==
  /\ pc[p] = "callback"
  /\ Goto(p, "release")
  /\ UNCHANGED <<client, subscriptions, queue, network, service, cmd>>

(* The command loop has returned: whether to reconnect is decided on what  *)
(* is read here.                                                           *)
LoopEnded(p) ==
  /\ pc[p] \in Outcomes
  /\ active' = FALSE
  /\ Goto(p, IF pc[p] # "ok" /\ ~stop /\ (state = "WAITING_RECONNECT" \/ pc[p] = "lost")
             THEN "retry" ELSE "retire")
  /\ UNCHANGED <<life, state, gen, connectResult, disconnectResult, running, stop,
                 subscriptions, queue, network, service, cmd>>

Retire(p) ==
  /\ pc[p] = "retire"
  /\ transport' = FALSE /\ conn' = FALSE
  /\ Goto(p, "leave")
  /\ UNCHANGED <<client, subscriptions, queue, acks, broker, session, service, cmd>>

Retry(p) ==
  /\ pc[p] = "retry"
  /\ transport' = FALSE /\ conn' = FALSE
  /\ IF life = "CLOSING" THEN UNCHANGED state /\ Goto(p, "leave")
     ELSE state' = "WAITING_RECONNECT" /\ Goto(p, "backoff")
  /\ UNCHANGED <<life, gen, connectResult, disconnectResult, active, running, stop,
                 subscriptions, queue, acks, broker, session, service, cmd>>

(* mqtt_try_schedule_connect up to its first unlock: a new generation      *)
(* drops the reservations nobody has confirmed.                            *)
Attempt(p) ==
  /\ pc[p] = "backoff" /\ ~stop /\ gen < MaxGen
  /\ gen' = gen + 1 /\ state' = "CONNECTING"
  /\ subs' = [t \in Topics |-> IF subs[t].state = "PENDING" THEN Empty ELSE subs[t]]
  /\ cmd' = [cmd EXCEPT ![p] = Command("CONNECT", gen + 1, NoTopic, 0)]
  /\ Goto(p, "reopen")
  /\ UNCHANGED <<life, connectResult, disconnectResult, active, running, stop, token, unplayed,
                 queue, network, service>>

(* A stop was requested, or BackoffAlgorithm has no retries left.          *)
GiveUp(p) ==
  /\ pc[p] = "backoff"
  /\ Goto(p, "leave")
  /\ UNCHANGED <<client, subscriptions, queue, network, service, cmd>>

Reopen(p) ==
  /\ pc[p] = "reopen"
  /\ transport' = TRUE
  /\ Goto(p, "reconnect")
  /\ UNCHANGED <<client, subscriptions, queue, conn, acks, broker, session, service, cmd>>

(* mqtt_transport_open or MQTT_Connect fails; mqtt_reconnect_with_backoff  *)
(* goes on with the next attempt.  The broker may have taken a CONNECT     *)
(* whose answer was lost.                                                  *)
AttemptFails(p) ==
  /\ pc[p] \in {"reopen", "reconnect"}
  /\ transport' = FALSE
  /\ state' = "WAITING_RECONNECT"
  /\ Finish(p, "backoff")
  /\ \/ UNCHANGED <<broker, session>>
     \/ pc[p] = "reconnect" /\ NewSession("unheard")
  /\ UNCHANGED <<life, gen, connectResult, disconnectResult, active, running, stop,
                 subscriptions, queue, conn, acks, service>>

(* MQTT_Connect without cleanSession: the broker resumes the session it    *)
(* has kept, or says that it starts a new one (session_present).           *)
ReconnectNoReplay(p) ==   \* mutation: session_present is ignored
  /\ pc[p] = "reconnect" /\ transport
  /\ conn' = TRUE /\ acks' = {}
  /\ state' = IF cmd[p].gen = gen /\ state = "CONNECTING" THEN "CONNECTED" ELSE state
  /\ Finish(p, "loop")
  /\ NewSession("kept") \/ (session # "clean" /\ UNCHANGED <<broker, session>>)
  /\ UNCHANGED <<life, gen, connectResult, disconnectResult, active, running, stop,
                 subscriptions, queue, transport, service>>
Reconnect(p) ==
  /\ pc[p] = "reconnect" /\ transport
  /\ conn' = TRUE /\ acks' = {}
  /\ state' = IF cmd[p].gen = gen /\ state = "CONNECTING" THEN "CONNECTED" ELSE state
  /\ \/ session # "clean" /\ Finish(p, "loop") /\ UNCHANGED <<broker, session>>
     \/ Finish(p, "resume") /\ NewSession("kept")
  /\ UNCHANGED <<life, gen, connectResult, disconnectResult, active, running, stop,
                 subscriptions, queue, transport, service>>

(* mqtt_lifecycle_idle_locked, inside being the tasks api_inflight counts. *)
IdleDespiteCalls(inside) == queue = <<>> /\ acks = {} /\ ~active /\ ~running   \* mutation
LifecycleIdle(inside) == inside = {} /\ queue = <<>> /\ acks = {} /\ ~active /\ ~running

(* The way out: DISCONNECTED unless the client is closing, then            *)
(* mqtt_mark_process_stopped, then mqtt_api_leave.                         *)
LeaveAsIs(p) ==   \* mutation: the state is left
  /\ pc[p] = "leave"
  /\ Goto(p, "mark")
  /\ UNCHANGED <<client, subscriptions, queue, network, service, cmd>>
Leave(p) ==
  /\ pc[p] = "leave"
  /\ state' = IF life = "CLOSING" THEN state ELSE "DISCONNECTED"
  /\ Goto(p, "mark")
  /\ UNCHANGED <<life, gen, connectResult, disconnectResult, active, running, stop,
                 subscriptions, queue, network, service, cmd>>

MarkStopped(p) ==
  /\ pc[p] = "mark"
  /\ running' = FALSE /\ stop' = FALSE
  /\ Goto(p, "stopped")
  /\ UNCHANGED <<life, state, gen, connectResult, disconnectResult, active, subscriptions,
                 queue, network, service, cmd>>

(* The task is no longer counted from here on.  One that leaves a closing  *)
(* client idle has still to post lifecycle_done_sem, without the lock.     *)
ApiLeave(p) ==
  /\ pc[p] = "stopped"
  /\ Goto(p, IF life = "CLOSING" /\ LifecycleIdle({q \in Tasks \ {p} : InApi(q)})
             THEN "signal" ELSE "exit")
  /\ UNCHANGED <<client, subscriptions, queue, network, service, cmd>>

SignalIdle(p) ==
  /\ pc[p] = "signal"
  /\ Goto(p, "exit")
  /\ UNCHANGED <<client, subscriptions, queue, network, service, cmd>>

-----------------------------------------------------------------------------
(* The service task in the provider's connect: set_callbacks, the process  *)
(* task, actrust_mqtt_connect, the subscriptions.                          *)

(* The end of a call.  Its local values are forgotten, and with them the   *)
(* two results, which the next connect or disconnect resets unread.        *)
Return(u) ==
  /\ svc' = "idle" /\ op' = "none" /\ svcGen' = 0 /\ prev' = "INITIALIZED" /\ up' = u
  /\ connectResult' = "none" /\ disconnectResult' = "none"

(* A second CONNECT job may find the session up: set_callbacks lets it go  *)
(* on unless the client is CONNECTED or CONNECTING, and the handle of the  *)
(* task that serves the session is overwritten.                            *)
StartProcess ==
  /\ svc = "idle" /\ life = "OPEN" /\ gen < MaxGen
  /\ state \notin {"CONNECTED", "CONNECTING"}
  /\ \E p \in Tasks : /\ pc[p] = "exit" /\ \A q \in Tasks : pc[q] = "exit" => p <= q
                      /\ Goto(p, "created")
                      /\ handle' = p
  /\ svc' = "begin" /\ op' = "connect"
  /\ UNCHANGED <<client, subscriptions, queue, network, attempt, todo, up, cmd>>

(* mqtt_begin_connect.                                                     *)
BeginConnect ==
  /\ svc = "begin"
  /\ IF state = "INITIALIZED" \/ (state = "DISCONNECTED" /\ ~running)
     THEN /\ gen' = gen + 1 /\ svcGen' = gen + 1 /\ prev' = state
          /\ state' = "CONNECTING" /\ connectResult' = "none"
          /\ svc' = "clone"
     ELSE svc' = "stop" /\ UNCHANGED <<gen, svcGen, prev, state, connectResult>>
  /\ UNCHANGED <<life, disconnectResult, active, running, stop, subscriptions, queue, network,
                 op, todo, handle, up, tasks>>

(* mqtt_owned_config_clone: the configuration is copied, or is refused or  *)
(* does not fit into memory.                                               *)
CloneConfig ==
  /\ svc = "clone"
  /\ svc' \in {"install", "unreserve"}
  /\ UNCHANGED <<client, subscriptions, queue, network, op, attempt, todo, handle, up,
                 tasks>>

(* mqtt_install_config, if the attempt is still the current one; otherwise *)
(* mqtt_release_connect_reservation, which then leaves the state.          *)
StillConnecting == gen = svcGen /\ state = "CONNECTING"
InstallConfig ==
  /\ svc = "install"
  /\ svc' = IF StillConnecting THEN "open" ELSE "unreserve"
  /\ UNCHANGED <<client, subscriptions, queue, network, op, attempt, todo, handle, up,
                 tasks>>

ReleaseReservation ==
  /\ svc = "unreserve"
  /\ state' = IF StillConnecting THEN prev ELSE state
  /\ svc' = "stop"
  /\ UNCHANGED <<life, gen, connectResult, disconnectResult, active, running, stop,
                 subscriptions, queue, network, op, attempt, todo, handle, up, tasks>>

(* mqtt_transport_open and mqtt_enqueue_connect_command, or their failure. *)
OpenTransport ==
  /\ svc = "open"
  /\ \/ transport' = TRUE /\ svc' = "enqueue" /\ UNCHANGED state
     \/ transport' = FALSE /\ svc' = "stop" /\ state' = "DISCONNECTED"
  /\ UNCHANGED <<life, gen, connectResult, disconnectResult, active, running, stop,
                 subscriptions, queue, conn, acks, broker, session, op, attempt, todo,
                 handle, up, tasks>>

EnqueueConnect ==
  /\ svc = "enqueue"
  /\ IF Room
     THEN /\ queue' = Append(queue, Command("CONNECT", svcGen, NoTopic, 0))
          /\ svc' = "await" /\ UNCHANGED <<state, transport>>
     ELSE transport' = FALSE /\ state' = "DISCONNECTED" /\ svc' = "stop" /\ UNCHANGED queue
  /\ UNCHANGED <<life, gen, connectResult, disconnectResult, active, running, stop,
                 subscriptions, conn, acks, broker, session, op, attempt, todo, handle, up,
                 tasks>>

(* mqtt_wait_for_connect_result: a result, another generation, time-out.   *)
AwaitConnect ==
  /\ svc = "await"
  /\ svc' = IF connectResult = "ok" THEN "subscribe" ELSE "cancel"
  /\ todo' = IF connectResult = "ok" THEN Topics ELSE todo
  /\ UNCHANGED <<client, subscriptions, queue, network, op, attempt, handle, up, tasks>>

(* mqtt_cancel_connect_attempt and mqtt_abort_disconnect: a result that    *)
(* has come in since stands.                                               *)
Cancel ==
  /\ svc \in {"cancel", "abort"}
  /\ IF /\ gen = svcGen
        /\ IF svc = "cancel" THEN connectResult = "none"
           ELSE state = "DISCONNECTING" /\ disconnectResult = "none"
     THEN gen' = gen + 1 /\ state' = "DISCONNECTED"
     ELSE UNCHANGED <<gen, state>>
  /\ svc' = "claim"
  /\ UNCHANGED <<life, connectResult, disconnectResult, active, running, stop, subscriptions,
                 queue, network, op, attempt, todo, handle, up, tasks>>

(* mqtt_wait_for_command_claim, and what the caller does next.             *)
AfterFailure == IF op \in {"connect", "disconnect"} THEN "stop" ELSE "join"
Claim ==
  /\ svc = "claim"
  /\ \/ ~active /\ svc' = "close"
     \/ active /\ svc' = AfterFailure
  /\ UNCHANGED <<client, subscriptions, queue, network, op, attempt, todo, handle, up,
                 tasks>>

CloseTransport ==
  /\ svc = "close"
  /\ transport' = FALSE
  /\ svc' = AfterFailure
  /\ UNCHANGED <<client, subscriptions, queue, conn, acks, broker, session, op, attempt,
                 todo, handle, up, tasks>>

(* mqtt_subscription_reserve_locked; there is a slot for every topic.      *)
Reserve(t) ==
  /\ token' = token + 1
  /\ subs' = [subs EXCEPT ![t] = [state |-> "PENDING", token |-> token + 1]]

(* actrust_mqtt_subscribe for one topic after the other; a refusal makes   *)
(* the provider disconnect.                                                *)
Subscribe(t) ==
  /\ svc = "subscribe" /\ t \in todo
  /\ IF state = "CONNECTED" /\ subs[t].state = "EMPTY" /\ Room
     THEN /\ Reserve(t)
          /\ queue' = Append(queue, SubscribeCommand(t, token + 1))
          /\ todo' = todo \ {t}
          /\ UNCHANGED <<unplayed, svc, op>>
     ELSE /\ svc' = "disconnect" /\ op' = "cleanup" /\ todo' = {}
          /\ UNCHANGED <<subscriptions, queue>>
  /\ UNCHANGED <<client, network, attempt, handle, up, tasks>>

Connected ==
  /\ svc = "subscribe" /\ todo = {}
  /\ Return(TRUE)
  /\ UNCHANGED <<life, state, gen, active, running, stop, subscriptions, queue, network, todo,
                 handle, tasks>>

(* actrust_mqtt_publish; refused unless CONNECTED and room.                *)
Publish ==
  /\ svc = "idle" /\ up /\ Cardinality(Waiting("PUBLISH")) < MaxPub
  /\ state = "CONNECTED" /\ Room
  /\ queue' = Append(queue, Plain("PUBLISH"))
  /\ UNCHANGED <<client, subscriptions, network, svc, op, attempt, todo, handle, up, tasks>>

-----------------------------------------------------------------------------
(* The provider's disconnect, and its join of the process task.            *)

StartDisconnect ==
  /\ svc = "idle" /\ up
  /\ svc' = "disconnect" /\ op' = "disconnect"
  /\ UNCHANGED <<client, subscriptions, queue, network, attempt, todo, handle, up, tasks>>

(* actrust_mqtt_disconnect up to its wait.                                 *)
Disconnect ==
  /\ svc = "disconnect"
  /\ IF state = "CONNECTED" /\ Room
     THEN /\ state' = "DISCONNECTING" /\ disconnectResult' = "none" /\ svcGen' = gen
          /\ queue' = Append(queue, Plain("DISCONNECT"))
          /\ svc' = "awaitDisconnect"
     ELSE svc' = AfterFailure /\ UNCHANGED <<state, disconnectResult, svcGen, queue>>
  /\ UNCHANGED <<life, gen, connectResult, active, running, stop, subscriptions, network, op,
                 prev, todo, handle, up, tasks>>

AwaitDisconnect ==
  /\ svc = "awaitDisconnect"
  /\ IF disconnectResult = "ok"
     THEN svc' = "join" /\ op' = IF op = "disconnect" THEN "disconnected" ELSE op
     ELSE svc' = "abort" /\ UNCHANGED op
  /\ UNCHANGED <<client, subscriptions, queue, network, attempt, todo, handle, up, tasks>>

(* actrust_mqtt_stop_process: the flag, then TERMINATE if a task runs.     *)
StopProcess ==
  /\ svc = "stop"
  /\ IF handle = NoTask THEN svc' = "join" /\ UNCHANGED stop
     ELSE stop' = TRUE /\ svc' = IF running THEN "terminate" ELSE "join"
  /\ UNCHANGED <<life, state, gen, connectResult, disconnectResult, active, running,
                 subscriptions, queue, network, op, attempt, todo, handle, up, tasks>>

TerminateProcess ==
  /\ svc = "terminate"
  /\ queue' = IF Room THEN Append(queue, Terminate) ELSE queue
  /\ svc' = "join"
  /\ UNCHANGED <<client, subscriptions, network, op, attempt, todo, handle, up, tasks>>

(* actrust_task_join: it waits for the task, or long enough for a task     *)
(* that is still busy.  A connect that failed leaves the core's state.     *)
StillUp(ok) == CASE op \in {"connect", "cleanup"} -> {up}
                 [] op = "disconnect" \/ (op = "disconnected" /\ ~ok) -> BOOLEAN
                 [] OTHER -> {FALSE}
AfterJoin(ok) ==
  /\ handle' = IF ok THEN NoTask ELSE handle
  /\ IF op = "deinit" /\ ok
     THEN svc' = "deinit" /\ UNCHANGED <<op, attempt, up, connectResult, disconnectResult>>
     ELSE \E u \in StillUp(ok) : Return(u)
  /\ UNCHANGED <<life, state, gen, active, running, stop, subscriptions, queue, network, todo,
                 tasks>>

Join == svc = "join" /\ (handle # NoTask => pc[handle] = "exit") /\ AfterJoin(TRUE)
JoinTimeout == svc = "join" /\ handle # NoTask /\ InApi(handle) /\ AfterJoin(FALSE)

-----------------------------------------------------------------------------
(* The provider's deinit and actrust_mqtt_deinit.                          *)

StartDeinit ==
  /\ svc = "idle" /\ ~up /\ life # "FREED"
  /\ op' = "deinit"
  /\ svc' = IF handle = NoTask THEN "deinit" ELSE IF life = "OPEN" THEN "stop" ELSE "join"
  /\ UNCHANGED <<client, subscriptions, queue, network, attempt, todo, handle, up, tasks>>

CloseClient ==
  /\ svc = "deinit"
  /\ IF (\E p \in Tasks : pc[p] = "callback")
        \/ (life = "OPEN" /\ state \in {"CONNECTED", "CONNECTING"})
     THEN svc' = "idle" /\ UNCHANGED <<life, stop>>
     ELSE /\ life' = "CLOSING" /\ stop' = TRUE
          /\ svc' = IF running THEN "stopRunning" ELSE "cancelAll"
  /\ UNCHANGED <<state, gen, connectResult, disconnectResult, active, running, subscriptions,
                 queue, network, op, attempt, todo, handle, up, tasks>>

(* A task is still running, unjoined: TERMINATE, and wait for its end.     *)
StopRunning ==
  /\ svc = "stopRunning"
  /\ stop' = TRUE
  /\ IF running /\ Room THEN queue' = Append(queue, Terminate) ELSE UNCHANGED queue
  /\ svc' = IF running /\ ~Room THEN "idle" ELSE "awaitStopped"
  /\ UNCHANGED <<life, state, gen, connectResult, disconnectResult, active, running,
                 subscriptions, network, op, attempt, todo, handle, up, tasks>>

AwaitStopped ==
  /\ svc = "awaitStopped"
  /\ svc' = IF running THEN "idle" ELSE "cancelAll"
  /\ UNCHANGED <<client, subscriptions, queue, network, op, attempt, todo, handle, up,
                 tasks>>

(* MQTTAgent_CancelAll concludes what is queued or pending.                *)
CancelAll ==
  /\ svc = "cancelAll"
  /\ IF active THEN svc' = "idle" /\ UNCHANGED <<queue, acks>>
     ELSE queue' = <<>> /\ acks' = {} /\ svc' = "awaitIdle"
  /\ UNCHANGED <<client, subscriptions, transport, conn, broker, session, op, attempt, todo,
                 handle, up, tasks>>

(* mqtt_wait_for_lifecycle_idle asks the counters, not the semaphore.      *)
Free ==
  /\ svc = "awaitIdle"
  /\ IF LifecycleIdle({p \in Tasks : InApi(p)})
     THEN life' = "FREED" /\ transport' = FALSE
     ELSE UNCHANGED <<life, transport>>
  /\ svc' = "idle"
  /\ UNCHANGED <<state, gen, connectResult, disconnectResult, active, running, stop,
                 subscriptions, queue, conn, acks, broker, session, op, attempt, todo,
                 handle, up, tasks>>

-----------------------------------------------------------------------------
ProcessStep(p) ==
  \/ Enter(p) \/ Loop(p) \/ ReleaseClaim(p) \/ PopEmpty(p) \/ PopValid(p) \/ PopStale(p)
  \/ ExecTerminate(p) \/ ExecConnect(p) \/ ReplaySubscriptions(p) \/ ExecDisconnect(p)
  \/ ExecSubscribe(p) \/ ExecPublish(p) \/ ExecFails(p)
  \/ Tick(p) \/ TickAck(p) \/ TickFails(p) \/ Deliver(p) \/ DeliverDone(p)
  \/ LoopEnded(p) \/ Retire(p) \/ Retry(p) \/ Attempt(p) \/ GiveUp(p) \/ Reopen(p)
  \/ AttemptFails(p) \/ Reconnect(p) \/ Leave(p) \/ MarkStopped(p)
  \/ ApiLeave(p) \/ SignalIdle(p)

ServiceStep ==
  \/ StartProcess \/ BeginConnect \/ CloneConfig \/ InstallConfig \/ ReleaseReservation
  \/ OpenTransport \/ EnqueueConnect \/ AwaitConnect
  \/ Cancel \/ Claim \/ CloseTransport \/ (\E t \in Topics : Subscribe(t)) \/ Connected
  \/ Publish \/ StartDisconnect \/ Disconnect \/ AwaitDisconnect
  \/ StopProcess \/ TerminateProcess \/ Join \/ JoinTimeout
  \/ StartDeinit \/ CloseClient \/ StopRunning \/ AwaitStopped \/ CancelAll \/ Free

Next == ServiceStep \/ \E p \in Tasks : ProcessStep(p)

(* Every process task is a thread the system schedules.                    *)
Spec == Init /\ [][Next]_vars /\ \A p \in Tasks : WF_vars(ProcessStep(p))

-----------------------------------------------------------------------------
Commands == [type : {"CONNECT", "DISCONNECT", "SUBSCRIBE", "PUBLISH", "TERMINATE"},
             gen : Nat, topic : Topics \cup {NoTopic}, token : Nat]

(* The shape of the state; the command queue of mqtt.c never exceeds its   *)
(* capacity, whoever appends to it.                                        *)
TypeOK ==
  /\ life \in {"OPEN", "CLOSING", "FREED"} /\ state \in States /\ gen \in Nat
  /\ {connectResult, disconnectResult} \subseteq Outcomes \cup {"none"}
  /\ {active, running, stop, transport, conn, up} \subseteq BOOLEAN
  /\ subs \in [Topics -> [state : {"EMPTY", "PENDING", "ACTIVE"}, token : Nat]]
  /\ token \in Nat /\ unplayed \subseteq Topics
  /\ queue \in Seq(Commands) /\ Len(queue) <= QueueCap
  /\ acks \subseteq Commands /\ broker \subseteq Topics
  /\ session \in {"clean", "kept", "unheard"}
  /\ svc \in {"idle", "begin", "clone", "install", "unreserve", "open", "enqueue",
              "await", "cancel", "claim", "close",
              "subscribe", "disconnect", "awaitDisconnect", "abort", "stop", "terminate",
              "join", "deinit", "stopRunning", "awaitStopped", "cancelAll", "awaitIdle"}
  /\ op \in {"none", "connect", "cleanup", "disconnect", "disconnected", "deinit"}
  /\ svcGen \in Nat /\ prev \in States /\ todo \subseteq Topics
  /\ handle \in Tasks \cup {NoTask}
  /\ pc \in [Tasks -> Running \cup {"created", "stopped", "signal", "exit"}]
  /\ cmd \in [Tasks -> Commands]

(* mqtt_mark_process_started: at most one task runs the agent, also when a *)
(* join timed out and the provider has started a second one, and           *)
(* process_running says whether one does.                                  *)
SingleLoop ==
  /\ \A p, q \in Tasks : pc[p] \in Running /\ pc[q] \in Running => p = q
  /\ running <=> \E p \in Tasks : pc[p] \in Running

(* A client that takes publications and subscriptions (CONNECTED and not   *)
(* being torn down) has a process task that will execute them.             *)
ConnectedIsServed == life = "OPEN" /\ state = "CONNECTED" => running

(* While the connection is up, a topic the client holds for subscribed is  *)
(* one the broker delivers, across lost connections, resumed and lost      *)
(* sessions, and late acknowledgements; except while the replay is still   *)
(* to come, for the topics it found the command queue full for, and in a   *)
(* session whose start the client was never told of: that one is empty,    *)
(* but session_present, and nothing is replayed into it.                   *)
Replaying == \E p \in Tasks : pc[p] \in {"replay", "resume"}
SubscriptionsLive ==
  state = "CONNECTED" /\ conn /\ ~Replaying /\ session # "unheard" =>
    \A t \in Topics \ unplayed : subs[t].state = "ACTIVE" => t \in broker

(* actrust_mqtt_deinit frees the client only when no command can still     *)
(* complete, every task has left it and none is still to enter it,         *)
(* whatever joins timed out before and whatever handles were overwritten;  *)
(* one task may have the post of lifecycle_done_sem left (ProcessReturned).*)
FreedOnlyQuiet ==
  life = "FREED" =>
    /\ \A p \in Tasks : pc[p] \in {"exit", "signal"}
    /\ \A p, q \in Tasks : pc[p] = "signal" /\ pc[q] = "signal" => p = q
    /\ queue = <<>> /\ acks = {} /\ ~active

(* mqtt.h:164 says that deinit "waits for @ref actrust_mqtt_process to     *)
(* return before releasing resources".                                     *)
ProcessReturned == life = "FREED" => \A p \in Tasks : pc[p] = "exit"

(* A stop the client has accepted, by the flag before the command loop or  *)
(* by TERMINATE in the queue, ends the process task.                       *)
StopAccepted ==
  /\ running /\ stop
  /\ \/ Waiting("TERMINATE") # {}
     \/ \A p \in Tasks : pc[p] \notin CommandLoop
StopTakesEffect == StopAccepted ~> ~running
=============================================================================
