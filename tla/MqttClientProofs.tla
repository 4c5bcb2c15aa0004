------------------------- MODULE MqttClientProofs -------------------------
(***************************************************************************)
(* The MQTT client is right for any number of process tasks, topics,       *)
(* connection attempts and publications and any capacity of the command    *)
(* queue: one loop at a time, a connected client is served, a freed one is *)
(* quiet, and a topic that counts as subscribed is delivered.  The last    *)
(* part says what a run with few generations cannot: a CONNECT that was    *)
(* cancelled while it was executed empties the broker's session, and only  *)
(* because that session ends with its connection does the reconnect that   *)
(* may follow replay the topics.                                           *)
(***************************************************************************)
EXTENDS MqttClient, SequenceTheorems, FiniteSetTheorems, TLAPS

(* The commands as they are issued: a SUBSCRIBE names a topic.             *)
Issued == {c \in Commands : c.type = "SUBSCRIBE" => c.topic \in Topics}

(* The invariant's first part: types, by the groups of variables.          *)
ClientOK ==
  /\ life \in {"OPEN", "CLOSING", "FREED"} /\ state \in States /\ gen \in Nat
  /\ {connectResult, disconnectResult} \subseteq Outcomes \cup {"none"}
FlagsOK ==
  /\ active \in BOOLEAN /\ running \in BOOLEAN /\ stop \in BOOLEAN
  /\ transport \in BOOLEAN /\ conn \in BOOLEAN /\ up \in BOOLEAN
SubscriptionsOK ==
  /\ subs \in [Topics -> [state : {"EMPTY", "PENDING", "ACTIVE"}, token : Nat]]
  /\ token \in Nat /\ unplayed \subseteq Topics
QueueOK == queue \in Seq(Issued) /\ Len(queue) <= QueueCap
NetworkOK ==
  /\ acks \subseteq {c \in Issued : c.type = "SUBSCRIBE"} /\ broker \subseteq Topics
  /\ session \in {"clean", "kept", "unheard"}
ServiceOK ==
  /\ svc \in {"idle", "begin", "clone", "install", "unreserve", "open", "enqueue",
              "await", "cancel", "claim", "close",
              "subscribe", "disconnect", "awaitDisconnect", "abort", "stop", "terminate",
              "join", "deinit", "stopRunning", "awaitStopped", "cancelAll", "awaitIdle"}
  /\ op \in {"none", "connect", "cleanup", "disconnect", "disconnected", "deinit"}
  /\ svcGen \in Nat /\ prev \in States /\ todo \subseteq Topics
  /\ handle \in Tasks \cup {NoTask}
TasksOK ==
  /\ pc \in [Tasks -> Running \cup {"created", "stopped", "signal", "exit"}]
  /\ cmd \in [Tasks -> Issued]
Typed == ClientOK /\ SubscriptionsOK /\ QueueOK /\ NetworkOK /\ ServiceOK /\ TasksOK
MqttTyped == Typed /\ FlagsOK

(* SetToSeq lists every element of a finite set once.                      *)
LEMMA ListedOnce ==
  ASSUME NEW S, IsFiniteSet(S)
  PROVE  LET l == SetToSeq(S)
         IN  /\ Cardinality(S) \in Nat
             /\ l \in [1..Cardinality(S) -> S]
             /\ IsInjective(l)
             /\ \A s \in S : \E i \in DOMAIN l : l[i] = s
<1> DEFINE l == SetToSeq(S)
           n == Cardinality(S)
<1>1. n \in Nat /\ \E f : f \in Bijection(1..n, S)
  BY FS_CardinalityType DEF ExistsBijection
<1>2. \E f \in [1..n -> S] : IsInjective(f)
  BY <1>1 DEF Bijection, Injection
<1>3. l \in [1..n -> S] /\ IsInjective(l)
  BY <1>2 DEF SetToSeq
<1>4. l \in Injection(1..n, S)
  BY <1>3 DEF Injection
<1>5. Cardinality(1..n) = n
  BY <1>1, FS_Interval
<1> HIDE DEF l
<1>6. l \in Surjection(1..n, S)
  BY <1>4, <1>5, FS_Injection
<1>7. \A s \in S : \E i \in DOMAIN l : l[i] = s
  BY <1>6, <1>3 DEF Surjection
<1> QED
  BY <1>1, <1>3, <1>7 DEF l

(* mqtt_replay_subscriptions keeps the shape of the subscriptions and the  *)
(* bound of the command queue, and leaves no topic ACTIVE but those it     *)
(* found no room for.                                                      *)
LEMMA ReplaySound ==
  ASSUME Typed, Replay
  PROVE  /\ subs' \in [Topics -> [state : {"EMPTY", "PENDING", "ACTIVE"}, token : Nat]]
         /\ token' \in Nat /\ unplayed' \subseteq Topics
         /\ queue' \in Seq(Issued) /\ Len(queue') <= QueueCap
         /\ \A t \in Topics : subs'[t].state = "ACTIVE" => t \in unplayed'
<1> DEFINE S     == {t \in Topics : subs[t].state = "ACTIVE"}
           n     == Cardinality(S)
           again == SetToSeq(S)
           fit   == {i \in DOMAIN again : Len(queue) + i <= QueueCap}
           at(t) == CHOOSE i \in DOMAIN again : again[i] = t
           new   == [i \in fit |-> SubscribeCommand(again[i], token + i)]
<1>1. IsFiniteSet(S)
  BY MqttAssumption, FS_Subset
<1>2. /\ n \in Nat /\ again \in [1..n -> S]
      /\ \A t \in S : \E i \in DOMAIN again : again[i] = t
  BY <1>1, ListedOnce
<1>3. /\ subs' = [t \in Topics |->
                    IF subs[t].state # "ACTIVE" THEN subs[t]
                    ELSE [state |-> IF at(t) \in fit THEN "PENDING" ELSE "ACTIVE",
                          token |-> token + at(t)]]
      /\ token' = token + Len(again)
      /\ unplayed' = {again[i] : i \in DOMAIN again \ fit}
      /\ queue' = queue \o new
  BY DEF Replay
<1>4. DOMAIN again = 1..n /\ Len(again) = n
  BY <1>2
<1>5. \A t \in S : at(t) \in 1..n /\ again[at(t)] = t
  BY <1>2
<1>6. Len(queue) \in Nat /\ Len(queue) <= QueueCap /\ QueueCap \in Nat /\ token \in Nat
  BY MqttAssumption, LenProperties DEF Typed, ClientOK, SubscriptionsOK, QueueOK
<1> DEFINE m == IF n <= QueueCap - Len(queue) THEN n ELSE QueueCap - Len(queue)
<1> HIDE DEF again, at, n
<1>7. m \in Nat /\ m <= QueueCap - Len(queue) /\ m <= n
  BY <1>6, <1>2
<1>8. fit = 1..m
  BY <1>4, <1>6, <1>2
<1>9. \A i \in fit : SubscribeCommand(again[i], token + i) \in Issued
  <2>1. TAKE i \in fit
  <2>2. again[i] \in Topics /\ token + i \in Nat /\ gen \in Nat
    BY <1>2, <1>4, <1>6 DEF Typed, ClientOK, SubscriptionsOK, QueueOK
  <2> QED
    BY <2>2 DEF SubscribeCommand, Command, Issued, Commands
<1>10. new \in Seq(Issued) /\ Len(new) = m
  <2> HIDE DEF fit, m
  <2>1. new \in [1..m -> Issued]
    BY <1>8, <1>9
  <2> QED
    BY <2>1, <1>7
<1>11. queue \in Seq(Issued)
  BY DEF Typed, QueueOK
<1>12. queue' \in Seq(Issued) /\ Len(queue') <= QueueCap
  <2> HIDE DEF new, m
  <2> QED
  BY <1>3, <1>10, <1>11, <1>7, <1>6, ConcatProperties
<1>13. \A t \in Topics : subs'[t].state = "ACTIVE" => t \in unplayed'
  BY <1>3, <1>4, <1>5
<1>14. subs' \in [Topics -> [state : {"EMPTY", "PENDING", "ACTIVE"}, token : Nat]]
  <2>1. SUFFICES ASSUME NEW t \in Topics
                 PROVE  (IF subs[t].state # "ACTIVE" THEN subs[t]
                         ELSE [state |-> IF at(t) \in fit THEN "PENDING" ELSE "ACTIVE",
                               token |-> token + at(t)])
                        \in [state : {"EMPTY", "PENDING", "ACTIVE"}, token : Nat]
    BY <1>3
  <2>2. CASE subs[t].state # "ACTIVE"
    BY <2>2 DEF Typed, ClientOK, SubscriptionsOK, QueueOK
  <2>3. CASE subs[t].state = "ACTIVE"
    <3>1. token + at(t) \in Nat
      BY <2>3, <1>5, <1>2, <1>6
    <3> QED
      BY <2>3, <3>1
  <2> QED BY <2>2, <2>3
<1> QED
  <2> HIDE DEF fit, at
  <2>1. token' \in Nat
    BY <1>3, <1>4, <1>2, <1>6
  <2>2. unplayed' \subseteq Topics
    BY <1>3, <1>4, <1>2
  <2> QED
    BY <2>1, <2>2, <1>12, <1>13, <1>14
(* MqttTyped is at least TypeOK.                                           *)
LEMMA TypedIsOK == MqttTyped => TypeOK
<1> SUFFICES ASSUME MqttTyped PROVE TypeOK
  OBVIOUS
<1>1. Issued \subseteq Commands
  BY DEF Issued
<1>2. queue \in Seq(Commands)
  BY <1>1, SeqMonotonic DEF MqttTyped, Typed, QueueOK
<1>3. cmd \in [Tasks -> Commands]
  BY <1>1 DEF MqttTyped, Typed, TasksOK
<1>4. acks \subseteq Commands
  BY <1>1 DEF MqttTyped, Typed, NetworkOK
<1> QED
  BY <1>2, <1>3, <1>4 DEF MqttTyped, Typed, ClientOK, FlagsOK, SubscriptionsOK, QueueOK,
     NetworkOK,
     ServiceOK, TasksOK, TypeOK

(* The commands the model writes are well formed.                          *)
LEMMA CommandsIssued ==
  ASSUME Typed
  PROVE  /\ Terminate \in Issued /\ Plain("PUBLISH") \in Issued /\ Plain("DISCONNECT") \in Issued
         /\ \A t \in Topics, k \in Nat : SubscribeCommand(t, k) \in Issued
         /\ \A g \in Nat : Command("CONNECT", g, NoTopic, 0) \in Issued
BY DEF Typed, ClientOK, Issued, Commands, Terminate, Plain, SubscribeCommand, Command

(* A command appended while there is room.                                 *)
LEMMA AppendOK ==
  ASSUME Typed, Room, NEW c \in Issued
  PROVE  Append(queue, c) \in Seq(Issued) /\ Len(Append(queue, c)) <= QueueCap
BY AppendProperties, MqttAssumption, LenProperties DEF Typed, QueueOK, Room

(* A command taken from the queue.                                         *)
LEMMA PopOK ==
  ASSUME Typed, queue # <<>>
  PROVE  /\ Head(queue) \in Issued /\ Tail(queue) \in Seq(Issued)
         /\ Len(Tail(queue)) <= QueueCap
BY HeadTailProperties, MqttAssumption, LenProperties DEF Typed, QueueOK

(* mqtt_agent_command_complete keeps the types.                            *)
LEMMA CompleteOK ==
  ASSUME Typed, NEW c \in Issued, NEW st \in Outcomes,
         NEW q \in Seq(Issued), Len(q) <= QueueCap, Complete(c, st, q)
  PROVE  /\ SubscriptionsOK' /\ QueueOK'
         /\ state' \in States
         /\ {connectResult', disconnectResult'} \subseteq Outcomes \cup {"none"}
<1> USE DEF Typed, SubscriptionsOK
<1>1. SubscriptionsOK'
  <2>1. CASE c.type = "SUBSCRIBE"
    <3>1. CASE UNCHANGED subs
      BY <2>1, <3>1 DEF Complete
    <3>2. CASE subs' = [subs EXCEPT ![c.topic] =
                  IF st = "ok" THEN [@ EXCEPT !.state = "ACTIVE"] ELSE Empty]
      <4>1. c.topic \in Topics
        BY <2>1 DEF Issued
      <4>2. subs[c.topic] \in [state : {"EMPTY", "PENDING", "ACTIVE"}, token : Nat]
        BY <4>1
      <4>3. [subs[c.topic] EXCEPT !.state = "ACTIVE"]
              \in [state : {"EMPTY", "PENDING", "ACTIVE"}, token : Nat]
        BY <4>2
      <4>4. Empty \in [state : {"EMPTY", "PENDING", "ACTIVE"}, token : Nat]
        BY DEF Empty
      <4> QED
        BY <2>1, <3>2, <4>1, <4>3, <4>4 DEF Complete
    <3> QED
      BY <2>1, <3>1, <3>2 DEF Complete, CompleteSubscribe
  <2>2. CASE c.type # "SUBSCRIBE"
    BY <2>2 DEF Complete, subscriptions
  <2> QED
    BY <2>1, <2>2
<1>2. QueueOK'
  BY DEF Complete, QueueOK
<1>3. state' \in States
  BY DEF Complete, ClientOK, States
<1>4. {connectResult', disconnectResult'} \subseteq Outcomes \cup {"none"}
  BY DEF Complete, ClientOK
<1> QED
  BY <1>1, <1>2, <1>3, <1>4

(* The flags stay Boolean.                                                 *)
LEMMA ProcessFlags ==
  ASSUME FlagsOK, NEW p \in Tasks, ProcessStep(p)
  PROVE  FlagsOK'
<1> USE DEF client, subscriptions, network, attempt, service, tasks, FlagsOK
<1>1. ASSUME Enter(p) PROVE FlagsOK'
  BY <1>1, Zenon DEF Enter
<1>2. ASSUME Loop(p) PROVE FlagsOK'
  BY <1>2, Zenon DEF Loop
<1>3. ASSUME ReleaseClaim(p) PROVE FlagsOK'
  BY <1>3, Zenon DEF ReleaseClaim
<1>4. ASSUME PopEmpty(p) PROVE FlagsOK'
  BY <1>4, Zenon DEF PopEmpty
<1>5. ASSUME PopValid(p) PROVE FlagsOK'
  BY <1>5, Zenon DEF PopValid
<1>6. ASSUME PopStale(p) PROVE FlagsOK'
  BY <1>6, Zenon DEF PopStale
<1>7. ASSUME ExecTerminate(p) PROVE FlagsOK'
  BY <1>7, Zenon DEF ExecTerminate
<1>8. ASSUME ExecConnect(p) PROVE FlagsOK'
  BY <1>8, Zenon DEF ExecConnect, NewSession
<1>9. ASSUME ReplaySubscriptions(p) PROVE FlagsOK'
  BY <1>9, Zenon DEF ReplaySubscriptions
<1>10. ASSUME ExecDisconnect(p) PROVE FlagsOK'
  BY <1>10, Zenon DEF ExecDisconnect
<1>11. ASSUME ExecSubscribe(p) PROVE FlagsOK'
  BY <1>11, Zenon DEF ExecSubscribe
<1>12. ASSUME ExecPublish(p) PROVE FlagsOK'
  BY <1>12, Zenon DEF ExecPublish
<1>13. ASSUME ExecFails(p) PROVE FlagsOK'
  BY <1>13, Zenon DEF ExecFails, NewSession
<1>14. ASSUME Tick(p) PROVE FlagsOK'
  BY <1>14, Zenon DEF Tick
<1>15. ASSUME TickAck(p) PROVE FlagsOK'
  BY <1>15, Zenon DEF TickAck
<1>16. ASSUME TickFails(p) PROVE FlagsOK'
  BY <1>16, Zenon DEF TickFails
<1>17. ASSUME Deliver(p) PROVE FlagsOK'
  BY <1>17, Zenon DEF Deliver
<1>18. ASSUME DeliverDone(p) PROVE FlagsOK'
  BY <1>18, Zenon DEF DeliverDone
<1>19. ASSUME LoopEnded(p) PROVE FlagsOK'
  BY <1>19, Zenon DEF LoopEnded
<1>20. ASSUME Retire(p) PROVE FlagsOK'
  BY <1>20, Zenon DEF Retire
<1>21. ASSUME Retry(p) PROVE FlagsOK'
  BY <1>21, Zenon DEF Retry
<1>22. ASSUME Attempt(p) PROVE FlagsOK'
  BY <1>22, Zenon DEF Attempt, Command
<1>23. ASSUME GiveUp(p) PROVE FlagsOK'
  BY <1>23, Zenon DEF GiveUp
<1>24. ASSUME Reopen(p) PROVE FlagsOK'
  BY <1>24, Zenon DEF Reopen
<1>25. ASSUME AttemptFails(p) PROVE FlagsOK'
  BY <1>25, Zenon DEF AttemptFails, NewSession
<1>26. ASSUME Reconnect(p) PROVE FlagsOK'
  BY <1>26, Zenon DEF Reconnect, NewSession
<1>27. ASSUME Leave(p) PROVE FlagsOK'
  BY <1>27, Zenon DEF Leave
<1>28. ASSUME ApiLeave(p) PROVE FlagsOK'
  BY <1>28, Zenon DEF ApiLeave
<1>29. ASSUME MarkStopped(p) PROVE FlagsOK'
  BY <1>29, Zenon DEF MarkStopped
<1>30. ASSUME SignalIdle(p) PROVE FlagsOK'
  BY <1>30, Zenon DEF SignalIdle
<1> QED
  BY <1>1, <1>2, <1>3, <1>4, <1>5, <1>6, <1>7, <1>8, <1>9, <1>10, <1>11, <1>12, <1>13,
     <1>14, <1>15, <1>16, <1>17, <1>18, <1>19, <1>20, <1>21, <1>22, <1>23, <1>24, <1>25,
     <1>26, <1>27, <1>28, <1>29, <1>30 DEF ProcessStep

(* The flags stay Boolean.                                                 *)
LEMMA ServiceFlags ==
  ASSUME FlagsOK, ServiceStep
  PROVE  FlagsOK'
<1> USE DEF client, subscriptions, network, attempt, service, tasks, FlagsOK
<1>1. ASSUME StartProcess PROVE FlagsOK'
  BY <1>1, Zenon DEF StartProcess
<1>2. ASSUME BeginConnect PROVE FlagsOK'
  BY <1>2, Zenon DEF BeginConnect
<1>3. ASSUME CloneConfig PROVE FlagsOK'
  BY <1>3, Zenon DEF CloneConfig
<1>4. ASSUME InstallConfig PROVE FlagsOK'
  BY <1>4, Zenon DEF InstallConfig, StillConnecting
<1>5. ASSUME ReleaseReservation PROVE FlagsOK'
  BY <1>5, Zenon DEF ReleaseReservation, StillConnecting
<1>6. ASSUME OpenTransport PROVE FlagsOK'
  BY <1>6, Zenon DEF OpenTransport
<1>7. ASSUME EnqueueConnect PROVE FlagsOK'
  BY <1>7, Zenon DEF EnqueueConnect, Room, Command
<1>8. ASSUME AwaitConnect PROVE FlagsOK'
  BY <1>8, Zenon DEF AwaitConnect
<1>9. ASSUME Cancel PROVE FlagsOK'
  BY <1>9, Zenon DEF Cancel
<1>10. ASSUME Claim PROVE FlagsOK'
  BY <1>10, Zenon DEF Claim, AfterFailure
<1>11. ASSUME CloseTransport PROVE FlagsOK'
  BY <1>11, Zenon DEF CloseTransport, AfterFailure
<1>12. ASSUME NEW t \in Topics, Subscribe(t) PROVE FlagsOK'
  BY <1>12, Zenon DEF Subscribe, Reserve, Room, SubscribeCommand, Command
<1>13. ASSUME Connected PROVE FlagsOK'
  BY <1>13, Zenon DEF Connected, Return
<1>14. ASSUME Publish PROVE FlagsOK'
  BY <1>14, Zenon DEF Publish, Room, Plain, Command
<1>15. ASSUME StartDisconnect PROVE FlagsOK'
  BY <1>15, Zenon DEF StartDisconnect
<1>16. ASSUME Disconnect PROVE FlagsOK'
  BY <1>16, Zenon DEF Disconnect, Room, Plain, Command, AfterFailure
<1>17. ASSUME AwaitDisconnect PROVE FlagsOK'
  BY <1>17, Zenon DEF AwaitDisconnect
<1>18. ASSUME StopProcess PROVE FlagsOK'
  BY <1>18, Zenon DEF StopProcess
<1>19. ASSUME TerminateProcess PROVE FlagsOK'
  BY <1>19, Zenon DEF TerminateProcess, Room
<1>20. ASSUME Join PROVE FlagsOK'
  BY <1>20, Zenon DEF Join, AfterJoin, StillUp, Return
<1>21. ASSUME JoinTimeout PROVE FlagsOK'
  BY <1>21, Zenon DEF JoinTimeout, AfterJoin, StillUp, Return
<1>22. ASSUME StartDeinit PROVE FlagsOK'
  BY <1>22, Zenon DEF StartDeinit
<1>23. ASSUME CloseClient PROVE FlagsOK'
  BY <1>23, Zenon DEF CloseClient
<1>24. ASSUME StopRunning PROVE FlagsOK'
  BY <1>24, Zenon DEF StopRunning, Room
<1>25. ASSUME AwaitStopped PROVE FlagsOK'
  BY <1>25, Zenon DEF AwaitStopped
<1>26. ASSUME CancelAll PROVE FlagsOK'
  BY <1>26, Zenon DEF CancelAll
<1>27. ASSUME Free PROVE FlagsOK'
  BY <1>27, Zenon DEF Free, LifecycleIdle
<1> QED
  BY <1>1, <1>2, <1>3, <1>4, <1>5, <1>6, <1>7, <1>8, <1>9, <1>10, <1>11, <1>12, <1>13,
     <1>14, <1>15, <1>16, <1>17, <1>18, <1>19, <1>20, <1>21, <1>22, <1>23, <1>24, <1>25,
     <1>26, <1>27 DEF ServiceStep

(* A step of a process task keeps the types.                               *)
LEMMA ProcessTyped ==
  ASSUME Typed, NEW p \in Tasks, ProcessStep(p)
  PROVE  Typed'
<1> USE DEF Typed, ClientOK, SubscriptionsOK, QueueOK, NetworkOK, ServiceOK, TasksOK,
           Running, CommandLoop, Outcomes, States, client, subscriptions, network, attempt,
           service, tasks
<1>1. ASSUME Enter(p) PROVE Typed'
  BY <1>1 DEF Enter, Goto
<1>2. ASSUME Loop(p) PROVE Typed'
  <2>1. PICK l \in {"leave", "release"} : Goto(p, l)
    BY <1>2 DEF Loop
  <2>2. TasksOK'
    BY <1>2, <2>1 DEF Loop, Goto
  <2> QED
    BY <1>2, <2>2 DEF Loop
<1>3. ASSUME ReleaseClaim(p) PROVE Typed'
  BY <1>3 DEF ReleaseClaim, Goto
<1>4. ASSUME PopEmpty(p) PROVE Typed'
  BY <1>4 DEF PopEmpty, Goto
<1>5. ASSUME PopValid(p) PROVE Typed'
  BY <1>5, PopOK DEF PopValid, Goto
<1>6. ASSUME PopStale(p) PROVE Typed'
  <2>1. SubscriptionsOK' /\ QueueOK' /\ state' \in States
        /\ {connectResult', disconnectResult'} \subseteq Outcomes \cup {"none"}
    BY <1>6, CompleteOK, PopOK DEF PopStale, Failures
  <2> QED
    BY <1>6, <2>1, CommandsIssued DEF PopStale
<1>7. ASSUME ExecTerminate(p) PROVE Typed'
  BY <1>7, CommandsIssued DEF ExecTerminate, Finish, Goto
<1>8. ASSUME ExecConnect(p) PROVE Typed'
  <2>1. SubscriptionsOK' /\ QueueOK' /\ state' \in States
        /\ {connectResult', disconnectResult'} \subseteq Outcomes \cup {"none"}
    BY <1>8, CompleteOK DEF ExecConnect, Failures
  <2> QED
    BY <1>8, <2>1, CommandsIssued DEF ExecConnect, Finish, Goto, NewSession
<1>9. ASSUME ReplaySubscriptions(p) PROVE Typed'
  <2>1. SubscriptionsOK' /\ QueueOK'
    BY <1>9, ReplaySound DEF ReplaySubscriptions
  <2> QED
    BY <1>9, <2>1 DEF ReplaySubscriptions, Goto
<1>10. ASSUME ExecDisconnect(p) PROVE Typed'
  <2>1. SubscriptionsOK' /\ QueueOK' /\ state' \in States
        /\ {connectResult', disconnectResult'} \subseteq Outcomes \cup {"none"}
    BY <1>10, CompleteOK DEF ExecDisconnect, Failures
  <2> QED
    BY <1>10, <2>1, CommandsIssued DEF ExecDisconnect, Finish, Goto
<1>11. ASSUME ExecSubscribe(p) PROVE Typed'
  <2>1. cmd[p] \in Issued /\ cmd[p].topic \in Topics
    BY <1>11 DEF ExecSubscribe, Issued
  <2> QED
    BY <1>11, <2>1, CommandsIssued DEF ExecSubscribe, Finish, Goto
<1>12. ASSUME ExecPublish(p) PROVE Typed'
  <2>1. SubscriptionsOK' /\ QueueOK' /\ state' \in States
        /\ {connectResult', disconnectResult'} \subseteq Outcomes \cup {"none"}
    BY <1>12, CompleteOK DEF ExecPublish, Failures
  <2> QED
    BY <1>12, <2>1, CommandsIssued DEF ExecPublish, Finish, Goto
<1>13. ASSUME ExecFails(p) PROVE Typed'
  <2>1. PICK st \in Failures : Complete(cmd[p], st, queue) /\ Finish(p, st)
    BY <1>13 DEF ExecFails
  <2>2. /\ SubscriptionsOK' /\ QueueOK' /\ state' \in States
        /\ {connectResult', disconnectResult'} \subseteq Outcomes \cup {"none"}
    BY <2>1, CompleteOK DEF Failures
  <2>3. TasksOK'
    BY <2>1, CommandsIssued DEF Finish, Goto, Failures
  <2> QED
    BY <1>13, <2>2, <2>3 DEF ExecFails, NewSession
<1>14. ASSUME Tick(p) PROVE Typed'
  BY <1>14 DEF Tick, Goto
<1>15. ASSUME TickAck(p) PROVE Typed'
  <2>1. SubscriptionsOK' /\ QueueOK' /\ state' \in States
        /\ {connectResult', disconnectResult'} \subseteq Outcomes \cup {"none"}
    BY <1>15, CompleteOK DEF TickAck, Failures
  <2> QED
    BY <1>15, <2>1, CommandsIssued DEF TickAck, Goto
<1>16. ASSUME TickFails(p) PROVE Typed'
  <2>1. PICK st \in Failures : Goto(p, st)
    BY <1>16 DEF TickFails
  <2>2. TasksOK'
    BY <1>16, <2>1 DEF TickFails, Goto, Failures
  <2> QED
    BY <1>16, <2>2 DEF TickFails
<1>17. ASSUME Deliver(p) PROVE Typed'
  BY <1>17 DEF Deliver, Goto
<1>18. ASSUME DeliverDone(p) PROVE Typed'
  BY <1>18 DEF DeliverDone, Goto
<1>19. ASSUME LoopEnded(p) PROVE Typed'
  BY <1>19 DEF LoopEnded, Goto
<1>20. ASSUME Retire(p) PROVE Typed'
  BY <1>20 DEF Retire, Goto
<1>21. ASSUME Retry(p) PROVE Typed'
  BY <1>21 DEF Retry, Goto
<1>22. ASSUME Attempt(p) PROVE Typed'
  <2>1. gen + 1 \in Nat /\ Empty \in [state : {"EMPTY", "PENDING", "ACTIVE"}, token : Nat]
    BY DEF Empty
  <2>2. SubscriptionsOK'
    BY <1>22, <2>1 DEF Attempt
  <2> QED
    BY <1>22, <2>1, <2>2, CommandsIssued DEF Attempt, Goto
<1>23. ASSUME GiveUp(p) PROVE Typed'
  BY <1>23 DEF GiveUp, Goto
<1>24. ASSUME Reopen(p) PROVE Typed'
  BY <1>24 DEF Reopen, Goto
<1>25. ASSUME AttemptFails(p) PROVE Typed'
  BY <1>25, CommandsIssued DEF AttemptFails, Finish, Goto, NewSession
<1>26. ASSUME Reconnect(p) PROVE Typed'
  BY <1>26, CommandsIssued DEF Reconnect, Finish, Goto, NewSession
<1>27. ASSUME Leave(p) PROVE Typed'
  BY <1>27 DEF Leave, Goto
<1>28. ASSUME ApiLeave(p) PROVE Typed'
  BY <1>28 DEF ApiLeave, Goto
<1>29. ASSUME MarkStopped(p) PROVE Typed'
  BY <1>29 DEF MarkStopped, Goto
<1>30. ASSUME SignalIdle(p) PROVE Typed'
  BY <1>30 DEF SignalIdle, Goto
<1> QED
  BY <1>1, <1>2, <1>3, <1>4, <1>5, <1>6, <1>7, <1>8, <1>9, <1>10, <1>11, <1>12, <1>13,
     <1>14, <1>15, <1>16, <1>17, <1>18, <1>19, <1>20, <1>21, <1>22, <1>23, <1>24, <1>25,
     <1>26, <1>27, <1>28, <1>29, <1>30 DEF ProcessStep

(* A step of the service task keeps the types.                             *)
LEMMA ServiceTyped ==
  ASSUME Typed, ServiceStep
  PROVE  Typed'
<1> USE DEF Typed, ClientOK, SubscriptionsOK, QueueOK, NetworkOK, ServiceOK, TasksOK,
           Running, CommandLoop, Outcomes, States, client, subscriptions, network, attempt,
           service, tasks
<1>1. ASSUME StartProcess PROVE Typed'
  BY <1>1 DEF StartProcess, Goto
<1>2. ASSUME BeginConnect PROVE Typed'
  BY <1>2 DEF BeginConnect
<1>3. ASSUME CloneConfig PROVE Typed'
  BY <1>3 DEF CloneConfig
<1>4. ASSUME InstallConfig PROVE Typed'
  BY <1>4 DEF InstallConfig, StillConnecting
<1>5. ASSUME ReleaseReservation PROVE Typed'
  BY <1>5 DEF ReleaseReservation, StillConnecting
<1>6. ASSUME OpenTransport PROVE Typed'
  BY <1>6 DEF OpenTransport
<1>7. ASSUME EnqueueConnect PROVE Typed'
  <2>1. QueueOK'
    <3>1. CASE Room
      <4>1. queue' = Append(queue, Command("CONNECT", svcGen, NoTopic, 0))
        BY <1>7, <3>1 DEF EnqueueConnect
      <4>2. Command("CONNECT", svcGen, NoTopic, 0) \in Issued
        BY CommandsIssued
      <4> QED BY <3>1, <4>1, <4>2, AppendOK
    <3>2. CASE ~Room
      BY <1>7, <3>2 DEF EnqueueConnect
    <3> QED BY <3>1, <3>2
  <2>2. ClientOK' /\ SubscriptionsOK' /\ NetworkOK' /\ ServiceOK' /\ TasksOK'
    BY <1>7 DEF EnqueueConnect
  <2> QED BY <2>1, <2>2
<1>8. ASSUME AwaitConnect PROVE Typed'
  BY <1>8 DEF AwaitConnect
<1>9. ASSUME Cancel PROVE Typed'
  BY <1>9 DEF Cancel
<1>10. ASSUME Claim PROVE Typed'
  BY <1>10 DEF Claim, AfterFailure
<1>11. ASSUME CloseTransport PROVE Typed'
  BY <1>11 DEF CloseTransport, AfterFailure
<1>12. ASSUME NEW t \in Topics, Subscribe(t) PROVE Typed'
  <2>1. CASE state = "CONNECTED" /\ subs[t].state = "EMPTY" /\ Room
    <3>1. token + 1 \in Nat /\ Reserve(t)
      BY <1>12, <2>1 DEF Subscribe
    <3>2. SubscriptionsOK'
      BY <1>12, <2>1, <3>1 DEF Subscribe, Reserve
    <3>3. QueueOK'
      <4>1. queue' = Append(queue, SubscribeCommand(t, token + 1))
        BY <1>12, <2>1 DEF Subscribe
      <4>2. SubscribeCommand(t, token + 1) \in Issued
        BY <3>1, CommandsIssued
      <4> QED
        BY <2>1, <4>1, <4>2, AppendOK
    <3> QED
      BY <1>12, <2>1, <3>2, <3>3 DEF Subscribe
  <2>2. CASE ~(state = "CONNECTED" /\ subs[t].state = "EMPTY" /\ Room)
    BY <1>12, <2>2 DEF Subscribe
  <2> QED
    BY <2>1, <2>2
<1>13. ASSUME Connected PROVE Typed'
  BY <1>13 DEF Connected, Return
<1>14. ASSUME Publish PROVE Typed'
  BY <1>14, CommandsIssued, AppendOK DEF Publish
<1>15. ASSUME StartDisconnect PROVE Typed'
  BY <1>15 DEF StartDisconnect
<1>16. ASSUME Disconnect PROVE Typed'
  <2>1. CASE state = "CONNECTED" /\ Room
    <3>1. QueueOK'
      BY <1>16, <2>1, CommandsIssued, AppendOK DEF Disconnect
    <3> QED
      BY <1>16, <2>1, <3>1 DEF Disconnect
  <2>2. CASE ~(state = "CONNECTED" /\ Room)
    BY <1>16, <2>2 DEF Disconnect, AfterFailure
  <2> QED
    BY <2>1, <2>2
<1>17. ASSUME AwaitDisconnect PROVE Typed'
  BY <1>17 DEF AwaitDisconnect
<1>18. ASSUME StopProcess PROVE Typed'
  BY <1>18 DEF StopProcess
<1>19. ASSUME TerminateProcess PROVE Typed'
  BY <1>19, CommandsIssued, AppendOK DEF TerminateProcess
<1>20. ASSUME Join PROVE Typed'
  <2>1. PICK ok \in BOOLEAN : AfterJoin(ok)
    BY <1>20, Zenon DEF Join
  <2>2. /\ svc' \in {"idle", "deinit"} /\ op' \in {op, "none"} /\ svcGen' \in {svcGen, 0}
        /\ prev' \in {prev, "INITIALIZED"} /\ handle' \in {NoTask, handle}
        /\ connectResult' \in {connectResult, "none"}
        /\ disconnectResult' \in {disconnectResult, "none"}
    BY <2>1 DEF AfterJoin, Return
  <2>3. UNCHANGED <<life, state, gen, active, running, stop, subscriptions, queue, network,
                  todo, tasks>>
    BY <2>1 DEF AfterJoin
  <2> QED
    BY <2>2, <2>3
<1>21. ASSUME JoinTimeout PROVE Typed'
  <2>1. PICK ok \in BOOLEAN : AfterJoin(ok)
    BY <1>21, Zenon DEF JoinTimeout
  <2>2. /\ svc' \in {"idle", "deinit"} /\ op' \in {op, "none"} /\ svcGen' \in {svcGen, 0}
        /\ prev' \in {prev, "INITIALIZED"} /\ handle' \in {NoTask, handle}
        /\ connectResult' \in {connectResult, "none"}
        /\ disconnectResult' \in {disconnectResult, "none"}
    BY <2>1 DEF AfterJoin, Return
  <2>3. UNCHANGED <<life, state, gen, active, running, stop, subscriptions, queue, network,
                  todo, tasks>>
    BY <2>1 DEF AfterJoin
  <2> QED
    BY <2>2, <2>3
<1>22. ASSUME StartDeinit PROVE Typed'
  BY <1>22 DEF StartDeinit
<1>23. ASSUME CloseClient PROVE Typed'
  BY <1>23 DEF CloseClient
<1>24. ASSUME StopRunning PROVE Typed'
  <2>1. queue' = queue \/ (Room /\ queue' = Append(queue, Terminate))
    BY <1>24 DEF StopRunning
  <2>2. QueueOK'
    BY <2>1, CommandsIssued, AppendOK
  <2> QED
    BY <1>24, <2>2 DEF StopRunning
<1>25. ASSUME AwaitStopped PROVE Typed'
  BY <1>25 DEF AwaitStopped
<1>26. ASSUME CancelAll PROVE Typed'
  <2>1. queue' = queue \/ queue' = <<>>
    BY <1>26 DEF CancelAll
  <2>2. <<>> \in Seq(Issued) /\ Len(<<>>) = 0 /\ 0 <= QueueCap
    BY MqttAssumption
  <2>3. QueueOK'
    BY <2>1, <2>2
  <2> QED
    BY <1>26, <2>3 DEF CancelAll
<1>27. ASSUME Free PROVE Typed'
  BY <1>27 DEF Free, LifecycleIdle
<1> QED
  BY <1>1, <1>2, <1>3, <1>4, <1>5, <1>6, <1>7, <1>8, <1>9, <1>10, <1>11, <1>12, <1>13,
     <1>14, <1>15, <1>16, <1>17, <1>18, <1>19, <1>20, <1>21, <1>22, <1>23, <1>24, <1>25,
     <1>26, <1>27 DEF ServiceStep

(* What the client needs beyond its types.  A task that was created but    *)
(* does not run yet is the one the service task has the handle of, and     *)
(* does not outlive the connect that created it; the provider's deinit     *)
(* reaches the client without a handle.                                    *)
Deiniting == {"deinit", "stopRunning", "awaitStopped", "cancelAll", "awaitIdle"}
Reserved == {"clone", "install", "unreserve", "open", "enqueue"}
Connecting == Reserved \cup {"begin", "await", "cancel", "claim", "close", "stop",
                             "terminate", "join"}
Unborn == \E p \in Tasks : pc[p] = "created"
HandleInv ==
  /\ \A p \in Tasks : pc[p] = "created" => handle = p
  /\ Unborn => op = "connect" /\ svc \in Connecting
  /\ op = "connect" => handle # NoTask /\ life = "OPEN" /\ svc # "idle"
  /\ svc \in Reserved \cup {"begin", "await"} => op = "connect"
  /\ svc \in Deiniting => op = "deinit" /\ handle = NoTask
  /\ svc \in Deiniting \ {"deinit"} => life # "OPEN"
  /\ op = "deinit" => ~up
  /\ life = "FREED" => svc = "idle" /\ ~up

(* Why a connect does not succeed before its own task runs.  Only a client *)
(* that is INITIALIZED is connected while an older task, one whose join    *)
(* has timed out, still runs; no CONNECT was ever in its queue, so the     *)
(* TERMINATE of that older task comes before the new CONNECT.              *)
Waits == {"loop", "release", "pop", "tick"}
Calm(q) ==
  \/ pc[q] \in Waits \cup {"ok", "retire", "leave", "mark"}
  \/ pc[q] = "exec" /\ cmd[q].type = "TERMINATE"
StopFirst == queue # <<>> /\ Head(queue).type = "TERMINATE"
OnlyStops == \A i \in DOMAIN queue : queue[i].type = "TERMINATE"
Leaving(q) ==
  /\ Calm(q)
  /\ pc[q] \in Waits => StopFirst \/ (pc[q] = "loop" /\ stop)
AllCalm == \A q \in Tasks : pc[q] \in Running => Calm(q)
AllLeave == \A q \in Tasks : pc[q] \in Running => Leaving(q)
Fresh == state = "INITIALIZED" \/ (svc \in Reserved /\ prev = "INITIALIZED")
FreshInv ==
  /\ Fresh => ~conn /\ OnlyStops /\ AllCalm
  /\ op = "connect" /\ state = "INITIALIZED" =>
       svc \in {"begin", "unreserve", "stop", "terminate", "join"}
  /\ life = "OPEN" /\ state = "INITIALIZED" =>
       /\ (op = "connect" => svc = "join" \/ Unborn) => AllLeave
       /\ svc \in {"terminate", "join"} /\ Unborn => stop
  /\ Unborn /\ svc \in Reserved \cup {"await"} =>
       AllLeave /\ (running => ~conn) /\ connectResult # "ok"

(* A task still to post lifecycle_done_sem was the last one inside.        *)
SignalInv ==
  \A p \in Tasks : pc[p] = "signal" =>
    life # "OPEN" /\ \A q \in Tasks \ {p} : ~InApi(q) /\ pc[q] # "signal"

(* A CONNECT is executed only while the client is not connected.  A        *)
(* session that is kept has every topic that counts as subscribed; one     *)
(* that ends with its connection has them while the client is connected.   *)
Settled == {"CONNECTED", "DISCONNECTING"}
Delivered == \A t \in Topics \ unplayed : subs[t].state = "ACTIVE" => t \in broker
SessionInv ==
  /\ \A p \in Tasks : pc[p] = "exec" /\ cmd[p].type = "CONNECT" => state \notin Settled
  /\ ~Replaying /\ session # "unheard" /\ (session = "clean" => state \in Settled) => Delivered

(* What a failed connect goes back to.                                     *)
PrevInv == prev \in {"INITIALIZED", "DISCONNECTED"}

(* What a task on its way out has left.                                    *)
MarkInv == \A p \in Tasks : life = "OPEN" /\ pc[p] = "mark" => state = "DISCONNECTED"

(* A step of a process task other than its entry and its way out stays     *)
(* inside actrust_mqtt_process, and leaves the life cycle and the service  *)
(* task alone.                                                             *)
Inner(p) ==
  /\ pc[p] \in Running /\ \E l \in Running : pc' = [pc EXCEPT ![p] = l]
  /\ pc[p] # "mark" /\ (pc'[p] = "mark" => Leave(p))
  /\ state' = "INITIALIZED" => state = "INITIALIZED"
  /\ pc'[p] = "exec" => PopValid(p)
  /\ pc'[p] \in {"replay", "resume"} => pc[p] \in {"exec", "reconnect"}
  /\ UNCHANGED <<life, running, stop, service>>

(* A completion never takes the client back to where it began.             *)
LEMMA CompleteForward ==
  ASSUME NEW c, NEW st, NEW q, Complete(c, st, q)
  PROVE  state' = "INITIALIZED" => state = "INITIALIZED"
BY DEF Complete

(* Every step of a process task is such a step, its entry or its way out.  *)
LEMMA StepsInside ==
  ASSUME Typed, NEW p \in Tasks, ProcessStep(p)
  PROVE  Inner(p) \/ Enter(p) \/ MarkStopped(p) \/ ApiLeave(p) \/ SignalIdle(p)
<1> USE DEF Typed, TasksOK, Running, CommandLoop, Outcomes, Inner,
           client, subscriptions, network, attempt, service, tasks
<1>1. ASSUME Loop(p) PROVE Inner(p)
  BY <1>1 DEF Loop, Goto
<1>2. ASSUME ReleaseClaim(p) PROVE Inner(p)
  BY <1>2 DEF ReleaseClaim, Goto
<1>3. ASSUME PopEmpty(p) PROVE Inner(p)
  BY <1>3 DEF PopEmpty, Goto
<1>4. ASSUME PopValid(p) PROVE Inner(p)
  BY <1>4 DEF PopValid, Goto
<1>5. ASSUME PopStale(p) PROVE Inner(p)
  <2>1. pc' = [pc EXCEPT ![p] = pc[p]]
    BY <1>5 DEF PopStale
  <2> QED
    BY <1>5, <2>1, CompleteForward DEF PopStale
<1>6. ASSUME ExecTerminate(p) PROVE Inner(p)
  BY <1>6 DEF ExecTerminate, Finish, Goto
<1>7. ASSUME ExecConnect(p) PROVE Inner(p)
  BY <1>7, CompleteForward DEF ExecConnect, Finish, Goto, NewSession
<1>8. ASSUME ReplaySubscriptions(p) PROVE Inner(p)
  BY <1>8 DEF ReplaySubscriptions, Goto
<1>9. ASSUME ExecDisconnect(p) PROVE Inner(p)
  BY <1>9, CompleteForward DEF ExecDisconnect, Finish, Goto
<1>10. ASSUME ExecSubscribe(p) PROVE Inner(p)
  BY <1>10 DEF ExecSubscribe, Finish, Goto
<1>11. ASSUME ExecPublish(p) PROVE Inner(p)
  BY <1>11, CompleteForward DEF ExecPublish, Finish, Goto
<1>12. ASSUME ExecFails(p) PROVE Inner(p)
  <2>1. PICK st \in Failures : Finish(p, st)
    BY <1>12 DEF ExecFails
  <2> QED
    BY <1>12, <2>1, CompleteForward DEF ExecFails, Finish, Goto, NewSession, Failures
<1>13. ASSUME Tick(p) PROVE Inner(p)
  BY <1>13 DEF Tick, Goto
<1>14. ASSUME TickAck(p) PROVE Inner(p)
  BY <1>14, CompleteForward DEF TickAck, Goto
<1>15. ASSUME TickFails(p) PROVE Inner(p)
  <2>1. PICK st \in Failures : Goto(p, st)
    BY <1>15 DEF TickFails
  <2> QED
    BY <1>15, <2>1 DEF TickFails, Goto, Failures
<1>16. ASSUME Deliver(p) PROVE Inner(p)
  BY <1>16 DEF Deliver, Goto
<1>17. ASSUME DeliverDone(p) PROVE Inner(p)
  BY <1>17 DEF DeliverDone, Goto
<1>18. ASSUME LoopEnded(p) PROVE Inner(p)
  BY <1>18 DEF LoopEnded, Goto
<1>19. ASSUME Retire(p) PROVE Inner(p)
  BY <1>19 DEF Retire, Goto
<1>20. ASSUME Retry(p) PROVE Inner(p)
  BY <1>20 DEF Retry, Goto
<1>21. ASSUME Attempt(p) PROVE Inner(p)
  BY <1>21 DEF Attempt, Goto, Command
<1>22. ASSUME GiveUp(p) PROVE Inner(p)
  BY <1>22 DEF GiveUp, Goto
<1>23. ASSUME Reopen(p) PROVE Inner(p)
  BY <1>23 DEF Reopen, Goto
<1>24. ASSUME AttemptFails(p) PROVE Inner(p)
  BY <1>24 DEF AttemptFails, Finish, Goto, NewSession
<1>25. ASSUME Reconnect(p) PROVE Inner(p)
  BY <1>25 DEF Reconnect, Finish, Goto, NewSession
<1>26. ASSUME Leave(p) PROVE Inner(p)
  BY <1>26 DEF Leave, Goto
<1> HIDE DEF Inner
<1> QED
  BY <1>1, <1>2, <1>3, <1>4, <1>5, <1>6, <1>7, <1>8, <1>9, <1>10, <1>11, <1>12, <1>13,
     <1>14, <1>15, <1>16, <1>17, <1>18, <1>19, <1>20, <1>21, <1>22, <1>23, <1>24, <1>25,
     <1>26 DEF ProcessStep

(* What a step of the service task leaves alone: it connects no client,    *)
(* starts no loop and confirms no subscription.                            *)
ServiceFrame ==
  /\ UNCHANGED <<running, cmd, conn, broker, session, unplayed>>
  /\ stop' = stop \/ stop' = TRUE
  /\ \/ svc = "cancelAll" /\ queue' = <<>>
     \/ queue' = queue
     \/ Room /\ \E c \in Issued : queue' = Append(queue, c)
  /\ \A p \in Tasks : pc'[p] = pc[p] \/ (pc[p] = "exit" /\ pc'[p] = "created")
  /\ state' \in Settled => state \in Settled
  /\ state' = "CONNECTED" => state = "CONNECTED"
  /\ running /\ state = "DISCONNECTED" => state' = "DISCONNECTED"
  /\ life' = "OPEN" => life = "OPEN"
  /\ \A t \in Topics : subs'[t].state = "ACTIVE" => subs[t].state = "ACTIVE"
  /\ PrevInv'

(* Every step of the service task is such a step.                          *)
LEMMA ServiceFrames ==
  ASSUME Typed, PrevInv, ServiceStep
  PROVE  ServiceFrame
<1> USE DEF Typed, TasksOK, SubscriptionsOK, PrevInv, ServiceFrame, Settled, client,
           subscriptions, network, attempt, service, tasks
<1>1. ASSUME StartProcess PROVE ServiceFrame
  BY <1>1 DEF StartProcess, Goto
<1>2. ASSUME BeginConnect PROVE ServiceFrame
  BY <1>2 DEF BeginConnect
<1>3. ASSUME CloneConfig PROVE ServiceFrame
  BY <1>3 DEF CloneConfig
<1>4. ASSUME InstallConfig PROVE ServiceFrame
  BY <1>4 DEF InstallConfig, StillConnecting
<1>5. ASSUME ReleaseReservation PROVE ServiceFrame
  BY <1>5 DEF ReleaseReservation, StillConnecting
<1>6. ASSUME OpenTransport PROVE ServiceFrame
  BY <1>6 DEF OpenTransport
<1>7. ASSUME EnqueueConnect PROVE ServiceFrame
  BY <1>7, CommandsIssued DEF EnqueueConnect, ServiceOK
<1>8. ASSUME AwaitConnect PROVE ServiceFrame
  BY <1>8 DEF AwaitConnect
<1>9. ASSUME Cancel PROVE ServiceFrame
  BY <1>9 DEF Cancel
<1>10. ASSUME Claim PROVE ServiceFrame
  BY <1>10 DEF Claim, AfterFailure
<1>11. ASSUME CloseTransport PROVE ServiceFrame
  BY <1>11 DEF CloseTransport, AfterFailure
<1>12. ASSUME NEW t \in Topics, Subscribe(t) PROVE ServiceFrame
  <2>1. token + 1 \in Nat
    OBVIOUS
  <2>2. SubscribeCommand(t, token + 1) \in Issued
    BY <2>1, CommandsIssued
  <2>3. CASE state = "CONNECTED" /\ subs[t].state = "EMPTY" /\ Room
    <3>1. \A u \in Topics : subs'[u].state = "ACTIVE" => subs[u].state = "ACTIVE"
      BY <1>12, <2>3 DEF Subscribe, Reserve
    <3>2. Room /\ \E c \in Issued : queue' = Append(queue, c)
      BY <1>12, <2>2, <2>3 DEF Subscribe
    <3>3. UNCHANGED <<client, network, attempt, tasks, unplayed>>
      BY <1>12, <2>3 DEF Subscribe
    <3> QED BY <3>1, <3>2, <3>3
  <2>4. CASE ~(state = "CONNECTED" /\ subs[t].state = "EMPTY" /\ Room)
    BY <1>12, <2>4 DEF Subscribe
  <2> QED
    BY <2>3, <2>4
<1>13. ASSUME Connected PROVE ServiceFrame
  BY <1>13 DEF Connected, Return
<1>14. ASSUME Publish PROVE ServiceFrame
  BY <1>14, CommandsIssued DEF Publish
<1>15. ASSUME StartDisconnect PROVE ServiceFrame
  BY <1>15 DEF StartDisconnect
<1>16. ASSUME Disconnect PROVE ServiceFrame
  BY <1>16, CommandsIssued DEF Disconnect
<1>17. ASSUME AwaitDisconnect PROVE ServiceFrame
  BY <1>17 DEF AwaitDisconnect
<1>18. ASSUME StopProcess PROVE ServiceFrame
  BY <1>18 DEF StopProcess
<1>19. ASSUME TerminateProcess PROVE ServiceFrame
  BY <1>19, CommandsIssued DEF TerminateProcess
<1>20. ASSUME Join PROVE ServiceFrame
  <2>1. UNCHANGED <<life, state, gen, active, running, stop, subscriptions, queue, network,
                  todo, tasks>>
    BY <1>20 DEF Join, AfterJoin
  <2>2. prev' \in {prev, "INITIALIZED"}
    BY <1>20 DEF Join, AfterJoin, Return
  <2> QED
    BY <2>1, <2>2
<1>21. ASSUME JoinTimeout PROVE ServiceFrame
  <2>1. UNCHANGED <<life, state, gen, active, running, stop, subscriptions, queue, network,
                  todo, tasks>>
    BY <1>21 DEF JoinTimeout, AfterJoin
  <2>2. prev' \in {prev, "INITIALIZED"}
    BY <1>21 DEF JoinTimeout, AfterJoin, Return
  <2> QED
    BY <2>1, <2>2
<1>22. ASSUME StartDeinit PROVE ServiceFrame
  BY <1>22 DEF StartDeinit
<1>23. ASSUME CloseClient PROVE ServiceFrame
  BY <1>23 DEF CloseClient
<1>24. ASSUME StopRunning PROVE ServiceFrame
  BY <1>24, CommandsIssued DEF StopRunning
<1>25. ASSUME AwaitStopped PROVE ServiceFrame
  BY <1>25 DEF AwaitStopped
<1>26. ASSUME CancelAll PROVE ServiceFrame
  BY <1>26 DEF CancelAll
<1>27. ASSUME Free PROVE ServiceFrame
  BY <1>27 DEF Free, LifecycleIdle
<1> QED
  BY <1>1, <1>2, <1>3, <1>4, <1>5, <1>6, <1>7, <1>8, <1>9, <1>10, <1>11, <1>12, <1>13,
     <1>14, <1>15, <1>16, <1>17, <1>18, <1>19, <1>20, <1>21, <1>22, <1>23, <1>24, <1>25,
     <1>26, <1>27 DEF ServiceStep

(* One loop at a time: whoever enters found process_running clear.         *)
LEMMA LoopNext ==
  ASSUME MqttTyped, PrevInv, SingleLoop, [Next]_vars
  PROVE  SingleLoop'
<1> USE DEF MqttTyped, Typed, TasksOK
<1>1. ASSUME ServiceStep PROVE SingleLoop'
  <2>1. /\ running' = running
        /\ \A p \in Tasks : pc'[p] = pc[p] \/ (pc[p] = "exit" /\ pc'[p] = "created")
    BY <1>1, ServiceFrames DEF ServiceFrame
  <2>2. \A p \in Tasks : pc'[p] \in Running <=> pc[p] \in Running
    BY <2>1 DEF Running, CommandLoop, Outcomes
  <2> QED
    BY <2>1, <2>2 DEF SingleLoop
<1>2. ASSUME NEW p \in Tasks, ProcessStep(p) PROVE SingleLoop'
  <2>1. CASE Inner(p)
    <3>1. PICK l \in Running : pc' = [pc EXCEPT ![p] = l]
      BY <2>1 DEF Inner
    <3>2. \A q \in Tasks : pc'[q] \in Running <=> pc[q] \in Running
      BY <2>1, <3>1 DEF Inner
    <3> QED
      BY <2>1, <3>2 DEF SingleLoop, Inner
  <2>2. CASE Enter(p)
    <3>1. CASE life = "OPEN" /\ ~running
      <4>1. pc' = [pc EXCEPT ![p] = "loop"] /\ running'
        BY <2>2, <3>1 DEF Enter, Goto
      <4>2. \A q \in Tasks : pc[q] \notin Running
        BY <3>1 DEF SingleLoop
      <4>3. \A q \in Tasks : pc'[q] \in Running <=> q = p
        BY <4>1, <4>2 DEF Running
      <4> QED
        BY <4>1, <4>3 DEF SingleLoop
    <3>2. CASE ~(life = "OPEN" /\ ~running)
      <4>1. pc' = [pc EXCEPT ![p] = "exit"] /\ running' = running /\ pc[p] = "created"
        BY <2>2, <3>2 DEF Enter, Goto
      <4>2. \A q \in Tasks : pc'[q] \in Running <=> pc[q] \in Running
        BY <4>1 DEF Running, CommandLoop, Outcomes
      <4> QED
        BY <4>1, <4>2 DEF SingleLoop
    <3> QED
      BY <3>1, <3>2
  <2>3. CASE MarkStopped(p)
    <3>1. pc' = [pc EXCEPT ![p] = "stopped"] /\ ~running' /\ pc[p] = "mark"
      BY <2>3 DEF MarkStopped, Goto
    <3>2. \A q \in Tasks : pc'[q] \notin Running
      BY <3>1 DEF SingleLoop, Running, CommandLoop, Outcomes
    <3> QED
      BY <3>1, <3>2 DEF SingleLoop
  <2>4. CASE ApiLeave(p) \/ SignalIdle(p)
    <3>1. /\ \E l \in {"signal", "exit"} : pc' = [pc EXCEPT ![p] = l]
          /\ running' = running /\ pc[p] \in {"stopped", "signal"}
      BY <2>4 DEF ApiLeave, SignalIdle, Goto, client
    <3>2. \A q \in Tasks : pc'[q] \in Running <=> pc[q] \in Running
      BY <3>1 DEF Running, CommandLoop, Outcomes
    <3> QED
      BY <3>1, <3>2 DEF SingleLoop
  <2> QED
    BY <1>2, <2>1, <2>2, <2>3, <2>4, StepsInside
<1>3. ASSUME UNCHANGED vars PROVE SingleLoop'
  BY <1>3 DEF vars, client, tasks, SingleLoop
<1> QED
  BY <1>1, <1>2, <1>3 DEF Next

(* CONNECTED is reached inside the loop only, and left with it.            *)
LEMMA ServedNext ==
  ASSUME MqttTyped, PrevInv, SingleLoop, MarkInv, ConnectedIsServed, [Next]_vars
  PROVE  PrevInv' /\ MarkInv' /\ ConnectedIsServed'
<1> USE DEF MqttTyped, Typed, TasksOK
<1>1. ASSUME ServiceStep PROVE PrevInv' /\ MarkInv' /\ ConnectedIsServed'
  <2>1. ServiceFrame
    BY <1>1, ServiceFrames
  <2>2. \A p \in Tasks : pc'[p] = "mark" => pc[p] = "mark" /\ running
    BY <2>1 DEF ServiceFrame, SingleLoop, Running
  <2> QED
    BY <2>1, <2>2 DEF ServiceFrame, MarkInv, ConnectedIsServed
<1>2. ASSUME NEW p \in Tasks, ProcessStep(p) PROVE PrevInv' /\ MarkInv' /\ ConnectedIsServed'
  <2>1. CASE Inner(p)
    <3>1. PrevInv' /\ ConnectedIsServed'
      BY <2>1 DEF Inner, SingleLoop, ConnectedIsServed, PrevInv, service, attempt
    <3>2. ASSUME NEW q \in Tasks, life' = "OPEN", pc'[q] = "mark" PROVE state' = "DISCONNECTED"
      <4>1. q = p
        BY <2>1, <3>2 DEF Inner, SingleLoop, Running
      <4> QED
        BY <2>1, <3>2, <4>1 DEF Inner, Leave
    <3> QED
      BY <3>1, <3>2 DEF MarkInv
  <2>2. CASE Enter(p)
    BY <2>2 DEF Enter, Goto, ConnectedIsServed, PrevInv, MarkInv, service, attempt
  <2>3. CASE MarkStopped(p)
    BY <2>3 DEF MarkStopped, Goto, ConnectedIsServed, PrevInv, MarkInv, service, attempt
  <2>4. CASE ApiLeave(p) \/ SignalIdle(p)
    BY <2>4 DEF ApiLeave, SignalIdle, Goto, ConnectedIsServed, PrevInv, MarkInv, service,
       attempt, client
  <2> QED
    BY <1>2, <2>1, <2>2, <2>3, <2>4, StepsInside
<1>3. ASSUME UNCHANGED vars PROVE PrevInv' /\ MarkInv' /\ ConnectedIsServed'
  BY <1>3 DEF vars, client, service, attempt, tasks, ConnectedIsServed, PrevInv, MarkInv
<1> QED
  BY <1>1, <1>2, <1>3 DEF Next

(* The service task keeps the relation of handle and task.                 *)
LEMMA ServiceHandles ==
  ASSUME MqttTyped, PrevInv, HandleInv, FreshInv, ServiceStep
  PROVE  HandleInv'
<1> USE DEF MqttTyped, Typed, TasksOK, HandleInv, Deiniting, Reserved, Connecting, client,
           subscriptions, network, attempt, service, tasks
<1>0. pc' = pc => (Unborn' <=> Unborn)
  BY DEF Unborn
<1>1. ASSUME StartProcess PROVE HandleInv'
  <2>1. PICK p \in Tasks : Goto(p, "created") /\ handle' = p
    BY <1>1 DEF StartProcess
  <2>2. \A q \in Tasks : pc[q] # "created"
    BY <1>1 DEF StartProcess, Unborn
  <2>3. \A q \in Tasks : pc'[q] = "created" => handle' = q
    BY <2>1, <2>2 DEF Goto
  <2> QED
    BY <1>1, <2>1, <2>3, MqttAssumption DEF StartProcess
<1>2. ASSUME BeginConnect PROVE HandleInv'
  BY <1>2, <1>0 DEF BeginConnect
<1>3. ASSUME CloneConfig PROVE HandleInv'
  BY <1>3, <1>0 DEF CloneConfig
<1>4. ASSUME InstallConfig PROVE HandleInv'
  BY <1>4, <1>0 DEF InstallConfig, StillConnecting
<1>5. ASSUME ReleaseReservation PROVE HandleInv'
  BY <1>5, <1>0 DEF ReleaseReservation, StillConnecting
<1>6. ASSUME OpenTransport PROVE HandleInv'
  BY <1>6, <1>0 DEF OpenTransport
<1>7. ASSUME EnqueueConnect PROVE HandleInv'
  BY <1>7, <1>0 DEF EnqueueConnect
<1>8. ASSUME AwaitConnect PROVE HandleInv'
  BY <1>8, <1>0 DEF AwaitConnect, FreshInv
<1>9. ASSUME Cancel PROVE HandleInv'
  BY <1>9, <1>0 DEF Cancel
<1>10. ASSUME Claim PROVE HandleInv'
  BY <1>10, <1>0 DEF Claim, AfterFailure
<1>11. ASSUME CloseTransport PROVE HandleInv'
  BY <1>11, <1>0 DEF CloseTransport, AfterFailure
<1>12. ASSUME NEW t \in Topics, Subscribe(t) PROVE HandleInv'
  BY <1>12, <1>0 DEF Subscribe
<1>13. ASSUME Connected PROVE HandleInv'
  BY <1>13, <1>0 DEF Connected, Return
<1>14. ASSUME Publish PROVE HandleInv'
  BY <1>14, <1>0 DEF Publish
<1>15. ASSUME StartDisconnect PROVE HandleInv'
  BY <1>15, <1>0 DEF StartDisconnect
<1>16. ASSUME Disconnect PROVE HandleInv'
  BY <1>16, <1>0 DEF Disconnect, AfterFailure
<1>17. ASSUME AwaitDisconnect PROVE HandleInv'
  BY <1>17, <1>0 DEF AwaitDisconnect
<1>18. ASSUME StopProcess PROVE HandleInv'
  BY <1>18, <1>0 DEF StopProcess
<1>19. ASSUME TerminateProcess PROVE HandleInv'
  BY <1>19, <1>0 DEF TerminateProcess
<1>20. ASSUME Join PROVE HandleInv'
  <2>1. \A p \in Tasks : pc[p] # "created"
    BY <1>20, MqttAssumption DEF Join, InApi, Running, CommandLoop, Outcomes
  <2>2. pc' = pc /\ life' = life /\ svc = "join"
    BY <1>20 DEF Join, AfterJoin
  <2>3. \/ svc' = "idle" /\ op' = "none"
        \/ svc' = "deinit" /\ op' = "deinit" /\ op' = op /\ up' = up /\ handle' = NoTask
    BY <1>20 DEF Join, AfterJoin, Return
  <2>4. life # "FREED" /\ ~Unborn'
    BY <2>1, <2>2 DEF Unborn
  <2> QED
    BY <2>1, <2>2, <2>3, <2>4
<1>21. ASSUME JoinTimeout PROVE HandleInv'
  <2>1. \A p \in Tasks : pc[p] # "created"
    BY <1>21, MqttAssumption DEF JoinTimeout, InApi, Running, CommandLoop, Outcomes
  <2>2. pc' = pc /\ life' = life /\ svc = "join"
    BY <1>21 DEF JoinTimeout, AfterJoin
  <2>3. \/ svc' = "idle" /\ op' = "none"
        \/ svc' = "deinit" /\ op' = "deinit" /\ op' = op /\ up' = up /\ handle' = NoTask
    BY <1>21 DEF JoinTimeout, AfterJoin, Return
  <2>4. life # "FREED" /\ ~Unborn'
    BY <2>1, <2>2 DEF Unborn
  <2> QED
    BY <2>1, <2>2, <2>3, <2>4
<1>22. ASSUME StartDeinit PROVE HandleInv'
  BY <1>22, <1>0 DEF StartDeinit
<1>23. ASSUME CloseClient PROVE HandleInv'
  BY <1>23, <1>0 DEF CloseClient
<1>24. ASSUME StopRunning PROVE HandleInv'
  BY <1>24, <1>0 DEF StopRunning
<1>25. ASSUME AwaitStopped PROVE HandleInv'
  BY <1>25, <1>0 DEF AwaitStopped
<1>26. ASSUME CancelAll PROVE HandleInv'
  BY <1>26, <1>0 DEF CancelAll
<1>27. ASSUME Free PROVE HandleInv'
  BY <1>27, <1>0 DEF Free
<1> QED
  BY <1>1, <1>2, <1>3, <1>4, <1>5, <1>6, <1>7, <1>8, <1>9, <1>10, <1>11, <1>12, <1>13,
     <1>14, <1>15, <1>16, <1>17, <1>18, <1>19, <1>20, <1>21, <1>22, <1>23, <1>24, <1>25,
     <1>26, <1>27 DEF ServiceStep

(* A step of a process task leaves the service task alone.                 *)
LEMMA ProcessFrame ==
  ASSUME Typed, NEW p \in Tasks, ProcessStep(p)
  PROVE  /\ UNCHANGED <<life, service>>
         /\ \A q \in Tasks \ {p} : pc'[q] = pc[q]
         /\ pc'[p] # "created"
<1>1. CASE Inner(p)
  BY <1>1 DEF Inner, Running, CommandLoop, Outcomes, Typed, TasksOK
<1>2. CASE Enter(p) \/ MarkStopped(p) \/ ApiLeave(p) \/ SignalIdle(p)
  BY <1>2 DEF Enter, MarkStopped, ApiLeave, SignalIdle, Goto, client, Typed, TasksOK
<1> QED
  BY <1>1, <1>2, StepsInside

(* And so does a process task, which stops being merely created.           *)
LEMMA HandleNext ==
  ASSUME MqttTyped, PrevInv, HandleInv, FreshInv, [Next]_vars
  PROVE  HandleInv'
<1>1. ASSUME NEW p \in Tasks, ProcessStep(p) PROVE HandleInv'
  <2>1. /\ UNCHANGED <<life, service>>
        /\ \A q \in Tasks : pc'[q] = "created" => pc[q] = "created"
    BY <1>1, ProcessFrame DEF MqttTyped
  <2>2. Unborn' => Unborn
    BY <2>1 DEF Unborn
  <2> QED
    BY <2>1, <2>2 DEF HandleInv, service
<1>2. ASSUME UNCHANGED vars PROVE HandleInv'
  <2>1. Unborn' = Unborn
    BY <1>2 DEF vars, tasks, Unborn
  <2> QED
    BY <1>2, <2>1 DEF vars, client, service, tasks, HandleInv
<1> QED
  BY <1>1, <1>2, ServiceHandles DEF Next

(* The queue: a TERMINATE at its head stays there while others are         *)
(* appended, and one appended to nothing else is at its head.              *)
LEMMA StopsQueued ==
  ASSUME Typed, NEW c \in Issued
  PROVE  /\ StopFirst /\ queue' = Append(queue, c) => StopFirst'
         /\ OnlyStops /\ c.type = "TERMINATE" /\ queue' = Append(queue, c) =>
              OnlyStops' /\ StopFirst'
         /\ OnlyStops /\ queue # <<>> => StopFirst /\ (queue' = Tail(queue) => OnlyStops')
<1> USE DEF Typed, QueueOK
<1>1. ASSUME queue' = Append(queue, c)
      PROVE  /\ queue' # <<>> /\ Len(queue') = Len(queue) + 1 /\ DOMAIN queue' = 1..Len(queue')
             /\ Head(queue') = queue'[1] /\ queue'[Len(queue) + 1] = c
             /\ \A i \in 1..Len(queue) : queue'[i] = queue[i]
  BY <1>1, AppendProperties
<1>2. queue # <<>> => Head(queue) = queue[1] /\ 1 \in DOMAIN queue
  OBVIOUS
<1>3. Len(queue) \in Nat /\ DOMAIN queue = 1..Len(queue) /\ (queue = <<>> <=> Len(queue) = 0)
  OBVIOUS
<1>4. StopFirst /\ queue' = Append(queue, c) => StopFirst'
  BY <1>1, <1>2, <1>3 DEF StopFirst
<1>5. OnlyStops /\ c.type = "TERMINATE" /\ queue' = Append(queue, c) => OnlyStops' /\ StopFirst'
  <2> SUFFICES ASSUME OnlyStops, c.type = "TERMINATE", queue' = Append(queue, c)
               PROVE  OnlyStops' /\ StopFirst'
    OBVIOUS
  <2>1. OnlyStops'
    BY <1>1, <1>3 DEF OnlyStops
  <2> QED
    BY <2>1, <1>1, <1>3 DEF OnlyStops, StopFirst
<1>6. OnlyStops /\ queue # <<>> => StopFirst
  BY <1>2 DEF OnlyStops, StopFirst
<1>7. OnlyStops /\ queue # <<>> /\ queue' = Tail(queue) => OnlyStops'
  BY HeadTailProperties DEF OnlyStops
<1> QED
  BY <1>4, <1>5, <1>6, <1>7

(* A task that is calm does one of few steps and does not connect.         *)
LEMMA CalmStep ==
  ASSUME Typed, NEW p \in Tasks, pc[p] \in Running, Calm(p), ~conn, ProcessStep(p)
  PROVE  /\ \/ Loop(p) \/ ReleaseClaim(p) \/ PopEmpty(p) \/ PopValid(p) \/ PopStale(p)
            \/ ExecTerminate(p) \/ Tick(p) \/ LoopEnded(p) \/ Retire(p) \/ Leave(p)
            \/ MarkStopped(p)
         /\ ~conn'
<1>1. \/ Loop(p) \/ ReleaseClaim(p) \/ PopEmpty(p) \/ PopValid(p) \/ PopStale(p)
      \/ ExecTerminate(p) \/ Tick(p) \/ LoopEnded(p) \/ Retire(p) \/ Leave(p)
      \/ MarkStopped(p)
  BY DEF Calm, Waits, Running, CommandLoop, Outcomes, ProcessStep, Enter, ExecConnect,
     ReplaySubscriptions, ExecDisconnect, ExecSubscribe, ExecPublish, ExecFails, TickAck,
     TickFails, Deliver, DeliverDone, Retry, Attempt, GiveUp, Reopen, AttemptFails, Reconnect,
     ApiLeave, SignalIdle
<1>2. ~conn'
  BY <1>1, Zenon DEF Loop, ReleaseClaim, PopEmpty, PopValid, PopStale, ExecTerminate, Tick,
     LoopEnded, Retire, Leave, MarkStopped, network
<1> QED
  BY <1>1, <1>2

(* With nothing but TERMINATE in the queue a task stays calm.              *)
LEMMA CalmStays ==
  ASSUME Typed, NEW p \in Tasks, Inner(p), Calm(p), ~conn, OnlyStops, ProcessStep(p)
  PROVE  ~conn' /\ OnlyStops' /\ Calm(p)'
<1> USE DEF Typed, TasksOK
<1>1. ~conn' /\ ~MarkStopped(p) /\ pc[p] \in Running
  BY CalmStep DEF Inner, MarkStopped
<1>2. CASE Loop(p) \/ ReleaseClaim(p) \/ PopEmpty(p) \/ ExecTerminate(p) \/ Tick(p)
           \/ LoopEnded(p) \/ Retire(p) \/ Leave(p)
  <2>1. queue' = queue /\ pc'[p] \in Waits \cup {"ok", "retire", "leave", "mark"}
                          \cup {"retry"}
    BY <1>2 DEF Loop, ReleaseClaim, PopEmpty, ExecTerminate, Tick, LoopEnded, Retire, Leave,
       Goto, Finish, Waits
  <2>2. pc'[p] # "retry"
    BY <1>2 DEF Loop, ReleaseClaim, PopEmpty, ExecTerminate, Tick, LoopEnded, Retire, Leave,
       Goto, Finish, Waits, Calm, Outcomes
  <2> QED
    BY <1>1, <2>1, <2>2 DEF OnlyStops, Calm
<1>3. CASE PopValid(p)
  <2>1. queue # <<>> /\ Head(queue).type = "TERMINATE" /\ queue' = Tail(queue) /\ OnlyStops'
    BY <1>3, StopsQueued, CommandsIssued DEF PopValid, StopFirst
  <2>2. pc'[p] = "exec" /\ cmd'[p].type = "TERMINATE"
    BY <1>3, <2>1 DEF PopValid, Goto
  <2> QED
    BY <1>1, <2>1, <2>2 DEF Calm
<1>4. CASE PopStale(p)
  BY <1>4, StopsQueued, CommandsIssued DEF PopStale, StopFirst, Valid
<1> QED
  BY <1>1, <1>2, <1>3, <1>4, CalmStep

(* A task that is leaving goes on leaving and reports no connection.       *)
LEMMA LeavingStays ==
  ASSUME Typed, NEW p \in Tasks, Inner(p), Leaving(p), ~conn, ProcessStep(p)
  PROVE  ~conn' /\ Leaving(p)' /\ connectResult' = connectResult
<1> USE DEF Typed, TasksOK
<1>1. ~conn' /\ ~MarkStopped(p) /\ pc[p] \in Running /\ Calm(p)
  BY CalmStep DEF Inner, MarkStopped, Leaving
<1>2. CASE Loop(p) \/ ReleaseClaim(p) \/ ExecTerminate(p) \/ Tick(p)
           \/ LoopEnded(p) \/ Retire(p) \/ Leave(p)
  <2>1. queue' = queue /\ connectResult' = connectResult
    BY <1>2 DEF Loop, ReleaseClaim, ExecTerminate, Tick, LoopEnded, Retire, Leave, client
  <2>2. \/ pc'[p] \in {"ok", "retire", "leave", "mark"}
        \/ pc'[p] \in Waits /\ StopFirst
    BY <1>2 DEF Loop, ReleaseClaim, ExecTerminate, Tick, LoopEnded, Retire, Leave,
       Goto, Finish, Waits, Calm, Leaving, Outcomes
  <2> QED
    BY <1>1, <2>1, <2>2 DEF StopFirst, Calm, Leaving, Waits
<1>3. CASE PopEmpty(p) \/ PopStale(p)
  BY <1>3 DEF PopEmpty, PopStale, Leaving, StopFirst, Waits, Valid
<1>4. CASE PopValid(p)
  <2>1. pc'[p] = "exec" /\ cmd'[p].type = "TERMINATE" /\ connectResult' = connectResult
    BY <1>4 DEF PopValid, Goto, Leaving, StopFirst, Waits
  <2> QED
    BY <1>1, <2>1 DEF Leaving, Calm, Waits
<1> QED
  BY <1>1, <1>2, <1>3, <1>4, CalmStep

(* What a step of the service task keeps of all this.                      *)
LEMMA FreshFrame ==
  ASSUME MqttTyped, PrevInv, ServiceStep
  PROVE  /\ conn' = conn /\ running' = running /\ (AllCalm => AllCalm')
         /\ AllLeave /\ svc # "cancelAll" => AllLeave'
         /\ pc' = pc => (Unborn' <=> Unborn)
         /\ queue' = queue => (OnlyStops => OnlyStops')
<1> USE DEF MqttTyped, Typed, TasksOK
<1>1. ServiceFrame
  BY ServiceFrames
<1>2. \A p \in Tasks : pc'[p] \in Running => pc[p] \in Running /\ pc'[p] = pc[p]
  BY <1>1 DEF ServiceFrame, Running, CommandLoop, Outcomes
<1>3. \A p \in Tasks : pc'[p] = pc[p] => (Calm(p) <=> Calm(p)')
  BY <1>1 DEF ServiceFrame, Calm
<1>4. svc # "cancelAll" => (StopFirst => StopFirst')
  BY <1>1, StopsQueued DEF ServiceFrame, StopFirst
<1>5. stop => stop'
  BY <1>1 DEF ServiceFrame
<1>6. AllLeave /\ svc # "cancelAll" => AllLeave'
  BY <1>2, <1>3, <1>4, <1>5 DEF AllLeave, Leaving
<1>7. AllCalm => AllCalm'
  BY <1>2, <1>3 DEF AllCalm
<1> QED
  BY <1>1, <1>6, <1>7 DEF ServiceFrame, Unborn, OnlyStops

(* No call of the service task lets an older task take the new CONNECT.    *)
LEMMA FreshService ==
  ASSUME MqttTyped, PrevInv, SingleLoop, HandleInv, FreshInv, ServiceStep
  PROVE  FreshInv'
<1> USE FreshFrame DEF FreshInv, Fresh, HandleInv, Deiniting, Reserved, Connecting, client,
           subscriptions, network, attempt, service, tasks
<1>0. ~running => AllLeave
  BY DEF SingleLoop, AllLeave
<1>1. ASSUME StartProcess PROVE FreshInv'
  BY <1>0, <1>1 DEF StartProcess
<1>2. ASSUME BeginConnect PROVE FreshInv'
  BY <1>0, <1>2 DEF BeginConnect
<1>3. ASSUME CloneConfig PROVE FreshInv'
  BY <1>0, <1>3 DEF CloneConfig
<1>4. ASSUME InstallConfig PROVE FreshInv'
  BY <1>0, <1>4 DEF InstallConfig, StillConnecting
<1>5. ASSUME ReleaseReservation PROVE FreshInv'
  BY <1>0, <1>5 DEF ReleaseReservation, StillConnecting
<1>6. ASSUME OpenTransport PROVE FreshInv'
  BY <1>0, <1>6 DEF OpenTransport
<1>7. ASSUME EnqueueConnect PROVE FreshInv'
  BY <1>0, <1>7 DEF EnqueueConnect
<1>8. ASSUME AwaitConnect PROVE FreshInv'
  BY <1>0, <1>8 DEF AwaitConnect
<1>9. ASSUME Cancel PROVE FreshInv'
  BY <1>0, <1>9 DEF Cancel
<1>10. ASSUME Claim PROVE FreshInv'
  BY <1>0, <1>10 DEF Claim, AfterFailure
<1>11. ASSUME CloseTransport PROVE FreshInv'
  BY <1>0, <1>11 DEF CloseTransport, AfterFailure
<1>12. ASSUME NEW t \in Topics, Subscribe(t) PROVE FreshInv'
  BY <1>0, <1>12 DEF Subscribe
<1>13. ASSUME Connected PROVE FreshInv'
  BY <1>0, <1>13 DEF Connected, Return
<1>14. ASSUME Publish PROVE FreshInv'
  BY <1>0, <1>14 DEF Publish
<1>15. ASSUME StartDisconnect PROVE FreshInv'
  BY <1>0, <1>15 DEF StartDisconnect
<1>16. ASSUME Disconnect PROVE FreshInv'
  BY <1>0, <1>16 DEF Disconnect, AfterFailure
<1>17. ASSUME AwaitDisconnect PROVE FreshInv'
  BY <1>0, <1>17 DEF AwaitDisconnect
<1>18. ASSUME StopProcess PROVE FreshInv'
  BY <1>0, <1>18 DEF StopProcess
<1>19. ASSUME TerminateProcess PROVE FreshInv'
  <2>1. state = "INITIALIZED" => OnlyStops' /\ AllLeave'
    <3> SUFFICES ASSUME state = "INITIALIZED" PROVE OnlyStops' /\ AllLeave'
      OBVIOUS
    <3>1. Terminate \in Issued /\ Terminate.type = "TERMINATE"
      BY CommandsIssued DEF MqttTyped, Terminate, Command
    <3>2. ~Room => queue # <<>>
      BY MqttAssumption DEF MqttTyped, Typed, QueueOK, Room
    <3>3. OnlyStops' /\ StopFirst'
      BY <1>19, <3>1, <3>2, StopsQueued DEF TerminateProcess, MqttTyped, OnlyStops, StopFirst
    <3>4. \A q \in Tasks : pc'[q] = pc[q] /\ cmd'[q] = cmd[q]
      BY <1>19 DEF TerminateProcess
    <3> QED
      BY <3>3, <3>4 DEF AllCalm, AllLeave, Leaving, Calm
  <2> QED
    BY <1>19, <2>1 DEF TerminateProcess
<1>20. ASSUME Join PROVE FreshInv'
  BY <1>0, <1>20 DEF Join, AfterJoin, Return
<1>21. ASSUME JoinTimeout PROVE FreshInv'
  BY <1>0, <1>21 DEF JoinTimeout, AfterJoin, Return
<1>22. ASSUME StartDeinit PROVE FreshInv'
  BY <1>0, <1>22 DEF StartDeinit
<1>23. ASSUME CloseClient PROVE FreshInv'
  BY <1>0, <1>23 DEF CloseClient
<1>24. ASSUME StopRunning PROVE FreshInv'
  <2>1. Terminate \in Issued /\ Terminate.type = "TERMINATE"
    BY CommandsIssued DEF MqttTyped, Terminate, Command
  <2>2. OnlyStops => OnlyStops'
    BY <1>24, <2>1, StopsQueued DEF StopRunning, MqttTyped, OnlyStops
  <2> QED
    BY <1>24, <2>2 DEF StopRunning
<1>25. ASSUME AwaitStopped PROVE FreshInv'
  BY <1>0, <1>25 DEF AwaitStopped
<1>26. ASSUME CancelAll PROVE FreshInv'
  <2>1. queue' = queue \/ OnlyStops'
    BY <1>26 DEF CancelAll, OnlyStops
  <2> QED
    BY <1>26, <2>1 DEF CancelAll
<1>27. ASSUME Free PROVE FreshInv'
  BY <1>0, <1>27 DEF Free
<1> QED
  BY <1>1, <1>2, <1>3, <1>4, <1>5, <1>6, <1>7, <1>8, <1>9, <1>10, <1>11, <1>12, <1>13,
     <1>14, <1>15, <1>16, <1>17, <1>18, <1>19, <1>20, <1>21, <1>22, <1>23, <1>24, <1>25,
     <1>26, <1>27 DEF ServiceStep

(* A created task finds nobody in, or leaves.                              *)
LEMMA FreshNext ==
  ASSUME MqttTyped, PrevInv, SingleLoop, MarkInv, HandleInv, FreshInv, [Next]_vars
  PROVE  FreshInv'
<1> USE DEF MqttTyped, Typed, TasksOK
<1>1. ASSUME NEW p \in Tasks, ProcessStep(p) PROVE FreshInv'
  <2>0. UNCHANGED <<life, svc, op, prev>> /\ \A q \in Tasks \ {p} : pc'[q] = pc[q]
    BY <1>1, ProcessFrame DEF service, attempt
  <2>1. CASE Inner(p)
    <3>1. /\ pc[p] \in Running /\ pc'[p] \in Running /\ running /\ running' = running
          /\ \A q \in Tasks \ {p} : pc[q] \notin Running /\ pc'[q] \notin Running
      BY <2>0, <2>1 DEF Inner, SingleLoop
    <3>2. Unborn' <=> Unborn
      BY <2>0, <3>1 DEF Unborn, Running, CommandLoop, Outcomes
    <3>3. Fresh' => Fresh
      BY <2>0, <2>1 DEF Fresh, Inner
    <3>4. Fresh => ~conn' /\ OnlyStops' /\ AllCalm'
      BY <1>1, <2>1, <3>1, CalmStays DEF FreshInv, AllCalm
    <3>5. AllLeave /\ ~conn => ~conn' /\ AllLeave' /\ connectResult' = connectResult
      BY <1>1, <2>1, <3>1, LeavingStays DEF AllLeave
    <3>6. (state' = "INITIALIZED" => state = "INITIALIZED") /\ stop' = stop
      BY <2>1 DEF Inner
    <3> QED
      BY <2>0, <3>1, <3>2, <3>3, <3>4, <3>5, <3>6 DEF FreshInv, Fresh
  <2>2. CASE Enter(p)
    <3>1. UNCHANGED <<state, conn, queue, cmd, stop, connectResult>> /\ pc[p] = "created"
      BY <2>2 DEF Enter, network
    <3>2. ~Unborn' /\ Unborn
      BY <2>0, <3>1, <1>1, ProcessFrame DEF Unborn, HandleInv
    <3>3. OnlyStops => OnlyStops'
      BY <3>1 DEF OnlyStops
    <3>4. pc'[p] \in {"loop", "exit"}
      BY <2>2 DEF Enter, Goto
    <3>5. AllCalm => AllCalm'
      BY <2>0, <3>1, <3>4 DEF AllCalm, Calm, Waits, Running, CommandLoop, Outcomes
    <3>6. op = "connect"
      BY <3>2 DEF HandleInv
    <3>7. AllLeave /\ stop => AllLeave'
      BY <2>0, <3>1, <3>4 DEF AllLeave, Leaving, StopFirst, Calm, Waits, Running, CommandLoop,
         Outcomes
    <3> QED
      BY <2>0, <3>1, <3>2, <3>3, <3>5, <3>6, <3>7 DEF FreshInv, Fresh
  <2>3. CASE MarkStopped(p)
    <3>1. /\ UNCHANGED <<state, conn, queue, cmd, connectResult>>
          /\ pc[p] = "mark" /\ pc'[p] = "stopped" /\ ~running'
      BY <2>3 DEF MarkStopped, Goto, network
    <3>2. \A q \in Tasks : pc'[q] \notin Running
      BY <2>0, <3>1 DEF SingleLoop, Running, CommandLoop, Outcomes
    <3>3. AllCalm' /\ AllLeave'
      BY <3>2 DEF AllCalm, AllLeave
    <3>4. (Unborn' <=> Unborn) /\ (OnlyStops => OnlyStops')
      BY <2>0, <3>1 DEF Unborn, OnlyStops
    <3>5. ~(life = "OPEN" /\ state = "INITIALIZED")
      BY <3>1 DEF MarkInv
    <3> QED
      BY <2>0, <3>1, <3>3, <3>4, <3>5 DEF FreshInv, Fresh
  <2>4. CASE ApiLeave(p) \/ SignalIdle(p)
    <3>1. /\ UNCHANGED <<state, conn, queue, cmd, stop, running, connectResult>>
          /\ pc[p] \in {"stopped", "signal"} /\ pc'[p] \in {"signal", "exit"}
      BY <2>4 DEF ApiLeave, SignalIdle, Goto, client, network
    <3>2. \A q \in Tasks : pc'[q] \in Running => pc[q] \in Running /\ pc'[q] = pc[q]
      BY <2>0, <3>1 DEF Running, CommandLoop, Outcomes
    <3>3. (AllCalm => AllCalm') /\ (AllLeave => AllLeave')
      BY <3>1, <3>2 DEF AllCalm, AllLeave, Leaving, Calm, StopFirst
    <3>4. (Unborn' <=> Unborn) /\ (OnlyStops => OnlyStops')
      BY <2>0, <3>1 DEF Unborn, OnlyStops
    <3> QED
      BY <2>0, <3>1, <3>3, <3>4 DEF FreshInv, Fresh
  <2> QED
    BY <1>1, <2>1, <2>2, <2>3, <2>4, StepsInside
<1>2. ASSUME UNCHANGED vars PROVE FreshInv'
  <2>1. /\ UNCHANGED <<life, svc, op, prev, state, conn, queue, cmd, stop, running, pc>>
        /\ connectResult' = connectResult
    BY <1>2 DEF vars, client, network, service, attempt, tasks
  <2> QED
    BY <2>1 DEF FreshInv, Fresh, AllCalm, AllLeave, Leaving, Calm, StopFirst, OnlyStops, Unborn
<1> QED
  BY <1>1, <1>2, FreshService DEF Next

(* The last task inside a closing client signals, and no other comes in.   *)
LEMMA SignalNext ==
  ASSUME MqttTyped, PrevInv, SignalInv, [Next]_vars
  PROVE  SignalInv'
<1> USE DEF MqttTyped, Typed, TasksOK
<1>1. ASSUME ServiceStep PROVE SignalInv'
  <2>1. /\ \A p \in Tasks : pc'[p] = pc[p] \/ (pc[p] = "exit" /\ pc'[p] = "created")
        /\ life' = "OPEN" => life = "OPEN"
    BY <1>1, ServiceFrames DEF ServiceFrame
  <2> QED
    BY <2>1 DEF SignalInv, InApi, Running, CommandLoop, Outcomes
<1>2. ASSUME NEW p \in Tasks, ProcessStep(p) PROVE SignalInv'
  <2>0. life' = life /\ \A q \in Tasks \ {p} : pc'[q] = pc[q]
    BY <1>2, ProcessFrame
  <2>1. CASE Inner(p)
    <3>1. InApi(p) /\ pc'[p] \in Running
      BY <2>1 DEF Inner, InApi
    <3>2. \A q \in Tasks : pc[q] # "signal"
      BY <3>1 DEF SignalInv, InApi, Running, CommandLoop, Outcomes
    <3> QED
      BY <2>0, <3>1, <3>2 DEF SignalInv, Running, CommandLoop, Outcomes
  <2>2. CASE Enter(p)
    <3>1. pc'[p] = "exit" \/ (life = "OPEN" /\ pc'[p] = "loop")
      BY <2>2 DEF Enter, Goto
    <3> QED
      BY <2>0, <3>1 DEF SignalInv, InApi, Running, CommandLoop, Outcomes
  <2>3. CASE MarkStopped(p)
    BY <2>0, <2>3 DEF MarkStopped, Goto, SignalInv, InApi, Running, CommandLoop, Outcomes
  <2>4. CASE ApiLeave(p)
    <3>1. \A q \in Tasks \ {p} : pc[q] # "signal"
      BY <2>4 DEF ApiLeave, SignalInv, InApi
    <3>2. pc'[p] = "exit" \/ (pc'[p] = "signal" /\ life # "OPEN"
                              /\ \A q \in Tasks \ {p} : ~InApi(q))
      BY <2>4 DEF ApiLeave, Goto, LifecycleIdle
    <3> QED
      BY <2>0, <3>1, <3>2 DEF SignalInv, InApi
  <2>5. CASE SignalIdle(p)
    BY <2>0, <2>5 DEF SignalIdle, Goto, SignalInv, InApi, Running, CommandLoop, Outcomes
  <2> QED
    BY <1>2, <2>1, <2>2, <2>3, <2>4, <2>5, StepsInside
<1>3. ASSUME UNCHANGED vars PROVE SignalInv'
  BY <1>3 DEF vars, client, tasks, SignalInv, InApi
<1> QED
  BY <1>1, <1>2, <1>3 DEF Next

(* In a client that has been freed nothing moves but the last signal.      *)
LEMMA FreedNext ==
  ASSUME MqttTyped, HandleInv, SignalInv, FreedOnlyQuiet, [Next]_vars
  PROVE  FreedOnlyQuiet'
<1> USE DEF MqttTyped, Typed, TasksOK
<1>1. ASSUME life # "FREED", life' = "FREED" PROVE FreedOnlyQuiet'
  <2>1. Free
    <3>1. ASSUME NEW p \in Tasks, ProcessStep(p) PROVE life' = life
      BY <3>1, ProcessFrame
    <3>2. ASSUME ServiceStep, ~Free PROVE life' # "FREED"
      BY <1>1, <3>2 DEF ServiceStep, StartProcess, BeginConnect, CloneConfig, InstallConfig,
         ReleaseReservation, OpenTransport, EnqueueConnect, AwaitConnect, Cancel, Claim,
         CloseTransport, Subscribe, Connected, Publish, StartDisconnect, Disconnect,
         AwaitDisconnect, StopProcess, TerminateProcess, Join, JoinTimeout, AfterJoin,
         StartDeinit, CloseClient, StopRunning, AwaitStopped, CancelAll, client
    <3>3. ~UNCHANGED vars
      BY <1>1 DEF vars, client
    <3> QED
      BY <1>1, <3>1, <3>2, <3>3 DEF Next
  <2>2. LifecycleIdle({p \in Tasks : InApi(p)}) /\ UNCHANGED <<pc, queue, acks, active>>
    BY <1>1, <2>1 DEF Free, tasks
  <2>3. \A p \in Tasks : pc[p] # "created"
    BY <2>1 DEF Free, HandleInv, Unborn, Connecting, Reserved
  <2>4. \A p \in Tasks : pc[p] \in {"exit", "signal"}
    BY <2>2, <2>3 DEF LifecycleIdle, InApi
  <2>5. \A p, q \in Tasks : pc[p] = "signal" /\ pc[q] = "signal" => p = q
    BY DEF SignalInv
  <2> QED
    BY <2>2, <2>4, <2>5 DEF LifecycleIdle, FreedOnlyQuiet
<1>2. ASSUME life = "FREED" PROVE FreedOnlyQuiet'
  <2>1. ASSUME NEW p \in Tasks, ProcessStep(p)
        PROVE  /\ pc' = [pc EXCEPT ![p] = "exit"]
               /\ UNCHANGED <<life, queue, acks, active>>
    <3>1. pc[p] \in {"exit", "signal"}
      BY <1>2 DEF FreedOnlyQuiet
    <3>2. SignalIdle(p)
      BY <2>1, <3>1, StepsInside DEF Inner, Enter, MarkStopped, ApiLeave, Running, CommandLoop,
         Outcomes
    <3> QED
      BY <3>2 DEF SignalIdle, Goto, client, network
  <2>2. svc = "idle" /\ ~up
    BY <1>2 DEF HandleInv
  <2>3. ASSUME ServiceStep PROVE FALSE
    BY <1>2, <2>2, <2>3 DEF ServiceStep, StartProcess, BeginConnect, CloneConfig, InstallConfig,
       ReleaseReservation, OpenTransport, EnqueueConnect, AwaitConnect, Cancel, Claim,
       CloseTransport, Subscribe, Connected, Publish, StartDisconnect, Disconnect,
       AwaitDisconnect, StopProcess, TerminateProcess, Join, JoinTimeout,
       StartDeinit, CloseClient, StopRunning, AwaitStopped, CancelAll, Free
  <2>4. CASE UNCHANGED vars
    BY <1>2, <2>4 DEF vars, client, network, tasks, FreedOnlyQuiet
  <2>5. CASE \E p \in Tasks : ProcessStep(p)
    BY <1>2, <2>1, <2>5 DEF FreedOnlyQuiet
  <2> QED
    BY <2>3, <2>4, <2>5 DEF Next
<1>3. ASSUME life' # "FREED" PROVE FreedOnlyQuiet'
  BY <1>3 DEF FreedOnlyQuiet
<1> QED
  BY <1>1, <1>2, <1>3

(* What a completion can do to the subscriptions and the state.            *)
LEMMA CompleteDelivers ==
  ASSUME Typed, NEW c \in Issued, NEW st, NEW q, Complete(c, st, q),
         c.type = "SUBSCRIBE" /\ st = "ok" => c.topic \in broker
  PROVE  /\ unplayed' = unplayed
         /\ \A t \in Topics : subs'[t].state = "ACTIVE" => subs[t].state = "ACTIVE" \/ t \in broker
         /\ state' \in Settled =>
              \/ state \in Settled
              \/ c.type = "CONNECT" /\ st = "ok" /\ c.gen = gen /\ state = "CONNECTING"
<1> USE DEF Typed, SubscriptionsOK
<1>1. unplayed' = unplayed
  BY DEF Complete, subscriptions
<1>2. ASSUME NEW t \in Topics, subs'[t].state = "ACTIVE"
      PROVE  subs[t].state = "ACTIVE" \/ t \in broker
  <2>1. CASE c.type = "SUBSCRIBE"
    <3>1. CASE UNCHANGED subs
      BY <1>2, <3>1
    <3>2. CASE subs' = [subs EXCEPT ![c.topic] =
                          IF st = "ok" THEN [@ EXCEPT !.state = "ACTIVE"] ELSE Empty]
      BY <1>2, <2>1, <3>2 DEF Empty, Issued
    <3> QED
      BY <2>1, <3>1, <3>2 DEF Complete, CompleteSubscribe
  <2>2. CASE c.type # "SUBSCRIBE"
    BY <1>2, <2>2 DEF Complete, subscriptions
  <2> QED
    BY <2>1, <2>2
<1>3. state' \in Settled =>
        \/ state \in Settled
        \/ c.type = "CONNECT" /\ st = "ok" /\ c.gen = gen /\ state = "CONNECTING"
  BY DEF Complete, Settled
<1> QED
  BY <1>1, <1>2, <1>3

(* The second part of SessionInv, and what a task's step has to show for   *)
(* it: the step replays, or is on its way to, or loses no topic.           *)
SessionServes ==
  ~Replaying /\ session # "unheard" /\ (session = "clean" => state \in Settled) => Delivered

(* A step that neither changes the session nor takes a topic from it.      *)
LEMMA QuietStep ==
  ASSUME Typed, NEW p \in Tasks, SessionServes, SingleLoop, Inner(p),
         pc[p] \notin {"replay", "resume"},
         session' = session, broker \subseteq broker', unplayed' = unplayed,
         \A t \in Topics : subs'[t].state = "ACTIVE" => subs[t].state = "ACTIVE" \/ t \in broker',
         session = "clean" /\ state' \in Settled =>
             state \in Settled \/ pc'[p] \in {"replay", "resume"}
  PROVE  SessionServes'
<1>1. ~Replaying
  BY DEF Replaying, SingleLoop, Inner, Running, CommandLoop
<1>2. pc'[p] \in {"replay", "resume"} => Replaying'
  BY DEF Replaying
<1> QED
  BY <1>1, <1>2 DEF SessionServes, Delivered

(* Inside the loop the session keeps its topics, or they are replayed.     *)
LEMMA InnerServes ==
  ASSUME MqttTyped, NEW p \in Tasks, SingleLoop, SessionInv, Inner(p), ProcessStep(p)
  PROVE  SessionServes'
<1> USE DEF MqttTyped, Typed, TasksOK, SubscriptionsOK
<1>0. SessionServes
  BY DEF SessionInv, SessionServes
<1>1. ASSUME Loop(p) PROVE SessionServes'
  BY <1>1, <1>0, QuietStep DEF Loop, client, subscriptions, network, attempt, service, tasks
<1>2. ASSUME ReleaseClaim(p) PROVE SessionServes'
  BY <1>2, <1>0, QuietStep DEF ReleaseClaim, client, subscriptions, network, attempt,
     service, tasks
<1>3. ASSUME PopEmpty(p) PROVE SessionServes'
  BY <1>3, <1>0, QuietStep DEF PopEmpty, client, subscriptions, network, attempt, service, tasks
<1>4. ASSUME PopValid(p) PROVE SessionServes'
  BY <1>4, <1>0, QuietStep DEF PopValid, client, subscriptions, network, attempt, service, tasks
<1>5. ASSUME PopStale(p) PROVE SessionServes'
  <2>1. /\ unplayed' = unplayed
        /\ \A t \in Topics : subs'[t].state = "ACTIVE" => subs[t].state = "ACTIVE" \/ t \in broker
        /\ state' \in Settled => state \in Settled
    BY <1>5, <1>0, CompleteDelivers, PopOK DEF PopStale
  <2> QED
    BY <1>5, <1>0, <2>1, QuietStep DEF PopStale, client, subscriptions, network, attempt,
       service, tasks
<1>6. ASSUME ExecTerminate(p) PROVE SessionServes'
  BY <1>6, <1>0, QuietStep DEF ExecTerminate, client, subscriptions, network, attempt,
     service, tasks
<1>7. ASSUME ExecConnect(p) PROVE SessionServes'
  <2>1. session' = "clean" /\ state \notin Settled
    BY <1>7 DEF ExecConnect, NewSession, SessionInv
  <2>2. state' \in Settled => cmd[p].gen = gen /\ state = "CONNECTING"
    BY <1>7, <1>0, <2>1, CompleteDelivers DEF ExecConnect
  <2>3. state' \in Settled => pc'[p] = "replay"
    BY <1>7, <1>0, <2>2 DEF ExecConnect, Finish, Goto
  <2> QED
    BY <2>1, <2>3 DEF SessionServes, Replaying
<1>8. ASSUME ReplaySubscriptions(p) PROVE SessionServes'
  BY <1>8, <1>0, ReplaySound DEF ReplaySubscriptions, SessionServes, Delivered
<1>9. ASSUME ExecDisconnect(p) PROVE SessionServes'
  <2>1. /\ unplayed' = unplayed
        /\ \A t \in Topics : subs'[t].state = "ACTIVE" => subs[t].state = "ACTIVE" \/ t \in broker
        /\ state' \in Settled => state \in Settled
    BY <1>9, <1>0, CompleteDelivers DEF ExecDisconnect
  <2> QED
    BY <1>9, <1>0, <2>1, QuietStep DEF ExecDisconnect, client, subscriptions, network,
       attempt, service, tasks
<1>10. ASSUME ExecSubscribe(p) PROVE SessionServes'
  BY <1>10, <1>0, QuietStep DEF ExecSubscribe, client, subscriptions, network, attempt,
     service, tasks
<1>11. ASSUME ExecPublish(p) PROVE SessionServes'
  <2>1. /\ unplayed' = unplayed
        /\ \A t \in Topics : subs'[t].state = "ACTIVE" => subs[t].state = "ACTIVE" \/ t \in broker
        /\ state' \in Settled => state \in Settled
    BY <1>11, <1>0, CompleteDelivers DEF ExecPublish
  <2> QED
    BY <1>11, <1>0, <2>1, QuietStep DEF ExecPublish, client, subscriptions, network,
       attempt, service, tasks
<1>12. ASSUME ExecFails(p) PROVE SessionServes'
  <2>1. PICK st \in Failures : Complete(cmd[p], st, queue)
    BY <1>12 DEF ExecFails
  <2>2. /\ unplayed' = unplayed
        /\ \A t \in Topics : subs'[t].state = "ACTIVE" => subs[t].state = "ACTIVE" \/ t \in broker
        /\ state' \in Settled => state \in Settled
    BY <2>1, CompleteDelivers DEF Failures
  <2>3. CASE UNCHANGED <<broker, session>>
    BY <1>12, <1>0, <2>2, <2>3, QuietStep DEF ExecFails
  <2>4. CASE cmd[p].type = "CONNECT" /\ NewSession("clean")
    BY <1>12, <1>0, <2>2, <2>4 DEF ExecFails, NewSession, SessionInv, SessionServes
  <2> QED
    BY <1>12, <1>0, <2>3, <2>4 DEF ExecFails
<1>13. ASSUME Tick(p) PROVE SessionServes'
  BY <1>13, <1>0, QuietStep DEF Tick, client, subscriptions, network, attempt, service, tasks
<1>14. ASSUME TickAck(p) PROVE SessionServes'
  <2>1. PICK c \in acks : Complete(c, IF c.topic \in broker THEN "ok" ELSE "error", queue)
    BY <1>14 DEF TickAck
  <2>2. c \in Issued /\ c.type = "SUBSCRIBE"
    BY <2>1 DEF NetworkOK
  <2>3. /\ unplayed' = unplayed
        /\ \A t \in Topics : subs'[t].state = "ACTIVE" => subs[t].state = "ACTIVE" \/ t \in broker
        /\ state' \in Settled => state \in Settled
    BY <2>1, <2>2, CompleteDelivers
  <2> QED
    BY <1>14, <1>0, <2>3, QuietStep DEF TickAck
<1>15. ASSUME TickFails(p) PROVE SessionServes'
  BY <1>15, <1>0, QuietStep DEF TickFails, client, subscriptions, network, attempt, service,
     tasks
<1>16. ASSUME Deliver(p) PROVE SessionServes'
  BY <1>16, <1>0, QuietStep DEF Deliver, client, subscriptions, network, attempt, service, tasks
<1>17. ASSUME DeliverDone(p) PROVE SessionServes'
  BY <1>17, <1>0, QuietStep DEF DeliverDone, client, subscriptions, network, attempt,
     service, tasks
<1>18. ASSUME LoopEnded(p) PROVE SessionServes'
  BY <1>18, <1>0, QuietStep DEF LoopEnded, Outcomes, client, subscriptions, network,
     attempt, service, tasks
<1>19. ASSUME Retire(p) PROVE SessionServes'
  BY <1>19, <1>0, QuietStep DEF Retire, client, subscriptions, network, attempt, service, tasks
<1>20. ASSUME Retry(p) PROVE SessionServes'
  BY <1>20, <1>0, QuietStep DEF Retry, Settled, client, subscriptions, network, attempt,
     service, tasks
<1>21. ASSUME Attempt(p) PROVE SessionServes'
  BY <1>21, <1>0, QuietStep DEF Attempt, Settled, Empty, client, subscriptions, network,
     attempt, service, tasks
<1>22. ASSUME GiveUp(p) PROVE SessionServes'
  BY <1>22, <1>0, QuietStep DEF GiveUp, client, subscriptions, network, attempt, service, tasks
<1>23. ASSUME Reopen(p) PROVE SessionServes'
  BY <1>23, <1>0, QuietStep DEF Reopen, client, subscriptions, network, attempt, service, tasks
<1>24. ASSUME AttemptFails(p) PROVE SessionServes'
  <2>1. CASE UNCHANGED <<broker, session>>
    BY <1>24, <1>0, <2>1, QuietStep DEF AttemptFails, Settled, client, subscriptions,
       network, attempt, service, tasks
  <2>2. CASE NewSession("unheard")
    BY <2>2 DEF NewSession, SessionServes
  <2> QED
    BY <1>24, <1>0, <2>1, <2>2 DEF AttemptFails
<1>25. ASSUME Reconnect(p) PROVE SessionServes'
  <2>1. CASE session # "clean" /\ UNCHANGED <<broker, session>>
    BY <1>25, <1>0, <2>1, QuietStep DEF Reconnect, client, subscriptions, network, attempt,
       service, tasks
  <2>2. CASE Finish(p, "resume")
    <3>1. pc'[p] = "resume"
      BY <2>2 DEF Finish, Goto
    <3> QED
      BY <3>1 DEF SessionServes, Replaying
  <2> QED
    BY <1>25, <1>0, <2>1, <2>2 DEF Reconnect
<1>26. ASSUME Enter(p) \/ MarkStopped(p) \/ ApiLeave(p) \/ SignalIdle(p) PROVE SessionServes'
  BY <1>26 DEF Inner, Enter, MarkStopped, ApiLeave, SignalIdle, Goto, Running, CommandLoop,
     Outcomes
<1>27. ASSUME Leave(p) PROVE SessionServes'
  BY <1>27, <1>0, QuietStep DEF Leave, Settled, client, subscriptions, network, attempt,
     service, tasks
<1> QED
  BY <1>1, <1>2, <1>3, <1>4, <1>5, <1>6, <1>7, <1>8, <1>9, <1>10, <1>11, <1>12, <1>13,
     <1>14, <1>15, <1>16, <1>17, <1>18, <1>19, <1>20, <1>21, <1>22, <1>23, <1>24, <1>25,
     <1>26, <1>27 DEF ProcessStep

(* No step takes a topic from a session without a replay to come.          *)
LEMMA SessionNext ==
  ASSUME MqttTyped, PrevInv, SingleLoop, SessionInv, [Next]_vars
  PROVE  SessionInv'
<1> USE DEF MqttTyped, Typed, TasksOK
<1>0. SessionServes
  BY DEF SessionInv, SessionServes
<1>1. ASSUME ServiceStep PROVE SessionInv'
  <2>1. ServiceFrame
    BY <1>1, ServiceFrames
  <2>2. \A p \in Tasks : pc'[p] = "exec" /\ cmd'[p].type = "CONNECT" => state' \notin Settled
    BY <2>1 DEF ServiceFrame, SessionInv
  <2>3. Replaying' = Replaying
    BY <2>1 DEF ServiceFrame, Replaying
  <2>4. SessionServes'
    BY <2>1, <2>3, <1>0 DEF ServiceFrame, SessionServes, Delivered
  <2> QED
    BY <2>2, <2>4 DEF SessionInv, SessionServes
<1>2. ASSUME NEW p \in Tasks, ProcessStep(p) PROVE SessionInv'
  <2>1. CASE Inner(p)
    <3>1. ASSUME NEW q \in Tasks, pc'[q] = "exec", cmd'[q].type = "CONNECT"
          PROVE  state' \notin Settled
      <4>1. q = p
        BY <2>1, <3>1 DEF Inner, SingleLoop, Running, CommandLoop
      <4>2. PopValid(p)
        BY <2>1, <3>1, <4>1 DEF Inner
      <4> QED
        BY <3>1, <4>1, <4>2 DEF PopValid, Valid, Settled
    <3>2. SessionServes'
      BY <1>2, <2>1, InnerServes
    <3> QED
      BY <3>1, <3>2 DEF SessionInv, SessionServes
  <2>2. CASE Enter(p) \/ MarkStopped(p) \/ ApiLeave(p) \/ SignalIdle(p)
    <3>1. UNCHANGED <<state, cmd, broker, session, subs, unplayed>>
      BY <2>2 DEF Enter, MarkStopped, ApiLeave, SignalIdle, client, subscriptions, network
    <3>2. \A q \in Tasks : pc'[q] = pc[q] \/ pc'[q] \in {"loop", "exit", "stopped", "signal"}
      BY <2>2 DEF Enter, MarkStopped, ApiLeave, SignalIdle, Goto
    <3>3. /\ pc[p] \in {"created", "mark", "stopped", "signal"}
          /\ \A q \in Tasks \ {p} : pc'[q] = pc[q]
      BY <2>2 DEF Enter, MarkStopped, ApiLeave, SignalIdle, Goto
    <3>4. Replaying' = Replaying
      BY <3>2, <3>3 DEF Replaying
    <3>5. SessionServes'
      BY <3>1, <3>4, <1>0 DEF SessionServes, Delivered, Settled
    <3>6. \A q \in Tasks : pc'[q] = "exec" /\ cmd'[q].type = "CONNECT" => state' \notin Settled
      BY <3>1, <3>2 DEF SessionInv, Settled
    <3> QED
      BY <3>5, <3>6 DEF SessionInv, SessionServes
  <2> QED
    BY <1>2, <2>1, <2>2, StepsInside
<1>3. ASSUME UNCHANGED vars PROVE SessionInv'
  BY <1>3 DEF vars, client, subscriptions, network, tasks, SessionInv, Replaying, Delivered
<1> QED
  BY <1>1, <1>2, <1>3 DEF Next

-----------------------------------------------------------------------------
(* The inductive invariant of the client.                                  *)
MqttInv ==
  /\ MqttTyped /\ PrevInv /\ MarkInv /\ HandleInv /\ FreshInv /\ SignalInv /\ SessionInv
  /\ SingleLoop /\ ConnectedIsServed /\ FreedOnlyQuiet

(* It holds at first and every step keeps it.                              *)
LEMMA MqttInvariant == Spec => []MqttInv
<1>1. Init => MqttInv
  <2> SUFFICES ASSUME Init PROVE MqttInv
    OBVIOUS
  <2> USE DEF Init
  <2>1. Terminate \in Issued /\ Empty \in [state : {"EMPTY", "PENDING", "ACTIVE"}, token : Nat]
    BY DEF Terminate, Command, Issued, Commands, Empty
  <2>2. <<>> \in Seq(Issued) /\ Len(<<>>) = 0 /\ 0 <= QueueCap
    BY MqttAssumption
  <2>3. Typed
    BY <2>1, <2>2 DEF Typed, ClientOK, SubscriptionsOK, QueueOK, NetworkOK, ServiceOK, TasksOK,
       Running, Outcomes, States
  <2>4. FlagsOK
    BY Zenon DEF FlagsOK
  <2>5. PrevInv /\ MarkInv /\ HandleInv /\ SignalInv /\ ConnectedIsServed /\ FreedOnlyQuiet
    BY DEF PrevInv, MarkInv, HandleInv, Unborn, Deiniting, Reserved, SignalInv,
       ConnectedIsServed, FreedOnlyQuiet
  <2>6. SingleLoop
    BY DEF SingleLoop, Running, CommandLoop, Outcomes
  <2>7. SessionInv
    BY DEF SessionInv, Delivered, Empty
  <2>8. FreshInv
    BY DEF FreshInv, Fresh, OnlyStops, AllCalm, AllLeave, Unborn, Reserved, Running, CommandLoop,
       Outcomes
  <2> QED
    BY <2>3, <2>4, <2>5, <2>6, <2>7, <2>8 DEF MqttInv, MqttTyped
<1>2. ASSUME MqttInv, [Next]_vars PROVE MqttInv'
  <2> USE DEF MqttInv
  <2>1. MqttTyped'
    <3>1. ASSUME UNCHANGED vars PROVE MqttTyped'
      <4>1. FlagsOK'
        BY <1>2, <3>1, Zenon DEF vars, client, network, service, MqttTyped, FlagsOK
      <4>2. Typed'
        BY <1>2, <3>1 DEF vars, client, subscriptions, network, attempt, service, tasks,
           MqttTyped,
           Typed, ClientOK, SubscriptionsOK, QueueOK, NetworkOK, ServiceOK, TasksOK
      <4> QED
        BY <4>1, <4>2 DEF MqttTyped
    <3>2. ASSUME ServiceStep PROVE MqttTyped'
      BY <1>2, <3>2, ServiceTyped, ServiceFlags DEF MqttTyped
    <3>3. ASSUME NEW p \in Tasks, ProcessStep(p) PROVE MqttTyped'
      BY <1>2, <3>3, ProcessTyped, ProcessFlags DEF MqttTyped
    <3> QED
      BY <1>2, <3>1, <3>2, <3>3 DEF Next
  <2>2. SingleLoop'
    BY <1>2, LoopNext
  <2>3. PrevInv' /\ MarkInv' /\ ConnectedIsServed'
    BY <1>2, ServedNext
  <2>4. HandleInv' /\ FreshInv'
    BY <1>2, HandleNext, FreshNext
  <2>5. SessionInv'
    BY <1>2, SessionNext
  <2>6. SignalInv' /\ FreedOnlyQuiet'
    BY <1>2, SignalNext, FreedNext
  <2> QED
    BY <2>1, <2>2, <2>3, <2>4, <2>5, <2>6
<1> QED
  BY <1>1, <1>2, PTL DEF Spec

(* TypeOK: types, and the bound of the command queue, whoever appends.     *)
THEOREM MqttTypeCorrect == Spec => []TypeOK
<1>1. MqttInv => TypeOK
  BY TypedIsOK DEF MqttInv
<1> QED
  BY <1>1, MqttInvariant, PTL

(* SingleLoop: one task runs the agent, process_running says whether.      *)
THEOREM OneLoop == Spec => []SingleLoop
<1>1. MqttInv => SingleLoop
  BY DEF MqttInv
<1> QED
  BY <1>1, MqttInvariant, PTL

(* ConnectedIsServed: a client that takes commands has a task for them.    *)
THEOREM ConnectedServed == Spec => []ConnectedIsServed
<1>1. MqttInv => ConnectedIsServed
  BY DEF MqttInv
<1> QED
  BY <1>1, MqttInvariant, PTL

(* FreedOnlyQuiet: actrust_mqtt_deinit frees a client no counted call is   *)
(* inside and no task is still to enter; at most one task has the post of  *)
(* lifecycle_done_sem left, which the run of ProcessReturned shows.        *)
THEOREM FreedQuiet == Spec => []FreedOnlyQuiet
<1>1. MqttInv => FreedOnlyQuiet
  BY DEF MqttInv
<1> QED
  BY <1>1, MqttInvariant, PTL

(* SubscriptionsLive: a topic held for subscribed is one the broker        *)
(* delivers, for any number of connections, losses and late answers.       *)
THEOREM TopicsDelivered == Spec => []SubscriptionsLive
<1>1. MqttInv => SubscriptionsLive
  BY DEF MqttInv, SessionInv, SubscriptionsLive, Delivered, Settled
<1> QED
  BY <1>1, MqttInvariant, PTL
=============================================================================
