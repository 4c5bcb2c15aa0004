---------------------------- MODULE HelperTasks ----------------------------
(***************************************************************************)
(* The structures the helper tasks of core_ops.c live on, used at once:    *)
(* the MQTT callback stores messages in the downlink queue and the         *)
(* downlink task takes them out, the NTP task synchronises the NTP client  *)
(* and the service task asks it for the time, while the owner of both      *)
(* takes them down.  As queue.h and ntp.h ask, no call starts after the    *)
(* teardown has begun; calls that were admitted before it may be anywhere. *)
(***************************************************************************)
EXTENDS BoundedQueue, NtpClient

vars == <<queueVars, ntpVars>>

Init == QueueInit /\ NtpInit

Next ==
  \/ (\E t \in Threads : QueueStep(t)) /\ UNCHANGED ntpVars
  \/ CloserStep /\ UNCHANGED ntpVars
  \/ (\E u \in Users : UserStep(u)) /\ UNCHANGED queueVars
  \/ DeinitStep /\ UNCHANGED queueVars

(* Threads inside a call are scheduled, and get a lock that is released    *)
(* again and again; nobody has to start a call, nor to repeat a destroy    *)
(* that failed.                                                            *)
Fairness ==
  /\ \A u \in Users : SF_vars(upc[u] # "idle" /\ UserStep(u) /\ UNCHANGED queueVars)
  /\ WF_vars((DeinitIdle \/ DeinitDestroy) /\ UNCHANGED queueVars)
  /\ \A t \in Threads : SF_vars(qpc[t] # "idle" /\ QueueStep(t) /\ UNCHANGED ntpVars)
  /\ WF_vars(/\ AwaitQuiescent \/ (closer = "destroying" /\ Destroy)
             /\ UNCHANGED ntpVars)

Spec == Init /\ [][Next]_vars /\ Fairness

-----------------------------------------------------------------------------
(* The state of the queue and of the NTP client is well formed; an NTP     *)
(* offset in use is within the configured limit.                           *)
TypeOK == QueueTypeOK /\ NtpTypeOK

(* actrust_queue_destroy and actrust_ntp_deinit free their object only     *)
(* after the last thread has given up its last lock of it.                 *)
FreedOnlyQuiet ==
  /\ qstate = "FREED" => \A t \in Threads : qpc[t] = "idle"
  /\ ntp = "freed" => \A u \in Users : upc[u] = "idle"

(* A teardown that has to wait for calls in progress returns: the polling  *)
(* queue_wait_quiescent of actrust_queue_destroy, which then frees the     *)
(* queue or reports that a lock is held, and the NTP client's wait for     *)
(* idle_sem.                                                               *)
TeardownsEnd ==
  /\ closer = "waiting" ~> closer \in {"failed", "done"}
  /\ deinit = "waiting" ~> deinit = "done"
=============================================================================
