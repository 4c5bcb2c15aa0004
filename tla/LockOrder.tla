----------------------------- MODULE LockOrder -----------------------------
(***************************************************************************)
(* The two locks that every part of the SDK meets, and the log that uses   *)
(* one of them: the lifecycle gate (adapter/system.h, not recursive), the  *)
(* core lock (core_service.c), and log.c, which admits each writer under   *)
(* the gate and prints under a mutex of its own.                           *)
(*                                                                         *)
(* Callers are application threads inside core_submit_job, Handlers the    *)
(* downlink task, Owners the threads that initialise and close the log; any *)
(* thread may write to the log. A lock is the set of the threads that hold *)
(* it. An admission or release of a writer takes the gate and gives it back *)
(* without waiting for anything, and is one step. Nothing is assumed of    *)
(* the constants.                                                          *)
(***************************************************************************)
CONSTANTS Callers, Handlers, Owners

VARIABLES
  gate,      \* g_lifecycle_gate
  core,      \* ctx->lock
  sink,      \* s_log_mutex is held
  sinkLive,  \* s_log_mutex exists
  logState,  \* s_log_state
  writers,   \* the writers s_log_active_writers counts
  pc         \* where each thread is

vars == <<gate, core, sink, sinkLive, logState, writers, pc>>

Threads == Callers \cup Handlers \cup Owners

Pcs == {"idle", "submit", "post", "handle", "acquire", "output", "print",
        "release", "return", "close", "sleep"}

\* actrust_init has initialised the log.
Init ==
  /\ gate = {} /\ core = {} /\ sink = {}
  /\ sinkLive = TRUE /\ logState = "READY" /\ writers = {}
  /\ pc = [t \in Threads |-> "idle"]

At(t, p) == pc[t] = p
Goto(t, p) == pc' = [pc EXCEPT ![t] = p]

----------------------------------------------------------------------------
(* core_submit_job: the gate, then the core lock                            *)

\* A call that is refused (no core, or a deinit is pending) gives the gate back
\* at once and changes nothing.
SubmitGate(t) ==
  /\ t \in Callers /\ At(t, "idle")
  /\ gate = {} /\ gate' = {t}
  /\ Goto(t, "submit")
  /\ UNCHANGED <<core, sink, sinkLive, logState, writers>>

SubmitCore(t) ==
  /\ At(t, "submit")
  /\ core = {} /\ core' = {t}
  /\ Goto(t, "post")
  /\ UNCHANGED <<gate, sink, sinkLive, logState, writers>>

\* The state is checked, the job posted, and both locks are given back.
Post(t) ==
  /\ At(t, "post")
  /\ core' = {} /\ gate' = {}
  /\ Goto(t, "idle")
  /\ UNCHANGED <<sink, sinkLive, logState, writers>>

----------------------------------------------------------------------------
(* core_handle_challenge and core_handle_register_result: the core lock     *)

HandleLock(t) ==
  /\ t \in Handlers /\ At(t, "idle")
  /\ core = {} /\ core' = {t}
  /\ Goto(t, "handle")
  /\ UNCHANGED <<gate, sink, sinkLive, logState, writers>>

HandleApply(t) ==
  /\ At(t, "handle")
  /\ core' = {}
  /\ Goto(t, "idle")
  /\ UNCHANGED <<gate, sink, sinkLive, logState, writers>>

\* A dropped message is logged with the core lock held.
HandleDrop(t) ==
  /\ At(t, "handle")
  /\ Goto(t, "acquire")
  /\ UNCHANGED <<gate, core, sink, sinkLive, logState, writers>>

----------------------------------------------------------------------------
(* actrust_log_write                                                        *)

\* Everywhere else a message is logged without a lock.
LogWrite(t) ==
  /\ At(t, "idle")
  /\ Goto(t, "acquire")
  /\ UNCHANGED <<gate, core, sink, sinkLive, logState, writers>>

\* log_writer_acquire, under the gate.
WriterAcquire(t) ==
  /\ At(t, "acquire")
  /\ gate = {}
  /\ \/ /\ logState = "READY"
        /\ writers' = writers \cup {t}
        /\ Goto(t, "output")
     \/ /\ logState # "READY"
        /\ Goto(t, "return")
        /\ UNCHANGED writers
  /\ UNCHANGED <<gate, core, sink, sinkLive, logState>>

OutputLock(t) ==
  /\ At(t, "output")
  /\ sink = {} /\ sink' = {t}
  /\ Goto(t, "print")
  /\ UNCHANGED <<gate, core, sinkLive, logState, writers>>

OutputUnlock(t) ==
  /\ At(t, "print")
  /\ sink' = {}
  /\ Goto(t, "release")
  /\ UNCHANGED <<gate, core, sinkLive, logState, writers>>

\* log_writer_release, under the gate.
WriterRelease(t) ==
  /\ At(t, "release")
  /\ gate = {}
  /\ writers' = writers \ {t}
  /\ Goto(t, "return")
  /\ UNCHANGED <<gate, core, sink, sinkLive, logState>>

\* Back in the caller; the downlink handler unlocks the core.
LogReturn(t) ==
  /\ At(t, "return")
  /\ core' = core \ {t}
  /\ Goto(t, "idle")
  /\ UNCHANGED <<gate, sink, sinkLive, logState, writers>>

----------------------------------------------------------------------------
(* actrust_log_init and actrust_log_deinit, called with the gate held       *)

LogInit(t) ==
  /\ t \in Owners /\ At(t, "idle")
  /\ gate = {}
  /\ logState = "UNINIT"
  /\ logState' = "READY" /\ sinkLive' = TRUE
  /\ UNCHANGED <<gate, core, sink, writers, pc>>

LogDeinit(t) ==
  /\ t \in Owners
  /\ At(t, "idle") \/ At(t, "sleep")
  /\ gate = {} /\ gate' = {t}
  /\ Goto(t, "close")
  /\ UNCHANGED <<core, sink, sinkLive, logState, writers>>

\* One turn of the loop: refused once the log is closed; the gate is given up
\* while a writer is still there; otherwise the mutex goes.
LogClose(t) ==
  /\ At(t, "close")
  /\ gate' = {}
  /\ \/ /\ logState = "UNINIT"
        /\ Goto(t, "idle")
        /\ UNCHANGED <<sinkLive, logState>>
     \/ /\ logState # "UNINIT" /\ writers # {}
        /\ logState' = "CLOSING"
        /\ Goto(t, "sleep")
        /\ UNCHANGED sinkLive
     \/ /\ logState # "UNINIT" /\ writers = {}
        /\ logState' = "UNINIT" /\ sinkLive' = FALSE
        /\ Goto(t, "idle")
  /\ UNCHANGED <<core, sink, writers>>

----------------------------------------------------------------------------
Step(t) ==
  \/ SubmitGate(t) \/ SubmitCore(t) \/ Post(t)
  \/ HandleLock(t) \/ HandleApply(t) \/ HandleDrop(t)
  \/ LogWrite(t) \/ WriterAcquire(t) \/ OutputLock(t) \/ OutputUnlock(t)
  \/ WriterRelease(t) \/ LogReturn(t)
  \/ LogInit(t) \/ LogDeinit(t) \/ LogClose(t)

Next == \E t \in Threads : Step(t)

Spec == Init /\ [][Next]_vars

----------------------------------------------------------------------------
\* The shape of the state.
TypeOK ==
  /\ gate \subseteq Threads /\ core \subseteq Threads /\ sink \subseteq Threads
  /\ sinkLive \in BOOLEAN
  /\ logState \in {"UNINIT", "READY", "CLOSING"}
  /\ writers \subseteq Threads
  /\ pc \in [Threads -> Pcs]

WaitsForGate(t) == pc[t] \in {"acquire", "release"} /\ gate # {}
WaitsForCore(t) == At(t, "submit") /\ core # {}

\* log.h:125-126: the log writer "is thread-safe", so that a task may log whatever
\* lock it holds. No two threads wait for each other: one holding the gate and
\* waiting for the core lock, the other holding the core lock and waiting, in the
\* log, for the gate. Both waits are without a time limit.
NoCircularWait ==
  ~ \E t, u \in Threads :
      /\ t \in gate /\ WaitsForCore(t)
      /\ u \in core /\ WaitsForGate(u)

\* log_deinit destroys the output mutex only when no admitted writer can still lock
\* or unlock it (log.c:180-219 against 221-344).
SinkOutlivesWriters ==
  \A t \in Threads : pc[t] \in {"output", "print"} \/ t \in sink => sinkLive
=============================================================================
