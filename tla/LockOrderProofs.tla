-------------------------- MODULE LockOrderProofs --------------------------
(***************************************************************************)
(* The log's mutex outlives its users, for any number of threads: proofs   *)
(* about LockOrder that assume nothing of its constants.                   *)
(***************************************************************************)
EXTENDS LockOrder, TLAPS

\* Whoever uses the mutex was admitted, and an admitted writer keeps it alive: the
\* state says the mutex exists, and closing waits for the count to reach zero.
WritersAdmitted ==
  /\ \A t \in Threads : pc[t] \in {"output", "print"} => t \in writers
  /\ \A t \in sink : pc[t] = "print"
MutexCounted ==
  /\ writers # {} => sinkLive
  /\ logState # "UNINIT" => sinkLive

Inv == TypeOK /\ WritersAdmitted /\ MutexCounted

\* The log is initialised, and no thread uses it yet.
LEMMA InitInv == Init => Inv
  BY DEF Init, Inv, TypeOK, WritersAdmitted, MutexCounted, Pcs

\* Submitting a job touches the gate and the core lock only.
LEMMA SubmitInv ==
  ASSUME Inv, NEW t \in Threads, SubmitGate(t) \/ SubmitCore(t) \/ Post(t)
  PROVE  Inv'
  BY DEF Inv, TypeOK, WritersAdmitted, MutexCounted, Pcs, SubmitGate, SubmitCore,
     Post, At, Goto

\* Neither does the downlink handler touch the log, before it writes to it.
LEMMA HandleInv ==
  ASSUME Inv, NEW t \in Threads,
         HandleLock(t) \/ HandleApply(t) \/ HandleDrop(t) \/ LogWrite(t)
  PROVE  Inv'
  BY DEF Inv, TypeOK, WritersAdmitted, MutexCounted, Pcs, HandleLock, HandleApply,
     HandleDrop, LogWrite, At, Goto

\* A writer is admitted when the mutex exists, and is counted until it is done.
LEMMA WriterInv ==
  ASSUME Inv, NEW t \in Threads,
         \/ WriterAcquire(t) \/ OutputLock(t) \/ OutputUnlock(t)
         \/ WriterRelease(t) \/ LogReturn(t)
  PROVE  Inv'
  <1>1. CASE WriterAcquire(t)
    BY <1>1 DEF Inv, TypeOK, WritersAdmitted, MutexCounted, Pcs, WriterAcquire, At,
       Goto
  <1>2. CASE OutputLock(t)
    BY <1>2 DEF Inv, TypeOK, WritersAdmitted, MutexCounted, Pcs, OutputLock, At, Goto
  <1>3. CASE OutputUnlock(t)
    BY <1>3 DEF Inv, TypeOK, WritersAdmitted, MutexCounted, Pcs, OutputUnlock, At,
       Goto
  <1>4. CASE WriterRelease(t)
    BY <1>4 DEF Inv, TypeOK, WritersAdmitted, MutexCounted, Pcs, WriterRelease, At,
       Goto
  <1>5. CASE LogReturn(t)
    BY <1>5 DEF Inv, TypeOK, WritersAdmitted, MutexCounted, Pcs, LogReturn, At, Goto
  <1> QED BY <1>1, <1>2, <1>3, <1>4, <1>5

\* The mutex is created and destroyed with the state, and never under a writer.
LEMMA LogStateInv ==
  ASSUME Inv, NEW t \in Threads, LogInit(t) \/ LogDeinit(t) \/ LogClose(t)
  PROVE  Inv'
  <1>1. CASE LogInit(t)
    BY <1>1 DEF Inv, TypeOK, WritersAdmitted, MutexCounted, Pcs, LogInit, At
  <1>2. CASE LogDeinit(t)
    BY <1>2 DEF Inv, TypeOK, WritersAdmitted, MutexCounted, Pcs, LogDeinit, At, Goto
  <1>3. CASE LogClose(t)
    BY <1>3 DEF Inv, TypeOK, WritersAdmitted, MutexCounted, Pcs, LogClose, At, Goto
  <1> QED BY <1>1, <1>2, <1>3

\* Every step of every thread preserves the invariant.
LEMMA NextInv == Inv /\ [Next]_vars => Inv'
  <1> SUFFICES ASSUME Inv, [Next]_vars PROVE Inv'
    OBVIOUS
  <1>1. CASE UNCHANGED vars
    BY <1>1 DEF Inv, TypeOK, WritersAdmitted, MutexCounted, vars
  <1>2. CASE Next
    <2>1. PICK t \in Threads : Step(t)
      BY <1>2 DEF Next
    <2> QED
      BY <2>1, SubmitInv, HandleInv, WriterInv, LogStateInv DEF Step
  <1> QED BY <1>1, <1>2

\* The log's mutex exists whenever a thread locks, holds or unlocks it, however
\* actrust_log_deinit (log.c:180) interleaves with the writers it admitted.
THEOREM LogSinkSafe == Spec => []SinkOutlivesWriters
  <1>1. Inv => SinkOutlivesWriters
    BY DEF Inv, TypeOK, WritersAdmitted, MutexCounted, SinkOutlivesWriters
  <1> QED BY InitInv, NextInv, <1>1, PTL DEF Spec
=============================================================================
